--------------------------- MODULE JwksCacheProofs ---------------------------
(***************************************************************************)
(* How long a rotated key can be refused and a withdrawn one be accepted,  *)
(* for any number of keys and threads and any durations.  The invariant    *)
(* says of every response, on its way, cached or in the hands of a thread, *)
(* how old the difference between it and what the key server now publishes *)
(* can be.                                                                 *)
(***************************************************************************)
EXTENDS JwksCache, TLAPS

(* The keys were those published at or after the time from.                 *)
Reflects(keys, from) ==
  \A k \in Kids :
    /\ k \in keys /\ since[k] = None => withdrawn[k] \in Nat /\ withdrawn[k] >= from
    /\ k \notin keys /\ since[k] # None => since[k] >= from

DataOK(data) ==
  /\ data.fetchedAt \in Nat /\ data.maxAge \in Nat /\ data.fetchedAt <= clock
  /\ Reflects(data.keys, data.fetchedAt - HttpTimeout)

CacheOK ==
  cache # None =>
    DataOK(cache.data) /\ cache.expires = cache.data.fetchedAt + cache.data.maxAge

LoadOK ==
  load # None =>
    /\ load.by \in Threads /\ Reads(load.by) /\ ~Live
    /\ load.started \in Nat /\ load.started <= clock
    /\ clock <= load.started + HttpTimeout
    /\ load.keys # None => Reflects(load.keys, load.started)

PCs == {"done", "get", "decide", "invalidate", "getAgain", "check"}

(* What a thread knows: its data, and, after it has invalidated the cache,  *)
(* that what it reads then was fetched since it was called.                 *)
CallOK(t) ==
  /\ call[t].pc \in PCs /\ call[t].began \in Nat /\ call[t].began <= clock
  /\ call[t].pc # "done" => call[t].kid \in Kids
  /\ call[t].pc \in {"decide", "check"} =>
       /\ DataOK(call[t].data) /\ call[t].at \in Nat
       /\ call[t].at <= call[t].data.fetchedAt + call[t].data.maxAge
  /\ call[t].pc = "check" => call[t].data.fetchedAt >= call[t].began
  /\ call[t].pc = "getAgain" /\ cache # None => cache.data.fetchedAt >= call[t].began

IInv ==
  /\ clock \in Nat /\ since \in [Kids -> Nat \cup {None}]
  /\ withdrawn \in [Kids -> Nat \cup {None}]
  /\ \A k \in Kids : since[k] # None => since[k] <= clock
  /\ CacheOK /\ LoadOK
  /\ call = [t \in Threads |-> call[t]] /\ \A t \in Threads : CallOK(t)

USE JwksAssumption
-----------------------------------------------------------------------------
(* Rotation: what was true of a response stays true, for a key that changes *)
(* does so now.                                                             *)
LEMMA ReflectsStays ==
  ASSUME IInv, NEW keys, NEW from \in Int, from <= clock, Reflects(keys, from),
         (\E k \in Kids : Publish(k) \/ Withdraw(k)) \/ UNCHANGED <<since, withdrawn>>
  PROVE  Reflects(keys, from)'
<1> SUFFICES ASSUME NEW k \in Kids
             PROVE  /\ k \in keys /\ since'[k] = None =>
                         withdrawn'[k] \in Nat /\ withdrawn'[k] >= from
                    /\ k \notin keys /\ since'[k] # None => since'[k] >= from
  BY DEF Reflects
<1>1. CASE since'[k] = since[k] /\ withdrawn'[k] = withdrawn[k]
  BY <1>1 DEF Reflects
<1>2. CASE Publish(k)
  BY <1>2 DEF Publish, IInv
<1>3. CASE Withdraw(k)
  BY <1>3 DEF Withdraw, IInv
<1>4. QED  BY <1>1, <1>2, <1>3 DEF Publish, Withdraw, IInv

(* A response stays what it is while keys rotate and time passes.           *)
LEMMA DataStays ==
  ASSUME IInv, NEW CONSTANT data, DataOK(data), clock' \in Nat, clock <= clock',
         (\E k \in Kids : Publish(k) \/ Withdraw(k)) \/ UNCHANGED <<since, withdrawn>>
  PROVE  DataOK(data)'
<1>1. data.fetchedAt \in Nat /\ data.maxAge \in Nat /\ data.fetchedAt <= clock
  BY DEF DataOK
<1>2. clock \in Nat /\ HttpTimeout \in Nat
  BY DEF IInv
<1>3. data.fetchedAt - HttpTimeout \in Int /\ data.fetchedAt - HttpTimeout <= clock
  BY <1>1, <1>2
<1>4. Reflects(data.keys, data.fetchedAt - HttpTimeout)
  BY DEF DataOK
<1>5. Reflects(data.keys, data.fetchedAt - HttpTimeout)'
  BY <1>3, <1>4, ReflectsStays
<1>6. QED  BY <1>1, <1>2, <1>5 DEF DataOK

(* Rotation and time leave every response and every call as they are.       *)
LEMMA WorldKeeps ==
  ASSUME IInv, UNCHANGED <<cache, load, call>>, clock' \in Nat, clock <= clock',
         (\E k \in Kids : Publish(k) \/ Withdraw(k)) \/ UNCHANGED <<since, withdrawn>>,
         load # None => clock' <= load.started + HttpTimeout
  PROVE  CacheOK' /\ LoadOK' /\ \A t \in Threads : CallOK(t)'
<1>1. CacheOK'
  <2> SUFFICES ASSUME cache # None PROVE DataOK(cache.data)'
    BY DEF CacheOK, IInv
  <2>1. DataOK(cache.data)  BY DEF CacheOK, IInv
  <2>2. PICK data : data = cache.data  OBVIOUS
  <2>3. DataOK(data)'  BY <2>1, <2>2, DataStays
  <2>4. QED  BY <2>2, <2>3
<1>2. LoadOK'
  <2> SUFFICES ASSUME load # None PROVE LoadOK'
    BY DEF LoadOK
  <2>1. load.keys # None => Reflects(load.keys, load.started)'
    BY ReflectsStays DEF LoadOK, IInv
  <2>2. ~Live'
    BY <2>1 DEF LoadOK, IInv, Live, CacheOK, DataOK
  <2>3. QED  BY <2>1, <2>2 DEF LoadOK, IInv, Reads
<1>3. ASSUME NEW t \in Threads PROVE CallOK(t)'
  <2>1. CallOK(t) /\ clock \in Nat
    BY DEF IInv
  <2>2. CASE call[t].pc \in {"decide", "check"}
    <3>1. PICK data : data = call[t].data  OBVIOUS
    <3>2. DataOK(data)'  BY <2>1, <2>2, <3>1, DataStays DEF CallOK
    <3>3. QED  BY <2>1, <2>2, <3>1, <3>2 DEF CallOK
  <2>3. CASE call[t].pc \notin {"decide", "check"}
    BY <2>1, <2>3 DEF CallOK
  <2>4. QED  BY <2>2, <2>3
<1>4. QED  BY <1>1, <1>2, <1>3

(* The steps of threads and loads change neither the keys nor the time.     *)
LEMMA SameWorld ==
  ASSUME UNCHANGED <<clock, since, withdrawn>>
  PROVE  \A data : DataOK(data)' <=> DataOK(data)
BY DEF DataOK, Reflects

(* A step of thread t that leaves cache and load alone, apart from others.  *)
LEMMA OneThreadMoves ==
  ASSUME IInv, UNCHANGED <<clock, since, withdrawn, cache>>, NEW t \in Threads, NEW x,
         call' = [call EXCEPT ![t] = x], CallOK(t)', LoadOK'
  PROVE  IInv'
<1>1. CacheOK'
  BY SameWorld DEF IInv, CacheOK
<1>2. ASSUME NEW u \in Threads PROVE CallOK(u)'
  <2>1. CASE u = t  BY <2>1
  <2>2. CASE u # t
    <3>1. call'[u] = call[u] /\ CallOK(u)  BY <2>2 DEF IInv
    <3>2. QED  BY <3>1, SameWorld DEF CallOK
  <2>3. QED  BY <2>1, <2>2
<1>3. QED  BY <1>1, <1>2 DEF IInv

(* A load is not disturbed by a thread that does not make it.               *)
LEMMA LoadStays ==
  ASSUME IInv, UNCHANGED <<clock, since, withdrawn, cache, load>>, NEW t \in Threads,
         ~Reads(t), NEW x, call' = [call EXCEPT ![t] = x]
  PROVE  LoadOK'
<1> SUFFICES ASSUME load # None PROVE LoadOK'
  BY DEF LoadOK
<1>1. LoadOK /\ load.by # t
  BY DEF IInv, LoadOK
<1>2. call'[load.by] = call[load.by]
  BY <1>1 DEF IInv, LoadOK
<1>3. QED  BY <1>1, <1>2 DEF LoadOK, Reads, Live, Reflects

(* A thread returns.                                                        *)
LEMMA ReturnKeeps ==
  ASSUME IInv, UNCHANGED <<clock, since, withdrawn, cache>>, NEW t \in Threads,
         NEW result, Return(t, result), LoadOK'
  PROVE  IInv'
<1>1. call' = [call EXCEPT ![t] = Returned(result)]
  BY DEF Return
<1>2. call'[t].pc = "done" /\ call'[t].began = 0
  BY <1>1 DEF IInv, Returned
<1>3. CallOK(t)'
  BY <1>2 DEF CallOK, PCs, IInv
<1>4. QED  BY <1>1, <1>3, OneThreadMoves

(* A call that begins has nothing in hand and leaves the cached keys alone. *)
LEMMA GetKeyKeeps ==
  ASSUME IInv, NEW t \in Threads, NEW k \in Kids, GetKey(t, k)
  PROVE  IInv'
<1> DEFINE x == [pc |-> "get", kid |-> k, data |-> None, began |-> clock, at |-> 0,
                 result |-> None]
<1>1. call' = [call EXCEPT ![t] = x] /\ call'[t] = x
  BY DEF GetKey, IInv
<1>2. CallOK(t)'
  BY <1>1 DEF CallOK, PCs, IInv, GetKey
<1>3. LoadOK'
  BY <1>1, LoadStays DEF GetKey, Reads
<1>4. QED  BY <1>1, <1>2, <1>3, OneThreadMoves DEF GetKey

(* Hit: the entry has not expired, and there is no load.                    *)
LEMMA HitKeeps ==
  ASSUME IInv, NEW t \in Threads, Hit(t)
  PROVE  IInv'
<1> DEFINE x == [pc |-> IF call[t].pc = "get" THEN "decide" ELSE "check",
                 kid |-> call[t].kid, data |-> cache.data, began |-> call[t].began,
                 at |-> clock, result |-> None]
<1>1. call' = [call EXCEPT ![t] = x] /\ call'[t] = x
  BY DEF Hit, Got, IInv
<1>2. CallOK(t) /\ call[t].pc \in {"get", "getAgain"} /\ clock \in Nat
  BY DEF IInv, Hit, Reads
<1>3. DataOK(cache.data) /\ clock <= cache.data.fetchedAt + cache.data.maxAge
  BY DEF Hit, Live, IInv, CacheOK, DataOK
<1>4. DataOK(cache.data)'
  BY <1>3, SameWorld DEF Hit
<1>5. x.pc = "check" => cache.data.fetchedAt >= call[t].began
  BY <1>2 DEF CallOK, Hit, Live
<1>6. CallOK(t)'
  BY <1>1, <1>2, <1>3, <1>4, <1>5 DEF CallOK, PCs, Hit
<1>7. LoadOK'
  BY DEF Hit, IInv, LoadOK
<1>8. QED  BY <1>1, <1>6, <1>7, OneThreadMoves DEF Hit

(* Miss: the entry is not live, the discovery begins now.                   *)
LEMMA MissKeeps ==
  ASSUME IInv, NEW t \in Threads, Miss(t)
  PROVE  IInv'
<1>1. load' = [by |-> t, uri |-> FALSE, started |-> clock, keys |-> None]
  BY DEF Miss
<1>2. LoadOK'
  BY <1>1 DEF Miss, LoadOK, Reads, Live, IInv
<1>3. CacheOK' /\ \A u \in Threads : CallOK(u)'
  BY SameWorld DEF Miss, IInv, CacheOK, CallOK
<1>4. QED  BY <1>2, <1>3 DEF Miss, IInv

(* The discovery has ended, or the key server has answered.                 *)
LEMMA ExchangeKeeps ==
  ASSUME IInv, FetchJwksUri \/ Respond
  PROVE  IInv'
<1>1. LoadOK /\ clock \in Nat /\ load # None
  BY DEF IInv, FetchJwksUri, Respond
<1>2. UNCHANGED <<clock, since, withdrawn, cache, call>>
  BY DEF FetchJwksUri, Respond
<1>3. ASSUME FetchJwksUri PROVE LoadOK'
  BY <1>1, <1>2, <1>3 DEF FetchJwksUri, LoadOK, Reads, Live, IInv
<1>4. ASSUME Respond PROVE LoadOK'
  BY <1>1, <1>2, <1>4 DEF Respond, LoadOK, Reads, Live, Reflects, Published
<1>5. CacheOK' /\ \A u \in Threads : CallOK(u)'
  BY <1>2, SameWorld DEF IInv, CacheOK, CallOK
<1>6. LoadOK'
  BY <1>3, <1>4
<1>7. QED  BY <1>2, <1>5, <1>6 DEF IInv

(* FetchJwks: the response is stamped, cached, and given to its loader.     *)
LEMMA FetchJwksKeeps ==
  ASSUME IInv, FetchJwks
  PROVE  IInv'
<1> DEFINE t == load.by
<1>1. LoadOK /\ load # None /\ load.keys # None /\ clock \in Nat
  BY DEF IInv, FetchJwks
<1>2. t \in Threads /\ CallOK(t) /\ call[t].pc \in {"get", "getAgain"}
  BY <1>1 DEF LoadOK, Reads, IInv
<1>3. PICK age \in MaxAges :
        LET data == [keys |-> load.keys, maxAge |-> age, fetchedAt |-> clock]
        IN  cache' = [data |-> data, expires |-> ExpiresAt(data)] /\ Got(t, data)
  BY DEF FetchJwks
<1> DEFINE data == [keys |-> load.keys, maxAge |-> age, fetchedAt |-> clock]
           x == [pc |-> IF call[t].pc = "get" THEN "decide" ELSE "check",
                 kid |-> call[t].kid, data |-> data, began |-> call[t].began,
                 at |-> clock, result |-> None]
<1>4. UNCHANGED <<clock, since, withdrawn>> /\ load' = None
  BY DEF FetchJwks
<1>5. DataOK(data)
  <2>1. clock - HttpTimeout <= load.started /\ load.started \in Nat
    BY <1>1 DEF LoadOK
  <2>2. Reflects(load.keys, load.started)
    BY <1>1 DEF LoadOK
  <2>3. Reflects(load.keys, clock - HttpTimeout)
    <3> SUFFICES ASSUME NEW k \in Kids
                 PROVE  /\ k \in load.keys /\ since[k] = None =>
                             withdrawn[k] \in Nat /\ withdrawn[k] >= clock - HttpTimeout
                        /\ k \notin load.keys /\ since[k] # None =>
                             since[k] >= clock - HttpTimeout
      BY DEF Reflects
    <3>1. HttpTimeout \in Nat /\ since[k] \in Nat \cup {None}
      BY DEF IInv
    <3>2. QED  BY <1>1, <2>1, <2>2, <3>1 DEF Reflects
  <2>4. /\ data.keys = load.keys /\ data.maxAge = age /\ data.fetchedAt = clock
        /\ age \in Nat
    OBVIOUS
  <2> HIDE DEF data
  <2>5. QED  BY <1>1, <2>3, <2>4 DEF DataOK
<1>6. /\ clock' \in Nat /\ data.fetchedAt <= clock' /\ DataOK(data)
      /\ \A d : DataOK(d)' <=> DataOK(d)
  BY <1>1, <1>4, <1>5, SameWorld
<1>7. call' = [call EXCEPT ![t] = x]
  BY <1>3 DEF Got
<1>8. cache'.data = data /\ cache'.expires = clock + age
  BY <1>3 DEF ExpiresAt
<1>9. CacheOK'
  BY <1>6, <1>8 DEF CacheOK
<1>10. ASSUME NEW u \in Threads PROVE CallOK(u)'
  <2>1. CallOK(u) /\ call[u].began <= clock
    BY DEF IInv, CallOK
  <2>2. CASE u = t
    <3>1. call'[u] = x  BY <1>7, <2>2 DEF IInv
    <3>2. x.began \in Nat /\ x.began <= clock /\ x.kid \in Kids
      BY <1>2 DEF CallOK
    <3> HIDE DEF t
    <3>3. x.pc \in {"decide", "check"} /\ x.data = data /\ x.at = clock
      OBVIOUS
    <3>4. data.fetchedAt = clock /\ data.maxAge = age
      OBVIOUS
    <3> HIDE DEF x, data
    <3>5. QED  BY <1>1, <1>4, <1>6, <3>1, <3>2, <3>3, <3>4 DEF CallOK, PCs
  <2>3. CASE u # t
    <3>1. call'[u] = call[u]  BY <1>7, <2>3 DEF IInv
    <3>2. cache'.data.fetchedAt >= call[u].began
      BY <1>1, <1>8, <2>1
    <3>3. QED  BY <1>4, <2>1, <3>1, <3>2, SameWorld DEF CallOK
  <2>4. QED  BY <2>2, <2>3
<1>11. QED
  BY <1>4, <1>7, <1>9, <1>10 DEF IInv, LoadOK

(* FetchFails: its loader gets the exception.                               *)
LEMMA FetchFailsKeeps ==
  ASSUME IInv, FetchFails
  PROVE  IInv'
<1>1. load.by \in Threads /\ LoadOK'
  BY DEF IInv, LoadOK, FetchFails
<1>2. QED  BY <1>1, ReturnKeeps DEF FetchFails

(* Decide: the key is there, missing, or worth a refresh.                   *)
LEMMA DecideKeeps ==
  ASSUME IInv, NEW t \in Threads, Decide(t)
  PROVE  IInv'
<1>1. ~Reads(t) /\ UNCHANGED <<clock, since, withdrawn, cache, load>> /\ CallOK(t)
  BY DEF Decide, Reads, IInv
<1>2. ASSUME NEW result, Return(t, result) PROVE IInv'
  BY <1>1, <1>2, LoadStays, ReturnKeeps DEF Return
<1> DEFINE x == [pc |-> "invalidate", kid |-> call[t].kid, data |-> None,
                 began |-> call[t].began, at |-> 0, result |-> None]
<1>3. CASE call' = [call EXCEPT ![t] = x]
  <2>1. call'[t] = x
    BY <1>3 DEF IInv
  <2>2. call[t].kid \in Kids
    BY <1>1 DEF CallOK, Decide
  <2>3. CallOK(t)'
    BY <1>1, <2>1, <2>2 DEF CallOK, PCs
  <2>4. QED  BY <1>1, <1>3, <2>3, LoadStays, OneThreadMoves
<1>4. QED  BY <1>2, <1>3 DEF Decide

(* Check: the key is there or missing.                                      *)
LEMMA CheckKeeps ==
  ASSUME IInv, NEW t \in Threads, Check(t)
  PROVE  IInv'
<1>1. ~Reads(t) /\ UNCHANGED <<clock, since, withdrawn, cache, load>>
  BY DEF Check, Reads
<1>2. PICK result : Return(t, result)
  BY DEF Check
<1>3. QED  BY <1>1, <1>2, LoadStays, ReturnKeeps DEF Return

(* Invalidate: nothing is cached now, so what is read next is newer.        *)
LEMMA InvalidateKeeps ==
  ASSUME IInv, NEW t \in Threads, Invalidate(t)
  PROVE  IInv'
<1> DEFINE x == [pc |-> "getAgain", kid |-> call[t].kid, data |-> None,
                 began |-> call[t].began, at |-> 0, result |-> None]
<1>1. /\ call' = [call EXCEPT ![t] = x] /\ cache' = None /\ load' = None
      /\ UNCHANGED <<clock, since, withdrawn>>
  BY DEF Invalidate
<1>2. ASSUME NEW u \in Threads PROVE CallOK(u)'
  <2>1. CallOK(u)
    BY DEF IInv
  <2>2. CASE u = t
    <3>1. call'[u] = x  BY <1>1, <2>2 DEF IInv
    <3>2. QED  BY <1>1, <2>1, <2>2, <3>1 DEF CallOK, PCs, Invalidate
  <2>3. CASE u # t
    <3>1. call'[u] = call[u]  BY <1>1, <2>3 DEF IInv
    <3>2. QED  BY <1>1, <2>1, <3>1, SameWorld DEF CallOK
  <2>4. QED  BY <2>2, <2>3
<1>3. QED  BY <1>1, <1>2 DEF IInv, CacheOK, LoadOK

(* Nothing is cached at first, and every call has returned.                 *)
LEMMA InitIInv == Init => IInv
<1> SUFFICES ASSUME Init PROVE IInv
  OBVIOUS
<1>1. since \in [Kids -> Nat \cup {None}] /\ \A k \in Kids : since[k] # None => since[k] <= clock
  BY DEF Init
<1>2. ASSUME NEW t \in Threads PROVE CallOK(t)
  BY DEF Init, CallOK, Returned, PCs
<1>3. QED  BY <1>1, <1>2 DEF Init, IInv, CacheOK, LoadOK

(* Every step keeps the invariant.                                          *)
LEMMA NextIInv == IInv /\ [Next]_vars => IInv'
<1> SUFFICES ASSUME IInv, [Next]_vars PROVE IInv'
  OBVIOUS
<1>1. clock \in Nat /\ (load # None => clock <= load.started + HttpTimeout)
  BY DEF IInv, LoadOK
<1>2. ASSUME NEW k \in Kids, Publish(k) \/ Withdraw(k) PROVE IInv'
  <2>1. UNCHANGED <<clock, cache, load, call>>
    BY <1>2 DEF Publish, Withdraw
  <2>2. CacheOK' /\ LoadOK' /\ \A t \in Threads : CallOK(t)'
    BY <1>1, <1>2, <2>1, WorldKeeps
  <2>3. /\ since' \in [Kids -> Nat \cup {None}]
        /\ withdrawn' \in [Kids -> Nat \cup {None}]
    BY <1>1, <1>2 DEF Publish, Withdraw, IInv
  <2>4. \A j \in Kids : since'[j] # None => since'[j] <= clock
    BY <1>1, <1>2 DEF Publish, Withdraw, IInv
  <2>5. QED  BY <2>1, <2>2, <2>3, <2>4 DEF IInv
<1>3. CASE Tick
  <2>1. /\ clock' = clock + 1 /\ UNCHANGED <<since, withdrawn, cache, load, call>>
        /\ load # None => clock < load.started + HttpTimeout
    BY <1>3 DEF Tick
  <2>2. load # None => load.started \in Nat
    BY DEF IInv, LoadOK
  <2>3. CacheOK' /\ LoadOK' /\ \A t \in Threads : CallOK(t)'
    BY <1>1, <2>1, <2>2, WorldKeeps
  <2>4. QED  BY <1>1, <2>1, <2>3 DEF IInv
<1>4. ASSUME NEW t \in Threads, NEW k \in Kids, GetKey(t, k) PROVE IInv'
  BY <1>4, GetKeyKeeps
<1>5. ASSUME NEW t \in Threads, Step(t) PROVE IInv'
  BY <1>5, HitKeeps, MissKeeps, DecideKeeps, InvalidateKeeps, CheckKeeps DEF Step
<1>6. CASE FetchJwksUri \/ Respond
  BY <1>6, ExchangeKeeps
<1>7. CASE FetchJwks
  BY <1>7, FetchJwksKeeps
<1>8. CASE FetchFails
  BY <1>8, FetchFailsKeeps
<1>9. CASE UNCHANGED vars
  <2>1. UNCHANGED <<clock, since, withdrawn, cache, load, call>>
    BY <1>9 DEF vars
  <2>2. CacheOK' /\ LoadOK' /\ \A t \in Threads : CallOK(t)'
    BY <1>1, <2>1, WorldKeeps
  <2>3. QED  BY <2>1, <2>2 DEF IInv
<1>10. QED
  BY <1>2, <1>3, <1>4, <1>5, <1>6, <1>7, <1>8, <1>9 DEF Next

(* The invariant holds always.                                              *)
LEMMA IInvAlways == Spec => []IInv
BY InitIInv, NextIInv, PTL DEF Spec

-----------------------------------------------------------------------------
(* A thread is moved by its own steps and by the end of its load.           *)
LEMMA ReturnsFrom ==
  ASSUME IInv, [Next]_vars, NEW t \in Threads, NEW result, result # None,
         Returns(t, result)
  PROVE  Decide(t) \/ Check(t)
<1>1. call = [u \in Threads |-> call[u]] /\ call'[t] # call[t] /\ call' # call
  BY DEF IInv, Returns
<1>2. ASSUME NEW u \in Threads, NEW x, call' = [call EXCEPT ![u] = x]
      PROVE  u = t /\ call'[t] = x
  BY <1>1, <1>2
<1>3. ASSUME NEW u \in Threads, NEW k \in Kids, GetKey(u, k) PROVE FALSE
  BY <1>2, <1>3 DEF GetKey, Returns
<1>4. ASSUME NEW u \in Threads, NEW data, Got(u, data) PROVE FALSE
  BY <1>2, <1>4 DEF Got, Returns
<1>5. ~FetchFails
  <2> SUFFICES ASSUME FetchFails PROVE FALSE
    OBVIOUS
  <2>1. load.by \in Threads  BY DEF FetchFails, IInv, LoadOK
  <2>2. call'[t] = Returned(None)  BY <1>2, <2>1 DEF FetchFails, Return
  <2>3. QED  BY <2>2 DEF Returned, Returns
<1>6. ~FetchJwks
  <2> SUFFICES ASSUME FetchJwks PROVE FALSE
    OBVIOUS
  <2>1. load.by \in Threads  BY DEF FetchJwks, IInv, LoadOK
  <2>2. QED  BY <1>4, <2>1 DEF FetchJwks
<1>7. ASSUME NEW u \in Threads, Step(u) PROVE Decide(t) \/ Check(t)
  <2>1. ~Hit(u) /\ ~Miss(u)
    BY <1>1, <1>4 DEF Hit, Miss
  <2>2. ~Invalidate(u)
    BY <1>2 DEF Invalidate, Returns
  <2>3. CASE Decide(u)
    <3>1. \E x : call' = [call EXCEPT ![u] = x]  BY <2>3 DEF Decide, Return
    <3>2. QED  BY <1>2, <2>3, <3>1
  <2>4. CASE Check(u)
    <3>1. \E x : call' = [call EXCEPT ![u] = x]  BY <2>4 DEF Check, Return
    <3>2. QED  BY <1>2, <2>4, <3>1
  <2>5. QED  BY <1>7, <2>1, <2>2, <2>3, <2>4 DEF Step
<1>8. QED
  BY <1>1, <1>3, <1>5, <1>6, <1>7
  DEF Next, vars, Publish, Withdraw, Tick, FetchJwksUri, Respond

(* A rotated-in key is refused for no longer than MIN_REFRESH_INTERVAL and  *)
(* an HTTP exchange, whatever the max-age and the number of threads.        *)
THEOREM RotatedKeysAreSeen == Spec => RotationIsSeen
<1> DEFINE Seen(t) ==
      Returns(t, "missing") /\ since[call[t].kid] # None =>
        since[call[t].kid] >= call[t].began - MinRefresh - HttpTimeout
<1>1. ASSUME IInv, [Next]_vars, NEW t \in Threads PROVE Seen(t)
  <2> SUFFICES ASSUME Returns(t, "missing"), since[call[t].kid] # None
               PROVE  since[call[t].kid] >= call[t].began - MinRefresh - HttpTimeout
    OBVIOUS
  <2> DEFINE k == call[t].kid
             data == call[t].data
             began == call[t].began
  <2>1. /\ CallOK(t) /\ clock \in Nat /\ call = [u \in Threads |-> call[u]]
        /\ MinRefresh \in Nat /\ HttpTimeout \in Nat
    BY <1>1 DEF IInv
  <2>2. Decide(t) \/ Check(t)
    BY <1>1, ReturnsFrom
  <2>3. k \in Kids /\ k \notin data.keys /\ DataOK(data)
    <3>1. CASE Decide(t)
      BY <2>1, <3>1 DEF Decide, Return, Returned, Returns, CallOK
    <3>2. CASE Check(t)
      BY <2>1, <3>2 DEF Check, Return, Returned, Returns, CallOK
    <3>3. QED  BY <2>2, <3>1, <3>2
  <2>4. since[k] \in Nat /\ since[k] >= data.fetchedAt - HttpTimeout
    BY <1>1, <2>3 DEF DataOK, Reflects, IInv
  <2>5. data.fetchedAt \in Nat /\ began \in Nat /\ began <= clock
    BY <2>1, <2>3 DEF DataOK, CallOK
  <2>6. data.fetchedAt >= began - MinRefresh
    <3>1. CASE Decide(t)
      <4>1. clock <= data.fetchedAt + MinRefresh
        BY <2>1, <2>5, <3>1 DEF Decide, Return, Returned, Returns, ShouldAttemptRefresh
      <4> HIDE DEF data, began
      <4>2. QED  BY <2>1, <2>5, <4>1
    <3>2. CASE Check(t)
      <4>1. data.fetchedAt >= began
        BY <2>1, <3>2 DEF Check, CallOK
      <4> HIDE DEF data, began
      <4>2. QED  BY <2>1, <2>5, <4>1
    <3>3. QED  BY <2>2, <3>1, <3>2
  <2> HIDE DEF data
  <2>7. QED  BY <2>1, <2>4, <2>5, <2>6
<1>2. IInv /\ [Next]_vars => \A t \in Threads : Seen(t)
  BY <1>1
<1>3. QED  BY <1>2, IInvAlways, PTL DEF RotationIsSeen, Spec

(* A withdrawn key is accepted for no longer than the max-age it came with  *)
(* and an HTTP exchange, although every lookup of it is a hit.              *)
THEOREM WithdrawnKeysExpire == Spec => WithdrawalIsSeen
<1> DEFINE Gone(t) ==
      Returns(t, "found") /\ since[call[t].kid] = None =>
        call[t].at <= withdrawn[call[t].kid] + call[t].data.maxAge + HttpTimeout
<1>1. ASSUME IInv, [Next]_vars, NEW t \in Threads PROVE Gone(t)
  <2> SUFFICES ASSUME Returns(t, "found"), since[call[t].kid] = None
               PROVE  call[t].at <= withdrawn[call[t].kid] + call[t].data.maxAge
                                      + HttpTimeout
    OBVIOUS
  <2> DEFINE k == call[t].kid
             data == call[t].data
  <2>1. CallOK(t) /\ call = [u \in Threads |-> call[u]] /\ HttpTimeout \in Nat
    BY <1>1 DEF IInv
  <2>2. Decide(t) \/ Check(t)
    BY <1>1, ReturnsFrom
  <2>3. k \in Kids /\ k \in data.keys
    <3>1. CASE Decide(t)
      BY <2>1, <3>1 DEF Decide, Return, Returned, Returns, CallOK
    <3>2. CASE Check(t)
      BY <2>1, <3>2 DEF Check, Return, Returned, Returns, CallOK
    <3>3. QED  BY <2>2, <3>1, <3>2
  <2>4. DataOK(data) /\ call[t].at \in Nat /\ call[t].at <= data.fetchedAt + data.maxAge
    BY <2>1, <2>2 DEF CallOK, Decide, Check
  <2>5. withdrawn[k] \in Nat /\ withdrawn[k] >= data.fetchedAt - HttpTimeout
    BY <2>3, <2>4 DEF DataOK, Reflects
  <2>6. data.fetchedAt \in Nat /\ data.maxAge \in Nat
    BY <2>4 DEF DataOK
  <2> HIDE DEF data
  <2>7. QED  BY <2>1, <2>4, <2>5, <2>6 DEF data
<1>2. IInv /\ [Next]_vars => \A t \in Threads : Gone(t)
  BY <1>1
<1>3. QED  BY <1>2, IInvAlways, PTL DEF WithdrawalIsSeen, Spec
=============================================================================
