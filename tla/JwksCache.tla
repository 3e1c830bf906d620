------------------------------ MODULE JwksCache ------------------------------
(***************************************************************************)
(* OidcJwksKeyFetcher: the keys that verify the callers' tokens, cached    *)
(* for the max-age of the response they came in, and fetched again early   *)
(* when a caller asks for a key that is not among them.  Request threads   *)
(* share one Caffeine entry.  A load is two HTTP exchanges, the discovery  *)
(* of the key server and the request for its keys: the server answers, and *)
(* the result is stored and stamped; a thread that needs the entry         *)
(* meanwhile waits for that load.                                          *)
(***************************************************************************)
EXTENDS Integers

CONSTANTS
  Kids,         \* key identifiers
  Threads,      \* request threads
  MaxAges,      \* max-age values the key server sends
  MinRefresh,   \* MIN_REFRESH_INTERVAL
  HttpTimeout,  \* HTTP_TIMEOUT
  MaxClock,     \* bound on the clock
  None

ASSUME JwksAssumption ==
  /\ MaxAges \subseteq Nat /\ MaxAges # {}
  /\ MinRefresh \in Nat /\ HttpTimeout \in Nat /\ MaxClock \in Nat
  /\ None \notin {"found", "missing"}

VARIABLES
  clock,      \* instantSource.millis()
  since,      \* kid -> when the key server began to publish it, or None
  withdrawn,  \* kid -> when it last ceased to, or None
  cache,      \* the entry for CACHE_KEY, or None
  load,       \* the load in progress, or None
  call        \* thread -> its getKey call

vars == <<clock, since, withdrawn, cache, load, call>>

Times == 0 .. MaxClock
Published == {k \in Kids : since[k] # None}

(* A call that has returned result.                                         *)
Returned(result) == [pc |-> "done", kid |-> None, data |-> None, began |-> 0, at |-> 0,
                     result |-> result]

JwksData == [keys : SUBSET Kids, maxAge : MaxAges, fetchedAt : Times]

Init ==
  /\ clock = 0
  /\ \E P \in SUBSET Kids : since = [k \in Kids |-> IF k \in P THEN 0 ELSE None]
  /\ withdrawn = [k \in Kids |-> None]
  /\ cache = None /\ load = None
  /\ call = [t \in Threads |-> Returned(None)]

-----------------------------------------------------------------------------
(* The key server rotates its keys; it uses the id of a key only once.      *)
Publish(k) ==
  /\ since[k] = None /\ withdrawn[k] = None
  /\ since' = [since EXCEPT ![k] = clock]
  /\ UNCHANGED <<clock, withdrawn, cache, load, call>>

Withdraw(k) ==
  /\ since[k] # None
  /\ since' = [since EXCEPT ![k] = None]
  /\ withdrawn' = [withdrawn EXCEPT ![k] = clock]
  /\ UNCHANGED <<clock, cache, load, call>>

(* An HTTP exchange ends, one way or the other, within HTTP_TIMEOUT.        *)
Tick ==
  /\ clock < MaxClock
  /\ load # None => clock < load.started + HttpTimeout
  /\ clock' = clock + 1
  /\ UNCHANGED <<since, withdrawn, cache, load, call>>

-----------------------------------------------------------------------------
(* JwksExpiry: from the max-age of the response; reads leave it as it is.   *)
ExpiresNever(data) == clock + MaxClock + 1
ExpiresAt(data) == clock + data.maxAge

Live == cache # None /\ clock < cache.expires

(* The data a thread gets from cache.get, and the time it got it.           *)
Got(t, data) ==
  call' = [call EXCEPT ![t] =
             [pc |-> IF @.pc = "get" THEN "decide" ELSE "check", kid |-> @.kid,
              data |-> data, began |-> @.began, at |-> clock, result |-> None]]

Return(t, result) ==
  call' = [call EXCEPT ![t] = Returned(result)]

GetKey(t, k) ==
  /\ call[t].pc = "done"
  /\ call' = [call EXCEPT ![t] = [pc |-> "get", kid |-> k, data |-> None,
                                  began |-> clock, at |-> 0, result |-> None]]
  /\ UNCHANGED <<clock, since, withdrawn, cache, load>>

Reads(t) == call[t].pc \in {"get", "getAgain"}

Hit(t) ==
  /\ Reads(t) /\ Live
  /\ Got(t, cache.data)
  /\ UNCHANGED <<clock, since, withdrawn, cache, load>>

Miss(t) ==
  /\ Reads(t) /\ ~Live /\ load = None
  /\ load' = [by |-> t, uri |-> FALSE, started |-> clock, keys |-> None]
  /\ UNCHANGED <<clock, since, withdrawn, cache, call>>

(* fetchJwksUri: the discovery document names the key server.               *)
FetchJwksUri ==
  /\ load # None /\ ~load.uri
  /\ load' = [by |-> load.by, uri |-> TRUE, started |-> clock, keys |-> None]
  /\ UNCHANGED <<clock, since, withdrawn, cache, call>>

(* The key server answers 200 with the keys it publishes now.               *)
Respond ==
  /\ load # None /\ load.uri /\ load.keys = None
  /\ load' = [by |-> load.by, uri |-> TRUE, started |-> load.started,
              keys |-> Published]
  /\ UNCHANGED <<clock, since, withdrawn, cache, call>>

(* fetchJwks returns: the response is parsed and stamped, and the loader's  *)
(* thread goes on with it whatever its max-age.                             *)
FetchJwks ==
  /\ load # None /\ load.keys # None
  /\ \E age \in MaxAges :
       LET data == [keys |-> load.keys, maxAge |-> age, fetchedAt |-> clock]
       IN  /\ cache' = [data |-> data, expires |-> ExpiresAt(data)]
           /\ Got(load.by, data)
  /\ load' = None
  /\ UNCHANGED <<clock, since, withdrawn>>

(* The discovery or the JWKS request fails, or the body does not parse: the *)
(* exception leaves getKey, nothing is stored and the next thread may load. *)
FetchFailsStuck ==
  /\ load # None
  /\ Return(load.by, None)
  /\ UNCHANGED <<clock, since, withdrawn, cache, load>>

FetchFails ==
  /\ load # None
  /\ Return(load.by, None)
  /\ load' = None
  /\ UNCHANGED <<clock, since, withdrawn, cache>>

ShouldAttemptRefreshNever(data) == FALSE
ShouldAttemptRefresh(data) == clock > data.fetchedAt + MinRefresh

(* After the first cache.get: a key that is there is returned; one that is  *)
(* not is missing, or worth a refresh.                                      *)
Decide(t) ==
  /\ call[t].pc = "decide"
  /\ \/ call[t].kid \in call[t].data.keys /\ Return(t, "found")
     \/ /\ call[t].kid \notin call[t].data.keys
        /\ ShouldAttemptRefresh(call[t].data)
        /\ call' = [call EXCEPT ![t] =
             [pc |-> "invalidate", kid |-> @.kid, data |-> None, began |-> @.began,
              at |-> 0, result |-> None]]
     \/ /\ call[t].kid \notin call[t].data.keys
        /\ ~ShouldAttemptRefresh(call[t].data)
        /\ Return(t, "missing")
  /\ UNCHANGED <<clock, since, withdrawn, cache, load>>

(* cache.invalidate waits for a load of the same key to end.                *)
Invalidate(t) ==
  /\ call[t].pc = "invalidate" /\ load = None
  /\ cache' = None
  /\ call' = [call EXCEPT ![t] =
                [pc |-> "getAgain", kid |-> @.kid, data |-> None,
                 began |-> @.began, at |-> 0, result |-> None]]
  /\ UNCHANGED <<clock, since, withdrawn, load>>

(* After the second cache.get.                                              *)
Check(t) ==
  /\ call[t].pc = "check"
  /\ Return(t, IF call[t].kid \in call[t].data.keys THEN "found" ELSE "missing")
  /\ UNCHANGED <<clock, since, withdrawn, cache, load>>

Step(t) == Hit(t) \/ Miss(t) \/ Decide(t) \/ Invalidate(t) \/ Check(t)

Next ==
  \/ \E k \in Kids : Publish(k) \/ Withdraw(k)
  \/ Tick
  \/ \E t \in Threads : (\E k \in Kids : GetKey(t, k)) \/ Step(t)
  \/ FetchJwksUri \/ Respond \/ FetchJwks \/ FetchFails

Spec == Init /\ [][Next]_vars

(* Threads run, one that waits for the cache's lock gets it in the end, and *)
(* an HTTP exchange ends with an answer or a timeout.                       *)
FairSpec ==
  /\ Spec
  /\ \A t \in Threads : SF_vars(Step(t))
  /\ WF_vars(FetchJwksUri \/ Respond) /\ WF_vars(FetchJwks \/ FetchFails)

-----------------------------------------------------------------------------
(* The cache holds a whole parsed response and its expiry, and a load and a *)
(* call are where the code can leave them.                                  *)
TypeOK ==
  /\ clock \in Times
  /\ since \in [Kids -> Times \cup {None}]
  /\ withdrawn \in [Kids -> Times \cup {None}]
  /\ cache # None => cache.data \in JwksData /\ cache.expires \in Nat
  /\ load # None => /\ load.by \in Threads /\ load.uri \in BOOLEAN /\ load.started \in Times
                    /\ load.keys \in SUBSET Kids \cup {None}
                    /\ Reads(load.by)
  /\ \A t \in Threads :
       /\ call[t].pc \in {"done", "get", "decide", "invalidate", "getAgain", "check"}
       /\ call[t].data \in JwksData \cup {None} /\ {call[t].began, call[t].at} \subseteq Times
       /\ call[t].result \in {None, "found", "missing"}

(* Thread t returns from getKey with result in this step.                   *)
Returns(t, result) ==
  call[t].pc # "done" /\ call'[t].pc = "done" /\ call'[t].result = result

(* getKey reports a key as missing only if the key server did not publish   *)
(* it already MIN_REFRESH_INTERVAL and one HTTP exchange before the call: a *)
(* rotated-in key is refused for no longer than that, however long the      *)
(* max-age and however threads share the refresh.                           *)
RotationIsSeen ==
  [][\A t \in Threads :
       Returns(t, "missing") /\ since[call[t].kid] # None =>
         since[call[t].kid] >= call[t].began - MinRefresh - HttpTimeout]_vars

(* The key getKey returns was still published no longer ago than the        *)
(* max-age it came with and one HTTP exchange, when the thread read it: a   *)
(* withdrawn key goes out of use although every lookup of it is a hit.      *)
WithdrawalIsSeen ==
  [][\A t \in Threads :
       Returns(t, "found") /\ since[call[t].kid] = None =>
         call[t].at <= withdrawn[call[t].kid] + call[t].data.maxAge + HttpTimeout]_vars

(* Every getKey call returns, also those that wait for another thread's     *)
(* load and that load fails.                                                *)
LookupReturns == \A t \in Threads : call[t].pc # "done" ~> call[t].pc = "done"
=============================================================================
