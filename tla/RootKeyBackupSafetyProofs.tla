--------------------- MODULE RootKeyBackupSafetyProofs ----------------------
(***************************************************************************)
(* The safety invariants of RootKeyBackup, by induction.  The argument     *)
(* about the store needs no lock: putIfAbsent in a fixed order, with the   *)
(* certificate last, is enough.                                            *)
(***************************************************************************)
EXTENDS RootKeyBackupProofs

(* Mere abbreviations, expanded throughout.                                *)
USE DEF IfNoneMatch, MoreElements, FailureUnderLock

(* No artifact is written twice.                                            *)
LEMMA WriteOrderInjective ==
  \A k, m \in 1 .. 4 : WriteOrder[k] = WriteOrder[m] => k = m
<1>1. \A k \in 1 .. 4 : k = 1 \/ k = 2 \/ k = 3 \/ k = 4
  OBVIOUS
<1> QED  BY <1>1, WriteOrderFacts

(* Every artifact is written.                                               *)
LEMMA WriteOrderOnto ==
  \A a \in Elements : \E k \in 1 .. 4 : a = WriteOrder[k]
BY WriteOrderFacts DEF Elements, PublicElements, PrivateElements

-----------------------------------------------------------------------------
(* The first n artifacts of epoch e in the write order are those of b.      *)
Prefix(e, n, b) == \A k \in 1 .. n : store[e][WriteOrder[k]] = b

(* Whatever is stored was preceded by the same bundle's earlier artifacts,  *)
(* and so is whatever a writer or a late request may still put.             *)
StoreOrdered ==
  \A e \in Epochs : \A k \in 1 .. 4 :
    store[e][WriteOrder[k]] # None => Prefix(e, k - 1, store[e][WriteOrder[k]])
WritersOwn ==
  \A i \in Instances : \A e \in missing[i] :
    pc[i] = "Write" /\ IsFirst(e, missing[i]) => Prefix(e, written[i], bundle[i])
LateOwn ==
  \A r \in latePuts : \A k \in 1 .. 4 :
    r[2] = WriteOrder[k] => Prefix(r[1], k - 1, r[3])

StoreInv == TypeOK /\ WriterOK /\ StoreOrdered /\ WritersOwn /\ LateOwn

Grows ==
  \A e \in Epochs : \A a \in Elements :
    store[e][a] # None => store'[e][a] = store[e][a]

(* A conditional put adds an artifact and changes none.                     *)
LEMMA PutGrows ==
  ASSUME TypeOK, NEW e \in Epochs, NEW a \in Elements, NEW b,
         store' = StoreWith(e, a, b)
  PROVE  Grows
BY DEF TypeOK, StoreWith, IfAbsent, Grows

(* A put at the end of a prefix of the write order leaves a prefix.         *)
LEMMA PrefixGrows ==
  ASSUME Grows, NEW e \in Epochs, NEW n \in 0 .. 4, NEW b, b # None,
         Prefix(e, n, b)
  PROVE  Prefix(e, n, b)'
<1> SUFFICES ASSUME NEW k \in 1 .. n PROVE store'[e][WriteOrder[k]] = b
  BY DEF Prefix
<1>1. store[e][WriteOrder[k]] = b /\ WriteOrder[k] \in Elements
  BY WriteOrderFacts DEF Prefix
<1> QED  BY <1>1 DEF Grows

(* Putting the artifact that is next for b keeps the store in order.        *)
LEMMA PutKeepsOrder ==
  ASSUME TypeOK, StoreOrdered, NEW e \in Epochs, NEW k \in 1 .. 4,
         NEW b \in Bundles, Prefix(e, k - 1, b), PutStep(e, k, b)
  PROVE  StoreOrdered'
<1> SUFFICES ASSUME NEW f \in Epochs, NEW m \in 1 .. 4,
                    store'[f][WriteOrder[m]] # None
             PROVE  Prefix(f, m - 1, store[f][WriteOrder[m]])'
  BY DEF StoreOrdered
<1> USE ConstantsAssumption
<1>0. WriteOrder[k] \in Elements /\ WriteOrder[m] \in Elements
  BY WriteOrderFacts
<1>1. Grows
  BY <1>0, PutGrows DEF PutStep
<1>2. CASE store[f][WriteOrder[m]] # None
  <2>1. store'[f][WriteOrder[m]] = store[f][WriteOrder[m]]
    BY <1>0, <1>1, <1>2 DEF Grows
  <2>2. Prefix(f, m - 1, store[f][WriteOrder[m]])
    BY <1>2 DEF StoreOrdered
  <2>3. m - 1 \in 0 .. 4
    OBVIOUS
  <2> DEFINE c == store[f][WriteOrder[m]]
  <2>4. \A j \in 1 .. m - 1 : store'[f][WriteOrder[j]] = c
    <3> SUFFICES ASSUME NEW j \in 1 .. m - 1
                 PROVE  store'[f][WriteOrder[j]] = c
      OBVIOUS
    <3>1. store[f][WriteOrder[j]] = c /\ j \in 1 .. 4
      BY <2>2 DEF Prefix
    <3> QED  BY <3>1, <1>1, <1>2, WriteOrderFacts DEF Grows
  <2> QED  BY <2>1, <2>4 DEF Prefix
<1>3. CASE store[f][WriteOrder[m]] = None
  <2>1. f = e /\ WriteOrder[m] = WriteOrder[k] /\ store'[f][WriteOrder[m]] = b
    BY <1>0, <1>3 DEF PutStep, StoreWith, IfAbsent, TypeOK
  <2>2. m = k
    BY <2>1, WriteOrderInjective
  <2>3. \A j \in 1 .. m - 1 : store'[f][WriteOrder[j]] = b
    <3> SUFFICES ASSUME NEW j \in 1 .. m - 1
                 PROVE  store'[f][WriteOrder[j]] = b
      OBVIOUS
    <3>1. store[f][WriteOrder[j]] = b /\ j \in 1 .. 4
      BY <2>1, <2>2 DEF Prefix
    <3> QED  BY <3>1, <1>1, WriteOrderFacts DEF Grows
  <2> QED  BY <2>1, <2>3 DEF Prefix
<1> QED  BY <1>2, <1>3

(* Nobody writes while the operator cleans up.                              *)
LEMMA CleanUpQuiet ==
  ASSUME NEW e \in Epochs, CleanUp(e)
  PROVE  /\ \A i \in Instances : pc'[i] = pc[i] /\ pc[i] # "Write"
         /\ latePuts' = {}
         /\ "CERT" \notin Present(e)
         /\ store' = [store EXCEPT ![e] = [a \in Elements |-> None]]
BY DEF CleanUp, Quiet, Critical, local, Partial, HandleState

(* Only the operator's clean-up removes artifacts.                          *)
LEMMA NextGrows ==
  ASSUME StoreInv, [Next]_vars
  PROVE  Grows \/ \E e \in Epochs : CleanUp(e)
<1>1. CASE store' = store
  BY <1>1 DEF Grows
<1>2. ASSUME NEW i \in Instances, NEW e \in missing[i],
             PutStep(e, written[i] + 1, bundle[i])
      PROVE  Grows
  <2>1. e \in Epochs /\ WriteOrder[written[i] + 1] \in Elements
    BY WrittenType, WriteOrderFacts DEF StoreInv, TypeOK
  <2> QED  BY <1>2, <2>1, PutGrows DEF PutStep, StoreInv
<1>3. ASSUME NEW r \in latePuts, store' = StoreWith(r[1], r[2], r[3])
      PROVE  Grows
  BY <1>3, PutGrows DEF StoreInv, TypeOK
<1> QED  BY <1>1, <1>2, <1>3, StoreSteps DEF StoreInv

(* Every step keeps each backup a prefix of the write order.                *)
LEMMA NextStoreOrdered == StoreInv /\ [Next]_vars => StoreOrdered'
<1> SUFFICES ASSUME StoreInv, [Next]_vars PROVE StoreOrdered'
  OBVIOUS
<1>1. CASE store' = store
  BY <1>1 DEF StoreInv, StoreOrdered, Prefix
<1>2. ASSUME NEW i \in Instances, NEW e \in missing[i], pc[i] = "Write",
             IsFirst(e, missing[i]), PutStep(e, written[i] + 1, bundle[i])
      PROVE  StoreOrdered'
  <2>1. Prefix(e, written[i], bundle[i])
    BY <1>2 DEF StoreInv, WritersOwn
  <2>2. e \in Epochs /\ bundle[i] \in Bundles
    BY <1>2 DEF StoreInv, WriterOK, TypeOK
  <2>3. written[i] + 1 \in 1 .. 4 /\ (written[i] + 1) - 1 = written[i]
    BY WrittenType DEF StoreInv
  <2> QED  BY <1>2, <2>1, <2>2, <2>3, PutKeepsOrder DEF StoreInv
<1>3. ASSUME NEW r \in latePuts, store' = StoreWith(r[1], r[2], r[3])
      PROVE  StoreOrdered'
  <2>1. r[1] \in Epochs /\ r[2] \in Elements /\ r[3] \in Bundles
    BY DEF StoreInv, TypeOK
  <2>2. PICK k \in 1 .. 4 : r[2] = WriteOrder[k]
    BY <2>1, WriteOrderOnto
  <2>3. Prefix(r[1], k - 1, r[3])
    BY <2>2 DEF StoreInv, LateOwn
  <2> QED  BY <1>3, <2>1, <2>2, <2>3, PutKeepsOrder DEF StoreInv, PutStep
<1>4. ASSUME NEW e \in Epochs, CleanUp(e) PROVE StoreOrdered'
  <2> SUFFICES ASSUME NEW f \in Epochs, NEW m \in 1 .. 4,
                      store'[f][WriteOrder[m]] # None
               PROVE  Prefix(f, m - 1, store[f][WriteOrder[m]])'
    BY DEF StoreOrdered
  <2>1. f # e
    BY <1>4, CleanUpQuiet, WriteOrderFacts DEF StoreInv, TypeOK
  <2>2. store'[f] = store[f]
    BY <1>4, <2>1, CleanUpQuiet DEF StoreInv, TypeOK
  <2> QED  BY <2>2 DEF StoreInv, StoreOrdered, Prefix
<1> QED  BY <1>1, <1>2, <1>3, <1>4, StoreSteps DEF StoreInv

(* Every step keeps the writer's own artifacts, once one is stored.         *)
LEMMA NextWritersOwn == StoreInv /\ [Next]_vars => WritersOwn'
<1> SUFFICES ASSUME StoreInv, [Next]_vars, NEW j \in Instances,
                    NEW e \in missing'[j], pc'[j] = "Write",
                    IsFirst(e, missing'[j])
             PROVE  Prefix(e, written[j], bundle[j])'
  BY DEF WritersOwn, IsFirst
<1>1. TypeOK' /\ WriterOK'
  BY NextType, NextWriter DEF StoreInv
<1>2. e \in Epochs /\ bundle'[j] \in Bundles /\ bundle'[j] # None
  BY <1>1, ConstantsAssumption DEF TypeOK, WriterOK
<1>3. written'[j] \in 0 .. 3
  BY <1>1 DEF TypeOK
<1>4. CASE \E f \in Epochs : CleanUp(f)
  BY <1>4, CleanUpQuiet
<1>5. CASE Grows /\ /\ pc'[j] = pc[j] /\ missing'[j] = missing[j]
                    /\ bundle'[j] = bundle[j] /\ written'[j] = written[j]
  <2>1. Prefix(e, written[j], bundle[j])
    BY <1>5 DEF StoreInv, WritersOwn
  <2>2. written[j] \in 0 .. 4 /\ bundle[j] # None
    BY <1>2, <1>3, <1>5
  <2>3. \A k \in 1 .. written[j] : store'[e][WriteOrder[k]] = bundle[j]
    BY <1>2, <1>5, <2>1, <2>2, WriteOrderFacts DEF Grows, Prefix
  <2> QED  BY <1>5, <2>3 DEF Prefix
<1>6. ASSUME Generated(j) PROVE Prefix(e, written[j], bundle[j])'
  BY <1>6 DEF Generated, Prefix
<1>7. ASSUME Grows, Put(j) PROVE Prefix(e, written[j], bundle[j])'
  <2>1. /\ pc[j] = "Write" /\ bundle'[j] = bundle[j]
        /\ missing'[j] = missing[j] /\ written'[j] = written[j] + 1
    BY <1>7 DEF Put
  <2>2. PICK f \in missing[j] :
               /\ IsFirst(f, missing[j])
               /\ store[f][NextElement(j)] = None
               /\ store' = StoreWith(f, NextElement(j), bundle[j])
    BY <1>7 DEF Put
  <2>3. f = e
    <3>1. missing[j] \subseteq Nat
      BY ConstantsAssumption DEF StoreInv, TypeOK
    <3> QED  BY <2>1, <2>2, <3>1 DEF IsFirst
  <2>4. Prefix(e, written[j], bundle[j]) /\ written[j] \in 0 .. 3
    BY <2>1, <2>2, <2>3, WrittenType DEF StoreInv, WritersOwn
  <2>5. store'[e][WriteOrder[written[j] + 1]] = bundle[j]
    <3>1. WriteOrder[written[j] + 1] \in Elements
      BY <2>4, WriteOrderFacts
    <3> QED  BY <1>2, <2>2, <2>3, <3>1
                DEF StoreInv, TypeOK, NextElement, StoreWith, IfAbsent
  <2>6. \A k \in 1 .. written[j] : store'[e][WriteOrder[k]] = bundle[j]
    BY <1>2, <1>7, <2>1, <2>4, WriteOrderFacts DEF Grows, Prefix
  <2> QED  BY <2>1, <2>4, <2>5, <2>6 DEF Prefix
<1>8. CASE Grows /\ Environment
  BY <1>5, <1>8, EnvironmentFrame
<1>9. ASSUME Grows, NEW i \in Instances, Step(i) \/ Crash(i)
      PROVE  Prefix(e, written[j], bundle[j])'
  <2>1. CASE i = j
    BY <1>6, <1>7, <1>9, <2>1, WriterStep
       DEF StoreInv, Outside, NextEpoch
  <2>2. CASE i # j
    BY <1>5, <1>9, <2>2, OthersUnchanged DEF StoreInv
  <2> QED  BY <2>1, <2>2
<1> QED  BY <1>4, <1>8, <1>9, NextGrows, NextSplit

(* Where an abandoned put comes from.                                       *)
LEMMA NewLatePuts ==
  ASSUME [Next]_vars, NEW r \in latePuts' \ latePuts
  PROVE  \E i \in Instances : \E e \in missing[i] :
           /\ pc[i] = "Write" /\ IsFirst(e, missing[i])
           /\ r = <<e, NextElement(i), bundle[i]>>
<1>1. CASE Environment
  BY <1>1 DEF Environment, LateLock, LatePut, LateUnlock, RemoveLock, CleanUp,
              Deploy, vars, remote
<1>2. ASSUME NEW i \in Instances, PutArtifact(i)
      PROVE  \E e \in missing[i] :
               /\ pc[i] = "Write" /\ IsFirst(e, missing[i])
               /\ r = <<e, NextElement(i), bundle[i]>>
  BY <1>2 DEF PutArtifact
<1>3. ASSUME NEW i \in Instances, Step(i) \/ Crash(i), ~PutArtifact(i)
      PROVE  FALSE
  BY <1>3 DEF Step, FetchConfig, ListPublic, ListFails, CheckMissing,
     AcquireLock, FindMissingUnderLock, Generate, ReleaseLock,
     ListForLoad, Load, Crash, remote
<1> QED  BY <1>1, <1>2, <1>3, NextSplit

(* Every step keeps what is known of the requests still under way.          *)
LEMMA NextLateOwn == StoreInv /\ [Next]_vars => LateOwn'
<1> SUFFICES ASSUME StoreInv, [Next]_vars, NEW r \in latePuts',
                    NEW k \in 1 .. 4, r[2] = WriteOrder[k]
             PROVE  Prefix(r[1], k - 1, r[3])'
  BY DEF LateOwn
<1>1. CASE \E f \in Epochs : CleanUp(f)
  BY <1>1, CleanUpQuiet
<1>2. CASE Grows /\ r \in latePuts
  <2>1. Prefix(r[1], k - 1, r[3])
    BY <1>2 DEF StoreInv, LateOwn
  <2>2. r[1] \in Epochs /\ r[3] # None
    BY <1>2, ConstantsAssumption DEF StoreInv, TypeOK
  <2> QED  BY <1>2, <2>1, <2>2, WriteOrderFacts DEF Grows, Prefix
<1>3. CASE Grows /\ r \notin latePuts
  <2>0. PICK i \in Instances : \E e \in missing[i] :
           /\ pc[i] = "Write" /\ IsFirst(e, missing[i])
           /\ r = <<e, NextElement(i), bundle[i]>>
    BY <1>3, NewLatePuts
  <2>1. PICK e \in missing[i] :
           /\ pc[i] = "Write" /\ IsFirst(e, missing[i])
           /\ r = <<e, NextElement(i), bundle[i]>>
    BY <2>0
  <2>2. e \in Epochs /\ bundle[i] # None
    BY <2>1, ConstantsAssumption DEF StoreInv, TypeOK, WriterOK
  <2>3. Prefix(e, written[i], bundle[i])
    BY <2>1 DEF StoreInv, WritersOwn
  <2>4. k = written[i] + 1
    <3>1. WriteOrder[written[i] + 1] = WriteOrder[k]
      BY <2>1 DEF NextElement
    <3> QED  BY <3>1, WrittenType, WriteOrderInjective DEF StoreInv
  <2>5. written[i] \in 0 .. 3
    BY WrittenType DEF StoreInv
  <2>6. \A m \in 1 .. written[i] : store'[e][WriteOrder[m]] = bundle[i]
    BY <1>3, <2>2, <2>3, <2>5, WriteOrderFacts DEF Grows, Prefix
  <2>7. r[1] = e /\ r[3] = bundle[i] /\ k - 1 = written[i]
    BY <2>1, <2>4, <2>5
  <2> QED  BY <2>6, <2>7 DEF Prefix
<1> QED  BY <1>1, <1>2, <1>3, NextGrows

(* The invariant of the store holds at first.                               *)
LEMMA InitStoreInv == Init => StoreInv
<1> SUFFICES ASSUME Init PROVE StoreInv
  OBVIOUS
<1>1. StoreOrdered
  BY WriteOrderFacts DEF Init, StoreOrdered
<1>2. WritersOwn /\ LateOwn
  BY DEF Init, WritersOwn, LateOwn
<1> QED  BY <1>1, <1>2, InitType, InitWriter DEF StoreInv

(* Every step preserves the invariant of the store.                         *)
LEMMA NextStoreInv == StoreInv /\ [Next]_vars => StoreInv'
BY NextType, NextWriter, NextStoreOrdered, NextWritersOwn, NextLateOwn
   DEF StoreInv

(* The store invariant: each backup is a prefix of the write order, from    *)
(* one generation.                                                          *)
THEOREM StoreInvariant == Spec => []StoreInv
BY InitStoreInv, NextStoreInv, PTL DEF Spec

-----------------------------------------------------------------------------
(* What the order of the store means.                                       *)
LEMMA OrderUnfolded ==
  ASSUME StoreInv, NEW e \in Epochs
  PROVE  LET s == store[e]
         IN /\ s["CERT"] # None => s["ATTESTATION_DOC"] = s["CERT"]
            /\ s["ATTESTATION_DOC"] # None =>
                 s["KMS_DATA_KEY"] = s["ATTESTATION_DOC"]
            /\ s["KMS_DATA_KEY"] # None => s["PRIVATE_KEY"] = s["KMS_DATA_KEY"]
<1>1. \A k \in 2 .. 4 : store[e][WriteOrder[k]] # None =>
        store[e][WriteOrder[k - 1]] = store[e][WriteOrder[k]]
  <2> SUFFICES ASSUME NEW k \in 2 .. 4, store[e][WriteOrder[k]] # None
               PROVE  store[e][WriteOrder[k - 1]] = store[e][WriteOrder[k]]
    OBVIOUS
  <2>1. Prefix(e, k - 1, store[e][WriteOrder[k]])
    BY DEF StoreInv, StoreOrdered
  <2> QED  BY <2>1 DEF Prefix
<1>2. /\ store[e][WriteOrder[4]] # None =>
           store[e][WriteOrder[3]] = store[e][WriteOrder[4]]
      /\ store[e][WriteOrder[3]] # None =>
           store[e][WriteOrder[2]] = store[e][WriteOrder[3]]
      /\ store[e][WriteOrder[2]] # None =>
           store[e][WriteOrder[1]] = store[e][WriteOrder[2]]
  BY <1>1
<1> QED  BY <1>2, WriteOrderFacts

(* A stored certificate stands for a complete backup of one bundle.         *)
LEMMA CertCompletes ==
  ASSUME StoreInv, NEW e \in Epochs, store[e]["CERT"] # None
  PROVE  \A a \in Elements : store[e][a] = store[e]["CERT"]
BY OrderUnfolded DEF Elements, PublicElements, PrivateElements

(* The artifacts of an epoch all come from one generation, whoever holds    *)
(* the lock, whatever fails and whatever request lands late.                *)
THEOREM NeverMixed == Spec => []NoMixedBackup
<1>1. StoreInv => NoMixedBackup
  <2> SUFFICES ASSUME StoreInv, NEW e \in Epochs,
                      NEW a \in Present(e), NEW b \in Present(e)
               PROVE  store[e][a] = store[e][b]
    BY DEF NoMixedBackup
  <2>1. /\ a \in Elements /\ store[e][a] # None
        /\ b \in Elements /\ store[e][b] # None
    BY DEF Present
  <2> QED  BY <2>1, OrderUnfolded DEF Elements, PublicElements, PrivateElements
<1> QED  BY <1>1, StoreInvariant, PTL

(* A stored certificate, and with it its backup, stays as it is.            *)
LEMMA CertKept ==
  ASSUME StoreInv, [Next]_vars, NEW e \in Epochs, store[e]["CERT"] # None
  PROVE  store'[e] = store[e]
<1>1. TypeOK'
  BY NextType DEF StoreInv
<1>2. store[e] \in [Elements -> Bundles \cup {None}]
      /\ store'[e] \in [Elements -> Bundles \cup {None}]
  BY <1>1 DEF StoreInv, TypeOK
<1>3. CASE Grows
  <2>1. \A a \in Elements : store'[e][a] = store[e][a]
    BY <1>3, CertCompletes DEF Grows
  <2> QED  BY <1>2, <2>1
<1>4. ASSUME NEW f \in Epochs, CleanUp(f) PROVE store'[e] = store[e]
  <2>1. "CERT" \in Present(e)
    BY DEF Present, Elements, PublicElements
  <2> QED  BY <1>4, <2>1, CleanUpQuiet DEF StoreInv, TypeOK
<1> QED  BY <1>3, <1>4, NextGrows

(* A backup whose certificate is stored never changes again.                *)
THEOREM CompletedStays == Spec => CompletedIsFinal
<1>1. StoreInv /\ [Next]_vars =>
        [\A e \in Epochs : "CERT" \in Present(e) => store'[e] = store[e]]_vars
  BY CertKept DEF Present
<1> QED  BY <1>1, StoreInvariant, PTL DEF Spec, CompletedIsFinal

-----------------------------------------------------------------------------
(* A certificate that a listing showed is stored, and the listing showed    *)
(* the attestation document with it.                                        *)
ListedOK ==
  \A i \in Instances : \A e \in Epochs : "CERT" \in listed[i][e] =>
    store[e]["CERT"] # None /\ "ATTESTATION_DOC" \in listed[i][e]

(* The listings of an instance grow by listing calls only.                  *)
LEMMA ListedSteps ==
  ASSUME TypeOK, NEW i \in Instances, Step(i) \/ Crash(i)
  PROVE  \/ listed'[i] = listed[i]
         \/ listed'[i] = NothingListed
         \/ listed'[i] = [e \in Epochs |-> Present(e) \cap PublicElements]
         \/ listed'[i] = Snapshot(i)
<1> USE DEF TypeOK, local
<1>1. CASE FetchConfig(i)  BY <1>1 DEF FetchConfig
<1>2. CASE ListPublic(i)  BY <1>2 DEF ListPublic
<1>3. CASE ListFails(i)
  BY <1>3 DEF ListFails, GenerationEnds, ReloadFails, IterationEnds
<1>4. CASE CheckMissing(i)  BY <1>4 DEF CheckMissing, GenerationEnds
<1>5. CASE AcquireLock(i)
  BY <1>5 DEF AcquireLock, AlreadyLocked, GenerationEnds
<1>6. CASE FindMissingUnderLock(i)  BY <1>6 DEF FindMissingUnderLock
<1>7. CASE Generate(i)  BY <1>7 DEF Generate, GenerationEnds
<1>8. CASE PutArtifact(i)  BY <1>8 DEF PutArtifact, GenerationEnds
<1>9. CASE ReleaseLock(i)  BY <1>9 DEF ReleaseLock, GenerationEnds
<1>10. CASE ListForLoad(i)  BY <1>10 DEF ListForLoad
<1>11. CASE Load(i)  BY <1>11 DEF Load, ReloadFails, IterationEnds
<1>12. CASE Crash(i)  BY <1>12 DEF Crash
<1> QED
  BY <1>1, <1>2, <1>3, <1>4, <1>5, <1>6, <1>7, <1>8, <1>9, <1>10, <1>11,
     <1>12 DEF Step

(* A listed certificate stays backed by all four artifacts.                 *)
LEMMA NextListed == StoreInv /\ ListedOK /\ [Next]_vars => ListedOK'
<1> SUFFICES ASSUME StoreInv, ListedOK, [Next]_vars, NEW j \in Instances,
                    NEW e \in Epochs, "CERT" \in listed'[j][e]
             PROVE  store'[e]["CERT"] # None
                    /\ "ATTESTATION_DOC" \in listed'[j][e]
  BY DEF ListedOK
<1>1. store[e]["CERT"] # None /\ "ATTESTATION_DOC" \in listed'[j][e]
  <2>1. CASE listed'[j] = listed[j]
    BY <2>1 DEF ListedOK
  <2>2. CASE listed'[j] = NothingListed
    BY <2>2 DEF NothingListed
  <2>3. CASE listed'[j] = [f \in Epochs |-> Present(f) \cap PublicElements]
    <3>1. store[e]["CERT"] # None
      BY <2>3 DEF Present
    <3>2. store[e]["ATTESTATION_DOC"] # None
      BY <3>1, CertCompletes DEF Elements, PublicElements
    <3> QED  BY <2>3, <3>1, <3>2 DEF Present, Elements, PublicElements
  <2>4. CASE listed'[j] = Snapshot(j)
    <3>1. "CERT" \in listed[j][e]
      BY <2>4 DEF Snapshot, PrivateElements
    <3> QED  BY <2>4, <3>1 DEF ListedOK, Snapshot
  <2>5. CASE Environment
    BY <2>1, <2>5, EnvironmentFrame
  <2>6. ASSUME NEW i \in Instances, Step(i) \/ Crash(i)
        PROVE  \/ listed'[j] = listed[j]
               \/ listed'[j] = NothingListed
               \/ listed'[j] = [f \in Epochs |-> Present(f) \cap PublicElements]
               \/ listed'[j] = Snapshot(j)
    BY <2>6, ListedSteps, OthersUnchanged DEF StoreInv
  <2> QED  BY <2>1, <2>2, <2>3, <2>4, <2>5, <2>6, NextSplit
<1> QED  BY <1>1, CertKept

(* No snapshot shows a certificate without the rest of its backup.          *)
THEOREM SentinelHolds == Spec => []NeverIncomplete
<1>1. Init => ListedOK
  BY DEF Init, ListedOK, NothingListed
<1>2. StoreInv /\ ListedOK => NeverIncomplete
  <2> SUFFICES ASSUME StoreInv, ListedOK, NEW i \in Instances,
                      NEW e \in Epochs, "CERT" \in Snapshot(i)[e]
               PROVE  Snapshot(i)[e] = Elements
    BY DEF NeverIncomplete, HandleState
  <2>1. "CERT" \in listed[i][e]
    BY DEF Snapshot, PrivateElements
  <2>2. store[e]["CERT"] # None /\ "ATTESTATION_DOC" \in listed[i][e]
    BY <2>1 DEF ListedOK
  <2>3. PrivateElements \subseteq Present(e)
    BY <2>2, CertCompletes DEF Present, Elements
  <2>4. Snapshot(i)[e] \subseteq Elements
    BY SnapshotType DEF StoreInv
  <2> QED  BY <2>1, <2>2, <2>3, <2>4 DEF Snapshot, Elements, PublicElements
<1> QED  BY <1>1, <1>2, NextListed, StoreInvariant, PTL DEF Spec

-----------------------------------------------------------------------------
(* Every configuration in use has an active epoch.                          *)
ConfigOK == \A i \in Instances : conf[i].active # {}

(* Every configuration fetched has an active epoch.                         *)
LEMMA NextConfig == TypeOK /\ ConfigOK /\ [Next]_vars => ConfigOK'
<1> SUFFICES ASSUME TypeOK, ConfigOK, [Next]_vars, NEW j \in Instances
             PROVE  conf'[j].active # {}
  BY DEF ConfigOK
<1>1. DefaultConfig.active # {} /\ ConfigInForce.active # {}
  BY ConstantsAssumption DEF TypeOK, ConfigInForce, DefaultConfig
<1>2. ASSUME NEW i \in Instances, Step(i) \/ Crash(i)
      PROVE  conf'[j] \in {conf[j], DefaultConfig, ConfigInForce}
  <2>1. CASE FetchConfig(i)  BY <2>1 DEF TypeOK, FetchConfig
  <2>2. CASE Crash(i)  BY <2>2 DEF TypeOK, Crash
  <2>3. CASE Step(i) /\ ~FetchConfig(i)
    BY <2>3 DEF Step, ListPublic, ListFails, CheckMissing, AcquireLock,
       AlreadyLocked, FindMissingUnderLock, Generate, PutArtifact, ReleaseLock,
       ListForLoad, Load, GenerationEnds, ReloadFails, IterationEnds, local
  <2> QED  BY <1>2, <2>1, <2>2, <2>3
<1> QED  BY <1>1, <1>2, NextSplit, EnvironmentFrame DEF ConfigOK

(* The package that a successful reload installs: the complete backups of   *)
(* the active epochs.                                                       *)
Installs(i) ==
  /\ Load(i)
  /\ store' = store
  /\ active' = [active EXCEPT ![i] =
       [e \in Epochs |-> IF e \in conf[i].active
                         THEN store[e]["CERT"] ELSE None]]
  /\ \A e \in conf[i].active : \A a \in Elements :
       store[e][a] = store[e]["CERT"] /\ store[e][a] # None

(* A reload installs the complete backups of all active epochs, or fails    *)
(* and leaves the package.                                                  *)
LEMMA LoadInstalls ==
  ASSUME TypeOK, NEW i \in Instances, Load(i)
  PROVE  \/ Installs(i)
         \/ UNCHANGED active /\ \E s : ReloadFails(i, s)
<1> SUFFICES ASSUME ~(UNCHANGED active /\ \E s : ReloadFails(i, s))
             PROVE  Installs(i)
  OBVIOUS
<1>1. /\ {e \in conf[i].active :
              Observed(i, e) # "Complete" \/ ~Unseals(e)} = {}
      /\ active' = [active EXCEPT ![i] =
           [e \in Epochs |-> IF e \in conf[i].active
                             THEN store[e]["CERT"] ELSE None]]
      /\ store' = store
  BY DEF Load, remote
<1>2. ASSUME NEW e \in conf[i].active, NEW a \in Elements
      PROVE  store[e][a] = store[e]["CERT"] /\ store[e][a] # None
  <2>1. Observed(i, e) = "Complete" /\ Unseals(e)
    BY <1>1
  <2>2. Present(e) = Elements
    BY <2>1 DEF Observed, HandleState
  <2> QED  BY <2>1, <2>2 DEF Unseals, Present
<1> QED  BY <1>1, <1>2 DEF Installs

(* The trust package changes by a reload or a restart only.                 *)
LEMMA ActiveSteps ==
  ASSUME TypeOK, [Next]_vars, NEW j \in Instances
  PROVE  active'[j] = active[j] \/ Crash(j) \/ Installs(j)
<1>1. ASSUME NEW i \in Instances, Step(i), ~Load(i) PROVE active' = active
  BY <1>1 DEF Step, FetchConfig, ListPublic, ListFails, CheckMissing,
     AcquireLock, FindMissingUnderLock, Generate, PutArtifact, ReleaseLock,
     ListForLoad
<1>2. ASSUME NEW i \in Instances, Step(i) \/ Crash(i), i = j
      PROVE  active'[j] = active[j] \/ Crash(j) \/ Installs(j)
  BY <1>1, <1>2, LoadInstalls
<1>3. ASSUME NEW i \in Instances, Step(i) \/ Crash(i), i # j
      PROVE  active'[j] = active[j]
  BY <1>3, OthersUnchanged
<1> QED  BY <1>2, <1>3, NextSplit, EnvironmentFrame

(* Every key in use is the complete backup of its epoch, so two instances   *)
(* that use an epoch use the same key.                                      *)
LEMMA NextActive ==
  StoreInv /\ ActiveKeysAreBackedUp /\ [Next]_vars => ActiveKeysAreBackedUp'
<1> SUFFICES ASSUME StoreInv, ActiveKeysAreBackedUp, [Next]_vars,
                    NEW j \in Instances, NEW e \in Epochs,
                    active'[j][e] # None, NEW a \in Elements
             PROVE  store'[e][a] = active'[j][e]
  BY DEF ActiveKeysAreBackedUp
<1>0. "CERT" \in Elements
  BY DEF Elements, PublicElements
<1>1. CASE active'[j] = active[j]
  <2>1. store[e][a] = active[j][e] /\ store[e]["CERT"] # None
    BY <1>0, <1>1 DEF ActiveKeysAreBackedUp
  <2> QED  BY <1>1, <2>1, CertKept
<1>2. CASE Crash(j)
  BY <1>2 DEF Crash, NoPackage, StoreInv, TypeOK
<1>3. CASE Installs(j)
  <2>1. active'[j][e] = IF e \in conf[j].active THEN store[e]["CERT"] ELSE None
    BY <1>3 DEF Installs, StoreInv, TypeOK
  <2>2. e \in conf[j].active
    BY <2>1
  <2> QED  BY <1>3, <2>1, <2>2 DEF Installs
<1> QED  BY <1>1, <1>2, <1>3, ActiveSteps DEF StoreInv

(* Every key in use is the complete backup of its epoch.                    *)
THEOREM ActiveBackedUp == Spec => []ActiveKeysAreBackedUp
<1>1. Init => ActiveKeysAreBackedUp
  BY DEF Init, ActiveKeysAreBackedUp, NoPackage
<1> QED  BY <1>1, NextActive, StoreInvariant, PTL DEF Spec

(* Every configuration in force has an active epoch.                        *)
LEMMA ConfigInvariant == Spec => []ConfigOK
<1>0. DefaultConfig.active # {}
  BY DEF DefaultConfig
<1>1. Init => ConfigOK
  BY <1>0 DEF Init, ConfigOK
<1> QED  BY <1>1, NextConfig, TypeCorrect, PTL DEF Spec

(* Only a restart leaves an instance that has keys without any.             *)
THEOREM ServingKept == Spec => ServingIsKept
<1>1. TypeOK /\ ConfigOK /\ [Next]_vars =>
        [\A i \in Instances :
           active[i] # NoPackage /\ active'[i] = NoPackage => Crash(i)]_vars
  <2> SUFFICES ASSUME TypeOK, ConfigOK, [Next]_vars, NEW i \in Instances,
                      active[i] # NoPackage, active'[i] = NoPackage
               PROVE  Crash(i)
    OBVIOUS
  <2>1. CASE Installs(i)
    <3>1. PICK e \in conf[i].active : TRUE
      BY DEF ConfigOK
    <3>2. e \in Epochs /\ active'[i][e] = store[e]["CERT"]
      BY <2>1 DEF Installs, TypeOK
    <3>3. store[e]["CERT"] # None
      BY <2>1 DEF Installs, Elements, PublicElements
    <3> QED  BY <3>2, <3>3 DEF NoPackage
  <2> QED  BY <2>1, ActiveSteps
<1> QED  BY <1>1, ConfigInvariant, TypeCorrect, PTL DEF Spec, ServingIsKept

(* An iteration ends in SUCCESS only by installing a package.               *)
LEMMA SuccessSteps ==
  ASSUME TypeOK, NEW i \in Instances, Step(i) \/ Crash(i),
         pc'[i] = "Idle", event'[i] = "SUCCESS"
  PROVE  Installs(i) /\ conf'[i] = conf[i]
<1> USE DEF TypeOK, local
<1>0. ASSUME NEW r, GenerationEnds(i, r) PROVE FALSE
  BY <1>0 DEF GenerationEnds
<1>1. ASSUME NEW s, ReloadFails(i, s) PROVE FALSE
  BY <1>1 DEF ReloadFails, IterationEnds
<1>2. CASE Load(i)
  <2>1. conf' = conf
    BY <1>2 DEF Load, ReloadFails, IterationEnds
  <2> QED  BY <1>1, <1>2, <2>1, LoadInstalls
<1>3. CASE Crash(i)  BY <1>3 DEF Crash
<1>4. CASE FetchConfig(i)  BY <1>4 DEF FetchConfig
<1>5. CASE ListPublic(i)  BY <1>5, ListPublicMoves
<1>6. CASE ListFails(i)  BY <1>0, <1>1, <1>6 DEF ListFails
<1>7. CASE CheckMissing(i)  BY <1>0, <1>7 DEF CheckMissing
<1>8. CASE AcquireLock(i)  BY <1>0, <1>8 DEF AcquireLock, AlreadyLocked
<1>9. CASE FindMissingUnderLock(i)  BY <1>9 DEF FindMissingUnderLock
<1>10. CASE Generate(i)  BY <1>0, <1>10 DEF Generate
<1>11. CASE PutArtifact(i)  BY <1>0, <1>11 DEF PutArtifact, Written
<1>12. CASE ReleaseLock(i)  BY <1>0, <1>12 DEF ReleaseLock
<1>13. CASE ListForLoad(i)  BY <1>13 DEF ListForLoad
<1> QED
  BY <1>2, <1>3, <1>4, <1>5, <1>6, <1>7, <1>8, <1>9, <1>10, <1>11, <1>12,
     <1>13 DEF Step

(* SUCCESS means that exactly the configured active epochs are served.      *)
THEOREM SuccessServes == Spec => []SuccessMeansServing
<1>1. Init => SuccessMeansServing
  BY DEF Init, SuccessMeansServing
<1>2. TypeOK /\ SuccessMeansServing /\ [Next]_vars => SuccessMeansServing'
  <2> SUFFICES ASSUME TypeOK, SuccessMeansServing, [Next]_vars,
                      NEW j \in Instances,
                      pc'[j] = "Idle", event'[j] = "SUCCESS"
               PROVE  conf'[j].active = {e \in Epochs : active'[j][e] # None}
    BY DEF SuccessMeansServing
  <2>1. CASE /\ pc'[j] = pc[j] /\ event'[j] = event[j] /\ conf'[j] = conf[j]
             /\ active'[j] = active[j]
    BY <2>1 DEF SuccessMeansServing
  <2>2. ASSUME Installs(j), conf'[j] = conf[j]
        PROVE  conf'[j].active = {e \in Epochs : active'[j][e] # None}
    <3>1. \A e \in Epochs : active'[j][e] =
            IF e \in conf[j].active THEN store[e]["CERT"] ELSE None
      BY <2>2 DEF Installs, TypeOK
    <3>2. \A e \in conf[j].active : store[e]["CERT"] # None /\ e \in Epochs
      BY <2>2 DEF Installs, Elements, PublicElements, TypeOK
    <3> QED  BY <2>2, <3>1, <3>2
  <2>3. ASSUME NEW i \in Instances, Step(i) \/ Crash(i)
        PROVE  conf'[j].active = {e \in Epochs : active'[j][e] # None}
    <3>1. CASE i = j
      BY <2>2, <2>3, <3>1, SuccessSteps
    <3>2. CASE i # j
      BY <2>1, <2>3, <3>2, OthersUnchanged
    <3> QED  BY <3>1, <3>2
  <2> QED  BY <2>1, <2>3, NextSplit, EnvironmentFrame
<1> QED  BY <1>1, <1>2, TypeCorrect, PTL DEF Spec
=============================================================================
