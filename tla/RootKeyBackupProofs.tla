------------------------ MODULE RootKeyBackupProofs -------------------------
(***************************************************************************)
(* Proofs about RootKeyBackup, for every set of instances, epochs, bundles *)
(* and configurations, any number of failures and deployments.             *)
(***************************************************************************)
EXTENDS RootKeyBackup, TLAPS

(* Mere abbreviations, expanded throughout.                                *)
USE DEF IfNoneMatch, MoreElements, FailureUnderLock

-----------------------------------------------------------------------------
(* The write order as facts: four artifacts, the certificate last.          *)
LEMMA WriteOrderFacts ==
  /\ Len(WriteOrder) = 4
  /\ WriteOrder[1] = "PRIVATE_KEY"
  /\ WriteOrder[2] = "KMS_DATA_KEY"
  /\ WriteOrder[3] = "ATTESTATION_DOC"
  /\ WriteOrder[4] = "CERT"
  /\ \A k \in 1 .. 4 : WriteOrder[k] \in Elements
BY DEF WriteOrder, Elements, PublicElements, PrivateElements

(* The initial values of the listings and of the trust packages.            *)
LEMMA NothingListedType ==
  /\ NothingListed \in [Epochs -> SUBSET Elements]
  /\ NoPackage \in [Epochs -> Bundles \cup {None}]
BY DEF NothingListed, NoPackage

(* The hardcoded configuration is a configuration.                          *)
LEMMA DefaultConfigType ==
  DefaultConfig \in [defined : SUBSET Epochs, active : SUBSET Epochs]
BY ConstantsAssumption DEF DefaultConfig

(* Every set of artifacts gives one of the four handles.                    *)
LEMMA HandleStateType ==
  ASSUME NEW present PROVE HandleState(present) \in HandleStates
BY DEF HandleState, HandleStates

(* A snapshot is, like a finished listing, a set of artifacts per epoch.    *)
LEMMA SnapshotType ==
  ASSUME TypeOK, NEW i \in Instances
  PROVE  Snapshot(i) \in [Epochs -> SUBSET Elements]
BY DEF TypeOK, Snapshot, Present, PrivateElements

(* The local state of an instance, one variable at a time.                  *)
LEMMA WrittenType ==
  ASSUME TypeOK, NEW i \in Instances
  PROVE  /\ written \in [Instances -> 0 .. 3]
         /\ written[i] + 1 \in 1 .. 4
<1>1. written \in [Instances -> 0 .. 3]
  BY DEF TypeOK
<1> QED  BY <1>1

(* The variables generateCertificates leaves keep their types.              *)
LEMMA GenerationEndsType ==
  ASSUME TypeOK, NEW i \in Instances, NEW r \in {"SUCCESS", "FAILURE"},
         GenerationEnds(i, r)
  PROVE  /\ pc' \in [Instances -> PCs]
         /\ conf' = conf
         /\ listed' \in [Instances -> [Epochs -> SUBSET Elements]]
         /\ missing' \in [Instances -> SUBSET Epochs]
         /\ bundle' \in [Instances -> Bundles \cup {None}]
         /\ written' \in [Instances -> 0 .. 3]
         /\ attempt' \in [Instances -> {1, 2}]
         /\ event' \in [Instances -> {"SUCCESS", "FAILURE"}]
BY DEF TypeOK, GenerationEnds, NothingListed, PCs, Listing

(* The variables runOneIteration leaves keep their types.                   *)
LEMMA IterationEndsType ==
  ASSUME TypeOK, NEW i \in Instances, NEW r \in {"SUCCESS", "FAILURE"},
         IterationEnds(i, r)
  PROVE  /\ pc' \in [Instances -> PCs]
         /\ listed' \in [Instances -> [Epochs -> SUBSET Elements]]
         /\ attempt' \in [Instances -> {1, 2}]
         /\ event' \in [Instances -> {"SUCCESS", "FAILURE"}]
         /\ conf' = conf /\ missing' = missing
         /\ bundle' = bundle /\ written' = written
BY DEF TypeOK, IterationEnds, NothingListed, PCs, Listing

(* The retry of a taken lock keeps the types.                               *)
LEMMA AlreadyLockedType ==
  ASSUME TypeOK, NEW i \in Instances, AlreadyLocked(i)
  PROVE  /\ pc' \in [Instances -> PCs]
         /\ conf' = conf
         /\ listed' \in [Instances -> [Epochs -> SUBSET Elements]]
         /\ missing' \in [Instances -> SUBSET Epochs]
         /\ bundle' \in [Instances -> Bundles \cup {None}]
         /\ written' \in [Instances -> 0 .. 3]
         /\ attempt' \in [Instances -> {1, 2}]
         /\ event' \in [Instances -> {"SUCCESS", "FAILURE"}]
BY GenerationEndsType DEF TypeOK, AlreadyLocked, PCs, Listing

(* The retry or failure of a reload keeps the types.                        *)
LEMMA ReloadFailsType ==
  ASSUME TypeOK, NEW i \in Instances, NEW s \in HandleStates \cup {"Unknown"},
         ReloadFails(i, s)
  PROVE  /\ pc' \in [Instances -> PCs]
         /\ listed' \in [Instances -> [Epochs -> SUBSET Elements]]
         /\ attempt' \in [Instances -> {1, 2}]
         /\ event' \in [Instances -> {"SUCCESS", "FAILURE"}]
         /\ conf' = conf /\ missing' = missing
         /\ bundle' = bundle /\ written' = written
<1>1. CASE s = "PartiallyWritten" /\ attempt[i] = 1
  <2>1. /\ pc' = [pc EXCEPT ![i] = "LoadPublic"]
        /\ listed' = [listed EXCEPT ![i] = NothingListed]
        /\ attempt' = [attempt EXCEPT ![i] = 2]
        /\ UNCHANGED <<conf, missing, bundle, written, event>>
    BY <1>1 DEF ReloadFails
  <2>2. pc' \in [Instances -> PCs]
    BY <2>1 DEF TypeOK, PCs, Listing
  <2>3. listed' \in [Instances -> [Epochs -> SUBSET Elements]]
    BY <2>1, NothingListedType DEF TypeOK
  <2>4. attempt' \in [Instances -> {1, 2}]
    BY <2>1 DEF TypeOK
  <2> QED  BY <2>1, <2>2, <2>3, <2>4 DEF TypeOK
<1>2. CASE ~(s = "PartiallyWritten" /\ attempt[i] = 1)
  <2>1. IterationEnds(i, "FAILURE")
    BY <1>2 DEF ReloadFails
  <2> QED  BY <2>1, IterationEndsType
<1> QED  BY <1>1, <1>2

(* A put stores a bundle.                                                   *)
LEMMA StoreWithType ==
  ASSUME TypeOK, NEW e \in Epochs, NEW a \in Elements, NEW b \in Bundles
  PROVE  StoreWith(e, a, b) \in [Epochs -> [Elements -> Bundles \cup {None}]]
BY DEF TypeOK, StoreWith, IfAbsent

(* What the loop over the missing epochs keeps: while it writes, it has a   *)
(* generated bundle and an epoch to write it to.                            *)
WriterOK ==
  \A i \in Instances :
    /\ pc[i] = "Write" => bundle[i] \in used /\ missing[i] # {}
    /\ pc[i] = "Generate" => missing[i] # {}
    /\ pc[i] # "Write" => written[i] = 0

(* The initial state has its type.                                          *)
THEOREM InitType == Init => TypeOK
<1> SUFFICES ASSUME Init PROVE TypeOK
  OBVIOUS
<1>1. /\ store \in [Epochs -> [Elements -> Bundles \cup {None}]]
      /\ latePuts \subseteq Epochs \X Elements \X Bundles
      /\ lateUnlock \in BOOLEAN /\ strayed \in BOOLEAN
  BY DEF Init
<1>2. /\ pc \in [Instances -> PCs]
      /\ conf \in [Instances ->
                     [defined : SUBSET Epochs, active : SUBSET Epochs]]
      /\ listed \in [Instances -> [Epochs -> SUBSET Elements]]
      /\ active \in [Instances -> [Epochs -> Bundles \cup {None}]]
  BY NothingListedType, DefaultConfigType DEF Init, PCs
<1> QED  BY <1>1, <1>2 DEF Init, TypeOK

(* Every step preserves the types; the writer has a bundle to write.        *)
THEOREM NextType == TypeOK /\ WriterOK /\ [Next]_vars => TypeOK'
<1> SUFFICES ASSUME TypeOK, WriterOK, [Next]_vars PROVE TypeOK'
  OBVIOUS
<1> USE DEF remote, operator, local
<1>1. ASSUME NEW i \in Instances, FetchConfig(i) PROVE TypeOK'
  <2>1. /\ conf' \in [Instances -> [defined : SUBSET Epochs,
                                    active : SUBSET Epochs]]
        /\ faults' \in Nat
    BY <1>1, ConstantsAssumption
       DEF TypeOK, FetchConfig, ConfigInForce, DefaultConfig, Fault
  <2>2. /\ pc' \in [Instances -> PCs] /\ attempt' \in [Instances -> {1, 2}]
        /\ event' \in [Instances -> {"SUCCESS", "FAILURE"}]
    BY <1>1 DEF TypeOK, FetchConfig, PCs, Listing
  <2> QED  BY <1>1, <2>1, <2>2 DEF TypeOK, FetchConfig
<1>2. ASSUME NEW i \in Instances, ListPublic(i) PROVE TypeOK'
  <2>1. listed' \in [Instances -> [Epochs -> SUBSET Elements]]
    BY <1>2 DEF TypeOK, ListPublic, Present
  <2>2. pc' \in [Instances -> PCs]
    BY <1>2 DEF TypeOK, ListPublic, AfterPublic, PCs, Listing, ListingPrivate
  <2> QED  BY <1>2, <2>1, <2>2 DEF TypeOK, ListPublic
<1>3. ASSUME NEW i \in Instances, ListFails(i) PROVE TypeOK'
  BY <1>3, GenerationEndsType, ReloadFailsType DEF TypeOK, ListFails, Fault
<1>4. ASSUME NEW i \in Instances, CheckMissing(i) PROVE TypeOK'
  <2>1. CASE FindMissing(conf[i], Snapshot(i)) = {}
    <3>1. event[i] \in {"SUCCESS", "FAILURE"} /\ GenerationEnds(i, event[i])
      BY <1>4, <2>1 DEF TypeOK, CheckMissing
    <3> QED  BY <1>4, <3>1, GenerationEndsType DEF TypeOK, CheckMissing
  <2>2. CASE FindMissing(conf[i], Snapshot(i)) # {}
    <3>1. /\ pc' = [pc EXCEPT ![i] = "AcquireLock"]
          /\ listed' = [listed EXCEPT ![i] = NothingListed]
          /\ UNCHANGED <<conf, missing, bundle, written, attempt, event>>
      BY <1>4, <2>2 DEF CheckMissing
    <3>2. /\ pc' \in [Instances -> PCs]
          /\ listed' \in [Instances -> [Epochs -> SUBSET Elements]]
      BY <3>1, NothingListedType DEF TypeOK, PCs
    <3> QED  BY <1>4, <3>1, <3>2 DEF TypeOK, CheckMissing
  <2> QED  BY <2>1, <2>2
<1>5. ASSUME NEW i \in Instances, AcquireLock(i) PROVE TypeOK'
  <2>1. lock' \in Instances \cup {None} /\ lateLocks' \subseteq Instances
    BY <1>5 DEF TypeOK, AcquireLock, IfAbsent
  <2>2. faults' \in Nat
    BY <1>5 DEF TypeOK, AcquireLock, Fault
  <2>3. CASE pc' = [pc EXCEPT ![i] = "LockedPublic"] /\ UNCHANGED local
    BY <1>5, <2>1, <2>2, <2>3 DEF TypeOK, AcquireLock, PCs, Listing
  <2>4. CASE AlreadyLocked(i)
    BY <1>5, <2>1, <2>2, <2>4, AlreadyLockedType DEF TypeOK, AcquireLock
  <2>5. CASE GenerationEnds(i, "FAILURE")
    BY <1>5, <2>1, <2>2, <2>5, GenerationEndsType DEF TypeOK, AcquireLock
  <2> QED  BY <1>5, <2>3, <2>4, <2>5 DEF AcquireLock
<1>6. ASSUME NEW i \in Instances, FindMissingUnderLock(i) PROVE TypeOK'
  BY <1>6 DEF TypeOK, FindMissingUnderLock, FindMissing, NothingListed, PCs,
              Critical
<1>7. ASSUME NEW i \in Instances, Generate(i) PROVE TypeOK'
  <2>1. CASE GenerationEnds(i, "FAILURE") /\ Fault /\ UNCHANGED used
    BY <1>7, <2>1, GenerationEndsType DEF TypeOK, Generate, Fault
  <2>2. ASSUME NEW b \in Bundles \ used,
               /\ used' = used \cup {b}
               /\ bundle' = [bundle EXCEPT ![i] = b]
               /\ pc' = [pc EXCEPT ![i] = "Write"]
               /\ UNCHANGED <<lock, faults, conf, listed, missing, written,
                              attempt, event>>
        PROVE  TypeOK'
    <3>1. /\ used' \subseteq Bundles
          /\ bundle' \in [Instances -> Bundles \cup {None}]
          /\ pc' \in [Instances -> PCs]
      BY <2>2 DEF TypeOK, PCs, Critical
    <3> QED  BY <1>7, <2>2, <3>1 DEF TypeOK, Generate
  <2> QED  BY <1>7, <2>1, <2>2 DEF Generate
<1>8. ASSUME NEW i \in Instances, PutArtifact(i) PROVE TypeOK'
  <2>1. PICK e \in missing[i] : IsFirst(e, missing[i])
          /\ LET a == NextElement(i)
             IN \/ /\ store[e][a] = None
                   /\ store' = StoreWith(e, a, bundle[i])
                   /\ Written(i, e)
                   /\ UNCHANGED <<faults, latePuts, conf, listed, attempt,
                                  event>>
                \/ /\ store[e][a] # None
                   /\ GenerationEnds(i, "FAILURE")
                   /\ UNCHANGED <<faults, store, latePuts>>
                \/ /\ Fault
                   /\ store' \in {store, StoreWith(e, a, bundle[i])}
                   /\ GenerationEnds(i, "FAILURE")
                   /\ UNCHANGED latePuts
                \/ /\ Fault
                   /\ latePuts' = latePuts \cup {<<e, a, bundle[i]>>}
                   /\ GenerationEnds(i, "FAILURE")
                   /\ UNCHANGED store
    BY <1>8 DEF PutArtifact
  <2>2. NextElement(i) \in Elements /\ bundle[i] \in Bundles /\ e \in Epochs
    <3>1. written[i] + 1 \in 1 .. 4
      BY WrittenType
    <3>2. NextElement(i) \in Elements
      BY <3>1, WriteOrderFacts DEF NextElement
    <3>3. bundle[i] \in Bundles
      BY <1>8 DEF TypeOK, WriterOK, PutArtifact
    <3> QED  BY <2>1, <3>2, <3>3 DEF TypeOK
  <2>3. StoreWith(e, NextElement(i), bundle[i])
          \in [Epochs -> [Elements -> Bundles \cup {None}]]
    BY <2>2, StoreWithType
  <2>4. /\ store' \in [Epochs -> [Elements -> Bundles \cup {None}]]
        /\ latePuts' \subseteq Epochs \X Elements \X Bundles
        /\ faults' \in Nat
    BY <2>1, <2>2, <2>3 DEF TypeOK, Fault
  <2>5. CASE GenerationEnds(i, "FAILURE")
    BY <1>8, <2>4, <2>5, GenerationEndsType DEF TypeOK, PutArtifact
  <2>6. CASE Written(i, e) /\ UNCHANGED <<conf, listed, attempt, event>>
    <3>1. /\ pc' \in [Instances -> PCs]
          /\ missing' \in [Instances -> SUBSET Epochs]
          /\ bundle' \in [Instances -> Bundles \cup {None}]
          /\ written' \in [Instances -> 0 .. 3]
      <4>1. CASE written[i] + 1 < 4
        <5>1. /\ written' = [written EXCEPT ![i] = written[i] + 1]
              /\ UNCHANGED <<pc, missing, bundle>>
          BY <2>6, <4>1, WriteOrderFacts DEF Written
        <5>2. written' \in [Instances -> 0 .. 3]
          BY <4>1, <5>1, WrittenType
        <5> QED  BY <5>1, <5>2 DEF TypeOK
      <4>2. CASE ~(written[i] + 1 < 4)
        <5>1. /\ written' = [written EXCEPT ![i] = 0]
              /\ missing' = [missing EXCEPT ![i] = missing[i] \ {e}]
              /\ bundle' = [bundle EXCEPT ![i] = None]
              /\ \/ pc' = [pc EXCEPT ![i] = "ReleaseLock"]
                 \/ pc' = [pc EXCEPT ![i] = "Generate"]
          BY <2>6, <4>2, WriteOrderFacts DEF Written
        <5>2. /\ written' \in [Instances -> 0 .. 3]
              /\ bundle' \in [Instances -> Bundles \cup {None}]
          BY <5>1 DEF TypeOK
        <5>3. pc' \in [Instances -> PCs]
          BY <5>1 DEF TypeOK, PCs, Critical
        <5>4. missing' \in [Instances -> SUBSET Epochs]
          BY <5>1 DEF TypeOK
        <5> QED  BY <5>2, <5>3, <5>4
      <4> QED  BY <4>1, <4>2
    <3> QED  BY <1>8, <2>4, <2>6, <3>1 DEF TypeOK, PutArtifact
  <2> QED  BY <2>1, <2>5, <2>6
<1>9. ASSUME NEW i \in Instances, ReleaseLock(i) PROVE TypeOK'
  <2>1. lock' \in Instances \cup {None}
    BY <1>9 DEF TypeOK, ReleaseLock
  <2>3. lateUnlock' \in BOOLEAN
    <3>1. lateUnlock' = lateUnlock \/ lateUnlock' = TRUE
      BY <1>9, Zenon DEF ReleaseLock
    <3> QED  BY <3>1, Zenon DEF TypeOK
  <2>4. faults' \in Nat
    <3>1. faults' = faults \/ faults' = faults + 1
      BY <1>9, Zenon DEF ReleaseLock, Fault
    <3> QED  BY <3>1 DEF TypeOK
  <2>2. \E r \in {"SUCCESS", "FAILURE"} : GenerationEnds(i, r)
    BY <1>9 DEF TypeOK, ReleaseLock
  <2> QED  BY <1>9, <2>1, <2>2, <2>3, <2>4, GenerationEndsType
              DEF TypeOK, ReleaseLock
<1>10. ASSUME NEW i \in Instances, ListForLoad(i) PROVE TypeOK'
  BY <1>10, SnapshotType DEF TypeOK, ListForLoad, PCs
<1>11. ASSUME NEW i \in Instances, Load(i) PROVE TypeOK'
  <2>1. active' \in [Instances -> [Epochs -> Bundles \cup {None}]]
    <3>1. [e \in Epochs |-> IF e \in conf[i].active
                            THEN store[e]["CERT"] ELSE None]
            \in [Epochs -> Bundles \cup {None}]
      BY DEF TypeOK, Elements, PublicElements
    <3>2. \/ UNCHANGED active
          \/ active' = [active EXCEPT ![i] =
               [e \in Epochs |-> IF e \in conf[i].active
                                 THEN store[e]["CERT"] ELSE None]]
      BY <1>11 DEF Load
    <3> QED  BY <3>1, <3>2 DEF TypeOK
  <2>2. faults' \in Nat
    <3>1. UNCHANGED faults \/ Fault
      BY <1>11 DEF Load
    <3> QED  BY <3>1 DEF TypeOK, Fault
  <2>3. \/ \E s \in HandleStates \cup {"Unknown"} : ReloadFails(i, s)
        \/ \E r \in {"SUCCESS", "FAILURE"} : IterationEnds(i, r)
    BY <1>11, HandleStateType DEF TypeOK, Load, Observed
  <2>4. UNCHANGED <<remote, used, operator>>
    BY <1>11 DEF Load
  <2>5. /\ pc' \in [Instances -> PCs]
        /\ listed' \in [Instances -> [Epochs -> SUBSET Elements]]
        /\ attempt' \in [Instances -> {1, 2}]
        /\ event' \in [Instances -> {"SUCCESS", "FAILURE"}]
        /\ conf' = conf /\ missing' = missing
        /\ bundle' = bundle /\ written' = written
    BY <2>3, ReloadFailsType, IterationEndsType
  <2> QED  BY <2>1, <2>2, <2>4, <2>5 DEF TypeOK
<1>12. ASSUME NEW i \in Instances, Crash(i) PROVE TypeOK'
  <2>1. /\ pc' \in [Instances -> PCs]
        /\ faults' \in Nat
    BY <1>12 DEF TypeOK, Crash, Fault, PCs
  <2>2. /\ conf' \in [Instances -> [defined : SUBSET Epochs,
                                    active : SUBSET Epochs]]
        /\ listed' \in [Instances -> [Epochs -> SUBSET Elements]]
        /\ active' \in [Instances -> [Epochs -> Bundles \cup {None}]]
    BY <1>12, DefaultConfigType, NothingListedType DEF TypeOK, Crash
  <2>3. /\ missing' \in [Instances -> SUBSET Epochs]
        /\ bundle' \in [Instances -> Bundles \cup {None}]
        /\ written' \in [Instances -> 0 .. 3]
        /\ attempt' \in [Instances -> {1, 2}]
        /\ event' \in [Instances -> {"SUCCESS", "FAILURE"}]
    BY <1>12 DEF TypeOK, Crash
  <2> QED  BY <1>12, <2>1, <2>2, <2>3 DEF TypeOK, Crash
<1>13. ASSUME NEW i \in Instances, LateLock(i) PROVE TypeOK'
  BY <1>13 DEF TypeOK, LateLock, IfAbsent
<1>14. ASSUME NEW r \in latePuts, LatePut(r) PROVE TypeOK'
  <2>1. r[1] \in Epochs /\ r[2] \in Elements /\ r[3] \in Bundles
    BY <1>14 DEF TypeOK
  <2>2. StoreWith(r[1], r[2], r[3])
          \in [Epochs -> [Elements -> Bundles \cup {None}]]
    BY <2>1, StoreWithType
  <2> QED  BY <1>14, <2>2 DEF TypeOK, LatePut
<1>15. ASSUME LateUnlock PROVE TypeOK'
  BY <1>15 DEF TypeOK, LateUnlock
<1>16. ASSUME RemoveLock PROVE TypeOK'
  BY <1>16 DEF TypeOK, RemoveLock
<1>17. ASSUME NEW e \in Epochs, CleanUp(e) PROVE TypeOK'
  BY <1>17 DEF TypeOK, CleanUp
<1>18. ASSUME NEW c \in Configs, Deploy(c) PROVE TypeOK'
  BY <1>18 DEF TypeOK, Deploy
<1>19. CASE UNCHANGED vars
  BY <1>19 DEF TypeOK, vars
<1> QED
  BY <1>1, <1>2, <1>3, <1>4, <1>5, <1>6, <1>7, <1>8, <1>9, <1>10, <1>11,
     <1>12, <1>13, <1>14, <1>15, <1>16, <1>17, <1>18, <1>19 DEF Next, Step

-----------------------------------------------------------------------------
(* A step of one instance leaves the memory of every other one alone.       *)
LEMMA OthersUnchanged ==
  ASSUME TypeOK, NEW i \in Instances, Step(i) \/ Crash(i),
         NEW j \in Instances, j # i
  PROVE  /\ pc'[j] = pc[j] /\ conf'[j] = conf[j] /\ listed'[j] = listed[j]
         /\ missing'[j] = missing[j] /\ bundle'[j] = bundle[j]
         /\ written'[j] = written[j] /\ event'[j] = event[j]
         /\ active'[j] = active[j]
<1> DEFINE Same == /\ pc'[j] = pc[j] /\ conf'[j] = conf[j]
                   /\ listed'[j] = listed[j]
                   /\ missing'[j] = missing[j] /\ bundle'[j] = bundle[j]
                   /\ written'[j] = written[j] /\ event'[j] = event[j]
<1>1. ASSUME NEW r, GenerationEnds(i, r) PROVE Same
  BY <1>1 DEF TypeOK, GenerationEnds
<1>2. ASSUME NEW r, IterationEnds(i, r) PROVE Same
  BY <1>2 DEF TypeOK, IterationEnds
<1>3. ASSUME AlreadyLocked(i) PROVE Same
  BY <1>1, <1>3 DEF TypeOK, AlreadyLocked
<1>4. ASSUME NEW s, ReloadFails(i, s) PROVE Same
  BY <1>2, <1>4 DEF TypeOK, ReloadFails
<1>5. ASSUME NEW e, Written(i, e), UNCHANGED <<conf, listed, event>>
      PROVE Same
  BY <1>5 DEF TypeOK, Written
<1>6. Same
  <2> USE DEF TypeOK, local
  <2>1. CASE FetchConfig(i)  BY <2>1 DEF FetchConfig
  <2>2. CASE ListPublic(i)  BY <2>2 DEF ListPublic
  <2>3. CASE ListFails(i)  BY <2>3, <1>1, <1>4 DEF ListFails
  <2>4. CASE CheckMissing(i)  BY <2>4, <1>1 DEF CheckMissing
  <2>5. CASE AcquireLock(i)  BY <2>5, <1>1, <1>3 DEF AcquireLock
  <2>6. CASE FindMissingUnderLock(i)  BY <2>6 DEF FindMissingUnderLock
  <2>7. CASE Generate(i)  BY <2>7, <1>1 DEF Generate
  <2>8. CASE PutArtifact(i)  BY <2>8, <1>1, <1>5 DEF PutArtifact
  <2>9. CASE ReleaseLock(i)  BY <2>9, <1>1 DEF ReleaseLock
  <2>10. CASE ListForLoad(i)  BY <2>10 DEF ListForLoad
  <2>11. CASE Load(i)  BY <2>11, <1>2, <1>4 DEF Load
  <2>12. CASE Crash(i)  BY <2>12 DEF Crash
  <2> QED
    BY <2>1, <2>2, <2>3, <2>4, <2>5, <2>6, <2>7, <2>8, <2>9, <2>10, <2>11,
       <2>12 DEF Step
<1>7. active'[j] = active[j]
  <2>1. CASE Load(i)  BY <2>1 DEF TypeOK, Load
  <2>2. CASE Crash(i)  BY <2>2 DEF TypeOK, Crash
  <2>3. CASE Step(i) /\ ~Load(i)
    BY <2>3 DEF Step, FetchConfig, ListPublic, ListFails, CheckMissing,
       AcquireLock, FindMissingUnderLock, Generate, PutArtifact, ReleaseLock,
       ListForLoad
  <2> QED  BY <2>1, <2>2, <2>3
<1> QED  BY <1>6, <1>7

-----------------------------------------------------------------------------
(* The four ways a step of instance i can leave its write loop.             *)
Outside(i) == pc'[i] \notin {"Write", "Generate"} /\ written'[i] = 0
NextEpoch(i) == /\ pc'[i] = "Generate" /\ written'[i] = 0
                /\ missing'[i] # {}
Generated(i) == /\ pc[i] = "Generate" /\ pc'[i] = "Write"
                /\ bundle'[i] \in used' \ used
                /\ missing'[i] = missing[i] /\ written'[i] = 0
Put(i) == /\ pc[i] = "Write" /\ pc'[i] = "Write"
          /\ bundle'[i] = bundle[i] /\ missing'[i] = missing[i]
          /\ written'[i] = written[i] + 1
          /\ \E e \in missing[i] :
               /\ IsFirst(e, missing[i])
               /\ store[e][NextElement(i)] = None
               /\ store' = StoreWith(e, NextElement(i), bundle[i])

(* After generateCertificates the thread has nothing left to write.         *)
LEMMA GenerationEndsOutside ==
  ASSUME TypeOK, NEW i \in Instances, NEW r, GenerationEnds(i, r)
  PROVE  Outside(i)
BY DEF TypeOK, GenerationEnds, Outside

(* Once a public listing is in, the thread asks for the private one.        *)
LEMMA ListPublicMoves ==
  ASSUME TypeOK, NEW i \in Instances, ListPublic(i)
  PROVE  \/ pc[i] = "CheckPublic" /\ pc'[i] = "CheckPrivate"
         \/ pc[i] = "LockedPublic" /\ pc'[i] = "LockedPrivate"
         \/ pc[i] = "LoadPublic" /\ pc'[i] = "LoadPrivate"
<1>1. pc'[i] = AfterPublic[pc[i]]
  BY DEF ListPublic, TypeOK
<1>2. pc[i] \in {"CheckPublic", "LockedPublic", "LoadPublic"}
  BY DEF ListPublic, Listing
<1> QED  BY <1>1, <1>2 DEF AfterPublic

(* The steps of the write loop: outside it, on to the next epoch, with a    *)
(* fresh bundle, or one put further.                                        *)
LEMMA WriterStep ==
  ASSUME TypeOK, WriterOK, NEW i \in Instances, Step(i) \/ Crash(i)
  PROVE  Outside(i) \/ NextEpoch(i) \/ Generated(i) \/ Put(i)
<1> USE DEF local
<1>0. pc[i] # "Write" => written[i] = 0
  BY DEF WriterOK
<1>1. CASE FetchConfig(i)
  BY <1>0, <1>1 DEF TypeOK, FetchConfig, Outside
<1>2. CASE ListPublic(i)
  <2>1. written' = written
    BY <1>2 DEF ListPublic
  <2> QED  BY <1>0, <1>2, <2>1, ListPublicMoves DEF Outside
<1>3. CASE ListFails(i)
  <2>1. CASE \E r : GenerationEnds(i, r)
    BY <2>1, GenerationEndsOutside
  <2>2. CASE pc[i] \in {"LoadPublic", "LoadPrivate"} /\ ReloadFails(i, "Unknown")
    BY <2>2, <1>0 DEF TypeOK, ReloadFails, IterationEnds, Outside
  <2> QED  BY <1>3, <2>1, <2>2 DEF ListFails
<1>4. CASE CheckMissing(i)
  <2>1. CASE GenerationEnds(i, event[i])
    BY <2>1, GenerationEndsOutside
  <2>2. CASE pc' = [pc EXCEPT ![i] = "AcquireLock"] /\ UNCHANGED written
    BY <1>0, <1>4, <2>2 DEF TypeOK, CheckMissing, Outside
  <2> QED  BY <1>4, <2>1, <2>2 DEF CheckMissing
<1>5. CASE AcquireLock(i)
  <2>1. CASE \E r : GenerationEnds(i, r)
    BY <2>1, GenerationEndsOutside
  <2>2. CASE /\ pc' \in {[pc EXCEPT ![i] = "LockedPublic"],
                         [pc EXCEPT ![i] = "CheckPublic"]}
             /\ UNCHANGED written
    BY <1>0, <1>5, <2>2 DEF TypeOK, AcquireLock, Outside
  <2> QED  BY <1>5, <2>1, <2>2 DEF AcquireLock, AlreadyLocked
<1>6. CASE FindMissingUnderLock(i)
  BY <1>0, <1>6 DEF TypeOK, FindMissingUnderLock, Outside, NextEpoch
<1>7. CASE Generate(i)
  <2>1. CASE GenerationEnds(i, "FAILURE")
    BY <2>1, GenerationEndsOutside
  <2>2. CASE ~GenerationEnds(i, "FAILURE")
    BY <1>0, <1>7, <2>2 DEF TypeOK, Generate, Generated
  <2> QED  BY <2>1, <2>2
<1>8. CASE PutArtifact(i)
  <2>1. CASE GenerationEnds(i, "FAILURE")
    BY <2>1, GenerationEndsOutside
  <2>2. CASE ~GenerationEnds(i, "FAILURE")
    <3>1. PICK e \in missing[i] :
             /\ IsFirst(e, missing[i])
             /\ store[e][NextElement(i)] = None
             /\ store' = StoreWith(e, NextElement(i), bundle[i])
             /\ Written(i, e)
      BY <1>8, <2>2 DEF PutArtifact
    <3>2. CASE written[i] + 1 < Len(WriteOrder)
      BY <1>8, <3>1, <3>2 DEF TypeOK, PutArtifact, Written, Put
    <3>3. CASE ~(written[i] + 1 < Len(WriteOrder))
      <4>1. /\ written'[i] = 0
            /\ missing'[i] = missing[i] \ {e}
            /\ pc'[i] = IF missing[i] = {e} THEN "ReleaseLock" ELSE "Generate"
        BY <3>1, <3>3 DEF TypeOK, Written
      <4> QED  BY <3>1, <4>1 DEF Outside, NextEpoch
    <3> QED  BY <3>2, <3>3
  <2> QED  BY <2>1, <2>2
<1>9. CASE ReleaseLock(i)
  <2>1. \E r : GenerationEnds(i, r)
    BY <1>9 DEF ReleaseLock
  <2> QED  BY <2>1, GenerationEndsOutside
<1>10. CASE ListForLoad(i)
  BY <1>0, <1>10 DEF TypeOK, ListForLoad, Outside
<1>11. CASE Load(i)
  <2>1. /\ pc[i] = "Load"
        /\ \/ \E r : IterationEnds(i, r)
           \/ \E s : ReloadFails(i, s)
    BY <1>11 DEF Load
  <2> QED  BY <1>0, <2>1 DEF TypeOK, ReloadFails, IterationEnds, Outside
<1>12. CASE Crash(i)
  BY <1>12 DEF TypeOK, Crash, Outside
<1> QED
  BY <1>1, <1>2, <1>3, <1>4, <1>5, <1>6, <1>7, <1>8, <1>9, <1>10, <1>11,
     <1>12 DEF Step

(* The steps of S3 and of the operator, and stuttering.                     *)
Environment ==
  \/ \E i \in Instances : LateLock(i)
  \/ \E r \in latePuts : LatePut(r)
  \/ LateUnlock
  \/ RemoveLock
  \/ \E e \in Epochs : CleanUp(e)
  \/ \E c \in Configs : Deploy(c)
  \/ UNCHANGED vars

(* What no step of the environment changes in an instance.                  *)
LEMMA EnvironmentFrame ==
  ASSUME Environment
  PROVE  /\ pc' = pc /\ conf' = conf /\ listed' = listed
         /\ missing' = missing /\ bundle' = bundle /\ written' = written
         /\ event' = event /\ active' = active /\ used' = used
BY DEF Environment, LateLock, LatePut, LateUnlock, RemoveLock, CleanUp, Deploy,
       vars, local

(* A step is a step or a restart of one instance, or the environment's.     *)
LEMMA NextSplit ==
  ASSUME [Next]_vars
  PROVE  Environment \/ \E i \in Instances : Step(i) \/ Crash(i)
BY DEF Next, Environment

(* A generated key stays generated.                                         *)
LEMMA UsedGrows ==
  ASSUME [Next]_vars PROVE used \subseteq used'
<1>1. ASSUME NEW i \in Instances, Step(i) \/ Crash(i) PROVE used \subseteq used'
  BY <1>1 DEF Step, FetchConfig, ListPublic, ListFails, CheckMissing,
     AcquireLock, FindMissingUnderLock, Generate, PutArtifact, ReleaseLock,
     ListForLoad, Load, Crash
<1> QED  BY <1>1, NextSplit, EnvironmentFrame

(* The write loop always has a generated bundle and an epoch to write.      *)
THEOREM NextWriter == TypeOK /\ WriterOK /\ [Next]_vars => WriterOK'
<1> SUFFICES ASSUME TypeOK, WriterOK, [Next]_vars, NEW j \in Instances
             PROVE  /\ pc'[j] = "Write" => bundle'[j] \in used'
                                           /\ missing'[j] # {}
                    /\ pc'[j] = "Generate" => missing'[j] # {}
                    /\ pc'[j] # "Write" => written'[j] = 0
  BY DEF WriterOK
<1>1. CASE Environment
  BY <1>1, EnvironmentFrame DEF WriterOK
<1>2. ASSUME NEW i \in Instances, Step(i) \/ Crash(i), i = j
      PROVE  /\ pc'[j] = "Write" => bundle'[j] \in used' /\ missing'[j] # {}
             /\ pc'[j] = "Generate" => missing'[j] # {}
             /\ pc'[j] # "Write" => written'[j] = 0
  BY <1>2, WriterStep, UsedGrows
     DEF WriterOK, Outside, NextEpoch, Generated, Put
<1>3. ASSUME NEW i \in Instances, Step(i) \/ Crash(i), i # j
      PROVE  /\ pc'[j] = "Write" => bundle'[j] \in used' /\ missing'[j] # {}
             /\ pc'[j] = "Generate" => missing'[j] # {}
             /\ pc'[j] # "Write" => written'[j] = 0
  <2>1. /\ pc'[j] = pc[j] /\ missing'[j] = missing[j]
        /\ bundle'[j] = bundle[j] /\ written'[j] = written[j]
    BY <1>3, OthersUnchanged
  <2> QED  BY <2>1, UsedGrows DEF WriterOK
<1> QED  BY <1>1, <1>2, <1>3, NextSplit

(* At first nobody writes.                                                  *)
LEMMA InitWriter == Init => WriterOK
BY DEF Init, WriterOK

(* Every variable keeps its type, in every behaviour.                       *)
THEOREM TypeCorrect == Spec => []TypeOK
<1>1. Init => TypeOK /\ WriterOK
  BY InitType, InitWriter
<1>2. TypeOK /\ WriterOK /\ [Next]_vars => (TypeOK /\ WriterOK)'
  BY NextType, NextWriter
<1> QED  BY <1>1, <1>2, PTL DEF Spec

-----------------------------------------------------------------------------
(* How the store changes.                                                   *)

(* A put of the k-th artifact of bundle b, which may find one there.        *)
PutStep(e, k, b) == store' = StoreWith(e, WriteOrder[k], b)

(* The store changes by a put, by a late put or by a clean-up only.         *)
LEMMA StoreSteps ==
  ASSUME TypeOK, WriterOK, [Next]_vars
  PROVE  \/ store' = store
         \/ \E i \in Instances : \E e \in missing[i] :
              /\ pc[i] = "Write" /\ IsFirst(e, missing[i])
              /\ PutStep(e, written[i] + 1, bundle[i])
         \/ \E r \in latePuts : store' = StoreWith(r[1], r[2], r[3])
         \/ \E e \in Epochs : CleanUp(e)
<1>1. CASE Environment
  BY <1>1 DEF Environment, LateLock, LatePut, LateUnlock, RemoveLock, Deploy,
              vars, remote
<1>2. ASSUME NEW i \in Instances, PutArtifact(i), store' # store
      PROVE  \E e \in missing[i] :
              /\ pc[i] = "Write" /\ IsFirst(e, missing[i])
              /\ PutStep(e, written[i] + 1, bundle[i])
  BY <1>2 DEF PutArtifact, PutStep, NextElement
<1>3. ASSUME NEW i \in Instances, Step(i) \/ Crash(i), ~PutArtifact(i)
      PROVE  store' = store
  BY <1>3 DEF Step, FetchConfig, ListPublic, ListFails, CheckMissing,
     AcquireLock, FindMissingUnderLock, Generate, ReleaseLock,
     ListForLoad, Load, Crash, remote
<1> QED  BY <1>1, <1>2, <1>3, NextSplit
=============================================================================
