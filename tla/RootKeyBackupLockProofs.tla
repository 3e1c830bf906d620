---------------------- MODULE RootKeyBackupLockProofs -----------------------
(***************************************************************************)
(* The generation lock, for an operator who removes it only when nothing   *)
(* runs under it, no request is on its way and no backup is half-written,  *)
(* and up to the first stray delete.                                       *)
(***************************************************************************)
EXTENDS RootKeyBackupSafetyProofs

(* Mere abbreviations, expanded throughout.                                *)
USE DEF IfNoneMatch, MoreElements, FailureUnderLock

(* A writer owns the lock and every half-written backup; when the lock is   *)
(* free there is nothing half-written and no put on its way.                *)
Clean == latePuts = {} /\ \A e \in Epochs : ~Partial(e)
Owns(i) ==
  /\ lock = i
  /\ latePuts = {}
  /\ \A e \in Epochs : Partial(e) =>
       pc[i] = "Write" /\ IsFirst(e, missing[i]) /\ written[i] # 0
LockInv ==
  /\ \A i \in Instances : pc[i] \in Critical => Owns(i)
  /\ lock = None => Clean

(* What it means for a backup to be half-written.                           *)
LEMMA PartialUnfolded ==
  ASSUME NEW e
  PROVE  Partial(e) <=> Present(e) # {} /\ "CERT" \notin Present(e)
BY DEF Partial, HandleState, Elements, PublicElements

(* Partial depends on the artifacts of its epoch only.                      *)
LEMMA PartialSame ==
  ASSUME NEW e, store'[e] = store[e] PROVE Partial(e)' <=> Partial(e)
BY DEF Partial, Present

(* Clean depends on the store only.                                         *)
LEMMA CleanSame ==
  ASSUME Clean, store' = store, latePuts' = latePuts PROVE Clean'
BY DEF Clean, Partial, Present

(* Instances other than i: they keep what they own as long as the lock, the *)
(* late puts and the half-written backups do not change.                    *)
LEMMA OthersOwn ==
  ASSUME TypeOK, LockInv, NEW i \in Instances, Step(i) \/ Crash(i),
         NEW j \in Instances, j # i, pc'[j] \in Critical,
         lock' = lock, latePuts' = latePuts, store' = store
  PROVE  Owns(j)'
<1>1. /\ pc'[j] = pc[j] /\ missing'[j] = missing[j] /\ written'[j] = written[j]
  BY OthersUnchanged
<1>2. Owns(j)
  BY <1>1 DEF LockInv
<1> QED  BY <1>1, <1>2 DEF Owns, Partial, Present, IsFirst

(* A step of i that ends outside the critical section and leaves S3 alone.  *)
LEMMA LeaveKeepsLock ==
  ASSUME TypeOK, LockInv, NEW i \in Instances, Step(i) \/ Crash(i),
         pc'[i] \notin Critical,
         lock' = lock, latePuts' = latePuts, store' = store
  PROVE  LockInv'
<1>1. \A j \in Instances : pc'[j] \in Critical => Owns(j)'
  BY OthersOwn
<1>2. (lock = None => Clean)'
  BY CleanSame DEF LockInv
<1> QED  BY <1>1, <1>2 DEF LockInv

(* A step of i within the critical section that leaves S3 alone.            *)
LEMMA StayKeepsLock ==
  ASSUME TypeOK, LockInv, NEW i \in Instances, Step(i) \/ Crash(i),
         pc[i] \in Critical \ {"Write"},
         lock' = lock, latePuts' = latePuts, store' = store
  PROVE  LockInv'
<1>0. Owns(i) /\ \A e \in Epochs : ~Partial(e)
  BY DEF LockInv, Owns
<1>1. Owns(i)'
  BY <1>0 DEF Owns, Partial, Present
<1>2. \A j \in Instances : pc'[j] \in Critical => Owns(j)'
  BY <1>1, OthersOwn
<1>3. (lock = None => Clean)'
  BY CleanSame DEF LockInv
<1> QED  BY <1>2, <1>3 DEF LockInv

(* However generateCertificates ends, the thread is no longer critical.     *)
LEMMA GenerationEndsLeaves ==
  ASSUME TypeOK, NEW i \in Instances, NEW r, GenerationEnds(i, r)
  PROVE  pc'[i] \notin Critical
BY DEF TypeOK, GenerationEnds, Critical

(* acquireLock: whoever passes it finds no lock and no other holder.        *)
LEMMA AcquireKeepsLock ==
  ASSUME TypeOK, LockInv, NEW i \in Instances, AcquireLock(i) PROVE LockInv'
<1>0. /\ store' = store /\ latePuts' = latePuts
      /\ pc[i] = "AcquireLock" /\ Step(i)
  BY DEF AcquireLock, Step
<1>1. CASE lock = None
  <2>1. Clean
    BY <1>1 DEF LockInv
  <2>2. \A j \in Instances : j # i => pc'[j] \notin Critical
    <3>1. \A j \in Instances : pc[j] \notin Critical
      BY <1>1, ConstantsAssumption DEF LockInv, Owns
    <3> QED  BY <1>0, <3>1, OthersUnchanged
  <2>3. Clean'
    BY <1>0, <2>1, CleanSame
  <2>4. pc'[i] \in Critical => lock' = i
    <3>1. CASE lock' = i
      BY <3>1
    <3>2. CASE lock' # i
      <4>1. GenerationEnds(i, "FAILURE")
        BY <1>1, <3>2 DEF AcquireLock, IfAbsent
      <4> QED  BY <4>1, GenerationEndsLeaves
    <3> QED  BY <3>1, <3>2
  <2>5. pc'[i] \in Critical => Owns(i)'
    BY <1>0, <2>1, <2>3, <2>4 DEF Owns, Clean
  <2> QED  BY <1>0, <2>1, <2>2, <2>3, <2>5 DEF LockInv
<1>2. CASE lock # None
  <2>1. lock' = lock
    BY <1>2 DEF AcquireLock, IfAbsent
  <2>2. pc'[i] \notin Critical
    <3>1. CASE AlreadyLocked(i) /\ attempt[i] = 1
      BY <3>1 DEF TypeOK, AlreadyLocked, Critical
    <3>2. CASE \E r : GenerationEnds(i, r)
      BY <3>2, GenerationEndsLeaves
    <3> QED  BY <1>2, <3>1, <3>2 DEF AcquireLock, AlreadyLocked
  <2> QED  BY <1>0, <2>1, <2>2, LeaveKeepsLock
<1> QED  BY <1>1, <1>2

(* While i owns the lock nobody else is in the critical section.            *)
LEMMA OwnerIsAlone ==
  ASSUME TypeOK, LockInv, NEW i \in Instances, Step(i), pc[i] \in Critical,
         NEW j \in Instances, j # i
  PROVE  pc'[j] \notin Critical
<1>1. pc[j] \notin Critical
  BY DEF LockInv, Owns
<1> QED  BY <1>1, OthersUnchanged

(* putIfAbsent of an artifact runs under the lock and leaves it there.      *)
LEMMA PutKeepsLock ==
  ASSUME StoreInv, LockInv, NEW i \in Instances, PutArtifact(i) PROVE LockInv'
<1> USE ConstantsAssumption
<1>0. /\ TypeOK /\ Step(i) /\ pc[i] = "Write" /\ pc[i] \in Critical
      /\ lock' = lock
  BY DEF StoreInv, Step, PutArtifact, Critical
<1>1. Owns(i) /\ lock' = i /\ lock' # None
  BY <1>0 DEF LockInv, Owns
<1>2. \A j \in Instances : j # i => pc'[j] \notin Critical
  BY <1>0, OwnerIsAlone
<1>3. CASE GenerationEnds(i, "FAILURE")
  BY <1>0, <1>1, <1>2, <1>3, GenerationEndsLeaves DEF LockInv
<1>4. CASE ~GenerationEnds(i, "FAILURE")
  <2>1. PICK e \in missing[i] :
           /\ IsFirst(e, missing[i])
           /\ store' = StoreWith(e, NextElement(i), bundle[i])
           /\ Written(i, e)
           /\ latePuts' = latePuts
    BY <1>4 DEF PutArtifact
  <2>2. /\ e \in Epochs /\ missing[i] \subseteq Nat
        /\ bundle[i] \in Bundles /\ bundle[i] # None
    BY <1>0 DEF StoreInv, TypeOK, WriterOK
  <2>3. NextElement(i) \in Elements
    BY <1>0, WrittenType, WriteOrderFacts DEF NextElement
  <2>4. ASSUME NEW f \in Epochs, f # e PROVE ~Partial(f)'
    <3>1. ~Partial(f)
      BY <1>1, <2>1, <2>2, <2>4 DEF Owns, IsFirst
    <3>2. store'[f] = store[f]
      BY <1>0, <2>1, <2>2, <2>4 DEF StoreWith, TypeOK
    <3> QED  BY <3>1, <3>2, PartialSame
  <2>5. CASE written[i] + 1 < Len(WriteOrder)
    <3>1. /\ written' = [written EXCEPT ![i] = written[i] + 1]
          /\ pc' = pc /\ missing' = missing
      BY <2>1, <2>5 DEF Written
    <3>2. written'[i] # 0
      BY <1>0, <3>1, WrittenType
    <3>3. Owns(i)'
      BY <1>0, <1>1, <2>1, <2>4, <3>1, <3>2 DEF Owns
    <3> QED  BY <1>1, <1>2, <3>3 DEF LockInv
  <2>6. CASE ~(written[i] + 1 < Len(WriteOrder))
    <3>1. NextElement(i) = "CERT"
      <4>1. written[i] + 1 = 4
        BY <1>0, <2>6, WrittenType, WriteOrderFacts
      <4> QED  BY <4>1, WriteOrderFacts DEF NextElement
    <3>2. store'[e]["CERT"] # None
      BY <1>0, <2>1, <2>2, <2>3, <3>1 DEF TypeOK, StoreWith, IfAbsent
    <3>3. ~Partial(e)'
      BY <3>2 DEF Partial, Present, HandleState, Elements, PublicElements
    <3>4. \A f \in Epochs : ~Partial(f)'
      BY <2>4, <3>3
    <3>5. Owns(i)'
      BY <1>1, <2>1, <3>4 DEF Owns
    <3> QED  BY <1>1, <1>2, <3>5 DEF LockInv
  <2> QED  BY <2>5, <2>6
<1> QED  BY <1>3, <1>4

(* releaseLock: by then every backup the holder started is complete.        *)
LEMMA ReleaseKeepsLock ==
  ASSUME TypeOK, LockInv, NEW i \in Instances, ReleaseLock(i) PROVE LockInv'
<1>0. /\ Step(i) /\ pc[i] = "ReleaseLock" /\ pc[i] \in Critical
      /\ store' = store /\ latePuts' = latePuts
  BY DEF Step, ReleaseLock, Critical
<1>1. Owns(i) /\ Clean
  BY <1>0 DEF LockInv, Owns, Clean
<1>2. Clean'
  BY <1>0, <1>1, CleanSame
<1>3. \A j \in Instances : j # i => pc'[j] \notin Critical
  BY <1>0, OwnerIsAlone
<1>4. pc'[i] \notin Critical
  BY GenerationEndsLeaves DEF ReleaseLock
<1> QED  BY <1>2, <1>3, <1>4 DEF LockInv

(* Every remote call of an instance preserves the lock invariant.           *)
LEMMA StepKeepsLock ==
  ASSUME StoreInv, LockInv, NEW i \in Instances, Step(i) \/ Crash(i)
  PROVE  LockInv'
<1>0. TypeOK
  BY DEF StoreInv
<1> USE DEF remote
<1>1. CASE AcquireLock(i)  BY <1>0, <1>1, AcquireKeepsLock
<1>2. CASE PutArtifact(i)  BY <1>2, PutKeepsLock
<1>3. CASE ReleaseLock(i)  BY <1>0, <1>3, ReleaseKeepsLock
<1>4. CASE pc[i] \in Critical \ {"Write"} /\ UNCHANGED remote
  BY <1>0, <1>4, StayKeepsLock
<1>5. CASE pc'[i] \notin Critical /\ UNCHANGED remote
  BY <1>0, <1>5, LeaveKeepsLock
<1>6. CASE FetchConfig(i)
  BY <1>0, <1>5, <1>6 DEF FetchConfig, TypeOK, Critical
<1>7. CASE ListPublic(i)
  <2>1. UNCHANGED remote
    BY <1>7 DEF ListPublic
  <2> QED  BY <1>0, <1>4, <1>5, <1>7, <2>1, ListPublicMoves DEF Critical
<1>8. CASE ListFails(i)
  <2>1. UNCHANGED remote
    BY <1>8 DEF ListFails
  <2>2. pc'[i] \notin Critical
    <3>1. CASE \E r : GenerationEnds(i, r)
      BY <1>0, <3>1, GenerationEndsLeaves
    <3>2. CASE ReloadFails(i, "Unknown")
      BY <1>0, <3>2 DEF ReloadFails, IterationEnds, TypeOK, Critical
    <3> QED  BY <1>8, <3>1, <3>2 DEF ListFails
  <2> QED  BY <1>5, <2>1, <2>2
<1>9. CASE CheckMissing(i)
  <2>1. UNCHANGED remote
    BY <1>9 DEF CheckMissing
  <2>2. pc'[i] \notin Critical
    <3>1. CASE \E r : GenerationEnds(i, r)
      BY <1>0, <3>1, GenerationEndsLeaves
    <3>2. CASE pc' = [pc EXCEPT ![i] = "AcquireLock"]
      BY <1>0, <3>2 DEF TypeOK, Critical
    <3> QED  BY <1>9, <3>1, <3>2 DEF CheckMissing
  <2> QED  BY <1>5, <2>1, <2>2
<1>10. CASE FindMissingUnderLock(i)
  BY <1>4, <1>10 DEF FindMissingUnderLock, Critical
<1>11. CASE Generate(i)
  BY <1>4, <1>11 DEF Generate, Critical
<1>12. CASE ListForLoad(i)
  BY <1>0, <1>5, <1>12 DEF ListForLoad, TypeOK, Critical
<1>13. CASE Load(i)
  <2>1. UNCHANGED remote
    BY <1>13 DEF Load
  <2>2. \/ \E r : IterationEnds(i, r)
        \/ \E s : ReloadFails(i, s)
    BY <1>13 DEF Load
  <2>3. pc'[i] \notin Critical
    BY <1>0, <2>2 DEF ReloadFails, IterationEnds, TypeOK, Critical
  <2> QED  BY <1>5, <2>1, <2>3
<1>14. CASE Crash(i)
  BY <1>0, <1>5, <1>14 DEF Crash, TypeOK, Critical
<1> QED
  BY <1>1, <1>2, <1>3, <1>6, <1>7, <1>8, <1>9, <1>10, <1>11, <1>12, <1>13,
     <1>14 DEF Step

-----------------------------------------------------------------------------
(* So do late requests, but for a stray delete, and a careful operator.     *)
LEMMA EnvironmentKeepsLock ==
  ASSUME StoreInv, LockInv, OperatorCareful, Environment, ~strayed'
  PROVE  LockInv'
<1> USE ConstantsAssumption
<1>0. /\ pc' = pc /\ missing' = missing /\ written' = written
  BY EnvironmentFrame
<1>1. ASSUME NEW i \in Instances, LateLock(i) PROVE LockInv'
  <2>1. /\ store' = store /\ latePuts' = latePuts
        /\ lock # None => lock' = lock
    BY <1>1 DEF LateLock, IfAbsent
  <2>2. \A j \in Instances : pc'[j] \in Critical => Owns(j)'
    <3> SUFFICES ASSUME NEW j \in Instances, pc[j] \in Critical
                 PROVE  Owns(j)'
      BY <1>0
    <3>1. Owns(j) /\ lock' = lock
      BY <2>1 DEF LockInv, Owns
    <3> QED  BY <1>0, <2>1, <3>1 DEF Owns, Partial, Present, IsFirst
  <2>3. (lock = None => Clean)'
    BY <2>1, CleanSame DEF LockInv
  <2> QED  BY <2>2, <2>3 DEF LockInv
<1>2. ASSUME NEW r \in latePuts, LatePut(r) PROVE LockInv'
  <2>1. /\ lock' = lock /\ latePuts # {}
    BY <1>2 DEF LatePut
  <2>2. /\ \A i \in Instances : pc[i] \notin Critical
        /\ lock # None
    BY <2>1 DEF LockInv, Owns, Clean
  <2> QED  BY <1>0, <2>1, <2>2 DEF LockInv
<1>3. CASE LateUnlock
  <2>1. /\ store' = store /\ latePuts' = latePuts
        /\ lock' = lock \/ ~LockInUse
    BY <1>3 DEF LateUnlock
  <2>2. CASE lock' = lock
    <3>1. \A j \in Instances : pc'[j] \in Critical => Owns(j)'
      BY <1>0, <2>1, <2>2 DEF LockInv, Owns, Partial, Present, IsFirst
    <3> QED  BY <2>1, <2>2, <3>1, CleanSame DEF LockInv
  <2>3. CASE ~LockInUse
    <3>1. Clean' /\ \A i \in Instances : pc[i] \notin Critical
      BY <2>1, <2>3, CleanSame DEF LockInUse, Clean
    <3> QED  BY <1>0, <3>1 DEF LockInv
  <2> QED  BY <2>1, <2>2, <2>3
<1>4. CASE RemoveLock
  <2>1. /\ Quiet /\ \A e \in Epochs : ~Partial(e)
        /\ store' = store /\ latePuts' = latePuts
    BY <1>4 DEF RemoveLock
  <2>2. /\ Clean
        /\ \A i \in Instances : pc[i] \notin Critical
    BY <2>1 DEF Quiet, Clean
  <2> QED  BY <1>0, <2>1, <2>2, CleanSame DEF LockInv
<1>5. ASSUME NEW e \in Epochs, CleanUp(e) PROVE LockInv'
  <2>1. /\ \A i \in Instances : pc[i] \notin Critical
        /\ Partial(e) /\ lock' = lock
    BY <1>5 DEF CleanUp, Quiet
  <2>2. lock # None
    BY <2>1 DEF LockInv, Clean
  <2> QED  BY <1>0, <2>1, <2>2 DEF LockInv
<1>6. CASE UNCHANGED remote
  <2>1. /\ store' = store /\ lock' = lock /\ latePuts' = latePuts
    BY <1>6 DEF remote
  <2>2. \A j \in Instances : pc'[j] \in Critical => Owns(j)'
    BY <1>0, <2>1 DEF LockInv, Owns, Partial, Present, IsFirst
  <2> QED  BY <2>1, <2>2, CleanSame DEF LockInv
<1>7. ASSUME NEW c \in Configs, Deploy(c) PROVE LockInv'
  BY <1>6, <1>7 DEF Deploy
<1>8. CASE UNCHANGED vars
  BY <1>6, <1>8 DEF vars, remote
<1> QED  BY <1>1, <1>2, <1>3, <1>4, <1>5, <1>7, <1>8 DEF Environment

(* At first there is neither a lock nor a holder.                           *)
LEMMA InitLock == Init => LockInv
BY DEF Init, LockInv, Critical, Clean, Partial, Present, HandleState

(* A stray delete is never taken back.                                      *)
LEMMA StraysForGood == ASSUME [Next]_vars, strayed PROVE strayed'
BY DEF Next, vars, Step, FetchConfig, ListPublic, ListFails, CheckMissing,
       AcquireLock, FindMissingUnderLock, Generate, PutArtifact, ReleaseLock,
       ListForLoad, Load, Crash, LateLock, LatePut, LateUnlock, RemoveLock,
       CleanUp, Deploy, remote

CarefulLock == OperatorCareful /\ ~strayed => LockInv

(* The lock invariant, for an operator who investigates first.              *)
LEMMA LockInvariant == Spec => []CarefulLock
<1>1. Init => CarefulLock
  BY InitLock DEF CarefulLock
<1>2. StoreInv /\ CarefulLock /\ [Next]_vars => CarefulLock'
  <2> SUFFICES ASSUME StoreInv, CarefulLock, [Next]_vars, OperatorCareful,
                      ~strayed'
               PROVE  LockInv'
    BY DEF CarefulLock
  <2>1. LockInv
    BY StraysForGood DEF CarefulLock
  <2> QED  BY <2>1, StepKeepsLock, EnvironmentKeepsLock, NextSplit
<1> QED  BY <1>1, <1>2, StoreInvariant, PTL DEF Spec

(* At most one instance is between acquiring and releasing the lock, and it *)
(* is the one the lock object names.                                        *)
THEOREM LockIsExclusive == Spec => []LockExclusion
<1>1. CarefulLock => LockExclusion
  BY DEF CarefulLock, LockInv, Owns, LockExclusion
<1> QED  BY <1>1, LockInvariant, PTL

(* While a backup is half-written the lock object is there.                 *)
THEOREM HalfWrittenIsLocked == Spec => []HalfWrittenKeepsLock
<1>1. CarefulLock => HalfWrittenKeepsLock
  BY DEF CarefulLock, LockInv, Clean, HalfWrittenKeepsLock
<1> QED  BY <1>1, LockInvariant, PTL

(* All three together: the lock, half-written backups, and the types.       *)
THEOREM BackupIsGuarded == Spec => []BackupInvariant
BY TypeCorrect, LockIsExclusive, HalfWrittenIsLocked, PTL DEF BackupInvariant
=============================================================================
