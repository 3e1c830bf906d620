---------------------- MODULE RootKeyBackupRefinement -----------------------
(***************************************************************************)
(* RootKeyBackup implements KeyRegistry.  Beyond the order of the store    *)
(* the argument needs that a bundle belongs to one epoch, so that the key  *)
(* an epoch gets is nobody else's.                                         *)
(***************************************************************************)
EXTENDS RootKeyBackupSafetyProofs

(* Mere abbreviations, expanded throughout.                                *)
USE DEF IfNoneMatch, MoreElements, FailureUnderLock

(* Bundle b is stored for epoch e, or is on its way to it.                  *)
Stored(e, b) == \E a \in Elements : store[e][a] = b
Writing(e, b) == \E i \in Instances :
                   pc[i] = "Write" /\ bundle[i] = b /\ IsFirst(e, missing[i])
Late(e, b) == \E a \in Elements : <<e, a, b>> \in latePuts
Claims(e, b) == Stored(e, b) \/ Writing(e, b) \/ Late(e, b)

OneHome ==
  /\ \A b \in Bundles : \A e, f \in Epochs :
       Claims(e, b) /\ Claims(f, b) => e = f
  /\ \A b \in Bundles : \A e \in Epochs : Claims(e, b) => b \in used

(* Epoch e is the first that instance i has just generated bundle b for.    *)
Fresh(i, e, b) ==
  Step(i) /\ Generated(i) /\ bundle'[i] = b /\ IsFirst(e, missing'[i])

(* An epoch gets a claim on a key only by the writer of that key.           *)
LEMMA ClaimsSteps ==
  ASSUME StoreInv, [Next]_vars, NEW e \in Epochs, NEW b \in Bundles,
         Claims(e, b)'
  PROVE  Claims(e, b) \/ \E i \in Instances : Fresh(i, e, b)
<1> USE ConstantsAssumption
<1>0. TypeOK /\ WriterOK
  BY DEF StoreInv
<1>1. CASE Stored(e, b)'
  <2>1. PICK a \in Elements : store'[e][a] = b
    BY <1>1 DEF Stored
  <2>2. CASE store' = store
    BY <2>1, <2>2 DEF Claims, Stored
  <2>3. ASSUME NEW i \in Instances, NEW f \in missing[i], pc[i] = "Write",
               IsFirst(f, missing[i]), PutStep(f, written[i] + 1, bundle[i])
        PROVE  Claims(e, b)
    <3>1. f \in Epochs /\ WriteOrder[written[i] + 1] \in Elements
      BY <1>0, <2>3, WrittenType, WriteOrderFacts DEF TypeOK
    <3>2. \/ store'[e][a] = store[e][a]
          \/ e = f /\ store'[e][a] = bundle[i]
      BY <1>0, <2>3, <3>1 DEF PutStep, StoreWith, IfAbsent, TypeOK
    <3> QED  BY <2>1, <2>3, <3>2 DEF Claims, Stored, Writing
  <2>4. ASSUME NEW r \in latePuts, store' = StoreWith(r[1], r[2], r[3])
        PROVE  Claims(e, b)
    <3>1. r \in Epochs \X Elements \X Bundles
      BY <1>0 DEF TypeOK
    <3>2. /\ r[1] \in Epochs /\ r[2] \in Elements /\ r[3] \in Bundles
          /\ r = <<r[1], r[2], r[3]>>
      BY <3>1
    <3>3. \/ store'[e][a] = store[e][a]
          \/ e = r[1] /\ store'[e][a] = r[3]
      BY <1>0, <2>4, <3>2 DEF StoreWith, IfAbsent, TypeOK
    <3> QED  BY <2>1, <3>2, <3>3 DEF Claims, Stored, Late
  <2>5. ASSUME NEW f \in Epochs, CleanUp(f) PROVE Claims(e, b)
    <3>1. store' = [store EXCEPT ![f] = [c \in Elements |-> None]]
      BY <2>5, CleanUpQuiet
    <3>2. store'[e][a] = store[e][a] \/ store'[e][a] = None
      BY <1>0, <3>1 DEF TypeOK
    <3> QED  BY <2>1, <3>2 DEF Claims, Stored
  <2> QED  BY <1>0, <2>2, <2>3, <2>4, <2>5, StoreSteps
<1>2. CASE Writing(e, b)'
  <2>1. PICK j \in Instances :
          pc'[j] = "Write" /\ bundle'[j] = b /\ IsFirst(e, missing'[j])
    BY <1>2 DEF Writing, IsFirst
  <2>2. CASE /\ pc'[j] = pc[j] /\ bundle'[j] = bundle[j]
             /\ missing'[j] = missing[j]
    BY <2>1, <2>2 DEF Claims, Writing
  <2>3. ASSUME NEW i \in Instances, Step(i) \/ Crash(i), i = j
        PROVE  Claims(e, b) \/ \E k \in Instances : Fresh(k, e, b)
    <3>1. CASE Put(j)
      BY <2>2, <3>1 DEF Put
    <3>2. CASE Generated(j) /\ Step(j)
      BY <2>1, <3>2 DEF Fresh
    <3>3. CASE Crash(j)
      BY <1>0, <2>1, <3>3 DEF Crash, TypeOK
    <3> QED  BY <1>0, <2>1, <2>3, <3>1, <3>2, <3>3, WriterStep
                DEF Outside, NextEpoch
  <2>4. ASSUME NEW i \in Instances, Step(i) \/ Crash(i), i # j
        PROVE  Claims(e, b) \/ \E k \in Instances : Fresh(k, e, b)
    <3>1. /\ pc'[j] = pc[j] /\ bundle'[j] = bundle[j]
          /\ missing'[j] = missing[j]
      BY <1>0, <2>4, OthersUnchanged
    <3> QED  BY <2>2, <3>1
  <2> QED  BY <2>2, <2>3, <2>4, NextSplit, EnvironmentFrame
<1>3. CASE Late(e, b)'
  <2>1. PICK a \in Elements : <<e, a, b>> \in latePuts'
    BY <1>3 DEF Late
  <2>2. CASE <<e, a, b>> \in latePuts
    BY <2>2 DEF Claims, Late
  <2>3. CASE <<e, a, b>> \notin latePuts
    <3>1. \E i \in Instances : \E f \in missing[i] :
            /\ pc[i] = "Write" /\ IsFirst(f, missing[i])
            /\ <<e, a, b>> = <<f, NextElement(i), bundle[i]>>
      BY <2>1, <2>3, NewLatePuts
    <3> QED  BY <3>1 DEF Claims, Writing
  <2> QED  BY <2>2, <2>3
<1> QED  BY <1>1, <1>2, <1>3 DEF Claims

(* Two epochs never come to claim the same bundle.                          *)
LEMMA NextOneHome == StoreInv /\ OneHome /\ [Next]_vars => OneHome'
<1> SUFFICES ASSUME StoreInv, OneHome, [Next]_vars,
                    NEW b \in Bundles, NEW e \in Epochs, Claims(e, b)'
             PROVE  /\ b \in used'
                    /\ \A f \in Epochs : Claims(f, b)' => e = f
  BY DEF OneHome
<1>0. TypeOK
  BY DEF StoreInv
<1>1. b \in used'
  BY ClaimsSteps, UsedGrows DEF OneHome, Fresh, Generated
<1>2. ASSUME NEW f \in Epochs, Claims(f, b)' PROVE e = f
  <2>1. CASE Claims(e, b) /\ Claims(f, b)
    BY <2>1 DEF OneHome
  <2>2. ASSUME NEW i \in Instances, NEW g \in Epochs, Fresh(i, g, b)
        PROVE  b \notin used
    BY <2>2 DEF Fresh, Generated
  <2>3. ASSUME NEW i \in Instances, NEW j \in Instances,
               Fresh(i, e, b), Fresh(j, f, b)
        PROVE  e = f
    <3>1. i = j
      <4> SUFFICES ASSUME i # j PROVE FALSE
        OBVIOUS
      <4>1. pc'[j] = pc[j]
        BY <1>0, <2>3, OthersUnchanged DEF Fresh
      <4> QED  BY <2>3, <4>1 DEF Fresh, Generated
    <3>2. missing'[i] = missing[i] /\ missing[i] \subseteq Nat
      BY <1>0, <2>3, ConstantsAssumption DEF Fresh, Generated, TypeOK
    <3> QED  BY <2>3, <3>1, <3>2 DEF Fresh, IsFirst
  <2> QED  BY <1>2, <2>1, <2>2, <2>3, ClaimsSteps DEF OneHome
<1> QED  BY <1>1, <1>2

(* Every generated key has one epoch for which it is or will be stored.     *)
LEMMA OneHomeInvariant == Spec => []OneHome
<1>1. Init => OneHome
  BY ConstantsAssumption
     DEF Init, OneHome, Claims, Stored, Writing, Late
<1> QED  BY <1>1, NextOneHome, StoreInvariant, PTL DEF Spec

-----------------------------------------------------------------------------
(* A step that stores a certificate publishes a key nobody else has.        *)
LEMMA CertStep ==
  ASSUME StoreInv, OneHome, [Next]_vars, NEW e \in Epochs,
         store'[e]["CERT"] # store[e]["CERT"]
  PROVE  \E b \in Bundles :
           /\ store[e]["CERT"] = None
           /\ \A f \in Epochs : store[f]["CERT"] # b
           /\ \A f \in Epochs : store'[f]["CERT"] =
                                  IF f = e THEN b ELSE store[f]["CERT"]
<1> USE ConstantsAssumption
<1>0. TypeOK /\ WriterOK /\ "CERT" \in Elements
  BY DEF StoreInv, Elements, PublicElements
<1>1. ASSUME NEW g \in Epochs, NEW a \in Elements, NEW b \in Bundles,
             Claims(g, b), store' = StoreWith(g, a, b)
      PROVE  /\ store[e]["CERT"] = None
             /\ \A f \in Epochs : store[f]["CERT"] # b
             /\ \A f \in Epochs : store'[f]["CERT"] =
                                    IF f = e THEN b ELSE store[f]["CERT"]
  <2>1. /\ g = e /\ a = "CERT" /\ store[e]["CERT"] = None
        /\ store'[e]["CERT"] = b
    BY <1>0, <1>1 DEF StoreWith, IfAbsent, TypeOK
  <2>2. \A f \in Epochs : f # e => store'[f] = store[f]
    BY <1>0, <1>1, <2>1 DEF StoreWith, TypeOK
  <2>3. ASSUME NEW f \in Epochs, store[f]["CERT"] = b PROVE FALSE
    <3>1. Claims(f, b)
      BY <1>0, <2>3 DEF Claims, Stored
    <3>2. f = e
      BY <1>1, <2>1, <3>1 DEF OneHome
    <3> QED  BY <2>1, <2>3, <3>2
  <2> QED  BY <2>1, <2>2, <2>3
<1>2. ASSUME NEW i \in Instances, NEW g \in missing[i], pc[i] = "Write",
             IsFirst(g, missing[i]), PutStep(g, written[i] + 1, bundle[i])
      PROVE  /\ bundle[i] \in Bundles /\ g \in Epochs /\ Claims(g, bundle[i])
             /\ WriteOrder[written[i] + 1] \in Elements
  <2>1. bundle[i] \in Bundles /\ g \in Epochs
    BY <1>0, <1>2 DEF TypeOK, WriterOK
  <2> QED  BY <1>0, <1>2, <2>1, WrittenType, WriteOrderFacts
              DEF Claims, Writing
<1>3. ASSUME NEW r \in latePuts
      PROVE  /\ r[1] \in Epochs /\ r[2] \in Elements /\ r[3] \in Bundles
             /\ Claims(r[1], r[3])
  <2>1. r \in Epochs \X Elements \X Bundles
    BY <1>0 DEF TypeOK
  <2>2. r[1] \in Epochs /\ r[2] \in Elements /\ r[3] \in Bundles
        /\ r = <<r[1], r[2], r[3]>>
    BY <2>1
  <2> QED  BY <2>2 DEF Claims, Late
<1>4. ASSUME NEW g \in Epochs, CleanUp(g) PROVE FALSE
  <2>1. store[g]["CERT"] = None
    BY <1>0, <1>4, CleanUpQuiet DEF Present
  <2>2. store' = [store EXCEPT ![g] = [a \in Elements |-> None]]
    BY <1>4, CleanUpQuiet
  <2>3. CASE e = g
    BY <1>0, <2>1, <2>2, <2>3 DEF TypeOK
  <2>4. CASE e # g
    BY <1>0, <2>2, <2>4 DEF TypeOK
  <2> QED  BY <2>3, <2>4
<1>5. store' # store
  OBVIOUS
<1>6. \E g \in Epochs, a \in Elements, b \in Bundles :
        Claims(g, b) /\ store' = StoreWith(g, a, b)
  <2>1. CASE \E i \in Instances : \E g \in missing[i] :
               /\ pc[i] = "Write" /\ IsFirst(g, missing[i])
               /\ PutStep(g, written[i] + 1, bundle[i])
    BY <1>2, <2>1 DEF PutStep
  <2>2. CASE \E r \in latePuts : store' = StoreWith(r[1], r[2], r[3])
    BY <1>3, <2>2
  <2> QED  BY <1>0, <1>4, <1>5, <2>1, <2>2, StoreSteps
<1> QED  BY <1>1, <1>6

(* No step changes both the buckets and a trust package.                    *)
LEMMA ActiveOrRemote ==
  ASSUME [Next]_vars
  PROVE  \/ active' = active
         \/ \E i \in Instances : (Load(i) \/ Crash(i)) /\ store' = store
<1>1. ASSUME NEW i \in Instances, Step(i), ~Load(i) PROVE active' = active
  BY <1>1 DEF Step, FetchConfig, ListPublic, ListFails, CheckMissing,
     AcquireLock, FindMissingUnderLock, Generate, PutArtifact, ReleaseLock,
     ListForLoad
<1>2. ASSUME NEW i \in Instances, Load(i) \/ Crash(i) PROVE store' = store
  BY <1>2 DEF Load, Crash, remote
<1> QED  BY <1>1, <1>2, NextSplit, EnvironmentFrame

(* Every step is a step of the registry or leaves it alone.                 *)
LEMMA StepRefines ==
  StoreInv /\ ConfigOK /\ OneHome /\ [Next]_vars
    => [Registry!Next]_(Registry!vars)
<1> SUFFICES ASSUME StoreInv, ConfigOK, OneHome, [Next]_vars
             PROVE  Registry!Next \/ UNCHANGED Registry!vars
  BY DEF Registry!vars
<1> DEFINE K == [e \in Epochs |-> store[e]["CERT"]]
<1>0. TypeOK
  BY DEF StoreInv
<1>1. CASE active' = active /\ K' = K
  BY <1>1 DEF Registry!vars
<1>2. CASE active' = active /\ K' # K
  <2>1. PICK e \in Epochs : store'[e]["CERT"] # store[e]["CERT"]
    BY <1>2
  <2>2. PICK b \in Bundles :
           /\ store[e]["CERT"] = None
           /\ \A f \in Epochs : store[f]["CERT"] # b
           /\ \A f \in Epochs : store'[f]["CERT"] =
                                  IF f = e THEN b ELSE store[f]["CERT"]
    BY <2>1, CertStep
  <2>3. K' = [K EXCEPT ![e] = b]
    BY <2>2
  <2>4. Registry!Publish(e, b)
    BY <1>2, <2>2, <2>3 DEF Registry!Publish
  <2> QED  BY <2>4 DEF Registry!Next
<1>3. ASSUME NEW i \in Instances, Crash(i), store' = store
      PROVE  Registry!Next
  <2>1. Registry!Restart(i)
    BY <1>3 DEF Crash, NoPackage, Registry!Restart, Registry!NoKeys
  <2> QED  BY <2>1 DEF Registry!Next
<1>4. ASSUME NEW i \in Instances, Installs(i) PROVE Registry!Next
  <2>1. /\ conf[i].active # {} /\ conf[i].active \in SUBSET Epochs
    BY <1>0 DEF ConfigOK, TypeOK
  <2>2. \A e \in conf[i].active : store[e]["CERT"] # None
    BY <1>4 DEF Installs, Elements, PublicElements
  <2>3. [e \in Epochs |-> IF e \in conf[i].active
                          THEN store[e]["CERT"] ELSE None]
          = [e \in Epochs |-> IF e \in conf[i].active THEN K[e] ELSE None]
    OBVIOUS
  <2>4. Registry!Load(i, conf[i].active)
    BY <1>4, <2>1, <2>2, <2>3 DEF Installs, Registry!Load
  <2> QED  BY <2>1, <2>4 DEF Registry!Next
<1>5. ASSUME NEW i \in Instances, Load(i), active' # active
      PROVE  Registry!Next
  BY <1>0, <1>4, <1>5, LoadInstalls
<1> QED  BY <1>1, <1>2, <1>3, <1>5, ActiveOrRemote

(* The buckets, the instances, the failures and the operator together never *)
(* do anything the registry does not allow.                                 *)
THEOREM Refinement == Spec => ImplementsKeyRegistry
<1>1. Init => Registry!Init
  BY DEF Init, NoPackage, Registry!Init, Registry!NoKeys, Elements,
         PublicElements
<1> QED
  BY <1>1, StepRefines, StoreInvariant, ConfigInvariant, OneHomeInvariant, PTL
     DEF Spec, ImplementsKeyRegistry, Registry!Spec
=============================================================================
