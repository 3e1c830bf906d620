------------------------- MODULE DevkitImagesProofs -------------------------
(***************************************************************************)
(* Proofs about DevkitImages: images are what their tags say, and a        *)
(* cleaner spares the images of its workspace, for any number of commands, *)
(* workspaces, images and versions.                                        *)
(***************************************************************************)
EXTENDS DevkitImages, TLAPS

-----------------------------------------------------------------------------
(* Tags.                                                                    *)

(* What an image needs: itself, and what its base needs.                    *)
LEMMA NeedsFacts ==
  ASSUME NEW m \in Images
  PROVE  /\ m \in Needs[m]
         /\ Needs[m] \subseteq Images
         /\ Base[m] # None => /\ Base[m] \in Images
                              /\ Base[m] \in Needs[Base[m]]
                              /\ Needs[m] = {m} \cup Needs[Base[m]]
                              /\ m \notin Needs[Base[m]]
BY DevkitAssumption

(* A tag is made of an image and a version of every Dockerfile below it.    *)
LEMMA TagType ==
  ASSUME NEW m \in Images, NEW f, \A n \in Needs[m] : f[n] \in Versions
  PROVE  /\ Tag(m, f) \in Tags
         /\ Tag(m, f).image = m
         /\ Tag(m, f).files \in Recipes(m)
         /\ \A n \in Needs[m] : Tag(m, f).files[n] = f[n]
<1>1. [n \in Needs[m] |-> f[n]] \in Recipes(m)
  BY DEF Recipes
<1>2. Tag(m, f) \in [image : {m}, files : Recipes(m)]
  BY <1>1 DEF Tag
<1>3. Tag(m, f) \in Tags
  BY <1>2 DEF Tags
<1> QED  BY <1>1, <1>3 DEF Tag

(* What a tag is.                                                           *)
LEMMA TagFields ==
  ASSUME NEW t \in Tags
  PROVE  /\ t.image \in Images
         /\ t.files \in Recipes(t.image)
         /\ t = [image |-> t.image, files |-> t.files]
BY DEF Tags

(* The tags below a tag are the tags of the same Dockerfiles.               *)
LEMMA BelowIsTag ==
  ASSUME NEW m \in Images, NEW f, NEW n \in Needs[m]
  PROVE  Below(Tag(m, f), n) = Tag(n, f)
<1>1. Needs[n] \subseteq Needs[m]
  BY DevkitAssumption
<1>2. \A k \in Needs[n] : Tag(m, f).files[k] = f[k]
  BY <1>1 DEF Tag
<1>3. [k \in Needs[n] |-> Tag(m, f).files[k]] = [k \in Needs[n] |-> f[k]]
  BY <1>2
<1> QED  BY <1>3 DEF Below, Tag

-----------------------------------------------------------------------------
(* The inductive invariant.                                                 *)

Managing == {"Inspect", "Manifest", "Pull", "Build", "Building", "Push"}
Launching == {"Launch", "Run", "Container"}

(* Dockerfiles are hashed from below: when the one of an image is, so are   *)
(* those it needs.  build.py manages, and docker_run.py runs, only images   *)
(* whose Dockerfile is hashed.                                              *)
HashedOK ==
  \A c \in Commands :
    /\ \A m \in Images :
         read[c][m] # None => \A n \in Needs[m] : read[c][n] \in Versions
    /\ pc[c] \in Managing => read[c][cur[c]] # None
    /\ pc[c] \in Launching => read[c][Target[c]] # None

(* While an image is being built, all but its own Dockerfile is as hashed,  *)
(* unless an image below it was torn.                                       *)
BuildingOK ==
  \A c \in Commands : pc[c] = "Building" =>
    /\ context[c] \in Recipes(cur[c])
    /\ (\A n \in Needs[cur[c]] \ {cur[c]} : Tag(n, read[c]) \notin torn)
         => \A n \in Needs[cur[c]] \ {cur[c]} : context[c][n] = read[c][n]

IInv == TypeOK /\ HashedOK /\ BuildingOK /\ ContentAddressed

(* The tag of the image at hand is a tag, and so are those below it.        *)
LEMMA CurrentTagType ==
  ASSUME TypeOK, HashedOK, NEW c \in Commands, pc[c] \in Managing
  PROVE  /\ CurrentTag(c) \in Tags
         /\ CurrentTag(c).image = cur[c]
         /\ CurrentTag(c).files \in Recipes(cur[c])
         /\ \A n \in Needs[cur[c]] : /\ read[c][n] \in Versions
                                     /\ CurrentTag(c).files[n] = read[c][n]
<1>1. cur[c] \in Images /\ \A n \in Needs[cur[c]] : read[c][n] \in Versions
  BY DEF TypeOK, HashedOK
<1> QED  BY <1>1, TagType DEF CurrentTag

(* The tag that docker run is given is a tag.                               *)
LEMMA TargetTagType ==
  ASSUME TypeOK, HashedOK, NEW c \in Commands, pc[c] \in Launching
  PROVE  TargetTag(c) \in Tags /\ TargetTag(c).image = Target[c]
<1>1. /\ Target[c] \in Images
      /\ \A n \in Needs[Target[c]] : read[c][n] \in Versions
  BY DevkitAssumption DEF HashedOK
<1> QED  BY <1>1, TagType DEF TargetTag

-----------------------------------------------------------------------------
(* Steps that neither hash nor build nor move an image.                     *)

(* Where a command may go without hashing or building.                      *)
Moves(c) ==
  /\ pc'[c] = "Building" => pc[c] = "Building"
  /\ pc'[c] \in Managing => pc[c] \in Managing
  /\ pc'[c] \in Launching =>
       \/ pc[c] \in Launching
       \/ pc[c] \in Managing /\ cur[c] = Target[c]

(* A step that moves its command only keeps what is hashed and what is      *)
(* built.                                                                   *)
LEMMA MovesKeep ==
  ASSUME TypeOK, HashedOK, BuildingOK, UNCHANGED <<cur, read, context, torn>>,
         \A c \in Commands : Moves(c)
  PROVE  HashedOK' /\ BuildingOK'
<1>1. HashedOK'
  BY DEF HashedOK, Moves
<1>2. BuildingOK'
  BY DEF BuildingOK, Moves, Tag, Recipes
<1> QED  BY <1>1, <1>2

(* Images that are copied between daemon and registry, or removed.          *)
Copied ==
  \A t \in Tags : /\ local'[t] \in {None, local[t], remote[t]}
                  /\ remote'[t] \in {None, local[t], remote[t]}

(* Copies between the daemon and the registry, and removals, keep every     *)
(* image what its tag says.                                                 *)
LEMMA CopiesKeep ==
  ASSUME ContentAddressed, Copied, UNCHANGED torn
  PROVE  ContentAddressed'
<1> SUFFICES ASSUME NEW t \in Tags,
                    \A n \in Needs[t.image] : Below(t, n) \notin torn
             PROVE  /\ local'[t] \in {None, t.files}
                    /\ remote'[t] \in {None, t.files}
  BY DEF ContentAddressed, Below, Tag
<1>1. local[t] \in {None, t.files} /\ remote[t] \in {None, t.files}
  BY DEF ContentAddressed
<1> QED  BY <1>1 DEF Copied

-----------------------------------------------------------------------------
(* The steps of build.py that hash and build.                               *)

(* Hashing the next Dockerfile: its base is hashed already.                 *)
LEMMA ResolveKeeps ==
  ASSUME IInv, NEW c \in Commands, Resolve(c)
  PROVE  HashedOK' /\ BuildingOK' /\ ContentAddressed'
<1> USE DEF IInv
<1>1. PICK m \in Needs[Target[c]] :
        /\ Base[m] # None => read[c][Base[m]] # None
        /\ cur' = [cur EXCEPT ![c] = m]
        /\ read' = [read EXCEPT ![c][m] = files[WorkspaceOf[c]][m]]
  BY DEF Resolve
<1>2. m \in Images
  BY DevkitAssumption
<1>3. files[WorkspaceOf[c]][m] \in Versions
  BY <1>2, DevkitAssumption DEF TypeOK
<1>4. /\ \A d \in Commands \ {c} : read'[d] = read[d] /\ cur'[d] = cur[d]
      /\ cur'[c] = m
      /\ read'[c][m] = files[WorkspaceOf[c]][m]
      /\ \A n \in Images \ {m} : read'[c][n] = read[c][n]
  BY <1>1, <1>2 DEF TypeOK
<1>5. pc'[c] = "Inspect" /\ \A d \in Commands \ {c} : pc'[d] = pc[d]
  BY DEF Resolve, Goto, TypeOK
<1>6. UNCHANGED <<local, remote, context, torn>>
  BY DEF Resolve
<1>7. \A k \in Images :
        read'[c][k] # None => \A n \in Needs[k] : read'[c][n] \in Versions
  <2> SUFFICES ASSUME NEW k \in Images, read'[c][k] # None, NEW n \in Needs[k]
               PROVE  read'[c][n] \in Versions
    OBVIOUS
  <2>1. n \in Images
    BY NeedsFacts
  <2>2. CASE n = m
    BY <1>3, <1>4, <2>2
  <2>3. CASE n # m /\ k # m
    BY <1>4, <2>1, <2>3 DEF HashedOK
  <2>4. CASE n # m /\ k = m
    <3>1. Base[m] # None /\ Base[m] \in Images /\ n \in Needs[Base[m]]
      BY <1>2, <2>4, DevkitAssumption
    <3>2. read[c][n] \in Versions
      BY <1>1, <3>1 DEF HashedOK
    <3> QED  BY <1>4, <2>1, <2>4, <3>2
  <2> QED  BY <2>2, <2>3, <2>4
<1>8. read'[c][m] # None
  BY <1>3, <1>4, DevkitAssumption
<1>9. HashedOK'
  BY <1>4, <1>5, <1>7, <1>8 DEF HashedOK, Managing, Launching
<1>10. BuildingOK'
  BY <1>4, <1>5, <1>6 DEF BuildingOK, Tag, Recipes
<1>11. ContentAddressed'
  BY <1>6, CopiesKeep DEF Copied
<1> QED  BY <1>9, <1>10, <1>11

(* docker build starts from the Dockerfile as it is, and from an image that *)
(* is what its tag says unless it, or one below it, was torn.               *)
LEMMA BuildStartKeeps ==
  ASSUME IInv, NEW c \in Commands, BuildStart(c)
  PROVE  /\ HashedOK' /\ BuildingOK' /\ ContentAddressed'
         /\ pc'[c] = "Building" => context'[c] \in Recipes(cur[c])
<1> USE DEF IInv
<1> DEFINE m == cur[c]
           v == files[WorkspaceOf[c]][m]
           b == Base[m]
<1>1. /\ m \in Images /\ v \in Versions
      /\ \A n \in Needs[m] : read[c][n] \in Versions
  BY DevkitAssumption DEF TypeOK, BuildStart, HashedOK, Managing
<1>2. /\ UNCHANGED <<local, remote, cur, read, torn>>
      /\ \A d \in Commands \ {c} : pc'[d] = pc[d] /\ context'[d] = context[d]
  BY DEF BuildStart, Goto, TypeOK
<1>3. HashedOK'
  <2>1. pc[c] \in Managing /\ pc'[c] \in {"Building", "Done"}
    BY DEF BuildStart, Goto, TypeOK, Managing
  <2> QED  BY <1>2, <2>1 DEF HashedOK, Managing, Launching
<1>4. ContentAddressed'
  BY <1>2, CopiesKeep DEF Copied
<1>5. ASSUME pc'[c] = "Building"
      PROVE  /\ context'[c] \in Recipes(m)
             /\ (\A n \in Needs[m] \ {m} : Tag(n, read[c]) \notin torn)
                  => \A n \in Needs[m] \ {m} : context'[c][n] = read[c][n]
  <2>1. CASE b = None
    <3>1. Needs[m] = {m}
      BY <1>1, <2>1, DevkitAssumption
    <3>2. context'[c] = [n \in {m} |-> v]
      BY <2>1, <1>5 DEF BuildStart, TypeOK
    <3> QED  BY <1>1, <3>1, <3>2 DEF Recipes
  <2>2. CASE b # None
    <3> DEFINE t == Tag(b, read[c])
               x == BaseImage(c)
    <3>1. /\ b \in Images /\ b \in Needs[b]
          /\ Needs[m] = {m} \cup Needs[b] /\ m \notin Needs[b]
      BY <1>1, <2>2, NeedsFacts
    <3>2. t \in Tags /\ t.image = b /\ \A n \in Needs[b] : t.files[n] = read[c][n]
      BY <1>1, <3>1, TagType
    <3>3. /\ x # None
          /\ context'[c] = [n \in Needs[m] |-> IF n = m THEN v ELSE x[n]]
      BY <1>5, <2>2 DEF BuildStart, TypeOK, Goto
    <3>4. x \in {None, local[t], remote[t]}
      BY DEF BaseImage
    <3>5. x \in Recipes(b)
      BY <3>2, <3>3, <3>4 DEF TypeOK
    <3>6. context'[c] \in Recipes(m)
      BY <1>1, <3>1, <3>3, <3>5 DEF Recipes
    <3>7. ASSUME \A n \in Needs[m] \ {m} : Tag(n, read[c]) \notin torn,
                 NEW n \in Needs[m] \ {m}
          PROVE  context'[c][n] = read[c][n]
      <4>1. \A k \in Needs[b] : Below(t, k) \notin torn
        BY <3>1, <3>7, BelowIsTag
      <4>2. x = t.files
        BY <3>2, <3>3, <3>4, <4>1 DEF ContentAddressed
      <4>3. n \in Needs[b] /\ context'[c][n] = x[n]
        BY <3>1, <3>3, <3>7
      <4>4. t.files[n] = read[c][n]
        BY <4>3 DEF Tag
      <4> QED  BY <4>2, <4>3, <4>4
    <3> QED  BY <3>6, <3>7
  <2> QED  BY <2>1, <2>2
<1>6. BuildingOK'
  BY <1>2, <1>5 DEF BuildingOK, Tag, Recipes
<1> QED  BY <1>3, <1>4, <1>5, <1>6

(* A finished build is what its tag says, or the tag is torn.               *)
LEMMA BuildEndKeeps ==
  ASSUME IInv, NEW c \in Commands, BuildEnd(c)
  PROVE  HashedOK' /\ BuildingOK' /\ ContentAddressed'
<1> USE DEF IInv
<1> DEFINE m == cur[c]
           t == CurrentTag(c)
<1>1. /\ m \in Images /\ t \in Tags /\ t.image = m
      /\ t.files \in Recipes(m)
      /\ \A n \in Needs[m] : t.files[n] = read[c][n]
  BY CurrentTagType DEF TypeOK, BuildEnd, Managing
<1>2. /\ UNCHANGED <<remote, cur, read>>
      /\ torn \subseteq torn'
      /\ \A d \in Commands \ {c} : pc'[d] = pc[d] /\ context'[d] = context[d]
  BY DEF BuildEnd, Goto, TypeOK
<1>3. /\ pc[c] = "Building"
      /\ pc'[c] \in {"Done", "Push", AfterImage(c)}
  BY DEF BuildEnd, Goto, TypeOK
<1>4. HashedOK'
  BY <1>2, <1>3 DEF HashedOK, Managing, Launching, AfterImage
<1>5. BuildingOK'
  <2>1. pc'[c] # "Building"
    BY <1>3 DEF AfterImage
  <2> QED  BY <1>2, <2>1 DEF BuildingOK, Tag, Recipes
<1>6. ContentAddressed'
  <2> SUFFICES ASSUME NEW u \in Tags,
                      \A n \in Needs[u.image] : Below(u, n) \notin torn'
               PROVE  /\ local'[u] \in {None, u.files}
                      /\ remote'[u] \in {None, u.files}
    BY DEF ContentAddressed, Below, Tag
  <2>1. local[u] \in {None, u.files} /\ remote[u] \in {None, u.files}
    BY <1>2 DEF ContentAddressed
  <2>2. CASE UNCHANGED local \/ u # t
    <3>1. local'[u] = local[u]
      BY <2>2 DEF BuildEnd, TypeOK
    <3> QED  BY <1>2, <2>1, <3>1
  <2>3. CASE local' = [local EXCEPT ![t] = context[c]] /\ u = t
    <3>1. local'[t] = context[c]
      BY <1>1, <2>3 DEF TypeOK
    <3>2. Below(t, m) = t
      BY <1>1, NeedsFacts, BelowIsTag DEF CurrentTag
    <3>3. t \notin torn'
      BY <1>1, <2>3, <3>2, NeedsFacts
    <3>4. CASE UNCHANGED local
      BY <1>2, <2>1, <3>4
    <3>5. CASE ~UNCHANGED local
      <4>1. context[c][m] = read[c][m]
        BY <3>3, <3>5 DEF BuildEnd
      <4>2. \A n \in Needs[m] \ {m} : Tag(n, read[c]) \notin torn
        BY <1>1, <1>2, <2>3, BelowIsTag DEF CurrentTag
      <4>3. /\ context[c] \in Recipes(m)
            /\ \A n \in Needs[m] : context[c][n] = read[c][n]
        BY <1>3, <4>1, <4>2 DEF BuildingOK
      <4>4. context[c] = t.files
        BY <1>1, <4>3 DEF Recipes
      <4> QED  BY <1>2, <2>1, <2>3, <3>1, <4>4
    <3> QED  BY <3>4, <3>5
  <2> QED  BY <2>2, <2>3 DEF BuildEnd
<1> QED  BY <1>4, <1>5, <1>6

-----------------------------------------------------------------------------
(* The steps that copy and remove images.                                   *)

(* docker pull and docker push copy the image of the tag.                   *)
LEMMA PullKeeps ==
  ASSUME IInv, NEW c \in Commands, Pull(c) \/ Push(c)
  PROVE  HashedOK' /\ BuildingOK' /\ ContentAddressed'
<1> USE DEF IInv
<1>1. UNCHANGED <<cur, read, context, torn>>
  BY DEF Pull, Push, build
<1>2. \A d \in Commands : Moves(d)
  BY DEF Pull, Push, Goto, TypeOK, Moves, AfterImage, Managing, Launching
<1>3. Copied
  BY DEF Pull, Push, Copied, TypeOK
<1> QED  BY <1>1, <1>2, <1>3, MovesKeep, CopiesKeep

(* docker run copies at most the image of its tag from the registry.        *)
LEMMA RunKeeps ==
  ASSUME IInv, NEW c \in Commands, Run(c)
  PROVE  HashedOK' /\ BuildingOK' /\ ContentAddressed'
<1> USE DEF IInv
<1>1. UNCHANGED <<cur, read, context, torn>>
  BY DEF Run, build
<1>2. \A d \in Commands : Moves(d)
  BY DEF Run, Goto, TypeOK, Moves, Managing, Launching
<1>3. Copied
  BY DEF Run, Copied, TypeOK
<1> QED  BY <1>1, <1>2, <1>3, MovesKeep, CopiesKeep

(* docker rmi, in time or late, takes images away only.                     *)
LEMMA RemovalKeeps ==
  ASSUME IInv, NEW c \in Commands, RemoveImage(c) \/ LateRemoval(c)
  PROVE  HashedOK' /\ BuildingOK' /\ ContentAddressed'
<1> USE DEF IInv
<1>1. UNCHANGED <<pc, cur, read, context, torn, remote>>
  BY DEF RemoveImage, LateRemoval, build
<1>2. \A d \in Commands : Moves(d)
  BY <1>1 DEF Moves
<1>3. UNCHANGED local \/ \E t \in cands[c] : Removes(t)
  BY DEF RemoveImage, LateRemoval
<1>4. Copied
  BY <1>1, <1>3 DEF Removes, Copied, TypeOK
<1> QED  BY <1>1, <1>2, <1>4, MovesKeep, CopiesKeep

(* Every other step leaves images and tags alone.                           *)
LEMMA QuietKeeps ==
  ASSUME IInv, UNCHANGED <<local, remote, cur, read, context, torn>>,
         \A c \in Commands : Moves(c)
  PROVE  HashedOK' /\ BuildingOK' /\ ContentAddressed'
<1>1. Copied
  BY DEF Copied
<1> QED  BY <1>1, MovesKeep, CopiesKeep DEF IInv

(* The steps that touch no image and no recipe keep all three parts.        *)
LEMMA QuietSteps ==
  ASSUME IInv, NEW c \in Commands,
         \/ Start(c) \/ Inspect(c) \/ Manifest(c) \/ Launch(c) \/ Exit(c)
         \/ ContainerEnds(c) \/ Interrupt(c) \/ Listener(c) \/ Connect(c)
         \/ Send(c) \/ ListImages(c) \/ CalculateTag(c) \/ Ignore(c)
  PROVE  HashedOK' /\ BuildingOK' /\ ContentAddressed'
<1> USE DEF IInv
<1>1. CASE Start(c) \/ Inspect(c) \/ Manifest(c)
  <2>1. UNCHANGED <<local, remote, cur, read, context, torn>>
    BY <1>1 DEF Start, Inspect, Manifest, build
  <2>2. \A d \in Commands : Moves(d)
    BY <1>1 DEF Start, Inspect, Manifest, Goto, TypeOK, Moves, AfterImage,
                Managing, Launching
  <2> QED  BY <2>1, <2>2, QuietKeeps
<1>2. CASE Launch(c) \/ Exit(c) \/ ContainerEnds(c) \/ Interrupt(c)
  <2>1. UNCHANGED <<local, remote, cur, read, context, torn>>
    BY <1>2 DEF Launch, Exit, ContainerEnds, Interrupt, build
  <2>2. \A d \in Commands : Moves(d)
    BY <1>2 DEF Launch, Exit, ContainerEnds, Interrupt, Goto, TypeOK, Moves,
                Managing, Launching
  <2> QED  BY <2>1, <2>2, QuietKeeps
<1>3. CASE Listener(c) \/ Connect(c) \/ Send(c)
  <2>1. UNCHANGED <<local, remote, cur, read, context, torn>>
    BY <1>3 DEF Listener, Listen, Accept, Recv, Connect, Send, build
  <2>2. UNCHANGED pc \/ Goto(c, "Join")
    BY <1>3 DEF Listener, Listen, Accept, Recv, Connect, Send
  <2>3. \A d \in Commands : Moves(d)
    BY <2>2 DEF Goto, TypeOK, Moves, Managing, Launching
  <2> QED  BY <2>1, <2>3, QuietKeeps
<1>4. CASE ListImages(c) \/ CalculateTag(c) \/ Ignore(c)
  <2>1. UNCHANGED <<local, remote, pc, cur, read, context, torn>>
    BY <1>4 DEF ListImages, CalculateTag, Ignore, build
  <2>2. \A d \in Commands : Moves(d)
    BY <2>1 DEF Moves
  <2> QED  BY <2>1, <2>2, QuietKeeps
<1> QED  BY <1>1, <1>2, <1>3, <1>4

-----------------------------------------------------------------------------
(* Types.                                                                   *)

(* What a copy or a removal leaves in the daemon and in the registry has    *)
(* the type of what was there.                                              *)
ImagesOK ==
  /\ local \in [Tags -> Recipe \cup {None}]
  /\ remote \in [Tags -> Recipe \cup {None}]
  /\ \A t \in Tags : {local[t], remote[t]} \subseteq
                       Recipes(t.image) \cup {None}

(* What is copied under a tag is an image of that tag's shape.              *)
LEMMA CopiesAreImages ==
  ASSUME ImagesOK, Copied,
         NEW D, local' \in [Tags -> D], remote' \in [Tags -> D]
  PROVE  ImagesOK'
<1>1. \A t \in Tags : /\ local'[t] \in Recipes(t.image) \cup {None}
                      /\ remote'[t] \in Recipes(t.image) \cup {None}
  BY DEF ImagesOK, Copied
<1>2. \A t \in Tags : local'[t] \in Recipe \cup {None}
                      /\ remote'[t] \in Recipe \cup {None}
  BY DEF ImagesOK, Copied
<1> QED  BY <1>1, <1>2 DEF ImagesOK, Recipes

(* build.py.                                                                *)
LEMMA BuilderType ==
  ASSUME IInv, NEW c \in Commands, Start(c) \/ Builder(c)
  PROVE  TypeOK'
<1> USE DEF IInv
<1>0. ImagesOK
  BY DEF TypeOK, ImagesOK
<1>1. /\ pc' \in [Commands -> PCs]
      /\ kind' \in [Commands -> {"run", "build", "rebuild"}]
      /\ faults' \in Nat
  <2>1. \E p \in PCs : Goto(c, p)
    <3>1. AfterImage(c) \in PCs
      BY DEF AfterImage, PCs
    <3> QED  BY <3>1 DEF Start, Builder, Resolve, Inspect, Manifest, Pull,
                BuildStart, BuildEnd, Push, PCs
  <2>2. UNCHANGED kind \/ \E k \in {"run", "build", "rebuild"} :
                              kind' = [kind EXCEPT ![c] = k]
    <3>1. UNCHANGED kind \/ \E k \in Kinds[c] : kind' = [kind EXCEPT ![c] = k]
      BY DEF Start, Builder, Resolve, Inspect, Manifest, Pull, BuildStart,
             BuildEnd, Push, build
    <3> QED  BY <3>1, KindsAssumption
  <2>3. UNCHANGED faults \/ Fault
    BY DEF Start, Builder, Resolve, Inspect, Manifest, Pull, BuildStart,
           BuildEnd, Push
  <2>4. pc' \in [Commands -> PCs]
    BY <2>1 DEF Goto, TypeOK
  <2>5. kind' \in [Commands -> {"run", "build", "rebuild"}]
    BY <2>2 DEF TypeOK
  <2>6. faults' \in Nat
    BY <2>3 DEF Fault, TypeOK
  <2> QED  BY <2>4, <2>5, <2>6
<1>2. /\ UNCHANGED <<source, threads>>
      /\ torn' \subseteq Tags
  <2>1. UNCHANGED <<source, threads>>
    BY DEF Start, Builder, Resolve, Inspect, Manifest, Pull, BuildStart,
           BuildEnd, Push
  <2>2. ASSUME BuildEnd(c) PROVE torn' \subseteq Tags
    <3>1. CurrentTag(c) \in Tags
      BY <2>2, CurrentTagType DEF BuildEnd, Managing
    <3>2. torn' = torn \/ torn' = torn \cup {CurrentTag(c)}
      BY <2>2 DEF BuildEnd
    <3> QED  BY <3>1, <3>2 DEF TypeOK
  <2>3. ASSUME ~BuildEnd(c) PROVE torn' \subseteq Tags
    <3>1. UNCHANGED torn
      BY <2>3 DEF Start, Builder, Resolve, Inspect, Manifest, Pull, BuildStart,
                  Push
    <3> QED  BY <3>1 DEF TypeOK
  <2> QED  BY <2>1, <2>2, <2>3
<1>3. /\ cur' \in [Commands -> Images]
      /\ read' \in [Commands -> [Images -> Versions \cup {None}]]
  <2>1. CASE Resolve(c)
    <3>1. PICK m \in Needs[Target[c]] :
            /\ cur' = [cur EXCEPT ![c] = m]
            /\ read' = [read EXCEPT ![c][m] = files[WorkspaceOf[c]][m]]
      BY <2>1 DEF Resolve
    <3>2. m \in Images /\ files[WorkspaceOf[c]][m] \in Versions
      BY DevkitAssumption DEF TypeOK
    <3> QED  BY <3>1, <3>2 DEF TypeOK
  <2>2. CASE ~Resolve(c)
    BY <2>2 DEF Start, Builder, Inspect, Manifest, Pull, BuildStart, BuildEnd,
                Push, build, TypeOK
  <2> QED  BY <2>1, <2>2
<1>4. context' \in [Commands -> Recipe \cup {None}]
  <2>1. CASE BuildStart(c)
    <3>1. \/ UNCHANGED context
          \/ /\ pc'[c] = "Building"
             /\ \E x : context' = [context EXCEPT ![c] = x]
      BY <2>1 DEF BuildStart, Goto, TypeOK
    <3>2. pc'[c] = "Building" => context'[c] \in Recipe
      <4>1. pc'[c] = "Building" => context'[c] \in Recipes(cur[c])
        BY <2>1, BuildStartKeeps
      <4>2. cur[c] \in Images
        BY DEF TypeOK
      <4> QED  BY <4>1, <4>2 DEF Recipe
    <3> QED  BY <3>1, <3>2 DEF TypeOK
  <2>2. CASE ~BuildStart(c)
    BY <2>2 DEF Start, Builder, Resolve, Inspect, Manifest, Pull, BuildEnd,
                Push, build, TypeOK
  <2> QED  BY <2>1, <2>2
<1>5. ImagesOK'
  <2>1. CASE BuildEnd(c) /\ ~UNCHANGED local
    <3> DEFINE t == CurrentTag(c)
    <3>1. /\ UNCHANGED remote
          /\ local' = [local EXCEPT ![t] = context[c]]
      BY <2>1 DEF BuildEnd
    <3>2. t \in Tags /\ t.image = cur[c] /\ cur[c] \in Images
      BY <2>1, CurrentTagType DEF BuildEnd, Managing, TypeOK
    <3>3. context[c] \in Recipes(cur[c])
      BY <2>1 DEF BuildEnd, BuildingOK
    <3>4. context[c] \in Recipe
      BY <3>2, <3>3 DEF Recipe
    <3> QED  BY <1>0, <3>1, <3>2, <3>3, <3>4 DEF ImagesOK, Recipes
  <2>2. CASE Pull(c) \/ Push(c)
    <3>1. Copied
      BY <2>2 DEF Pull, Push, Copied, TypeOK
    <3>2. CurrentTag(c) \in Tags
      BY <2>2, CurrentTagType DEF Pull, Push, Managing
    <3>3. {local[CurrentTag(c)], remote[CurrentTag(c)]}
            \subseteq Recipe \cup {None}
      BY <3>2 DEF TypeOK
    <3>4. /\ \/ UNCHANGED local
             \/ local' = [local EXCEPT ![CurrentTag(c)] = remote[CurrentTag(c)]]
          /\ \/ UNCHANGED remote
             \/ remote' = [remote EXCEPT ![CurrentTag(c)] = local[CurrentTag(c)]]
      BY <2>2 DEF Pull, Push
    <3>5. /\ local' \in [Tags -> Recipe \cup {None}]
          /\ remote' \in [Tags -> Recipe \cup {None}]
      BY <1>0, <3>3, <3>4 DEF ImagesOK
    <3> QED  BY <1>0, <3>1, <3>5, CopiesAreImages
  <2>3. CASE UNCHANGED <<local, remote>>
    BY <1>0, <2>3 DEF ImagesOK, Recipes
  <2> QED  BY <2>1, <2>2, <2>3 DEF Start, Builder, Resolve, Inspect, Manifest,
              BuildStart, BuildEnd
<1> QED  BY <1>1, <1>2, <1>3, <1>4, <1>5
            DEF TypeOK, ImagesOK, source, threads, Recipes

(* docker_run.py.                                                           *)
LEMMA RunnerType ==
  ASSUME IInv, NEW c \in Commands,
         Runner(c) \/ ContainerEnds(c) \/ Interrupt(c)
  PROVE  TypeOK'
<1> USE DEF IInv
<1>0. ImagesOK
  BY DEF TypeOK, ImagesOK
<1>1. /\ pc' \in [Commands -> PCs]
      /\ faults' \in Nat
  <2>1. \E p \in PCs : Goto(c, p)
    BY DEF Runner, Launch, Run, Exit, ContainerEnds, Interrupt, PCs
  <2>2. UNCHANGED faults \/ Fault
    BY DEF Runner, Launch, Run, Exit, ContainerEnds, Interrupt
  <2>3. pc' \in [Commands -> PCs]
    BY <2>1 DEF Goto, TypeOK
  <2>4. faults' \in Nat
    BY <2>2 DEF Fault, TypeOK
  <2> QED  BY <2>3, <2>4
<1>2. UNCHANGED <<source, remote, build, report, seen, stale, torn>>
  BY DEF Runner, Launch, Run, Exit, ContainerEnds, Interrupt, threads
<1>3. /\ listener' \in [Commands -> ListenerStates]
      /\ cleaner' \in [Commands -> CleanerStates]
      /\ cands' \in [Commands -> SUBSET Tags]
  <2>1. CASE ThreadsDie(c)
    <3>1. listener' \in [Commands -> ListenerStates]
      BY <2>1 DEF ThreadsDie, TypeOK, ListenerStates
    <3>2. cleaner' \in [Commands -> CleanerStates]
      <4>1. \/ UNCHANGED cleaner
            \/ \E x \in {"off", "orphan"} :
                 cleaner' = [cleaner EXCEPT ![c] = x]
        BY <2>1 DEF ThreadsDie
      <4> QED  BY <4>1 DEF TypeOK, CleanerStates
    <3>3. UNCHANGED cands \/ \E s \in SUBSET Tags :
                                cands' = [cands EXCEPT ![c] = s]
      <4>1. cands[c] \subseteq Tags
        BY DEF TypeOK
      <4>2. \/ UNCHANGED cands
            \/ cands' = [cands EXCEPT ![c] = {}]
            \/ \E t \in cands[c] : cands' = [cands EXCEPT ![c] = {t}]
        BY <2>1 DEF ThreadsDie
      <4>3. {} \in SUBSET Tags /\ \A t \in cands[c] : {t} \in SUBSET Tags
        BY <4>1
      <4> QED  BY <4>2, <4>3
    <3>4. cands' \in [Commands -> SUBSET Tags]
      BY <3>3 DEF TypeOK
    <3> QED  BY <3>1, <3>2, <3>4
  <2>2. CASE ~ThreadsDie(c)
    BY <2>2 DEF Runner, Launch, Run, Exit, ContainerEnds, Interrupt, threads,
                TypeOK, ListenerStates, CleanerStates
  <2> QED  BY <2>1, <2>2
<1>4. ImagesOK'
  <2>1. CASE Run(c)
    <3> DEFINE t == TargetTag(c)
    <3>1. t \in Tags
      BY <2>1, TargetTagType DEF Run, Launching
    <3>2. remote[t] \in Recipe \cup {None}
      BY <3>1 DEF TypeOK
    <3>3. UNCHANGED local \/ local' = [local EXCEPT ![t] = remote[t]]
      BY <2>1 DEF Run
    <3>4. local' \in [Tags -> Recipe \cup {None}]
      BY <1>0, <3>2, <3>3 DEF ImagesOK
    <3>5. Copied
      BY <1>0, <1>2, <3>1, <3>3 DEF Copied, ImagesOK
    <3> QED  BY <1>0, <1>2, <3>4, <3>5, CopiesAreImages DEF ImagesOK
  <2>2. CASE UNCHANGED local
    BY <1>0, <1>2, <2>2 DEF ImagesOK, Recipes
  <2> QED  BY <2>1, <2>2 DEF Runner, Launch, Exit, ContainerEnds, Interrupt
<1> QED  BY <1>1, <1>2, <1>3, <1>4
            DEF TypeOK, ImagesOK, source, build, Recipes

(* The listener and the entrypoint.                                         *)
LEMMA ListenerType ==
  ASSUME IInv, NEW c \in Commands, Listener(c) \/ Connect(c) \/ Send(c)
  PROVE  TypeOK'
<1> USE DEF IInv
<1>1. UNCHANGED <<source, local, remote, faults, build, cleaner, cands, seen,
                  stale, torn>>
  BY DEF Listener, Listen, Accept, Recv, Connect, Send
<1>2. /\ \/ UNCHANGED pc
         \/ Goto(c, "Join")
      /\ \/ UNCHANGED listener
         \/ \E l \in {"accept", "recv", "closed"} :
              listener' = [listener EXCEPT ![c] = l]
      /\ \/ UNCHANGED report
         \/ \E r \in {"connected", "sent", "heard", "lost"} :
              report' = [report EXCEPT ![c] = r]
  BY DEF Listener, Listen, Accept, Recv, Connect, Send
<1>3. /\ pc' \in [Commands -> PCs]
      /\ listener' \in [Commands -> ListenerStates]
      /\ report' \in [Commands -> ReportStates]
  <2>1. pc' \in [Commands -> PCs]
    BY <1>2 DEF TypeOK, Goto, PCs
  <2>2. listener' \in [Commands -> ListenerStates]
    BY <1>2 DEF TypeOK, ListenerStates
  <2>3. report' \in [Commands -> ReportStates]
    BY <1>2 DEF TypeOK, ReportStates
  <2> QED  BY <2>1, <2>2, <2>3
<1> QED  BY <1>1, <1>3 DEF TypeOK, source, build, Recipes

(* The cleaner.                                                             *)
LEMMA CleanerType ==
  ASSUME IInv, NEW c \in Commands, Cleaner(c) \/ LateRemoval(c)
  PROVE  TypeOK'
<1> USE DEF IInv
<1>0. ImagesOK
  BY DEF TypeOK, ImagesOK
<1>1. UNCHANGED <<source, remote, pc, build, listener, report, torn>>
  BY DEF Cleaner, ListImages, CalculateTag, Ignore, RemoveImage, LateRemoval
<1>2. /\ \/ UNCHANGED cleaner
         \/ \E l \in {"off", "ignore", "remove", "orphan"} :
              cleaner' = [cleaner EXCEPT ![c] = l]
      /\ \/ UNCHANGED cands
         \/ \E s \in SUBSET Tags : cands' = [cands EXCEPT ![c] = s]
      /\ UNCHANGED faults \/ Fault
      /\ UNCHANGED stale \/ stale' = stale \cup {c}
  <2>1. CASE ListImages(c)
    BY <2>1 DEF ListImages
  <2>2. CASE Ignore(c)
    BY <2>2 DEF Ignore, TypeOK
  <2>5. CASE CalculateTag(c)
    BY <2>5 DEF CalculateTag
  <2>3. CASE RemoveImage(c)
    <3>1. /\ cands[c] \subseteq Tags
          /\ \A t \in cands[c] : {t} \in SUBSET Tags
          /\ \A t \in cands[c] : cands[c] \ {t} \in SUBSET Tags
      BY DEF TypeOK
    <3>2. /\ \E l \in {"off", "remove", "orphan"} :
               cleaner' = [cleaner EXCEPT ![c] = l]
          /\ UNCHANGED <<faults, stale>>
      BY <2>3 DEF RemoveImage
    <3>3. \/ \E t \in cands[c] : cands' = [cands EXCEPT ![c] = cands[c] \ {t}]
          \/ \E t \in cands[c] : cands' = [cands EXCEPT ![c] = {t}]
          \/ cands' = [cands EXCEPT ![c] = {}]
      BY <2>3 DEF RemoveImage, TypeOK
    <3>4. \E s \in SUBSET Tags : cands' = [cands EXCEPT ![c] = s]
      BY <3>1, <3>3
    <3> QED  BY <3>2, <3>4
  <2>4. CASE LateRemoval(c)
    BY <2>4 DEF LateRemoval
  <2> QED  BY <2>1, <2>2, <2>3, <2>4, <2>5 DEF Cleaner
<1>3. /\ cleaner' \in [Commands -> CleanerStates]
      /\ cands' \in [Commands -> SUBSET Tags]
      /\ stale' \subseteq Commands
      /\ seen' \in [Commands -> [Images -> Versions \cup {None}]]
  <2>1. cleaner' \in [Commands -> CleanerStates]
    BY <1>2 DEF TypeOK, CleanerStates
  <2>2. cands' \in [Commands -> SUBSET Tags]
    BY <1>2 DEF TypeOK
  <2>3. stale' \subseteq Commands
    BY <1>2 DEF TypeOK
  <2>4. seen' \in [Commands -> [Images -> Versions \cup {None}]]
    <3>1. NoneRead \in [Images -> Versions \cup {None}]
      BY DEF NoneRead
    <3>2. CASE CalculateTag(c)
      <4>1. PICK m \in Images :
               seen' = [seen EXCEPT ![c][m] = files[WorkspaceOf[c]][m]]
        BY <3>2 DEF CalculateTag
      <4>2. files[WorkspaceOf[c]][m] \in Versions
        BY DevkitAssumption DEF TypeOK
      <4> QED  BY <4>1, <4>2 DEF TypeOK
    <3>3. CASE UNCHANGED seen \/ seen' = [seen EXCEPT ![c] = NoneRead]
      BY <3>1, <3>3 DEF TypeOK
    <3> QED  BY <3>2, <3>3
             DEF Cleaner, ListImages, Ignore, RemoveImage, LateRemoval
  <2> QED  BY <2>1, <2>2, <2>3, <2>4
<1>4. faults' \in Nat
  BY <1>2 DEF TypeOK, Fault
<1>5. ImagesOK'
  <2>1. UNCHANGED local \/ \E t \in cands[c] : Removes(t)
    BY DEF Cleaner, ListImages, CalculateTag, Ignore, RemoveImage, LateRemoval
  <2>2. Copied /\ local' \in [Tags -> Recipe \cup {None}]
    BY <1>0, <1>1, <2>1 DEF Removes, Copied, ImagesOK
  <2> QED  BY <1>0, <1>1, <2>2, CopiesAreImages DEF ImagesOK
<1> QED  BY <1>1, <1>3, <1>4, <1>5
            DEF TypeOK, ImagesOK, source, build, Recipes

(* An edit.                                                                 *)
LEMMA EditType ==
  ASSUME IInv, NEW w \in Workspaces, Edit(w)
  PROVE  TypeOK'
<1> USE DEF IInv
<1>1. /\ files' \in [Workspaces -> [Images -> Versions]]
      /\ edits' \in Nat
      /\ stale' \subseteq Commands
  BY DEF Edit, TypeOK
<1> QED  BY <1>1 DEF Edit, TypeOK, build, Recipes

-----------------------------------------------------------------------------
(* The invariant holds.                                                     *)

(* The invariant holds before the first command.                            *)
LEMMA InitIInv == Init => IInv
<1> SUFFICES ASSUME Init PROVE IInv
  OBVIOUS
<1>1. TypeOK
  BY DevkitAssumption DEF Init, TypeOK, PCs, ListenerStates, ReportStates,
                          CleanerStates, NoneRead
<1>2. HashedOK
  BY DEF Init, HashedOK, Managing, Launching, NoneRead
<1>3. BuildingOK
  BY DEF Init, BuildingOK
<1>4. ContentAddressed
  BY DEF Init, ContentAddressed
<1> QED  BY <1>1, <1>2, <1>3, <1>4 DEF IInv

(* Every step of a command, of its threads and of an editor keeps the       *)
(* invariant.                                                               *)
LEMMA NextIInv == IInv /\ [Next]_vars => IInv'
<1> SUFFICES ASSUME IInv, [Next]_vars PROVE IInv'
  OBVIOUS
<1>1. ASSUME NEW c \in Commands, Start(c) \/ Builder(c) PROVE IInv'
  <2>1. HashedOK' /\ BuildingOK' /\ ContentAddressed'
    BY <1>1, QuietSteps, ResolveKeeps, PullKeeps, BuildStartKeeps,
       BuildEndKeeps DEF Builder
  <2> QED  BY <1>1, <2>1, BuilderType DEF IInv
<1>2. ASSUME NEW c \in Commands, Runner(c) \/ ContainerEnds(c) \/ Interrupt(c)
      PROVE  IInv'
  <2>1. HashedOK' /\ BuildingOK' /\ ContentAddressed'
    BY <1>2, QuietSteps, RunKeeps DEF Runner
  <2> QED  BY <1>2, <2>1, RunnerType DEF IInv
<1>3. ASSUME NEW c \in Commands, Listener(c) \/ Connect(c) \/ Send(c)
      PROVE  IInv'
  BY <1>3, QuietSteps, ListenerType DEF IInv
<1>4. ASSUME NEW c \in Commands, Cleaner(c) \/ LateRemoval(c) PROVE IInv'
  <2>1. HashedOK' /\ BuildingOK' /\ ContentAddressed'
    BY <1>4, QuietSteps, RemovalKeeps DEF Cleaner
  <2> QED  BY <1>4, <2>1, CleanerType DEF IInv
<1>5. ASSUME NEW w \in Workspaces, Edit(w) PROVE IInv'
  <2>1. UNCHANGED <<local, remote, pc, cur, read, context, torn>>
    BY <1>5 DEF Edit, build
  <2>2. \A d \in Commands : Moves(d)
    BY <2>1 DEF Moves
  <2> QED  BY <1>5, <2>1, <2>2, QuietKeeps, EditType DEF IInv
<1>6. CASE UNCHANGED vars
  <2>1. UNCHANGED <<local, remote, pc, cur, read, context, torn>>
    BY <1>6 DEF vars, build
  <2>2. \A d \in Commands : Moves(d)
    BY <2>1 DEF Moves
  <2>3. TypeOK'
    BY <1>6 DEF vars, source, build, threads, IInv, TypeOK, Recipes
  <2> QED  BY <2>1, <2>2, <2>3, QuietKeeps DEF IInv
<1> QED  BY <1>1, <1>2, <1>3, <1>4, <1>5, <1>6 DEF Next

(* Images are what their tags say, whatever commands build, pull, push,     *)
(* rebuild and remove at the same time, except below a Dockerfile that was  *)
(* changed between its hashing and its build.                               *)
THEOREM ImagesAreWhatTheirTagsSay == Spec => []ContentAddressed
<1>1. IInv => ContentAddressed
  BY DEF IInv
<1> QED  BY <1>1, InitIInv, NextIInv, PTL DEF Spec

-----------------------------------------------------------------------------
(* Cleaners.                                                                *)

(* What a cleaner that is not stale has read is what the workspace has now, *)
(* and its candidates are none of its workspace's images.                   *)
SeenOK ==
  \A c \in Commands, m \in Images :
    cleaner[c] = "ignore" /\ c \notin stale /\ seen[c][m] # None
      => seen[c][m] = files[WorkspaceOf[c]][m]
CandidatesOK ==
  \A c \in Commands :
    cleaner[c] \in {"remove", "orphan"} /\ c \notin stale
      => cands[c] \cap WorkspaceTags(WorkspaceOf[c]) = {}

(* A thread keeps what it has read, forgets it, or reads on.                *)
ReadsOn(c) ==
  cleaner'[c] = "ignore" => \A m \in Images :
    \/ seen'[c][m] \in {None, files[WorkspaceOf[c]][m]}
    \/ cleaner[c] = "ignore" /\ seen'[c][m] = seen[c][m]

(* Reading on keeps what has been read up to date.                          *)
LEMMA ReadingKeeps ==
  ASSUME SeenOK, UNCHANGED files, stale \subseteq stale',
         \A c \in Commands : ReadsOn(c)
  PROVE  SeenOK'
BY DEF SeenOK, ReadsOn

(* Every step keeps it so; an edit of a file that was read makes it stale.  *)
LEMMA NextSeen ==
  ASSUME TypeOK, SeenOK, [Next]_vars
  PROVE  SeenOK'
<1>1. ASSUME NEW c \in Commands,
             \/ Start(c) \/ Builder(c) \/ ContainerEnds(c) \/ Run(c)
             \/ Listener(c) \/ Connect(c) \/ Send(c)
      PROVE  SeenOK'
  <2>1. UNCHANGED <<files, cleaner, seen, stale>>
    BY <1>1 DEF Start, Builder, Resolve, Inspect, Manifest, Pull, BuildStart,
       BuildEnd, Push, ContainerEnds, Run, Listener, Listen, Accept, Recv,
       Connect, Send, source, threads
  <2> QED  BY <2>1, ReadingKeeps DEF ReadsOn
<1>2. ASSUME NEW c \in Commands, Launch(c) \/ Exit(c) \/ Interrupt(c)
             \/ RemoveImage(c) \/ LateRemoval(c)
      PROVE  SeenOK'
  <2>1. UNCHANGED <<files, seen, stale>>
    BY <1>2 DEF Launch, Exit, Interrupt, RemoveImage, LateRemoval, source
  <2>2. \/ UNCHANGED cleaner
        \/ \E l \in {"delay", "off", "orphan", "remove"} :
             cleaner' = [cleaner EXCEPT ![c] = l]
    BY <1>2 DEF Launch, Exit, Interrupt, RemoveImage, LateRemoval, ThreadsDie
  <2>3. \A d \in Commands : ReadsOn(d)
    BY <2>1, <2>2 DEF ReadsOn, TypeOK
  <2> QED  BY <2>1, <2>3, ReadingKeeps
<1>3. ASSUME NEW c \in Commands, ListImages(c) \/ Ignore(c) PROVE SeenOK'
  <2>1. /\ UNCHANGED files /\ stale \subseteq stale'
        /\ seen' = [seen EXCEPT ![c] = NoneRead]
        /\ \E l \in {"off", "ignore", "remove"} :
             cleaner' = [cleaner EXCEPT ![c] = l]
    BY <1>3 DEF ListImages, Ignore, source
  <2>2. \A d \in Commands : ReadsOn(d)
    BY <2>1 DEF ReadsOn, TypeOK, NoneRead
  <2> QED  BY <2>1, <2>2, ReadingKeeps
<1>4. ASSUME NEW c \in Commands, CalculateTag(c) PROVE SeenOK'
  <2>1. PICK n \in Images :
           seen' = [seen EXCEPT ![c][n] = files[WorkspaceOf[c]][n]]
    BY <1>4 DEF CalculateTag
  <2>2. UNCHANGED <<files, cleaner, stale>>
    BY <1>4 DEF CalculateTag, source
  <2>3. \A d \in Commands : ReadsOn(d)
    BY <2>1, <2>2 DEF ReadsOn, TypeOK
  <2> QED  BY <2>2, <2>3, ReadingKeeps
<1>5. ASSUME NEW w \in Workspaces, Edit(w) PROVE SeenOK'
  <2>1. PICK n \in Images, v \in Versions :
          /\ files' = [files EXCEPT ![w][n] = v]
          /\ stale' = stale \cup {c \in Commands :
                        /\ WorkspaceOf[c] = w
                        /\ \/ cleaner[c] \in {"remove", "orphan"}
                           \/ cleaner[c] = "ignore" /\ seen[c][n] # None}
    BY <1>5 DEF Edit
  <2>2. UNCHANGED <<cleaner, seen>>
    BY <1>5 DEF Edit
  <2> SUFFICES ASSUME NEW c \in Commands, NEW m \in Images,
                      cleaner[c] = "ignore", c \notin stale',
                      seen[c][m] # None
               PROVE  seen[c][m] = files'[WorkspaceOf[c]][m]
    BY <2>2 DEF SeenOK
  <2>3. c \notin stale /\ ~(WorkspaceOf[c] = w /\ m = n)
    BY <2>1
  <2>4. WorkspaceOf[c] \in Workspaces
    BY DevkitAssumption
  <2>5. files'[WorkspaceOf[c]][m] = files[WorkspaceOf[c]][m]
    BY <2>1, <2>3, <2>4 DEF TypeOK
  <2> QED  BY <2>3, <2>5 DEF SeenOK
<1>6. CASE UNCHANGED vars
  BY <1>6, ReadingKeeps DEF vars, source, threads, ReadsOn
<1> QED  BY <1>1, <1>2, <1>3, <1>4, <1>5, <1>6 DEF Next, Runner, Cleaner

(* What get_all_docker_image_tags computes from files that have not changed *)
(* since is every image of the workspace.                                   *)
LEMMA AllAreIgnored ==
  ASSUME TypeOK, NEW c \in Commands,
         \A m \in Images : seen[c][m] = files[WorkspaceOf[c]][m]
  PROVE  WorkspaceTags(WorkspaceOf[c]) \subseteq IgnoredTags(c)
<1> SUFFICES ASSUME NEW t \in WorkspaceTags(WorkspaceOf[c])
             PROVE  t \in IgnoredTags(c)
  OBVIOUS
<1> DEFINE f == files[WorkspaceOf[c]]
<1>1. /\ t \in Tags
      /\ \A n \in Needs[t.image] : t.files[n] = f[n]
  BY DEF WorkspaceTags
<1>2. /\ t.image \in Images
      /\ t.files \in [Needs[t.image] -> Versions]
      /\ t = [image |-> t.image, files |-> t.files]
  BY <1>1, TagFields DEF Recipes
<1>3. t.files = [n \in Needs[t.image] |-> seen[c][n]]
  BY <1>1, <1>2, DevkitAssumption
<1>4. t = Tag(t.image, seen[c])
  BY <1>2, <1>3 DEF Tag
<1> QED  BY <1>2, <1>4 DEF IgnoredTags

(* A command's own steps leave it a part of its candidates.                 *)
Narrows(c) ==
  cleaner'[c] \in {"remove", "orphan"} =>
    /\ cleaner[c] \in {"remove", "orphan"}
    /\ cands'[c] \subseteq cands[c]

(* Candidates that only get fewer stay clear of the workspace's images.     *)
LEMMA NarrowsKeeps ==
  ASSUME CandidatesOK, UNCHANGED files, stale \subseteq stale',
         \A c \in Commands : Narrows(c)
  PROVE  CandidatesOK'
<1> SUFFICES ASSUME NEW c \in Commands, cleaner'[c] \in {"remove", "orphan"},
                    c \notin stale'
             PROVE  cands'[c] \cap WorkspaceTags(WorkspaceOf[c])' = {}
  BY DEF CandidatesOK
<1>1. cleaner[c] \in {"remove", "orphan"} /\ cands'[c] \subseteq cands[c]
  BY DEF Narrows
<1>2. cands[c] \cap WorkspaceTags(WorkspaceOf[c]) = {}
  BY <1>1 DEF CandidatesOK
<1>3. WorkspaceTags(WorkspaceOf[c])' = WorkspaceTags(WorkspaceOf[c])
  BY DEF WorkspaceTags, Tags, Recipes
<1> QED  BY <1>1, <1>2, <1>3

(* Every step keeps the candidates clear of the workspace's images.         *)
LEMMA NextCandidates ==
  ASSUME TypeOK, SeenOK, CandidatesOK, [Next]_vars
  PROVE  CandidatesOK'
<1>1. ASSUME NEW c \in Commands,
             \/ Start(c) \/ Builder(c) \/ ContainerEnds(c) \/ Run(c)
             \/ Listener(c) \/ Connect(c) \/ Send(c)
      PROVE  CandidatesOK'
  <2>1. UNCHANGED <<files, cleaner, cands, stale>>
    BY <1>1 DEF Start, Builder, Resolve, Inspect, Manifest, Pull, BuildStart,
       BuildEnd, Push, ContainerEnds, Run, Listener, Listen, Accept, Recv,
       Connect, Send, source, threads
  <2> QED  BY <2>1, NarrowsKeeps DEF Narrows
<1>2. ASSUME NEW c \in Commands, Launch(c) \/ Exit(c) \/ Interrupt(c)
      PROVE  CandidatesOK'
  <2>1. UNCHANGED <<files, stale>>
    BY <1>2 DEF Launch, Exit, Interrupt, source
  <2>2. \A d \in Commands : Narrows(d)
    <3>1. CASE Launch(c)
      BY <3>1 DEF Launch, Narrows, TypeOK
    <3>2. CASE ThreadsDie(c)
      BY <3>2 DEF ThreadsDie, Narrows, TypeOK
    <3> QED  BY <1>2, <3>1, <3>2 DEF Exit, Interrupt
  <2> QED  BY <2>1, <2>2, NarrowsKeeps
<1>3. ASSUME NEW c \in Commands,
             ListImages(c) \/ RemoveImage(c) \/ LateRemoval(c)
      PROVE  CandidatesOK'
  <2>1. UNCHANGED <<files, stale>>
    BY <1>3 DEF ListImages, RemoveImage, LateRemoval, source
  <2>2. \A d \in Commands : Narrows(d)
    <3>1. CASE ListImages(c)
      BY <3>1 DEF ListImages, Narrows, TypeOK
    <3>2. CASE RemoveImage(c)
      <4>1. cleaner[c] = "remove" /\ cands'[c] \subseteq cands[c]
        <5>1. /\ cands = [d \in Commands |-> cands[d]]
              /\ cleaner[c] = "remove"
          BY <3>2 DEF RemoveImage, TypeOK
        <5>2. \/ cands' = [cands EXCEPT ![c] = {}]
              \/ \E t \in cands[c] : \/ cands' = [cands EXCEPT ![c] = @ \ {t}]
                                     \/ cands' = [cands EXCEPT ![c] = {t}]
          BY <3>2 DEF RemoveImage
        <5> QED  BY <5>1, <5>2
      <4>2. \A d \in Commands \ {c} : /\ cleaner'[d] = cleaner[d]
                                       /\ cands'[d] = cands[d]
        BY <3>2 DEF RemoveImage, TypeOK
      <4> QED  BY <4>1, <4>2 DEF Narrows
    <3>3. CASE LateRemoval(c)
      BY <3>3 DEF LateRemoval, Narrows, TypeOK
    <3> QED  BY <1>3, <3>1, <3>2, <3>3
  <2> QED  BY <2>1, <2>2, NarrowsKeeps
<1>4. ASSUME NEW c \in Commands, Ignore(c) PROVE CandidatesOK'
  <2>1. UNCHANGED files
    BY <1>4 DEF Ignore, source
  <2>2. \A d \in Commands \ {c} :
          /\ cleaner'[d] = cleaner[d] /\ cands'[d] = cands[d]
          /\ d \in stale' <=> d \in stale
    BY <1>4 DEF Ignore, TypeOK
  <2>3. ASSUME cleaner'[c] \in {"remove", "orphan"}, c \notin stale'
        PROVE  cands'[c] \cap WorkspaceTags(WorkspaceOf[c]) = {}
    <3>1. cands'[c] = cands[c] \ IgnoredTags(c)
      BY <1>4, <2>3 DEF Ignore, TypeOK
    <3>2. \A m \in Images : seen[c][m] = files[WorkspaceOf[c]][m]
      BY <1>4, <2>3 DEF Ignore, SeenOK, TypeOK
    <3> QED  BY <3>1, <3>2, AllAreIgnored
  <2>4. \A w : WorkspaceTags(w)' = WorkspaceTags(w)
    BY <2>1 DEF WorkspaceTags, Tags, Recipes
  <2> QED  BY <2>2, <2>3, <2>4 DEF CandidatesOK
<1>5. ASSUME NEW w \in Workspaces, Edit(w) PROVE CandidatesOK'
  <2>1. /\ UNCHANGED <<cleaner, cands>>
        /\ stale \subseteq stale'
        /\ \A d \in Commands : WorkspaceOf[d] = w
             /\ cleaner[d] \in {"remove", "orphan"} => d \in stale'
        /\ \A x \in Workspaces \ {w} : files'[x] = files[x]
    BY <1>5 DEF Edit, TypeOK
  <2>2. \A x \in Workspaces \ {w} : WorkspaceTags(x)' = WorkspaceTags(x)
    BY <2>1 DEF WorkspaceTags, Tags, Recipes
  <2>3. \A d \in Commands : WorkspaceOf[d] \in Workspaces
    BY DevkitAssumption
  <2> QED  BY <2>1, <2>2, <2>3 DEF CandidatesOK
<1>7. ASSUME NEW c \in Commands, CalculateTag(c) PROVE CandidatesOK'
  <2>1. UNCHANGED <<files, cleaner, cands, stale>>
    BY <1>7 DEF CalculateTag, source
  <2> QED  BY <2>1, NarrowsKeeps DEF Narrows
<1>6. CASE UNCHANGED vars
  BY <1>6, NarrowsKeeps DEF vars, source, threads, Narrows
<1> QED  BY <1>1, <1>2, <1>3, <1>4, <1>5, <1>6, <1>7 DEF Next, Runner, Cleaner

(* A cleaner, and a docker rmi that outlives it, spare the images of its    *)
(* own workspace while the Dockerfiles stay as they were when it read them. *)
THEOREM CleanersSpareTheirWorkspace == Spec => OwnImagesStay
<1>1. Init => SeenOK /\ CandidatesOK
  BY DEF Init, SeenOK, CandidatesOK
<1>2. IInv => TypeOK
  BY DEF IInv
<1>3. TypeOK /\ SeenOK /\ CandidatesOK /\ [Next]_vars
        => SeenOK' /\ CandidatesOK'
  BY NextSeen, NextCandidates
<1>4. TypeOK /\ CandidatesOK /\ [Next]_vars =>
        [\A c \in Commands, t \in Tags :
           (/\ local[t] # None /\ local'[t] = None
            /\ RemoveImage(c) \/ LateRemoval(c))
           => t \notin WorkspaceTags(WorkspaceOf[c]) \/ c \in stale]_vars
  <2> SUFFICES ASSUME TypeOK, CandidatesOK, NEW c \in Commands, NEW t \in Tags,
                      local[t] # None, local'[t] = None,
                      RemoveImage(c) \/ LateRemoval(c)
               PROVE  t \notin WorkspaceTags(WorkspaceOf[c]) \/ c \in stale
    OBVIOUS
  <2>1. \E u \in cands[c] : Removes(u)
    BY DEF RemoveImage, LateRemoval
  <2>2. t \in cands[c]
    BY <2>1 DEF Removes, TypeOK
  <2>3. cleaner[c] \in {"remove", "orphan"}
    BY DEF RemoveImage, LateRemoval
  <2> QED  BY <2>2, <2>3 DEF CandidatesOK
<1> QED  BY <1>1, <1>2, <1>3, <1>4, InitIInv, NextIInv, PTL
            DEF Spec, OwnImagesStay
=============================================================================
