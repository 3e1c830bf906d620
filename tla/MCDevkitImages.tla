--------------------------- MODULE MCDevkitImages ---------------------------
(* An instance of DevkitImages for TLC: two workspaces with a command each, *)
(* one that runs its image and one that builds it, an image and the image   *)
(* it is built on.                                                          *)
EXTENDS DevkitImages, TLC

CONSTANTS c1, c2, w1, w2, lower, upper

MCWorkspaceOf == (c1 :> w1) @@ (c2 :> w2)
MCBase == (lower :> None) @@ (upper :> lower)
MCNeeds == (lower :> {lower}) @@ (upper :> {lower, upper})
MCTarget == (c1 :> upper) @@ (c2 :> upper)
MCKinds == (c1 :> {"run"}) @@ (c2 :> {"build", "rebuild"})

(* One disturbance in all: an edit, a failure, or a rebuild.                *)
Bound ==
  edits + faults + Cardinality({c \in Commands : kind[c] = "rebuild"}) <= 1
=============================================================================
