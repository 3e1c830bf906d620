---------------------------- MODULE KeyRegistry -----------------------------
(***************************************************************************)
(* What Measurement Bound Storage promises its users: every epoch gets at  *)
(* most one root key, for ever; no two epochs share one; and an instance   *)
(* only ever holds keys that are registered, all of one package at once.   *)
(***************************************************************************)
CONSTANTS Instances, Epochs, Bundles, None

VARIABLES
  key,  \* epoch -> its root key
  held  \* instance -> epoch -> the key the instance signs with

vars == <<key, held>>

NoKeys == [e \in Epochs |-> None]

Init ==
  /\ key = NoKeys
  /\ held = [i \in Instances |-> NoKeys]

(* An epoch gets its key: a new one.                                        *)
Publish(e, b) ==
  /\ key[e] = None
  /\ \A f \in Epochs : key[f] # b
  /\ key' = [key EXCEPT ![e] = b]
  /\ UNCHANGED held

(* An instance takes the keys of a set of epochs, all of them registered.   *)
Load(i, S) ==
  /\ S # {}
  /\ \A e \in S : key[e] # None
  /\ held' = [held EXCEPT ![i] =
                [e \in Epochs |-> IF e \in S THEN key[e] ELSE None]]
  /\ UNCHANGED key

(* An instance loses its memory.                                            *)
Restart(i) ==
  /\ held' = [held EXCEPT ![i] = NoKeys]
  /\ UNCHANGED key

Next ==
  \/ \E e \in Epochs, b \in Bundles : Publish(e, b)
  \/ \E i \in Instances, S \in SUBSET Epochs : Load(i, S)
  \/ \E i \in Instances : Restart(i)

Spec == Init /\ [][Next]_vars
=============================================================================
