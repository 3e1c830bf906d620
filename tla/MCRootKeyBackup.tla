-------------------------- MODULE MCRootKeyBackup ---------------------------
(* A small instance of RootKeyBackup for TLC.                               *)
EXTENDS RootKeyBackup

(* Two epochs, of which the older or the newer is in use.                   *)
RotationConfigs == {[defined |-> {0, 1}, active |-> {0}],
                    [defined |-> {0, 1}, active |-> {1}]}

(* Fresh keys differ in name only, so they are generated in a fixed order.  *)
InTurn == used' # used => used' \ used = {CHOOSE b \in Bundles \ used : TRUE}

(* One failure or one deployment; both only when the failure is a delete of *)
(* the lock that lands late.  Neither is ever obliged to happen, so leaving *)
(* the others out takes no fair behaviour away from the rest.               *)
OneDisturbance ==
  faults' + deploys' > faults + deploys =>
    faults' + deploys' = 1 \/ lateUnlock' \/ strayed'
=============================================================================
