---------------------------- MODULE MCSessionPool ---------------------------
(* An instance of SessionPool for TLC.                                      *)
EXTENDS SessionPool

(* Two connections, or one and a failed operation.  Neither is obliged to   *)
(* happen, so leaving the others out takes no fair behaviour away.          *)
Bound == arrived + errors <= 2
=============================================================================
