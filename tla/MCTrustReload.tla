--------------------------- MODULE MCTrustReload ----------------------------
(***************************************************************************)
(* Model values and configuration files for TrustReload.                   *)
(***************************************************************************)
EXTENDS TrustReload

Time(s) == [seconds |-> s, nanos |-> 0]
Period == [notBefore |-> Time(0), notAfter |-> Time(1)]
Number(n) == [number |-> n, canonical |-> TRUE]
Self(e) == [epochId |-> e, period |-> Period]
Cross(p, q) == [priv |-> p, pub |-> q, period |-> Period]
Key(p, q) == <<Number(p), Number(q)>>

(* Epoch 0 alone.                                                           *)
OnlyZero ==
  [parses |-> TRUE, self |-> [e \in {0} |-> Self(e)],
   cross |-> [k \in {} |-> Cross(0, 1)], active |-> {0}, acceptable |-> {0},
   activeCross |-> {}]

(* Both epochs, 0 signing 1.                                                *)
Rotated ==
  [parses |-> TRUE, self |-> [e \in {0, 1} |-> Self(e)],
   cross |-> [k \in {Key(0, 1)} |-> Cross(0, 1)], active |-> {0, 1},
   acceptable |-> {0, 1}, activeCross |-> {Key(0, 1)}]

(* Epoch 1 alone, with the certificate by which 0 signed it.                *)
Retired == [Rotated EXCEPT !.active = {1}]

(* Files the mapper rejects, one for each of its checks.                    *)
Broken ==
  {[Rotated EXCEPT !.parses = FALSE],
   [Rotated EXCEPT !.active = {}],
   [Rotated EXCEPT !.active = {1, 2}],
   [Rotated EXCEPT !.acceptable = {2}],
   [Rotated EXCEPT !.activeCross = {Key(1, 0)}],
   [Rotated EXCEPT !.activeCross = {<<Number(0)>>}],
   [Rotated EXCEPT !.self[1].epochId = 0],
   [Rotated EXCEPT !.self[1].epochId = Unset],
   [Rotated EXCEPT !.self[1].period = Unset],
   [Rotated EXCEPT !.self[1].period.notAfter = Unset],
   [Rotated EXCEPT !.self[1].period.notAfter = Time(0)],
   [Rotated EXCEPT !.self[1].period.notAfter = Time(MaxSeconds + 1)],
   [Rotated EXCEPT !.self[1].period.notAfter.nanos = 5],
   [Rotated EXCEPT !.cross[Key(0, 1)].pub = 0],
   [Rotated EXCEPT !.cross = [k \in {<<[number |-> 0, canonical |-> FALSE],
                                       Number(1)>>} |-> Cross(0, 1)]],
   [Rotated EXCEPT !.cross = [k \in {Key(0, 0)} |-> Cross(0, 0)]]}

(* And one whose cross-signed certificate has a signer that is not in the   *)
(* inventory.                                                               *)
Dangling ==
  [Rotated EXCEPT !.self = [e \in {1} |-> Self(e)], !.active = {1},
                  !.acceptable = {}]

(* The mapper (CertificatesConfigMapper.toDomain) accepts the three good    *)
(* files with the epochs they name and none of the broken ones.             *)
ASSUME MapperAssumption ==
  /\ \A f \in {OnlyZero, Rotated, Retired} : ToDomain(f).active = f.active
  /\ \A f \in Broken : ToDomain(f) = NoConfig

(* A good file and that one, in whose place epoch 0 alone is in force.      *)
FewFiles == {Rotated, Dangling}
Pair == {<<0, 1>>}

(* Three disturbances at most.  None is ever obliged to happen, so leaving  *)
(* the others out takes no fair behaviour away from the rest.               *)
Bound == changes + faults <= 3
=============================================================================
