------------------------ MODULE MCCertificateIssuance ------------------------
(***************************************************************************)
(* Values for CertificateIssuance: two roots that rotate, the second one   *)
(* accompanied by the cross-signed certificate x12, a root without a       *)
(* SPIFFE trust domain, the policy files an operator can leave in the      *)
(* bucket, and one request for every way issueCertificate can end.         *)
(***************************************************************************)
EXTENDS CertificateIssuance, TLC

CONSTANTS i1, i2, k1, k2, w1, m1, m2, d, g, x12

Root(e) == [epoch |-> e, domain |-> d]
Before == [roots |-> {Root(1)}, cross |-> {}]
Both == [roots |-> {Root(1), Root(2)}, cross |-> {}]
After == [roots |-> {Root(2)}, cross |-> {x12}]
Foreign == [roots |-> {[epoch |-> 3, domain |-> None]}, cross |-> {}]

CallSymmetry == Permutations(Calls)

RotatingPackages == {Before, Both, After}
AllPackages == RotatingPackages \cup {Foreign}

Policy(w, age, publisher) ==
  [workload |-> w, maxValidity |-> age, publisher |-> publisher,
   references |-> {[type |-> "oak", values |-> {m1}]}]
File(i, policies) == [owner |-> i, parses |-> TRUE, policies |-> policies]
OneSpoilt == File(i1, {Policy(w1, 1, TRUE),
                       [Policy("other", 1, TRUE) EXCEPT !.references = {}]})
Garbled == [owner |-> None, parses |-> FALSE, policies |-> {}]

Usual == File(i1, {Policy(w1, 1, TRUE)})
Stricter == File(i1, {Policy(w1, 0, TRUE)})
Default == File(i1, {Policy("default_workload_id", 1, TRUE)})
Unpublished == File(i1, {Policy(w1, 1, FALSE)})
Other == File(i2, {Policy(w1, 1, TRUE)})

EditedFiles == {Usual, Stricter}
AllFiles == {Default, Unpublished, OneSpoilt, Garbled, Other} \cup EditedFiles

Evidence(m, k, w, from, to) ==
  [type |-> "oak", measurement |-> m, key |-> k,
   endorsement |-> [workload |-> w, notBefore |-> from, notAfter |-> to]]
Request(i, e) ==
  [client |-> i, jwt |-> TRUE, csr |-> TRUE, key |-> k1, audiences |-> {<<d, k1>>},
   evidence |-> e]

Good(i) == Request(i, Evidence(m1, k1, w1, 0, 2))
Expiring == Request(i1, Evidence(m1, k1, w1, 0, 1))
Future == Request(i1, Evidence(m1, k1, w1, 2, 4))
TimedRequests == {Good(i1), Expiring, Future}
AllRequests ==
  {Good(i1), Good(i2),
   [Good(i1) EXCEPT !.jwt = FALSE],
   [Good(i1) EXCEPT !.csr = FALSE],
   [Good(i1) EXCEPT !.audiences = {<<d, k2>>, <<"elsewhere", k1>>}],
   [Good(i1) EXCEPT !.audiences = {<<g, k1>>}],
   [Good(i1) EXCEPT !.evidence.type = "aws"],
   [Good(i1) EXCEPT !.evidence.endorsement = None],
   Request(i1, None),
   Request(i1, Evidence(m1, k1, w1, None, None)),
   Request(i1, Evidence(m1, k1, None, 0, 2)),
   Request(i1, Evidence(m2, k1, w1, 0, 2)),
   Request(i1, Evidence(m1, k2, w1, 0, 2)),
   Expiring, Future}

(* The bound on the run, three ways to the interesting cases: every kind of *)
(* request, file and package in one moment; packages that rotate while time *)
(* passes; and a policy file that is edited while time passes.  In the last *)
(* two only one client has called, with requests that are not refused for   *)
(* what they are.                                                           *)
Requested == {call[c].req : c \in Calls} \ {None}
InOneMoment == clock = 0 /\ trust \in {None, Before, Foreign}
OneClient(files) ==
  /\ bucket[i1] \in files /\ bucket[i2] = None
  /\ cache[i2] = None /\ fetch[i2] = None
  /\ cache[i1] # None => cache[i1].file \in files
  /\ {call[c].status : c \in Calls} \subseteq
       {None, "SUCCESS", "FAILED_PRECONDITION", "INCORRECT_CERTIFICATE_VALIDITY"}
WhileRotating ==
  /\ clock <= 2 /\ trust \in RotatingPackages \cup {None}
  /\ Requested \subseteq TimedRequests /\ OneClient({Usual}) /\ edited[i1] = 0
WhileEdited ==
  /\ trust \in {None, Before} /\ Requested \subseteq {Good(i1)}
  /\ \A c \in Calls : /\ call[c].root \in {None, Root(1)} /\ call[c].cross = {}
                      /\ call[c].status # "INCORRECT_CERTIFICATE_VALIDITY"
  /\ OneClient(EditedFiles \cup {None})
Bound == InOneMoment \/ WhileRotating \/ WhileEdited
=============================================================================
