---------------------- MODULE CertificateIssuanceProofs ----------------------
(***************************************************************************)
(* What holds of every certificate issued, and when an edited policy file  *)
(* is in force, for any number of calls, clients, packages and files.  The *)
(* invariant says of a call in progress what it has read and checked so    *)
(* far, none of which a reload, an edit or another call takes back; and of *)
(* the cache how old an entry that differs from the bucket can be.         *)
(***************************************************************************)
EXTENDS CertificateIssuance, TLAPS

InProgress == {"trust", "policy", "resolve", "verify", "sign", "issued"}
HasTrust == {"policy", "resolve", "verify", "sign", "issued"}
HasPolicy == {"verify", "sign", "issued"}
HasWindow == {"sign", "issued"}

(* A call is a record of these fields.                                      *)
Fields ==
  {"pc", "req", "root", "cross", "file", "policy", "window", "status", "cert"}
CallRecord(x) == x = [f \in Fields |-> x[f]]

(* What a call x knows once it has its root, its policy, its window, its    *)
(* certificate.                                                             *)
TrustKnown(x) ==
  /\ \E p \in Packages : x.root \in p.roots /\ x.cross = p.cross
  /\ AudienceBound(x.req, x.root.domain)
  /\ ReadsEndorsement(x.req)

PolicyKnown(x) ==
  x.file \in Files /\ x.file.owner = x.req.client /\ x.policy \in x.file.policies

WindowKnown(x) ==
  /\ x.window.start \in Int /\ x.window.end \in Int
  /\ x.req.evidence.endorsement.notBefore <= x.window.start
  /\ x.window.start <= x.window.end
  /\ x.window.end <= x.req.evidence.endorsement.notAfter
  /\ \E rv \in x.policy.references :
       rv.type = x.req.evidence.type /\ VerifyEvidence(x.req, rv)

(* The window ends within maxValidity of the time t.                        *)
Within(x, t) == x.window.end <= t + x.policy.maxValidity

CertKnown(x) ==
  /\ x.cert.issuer = x.root /\ x.cert.cross = x.cross /\ x.cert.key = x.req.key
  /\ x.cert.notBefore = x.window.start /\ x.cert.notAfter = x.window.end
  /\ x.cert.serial \in Nat /\ Within(x, x.cert.serial)

(* A call at the time t.                                                    *)
CallOK(x, t) ==
  /\ CallRecord(x)
  /\ x.pc \in InProgress => x.req \in Requests /\ HasEvidence(x.req)
  /\ x.pc = "resolve" => x.file \in Files \cup {None}
  /\ x.pc \in HasTrust => TrustKnown(x)
  /\ x.pc \in HasPolicy => PolicyKnown(x)
  /\ x.pc \in HasWindow => WindowKnown(x) /\ Within(x, t)
  /\ x.pc = "issued" => CertKnown(x)

CallsOK ==
  /\ call = [c \in Calls |-> call[c]]
  /\ \A c \in Calls : CallOK(call[c], clock)

(* A file read or cached which is not the one in the bucket was read before *)
(* the last edit, and cached at most MaxLatency after it.                   *)
FetchOK(i) ==
  fetch[i] # None =>
    /\ fetch[i].file \in Files \cup {None} /\ fetch[i].readAt \in Nat
    /\ fetch[i].readAt <= clock /\ clock <= fetch[i].readAt + MaxLatency
    /\ fetch[i].file = bucket[i] \/ fetch[i].readAt <= edited[i]

CacheOK(i) ==
  cache[i] # None =>
    /\ cache[i].file \in Files \cup {None} /\ cache[i].writtenAt \in Nat
    /\ cache[i].writtenAt <= clock
    /\ cache[i].file = bucket[i] \/ cache[i].writtenAt <= edited[i] + MaxLatency

FilesOK ==
  /\ clock \in Nat /\ trust \in Packages \cup {None}
  /\ bucket \in [Clients -> Files \cup {None}] /\ edited \in [Clients -> Nat]
  /\ cache = [i \in Clients |-> cache[i]] /\ fetch = [i \in Clients |-> fetch[i]]
  /\ \A i \in Clients : FetchOK(i) /\ CacheOK(i)

IInv == FilesOK /\ CallsOK

(* Once CACHE_DURATION and one fetch have passed since an edit, what is in  *)
(* hand was read, or cached, after it.                                      *)
LEMMA TooOld ==
  ASSUME NEW now \in Nat, NEW edit \in Nat, NEW at \in Nat,
         NEW d \in Nat, NEW l \in Nat, now > edit + d + l
  PROVE  /\ now <= at + l => ~(at <= edit)
         /\ now - at < d => ~(at <= edit + l)
OBVIOUS

USE IssuanceAssumption
-----------------------------------------------------------------------------
(* Max and Min of two numbers are one of them, and bound both.              *)
LEMMA MaxOfTwo ==
  ASSUME NEW a \in Int, NEW b \in Int
  PROVE  Max({a, b}) \in {a, b} /\ Max({a, b}) >= a /\ Max({a, b}) >= b
<1>1. \E x \in {a, b} : \A y \in {a, b} : x >= y
  <2>1. CASE a >= b  BY <2>1
  <2>2. CASE b >= a  BY <2>2
  <2>3. QED  BY <2>1, <2>2
<1>2. QED  BY <1>1 DEF Max

(* The same of Min.                                                         *)
LEMMA MinOfTwo ==
  ASSUME NEW a \in Int, NEW b \in Int
  PROVE  Min({a, b}) \in {a, b} /\ Min({a, b}) <= a /\ Min({a, b}) <= b
<1>1. \E x \in {a, b} : \A y \in {a, b} : x <= y
  <2>1. CASE a >= b  BY <2>1
  <2>2. CASE b >= a  BY <2>2
  <2>3. QED  BY <2>1, <2>2
<1>2. QED  BY <1>1 DEF Min

(* A call that has not finished with the policy has one whose maximal       *)
(* validity is a number, so that what held at the time t holds later.       *)
LEMMA LaterIsFine ==
  ASSUME NEW x, NEW t \in Nat, NEW u \in Nat, t <= u, CallOK(x, t)
  PROVE  CallOK(x, u)
<1>1. CASE x.pc \in HasWindow
  <2>1. x.policy.maxValidity \in Nat /\ x.window.end \in Int /\ Within(x, t)
    BY <1>1 DEF CallOK, HasWindow, HasPolicy, PolicyKnown, WindowKnown
  <2>2. Within(x, u)
    BY <2>1 DEF Within
  <2>3. QED  BY <2>2 DEF CallOK
<1>2. CASE x.pc \notin HasWindow
  BY <1>2 DEF CallOK
<1>3. QED  BY <1>1, <1>2

(* A step of one call leaves the others as they are.                        *)
LEMMA OneCallMoves ==
  ASSUME CallsOK, clock' = clock, NEW c \in Calls, NEW x,
         call' = [call EXCEPT ![c] = x], CallOK(x, clock)
  PROVE  CallsOK'
<1>1. call' = [d \in Calls |-> call'[d]]
  BY DEF CallsOK
<1>2. ASSUME NEW d \in Calls PROVE CallOK(call'[d], clock')
  <2>1. CASE d = c  BY <2>1 DEF CallsOK
  <2>2. CASE d # c
    <3>1. call'[d] = call[d]  BY <2>2 DEF CallsOK
    <3>2. QED  BY <3>1 DEF CallsOK
  <2>3. QED  BY <2>1, <2>2
<1>3. QED  BY <1>1, <1>2 DEF CallsOK

(* The fields of a call that goes on.                                       *)
LEMMA WithFields ==
  ASSUME NEW x, CallRecord(x), NEW new
  PROVE  /\ CallRecord(With(x, new))
         /\ \A f \in Fields :
              With(x, new)[f] = IF f \in DOMAIN new THEN new[f] ELSE x[f]
<1>1. DOMAIN x = Fields
  BY DEF CallRecord
<1>2. QED  BY <1>1 DEF With, CallRecord

(* A call that goes on is the only one that does.                           *)
LEMMA GoOnIsFine ==
  ASSUME CallsOK, clock' = clock, NEW c \in Calls, NEW new, GoOn(c, new),
         CallOK(With(call[c], new), clock)
  PROVE  CallsOK'
<1>1. call' = [call EXCEPT ![c] = With(call[c], new)]
  BY DEF GoOn, CallsOK
<1>2. QED  BY <1>1, OneCallMoves

(* A refused call knows nothing.                                            *)
LEMMA RefusalIsFine ==
  ASSUME CallsOK, clock' = clock, NEW c \in Calls, NEW status, Refuse(c, status)
  PROVE  CallsOK'
<1> DEFINE x == With(Idle, [pc |-> "refused", status |-> status])
<1>1. CallRecord(Idle)
  BY DEF Idle, CallRecord, Fields
<1>2. CallRecord(x) /\ x.pc = "refused"
  BY <1>1, WithFields DEF Fields
<1>3. call' = [call EXCEPT ![c] = x]
  BY DEF Refuse
<1> HIDE DEF x
<1>4. CallOK(x, clock)
  BY <1>2 DEF CallOK, InProgress, HasTrust, HasPolicy, HasWindow
<1>5. QED  BY <1>3, <1>4, OneCallMoves

-----------------------------------------------------------------------------
(* Receive: only a request with evidence goes on.                           *)
LEMMA ReceiveKeeps ==
  ASSUME CallsOK, NEW c \in Calls, NEW r \in Requests, Receive(c, r)
  PROVE  CallsOK'
<1> DEFINE new == [pc |-> "trust", req |-> r]
           x == With(call[c], new)
<1>1. clock' = clock
  BY DEF Receive
<1>2. CASE HasEvidence(r) /\ GoOn(c, new)
  <2>1. CallRecord(x) /\ x.pc = "trust" /\ x.req = r
    BY WithFields DEF CallsOK, CallOK, Fields
  <2>2. CallOK(x, clock)
    <3> HIDE DEF x
    <3> QED  BY <1>2, <2>1 DEF CallOK, InProgress, HasTrust, HasPolicy, HasWindow
  <2>3. QED  BY <1>1, <1>2, <2>2, GoOnIsFine
<1>3. CASE \E status : Refuse(c, status)
  BY <1>1, <1>3, RefusalIsFine
<1>4. QED  BY <1>2, <1>3 DEF Receive

(* TakeTrust: the root and the cross-signed certificates are of the package *)
(* that is active now.                                                      *)
LEMMA TakeTrustKeeps ==
  ASSUME IInv, NEW c \in Calls, TakeTrust(c)
  PROVE  CallsOK'
<1>1. clock' = clock /\ call[c].pc = "trust" /\ CallsOK /\ CallOK(call[c], clock)
  BY DEF TakeTrust, IInv, CallsOK
<1>2. ASSUME NEW root \in trust.roots, trust # None,
             AudienceBound(call[c].req, TrustDomain(root)), ReadsEndorsement(call[c].req),
             GoOn(c, [pc |-> "policy", root |-> root, cross |-> trust.cross])
      PROVE  CallsOK'
  <2> DEFINE new == [pc |-> "policy", root |-> root, cross |-> trust.cross]
             x == With(call[c], new)
  <2>1. CallRecord(x) /\ x.pc = "policy" /\ x.req = call[c].req
    BY <1>1, WithFields DEF CallOK, Fields
  <2>2. x.root = root /\ x.cross = trust.cross
    BY <1>1, WithFields DEF CallOK, Fields
  <2>3. x.req \in Requests /\ HasEvidence(x.req)
    BY <1>1, <2>1 DEF CallOK, InProgress
  <2> HIDE DEF x
  <2>4. TrustKnown(x)
    <3>1. trust \in Packages  BY <1>2 DEF IInv, FilesOK
    <3>2. QED  BY <1>2, <2>1, <2>2, <3>1 DEF TrustKnown, TrustDomain
  <2>5. CallOK(x, clock)
    BY <2>1, <2>3, <2>4 DEF CallOK, HasPolicy, HasWindow
  <2>6. QED  BY <1>1, <1>2, <2>5, GoOnIsFine DEF x
<1>3. CASE \E status : Refuse(c, status)
  BY <1>1, <1>3, RefusalIsFine
<1>4. QED  BY <1>2, <1>3 DEF TakeTrust

(* A policy file has arrived, from the cache or from the bucket.            *)
LEMMA FetchedKeeps ==
  ASSUME CallsOK, clock' = clock, NEW c \in Calls, call[c].pc = "policy", NEW entry,
         entry.file \in Files \cup {None}, Fetched(c, entry)
  PROVE  CallsOK' /\ call'[c].file = entry.file
<1> DEFINE new == [pc |-> "resolve", file |-> entry.file]
           x == With(call[c], new)
<1>1. CallOK(call[c], clock)
  BY DEF CallsOK
<1>2. CallRecord(x) /\ x.pc = "resolve" /\ x.req = call[c].req
  BY <1>1, WithFields DEF CallOK, Fields
<1>3. x.root = call[c].root /\ x.cross = call[c].cross /\ x.file = entry.file
  BY <1>1, WithFields DEF CallOK, Fields
<1>4. call' = [call EXCEPT ![c] = x]
  BY DEF Fetched, GoOn, CallsOK
<1> HIDE DEF x
<1>5. x.req \in Requests /\ HasEvidence(x.req) /\ TrustKnown(x)
  BY <1>1, <1>2, <1>3 DEF CallOK, InProgress, HasTrust, TrustKnown
<1>6. CallOK(x, clock)
  BY <1>2, <1>3, <1>5 DEF CallOK, HasPolicy, HasWindow
<1>7. QED  BY <1>3, <1>4, <1>6, OneCallMoves DEF CallsOK

(* getPolicy: the policy is one of the caller's own file.                   *)
LEMMA ResolvePolicyKeeps ==
  ASSUME CallsOK, NEW c \in Calls, ResolvePolicy(c)
  PROVE  CallsOK'
<1>1. clock' = clock /\ call[c].pc = "resolve" /\ CallOK(call[c], clock)
  BY DEF ResolvePolicy, CallsOK
<1>2. ASSUME NEW p \in call[c].file.policies, Parses(call[c].file),
             call[c].file.owner = Client(c), GoOn(c, [pc |-> "verify", policy |-> p])
      PROVE  CallsOK'
  <2> DEFINE new == [pc |-> "verify", policy |-> p]
             x == With(call[c], new)
  <2>1. CallRecord(x) /\ x.pc = "verify" /\ x.req = call[c].req /\ x.policy = p
    BY <1>1, WithFields DEF CallOK, Fields
  <2>2. x.root = call[c].root /\ x.cross = call[c].cross /\ x.file = call[c].file
    BY <1>1, WithFields DEF CallOK, Fields
  <2> HIDE DEF x
  <2>3. x.req \in Requests /\ HasEvidence(x.req) /\ TrustKnown(x)
    BY <1>1, <2>1, <2>2 DEF CallOK, InProgress, HasTrust, TrustKnown
  <2>4. PolicyKnown(x)
    BY <1>1, <1>2, <2>1, <2>2 DEF CallOK, PolicyKnown, Parses, Client
  <2>5. CallOK(x, clock)
    BY <2>1, <2>3, <2>4 DEF CallOK, HasWindow
  <2>6. QED  BY <1>1, <1>2, <2>5, GoOnIsFine DEF x
<1>3. CASE \E status : Refuse(c, status)
  BY <1>1, <1>3, RefusalIsFine
<1>4. QED  BY <1>2, <1>3 DEF ResolvePolicy

(* The window of a call is within its endorsement and its policy.           *)
LEMMA WindowIsBounded ==
  ASSUME CallsOK, clock \in Nat, NEW c \in Calls, call[c].pc = "verify"
  PROVE  LET e == call[c].req.evidence.endorsement
             w == Window(c)
         IN  /\ w.start \in Int /\ w.end \in Int
             /\ e.notBefore <= w.start /\ w.end <= e.notAfter
             /\ w.end <= clock + call[c].policy.maxValidity
<1> DEFINE e == call[c].req.evidence.endorsement
           m == call[c].policy.maxValidity
<1>1. CallOK(call[c], clock)
  BY DEF CallsOK
<1>2. m \in Nat
  BY <1>1 DEF CallOK, HasPolicy, PolicyKnown
<1>3. e.notBefore \in Int /\ e.notAfter \in Int
  BY <1>1 DEF CallOK, InProgress, HasTrust, TrustKnown, HasEvidence,
              ReadsEndorsement, HasOneEndorsement
<1>4. Window(c) = [start |-> Max({clock, e.notBefore}),
                   end |-> Min({clock + m, e.notAfter})]
  BY DEF Window
<1> HIDE DEF e, m
<1>5. Max({clock, e.notBefore}) \in Int /\ e.notBefore <= Max({clock, e.notBefore})
  BY <1>3, MaxOfTwo
<1>6. /\ Min({clock + m, e.notAfter}) \in Int
      /\ Min({clock + m, e.notAfter}) <= clock + m
      /\ Min({clock + m, e.notAfter}) <= e.notAfter
  <2>1. clock + m \in Int  BY <1>2
  <2>2. QED  BY <1>3, <2>1, MinOfTwo
<1>7. /\ Window(c).start = Max({clock, e.notBefore})
      /\ Window(c).end = Min({clock + m, e.notAfter})
  BY <1>4
<1>8. /\ Window(c).start \in Int /\ Window(c).end \in Int
      /\ e.notBefore <= Window(c).start /\ Window(c).end <= e.notAfter
      /\ Window(c).end <= clock + m
  BY <1>5, <1>6, <1>7
<1>9. QED  BY <1>8 DEF e, m

(* Verify: the evidence has been verified and the window computed.          *)
LEMMA VerifyKeeps ==
  ASSUME CallsOK, clock \in Nat, NEW c \in Calls, Verify(c)
  PROVE  CallsOK'
<1>1. clock' = clock /\ call[c].pc = "verify" /\ CallOK(call[c], clock)
  BY DEF Verify, CallsOK
<1>2. CASE Verified(c) /\ ProperlyOrdered(Window(c))
           /\ GoOn(c, [pc |-> "sign", window |-> Window(c)])
  <2> DEFINE new == [pc |-> "sign", window |-> Window(c)]
             x == With(call[c], new)
  <2>1. CallRecord(x) /\ x.pc = "sign" /\ x.req = call[c].req /\ x.window = Window(c)
    BY <1>1, WithFields DEF CallOK, Fields
  <2>2. x.root = call[c].root /\ x.cross = call[c].cross
    BY <1>1, WithFields DEF CallOK, Fields
  <2>3. x.file = call[c].file /\ x.policy = call[c].policy
    BY <1>1, WithFields DEF CallOK, Fields
  <2> HIDE DEF x
  <2>4. x.req \in Requests /\ HasEvidence(x.req) /\ TrustKnown(x) /\ PolicyKnown(x)
    BY <1>1, <2>1, <2>2, <2>3
    DEF CallOK, InProgress, HasTrust, HasPolicy, TrustKnown, PolicyKnown
  <2>5. WindowKnown(x) /\ Within(x, clock)
    BY <1>1, <1>2, <2>1, <2>3, WindowIsBounded
    DEF WindowKnown, Within, Verified, ProperlyOrdered
  <2>6. CallOK(x, clock)
    BY <2>1, <2>4, <2>5 DEF CallOK
  <2>7. QED  BY <1>1, <1>2, <2>6, GoOnIsFine DEF x
<1>3. CASE \E status : Refuse(c, status)
  BY <1>1, <1>3, RefusalIsFine
<1>4. QED  BY <1>2, <1>3 DEF Verify

(* Sign: the certificate says what the call has read and checked.           *)
LEMMA SignKeeps ==
  ASSUME CallsOK, clock \in Nat, NEW c \in Calls, Sign(c)
  PROVE  CallsOK'
<1> DEFINE cert == [issuer |-> call[c].root, cross |-> CrossSigned(c),
                    key |-> call[c].req.key, serial |-> clock,
                    notBefore |-> call[c].window.start,
                    notAfter |-> call[c].window.end]
           new == [pc |-> "issued", status |-> "SUCCESS", cert |-> cert]
           x == With(call[c], new)
<1>1. clock' = clock /\ call[c].pc = "sign" /\ CallOK(call[c], clock)
  BY DEF Sign, CallsOK
<1>2. CASE GoOn(c, new)
  <2> HIDE DEF cert
  <2>0. /\ DOMAIN new = {"pc", "status", "cert"}
        /\ new.pc = "issued" /\ new.cert = cert
    OBVIOUS
  <2>1. CallRecord(x) /\ x.pc = "issued" /\ x.cert = cert
    <3> HIDE DEF new
    <3> QED  BY <1>1, <2>0, WithFields DEF CallOK, Fields
  <2>2. x.req = call[c].req /\ x.root = call[c].root /\ x.cross = call[c].cross
    <3> HIDE DEF new
    <3> QED  BY <1>1, <2>0, WithFields DEF CallOK, Fields
  <2>3. x.file = call[c].file /\ x.policy = call[c].policy /\ x.window = call[c].window
    <3> HIDE DEF new
    <3> QED  BY <1>1, <2>0, WithFields DEF CallOK, Fields
  <2> HIDE DEF x
  <2>4. x.req \in Requests /\ HasEvidence(x.req) /\ TrustKnown(x) /\ PolicyKnown(x)
    BY <1>1, <2>2, <2>3
    DEF CallOK, InProgress, HasTrust, HasPolicy, TrustKnown, PolicyKnown
  <2>5. WindowKnown(x) /\ Within(x, clock)
    BY <1>1, <2>2, <2>3 DEF CallOK, HasWindow, WindowKnown, Within
  <2>6. CertKnown(x)
    BY <2>1, <2>2, <2>3, <2>5 DEF CertKnown, CrossSigned, Within, cert
  <2>7. CallOK(x, clock)
    BY <2>1, <2>4, <2>5, <2>6 DEF CallOK
  <2>8. QED  BY <1>1, <1>2, <2>7, GoOnIsFine DEF x
<1>3. CASE \E status : Refuse(c, status)
  BY <1>1, <1>3, RefusalIsFine
<1>4. QED  BY <1>2, <1>3 DEF Sign

-----------------------------------------------------------------------------
(* A step of a call other than its fetch changes no file, entry or fetch.   *)
LEMMA FilesStay ==
  ASSUME FilesOK, UNCHANGED <<clock, trust, fileVars, cache, fetch>>
  PROVE  FilesOK'
BY DEF FilesOK, FetchOK, CacheOK, fileVars

(* A client is known once a call has one.                                   *)
LEMMA ClientIsKnown ==
  ASSUME CallsOK, NEW c \in Calls, call[c].pc = "policy"
  PROVE  Client(c) \in Clients
BY DEF CallsOK, CallOK, InProgress, Client

(* Time passes: a fetch in progress is not overdue yet.                     *)
LEMMA TickKeeps ==
  ASSUME IInv, Tick
  PROVE  IInv'
<1>1. clock \in Nat /\ clock' = clock + 1
  BY DEF IInv, FilesOK, Tick
<1>2. CallsOK'
  BY <1>1, LaterIsFine DEF IInv, CallsOK, Tick
<1>3. ASSUME NEW i \in Clients PROVE FetchOK(i)' /\ CacheOK(i)'
  <2>1. FetchOK(i) /\ CacheOK(i) /\ edited[i] \in Nat /\ MaxLatency \in Nat
    BY DEF IInv, FilesOK
  <2>2. fetch[i] # None => clock < fetch[i].readAt + MaxLatency
    BY DEF Tick
  <2>3. QED  BY <1>1, <2>1, <2>2 DEF FetchOK, CacheOK, Tick, fileVars
<1>4. FilesOK'
  BY <1>1, <1>3 DEF IInv, FilesOK, Tick, fileVars
<1>5. QED  BY <1>2, <1>4 DEF IInv

(* An edit makes what was read or cached before it old.                     *)
LEMMA EditKeeps ==
  ASSUME IInv, NEW i \in Clients, NEW f \in Files \cup {None}, EditPolicies(i, f)
  PROVE  IInv'
<1>1. CallsOK'
  BY DEF IInv, CallsOK, EditPolicies
<1>2. ASSUME NEW j \in Clients PROVE FetchOK(j)' /\ CacheOK(j)'
  <2>1. FetchOK(j) /\ CacheOK(j) /\ MaxLatency \in Nat /\ clock \in Nat
    BY DEF IInv, FilesOK
  <2>2. CASE j = i
    <3>1. edited'[j] = clock  BY <2>2 DEF EditPolicies, IInv, FilesOK
    <3>2. QED  BY <2>1, <3>1 DEF FetchOK, CacheOK, EditPolicies
  <2>3. CASE j # i
    <3>1. bucket'[j] = bucket[j] /\ edited'[j] = edited[j]
      BY <2>3 DEF EditPolicies, IInv, FilesOK
    <3>2. QED  BY <2>1, <3>1 DEF FetchOK, CacheOK, EditPolicies
  <2>4. QED  BY <2>2, <2>3
<1>3. FilesOK'
  BY <1>2 DEF IInv, FilesOK, EditPolicies
<1>4. QED  BY <1>1, <1>3 DEF IInv

(* CacheMiss: what is read is what is in the bucket now.                    *)
LEMMA CacheMissKeeps ==
  ASSUME IInv, NEW c \in Calls, CacheMiss(c)
  PROVE  IInv'
<1> DEFINE i == Client(c)
<1>1. i \in Clients
  BY ClientIsKnown DEF IInv, CacheMiss
<1>2. CallsOK'
  BY DEF IInv, CallsOK, CacheMiss
<1> HIDE DEF i
<1>3. fetch' = [fetch EXCEPT ![i] = [by |-> c, file |-> bucket[i], readAt |-> clock]]
  BY DEF CacheMiss, i
<1>4. ASSUME NEW j \in Clients PROVE FetchOK(j)' /\ CacheOK(j)'
  <2>1. FetchOK(j) /\ CacheOK(j) /\ MaxLatency \in Nat /\ clock \in Nat
    BY DEF IInv, FilesOK
  <2>2. bucket[j] \in Files \cup {None}
    BY DEF IInv, FilesOK
  <2>3. CASE j = i
    <3>1. fetch'[j] = [by |-> c, file |-> bucket[j], readAt |-> clock]
      BY <1>3, <2>3 DEF IInv, FilesOK
    <3>2. fetch'[j].file = bucket[j] /\ fetch'[j].readAt = clock
      BY <3>1
    <3>3. UNCHANGED <<clock, bucket, edited, cache>>
      BY DEF CacheMiss, fileVars
    <3>4. QED  BY <2>1, <2>2, <3>2, <3>3 DEF FetchOK, CacheOK
  <2>4. CASE j # i
    <3>1. fetch'[j] = fetch[j]  BY <1>1, <1>3, <2>4 DEF IInv, FilesOK
    <3>2. QED  BY <2>1, <3>1 DEF FetchOK, CacheOK, CacheMiss, fileVars
  <2>5. QED  BY <2>3, <2>4
<1>5. FilesOK'
  BY <1>3, <1>4 DEF IInv, FilesOK, CacheMiss, fileVars
<1>6. QED  BY <1>2, <1>5 DEF IInv

(* FetchDone: the entry is at most MaxLatency younger than its reading.     *)
LEMMA FetchDoneKeeps ==
  ASSUME IInv, NEW c \in Calls, FetchDone(c)
  PROVE  IInv'
<1> DEFINE i == Client(c)
<1>1. i \in Clients /\ fetch[i] # None
  BY ClientIsKnown DEF IInv, FetchDone, Fetches
<1>2. CallsOK'
  BY <1>1, FetchedKeeps DEF IInv, FilesOK, FetchOK, FetchDone, Fetches
<1>3. /\ cache' = [cache EXCEPT ![i] = [file |-> fetch[i].file, writtenAt |-> clock]]
      /\ fetch' = [fetch EXCEPT ![i] = None]
  BY DEF FetchDone
<1> HIDE DEF i
<1>4. ASSUME NEW j \in Clients PROVE FetchOK(j)' /\ CacheOK(j)'
  <2>1. FetchOK(j) /\ CacheOK(j) /\ MaxLatency \in Nat /\ clock \in Nat
    BY DEF IInv, FilesOK
  <2>2. edited[j] \in Nat
    BY DEF IInv, FilesOK
  <2>3. CASE j = i
    <3>1. fetch'[j] = None /\ cache'[j] = [file |-> fetch[j].file, writtenAt |-> clock]
      BY <1>3, <2>3 DEF IInv, FilesOK
    <3>2. UNCHANGED <<clock, bucket, edited>>
      BY DEF FetchDone, fileVars
    <3>3. FetchOK(j)'
      BY <3>1 DEF FetchOK
    <3>4. cache'[j].file = fetch[j].file /\ cache'[j].writtenAt = clock
      BY <3>1
    <3>5. CacheOK(j)'
      BY <1>1, <2>1, <2>2, <2>3, <3>2, <3>4 DEF FetchOK, CacheOK
    <3>6. QED  BY <3>3, <3>5
  <2>4. CASE j # i
    <3>1. fetch'[j] = fetch[j] /\ cache'[j] = cache[j]
      BY <1>1, <1>3, <2>4 DEF IInv, FilesOK
    <3>2. QED  BY <2>1, <3>1 DEF FetchOK, CacheOK, FetchDone, fileVars
  <2>5. QED  BY <2>3, <2>4
<1>5. FilesOK'
  BY <1>3, <1>4 DEF IInv, FilesOK, FetchDone, fileVars
<1>6. QED  BY <1>2, <1>5 DEF IInv

(* FetchFails: nothing is cached.                                           *)
LEMMA FetchFailsKeeps ==
  ASSUME IInv, NEW c \in Calls, FetchFails(c)
  PROVE  IInv'
<1>1. Client(c) \in Clients /\ fetch' = [fetch EXCEPT ![Client(c)] = None]
  BY ClientIsKnown DEF IInv, FetchFails, Fetches
<1>2. CallsOK'
  BY RefusalIsFine DEF IInv, FetchFails
<1>3. ASSUME NEW j \in Clients PROVE FetchOK(j)' /\ CacheOK(j)'
  <2>1. FetchOK(j) /\ CacheOK(j)
    BY DEF IInv, FilesOK
  <2>2. fetch'[j] \in {None, fetch[j]}
    BY <1>1 DEF IInv, FilesOK
  <2>3. QED  BY <2>1, <2>2 DEF FetchOK, CacheOK, FetchFails, fileVars
<1>4. FilesOK'
  BY <1>1, <1>3 DEF IInv, FilesOK, FetchFails, fileVars
<1>5. QED  BY <1>2, <1>4 DEF IInv

(* CacheHit: the call goes on with the file of the entry.                   *)
LEMMA CacheHitKeeps ==
  ASSUME IInv, NEW c \in Calls, CacheHit(c)
  PROVE  IInv'
<1>1. Client(c) \in Clients
  BY ClientIsKnown DEF IInv, CacheHit
<1>2. CallsOK'
  BY <1>1, FetchedKeeps DEF IInv, FilesOK, CacheOK, CacheHit, Cached
<1>3. QED  BY <1>2, FilesStay DEF IInv, CacheHit

(* No call has begun, nothing is cached.                                    *)
LEMMA InitIInv == Init => IInv
<1> SUFFICES ASSUME Init PROVE IInv
  OBVIOUS
<1>1. CallRecord(Idle) /\ Idle.pc = "idle"
  BY DEF Idle, CallRecord, Fields
<1>2. CallOK(Idle, clock)
  BY <1>1 DEF CallOK, InProgress, HasTrust, HasPolicy, HasWindow
<1>3. CallsOK
  BY <1>2 DEF Init, CallsOK
<1>4. FilesOK
  BY DEF Init, FilesOK, FetchOK, CacheOK
<1>5. QED  BY <1>3, <1>4 DEF IInv

(* Every step keeps the invariant.                                          *)
LEMMA NextIInv == IInv /\ [Next]_vars => IInv'
<1> SUFFICES ASSUME IInv, [Next]_vars PROVE IInv'
  OBVIOUS
<1>1. FilesOK /\ CallsOK /\ clock \in Nat
  BY DEF IInv, FilesOK
<1>2. CASE Tick
  BY <1>2, TickKeeps
<1>3. ASSUME NEW p \in Packages, Reload(p) PROVE IInv'
  BY <1>1, <1>3 DEF Reload, IInv, FilesOK, FetchOK, CacheOK, CallsOK, fileVars
<1>4. ASSUME NEW i \in Clients, NEW f \in Files \cup {None}, EditPolicies(i, f)
      PROVE  IInv'
  BY <1>4, EditKeeps
<1>5. ASSUME NEW c \in Calls, NEW r \in Requests, Receive(c, r) PROVE IInv'
  BY <1>1, <1>5, ReceiveKeeps, FilesStay DEF Receive, IInv
<1>6. ASSUME NEW c \in Calls, Step(c) PROVE IInv'
  <2>1. CASE TakeTrust(c)
    BY <1>1, <2>1, TakeTrustKeeps, FilesStay DEF TakeTrust, IInv
  <2>2. CASE CacheHit(c)
    BY <2>2, CacheHitKeeps
  <2>3. CASE CacheMiss(c)
    BY <2>3, CacheMissKeeps
  <2>4. CASE FetchDone(c)
    BY <2>4, FetchDoneKeeps
  <2>5. CASE FetchFails(c)
    BY <2>5, FetchFailsKeeps
  <2>6. CASE ResolvePolicy(c)
    BY <1>1, <2>6, ResolvePolicyKeeps, FilesStay DEF ResolvePolicy, IInv
  <2>7. CASE Verify(c)
    BY <1>1, <2>7, VerifyKeeps, FilesStay DEF Verify, IInv
  <2>8. CASE Sign(c)
    BY <1>1, <2>8, SignKeeps, FilesStay DEF Sign, IInv
  <2>9. QED  BY <1>6, <2>1, <2>2, <2>3, <2>4, <2>5, <2>6, <2>7, <2>8 DEF Step
<1>7. CASE UNCHANGED vars
  BY <1>1, <1>7, FilesStay DEF vars, IInv, CallsOK
<1>8. QED  BY <1>2, <1>3, <1>4, <1>5, <1>6, <1>7 DEF Next

(* What the invariant says of an issued certificate.                        *)
LEMMA IssuedIsKnown ==
  ASSUME IInv, NEW c \in Issued
  PROVE  /\ c \in Calls /\ call[c].req \in Requests
         /\ TrustKnown(call[c]) /\ PolicyKnown(call[c]) /\ WindowKnown(call[c])
         /\ CertKnown(call[c])
BY DEF IInv, CallsOK, CallOK, Issued, InProgress, HasTrust, HasPolicy, HasWindow

(* The invariant holds always.                                              *)
LEMMA IInvAlways == Spec => []IInv
BY InitIInv, NextIInv, PTL DEF Spec

-----------------------------------------------------------------------------
(* The leaf, the root and the cross-signed certificates a client gets come  *)
(* from one trust package, whenever MBS replaces the active one.            *)
THEOREM ChainsAreFromOnePackage == Spec => []ChainFromOnePackage
<1>1. IInv => ChainFromOnePackage
  BY IssuedIsKnown DEF ChainFromOnePackage, TrustKnown, CertKnown
<1>2. QED  BY <1>1, IInvAlways, PTL

(* No certificate outlives its endorsement, or its signing by more than the *)
(* policy allows, however long a call took between its checks.              *)
THEOREM CertificatesExpireInTime == Spec => []ValidityIsBounded
<1>1. IInv => ValidityIsBounded
  BY IssuedIsKnown DEF ValidityIsBounded, WindowKnown, CertKnown, Within
<1>2. QED  BY <1>1, IInvAlways, PTL

(* A certificate is issued only under a policy of the caller's own file, to *)
(* the key that evidence and token bind, for a measurement it lists.        *)
THEOREM CertificatesFollowPolicy == Spec => []IssuedByPolicy
<1>1. IInv => IssuedByPolicy
  BY IssuedIsKnown
  DEF IssuedByPolicy, TrustKnown, PolicyKnown, WindowKnown, CertKnown,
      VerifyEvidence, VerifyMeasurement
<1>2. QED  BY <1>1, IInvAlways, PTL

(* A call goes on by its own steps only.                                    *)
LEMMA OthersStay ==
  ASSUME CallsOK, NEW c \in Calls, NEW d \in Calls, c # d,
         Step(d) \/ \E r \in Requests : Receive(d, r)
  PROVE  call'[c] = call[c]
<1>1. ASSUME NEW new, GoOn(d, new) PROVE call'[c] = call[c]
  BY <1>1 DEF GoOn, CallsOK
<1>2. ASSUME NEW status, Refuse(d, status) PROVE call'[c] = call[c]
  BY <1>2 DEF Refuse, CallsOK
<1>3. CASE \E r \in Requests : Receive(d, r)
  BY <1>1, <1>2, <1>3 DEF Receive
<1>4. CASE TakeTrust(d) \/ ResolvePolicy(d)
  BY <1>1, <1>2, <1>4 DEF TakeTrust, ResolvePolicy
<1>5. CASE CacheHit(d) \/ FetchDone(d)
  BY <1>1, <1>5 DEF CacheHit, FetchDone, Fetched
<1>6. CASE CacheMiss(d) \/ FetchFails(d)
  BY <1>2, <1>6 DEF CacheMiss, FetchFails
<1>7. CASE Verify(d) \/ Sign(d)
  BY <1>1, <1>2, <1>7 DEF Verify, Sign
<1>8. QED  BY <1>3, <1>4, <1>5, <1>6, <1>7 DEF Step

(* A call that gets its policy file gets it from the cache or the bucket.   *)
LEMMA FileComesFrom ==
  ASSUME IInv, [Next]_vars, NEW c \in Calls,
         call[c].pc = "policy", call'[c].pc = "resolve"
  PROVE  CacheHit(c) \/ FetchDone(c)
<1>1. CallsOK /\ call'[c] # call[c]
  BY DEF IInv
<1>2. call' # call
  BY <1>1
<1>3. \E d \in Calls : Step(d) \/ \E r \in Requests : Receive(d, r)
  BY <1>2 DEF Next, Tick, Reload, EditPolicies, vars
<1>4. Step(c) \/ \E r \in Requests : Receive(c, r)
  BY <1>1, <1>3, OthersStay
<1>5. ~FetchFails(c)
  <2> SUFFICES ASSUME FetchFails(c) PROVE FALSE
    OBVIOUS
  <2>1. call'[c] = With(Idle, [pc |-> "refused", status |-> "MISSING_POLICY"])
    BY <1>1 DEF FetchFails, Refuse, CallsOK
  <2>2. CallRecord(Idle)
    BY DEF Idle, CallRecord, Fields
  <2>3. call'[c].pc = "refused"
    BY <2>1, <2>2, WithFields DEF Fields
  <2>4. QED  BY <2>3
<1>6. ~CacheMiss(c)
  BY <1>2 DEF CacheMiss
<1>7. QED
  BY <1>4, <1>5, <1>6 DEF Step, Receive, TakeTrust, ResolvePolicy, Verify, Sign

(* CACHE_DURATION and one fetch after an edit no call uses the old file.    *)
THEOREM EditsTakeEffect == Spec => EditTakesEffect
<1> DEFINE InForce(c) ==
      ( /\ call[c].pc = "policy" /\ call'[c].pc = "resolve"
        /\ clock > edited[Client(c)] + CacheDuration + MaxLatency )
      => call'[c].file = bucket[Client(c)]
<1>1. ASSUME IInv, [Next]_vars, NEW c \in Calls PROVE InForce(c)
  <2> DEFINE i == Client(c)
  <2> SUFFICES ASSUME call[c].pc = "policy", call'[c].pc = "resolve",
                      clock > edited[i] + CacheDuration + MaxLatency
               PROVE  call'[c].file = bucket[i]
    OBVIOUS
  <2>1. i \in Clients
    BY <1>1, ClientIsKnown DEF IInv
  <2>2. FetchOK(i) /\ CacheOK(i) /\ edited[i] \in Nat /\ clock \in Nat
    BY <1>1, <2>1 DEF IInv, FilesOK
  <2>3. MaxLatency \in Nat /\ CacheDuration \in Nat /\ CallsOK
    BY <1>1 DEF IInv
  <2>4. CASE CacheHit(c)
    <3>1. cache[i] # None /\ clock - cache[i].writtenAt < CacheDuration
      BY <2>4 DEF CacheHit, Cached
    <3>2. clock' = clock /\ cache[i].file \in Files \cup {None} /\ Fetched(c, cache[i])
      BY <2>2, <2>4, <3>1 DEF CacheHit, CacheOK
    <3>3. call'[c].file = cache[i].file
      <4> HIDE DEF i
      <4> QED  BY <2>3, <3>2, FetchedKeeps
    <3>4. ~(cache[i].writtenAt <= edited[i] + MaxLatency)
      <4>1. cache[i].writtenAt \in Nat
        BY <2>2, <3>1 DEF CacheOK
      <4>2. edited[i] \in Nat /\ clock > edited[i] + CacheDuration + MaxLatency
        BY <2>2
      <4> HIDE DEF i
      <4> QED  BY <2>2, <2>3, <3>1, <4>1, <4>2, TooOld
    <3>5. cache[i].file = bucket[i]
      BY <2>2, <3>1, <3>4 DEF CacheOK
    <3> QED  BY <3>3, <3>5
  <2>5. CASE FetchDone(c)
    <3>1. fetch[i] # None
      BY <2>5 DEF FetchDone, Fetches
    <3>2. clock' = clock /\ fetch[i].file \in Files \cup {None} /\ Fetched(c, fetch[i])
      BY <2>2, <2>5, <3>1 DEF FetchDone, FetchOK
    <3>3. call'[c].file = fetch[i].file
      <4> HIDE DEF i
      <4> QED  BY <2>3, <3>2, FetchedKeeps
    <3>4. ~(fetch[i].readAt <= edited[i])
      <4>1. fetch[i].readAt \in Nat /\ clock <= fetch[i].readAt + MaxLatency
        BY <2>2, <3>1 DEF FetchOK
      <4>2. edited[i] \in Nat /\ clock > edited[i] + CacheDuration + MaxLatency
        BY <2>2
      <4> HIDE DEF i
      <4> QED  BY <2>2, <2>3, <4>1, <4>2, TooOld
    <3>5. fetch[i].file = bucket[i]
      BY <2>2, <3>1, <3>4 DEF FetchOK
    <3> QED  BY <3>3, <3>5
  <2>6. QED  BY <1>1, <2>4, <2>5, FileComesFrom
<1>2. IInv /\ [Next]_vars => \A c \in Calls : InForce(c)
  BY <1>1
<1>3. QED  BY <1>2, IInvAlways, PTL DEF EditTakesEffect, Spec
=============================================================================
