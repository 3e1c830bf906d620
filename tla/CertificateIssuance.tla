------------------------- MODULE CertificateIssuance -------------------------
(***************************************************************************)
(* TransparentCaService.issueCertificate, from the gRPC handler to the     *)
(* signed chain, with the shared state its calls read on the way: the      *)
(* active trust package, which MBS replaces at any time, the policy files  *)
(* in their S3 bucket behind a five minute cache, the clock, and the       *)
(* clients whose certificates are counted.  Calls run on different threads *)
(* and a call reads each of these at a different moment.                   *)
(*                                                                         *)
(* A request is what a client sends: jwt and csr say whether its token and *)
(* its signing request hold up, audiences are the <<host, key>> pairs its  *)
(* token names, and the evidence is a type, the key it binds, the          *)
(* measurement it proves and its endorsement.  A root is its epoch and the *)
(* trust domain in its certificate; a policy file is its owner, whether it *)
(* parses, and its policies.                                               *)
(***************************************************************************)
EXTENDS Integers, FiniteSetsExt

CONSTANTS
  Calls,          \* calls to IssueCertificate
  Clients,        \* caller identities
  Requests,       \* what callers send
  Packages,       \* trust packages MBS may activate
  Files,          \* policy files operators may upload
  Hostnames,      \* the global and the regional host name
  CacheDuration,  \* CACHE_DURATION
  MaxApproved,    \* MAX_APPROVED_CLIENTS
  MaxLatency,     \* bound on the time a policy file takes to arrive
  MaxClock,       \* bound on the clock
  None

ASSUME IssuanceAssumption ==
  /\ {CacheDuration, MaxApproved, MaxLatency, MaxClock} \subseteq Nat
  /\ \A p \in Packages : p.roots # {}
  /\ \A f \in Files : \A p \in f.policies : p.maxValidity \in Nat
  /\ \A r \in Requests :
       /\ r.client \in Clients
       /\ LET e == r.evidence.endorsement IN
            r.evidence # None /\ e # None /\ e.notAfter # None =>
              e.notBefore \in Int /\ e.notAfter \in Int

VARIABLES
  clock,      \* timeProvider and instantSource
  trust,      \* activeTrustState, None before the first load
  bucket,     \* client -> its policy file in S3, or None
  edited,     \* client -> when that last changed
  cache,      \* client -> the cached fetch, or None
  fetch,      \* client -> the fetch in progress, or None
  call,       \* call -> how far it is and what it has read
  approved,   \* approvedClients
  counted     \* client -> issuanceCounters

fileVars == <<bucket, edited>>
countVars == <<approved, counted>>
vars == <<clock, trust, fileVars, cache, fetch, call, countVars>>

Idle == [pc |-> "idle", req |-> None, root |-> None, cross |-> {}, file |-> None,
         policy |-> None, window |-> None, status |-> None, cert |-> None]

Init ==
  /\ clock = 0 /\ trust = None
  /\ bucket \in [Clients -> Files \cup {None}] /\ edited = [i \in Clients |-> 0]
  /\ cache = [i \in Clients |-> None] /\ fetch = [i \in Clients |-> None]
  /\ call = [c \in Calls |-> Idle]
  /\ approved = {} /\ counted = [i \in Clients |-> 0]

-----------------------------------------------------------------------------
(* The environment: time passes, MBS reloads, operators edit policies, a    *)
(* file at most once in a unit of time.                                     *)
Tick ==
  /\ clock < MaxClock
  /\ \A i \in Clients : fetch[i] # None => clock < fetch[i].readAt + MaxLatency
  /\ clock' = clock + 1
  /\ UNCHANGED <<trust, fileVars, cache, fetch, call, countVars>>

Reload(p) ==
  /\ trust # p /\ trust' = p
  /\ UNCHANGED <<clock, fileVars, cache, fetch, call, countVars>>

EditPolicies(i, f) ==
  /\ bucket[i] # f /\ edited[i] < clock
  /\ bucket' = [bucket EXCEPT ![i] = f] /\ edited' = [edited EXCEPT ![i] = clock]
  /\ UNCHANGED <<clock, trust, cache, fetch, call, countVars>>

-----------------------------------------------------------------------------
Client(c) == call[c].req.client

With(x, new) == [f \in DOMAIN x |-> IF f \in DOMAIN new THEN new[f] ELSE x[f]]

(* A call goes on with what it has just read, or ends with an error.        *)
GoOn(c, new) == call' = [call EXCEPT ![c] = With(@, new)]
Refuse(c, status) ==
  call' = [call EXCEPT ![c] = With(Idle, [pc |-> "refused", status |-> status])]

(* The interceptor verifies the token, the handler maps the evidence, and   *)
(* the service extracts the public key of the signing request.              *)
Authenticated(r) == r.jwt
HasEvidence(r) == r.evidence # None
HasPublicKey(r) == r.csr

Receive(c, r) ==
  /\ call[c].pc = "idle"
  /\ \/ ~Authenticated(r) /\ Refuse(c, "UNAUTHENTICATED")
     \/ Authenticated(r) /\ ~HasEvidence(r) /\ Refuse(c, "INVALID_EVIDENCE")
     \/ /\ Authenticated(r) /\ HasEvidence(r) /\ ~HasPublicKey(r)
        /\ Refuse(c, "INVALID_CSR")
     \/ /\ Authenticated(r) /\ HasEvidence(r) /\ HasPublicKey(r)
        /\ GoOn(c, [pc |-> "trust", req |-> r])
  /\ UNCHANGED <<clock, trust, fileVars, cache, fetch, countVars>>

(* TrustDomainExtractor: the host of the root's SPIFFE identity, if it has  *)
(* one.                                                                     *)
TrustDomain(root) == root.domain

(* The audience names the key of the signing request and one of the         *)
(* authority's host names.                                                  *)
AudienceBound(r, domain) ==
  \E a \in r.audiences : a[2] = r.key /\ a[1] \in {domain} \cup Hostnames

(* An endorsement is read from Oak evidence only, if there is exactly one   *)
(* and it states its validity.                                              *)
HasOneEndorsement(r) == r.evidence.type = "oak" /\ r.evidence.endorsement # None
ReadsEndorsement(r) == HasOneEndorsement(r) /\ r.evidence.endorsement.notAfter # None

(* getAnnotations falls back to a default workload if a claim is missing.   *)
Workload(r) ==
  IF r.evidence.endorsement.workload = None THEN "default_workload_id"
                                            ELSE r.evidence.endorsement.workload

(* The bundles of a package are the values of a map: the first is any.      *)
TakeTrust(c) ==
  /\ call[c].pc = "trust"
  /\ \/ trust = None /\ Refuse(c, "FAILED_PRECONDITION")
     \/ /\ trust # None
        /\ \E root \in trust.roots :
             LET r == call[c].req
                 domain == TrustDomain(root)
             IN
             \/ domain = None /\ Refuse(c, "SIGNING_ERROR")
             \/ /\ domain # None /\ ~AudienceBound(r, domain)
                /\ Refuse(c, "AUDIENCE_MISMATCH")
             \/ /\ domain # None /\ AudienceBound(r, domain) /\ ~ReadsEndorsement(r)
                /\ Refuse(c, "BAD_ENDORSEMENT")
             \/ /\ domain # None /\ AudienceBound(r, domain) /\ ReadsEndorsement(r)
                /\ GoOn(c, [pc |-> "policy", root |-> root, cross |-> trust.cross])
  /\ UNCHANGED <<clock, trust, fileVars, cache, fetch, countVars>>

-----------------------------------------------------------------------------
(* CachedFileFetcher: an entry, also one that says there is no file, lasts  *)
(* CACHE_DURATION from when it was written.                                 *)
CachedForGood(i) == cache[i] # None
Cached(i) == cache[i] # None /\ clock - cache[i].writtenAt < CacheDuration

Fetched(c, entry) == GoOn(c, [pc |-> "resolve", file |-> entry.file])

CacheHit(c) ==
  /\ call[c].pc = "policy" /\ Cached(Client(c))
  /\ Fetched(c, cache[Client(c)])
  /\ UNCHANGED <<clock, trust, fileVars, cache, fetch, countVars>>

(* One thread loads a missing entry, S3FileFetcher reads the bucket, and    *)
(* the threads that want the same entry wait.                               *)
CacheMiss(c) ==
  /\ call[c].pc = "policy" /\ ~Cached(Client(c)) /\ fetch[Client(c)] = None
  /\ fetch' = [fetch EXCEPT ![Client(c)] =
                 [by |-> c, file |-> bucket[Client(c)], readAt |-> clock]]
  /\ UNCHANGED <<clock, trust, fileVars, cache, call, countVars>>

Fetches(c) ==
  call[c].pc = "policy" /\ fetch[Client(c)] # None /\ fetch[Client(c)].by = c

FetchDone(c) ==
  /\ Fetches(c)
  /\ LET f == fetch[Client(c)] IN
       /\ cache' = [cache EXCEPT ![Client(c)] =
                      [file |-> f.file, writtenAt |-> clock]]
       /\ Fetched(c, f)
  /\ fetch' = [fetch EXCEPT ![Client(c)] = None]
  /\ UNCHANGED <<clock, trust, fileVars, countVars>>

(* A FileLoadException is not cached.                                       *)
FetchFails(c) ==
  /\ Fetches(c)
  /\ fetch' = [fetch EXCEPT ![Client(c)] = None]
  /\ Refuse(c, "MISSING_POLICY")
  /\ UNCHANGED <<clock, trust, fileVars, cache, countVars>>

(* allowMetricsForClientId admits MAX_APPROVED_CLIENTS clients.             *)
AllowMetricsLatest(i) == {i}
AllowMetrics(i) ==
  IF Cardinality(approved) < MaxApproved THEN approved \cup {i} ELSE approved

(* One policy that lacks its reference values spoils the file.              *)
WellFormed(p) == p.references # {}
Parses(f) == f # None /\ f.parses /\ \A p \in f.policies : WellFormed(p)

MayResolve(c, p) == p.workload = Workload(call[c].req)

(* getPolicy: the file must parse, be the caller's, and hold the workload.  *)
ResolvePolicy(c) ==
  LET f == call[c].file IN
  /\ call[c].pc = "resolve"
  /\ \/ ~Parses(f) /\ Refuse(c, "MISSING_POLICY") /\ UNCHANGED approved
     \/ /\ Parses(f) /\ f.owner # Client(c)
        /\ Refuse(c, "POLICY_IDENTITY_MISMATCH") /\ UNCHANGED approved
     \/ /\ Parses(f) /\ f.owner = Client(c)
        /\ approved' = AllowMetrics(Client(c))
        /\ \/ /\ ~\E p \in f.policies : MayResolve(c, p)
              /\ Refuse(c, "MISSING_POLICY")
           \/ \E p \in f.policies :
                /\ MayResolve(c, p)
                /\ GoOn(c, [pc |-> "verify", policy |-> p])
  /\ UNCHANGED <<clock, trust, fileVars, cache, fetch, counted>>

-----------------------------------------------------------------------------
(* OakAttestationVerifier: the evidence proves a measurement the reference  *)
(* values allow, and binds the key of the signing request.                  *)
VerifyMeasurement(r, rv) == r.evidence.measurement \in rv.values
VerifyEvidence(r, rv) == VerifyMeasurement(r, rv) /\ r.evidence.key = r.key

Verified(c) ==
  \E rv \in call[c].policy.references :
    rv.type = call[c].req.evidence.type /\ VerifyEvidence(call[c].req, rv)

Window(c) ==
  LET e == call[c].req.evidence.endorsement IN
  [start |-> Max({clock, e.notBefore}),
   end   |-> Min({clock + call[c].policy.maxValidity, e.notAfter})]

ProperlyOrderedAny(w) == TRUE
ProperlyOrdered(w) == w.start <= w.end

Verify(c) ==
  /\ call[c].pc = "verify"
  /\ \/ ~Verified(c) /\ Refuse(c, "INVALID_ATTESTATION_TOKEN")
     \/ /\ Verified(c) /\ ~ProperlyOrdered(Window(c))
        /\ Refuse(c, "INCORRECT_CERTIFICATE_VALIDITY")
     \/ /\ Verified(c) /\ ProperlyOrdered(Window(c))
        /\ GoOn(c, [pc |-> "sign", window |-> Window(c)])
  /\ UNCHANGED <<clock, trust, fileVars, cache, fetch, countVars>>

(* What the call returns after the leaf: the root it signed with and the    *)
(* cross-signed certificates of the package it took that root from.         *)
CrossSignedNow(c) == trust.cross
CrossSigned(c) == call[c].cross

(* toSpiffeIdPublisher fails unless the publisher looks like role@domain.   *)
HasSpiffePublisher(p) == p.publisher

Count(i) == [counted EXCEPT ![i] = IF i \in approved THEN @ + 1 ELSE @]

(* signCsr, with the time of signing as the serial number, unless one of    *)
(* the modifiers fails, the issuer has no subject key identifier or the     *)
(* signature cannot be made.                                                *)
Sign(c) ==
  /\ call[c].pc = "sign"
  /\ \/ /\ ~HasSpiffePublisher(call[c].policy)
        /\ Refuse(c, "INVALID_ARGUMENT") /\ UNCHANGED counted
     \/ Refuse(c, "SIGNING_ERROR") /\ UNCHANGED counted
     \/ /\ HasSpiffePublisher(call[c].policy)
        /\ GoOn(c, [pc |-> "issued", status |-> "SUCCESS",
              cert |-> [issuer |-> call[c].root, cross |-> CrossSigned(c),
                        key |-> call[c].req.key, serial |-> clock,
                        notBefore |-> call[c].window.start,
                        notAfter |-> call[c].window.end]])
        /\ counted' = Count(Client(c))
  /\ UNCHANGED <<clock, trust, fileVars, cache, fetch, approved>>

Step(c) ==
  \/ TakeTrust(c) \/ CacheHit(c) \/ CacheMiss(c) \/ FetchDone(c) \/ FetchFails(c)
  \/ ResolvePolicy(c) \/ Verify(c) \/ Sign(c)

Next ==
  \/ Tick
  \/ \E p \in Packages : Reload(p)
  \/ \E i \in Clients, f \in Files \cup {None} : EditPolicies(i, f)
  \/ \E c \in Calls : (\E r \in Requests : Receive(c, r)) \/ Step(c)

Spec == Init /\ [][Next]_vars

-----------------------------------------------------------------------------
Issued == {c \in Calls : call[c].pc = "issued"}

(* A call has read no more than its place in issueCertificate says, a       *)
(* cached policy file is one operators wrote, and calls that wait for a     *)
(* fetch wait for one that some call still makes.                           *)
TypeOK ==
  /\ clock \in 0 .. MaxClock
  /\ trust \in Packages \cup {None}
  /\ bucket \in [Clients -> Files \cup {None}]
  /\ \A i \in Clients : cache[i] # None => cache[i].file \in Files \cup {None}
  /\ \A i \in Clients : fetch[i] # None => Fetches(fetch[i].by)
  /\ approved \subseteq Clients /\ Cardinality(approved) <= MaxApproved
  /\ \A c \in Calls :
       /\ call[c].pc \in {"policy", "resolve", "verify", "sign", "issued"} =>
            call[c].root # None
       /\ call[c].pc \in {"verify", "sign", "issued"} => call[c].policy # None
       /\ call[c].pc \in {"sign", "issued"} <=> call[c].window # None
       /\ call[c].pc \in {"issued", "refused"} <=> call[c].status # None

(* The chain a client gets comes from one trust package: the leaf is signed *)
(* by the root at its end, and the cross-signed certificates are those of a *)
(* package with that root, although MBS may replace the active package at   *)
(* any moment of the call.                                                  *)
ChainFromOnePackage ==
  \A c \in Issued : \E p \in Packages :
    call[c].cert.issuer \in p.roots /\ call[c].cert.cross = p.cross

(* An issued certificate is valid at some time, never outside the validity  *)
(* of the endorsement, and never longer after its signing than the policy   *)
(* allows.                                                                  *)
ValidityIsBounded ==
  \A c \in Issued :
    LET cert == call[c].cert
        e == call[c].req.evidence.endorsement
    IN  /\ e.notBefore <= cert.notBefore /\ cert.notBefore <= cert.notAfter
        /\ cert.notAfter <= e.notAfter
        /\ cert.notAfter <= cert.serial + call[c].policy.maxValidity

(* A certificate is issued only for a policy from the caller's own file, to *)
(* the key its evidence and its token bind, and for a measurement which     *)
(* that policy lists for that type of evidence.                             *)
IssuedByPolicy ==
  \A c \in Issued :
    LET r == call[c].req IN
    /\ call[c].file.owner = r.client /\ call[c].policy \in call[c].file.policies
    /\ call[c].cert.key = r.evidence.key
    /\ AudienceBound(r, call[c].cert.issuer.domain)
    /\ \E rv \in call[c].policy.references :
         rv.type = r.evidence.type /\ r.evidence.measurement \in rv.values

(* An edit of a client's policy file is in force CACHE_DURATION and one     *)
(* fetch later: from then on every call uses the file that is in the        *)
(* bucket, or finds that there is none.                                     *)
EditTakesEffect ==
  [][\A c \in Calls :
       ( /\ call[c].pc = "policy" /\ call'[c].pc = "resolve"
         /\ clock > edited[Client(c)] + CacheDuration + MaxLatency )
       => call'[c].file = bucket[Client(c)]]_vars

(* A client's counter counts all its certificates or, when the limit on     *)
(* counted clients had been reached before it came, none.                   *)
CountsAllOrNone ==
  \A i \in Clients :
    counted[i] = IF i \in approved THEN Cardinality({c \in Issued : Client(c) = i})
                                   ELSE 0

(* The state that calls share: of its type, with a client counted in all    *)
(* metrics or in none.                                                      *)
SharedInvariant == TypeOK /\ CountsAllOrNone
=============================================================================
