---------------------------- MODULE BackupSealer ----------------------------
(***************************************************************************)
(* How a root key becomes the four artifacts of a backup and comes back:   *)
(* SelfSignedBundleBackupGenerator, AwsAttestationCollector, AwsKmsClient  *)
(* with the Nitro Security Module, AeadSelfSignedBundleBackupSealer.  The  *)
(* artifacts of a stored backup may since have been damaged or restored    *)
(* one by one from another backup.                                         *)
(***************************************************************************)
EXTENDS Naturals, FiniteSets, FiniteSetsExt, BackupLayout

CONSTANTS
  Bundles,    \* the key pairs, each with its certificate and document
  Slots,      \* the epochs under which backups are stored
  Legacy,     \* the slots whose backup was sealed with no associated data
  Arns,       \* the KMS keys the program may be configured with
  Fds,        \* the descriptors open() can give; 0 if stdin is closed
  MaxFaults,  \* bound on failures of the NSM and of KMS
  MaxEdits,   \* bound on artifacts damaged or restored
  Damaged,    \* the content of a damaged artifact
  None

ASSUME SealerAssumption ==
  /\ Legacy \subseteq Slots /\ Cardinality(Slots) <= Cardinality(Bundles)
  /\ IsFiniteSet(Slots) /\ IsFiniteSet(Bundles)
  /\ Fds \subseteq Nat /\ Fds \ {0} # {}
  /\ MaxFaults \in Nat /\ MaxEdits \in Nat

VARIABLES
  slots,    \* the stored backups: the content of each artifact
  fresh,    \* the key pairs not generated yet
  arn,      \* kmsKeyArn
  pc,       \* the next step of the operation
  call,     \* what the NSM is opened for
  open,     \* the NSM descriptors that are open
  slot,     \* the backup the operation is about
  bundle,   \* the key pair being sealed
  dataKey,  \* the plaintext data key, named after the key pair it was for
  outcome,  \* the result of the last operation
  faults, edits

vars == <<slots, fresh, arn, pc, call, open, slot, bundle, dataKey, outcome,
          faults, edits>>

-----------------------------------------------------------------------------
(* buildAssociatedData.                                                     *)
BuildAssociatedData(cert, doc) == <<cert, doc>>

(* The key that KMS generates is wrapped under the KMS key; the private key *)
(* is encrypted under it with the associated data.                          *)
SealWith(b, k, key, data) ==
  [CERT |-> b, ATTESTATION_DOC |-> b,
   KMS_DATA_KEY |-> [arn |-> k, key |-> key],
   PRIVATE_KEY |-> [key |-> key, plain |-> b, data |-> data]]

(* seal.                                                                    *)
Sealed(b, k, key) == SealWith(b, k, key, BuildAssociatedData(b, b))

(* What the backups written before associated data look like.               *)
SealedLegacy(b, k, key) == SealWith(b, k, key, <<>>)

(* Mutant: no second attempt.                                               *)
DecryptsPrivateKeyStrict(backup, key) ==
  /\ backup.PRIVATE_KEY # Damaged /\ backup.PRIVATE_KEY.key = key
  /\ backup.PRIVATE_KEY.data =
       BuildAssociatedData(backup.CERT, backup.ATTESTATION_DOC)

(* decryptPrivateKey: with the associated data, or else with none.          *)
DecryptsPrivateKey(backup, key) ==
  /\ backup.PRIVATE_KEY # Damaged /\ backup.PRIVATE_KEY.key = key
  /\ backup.PRIVATE_KEY.data \in
       {BuildAssociatedData(backup.CERT, backup.ATTESTATION_DOC), <<>>}

(* Mutant: no consistency check.                                            *)
KeyUnchecked(cert, key) == TRUE

(* isKeyMatchingCertificate.                                                *)
IsKeyMatchingCertificate(cert, key) == cert = key

(* unseal, after kmsClient.decrypt: the certificate has to parse too.       *)
Unsealed(backup, key) ==
  IF /\ DecryptsPrivateKey(backup, key)
     /\ backup.CERT # Damaged
     /\ IsKeyMatchingCertificate(backup.CERT, backup.PRIVATE_KEY.plain)
  THEN [is |-> "bundle", cert |-> backup.CERT,
        key |-> backup.PRIVATE_KEY.plain, token |-> backup.ATTESTATION_DOC]
  ELSE [is |-> "BackupCorruptedException"]

-----------------------------------------------------------------------------
(* The backups of the legacy slots are there from before.                   *)
Init ==
  \E of \in {f \in [Legacy -> Bundles] :
               \A s, t \in Legacy : f[s] = f[t] => s = t}, k \in Arns :
    /\ slots = [s \in Slots |->
                  IF s \in Legacy THEN SealedLegacy(of[s], k, of[s]) ELSE None]
    /\ fresh = Bundles \ {of[s] : s \in Legacy}
    /\ arn = k /\ pc = "idle" /\ call = None /\ open = {}
    /\ slot = None /\ bundle = None /\ dataKey = None
    /\ outcome = [is |-> "none"] /\ faults = 0 /\ edits = 0

(* SelfSignedBundleBackupGenerator.generate starts with a new key pair and  *)
(* its certificate.                                                         *)
Generate(s, b) ==
  /\ pc = "idle" /\ slots[s] = None /\ b \in fresh
  /\ fresh' = fresh \ {b} /\ slot' = s /\ bundle' = b
  /\ pc' = "init" /\ call' = "collect" /\ outcome' = [is |-> "none"]
  /\ UNCHANGED <<slots, arn, open, dataKey, faults, edits>>

(* unseal starts with kmsClient.decrypt.                                    *)
Unseal(s) ==
  /\ pc = "idle" /\ slots[s] # None
  /\ slot' = s /\ pc' = "init" /\ call' = "decrypt"
  /\ outcome' = [is |-> "none"]
  /\ UNCHANGED <<slots, fresh, arn, open, bundle, dataKey, faults, edits>>

(* The exception that reaches the caller: generateDataKey and decrypt wrap  *)
(* every one in a KmsException, the collector wraps none.                   *)
Wrapped ==
  IF call = "collect" THEN "NitroSecurityModuleException" ELSE "KmsException"

Throw ==
  /\ pc' = "idle" /\ call' = None /\ bundle' = None /\ dataKey' = None
  /\ outcome' = [is |-> Wrapped]

Fault == faults < MaxFaults /\ faults' = faults + 1

(* NitroSecurityModule.init: open() gives the lowest descriptor.            *)
InitNsm ==
  /\ pc = "init" /\ Fds \ open # {}
  /\ open' = open \cup {Min(Fds \ open)} /\ pc' = "attest"
  /\ UNCHANGED <<slots, fresh, arn, call, slot, bundle, dataKey, outcome,
                 faults, edits>>

InitNsmFails ==
  /\ pc = "init" /\ Fault /\ Throw
  /\ UNCHANGED <<slots, fresh, arn, open, slot, edits>>

(* The close of the try-with-resources, after a result or an exception: it  *)
(* asks for fd > 0, so that descriptor 0 stays open.                        *)
CloseNsm == open' = {fd \in open : ~(fd > 0)}
CloseOnThrow == CloseNsm

(* getAttestationDocument: the document binds the public key of the bundle, *)
(* or the one of the key pair that the answer of KMS is encrypted to.       *)
GetAttestationDocument ==
  /\ pc = "attest"
  /\ IF call = "collect"
     THEN CloseNsm /\ call' = "generateDataKey" /\ pc' = "init"
     ELSE UNCHANGED <<open, call>> /\ pc' = "kms"
  /\ UNCHANGED <<slots, fresh, arn, slot, bundle, dataKey, outcome, faults,
                 edits>>

GetAttestationDocumentFails ==
  /\ pc = "attest" /\ Fault /\ Throw /\ CloseOnThrow
  /\ UNCHANGED <<slots, fresh, arn, slot, edits>>

(* generateDataKey: KMS answers with a new key, once encrypted to the       *)
(* recipient of the document and once wrapped.                              *)
GenerateDataKey ==
  /\ pc = "kms" /\ call = "generateDataKey"
  /\ CloseNsm /\ dataKey' = bundle /\ pc' = "seal" /\ call' = None
  /\ UNCHANGED <<slots, fresh, arn, slot, bundle, outcome, faults, edits>>

(* decrypt: KMS opens only what it wrapped under the key it is given.       *)
Wraps(blob) == blob # Damaged /\ blob.arn = arn

Decrypt ==
  /\ pc = "kms" /\ call = "decrypt" /\ Wraps(slots[slot].KMS_DATA_KEY)
  /\ CloseNsm /\ dataKey' = slots[slot].KMS_DATA_KEY.key
  /\ pc' = "unseal" /\ call' = None
  /\ UNCHANGED <<slots, fresh, arn, slot, bundle, outcome, faults, edits>>

DecryptRefused ==
  /\ pc = "kms" /\ call = "decrypt" /\ ~Wraps(slots[slot].KMS_DATA_KEY)
  /\ Throw /\ CloseOnThrow
  /\ UNCHANGED <<slots, fresh, arn, slot, faults, edits>>

(* The request fails, or the answer lacks ciphertextForRecipient.           *)
KmsFails ==
  /\ pc = "kms" /\ Fault /\ Throw /\ CloseOnThrow
  /\ UNCHANGED <<slots, fresh, arn, slot, edits>>

(* seal encrypts; the caller stores the backup.                             *)
Seal ==
  /\ pc = "seal"
  /\ slots' = [slots EXCEPT ![slot] = Sealed(bundle, arn, dataKey)]
  /\ outcome' = [is |-> "backup"]
  /\ pc' = "idle" /\ bundle' = None /\ dataKey' = None
  /\ UNCHANGED <<fresh, arn, call, open, slot, faults, edits>>

Open ==
  /\ pc = "unseal"
  /\ outcome' = Unsealed(slots[slot], dataKey)
  /\ pc' = "idle" /\ dataKey' = None
  /\ UNCHANGED <<slots, fresh, arn, call, open, slot, bundle, faults, edits>>

(* An operator's change to the buckets, or to the configuration.            *)
Edit(s, a, content) ==
  /\ pc = "idle" /\ edits < MaxEdits /\ slots[s] # None
  /\ slots' = [slots EXCEPT ![s][a] = content] /\ edits' = edits + 1
  /\ outcome' = [is |-> "none"]
  /\ UNCHANGED <<fresh, arn, pc, call, open, slot, bundle, dataKey, faults>>

Damage(s, a) == Edit(s, a, Damaged)
RestoreFrom(s, t, a) == slots[t] # None /\ Edit(s, a, slots[t][a])

Reconfigure(k) ==
  /\ pc = "idle" /\ edits < MaxEdits /\ k # arn
  /\ arn' = k /\ edits' = edits + 1 /\ outcome' = [is |-> "none"]
  /\ UNCHANGED <<slots, fresh, pc, call, open, slot, bundle, dataKey, faults>>

Next ==
  \/ \E s \in Slots : Unseal(s) \/ \E b \in Bundles : Generate(s, b)
  \/ InitNsm \/ InitNsmFails
  \/ GetAttestationDocument \/ GetAttestationDocumentFails
  \/ GenerateDataKey \/ Decrypt \/ DecryptRefused \/ KmsFails \/ Seal \/ Open
  \/ \E s \in Slots, a \in Elements :
       Damage(s, a) \/ \E t \in Slots : RestoreFrom(s, t, a)
  \/ \E k \in Arns : Reconfigure(k)

Spec == Init /\ [][Next]_vars

-----------------------------------------------------------------------------
(* Types of the variables.                                                  *)
TypeOK ==
  /\ \A s \in Slots : slots[s] # None => DOMAIN slots[s] = Elements
  /\ fresh \subseteq Bundles /\ arn \in Arns /\ slot \in Slots \cup {None}
  /\ pc \in {"idle", "init", "attest", "kms", "seal", "unseal"}
  /\ call \in {"collect", "generateDataKey", "decrypt", None}
  /\ open \subseteq Fds
  /\ bundle \in Bundles \cup {None} /\ dataKey \in Bundles \cup {None}
  /\ faults \in 0 .. MaxFaults /\ edits \in 0 .. MaxEdits

(* The four artifacts came out of one seal, under the configured KMS key.   *)
Whole(s) ==
  \E b \in Bundles : slots[s] \in {Sealed(b, arn, b), SealedLegacy(b, arn, b)}

(* Whatever has happened to the stored artifacts, unseal returns a private  *)
(* key only with the certificate generated for it, and, unless the key was  *)
(* sealed before associated data was introduced, only with the attestation  *)
(* document collected for it.                                               *)
UnsealedTogether ==
  outcome.is = "bundle" =>
    /\ outcome.key = outcome.cert
    /\ slots[slot].PRIVATE_KEY.data # <<>> => outcome.token = outcome.cert

(* unseal blames the backup only when the artifacts are not those of one    *)
(* seal: a whole backup, of either format, is never reported as corrupted,  *)
(* and one that is read back with no failure of the NSM or KMS is returned. *)
WholeIsNotBlamed ==
  \/ outcome.is = "BackupCorruptedException"
  \/ (outcome.is = "KmsException" /\ faults = 0)
  => ~Whole(slot)

(* The NSM descriptor is released by close() on every path out of           *)
(* generateDataKey, decrypt and collectBoundToPubkey, however many calls    *)
(* came before.  Descriptor 0, which only a process without stdin can get,  *)
(* is the exception, and stays open once: open() does not give it again.    *)
DescriptorReleased == pc \in {"idle", "init"} => open \subseteq {0}

(* The state between and within the calls of the sealer: of its type, with  *)
(* a private key only beside what it was sealed with, and without a         *)
(* descriptor that a finished call has left open.                           *)
SealerInvariant == TypeOK /\ UnsealedTogether /\ DescriptorReleased
=============================================================================
