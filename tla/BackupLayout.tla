---------------------------- MODULE BackupLayout ----------------------------
(***************************************************************************)
(* The artifacts that back up one root key in S3, the bucket each one is   *)
(* in, the order in which they are written and read, and the state a       *)
(* listing shows (S3BackupWriter, S3BackupReader, S3BackupStorage).        *)
(***************************************************************************)
EXTENDS Naturals, Sequences

(* The objects a bucket may hold for an epoch, by bucket.                   *)
PublicElements == {"CERT", "ATTESTATION_DOC"}
PrivateElements == {"KMS_DATA_KEY", "PRIVATE_KEY"}
Elements == PublicElements \cup PrivateElements

(* writeSelfSignedBundleBackup puts the certificate last, as the sentinel.  *)
WriteOrder ==
  <<"PRIVATE_KEY", "KMS_DATA_KEY", "ATTESTATION_DOC", "CERT">>

(* The kinds of handle.                                                     *)
HandleStates == {"Empty", "Complete", "Incomplete", "PartiallyWritten"}

(* The handle a set of present artifacts gives; the reader classifies the   *)
(* artifacts its GETs found in the same way.                                *)
HandleState(present) ==
  IF present = {} THEN "Empty"
  ELSE IF present = Elements THEN "Complete"
  ELSE IF "CERT" \in present THEN "Incomplete"
  ELSE "PartiallyWritten"
=============================================================================
