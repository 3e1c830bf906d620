------------------------- MODULE CertificatesConfig -------------------------
(***************************************************************************)
(* From the text of a certificates configuration to the domain object:     *)
(* CertificatesConfigMapper and the checks of CertificatesConfig.  A file  *)
(* is a record of what the textproto holds:                                *)
(*   self       key -> [epochId, period]                                   *)
(*   cross      key string -> [priv, pub, period]                          *)
(*   active, acceptable   sets of epoch ids                                *)
(*   activeCross          set of key strings                               *)
(* A key string is the sequence of its "_"-separated parts, each with the  *)
(* number it parses to and whether it is that number's canonical form.     *)
(* A field that is not set is Unset; a period is [notBefore, notAfter] of  *)
(* timestamps [seconds, nanos].                                            *)
(***************************************************************************)
EXTENDS Integers, Sequences

CONSTANTS
  Unset,       \* a proto field that is not set
  NoConfig,    \* InvalidCertificatesConfigException
  MinSeconds, MaxSeconds  \* the range of a timestamp

(* CrossSignedCertificateId.fromKeyString accepts a canonical pair of two   *)
(* different integers.                                                      *)
ParsesAsId(s) ==
  /\ Len(s) = 2
  /\ \A i \in 1 .. 2 : s[i].number # Unset /\ s[i].canonical
  /\ s[1].number # s[2].number
FromKeyString(s) == <<s[1].number, s[2].number>>

(* toInstant: whole seconds in the range of a certificate's dates.          *)
ValidInstant(t) ==
  /\ t # Unset
  /\ t.seconds \in MinSeconds .. MaxSeconds
  /\ t.nanos = 0

(* toDomain of a ValidityPeriod.                                            *)
ValidPeriod(p) ==
  /\ p # Unset
  /\ ValidInstant(p.notBefore) /\ ValidInstant(p.notAfter)
  /\ p.notBefore.seconds < p.notAfter.seconds

(* toDomain of a SelfSignedCertificate, filed under its own epoch.          *)
ValidSelf(key, c) == c.epochId = key /\ ValidPeriod(c.period)

(* toDomain of a CrossSignedCertificate, filed under its own id.            *)
ValidCross(key, c) ==
  /\ ParsesAsId(key)
  /\ <<c.priv, c.pub>> = FromKeyString(key)
  /\ ValidPeriod(c.period)

(* Both epochs of a cross-signed certificate are in the inventory.          *)
ValidReferences(file) ==
  \A k \in DOMAIN file.cross :
    {file.cross[k].priv, file.cross[k].pub} \subseteq DOMAIN file.self

(* The checks of the record's constructor on the three id lists.            *)
ValidSelections(file) ==
  /\ file.active # {}
  /\ file.active \subseteq DOMAIN file.self
  /\ file.acceptable \subseteq DOMAIN file.self
  /\ \A k \in file.activeCross : ParsesAsId(k)
  /\ {FromKeyString(k) : k \in file.activeCross}
       \subseteq {FromKeyString(k) : k \in DOMAIN file.cross}

(* CertificatesConfigMapper.fromTextProto.  The validity periods have been  *)
(* checked and are not kept: nothing here depends on them.                  *)
ToDomain(file) ==
  IF /\ file.parses
     /\ \A k \in DOMAIN file.self : ValidSelf(k, file.self[k])
     /\ \A k \in DOMAIN file.cross : ValidCross(k, file.cross[k])
     /\ ValidReferences(file)
     /\ ValidSelections(file)
  THEN [defined |-> DOMAIN file.self,
        cross |-> {FromKeyString(k) : k \in DOMAIN file.cross},
        active |-> file.active,
        activeCross |-> {FromKeyString(k) : k \in file.activeCross}]
  ELSE NoConfig
=============================================================================
