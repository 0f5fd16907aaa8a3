------------------------------ MODULE EthImage ------------------------------
(* The .eth image format: ethereal-tools/tools/ethimg.py (pack, verify) and *)
(* ethereal-runtime/security/capcheck.py (the capability declaration an     *)
(* image carries).  An image is a value:                                    *)
(*                                                                          *)
(*   [name, target, decl, digest, sig, members]                             *)
(*                                                                          *)
(* members maps a member name to its bytes, decl is the manifest's          *)
(* name -> digest table, digest the manifest digest and sig the Ed25519     *)
(* signature over it (or NoSig).  Bytes are abstract: the .frames member is *)
(* its sequence of words, capabilities.yaml the document it parses to.      *)
(* SHA-256 is collision free here: a digest is a tagged copy of what it is  *)
(* the digest of.                                                           *)
EXTENDS Integers, Sequences, FiniteSets

NoSig == [algo |-> "none", by |-> "nobody", over |-> <<>>]
CapsYaml == "capabilities.yaml"
OptionalMembers == {CapsYaml, "resources.yaml"}
FramesOf(target) == target      \* targets/<target>.frames

-----------------------------------------------------------------------------
(* capcheck: a document is [wf, io, services].  wf says that the text is    *)
(* UTF-8 YAML, a mapping with exactly the two top-level keys, both lists,   *)
(* whose entries are mappings with exactly the required keys of the         *)
(* required types; the entries themselves are kept.                         *)

IO_DIRS    == {"in", "out", "inout"}
SVC_ACCESS == {"r", "w", "rw"}
CAP_DECL_BITS == 32
ServiceIndex == [spi0 |-> 0, i2c0 |-> 1, uart0 |-> 2, pwm0 |-> 3, qei0 |-> 4]

\* no key of the list occurs twice
Distinct(keys) == \A i, j \in DOMAIN keys : keys[i] = keys[j] => i = j

IoEntryOk(e)  == e.group >= 0 /\ e.dir \in IO_DIRS
SvcEntryOk(e) == e.name # "" /\ e.access \in SVC_ACCESS

ValidateSchema(caps) ==
  /\ \A i \in DOMAIN caps.io : IoEntryOk(caps.io[i])
  /\ \A i \in DOMAIN caps.services : SvcEntryOk(caps.services[i])
  /\ Distinct([i \in DOMAIN caps.io |-> caps.io[i].group])
  /\ Distinct([i \in DOMAIN caps.services |-> caps.services[i].name])

LoadCapabilities(doc) == doc.wf /\ ValidateSchema(doc)

\* stage 2: every declared pin group and service is in the inventory
ValidateGrantable(caps, io, svc) ==
  /\ \A i \in DOMAIN caps.io :
       caps.io[i].group < CAP_DECL_BITS /\ caps.io[i].group \in io
  /\ \A i \in DOMAIN caps.services :
       /\ caps.services[i].name \in DOMAIN ServiceIndex
       /\ ServiceIndex[caps.services[i].name] \in svc

\* the bits of CAP_DECL_IO and CAP_DECL_SVC
ToEmriBitmaps(caps) ==
  [io  |-> {caps.io[i].group : i \in DOMAIN caps.io},
   svc |-> {ServiceIndex[caps.services[i].name] : i \in DOMAIN caps.services}]

EmptyCaps == [wf |-> TRUE, io |-> <<>>, services |-> <<>>]

-----------------------------------------------------------------------------
(* ethimg                                                                   *)

Sha256(b) == <<"sha256", b>>

\* over the manifest without its signature and its own digest
ManifestDigest(e) == <<"sha256", e.name, e.target, e.decl>>

SignDigest(key, dig) == [algo |-> "ed25519", by |-> key, over |-> dig]
VerifySig(key, dig, sig) == sig.by = key /\ sig.over = dig

CheckCapabilities(members) ==
  CapsYaml \in DOMAIN members => LoadCapabilities(members[CapsYaml])

\* pack: frames maps each architecture of the source tree to its words, yaml
\* the optional members the tree holds; the others get the defaults.  The
\* result is a set: empty when packing is refused.
Pack(name, frames, yaml, target, key) ==
  LET members == [n \in DOMAIN frames \cup OptionalMembers |->
                    IF n \in DOMAIN yaml THEN yaml[n]
                    ELSE IF n \in OptionalMembers THEN EmptyCaps
                    ELSE frames[n]]
      bare    == [name |-> name, target |-> target,
                  decl |-> [n \in DOMAIN members |-> Sha256(members[n])],
                  digest |-> <<>>, sig |-> NoSig, members |-> members]
      man     == [bare EXCEPT !.digest = ManifestDigest(bare)]
  IN  IF DOMAIN frames = {} \/ ~CheckCapabilities(members) THEN {}
      ELSE {IF key = "none" THEN man
            ELSE [man EXCEPT !.sig = SignDigest(key, man.digest)]}

\* steps 1-3 of verify, which load_image repeats
Integrity(e) ==
  /\ DOMAIN e.members = DOMAIN e.decl
  /\ \A n \in DOMAIN e.decl : Sha256(e.members[n]) = e.decl[n]
  /\ ManifestDigest(e) = e.digest

\* the verdict of verify: "ok" or the error it raises
Verify(e, keys, allowUnsigned) ==
  IF ~Integrity(e) THEN "integrity"
  ELSE IF ~CheckCapabilities(e.members) THEN "schema"
  ELSE IF e.sig = NoSig THEN IF allowUnsigned THEN "ok" ELSE "signature"
  ELSE IF e.sig.algo = "ed25519"
          /\ \E k \in keys : VerifySig(k, e.digest, e.sig)
       THEN "ok" ELSE "signature"

\* what load_image (efp_client.py) checks before it stages an image: unlike
\* verify it takes one key or none, lets allow_unsigned waive the check of a
\* signature it has no key for, and demands grantability
LoadImage(e, pk, allowUnsigned, io, svc) ==
  IF ~Integrity(e) THEN "integrity"
  ELSE IF FramesOf(e.target) \notin DOMAIN e.members
          \/ e.members[FramesOf(e.target)] = <<>> THEN "frames"
  ELSE IF ~CheckCapabilities(e.members) THEN "schema"
  ELSE IF e.sig = NoSig /\ ~allowUnsigned THEN "signature"
  ELSE IF e.sig # NoSig /\ e.sig.algo # "ed25519" THEN "algo"
  ELSE IF e.sig # NoSig /\ pk = "none" /\ ~allowUnsigned THEN "signature"
  ELSE IF e.sig # NoSig /\ pk # "none" /\ ~VerifySig(pk, e.digest, e.sig)
       THEN "signature"
  ELSE IF CapsYaml \in DOMAIN e.members
          /\ ~ValidateGrantable(e.members[CapsYaml], io, svc) THEN "denied"
  ELSE "ok"
=============================================================================
