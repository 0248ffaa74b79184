-------------------------------- MODULE Cose --------------------------------
(***************************************************************************)
(* COSE_Sign1 verification and the attestation check built on it           *)
(* (proof-crypto: cose.rs, alg.rs, build.rs, keys.rs).                     *)
(*                                                                         *)
(* Cryptography is symbolic.  A signature is the record of what was signed *)
(* and by whom; it verifies exactly when it was made by the key that the   *)
(* header names, over the header and the payload that are presented.  A    *)
(* key and its keyref are one value: Ed25519Keys are the 32-byte keys,     *)
(* P256Keys the 64-byte ones, and OtherKid a kid of any other length.      *)
(*                                                                         *)
(* An operator that models a Rust function returning Result yields the     *)
(* wire string of the error code, or "OK".                                 *)
(***************************************************************************)
EXTENDS Integers

CONSTANTS Ed25519Keys, P256Keys, OtherKid

ASSUME KeysAssumption ==
  /\ Ed25519Keys \cap P256Keys = {}
  /\ OtherKid \notin Ed25519Keys \cup P256Keys

KeyRefs == Ed25519Keys \cup P256Keys

COSE_ED25519 == -19
COSE_ESP256 == -9
DEPRECATED == {-8, -7, -35, -36}

\* AllowedAlgs: the verifier's algorithm policy.
AllowedAlgs == [ed25519: BOOLEAN, esp256: BOOLEAN, allow_deprecated: BOOLEAN]

is_allowed(allowed, alg) ==
  \/ alg = COSE_ED25519 /\ allowed.ed25519
  \/ alg = COSE_ESP256 /\ allowed.esp256

\* The bytes of a COSE_Sign1.  `shape` is "OK" or the code of the first
\* structural defect (outer array, header map, canonical form, size limits).
Sign1(shape, alg, kid, payload, sig) ==
  [shape |-> shape, alg |-> alg, kid |-> kid, payload |-> payload, sig |-> sig]

Signature(key, alg, payload) == [by |-> key, alg |-> alg, over |-> payload]

\* A well-formed object honestly signed by `key`.
SignedBy(key, alg, payload) ==
  Sign1("OK", alg, key, payload, Signature(key, alg, payload))

\* The symbolic signature check: made by the key in the header, over this
\* header and this payload.
Genuine(s) == s.sig = Signature(s.kid, s.alg, s.payload)

ParseSign1(s) ==
  IF s.shape # "OK" THEN s.shape
  ELSE IF \/ s.alg = COSE_ED25519 /\ s.kid \notin Ed25519Keys
          \/ s.alg = COSE_ESP256 /\ s.kid \notin P256Keys
       THEN "ALGORITHM_CONFUSION"
  ELSE "OK"

\* A deprecated id maps onto a supported operation only under historical
\* policy, and only for the key shape of that operation.
HistoricalOp(s, allowed) ==
  IF ~allowed.allow_deprecated THEN "DEPRECATED_ALGORITHM"
  ELSE IF s.alg = -8 /\ s.kid \in Ed25519Keys THEN "OK"
  ELSE IF s.alg = -7
       THEN IF s.kid \in P256Keys /\ allowed.esp256 THEN "OK"
            ELSE "UNEXPECTED_HEADER_PARAM"
  ELSE "DEPRECATED_ALGORITHM"

AlgorithmPolicy(s, allowed) ==
  IF s.alg \in DEPRECATED THEN HistoricalOp(s, allowed)
  ELSE IF is_allowed(allowed, s.alg) THEN "OK"
  ELSE IF s.alg \in {COSE_ED25519, COSE_ESP256} THEN "UNEXPECTED_HEADER_PARAM"
  ELSE "UNKNOWN_ALGORITHM"

\* The keyrefs that parse for the operation this kid is verified with.
KeysOfKind(kid) == IF kid \in Ed25519Keys THEN Ed25519Keys ELSE P256Keys

VerifySign1(s, expected, allowed) ==
  IF ParseSign1(s) # "OK" THEN ParseSign1(s)
  ELSE IF AlgorithmPolicy(s, allowed) # "OK" THEN AlgorithmPolicy(s, allowed)
  ELSE IF expected \notin KeysOfKind(s.kid) THEN "SCHEMA_VIOLATION"
  ELSE IF s.kid = expected /\ Genuine(s) THEN "OK"
  ELSE "SIGNATURE_INVALID"

\* Verify a signed attestation: the signature, then the payload as an
\* attestation (content.decodes stands for canonical form and schema), then
\* that the authenticated issuer is the expected one.
VerifyAttestation(s, expected, allowed) ==
  IF VerifySign1(s, expected, allowed) # "OK"
  THEN VerifySign1(s, expected, allowed)
  ELSE IF ~s.payload.decodes THEN "SCHEMA_VIOLATION"
  ELSE IF s.payload.issuer # expected THEN "SIGNATURE_INVALID"
  ELSE "OK"
=============================================================================
