---------------------------- MODULE MCSignatures ----------------------------
(***************************************************************************)
(* Instance of VerifyPipeline for the structural and signature stages: one *)
(* attestation with every combination of header, key, signature, payload   *)
(* and algorithm policy, in envelopes that do or do not decode, validate,  *)
(* re-encode identically and carry the right id.                           *)
(***************************************************************************)
EXTENDS VerifyPipeline

CONSTANTS kE, kP, kX, a1, a2

\* The id is a hash of the content: another issuer, another id.
Content(issuer, decodes) ==
  [id |-> IF issuer = kE THEN a1 ELSE a2, issuer |-> issuer, subject |-> "s", issued_at |-> 1, expires_at |-> {},
   evidence_ref |-> {}, decodes |-> decodes,
   claim |-> [type |-> "t", target |-> {}, new |-> {}, at_time |-> {}, digest |-> {},
              denies |-> {}, body |-> "b"]]

Algs == {-19, -9, -8, -7, -35, -5}

\* Header, signer and payload vary; the signature may be over other content.
Object(alg, kid, by, issuer, over, dec) ==
  Sign1("OK", alg, kid, Content(issuer, dec), Signature(by, alg, Content(over, dec)))

Honest == SignedBy(kE, -19, Content(kE, TRUE))

Entry(issuer, s) == [content |-> Content(issuer, TRUE), sign1 |-> s]

Proof(atts, decodes, schema_ok, canonical, id_ok) ==
  [decodes |-> decodes, schema_ok |-> schema_ok, canonical |-> canonical,
   stored_id |-> "p1", recomputed_id |-> IF id_ok THEN "p1" ELSE "p2",
   events |-> {}, attestations |-> atts, evidence |-> {}, relationships |-> <<>>,
   referenced_proofs |-> {}, refs_canonical |-> TRUE]

Limits == [max_edges |-> 2, max_nodes |-> 3, max_depth |-> 2, max_referenced_proofs |-> 1,
           max_status_objects |-> 1, max_trusted_issuers |-> 1, max_revocation_authorities |-> 1]

Ctx(allowed, report_all, remote) ==
  [verified_at |-> 2, clock_skew_leeway |-> 0, trusted_issuers |-> {}, allow_remote |-> remote,
   allowed_algs |-> allowed, limits |-> Limits, status_objects |-> <<>>,
   revocation_authorities |-> {}, revocations_known_at |-> {2},
   report_all_failures |-> report_all, extra_grounded |-> {},
   require_acyclic_provenance |-> FALSE, require_status_feed |-> FALSE]

Strict == [ed25519 |-> TRUE, esp256 |-> FALSE, allow_deprecated |-> FALSE]

\* Every object under every algorithm policy; every kind of envelope.
MCInputs ==
  ({"object"} \X Algs \X {kE, kP, kX} \X {kE, kP} \X {kE, kP} \X {kE, kP} \X BOOLEAN
              \X {kE, kP} \X AllowedAlgs)
  \cup
  ({"envelope"} \X {"OK", "UNEXPECTED_HEADER_PARAM", "MALFORMED"}
                \X BOOLEAN \X BOOLEAN \X BOOLEAN \X BOOLEAN \X BOOLEAN \X BOOLEAN)

MCProofOf(i) ==
  IF i[1] = "object"
  THEN Proof({Entry(i[8], Object(i[2], i[3], i[4], i[5], i[6], i[7]))}, TRUE, TRUE, TRUE, TRUE)
  ELSE Proof({Entry(kE, [Honest EXCEPT !.shape = i[2]])}, i[3], i[4], i[5], i[6])

MCCtxOf(i) ==
  IF i[1] = "object" THEN Ctx(i[9], FALSE, FALSE) ELSE Ctx(Strict, i[7], i[8])
=============================================================================
