------------------------------ MODULE MCStatus ------------------------------
(***************************************************************************)
(* Instance of VerifyPipeline for lifecycle: a statement, an evidence item *)
(* backed by it, and feeds of up to two status objects of                  *)
(* every kind, by the issuer, by a stranger and by an authority, issued    *)
(* before and after the verification time.                                 *)
(***************************************************************************)
EXTENDS VerifyPipeline

CONSTANTS k1, k2, k3, kX, a1, a2, a3, d1, did1

Claim(type, target, new, at_time) ==
  [type |-> type, target |-> target, new |-> new, at_time |-> at_time, digest |-> {},
   denies |-> {}, body |-> "b"]

Content(id, issuer, issued_at, expires_at, claim) ==
  [id |-> id, issuer |-> issuer, subject |-> "s", issued_at |-> issued_at,
   expires_at |-> expires_at, evidence_ref |-> {}, decodes |-> TRUE, claim |-> claim]

Statement(id, issuer, issued_at, expires_at) ==
  Content(id, issuer, issued_at, expires_at, Claim("t", {}, {}, {}))

\* What a status claim can say here; the last one names no target.
Claims ==
  { Claim("revoke", {a1}, {}, {}), Claim("supersede", {a1}, {a2}, {}),
    Claim("withdraw", {d1}, {}, {}), Claim("withdraw", {a1}, {}, {}),
    Claim("compromise", {k1}, {}, {1}), Claim("compromise", {k1}, {}, {2}),
    Claim("compromise", {d1}, {}, {2}), Claim("compromise", {did1}, {}, {1}),
    Claim("revoke", {}, {}, {}) }

Supplied(c, issuer, issued_at) ==
  [issuer |-> issuer, sign1 |-> SignedBy(issuer, -19, Content("st", issuer, issued_at, {}, c))]

\* A supplied object is described by its claim, signer and time; the last
\* description is of an object whose stated signer is not its signer.
Descriptions ==
  (Claims \X {k1, k2, k3} \X {1, 3}) \cup { <<Claim("revoke", {a1}, {}, {}), k1, 1, k3>> }

Object(x) == IF Len(x) = 4 THEN [Supplied(x[1], x[2], x[3]) EXCEPT !.issuer = x[4]]
             ELSE Supplied(x[1], x[2], x[3])

Entry(a) == [content |-> a, sign1 |-> SignedBy(a.issuer, -19, a)]

Proof(expires_at, embedded) ==
  [decodes |-> TRUE, schema_ok |-> TRUE, canonical |-> TRUE, stored_id |-> "p1",
   recomputed_id |-> "p1", events |-> {},
   attestations |-> { Entry(a) : a \in { Statement(a1, k1, 1, expires_at) } \cup embedded },
   evidence |-> { [id |-> d1, attestation_ref |-> {a1}, digest |-> "h1"] },
   relationships |-> <<>>, referenced_proofs |-> {}, refs_canonical |-> TRUE]

Limits == [max_edges |-> 2, max_nodes |-> 4, max_depth |-> 2, max_referenced_proofs |-> 1,
           max_status_objects |-> 2, max_trusted_issuers |-> 1, max_revocation_authorities |-> 1]

Ctx(feed, verified_at, known_at, required) ==
  [verified_at |-> verified_at, clock_skew_leeway |-> 1, trusted_issuers |-> {},
   allow_remote |-> FALSE,
   allowed_algs |-> [ed25519 |-> TRUE, esp256 |-> FALSE, allow_deprecated |-> FALSE],
   limits |-> Limits, status_objects |-> feed, revocation_authorities |-> {k3},
   revocations_known_at |-> known_at, report_all_failures |-> FALSE, extra_grounded |-> {},
   require_acyclic_provenance |-> FALSE, require_status_feed |-> required]

Feeds(n) == UNION { [1..m -> Descriptions] : m \in 0..n }

Embedded(c, issuer) == { Content(a3, issuer, 1, {}, c) }

\* Pairs of status objects with fresh knowledge; single ones, and ones inside
\* the proof, at every clock and freshness; and one feed over the limit.
MCInputs ==
  ({"pairs"} \X Feeds(2))
  \cup ({"single"} \X (1..5) \X Feeds(1) \X {0, 2, 3} \X {{}, {1}, {3}} \X BOOLEAN)
  \cup ({"three"} \X Claims)

MCProofOf(i) ==
  CASE i[1] = "single" /\ i[2] = 2 -> Proof({1}, {})
    [] i[1] = "single" /\ i[2] = 3 -> Proof({}, Embedded(Claim("withdraw", {d1}, {}, {}), k1))
    [] i[1] = "single" /\ i[2] = 4 -> Proof({}, Embedded(Claim("revoke", {}, {}, {}), k1))
    [] i[1] = "single" /\ i[2] = 5 -> Proof({}, Embedded(Claim("supersede", {a1}, {a2}, {}), k2))
    [] OTHER -> Proof({}, {})

MCCtxOf(i) ==
  LET feed(f) == [n \in DOMAIN f |-> Object(f[n])]
  IN CASE i[1] = "pairs" -> Ctx(feed(i[2]), 2, {2}, TRUE)
       [] i[1] = "single" -> Ctx(feed(i[3]), i[4], i[5], i[6])
       [] i[1] = "three" -> Ctx(feed([n \in 1..3 |-> <<i[2], k1, 1>>]), 2, {2}, TRUE)
=============================================================================
