----------------------------- MODULE MCMembers -----------------------------
(***************************************************************************)
(* Instance of VerifyPipeline for the members of a proof: evidence refs    *)
(* and digests, relationships of every kind, and references to other       *)
(* proofs.                                                                 *)
(***************************************************************************)
EXTENDS VerifyPipeline

CONSTANTS k1, kX, a1, a2, a9, d1, d9, e1, e2, free, r1, r2, r3, p1, p2, p3

Claim(type, target, digest) ==
  [type |-> type, target |-> target, new |-> {}, at_time |-> {}, digest |-> digest,
   denies |-> {}, body |-> "b"]

Content(id, evidence_ref, claim) ==
  [id |-> id, issuer |-> k1, subject |-> "s", issued_at |-> 1, expires_at |-> {},
   evidence_ref |-> evidence_ref, decodes |-> TRUE, claim |-> claim]

Revoke(target) ==
  [issuer |-> k1, sign1 |-> SignedBy(k1, -19, Content("st", {}, Claim("revoke", {target}, {})))]

Entry(a, good) == [content |-> a, sign1 |-> [SignedBy(k1, -19, a) EXCEPT !.shape =
                                               IF good THEN "OK" ELSE "MALFORMED"]]

Plain(id) == Content(id, {}, Claim("t", {}, {}))

\* A proof that names itself cannot carry the id its members hash to.
Proof(atts, evd, edges, refs, refs_canonical) ==
  [decodes |-> TRUE, schema_ok |-> TRUE, canonical |-> TRUE, stored_id |-> p1,
   recomputed_id |-> IF p1 \in refs THEN p2 ELSE p1, events |-> {e1, e2}, attestations |-> atts, evidence |-> evd,
   relationships |-> edges, referenced_proofs |-> refs, refs_canonical |-> refs_canonical]

Limits == [max_edges |-> 3, max_nodes |-> 5, max_depth |-> 2, max_referenced_proofs |-> 2,
           max_status_objects |-> 2, max_trusted_issuers |-> 1, max_revocation_authorities |-> 1]

Ctx(limits, revoked, acyclic, extra) ==
  [verified_at |-> 2, clock_skew_leeway |-> 1, trusted_issuers |-> {}, allow_remote |-> FALSE,
   allowed_algs |-> [ed25519 |-> TRUE, esp256 |-> FALSE, allow_deprecated |-> FALSE],
   limits |-> limits, status_objects |-> <<Revoke(revoked)>>, revocation_authorities |-> {},
   revocations_known_at |-> {2}, report_all_failures |-> FALSE, extra_grounded |-> extra,
   require_acyclic_provenance |-> acyclic, require_status_feed |-> TRUE]

Evidence1(ref) == { [id |-> d1, attestation_ref |-> ref, digest |-> "h1"] }

\* Evidence: refs that resolve or dangle, digests that bind or do not, backing
\* attestations that are active, revoked, unverified or missing.
\* (An attestation and its evidence cannot name each other: ids are hashes.)
EvidenceInputs ==
  { i \in {"evidence"} \X {{}, {d1}, {d9}, {e1}} \X {{}, {"malformed"}, {"h1"}, {"h2"}}
                      \X {{}, {a1}, {a9}} \X {a1, a9} \X BOOLEAN :
      i[2] = {d1} => i[4] # {a1} }

Edge(id, from, to, type, ev, at) ==
  [id |-> id, v |-> 1, from |-> from, to |-> to, rel_type |-> type,
   evidence_ref |-> ev, attestation_ref |-> at]

GraphProof(edges) ==
  Proof({Entry(Plain(a1), TRUE), Entry(Plain(a2), TRUE)}, Evidence1({}), edges, {}, TRUE)

\* One edge, with every endpoint, type, backing and version.
SingleEdges ==
  {"one edge"} \X {e1, a1, a9, free, EmptyId} \X {e1, a2, free}
               \X {"OWNS", "ISSUED", "EQUIVALENT", "REFERENCES"}
               \X {{}, {d1}, {d9}, {e1}} \X {{}, {a1}} \X {1, 2}

\* Two or three edges: duplicates, branches, chains and cycles.
Ends == { x \in {a1, a2, e1} \X {a1, a2, e1} : x[1] # x[2] }
\* (ids are hashes: the same edge twice has one id)
Types == {"CREATED", "SUPERSEDES", "REFERENCES", "CONTRADICTS"}

EdgePairs == {"two edges"} \X Ends \X Ends \X Types \X Types \X BOOLEAN

Triple(ty, last) ==
  <<Edge(r1, e1, a1, ty, {d1}, {}), Edge(r2, a1, a2, ty, {d1}, {}), Edge(r3, a2, last, ty, {d1}, {})>>

EdgeTriples ==
  {"three edges"} \X {"CREATED", "SUPERSEDES", "REFERENCES", "EQUIVALENT"} \X {e1, e2}
                  \X {2, 3} \X {4, 5} \X BOOLEAN

\* References to other proofs, to itself, too many, or out of order.
LinkInputs == {"links"} \X (SUBSET {p1, p2, p3}) \X BOOLEAN

MCInputs == EvidenceInputs \cup SingleEdges \cup EdgePairs \cup EdgeTriples \cup LinkInputs

MCProofOf(i) ==
  CASE i[1] = "evidence" ->
         Proof({Entry(Content(a1, i[2], Claim("t", {}, i[3])), i[6])}, Evidence1(i[4]), <<>>, {}, TRUE)
    [] i[1] = "one edge" ->
         GraphProof(<<[Edge(r1, i[2], i[3], i[4], i[5], i[6]) EXCEPT !.v = i[7]]>>)
    [] i[1] = "two edges" ->
         GraphProof(<<Edge(r1, i[2][1], i[2][2], i[4], {d1}, {}),
                      Edge(IF i[2] = i[3] /\ i[4] = i[5] THEN r1 ELSE r2,
                           i[3][1], i[3][2], i[5], {d1}, {})>>)
    [] i[1] = "three edges" -> GraphProof(Triple(i[2], i[3]))
    [] i[1] = "links" -> Proof({}, {}, <<>>, i[2], i[3])

MCCtxOf(i) ==
  CASE i[1] = "evidence" -> Ctx(Limits, i[5], FALSE, {})
    [] i[1] = "one edge" -> Ctx(Limits, a9, FALSE, {"ISSUED"})
    [] i[1] = "two edges" -> Ctx(Limits, a9, i[6], {})
    [] i[1] = "three edges" ->
         Ctx([Limits EXCEPT !.max_edges = i[4], !.max_nodes = i[5]], a9, i[6], {})
    [] i[1] = "links" -> Ctx(Limits, a9, FALSE, {})
=============================================================================
