---------------------------- MODULE VerifyStages ----------------------------
(***************************************************************************)
(* What each stage of proof-verify's pipeline computes, as operators.      *)
(* VerifyPipeline runs them one after the other.                           *)
(*                                                                         *)
(* A proof p is what the bytes decode to:                                  *)
(*   decodes, schema_ok, canonical : do PARSE, SCHEMA, CANONICAL succeed   *)
(*   stored_id, recomputed_id      : the id it carries and the id its      *)
(*                                   members hash to                       *)
(*   events                        : set of event ids                      *)
(*   attestations                  : set of [content, sign1]               *)
(*   evidence                      : set of [id, attestation_ref, digest]  *)
(*   relationships                 : sequence of edge records (see Graph)  *)
(*   referenced_proofs, refs_canonical : the linked ids, and whether they  *)
(*                                   are sorted, distinct and well-shaped  *)
(* An attestation content is                                               *)
(*   [id, issuer, subject, issued_at, expires_at, evidence_ref, claim,     *)
(*    decodes]                                                             *)
(* and a claim [type, target, new, at_time, digest, denies, body].         *)
(* Optional fields are sets of at most one element.  A hash is injective:  *)
(* members with the same id are the same member.                           *)
(***************************************************************************)
EXTENDS Cose, Graph

CONSTANTS
  U64Max,   \* the largest u64: clock arithmetic saturates here
  DidRefs   \* identities written did:...

ASSUME U64MaxAssumption == U64Max \in Nat

\* Mutant: plain u64 addition, which wraps around in a release build.
SatAdd_Wraps(a, b) == (a + b) % (U64Max + 1)

SatAdd(a, b) == IF a + b > U64Max THEN U64Max ELSE a + b
SatSub(a, b) == IF a < b THEN 0 ELSE a - b

\* CheckRecord, its message left out.  A record that is ok has no code, and a
\* failed one always has: code "OK" stands for ok.  Notes are left out.
Check(stage, object, code) == [stage |-> stage, object |-> object, code |-> code]
Ok(stage, object) == Check(stage, object, "OK")
Fail(stage, object, code) == Check(stage, object, code)

TheProof == <<"proof", "p">>
Att(id) == <<"att", id>>
Evd(id) == <<"evd", id>>
StatusObject(i) == <<"status", i>>

CRYPTO_STAGES == {"PARSE", "SCHEMA", "CANONICAL", "IDENTIFIERS", "SIGNATURES", "KEYS"}
\* Mutant: ineffective status objects count against the evidence.
EVIDENCE_STAGES_WithStatus ==
  {"TIME", "REVOCATION", "EVIDENCE", "RELATIONSHIPS", "GRAPH", "STATUS"}

EVIDENCE_STAGES == {"TIME", "REVOCATION", "EVIDENCE", "RELATIONSHIPS", "GRAPH"}

stage_valid(checks, stages) == \A k \in checks : k.stage \in stages => k.code = "OK"

-----------------------------------------------------------------------------
(* Claims *)

claim_kind(a) ==
  CASE a.claim.type = "revoke" -> "Revoke"
    [] a.claim.type = "supersede" -> "Supersede"
    [] a.claim.type = "withdraw" -> "Withdraw"
    [] a.claim.type = "compromise" -> "Compromise"
    [] OTHER -> "Statement"

IsStatement(a) == claim_kind(a) = "Statement"
Statements(verified) == { a \in verified : IsStatement(a) }

\* revocation_target, supersession_pair, withdrawal_target, compromise_mark:
\* does the status claim name what it acts on, with an id of the right kind?
WellFormedStatus(a) ==
  /\ a.claim.target # {}
  /\ CASE claim_kind(a) = "Revoke" -> a.claim.target \subseteq AttIds
       [] claim_kind(a) = "Supersede" ->
            /\ a.claim.target \cup a.claim.new \subseteq AttIds
            /\ a.claim.new # {} /\ a.claim.new # a.claim.target
       [] claim_kind(a) = "Withdraw" -> \A t \in a.claim.target : Shaped(t)
       [] OTHER ->
            /\ \A t \in a.claim.target : t \in KeyRefs \cup DidRefs \/ (Shaped(t) /\ t \notin PrfIds)
            /\ a.claim.at_time # {}

-----------------------------------------------------------------------------
(* SIGNATURES and KEYS *)

\* The issuer is derived from the header; a header that fits no key shape
\* gets a placeholder that is no key.
ExpectedIssuer(s) ==
  IF \/ s.alg \in {COSE_ED25519, COSE_ESP256}
     \/ s.alg = -8 /\ s.kid \in Ed25519Keys
     \/ s.alg = -7 /\ s.kid \in P256Keys
  THEN s.kid ELSE OtherKid

\* Mutant: the authenticated payload is not compared with the embedded content.
AttestationCode_Unbound(e, c) ==
  VerifyAttestation(e.sign1, ExpectedIssuer(e.sign1), c.allowed_algs)

AttestationCode(e, c) ==
  LET code == VerifyAttestation(e.sign1, ExpectedIssuer(e.sign1), c.allowed_algs)
  IN IF code = "OK" /\ e.sign1.payload # e.content THEN "SIGNATURE_INVALID" ELSE code

KeyCodes == {"ALGORITHM_CONFUSION", "UNKNOWN_ALGORITHM", "DEPRECATED_ALGORITHM",
             "UNEXPECTED_HEADER_PARAM"}

\* An accepted attestation passes both stages; one record stands for the two.
SignatureChecks(p, c) ==
  { LET code == AttestationCode(e, c)
    IN Check(IF code \in KeyCodes THEN "KEYS" ELSE "SIGNATURES", Att(e.content.id), code)
    : e \in p.attestations }

\* Mutant: collects the authenticated payload before the comparison.
Verified_Payload(p, c) ==
  { e.sign1.payload : e \in { x \in p.attestations :
      VerifySign1(x.sign1, ExpectedIssuer(x.sign1), c.allowed_algs) = "OK" } }

Verified(p, c) ==
  { e.content : e \in { x \in p.attestations : AttestationCode(x, c) = "OK" } }

-----------------------------------------------------------------------------
(* TIME *)

time_validity(a, c) ==
  /\ c.verified_at # 0
  /\ a.issued_at <= SatAdd(c.verified_at, c.clock_skew_leeway)
  /\ \A e \in a.expires_at : c.verified_at <= SatAdd(e, c.clock_skew_leeway)

TimeFailed(verified, c) == { a \in Statements(verified) : ~time_validity(a, c) }

TimeChecks(verified, c) ==
  { Check("TIME", Att(a.id), IF time_validity(a, c) THEN "OK" ELSE "EXPIRED")
    : a \in Statements(verified) }

-----------------------------------------------------------------------------
(* Status effects: collection, authority, knowledge cutoff *)

\* verify_status_object against the signer stated beside the object.
StatusObjectCode(s, c) ==
  LET code == VerifyAttestation(s.sign1, s.issuer, c.allowed_algs)
  IN IF code # "OK" THEN code
     ELSE IF IsStatement(s.sign1.payload) \/ ~WellFormedStatus(s.sign1.payload)
          THEN "SCHEMA_VIOLATION"
     ELSE "OK"

StatusEffect(a, object) ==
  [target |-> CHOOSE t \in a.claim.target : TRUE, kind |-> claim_kind(a),
   issuer |-> a.issuer, issued_at |-> a.issued_at, object |-> object,
   at_time |-> IF claim_kind(a) = "Compromise" THEN a.claim.at_time ELSE {}]

EmbeddedStatus(verified) == verified \ Statements(verified)

Effects(verified, c) ==
  { StatusEffect(a, Att(a.id)) :
      a \in { x \in EmbeddedStatus(verified) : WellFormedStatus(x) } }
  \cup
  { StatusEffect(c.status_objects[i].sign1.payload, StatusObject(i)) :
      i \in { j \in DOMAIN c.status_objects :
                StatusObjectCode(c.status_objects[j], c) = "OK" } }

CollectChecks(verified, c) ==
  { Fail("STATUS", Att(a.id), "SCHEMA_VIOLATION") :
      a \in { x \in EmbeddedStatus(verified) : ~WellFormedStatus(x) } }
  \cup
  { Fail("STATUS", StatusObject(i), StatusObjectCode(c.status_objects[i], c)) :
      i \in { j \in DOMAIN c.status_objects :
                StatusObjectCode(c.status_objects[j], c) # "OK" } }

\* Who may touch what.  An explicit authority may do anything; otherwise an
\* identity reports its own compromise, an issuer ends its own statement, and
\* an issuer withdraws its own attestation or evidence bound to one.
Empowered(f, p, verified, c) ==
  \/ f.issuer \in c.revocation_authorities
  \/ f.kind = "Compromise" /\ f.issuer = f.target
  \/ /\ f.kind \notin {"Compromise", "Withdraw"}
     /\ \E a \in Statements(verified) : a.id = f.target /\ a.issuer = f.issuer
  \/ /\ f.kind = "Withdraw"
     /\ \/ \E a \in verified : a.id = f.target /\ a.issuer = f.issuer
        \/ /\ \A a \in verified : a.id # f.target
           /\ \E ev \in p.evidence, a \in verified :
                ev.id = f.target /\ a.id \in ev.attestation_ref /\ a.issuer = f.issuer

\* Knowledge cutoff: strict, no skew.
Timely(f, c) == c.verified_at # 0 /\ f.issued_at <= c.verified_at

Applied(effects, p, verified, c) ==
  { f \in effects : Empowered(f, p, verified, c) /\ Timely(f, c) }

ApplyChecks(effects, p, verified, c) ==
  { Fail("STATUS", f.object, "UNAUTHORIZED_STATUS") :
      f \in { g \in effects : ~Empowered(g, p, verified, c) } }
  \cup
  { Fail("STATUS", f.object, "EXPIRED") : f \in { g \in effects : ~Timely(g, c) } }

Withdrawn(applied) == { f.target : f \in { g \in applied : g.kind = "Withdraw" } }

-----------------------------------------------------------------------------
(* REVOCATION: the lifecycle of every verified statement *)

\* Freshness of the revocation knowledge.  Every status object that came in
\* counts towards a non-empty feed, whether or not it was accepted.
RevocationStale(verified, c) ==
  \/ c.revocations_known_at = {}
  \/ \E t \in c.revocations_known_at :
       SatSub(c.verified_at, t) > c.clock_skew_leeway
  \/ /\ c.require_status_feed
     /\ EmbeddedStatus(verified) = {} /\ c.status_objects = <<>>

Targeted(applied, kind, id) == \E f \in applied : f.kind = kind /\ f.target = id

\* Compromise taints by issuer or by id, from its instant on.
CompromisedStatement(a, applied) ==
  \E f \in applied : /\ f.kind = "Compromise" /\ f.target \in {a.issuer, a.id}
                     /\ \A at \in f.at_time : a.issued_at >= at

\* Mutant: supersession takes precedence over revocation.
LifecycleStatus_SupersededFirst(a, applied, time_failed, stale) ==
  IF CompromisedStatement(a, applied) THEN "COMPROMISED"
  ELSE IF Targeted(applied, "Supersede", a.id) THEN "SUPERSEDED"
  ELSE IF Targeted(applied, "Revoke", a.id) THEN "REVOKED"
  ELSE IF a \in time_failed THEN "EXPIRED"
  ELSE IF stale THEN "UNKNOWN"
  ELSE "ACTIVE"

LifecycleStatus(a, applied, time_failed, stale) ==
  IF CompromisedStatement(a, applied) THEN "COMPROMISED"
  ELSE IF Targeted(applied, "Revoke", a.id) THEN "REVOKED"
  ELSE IF Targeted(applied, "Supersede", a.id) THEN "SUPERSEDED"
  ELSE IF a \in time_failed THEN "EXPIRED"
  ELSE IF stale THEN "UNKNOWN"
  ELSE "ACTIVE"

\* The code a status is recorded as failing with; "OK" where it is no failure.
StatusCode(status) ==
  CASE status = "COMPROMISED" -> "COMPROMISED"
    [] status = "REVOKED" -> "REVOKED"
    [] status = "WITHDRAWN" -> "WITHDRAWN"
    [] status = "UNKNOWN" -> "REVOCATION_UNKNOWN"
    [] OTHER -> "OK"

Lifecycle(verified, applied, time_failed, stale) ==
  [a \in Statements(verified) |-> LifecycleStatus(a, applied, time_failed, stale)]

RevocationChecks(lifecycle) ==
  { Check("REVOCATION", Att(a.id), StatusCode(lifecycle[a])) : a \in DOMAIN lifecycle }

-----------------------------------------------------------------------------
(* EVIDENCE *)

NodeSet(p) ==
  p.events \cup { e.content.id : e \in p.attestations } \cup { ev.id : ev \in p.evidence }

DanglingEvidenceRef(p) ==
  \E e \in p.attestations : ~(e.content.evidence_ref \subseteq NodeSet(p))

\* Mutant: any evidence item with the digest will do.
DigestCode_AnyItem(a, p) ==
  IF "malformed" \in a.claim.digest THEN "SCHEMA_VIOLATION"
  ELSE IF \E ev \in p.evidence : {ev.digest} = a.claim.digest THEN "OK"
  ELSE "ID_MISMATCH"

\* The opt-in binding of a statement to the digest of its evidence: checked
\* for the statements whose claim carries a digest.
DigestCode(a, p) ==
  IF "malformed" \in a.claim.digest THEN "SCHEMA_VIOLATION"
  ELSE IF ~(\E ev \in p.evidence : {ev.id} = a.evidence_ref) THEN "DANGLING_REFERENCE"
  ELSE IF \E ev \in p.evidence : {ev.id} = a.evidence_ref /\ {ev.digest} = a.claim.digest
       THEN "OK"
  ELSE "ID_MISMATCH"

\* The lifecycle of the attestation that backs an evidence item: empty when
\* there is none, or none that is a verified statement of this proof.
Backing(ev, lifecycle) ==
  { lifecycle[a] : a \in { x \in DOMAIN lifecycle : {x.id} = ev.attestation_ref } }

\* EvidenceStatus, with the two reasons for UNKNOWN told apart: a backing
\* whose state is unknown fails, an absent backing ("UNBACKED") does not.
EvidenceStatusOf(ev, applied, lifecycle) ==
  IF Targeted(applied, "Compromise", ev.id) THEN "COMPROMISED"
  ELSE IF Targeted(applied, "Withdraw", ev.id) THEN "WITHDRAWN"
  ELSE IF Backing(ev, lifecycle) # {}
       THEN LET status == CHOOSE st \in Backing(ev, lifecycle) : TRUE
            IN IF status = "ACTIVE" THEN "AVAILABLE" ELSE status
  ELSE IF ev.attestation_ref = {} THEN "AVAILABLE"
  ELSE "UNBACKED"

EvidenceStatus(p, applied, lifecycle) ==
  [ev \in p.evidence |-> EvidenceStatusOf(ev, applied, lifecycle)]

\* The summary record is written only when nothing went wrong in this stage.
EvidenceChecks(p, lifecycle, evidence_status) ==
  LET dangling == IF DanglingEvidenceRef(p)
                  THEN { Fail("EVIDENCE", TheProof, "DANGLING_REFERENCE") } ELSE {}
      digests == { Check("EVIDENCE", Att(a.id), DigestCode(a, p)) :
                     a \in { x \in DOMAIN lifecycle : x.claim.digest # {} } }
      items == { Check("EVIDENCE", Evd(ev.id), StatusCode(evidence_status[ev])) :
                   ev \in DOMAIN evidence_status }
      found == dangling \cup digests \cup items
  IN found \cup IF \A k \in found : k.code = "OK" THEN { Ok("EVIDENCE", TheProof) } ELSE {}

-----------------------------------------------------------------------------
(* RELATIONSHIPS, GRAPH and composition linkage *)

GraphChecks(p, c) ==
  LET code == ValidateGraph(p.relationships, NodeSet(p), c.limits, c.extra_grounded)
      acyclic(excluded) == AcyclicCode(p.relationships, NodeSet(p), excluded)
  IN IF code # "OK"
     THEN { Fail(IF code \in {"RELATIONSHIP_UNGROUNDED", "DANGLING_REFERENCE"}
                 THEN "RELATIONSHIPS" ELSE "GRAPH", TheProof, code) }
     ELSE { Ok("RELATIONSHIPS", TheProof), Ok("GRAPH", TheProof),
            Check("GRAPH", TheProof, acyclic(DerivationExcluded)) }
          \cup IF c.require_acyclic_provenance
               THEN { Check("GRAPH", TheProof, acyclic(ProvenanceExcluded)) } ELSE {}

\* A proof without references has nothing to check.
LinkageChecks(p, c) ==
  LET fail(defect, code) == IF defect THEN { Fail("GRAPH", TheProof, code) } ELSE {}
  IN fail(Cardinality(p.referenced_proofs) > c.limits.max_referenced_proofs, "LIMIT_EXCEEDED")
     \cup fail(p.referenced_proofs # {} /\ ~p.refs_canonical, "SCHEMA_VIOLATION")
     \cup fail(p.stored_id \in p.referenced_proofs, "CYCLE_DETECTED")

\* What SCHEMA already demands of the references.
LinkageShape(p, c) ==
  /\ Cardinality(p.referenced_proofs) <= c.limits.max_referenced_proofs
  /\ p.referenced_proofs # {} => p.refs_canonical

-----------------------------------------------------------------------------
(* Divergence: oppositions are recorded for policy, and never fail a check. *)

Topic(a) == <<a.claim.type, <<"subject", a.subject>>>>

Conflicts(p, verified) ==
  LET st == Statements(verified)
      group(a) == { b \in st : Topic(b) = Topic(a) }
      deniers == { a \in st : a.claim.denies # {} }
      denied(a) == { b \in st : {b.id} = a.claim.denies }
      anchor(a) == IF denied(a) # {} THEN Topic(CHOOSE b \in denied(a) : TRUE)
                   ELSE <<a.claim.type, <<"external", CHOOSE t \in a.claim.denies : TRUE>>>>
      opposed(t) == { a \in deniers : anchor(a) = t }
      contradicts(a, b) ==
        \E i \in DOMAIN p.relationships :
          /\ p.relationships[i].rel_type = "CONTRADICTS"
          /\ p.relationships[i].from = a.id /\ p.relationships[i].to = b.id
      conflict(kind, topic, ids) == [kind |-> kind, topic |-> topic, ids |-> ids]
  IN { conflict("DivergentClaims", Topic(a), { b.id : b \in group(a) }) :
         a \in { x \in st : \E b \in group(x) : b.claim # x.claim } }
     \cup { conflict("Denial", t, UNION { {a.id} \cup { b.id : b \in denied(a) } :
                                       a \in opposed(t) }) :
              t \in { anchor(a) : a \in deniers } }
     \cup { conflict("Contradiction", Topic(x[2]), { x[1].id, x[2].id }) :
              x \in { y \in st \X st : contradicts(y[1], y[2]) } }

-----------------------------------------------------------------------------
\* Caller misuse: verify_proof returns an error and no report.  The code counts
\* the entries of lists; the contexts considered list nobody twice.
CallerMisuse(c) ==
  \/ c.allow_remote
  \/ Len(c.status_objects) > c.limits.max_status_objects
  \/ Cardinality(c.trusted_issuers) > c.limits.max_trusted_issuers
  \/ Cardinality(c.revocation_authorities) > c.limits.max_revocation_authorities
=============================================================================
