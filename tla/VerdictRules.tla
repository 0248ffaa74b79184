---------------------------- MODULE VerdictRules ----------------------------
(***************************************************************************)
(* When a proof deserves to be called valid, said without stages, check    *)
(* records or early exits.  VerifyPipeline is shown to answer accordingly. *)
(***************************************************************************)
EXTENDS VerifyStages

\* Is the algorithm of this header permitted, for this kind of key?
AlgPermitted(s, c) ==
  LET al == c.allowed_algs
  IN \/ s.alg = -19 /\ s.kid \in Ed25519Keys /\ al.ed25519
     \/ s.alg = -9 /\ s.kid \in P256Keys /\ al.esp256
     \/ s.alg = -8 /\ s.kid \in Ed25519Keys /\ al.allow_deprecated
     \/ s.alg = -7 /\ s.kid \in P256Keys /\ al.allow_deprecated /\ al.esp256

\* The signed object s is `issuer` saying s.payload.
SaidBy(s, issuer, c) ==
  /\ s.shape = "OK" /\ s.kid = issuer /\ AlgPermitted(s, c)
  /\ s.sig = Signature(issuer, s.alg, s.payload)
  /\ s.payload.decodes /\ s.payload.issuer = issuer

Authentic(e, c) == SaidBy(e.sign1, e.content.issuer, c) /\ e.sign1.payload = e.content

AuthenticContents(p, c) ==
  { a \in { e.content : e \in p.attestations } :
      \E e \in p.attestations : e.content = a /\ Authentic(e, c) }

\* Who speaks for what an act touches: an identity for itself, the issuer for a
\* statement, and for withdrawal the issuer of the attestation, or of the one
\* that evidence is bound to.
Owners(f, p, c) ==
  LET issuers(S) == { a.issuer : a \in S }
      named(ids) == { a \in AuthenticContents(p, c) : a.id \in ids }
      bound == UNION { ev.attestation_ref : ev \in { x \in p.evidence : x.id = f.target } }
  IN CASE f.kind = "Compromise" -> {f.target}
       [] f.kind = "Withdraw" ->
            issuers(named(IF named({f.target}) # {} THEN {f.target} ELSE bound))
       [] OTHER -> issuers(Statements(named({f.target})))

Entitled(f, p, c) == f.issuer \in Owners(f, p, c) \cup c.revocation_authorities

\* The status acts in force: authentic, well-formed, by someone entitled to
\* them, and issued no later than the verification time.
ActsInForce(p, c) ==
  { f \in { StatusEffect(a, Att(a.id)) :
              a \in { x \in AuthenticContents(p, c) : ~IsStatement(x) /\ WellFormedStatus(x) } }
          \cup
          { StatusEffect(c.status_objects[i].sign1.payload, StatusObject(i)) :
              i \in { j \in DOMAIN c.status_objects :
                        /\ SaidBy(c.status_objects[j].sign1, c.status_objects[j].issuer, c)
                        /\ ~IsStatement(c.status_objects[j].sign1.payload)
                        /\ WellFormedStatus(c.status_objects[j].sign1.payload) } } :
      /\ Entitled(f, p, c)
      /\ 0 < c.verified_at /\ f.issued_at <= c.verified_at }

\* Is the revocation knowledge recent, and was a feed consulted if required?
KnowledgeFresh(p, c) ==
  /\ \E t \in c.revocations_known_at : c.verified_at <= t + c.clock_skew_leeway
  /\ c.require_status_feed =>
       \/ c.status_objects # <<>>
       \/ \E a \in AuthenticContents(p, c) : ~IsStatement(a)

Tainted(a, p, c) ==
  \E f \in ActsInForce(p, c) :
    /\ f.kind = "Compromise" /\ (f.target = a.issuer \/ f.target = a.id)
    /\ \A at \in f.at_time : a.issued_at >= at

ActedOn(kind, id, p, c) == \E f \in ActsInForce(p, c) : f.kind = kind /\ f.target = id

\* Issued by now and not expired, give or take the leeway; never without a
\* clock.  No arithmetic saturates here.
InValidityWindow(a, c) ==
  /\ 0 < c.verified_at
  /\ a.issued_at <= c.verified_at + c.clock_skew_leeway
  /\ \A e \in a.expires_at : c.verified_at <= e + c.clock_skew_leeway

\* A statement can be relied on at the verification time.
StatementHolds(a, p, c) ==
  /\ InValidityWindow(a, c)
  /\ ~Tainted(a, p, c)
  /\ ~ActedOn("Revoke", a.id, p, c)
  /\ ActedOn("Supersede", a.id, p, c) \/ KnowledgeFresh(p, c)
  /\ \A d \in a.claim.digest :
       \E ev \in p.evidence : {ev.id} = a.evidence_ref /\ ev.digest = d

EvidenceItemHolds(ev, p, c) ==
  ~ActedOn("Compromise", ev.id, p, c) /\ ~ActedOn("Withdraw", ev.id, p, c)

GraphHolds(p, c) ==
  /\ ValidateGraph(p.relationships, NodeSet(p), c.limits, c.extra_grounded) = "OK"
  /\ ~HasCycle(NodeSet(p),
               Pairs(p.relationships, NodeSet(p),
                     IF c.require_acyclic_provenance THEN ProvenanceExcluded
                                                     ELSE DerivationExcluded))
  /\ p.stored_id \notin p.referenced_proofs

WellFormedProof(p, c) == p.decodes /\ p.schema_ok /\ LinkageShape(p, c)

CryptoHolds(p, c) ==
  /\ WellFormedProof(p, c) /\ p.canonical
  /\ p.recomputed_id = p.stored_id
  /\ \A e \in p.attestations : Authentic(e, c)

EvidenceHolds(p, c) ==
  /\ WellFormedProof(p, c) /\ p.canonical
  /\ \A a \in AuthenticContents(p, c) : IsStatement(a) => StatementHolds(a, p, c)
  /\ \A e \in p.attestations : e.content.evidence_ref \subseteq NodeSet(p)
  /\ \A ev \in p.evidence : EvidenceItemHolds(ev, p, c)
  /\ GraphHolds(p, c)
=============================================================================
