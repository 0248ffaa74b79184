------------------------ MODULE VerifyPipelineProofs ------------------------
(***************************************************************************)
(* The pipeline of verify_proof gives the verdict of ProofVerdict, for     *)
(* every proof and every verification context.                             *)
(*                                                                         *)
(* First come facts about the stages alone: an attestation passes          *)
(* SIGNATURES iff it is authentic, the effects that apply are the acts in  *)
(* force, and what each stage records fails exactly for the reasons the    *)
(* abstract verdict names.  The inductive invariant then says of every     *)
(* control point which data are set, and which reasons the validity of the *)
(* records so far stands for.                                              *)
(***************************************************************************)
EXTENDS VerifyPipeline, FiniteSetTheorems, TLAPS

-----------------------------------------------------------------------------
(* Signatures *)

\* A signed object passes verification against an issuer iff the issuer said
\* it, whenever the issuer is the one the header names.
LEMMA VerifyIsSaidBy ==
  ASSUME NEW s, NEW issuer, NEW c
  PROVE  VerifyAttestation(s, issuer, c.allowed_algs) = "OK" <=> SaidBy(s, issuer, c)
<1> DEFINE al == c.allowed_algs
<1>1. ParseSign1(s) = "OK" <=>
        /\ s.shape = "OK"
        /\ s.alg = -19 => s.kid \in Ed25519Keys
        /\ s.alg = -9 => s.kid \in P256Keys
  BY DEF ParseSign1, COSE_ED25519, COSE_ESP256
<1>2. AlgorithmPolicy(s, al) = "OK" <=>
        \/ s.alg = -19 /\ al.ed25519
        \/ s.alg = -9 /\ al.esp256
        \/ s.alg = -8 /\ s.kid \in Ed25519Keys /\ al.allow_deprecated
        \/ s.alg = -7 /\ s.kid \in P256Keys /\ al.allow_deprecated /\ al.esp256
  BY DEF AlgorithmPolicy, HistoricalOp, DEPRECATED, is_allowed, COSE_ED25519, COSE_ESP256
<1>3. VerifySign1(s, issuer, al) = "OK" <=>
        /\ ParseSign1(s) = "OK" /\ AlgorithmPolicy(s, al) = "OK"
        /\ s.kid = issuer /\ Genuine(s) /\ issuer \in KeysOfKind(s.kid)
  BY DEF VerifySign1
<1>4. VerifyAttestation(s, issuer, al) = "OK" <=>
        VerifySign1(s, issuer, al) = "OK" /\ s.payload.decodes /\ s.payload.issuer = issuer
  BY DEF VerifyAttestation
<1>5. (ParseSign1(s) = "OK" /\ AlgorithmPolicy(s, al) = "OK")
        <=> (s.shape = "OK" /\ AlgPermitted(s, c))
  BY <1>1, <1>2 DEF AlgPermitted
<1>6. AlgPermitted(s, c) => s.kid \in KeysOfKind(s.kid)
  BY DEF AlgPermitted, KeysOfKind
<1> QED
  BY <1>3, <1>4, <1>5, <1>6 DEF SaidBy, Genuine

\* An attestation passes SIGNATURES and KEYS iff its issuer said it.
LEMMA AcceptedIsAuthentic ==
  ASSUME NEW e, NEW c
  PROVE  AttestationCode(e, c) = "OK" <=> Authentic(e, c)
<1> DEFINE s == e.sign1
           x == ExpectedIssuer(e.sign1)
<1>1. AttestationCode(e, c) = "OK" <=>
        VerifyAttestation(s, x, c.allowed_algs) = "OK" /\ s.payload = e.content
  BY DEF AttestationCode
<1>2. VerifyAttestation(s, x, c.allowed_algs) = "OK" <=> SaidBy(s, x, c)
  BY VerifyIsSaidBy
<1>3. AlgPermitted(s, c) => x = s.kid
  BY DEF AlgPermitted, ExpectedIssuer, COSE_ED25519, COSE_ESP256
<1>4. \A i : SaidBy(s, i, c) => i = s.payload.issuer /\ i = s.kid /\ AlgPermitted(s, c)
  BY DEF SaidBy
<1> HIDE DEF s, x
<1>5. SaidBy(s, x, c) /\ s.payload = e.content <=> SaidBy(s, e.content.issuer, c) /\ s.payload = e.content
  BY <1>3, <1>4
<1> QED
  BY <1>1, <1>2, <1>5 DEF Authentic, s

\* What SIGNATURES hands on is what the rules call authentic.
LEMMA VerifiedIsAuthentic ==
  ASSUME NEW p, NEW c
  PROVE  Verified(p, c) = AuthenticContents(p, c)
BY AcceptedIsAuthentic DEF Verified, AuthenticContents

-----------------------------------------------------------------------------
(* Status acts *)

\* A status object is accepted just when the rules accept it.
LEMMA AcceptedStatusObject ==
  ASSUME NEW s, NEW c
  PROVE  StatusObjectCode(s, c) = "OK" <=>
           /\ SaidBy(s.sign1, s.issuer, c)
           /\ ~IsStatement(s.sign1.payload) /\ WellFormedStatus(s.sign1.payload)
BY VerifyIsSaidBy DEF StatusObjectCode

\* The authority that apply_effects demands is the one the rules grant.
LEMMA EmpoweredIsEntitled ==
  ASSUME NEW f, NEW p, NEW c
  PROVE  Empowered(f, p, AuthenticContents(p, c), c) <=> Entitled(f, p, c)
<1> DEFINE V == AuthenticContents(p, c)
           named(ids) == { a \in V : a.id \in ids }
           bound == UNION { ev.attestation_ref : ev \in { x \in p.evidence : x.id = f.target } }
           issuers(S) == { a.issuer : a \in S }
           own(ids) == \E a \in V : a.id \in ids /\ a.issuer = f.issuer
<1> HIDE DEF V
<1>1. \A ids : f.issuer \in issuers(named(ids)) <=> own(ids)
  OBVIOUS
<1>2. f.issuer \in issuers(Statements(named({f.target})))
        <=> \E a \in Statements(V) : a.id = f.target /\ a.issuer = f.issuer
  BY DEF Statements
<1>3. named({f.target}) = {} <=> \A a \in V : a.id # f.target
  OBVIOUS
<1>4. own({f.target}) <=> \E a \in V : a.id = f.target /\ a.issuer = f.issuer
  OBVIOUS
<1>5. own(bound) <=> \E ev \in p.evidence, a \in V :
                       ev.id = f.target /\ a.id \in ev.attestation_ref /\ a.issuer = f.issuer
  OBVIOUS
<1>6. CASE f.kind = "Compromise"
  BY <1>6 DEF Empowered, Entitled, Owners
<1>7. CASE f.kind = "Withdraw"
  <2>1. Owners(f, p, c) = issuers(named(IF named({f.target}) # {} THEN {f.target} ELSE bound))
    BY <1>7 DEF Owners, V
  <2>2. Entitled(f, p, c) <=> \/ f.issuer \in Owners(f, p, c)
                              \/ f.issuer \in c.revocation_authorities
    BY DEF Entitled
  <2>3. Empowered(f, p, V, c) <=>
          \/ f.issuer \in c.revocation_authorities
          \/ own({f.target})
          \/ named({f.target}) = {} /\ own(bound)
    BY <1>3, <1>4, <1>5, <1>7, Zenon DEF Empowered
  <2>4. named({f.target}) = {} => ~own({f.target})
    BY <1>3, <1>4
  <2>5. CASE named({f.target}) # {}
    <3>1. f.issuer \in Owners(f, p, c) <=> own({f.target})
      BY <1>1, <2>1, <2>5
    <3> QED
      BY <2>2, <2>3, <2>5, <3>1, Zenon DEF V
  <2>6. CASE named({f.target}) = {}
    <3>1. f.issuer \in Owners(f, p, c) <=> own(bound)
      BY <1>1, <2>1, <2>6, Zenon
    <3> QED
      BY <2>2, <2>3, <2>4, <2>6, <3>1, Zenon DEF V
  <2> QED
    BY <2>5, <2>6
<1>8. CASE f.kind \notin {"Compromise", "Withdraw"}
  <2>1. Owners(f, p, c) = issuers(Statements(named({f.target})))
    BY <1>8 DEF Owners, V
  <2>2. Entitled(f, p, c) <=> \/ f.issuer \in Owners(f, p, c)
                              \/ f.issuer \in c.revocation_authorities
    BY DEF Entitled
  <2> QED
    BY <1>2, <1>8, <2>1, <2>2 DEF Empowered, V
<1> QED
  BY <1>6, <1>7, <1>8

\* The effects that apply are the acts in force.
LEMMA AppliedIsInForce ==
  ASSUME NEW p, NEW c, Question(p, c)
  PROVE  LET V == AuthenticContents(p, c)
         IN Applied(Effects(V, c), p, V, c) = ActsInForce(p, c)
<1> DEFINE V == AuthenticContents(p, c)
           feed == c.status_objects
<1>1. { x \in EmbeddedStatus(V) : WellFormedStatus(x) }
        = { x \in V : ~IsStatement(x) /\ WellFormedStatus(x) }
  BY DEF EmbeddedStatus, Statements
<1>2. { j \in DOMAIN feed : StatusObjectCode(feed[j], c) = "OK" }
        = { j \in DOMAIN feed :
              /\ SaidBy(feed[j].sign1, feed[j].issuer, c)
              /\ ~IsStatement(feed[j].sign1.payload)
              /\ WellFormedStatus(feed[j].sign1.payload) }
  BY AcceptedStatusObject
<1>3. \A f : Timely(f, c) <=> 0 < c.verified_at /\ f.issued_at <= c.verified_at
  BY DEF Timely, Question
<1> QED
  BY <1>1, <1>2, <1>3, EmpoweredIsEntitled DEF Applied, Effects, ActsInForce

\* Saturating clock arithmetic decides as unbounded arithmetic would.
LEMMA TimeValidityIsWindow ==
  ASSUME NEW p, NEW c, Question(p, c), NEW a \in AuthenticContents(p, c)
  PROVE  time_validity(a, c) <=> InValidityWindow(a, c)
<1>1. a.issued_at \in 0..U64Max /\ a.expires_at \subseteq 0..U64Max
  BY DEF AuthenticContents, Question
<1>2. c.verified_at \in 0..U64Max /\ c.clock_skew_leeway \in 0..U64Max
  BY DEF Question
<1>3. ASSUME NEW x \in 0..U64Max, NEW y \in 0..U64Max
      PROVE  x <= SatAdd(y, c.clock_skew_leeway) <=> x <= y + c.clock_skew_leeway
  BY <1>2, U64MaxAssumption DEF SatAdd
<1>4. a.issued_at <= SatAdd(c.verified_at, c.clock_skew_leeway)
        <=> a.issued_at <= c.verified_at + c.clock_skew_leeway
  BY <1>1, <1>2, <1>3
<1>5. \A e \in a.expires_at : c.verified_at <= SatAdd(e, c.clock_skew_leeway)
                               <=> c.verified_at <= e + c.clock_skew_leeway
  BY <1>1, <1>2, <1>3
<1>6. c.verified_at # 0 <=> 0 < c.verified_at
  BY <1>2, U64MaxAssumption
<1> QED
  BY <1>4, <1>5, <1>6 DEF time_validity, InValidityWindow

\* Knowledge is stale iff it is not fresh; the only clock arithmetic here.
LEMMA StaleIsNotFresh ==
  ASSUME NEW p, NEW c, Question(p, c)
  PROVE  RevocationStale(AuthenticContents(p, c), c) <=> ~KnowledgeFresh(p, c)
<1> DEFINE V == AuthenticContents(p, c)
<1>1. \A t \in c.revocations_known_at :
        SatSub(c.verified_at, t) > c.clock_skew_leeway
          <=> ~(c.verified_at <= t + c.clock_skew_leeway)
  BY U64MaxAssumption DEF Question, SatSub
<1>2. EmbeddedStatus(V) = {} <=> ~(\E a \in V : ~IsStatement(a))
  BY DEF EmbeddedStatus, Statements
<1>3. \A t, u \in c.revocations_known_at : t = u
  BY DEF Question
<1> HIDE DEF V
<1> QED
  BY <1>1, <1>2, <1>3 DEF RevocationStale, KnowledgeFresh, V

-----------------------------------------------------------------------------
(* What the records of each stage stand for *)

\* Records of two batches are valid iff both batches are.
LEMMA UnionValid ==
  ASSUME NEW A, NEW B, NEW S
  PROVE  stage_valid(A \cup B, S) <=> stage_valid(A, S) /\ stage_valid(B, S)
BY DEF stage_valid

\* The reasons that TIME, REVOCATION and EVIDENCE look for.
TimeRule(p, c) ==
  \A a \in AuthenticContents(p, c) : IsStatement(a) => InValidityWindow(a, c)

RevocationRule(p, c) ==
  \A a \in AuthenticContents(p, c) : IsStatement(a) =>
    /\ ~Tainted(a, p, c) /\ ~ActedOn("Revoke", a.id, p, c)
    /\ ActedOn("Supersede", a.id, p, c) \/ ~InValidityWindow(a, c) \/ KnowledgeFresh(p, c)

EvidenceRule(p, c) ==
  /\ \A a \in AuthenticContents(p, c) : IsStatement(a) =>
       \A d \in a.claim.digest :
         \E ev \in p.evidence : {ev.id} = a.evidence_ref /\ ev.digest = d
  /\ \A e \in p.attestations : e.content.evidence_ref \subseteq NodeSet(p)
  /\ \A ev \in p.evidence : EvidenceItemHolds(ev, p, c)

\* EvidenceHolds, taken apart into the rules of each stage.
LEMMA RulesMakeEvidenceHold ==
  ASSUME NEW p, NEW c
  PROVE  EvidenceHolds(p, c) <=>
           /\ WellFormedProof(p, c) /\ p.canonical
           /\ TimeRule(p, c) /\ RevocationRule(p, c) /\ EvidenceRule(p, c) /\ GraphHolds(p, c)
BY DEF EvidenceHolds, TimeRule, RevocationRule, EvidenceRule, StatementHolds

\* SIGNATURES and KEYS record a failure just when some attestation is not authentic.
LEMMA SignatureRecords ==
  ASSUME NEW p, NEW c
  PROVE  /\ stage_valid(SignatureChecks(p, c), CRYPTO_STAGES)
               <=> \A e \in p.attestations : Authentic(e, c)
         /\ stage_valid(SignatureChecks(p, c), EVIDENCE_STAGES)
         /\ \A k \in SignatureChecks(p, c) : k.stage \in {"KEYS", "SIGNATURES"}
<1>1. \A k \in SignatureChecks(p, c) : k.stage \in {"KEYS", "SIGNATURES"}
  BY DEF SignatureChecks, Check
<1>2. stage_valid(SignatureChecks(p, c), CRYPTO_STAGES)
        <=> \A k \in SignatureChecks(p, c) : k.code = "OK"
  BY <1>1 DEF stage_valid, CRYPTO_STAGES
<1>3. (\A k \in SignatureChecks(p, c) : k.code = "OK")
        <=> \A e \in p.attestations : AttestationCode(e, c) = "OK"
  <2> DEFINE record(e) ==
        Check(IF AttestationCode(e, c) \in KeyCodes THEN "KEYS" ELSE "SIGNATURES",
              Att(e.content.id), AttestationCode(e, c))
  <2>1. SignatureChecks(p, c) = { record(e) : e \in p.attestations }
    BY DEF SignatureChecks
  <2>2. \A e : record(e).code = AttestationCode(e, c)
    BY DEF Check
  <2> QED
    BY <2>1, <2>2
<1>4. stage_valid(SignatureChecks(p, c), EVIDENCE_STAGES)
  BY <1>1 DEF stage_valid, EVIDENCE_STAGES
<1> QED
  BY <1>1, <1>2, <1>3, <1>4, AcceptedIsAuthentic

\* TIME records a failure just when some statement is outside its window.
LEMMA TimeRecords ==
  ASSUME NEW p, NEW c, Question(p, c)
  PROVE  LET new == TimeChecks(AuthenticContents(p, c), c)
         IN /\ stage_valid(new, EVIDENCE_STAGES) <=> TimeRule(p, c)
            /\ stage_valid(new, CRYPTO_STAGES)
            /\ \A k \in new : k.stage = "TIME"
<1> DEFINE new == TimeChecks(AuthenticContents(p, c), c)
<1>1. \A k \in new : k.stage = "TIME"
  BY DEF TimeChecks, Check
<1>2. stage_valid(new, EVIDENCE_STAGES) <=> \A k \in new : k.code = "OK"
  BY <1>1 DEF stage_valid, EVIDENCE_STAGES
<1>3. (\A k \in new : k.code = "OK") <=> TimeRule(p, c)
  <2> DEFINE record(a) == Check("TIME", Att(a.id), IF time_validity(a, c) THEN "OK" ELSE "EXPIRED")
  <2>1. new = { record(a) : a \in Statements(AuthenticContents(p, c)) }
    BY DEF TimeChecks
  <2>2. \A a : record(a).code = "OK" <=> time_validity(a, c)
    BY DEF Check
  <2> HIDE DEF record, new
  <2> QED
    BY <2>1, <2>2, TimeValidityIsWindow DEF TimeRule, Statements
<1>4. stage_valid(new, CRYPTO_STAGES)
  BY <1>1 DEF stage_valid, CRYPTO_STAGES
<1> QED
  BY <1>1, <1>2, <1>3, <1>4

\* STATUS records count towards neither validity.
LEMMA StatusRecords ==
  ASSUME NEW p, NEW c, NEW V, NEW E, NEW new,
         new = CollectChecks(V, c) \/ new = ApplyChecks(E, p, V, c)
  PROVE  /\ stage_valid(new, EVIDENCE_STAGES) /\ stage_valid(new, CRYPTO_STAGES)
         /\ \A k \in new : k.stage = "STATUS"
<1>1. \A k \in new : k.stage = "STATUS"
  BY DEF CollectChecks, ApplyChecks, Fail, Check
<1> QED
  BY <1>1 DEF stage_valid, EVIDENCE_STAGES, CRYPTO_STAGES

\* The lifecycle that the pipeline computes from the authentic contents.
LifecycleOf(p, c) ==
  LET V == AuthenticContents(p, c)
  IN Lifecycle(V, ActsInForce(p, c), TimeFailed(V, c), RevocationStale(V, c))

\* What each lifecycle status says about the effects in force.
LEMMA LifecycleFacts ==
  ASSUME NEW p, NEW c
  PROVE  LET V == AuthenticContents(p, c)
             A == ActsInForce(p, c)
         IN /\ DOMAIN LifecycleOf(p, c) = Statements(V)
            /\ \A a \in Statements(V) :
                 /\ LifecycleOf(p, c)[a]
                      = LifecycleStatus(a, A, TimeFailed(V, c), RevocationStale(V, c))
                 /\ LifecycleOf(p, c)[a] \in LifecycleStatuses
BY DEF LifecycleOf, Lifecycle, LifecycleStatus, LifecycleStatuses

\* When the lifecycle of a statement is no failure.
LEMMA StatementLifecycle ==
  ASSUME NEW p, NEW c, Question(p, c), NEW a \in Statements(AuthenticContents(p, c))
  PROVE  StatusCode(LifecycleOf(p, c)[a]) = "OK" <=>
           /\ ~Tainted(a, p, c) /\ ~ActedOn("Revoke", a.id, p, c)
           /\ ActedOn("Supersede", a.id, p, c) \/ ~InValidityWindow(a, c) \/ KnowledgeFresh(p, c)
<1> DEFINE V == AuthenticContents(p, c)
           A == ActsInForce(p, c)
           status == LifecycleOf(p, c)[a]
<1>1. CompromisedStatement(a, A) <=> Tainted(a, p, c)
  BY DEF CompromisedStatement, Tainted
<1>2. \A kind : Targeted(A, kind, a.id) <=> ActedOn(kind, a.id, p, c)
  BY DEF Targeted, ActedOn
<1>3. a \in TimeFailed(V, c) <=> ~InValidityWindow(a, c)
  BY TimeValidityIsWindow DEF TimeFailed, Statements
<1>4. RevocationStale(V, c) <=> ~KnowledgeFresh(p, c)
  BY StaleIsNotFresh
<1>5. status = LifecycleStatus(a, A, TimeFailed(V, c), RevocationStale(V, c))
  BY LifecycleFacts
<1>6. status = IF Tainted(a, p, c) THEN "COMPROMISED"
               ELSE IF ActedOn("Revoke", a.id, p, c) THEN "REVOKED"
               ELSE IF ActedOn("Supersede", a.id, p, c) THEN "SUPERSEDED"
               ELSE IF ~InValidityWindow(a, c) THEN "EXPIRED"
               ELSE IF ~KnowledgeFresh(p, c) THEN "UNKNOWN"
               ELSE "ACTIVE"
  BY <1>1, <1>2, <1>3, <1>4, <1>5 DEF LifecycleStatus
<1> HIDE DEF status
<1>7. StatusCode(status) = "OK" <=> status \notin {"COMPROMISED", "REVOKED", "WITHDRAWN", "UNKNOWN"}
  BY DEF StatusCode
<1> QED
  BY <1>6, <1>7 DEF status

\* REVOCATION records a failure just when some statement is ended or unknown.
LEMMA RevocationRecords ==
  ASSUME NEW p, NEW c, Question(p, c)
  PROVE  LET new == RevocationChecks(LifecycleOf(p, c))
         IN /\ stage_valid(new, EVIDENCE_STAGES) <=> RevocationRule(p, c)
            /\ stage_valid(new, CRYPTO_STAGES)
            /\ \A k \in new : k.stage = "REVOCATION"
<1> DEFINE L == LifecycleOf(p, c)
           new == RevocationChecks(L)
           record(a) == Check("REVOCATION", Att(a.id), StatusCode(L[a]))
<1>1. new = { record(a) : a \in Statements(AuthenticContents(p, c)) }
  BY LifecycleFacts DEF RevocationChecks
<1>2. \A a : record(a).stage = "REVOCATION" /\ record(a).code = StatusCode(L[a])
  BY DEF Check
<1> HIDE DEF record, new
<1>3. \A k \in new : k.stage = "REVOCATION"
  BY <1>1, <1>2
<1>4. stage_valid(new, EVIDENCE_STAGES) <=> \A k \in new : k.code = "OK"
  BY <1>3 DEF stage_valid, EVIDENCE_STAGES
<1>5. (\A k \in new : k.code = "OK")
        <=> \A a \in Statements(AuthenticContents(p, c)) : StatusCode(L[a]) = "OK"
  BY <1>1, <1>2
<1>6. (\A a \in Statements(AuthenticContents(p, c)) : StatusCode(L[a]) = "OK")
        <=> RevocationRule(p, c)
  BY StatementLifecycle DEF RevocationRule, Statements
<1>7. stage_valid(new, CRYPTO_STAGES)
  BY <1>3 DEF stage_valid, CRYPTO_STAGES
<1> QED
  BY <1>3, <1>4, <1>5, <1>6, <1>7 DEF new

\* A digest check succeeds iff the claimed digest is that of the bound item.
LEMMA DigestBinding ==
  ASSUME NEW p, NEW a, a.claim.digest # {},
         \A ev \in p.evidence : ev.digest # "malformed",
         \A d, f \in a.claim.digest : d = f
  PROVE  DigestCode(a, p) = "OK" <=>
           \A d \in a.claim.digest :
             \E ev \in p.evidence : {ev.id} = a.evidence_ref /\ ev.digest = d
<1>1. PICK d \in a.claim.digest : TRUE
  OBVIOUS
<1>2. a.claim.digest = {d}
  BY <1>1
<1>3. \A ev \in p.evidence : {ev.digest} = a.claim.digest <=> ev.digest = d
  BY <1>2
<1> QED
  BY <1>2, <1>3 DEF DigestCode

\* With every statement in good standing, an evidence item fails only when it
\* was itself marked compromised or withdrawn.
LEMMA EvidenceItemStatus ==
  ASSUME NEW p, NEW c, Question(p, c), RevocationRule(p, c), NEW ev \in p.evidence
  PROVE  StatusCode(EvidenceStatusOf(ev, ActsInForce(p, c), LifecycleOf(p, c))) = "OK"
           <=> EvidenceItemHolds(ev, p, c)
<1> DEFINE A == ActsInForce(p, c)
           L == LifecycleOf(p, c)
           B == Backing(ev, L)
           st == CHOOSE x \in B : TRUE
           status == EvidenceStatusOf(ev, A, L)
<1>1. \A x \in B : \E a \in Statements(AuthenticContents(p, c)) : x = L[a]
  BY LifecycleFacts DEF Backing
<1>2. \A a \in Statements(AuthenticContents(p, c)) : StatusCode(L[a]) = "OK"
  BY StatementLifecycle DEF RevocationRule, Statements
<1>3. B # {} => st \in B
  OBVIOUS
<1>4. B # {} => StatusCode(st) = "OK"
  BY <1>1, <1>2, <1>3
<1>5. \A kind : Targeted(A, kind, ev.id) <=> ActedOn(kind, ev.id, p, c)
  BY DEF Targeted, ActedOn
<1>6. status = IF ActedOn("Compromise", ev.id, p, c) THEN "COMPROMISED"
               ELSE IF ActedOn("Withdraw", ev.id, p, c) THEN "WITHDRAWN"
               ELSE IF B # {} THEN IF st = "ACTIVE" THEN "AVAILABLE" ELSE st
               ELSE IF ev.attestation_ref = {} THEN "AVAILABLE"
               ELSE "UNBACKED"
  BY <1>5 DEF EvidenceStatusOf
<1> HIDE DEF st, B, status
<1>7. StatusCode("COMPROMISED") # "OK" /\ StatusCode("WITHDRAWN") # "OK"
        /\ StatusCode("AVAILABLE") = "OK" /\ StatusCode("UNBACKED") = "OK"
  BY DEF StatusCode
<1>8. StatusCode(status) = "OK" <=> EvidenceItemHolds(ev, p, c)
  BY <1>4, <1>6, <1>7 DEF EvidenceItemHolds
<1> QED
  BY <1>8 DEF status

\* EVIDENCE records a failure just when some item or binding breaks the rules.
LEMMA EvidenceRecords ==
  ASSUME NEW p, NEW c, Question(p, c)
  PROVE  LET L == LifecycleOf(p, c)
             new == EvidenceChecks(p, L, EvidenceStatus(p, ActsInForce(p, c), L))
         IN /\ RevocationRule(p, c) =>
                 (stage_valid(new, EVIDENCE_STAGES) <=> EvidenceRule(p, c))
            /\ stage_valid(new, CRYPTO_STAGES)
            /\ \A k \in new : k.stage = "EVIDENCE"
<1> DEFINE L == LifecycleOf(p, c)
           ES == EvidenceStatus(p, ActsInForce(p, c), L)
           new == EvidenceChecks(p, L, ES)
           dangling == IF DanglingEvidenceRef(p)
                       THEN { Fail("EVIDENCE", TheProof, "DANGLING_REFERENCE") } ELSE {}
           D == { x \in DOMAIN L : x.claim.digest # {} }
           digest(a) == Check("EVIDENCE", Att(a.id), DigestCode(a, p))
           item(ev) == Check("EVIDENCE", Evd(ev.id), StatusCode(ES[ev]))
           found == dangling \cup { digest(a) : a \in D } \cup { item(ev) : ev \in DOMAIN ES }
<1>1. new = found \cup IF \A k \in found : k.code = "OK" THEN { Ok("EVIDENCE", TheProof) } ELSE {}
  BY DEF EvidenceChecks
<1>2. /\ \A a : digest(a).stage = "EVIDENCE" /\ digest(a).code = DigestCode(a, p)
      /\ \A ev : item(ev).stage = "EVIDENCE" /\ item(ev).code = StatusCode(ES[ev])
      /\ Ok("EVIDENCE", TheProof).stage = "EVIDENCE" /\ Ok("EVIDENCE", TheProof).code = "OK"
  BY DEF Check, Ok
<1>3. /\ \A k \in dangling : k.stage = "EVIDENCE"
      /\ (\A k \in dangling : k.code = "OK") <=> ~DanglingEvidenceRef(p)
  <2> DEFINE k0 == Fail("EVIDENCE", TheProof, "DANGLING_REFERENCE")
  <2>1. k0.stage = "EVIDENCE" /\ k0.code # "OK"
    BY DEF Fail, Check
  <2> HIDE DEF k0
  <2>2. CASE DanglingEvidenceRef(p)
    <3>1. dangling = {k0}
      BY <2>2 DEF k0
    <3> QED
      BY <2>1, <2>2, <3>1
  <2>3. CASE ~DanglingEvidenceRef(p)
    BY <2>3, ZenonT(30)
  <2> QED
    BY <2>2, <2>3
<1> HIDE DEF new, dangling, digest, item
<1>4. \A k \in new : k.stage = "EVIDENCE"
  BY <1>1, <1>2, <1>3, ZenonT(30)
<1>5. stage_valid(new, EVIDENCE_STAGES) <=> \A k \in found : k.code = "OK"
  BY <1>1, <1>2, <1>4, ZenonT(30) DEF stage_valid, EVIDENCE_STAGES
<1>6. (\A k \in found : k.code = "OK") <=>
        /\ ~DanglingEvidenceRef(p)
        /\ \A a \in D : DigestCode(a, p) = "OK"
        /\ \A ev \in DOMAIN ES : StatusCode(ES[ev]) = "OK"
  BY <1>2, <1>3
<1>7. RevocationRule(p, c) =>
        ((\A ev \in DOMAIN ES : StatusCode(ES[ev]) = "OK")
           <=> \A ev \in p.evidence : EvidenceItemHolds(ev, p, c))
  BY EvidenceItemStatus, ZenonT(30) DEF EvidenceStatus
<1>8. (\A a \in D : DigestCode(a, p) = "OK") <=>
        \A a \in Statements(AuthenticContents(p, c)) : \A d \in a.claim.digest :
          \E ev \in p.evidence : {ev.id} = a.evidence_ref /\ ev.digest = d
  <2>1. D = { a \in Statements(AuthenticContents(p, c)) : a.claim.digest # {} }
    BY LifecycleFacts
  <2>2. \A a \in D : /\ a.claim.digest # {}
                     /\ \A d, f \in a.claim.digest : d = f
    BY <2>1 DEF Statements, AuthenticContents, Question
  <2>3. \A ev \in p.evidence : ev.digest # "malformed"
    BY DEF Question
  <2>4. \A a \in D : DigestCode(a, p) = "OK" <=>
          \A d \in a.claim.digest :
            \E ev \in p.evidence : {ev.id} = a.evidence_ref /\ ev.digest = d
    BY <2>2, <2>3, DigestBinding
  <2> QED
    BY <2>1, <2>4
<1>9. ~DanglingEvidenceRef(p) <=> \A e \in p.attestations : e.content.evidence_ref \subseteq NodeSet(p)
  BY DEF DanglingEvidenceRef
<1>10. stage_valid(new, CRYPTO_STAGES)
  BY <1>4, ZenonT(30) DEF stage_valid, CRYPTO_STAGES
<1>11. RevocationRule(p, c) => (stage_valid(new, EVIDENCE_STAGES) <=> EvidenceRule(p, c))
  <2> HIDE DEF found, ES, D
  <2> QED
    BY <1>5, <1>6, <1>7, <1>8, <1>9 DEF EvidenceRule, Statements
<1> QED
  BY <1>4, <1>10, <1>11, ZenonT(30) DEF new

\* Leaving out more relationship types leaves fewer cycles.
LEMMA DerivationCyclesAreCycles ==
  ASSUME NEW edges, NEW nodes, HasCycle(nodes, Pairs(edges, nodes, DerivationExcluded))
  PROVE  HasCycle(nodes, Pairs(edges, nodes, ProvenanceExcluded))
<1>1. Pairs(edges, nodes, DerivationExcluded) \subseteq Pairs(edges, nodes, ProvenanceExcluded)
  BY DEF Pairs, Included, DerivationExcluded, ProvenanceExcluded
<1> QED
  BY <1>1 DEF HasCycle

\* RELATIONSHIPS and GRAPH record a failure just when the edges or links break the rules.
LEMMA GraphRecords ==
  ASSUME NEW p, NEW c, Question(p, c), LinkageShape(p, c)
  PROVE  LET new == GraphChecks(p, c) \cup LinkageChecks(p, c)
         IN /\ stage_valid(new, EVIDENCE_STAGES) <=> GraphHolds(p, c)
            /\ stage_valid(new, CRYPTO_STAGES)
            /\ \A k \in new : k.stage \in {"RELATIONSHIPS", "GRAPH"}
<1> DEFINE G == GraphChecks(p, c)
           K == LinkageChecks(p, c)
           code == ValidateGraph(p.relationships, NodeSet(p), c.limits, c.extra_grounded)
           cyclic(ex) == HasCycle(NodeSet(p), Pairs(p.relationships, NodeSet(p), ex))
<1>1. /\ \A k \in K : k.stage = "GRAPH"
      /\ (\A k \in K : k.code = "OK") <=> p.stored_id \notin p.referenced_proofs
  <2> DEFINE limit == Fail("GRAPH", TheProof, "LIMIT_EXCEEDED")
             shape == Fail("GRAPH", TheProof, "SCHEMA_VIOLATION")
             self == Fail("GRAPH", TheProof, "CYCLE_DETECTED")
  <2>1. ~(Cardinality(p.referenced_proofs) > c.limits.max_referenced_proofs)
    BY FS_CardinalityType DEF LinkageShape, Question
  <2>2. ~(p.referenced_proofs # {} /\ ~p.refs_canonical)
    BY DEF LinkageShape
  <2>3. K = IF p.stored_id \in p.referenced_proofs THEN {self} ELSE {}
    BY <2>1, <2>2 DEF LinkageChecks
  <2>4. self.stage = "GRAPH" /\ self.code # "OK"
    BY DEF Fail, Check
  <2> HIDE DEF self, K
  <2> QED
    BY <2>3, <2>4
<1>2. /\ \A k \in G : k.stage \in {"RELATIONSHIPS", "GRAPH"}
      /\ (\A k \in G : k.code = "OK") <=>
           /\ code = "OK" /\ ~cyclic(DerivationExcluded)
           /\ c.require_acyclic_provenance => ~cyclic(ProvenanceExcluded)
  <2>1. CASE code # "OK"
    <3> DEFINE k0 == Fail(IF code \in {"RELATIONSHIP_UNGROUNDED", "DANGLING_REFERENCE"}
                          THEN "RELATIONSHIPS" ELSE "GRAPH", TheProof, code)
    <3>1. G = {k0}
      BY <2>1 DEF GraphChecks
    <3>2. k0.stage \in {"RELATIONSHIPS", "GRAPH"} /\ k0.code = code
      BY DEF Fail, Check
    <3> HIDE DEF k0, G, code
    <3> QED
      BY <2>1, <3>1, <3>2
  <2>2. CASE code = "OK"
    <3> DEFINE k1 == Ok("RELATIONSHIPS", TheProof)
               k2 == Ok("GRAPH", TheProof)
               k(ex) == Check("GRAPH", TheProof, AcyclicCode(p.relationships, NodeSet(p), ex))
    <3>1. G = {k1, k2, k(DerivationExcluded)}
                \cup IF c.require_acyclic_provenance THEN {k(ProvenanceExcluded)} ELSE {}
      BY <2>2 DEF GraphChecks
    <3>2. /\ k1.stage = "RELATIONSHIPS" /\ k2.stage = "GRAPH" /\ k1.code = "OK" /\ k2.code = "OK"
          /\ \A ex : k(ex).stage = "GRAPH" /\ (k(ex).code = "OK" <=> ~cyclic(ex))
      BY DEF Ok, Check, AcyclicCode
    <3> HIDE DEF k1, k2, k, G, code, cyclic
    <3> QED
      BY <2>2, <3>1, <3>2, ZenonT(30)
  <2> QED
    BY <2>1, <2>2
<1>3. cyclic(DerivationExcluded) => cyclic(ProvenanceExcluded)
  BY DerivationCyclesAreCycles, ZenonT(30)
<1>4. GraphHolds(p, c) <=>
        /\ code = "OK" /\ p.stored_id \notin p.referenced_proofs
        /\ ~cyclic(DerivationExcluded)
        /\ c.require_acyclic_provenance => ~cyclic(ProvenanceExcluded)
  BY <1>3 DEF GraphHolds
<1> HIDE DEF G, K, code, cyclic
<1>5. \A k \in G \cup K : k.stage \in {"RELATIONSHIPS", "GRAPH"}
  BY <1>1, <1>2
<1>6. stage_valid(G \cup K, EVIDENCE_STAGES) <=> \A k \in G \cup K : k.code = "OK"
  BY <1>5 DEF stage_valid, EVIDENCE_STAGES
<1>7. stage_valid(G \cup K, CRYPTO_STAGES)
  BY <1>5 DEF stage_valid, CRYPTO_STAGES
<1>8. stage_valid(G \cup K, EVIDENCE_STAGES) <=> GraphHolds(p, c)
  BY <1>1, <1>2, <1>4, <1>6
<1> QED
  BY <1>5, <1>7, <1>8, ZenonT(30) DEF G, K

-----------------------------------------------------------------------------
(* The inductive invariant *)

\* The control points from a stage on, up to the return.
FromGraph == {"GRAPH", "FINALIZE"}
FromEvidence == {"EVIDENCE"} \cup FromGraph
FromRevocation == {"REVOCATION"} \cup FromEvidence
FromApply == {"APPLY"} \cup FromRevocation
FromCollect == {"COLLECT"} \cup FromApply
FromTime == {"TIME"} \cup FromCollect
FromIdentifiers == {"IDENTIFIERS", "SIGNATURES"} \cup FromTime
FromCanonical == {"CANONICAL"} \cup FromIdentifiers
FromSchema == {"SCHEMA"} \cup FromCanonical
FromParse == {"PARSE"} \cup FromSchema

\* What passing the early stages has established, and that nothing was
\* returned before the end.
ShapeInv ==
  /\ Question(proof, ctx)
  /\ pc # "DONE" => report = NoReport
  /\ pc \in FromParse => ~CallerMisuse(ctx)
  /\ pc \in FromSchema => proof.decodes
  /\ pc \in FromCanonical => proof.schema_ok /\ LinkageShape(proof, ctx)
  /\ pc \in {"CALL", "PARSE", "SCHEMA", "CANONICAL"} => ~canonical_failed
  /\ pc \in FromIdentifiers => (canonical_failed <=> ~proof.canonical)

\* What a stage handed on is a function of the inputs alone.
DataInv ==
  /\ pc \in FromTime => verified = AuthenticContents(proof, ctx)
  /\ pc \in FromCollect => time_failed = TimeFailed(AuthenticContents(proof, ctx), ctx)
  /\ pc \in FromApply => effects = Effects(AuthenticContents(proof, ctx), ctx)
  /\ pc \in FromRevocation => applied = ActsInForce(proof, ctx)
  /\ pc \in FromEvidence => lifecycle = LifecycleOf(proof, ctx)
  /\ pc \notin FromCollect \cup {"DONE"} => time_failed = {}
  /\ pc \notin FromRevocation \cup {"DONE"} => applied = {}
  /\ pc \notin FromEvidence \cup {"DONE"} => DOMAIN lifecycle = {}

\* Which reasons the validity of the records so far stands for.
CryptoSoFar ==
  /\ pc \in FromIdentifiers => proof.canonical
  /\ pc \in {"SIGNATURES"} \cup FromTime => proof.recomputed_id = proof.stored_id
  /\ pc \in FromTime => \A e \in proof.attestations : Authentic(e, ctx)

EvidenceSoFar ==
  /\ pc \in FromCollect => TimeRule(proof, ctx)
  /\ pc \in FromEvidence => RevocationRule(proof, ctx)
  /\ pc \in FromGraph => EvidenceRule(proof, ctx)
  /\ pc = "FINALIZE" => GraphHolds(proof, ctx)

RecordsInv ==
  pc # "DONE" => /\ stage_valid(checks, CRYPTO_STAGES) <=> CryptoSoFar
                 /\ stage_valid(checks, EVIDENCE_STAGES) <=> EvidenceSoFar

\* The answer, once given.
AnswerInv ==
  pc = "DONE" =>
    \/ CallerMisuse(ctx) /\ report = Misuse
    \/ ~CallerMisuse(ctx) /\ report.outcome = "report" /\ VerdictCorrect /\ InvalidCarriesCode

Inv == TypeOK /\ ShapeInv /\ DataInv /\ RecordsInv /\ AnswerInv

AllStages == CRYPTO_STAGES \cup EVIDENCE_STAGES \cup {"STATUS"}

\* The initial states satisfy the inductive invariant.
LEMMA InitInv == Init => Inv
<1> SUFFICES ASSUME Init PROVE Inv
  OBVIOUS
<1>1. TypeOK
  <2>1. /\ report.outcome = "pending" /\ report.crypto = FALSE /\ report.evidence = FALSE
        /\ report.status_inputs = FALSE /\ report.lifecycle_checked = FALSE
    BY DEF Init, NoReport
  <2>2. DOMAIN lifecycle = {} /\ DOMAIN evidence_status = {}
    BY DEF Init
  <2> QED
    BY <2>1, <2>2, ZenonT(30) DEF Init, TypeOK, Stages
<1>2. ShapeInv
  <2>1. Question(proof, ctx)
    BY InputsAssumption DEF Init
  <2> QED
    BY <2>1 DEF ShapeInv, Init, FromParse, FromSchema, FromCanonical, FromIdentifiers, FromTime,
                FromCollect, FromApply, FromRevocation, FromEvidence, FromGraph
<1>3. DataInv
  BY SMTT(30) DEF DataInv, Init, FromTime, FromCollect, FromApply, FromRevocation, FromEvidence, FromGraph
<1>4. RecordsInv
  BY DEF RecordsInv, CryptoSoFar, EvidenceSoFar, stage_valid, Init, FromIdentifiers, FromTime,
         FromCollect, FromApply, FromRevocation, FromEvidence, FromGraph
<1>5. AnswerInv
  BY DEF AnswerInv, Init
<1> QED
  BY <1>1, <1>2, <1>3, <1>4, <1>5, ZenonT(30) DEF Inv

\* Leaving a stage adds its records, and returns nothing.
LEMMA AdvanceKeeps ==
  ASSUME TypeOK, NEW from, NEW to \in Stages, NEW new, Advance(from, to, new),
         \A k \in new : k.stage \in AllStages
  PROVE  /\ pc' \in Stages
         /\ \A k \in checks' : k.stage \in AllStages
         /\ report' = report /\ proof' = proof /\ ctx' = ctx
         /\ \A S : stage_valid(checks', S) <=> stage_valid(checks, S) /\ stage_valid(new, S)
<1>1. pc' = to /\ checks' = checks \cup new /\ report' = report /\ proof' = proof /\ ctx' = ctx
  BY DEF Advance
<1>2. \A k \in checks : k.stage \in AllStages
  BY DEF TypeOK, AllStages
<1>3. \A S : stage_valid(checks', S) <=> stage_valid(checks, S) /\ stage_valid(new, S)
  BY <1>1, UnionValid
<1> QED
  BY <1>1, <1>2, <1>3

\* A stage that only adds a record, and passes on to the next.
LEMMA RecordStep ==
  ASSUME Inv, NEW from, NEW to \in Stages \ {"DONE"}, NEW new, Advance(from, to, new),
         \A k \in new : k.stage \in AllStages,
         canonical_failed' \in BOOLEAN, UNCHANGED data,
         ShapeInv', DataInv', RecordsInv'
  PROVE  Inv'
<1>1. TypeOK'
  <2>1. /\ pc' \in Stages /\ \A k \in checks' : k.stage \in AllStages
        /\ report' = report /\ proof' = proof
    BY AdvanceKeeps DEF Inv
  <2> QED
    BY <2>1 DEF Inv, TypeOK, data, AllStages
<1>2. AnswerInv'
  BY DEF AnswerInv, Advance
<1> QED
  BY <1>1, <1>2, ZenonT(30) DEF Inv

\* An early exit: a record says why, and neither validity is claimed.
LEMMA ExitStep ==
  ASSUME Inv, NEW from, NEW id, NEW k, ExitEarly(from, id, {k}), canonical_failed' \in BOOLEAN,
         k.stage \in CRYPTO_STAGES, k.code # "OK", ~CallerMisuse(ctx),
         ~CryptoHolds(proof, ctx), ~EvidenceHolds(proof, ctx)
  PROVE  Inv'
<1>1. /\ pc' = "DONE" /\ checks' = checks \cup {k} /\ UNCHANGED <<proof, ctx, data>>
      /\ report' = Finalize(id, checks', FALSE)
  BY DEF ExitEarly
<1>2. ~stage_valid(checks', CRYPTO_STAGES)
  BY <1>1 DEF stage_valid
<1>3. /\ report'.outcome = "report" /\ report'.crypto = FALSE /\ report'.evidence = FALSE
      /\ report'.lifecycle_checked = FALSE /\ report'.status_inputs \in BOOLEAN
  BY <1>1, <1>2, ZenonT(30) DEF Finalize, stage_valid
<1>4. TypeOK'
  <2>1. \A j \in checks' : j.stage \in AllStages
    BY <1>1 DEF Inv, TypeOK, AllStages
  <2> QED
    BY <1>1, <1>3, <2>1, ZenonT(30) DEF Inv, TypeOK, data, AllStages, Stages
<1>5. ShapeInv' /\ DataInv' /\ RecordsInv'
  <2> USE DEF FromParse, FromSchema, FromCanonical, FromIdentifiers, FromTime, FromCollect,
              FromApply, FromRevocation, FromEvidence, FromGraph
  <2>1. ShapeInv'
    BY <1>1 DEF ShapeInv, Inv
  <2>2. DataInv'
    BY <1>1 DEF DataInv
  <2>3. RecordsInv'
    BY <1>1 DEF RecordsInv
  <2> QED
    BY <2>1, <2>2, <2>3, ZenonT(30)
<1>6. AnswerInv'
  <2>1. VerdictCorrect'
    BY <1>1, <1>3, ZenonT(30) DEF VerdictCorrect
  <2>2. InvalidCarriesCode'
    BY <1>1, <1>3, ZenonT(30) DEF InvalidCarriesCode
  <2> QED
    BY <1>1, <1>3, <2>1, <2>2, ZenonT(30) DEF AnswerInv
<1> QED
  BY <1>4, <1>5, <1>6, ZenonT(30) DEF Inv

\* A single record.
LEMMA OneRecord ==
  ASSUME NEW stage, NEW object, NEW code, NEW S
  PROVE  /\ stage_valid({Check(stage, object, code)}, S) <=> (stage \in S => code = "OK")
         /\ \A k \in {Check(stage, object, code)} : k.stage = stage
BY DEF stage_valid, Check

\* The invariant is kept by Call.
LEMMA CallStep == Inv /\ Call => Inv'
<1> SUFFICES ASSUME Inv, Call PROVE Inv'
  OBVIOUS
<1> USE DEF FromParse, FromSchema, FromCanonical, FromIdentifiers, FromTime, FromCollect,
            FromApply, FromRevocation, FromEvidence, FromGraph
<1>1. pc = "CALL" /\ UNCHANGED <<proof, ctx, checks, canonical_failed, data>> /\ report = NoReport
  BY DEF Call, Inv, ShapeInv
<1>2. CASE CallerMisuse(ctx)
  <2>1. pc' = "DONE" /\ report' = Misuse
    BY <1>2 DEF Call
  <2>2. /\ report'.outcome = "error" /\ report'.crypto = FALSE /\ report'.evidence = FALSE
        /\ report'.lifecycle_checked = FALSE /\ report'.status_inputs = FALSE
    BY <2>1 DEF Misuse, NoReport
  <2>3. TypeOK'
    BY <1>1, <2>1, <2>2, ZenonT(30) DEF Inv, TypeOK, data, Stages
  <2>4. ShapeInv' /\ DataInv' /\ RecordsInv' /\ AnswerInv'
    BY <1>1, <1>2, <2>1, ZenonT(30) DEF Inv, ShapeInv, DataInv, RecordsInv, AnswerInv
  <2> QED
    BY <2>3, <2>4, ZenonT(30) DEF Inv
<1>3. CASE ~CallerMisuse(ctx)
  <2>1. pc' = "PARSE" /\ report' = report
    BY <1>3, ZenonT(30) DEF Call
  <2>2. TypeOK'
    BY <1>1, <2>1, ZenonT(30) DEF Inv, TypeOK, data, Stages
  <2>3. ShapeInv'
    BY <1>1, <1>3, <2>1, ZenonT(30) DEF Inv, ShapeInv
  <2>4. DataInv' /\ AnswerInv'
    BY <1>1, <2>1, ZenonT(30) DEF Inv, DataInv, AnswerInv, data
  <2>5. RecordsInv'
    BY <1>1, <2>1, ZenonT(30) DEF Inv, RecordsInv, CryptoSoFar, EvidenceSoFar
  <2> QED
    BY <2>2, <2>3, <2>4, <2>5, ZenonT(30) DEF Inv
<1> QED
  BY <1>2, <1>3

\* The invariant is kept by Parse.
LEMMA ParseStep == Inv /\ Parse => Inv'
<1> SUFFICES ASSUME Inv, Parse PROVE Inv'
  OBVIOUS
<1> USE DEF FromParse, FromSchema, FromCanonical, FromIdentifiers, FromTime, FromCollect,
            FromApply, FromRevocation, FromEvidence, FromGraph
<1>1. pc = "PARSE" /\ UNCHANGED canonical_failed /\ canonical_failed' \in BOOLEAN
        /\ ~CallerMisuse(ctx)
  BY ZenonT(30) DEF Parse, Advance, ExitEarly, Inv, TypeOK, ShapeInv
<1>2. CASE proof.decodes
  <2> DEFINE new == {Ok("PARSE", TheProof)}
  <2>1. Advance("PARSE", "SCHEMA", new) /\ UNCHANGED data
    BY <1>2 DEF Parse
  <2>2. /\ \A k \in new : k.stage \in AllStages
        /\ stage_valid(new, CRYPTO_STAGES) /\ stage_valid(new, EVIDENCE_STAGES)
    BY OneRecord DEF Ok, AllStages, CRYPTO_STAGES
  <2> HIDE DEF new
  <2>3. pc' = "SCHEMA" /\ UNCHANGED <<proof, ctx, report>>
    BY <2>1 DEF Advance
  <2>4. \A S : stage_valid(checks', S) <=> stage_valid(checks, S) /\ stage_valid(new, S)
    BY <2>1, <2>2, AdvanceKeeps, ZenonT(30) DEF Inv, Stages
  <2>5. ShapeInv'
    BY <1>1, <1>2, <2>3, ZenonT(30) DEF Inv, ShapeInv
  <2>6. DataInv'
    BY <1>1, <2>1, <2>3, ZenonT(30) DEF Inv, DataInv, data
  <2>7. RecordsInv'
    BY <1>1, <2>2, <2>3, <2>4, ZenonT(30) DEF Inv, RecordsInv, CryptoSoFar, EvidenceSoFar
  <2> QED
    BY <1>1, <2>1, <2>2, <2>5, <2>6, <2>7, RecordStep, ZenonT(30) DEF Stages
<1>3. CASE ~proof.decodes
  <2> DEFINE k == Fail("PARSE", TheProof, "MALFORMED")
  <2>1. ExitEarly("PARSE", {}, {k})
    BY <1>3 DEF Parse
  <2>2. k.stage \in CRYPTO_STAGES /\ k.code # "OK"
    BY ZenonT(30) DEF Fail, Check, CRYPTO_STAGES
  <2>3. ~CryptoHolds(proof, ctx) /\ ~EvidenceHolds(proof, ctx)
    BY <1>3, ZenonT(30) DEF CryptoHolds, EvidenceHolds, WellFormedProof
  <2> HIDE DEF k
  <2> QED
    BY <1>1, <2>1, <2>2, <2>3, ExitStep, ZenonT(30)
<1> QED
  BY <1>2, <1>3

\* The invariant is kept by Schema.
LEMMA SchemaStep == Inv /\ Schema => Inv'
<1> SUFFICES ASSUME Inv, Schema PROVE Inv'
  OBVIOUS
<1> USE DEF FromParse, FromSchema, FromCanonical, FromIdentifiers, FromTime, FromCollect,
            FromApply, FromRevocation, FromEvidence, FromGraph
<1>1. pc = "SCHEMA" /\ UNCHANGED canonical_failed /\ canonical_failed' \in BOOLEAN
        /\ ~CallerMisuse(ctx)
  BY ZenonT(30) DEF Schema, Advance, ExitEarly, Inv, TypeOK, ShapeInv
<1>2. CASE proof.schema_ok /\ LinkageShape(proof, ctx)
  <2> DEFINE new == {Ok("SCHEMA", TheProof)}
  <2>1. Advance("SCHEMA", "CANONICAL", new) /\ UNCHANGED data
    BY <1>2 DEF Schema
  <2>2. /\ \A k \in new : k.stage \in AllStages
        /\ stage_valid(new, CRYPTO_STAGES) /\ stage_valid(new, EVIDENCE_STAGES)
    BY OneRecord DEF Ok, AllStages, CRYPTO_STAGES
  <2> HIDE DEF new
  <2>3. pc' = "CANONICAL" /\ UNCHANGED <<proof, ctx, report>>
    BY <2>1 DEF Advance
  <2>4. \A S : stage_valid(checks', S) <=> stage_valid(checks, S) /\ stage_valid(new, S)
    BY <2>1, <2>2, AdvanceKeeps, ZenonT(30) DEF Inv, Stages
  <2>5. ShapeInv'
    BY <1>1, <1>2, <2>3, ZenonT(30) DEF Inv, ShapeInv
  <2>6. DataInv'
    BY <1>1, <2>1, <2>3, ZenonT(30) DEF Inv, DataInv, data
  <2>7. RecordsInv'
    BY <1>1, <2>2, <2>3, <2>4, ZenonT(30) DEF Inv, RecordsInv, CryptoSoFar, EvidenceSoFar
  <2> QED
    BY <1>1, <2>1, <2>2, <2>5, <2>6, <2>7, RecordStep, ZenonT(30) DEF Stages
<1>3. CASE ~(proof.schema_ok /\ LinkageShape(proof, ctx))
  <2> DEFINE k == Fail("SCHEMA", TheProof, "SCHEMA_VIOLATION")
  <2>1. ExitEarly("SCHEMA", {}, {k})
    BY <1>3 DEF Schema
  <2>2. k.stage \in CRYPTO_STAGES /\ k.code # "OK"
    BY ZenonT(30) DEF Fail, Check, CRYPTO_STAGES
  <2>3. ~CryptoHolds(proof, ctx) /\ ~EvidenceHolds(proof, ctx)
    BY <1>3 DEF CryptoHolds, EvidenceHolds, WellFormedProof
  <2> HIDE DEF k
  <2> QED
    BY <1>1, <2>1, <2>2, <2>3, ExitStep, ZenonT(30)
<1> QED
  BY <1>2, <1>3


\* The invariant is kept by Canonical.
LEMMA CanonicalStep == Inv /\ Canonical => Inv'
<1> SUFFICES ASSUME Inv, Canonical PROVE Inv'
  OBVIOUS
<1> USE DEF FromParse, FromSchema, FromCanonical, FromIdentifiers, FromTime, FromCollect,
            FromApply, FromRevocation, FromEvidence, FromGraph
<1> DEFINE nc == Fail("CANONICAL", TheProof, "NON_CANONICAL")
<1>1. pc = "CANONICAL" /\ ~CallerMisuse(ctx) /\ ~canonical_failed /\ canonical_failed \in BOOLEAN
  BY ZenonT(30) DEF Canonical, Advance, ExitEarly, Inv, TypeOK, ShapeInv
<1>2. nc.stage \in CRYPTO_STAGES /\ nc.code # "OK"
  BY DEF Fail, Check, CRYPTO_STAGES
<1>3. /\ \A k \in {nc} : k.stage \in AllStages
      /\ ~stage_valid({nc}, CRYPTO_STAGES) /\ stage_valid({nc}, EVIDENCE_STAGES)
  BY OneRecord, SMTT(30) DEF Fail, AllStages, CRYPTO_STAGES, EVIDENCE_STAGES
<1>4. ~proof.canonical => ~CryptoHolds(proof, ctx) /\ ~EvidenceHolds(proof, ctx)
  BY DEF CryptoHolds, EvidenceHolds
<1>5. /\ \A k \in {Ok("CANONICAL", TheProof)} : k.stage \in AllStages
      /\ stage_valid({Ok("CANONICAL", TheProof)}, CRYPTO_STAGES)
      /\ stage_valid({Ok("CANONICAL", TheProof)}, EVIDENCE_STAGES)
  BY OneRecord, SMTT(30) DEF Ok, AllStages, CRYPTO_STAGES
<1> HIDE DEF nc
<1>6. ASSUME ~proof.canonical, ExitEarly("CANONICAL", {proof.stored_id}, {nc}), canonical_failed' = TRUE
      PROVE  Inv'
  BY <1>1, <1>2, <1>4, <1>6, ExitStep, ZenonT(30)
<1>7. ASSUME NEW new, Advance("CANONICAL", "IDENTIFIERS", new), UNCHANGED data,
             canonical_failed' \in BOOLEAN, canonical_failed' <=> ~proof.canonical,
             \A k \in new : k.stage \in AllStages, stage_valid(new, EVIDENCE_STAGES),
             stage_valid(new, CRYPTO_STAGES) <=> proof.canonical
      PROVE  Inv'
  <2>1. pc' = "IDENTIFIERS" /\ UNCHANGED <<proof, ctx, report>>
    BY <1>7 DEF Advance
  <2>2. \A S : stage_valid(checks', S) <=> stage_valid(checks, S) /\ stage_valid(new, S)
    BY <1>7, AdvanceKeeps, ZenonT(30) DEF Inv, Stages
  <2>3. ShapeInv'
    BY <1>1, <1>7, <2>1, ZenonT(30) DEF Inv, ShapeInv
  <2>4. DataInv'
    BY <1>1, <1>7, <2>1, ZenonT(30) DEF Inv, DataInv, data
  <2>5. RecordsInv'
    BY <1>1, <1>7, <2>1, <2>2, ZenonT(30) DEF Inv, RecordsInv, CryptoSoFar, EvidenceSoFar
  <2> QED
    BY <1>7, <2>3, <2>4, <2>5, RecordStep, ZenonT(30) DEF Stages
<1>8. \/ /\ proof.canonical /\ Advance("CANONICAL", "IDENTIFIERS", {Ok("CANONICAL", TheProof)})
         /\ canonical_failed' = canonical_failed /\ UNCHANGED data
      \/ /\ ~proof.canonical /\ Advance("CANONICAL", "IDENTIFIERS", {nc})
         /\ canonical_failed' = TRUE /\ UNCHANGED data
      \/ /\ ~proof.canonical /\ ExitEarly("CANONICAL", {proof.stored_id}, {nc})
         /\ canonical_failed' = TRUE
  BY DEF Canonical, nc
<1>9. CASE /\ proof.canonical /\ Advance("CANONICAL", "IDENTIFIERS", {Ok("CANONICAL", TheProof)})
           /\ canonical_failed' = canonical_failed /\ UNCHANGED data
  <2>1. canonical_failed' \in BOOLEAN /\ (canonical_failed' <=> ~proof.canonical)
    BY <1>1, <1>9, ZenonT(30)
  <2> QED
    BY <1>5, <1>7, <1>9, <2>1, ZenonT(30)
<1>10. CASE /\ ~proof.canonical /\ Advance("CANONICAL", "IDENTIFIERS", {nc})
            /\ canonical_failed' = TRUE /\ UNCHANGED data
  BY <1>3, <1>7, <1>10, ZenonT(30)
<1> QED
  BY <1>6, <1>8, <1>9, <1>10, ZenonT(30)

\* The invariant is kept by Identifiers.
LEMMA IdentifiersStep == Inv /\ Identifiers => Inv'
<1> SUFFICES ASSUME Inv, Identifiers PROVE Inv'
  OBVIOUS
<1> USE DEF FromParse, FromSchema, FromCanonical, FromIdentifiers, FromTime, FromCollect,
            FromApply, FromRevocation, FromEvidence, FromGraph
<1> DEFINE code == IF proof.recomputed_id = proof.stored_id THEN "OK" ELSE "ID_MISMATCH"
           new == {Check("IDENTIFIERS", TheProof, code)}
<1>1. /\ pc = "IDENTIFIERS" /\ pc' = "SIGNATURES" /\ Advance("IDENTIFIERS", "SIGNATURES", new)
      /\ UNCHANGED <<proof, ctx, report, canonical_failed, data>> /\ canonical_failed' \in BOOLEAN
  BY ZenonT(30) DEF Identifiers, Advance, Inv, TypeOK
<1>2. /\ \A k \in new : k.stage \in AllStages
      /\ stage_valid(new, CRYPTO_STAGES) <=> proof.recomputed_id = proof.stored_id
      /\ stage_valid(new, EVIDENCE_STAGES)
  BY OneRecord DEF AllStages, CRYPTO_STAGES, EVIDENCE_STAGES
<1> HIDE DEF new
<1>3. \A S : stage_valid(checks', S) <=> stage_valid(checks, S) /\ stage_valid(new, S)
  BY <1>1, <1>2, AdvanceKeeps, ZenonT(30) DEF Inv, Stages
<1>4. ShapeInv'
  BY <1>1, ZenonT(30) DEF Inv, ShapeInv
<1>5. DataInv'
  BY <1>1, ZenonT(30) DEF Inv, DataInv, data
<1>6. RecordsInv'
  BY <1>1, <1>2, <1>3, ZenonT(30) DEF Inv, RecordsInv, CryptoSoFar, EvidenceSoFar
<1> QED
  BY <1>1, <1>2, <1>4, <1>5, <1>6, RecordStep, ZenonT(30) DEF Stages

\* The invariant is kept by Signatures.
LEMMA SignaturesStep == Inv /\ Signatures => Inv'
<1> SUFFICES ASSUME Inv, Signatures PROVE Inv'
  OBVIOUS
<1> USE DEF FromParse, FromSchema, FromCanonical, FromIdentifiers, FromTime, FromCollect,
            FromApply, FromRevocation, FromEvidence, FromGraph
<1> DEFINE new == SignatureChecks(proof, ctx)
<1>1. /\ pc = "SIGNATURES" /\ pc' = "TIME" /\ Advance("SIGNATURES", "TIME", new)
      /\ UNCHANGED <<proof, ctx, report, canonical_failed, time_failed, effects, applied, lifecycle, evidence_status, conflicts>>
      /\ verified' = AuthenticContents(proof, ctx)
  BY VerifiedIsAuthentic, ZenonT(30) DEF Signatures, Advance
<1>3. /\ \A k \in new : k.stage \in AllStages
      /\ stage_valid(new, CRYPTO_STAGES) <=> \A e \in proof.attestations : Authentic(e, ctx)
      /\ stage_valid(new, EVIDENCE_STAGES)
  BY SignatureRecords DEF AllStages, CRYPTO_STAGES
<1> HIDE DEF new
<1>4. /\ \A k \in checks' : k.stage \in AllStages
      /\ \A S : stage_valid(checks', S) <=> stage_valid(checks, S) /\ stage_valid(new, S)
  BY <1>1, <1>3, AdvanceKeeps, ZenonT(30) DEF Inv, Stages
<1>5. TypeOK'
  <2>1. verified' \subseteq { e.content : e \in proof.attestations }
    BY <1>1, ZenonT(30) DEF AuthenticContents
  <2>2. time_failed = {} /\ DOMAIN lifecycle = {}
    BY <1>1, ZenonT(30) DEF Inv, DataInv
  <2> QED
    BY <1>1, <1>4, <2>1, <2>2, ZenonT(30) DEF Inv, TypeOK, Stages, AllStages
<1>6. ShapeInv'
  BY <1>1, ZenonT(30) DEF Inv, ShapeInv
<1>7. DataInv'
  BY <1>1 DEF Inv, DataInv
<1>8. RecordsInv'
  BY <1>1, <1>3, <1>4, ZenonT(30) DEF Inv, RecordsInv, CryptoSoFar, EvidenceSoFar
<1>9. AnswerInv'
  BY <1>1, ZenonT(30) DEF AnswerInv
<1> QED
  BY <1>5, <1>6, <1>7, <1>8, <1>9, ZenonT(30) DEF Inv

\* The invariant is kept by Time.
LEMMA TimeStep == Inv /\ Time => Inv'
<1> SUFFICES ASSUME Inv, Time PROVE Inv'
  OBVIOUS
<1> USE DEF FromParse, FromSchema, FromCanonical, FromIdentifiers, FromTime, FromCollect,
            FromApply, FromRevocation, FromEvidence, FromGraph
<1> DEFINE new == TimeChecks(AuthenticContents(proof, ctx), ctx)
<1>1. /\ pc = "TIME" /\ pc' = "COLLECT" /\ Advance("TIME", "COLLECT", new)
      /\ UNCHANGED <<proof, ctx, report, canonical_failed, verified, effects, applied, lifecycle, evidence_status, conflicts>>
      /\ time_failed' = TimeFailed(AuthenticContents(proof, ctx), ctx)
  BY DEF Time, Advance, Inv, DataInv
<1>2. Question(proof, ctx)
  BY DEF Inv, ShapeInv
<1>3. /\ \A k \in new : k.stage \in AllStages
      /\ stage_valid(new, EVIDENCE_STAGES) <=> TimeRule(proof, ctx)
      /\ stage_valid(new, CRYPTO_STAGES)
  BY <1>2, TimeRecords DEF AllStages, EVIDENCE_STAGES
<1> HIDE DEF new
<1>4. /\ \A k \in checks' : k.stage \in AllStages
      /\ \A S : stage_valid(checks', S) <=> stage_valid(checks, S) /\ stage_valid(new, S)
  BY <1>1, <1>3, AdvanceKeeps, ZenonT(30) DEF Inv, Stages
<1>5. TypeOK'
  <2>1. time_failed' \subseteq Statements(verified)
    BY <1>1, ZenonT(30) DEF TimeFailed, Inv, DataInv
  <2> QED
    BY <1>1, <1>4, <2>1, ZenonT(30) DEF Inv, TypeOK, Stages, AllStages
<1>6. ShapeInv'
  BY <1>1, ZenonT(30) DEF Inv, ShapeInv
<1>7. DataInv'
  BY <1>1 DEF Inv, DataInv
<1>8. RecordsInv'
  BY <1>1, <1>3, <1>4, ZenonT(30) DEF Inv, RecordsInv, CryptoSoFar, EvidenceSoFar
<1>9. AnswerInv'
  BY <1>1, ZenonT(30) DEF AnswerInv
<1> QED
  BY <1>5, <1>6, <1>7, <1>8, <1>9, ZenonT(30) DEF Inv

\* The invariant is kept by CollectEffects.
LEMMA CollectEffectsStep == Inv /\ CollectEffects => Inv'
<1> SUFFICES ASSUME Inv, CollectEffects PROVE Inv'
  OBVIOUS
<1> USE DEF FromParse, FromSchema, FromCanonical, FromIdentifiers, FromTime, FromCollect,
            FromApply, FromRevocation, FromEvidence, FromGraph
<1> DEFINE new == CollectChecks(AuthenticContents(proof, ctx), ctx)
<1>1. /\ pc = "COLLECT" /\ pc' = "APPLY" /\ Advance("COLLECT", "APPLY", new)
      /\ UNCHANGED <<proof, ctx, report, canonical_failed, verified, time_failed, applied, lifecycle, evidence_status, conflicts>>
      /\ effects' = Effects(AuthenticContents(proof, ctx), ctx)
  BY DEF CollectEffects, Advance, Inv, DataInv
<1>3. /\ \A k \in new : k.stage \in AllStages
      /\ stage_valid(new, EVIDENCE_STAGES) /\ stage_valid(new, CRYPTO_STAGES)
  BY StatusRecords, ZenonT(30) DEF AllStages
<1> HIDE DEF new
<1>4. /\ \A k \in checks' : k.stage \in AllStages
      /\ \A S : stage_valid(checks', S) <=> stage_valid(checks, S) /\ stage_valid(new, S)
  BY <1>1, <1>3, AdvanceKeeps, ZenonT(30) DEF Inv, Stages
<1>5. TypeOK'
  <2>1. applied' \subseteq effects'
    BY <1>1, ZenonT(30) DEF Inv, DataInv
  <2> QED
    BY <1>1, <1>4, <2>1, ZenonT(30) DEF Inv, TypeOK, Stages, AllStages
<1>6. ShapeInv'
  BY <1>1, ZenonT(30) DEF Inv, ShapeInv
<1>7. DataInv'
  BY <1>1, ZenonT(30) DEF Inv, DataInv
<1>8. RecordsInv'
  BY <1>1, <1>3, <1>4, ZenonT(30) DEF Inv, RecordsInv, CryptoSoFar, EvidenceSoFar
<1>9. AnswerInv'
  BY <1>1, SMTT(30) DEF AnswerInv
<1> QED
  BY <1>5, <1>6, <1>7, <1>8, <1>9, ZenonT(30) DEF Inv

\* The invariant is kept by ApplyEffects.
LEMMA ApplyEffectsStep == Inv /\ ApplyEffects => Inv'
<1> SUFFICES ASSUME Inv, ApplyEffects PROVE Inv'
  OBVIOUS
<1> USE DEF FromParse, FromSchema, FromCanonical, FromIdentifiers, FromTime, FromCollect,
            FromApply, FromRevocation, FromEvidence, FromGraph
<1> DEFINE new == ApplyChecks(effects, proof, AuthenticContents(proof, ctx), ctx)
<1>1. /\ pc = "APPLY" /\ pc' = "REVOCATION" /\ Advance("APPLY", "REVOCATION", new)
      /\ UNCHANGED <<proof, ctx, report, canonical_failed, verified, time_failed, effects, lifecycle, evidence_status, conflicts>>
      /\ applied' = ActsInForce(proof, ctx)
  BY AppliedIsInForce DEF ApplyEffects, Advance, Inv, DataInv, ShapeInv
<1>3. /\ \A k \in new : k.stage \in AllStages
      /\ stage_valid(new, EVIDENCE_STAGES) /\ stage_valid(new, CRYPTO_STAGES)
  BY StatusRecords DEF AllStages
<1> HIDE DEF new
<1>4. /\ \A k \in checks' : k.stage \in AllStages
      /\ \A S : stage_valid(checks', S) <=> stage_valid(checks, S) /\ stage_valid(new, S)
  BY <1>1, <1>3, AdvanceKeeps, ZenonT(30) DEF Inv, Stages
<1>5. TypeOK'
  <2>1. applied' \subseteq effects'
    BY <1>1, AppliedIsInForce, ZenonT(30) DEF Inv, DataInv, Applied, ShapeInv
  <2> QED
    BY <1>1, <1>4, <2>1, ZenonT(30) DEF Inv, TypeOK, Stages, AllStages
<1>6. ShapeInv'
  BY <1>1, ZenonT(30) DEF Inv, ShapeInv
<1>7. DataInv'
  BY <1>1, ZenonT(30) DEF Inv, DataInv
<1>8. RecordsInv'
  BY <1>1, <1>3, <1>4, ZenonT(30) DEF Inv, RecordsInv, CryptoSoFar, EvidenceSoFar
<1>9. AnswerInv'
  BY <1>1, ZenonT(30) DEF AnswerInv
<1> QED
  BY <1>5, <1>6, <1>7, <1>8, <1>9, ZenonT(30) DEF Inv

\* The invariant is kept by Revocation.
LEMMA RevocationStep == Inv /\ Revocation => Inv'
<1> SUFFICES ASSUME Inv, Revocation PROVE Inv'
  OBVIOUS
<1> USE DEF FromParse, FromSchema, FromCanonical, FromIdentifiers, FromTime, FromCollect,
            FromApply, FromRevocation, FromEvidence, FromGraph
<1> DEFINE new == RevocationChecks(LifecycleOf(proof, ctx))
<1>1. /\ pc = "REVOCATION" /\ pc' = "EVIDENCE" /\ Advance("REVOCATION", "EVIDENCE", new)
      /\ UNCHANGED <<proof, ctx, report, canonical_failed, verified, time_failed, effects, applied, evidence_status, conflicts>>
      /\ lifecycle' = LifecycleOf(proof, ctx)
  BY ZenonT(30) DEF Revocation, Advance, Inv, DataInv, LifecycleOf
<1>2. Question(proof, ctx)
  BY DEF Inv, ShapeInv
<1>3. /\ \A k \in new : k.stage \in AllStages
      /\ stage_valid(new, EVIDENCE_STAGES) <=> RevocationRule(proof, ctx)
      /\ stage_valid(new, CRYPTO_STAGES)
  BY <1>2, RevocationRecords DEF AllStages, EVIDENCE_STAGES
<1> HIDE DEF new
<1>4. /\ \A k \in checks' : k.stage \in AllStages
      /\ \A S : stage_valid(checks', S) <=> stage_valid(checks, S) /\ stage_valid(new, S)
  BY <1>1, <1>3, AdvanceKeeps, ZenonT(30) DEF Inv, Stages
<1>5. TypeOK'
  <2>1. \A a \in DOMAIN lifecycle' : a \in verified /\ lifecycle'[a] \in LifecycleStatuses
    BY <1>1, LifecycleFacts, ZenonT(30) DEF Inv, DataInv, Statements
  <2> QED
    BY <1>1, <1>4, <2>1, ZenonT(30) DEF Inv, TypeOK, Stages, AllStages
<1>6. ShapeInv'
  BY <1>1, ZenonT(30) DEF Inv, ShapeInv
<1>7. DataInv'
  BY <1>1, ZenonT(30) DEF Inv, DataInv
<1>8. RecordsInv'
  BY <1>1, <1>3, <1>4, ZenonT(30) DEF Inv, RecordsInv, CryptoSoFar, EvidenceSoFar
<1>9. AnswerInv'
  BY <1>1, ZenonT(30) DEF AnswerInv
<1> QED
  BY <1>5, <1>6, <1>7, <1>8, <1>9, ZenonT(30) DEF Inv

\* The invariant is kept by Evidence.
LEMMA EvidenceStep == Inv /\ Evidence => Inv'
<1> SUFFICES ASSUME Inv, Evidence PROVE Inv'
  OBVIOUS
<1> USE DEF FromParse, FromSchema, FromCanonical, FromIdentifiers, FromTime, FromCollect,
            FromApply, FromRevocation, FromEvidence, FromGraph
<1> DEFINE new == EvidenceChecks(proof, LifecycleOf(proof, ctx),
                      EvidenceStatus(proof, ActsInForce(proof, ctx), LifecycleOf(proof, ctx)))
<1>1. /\ pc = "EVIDENCE" /\ pc' = "GRAPH" /\ Advance("EVIDENCE", "GRAPH", new)
      /\ UNCHANGED <<proof, ctx, report, canonical_failed, verified, time_failed, effects, applied, lifecycle, conflicts>>
      /\ evidence_status' = EvidenceStatus(proof, ActsInForce(proof, ctx), LifecycleOf(proof, ctx))
  BY ZenonT(30) DEF Evidence, Advance, Inv, DataInv
<1>2. Question(proof, ctx)
  BY DEF Inv, ShapeInv
<1>3. /\ \A k \in new : k.stage \in AllStages
      /\ RevocationRule(proof, ctx) =>
           (stage_valid(new, EVIDENCE_STAGES) <=> EvidenceRule(proof, ctx))
      /\ stage_valid(new, CRYPTO_STAGES)
  BY <1>2, EvidenceRecords DEF AllStages, EVIDENCE_STAGES
<1> HIDE DEF new
<1>4. /\ \A k \in checks' : k.stage \in AllStages
      /\ \A S : stage_valid(checks', S) <=> stage_valid(checks, S) /\ stage_valid(new, S)
  BY <1>1, <1>3, AdvanceKeeps, ZenonT(30) DEF Inv, Stages
<1>5. TypeOK'
  <2>1. DOMAIN evidence_status' \subseteq proof.evidence
    BY <1>1, ZenonT(30) DEF EvidenceStatus
  <2> QED
    BY <1>1, <1>4, <2>1, ZenonT(30) DEF Inv, TypeOK, Stages, AllStages
<1>6. ShapeInv'
  BY <1>1 DEF Inv, ShapeInv
<1>7. DataInv'
  BY <1>1, ZenonT(30) DEF Inv, DataInv
<1>8. RecordsInv'
  BY <1>1, <1>3, <1>4, ZenonT(30) DEF Inv, RecordsInv, CryptoSoFar, EvidenceSoFar
<1>9. AnswerInv'
  BY <1>1, ZenonT(30) DEF AnswerInv
<1> QED
  BY <1>5, <1>6, <1>7, <1>8, <1>9, ZenonT(30) DEF Inv

\* The invariant is kept by GraphStage.
LEMMA GraphStageStep == Inv /\ GraphStage => Inv'
<1> SUFFICES ASSUME Inv, GraphStage PROVE Inv'
  OBVIOUS
<1> USE DEF FromParse, FromSchema, FromCanonical, FromIdentifiers, FromTime, FromCollect,
            FromApply, FromRevocation, FromEvidence, FromGraph
<1> DEFINE new == GraphChecks(proof, ctx) \cup LinkageChecks(proof, ctx)
<1>1. /\ pc = "GRAPH" /\ pc' = "FINALIZE" /\ Advance("GRAPH", "FINALIZE", new)
      /\ UNCHANGED <<proof, ctx, report, canonical_failed, verified, time_failed, effects, applied, lifecycle, evidence_status>>
      /\ conflicts' = Conflicts(proof, verified)
  BY ZenonT(30) DEF GraphStage, Advance
<1>2. Question(proof, ctx) /\ LinkageShape(proof, ctx)
  BY <1>1 DEF Inv, ShapeInv
<1>3. /\ \A k \in new : k.stage \in AllStages
      /\ stage_valid(new, EVIDENCE_STAGES) <=> GraphHolds(proof, ctx)
      /\ stage_valid(new, CRYPTO_STAGES)
  BY <1>2, GraphRecords, ZenonT(30) DEF AllStages, EVIDENCE_STAGES
<1> HIDE DEF new
<1>4. /\ \A k \in checks' : k.stage \in AllStages
      /\ \A S : stage_valid(checks', S) <=> stage_valid(checks, S) /\ stage_valid(new, S)
  BY <1>1, <1>3, AdvanceKeeps, ZenonT(30) DEF Inv, Stages
<1>5. TypeOK'
  BY <1>1, <1>4, ZenonT(30) DEF Inv, TypeOK, Stages, AllStages
<1>6. ShapeInv'
  BY <1>1, ZenonT(30) DEF Inv, ShapeInv
<1>7. DataInv'
  BY <1>1 DEF Inv, DataInv
<1>8. RecordsInv'
  BY <1>1, <1>3, <1>4, ZenonT(30) DEF Inv, RecordsInv, CryptoSoFar, EvidenceSoFar
<1>9. AnswerInv'
  BY <1>1 DEF AnswerInv
<1> QED
  BY <1>5, <1>6, <1>7, <1>8, <1>9, ZenonT(30) DEF Inv

\* The invariant is kept by Return.
LEMMA ReturnStep == Inv /\ Return => Inv'
<1> SUFFICES ASSUME Inv, Return PROVE Inv'
  OBVIOUS
<1> USE DEF FromParse, FromSchema, FromCanonical, FromIdentifiers, FromTime, FromCollect,
            FromApply, FromRevocation, FromEvidence, FromGraph
<1>1. /\ pc = "FINALIZE" /\ pc' = "DONE" /\ report' = Finalize({proof.stored_id}, checks, TRUE)
      /\ UNCHANGED <<proof, ctx, checks, canonical_failed, data>>
  BY ZenonT(30) DEF Return
<1>2. /\ ~CallerMisuse(ctx) /\ WellFormedProof(proof, ctx) /\ (canonical_failed <=> ~proof.canonical)
      /\ canonical_failed \in BOOLEAN
  BY <1>1, ZenonT(30) DEF Inv, ShapeInv, TypeOK, WellFormedProof
<1>3. stage_valid(checks, CRYPTO_STAGES) <=> CryptoHolds(proof, ctx)
  BY <1>1, <1>2, ZenonT(30) DEF Inv, RecordsInv, CryptoSoFar, CryptoHolds
<1>4. stage_valid(checks, EVIDENCE_STAGES) /\ ~canonical_failed <=> EvidenceHolds(proof, ctx)
  BY <1>1, <1>2, RulesMakeEvidenceHold, ZenonT(30) DEF Inv, RecordsInv, EvidenceSoFar
<1>5. /\ report'.outcome = "report" /\ report'.lifecycle_checked = TRUE
      /\ report'.status_inputs \in BOOLEAN
      /\ report'.crypto = stage_valid(checks, CRYPTO_STAGES)
      /\ report'.evidence = (TRUE /\ stage_valid(checks, EVIDENCE_STAGES) /\ ~canonical_failed)
  BY <1>1 DEF Finalize, stage_valid
<1>6. /\ report'.crypto \in BOOLEAN /\ report'.evidence \in BOOLEAN
      /\ report'.crypto <=> stage_valid(checks, CRYPTO_STAGES)
      /\ report'.evidence <=> (stage_valid(checks, EVIDENCE_STAGES) /\ ~canonical_failed)
  BY <1>5, ZenonT(30) DEF stage_valid
<1>7. TypeOK'
  BY <1>1, <1>5, <1>6, ZenonT(30) DEF Inv, TypeOK, data, Stages
<1>8. ShapeInv' /\ DataInv' /\ RecordsInv'
  BY <1>1 DEF Inv, ShapeInv, DataInv, RecordsInv
<1>9. VerdictCorrect'
  BY <1>1, <1>3, <1>4, <1>6, ZenonT(30) DEF VerdictCorrect
<1>10. InvalidCarriesCode'
  <2>1. ~stage_valid(checks, CRYPTO_STAGES)
          => \E k \in checks : k.stage \in CRYPTO_STAGES /\ k.code # "OK"
    BY DEF stage_valid
  <2>2. ~stage_valid(checks, EVIDENCE_STAGES)
          => \E k \in checks : k.stage \in EVIDENCE_STAGES /\ k.code # "OK"
    BY ZenonT(30) DEF stage_valid
  <2>3. canonical_failed => ~stage_valid(checks, CRYPTO_STAGES)
    BY <1>1, <1>2, ZenonT(30) DEF Inv, RecordsInv, CryptoSoFar
  <2> QED
    BY <1>1, <1>5, <1>6, <2>1, <2>2, <2>3, ZenonT(30) DEF InvalidCarriesCode
<1>11. AnswerInv'
  BY <1>1, <1>2, <1>5, <1>9, <1>10, ZenonT(30) DEF AnswerInv
<1> QED
  BY <1>7, <1>8, <1>11, ZenonT(30) DEF Inv

\* A stuttering step keeps the invariant.
LEMMA StutterStep == Inv /\ UNCHANGED vars => Inv'
<1> SUFFICES ASSUME Inv, UNCHANGED vars PROVE Inv'
  OBVIOUS
<1>1. /\ UNCHANGED <<proof, ctx, pc, checks, canonical_failed, verified, time_failed>>
      /\ UNCHANGED <<effects, applied, lifecycle, evidence_status, conflicts, report>>
  BY ZenonT(30) DEF vars
<1>2. TypeOK'
  BY <1>1, ZenonT(30) DEF Inv, TypeOK
<1>3. ShapeInv'
  BY <1>1, ZenonT(30) DEF Inv, ShapeInv
<1>4. DataInv'
  BY <1>1 DEF Inv, DataInv
<1>5. RecordsInv'
  BY <1>1, ZenonT(30) DEF Inv, RecordsInv, CryptoSoFar, EvidenceSoFar
<1>6. AnswerInv'
  BY <1>1, ZenonT(30) DEF Inv, AnswerInv, VerdictCorrect, InvalidCarriesCode
<1> QED
  BY <1>2, <1>3, <1>4, <1>5, <1>6, ZenonT(30) DEF Inv

\* Every step keeps the invariant: one case per stage.
LEMMA NextInv == Inv /\ [Next]_vars => Inv'
BY ZenonT(30), CallStep, ParseStep, SchemaStep, CanonicalStep, IdentifiersStep, SignaturesStep, TimeStep,
   CollectEffectsStep, ApplyEffectsStep, RevocationStep, EvidenceStep, GraphStageStep,
   ReturnStep, StutterStep
   DEF Next, Returned

\* The inductive invariant holds in every state of the pipeline.
LEMMA Invariance == Spec => []Inv
BY InitInv, NextInv, PTL DEF Spec

-----------------------------------------------------------------------------
(* The theorems *)

\* What verify_proof's stages hand on to each other stays within bounds.
THEOREM TypeCorrect == Spec => []TypeOK
<1>1. Inv => TypeOK
  BY ZenonT(30) DEF Inv
<1> QED
  BY <1>1, Invariance, PTL

\* The two validities that verify_proof reports are those the proof deserves
\* under the context, for every proof and every context.
THEOREM ReportIsCorrect == Spec => []VerdictCorrect
<1>1. Inv => VerdictCorrect
  <2>1. pc # "DONE" /\ Inv => report.outcome = "pending"
    BY DEF Inv, ShapeInv, NoReport
  <2>2. pc = "DONE" /\ Inv => VerdictCorrect \/ report.outcome = "error"
    BY ZenonT(30) DEF Inv, AnswerInv, Misuse, NoReport
  <2> QED
    BY <2>1, <2>2, ZenonT(30) DEF VerdictCorrect
<1> QED
  BY <1>1, Invariance, PTL

\* verify_proof never reports Invalid without a record that says why, and
\* never reports valid evidence from an early exit.
THEOREM InvalidIsExplained == Spec => []InvalidCarriesCode
<1>1. Inv => InvalidCarriesCode
  <2>1. pc # "DONE" /\ Inv => report.outcome = "pending"
    BY DEF Inv, ShapeInv, NoReport
  <2>2. pc = "DONE" /\ Inv => InvalidCarriesCode \/ report.outcome = "error"
    BY DEF Inv, AnswerInv, Misuse, NoReport
  <2> QED
    BY <2>1, <2>2 DEF InvalidCarriesCode
<1> QED
  BY <1>1, Invariance, PTL

\* The inputs do not change, and nothing changes after the return.
LEMMA InputsFixed ==
  [Next]_vars => /\ UNCHANGED <<proof, ctx>>
                 /\ pc = "DONE" => UNCHANGED vars
BY ZenonT(30) DEF Next, Call, Parse, Schema, Canonical, Identifiers, Signatures, Time, CollectEffects,
       ApplyEffects, Revocation, Evidence, GraphStage, Return, Returned, Advance, ExitEarly, vars

\* Each step of the pipeline is a step of ProofVerdict or leaves the answer
\* alone: the answer is given once, and it is the right one.
THEOREM GivesTheVerdict == Spec => Verdict!Init /\ [][Verdict!Answer]_(Verdict!vars)
<1>1. Init => Verdict!Init
  BY DEF Init, Verdict!Init, NoReport
<1>2. Inv /\ Inv' /\ [Next]_vars => [Verdict!Answer]_(Verdict!vars)
  <2> SUFFICES ASSUME Inv, Inv', [Next]_vars PROVE [Verdict!Answer]_(Verdict!vars)
    BY ZenonT(30)
  <2>1. CASE pc = "DONE"
    BY <2>1, InputsFixed, ZenonT(30) DEF vars, Verdict!vars
  <2>2. CASE pc # "DONE" /\ pc' # "DONE"
    BY <2>2, InputsFixed DEF Inv, ShapeInv, Verdict!vars
  <2>3. CASE pc # "DONE" /\ pc' = "DONE"
    <3>1. report.outcome = "pending" /\ UNCHANGED <<proof, ctx>>
      <4>1. report = NoReport
        BY <2>3, ZenonT(30) DEF Inv, ShapeInv
      <4>2. report.outcome = "pending"
        BY <4>1 DEF NoReport
      <4> QED
        BY <4>2, InputsFixed, ZenonT(30)
    <3>2. \/ CallerMisuse(ctx) /\ report' = Misuse
          \/ ~CallerMisuse(ctx) /\ report'.outcome = "report" /\ VerdictCorrect'
      BY <2>3, <3>1, ZenonT(30) DEF Inv, AnswerInv
    <3>3. report'.crypto \in BOOLEAN /\ report'.evidence \in BOOLEAN
      BY DEF Inv, TypeOK
    <3>4. CASE CallerMisuse(ctx) /\ report' = Misuse
      <4>1. report'.outcome = "error" /\ report'.crypto = FALSE /\ report'.evidence = FALSE
        BY <3>4, ZenonT(30) DEF Misuse, NoReport
      <4> QED
        BY <3>1, <3>4, <4>1, ZenonT(30) DEF Verdict!Answer
    <3>5. CASE ~CallerMisuse(ctx) /\ report'.outcome = "report" /\ VerdictCorrect'
      <4>1. /\ report'.crypto <=> CryptoHolds(proof, ctx)
            /\ report'.evidence <=> EvidenceHolds(proof, ctx)
        BY <3>1, <3>5, ZenonT(30) DEF VerdictCorrect
      <4>2. /\ report'.crypto = (~CallerMisuse(ctx) /\ CryptoHolds(proof, ctx))
            /\ report'.evidence = (~CallerMisuse(ctx) /\ EvidenceHolds(proof, ctx))
        BY <3>3, <3>5, <4>1
      <4> QED
        BY <3>1, <3>5, <4>2, ZenonT(30) DEF Verdict!Answer
    <3> QED
      BY <3>2, <3>4, <3>5, ZenonT(30)
  <2> QED
    BY <2>1, <2>2, <2>3
<1> QED
  BY <1>1, <1>2, Invariance, PTL DEF Spec
=============================================================================
