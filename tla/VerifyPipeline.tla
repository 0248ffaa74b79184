--------------------------- MODULE VerifyPipeline ---------------------------
(***************************************************************************)
(* verify_proof (proof-verify/src/pipeline.rs) as a state machine: one     *)
(* action per stage, in the order of the code, with its early exits.       *)
(***************************************************************************)
EXTENDS VerdictRules

\* The questions asked: each stands for a proof and a verification context.
CONSTANTS Inputs, ProofOf(_), CtxOf(_)

\* What decoding guarantees of a proof and the types of VerifyCtx.  A digest of
\* an evidence item is bytes, never the malformed text a claim may carry.
Question(p, c) ==
  /\ c.verified_at \in 0..U64Max /\ c.clock_skew_leeway \in 0..U64Max
  /\ c.revocations_known_at \subseteq 0..U64Max
  /\ \A t, u \in c.revocations_known_at : t = u
  /\ IsFiniteSet(p.referenced_proofs) /\ c.limits.max_referenced_proofs \in Nat
  /\ \A ev \in p.evidence : ev.digest # "malformed"
  /\ \A e \in p.attestations :
       /\ e.content.issued_at \in 0..U64Max /\ e.content.expires_at \subseteq 0..U64Max
       /\ \A d, f \in e.content.claim.digest : d = f

ASSUME InputsAssumption == \A i \in Inputs : Question(ProofOf(i), CtxOf(i))

VARIABLES
  proof, ctx,        \* the inputs: what the bytes decode to, and VerifyCtx
  pc,                \* the stage to run next; "DONE" once verify_proof returned
  checks,            \* the check records so far
  canonical_failed,
  verified,          \* contents of the attestations whose signature held
  time_failed,       \* the verified statements outside their validity window
  effects, applied,  \* status effects collected, and those that apply
  lifecycle,         \* status of every verified statement
  evidence_status,   \* status of every evidence item
  conflicts,
  report             \* what was returned

vars == <<proof, ctx, pc, checks, canonical_failed, verified, time_failed,
          effects, applied, lifecycle, evidence_status, conflicts, report>>

data == <<verified, time_failed, effects, applied, lifecycle, evidence_status, conflicts>>

NoReport ==
  [outcome |-> "pending", proof_id |-> {}, crypto |-> FALSE, evidence |-> FALSE,
   status_inputs |-> FALSE, lifecycle_checked |-> FALSE, withdrawn |-> {}]

Misuse == [NoReport EXCEPT !.outcome = "error"]

\* Mutant: evidence validity is vacuous where the evidence stages never ran.
Finalize_Vacuous(proof_id, cs, lifecycle_checked) ==
  [outcome |-> "report", proof_id |-> proof_id,
   crypto |-> stage_valid(cs, CRYPTO_STAGES),
   evidence |-> stage_valid(cs, EVIDENCE_STAGES),
   status_inputs |-> stage_valid(cs, {"STATUS"}),
   lifecycle_checked |-> lifecycle_checked, withdrawn |-> Withdrawn(applied)]

\* finalize, and verify_proof's last word on non-canonical bytes.
Finalize(proof_id, cs, lifecycle_checked) ==
  [outcome |-> "report", proof_id |-> proof_id,
   crypto |-> stage_valid(cs, CRYPTO_STAGES),
   evidence |-> lifecycle_checked /\ stage_valid(cs, EVIDENCE_STAGES) /\ ~canonical_failed,
   status_inputs |-> stage_valid(cs, {"STATUS"}),
   lifecycle_checked |-> lifecycle_checked, withdrawn |-> Withdrawn(applied)]

Init ==
  /\ \E i \in Inputs : proof = ProofOf(i) /\ ctx = CtxOf(i)
  /\ pc = "CALL" /\ checks = {} /\ canonical_failed = FALSE
  /\ verified = {} /\ time_failed = {} /\ effects = {} /\ applied = {}
  /\ lifecycle = <<>> /\ evidence_status = <<>> /\ conflicts = {}
  /\ report = NoReport

\* Leave stage `from`, adding records, for the next one.
Advance(from, to, new) ==
  /\ pc = from /\ pc' = to
  /\ checks' = checks \cup new
  /\ UNCHANGED <<proof, ctx, report>>

\* Leave stage `from` by returning a report before the later stages ran.
ExitEarly(from, proof_id, new) ==
  /\ pc = from /\ pc' = "DONE"
  /\ checks' = checks \cup new
  /\ report' = Finalize(proof_id, checks', FALSE)
  /\ UNCHANGED <<proof, ctx, data>>

Call ==
  /\ pc = "CALL"
  /\ IF CallerMisuse(ctx) THEN pc' = "DONE" /\ report' = Misuse
                          ELSE pc' = "PARSE" /\ UNCHANGED report
  /\ UNCHANGED <<proof, ctx, checks, canonical_failed, data>>

Parse ==
  /\ IF proof.decodes THEN Advance("PARSE", "SCHEMA", {Ok("PARSE", TheProof)}) /\ UNCHANGED data
                      ELSE ExitEarly("PARSE", {}, {Fail("PARSE", TheProof, "MALFORMED")})
  /\ UNCHANGED canonical_failed

Schema ==
  /\ IF proof.schema_ok /\ LinkageShape(proof, ctx)
     THEN Advance("SCHEMA", "CANONICAL", {Ok("SCHEMA", TheProof)}) /\ UNCHANGED data
     ELSE ExitEarly("SCHEMA", {}, {Fail("SCHEMA", TheProof, "SCHEMA_VIOLATION")})
  /\ UNCHANGED canonical_failed

\* Non-canonical bytes end the run unless every failure is to be reported.
Canonical ==
  LET nc == Fail("CANONICAL", TheProof, "NON_CANONICAL")
  IN \/ /\ proof.canonical
        /\ Advance("CANONICAL", "IDENTIFIERS", {Ok("CANONICAL", TheProof)})
        /\ UNCHANGED <<canonical_failed, data>>
     \/ /\ ~proof.canonical /\ ctx.report_all_failures
        /\ Advance("CANONICAL", "IDENTIFIERS", {nc})
        /\ canonical_failed' = TRUE /\ UNCHANGED data
     \/ /\ ~proof.canonical /\ ~ctx.report_all_failures
        /\ ExitEarly("CANONICAL", {proof.stored_id}, {nc})
        /\ canonical_failed' = TRUE

\* An id mismatch is recorded; the later stages run all the same.
Identifiers ==
  /\ Advance("IDENTIFIERS", "SIGNATURES",
             {Check("IDENTIFIERS", TheProof,
                    IF proof.recomputed_id = proof.stored_id THEN "OK" ELSE "ID_MISMATCH")})
  /\ UNCHANGED <<canonical_failed, data>>

Signatures ==
  /\ Advance("SIGNATURES", "TIME", SignatureChecks(proof, ctx))
  /\ verified' = Verified(proof, ctx)
  /\ UNCHANGED <<canonical_failed, time_failed, effects, applied, lifecycle,
                 evidence_status, conflicts>>

Time ==
  /\ Advance("TIME", "COLLECT", TimeChecks(verified, ctx))
  /\ time_failed' = TimeFailed(verified, ctx)
  /\ UNCHANGED <<canonical_failed, verified, effects, applied, lifecycle,
                 evidence_status, conflicts>>

CollectEffects ==
  /\ Advance("COLLECT", "APPLY", CollectChecks(verified, ctx))
  /\ effects' = Effects(verified, ctx)
  /\ UNCHANGED <<canonical_failed, verified, time_failed, applied, lifecycle,
                 evidence_status, conflicts>>

ApplyEffects ==
  /\ Advance("APPLY", "REVOCATION", ApplyChecks(effects, proof, verified, ctx))
  /\ applied' = Applied(effects, proof, verified, ctx)
  /\ UNCHANGED <<canonical_failed, verified, time_failed, effects, lifecycle,
                 evidence_status, conflicts>>

Revocation ==
  /\ lifecycle' = Lifecycle(verified, applied, time_failed, RevocationStale(verified, ctx))
  /\ Advance("REVOCATION", "EVIDENCE", RevocationChecks(lifecycle'))
  /\ UNCHANGED <<canonical_failed, verified, time_failed, effects, applied,
                 evidence_status, conflicts>>

Evidence ==
  /\ evidence_status' = EvidenceStatus(proof, applied, lifecycle)
  /\ Advance("EVIDENCE", "GRAPH", EvidenceChecks(proof, lifecycle, evidence_status'))
  /\ UNCHANGED <<canonical_failed, verified, time_failed, effects, applied, lifecycle,
                 conflicts>>

GraphStage ==
  /\ Advance("GRAPH", "FINALIZE", GraphChecks(proof, ctx) \cup LinkageChecks(proof, ctx))
  /\ conflicts' = Conflicts(proof, verified)
  /\ UNCHANGED <<canonical_failed, verified, time_failed, effects, applied, lifecycle,
                 evidence_status>>

Return ==
  /\ pc = "FINALIZE" /\ pc' = "DONE"
  /\ report' = Finalize({proof.stored_id}, checks, TRUE)
  /\ UNCHANGED <<proof, ctx, checks, canonical_failed, data>>

\* The call has returned.
Returned == pc = "DONE" /\ UNCHANGED vars

Next ==
  \/ Call \/ Parse \/ Schema \/ Canonical \/ Identifiers \/ Signatures \/ Time
  \/ CollectEffects \/ ApplyEffects \/ Revocation \/ Evidence \/ GraphStage
  \/ Return \/ Returned

\* The stages are straight-line code without a wait: verify_proof keeps going.
Spec == Init /\ [][Next]_vars /\ WF_vars(Next)

-----------------------------------------------------------------------------
Stages == {"CALL", "PARSE", "SCHEMA", "CANONICAL", "IDENTIFIERS", "SIGNATURES", "TIME",
           "COLLECT", "APPLY", "REVOCATION", "EVIDENCE", "GRAPH", "FINALIZE", "DONE"}

LifecycleStatuses ==
  {"COMPROMISED", "REVOKED", "SUPERSEDED", "EXPIRED", "UNKNOWN", "ACTIVE"}

\* Type correctness: what the stages hand on stays within what they were
\* given (verified comes from the proof, applied from the effects, the
\* lifecycle covers verified statements only), and the report is a report.
TypeOK ==
  /\ pc \in Stages
  /\ canonical_failed \in BOOLEAN
  /\ \A k \in checks : k.stage \in CRYPTO_STAGES \cup EVIDENCE_STAGES \cup {"STATUS"}
  /\ verified \subseteq { e.content : e \in proof.attestations }
  /\ time_failed \subseteq Statements(verified)
  /\ applied \subseteq effects
  /\ \A a \in DOMAIN lifecycle : a \in verified /\ lifecycle[a] \in LifecycleStatuses
  /\ DOMAIN evidence_status \subseteq proof.evidence
  /\ report.outcome \in {"pending", "error", "report"}
  /\ report.crypto \in BOOLEAN /\ report.evidence \in BOOLEAN
  /\ report.status_inputs \in BOOLEAN /\ report.lifecycle_checked \in BOOLEAN

Verdict == INSTANCE ProofVerdict
             WITH outcome <- report.outcome, crypto <- report.crypto,
                  evidence <- report.evidence

\* The pipeline implements the one-step specification: whatever the stages
\* record and wherever they exit, the first answer is the final one, it is
\* the verdict the inputs deserve, and it is eventually given.
ImplementsVerdict == Verdict!Spec

\* The two validities of the report are exactly what the inputs deserve:
\* collecting failures stage by stage neither loses nor invents a reason.
VerdictCorrect ==
  report.outcome = "report" =>
    /\ report.crypto <=> CryptoHolds(proof, ctx)
    /\ report.evidence <=> EvidenceHolds(proof, ctx)

\* An Invalid verdict always says why: some record of a stage that counts
\* towards it carries an error code; and a run that stopped early never
\* reports valid evidence.
InvalidCarriesCode ==
  report.outcome = "report" =>
    /\ ~report.crypto => \E k \in checks : k.stage \in CRYPTO_STAGES /\ k.code # "OK"
    /\ ~report.evidence =>
         \E k \in checks : k.stage \in CRYPTO_STAGES \cup EVIDENCE_STAGES /\ k.code # "OK"
    /\ ~report.lifecycle_checked => ~report.evidence

-----------------------------------------------------------------------------
(* Feed hygiene: the verdict under one feed compared with another feed. *)

WithFeed(feed) == [ctx EXCEPT !.status_objects = feed]

\* A supplied status object that is authentic, well-formed, authorised and
\* not from the future.
EffectiveObject(s) ==
  LET f == StatusEffect(s.sign1.payload, TheProof)
  IN /\ StatusObjectCode(s, ctx) = "OK"
     /\ Entitled(f, proof, ctx)
     /\ Timely(f, ctx)

EffectiveFeed == SelectSeq(ctx.status_objects, EffectiveObject)

\* Status objects that have no effect change nothing about evidence validity,
\* as long as dropping them does not leave a required feed empty.
IneffectiveStatusIgnored ==
  report.outcome = "report" /\ (EffectiveFeed # <<>> \/ ~ctx.require_status_feed) =>
    report.evidence = EvidenceHolds(proof, WithFeed(EffectiveFeed))

\* The hygiene rule as the STATUS_STAGE comment states it, without exception:
\* ineffective status objects never flip evidence validity.
IneffectiveNeverFlips ==
  report.outcome = "report" =>
    report.evidence = EvidenceHolds(proof, WithFeed(EffectiveFeed))

\* The cutoff as the specification states it: a well-formed act by someone
\* entitled to it applies if it is not future-dated, give or take the leeway.
StatusWithinSkewApplies ==
  report.outcome = "report" /\ report.lifecycle_checked /\ 0 < ctx.verified_at =>
    \A f \in effects :
      /\ Entitled(f, proof, ctx)
      /\ f.issued_at <= ctx.verified_at + ctx.clock_skew_leeway
      => f \in applied

\* Learning more never makes evidence look better: what is valid under the
\* whole feed was valid under every non-empty beginning of it, unless the
\* knowledge is stale (then a supersession turns UNKNOWN into SUPERSEDED).
LongerFeedNeverHelps ==
  report.outcome = "report" /\ report.evidence /\ ~RevocationStale(verified, ctx) =>
    \A n \in 1..Len(ctx.status_objects) :
      EvidenceHolds(proof, WithFeed(SubSeq(ctx.status_objects, 1, n)))

-----------------------------------------------------------------------------
(* Relationships: what documentation says a graph may contain. *)

\* A relationship that the conflict stage records as a contradiction: a
\* CONTRADICTS edge between two verified statements.
RecordedContradiction(r) ==
  /\ r.rel_type = "CONTRADICTS"
  /\ {r.from, r.to} \subseteq { a.id : a \in Statements(verified) }

\* Oppositions are recorded and never arbitrated: for a relationship list that
\* validates, validity is what it would be without the recorded contradictions.
ContradictionsNeverArbitrated ==
  (/\ report.outcome = "report" /\ report.lifecycle_checked
   /\ ~ctx.require_acyclic_provenance
   /\ ValidateGraph(proof.relationships, NodeSet(proof), ctx.limits, ctx.extra_grounded) = "OK")
  =>
    LET others == SelectSeq(proof.relationships, LAMBDA r : ~RecordedContradiction(r))
    IN EvidenceHolds([proof EXCEPT !.relationships = others], ctx) => report.evidence

\* Without the acyclic-provenance profile only the SUPERSEDES subgraph has to
\* be acyclic; any other cycle of relationships is valid linkage.
DefaultProfileAllowsCycles ==
  (/\ report.outcome = "report" /\ ~ctx.require_acyclic_provenance
   /\ \E k \in checks : k.stage = "GRAPH" /\ k.code = "CYCLE_DETECTED")
  =>  \/ HasCycle(SupNodes(proof.relationships), SupPairs(proof.relationships))
      \/ proof.stored_id \in proof.referenced_proofs
=============================================================================
