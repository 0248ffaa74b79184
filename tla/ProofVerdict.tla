---------------------------- MODULE ProofVerdict ----------------------------
(***************************************************************************)
(* What verify_proof promises its caller: one step from a question, a      *)
(* proof and a verification context, to an answer.  VerifyPipeline is      *)
(* shown to implement this specification, with the rules of VerdictRules.  *)
(***************************************************************************)
CONSTANTS CallerMisuse(_), CryptoHolds(_, _), EvidenceHolds(_, _)

VARIABLES proof, ctx, outcome, crypto, evidence

vars == <<proof, ctx, outcome, crypto, evidence>>

\* Any question may be asked.
Init ==
  /\ outcome = "pending" /\ crypto = FALSE /\ evidence = FALSE

\* A misused call gets an error; any other gets the two verdicts.
Answer ==
  /\ outcome = "pending"
  /\ outcome' = IF CallerMisuse(ctx) THEN "error" ELSE "report"
  /\ crypto' = (~CallerMisuse(ctx) /\ CryptoHolds(proof, ctx))
  /\ evidence' = (~CallerMisuse(ctx) /\ EvidenceHolds(proof, ctx))
  /\ UNCHANGED <<proof, ctx>>

Spec == Init /\ [][Answer]_vars /\ WF_vars(Answer)
=============================================================================
