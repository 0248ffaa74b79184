----------------------------- MODULE MCSeenGate -----------------------------
(***************************************************************************)
(* Two store files and two keys.  Every way to use the store on every      *)
(* file and key with good inputs, and one job for each way the inputs can  *)
(* be bad.                                                                 *)
(***************************************************************************)
EXTENDS SeenGate, TLC

CONSTANTS f1, f2, k1, k2, i1, i2, i3

Good(cmd, use, file, key) ==
  [ cmd |-> cmd, usage_ok |-> TRUE, statuses_ok |-> TRUE, emit_ok |-> TRUE,
    load |-> "ok", valid |-> TRUE, acceptable |-> TRUE, strict |-> TRUE,
    decision |-> "pass", seen |-> use, file |-> file, key |-> key ]

Accepting ==
  { Good("verify", "record", f1, k1), Good("evaluate", "record", f1, k1),
    Good("verify", "record", f1, k2), Good("verify", "check", f1, k1),
    Good("verify", "record", f2, k1), Good("verify", "off", f1, k1) }

Bad(cmd) ==
  LET g == Good(cmd, "record", f1, k2)
  IN { [g EXCEPT !.usage_ok = FALSE], [g EXCEPT !.statuses_ok = FALSE],
       [g EXCEPT !.acceptable = FALSE], [g EXCEPT !.emit_ok = FALSE],
       [g EXCEPT !.load = "mismatch"], [g EXCEPT !.load = "refused"],
       [g EXCEPT !.load = "content", !.valid = FALSE, !.decision = "indeterminate"],
       [g EXCEPT !.valid = FALSE, !.decision = "indeterminate"],
       [g EXCEPT !.decision = "fail"] }

\* Invocations differ only in their jobs.
Symmetry == Permutations(Invocations)

MCJobs == Accepting \cup Bad("verify") \cup Bad("evaluate")
=============================================================================
