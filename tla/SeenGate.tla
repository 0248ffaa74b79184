------------------------------ MODULE SeenGate ------------------------------
(***************************************************************************)
(* The verify and evaluate commands (proof-cli/src/make.rs) with the       *)
(* replay gate of proof-cli/src/seen.rs: invocations that share store      *)
(* files, crash, and fail to write.                                        *)
(*                                                                         *)
(* An invocation's job says what its inputs make of each step; reading and *)
(* writing the store file are steps of their own.  A write empties the     *)
(* file before it fills it, so a file may be left garbled.                 *)
(***************************************************************************)

CONSTANTS
  Invocations,  \* runs of the program
  Jobs,         \* what an invocation may be asked
  Files, Keys   \* store files, and keys "<context>::<proof id>"

\* A job: the command; whether its arguments are good, its status files load and
\* give a context that verify_proof takes, and its output path can be written;
\* how loading the proof ends; what the report and the policy say; whether the
\* mode is strict; and the use made of the store.
Job == [ cmd : {"verify", "evaluate"}, usage_ok : BOOLEAN, statuses_ok : BOOLEAN,
         emit_ok : BOOLEAN, load : {"ok", "mismatch", "content", "refused"},
         valid : BOOLEAN, acceptable : BOOLEAN, strict : BOOLEAN,
         decision : {"pass", "fail", "indeterminate"},
         seen : {"off", "check", "record"}, file : Files, key : Keys ]

\* Content that does not decode is not valid, and policy passes only the valid.
ASSUME JobsAssumption ==
  /\ Jobs \subseteq Job
  /\ \A j \in Jobs : /\ j.load = "content" => ~j.valid
                     /\ j.decision = "pass" => j.valid

VARIABLES
  job, pc,  \* per invocation; pc ends as "exited" or "crashed"
  exit,     \* exit code, or "none"
  seen,     \* the key set load_seen returned
  store     \* per file: its state and the keys it holds

vars == <<job, pc, exit, seen, store>>

EXIT_OK == "OK"
EXIT_FAIL == "FAIL"
EXIT_ERR == "ERR"

-----------------------------------------------------------------------------
(* The verdict: an exit code, or "gate" when there is an acceptance to guard. *)

VerifyVerdict(j) ==
  IF ~j.usage_ok \/ j.load = "refused" THEN EXIT_ERR
  ELSE IF j.load # "ok" THEN (IF j.emit_ok THEN EXIT_FAIL ELSE EXIT_ERR)
  ELSE IF ~j.statuses_ok \/ ~j.emit_ok THEN EXIT_ERR
  ELSE IF (j.strict /\ ~j.acceptable) \/ ~j.valid THEN EXIT_FAIL
  ELSE "gate"

\* Mutant: evaluate forgets the currency overlay of strict mode.
EvaluateVerdict_NoCurrency(j) ==
  IF j.load # "ok" \/ ~j.usage_ok \/ ~j.statuses_ok \/ ~j.emit_ok THEN EXIT_ERR
  ELSE IF j.decision # "pass" THEN EXIT_FAIL
  ELSE "gate"

EvaluateVerdict(j) ==
  IF j.load # "ok" \/ ~j.usage_ok \/ ~j.statuses_ok \/ ~j.emit_ok THEN EXIT_ERR
  ELSE IF (j.strict /\ ~j.acceptable) \/ j.decision # "pass" THEN EXIT_FAIL
  ELSE "gate"

VerdictOf(j) == IF j.cmd = "verify" THEN VerifyVerdict(j) ELSE EvaluateVerdict(j)

-----------------------------------------------------------------------------
Idle == "idle"

Running(p) == pc[p] \notin {Idle, "exited", "crashed"}

Init ==
  /\ job \in [Invocations -> Jobs]
  /\ pc = [p \in Invocations |-> Idle]
  /\ exit = [p \in Invocations |-> "none"]
  /\ seen = [p \in Invocations |-> {}]
  /\ store = [f \in Files |-> [state |-> "absent", keys |-> {}]]

Exit(p, code) ==
  /\ pc' = [pc EXCEPT ![p] = "exited"]
  /\ exit' = [exit EXCEPT ![p] = code]

\* The caller's side of the contract: calls on one store file are serialized.
Start(p) ==
  /\ pc[p] = Idle
  /\ \A q \in Invocations : Running(q) => job[q].file # job[p].file
  /\ pc' = [pc EXCEPT ![p] = "judge"]
  /\ UNCHANGED <<job, exit, seen, store>>

\* Mutant: the gate is consulted whatever the verdict.
Judge_GateAlways(p) ==
  /\ pc[p] = "judge"
  /\ IF job[p].seen # "off"
     THEN pc' = [pc EXCEPT ![p] = "read"] /\ UNCHANGED exit
     ELSE Exit(p, IF VerdictOf(job[p]) = "gate" THEN EXIT_OK ELSE VerdictOf(job[p]))
  /\ UNCHANGED <<job, seen, store>>

Judge(p) ==
  /\ pc[p] = "judge"
  /\ IF VerdictOf(job[p]) = "gate" /\ job[p].seen # "off"
     THEN pc' = [pc EXCEPT ![p] = "read"] /\ UNCHANGED exit
     ELSE Exit(p, IF VerdictOf(job[p]) = "gate" THEN EXIT_OK ELSE VerdictOf(job[p]))
  /\ UNCHANGED <<job, seen, store>>

\* Mutant: a store that cannot be parsed counts as empty.
Gate_GarbledIsEmpty(p) ==
  LET s == store[job[p].file]
  IN /\ pc[p] = "read"
     /\ IF job[p].key \in s.keys /\ s.state # "garbled" THEN Exit(p, EXIT_FAIL) /\ UNCHANGED seen
        ELSE IF job[p].seen = "check" THEN Exit(p, EXIT_OK) /\ UNCHANGED seen
        ELSE /\ pc' = [pc EXCEPT ![p] = "write"]
             /\ seen' = [seen EXCEPT ![p] = s.keys \cup {job[p].key}]
             /\ UNCHANGED exit
     /\ UNCHANGED <<job, store>>

\* Mutant: inserts the path of the store instead of the key.
Gate_PathAsKey(p) ==
  LET s == store[job[p].file]
  IN /\ pc[p] = "read"
     /\ IF s.state = "garbled" THEN Exit(p, EXIT_ERR) /\ UNCHANGED seen
        ELSE IF job[p].key \in s.keys THEN Exit(p, EXIT_FAIL) /\ UNCHANGED seen
        ELSE IF job[p].seen = "check" THEN Exit(p, EXIT_OK) /\ UNCHANGED seen
        ELSE /\ pc' = [pc EXCEPT ![p] = "write"]
             /\ seen' = [seen EXCEPT ![p] = s.keys \cup {job[p].file}]
             /\ UNCHANGED exit
     /\ UNCHANGED <<job, store>>

\* gate up to the write: load the store, refuse a replay, else go on.  A missing
\* file is an empty store; a garbled one is an error.
Gate(p) ==
  LET s == store[job[p].file]
  IN /\ pc[p] = "read"
     /\ IF s.state = "garbled" THEN Exit(p, EXIT_ERR) /\ UNCHANGED seen
        ELSE IF job[p].key \in s.keys THEN Exit(p, EXIT_FAIL) /\ UNCHANGED seen
        ELSE IF job[p].seen = "check" THEN Exit(p, EXIT_OK) /\ UNCHANGED seen
        ELSE /\ pc' = [pc EXCEPT ![p] = "write"]
             /\ seen' = [seen EXCEPT ![p] = s.keys \cup {job[p].key}]
             /\ UNCHANGED exit
     /\ UNCHANGED <<job, store>>

\* The store could not be read, or not be opened for writing.
IoError(p) ==
  /\ pc[p] \in {"read", "write"}
  /\ Exit(p, EXIT_ERR)
  /\ UNCHANGED <<job, seen, store>>

\* std::fs::write empties the file ...
Truncate(p) ==
  /\ pc[p] = "write"
  /\ pc' = [pc EXCEPT ![p] = "fill"]
  /\ store' = [store EXCEPT ![job[p].file] = [state |-> "garbled", keys |-> {}]]
  /\ UNCHANGED <<job, exit, seen>>

\* Mutant: writes the new key alone.
Fill_OwnKey(p) ==
  /\ pc[p] = "fill"
  /\ pc' = [pc EXCEPT ![p] = "recorded"]
  /\ store' = [store EXCEPT ![job[p].file] = [state |-> "readable", keys |-> {job[p].key}]]
  /\ UNCHANGED <<job, exit, seen>>

\* ... then fills it ...
Fill(p) ==
  /\ pc[p] = "fill"
  /\ pc' = [pc EXCEPT ![p] = "recorded"]
  /\ store' = [store EXCEPT ![job[p].file] = [state |-> "readable", keys |-> seen[p]]]
  /\ UNCHANGED <<job, exit, seen>>

\* ... or cannot, and leaves part of it.
FillFails(p) ==
  /\ pc[p] = "fill"
  /\ Exit(p, EXIT_ERR)
  /\ UNCHANGED <<job, seen, store>>

Accept(p) ==
  /\ pc[p] = "recorded"
  /\ Exit(p, EXIT_OK)
  /\ UNCHANGED <<job, seen, store>>

\* The process dies; what it wrote stays.
Crash(p) ==
  /\ Running(p)
  /\ pc' = [pc EXCEPT ![p] = "crashed"]
  /\ UNCHANGED <<job, exit, seen, store>>

\* Every invocation has ended.
Finished == (\A p \in Invocations : pc[p] \in {"exited", "crashed"}) /\ UNCHANGED vars

Next ==
  \/ \E p \in Invocations :
       \/ Start(p) \/ Judge(p) \/ Gate(p) \/ IoError(p)
       \/ Truncate(p) \/ Fill(p) \/ FillFails(p) \/ Accept(p) \/ Crash(p)
  \/ Finished

Spec == Init /\ [][Next]_vars

-----------------------------------------------------------------------------
\* The types of the invocations' and the files' state.
TypeOK ==
  /\ job \in [Invocations -> Jobs]
  /\ pc \in [Invocations -> {Idle, "judge", "read", "write", "fill", "recorded",
                             "exited", "crashed"}]
  /\ exit \in [Invocations -> {"none", EXIT_OK, EXIT_FAIL, EXIT_ERR}]
  /\ seen \in [Invocations -> SUBSET Keys]
  /\ store \in [Files -> [state : {"absent", "readable", "garbled"}, keys : SUBSET Keys]]

SameBinding(p, q) == job[p].file = job[q].file /\ job[p].key = job[q].key

\* p was accepted and asked for that to be remembered.
Remembered(p) == exit[p] = EXIT_OK /\ job[p].seen = "record"

\* What was accepted with --seen-record stays in its store file, through later
\* writes of other keys and through crashes and failed writes, unless the file
\* can no longer be read, which every later gate refuses.
AcceptedStaysRecorded ==
  \A p \in Invocations : Remembered(p) =>
    LET s == store[job[p].file] IN
      s.state = "garbled" \/ (s.state = "readable" /\ job[p].key \in s.keys)

\* A proof accepted in a context is never accepted there again by an invocation
\* that consults the store, whatever crashed or failed in between.
ReplayRefused ==
  [][\A p, q \in Invocations :
       (Remembered(q) /\ SameBinding(p, q) /\ exit[p] # EXIT_OK /\ exit'[p] = EXIT_OK)
         => job[p].seen = "off"]_vars

\* Only acceptances are recorded: no key enters a store for a proof that fails.
OnlyAcceptableRecorded ==
  \A f \in Files : \A k \in store[f].keys :
    \E p \in Invocations :
      /\ job[p].file = f /\ job[p].key = k
      /\ job[p].load = "ok" /\ job[p].valid
      /\ job[p].strict => job[p].acceptable
      /\ job[p].cmd = "evaluate" => job[p].decision = "pass"

\* What evaluate accepts, verify in the same mode accepts too (the currency
\* overlay of the two commands agrees).
EvaluateNoLaxer ==
  \A p \in Invocations : job[p].cmd = "evaluate" /\ exit[p] = EXIT_OK =>
    VerdictOf([job[p] EXCEPT !.cmd = "verify"]) = "gate"

\* What the operator runbook says of a missing store: with the flags present it
\* is an error.  A file that exists is never deleted, so whoever was accepted
\* through the gate left a store that exists.
MissingStoreRefused ==
  \A p \in Invocations : job[p].seen # "off" /\ exit[p] = EXIT_OK =>
    store[job[p].file].state # "absent"
=============================================================================
