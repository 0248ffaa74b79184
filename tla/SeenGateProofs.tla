--------------------------- MODULE SeenGateProofs ---------------------------
(***************************************************************************)
(* The replay gate is sound for any number of invocations, store files and *)
(* keys: what was accepted and recorded is never accepted again.           *)
(***************************************************************************)
EXTENDS SeenGate, TLAPS

Gated == {"read", "write", "fill", "recorded"}
Recording == {"write", "fill", "recorded"}

\* Invocations that run together use different files (the caller's contract).
Exclusive ==
  \A p, q \in Invocations : Running(p) /\ Running(q) /\ job[p].file = job[q].file => p = q

\* An exit code is there once the process has exited.
ExitInv == \A p \in Invocations : exit[p] # "none" => pc[p] = "exited"

\* What an invocation inside the gate knows of its store file.
SnapshotInv ==
  \A p \in Invocations :
    LET s == store[job[p].file] IN
      /\ pc[p] \in Gated => VerdictOf(job[p]) = "gate"
      /\ pc[p] = "write" => s.state # "garbled" /\ seen[p] = s.keys \cup {job[p].key}
      /\ pc[p] = "fill" => s.state = "garbled" /\ job[p].key \in seen[p]
      /\ pc[p] = "recorded" => s.state = "readable" /\ job[p].key \in s.keys

\* What was remembered survives a write in progress.
PendingInv ==
  \A p, q \in Invocations :
    Remembered(p) /\ pc[q] = "fill" /\ job[q].file = job[p].file => job[p].key \in seen[q]

\* An invocation about to record found its binding unused, and it still is.
UnusedInv ==
  \A p, q \in Invocations : pc[p] \in Recording /\ Remembered(q) => ~SameBinding(p, q)

Inv ==
  /\ TypeOK /\ Exclusive /\ ExitInv /\ SnapshotInv
  /\ AcceptedStaysRecorded /\ PendingInv /\ UnusedInv

\* A verdict is a failure or the gate: success is decided behind the gate.
LEMMA VerdictType ==
  ASSUME NEW j \in Jobs
  PROVE  VerdictOf(j) \in {"gate", EXIT_FAIL, EXIT_ERR}
  BY JobsAssumption DEF VerdictOf, VerifyVerdict, EvaluateVerdict, Job,
     EXIT_OK, EXIT_FAIL, EXIT_ERR

\* Nothing has run.
LEMMA InitInv == Init => Inv
<1> SUFFICES ASSUME Init PROVE Inv
  OBVIOUS
<1> USE DEF Idle, EXIT_OK, EXIT_FAIL, EXIT_ERR
<1>1. TypeOK
  BY DEF Init, TypeOK
<1>2. Exclusive /\ ExitInv
  BY DEF Init, Exclusive, ExitInv, Running
<1>3. SnapshotInv
  BY DEF Init, SnapshotInv, Gated
<1>4. AcceptedStaysRecorded /\ PendingInv /\ UnusedInv
  BY DEF Init, AcceptedStaysRecorded, PendingInv, UnusedInv, Remembered
<1> QED
  BY <1>1, <1>2, <1>3, <1>4 DEF Inv

\* Starting needs every other invocation on the file to have ended.
LEMMA StartStep ==
  ASSUME Inv, NEW i \in Invocations, Start(i)
  PROVE  Inv'
<1> USE DEF Idle, EXIT_OK, EXIT_FAIL, EXIT_ERR
<1>1. TypeOK'
  BY DEF Inv, TypeOK, Start
<1>2. Exclusive'
  BY DEF Inv, TypeOK, Exclusive, Running, Start
<1>3. ExitInv'
  BY DEF Inv, TypeOK, ExitInv, Start
<1>4. SnapshotInv'
  BY DEF Inv, TypeOK, SnapshotInv, Gated, Start
<1>5. AcceptedStaysRecorded'
  BY DEF Inv, TypeOK, AcceptedStaysRecorded, Remembered, Start
<1>6. PendingInv'
  BY DEF Inv, TypeOK, PendingInv, Remembered, Start
<1>7. UnusedInv'
  BY DEF Inv, TypeOK, UnusedInv, Recording, Remembered, SameBinding, Start
<1> QED
  BY <1>1, <1>2, <1>3, <1>4, <1>5, <1>6, <1>7 DEF Inv

\* A verdict alone never remembers anything.
LEMMA JudgeStep ==
  ASSUME Inv, NEW i \in Invocations, Judge(i)
  PROVE  Inv'
<1> USE DEF Idle, EXIT_OK, EXIT_FAIL, EXIT_ERR
<1>0. job[i] \in Jobs /\ VerdictOf(job[i]) \in {"gate", EXIT_FAIL, EXIT_ERR}
  BY VerdictType DEF Inv, TypeOK
<1>1. TypeOK'
  BY <1>0 DEF Inv, TypeOK, Judge, Exit
<1>2. Exclusive'
  BY DEF Inv, TypeOK, Exclusive, Running, Judge, Exit
<1>3. ExitInv'
  BY DEF Inv, TypeOK, ExitInv, Judge, Exit
<1>4. SnapshotInv'
  BY DEF Inv, TypeOK, SnapshotInv, Gated, Judge, Exit
<1>5. AcceptedStaysRecorded'
  BY <1>0 DEF Inv, TypeOK, AcceptedStaysRecorded, Remembered, Judge, Exit
<1>6. PendingInv'
  BY <1>0 DEF Inv, TypeOK, PendingInv, Remembered, Judge, Exit
<1>7. UnusedInv'
  BY <1>0 DEF Inv, TypeOK, UnusedInv, Recording, Remembered, SameBinding, Judge, Exit
<1> QED
  BY <1>1, <1>2, <1>3, <1>4, <1>5, <1>6, <1>7 DEF Inv

\* Past the gate, the binding is unused and the snapshot is the file.
LEMMA GateStep ==
  ASSUME Inv, NEW i \in Invocations, Gate(i)
  PROVE  Inv'
<1> USE DEF Idle, EXIT_OK, EXIT_FAIL, EXIT_ERR
<1>0. /\ job[i].file \in Files /\ job[i].key \in Keys
      /\ store[job[i].file].keys \subseteq Keys
  BY JobsAssumption DEF Inv, TypeOK, Job
<1>1. TypeOK'
  BY <1>0 DEF Inv, TypeOK, Gate, Exit
<1>2. Exclusive'
  BY DEF Inv, TypeOK, Exclusive, Running, Gate, Exit
<1>3. ExitInv'
  BY DEF Inv, TypeOK, ExitInv, Gate, Exit
<1>4. SnapshotInv'
  BY <1>0 DEF Inv, TypeOK, SnapshotInv, Gated, Gate, Exit
<1>5. AcceptedStaysRecorded'
  BY DEF Inv, TypeOK, AcceptedStaysRecorded, Remembered, Gate, Exit
<1>6. PendingInv'
  BY DEF Inv, TypeOK, PendingInv, Remembered, Gate, Exit
<1>7. UnusedInv'
  BY DEF Inv, TypeOK, AcceptedStaysRecorded, UnusedInv, Recording, Remembered, SameBinding,
     Gate, Exit
<1> QED
  BY <1>1, <1>2, <1>3, <1>4, <1>5, <1>6, <1>7 DEF Inv

\* An I/O error leaves the file as it was.
LEMMA IoErrorStep ==
  ASSUME Inv, NEW i \in Invocations, IoError(i)
  PROVE  Inv'
<1> USE DEF Idle, EXIT_OK, EXIT_FAIL, EXIT_ERR
<1>1. TypeOK'
  BY DEF Inv, TypeOK, IoError, Exit
<1>2. Exclusive'
  BY DEF Inv, TypeOK, Exclusive, Running, IoError, Exit
<1>3. ExitInv'
  BY DEF Inv, TypeOK, ExitInv, IoError, Exit
<1>4. SnapshotInv'
  BY DEF Inv, TypeOK, SnapshotInv, Gated, IoError, Exit
<1>5. AcceptedStaysRecorded'
  BY DEF Inv, TypeOK, AcceptedStaysRecorded, Remembered, IoError, Exit
<1>6. PendingInv'
  BY DEF Inv, TypeOK, PendingInv, Remembered, IoError, Exit
<1>7. UnusedInv'
  BY DEF Inv, TypeOK, UnusedInv, Recording, Remembered, SameBinding, IoError, Exit
<1> QED
  BY <1>1, <1>2, <1>3, <1>4, <1>5, <1>6, <1>7 DEF Inv

\* The snapshot holds what the emptied file held.
LEMMA TruncateStep ==
  ASSUME Inv, NEW i \in Invocations, Truncate(i)
  PROVE  Inv'
<1> USE DEF Idle, EXIT_OK, EXIT_FAIL, EXIT_ERR
<1>1. TypeOK'
  BY JobsAssumption DEF Inv, TypeOK, Truncate, Job
<1>2. Exclusive'
  BY DEF Inv, TypeOK, Exclusive, Running, Truncate
<1>3. ExitInv'
  BY DEF Inv, TypeOK, ExitInv, Truncate
<1>4. SnapshotInv'
  BY JobsAssumption, SMTT(30) DEF Inv, TypeOK, Exclusive, Running, SnapshotInv, Gated, Truncate, Job
<1>5. AcceptedStaysRecorded'
  BY JobsAssumption DEF Inv, TypeOK, AcceptedStaysRecorded, Remembered, Truncate, Job
<1>6. PendingInv'
  BY JobsAssumption DEF Inv, TypeOK, SnapshotInv, AcceptedStaysRecorded, PendingInv,
     Remembered, Truncate, Job
<1>7. UnusedInv'
  BY DEF Inv, TypeOK, UnusedInv, Recording, Remembered, SameBinding, Truncate
<1> QED
  BY <1>1, <1>2, <1>3, <1>4, <1>5, <1>6, <1>7 DEF Inv

\* Nobody else touched the file since it was read.
LEMMA FillStep ==
  ASSUME Inv, NEW i \in Invocations, Fill(i)
  PROVE  Inv'
<1> USE DEF Idle, EXIT_OK, EXIT_FAIL, EXIT_ERR
<1>1. TypeOK'
  BY JobsAssumption DEF Inv, TypeOK, Fill, Job
<1>2. Exclusive'
  BY DEF Inv, TypeOK, Exclusive, Running, Fill
<1>3. ExitInv'
  BY DEF Inv, TypeOK, ExitInv, Fill
<1>4. SnapshotInv'
  <2> SUFFICES ASSUME NEW p \in Invocations
               PROVE  LET s == store'[job'[p].file] IN
                 /\ pc'[p] \in Gated => VerdictOf(job'[p]) = "gate"
                 /\ pc'[p] = "write" => s.state # "garbled" /\ seen'[p] = s.keys \cup {job'[p].key}
                 /\ pc'[p] = "fill" => s.state = "garbled" /\ job'[p].key \in seen'[p]
                 /\ pc'[p] = "recorded" => s.state = "readable" /\ job'[p].key \in s.keys
    BY DEF SnapshotInv, VerdictOf
  <2>1. job[i].file \in Files /\ store'[job[i].file] = [state |-> "readable", keys |-> seen[i]]
    BY JobsAssumption DEF Inv, TypeOK, Fill, Job
  <2>2. CASE p = i
    BY <2>1, <2>2 DEF Inv, TypeOK, SnapshotInv, Gated, Fill
  <2>3. CASE p # i /\ ~Running(p)
    BY <2>3 DEF Inv, TypeOK, Running, Gated, Fill
  <2>4. CASE p # i /\ Running(p)
    <3>1. job[p].file # job[i].file /\ pc'[p] = pc[p]
      BY <2>4 DEF Inv, TypeOK, Exclusive, Running, Fill
    <3>2. store'[job[p].file] = store[job[p].file]
      BY <3>1, JobsAssumption DEF Inv, TypeOK, Fill, Job
    <3> QED
      BY <3>1, <3>2 DEF Inv, SnapshotInv, Fill
  <2> QED
    BY <2>2, <2>3, <2>4
<1>5. AcceptedStaysRecorded'
  BY JobsAssumption DEF Inv, TypeOK, PendingInv, AcceptedStaysRecorded, Remembered, Fill, Job
<1>6. PendingInv'
  BY DEF Inv, TypeOK, PendingInv, Remembered, Fill
<1>7. UnusedInv'
  BY DEF Inv, TypeOK, UnusedInv, Recording, Remembered, SameBinding, Fill
<1> QED
  BY <1>1, <1>2, <1>3, <1>4, <1>5, <1>6, <1>7 DEF Inv

\* The file stays unreadable.
LEMMA FillFailsStep ==
  ASSUME Inv, NEW i \in Invocations, FillFails(i)
  PROVE  Inv'
<1> USE DEF Idle, EXIT_OK, EXIT_FAIL, EXIT_ERR
<1>1. TypeOK'
  BY DEF Inv, TypeOK, FillFails, Exit
<1>2. Exclusive'
  BY DEF Inv, TypeOK, Exclusive, Running, FillFails, Exit
<1>3. ExitInv'
  BY DEF Inv, TypeOK, ExitInv, FillFails, Exit
<1>4. SnapshotInv'
  BY DEF Inv, TypeOK, SnapshotInv, Gated, FillFails, Exit
<1>5. AcceptedStaysRecorded'
  BY DEF Inv, TypeOK, AcceptedStaysRecorded, Remembered, FillFails, Exit
<1>6. PendingInv'
  BY DEF Inv, TypeOK, PendingInv, Remembered, FillFails, Exit
<1>7. UnusedInv'
  BY DEF Inv, TypeOK, UnusedInv, Recording, Remembered, SameBinding, FillFails, Exit
<1> QED
  BY <1>1, <1>2, <1>3, <1>4, <1>5, <1>6, <1>7 DEF Inv

\* What becomes remembered is in the file.
LEMMA AcceptStep ==
  ASSUME Inv, NEW i \in Invocations, Accept(i)
  PROVE  Inv'
<1> USE DEF Idle, EXIT_OK, EXIT_FAIL, EXIT_ERR
<1>1. TypeOK'
  BY DEF Inv, TypeOK, Accept, Exit
<1>2. Exclusive'
  BY DEF Inv, TypeOK, Exclusive, Running, Accept, Exit
<1>3. ExitInv'
  BY DEF Inv, TypeOK, ExitInv, Accept, Exit
<1>4. SnapshotInv'
  BY DEF Inv, TypeOK, SnapshotInv, Gated, Accept, Exit
<1>5. AcceptedStaysRecorded'
  BY DEF Inv, TypeOK, SnapshotInv, AcceptedStaysRecorded, Remembered, Accept, Exit
<1>6. PendingInv'
  BY DEF Inv, TypeOK, Exclusive, Running, PendingInv, Remembered, Accept, Exit
<1>7. UnusedInv'
  BY DEF Inv, TypeOK, Exclusive, Running, UnusedInv, Recording, Remembered, SameBinding,
     Accept, Exit
<1> QED
  BY <1>1, <1>2, <1>3, <1>4, <1>5, <1>6, <1>7 DEF Inv

\* A crash changes no file.
LEMMA CrashStep ==
  ASSUME Inv, NEW i \in Invocations, Crash(i)
  PROVE  Inv'
<1> USE DEF Idle, EXIT_OK, EXIT_FAIL, EXIT_ERR
<1>1. TypeOK'
  BY DEF Inv, TypeOK, Crash
<1>2. Exclusive'
  BY DEF Inv, TypeOK, Exclusive, Running, Crash
<1>3. ExitInv'
  BY DEF Inv, TypeOK, ExitInv, Running, Crash
<1>4. SnapshotInv'
  BY DEF Inv, TypeOK, SnapshotInv, Gated, Crash
<1>5. AcceptedStaysRecorded'
  BY DEF Inv, TypeOK, AcceptedStaysRecorded, Remembered, Crash
<1>6. PendingInv'
  BY DEF Inv, TypeOK, PendingInv, Remembered, Crash
<1>7. UnusedInv'
  BY DEF Inv, TypeOK, UnusedInv, Recording, Remembered, SameBinding, Crash
<1> QED
  BY <1>1, <1>2, <1>3, <1>4, <1>5, <1>6, <1>7 DEF Inv

-----------------------------------------------------------------------------
\* Every step keeps the invariant.
LEMMA NextInv == Inv /\ [Next]_vars => Inv'
<1> SUFFICES ASSUME Inv, [Next]_vars PROVE Inv'
  OBVIOUS
<1>1. CASE UNCHANGED vars
  BY <1>1 DEF vars, Inv, TypeOK, Exclusive, ExitInv, SnapshotInv, AcceptedStaysRecorded,
     PendingInv, UnusedInv, Running, Remembered, SameBinding
<1>2. CASE Finished
  BY <1>1, <1>2 DEF Finished
<1>3. ASSUME NEW i \in Invocations,
             Start(i) \/ Judge(i) \/ Gate(i) \/ IoError(i) \/ Truncate(i) \/ Fill(i)
               \/ FillFails(i) \/ Accept(i) \/ Crash(i)
      PROVE  Inv'
  BY <1>3, StartStep, JudgeStep, GateStep, IoErrorStep, TruncateStep, FillStep,
     FillFailsStep, AcceptStep, CrashStep
<1> QED
  BY <1>1, <1>2, <1>3 DEF Next

\* The inductive invariant holds in every state of the invocations.
LEMMA Invariance == Spec => []Inv
  BY InitInv, NextInv, PTL DEF Spec

\* The variables of the commands and of the store files keep their types.
THEOREM TypeCorrect == Spec => []TypeOK
<1>1. Inv => TypeOK
  BY DEF Inv
<1> QED
  BY <1>1, Invariance, PTL

\* An acceptance that was recorded stays in its store file, or the file cannot
\* be read any more and every gate on it fails.
THEOREM AcceptanceIsKept == Spec => []AcceptedStaysRecorded
<1>1. Inv => AcceptedStaysRecorded
  BY DEF Inv
<1> QED
  BY <1>1, Invariance, PTL

\* The replay gate: what was accepted and recorded in a context is refused there
\* ever after, across crashes and failed writes, if calls are serialized.
THEOREM ReplayIsRefused == Spec => ReplayRefused
<1> DEFINE Refused ==
      \A p, q \in Invocations :
        (Remembered(q) /\ SameBinding(p, q) /\ exit[p] # EXIT_OK /\ exit'[p] = EXIT_OK)
          => job[p].seen = "off"
<1>1. Inv /\ [Next]_vars => [Refused]_vars
  <2> SUFFICES ASSUME Inv, Next, NEW p \in Invocations, NEW q \in Invocations,
                      Remembered(q), SameBinding(p, q),
                      exit[p] # EXIT_OK, exit'[p] = EXIT_OK
               PROVE  job[p].seen = "off"
    OBVIOUS
  <2> USE DEF EXIT_OK, EXIT_FAIL, EXIT_ERR
  <2>1. Judge(p) \/ Gate(p) \/ Accept(p)
    <3>1. exit' # exit /\ ~Finished
      BY DEF Finished, vars
    <3>2. PICK i \in Invocations :
            Judge(i) \/ Gate(i) \/ IoError(i) \/ FillFails(i) \/ Accept(i)
      BY <3>1, ZenonT(30) DEF Next, Start, Truncate, Fill, Crash
    <3>3. i = p
      BY <3>1, <3>2 DEF Inv, TypeOK, Judge, Gate, IoError, FillFails, Accept, Exit
    <3>4. ~IoError(p) /\ ~FillFails(p)
      BY DEF Inv, TypeOK, IoError, FillFails, Exit
    <3> QED
      BY <3>2, <3>3, <3>4
  <2>2. CASE Judge(p)
    <3>1. VerdictOf(job[p]) # EXIT_OK
      BY VerdictType DEF Inv, TypeOK
    <3> QED
      BY <2>2, <3>1 DEF Inv, TypeOK, Judge, Exit
  <2>3. CASE Gate(p)
    BY <2>3 DEF Inv, TypeOK, AcceptedStaysRecorded, SameBinding, Gate, Exit
  <2>4. CASE Accept(p)
    BY <2>4 DEF Inv, UnusedInv, Recording, Accept
  <2> QED
    BY <2>1, <2>2, <2>3, <2>4
<1> QED
  BY <1>1, Invariance, PTL DEF Spec, ReplayRefused

-----------------------------------------------------------------------------
\* Some invocation that deserves acceptance has this binding.
Deserved(f, k) ==
  \E p \in Invocations :
    /\ job[p].file = f /\ job[p].key = k
    /\ job[p].load = "ok" /\ job[p].valid
    /\ job[p].strict => job[p].acceptable
    /\ job[p].cmd = "evaluate" => job[p].decision = "pass"

\* The keys of a snapshot come from the file, or are the invocation's own.
DeservedInv ==
  /\ OnlyAcceptableRecorded
  /\ \A p \in Invocations : \A k \in seen[p] : Deserved(job[p].file, k)

\* The gate stands behind every check of the verdict.
LEMMA GateIsDeserved ==
  ASSUME Inv, NEW p \in Invocations, pc[p] = "read"
  PROVE  Deserved(job[p].file, job[p].key)
<1>1. VerdictOf(job[p]) = "gate" /\ job[p] \in Job /\ job[p].decision = "pass" => job[p].valid
  BY JobsAssumption DEF Inv, TypeOK, SnapshotInv, Gated
<1>2. job[p] \in Jobs
  BY DEF Inv, TypeOK
<1> QED
  BY <1>1, <1>2, JobsAssumption DEF Inv, SnapshotInv, Gated, Deserved, VerdictOf, VerifyVerdict,
     EvaluateVerdict, Job, EXIT_FAIL, EXIT_ERR

\* A store file only ever names acceptances: failed verdicts record nothing.
THEOREM OnlyAcceptancesRecorded == Spec => []OnlyAcceptableRecorded
<1>1. Init => DeservedInv
  BY DEF Init, DeservedInv, OnlyAcceptableRecorded
<1>2. Inv /\ DeservedInv /\ [Next]_vars => DeservedInv'
  <2> SUFFICES ASSUME Inv, DeservedInv, [Next]_vars PROVE DeservedInv'
    BY SMTT(30)
  <2>1. job' = job
    BY ZenonT(30) DEF Next, vars, Start, Judge, Gate, IoError, Truncate, Fill, FillFails, Accept, Crash,
       Finished
  <2>2. \A f, k : Deserved(f, k)' <=> Deserved(f, k)
    BY <2>1 DEF Deserved
  <2>3. \A f \in Files : \A k \in store[f].keys : Deserved(f, k)
    BY DEF DeservedInv, OnlyAcceptableRecorded, Deserved
  <2>4. \A p \in Invocations : \A k \in seen'[p] : Deserved(job[p].file, k)
    <3>1. CASE seen' = seen
      BY <3>1 DEF DeservedInv
    <3>2. ASSUME NEW i \in Invocations, Gate(i), seen' # seen
          PROVE  \A p \in Invocations : \A k \in seen'[p] : Deserved(job[p].file, k)
      <4>1. seen' = [seen EXCEPT ![i] = store[job[i].file].keys \cup {job[i].key}]
        BY <3>2 DEF Gate
      <4>2. job[i].file \in Files /\ Deserved(job[i].file, job[i].key)
        BY <3>2, GateIsDeserved, JobsAssumption DEF Gate, Inv, TypeOK, Job
      <4> QED
        BY <4>1, <4>2, <2>3 DEF Inv, TypeOK, DeservedInv
    <3> QED
      BY <3>1, <3>2, ZenonT(30) DEF Next, vars, Start, Judge, IoError, Truncate, Fill, FillFails, Accept,
         Crash, Finished
  <2>5. \A f \in Files : \A k \in store'[f].keys : Deserved(f, k)
    <3>1. CASE store' = store
      BY <3>1, <2>3
    <3>2. ASSUME NEW i \in Invocations, Truncate(i) \/ Fill(i)
          PROVE  \A f \in Files : \A k \in store'[f].keys : Deserved(f, k)
      <4>1. \A f \in Files : f # job[i].file => store'[f] = store[f]
        BY <3>2 DEF Truncate, Fill, Inv, TypeOK
      <4>2. job[i].file \in Files => store'[job[i].file].keys \subseteq seen[i]
        BY <3>2 DEF Truncate, Fill, Inv, TypeOK
      <4> QED
        BY <4>1, <4>2, <2>3 DEF DeservedInv
    <3> QED
      BY <3>1, <3>2 DEF Next, vars, Start, Judge, Gate, IoError, FillFails, Accept, Crash, Finished
  <2>6. OnlyAcceptableRecorded'
    BY <2>1, <2>5 DEF OnlyAcceptableRecorded, Deserved
  <2>7. (\A p \in Invocations : \A k \in seen[p] : Deserved(job[p].file, k))'
    BY <2>1, <2>2, <2>4
  <2> QED
    BY <2>6, <2>7 DEF DeservedInv
<1>3. DeservedInv => OnlyAcceptableRecorded
  BY DEF DeservedInv
<1> QED
  BY <1>1, <1>2, <1>3, Invariance, PTL DEF Spec
=============================================================================
