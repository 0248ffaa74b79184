# A TLA+ model of ProofEngine

ProofEngine verifies *proofs*: CBOR documents that hold signed attestations,
evidence items, events and relationships, identified by a hash of their content.
Verification is a pure function of the bytes and a context (clock, algorithm
policy, status feed, limits). What makes it hard to get right is not the happy
path: it is which of many overlapping rules decides when a proof is revoked and
superseded at once, when it exits early, when the feed holds rubbish, when links
form a cycle, and what the stateful shell around the pure core does when it
crashes half-way through.

The modules below are translated from the source under `src/crates`. TLC checks
them on small instances; TLAPS proves the central properties for every value of
the constants.

## 1. The system and its parts

| Part | Source | Modelled by |
|---|---|---|
| Verification pipeline, report | `proof-verify/src/pipeline.rs`, `report.rs` | `VerifyStages`, `VerifyPipeline` |
| What a proof deserves (abstract) | the same, as a promise | `VerdictRules`, `ProofVerdict` |
| Signed objects, keys, algorithm policy | `proof-crypto/src/cose.rs`, `keys.rs`, `alg.rs`, `build.rs` | `Cose` |
| Claims and status targets | `proof-crypto/src/claim.rs` | `VerifyStages` |
| Relationship graph | `proof-graph/src/lib.rs` | `Digraph`, `Graph`, `GraphDfs` |
| Transitive resolution | `proof-verify/src/resolve.rs` | `ResolveChain` |
| Replay gate, `verify`, `evaluate` | `proof-cli/src/seen.rs`, `make.rs`, `check.rs` | `SeenGate` |
| Status sources, contexts | `proof-verify/src/status.rs`, `context.rs` | `WithFeed` of `VerifyPipeline` (partly) |
| Policy evaluation | `proof-policy/src/*.rs` | planned |
| Batch verification | `proof-verify/src/batch.rs` | planned |
| Builder, artifact creation, composition | `proof-verify/src/builder.rs`, `proof-crypto/src/build.rs`, `proof-cli/src/port.rs` | planned |
| Artifact stores | `proof-format/src/store.rs`, `proof-cli/src/store.rs` | planned |
| HTTP API | `proof-api/src/*.rs` | planned |
| CBOR codec, schema, ids, envelopes, bundles | `proof-format`, `proof-crypto/src/id.rs` | their outcomes only |
| SCITT adapter, benchmarks, remaining commands | `proof-adapter-scitt`, `proof-bench`, `proof-cli` | not modelled |

How they interact: a caller hands bytes and a `VerifyCtx` to `verify_proof`. It
decodes and validates the bytes, recomputes ids, verifies each attestation with
the signature code, collects status claims from the proof and from the feed in
the context, derives a lifecycle for every statement and evidence item, runs the
graph checks, and returns a report. `resolve_proof_chain` calls it again for each
proof the first one refers to, with bytes from a store. The command line turns a
report (and a policy decision) into an exit code and, if asked, consults a file
of proofs already accepted. `PROJECT.json` lists every part with its status,
the lines each definition translates, and the hazards of the code.

## 2. Modules

### `Cose`, `VerifyStages`: the rules of each stage

Pure operators, one per rule. Data is abstracted to what the rules tell apart:

* ids, keys and digests are model values; a hash is injective, so members with
  the same id are the same member. `recomputed_id` is what the content hashes to,
  `stored_id` what the envelope says.
* an optional field is a set of at most one element;
* a signature is the record of who signed what with which algorithm. It verifies
  if it is the one for this key, algorithm and payload;
* a check record is `[stage, object, code]`, with code `"OK"` for a passed one.
  Messages are left out;
* times are naturals up to `U64Max`, and the additions that saturate in the code
  saturate here (`SatAdd`, `SatSub`);
* the lists of trusted issuers and of revocation authorities are sets; the code
  counts list entries, so contexts that list somebody twice are not considered;
* whether bytes decode, satisfy the schema and re-encode identically are facts
  about a proof (`decodes`, `schema_ok`, `canonical`), not computed.

### `VerifyPipeline`: `verify_proof`

One action per stage, in the order of the code: `Call` (misuse of the context),
`Parse`, `Schema`, `Canonical`, `Identifiers`, `Signatures`, `Time`,
`CollectEffects`, `ApplyEffects`, `Revocation`, `Evidence`, `GraphStage` (GRAPH,
linkage and conflicts) and `Return`. The variables are the locals of the function:
`checks`, `canonical_failed`, `verified`, `effects`, `applied`, `lifecycle`,
`evidence_status`, `conflicts`, and the `report` in the end. An early return is
`ExitEarly`, and `Finalize` is the function `finalize` with the last word on
non-canonical bytes. `Inputs`, `ProofOf` and `CtxOf` name the questions asked;
the assumption `InputsAssumption` says only what decoding and Rust's types
guarantee of them.

### `VerdictRules`, `ProofVerdict`: what the pipeline promises

`VerdictRules` says in one definition each when a proof is cryptographically
valid (`CryptoHolds`) and when its evidence is (`EvidenceHolds`), without stages,
records, precedence or saturation. `ProofVerdict` is the one-step specification:
a question is answered once, with an error for a misused call and with these two
verdicts otherwise. `ImplementsVerdict` is the refinement.

The two share the small vocabulary of claims (`StatusEffect`, `WellFormedStatus`),
the shape of links (`LinkageShape`) and the edge rules of `Graph`
(`ValidateGraph`), about which the verdict properties therefore say nothing. They do
not share anything that decides time, signatures, authority (`Empowered` there,
`Owners` and `Entitled` here), lifecycle, evidence or validity.

### `Digraph`, `Graph`, `GraphDfs`: relationships

`Graph` has the edge rules of `validate_graph_with_grounding`, the supersedes
rules, and acyclicity by what the checks decide. `GraphDfs` is the iterative
depth-first search itself, with its stack of (node, processed) pairs, its colours,
and an outer loop over a `HashSet`, which may start from nodes in any order.
`fin` and `tick` are history variables: when a node was finished. The proof uses
them and the search does not.

### `ResolveChain`: `resolve_proof_chain`

The breadth-first walk: a queue of references with depths, the visited set, what
was resolved and what was not with its reason. Each time the store is asked it may
fail, miss the id, or return any document of `Documents`. A document is what
`verify_proof` reports of some bytes: the id it states, the id it hashes to, and
its links. Documents may be altered under an unchanged stated id, and that is how
links come to form cycles. `fetches` counts the questions to the store.

### `SeenGate`: `verify`, `evaluate` and the replay gate

Invocations with jobs (what their inputs make of each step) share store files.
`Judge` is the command up to its verdict, with every early return; `Gate` loads the
store and refuses a replay; `Truncate`, `Fill`, `FillFails` are `std::fs::write`,
which empties the file before it fills it; `IoError` and `Crash` may strike
between any two steps. Calls on one store file do not overlap: that is the
contract stated in the comment of `seen.rs` ("serialize calls or shard by
context"), and here a guard of `Start`.

## 3. Runs

| Run | Configuration | Distinct states | What it shows |
|---|---|---|---|
| `signatures` | `MCSignatures` | 65,212 | every header, key, signature, payload and algorithm policy of one attestation, in every kind of envelope |
| `status` | `MCStatus` | 113,712 | feeds of up to two status objects of every kind, signer and date, at every clock |
| `members` | `MCMembers` | 33,072 | evidence, digests, relationships and references |
| `graph_dfs` | `MCGraphDfs` | 139,132 | the search over every list of up to three edges, from every order of starts |
| `resolve` | `MCResolveChain` | 1,994 | the walk over shared, cyclic and altered documents with an unreliable store |
| `seen_gate` | `MCSeenGate` | 425,362 | three invocations, two files, crashes and failed writes anywhere |
| `status_hygiene`, `status_skew`, `contradiction`, `default_cycles`, `resolve_altered`, `seen_gate_missing` | `MC...` | | the six disagreements of section 5 |

The properties:

* `VerdictCorrect` (`status`, `members`) and `ImplementsVerdict` (`signatures`):
  the report says exactly what the inputs deserve, and it is given once;
* `InvalidCarriesCode`: an Invalid verdict names a reason, and a run that stopped
  early never reports valid evidence (the stages that would fail never ran);
* `IneffectiveStatusIgnored`: status objects without effect change nothing, as long
  as dropping them does not leave a required feed empty;
* `LongerFeedNeverHelps`: what is valid under a whole feed was valid under each
  non-empty beginning of it. The exception is stated: with stale knowledge a
  supersession turns UNKNOWN, which fails, into SUPERSEDED, which does not;
* `StackIsPath`, `DfsCorrect`, `GrayNeverPopped`, `Terminates`: the explicit stack is
  the path of a recursive search; the search answers the question it was asked; the
  cycle test at a pop is dead code; it returns;
* `NamedOnce`, `AncestryIsClosest`, `BudgetIsFetches`, `Terminates`: each proof is
  recorded once, at its shallowest depth; nothing within the depth bound is lost; the
  budget is charged for questions to the store and for nothing else; the walk returns;
* `AcceptedStaysRecorded`, `ReplayRefused`, `OnlyAcceptableRecorded`,
  `EvaluateNoLaxer`: what was accepted stays recorded or the file is unreadable
  (which every later gate refuses); so it is not accepted again; nothing is recorded
  for a proof that fails; `evaluate` accepts nothing that `verify` refuses.

**Bounds.** Verification has no interaction between distant members: every rule
relates at most two statements, an evidence item and a status act, or one edge and
its endpoints, so one statement, one evidence item and two acts reach every pair of
rules. `U64Max = 3` with a leeway of one makes the addition at clock 3 saturate in
`MCStatus`, where wrapping around would change the verdict. Three
nodes and three edges hold every cycle length up to three, a diamond short of one
edge, duplicates and both exclusion sets; the proof of the search covers the rest.
In `MCResolveChain` the six proofs below the root are one more than the budget
`2 * 2 + 1`, and one layer more than the depth, so both limits are met. Three
invocations are the least that let two writers precede a replay.

**Fairness.** `VerifyPipeline`, `GraphDfs` and `ResolveChain` have weak fairness of
`Next`: they are straight-line code and loops without a wait, so a call that can take
a step takes one. `SeenGate` has none, since processes may crash or never be
started, and every property of it is a safety property.

**Deadlock** is checked in every run; a call that has returned stutters explicitly
(`Returned`, `Finished`).

**Mutants.** Next to a definition that models code, a definition named after it with
a suffix (`Finalize_Vacuous`, `Gate_GarbledIsEmpty`) is a plausible mistake in that
code. Each property of a passing run is violated by one of them; `PROJECT.json` pairs
them.

## 4. Proofs

TLAPS checks the four `...Proofs` modules. Assumptions are the named `ASSUME`s of the
modules they extend: types of the inputs, and nothing about their number.

**`VerifyPipelineProofs`**: `TypeCorrect`, `ReportIsCorrect` (`VerdictCorrect` always),
`InvalidIsExplained` (`InvalidCarriesCode` always) and `GivesTheVerdict`: every step of
the pipeline is a step or a stutter of `ProofVerdict`. `VerdictCorrect` is not
inductive: it speaks only of the end. The inductive invariant says what passing the
early stages has established (`ShapeInv`), that the locals hold what the rules compute
from the inputs alone (`DataInv`), and that the records so far contain no failure of a
counted stage exactly if the rules of the stages already run hold (`RecordsInv`). Each
stage then needs one lemma about operators: its records are without failure if and
only if its part of `VerdictRules` holds (signatures, windows with saturating
arithmetic, acts in force, lifecycle precedence, evidence, graph).

**`GraphDfsProofs`**: `TypeCorrect`, `StackIsAlwaysPath` (`StackIsPath`),
`SearchIsCorrect` (`DfsCorrect`), `PopNeverDetects` (`GrayNeverPopped`), for every
finite edge list. The invariant says that the gray
nodes are the processed entries of the stack, that every entry but the lowest is a
child of the nearest gray node below it (so the gray nodes form a path), that the
children of a gray node are black or wait above it, and that every walked edge out of
a black node leads to a black node finished earlier. The answer "acyclic"
follows because finishing times then decrease along edges, and "cycle" because the
gray path closes.

**`ResolveChainProofs`**: `TypeCorrect`, `RecordedOnce` (`NamedOnce`),
`AncestryIsComplete` (`AncestryIsClosest`), `BudgetIsExact` (`BudgetIsFetches`). The
invariant adds that depths in the queue never decrease and span at most one level
(`LevelInv`), that each queued or recorded reference hangs below one a level up
(`LinkInv`), that every link of what was resolved is recorded or still queued
(`FollowedInv`), and that records and fetches are equal in number until something is
named without a fetch (`FetchInv`): since depths never decrease, no reference within
the bound follows one beyond it, so such names are never charged.

**`SeenGateProofs`**: `TypeCorrect`, `AcceptanceIsKept` (`AcceptedStaysRecorded`),
`ReplayIsRefused` (`ReplayRefused`), `OnlyAcceptancesRecorded`
(`OnlyAcceptableRecorded`), for any number of invocations, files and keys. The
invariant adds mutual exclusion per file (`Exclusive`), that the snapshot a writer
holds is its file's keys and its own (`SnapshotInv`), that what was remembered is in
the snapshot of a write in progress (`PendingInv`), and that an invocation about to
record has a binding nobody was accepted with (`UnusedInv`).

**Only model-checked**: liveness (`Terminates`, the fairness part of
`ImplementsVerdict`), which the prover does not handle; `IneffectiveStatusIgnored`,
`LongerFeedNeverHelps` and `EvaluateNoLaxer`, whose proofs are planned.

## 5. Where documentation and code disagree

Each is a run that states what the text says and shows a state in which the code does
otherwise. None is resolved here; either side may be the one to change.

1. `status_hygiene`: ineffective status objects "NEVER flip `evidence_validity`"
   (`pipeline.rs:154`), but with `require_status_feed` any object makes the feed
   non-empty (`pipeline.rs:1010`), and turns UNKNOWN into ACTIVE.
2. `status_skew`: a status applies if "not future-dated (`issued_at ≤ now+skew`)"
   (`PROOF-ENGINE-SPEC.md:401`, `SPEC.md:282`), but the code grants no leeway
   (`pipeline.rs:982`; `LIFECYCLE.md:63` and a test agree with the code). An act dated
   within the leeway after the clock is not applied. `VerdictRules` follows the code.
3. `contradiction`: oppositions leave validity unchanged (`pipeline.rs:1544`,
   `PROOF-ENGINE-SPEC.md:342`), but a CONTRADICTS edge that closes a loop of
   relationships fails GRAPH (`pipeline.rs:1428`).
4. `default_cycles`: "only the SUPERSEDES subgraph must be linear/acyclic"
   (`pipeline.rs:82`), but cycles of other types are rejected as well
   (`pipeline.rs:1428`).
5. `resolve_altered`: bytes that "do not verify as the requested id" are an
   `IdMismatch` (`resolve.rs:39`), but the walk compares the id they state
   (`resolve.rs:289`). The report it keeps with them says that the id does not match.
6. `seen_gate_missing`: a "missing/corrupt store with the flags present is exit 2"
   (`OPERATOR-RUNBOOK.md:83`), but a missing one is an empty one (`seen.rs:72`).

## 6. Not modelled, and why

* Parsing, encoding and hashing of bytes (CBOR, schema, COSE, ids, envelopes,
  bundles): the outcome is an input of the model. The repository fuzzes them, which is
  the better tool for a codec.
* Curve arithmetic: external.
* Messages, colours, argument parsing, help, demo and journey commands: they decide
  nothing. The `dimensions` view of a report is read-only and derived from what is
  modelled.
* Two writers on one seen-store file: excluded by the contract the code states.
* `HashMap` iteration order matters only where `GraphDfs` models it.

## 7. Plan

In this order; each item names its module, its properties and, where there is one,
its theorem.

1. `SupersedesKahn`: the topological pass of `check_supersedes` step by step, shown to
   decide what `Graph` says (longest chain and cycles). Invariant: the depth of a
   removed node is the longest path to it. Theorem: nodes are left over exactly if
   there is a cycle.
2. `Policy`: the projection of a report (`state.rs`), each requirement and the v2
   expressions (`eval.rs`, `expr.rs`), and combination (`combine.rs`), composed with
   `VerifyPipeline`. Properties: a policy passes only a valid proof; more failures never
   turn fail into pass in the absence of `Not`; freshness at zero and future clocks.
   Theorem: `pass` implies `VerdictRules`.
3. `DelegationSearch`: the delegation and identity searches over cyclic grants, against
   reachability, with the path rebuilt from the predecessor map; proof along the lines
   of `ResolveChainProofs`.
4. `Descendants`: `descendants_of` and `UnionStore` composed with `ResolveChain`.
5. `FileStore`: `put` and `get` by several processes with crashes, an abstract
   write-once map as its specification, and `ResolveChain` over it.
6. `StatusFeed`: a clock, authorities that issue acts, delivery that is late or out of
   order, and verifiers that take snapshots: what a verdict says about acts issued
   before its cutoff.
7. `Batch`: `verify_batch` and the batch command's overlay.
8. `Builder`: that what is built passes the structural stages.
9. `ApiServer`: the accept loop, one request with its timeouts, the counters; liveness
   of the requests behind a slow one.
10. Proofs of `IneffectiveStatusIgnored`, `LongerFeedNeverHelps`, `EvaluateNoLaxer`.
