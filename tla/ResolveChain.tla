---------------------------- MODULE ResolveChain ----------------------------
(***************************************************************************)
(* resolve_proof_chain (proof-verify/src/resolve.rs): the breadth-first    *)
(* walk over the proofs a proof refers to.  Each referenced id is fetched  *)
(* from a store that may fail, miss it, or answer with other bytes, and    *)
(* what comes back is verified again.                                      *)
(*                                                                         *)
(* A document is what verify_proof reports of some bytes.  Documents under *)
(* one id may differ, so the links of altered ones can form cycles.        *)
(***************************************************************************)
EXTENDS Integers, Sequences, Functions

CONSTANTS
  Ids,                 \* proof ids
  Documents,           \* what the store, and the caller, may hand over
  MaxTransitiveDepth,  \* max_transitive_depth
  MaxReferencedProofs, \* limits.max_referenced_proofs
  UsizeMax

ASSUME ResolveAssumption ==
  /\ UsizeMax \in Nat \ {0}
  /\ MaxTransitiveDepth \in 0..UsizeMax /\ MaxReferencedProofs \in 0..UsizeMax

\* `proof_id` is the stored id, or none if the envelope did not parse, and
\* `recomputed_id` the id its content hashes to.  Parsing bounds the links.
Document(d) ==
  /\ d.proof_id \subseteq Ids /\ \A i, j \in d.proof_id : i = j
  /\ d.recomputed_id \in Ids
  /\ d.referenced_proofs \in Seq(Ids)
  /\ Len(d.referenced_proofs) <= MaxReferencedProofs
  /\ d.proof_id = {} => d.referenced_proofs = <<>>

ASSUME DocumentsAssumption == \A d \in Documents : Document(d)

VARIABLES
  root,              \* the document being resolved
  misuse,            \* does verify_proof refuse the context?
  pc,                \* "verify", "walk", then "done" or "error"
  queue,             \* references to follow, with their depth
  visited,
  resolved,          \* ResolvedProof: id, depth, and the fetched document
  unresolved,        \* UnresolvedRef: id, depth, reason
  fetches            \* how many times the store was asked

vars == <<root, misuse, pc, queue, visited, resolved, unresolved, fetches>>

-----------------------------------------------------------------------------
Saturated(n) == IF n > UsizeMax THEN UsizeMax ELSE n

Budget ==
  LET b == Saturated(Saturated(MaxTransitiveDepth * MaxReferencedProofs) + 1)
  IN IF b < 1 THEN 1 ELSE b

References(d, depth) ==
  [i \in 1..Len(d.referenced_proofs) |-> [id |-> d.referenced_proofs[i], depth |-> depth]]

-----------------------------------------------------------------------------
Init ==
  /\ root \in Documents /\ misuse \in BOOLEAN
  /\ pc = "verify" /\ queue = <<>> /\ visited = {}
  /\ resolved = <<>> /\ unresolved = <<>> /\ fetches = 0

\* The context alone decides misuse: a fetched proof cannot raise it later.
VerifyRoot ==
  /\ pc = "verify"
  /\ IF misuse
     THEN pc' = "error" /\ UNCHANGED <<queue, visited>>
     ELSE /\ pc' = "walk" /\ visited' = root.proof_id
          /\ queue' = References(root, 1)
  /\ UNCHANGED <<root, misuse, resolved, unresolved, fetches>>

\* The reference popped next, when the loop has one.
Popping == pc = "walk" /\ queue # <<>>

\* Mutant: looks at the front of the queue without popping it.
SkipVisited_Peeks ==
  /\ Popping /\ Head(queue).id \in visited
  /\ UNCHANGED vars

SkipVisited ==
  /\ Popping /\ Head(queue).id \in visited
  /\ queue' = Tail(queue)
  /\ UNCHANGED <<root, misuse, pc, visited, resolved, unresolved, fetches>>

\* A reference met for the first time is recorded as unresolved.
Name(reason) ==
  /\ visited' = visited \cup {Head(queue).id}
  /\ unresolved' = Append(unresolved,
       [id |-> Head(queue).id, depth |-> Head(queue).depth, reason |-> reason])
  /\ queue' = Tail(queue)
  /\ UNCHANGED <<root, misuse, pc, resolved>>

Fresh == Popping /\ Head(queue).id \notin visited

\* Mutant: off by one at the depth bound.
TooDeep_Late == Head(queue).depth > MaxTransitiveDepth + 1

TooDeep == Head(queue).depth > MaxTransitiveDepth

\* Mutant: failed fetches are not charged to the budget.
Spent_ResolvedOnly == Len(resolved) >= Budget

Spent == Len(resolved) + Len(unresolved) >= Budget

NameTooDeep == Fresh /\ TooDeep /\ Name("DepthExceeded") /\ UNCHANGED fetches

NameOverBudget == Fresh /\ ~TooDeep /\ Spent /\ Name("OverBudget") /\ UNCHANGED fetches

\* The store is asked; without usable bytes the reference stays unresolved.
Asking == Fresh /\ ~TooDeep /\ ~Spent /\ fetches' = fetches + 1

StoreFails == Asking /\ Name("Store")

StoreMisses == Asking /\ Name("Unavailable")

FetchOther(d) ==
  /\ Asking /\ Head(queue).id \notin d.proof_id
  /\ Name("IdMismatch")

\* Mutant: children are pushed to the front.
FetchResolved_DepthFirst(d) ==
  /\ Asking /\ Head(queue).id \in d.proof_id
  /\ visited' = visited \cup {Head(queue).id}
  /\ resolved' = Append(resolved, [id |-> Head(queue).id, depth |-> Head(queue).depth, doc |-> d])
  /\ queue' = References(d, Head(queue).depth + 1) \o Tail(queue)
  /\ UNCHANGED <<root, misuse, pc, unresolved>>

\* Mutant: a resolved proof is not marked visited.
FetchResolved_NotVisited(d) ==
  /\ Asking /\ Head(queue).id \in d.proof_id
  /\ resolved' = Append(resolved, [id |-> Head(queue).id, depth |-> Head(queue).depth, doc |-> d])
  /\ queue' = Tail(queue) \o References(d, Head(queue).depth + 1)
  /\ UNCHANGED <<root, misuse, pc, unresolved, visited>>

FetchResolved(d) ==
  /\ Asking /\ Head(queue).id \in d.proof_id
  /\ visited' = visited \cup {Head(queue).id}
  /\ resolved' = Append(resolved, [id |-> Head(queue).id, depth |-> Head(queue).depth, doc |-> d])
  /\ queue' = Tail(queue) \o References(d, Head(queue).depth + 1)
  /\ UNCHANGED <<root, misuse, pc, unresolved>>

Return ==
  /\ pc = "walk" /\ queue = <<>>
  /\ pc' = "done"
  /\ UNCHANGED <<root, misuse, queue, visited, resolved, unresolved, fetches>>

\* resolve_proof_chain has returned; nothing more happens.
Finished == pc \in {"done", "error"} /\ UNCHANGED vars

Next ==
  \/ VerifyRoot
  \/ SkipVisited \/ NameTooDeep \/ NameOverBudget \/ StoreFails \/ StoreMisses
  \/ \E d \in Documents : FetchOther(d) \/ FetchResolved(d)
  \/ Return \/ Finished

\* The loop runs to its end: nothing in it waits.
Spec == Init /\ [][Next]_vars /\ WF_vars(Next)

-----------------------------------------------------------------------------
Reasons == {"DepthExceeded", "OverBudget", "Store", "Unavailable", "IdMismatch"}

\* The types of the walk's state, with the depths the bound allows: references
\* are named up to one level below the deepest proof that may be fetched.
TypeOK ==
  /\ root \in Documents /\ misuse \in BOOLEAN
  /\ pc \in {"verify", "walk", "done", "error"}
  /\ queue \in Seq([id : Ids, depth : 1..(MaxTransitiveDepth + 1)])
  /\ visited \subseteq Ids
  /\ resolved \in Seq([id : Ids, depth : 1..MaxTransitiveDepth, doc : Documents])
  /\ unresolved \in Seq([id : Ids, depth : 1..(MaxTransitiveDepth + 1), reason : Reasons])
  /\ fetches \in Nat

\* Everything recorded: the entries of the availability matrix.
Recorded == Range(resolved) \cup Range(unresolved)

\* A proof referred to along several paths is recorded once, and the root is
\* never among its own ancestors, whatever the store answers.
NamedOnce ==
  /\ \A i, j \in DOMAIN resolved : resolved[i].id = resolved[j].id => i = j
  /\ \A i, j \in DOMAIN unresolved : unresolved[i].id = unresolved[j].id => i = j
  /\ \A i \in DOMAIN resolved, j \in DOMAIN unresolved : resolved[i].id # unresolved[j].id
  /\ \A x \in Recorded : x.id \notin root.proof_id

\* The links found so far leave the root, at depth 0, or a resolved proof.
LinkedFrom(depth, id) ==
  \/ depth = 0 /\ id \in Range(root.referenced_proofs)
  \/ \E r \in Range(resolved) : r.depth = depth /\ id \in Range(r.doc.referenced_proofs)

\* When the walk returns, ancestors() is the whole ancestry with shallowest
\* depths: each entry hangs one link below the depth before it, and every link
\* leads to the root or to an entry at most one level deeper.
AncestryIsClosest ==
  pc = "done" =>
    /\ \A x \in Recorded : x.depth > 0 /\ LinkedFrom(x.depth - 1, x.id)
    /\ \A depth \in 0..MaxTransitiveDepth : \A id \in Ids \ root.proof_id :
         LinkedFrom(depth, id) => \E x \in Recorded : x.id = id /\ x.depth <= depth + 1

\* OverBudget is reported only once the store was asked as often as the budget
\* allows (names beyond the depth bound do not eat it up), and never more often.
BudgetIsFetches ==
  /\ fetches <= Budget
  /\ (\E u \in Range(unresolved) : u.reason = "OverBudget") => fetches = Budget

\* Every resolution returns, also over links that form a cycle.
Terminates == <>(pc \in {"done", "error"})

\* What the documentation of IdMismatch says of bytes altered under an id: they
\* are never recorded as the resolved proof.
ResolvedHashesToItsId ==
  \A r \in Range(resolved) : r.doc.recomputed_id = r.id
=============================================================================
