------------------------- MODULE ResolveChainProofs -------------------------
(***************************************************************************)
(* The walk over referenced proofs records every reachable proof once, at  *)
(* its distance from the root, within the fetch budget: for every set of   *)
(* documents, whatever the store answers, and for every depth bound.       *)
(***************************************************************************)
EXTENDS ResolveChain, TLAPS

QueueItem == [id : Ids, depth : 1..(MaxTransitiveDepth + 1)]

\* Before the walk there is nothing; after it the queue is empty.
PhaseInv ==
  /\ pc \in {"verify", "error"} =>
       queue = <<>> /\ visited = {} /\ resolved = <<>> /\ unresolved = <<>> /\ fetches = 0
  /\ pc = "done" => queue = <<>>

\* Visited is exactly the root and what is recorded.
VisitedInv ==
  pc \in {"walk", "done"} => visited = root.proof_id \cup { x.id : x \in Recorded }

\* The queue is in order of depth and spans at most two levels, none of them
\* above what is recorded already.
LevelInv ==
  /\ \A i, j \in 1..Len(queue) : i <= j => queue[i].depth <= queue[j].depth
  /\ \A i, j \in 1..Len(queue) : queue[j].depth <= queue[i].depth + 1
  /\ \A x \in Recorded : \A i \in 1..Len(queue) : x.depth <= queue[i].depth

\* Whatever is queued or recorded hangs on a link one level above.
LinkInv ==
  /\ \A i \in 1..Len(queue) : LinkedFrom(queue[i].depth - 1, queue[i].id)
  /\ \A x \in Recorded : LinkedFrom(x.depth - 1, x.id)

\* Every link found leads to the root, to a record or to a queued reference.
FollowedInv ==
  pc \in {"walk", "done"} =>
    \A depth \in Nat : \A id \in Ids \ root.proof_id : LinkedFrom(depth, id) =>
      \/ \E x \in Recorded : x.id = id /\ x.depth <= depth + 1
      \/ \E i \in 1..Len(queue) : queue[i].id = id /\ queue[i].depth = depth + 1

Named(reason) == \E u \in Range(unresolved) : u.reason = reason

\* Until something is named without a fetch, records and fetches are equal.
FetchInv ==
  /\ \A u \in Range(unresolved) : u.reason = "DepthExceeded" => u.depth > MaxTransitiveDepth
  /\ fetches <= Len(resolved) + Len(unresolved)
  /\ (~Named("OverBudget") /\ ~Named("DepthExceeded")) =>
       fetches = Len(resolved) + Len(unresolved)

WalkInv ==
  TypeOK /\ PhaseInv /\ VisitedInv /\ NamedOnce /\ LevelInv /\ LinkInv /\ FollowedInv

FetchesInv == FetchInv /\ BudgetIsFetches

Inv == WalkInv /\ FetchesInv

-----------------------------------------------------------------------------
(* Sequences *)

\* Appending to a sequence: its length, entries and range.
LEMMA AppendFacts ==
  ASSUME NEW S, NEW s \in Seq(S), NEW e \in S
  PROVE  /\ Append(s, e) \in Seq(S)
         /\ Len(Append(s, e)) = Len(s) + 1
         /\ \A i \in 1..Len(s) : Append(s, e)[i] = s[i]
         /\ Append(s, e)[Len(s) + 1] = e
         /\ Range(Append(s, e)) = Range(s) \cup {e}
<1>1. /\ Append(s, e) \in Seq(S) /\ Len(Append(s, e)) = Len(s) + 1
      /\ \A i \in 1..Len(s) : Append(s, e)[i] = s[i]
      /\ Append(s, e)[Len(s) + 1] = e
  OBVIOUS
<1>2. /\ DOMAIN s = 1..Len(s) /\ DOMAIN Append(s, e) = 1..(Len(s) + 1) /\ Len(s) \in Nat
  BY <1>1
<1>3. Range(Append(s, e)) \subseteq Range(s) \cup {e}
  <2> SUFFICES ASSUME NEW i \in 1..(Len(s) + 1)
               PROVE  Append(s, e)[i] \in Range(s) \cup {e}
    BY <1>2 DEF Range
  <2>1. i \in 1..Len(s) \/ i = Len(s) + 1
    BY <1>2
  <2> QED
    BY <1>1, <1>2, <2>1 DEF Range
<1>4. Range(s) \cup {e} \subseteq Range(Append(s, e))
  <2>1. ASSUME NEW i \in 1..Len(s) PROVE s[i] \in Range(Append(s, e))
    <3>1. i \in 1..(Len(s) + 1) /\ Append(s, e)[i] = s[i]
      BY <1>1, <1>2
    <3> QED
      BY <1>2, <3>1 DEF Range
  <2>2. e \in Range(Append(s, e))
    <3>1. Len(s) + 1 \in 1..(Len(s) + 1)
      BY <1>2
    <3> QED
      BY <1>1, <1>2, <3>1 DEF Range
  <2> QED
    BY <1>2, <2>1, <2>2 DEF Range
<1> QED
  BY <1>1, <1>3, <1>4

\* Popping the front of a sequence: what is left and where it sits.
LEMMA TailFacts ==
  ASSUME NEW S, NEW s \in Seq(S), s # <<>>
  PROVE  /\ Tail(s) \in Seq(S) /\ Head(s) \in S /\ Head(s) = s[1]
         /\ Len(s) \in Nat \ {0} /\ Len(Tail(s)) = Len(s) - 1
         /\ \A i \in 1..Len(Tail(s)) : Tail(s)[i] = s[i + 1] /\ i + 1 \in 1..Len(s)
         /\ \A i \in 1..Len(s) : i # 1 => i - 1 \in 1..Len(Tail(s)) /\ Tail(s)[i - 1] = s[i]
<1>1. /\ Tail(s) \in Seq(S) /\ Head(s) \in S /\ Head(s) = s[1]
      /\ Len(s) \in Nat \ {0} /\ Len(Tail(s)) = Len(s) - 1
  OBVIOUS
<1>2. \A i \in 1..Len(Tail(s)) : Tail(s)[i] = s[i + 1] /\ i + 1 \in 1..Len(s)
  BY <1>1
<1>3. ASSUME NEW i \in 1..Len(s), i # 1
      PROVE  i - 1 \in 1..Len(Tail(s)) /\ Tail(s)[i - 1] = s[i]
  <2>1. i - 1 \in 1..Len(Tail(s)) /\ (i - 1) + 1 = i
    BY <1>1, <1>3
  <2> QED
    BY <1>2, <2>1
<1> QED
  BY <1>1, <1>2, <1>3

\* Concatenating two sequences: the length, and where each entry comes from.
LEMMA ConcatFacts ==
  ASSUME NEW S, NEW s \in Seq(S), NEW t \in Seq(S)
  PROVE  /\ s \o t \in Seq(S) /\ Len(s \o t) = Len(s) + Len(t)
         /\ Len(s) \in Nat /\ Len(t) \in Nat
         /\ \A i \in 1..Len(s) : (s \o t)[i] = s[i] /\ i \in 1..Len(s \o t)
         /\ \A i \in 1..Len(s \o t) :
              i \in 1..Len(s) \/ (i - Len(s) \in 1..Len(t) /\ (s \o t)[i] = t[i - Len(s)])
         /\ \A i \in 1..Len(t) : (s \o t)[Len(s) + i] = t[i] /\ Len(s) + i \in 1..Len(s \o t)
<1>1. /\ s \o t \in Seq(S) /\ Len(s \o t) = Len(s) + Len(t)
      /\ Len(s) \in Nat /\ Len(t) \in Nat
  OBVIOUS
<1>2. \A i \in 1..Len(s) : (s \o t)[i] = s[i] /\ i \in 1..Len(s \o t)
  BY <1>1
<1>3. \A i \in 1..Len(s \o t) :
        i \in 1..Len(s) \/ (i - Len(s) \in 1..Len(t) /\ (s \o t)[i] = t[i - Len(s)])
  BY <1>1
<1>4. ASSUME NEW i \in 1..Len(t)
      PROVE  (s \o t)[Len(s) + i] = t[i] /\ Len(s) + i \in 1..Len(s \o t)
  <2>1. Len(s) + i \in 1..Len(s \o t) /\ Len(s) + i \notin 1..Len(s) /\ (Len(s) + i) - Len(s) = i
    BY <1>1
  <2> QED
    BY <1>3, <2>1
<1> QED
  BY <1>1, <1>2, <1>3, <1>4

\* The entries of a sequence over S are in S.
LEMMA RangeType ==
  ASSUME NEW S, NEW s \in Seq(S)
  PROVE  Range(s) \subseteq S
<1>1. \A i \in DOMAIN s : s[i] \in S
  OBVIOUS
<1> QED
  BY <1>1 DEF Range

\* The types of a recorded entry.
LEMMA RecordedType ==
  ASSUME TypeOK, NEW x \in Recorded
  PROVE  x.id \in Ids /\ x.depth \in 1..(MaxTransitiveDepth + 1)
<1>1. MaxTransitiveDepth \in Nat
  BY ResolveAssumption
<1>2. CASE x \in Range(resolved)
  <2>1. x \in [id : Ids, depth : 1..MaxTransitiveDepth, doc : Documents]
    BY <1>2, RangeType, ZenonT(30) DEF TypeOK
  <2> QED
    BY <1>1, <2>1
<1>3. CASE x \in Range(unresolved)
  <2>1. x \in [id : Ids, depth : 1..(MaxTransitiveDepth + 1), reason : Reasons]
    BY <1>3, RangeType, ZenonT(30) DEF TypeOK
  <2> QED
    BY <2>1
<1> QED
  BY <1>2, <1>3 DEF Recorded

-----------------------------------------------------------------------------
(* One turn of the loop *)

\* What the loop knows of the reference it pops and of those behind it.
LEMMA PopFacts ==
  ASSUME WalkInv, Popping
  PROVE  /\ Head(queue) \in QueueItem /\ Tail(queue) \in Seq(QueueItem)
         /\ LinkedFrom(Head(queue).depth - 1, Head(queue).id)
         /\ \A x \in Recorded : x.depth <= Head(queue).depth
         /\ \A i, j \in 1..Len(Tail(queue)) : i <= j => Tail(queue)[i].depth <= Tail(queue)[j].depth
         /\ \A i \in 1..Len(Tail(queue)) :
              /\ Tail(queue)[i] \in QueueItem
              /\ Head(queue).depth <= Tail(queue)[i].depth
              /\ Tail(queue)[i].depth <= Head(queue).depth + 1
              /\ LinkedFrom(Tail(queue)[i].depth - 1, Tail(queue)[i].id)
         /\ \A i \in 1..Len(queue) :
              queue[i] = Head(queue) \/ \E j \in 1..Len(Tail(queue)) : Tail(queue)[j] = queue[i]
<1>1. queue \in Seq(QueueItem) /\ queue # <<>>
  BY DEF WalkInv, TypeOK, Popping, QueueItem
<1>2. /\ Tail(queue) \in Seq(QueueItem) /\ Head(queue) \in QueueItem /\ Head(queue) = queue[1]
      /\ Len(queue) \in Nat \ {0} /\ Len(Tail(queue)) = Len(queue) - 1
      /\ \A i \in 1..Len(Tail(queue)) : Tail(queue)[i] = queue[i + 1] /\ i + 1 \in 1..Len(queue)
      /\ \A i \in 1..Len(queue) :
           i # 1 => i - 1 \in 1..Len(Tail(queue)) /\ Tail(queue)[i - 1] = queue[i]
  BY <1>1, TailFacts
<1>3. 1 \in 1..Len(queue)
  BY <1>2
<1>4. LinkedFrom(Head(queue).depth - 1, Head(queue).id)
  BY <1>2, <1>3 DEF WalkInv, LinkInv
<1>5. \A x \in Recorded : x.depth <= Head(queue).depth
  BY <1>2, <1>3 DEF WalkInv, LevelInv
<1>6. \A i, j \in 1..Len(Tail(queue)) : i <= j => Tail(queue)[i].depth <= Tail(queue)[j].depth
  <2> SUFFICES ASSUME NEW i \in 1..Len(Tail(queue)), NEW j \in 1..Len(Tail(queue)), i <= j
               PROVE  Tail(queue)[i].depth <= Tail(queue)[j].depth
    OBVIOUS
  <2>1. i + 1 \in 1..Len(queue) /\ j + 1 \in 1..Len(queue) /\ i + 1 <= j + 1
    BY <1>2
  <2> QED
    BY <1>2, <2>1 DEF WalkInv, LevelInv
<1>7. ASSUME NEW i \in 1..Len(Tail(queue))
      PROVE  /\ Tail(queue)[i] \in QueueItem
             /\ Head(queue).depth <= Tail(queue)[i].depth
             /\ Tail(queue)[i].depth <= Head(queue).depth + 1
             /\ LinkedFrom(Tail(queue)[i].depth - 1, Tail(queue)[i].id)
  <2>1. i + 1 \in 1..Len(queue) /\ 1 <= i + 1 /\ Tail(queue)[i] = queue[i + 1]
    BY <1>2
  <2>2. Tail(queue)[i] \in QueueItem
    BY <1>2
  <2>3. queue[1].depth <= queue[i + 1].depth /\ queue[i + 1].depth <= queue[1].depth + 1
    BY <1>3, <2>1 DEF WalkInv, LevelInv
  <2>4. LinkedFrom(queue[i + 1].depth - 1, queue[i + 1].id)
    BY <2>1 DEF WalkInv, LinkInv
  <2> QED
    BY <1>2, <2>1, <2>2, <2>3, <2>4
<1>8. \A i \in 1..Len(queue) :
        queue[i] = Head(queue) \/ \E j \in 1..Len(Tail(queue)) : Tail(queue)[j] = queue[i]
  BY <1>2
<1> QED
  BY <1>2, <1>4, <1>5, <1>6, <1>7, <1>8

\* What is left in the queue spans two levels, and none of it is above a record.
LEMMA PopLevels ==
  ASSUME WalkInv, Popping
  PROVE  /\ \A i, j \in 1..Len(Tail(queue)) : Tail(queue)[j].depth <= Tail(queue)[i].depth + 1
         /\ \A x \in Recorded : \A i \in 1..Len(Tail(queue)) : x.depth <= Tail(queue)[i].depth
<1> DEFINE D == 1..Len(Tail(queue))
           depth(i) == Tail(queue)[i].depth
           h == Head(queue).depth
<1>1. \A i \in D : depth(i) \in Int /\ h <= depth(i) /\ depth(i) <= h + 1
  BY PopFacts DEF QueueItem
<1>2. h \in Int
  BY PopFacts DEF QueueItem
<1>3. \A x \in Recorded : x.depth \in Int
  BY RecordedType, ResolveAssumption DEF WalkInv
<1>4. \A x \in Recorded : x.depth <= h
  BY PopFacts
<1> HIDE DEF D, depth, h
<1>5. \A i, j \in D : depth(j) <= depth(i) + 1
  BY <1>1, <1>2
<1>6. \A x \in Recorded : \A i \in D : x.depth <= depth(i)
  BY <1>1, <1>2, <1>3, <1>4
<1> QED
  BY <1>5, <1>6 DEF D, depth

\* Skipping a reference met before: a record at most as deep is there already.
LEMMA SkipStep ==
  ASSUME WalkInv, SkipVisited
  PROVE  WalkInv'
<1> DEFINE h == Head(queue)
<1>1. Popping /\ pc = "walk"
  BY DEF SkipVisited, Popping
<1>2. TypeOK'
  BY <1>1, PopFacts DEF WalkInv, TypeOK, SkipVisited, QueueItem
<1>3. /\ Recorded' = Recorded /\ root' = root /\ pc' = pc /\ visited' = visited
      /\ resolved' = resolved /\ unresolved' = unresolved /\ queue' = Tail(queue)
  BY DEF SkipVisited, Recorded
<1>4. \A depth, id : LinkedFrom(depth, id)' <=> LinkedFrom(depth, id)
  BY <1>3 DEF LinkedFrom
<1>5. PhaseInv' /\ VisitedInv' /\ NamedOnce'
  BY <1>1, <1>3 DEF WalkInv, PhaseInv, VisitedInv, NamedOnce
<1>6. LevelInv'
  BY <1>1, <1>3, PopFacts, PopLevels, ZenonT(30) DEF LevelInv
<1>7. LinkInv'
  BY <1>1, <1>3, <1>4, PopFacts DEF WalkInv, LinkInv
<1>8. FollowedInv'
  <2> SUFFICES ASSUME NEW depth \in Nat, NEW id \in Ids \ root.proof_id, LinkedFrom(depth, id)
               PROVE  \/ \E x \in Recorded : x.id = id /\ x.depth <= depth + 1
                      \/ \E i \in 1..Len(Tail(queue)) :
                           Tail(queue)[i].id = id /\ Tail(queue)[i].depth = depth + 1
    BY <1>3, <1>4 DEF FollowedInv
  <2>1. CASE \E x \in Recorded : x.id = id /\ x.depth <= depth + 1
    BY <2>1
  <2>2. ASSUME NEW i \in 1..Len(queue), queue[i].id = id, queue[i].depth = depth + 1
        PROVE  \/ \E x \in Recorded : x.id = id /\ x.depth <= depth + 1
               \/ \E j \in 1..Len(Tail(queue)) :
                    Tail(queue)[j].id = id /\ Tail(queue)[j].depth = depth + 1
    <3>1. CASE \E j \in 1..Len(Tail(queue)) : Tail(queue)[j] = queue[i]
      BY <2>2, <3>1
    <3>2. CASE queue[i] = h
      <4>1. id \in visited
        BY <2>2, <3>2 DEF SkipVisited
      <4>2. PICK x \in Recorded : x.id = id
        BY <1>1, <4>1 DEF WalkInv, VisitedInv
      <4> QED
        BY <1>1, <2>2, <3>2, <4>2, PopFacts
    <3> QED
      BY <1>1, <3>1, <3>2, PopFacts
  <2> QED
    BY <1>1, <2>1, <2>2 DEF WalkInv, FollowedInv
<1> QED
  BY <1>2, <1>5, <1>6, <1>7, <1>8 DEF WalkInv

\* Recording a reference met for the first time as unresolved.
LEMMA NameStep ==
  ASSUME WalkInv, Fresh, NEW reason \in Reasons, Name(reason), fetches' \in Nat
  PROVE  WalkInv'
<1> DEFINE h == Head(queue)
           u == [id |-> h.id, depth |-> h.depth, reason |-> reason]
           U == [id : Ids, depth : 1..(MaxTransitiveDepth + 1), reason : Reasons]
<1>1. Popping /\ pc = "walk" /\ h.id \notin visited
  BY DEF Fresh, Popping
<1>2. h \in QueueItem /\ u \in U /\ u.id = h.id /\ u.depth = h.depth
  BY <1>1, PopFacts DEF QueueItem
<1>3. unresolved \in Seq(U) /\ unresolved' = Append(unresolved, u)
  BY DEF WalkInv, TypeOK, Name
<1> HIDE DEF u, U
<1>4. /\ unresolved' \in Seq(U) /\ Len(unresolved') = Len(unresolved) + 1
      /\ \A i \in 1..Len(unresolved) : unresolved'[i] = unresolved[i]
      /\ unresolved'[Len(unresolved) + 1] = u
      /\ Range(unresolved') = Range(unresolved) \cup {u}
  BY <1>2, <1>3, AppendFacts
<1>5. /\ Recorded' = Recorded \cup {u} /\ root' = root /\ pc' = pc
      /\ visited' = visited \cup {h.id} /\ resolved' = resolved /\ queue' = Tail(queue)
  BY <1>4 DEF Name, Recorded
<1>6. \A depth, id : LinkedFrom(depth, id)' <=> LinkedFrom(depth, id)
  BY <1>5 DEF LinkedFrom
<1>7. TypeOK'
  BY <1>1, <1>2, <1>4, <1>5, PopFacts DEF WalkInv, TypeOK, Name, QueueItem, U
<1>8. PhaseInv' /\ VisitedInv'
  BY <1>1, <1>2, <1>5 DEF WalkInv, PhaseInv, VisitedInv
<1>9. NamedOnce'
  <2>1. \A x \in Recorded : x.id # h.id
    BY <1>1 DEF WalkInv, VisitedInv
  <2>2. h.id \notin root.proof_id
    BY <1>1 DEF WalkInv, VisitedInv
  <2>3. /\ DOMAIN unresolved = 1..Len(unresolved) /\ Len(unresolved) \in Nat
        /\ DOMAIN unresolved' = 1..(Len(unresolved) + 1)
    BY <1>3, <1>4
  <2>4. \A i \in DOMAIN unresolved' : i \in DOMAIN unresolved \/ i = Len(unresolved) + 1
    BY <2>3
  <2>5. /\ \A i \in DOMAIN unresolved : unresolved[i] \in Recorded
        /\ \A i \in DOMAIN resolved : resolved[i] \in Recorded
    BY DEF Recorded, Range
  <2>6. \A i, j \in DOMAIN unresolved' : unresolved'[i].id = unresolved'[j].id => i = j
    BY <1>2, <1>4, <2>1, <2>3, <2>4, <2>5 DEF WalkInv, NamedOnce
  <2>7. \A i \in DOMAIN resolved, j \in DOMAIN unresolved' : resolved[i].id # unresolved'[j].id
    BY <1>2, <1>4, <2>1, <2>3, <2>4, <2>5 DEF WalkInv, NamedOnce
  <2>8. \A x \in Recorded' : x.id \notin root.proof_id
    BY <1>2, <1>5, <2>2 DEF WalkInv, NamedOnce
  <2> QED
    BY <1>5, <2>6, <2>7, <2>8 DEF WalkInv, NamedOnce
<1>10. LevelInv'
  <2>1. \A i, j \in 1..Len(Tail(queue)) : Tail(queue)[j].depth <= Tail(queue)[i].depth + 1
    BY <1>1, PopLevels
  <2>2. \A x \in Recorded \cup {u} : \A i \in 1..Len(Tail(queue)) : x.depth <= Tail(queue)[i].depth
    <3>1. \A x \in Recorded : \A i \in 1..Len(Tail(queue)) : x.depth <= Tail(queue)[i].depth
      BY <1>1, PopLevels
    <3>2. \A i \in 1..Len(Tail(queue)) : u.depth <= Tail(queue)[i].depth
      BY <1>1, <1>2, PopFacts
    <3> QED
      BY <3>1, <3>2
  <2> QED
    BY <1>1, <1>5, <2>1, <2>2, PopFacts DEF LevelInv
<1>11. LinkInv'
  BY <1>1, <1>2, <1>5, <1>6, PopFacts DEF WalkInv, LinkInv
<1>12. FollowedInv'
  <2> SUFFICES ASSUME NEW depth \in Nat, NEW id \in Ids \ root.proof_id, LinkedFrom(depth, id)
               PROVE  \/ \E x \in Recorded \cup {u} : x.id = id /\ x.depth <= depth + 1
                      \/ \E i \in 1..Len(Tail(queue)) :
                           Tail(queue)[i].id = id /\ Tail(queue)[i].depth = depth + 1
    BY <1>5, <1>6 DEF FollowedInv
  <2>1. CASE \E x \in Recorded : x.id = id /\ x.depth <= depth + 1
    BY <2>1
  <2>2. ASSUME NEW i \in 1..Len(queue), queue[i].id = id, queue[i].depth = depth + 1
        PROVE  \/ \E x \in Recorded \cup {u} : x.id = id /\ x.depth <= depth + 1
               \/ \E j \in 1..Len(Tail(queue)) :
                    Tail(queue)[j].id = id /\ Tail(queue)[j].depth = depth + 1
    <3>1. CASE \E j \in 1..Len(Tail(queue)) : Tail(queue)[j] = queue[i]
      BY <2>2, <3>1
    <3>2. CASE queue[i] = h
      <4>1. u.id = id /\ u.depth = depth + 1 /\ depth + 1 <= depth + 1
        BY <1>2, <2>2, <3>2
      <4> QED
        BY <4>1
    <3> QED
      BY <1>1, <3>1, <3>2, PopFacts
  <2> QED
    BY <1>1, <2>1, <2>2 DEF WalkInv, FollowedInv
<1> QED
  BY <1>7, <1>8, <1>9, <1>10, <1>11, <1>12 DEF WalkInv

\* Recording a proof that was fetched, and queueing what it refers to.
LEMMA ResolveStep ==
  ASSUME WalkInv, NEW d \in Documents, FetchResolved(d)
  PROVE  WalkInv'
<1> DEFINE h == Head(queue)
           u == [id |-> h.id, depth |-> h.depth, doc |-> d]
           U == [id : Ids, depth : 1..MaxTransitiveDepth, doc : Documents]
           R == References(d, h.depth + 1)
           T == Tail(queue)
<1>1. Popping /\ Fresh /\ pc = "walk" /\ h.id \notin visited /\ h.depth <= MaxTransitiveDepth
  <2>1. Popping /\ Fresh /\ pc = "walk" /\ h.id \notin visited /\ ~(h.depth > MaxTransitiveDepth)
    BY DEF FetchResolved, Asking, Fresh, Popping, TooDeep
  <2>2. h.depth \in Int /\ MaxTransitiveDepth \in Int
    BY <2>1, PopFacts, ResolveAssumption DEF QueueItem
  <2> QED
    BY <2>1, <2>2
<1>2. h \in QueueItem /\ h.depth \in Nat \ {0} /\ u \in U /\ u.id = h.id /\ u.depth = h.depth /\ u.doc = d
  BY <1>1, PopFacts, ResolveAssumption DEF QueueItem
<1>3. resolved \in Seq(U) /\ resolved' = Append(resolved, u)
  BY DEF WalkInv, TypeOK, FetchResolved
<1>4. /\ d.referenced_proofs \in Seq(Ids) /\ Len(d.referenced_proofs) \in Nat
      /\ DOMAIN d.referenced_proofs = 1..Len(d.referenced_proofs)
  BY DocumentsAssumption DEF Document
<1>5. /\ R \in Seq(QueueItem) /\ Len(R) = Len(d.referenced_proofs)
      /\ \A i \in 1..Len(R) :
           R[i].depth = h.depth + 1 /\ R[i].id = d.referenced_proofs[i]
             /\ R[i].id \in Range(d.referenced_proofs)
  <2>1. h.depth + 1 \in 1..(MaxTransitiveDepth + 1)
    BY <1>1, <1>2, ResolveAssumption
  <2>2. \A i \in 1..Len(d.referenced_proofs) : d.referenced_proofs[i] \in Ids
    BY <1>4
  <2>3. R \in [1..Len(d.referenced_proofs) -> QueueItem]
    BY <2>1, <2>2 DEF References, QueueItem
  <2>4. R \in Seq(QueueItem) /\ Len(R) = Len(d.referenced_proofs)
    BY <1>4, <2>3
  <2> QED
    BY <1>4, <2>4 DEF References, Range
<1>6. queue' = T \o R /\ T \in Seq(QueueItem)
  BY <1>1, PopFacts DEF FetchResolved
<1>7. /\ T \o R \in Seq(QueueItem)
      /\ \A i \in 1..Len(T) : (T \o R)[i] = T[i] /\ i \in 1..Len(T \o R)
      /\ \A i \in 1..Len(T \o R) :
           i \in 1..Len(T) \/ (i - Len(T) \in 1..Len(R) /\ (T \o R)[i] = R[i - Len(T)])
      /\ \A i \in 1..Len(R) : (T \o R)[Len(T) + i] = R[i] /\ Len(T) + i \in 1..Len(T \o R)
      /\ Len(T) \in Nat /\ Len(R) \in Nat /\ Len(T \o R) = Len(T) + Len(R)
  BY <1>5, <1>6, ConcatFacts
<1>8. \A i \in 1..Len(T) :
        /\ T[i] \in QueueItem /\ h.depth <= T[i].depth /\ T[i].depth <= h.depth + 1
        /\ LinkedFrom(T[i].depth - 1, T[i].id)
  BY <1>1, PopFacts
<1>9. \A i, j \in 1..Len(T) : i <= j => T[i].depth <= T[j].depth
  BY <1>1, PopFacts, ZenonT(30)
<1>10. \A x \in Recorded : x.depth <= h.depth /\ x.depth \in Int
  BY <1>1, PopFacts, RecordedType, ResolveAssumption DEF WalkInv
<1>11. \A i \in 1..Len(queue) : queue[i] = h \/ \E j \in 1..Len(T) : T[j] = queue[i]
  BY <1>1, PopFacts
<1>12. LinkedFrom(h.depth - 1, h.id)
  BY <1>1, PopFacts
<1> HIDE DEF u, U, R, T, h
<1>13. /\ resolved' \in Seq(U) /\ Len(resolved') = Len(resolved) + 1
       /\ \A i \in 1..Len(resolved) : resolved'[i] = resolved[i]
       /\ resolved'[Len(resolved) + 1] = u
       /\ Range(resolved') = Range(resolved) \cup {u}
  BY <1>2, <1>3, AppendFacts
<1>14. /\ Recorded' = Recorded \cup {u} /\ root' = root /\ pc' = pc
       /\ visited' = visited \cup {h.id} /\ unresolved' = unresolved
  BY <1>13 DEF FetchResolved, Recorded, h
<1>15. \A depth, id : LinkedFrom(depth, id)' <=>
         LinkedFrom(depth, id) \/ (depth = h.depth /\ id \in Range(d.referenced_proofs))
  BY <1>2, <1>13, <1>14 DEF LinkedFrom
<1>16. fetches' \in Nat
  BY DEF WalkInv, TypeOK, FetchResolved, Asking
<1>17. TypeOK'
  <2>1. queue' \in Seq([id : Ids, depth : 1..(MaxTransitiveDepth + 1)])
    BY <1>6, <1>7 DEF QueueItem
  <2>2. resolved' \in Seq([id : Ids, depth : 1..MaxTransitiveDepth, doc : Documents])
    BY <1>13 DEF U
  <2>3. visited' \subseteq Ids
    BY <1>2, <1>14 DEF WalkInv, TypeOK, QueueItem
  <2> QED
    BY <1>16, <2>1, <2>2, <2>3 DEF WalkInv, TypeOK, FetchResolved
<1>18. PhaseInv' /\ VisitedInv'
  BY <1>1, <1>2, <1>14 DEF WalkInv, PhaseInv, VisitedInv
<1>19. NamedOnce'
  <2>1. \A x \in Recorded : x.id # h.id
    BY <1>1 DEF WalkInv, VisitedInv
  <2>2. h.id \notin root.proof_id
    BY <1>1 DEF WalkInv, VisitedInv
  <2>3. /\ DOMAIN resolved = 1..Len(resolved) /\ Len(resolved) \in Nat
        /\ DOMAIN resolved' = 1..(Len(resolved) + 1)
    BY <1>3, <1>13
  <2>4. \A i \in DOMAIN resolved' : i \in DOMAIN resolved \/ i = Len(resolved) + 1
    BY <2>3
  <2>5. /\ \A i \in DOMAIN unresolved : unresolved[i] \in Recorded
        /\ \A i \in DOMAIN resolved : resolved[i] \in Recorded
    BY DEF Recorded, Range
  <2>6. \A i, j \in DOMAIN resolved' : resolved'[i].id = resolved'[j].id => i = j
    BY <1>2, <1>13, <2>1, <2>3, <2>4, <2>5 DEF WalkInv, NamedOnce
  <2>7. \A i \in DOMAIN resolved', j \in DOMAIN unresolved : resolved'[i].id # unresolved[j].id
    BY <1>2, <1>13, <2>1, <2>3, <2>4, <2>5 DEF WalkInv, NamedOnce
  <2>8. \A x \in Recorded' : x.id \notin root.proof_id
    BY <1>2, <1>14, <2>2 DEF WalkInv, NamedOnce
  <2> QED
    BY <1>14, <2>6, <2>7, <2>8 DEF WalkInv, NamedOnce
<1>20. \A i \in 1..Len(T \o R) :
         /\ (T \o R)[i].depth \in Int
         /\ h.depth <= (T \o R)[i].depth /\ (T \o R)[i].depth <= h.depth + 1
  <2>1. \A i \in 1..Len(T) : T[i].depth \in Int
    BY <1>8 DEF QueueItem
  <2> QED
    BY <1>2, <1>5, <1>7, <1>8, <2>1, SMTT(30)
<1>21. LevelInv'
  <2>1. \A i, j \in 1..Len(T \o R) : i <= j => (T \o R)[i].depth <= (T \o R)[j].depth
    <3> SUFFICES ASSUME NEW i \in 1..Len(T \o R), NEW j \in 1..Len(T \o R), i <= j
                 PROVE  (T \o R)[i].depth <= (T \o R)[j].depth
      OBVIOUS
    <3>1. CASE j \in 1..Len(T)
      <4>1. i \in 1..Len(T)
        BY <1>7, <3>1
      <4> QED
        BY <1>7, <1>9, <3>1, <4>1
    <3>2. CASE j - Len(T) \in 1..Len(R) /\ (T \o R)[j] = R[j - Len(T)]
      <4>1. (T \o R)[j].depth = h.depth + 1
        BY <1>5, <3>2
      <4> QED
        BY <1>20, <4>1
    <3> QED
      BY <1>7, <3>1, <3>2
  <2>2. \A i, j \in 1..Len(T \o R) : (T \o R)[j].depth <= (T \o R)[i].depth + 1
    <3> SUFFICES ASSUME NEW i \in 1..Len(T \o R), NEW j \in 1..Len(T \o R)
                 PROVE  (T \o R)[j].depth <= (T \o R)[i].depth + 1
      OBVIOUS
    <3> DEFINE x == (T \o R)[i].depth
               y == (T \o R)[j].depth
    <3>1. x \in Int /\ h.depth <= x
      BY <1>20
    <3>2. y \in Int /\ y <= h.depth + 1
      BY <1>20
    <3> HIDE DEF x, y
    <3>3. y <= x + 1
      BY <1>2, <3>1, <3>2
    <3> QED
      BY <3>3 DEF x, y
  <2>3. \A x \in Recorded \cup {u} : \A i \in 1..Len(T \o R) : x.depth <= (T \o R)[i].depth
    BY <1>2, <1>10, <1>20, SMTT(30)
  <2> QED
    BY <1>6, <1>14, <2>1, <2>2, <2>3 DEF LevelInv
<1>22. LinkInv'
  <2>1. ASSUME NEW i \in 1..Len(queue')
        PROVE  LinkedFrom(queue[i].depth - 1, queue[i].id)'
    <3>0. i \in 1..Len(T \o R) /\ queue'[i] = (T \o R)[i]
      BY <1>6
    <3> SUFFICES ASSUME NEW n, NEW id, n = queue'[i].depth - 1, id = queue'[i].id
                 PROVE  LinkedFrom(n, id)'
      BY ZenonT(60) DEF LinkedFrom
    <3>1. CASE i \in 1..Len(T)
      BY <1>7, <1>8, <1>15, <3>0, <3>1
    <3>2. CASE i - Len(T) \in 1..Len(R) /\ (T \o R)[i] = R[i - Len(T)]
      <4>1. queue'[i].depth = h.depth + 1 /\ id \in Range(d.referenced_proofs)
        BY <1>5, <3>0, <3>2
      <4>2. n = h.depth
        BY <1>2, <4>1
      <4> QED
        BY <1>15, <4>1, <4>2
    <3> QED
      BY <1>7, <3>0, <3>1, <3>2
  <2>2. \A x \in Recorded \cup {u} : LinkedFrom(x.depth - 1, x.id)'
    BY <1>2, <1>12, <1>15 DEF WalkInv, LinkInv
  <2> QED
    BY <1>14, <2>1, <2>2 DEF LinkInv
<1>23. FollowedInv'
  <2> SUFFICES ASSUME NEW depth \in Nat, NEW id \in Ids \ root.proof_id,
                      LinkedFrom(depth, id) \/ (depth = h.depth /\ id \in Range(d.referenced_proofs))
               PROVE  \/ \E x \in Recorded \cup {u} : x.id = id /\ x.depth <= depth + 1
                      \/ \E i \in 1..Len(T \o R) :
                           (T \o R)[i].id = id /\ (T \o R)[i].depth = depth + 1
    BY <1>6, <1>14, <1>15 DEF FollowedInv
  <2>1. CASE \E x \in Recorded : x.id = id /\ x.depth <= depth + 1
    BY <2>1
  <2>2. ASSUME NEW i \in 1..Len(queue), queue[i].id = id, queue[i].depth = depth + 1
        PROVE  \/ \E x \in Recorded \cup {u} : x.id = id /\ x.depth <= depth + 1
               \/ \E j \in 1..Len(T \o R) :
                    (T \o R)[j].id = id /\ (T \o R)[j].depth = depth + 1
    <3>1. CASE \E j \in 1..Len(T) : T[j] = queue[i]
      BY <1>7, <2>2, <3>1
    <3>2. CASE queue[i] = h
      <4>1. u.id = id /\ u.depth = depth + 1 /\ depth + 1 <= depth + 1
        BY <1>2, <2>2, <3>2
      <4> QED
        BY <4>1
    <3> QED
      BY <1>11, <3>1, <3>2
  <2>3. CASE depth = h.depth /\ id \in Range(d.referenced_proofs)
    <3>1. PICK i \in 1..Len(R) : R[i].id = id /\ R[i].depth = depth + 1
      BY <1>4, <1>5, <2>3 DEF Range
    <3>2. Len(T) + i \in 1..Len(T \o R) /\ (T \o R)[Len(T) + i] = R[i]
      BY <1>7
    <3> QED
      BY <3>1, <3>2
  <2> QED
    BY <1>1, <2>1, <2>2, <2>3, ZenonT(30) DEF WalkInv, FollowedInv
<1> QED
  BY <1>17, <1>18, <1>19, <1>21, <1>22, <1>23 DEF WalkInv

-----------------------------------------------------------------------------
(* The budget *)

\* The budget is a positive number, saturated or not.
LEMMA BudgetType == Budget \in Nat \ {0}
<1>1. MaxTransitiveDepth * MaxReferencedProofs \in Nat
  BY ResolveAssumption
<1> QED
  BY <1>1, ResolveAssumption DEF Budget, Saturated

\* Something beyond the depth bound is recorded only when all that is left in
\* the queue is beyond it too.
LEMMA DeepIsLast ==
  ASSUME WalkInv, FetchInv, Popping, ~TooDeep
  PROVE  ~Named("DepthExceeded")
<1> SUFFICES ASSUME NEW u \in Range(unresolved), u.reason = "DepthExceeded" PROVE FALSE
  BY DEF Named
<1>1. u.depth > MaxTransitiveDepth /\ u.depth \in Int
  BY RecordedType, ResolveAssumption DEF FetchInv, WalkInv, Recorded
<1>2. u.depth <= Head(queue).depth /\ Head(queue).depth \in Int
  BY PopFacts DEF Recorded, QueueItem
<1> QED
  BY <1>1, <1>2, ResolveAssumption DEF TooDeep

\* What naming a reference does to the unresolved list.
LEMMA NameRecords ==
  ASSUME WalkInv, Popping, NEW reason \in Reasons, Name(reason)
  PROVE  /\ Len(unresolved') = Len(unresolved) + 1 /\ resolved' = resolved
         /\ \E u : /\ u.reason = reason /\ u.depth = Head(queue).depth
                   /\ Range(unresolved') = Range(unresolved) \cup {u}
<1> DEFINE u == [id |-> Head(queue).id, depth |-> Head(queue).depth, reason |-> reason]
           U == [id : Ids, depth : 1..(MaxTransitiveDepth + 1), reason : Reasons]
<1>1. u \in U /\ u.reason = reason /\ u.depth = Head(queue).depth
  BY PopFacts DEF QueueItem
<1>2. unresolved \in Seq(U) /\ unresolved' = Append(unresolved, u) /\ resolved' = resolved
  BY DEF WalkInv, TypeOK, Name
<1> HIDE DEF u, U
<1>3. Len(unresolved') = Len(unresolved) + 1 /\ Range(unresolved') = Range(unresolved) \cup {u}
  BY <1>1, <1>2, AppendFacts
<1> QED
  BY <1>1, <1>2, <1>3, ZenonT(30)

\* The quantities the budget argument counts are natural numbers.
LEMMA Counts ==
  ASSUME TypeOK
  PROVE  Len(resolved) \in Nat /\ Len(unresolved) \in Nat /\ fetches \in Nat
  BY DEF TypeOK

\* Beyond the depth bound nothing is fetched.
LEMMA TooDeepFetches ==
  ASSUME WalkInv, FetchesInv, NameTooDeep
  PROVE  FetchesInv'
<1>1. /\ Popping /\ Name("DepthExceeded") /\ fetches' = fetches
      /\ Head(queue).depth > MaxTransitiveDepth
  BY DEF NameTooDeep, Fresh, TooDeep
<1>2. /\ Len(unresolved') = Len(unresolved) + 1 /\ resolved' = resolved
      /\ \E u : /\ u.reason = "DepthExceeded" /\ u.depth = Head(queue).depth
                /\ Range(unresolved') = Range(unresolved) \cup {u}
  BY <1>1, NameRecords DEF Reasons
<1>3. PICK u : /\ u.reason = "DepthExceeded" /\ u.depth = Head(queue).depth
               /\ Range(unresolved') = Range(unresolved) \cup {u}
  BY <1>2
<1>4. FetchInv'
  BY <1>1, <1>2, <1>3, Counts DEF WalkInv, FetchesInv, FetchInv, Named
<1>5. BudgetIsFetches'
  BY <1>1, <1>3 DEF FetchesInv, BudgetIsFetches
<1> QED
  BY <1>4, <1>5 DEF FetchesInv

\* The first reference over budget finds as many fetches as the budget allows.
LEMMA OverBudgetFetches ==
  ASSUME WalkInv, FetchesInv, NameOverBudget
  PROVE  FetchesInv'
<1>1. /\ Popping /\ ~TooDeep /\ Name("OverBudget") /\ fetches' = fetches
      /\ Len(resolved) + Len(unresolved) >= Budget
  BY DEF NameOverBudget, Fresh, Spent
<1>2. /\ Len(unresolved') = Len(unresolved) + 1 /\ resolved' = resolved
      /\ \E u : /\ u.reason = "OverBudget" /\ u.depth = Head(queue).depth
                /\ Range(unresolved') = Range(unresolved) \cup {u}
  BY <1>1, NameRecords DEF Reasons
<1>3. PICK u : /\ u.reason = "OverBudget" /\ u.depth = Head(queue).depth
               /\ Range(unresolved') = Range(unresolved) \cup {u}
  BY <1>2
<1>4. FetchInv'
  BY <1>1, <1>2, <1>3, Counts DEF WalkInv, FetchesInv, FetchInv, Named
<1>5. fetches = Budget
  <2>1. ~Named("DepthExceeded")
    BY <1>1, DeepIsLast DEF FetchesInv
  <2>2. CASE Named("OverBudget")
    BY <2>2 DEF FetchesInv, BudgetIsFetches, Named
  <2>3. CASE ~Named("OverBudget")
    BY <1>1, <2>1, <2>3, Counts, BudgetType DEF WalkInv, FetchesInv, FetchInv, BudgetIsFetches
  <2> QED
    BY <2>2, <2>3
<1>6. BudgetIsFetches'
  BY <1>1, <1>5, BudgetType DEF BudgetIsFetches, Budget, Saturated
<1> QED
  BY <1>4, <1>6 DEF FetchesInv

\* While the budget lasts, nothing was named without a fetch.
LEMMA AskingFacts ==
  ASSUME WalkInv, FetchesInv, Asking
  PROVE  /\ Popping /\ ~Named("OverBudget") /\ ~Named("DepthExceeded")
         /\ fetches' = fetches + 1 /\ fetches + 1 <= Budget
         /\ fetches = Len(resolved) + Len(unresolved)
<1>1. /\ Popping /\ ~TooDeep /\ fetches' = fetches + 1
      /\ ~(Len(resolved) + Len(unresolved) >= Budget)
  BY DEF Asking, Fresh, Spent
<1>2. ~Named("DepthExceeded")
  BY <1>1, DeepIsLast DEF FetchesInv
<1>3. fetches < Budget
  BY <1>1, Counts, BudgetType DEF WalkInv, FetchesInv, FetchInv
<1>4. ~Named("OverBudget")
  BY <1>3, Counts, BudgetType DEF WalkInv, FetchesInv, BudgetIsFetches, Named
<1> QED
  BY <1>1, <1>2, <1>3, <1>4, Counts, BudgetType DEF WalkInv, FetchesInv, FetchInv

\* A fetch that fails counts as one record and one fetch.
LEMMA FailedFetches ==
  ASSUME WalkInv, FetchesInv, Asking,
         NEW reason \in {"Store", "Unavailable", "IdMismatch"}, Name(reason)
  PROVE  FetchesInv'
<1>1. /\ Popping /\ ~Named("OverBudget") /\ ~Named("DepthExceeded")
      /\ fetches' = fetches + 1 /\ fetches + 1 <= Budget
      /\ fetches = Len(resolved) + Len(unresolved)
  BY AskingFacts
<1>2. /\ Len(unresolved') = Len(unresolved) + 1 /\ resolved' = resolved
      /\ \E u : /\ u.reason = reason /\ u.depth = Head(queue).depth
                /\ Range(unresolved') = Range(unresolved) \cup {u}
  BY <1>1, NameRecords DEF Reasons
<1>3. PICK u : u.reason = reason /\ Range(unresolved') = Range(unresolved) \cup {u}
  BY <1>2
<1>4. \A x \in Range(unresolved') : x.reason # "OverBudget" /\ x.reason # "DepthExceeded"
  BY <1>1, <1>3 DEF Named
<1>5. FetchInv'
  BY <1>1, <1>2, <1>4, Counts DEF WalkInv, FetchInv
<1>6. BudgetIsFetches'
  BY <1>1, <1>4 DEF BudgetIsFetches, Budget, Saturated
<1> QED
  BY <1>5, <1>6 DEF FetchesInv

\* So does one that succeeds.
LEMMA ResolvedFetches ==
  ASSUME WalkInv, FetchesInv, NEW d \in Documents, FetchResolved(d)
  PROVE  FetchesInv'
<1>1. /\ Popping /\ ~Named("OverBudget") /\ ~Named("DepthExceeded")
      /\ fetches' = fetches + 1 /\ fetches + 1 <= Budget
      /\ fetches = Len(resolved) + Len(unresolved)
  BY AskingFacts DEF FetchResolved
<1>2. Len(resolved') = Len(resolved) + 1 /\ unresolved' = unresolved
  BY DEF WalkInv, TypeOK, FetchResolved
<1>3. FetchInv'
  BY <1>1, <1>2, Counts DEF WalkInv, FetchInv, Named
<1>4. BudgetIsFetches'
  BY <1>1, <1>2 DEF BudgetIsFetches, Named, Budget, Saturated
<1> QED
  BY <1>3, <1>4 DEF FetchesInv

-----------------------------------------------------------------------------
(* The whole walk *)

\* Nothing is queued or recorded yet.
LEMMA InitInv == Init => Inv
<1> SUFFICES ASSUME Init PROVE Inv
  OBVIOUS
<1>1. Recorded = {} /\ Range(unresolved) = {} /\ Len(queue) = 0
  BY DEF Init, Recorded, Range
<1>2. Len(resolved) = 0 /\ Len(unresolved) = 0 /\ fetches = 0 /\ pc = "verify"
  BY DEF Init
<1>3. TypeOK
  BY DEF Init, TypeOK
<1>4. PhaseInv /\ VisitedInv /\ NamedOnce
  BY <1>1 DEF Init, PhaseInv, VisitedInv, NamedOnce
<1>5. LevelInv /\ LinkInv /\ FollowedInv
  BY <1>1, <1>2 DEF LevelInv, LinkInv, FollowedInv
<1>6. FetchesInv
  BY <1>1, <1>2, BudgetType DEF FetchesInv, FetchInv, BudgetIsFetches, Named
<1> QED
  BY <1>3, <1>4, <1>5, <1>6 DEF Inv, WalkInv

\* The walk starts with the root's own references, at depth 1.
LEMMA RootStep ==
  ASSUME Inv, VerifyRoot
  PROVE  Inv'
<1>1. /\ pc = "verify" /\ queue = <<>> /\ visited = {} /\ resolved = <<>> /\ unresolved = <<>>
      /\ fetches = 0 /\ root \in Documents
  BY DEF VerifyRoot, Inv, WalkInv, PhaseInv, TypeOK
<1>2. /\ resolved' = <<>> /\ unresolved' = <<>> /\ fetches' = 0 /\ root' = root /\ misuse' = misuse
  BY <1>1 DEF VerifyRoot
<1>3. Recorded' = {} /\ Range(unresolved') = {} /\ Range(resolved') = {}
      /\ Len(resolved') = 0 /\ Len(unresolved') = 0
  BY <1>2 DEF Recorded, Range
<1>4. FetchesInv'
  BY <1>2, <1>3, BudgetType DEF FetchesInv, FetchInv, BudgetIsFetches, Named, Budget, Saturated
<1>5. NamedOnce'
  BY <1>2, <1>3, SMTT(30) DEF NamedOnce
<1>6. CASE misuse
  <2>1. pc' = "error" /\ queue' = <<>> /\ visited' = {} /\ Len(queue') = 0
    BY <1>1, <1>6 DEF VerifyRoot
  <2>2. TypeOK'
    BY <1>1, <1>2, <2>1 DEF Inv, WalkInv, TypeOK
  <2> QED
    BY <1>2, <1>3, <1>4, <1>5, <2>1, <2>2, SMTT(30)
       DEF Inv, WalkInv, PhaseInv, VisitedInv, LevelInv, LinkInv, FollowedInv
<1>7. CASE ~misuse
  <2> DEFINE refs == root.referenced_proofs
  <2>1. pc' = "walk" /\ queue' = References(root, 1) /\ visited' = root.proof_id
    BY <1>7 DEF VerifyRoot
  <2>2. /\ refs \in Seq(Ids) /\ Len(refs) \in Nat /\ DOMAIN refs = 1..Len(refs)
        /\ root.proof_id \subseteq Ids
    BY <1>1, DocumentsAssumption DEF Document
  <2>3. 1 \in 1..(MaxTransitiveDepth + 1)
    BY ResolveAssumption
  <2>4. queue' \in [1..Len(refs) -> QueueItem]
    BY <2>1, <2>2, <2>3 DEF References, QueueItem
  <2>5. queue' \in Seq(QueueItem) /\ Len(queue') = Len(refs)
    BY <2>2, <2>4
  <2>6. \A i \in 1..Len(queue') : queue'[i].depth = 1 /\ queue'[i].id = refs[i]
    BY <2>1, <2>5 DEF References
  <2>7. TypeOK'
    BY <1>1, <1>2, <2>1, <2>2, <2>5 DEF Inv, WalkInv, TypeOK, QueueItem
  <2>8. PhaseInv' /\ VisitedInv'
    BY <1>2, <1>3, <2>1 DEF PhaseInv, VisitedInv
  <2>9. LevelInv'
    BY <1>3, <2>6 DEF LevelInv
  <2>10. \A n, id : LinkedFrom(n, id)' <=> n = 0 /\ id \in Range(refs)
    BY <1>2, <1>3 DEF LinkedFrom
  <2>11. LinkInv'
    <3>1. ASSUME NEW i \in 1..Len(queue')
          PROVE  LinkedFrom(queue[i].depth - 1, queue[i].id)'
      <4>1. queue'[i].depth - 1 = 0 /\ queue'[i].id \in Range(refs)
        BY <2>2, <2>5, <2>6 DEF Range
      <4> QED
        BY <1>2, <4>1 DEF LinkedFrom
    <3> QED
      BY <1>3, <3>1 DEF LinkInv
  <2>12. FollowedInv'
    <3> SUFFICES ASSUME NEW id \in Range(refs)
                 PROVE  \E i \in 1..Len(queue') : queue'[i].id = id /\ queue'[i].depth = 1
      BY <1>2, <2>10 DEF FollowedInv
    <3> QED
      BY <2>2, <2>5, <2>6 DEF Range
  <2> QED
    BY <1>4, <1>5, <2>7, <2>8, <2>9, <2>11, <2>12 DEF Inv, WalkInv
<1> QED
  BY <1>6, <1>7

\* Nothing changes but the program counter, or nothing at all.
LEMMA QuietStep ==
  ASSUME Inv, Return \/ UNCHANGED vars
  PROVE  Inv'
<1>1. /\ root' = root /\ misuse' = misuse /\ queue' = queue /\ visited' = visited
      /\ resolved' = resolved /\ unresolved' = unresolved /\ fetches' = fetches
      /\ pc' = pc \/ (pc = "walk" /\ pc' = "done" /\ queue = <<>>)
  BY DEF Return, vars
<1>2. Recorded' = Recorded
  BY <1>1 DEF Recorded
<1>3. \A n, id : LinkedFrom(n, id)' <=> LinkedFrom(n, id)
  BY <1>1 DEF LinkedFrom
<1>4. TypeOK' /\ PhaseInv'
  BY <1>1, ZenonT(30) DEF Inv, WalkInv, TypeOK, PhaseInv
<1>5. VisitedInv' /\ NamedOnce'
  BY <1>1, <1>2 DEF Inv, WalkInv, VisitedInv, NamedOnce
<1>6. LevelInv' /\ LinkInv'
  BY <1>1, <1>2, <1>3 DEF Inv, WalkInv, LevelInv, LinkInv
<1>7. FollowedInv'
  BY <1>1, <1>2, <1>3 DEF Inv, WalkInv, FollowedInv
<1>8. FetchesInv'
  BY <1>1 DEF Inv, FetchesInv, FetchInv, BudgetIsFetches, Named, Budget, Saturated
<1> QED
  BY <1>4, <1>5, <1>6, <1>7, <1>8 DEF Inv, WalkInv

\* Every step keeps the invariant.
LEMMA NextInv == Inv /\ [Next]_vars => Inv'
<1> SUFFICES ASSUME Inv, [Next]_vars PROVE Inv'
  OBVIOUS
<1>0. WalkInv /\ FetchesInv /\ TypeOK /\ fetches \in Nat
  BY Counts DEF Inv, WalkInv
<1>1. CASE VerifyRoot
  BY <1>1, RootStep
<1>2. CASE Return \/ Finished \/ UNCHANGED vars
  BY <1>2, QuietStep DEF Finished
<1>3. CASE SkipVisited
  <2>1. FetchesInv'
    BY <1>0, <1>3 DEF SkipVisited, FetchesInv, FetchInv, BudgetIsFetches, Named, Budget, Saturated
  <2> QED
    BY <1>0, <1>3, <2>1, SkipStep, ZenonT(30) DEF Inv
<1>4. CASE NameTooDeep
  BY <1>0, <1>4, NameStep, TooDeepFetches DEF NameTooDeep, Reasons, Inv
<1>5. CASE NameOverBudget
  BY <1>0, <1>5, NameStep, OverBudgetFetches DEF NameOverBudget, Reasons, Inv
<1>6. ASSUME NEW reason \in {"Store", "Unavailable", "IdMismatch"}, Asking, Name(reason)
      PROVE  Inv'
  <2>1. Fresh /\ fetches' \in Nat /\ reason \in Reasons
    BY <1>0, <1>6 DEF Asking, Reasons
  <2> QED
    BY <1>0, <1>6, <2>1, NameStep, FailedFetches DEF Inv
<1>7. ASSUME NEW d \in Documents, FetchResolved(d)
      PROVE  Inv'
  BY <1>0, <1>7, ResolveStep, ResolvedFetches DEF Inv
<1> QED
  BY <1>1, <1>2, <1>3, <1>4, <1>5, <1>6, <1>7 DEF Next, StoreFails, StoreMisses, FetchOther

\* The inductive invariant holds in every state of the walk.
LEMMA Invariance == Spec => []Inv
  BY InitInv, NextInv, PTL DEF Spec

\* The walk's variables keep their types, and depths stay within the bound.
THEOREM TypeCorrect == Spec => []TypeOK
<1>1. Inv => TypeOK
  BY DEF Inv, WalkInv
<1> QED
  BY <1>1, Invariance, PTL

\* A proof referred to along several paths, or around a cycle, is recorded once;
\* the root is never recorded.
THEOREM RecordedOnce == Spec => []NamedOnce
<1>1. Inv => NamedOnce
  BY DEF Inv, WalkInv
<1> QED
  BY <1>1, Invariance, PTL

\* When resolve_proof_chain returns, its records are the transitive references
\* of the root, each with its distance from it.
THEOREM AncestryIsComplete == Spec => []AncestryIsClosest
<1>1. Inv => AncestryIsClosest
  <2> SUFFICES ASSUME Inv, pc = "done" PROVE
        /\ \A x \in Recorded : x.depth > 0 /\ LinkedFrom(x.depth - 1, x.id)
        /\ \A depth \in 0..MaxTransitiveDepth : \A id \in Ids \ root.proof_id :
             LinkedFrom(depth, id) => \E x \in Recorded : x.id = id /\ x.depth <= depth + 1
    BY DEF AncestryIsClosest
  <2>1. \A x \in Recorded : x.depth > 0 /\ LinkedFrom(x.depth - 1, x.id)
    BY RecordedType, ResolveAssumption DEF Inv, WalkInv, LinkInv
  <2>2. Len(queue) = 0 /\ 0..MaxTransitiveDepth \subseteq Nat
    BY ResolveAssumption DEF Inv, WalkInv, PhaseInv
  <2>3. \A depth \in Nat : \A id \in Ids \ root.proof_id :
          LinkedFrom(depth, id) => \E x \in Recorded : x.id = id /\ x.depth <= depth + 1
    BY <2>2 DEF Inv, WalkInv, FollowedInv
  <2> QED
    BY <2>1, <2>2, <2>3
<1> QED
  BY <1>1, Invariance, PTL

\* The store is asked at most as often as the budget says, and a reference is
\* over budget only when it was asked exactly that often.
THEOREM BudgetIsExact == Spec => []BudgetIsFetches
<1>1. Inv => BudgetIsFetches
  BY DEF Inv, FetchesInv
<1> QED
  BY <1>1, Invariance, PTL
=============================================================================
