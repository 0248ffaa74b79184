--------------------------- MODULE GraphDfsProofs ---------------------------
(***************************************************************************)
(* The depth-first search of proof-graph is correct for every node set,    *)
(* every edge list and every order of starts.                              *)
(*                                                                         *)
(* The inductive invariant describes the stack.  Its entries marked        *)
(* processed are the gray nodes; every entry but the lowest is a child of  *)
(* the nearest gray node below it, so the gray nodes form a path; and the  *)
(* children of a gray node are black or still above it, so that a node is  *)
(* only finished after its children.  The history variable fin then        *)
(* decreases along every edge between black nodes: there is no cycle.      *)
(***************************************************************************)
EXTENDS GraphDfs, SequenceTheorems, WellFoundedInduction, TLAPS

\* While children are scanned, cur is the topmost gray node.
CurOnTop ==
  scan # 0 => \E p \in Positions : /\ stack[p] = <<cur, "processed">>
                                   /\ \A r \in (p + 1)..Len(stack) : stack[r][2] = "fresh"

\* The children of a gray node (for cur: those already scanned) are finished
\* or wait above it.
Scanned(p, i) ==
  /\ Included(edges[i], Nodes, excluded) /\ edges[i].from = stack[p][1]
  /\ scan # 0 /\ stack[p][1] = cur => i < scan

DoneOrAbove(p, i) ==
  \/ color[edges[i].to] = "BLACK"
  \/ \E q \in (p + 1)..Len(stack) : stack[q][1] = edges[i].to

ChildrenAbove ==
  \A p \in Positions : stack[p][2] = "processed" =>
    \A i \in DOMAIN edges : Scanned(p, i) => DoneOrAbove(p, i)

\* Finished nodes have finished children, which were finished earlier.
BlackClosed ==
  /\ \A n \in Nodes : color[n] = "BLACK" => fin[n] < tick
  /\ \A n, m \in Nodes : color[n] = "BLACK" /\ <<n, m>> \in Walked =>
                           color[m] = "BLACK" /\ fin[m] < fin[n]

\* A start that was handled has been coloured, or is about to be.
StartsHandled ==
  \A n \in AllNodes \ todo : color[n] # "WHITE" \/ \E p \in Positions : stack[p][1] = n

Answer ==
  /\ result = "acyclic" => \A n \in AllNodes : color[n] = "BLACK"
  /\ result = "cycle" => HasCycle(Nodes, Walked)

Inv ==
  /\ TypeOK /\ GrayOnStack /\ NothingAboveItself /\ ParentBelow /\ CurOnTop
  /\ ChildrenAbove /\ BlackClosed /\ StartsHandled /\ Answer

-----------------------------------------------------------------------------
\* A non-empty set of naturals has a least element.
LEMMA LeastNatural ==
  ASSUME NEW T \in SUBSET Nat, T # {}
  PROVE  \E x \in T : \A y \in T : x <= y
<1> DEFINE R == OpToRel(<, Nat)
<1>1. \A x, y \in Nat : <<y, x>> \notin R => x <= y
  BY DEF OpToRel
<1>2. IsWellFoundedOn(R, Nat)
  BY NatLessThanWellFounded
<1> HIDE DEF R
<1>3. \E x \in T : \A y \in T : ~(<<y, x>> \in R)
  BY <1>2, WFMin, ZenonT(30)
<1> QED  BY <1>1, <1>3, ZenonT(30)

\* Popping a non-empty stack leaves the entries below the top.
LEMMA PopStack ==
  ASSUME NEW S, NEW s \in Seq(S), s # <<>>
  PROVE  LET r == SubSeq(s, 1, Len(s) - 1)
         IN /\ r \in Seq(S) /\ Len(r) = Len(s) - 1
            /\ \A i \in 1..(Len(s) - 1) : r[i] = s[i]
            /\ Len(s) \in Nat /\ Len(s) > 0 /\ s[Len(s)] \in S
<1>1. Len(s) \in Nat /\ Len(s) > 0
  BY EmptySeq
<1>2. \A i \in 1..(Len(s) - 1) : s[i] \in S
  BY <1>1, ElementOfSeq
<1> DEFINE m == Len(s) - 1
           r == SubSeq(s, 1, m)
<1>3. m \in Int /\ m >= 0
  BY <1>1
<1>4. /\ r \in Seq(S) /\ Len(r) = (IF 1 <= m THEN m - 1 + 1 ELSE 0)
      /\ \A i \in 1..(m - 1 + 1) : r[i] = s[1 + i - 1]
  <2> HIDE DEF m
  <2> QED  BY <1>2, <1>3, SubSeqProperties DEF m
<1>5. Len(r) = m /\ \A i \in 1..m : r[i] = s[i]
  <2> HIDE DEF m, r
  <2>1. m - 1 + 1 = m /\ \A i \in 1..m : 1 + i - 1 = i
    BY <1>3
  <2> QED  BY <1>3, <1>4, <2>1
<1>6. s[Len(s)] \in S
  BY <1>1, ElementOfSeq
<1> QED  BY <1>1, <1>4, <1>5, <1>6

\* A sequence of one entry: what it holds.
LEMMA SingleEntry ==
  ASSUME NEW S, NEW x \in S
  PROVE  <<x>> \in Seq(S)
  OBVIOUS

\* Pushing keeps the entries and adds one at the top.
LEMMA PushStack ==
  ASSUME NEW S, NEW s \in Seq(S), NEW x \in S
  PROVE  /\ Append(s, x) \in Seq(S) /\ Len(Append(s, x)) = Len(s) + 1
         /\ Append(s, x)[Len(s) + 1] = x
         /\ \A i \in 1..Len(s) : Append(s, x)[i] = s[i]
         /\ Len(s) \in Nat
  OBVIOUS

\* An edge that is walked comes from an edge of the list between members.
LEMMA WalkedEdges ==
  /\ \A n, m : <<n, m>> \in Walked <=>
       \E i \in DOMAIN edges : /\ Included(edges[i], Nodes, excluded)
                               /\ n = edges[i].from /\ m = edges[i].to
  /\ \A n, m : <<n, m>> \in Walked => n \in AllNodes /\ m \in AllNodes /\ n \in Nodes /\ m \in Nodes
<1>1. \A n, m : <<n, m>> \in Walked <=>
       \E i \in DOMAIN edges : /\ Included(edges[i], Nodes, excluded)
                               /\ n = edges[i].from /\ m = edges[i].to
  BY DEF Walked, Pairs
<1>2. \A n, m : <<n, m>> \in Walked => n \in Nodes /\ m \in Nodes
  BY <1>1 DEF Included
<1> QED  BY <1>1, <1>2, ZenonT(30) DEF AllNodes

-----------------------------------------------------------------------------
\* The invariant holds initially: the stack is empty and all nodes are white.
LEMMA InitInv == Init => Inv
<1> SUFFICES ASSUME Init PROVE Inv  OBVIOUS
<1>1. TypeOK
  <2>1. edges \in Seq(Edge) /\ Len(edges) \in Nat
    BY EdgeListsAssumption, LenProperties DEF Init
  <2> QED  BY <2>1 DEF Init, TypeOK, Colors
<1>2. Positions = {}
  BY DEF Init, Positions
<1>3. GrayOnStack /\ NothingAboveItself /\ ParentBelow /\ CurOnTop /\ ChildrenAbove
  BY <1>2 DEF Init, GrayOnStack, NothingAboveItself, ParentBelow, CurOnTop, ChildrenAbove
<1>4. BlackClosed /\ StartsHandled /\ Answer
  BY DEF Init, BlackClosed, StartsHandled, Answer
<1> QED  BY <1>1, <1>3, <1>4 DEF Inv

\* The graph that is searched never changes.
LEMMA SameGraph ==
  ASSUME UNCHANGED <<edges, excluded>>
  PROVE  /\ Walked' = Walked /\ AllNodes' = AllNodes
         /\ HasCycle(Nodes, Walked)' = HasCycle(Nodes, Walked)
  BY DEF Walked, AllNodes, HasCycle, Pairs, Included

\* A start pushes one unprocessed entry, or is skipped because it is coloured.
LEMMA StartStep == Inv /\ Start => Inv'
<1> SUFFICES ASSUME Inv, Start PROVE Inv'  OBVIOUS
<1> USE DEF Inv
<1>1. PICK s \in todo : /\ todo' = todo \ {s}
                       /\ stack' = IF color[s] = "WHITE" THEN << <<s, "fresh">> >> ELSE <<>>
  BY DEF Start
<1>2. s \in Nodes /\ s \in AllNodes
  BY ZenonT(30) DEF TypeOK, AllNodes
<1>3. UNCHANGED <<edges, excluded, color, cur, scan, result, fin, tick>> /\ scan = 0 /\ result = "running"
  BY DEF Start, Running
<1>4. stack' \in Seq(Nodes \X Marks)
      /\ \A p \in Positions' : p = 1 /\ stack'[p] = <<s, "fresh">>
  <2>1. CASE color[s] = "WHITE"
    <3>1. stack' = << <<s, "fresh">> >>  BY <1>1, <2>1
    <3>2. << <<s, "fresh">> >> \in Seq(Nodes \X Marks)
      <4>1. <<s, "fresh">> \in Nodes \X Marks  BY <1>2 DEF Marks
      <4> QED  BY <4>1, SingleEntry
    <3>3. Len(stack') = 1 /\ stack'[1] = <<s, "fresh">>  BY <3>1
    <3> QED  BY <3>1, <3>2, <3>3 DEF Positions
  <2>2. CASE color[s] # "WHITE"
    BY <1>1, <2>2 DEF Positions
  <2> QED  BY <2>1, <2>2
<1>4a. \A p \in Positions' : stack'[p][2] = "fresh"
  BY <1>4
<1>5. TypeOK'
  BY <1>1, <1>3, <1>4, SameGraph DEF TypeOK
<1>6. \A n \in Nodes : color[n] # "GRAY"
  BY DEF GrayOnStack, Start, Positions
<1>7. GrayOnStack'
  <2>1. \A n \in Nodes, p \in Positions' : stack'[p] # <<n, "processed">>
    BY <1>4a
  <2> QED  BY <1>3, <1>6, <2>1 DEF GrayOnStack
<1>8. NothingAboveItself' /\ ParentBelow' /\ CurOnTop'
  BY <1>3, <1>4 DEF NothingAboveItself, ParentBelow, CurOnTop, Positions
<1>9. ChildrenAbove'
  BY <1>4a DEF ChildrenAbove
<1>10. BlackClosed'
  BY <1>3, SameGraph DEF BlackClosed
<1>11. StartsHandled'
  <2> SUFFICES ASSUME NEW n \in AllNodes, n \notin todo', color[n] = "WHITE"
               PROVE  \E p \in Positions' : stack'[p][1] = n
    BY <1>3, SameGraph DEF StartsHandled
  <2>1. n = s
    BY <1>1 DEF StartsHandled, Positions, Start
  <2> QED  BY <2>1, <1>1 DEF Positions
<1>12. Answer'
  BY <1>3 DEF Answer
<1> QED  BY <1>5, <1>7, <1>8, <1>9, <1>10, <1>11, <1>12

\* When all starts are handled and the stack is empty, every node is black.
LEMMA FinishStep == Inv /\ Finish => Inv'
<1> SUFFICES ASSUME Inv, Finish PROVE Inv'  OBVIOUS
<1>1. UNCHANGED <<edges, excluded, color, todo, stack, cur, scan, fin, tick>> /\ Positions = {}
  BY DEF Finish, Positions
<1>2. \A n \in AllNodes : color[n] = "BLACK"
  BY <1>1, ZenonT(30) DEF Inv, StartsHandled, GrayOnStack, TypeOK, Colors, Finish, AllNodes
<1>3. Answer'
  BY <1>1, <1>2, SameGraph DEF Finish, Answer
<1> QED
  BY <1>1, <1>3, SameGraph, SMTT(30) DEF Finish, Inv, TypeOK, GrayOnStack, NothingAboveItself, ParentBelow,
     CurOnTop, ChildrenAbove, BlackClosed, StartsHandled, Positions

\* The entries of the stack are pairs of a node and a mark.
LEMMA StackEntries ==
  ASSUME TypeOK
  PROVE  /\ Len(stack) \in Nat
         /\ \A p \in Positions : /\ stack[p] = <<stack[p][1], stack[p][2]>>
                                /\ stack[p][1] \in Nodes /\ stack[p][2] \in Marks
<1>1. stack \in Seq(Nodes \X Marks)
  BY DEF TypeOK
<1>2. \A p \in Positions : stack[p] \in Nodes \X Marks
  BY <1>1, ElementOfSeq DEF Positions
<1> QED  BY <1>1, <1>2, LenProperties

\* What a pop leaves of the stack.
LEMMA PopEntries ==
  ASSUME TypeOK, stack # <<>>, stack' = Rest
  PROVE  /\ Len(stack) \in Nat /\ Len(stack) > 0 /\ Len(stack) \in Positions
         /\ Positions' = 1..(Len(stack) - 1) /\ Len(stack') = Len(stack) - 1
         /\ stack' \in Seq(Nodes \X Marks)
         /\ \A p \in Positions' : p \in Positions /\ p < Len(stack) /\ stack'[p] = stack[p]
  BY PopStack, SMTT(30) DEF TypeOK, Rest, Positions

\* A pop shortens the path of gray nodes, if at all, at its end.
LEMMA PopKeepsPath ==
  ASSUME TypeOK, NothingAboveItself, ParentBelow, UNCHANGED <<edges, excluded>>,
         stack # <<>>, stack' = Rest
  PROVE  NothingAboveItself' /\ ParentBelow'
<1>1. /\ Len(stack) \in Nat /\ Positions' = 1..(Len(stack) - 1)
      /\ \A p \in Positions' : p \in Positions /\ p < Len(stack) /\ stack'[p] = stack[p]
  BY PopEntries
<1>2. NothingAboveItself'
  BY <1>1 DEF NothingAboveItself
<1>3. ParentBelow'
  <2> SUFFICES ASSUME NEW q \in Positions', q > 1
               PROVE  \E p \in 1..(q - 1) :
                        /\ stack'[p][2] = "processed" /\ <<stack'[p][1], stack'[q][1]>> \in Walked
                        /\ \A r \in (p + 1)..(q - 1) : stack'[r][2] = "fresh"
    BY SameGraph DEF ParentBelow
  <2>1. \A p \in 1..q : p \in Positions' /\ stack'[p] = stack[p]
    BY <1>1
  <2>2. PICK p \in 1..(q - 1) :
          /\ stack[p][2] = "processed" /\ <<stack[p][1], stack[q][1]>> \in Walked
          /\ \A r \in (p + 1)..(q - 1) : stack[r][2] = "fresh"
    BY <1>1, ZenonT(30) DEF ParentBelow
  <2>3. p \in 1..q /\ q \in 1..q /\ \A r \in (p + 1)..(q - 1) : r \in 1..q
    BY <1>1
  <2> QED  BY <2>1, <2>2, <2>3
<1> QED  BY <1>2, <1>3

\* A processed entry is popped: its node is finished, after its children.
LEMMA PopProcessedStep == Inv /\ PopProcessed => Inv'
<1> SUFFICES ASSUME Inv, PopProcessed PROVE Inv'  OBVIOUS
<1> DEFINE L == Len(stack)
           n == stack[L][1]
<1> USE DEF Inv
<1>1. UNCHANGED <<edges, excluded, todo, cur, scan, result>> /\ scan = 0 /\ result = "running"
      /\ stack # <<>> /\ stack' = Rest /\ tick' = tick + 1
      /\ color' = [color EXCEPT ![n] = "BLACK"] /\ fin' = [fin EXCEPT ![n] = tick]
  BY DEF PopProcessed, Running, Top
<1>2. /\ L \in Nat /\ L \in Positions /\ Positions' = 1..(L - 1) /\ Len(stack') = L - 1
      /\ stack' \in Seq(Nodes \X Marks)
      /\ \A p \in Positions' : p \in Positions /\ p < L /\ stack'[p] = stack[p]
  BY <1>1, PopEntries
<1>3. stack[L] = <<n, "processed">> /\ n \in Nodes
  BY <1>2, StackEntries DEF PopProcessed, Top
<1>4. color[n] = "GRAY"
  BY <1>2, <1>3 DEF GrayOnStack
<1>5. \A p \in Positions' : stack[p] # <<n, "processed">>
  <2> SUFFICES ASSUME NEW p \in Positions', stack[p] = <<n, "processed">> PROVE FALSE  OBVIOUS
  <2>1. p \in Positions /\ p < L /\ stack[p][2] = "processed" /\ stack[p][1] = stack[L][1]
    BY <1>2
  <2> QED  BY <1>2, <2>1, ZenonT(30) DEF NothingAboveItself
<1>6. \A m \in Nodes : color'[m] = IF m = n THEN "BLACK" ELSE color[m]
  BY <1>1 DEF TypeOK
<1>7. \A m \in Nodes : fin'[m] = IF m = n THEN tick ELSE fin[m]
  BY <1>1 DEF TypeOK
<1>8. TypeOK'
  BY <1>1, <1>2, <1>3, SameGraph DEF TypeOK, Colors
<1>9. GrayOnStack'
  <2> SUFFICES ASSUME NEW m \in Nodes
               PROVE  color'[m] = "GRAY" <=> \E p \in Positions' : stack'[p] = <<m, "processed">>
    BY DEF GrayOnStack
  <2>1. CASE m = n
    BY <2>1, <1>2, <1>5, <1>6
  <2>2. CASE m # n
    <3>1. color'[m] = "GRAY" <=> \E p \in Positions : stack[p] = <<m, "processed">>
      BY <2>2, <1>6 DEF GrayOnStack
    <3>2. \A p \in Positions : stack[p] = <<m, "processed">> => p # L /\ p \in 1..(L - 1)
      BY <2>2, <1>2, <1>3 DEF Positions
    <3> QED  BY <3>1, <3>2, <1>2, ZenonT(30)
  <2> QED  BY <2>1, <2>2
<1>10. NothingAboveItself' /\ ParentBelow'
  BY <1>1, PopKeepsPath
<1>12. CurOnTop'
  BY <1>1 DEF CurOnTop
<1>13. ChildrenAbove'
  <2> SUFFICES ASSUME NEW p \in Positions', stack'[p][2] = "processed",
                      NEW i \in DOMAIN edges', Scanned(p, i)'
               PROVE  DoneOrAbove(p, i)'
    BY DEF ChildrenAbove
  <2>1. i \in DOMAIN edges /\ Scanned(p, i) /\ edges[i].to \in Nodes
    BY <1>1, <1>2 DEF Scanned, Included
  <2>2. DoneOrAbove(p, i)
    BY <1>2, <2>1 DEF ChildrenAbove
  <2>3. CASE color[edges[i].to] = "BLACK"
    BY <2>1, <2>3, <1>1, <1>6 DEF DoneOrAbove
  <2>4. ASSUME NEW q \in (p + 1)..L, stack[q][1] = edges[i].to
        PROVE  DoneOrAbove(p, i)'
    <3>1. CASE q = L
      BY <2>1, <2>4, <3>1, <1>1, <1>6 DEF DoneOrAbove
    <3>2. CASE q # L
      <4>1. p \in 1..(L - 1) /\ L \in Nat
        BY <1>2
      <4>2. q \in 1..(L - 1) /\ q \in (p + 1)..(L - 1)
        <5> HIDE DEF L
        <5> QED  BY <3>2, <4>1
      <4>3. q \in Positions' /\ q \in (p + 1)..Len(stack')
        BY <4>2, <1>2
      <4> QED  BY <2>4, <4>3, <1>1, <1>2 DEF DoneOrAbove
    <3> QED  BY <3>1, <3>2
  <2> QED  BY <2>2, <2>3, <2>4 DEF DoneOrAbove
<1>14. BlackClosed'
  <2>1. ASSUME NEW m, <<n, m>> \in Walked
        PROVE  m \in Nodes /\ color[m] = "BLACK"
    <3>1. PICK i \in DOMAIN edges : Included(edges[i], Nodes, excluded) /\ n = edges[i].from /\ m = edges[i].to
      BY <2>1, WalkedEdges
    <3>2. (L + 1)..L = {}
      BY <1>2
    <3>3. stack[L][2] = "processed" /\ stack[L][1] = edges[i].from
      BY <1>3, <3>1
    <3>4. DoneOrAbove(L, i)
      BY <1>1, <1>2, <3>1, <3>3 DEF ChildrenAbove, Scanned
    <3> QED  BY <3>1, <3>2, <3>4 DEF DoneOrAbove, Included
  <2>2. \A m \in Nodes : color[m] = "BLACK" => m # n /\ fin[m] < tick
    BY <1>4 DEF BlackClosed
  <2>3. \A m \in Nodes : color'[m] = "BLACK" => fin'[m] < tick'
    BY <2>2, <1>1, <1>6, <1>7 DEF TypeOK
  <2>4. ASSUME NEW k \in Nodes, NEW m \in Nodes, color'[k] = "BLACK", <<k, m>> \in Walked
        PROVE  color'[m] = "BLACK" /\ fin'[m] < fin'[k]
    <3>1. CASE k = n
      BY <3>1, <2>1, <2>2, <2>4, <1>6, <1>7
    <3>2. CASE k # n
      BY <3>2, <2>2, <2>4, <1>6, <1>7 DEF BlackClosed
    <3> QED  BY <3>1, <3>2
  <2> QED  BY <1>1, <2>3, <2>4, SameGraph DEF BlackClosed
<1>15. StartsHandled'
  <2> SUFFICES ASSUME NEW m \in AllNodes, m \notin todo, color'[m] = "WHITE"
               PROVE  \E p \in Positions' : stack'[p][1] = m
    BY <1>1, SameGraph DEF StartsHandled
  <2>1. m \in Nodes /\ m # n /\ color[m] = "WHITE"
    BY <1>6 DEF AllNodes
  <2>2. PICK p \in Positions : stack[p][1] = m
    BY <2>1 DEF StartsHandled
  <2> QED  BY <2>1, <2>2, <1>2 DEF Positions
<1>16. Answer'
  BY <1>1 DEF Answer
<1> QED  BY <1>8, <1>9, <1>10, <1>12, <1>13, <1>14, <1>15, <1>16

\* A fresh entry on top is never gray: a gray node has no entry above its own.
LEMMA FreshTopNotGray ==
  ASSUME Inv, stack # <<>>, Top[2] = "fresh"
  PROVE  Top[1] \in Nodes /\ color[Top[1]] # "GRAY"
<1> USE DEF Inv
<1> DEFINE L == Len(stack)
<1>1. L \in Nat /\ L \in Positions /\ stack[L][1] \in Nodes
  BY StackEntries, EmptySeq DEF Positions, TypeOK
<1>2. ASSUME NEW p \in Positions, stack[p] = <<stack[L][1], "processed">> PROVE FALSE
  <2>1. stack[p][2] = "processed" /\ stack[p][1] = stack[L][1]
    BY <1>2
  <2>2. p < L
    BY <1>1, <2>1 DEF Top, Positions
  <2> QED  BY <1>1, <2>1, <2>2 DEF NothingAboveItself
<1> QED  BY <1>1, <1>2, ZenonT(30) DEF GrayOnStack, Top

\* A fresh white entry turns gray in place and its children are scanned next.
LEMMA PopWhiteStep == Inv /\ PopFresh /\ color[Top[1]] = "WHITE" => Inv'
<1> SUFFICES ASSUME Inv, PopFresh, color[Top[1]] = "WHITE" PROVE Inv'  OBVIOUS
<1> DEFINE L == Len(stack)
           n == stack[L][1]
<1> USE DEF Inv
<1>1. UNCHANGED <<edges, excluded, todo, result, fin, tick>> /\ scan = 0 /\ result = "running"
      /\ stack # <<>> /\ stack' = Append(Rest, <<n, "processed">>)
      /\ color' = [color EXCEPT ![n] = "GRAY"] /\ cur' = n /\ scan' = 1
      /\ stack[L][2] = "fresh" /\ color[n] = "WHITE"
  BY DEF PopFresh, Running, Top
<1>2. L \in Nat /\ L > 0 /\ L \in Positions /\ n \in Nodes
  BY <1>1, StackEntries, EmptySeq DEF Positions, TypeOK
<1>3. /\ stack' \in Seq(Nodes \X Marks) /\ Len(stack') = L /\ Positions' = Positions
      /\ stack'[L] = <<n, "processed">>
      /\ \A p \in Positions : p # L => stack'[p] = stack[p] /\ p \in 1..(L - 1)
  <2>1. <<n, "processed">> \in Nodes \X Marks
    BY <1>2 DEF Marks
  <2>2. /\ Rest \in Seq(Nodes \X Marks) /\ Len(Rest) = L - 1
        /\ \A i \in 1..(L - 1) : Rest[i] = stack[i]
    BY <1>1, PopStack DEF Rest, TypeOK
  <2>3. /\ stack' \in Seq(Nodes \X Marks) /\ Len(stack') = (L - 1) + 1
        /\ stack'[(L - 1) + 1] = <<n, "processed">>
        /\ \A i \in 1..(L - 1) : stack'[i] = Rest[i]
    BY <1>1, <2>1, <2>2, PushStack
  <2>4. (L - 1) + 1 = L
    BY <1>2
  <2> QED  BY <1>2, <2>2, <2>3, <2>4 DEF Positions
<1>4. \A p \in Positions : stack'[p][1] = stack[p][1]
  BY <1>3
<1>5. \A m \in Nodes : color'[m] = IF m = n THEN "GRAY" ELSE color[m]
  BY <1>1 DEF TypeOK
<1>6. TypeOK'
  <2>1. Len(edges) \in Nat
    BY LenProperties DEF TypeOK
  <2> QED  BY <1>1, <1>2, <1>3, <2>1, SameGraph DEF TypeOK, Colors
<1>7. GrayOnStack'
  <2> SUFFICES ASSUME NEW m \in Nodes
               PROVE  color'[m] = "GRAY" <=> \E p \in Positions : stack'[p] = <<m, "processed">>
    BY <1>3 DEF GrayOnStack
  <2>1. CASE m = n
    BY <2>1, <1>2, <1>3, <1>5, ZenonT(30)
  <2>2. CASE m # n
    <3>1. color'[m] = "GRAY" <=> \E p \in Positions : stack[p] = <<m, "processed">>
      BY <2>2, <1>5 DEF GrayOnStack
    <3>2. \A p \in Positions : stack[p] = <<m, "processed">> => p # L
      BY <1>1
    <3>3. \A p \in Positions : stack'[p] = <<m, "processed">> => p # L
      BY <2>2, <1>3
    <3> QED  BY <3>1, <3>2, <3>3, <1>3, ZenonT(30)
  <2> QED  BY <2>1, <2>2
<1>8. NothingAboveItself'
  <2> SUFFICES ASSUME NEW p \in Positions, NEW q \in Positions, p < q, stack'[p][2] = "processed"
               PROVE  stack'[q][1] # stack'[p][1]
    BY <1>3 DEF NothingAboveItself
  <2>1. p # L
    BY <1>2 DEF Positions
  <2> QED  BY <2>1, <1>3, <1>4, SMTT(30) DEF NothingAboveItself
<1>9. ParentBelow'
  <2> SUFFICES ASSUME NEW q \in Positions, q > 1
               PROVE  \E p \in 1..(q - 1) :
                        /\ stack'[p][2] = "processed" /\ <<stack'[p][1], stack'[q][1]>> \in Walked
                        /\ \A r \in (p + 1)..(q - 1) : stack'[r][2] = "fresh"
    BY <1>1, <1>3, SameGraph, ZenonT(60) DEF ParentBelow
  <2>1. \A p \in 1..(q - 1) : p \in Positions /\ p # L /\ stack'[p] = stack[p]
    BY <1>2, <1>3 DEF Positions
  <2>2. PICK p \in 1..(q - 1) :
          /\ stack[p][2] = "processed" /\ <<stack[p][1], stack[q][1]>> \in Walked
          /\ \A r \in (p + 1)..(q - 1) : stack[r][2] = "fresh"
    BY DEF ParentBelow
  <2>3. \A r \in (p + 1)..(q - 1) : r \in 1..(q - 1)
    BY <1>2 DEF Positions
  <2> QED  BY <1>4, <2>1, <2>2, <2>3
<1>10. CurOnTop'
  <2>1. (L + 1)..L = {}
    BY <1>2
  <2> QED  BY <1>1, <1>2, <1>3, <2>1 DEF CurOnTop
<1>11. ChildrenAbove'
  <2> SUFFICES ASSUME NEW p \in Positions, stack'[p][2] = "processed",
                      NEW i \in DOMAIN edges', Scanned(p, i)'
               PROVE  DoneOrAbove(p, i)'
    BY <1>3, ZenonT(30) DEF ChildrenAbove
  <2>1. i \in DOMAIN edges /\ i \in Nat /\ ~(i < 1) /\ edges[i].to \in Nodes
    <3>1. i \in 1..Len(edges) /\ Len(edges) \in Nat
      BY <1>1, LenProperties DEF TypeOK
    <3> QED  BY <1>1, <3>1, SMTT(30) DEF Scanned, Included
  <2>2. stack'[p][1] # n
    BY <1>1, <2>1, ZenonT(30) DEF Scanned
  <2>3. p # L
    BY <1>4, <2>2
  <2>4. DoneOrAbove(p, i)
    BY <1>1, <1>3, <2>1, <2>3, ZenonT(30) DEF ChildrenAbove, Scanned, Included
  <2>5. \A q \in (p + 1)..L : q \in Positions
    BY <1>2, SMTT(30) DEF Positions
  <2> QED  BY <1>1, <1>3, <1>4, <1>5, <2>1, <2>4, <2>5, ZenonT(30) DEF DoneOrAbove
<1>12. BlackClosed'
  BY <1>1, <1>5, SameGraph, SMTT(30) DEF BlackClosed
<1>13. StartsHandled'
  <2>1. \A m \in AllNodes : m \in Nodes
    BY DEF AllNodes
  <2> QED  BY <1>1, <1>3, <1>4, <1>5, <2>1, SameGraph DEF StartsHandled
<1>14. Answer'
  BY <1>1 DEF Answer
<1> QED  BY <1>6, <1>7, <1>8, <1>9, <1>10, <1>11, <1>12, <1>13, <1>14

\* A fresh entry whose node was finished meanwhile is dropped.
LEMMA PopBlackStep == Inv /\ PopFresh /\ color[Top[1]] # "WHITE" => Inv'
<1> SUFFICES ASSUME Inv, PopFresh, color[Top[1]] # "WHITE" PROVE Inv'  OBVIOUS
<1> DEFINE L == Len(stack)
           n == stack[L][1]
<1> USE DEF Inv
<1>1. scan = 0 /\ result = "running" /\ stack # <<>> /\ stack' = Rest /\ stack[L][2] = "fresh"
      /\ UNCHANGED <<edges, excluded, todo, fin, tick, color, cur, scan>>
  BY DEF PopFresh, Running, Top
<1>2. color[n] = "BLACK" /\ n \in Nodes /\ UNCHANGED result
  <2>1. color[n] # "GRAY" /\ n \in Nodes
    BY <1>1, FreshTopNotGray DEF Top
  <2> QED  BY <1>1, <2>1 DEF PopFresh, Top, TypeOK, Colors
<1>3. /\ L \in Nat /\ L \in Positions /\ Positions' = 1..(L - 1) /\ Len(stack') = L - 1
      /\ stack' \in Seq(Nodes \X Marks)
      /\ \A p \in Positions' : p \in Positions /\ p < L /\ stack'[p] = stack[p]
      /\ \A p \in Positions : p # L => p \in Positions'
  BY <1>1, PopEntries DEF Positions
<1>4. TypeOK'
  BY <1>1, <1>2, <1>3, SameGraph, ZenonT(30) DEF TypeOK
<1>5. GrayOnStack'
  <2> SUFFICES ASSUME NEW m \in Nodes
               PROVE  color[m] = "GRAY" <=> \E p \in Positions' : stack'[p] = <<m, "processed">>
    BY <1>1, ZenonT(30) DEF GrayOnStack
  <2>1. \A p \in Positions : stack[p] = <<m, "processed">> => p # L
    BY <1>1
  <2>2. (\E p \in Positions : stack[p] = <<m, "processed">>)
          <=> \E p \in Positions' : stack'[p] = <<m, "processed">>
    BY <1>3, <2>1, ZenonT(30)
  <2> QED  BY <2>2 DEF GrayOnStack
<1>6. NothingAboveItself' /\ ParentBelow'
  BY <1>1, PopKeepsPath
<1>7. CurOnTop'
  BY <1>1 DEF CurOnTop
<1>8. ChildrenAbove'
  <2> SUFFICES ASSUME NEW p \in Positions', stack'[p][2] = "processed",
                      NEW i \in DOMAIN edges', Scanned(p, i)'
               PROVE  DoneOrAbove(p, i)'
    BY DEF ChildrenAbove
  <2>1. DoneOrAbove(p, i)
    BY <1>1, <1>3 DEF ChildrenAbove, Scanned, Included
  <2>2. ASSUME NEW q \in (p + 1)..L, stack[q][1] = edges[i].to
        PROVE  DoneOrAbove(p, i)'
    <3>1. CASE q = L
      BY <2>2, <3>1, <1>1, <1>2 DEF DoneOrAbove
    <3>2. CASE q # L
      <4>1. p \in 1..(L - 1) /\ L \in Nat
        BY <1>3
      <4>2. q \in 1..(L - 1) /\ q \in (p + 1)..(L - 1)
        <5> HIDE DEF L
        <5> QED  BY <3>2, <4>1
      <4>3. q \in Positions' /\ q \in (p + 1)..Len(stack')
        BY <4>2, <1>3
      <4> QED  BY <2>2, <4>3, <1>1, <1>3, ZenonT(30) DEF DoneOrAbove
    <3> QED  BY <3>1, <3>2, ZenonT(30)
  <2> QED  BY <1>1, <2>1, <2>2 DEF DoneOrAbove
<1>9. BlackClosed'
  BY <1>1, SameGraph DEF BlackClosed
<1>10. StartsHandled'
  <2> SUFFICES ASSUME NEW m \in AllNodes, m \notin todo, color[m] = "WHITE"
               PROVE  \E p \in Positions' : stack'[p][1] = m
    BY <1>1, SameGraph DEF StartsHandled
  <2>1. PICK p \in Positions : stack[p][1] = m
    BY DEF StartsHandled
  <2> QED  BY <2>1, <1>2, <1>3, ZenonT(30)
<1>11. Answer'
  BY <1>1, <1>2 DEF Answer
<1> QED  BY <1>4, <1>5, <1>6, <1>7, <1>8, <1>9, <1>10, <1>11

\* A white child of cur is pushed above everything else.
LEMMA PushChildStep == Inv /\ ScanChild /\ color[edges[scan].to] = "WHITE" => Inv'
<1> SUFFICES ASSUME Inv, ScanChild, color[edges[scan].to] = "WHITE" PROVE Inv'  OBVIOUS
<1> DEFINE L == Len(stack)
           c == edges[scan].to
<1> USE DEF Inv
<1>1. /\ UNCHANGED <<edges, excluded, color, todo, cur, result, fin, tick>> /\ result = "running"
      /\ scan \in 1..Len(edges) /\ scan' = scan + 1 /\ stack' = Append(stack, <<c, "fresh">>)
      /\ Included(edges[scan], Nodes, excluded) /\ edges[scan].from = cur
  BY DEF ScanChild, Running, IsChild
<1>2. /\ Len(edges) \in Nat /\ DOMAIN edges = 1..Len(edges)
      /\ scan \in Nat /\ scan # 0 /\ scan' # 0 /\ scan' \in 0..(Len(edges) + 1)
  <2>1. Len(edges) \in Nat /\ DOMAIN edges = 1..Len(edges)
    BY LenProperties DEF TypeOK
  <2> QED  BY <1>1, <2>1
<1>3. c \in Nodes /\ <<cur, c>> \in Walked /\ color[c] = "WHITE"
  <2>1. scan \in DOMAIN edges
    BY <1>1, <1>2
  <2> QED  BY <1>1, <2>1, WalkedEdges, ZenonT(30) DEF Included
<1>4. /\ L \in Nat /\ stack' \in Seq(Nodes \X Marks) /\ Len(stack') = L + 1
      /\ stack'[L + 1] = <<c, "fresh">> /\ \A p \in Positions : stack'[p] = stack[p]
      /\ Positions = 1..L /\ Positions' = 1..(L + 1) /\ L + 1 \in Positions'
      /\ \A p \in Positions' : p # L + 1 => p \in Positions
  <2>1. <<c, "fresh">> \in Nodes \X Marks
    BY <1>3 DEF Marks
  <2>2. /\ L \in Nat /\ stack' \in Seq(Nodes \X Marks) /\ Len(stack') = L + 1
        /\ stack'[L + 1] = <<c, "fresh">> /\ \A p \in Positions : stack'[p] = stack[p]
    BY <1>1, <2>1, PushStack, SMTT(30) DEF TypeOK, Positions
  <2> QED  BY <2>2 DEF Positions
<1>5. TypeOK'
  BY <1>1, <1>2, <1>4, SameGraph DEF TypeOK
<1>6. \A p \in Positions' : stack'[p][2] = "processed" => p \in Positions
  BY <1>4
<1>7. GrayOnStack'
  <2> SUFFICES ASSUME NEW m \in Nodes
               PROVE  color[m] = "GRAY" <=> \E p \in Positions' : stack'[p] = <<m, "processed">>
    BY <1>1, ZenonT(30) DEF GrayOnStack
  <2>1. \A p \in Positions' : stack'[p] = <<m, "processed">> => p \in Positions
    BY <1>6
  <2>2. \A p \in Positions : p \in Positions' /\ stack'[p] = stack[p]
    BY <1>4
  <2>3. (\E p \in Positions : stack[p] = <<m, "processed">>)
          <=> \E p \in Positions' : stack'[p] = <<m, "processed">>
    BY <2>1, <2>2
  <2> QED  BY <2>3 DEF GrayOnStack
<1>8. NothingAboveItself'
  <2> SUFFICES ASSUME NEW p \in Positions', NEW q \in Positions', p < q, stack'[p][2] = "processed"
               PROVE  stack'[q][1] # stack'[p][1]
    BY DEF NothingAboveItself
  <2>1. p \in Positions /\ stack'[p] = stack[p]
    BY <1>4, <1>6
  <2>2. CASE q = L + 1
    <3>1. stack[p] = <<stack[p][1], "processed">> /\ stack[p][1] \in Nodes
      BY <2>1, StackEntries
    <3>2. color[stack[p][1]] = "GRAY"
      BY <2>1, <3>1 DEF GrayOnStack
    <3> QED  BY <2>1, <2>2, <3>2, <1>3, <1>4
  <2>3. CASE q # L + 1
    BY <2>1, <2>3, <1>4, SMTT(30) DEF NothingAboveItself
  <2> QED  BY <2>2, <2>3
<1>9. PICK t \in Positions : /\ stack[t] = <<cur, "processed">>
                            /\ \A r \in (t + 1)..L : stack[r][2] = "fresh"
  BY <1>2 DEF CurOnTop
<1>10. ParentBelow'
  <2> SUFFICES ASSUME NEW q \in Positions', q > 1
               PROVE  \E p \in 1..(q - 1) :
                        /\ stack'[p][2] = "processed" /\ <<stack'[p][1], stack'[q][1]>> \in Walked
                        /\ \A r \in (p + 1)..(q - 1) : stack'[r][2] = "fresh"
    BY <1>1, SameGraph, ZenonT(30) DEF ParentBelow
  <2>1. \A p \in 1..(q - 1) : p \in Positions /\ stack'[p] = stack[p]
    BY <1>4
  <2>2. CASE q = L + 1
    <3>1. q - 1 = L /\ t \in 1..(q - 1) /\ \A r \in (t + 1)..(q - 1) : r \in 1..(q - 1) /\ r \in (t + 1)..L
      BY <2>2, <1>4
    <3>2. stack'[t][2] = "processed" /\ <<stack'[t][1], stack'[q][1]>> \in Walked
      <4>1. stack'[t] = <<cur, "processed">> /\ stack'[q] = <<c, "fresh">>
        BY <2>1, <2>2, <3>1, <1>4, <1>9
      <4> QED  BY <4>1, <1>3
    <3> QED  BY <2>1, <3>1, <3>2, <1>9, ZenonT(30)
  <2>3. CASE q # L + 1
    <3>1. q \in Positions /\ stack'[q] = stack[q]
      BY <2>3, <1>4
    <3>2. PICK p \in 1..(q - 1) :
            /\ stack[p][2] = "processed" /\ <<stack[p][1], stack[q][1]>> \in Walked
            /\ \A r \in (p + 1)..(q - 1) : stack[r][2] = "fresh"
      BY <3>1 DEF ParentBelow
    <3>3. \A r \in (p + 1)..(q - 1) : r \in 1..(q - 1)
      BY <1>4
    <3> QED  BY <2>1, <3>1, <3>2, <3>3
  <2> QED  BY <2>2, <2>3
<1>11. CurOnTop'
  <2>1. t \in Positions' /\ stack'[t] = <<cur', "processed">>
    BY <1>1, <1>4, <1>9
  <2>2. \A r \in (t + 1)..Len(stack') : stack'[r][2] = "fresh"
    <3> SUFFICES ASSUME NEW r \in (t + 1)..(L + 1) PROVE stack'[r][2] = "fresh"
      BY <1>4
    <3>1. r # L + 1 => r \in (t + 1)..L /\ r \in Positions
      BY <1>4
    <3> QED  BY <3>1, <1>4, <1>9
  <2> QED  BY <2>1, <2>2 DEF CurOnTop
<1>12. ChildrenAbove'
  <2> SUFFICES ASSUME NEW p \in Positions', stack'[p][2] = "processed",
                      NEW i \in DOMAIN edges', Scanned(p, i)'
               PROVE  DoneOrAbove(p, i)'
    BY ZenonT(30) DEF ChildrenAbove
  <2>1. p \in Positions /\ stack'[p] = stack[p] /\ i \in DOMAIN edges /\ i \in Nat
    BY <1>1, <1>2, <1>4, <1>6, SMTT(30)
  <2>2. CASE Scanned(p, i)
    <3>1. DoneOrAbove(p, i)
      BY <2>1, <2>2 DEF ChildrenAbove
    <3>2. \A q \in (p + 1)..L : q \in Positions /\ q \in (p + 1)..Len(stack')
      BY <1>4, SMTT(30)
    <3> QED  BY <3>1, <3>2, <1>1, <1>4, ZenonT(30) DEF DoneOrAbove
  <2>3. CASE ~Scanned(p, i)
    <3>1. i = scan
      BY <2>1, <2>3, <1>1, <1>2 DEF Scanned, Included
    <3>2. L + 1 \in (p + 1)..Len(stack') /\ stack'[L + 1][1] = edges[i].to
      BY <2>1, <3>1, <1>4, SMTT(30)
    <3> QED  BY <3>2, <1>1, ZenonT(30) DEF DoneOrAbove
  <2> QED  BY <2>2, <2>3
<1>13. BlackClosed' /\ Answer'
  BY <1>1, SameGraph, ZenonT(30) DEF BlackClosed, Answer
<1>14. StartsHandled'
  BY <1>1, <1>4, SameGraph DEF StartsHandled
<1> QED  BY <1>5, <1>7, <1>8, <1>10, <1>11, <1>12, <1>13, <1>14

\* The conjuncts of the invariant that say nothing about the scan.
LEMMA ScanKeeps ==
  ASSUME Inv, UNCHANGED <<edges, excluded, color, todo, stack, cur, result, fin, tick>>
  PROVE  /\ GrayOnStack' /\ NothingAboveItself' /\ ParentBelow' /\ BlackClosed'
         /\ StartsHandled' /\ Answer' /\ Positions' = Positions
<1>1. Positions' = Positions
  BY ZenonT(30) DEF Positions
<1>2. GrayOnStack' /\ NothingAboveItself'
  BY <1>1 DEF Inv, GrayOnStack, NothingAboveItself
<1>3. ParentBelow'
  BY <1>1, SameGraph DEF Inv, ParentBelow
<1>4. BlackClosed' /\ Answer'
  BY SameGraph DEF Inv, BlackClosed, Answer
<1>5. StartsHandled'
  BY <1>1, SameGraph DEF Inv, StartsHandled
<1> QED
  BY <1>1, <1>2, <1>3, <1>4, <1>5

\* The scan moves past an edge that needs no push: a finished child of cur, or
\* no child of cur at all.
LEMMA ScanOnStep ==
  ASSUME Inv, UNCHANGED <<edges, excluded, color, todo, stack, cur, result, fin, tick>>,
         scan \in 1..Len(edges), scan' = scan + 1,
         IsChild(scan) => color[edges[scan].to] = "BLACK"
  PROVE  Inv'
<1> USE DEF Inv
<1>1. /\ Len(edges) \in Nat /\ DOMAIN edges = 1..Len(edges)
      /\ scan # 0 /\ scan' # 0 /\ scan' \in 0..(Len(edges) + 1)
  <2>1. Len(edges) \in Nat /\ DOMAIN edges = 1..Len(edges)
    BY LenProperties DEF TypeOK
  <2> QED  BY <2>1
<1>2. TypeOK'
  BY <1>1, SameGraph DEF TypeOK
<1>3. CurOnTop'
  BY <1>1, ScanKeeps DEF CurOnTop
<1>4. ChildrenAbove'
  <2> SUFFICES ASSUME NEW p \in Positions, stack[p][2] = "processed",
                      NEW i \in DOMAIN edges, Scanned(p, i)'
               PROVE  DoneOrAbove(p, i)
    BY ScanKeeps, ZenonT(30) DEF ChildrenAbove, DoneOrAbove
  <2>1. CASE Scanned(p, i)
    BY <2>1 DEF ChildrenAbove
  <2>2. CASE ~Scanned(p, i)
    <3>1. i = scan /\ IsChild(i)
      BY <2>2, <1>1 DEF Scanned, Included, IsChild
    <3> QED  BY <3>1, ZenonT(30) DEF DoneOrAbove
  <2> QED  BY <2>1, <2>2, ZenonT(30)
<1> QED  BY <1>2, <1>3, <1>4, ScanKeeps

\* At the end of the scan every child of cur has been seen.
LEMMA ScanEndStep == Inv /\ ScanEnd => Inv'
<1> SUFFICES ASSUME Inv, ScanEnd PROVE Inv'  OBVIOUS
<1> USE DEF Inv
<1>1. UNCHANGED <<edges, excluded, color, todo, stack, cur, result, fin, tick>>
      /\ scan = Len(edges) + 1 /\ scan' = 0
  BY DEF ScanEnd
<1>2. Len(edges) \in Nat /\ DOMAIN edges = 1..Len(edges)
  BY LenProperties, ZenonT(30) DEF TypeOK
<1>3. TypeOK' /\ CurOnTop'
  BY <1>1, <1>2, SameGraph DEF TypeOK, CurOnTop
<1>4. ChildrenAbove'
  <2> SUFFICES ASSUME NEW p \in Positions, stack[p][2] = "processed",
                      NEW i \in DOMAIN edges, Scanned(p, i)'
               PROVE  DoneOrAbove(p, i)
    BY <1>1, ScanKeeps DEF ChildrenAbove, DoneOrAbove
  <2>1. Scanned(p, i)
    BY <1>1, <1>2 DEF Scanned, Included
  <2> QED  BY <2>1, ZenonT(30) DEF ChildrenAbove
<1> QED  BY <1>1, <1>3, <1>4, ScanKeeps

\* A gray child of cur closes a cycle: the gray nodes from the child's entry up
\* to cur's each have a predecessor among them.
LEMMA GrayChildIsCycle ==
  ASSUME Inv, ScanGray
  PROVE  HasCycle(Nodes, Walked)
<1> USE DEF Inv
<1> DEFINE L == Len(stack)
           c == edges[scan].to
<1>1. c \in Nodes /\ <<cur, c>> \in Walked /\ color[c] = "GRAY" /\ scan # 0
  <2>1. scan \in DOMAIN edges /\ scan # 0
    BY LenProperties DEF ScanGray, TypeOK
  <2> QED  BY <2>1, WalkedEdges DEF ScanGray, IsChild, Included
<1>2. L \in Nat /\ Positions = 1..L
  BY StackEntries DEF Positions
<1>3. PICK b \in Positions : stack[b] = <<c, "processed">>
  BY <1>1 DEF GrayOnStack
<1>4. PICK t \in Positions : /\ stack[t] = <<cur, "processed">>
                            /\ \A r \in (t + 1)..L : stack[r][2] = "fresh"
  BY <1>1 DEF CurOnTop
<1>5. b <= t
  <2>1. ~(b \in (t + 1)..L)
    BY <1>3, <1>4
  <2> QED  BY <1>2, <2>1
<1> DEFINE Above == { p \in b..L : stack[p][2] = "processed" }
           S == { stack[p][1] : p \in Above }
<1>6. S \in SUBSET Nodes
  <2>1. \A p \in Above : p \in Positions
    BY <1>2
  <2> QED  BY <2>1, StackEntries
<1>7. c \in S /\ cur \in S
  <2>1. b \in Above /\ t \in Above
    BY <1>2, <1>3, <1>4, <1>5
  <2>2. c = stack[b][1] /\ cur = stack[t][1]
    BY <1>3, <1>4
  <2> QED  BY <2>1, <2>2
<1>8. ASSUME NEW y \in S PROVE \E x \in S : <<x, y>> \in Walked
  <2>1. PICK q \in Above : y = stack[q][1]
    OBVIOUS
  <2>2. q \in Positions /\ stack[q][2] = "processed" /\ b <= q
    BY <1>2
  <2>3. CASE q = b
    <3>1. y = c
      BY <2>1, <2>3, <1>3
    <3> QED  BY <3>1, <1>1, <1>7, ZenonT(30)
  <2>4. CASE q # b
    <3>1. q > b /\ q > 1
      BY <2>2, <2>4, <1>2
    <3>2. PICK p \in 1..(q - 1) :
            /\ stack[p][2] = "processed" /\ <<stack[p][1], stack[q][1]>> \in Walked
            /\ \A r \in (p + 1)..(q - 1) : stack[r][2] = "fresh"
      BY <2>2, <3>1 DEF ParentBelow
    <3>3. ~(b \in (p + 1)..(q - 1))
      BY <3>2, <1>3
    <3>4. p \in b..L
      BY <2>2, <3>1, <3>3, <1>2
    <3>5. p \in Above
      BY <3>2, <3>4
    <3> QED  BY <2>1, <3>2, <3>5, ZenonT(30)
  <2> QED  BY <2>3, <2>4, ZenonT(30)
<1> HIDE DEF S
<1> QED  BY <1>6, <1>7, <1>8, ZenonT(30) DEF HasCycle

\* Changing the result alone disturbs its type and the answer only.
LEMMA ResultStep ==
  ASSUME Inv, UNCHANGED <<edges, excluded, color, todo, stack, cur, scan, fin, tick>>,
         result' \in {"running", "acyclic", "cycle"}, Answer'
  PROVE  Inv'
<1> USE DEF Inv
<1>1. Positions' = Positions
  BY DEF Positions
<1>2. TypeOK'
  BY SameGraph, ZenonT(30) DEF TypeOK
<1>3. GrayOnStack' /\ NothingAboveItself' /\ CurOnTop'
  BY <1>1, ZenonT(30) DEF GrayOnStack, NothingAboveItself, CurOnTop
<1>4. ParentBelow'
  BY <1>1, SameGraph DEF ParentBelow
<1>5. ChildrenAbove'
  BY <1>1 DEF ChildrenAbove, Scanned, DoneOrAbove, Included
<1>6. BlackClosed' /\ StartsHandled'
  BY <1>1, SameGraph DEF BlackClosed, StartsHandled
<1> QED  BY <1>2, <1>3, <1>4, <1>5, <1>6

\* Meeting a gray child ends the search with a cycle.
LEMMA ScanGrayStep == Inv /\ ScanGray => Inv'
<1> SUFFICES ASSUME Inv, ScanGray PROVE Inv'  OBVIOUS
<1>1. UNCHANGED <<edges, excluded, color, todo, stack, cur, scan, fin, tick>> /\ result' = "cycle"
  BY DEF ScanGray
<1>2. Answer'
  BY <1>1, GrayChildIsCycle, SameGraph, ZenonT(30) DEF Answer
<1> QED  BY <1>1, <1>2, ResultStep

\* A stuttering step keeps the invariant.
LEMMA StutterStep == Inv /\ UNCHANGED vars => Inv'
<1> SUFFICES ASSUME Inv, UNCHANGED vars PROVE Inv'  OBVIOUS
<1>1. Answer'
  BY SameGraph DEF vars, Inv, Answer
<1> QED  BY <1>1, ResultStep DEF vars, Inv, TypeOK

\* Every step of the search preserves the invariant.
LEMMA NextInv == Inv /\ [Next]_vars => Inv'
<1> SUFFICES ASSUME Inv, [Next]_vars PROVE Inv'  OBVIOUS
<1>1. CASE Start
  BY <1>1, StartStep
<1>2. CASE Finish
  BY <1>2, FinishStep
<1>3. CASE PopProcessed
  BY <1>3, PopProcessedStep
<1>4. CASE PopFresh
  BY <1>4, PopWhiteStep, PopBlackStep
<1>5. CASE ScanChild
  <2>1. CASE color[edges[scan].to] = "WHITE"
    BY <1>5, <2>1, PushChildStep
  <2>2. CASE color[edges[scan].to] # "WHITE"
    <3>1. IsChild(scan) /\ edges[scan].to \in Nodes
      BY <1>5 DEF ScanChild, IsChild, Included
    <3>2. color[edges[scan].to] = "BLACK"
      BY <1>5, <2>2, <3>1, ZenonT(30) DEF ScanChild, Inv, TypeOK, Colors
    <3> QED  BY <1>5, <2>2, <3>2, ScanOnStep, ZenonT(30) DEF ScanChild
  <2> QED  BY <2>1, <2>2
<1>6. CASE ScanGray
  BY <1>6, ScanGrayStep
<1>7. CASE ScanOther
  BY <1>7, ScanOnStep DEF ScanOther
<1>8. CASE ScanEnd
  BY <1>8, ScanEndStep
<1>9. CASE Returned
  BY <1>9, StutterStep DEF Returned
<1>10. CASE UNCHANGED vars
  BY <1>10, StutterStep
<1> QED  BY <1>1, <1>2, <1>3, <1>4, <1>5, <1>6, <1>7, <1>8, <1>9, <1>10 DEF Next

\* The inductive invariant holds in every state of the search.
LEMMA Invariance == Spec => []Inv
<1> QED  BY InitInv, NextInv, PTL DEF Spec

\* When every node of the walked edges is black there is no cycle: the member
\* of a predecessor-closed set that was finished last has no predecessor in it.
LEMMA AllBlackAcyclic ==
  ASSUME Inv, \A n \in AllNodes : color[n] = "BLACK"
  PROVE  ~HasCycle(Nodes, Walked)
<1> USE DEF Inv
<1> SUFFICES ASSUME NEW S \in SUBSET Nodes, S # {},
                    \A y \in S : \E x \in S : <<x, y>> \in Walked
             PROVE  FALSE
  BY DEF HasCycle
<1>1. \A y \in S : color[y] = "BLACK" /\ y \in Nodes
  BY WalkedEdges, ZenonT(30)
<1>2. tick \in Nat /\ \A y \in S : fin[y] \in Nat /\ fin[y] < tick
  BY <1>1 DEF BlackClosed, TypeOK
<1> DEFINE T == { tick - fin[y] : y \in S }
<1>3. T \in SUBSET Nat /\ T # {}
  BY <1>2
<1>4. PICK x \in T : \A z \in T : x <= z
  <2> HIDE DEF T
  <2> QED  BY <1>3, LeastNatural
<1>5. PICK y \in S : x = tick - fin[y]
  BY <1>4
<1>6. PICK w \in S : <<w, y>> \in Walked
  OBVIOUS
<1>7. fin[y] < fin[w]
  BY <1>1, <1>6 DEF BlackClosed
<1>8. tick - fin[w] \in T
  OBVIOUS
<1>9. tick - fin[y] <= tick - fin[w]
  BY <1>4, <1>5, <1>8
<1> QED  BY <1>2, <1>7, <1>9

-----------------------------------------------------------------------------
\* The search's state is well typed, for every node set and edge list.
THEOREM TypeCorrect == Spec => []TypeOK
<1>1. Inv => TypeOK
  BY DEF Inv
<1> QED  BY <1>1, Invariance, PTL

\* The explicit stack of check_derivation_acyclic and check_acyclic_provenance
\* holds the path a recursive search would be on, for every graph.
THEOREM StackIsAlwaysPath == Spec => []StackIsPath
<1>1. Inv => StackIsPath
  BY DEF Inv, StackIsPath
<1> QED  BY <1>1, Invariance, PTL

\* check_derivation_acyclic and check_acyclic_provenance answer correctly: they
\* return CYCLE_DETECTED only for a graph with a cycle, and Ok only for one
\* without, for every node set, every edge list and every order of the starts.
THEOREM SearchIsCorrect == Spec => []DfsCorrect
<1>1. Inv => DfsCorrect
  BY AllBlackAcyclic DEF Inv, Answer, DfsCorrect
<1> QED  BY <1>1, Invariance, PTL

\* The CYCLE_DETECTED return in the pop of the search is unreachable.
THEOREM PopNeverDetects == Spec => []GrayNeverPopped
<1>1. Inv => GrayNeverPopped
  BY FreshTopNotGray DEF GrayNeverPopped
<1> QED  BY <1>1, Invariance, PTL
=============================================================================
