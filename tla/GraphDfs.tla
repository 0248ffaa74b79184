------------------------------ MODULE GraphDfs ------------------------------
(***************************************************************************)
(* The iterative depth-first search of check_derivation_acyclic and        *)
(* check_acyclic_provenance (proof-graph/src/lib.rs), step by step: the    *)
(* explicit stack of (node, processed?) pairs, the colours, and an outer   *)
(* loop that iterates a HashSet and so starts from nodes in any order.     *)
(*                                                                         *)
(* The children of a node are visited in the order of the edge list, so    *)
(* the adjacency list is read off it: `scan` is the edge examined next     *)
(* while the children of `cur` are pushed, and 0 otherwise.                *)
(***************************************************************************)
EXTENDS Digraph

CONSTANTS
  Nodes,       \* member ids of the proof
  Edge,        \* edge records
  EdgeLists,   \* the relationship lists considered
  Exclusions   \* the sets of excluded types: one for each of the two checks

ASSUME EdgeListsAssumption == EdgeLists \subseteq Seq(Edge)

VARIABLES edges, excluded, color, todo, stack, cur, scan, result,
          fin, tick   \* history: when a node was finished

vars == <<edges, excluded, color, todo, stack, cur, scan, result, fin, tick>>

Walked == Pairs(edges, Nodes, excluded)

\* `all`: the endpoints of the edges that are walked.
AllNodes == { n \in Nodes : \E m \in Nodes : <<n, m>> \in Walked \/ <<m, n>> \in Walked }

Init ==
  /\ edges \in EdgeLists /\ excluded \in Exclusions
  /\ color = [n \in Nodes |-> "WHITE"]
  /\ todo = AllNodes
  /\ stack = <<>> /\ cur = (CHOOSE n \in Nodes : TRUE) /\ scan = 0
  /\ result = "running"
  /\ fin = [n \in Nodes |-> 0] /\ tick = 0

Running == result = "running"

\* for start in all: the next start, skipped unless it is white.
Start ==
  /\ Running /\ scan = 0 /\ stack = <<>>
  /\ \E s \in todo :
       /\ todo' = todo \ {s}
       /\ stack' = IF color[s] = "WHITE" THEN << <<s, "fresh">> >> ELSE <<>>
  /\ UNCHANGED <<edges, excluded, color, cur, scan, result, fin, tick>>

\* Every start was handled: no cycle.
Finish ==
  /\ Running /\ scan = 0 /\ stack = <<>> /\ todo = {}
  /\ result' = "acyclic"
  /\ UNCHANGED <<edges, excluded, color, todo, stack, cur, scan, fin, tick>>

Top == stack[Len(stack)]
Rest == SubSeq(stack, 1, Len(stack) - 1)

\* Mutant: the finished node stays gray.
PopProcessed_StaysGray ==
  /\ Running /\ scan = 0 /\ stack # <<>> /\ Top[2] = "processed"
  /\ stack' = Rest
  /\ fin' = [fin EXCEPT ![Top[1]] = tick] /\ tick' = tick + 1
  /\ UNCHANGED <<edges, excluded, color, todo, cur, scan, result>>

\* A node whose children are all done is finished.
PopProcessed ==
  /\ Running /\ scan = 0 /\ stack # <<>> /\ Top[2] = "processed"
  /\ color' = [color EXCEPT ![Top[1]] = "BLACK"]
  /\ stack' = Rest
  /\ fin' = [fin EXCEPT ![Top[1]] = tick] /\ tick' = tick + 1
  /\ UNCHANGED <<edges, excluded, todo, cur, scan, result>>

\* Mutant: a node seen for the first time is not marked gray.
PopFresh_StaysWhite ==
  /\ Running /\ scan = 0 /\ stack # <<>> /\ Top[2] = "fresh"
  /\ IF color[Top[1]] = "WHITE"
     THEN /\ stack' = Append(Rest, <<Top[1], "processed">>)
          /\ cur' = Top[1] /\ scan' = 1 /\ UNCHANGED result
     ELSE /\ stack' = Rest
          /\ result' = IF color[Top[1]] = "GRAY" THEN "cycle" ELSE result
          /\ UNCHANGED <<cur, scan>>
  /\ UNCHANGED <<edges, excluded, color, todo, fin, tick>>

\* Mutant: the loop looks at the top of the stack, and goes on to the next
\* round at a black node without having popped it.
PopFresh_KeepsBlack ==
  /\ Running /\ scan = 0 /\ stack # <<>> /\ Top[2] = "fresh"
  /\ IF color[Top[1]] = "WHITE"
     THEN /\ color' = [color EXCEPT ![Top[1]] = "GRAY"]
          /\ stack' = Append(Rest, <<Top[1], "processed">>)
          /\ cur' = Top[1] /\ scan' = 1 /\ UNCHANGED result
     ELSE /\ stack' = IF color[Top[1]] = "BLACK" THEN stack ELSE Rest
          /\ result' = IF color[Top[1]] = "GRAY" THEN "cycle" ELSE result
          /\ UNCHANGED <<color, cur, scan>>
  /\ UNCHANGED <<edges, excluded, todo, fin, tick>>

\* A node seen for the first time turns gray and its children are scanned; a
\* black one was finished meanwhile; a gray one would be a cycle.
PopFresh ==
  /\ Running /\ scan = 0 /\ stack # <<>> /\ Top[2] = "fresh"
  /\ IF color[Top[1]] = "WHITE"
     THEN /\ color' = [color EXCEPT ![Top[1]] = "GRAY"]
          /\ stack' = Append(Rest, <<Top[1], "processed">>)
          /\ cur' = Top[1] /\ scan' = 1 /\ UNCHANGED result
     ELSE /\ stack' = Rest
          /\ result' = IF color[Top[1]] = "GRAY" THEN "cycle" ELSE result
          /\ UNCHANGED <<color, cur, scan>>
  /\ UNCHANGED <<edges, excluded, todo, fin, tick>>

IsChild(i) == Included(edges[i], Nodes, excluded) /\ edges[i].from = cur

\* Mutant: every child is pushed, gray ones too.
ScanChild_PushesGray ==
  /\ Running /\ scan \in 1..Len(edges) /\ IsChild(scan)
  /\ stack' = IF color[edges[scan].to] # "BLACK"
              THEN Append(stack, <<edges[scan].to, "fresh">>) ELSE stack
  /\ scan' = scan + 1
  /\ UNCHANGED <<edges, excluded, color, todo, cur, result, fin, tick>>

\* The next edge leads to a child of cur: push it if white, skip it if black.
ScanChild ==
  /\ Running /\ scan \in 1..Len(edges) /\ IsChild(scan)
  /\ color[edges[scan].to] # "GRAY"
  /\ stack' = IF color[edges[scan].to] = "WHITE"
              THEN Append(stack, <<edges[scan].to, "fresh">>) ELSE stack
  /\ scan' = scan + 1
  /\ UNCHANGED <<edges, excluded, color, todo, cur, result, fin, tick>>

\* A gray child closes a cycle.
ScanGray ==
  /\ Running /\ scan \in 1..Len(edges) /\ IsChild(scan)
  /\ color[edges[scan].to] = "GRAY"
  /\ result' = "cycle"
  /\ UNCHANGED <<edges, excluded, color, todo, stack, cur, scan, fin, tick>>

\* The next edge is no child of cur, or there is no next edge.
ScanOther ==
  /\ Running /\ scan \in 1..Len(edges) /\ ~IsChild(scan)
  /\ scan' = scan + 1
  /\ UNCHANGED <<edges, excluded, color, todo, stack, cur, result, fin, tick>>

ScanEnd ==
  /\ Running /\ scan = Len(edges) + 1
  /\ scan' = 0
  /\ UNCHANGED <<edges, excluded, color, todo, stack, cur, result, fin, tick>>

Returned == ~Running /\ UNCHANGED vars

Next == Start \/ Finish \/ PopProcessed \/ PopFresh \/ ScanChild \/ ScanGray
          \/ ScanOther \/ ScanEnd \/ Returned

\* The loops contain no wait: the search keeps going until it returns.
Spec == Init /\ [][Next]_vars /\ WF_vars(Next)

-----------------------------------------------------------------------------
Colors == {"WHITE", "GRAY", "BLACK"}
Marks == {"fresh", "processed"}

\* Type correctness of the search's state.
TypeOK ==
  /\ edges \in Seq(Edge)
  /\ color \in [Nodes -> Colors] /\ todo \subseteq AllNodes
  /\ stack \in Seq(Nodes \X Marks) /\ (scan # 0 => cur \in Nodes)
  /\ scan \in 0..(Len(edges) + 1)
  /\ result \in {"running", "acyclic", "cycle"}
  /\ fin \in [Nodes -> Nat] /\ tick \in Nat

Positions == 1..Len(stack)

\* Gray nodes are the nodes with a processed entry on the stack.
GrayOnStack ==
  \A n \in Nodes : color[n] = "GRAY" <=> \E p \in Positions : stack[p] = <<n, "processed">>

\* No node is on the stack above its own processed entry.
NothingAboveItself ==
  \A p, q \in Positions : p < q /\ stack[p][2] = "processed" => stack[q][1] # stack[p][1]

\* Every entry but the lowest is a child of the nearest gray node below.
ParentBelow ==
  \A q \in Positions : q > 1 =>
    \E p \in 1..(q - 1) :
      /\ stack[p][2] = "processed" /\ <<stack[p][1], stack[q][1]>> \in Walked
      /\ \A r \in (p + 1)..(q - 1) : stack[r][2] = "fresh"

\* The stack is the path that the recursive search would be on: the gray nodes
\* are its processed entries, each once, and whatever waits above the lowest
\* entry is a child of the nearest gray node below it.  A gray child therefore
\* closes a cycle.
StackIsPath == GrayOnStack /\ NothingAboveItself /\ ParentBelow

\* The search answers the question it was asked: "acyclic" only for a graph
\* without a cycle, and CYCLE_DETECTED only for a graph with one, whatever
\* the order of the starts and of the edges.
DfsCorrect ==
  /\ result = "acyclic" => ~HasCycle(Nodes, Walked)
  /\ result = "cycle" => HasCycle(Nodes, Walked)

\* A gray node is never popped as fresh: the CYCLE_DETECTED return in the pop
\* is never taken, cycles are always found while children are scanned.
GrayNeverPopped ==
  Running /\ scan = 0 /\ stack # <<>> /\ Top[2] = "fresh" => color[Top[1]] # "GRAY"

\* The search returns.
Terminates == <>(result # "running")
=============================================================================
