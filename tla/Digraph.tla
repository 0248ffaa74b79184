------------------------------- MODULE Digraph -------------------------------
(***************************************************************************)
(* The directed graph that proof-graph's cycle searches walk, and what it  *)
(* means for it to have a cycle.  Edges are records with at least the      *)
(* fields from, to and rel_type.                                           *)
(***************************************************************************)
EXTENDS Naturals, Sequences

\* A finite directed graph has a cycle iff some non-empty set of its nodes
\* has every member preceded by a member.
HasCycle(N, E) ==
  \E S \in SUBSET N : S # {} /\ \A y \in S : \E x \in S : <<x, y>> \in E

\* A search skips some relationship types, and endpoints that are no members.
Included(e, nodes, excluded) ==
  e.rel_type \notin excluded /\ e.from \in nodes /\ e.to \in nodes

Pairs(edges, nodes, excluded) ==
  { <<edges[i].from, edges[i].to>> :
      i \in { j \in DOMAIN edges : Included(edges[j], nodes, excluded) } }

\* check_acyclic_provenance and check_derivation_acyclic differ in the types
\* they leave out.
ProvenanceExcluded == {"EQUIVALENT"}
DerivationExcluded == {"EQUIVALENT", "REFERENCES"}
=============================================================================
