----------------------------- MODULE MCGraphDfs -----------------------------
(***************************************************************************)
(* Instance of GraphDfs: every list of up to MaxEdges edges over three     *)
(* members and one free string, under both exclusion sets.                 *)
(***************************************************************************)
EXTENDS GraphDfs

CONSTANTS n1, n2, n3, free, MaxEdges

Endpoints == {n1, n2, n3}

MCEdge ==
  [from : Endpoints, to : Endpoints, rel_type : {"CREATED"}]
  \cup { [from |-> n1, to |-> n2, rel_type |-> "REFERENCES"],
         [from |-> n2, to |-> n3, rel_type |-> "EQUIVALENT"],
         [from |-> n3, to |-> free, rel_type |-> "CREATED"] }

MCEdgeLists == UNION { [1..m -> MCEdge] : m \in 0..MaxEdges }
MCExclusions == {ProvenanceExcluded, DerivationExcluded}
=============================================================================
