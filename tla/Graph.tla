-------------------------------- MODULE Graph --------------------------------
(***************************************************************************)
(* proof-graph: topology checks over the relationships of a proof.         *)
(*                                                                         *)
(* A relationship list is a sequence of edge records                       *)
(*   [id, v, from, to, rel_type, evidence_ref, attestation_ref];           *)
(* the two refs are optional and written as sets of at most one id.  Ids   *)
(* are drawn from EvtIds, AttIds, EvdIds, RelIds and PrfIds (strings with  *)
(* the prefixes evt:, att:, evd:, rel:, prf:); any other endpoint is a     *)
(* free string, and EmptyId is the empty string.  Codes are wire strings,  *)
(* "OK" for success.                                                       *)
(*                                                                         *)
(* Here is what the searches of the code decide.  The depth-first search   *)
(* is modelled step by step in GraphDfs.                                   *)
(***************************************************************************)
EXTENDS Digraph, FiniteSets

CONSTANTS EvtIds, AttIds, EvdIds, RelIds, PrfIds, EmptyId

\* looks_like_artifact_id.  A string with an unknown prefix and a version is
\* shaped too; like a prf: id it names no member.
Shaped(x) == x \in EvtIds \cup AttIds \cup EvdIds \cup RelIds \cup PrfIds

\* RelType::requires_grounding: the trust-relevant relationship types.
RequiresGrounding ==
  {"OWNS", "CREATED", "SETTLES", "EXECUTED", "EQUIVALENT", "CONTRADICTS"}

\* An optional typed backing reference: absent is fine; otherwise it names a
\* member of the proof with the right prefix.
RefCode(ref, shaped, nodes) ==
  IF ~(ref \subseteq shaped) THEN "SCHEMA_VIOLATION"
  ELSE IF ~(ref \subseteq nodes) THEN "DANGLING_REFERENCE"
  ELSE "OK"

\* The verdict on the i-th edge, in the order of the code's checks.
EdgeCode(edges, i, nodes, extra_grounded) ==
  LET r == edges[i]
      ends == {r.from, r.to}
      dangling(ep) == ep \notin nodes /\ (r.rel_type = "EQUIVALENT" => Shaped(ep))
  IN IF \E j \in 1..(i - 1) : edges[j].id = r.id THEN "SCHEMA_VIOLATION"
     ELSE IF r.v # 1 THEN "UNSUPPORTED_VERSION"
     ELSE IF EmptyId \in ends THEN "DANGLING_REFERENCE"
     ELSE IF r.from = r.to THEN "SCHEMA_VIOLATION"
     ELSE IF \E ep \in ends : dangling(ep) THEN "DANGLING_REFERENCE"
     ELSE IF /\ r.rel_type \in RequiresGrounding \cup extra_grounded
             /\ r.evidence_ref = {} /\ r.attestation_ref = {}
          THEN "RELATIONSHIP_UNGROUNDED"
     ELSE IF RefCode(r.evidence_ref, EvdIds, nodes) # "OK"
          THEN RefCode(r.evidence_ref, EvdIds, nodes)
     ELSE RefCode(r.attestation_ref, AttIds, nodes)

AcyclicCode(edges, nodes, excluded) ==
  IF HasCycle(nodes, Pairs(edges, nodes, excluded)) THEN "CYCLE_DETECTED" ELSE "OK"

-----------------------------------------------------------------------------
(* The SUPERSEDES subgraph: linear chains, acyclic, no deeper than a limit. *)

SupIndex(edges) == { i \in DOMAIN edges : edges[i].rel_type = "SUPERSEDES" }
SupPairs(edges) == { <<edges[i].from, edges[i].to>> : i \in SupIndex(edges) }
SupNodes(edges) == UNION { {edges[i].from, edges[i].to} : i \in SupIndex(edges) }

Branches(edges, n) ==
  \/ Cardinality({ i \in SupIndex(edges) : edges[i].from = n }) > 1
  \/ Cardinality({ i \in SupIndex(edges) : edges[i].to = n }) > 1

\* Number of nodes on the longest path of an acyclic graph.
LongestChain(N, E) ==
  LET chain(k) == \E f \in [1..k -> N] : \A i \in 1..(k - 1) : <<f[i], f[i + 1]>> \in E
  IN CHOOSE k \in 0..Cardinality(N) :
       chain(k) /\ \A l \in (k + 1)..Cardinality(N) : ~chain(l)

SupersedesCode(edges, max_depth) ==
  IF \E n \in SupNodes(edges) : Branches(edges, n) THEN "SCHEMA_VIOLATION"
  ELSE IF HasCycle(SupNodes(edges), SupPairs(edges)) THEN "CYCLE_DETECTED"
  ELSE IF LongestChain(SupNodes(edges), SupPairs(edges)) > max_depth
       THEN "LIMIT_EXCEEDED"
  ELSE "OK"

-----------------------------------------------------------------------------
\* validate_graph_with_grounding: limits, then the edges in order (the first
\* defect decides), then the SUPERSEDES subgraph.  The code's last node limit,
\* on edge endpoints, can no longer fail: endpoints that count are members.
ValidateGraph(edges, nodes, limits, extra_grounded) ==
  LET bad == { i \in DOMAIN edges : EdgeCode(edges, i, nodes, extra_grounded) # "OK" }
      first == CHOOSE i \in bad : \A j \in bad : i <= j
  IN IF Len(edges) > limits.max_edges THEN "LIMIT_EXCEEDED"
     ELSE IF Cardinality(nodes) > limits.max_nodes THEN "LIMIT_EXCEEDED"
     ELSE IF bad # {} THEN EdgeCode(edges, first, nodes, extra_grounded)
     ELSE SupersedesCode(edges, limits.max_depth)
=============================================================================
