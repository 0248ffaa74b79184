--------------------------- MODULE MCResolveChain ---------------------------
(***************************************************************************)
(* A root p0 with six proofs in two layers below it: one more than the     *)
(* fetch budget 2 * 2 + 1 allows, and one layer too deep below them.       *)
(* Besides the intact documents the store may hold altered ones, whose     *)
(* links close cycles and diamonds, and bytes that do not parse.           *)
(***************************************************************************)
EXTENDS ResolveChain

CONSTANTS p0, p1, p2, p3, p4, p5, p6

Intact(id, refs) ==
  [proof_id |-> {id}, recomputed_id |-> id, referenced_proofs |-> refs]

Altered(id, refs) ==
  [proof_id |-> {id}, recomputed_id |-> p6, referenced_proofs |-> refs]

MCDocuments ==
  { Intact(p0, <<p1, p2>>), Intact(p1, <<p3, p4>>), Intact(p2, <<p5, p6>>),
    Intact(p3, <<p6>>), Intact(p4, <<>>), Intact(p5, <<>>), Intact(p6, <<>>),
    Altered(p1, <<p2, p0>>), Altered(p2, <<p1, p3>>), Altered(p3, <<p1, p5>>),
    [proof_id |-> {}, recomputed_id |-> p6, referenced_proofs |-> <<>>] }
=============================================================================
