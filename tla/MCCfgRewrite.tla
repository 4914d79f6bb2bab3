---------------------------- MODULE MCCfgRewrite ----------------------------
(***************************************************************************)
(* Location graphs of small fixed-point states:                            *)
(*                                                                         *)
(*   Loop:  0 -> 1,  1 -> 2,  2 -> 1 (closes the loop),  1 -> 3             *)
(*   Diamond: 0 -> 1, 0 -> 2, 1 -> 3, 2 -> 3                               *)
(***************************************************************************)
EXTENDS CfgRewrite

\* a graph from its out-edges; the in-edges mirror them in the same order
Cfg(n, edges) ==
    [insn |-> [l \in 1..n |-> "i1"],
     outE |-> [l \in 1..n |-> [k \in 1..Len(SelectSeq(edges, LAMBDA e : e[1] = l - 1)) |->
                 LET e == SelectSeq(edges, LAMBDA e : e[1] = l - 1)[k]
                 IN CfgEdge(e[2], e[3])]],
     inE |-> [l \in 1..n |-> [k \in 1..Len(SelectSeq(edges, LAMBDA e : e[2] = l - 1)) |->
                 LET e == SelectSeq(edges, LAMBDA e : e[2] = l - 1)[k]
                 IN CfgEdge(e[1], e[3])]]]

LoopCfg == Cfg(4, << <<0, 1, FALSE>>, <<1, 2, FALSE>>, <<2, 1, TRUE>>, <<1, 3, FALSE>> >>)
DiamondCfg == Cfg(4, << <<0, 1, FALSE>>, <<0, 2, FALSE>>, <<1, 3, FALSE>>, <<2, 3, FALSE>> >>)

MCInsns == {"i1", "i2"}
MCInitCfgs == {LoopCfg, DiamondCfg}

=============================================================================
