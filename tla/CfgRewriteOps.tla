---------------------------- MODULE CfgRewriteOps ----------------------------
(***************************************************************************)
(* The location graph of a fixed-point state and the edits StateRewriter  *)
(* performs on it (src/sl/fixed_point_rewrite.cc), as operators over a     *)
(* graph value                                                             *)
(*                                                                         *)
(*     [insn |-> <<i_0, ...>>,     \* LocalState::insn (NoInsn once freed)  *)
(*      inE  |-> <<ins_0, ...>>,   \* LocalState::cfgInEdges                *)
(*      outE |-> <<outs_0, ...>>]  \* LocalState::cfgOutEdges               *)
(*                                                                         *)
(* Location indices (TLocIdx) are 0-based, as in the code.  An edge is a   *)
(* CfgEdge [targetLoc, closesLoop]: the successor in an out-edge list, the *)
(* predecessor in an in-edge list.  Instructions are abstracted to model   *)
(* values; only their presence matters to the graph.                       *)
(***************************************************************************)
EXTENDS CppStd, SequencesExt

CONSTANTS
    NoInsn      \* the null GenericInsn pointer

CfgEdge(loc, closes) == [targetLoc |-> loc, closesLoop |-> closes]

\* the list l with every element e replaced by the sequence f(e)
\* (the rebuild-and-swap loops of the code)
Expand(l, f(_)) == FoldLeft(LAMBDA acc, e : acc \o f(e), << >>, l)

-----------------------------------------------------------------------------
\* fault variant: the new location's out-edge does not inherit closesLoop
InsertInsn_noLoopFlag(g, src, dst, insn) ==
    LET at == Len(g.insn)
        redirOut(e) == IF e.targetLoc = dst THEN CfgEdge(at, FALSE) ELSE e
        redirIn(e) == IF e.targetLoc = src THEN [e EXCEPT !.targetLoc = at] ELSE e
    IN [insn |-> Append(g.insn, insn),
        outE |-> Append([g.outE EXCEPT ![src + 1] = Expand(@, LAMBDA e : <<redirOut(e)>>)],
                        <<CfgEdge(dst, FALSE)>>),
        inE |-> Append([g.inE EXCEPT ![dst + 1] = Expand(@, LAMBDA e : <<redirIn(e)>>)],
                       <<CfgEdge(src, FALSE)>>)]

\* fault variant: 'at' taken as the size after the append
InsertInsn_atAfterAppend(g, src, dst, insn) ==
    LET at == Len(g.insn) + 1
        redirOut(e) == IF e.targetLoc = dst THEN CfgEdge(at, FALSE) ELSE e
        redirIn(e) == IF e.targetLoc = src THEN [e EXCEPT !.targetLoc = at] ELSE e
    IN [insn |-> Append(g.insn, insn),
        outE |-> Append([g.outE EXCEPT ![src + 1] = Expand(@, LAMBDA e : <<redirOut(e)>>)],
                        <<CfgEdge(dst, FALSE)>>),
        inE |-> Append([g.inE EXCEPT ![dst + 1] = Expand(@, LAMBDA e : <<redirIn(e)>>)],
                       <<CfgEdge(src, FALSE)>>)]

\* fault variant: the in-edges of dst are not redirected
InsertInsn_keepInEdge(g, src, dst, insn) ==
    LET at == Len(g.insn)
        redirOut(e) == IF e.targetLoc = dst THEN CfgEdge(at, FALSE) ELSE e
    IN [insn |-> Append(g.insn, insn),
        outE |-> Append([g.outE EXCEPT ![src + 1] = Expand(@, LAMBDA e : <<redirOut(e)>>)],
                        <<CfgEdge(dst, FALSE)>>),
        inE |-> Append(g.inE, <<CfgEdge(src, FALSE)>>)]

(* StateRewriter::insertInsn(src, dst, insn): append a location holding   *)
(* insn; every out-edge src -> dst now leads to it (and no longer closes a *)
(* loop), every in-edge of dst from src now comes from it; the new         *)
(* location gets one in-edge from src and one out-edge to dst, which       *)
(* closes a loop if the last redirected out-edge did.                      *)
InsertInsn(g, src, dst, insn) ==
    LET at == Len(g.insn)
        outs == At(g.outE, src)
        hits == {k \in DOMAIN outs : outs[k].targetLoc = dst}
        closesLoop == IF hits = {} THEN FALSE ELSE outs[Max(hits)].closesLoop
        redirOut(e) == IF e.targetLoc = dst THEN CfgEdge(at, FALSE) ELSE e
        redirIn(e) == IF e.targetLoc = src THEN [e EXCEPT !.targetLoc = at] ELSE e
    IN [insn |-> Append(g.insn, insn),
        outE |-> Append([g.outE EXCEPT ![src + 1] = Expand(@, LAMBDA e : <<redirOut(e)>>)],
                        <<CfgEdge(dst, closesLoop)>>),
        inE |-> Append([g.inE EXCEPT ![dst + 1] = Expand(@, LAMBDA e : <<redirIn(e)>>)],
                       <<CfgEdge(src, FALSE)>>)]

\* StateRewriter::replaceInsn(at, insn)
ReplaceInsn(g, at, insn) == [g EXCEPT !.insn[at + 1] = insn]

\* fault variant: an edge to 'at' is replaced by the first out-edge of 'at' only
RedirectPred_firstOnly(g, at, ie) ==
    LET p == ie.targetLoc
        repl(be) == IF be.targetLoc # at THEN <<be>>
                    ELSE [k \in 1..Min({1, Len(At(g.outE, at))}) |->
                            [At(g.outE, at)[k] EXCEPT !.closesLoop = @ \/ ie.closesLoop]]
    IN [g EXCEPT !.outE[p + 1] = Expand(@, repl)]

(* One iteration of the first loop of dropInsn: the predecessor named by  *)
(* the in-edge ie gets, for each of its out-edges to 'at', the current     *)
(* out-edges of 'at' (closing a loop if ie did).                           *)
RedirectPred(g, at, ie) ==
    LET p == ie.targetLoc
        repl(be) == IF be.targetLoc # at THEN <<be>>
                    ELSE [k \in DOMAIN At(g.outE, at) |->
                            [At(g.outE, at)[k] EXCEPT !.closesLoop = @ \/ ie.closesLoop]]
    IN [g EXCEPT !.outE[p + 1] = Expand(@, repl)]

\* fault variant: the in-edge from 'at' is kept beside its replacements
RedirectSucc_keepOld(g, at, oe) ==
    LET s == oe.targetLoc
        repl(be) == IF be.targetLoc # at THEN <<be>>
                    ELSE <<be>> \o [k \in DOMAIN At(g.inE, at) |->
                            [At(g.inE, at)[k] EXCEPT !.closesLoop = @ \/ oe.closesLoop]]
    IN [g EXCEPT !.inE[s + 1] = Expand(@, repl)]

(* One iteration of the second loop: the successor named by oe gets, for  *)
(* each of its in-edges from 'at', the current in-edges of 'at'.           *)
RedirectSucc(g, at, oe) ==
    LET s == oe.targetLoc
        repl(be) == IF be.targetLoc # at THEN <<be>>
                    ELSE [k \in DOMAIN At(g.inE, at) |->
                            [At(g.inE, at)[k] EXCEPT !.closesLoop = @ \/ oe.closesLoop]]
    IN [g EXCEPT !.inE[s + 1] = Expand(@, repl)]

(* StateRewriter::dropInsn(at): free the instruction, redirect the edges  *)
(* of every predecessor, then of every successor (each loop iterates the   *)
(* list of 'at' as it is when the loop starts and reads the other list of  *)
(* 'at' as it is at each iteration), and detach 'at'.                      *)
DropInsn(g, at) ==
    LET g0 == [g EXCEPT !.insn[at + 1] = NoInsn]
        g1 == FoldLeft(LAMBDA acc, ie : RedirectPred(acc, at, ie), g0, At(g0.inE, at))
        g2 == FoldLeft(LAMBDA acc, oe : RedirectSucc(acc, at, oe), g1, At(g1.outE, at))
    IN [g2 EXCEPT !.inE[at + 1] = <<>>, !.outE[at + 1] = <<>>]

(* The std::set filter of dedupOutgoingEdges: keep an edge unless it is  *)
(* Relevant and an earlier Relevant edge with the same target was kept     *)
(* (insertOnce fails).                                                     *)
KeepFirst(l, Relevant(_)) ==
    LET seen(acc, e) == \E j \in DOMAIN acc :
                           Relevant(acc[j]) /\ acc[j].targetLoc = e.targetLoc
    IN FoldLeft(LAMBDA acc, e : IF Relevant(e) /\ seen(acc, e) THEN acc ELSE Append(acc, e),
                << >>, l)

(* StateRewriter::dedupOutgoingEdges(at): in each successor keep only the *)
(* first in-edge from 'at'; if any was dropped, keep only the first        *)
(* out-edge of 'at' per target.  Returns [g, changed].                     *)
DedupOutgoingEdges(g, at) ==
    LET fromAt(e) == e.targetLoc = at
        dedupIn(acc, oe) ==
            [acc EXCEPT !.inE[oe.targetLoc + 1] =
                KeepFirst(@, fromAt)]
        g1 == FoldLeft(dedupIn, g, At(g.outE, at))
        anyChange == \E l \in DOMAIN g.inE : Len(g1.inE[l]) # Len(g.inE[l])
        any(e) == TRUE
        g2 == [g1 EXCEPT !.outE[at + 1] =
                 KeepFirst(@, any)]
    IN IF anyChange THEN [g |-> g2, changed |-> TRUE]
       ELSE [g |-> g1, changed |-> FALSE]

=============================================================================
