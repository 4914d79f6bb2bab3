----------------------------- MODULE CfgRewrite -----------------------------
(***************************************************************************)
(* A StateRewriter applied to the location graph of one fixed-point state *)
(* (src/sl/fixed_point_rewrite.cc).  The callers (the container-shape      *)
(* detection and replacement passes) are not among the sources: any        *)
(* sequence of edits is allowed whose arguments satisfy what the code      *)
(* asserts (CL_BREAK_IF) or presumes of them.                              *)
(***************************************************************************)
EXTENDS CfgRewriteOps

CONSTANTS
    Insns,      \* instructions (model values)
    InitCfgs,   \* the location graphs of the fixed-point states considered
    MaxLocs,    \* bound on the number of locations
    DropSelfLoops   \* whether callers may drop a location with a self-loop

VARIABLE g

vars == <<g>>

(* The operators below take the graph gr they inspect (and the graph gr2 *)
(* an action yields) as a parameter.                                       *)
Locs(gr) == 0..(Len(gr.insn) - 1)
Live(gr, l) == At(gr.insn, l) # NoInsn

\* the successors of l over its out-edges (only those that do not close a
\* loop, if forwardOnly)
Succ(gr, l, forwardOnly) ==
    {At(gr.outE, l)[k].targetLoc :
        k \in {k \in DOMAIN At(gr.outE, l) : ~(forwardOnly /\ At(gr.outE, l)[k].closesLoop)}}

\* the locations reachable in one or more steps from the set S
RECURSIVE ReachFrom(_, _, _, _)
ReachFrom(gr, S, seen, forwardOnly) ==
    LET next == UNION {Succ(gr, l, forwardOnly) : l \in S} \ seen
    IN IF next = {} THEN seen ELSE ReachFrom(gr, next, seen \cup next, forwardOnly)

Reachable(gr, l) == ReachFrom(gr, {l}, {}, FALSE)
ForwardReachable(gr, l) == ReachFrom(gr, {l}, {}, TRUE)

Init == g \in InitCfgs

\* insertInsn(src, dst, insn) between two live neighbours
InsertInsnStep(gr, gr2, src, dst, insn) ==
    /\ Len(gr.insn) < MaxLocs
    /\ Live(gr, src) /\ Live(gr, dst)
    /\ \E k \in DOMAIN At(gr.outE, src) : At(gr.outE, src)[k].targetLoc = dst
    /\ gr2 = InsertInsn(gr, src, dst, insn)

\* replaceInsn(at, insn)
ReplaceInsnStep(gr, gr2, at, insn) ==
    /\ Live(gr, at)
    /\ At(gr.insn, at) # insn
    /\ gr2 = ReplaceInsn(gr, at, insn)

\* dropInsn(at); with DropSelfLoops = FALSE the callers are assumed never
\* to drop a location that is its own successor
DropInsnStep(gr, gr2, at) ==
    /\ Live(gr, at)
    /\ DropSelfLoops \/ at \notin Succ(gr, at, FALSE)
    /\ gr2 = DropInsn(gr, at)

\* dedupOutgoingEdges(at), when it reports a change
DedupStep(gr, gr2, at) ==
    /\ Live(gr, at)
    /\ DedupOutgoingEdges(gr, at).changed
    /\ gr2 = DedupOutgoingEdges(gr, at).g

\* one edit of the StateRewriter, turning gr into gr2
Edit(gr, gr2) ==
    \/ \E src, dst \in Locs(gr), insn \in Insns : InsertInsnStep(gr, gr2, src, dst, insn)
    \/ \E at \in Locs(gr), insn \in Insns : ReplaceInsnStep(gr, gr2, at, insn)
    \/ \E at \in Locs(gr) : DropInsnStep(gr, gr2, at)
    \/ \E at \in Locs(gr) : DedupStep(gr, gr2, at)

Next == Edit(g, g')

Spec == Init /\ [][Next]_vars

-----------------------------------------------------------------------------
EdgeCount(l, t, f) == Cardinality({k \in DOMAIN l : l[k] = CfgEdge(t, f)})

TypeOK ==
    /\ Len(g.inE) = Len(g.insn) /\ Len(g.outE) = Len(g.insn)
    /\ \A l \in Locs(g) :
          /\ At(g.insn, l) \in Insns \cup {NoInsn}
          /\ \A k \in DOMAIN At(g.inE, l) : At(g.inE, l)[k] \in [targetLoc : Locs(g), closesLoop : BOOLEAN]
          /\ \A k \in DOMAIN At(g.outE, l) : At(g.outE, l)[k] \in [targetLoc : Locs(g), closesLoop : BOOLEAN]

(* The in-edge lists mirror the out-edge lists: a has an out-edge to b   *)
(* exactly when b has an in-edge from a.  Duplicate edges, which dropInsn  *)
(* creates and dedupOutgoingEdges removes, are not counted.                *)
EdgesMirror ==
    \A a, b \in Locs(g) :
        (\E f \in BOOLEAN : EdgeCount(At(g.outE, a), b, f) > 0)
            = (\E f \in BOOLEAN : EdgeCount(At(g.inE, b), a, f) > 0)

(* What insertInsn asserts (CL_BREAK_IF(closesLoop != ie.closesLoop)): each *)
(* in-edge of dst from src it redirects carries the closesLoop flag that   *)
(* the last redirected out-edge of src to dst carried.                     *)
InsertFlagsAgree ==
    [][\A src, dst \in Locs(g), insn \in Insns :
          InsertInsnStep(g, g', src, dst, insn) =>
              LET outs == At(g.outE, src)
                  ins == At(g.inE, dst)
                  last == outs[Max({k \in DOMAIN outs : outs[k].targetLoc = dst})]
              IN \A k \in DOMAIN ins :
                    ins[k].targetLoc = src => ins[k].closesLoop = last.closesLoop]_vars

(* A dropped location is detached: no edge leads to or from a location    *)
(* whose instruction has been freed.                                       *)
NoDanglingEdges ==
    \A l \in Locs(g) : \A k \in DOMAIN At(g.outE, l) \cup DOMAIN At(g.inE, l) :
        /\ k \in DOMAIN At(g.outE, l) => Live(g, At(g.outE, l)[k].targetLoc)
        /\ k \in DOMAIN At(g.inE, l) => Live(g, At(g.inE, l)[k].targetLoc)

(* Every cycle of the graph goes through an edge marked closesLoop, the   *)
(* mark that tells the fixed-point loop where to widen; the edits keep     *)
(* it that way.                                                            *)
LoopEdgesCutCycles ==
    \A l \in Locs(g) : l \notin ForwardReachable(g, l)

(* dropInsn(at) keeps every path between the other live locations, and   *)
(* adds none.                                                              *)
DropKeepsPaths ==
    [][\A at \in Locs(g) :
          DropInsnStep(g, g', at) =>
              \A a, b \in Locs(g) \ {at} :
                  Live(g, a) /\ Live(g, b) =>
                      (b \in Reachable(g', a) <=> b \in Reachable(g, a))]_vars

=============================================================================
