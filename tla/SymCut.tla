------------------------------- MODULE SymCut -------------------------------
(***************************************************************************)
(* The cut of a symbolic heap around a function call: splitHeapByCVars    *)
(* keeps in heap the part reachable from the cut and saves the rest in a   *)
(* frame; joinHeapsByCVars merges the frame back.  orig is the heap as it  *)
(* was when the frame was taken (a history variable).                      *)
(***************************************************************************)
EXTENDS SymCutOps, Functions

CONSTANTS
    Vars,       \* the program variables of the heaps
    InitHeaps   \* the heaps the cut may start from

VARIABLES
    heap,       \* *srcDst
    frame,      \* *saveFrameTo, or NoFrame when no frame is saved
    orig,       \* the heap the last split started from (history)
    last        \* the cut of the last split, the objects of orig it copied
                \* into the part and its sanity check (history)

vars == <<heap, frame, orig, last>>

NoFrame == EmptyHeap

Init ==
    /\ heap \in InitHeaps
    /\ frame = NoFrame
    /\ orig = heap
    /\ last = [cut |-> {}, copied |-> {}, sane |-> TRUE]

\* the objects of h that a split copies into the part: those whose base
\* address is in valMap
CopiedObjs(h, valMap) == {o \in 1..Len(h.obj) : Addr(o, 0) \in DOMAIN valMap}

\* splitHeapByCVars(&heap, cut, saveFrame ? &frame : NULL); without a frame
\* the rest of the heap is dropped
SplitStep(cut, saveFrame) ==
    /\ frame = NoFrame
    /\ \E r \in {SplitHeapByCVars(heap, cut, saveFrame)} :
          /\ heap' = r.heap
          /\ frame' = r.frame
          /\ last' = [cut |-> cut, copied |-> CopiedObjs(heap, r.valMap), sane |-> r.sane]
    /\ orig' = heap

Split(cut) == SplitStep(cut, TRUE)

SplitNoFrame(cut) == SplitStep(cut, FALSE)

\* joinHeapsByCVars(&heap, &frame)
Join ==
    /\ frame # NoFrame
    /\ heap' = JoinHeapsByCVars(heap, frame)
    /\ frame' = NoFrame
    /\ UNCHANGED <<orig, last>>

Next ==
    \/ \E cut \in SUBSET Vars : Split(cut) \/ SplitNoFrame(cut)
    \/ Join

Spec == Init /\ [][Next]_vars

-----------------------------------------------------------------------------
Values(h) ==
    UNION {{h.obj[o].flds[i] : i \in DOMAIN h.obj[o].flds} : o \in 1..Len(h.obj)}
        \cup UNION h.preds

UnknIds(h) == {v.o : v \in {w \in Values(h) : w.k = "unkn"}}

TypeOK ==
    /\ last.cut \subseteq Vars /\ last.sane \in BOOLEAN
    /\ \A h \in {heap, frame, orig} :
        /\ \A o \in 1..Len(h.obj) :
              /\ h.obj[o].var \in Vars \cup {NoVar}
              /\ h.obj[o].valid \/ h.obj[o].flds = << >>
        /\ \A v \in Values(h) :
              \/ v = NULL
              \/ v.k = "addr" /\ v.o \in 1..Len(h.obj)
              \/ v.k = "unkn" /\ v.o \in 1..(h.nextU - 1)

\* the objects of h linked to object o: by a pointer either way, or by
\* holding the same unknown value
Linked(h, o) ==
    LET pts(a, b) == \E v \in Range(h.obj[a].flds) : v.k = "addr" /\ v.o = b
        share(a, b) == \E v \in Range(h.obj[a].flds) \cap Range(h.obj[b].flds) :
                          v.k = "unkn"
    IN {p \in 1..Len(h.obj) : pts(o, p) \/ pts(p, o) \/ share(o, p)}

RECURSIVE Closure(_, _)
\* the objects linked, directly or not, to the objects of S
Closure(h, S) ==
    LET next == S \cup UNION {Linked(h, o) : o \in S}
    IN IF next = S THEN S ELSE Closure(h, next)

(* trackUses: the part the last split kept is closed under every link of *)
(* the heap it split: each object pointing to a copied object, pointed to *)
(* by it, or sharing an unknown value with it, was copied too.  Otherwise *)
(* a callee could reach, through the part, an object only the frame keeps. *)
PartIsClosed ==
    last.copied = Closure(orig, {o \in 1..Len(orig.obj) : orig.obj[o].var \in last.cut})

(* The sanity check of splitHeapByCVars never fires: the prune of the cut  *)
(* only enlarges it, and the cut and the frame's variables together are    *)
(* the heap's program variables.                                           *)
SplitSane == last.sane

\* h1 and h2 are equal up to the ids of their objects and unknown values
Iso(h1, h2) ==
    LET n == Len(h1.obj)
        ren(v, f, u) == CASE v.k = "addr" -> Addr(f[v.o], v.off)
                          [] v.k = "unkn" -> Unkn(u[v.o])
                          [] OTHER -> v
    IN /\ n = Len(h2.obj)
       /\ \E f \in Bijection(1..n, 1..n), u \in Bijection(UnknIds(h1), UnknIds(h2)) :
            /\ \A o \in 1..n :
                  /\ h2.obj[f[o]].var = h1.obj[o].var
                  /\ h2.obj[f[o]].valid = h1.obj[o].valid
                  /\ h2.obj[f[o]].flds = [i \in DOMAIN h1.obj[o].flds |->
                                             ren(h1.obj[o].flds[i], f, u)]
            /\ h2.preds = {{ren(v, f, u) : v \in p} : p \in h1.preds}

(* Round trip (spec.md, Round-trip): joining the frame back into the part  *)
(* it was split from gives a heap isomorphic to the heap before the split. *)
RoundTrip == [][Join => Iso(orig, heap')]_vars

=============================================================================
