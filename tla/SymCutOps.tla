----------------------------- MODULE SymCutOps -----------------------------
(***************************************************************************)
(* The deep copy of src/sl/symcut.cc (prune, splitHeapByCVars,             *)
(* joinHeapsByCVars) as operators over a small symbolic heap              *)
(*                                                                         *)
(*   [obj   |-> <<o_1, ...>>,  \* objects; an object id is its index        *)
(*    preds |-> {{v, w}, ...}, \* Neq predicates between values             *)
(*    nextU |-> n]             \* the id valCreate gives the next unknown   *)
(*                                                                         *)
(* An object is [var, valid, flds]: the program variable it is the region *)
(* of (NoVar for a heap object), whether it is valid, and the values of   *)
(* its fields at offsets 0, 1, ...  (an invalid object has no fields).     *)
(* A value is NULL, the address Addr(o, off) of the field at offset off of *)
(* object o, or an unknown value Unkn(u).  The address of a field (its     *)
(* placedAt) is Addr(o, off) as well.  Uniform blocks, custom values,     *)
(* value ranges, segment metadata and the return slot are left out.        *)
(***************************************************************************)
EXTENDS Integers, SequencesExt

CONSTANTS
    NoVar       \* the CVar of a heap object

NULL == [k |-> "null", o |-> 0, off |-> 0]
Addr(o, off) == [k |-> "addr", o |-> o, off |-> off]
Unkn(u) == [k |-> "unkn", o |-> u, off |-> 0]

\* SymHeap::valRoot: the base address of an address, the value itself else
ValRoot(v) == IF v.k = "addr" THEN Addr(v.o, 0) ELSE v

\* isPossibleToDeref: an address into a valid object
IsPossibleToDeref(h, v) == v.k = "addr" /\ h.obj[v.o].valid

FieldsOf(h, o) == [i \in 1..Len(h.obj[o].flds) |-> Addr(o, i - 1)]
FieldVal(h, a) == h.obj[a.o].flds[a.off + 1]
SetField(h, a, v) == [h EXCEPT !.obj[a.o].flds[a.off + 1] = v]

\* every field of the heap, object by object, in offset order
AllFields(h) == FlattenSeq([o \in 1..Len(h.obj) |-> FieldsOf(h, o)])

\* SymHeap::pointedBy(o) and SymHeap::usedBy(v)
PointedBy(h, o) == SelectSeq(AllFields(h), LAMBDA a : LET v == FieldVal(h, a)
                                                     IN v.k = "addr" /\ v.o = o)
UsedBy(h, v) == SelectSeq(AllFields(h), LAMBDA a : FieldVal(h, a) = v)

\* SymHeap::regionByVar(cv, createIfNeeded): [h, o]
RegionByVar(h, cv, size) ==
    LET found == {o \in 1..Len(h.obj) : h.obj[o].var = cv}
    IN IF found # {} THEN [h |-> h, o |-> CHOOSE o \in found : TRUE]
       ELSE [h |-> [h EXCEPT !.obj = Append(@, [var |-> cv, valid |-> TRUE,
                                                  flds |-> [i \in 1..size |-> NULL]])],
             o |-> Len(h.obj) + 1]

\* SymHeap::heapAlloc(size): [h, o]
HeapAlloc(h, size) ==
    [h |-> [h EXCEPT !.obj = Append(@, [var |-> NoVar, valid |-> TRUE,
                                          flds |-> [i \in 1..size |-> NULL]])],
     o |-> Len(h.obj) + 1]

\* SymHeap::objInvalidate: the object is invalid and loses its contents
ObjInvalidate(h, o) == [h EXCEPT !.obj[o].valid = FALSE, !.obj[o].flds = << >>]

ProgramVars(h) == {h.obj[o].var : o \in 1..Len(h.obj)} \ {NoVar}

EmptyHeap == [obj |-> << >>, preds |-> {}, nextU |-> 1]

-----------------------------------------------------------------------------
(* DeepCopyData: [src, dst, cut, digBackward, valMap, wl, seen].  The      *)
(* WorkList (worklist.hh) schedules an item only once and hands out the    *)
(* last scheduled item first.                                              *)

Schedule(dc, item) ==
    IF item \in dc.seen THEN dc
    ELSE [dc EXCEPT !.seen = @ \cup {item}, !.wl = Append(@, item)]

MapVal(dc, v, w) == [dc EXCEPT !.valMap = (v :> w) @@ @]

\* the value of e, computed once and handed to Body
LetVal(e, Body(_)) == CHOOSE y \in {Body(x) : x \in {e}} : TRUE

\* digFields: pair every live field of the source object with the field at
\* the same offset of the destination object, map their addresses and
\* schedule the pair (DCopyObjVisitor)
DigFields(dc, addrSrc, addrDst) ==
    LET visit(acc, fs) ==
            LetVal(Addr(addrDst.o, fs.off), LAMBDA fd : Schedule(MapVal(acc, fs, fd), <<fs, fd>>))
    IN FoldLeft(visit, dc, FieldsOf(dc.src, addrSrc.o))

\* the object created in dst for the source object obj: the region of its
\* program variable, or a new heap object of the same size
ObjectFor(dst, obj) ==
    IF obj.var # NoVar THEN RegionByVar(dst, obj.var, Len(obj.flds))
    ELSE HeapAlloc(dst, Len(obj.flds))

\* addObjectIfNeeded once the object r of dst is there for the source
\* object at rootSrcAt: invalidate it if needed, enlarge the cut by a valid
\* program variable, map the root and look inside
AddObject(dc, rootSrcAt, obj, r) ==
    LetVal(Addr(r.o, 0), LAMBDA rootDstAt :
        [dc |-> DigFields(MapVal([dc EXCEPT
                                    !.dst = IF obj.valid THEN r.h ELSE ObjInvalidate(r.h, r.o),
                                    !.cut = IF obj.var # NoVar /\ obj.valid
                                            THEN @ \cup {obj.var} ELSE @],
                                 rootSrcAt, rootDstAt),
                          rootSrcAt, rootDstAt),
         val |-> rootDstAt])

\* addObjectIfNeeded: [dc, val]
AddObjectIfNeeded(dc, rootSrcAt) ==
    CASE rootSrcAt = NULL -> [dc |-> dc, val |-> NULL]
      [] rootSrcAt \in DOMAIN dc.valMap -> [dc |-> dc, val |-> dc.valMap[rootSrcAt]]
      [] OTHER -> LetVal(dc.src.obj[rootSrcAt.o], LAMBDA obj :
                     AddObject(dc, rootSrcAt, obj, ObjectFor(dc.dst, obj)))

\* handleValueCore once the root object is added (r): an address at
\* offset 0 is not put in valMap
AtOffset(r, srcAt) ==
    IF srcAt.off = 0 THEN r
    ELSE LetVal(Addr(r.val.o, srcAt.off), LAMBDA dstAt :
            [dc |-> MapVal(r.dc, srcAt, dstAt), val |-> dstAt])

\* fault variant: the offset of the value is dropped, every address is
\* translated to the base address of its object
HandleValueCore_rootOnly(dc, srcAt) == AddObjectIfNeeded(dc, ValRoot(srcAt))

\* handleValueCore: [dc, val]
HandleValueCore(dc, srcAt) ==
    IF srcAt \in DOMAIN dc.valMap THEN [dc |-> dc, val |-> dc.valMap[srcAt]]
    ELSE AtOffset(AddObjectIfNeeded(dc, ValRoot(srcAt)), srcAt)

\* the uses of valSrc trackUses walks: the fields pointing to its object if
\* that can be dereferenced, the fields holding the value itself else
Uses(h, valSrc) ==
    LetVal(ValRoot(valSrc), LAMBDA root :
        IF IsPossibleToDeref(h, root) THEN PointedBy(h, root.o) ELSE UsedBy(h, valSrc))

\* go from the value backward: copy the object of every use
TrackBack(dc, uses) ==
    LET visit(acc, fld) ==
            IF IsPossibleToDeref(dc.src, fld) THEN HandleValueCore(acc, fld).dc ELSE acc
    IN FoldLeft(visit, dc, uses)

\* fault variant: only pointers are tracked back, the other holders of an
\* unknown value are not (the usedBy branch is missing)
TrackUses_pointersOnly(dc, valSrc) ==
    IF ~dc.digBackward \/ ~IsPossibleToDeref(dc.src, ValRoot(valSrc)) THEN dc
    ELSE TrackBack(dc, PointedBy(dc.src, ValRoot(valSrc).o))

\* trackUses: with digBackward, copy the objects of the uses of valSrc
TrackUses(dc, valSrc) ==
    IF ~dc.digBackward \/ ValRoot(valSrc) = NULL THEN dc
    ELSE TrackBack(dc, Uses(dc.src, valSrc))

\* handleValue of an unknown value: valCreate a fresh one in dst
NewUnknown(dc, valSrc) ==
    LetVal(Unkn(dc.dst.nextU), LAMBDA u :
        [dc |-> MapVal([dc EXCEPT !.dst.nextU = @ + 1], valSrc, u), val |-> u])

\* fault variant: valCreate hands out the same id again
HandleValue_noFreshId(dc, valSrc) ==
    CASE valSrc = NULL -> [dc |-> dc, val |-> NULL]
      [] valSrc \in DOMAIN dc.valMap -> [dc |-> dc, val |-> dc.valMap[valSrc]]
      [] OTHER -> LetVal(TrackUses(dc, valSrc), LAMBDA dc1 :
                     IF valSrc.k = "addr" THEN HandleValueCore(dc1, valSrc)
                     ELSE [dc |-> MapVal(dc1, valSrc, Unkn(dc1.dst.nextU)),
                           val |-> Unkn(dc1.dst.nextU)])

\* handleValue: [dc, val]
HandleValue(dc, valSrc) ==
    CASE valSrc = NULL -> [dc |-> dc, val |-> NULL]
      [] valSrc \in DOMAIN dc.valMap -> [dc |-> dc, val |-> dc.valMap[valSrc]]
      [] OTHER -> LetVal(TrackUses(dc, valSrc), LAMBDA dc1 :
                     IF valSrc.k = "addr" THEN HandleValueCore(dc1, valSrc)
                     ELSE NewUnknown(dc1, valSrc))

\* one item <<fldSrc, fldDst>> of the worklist: track the uses of the
\* field's address, translate its value and store it in the destination
DeepCopyItem(dc, item) ==
    LetVal(HandleValue(TrackUses(dc, item[1]), FieldVal(dc.src, item[1])), LAMBDA r :
        [r.dc EXCEPT !.dst = SetField(@, item[2], r.val)])

\* the worklist loop of deepCopy
RECURSIVE DeepCopyLoop(_)
DeepCopyLoop(dc) ==
    IF dc.wl = << >> THEN dc
    ELSE DeepCopyLoop(DeepCopyItem([dc EXCEPT !.wl = Front(@)], Last(dc.wl)))

\* SymHeap::copyRelevantPreds: every predicate whose operands are all in
\* the domain of valMap
CopyRelevantPreds(dc) ==
    [dc EXCEPT !.dst.preds =
        @ \cup {{dc.valMap[v] : v \in p} : p \in {q \in dc.src.preds : q \subseteq DOMAIN dc.valMap}}]

\* deepCopy: drain the worklist, then copy the predicates
DeepCopy(dc) == CopyRelevantPreds(DeepCopyLoop(dc))

\* seed the worklist with the region of the program variable cv
SeedVar(dc, cv) ==
    LetVal(RegionByVar(dc.src, cv, 0).o, LAMBDA srcReg :
    LetVal(RegionByVar(dc.dst, cv, Len(dc.src.obj[srcReg].flds)), LAMBDA r :
        DigFields(MapVal([dc EXCEPT !.dst = r.h], Addr(srcReg, 0), Addr(r.o, 0)),
                  Addr(srcReg, 0), Addr(r.o, 0))))

\* prune(src, dst, cut, forwardOnly): [dst, cut, valMap]; the variables of
\* the cut are visited in the order of std::set<CVar>
Prune(src, dst, cut, forwardOnly) ==
    LetVal(DeepCopy(FoldLeft(SeedVar,
                             [src |-> src, dst |-> dst, cut |-> cut,
                              digBackward |-> ~forwardOnly,
                              valMap |-> << >>, wl |-> << >>, seen |-> {}],
                             SetToSortSeq(cut, <))), LAMBDA dc :
        [dst |-> dc.dst, cut |-> dc.cut, valMap |-> dc.valMap])

\* the result of splitHeapByCVars from the prune of the cut (part) and of
\* the complement of its cut (frame) among the program variables all;
\* sane is the NDEBUG sanity check of the code
SplitResult(all, cset, part, frame, saveFrame) ==
    [heap |-> part.dst,
     frame |-> IF saveFrame THEN frame.dst ELSE EmptyHeap,
     sane |-> ~saveFrame \/
              ~(Cardinality(part.cut) < Cardinality(cset)
                \/ Cardinality(part.cut) + Cardinality(frame.cut) # Cardinality(all)),
     valMap |-> part.valMap]

\* fault variant: the frame is cut by the complement of the cut as given,
\* not as the prune of the cut has enlarged it
SplitHeapByCVars_staleCut(h, cut, saveFrame) ==
    LetVal(Prune(h, EmptyHeap, cut \cap ProgramVars(h), FALSE), LAMBDA part :
        SplitResult(ProgramVars(h), cut \cap ProgramVars(h), part,
                    Prune(h, EmptyHeap, ProgramVars(h) \ (cut \cap ProgramVars(h)), FALSE),
                    saveFrame))

\* splitHeapByCVars(srcDst, cut, saveFrameTo): [heap, frame, sane, valMap]
SplitHeapByCVars(h, cut, saveFrame) ==
    LetVal(Prune(h, EmptyHeap, cut \cap ProgramVars(h), FALSE), LAMBDA part :
        SplitResult(ProgramVars(h), cut \cap ProgramVars(h), part,
                    IF saveFrame THEN Prune(h, EmptyHeap, ProgramVars(h) \ part.cut, FALSE)
                    ELSE part,
                    saveFrame))

\* joinHeapsByCVars(srcDst, src2): a forward-only copy of src2 into srcDst
JoinHeapsByCVars(h, h2) == Prune(h2, h, ProgramVars(h2), TRUE).dst

=============================================================================
