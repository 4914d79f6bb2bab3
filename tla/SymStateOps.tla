----------------------------- MODULE SymStateOps -----------------------------
(***************************************************************************)
(* The state container of one program point (src/sl/symstate.cc): the     *)
(* classes SymState, SymHeapUnion, SymStateWithJoin and SymStateMarked,    *)
(* as operators over a container value                                     *)
(*                                                                         *)
(*     [heaps |-> <<sh_0, ..., sh_n-1>>,   \* SymState::heaps_             *)
(*      done  |-> <<d_0, ..., d_n-1>>,     \* SymStateMarked::done_        *)
(*      pending |-> k]                     \* SymStateMarked::cntPending_  *)
(*                                                                         *)
(* Indices are 0-based, as in the code (see CppStd).                      *)
(* Each operation returns the new container (and, for insert, the         *)
(* 'changed' result), so that the modules with variables (SymState,        *)
(* FixedPoint) apply a whole handler as one step.  The trace nodes that    *)
(* updateTraceOf() maintains are not modelled (see README).                *)
(***************************************************************************)
EXTENDS HeapDomain, CppStd

CONSTANTS
    JoinOnLoopEdgesOnly,   \* GlConf::data.joinOnLoopEdgesOnly
    StateLiveOrdering,     \* GlConf::data.stateLiveOrdering
    ForbidHeapReplace      \* GlConf::data.forbidHeapReplace

ASSUME JoinOnLoopEdgesOnly \in -1..3
ASSUME StateLiveOrdering \in 0..2
ASSUME ForbidHeapReplace \in BOOLEAN

CountFalse(s) == Cardinality({i \in DOMAIN s : ~s[i]})

EmptyState == [heaps |-> <<>>, done |-> <<>>, pending |-> 0]

-----------------------------------------------------------------------------
(* SymStateMarked: the primitive edits of the container.  Their bodies    *)
(* live in symstate.hh, which is not among the sources; they follow       *)
(* section 4.4 of the specification (STATE-M): a new or replaced heap is   *)
(* pending, and the bitmap moves in lock-step with the heaps.              *)

\* insertNew(sh): SymState::insertNew clones and appends; the marked
\* container appends a pending flag.
InsertNew(st, sh) ==
    [heaps |-> Append(st.heaps, sh),
     done |-> Append(st.done, FALSE),
     pending |-> st.pending + 1]

\* eraseExisting(nth)
EraseExisting(st, nth) ==
    [heaps |-> EraseAt(st.heaps, nth),
     done |-> EraseAt(st.done, nth),
     pending |-> IF At(st.done, nth) THEN st.pending ELSE st.pending - 1]

\* swapExisting(nth, sh): the heap at nth is replaced by sh and becomes
\* pending again
SwapExisting(st, nth, sh) ==
    [heaps |-> [st.heaps EXCEPT ![nth + 1] = sh],
     done |-> [st.done EXCEPT ![nth + 1] = FALSE],
     pending |-> IF At(st.done, nth) THEN st.pending + 1 ELSE st.pending]

\* fault variant: the flag is not set, so the heap stays pending
SetDone_noop(st, idx) == st

\* setDone(idx): the heap at idx has been handed to the transfer function
SetDone(st, idx) ==
    [heaps |-> st.heaps,
     done |-> [st.done EXCEPT ![idx + 1] = TRUE],
     pending |-> IF At(st.done, idx) THEN st.pending ELSE st.pending - 1]

-----------------------------------------------------------------------------
\* fault variant: the base-class rotation only (done_ left in place)
RotateExisting_heapsOnly(st, idxA, idxB) ==
    [st EXCEPT !.heaps = Rotate(@, idxA, idxB)]

(* SymStateMarked::rotateExisting: SymState::rotateExisting on heaps_,    *)
(* then the same rotation on done_.                                        *)
RotateExisting(st, idxA, idxB) ==
    [st EXCEPT !.heaps = Rotate(@, idxA, idxB),
               !.done = Rotate(@, idxA, idxB)]

(* SymHeapUnion::lookup: the index of the first heap equal to the given   *)
(* one (-1 if there is none); with stateLiveOrdering > 1 the matched heap  *)
(* is rotated to the front.  Returns [st, idx].                            *)
FirstEqual(st, sh) ==
    LET hits == {i \in 0..(Len(st.heaps) - 1) : areEqual(sh, At(st.heaps, i))}
    IN IF hits = {} THEN -1
       ELSE CHOOSE i \in hits : \A j \in hits : i <= j

Lookup(st, sh) ==
    LET idx == FirstEqual(st, sh)
    IN [st |-> IF idx # -1 /\ 1 < StateLiveOrdering
                  THEN RotateExisting(st, 0, idx) ELSE st,
        idx |-> idx]

(* SymState::insert: the isomorphism-only insertion.  Returns           *)
(* [st, changed].                                                         *)
UnionInsert(st, sh) ==
    LET lk == Lookup(st, sh)
    IN IF lk.idx # -1 THEN [st |-> lk.st, changed |-> FALSE]
       ELSE [st |-> InsertNew(lk.st, sh), changed |-> TRUE]

-----------------------------------------------------------------------------
(* SymStateWithJoin::packState(idxNew, allowThreeWay): join the heap at   *)
(* idxNew with every other heap, keep the joined heap at idxNew and erase  *)
(* the other one; idxNew is shifted down when an entry below it is         *)
(* erased.  PackLoop is one iteration of the for loop over idxOld.         *)
RECURSIVE PackLoop(_, _, _, _)

\* fault variant: on JS_USE_SH1 the old heap is not swapped in, so the
\* covering heap is erased and the covered one kept
PackLoop_noSwap(st, idxNew, idxOld, allowThreeWay) ==
    IF idxOld >= Len(st.heaps) THEN [st |-> st, idxNew |-> idxNew]
    ELSE IF idxNew = idxOld THEN PackLoop(st, idxNew, idxOld + 1, allowThreeWay)
    ELSE
      LET j == joinSymHeaps(At(st.heaps, idxOld), At(st.heaps, idxNew), allowThreeWay)
      IN IF ~j.ok \/ (ForbidHeapReplace /\ j.status = JS_USE_SH2)
         THEN PackLoop(st, idxNew, idxOld + 1, allowThreeWay)
         ELSE
           LET swapped == IF j.status = JS_THREE_WAY
                          THEN SwapExisting(st, idxNew, j.result) ELSE st
               idxNext == IF idxOld < idxNew THEN idxNew - 1 ELSE idxNew
           IN PackLoop(EraseExisting(swapped, idxOld), idxNext, idxOld,
                       allowThreeWay)

PackLoop(st, idxNew, idxOld, allowThreeWay) ==
    IF idxOld >= Len(st.heaps) THEN [st |-> st, idxNew |-> idxNew]
    ELSE IF idxNew = idxOld THEN PackLoop(st, idxNew, idxOld + 1, allowThreeWay)
    ELSE
      LET shOld == At(st.heaps, idxOld)
          shNew == At(st.heaps, idxNew)
          j == joinSymHeaps(shOld, shNew, allowThreeWay)
      IN IF ~j.ok \/ (ForbidHeapReplace /\ j.status = JS_USE_SH2)
         THEN PackLoop(st, idxNew, idxOld + 1, allowThreeWay)
         ELSE
           LET \* swapExisting(idxNew, shOld) also moves the new heap to idxOld
               swapped ==
                 CASE j.status = JS_USE_SH1 ->
                        [SwapExisting(st, idxNew, shOld)
                            EXCEPT !.heaps[idxOld + 1] = shNew]
                   [] j.status = JS_THREE_WAY ->
                        SwapExisting(st, idxNew, j.result)
                   [] OTHER -> st
               idxNext == IF idxOld < idxNew THEN idxNew - 1 ELSE idxNew
           IN PackLoop(EraseExisting(swapped, idxOld), idxNext, idxOld,
                       allowThreeWay)

PackState(st, idxNew, allowThreeWay) ==
    LET r == PackLoop(st, idxNew, 0, allowThreeWay)
    IN IF StateLiveOrdering # 0 THEN RotateExisting(r.st, 0, r.idxNew) ELSE r.st

(* joinRequested(allowThreeWay) *)
JoinRequested(allowThreeWay) ==
    CASE JoinOnLoopEdgesOnly < 0 -> FALSE
      [] JoinOnLoopEdgesOnly < 2 -> TRUE
      [] OTHER -> allowThreeWay

(* The index of the first stored heap the given heap joins with, skipping *)
(* a replacement when forbidHeapReplace is set; Len(heaps) if none does.   *)
FirstJoin(st, shNew, allowThreeWay) ==
    LET ok(i) == LET j == joinSymHeaps(At(st.heaps, i), shNew, allowThreeWay)
                 IN j.ok /\ ~(ForbidHeapReplace /\ j.status = JS_USE_SH2)
        hits == {i \in 0..(Len(st.heaps) - 1) : ok(i)}
    IN IF hits = {} THEN Len(st.heaps)
       ELSE CHOOSE i \in hits : \A k \in hits : i <= k

\* fault variant: a replacement by a covering heap (JS_USE_SH2) is not
\* reported as a change
Insert_sh2Unchanged(st, shNew, allowThreeWay) ==
    IF ~JoinRequested(allowThreeWay) THEN UnionInsert(st, shNew)
    ELSE IF Len(st.heaps) = 0 THEN [st |-> InsertNew(st, shNew), changed |-> TRUE]
    ELSE
      LET idx == FirstJoin(st, shNew, allowThreeWay)
          j == joinSymHeaps(At(st.heaps, idx), shNew, allowThreeWay)
      IN CASE idx = Len(st.heaps) ->
                [st |-> InsertNew(st, shNew), changed |-> TRUE]
           [] j.status = JS_USE_SH2 ->
                [st |-> PackState(SwapExisting(st, idx, shNew), idx, allowThreeWay),
                 changed |-> FALSE]
           [] j.status = JS_THREE_WAY ->
                [st |-> PackState(SwapExisting(st, idx, j.result), idx, allowThreeWay),
                 changed |-> TRUE]
           [] OTHER ->
                [st |-> IF StateLiveOrdering # 0
                           THEN RotateExisting(st, 0, idx) ELSE st,
                 changed |-> FALSE]

\* fault variant: the replacement branch is missing, so a covering heap
\* (JS_USE_SH2) is taken as already covered and dropped
Insert_sh2Dropped(st, shNew, allowThreeWay) ==
    IF ~JoinRequested(allowThreeWay) THEN UnionInsert(st, shNew)
    ELSE IF Len(st.heaps) = 0 THEN [st |-> InsertNew(st, shNew), changed |-> TRUE]
    ELSE
      LET idx == FirstJoin(st, shNew, allowThreeWay)
          j == joinSymHeaps(At(st.heaps, idx), shNew, allowThreeWay)
      IN CASE idx = Len(st.heaps) ->
                [st |-> InsertNew(st, shNew), changed |-> TRUE]
           [] j.status = JS_THREE_WAY ->
                [st |-> PackState(SwapExisting(st, idx, j.result), idx, allowThreeWay),
                 changed |-> TRUE]
           [] OTHER ->
                [st |-> IF StateLiveOrdering # 0
                           THEN RotateExisting(st, 0, idx) ELSE st,
                 changed |-> FALSE]

(* SymStateWithJoin::insert(shNew, allowThreeWay).  Returns [st, changed]. *)
Insert(st, shNew, allowThreeWay) ==
    IF ~JoinRequested(allowThreeWay) THEN UnionInsert(st, shNew)
    ELSE IF Len(st.heaps) = 0 THEN [st |-> InsertNew(st, shNew), changed |-> TRUE]
    ELSE
      LET idx == FirstJoin(st, shNew, allowThreeWay)
          j == joinSymHeaps(At(st.heaps, idx), shNew, allowThreeWay)
      IN CASE idx = Len(st.heaps) ->
                [st |-> InsertNew(st, shNew), changed |-> TRUE]
           [] j.status = JS_USE_SH2 ->
                [st |-> PackState(SwapExisting(st, idx, shNew), idx, allowThreeWay),
                 changed |-> TRUE]
           [] j.status = JS_THREE_WAY ->
                [st |-> PackState(SwapExisting(st, idx, j.result), idx, allowThreeWay),
                 changed |-> TRUE]
           [] OTHER ->
                [st |-> IF StateLiveOrdering # 0
                           THEN RotateExisting(st, 0, idx) ELSE st,
                 changed |-> FALSE]

\* fault variant: anyHit only when the container shrank
MapInsert_strict(bs, bypass, sh, allowThreeWay) ==
    LET r == IF 2 < JoinOnLoopEdgesOnly /\ bypass
             THEN [st |-> InsertNew(bs.state, sh), changed |-> TRUE]
             ELSE Insert(bs.state, sh, allowThreeWay)
    IN [state |-> r.st,
        anyHit |-> bs.anyHit \/ Len(r.st.heaps) < Len(bs.state.heaps),
        changed |-> r.changed]

-----------------------------------------------------------------------------
(* SymStateMap::insert(dst, sh, allowThreeWay) on the BlockState of dst   *)
(* ([state, anyHit]).  'bypass' is the shape test of dst (one inbound edge *)
(* and a terminal first instruction, or a two-instruction block ending in  *)
(* a condition); with joinOnLoopEdgesOnly > 2 such a block takes every     *)
(* heap without even the isomorphism check.  anyHit records that the      *)
(* container did not grow.  Returns [state, anyHit, changed].              *)
MapInsert(bs, bypass, sh, allowThreeWay) ==
    LET r == IF 2 < JoinOnLoopEdgesOnly /\ bypass
             THEN [st |-> InsertNew(bs.state, sh), changed |-> TRUE]
             ELSE Insert(bs.state, sh, allowThreeWay)
    IN [state |-> r.st,
        anyHit |-> bs.anyHit \/ Len(r.st.heaps) <= Len(bs.state.heaps),
        changed |-> r.changed]

=============================================================================
