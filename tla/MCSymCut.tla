------------------------------ MODULE MCSymCut ------------------------------
(***************************************************************************)
(* SymCut over heaps of two program variables 1 and 2 (one field each)     *)
(* and one heap object 3 with two fields, valid or freed.  A field holds   *)
(* NULL, the address of a field, or the unknown value 1, which two fields  *)
(* may share.                                                               *)
(***************************************************************************)
EXTENDS SymCut

MCVars == {1, 2}

FieldValues == {NULL, Addr(1, 0), Addr(2, 0), Addr(3, 0), Addr(3, 1), Unkn(1)}

VarObj(cv, v) == [var |-> cv, valid |-> TRUE, flds |-> <<v>>]

HeapObjs == {[var |-> NoVar, valid |-> TRUE, flds |-> <<v, w>>] : v, w \in FieldValues}
                \cup {[var |-> NoVar, valid |-> FALSE, flds |-> << >>]}

Heaps ==
    {[obj |-> <<VarObj(1, a), VarObj(2, b), o3>>, preds |-> {}, nextU |-> 3] :
        a \in FieldValues, b \in FieldValues, o3 \in HeapObjs}

\* a heap where a field points inside the freed object 3
InsideFreed(h) == ~h.obj[3].valid /\ Addr(3, 1) \in Values(h)

\* a heap without junk: object 3 is pointed to by a program variable (the
\* engine's heaps are kept so by collectJunk)
NoJunk(h) == \E o \in {1, 2} : h.obj[o].flds[1] \in {Addr(3, 0), Addr(3, 1)}

MCInitHeaps == {h \in Heaps : NoJunk(h) /\ ~InsideFreed(h)}

(* The heap of a caller of f(a): a = {&freed[0], u1}, b = &s,             *)
(* s = {u2, &freed[1]}, with u1 != u2; freed is a freed block (object 4).  *)
MCRoundTripHeaps ==
    {[obj |-> << [var |-> 1, valid |-> TRUE, flds |-> <<Addr(4, 0), Unkn(1)>>],
                 VarObj(2, Addr(3, 0)),
                 [var |-> NoVar, valid |-> TRUE, flds |-> <<Unkn(2), Addr(4, 1)>>],
                 [var |-> NoVar, valid |-> FALSE, flds |-> << >>] >>,
      preds |-> {{Unkn(1), Unkn(2)}},
      nextU |-> 3]}

=============================================================================
