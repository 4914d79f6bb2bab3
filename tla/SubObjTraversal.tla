--------------------------- MODULE SubObjTraversal ---------------------------
(***************************************************************************)
(* The traversals of a composite object in src/sl/symutil.hh:             *)
(* traverseSubObjs(sh, item, visitor, leavesOnly) and the legacy          *)
(* traverseSubObjsIc(sh, item, visitor), which also hands the visitor the *)
(* chain of field indices (TFieldIdxChain) leading to each sub-object.    *)
(* Both keep a std::stack of items still to expand.                       *)
(*                                                                         *)
(* A sub-object is the sequence of field indices leading to it from the   *)
(* root (the root is << >>); sh.subObj(obj, nth) appends nth.  The shape  *)
(* maps each sub-object to clt->item_cnt if its type is composite, and to *)
(* NotComposite otherwise.  The visitor is arbitrary: at each call it may *)
(* ask to continue or to stop.                                             *)
(***************************************************************************)
EXTENDS Integers, SequencesExt

CONSTANTS
    Shapes,     \* the composite objects traversed
    None        \* a model value: no result yet, no item being expanded

NotComposite == -1

\* the root's type must be composite (CL_BREAK_IF(!clt || !isComposite(clt)))
ASSUME \A s \in Shapes : << >> \in DOMAIN s /\ s[<< >>] # NotComposite

VARIABLES
    shape,      \* the object traversed
    fn,         \* which traversal the caller runs
    leavesOnly, \* the leavesOnly argument of traverseSubObjs
    todo,       \* the std::stack (its top is the last element)
    cur,        \* traverseSubObjs: [item, i] of the item being expanded, or None
    visits,     \* the calls of the visitor so far: [item, ic] (history)
    result      \* the value returned, or None while the traversal runs

vars == <<shape, fn, leavesOnly, todo, cur, visits, result>>

\* TraverseSubObjsHelper<TObjId>: getItemClt and getNextItem
IsComposite(s, obj) == s[obj] # NotComposite
SubObj(obj, nth) == Append(obj, nth)

Init ==
    /\ shape \in Shapes
    /\ fn \in {"traverseSubObjs", "traverseSubObjsIc"}
    /\ leavesOnly \in IF fn = "traverseSubObjs" THEN BOOLEAN ELSE {FALSE}
    /\ todo = IF fn = "traverseSubObjs" THEN << << >> >>
              ELSE << [item |-> << >>, ic |-> << 0 >>] >>
    /\ cur = None
    /\ visits = << >>
    /\ result = None

-----------------------------------------------------------------------------
(* traverseSubObjs                                                         *)

\* the visitor is called on obj (with the index chain ic, for
\* traverseSubObjsIc); a visitor that asks to stop makes the traversal
\* return false at once
Visit(obj, ic) ==
    /\ visits' = Append(visits, [item |-> obj, ic |-> ic])
    /\ result' \in {None, FALSE}

\* the top of the loop: the stack is empty, the traversal returns true
Return ==
    /\ result = None /\ cur = None /\ todo = << >>
    /\ result' = TRUE
    /\ UNCHANGED <<shape, fn, leavesOnly, todo, cur, visits>>

\* the top of the loop: the top item is popped and its fields are scanned
PopItem ==
    /\ fn = "traverseSubObjs" /\ result = None /\ cur = None /\ todo # << >>
    /\ cur' = [item |-> Last(todo), i |-> 0]
    /\ todo' = Front(todo)
    /\ UNCHANGED <<shape, fn, leavesOnly, visits, result>>

\* i reached clt->item_cnt: back to the top of the loop
EndItem ==
    /\ fn = "traverseSubObjs" /\ result = None /\ cur # None
    /\ cur.i = shape[cur.item]
    /\ cur' = None
    /\ UNCHANGED <<shape, fn, leavesOnly, todo, visits, result>>

\* fault variant: every field is pushed, composite or not
ScanField_pushAll ==
    /\ fn = "traverseSubObjs" /\ result = None /\ cur # None
    /\ cur.i < shape[cur.item]
    /\ LET next == SubObj(cur.item, cur.i)
           nest == IsComposite(shape, next)
       IN /\ todo' = Append(todo, next)
          /\ cur' = [cur EXCEPT !.i = @ + 1]
          /\ IF nest /\ leavesOnly THEN UNCHANGED <<visits, result>>
             ELSE Visit(next, << >>)
    /\ UNCHANGED <<shape, fn, leavesOnly>>

\* fault variant: the leavesOnly check comes before the push
ScanField_leavesFirst ==
    /\ fn = "traverseSubObjs" /\ result = None /\ cur # None
    /\ cur.i < shape[cur.item]
    /\ LET next == SubObj(cur.item, cur.i)
           nest == IsComposite(shape, next)
       IN /\ todo' = IF nest /\ ~leavesOnly THEN Append(todo, next) ELSE todo
          /\ cur' = [cur EXCEPT !.i = @ + 1]
          /\ IF nest /\ leavesOnly THEN UNCHANGED <<visits, result>>
             ELSE Visit(next, << >>)
    /\ UNCHANGED <<shape, fn, leavesOnly>>

\* one iteration of 'for (i = 0; i < clt->item_cnt; ++i)': a composite
\* field is pushed, and is visited only when leavesOnly is false
ScanField ==
    /\ fn = "traverseSubObjs" /\ result = None /\ cur # None
    /\ cur.i < shape[cur.item]
    /\ LET next == SubObj(cur.item, cur.i)
           nest == IsComposite(shape, next)
       IN /\ todo' = IF nest THEN Append(todo, next) ELSE todo
          /\ cur' = [cur EXCEPT !.i = @ + 1]
          /\ IF nest /\ leavesOnly THEN UNCHANGED <<visits, result>>
             ELSE Visit(next, << >>)
    /\ UNCHANGED <<shape, fn, leavesOnly>>

-----------------------------------------------------------------------------
(* traverseSubObjsIc: a stack item is [item, ic]; the last index of ic is  *)
(* nth, the next field of item to look at, which the loop increments      *)
(* through a reference into the top of the stack (TStackItem &si).         *)

IncLast(ic) == [ic EXCEPT ![Len(ic)] = @ + 1]

\* fault variant: the level is left on the stack
IcLevelDone_noPop ==
    /\ fn = "traverseSubObjsIc" /\ result = None /\ todo # << >>
    /\ Last(Last(todo).ic) = shape[Last(todo).item]
    /\ UNCHANGED <<shape, fn, leavesOnly, todo, cur, visits, result>>

\* nth == clt->item_cnt: done at this level, the item is popped
IcLevelDone ==
    /\ fn = "traverseSubObjsIc" /\ result = None /\ todo # << >>
    /\ Last(Last(todo).ic) = shape[Last(todo).item]
    /\ todo' = Front(todo)
    /\ UNCHANGED <<shape, fn, leavesOnly, cur, visits, result>>

\* fault variant: the stack holds copies, and ++nth after the push lands on
\* the sub-object just pushed instead of on the item being scanned
IcVisitField_staleTop ==
    /\ fn = "traverseSubObjsIc" /\ result = None /\ todo # << >>
    /\ LET si == Last(todo)
           nth == Last(si.ic)
           next == SubObj(si.item, nth)
       IN /\ nth < shape[si.item]
          /\ Visit(next, si.ic)
          /\ todo' = IF IsComposite(shape, next)
                      THEN Append(todo, [item |-> next, ic |-> Append(si.ic, 1)])
                      ELSE [todo EXCEPT ![Len(todo)].ic = IncLast(@)]
    /\ UNCHANGED <<shape, fn, leavesOnly, cur>>

\* fault variant: the sub-object is pushed with a fresh chain
IcVisitField_freshChain ==
    /\ fn = "traverseSubObjsIc" /\ result = None /\ todo # << >>
    /\ LET si == Last(todo)
           nth == Last(si.ic)
           next == SubObj(si.item, nth)
           top == [todo EXCEPT ![Len(todo)].ic = IncLast(@)]
       IN /\ nth < shape[si.item]
          /\ Visit(next, si.ic)
          /\ todo' = IF IsComposite(shape, next)
                      THEN Append(top, [item |-> next, ic |-> << 0 >>])
                      ELSE top
    /\ UNCHANGED <<shape, fn, leavesOnly, cur>>

\* nth < clt->item_cnt: the visitor gets field nth with the chain si.ic; a
\* composite field is pushed as a copy of si with 0 appended to its chain
\* (next = si is taken before ++nth), and nth of the item below is then
\* incremented, the reference surviving the push
IcVisitField ==
    /\ fn = "traverseSubObjsIc" /\ result = None /\ todo # << >>
    /\ LET si == Last(todo)
           nth == Last(si.ic)
           next == SubObj(si.item, nth)
           top == [todo EXCEPT ![Len(todo)].ic = IncLast(@)]
       IN /\ nth < shape[si.item]
          /\ Visit(next, si.ic)
          /\ todo' = IF IsComposite(shape, next)
                      THEN Append(top, [item |-> next, ic |-> Append(si.ic, 0)])
                      ELSE top
    /\ UNCHANGED <<shape, fn, leavesOnly, cur>>

Next ==
    \/ Return \/ PopItem \/ EndItem \/ ScanField
    \/ IcLevelDone \/ IcVisitField

\* the traversal is one loop of the calling thread
Spec == Init /\ [][Next]_vars /\ WF_vars(Next)

-----------------------------------------------------------------------------
TypeOK ==
    /\ fn \in {"traverseSubObjs", "traverseSubObjsIc"}
    /\ result \in {None, TRUE, FALSE}
    /\ \A k \in DOMAIN visits : visits[k].item \in DOMAIN shape \ {<< >>}
    /\ IF fn = "traverseSubObjs"
       THEN /\ \A k \in DOMAIN todo : IsComposite(shape, todo[k])
            /\ cur = None \/ cur.i \in 0..shape[cur.item]
       ELSE \A k \in DOMAIN todo :
              /\ IsComposite(shape, todo[k].item)
              /\ Last(todo[k].ic) \in 0..shape[todo[k].item]

VisitedItems == [k \in DOMAIN visits |-> visits[k].item]

\* the sub-objects a complete traversal must visit: all of them but the
\* root, or only the ones of a non-composite type when leavesOnly
Expected == {o \in DOMAIN shape \ {<< >>} : ~(leavesOnly /\ IsComposite(shape, o))}

(* Each sub-object is visited at most once, and a traversal that returns  *)
(* true has visited exactly the expected ones: the stack expands every    *)
(* composite field, including those leavesOnly hides from the visitor.    *)
VisitsComplete ==
    /\ IsInjective(VisitedItems)
    /\ result = TRUE => Range(VisitedItems) = Expected

\* the reference: the sub-objects of o in depth-first pre-order
RECURSIVE PreOrder(_, _)
PreOrder(s, o) ==
    << o >> \o IF IsComposite(s, o)
               THEN FlattenSeq([k \in 1..s[o] |-> PreOrder(s, SubObj(o, k - 1))])
               ELSE << >>

(* traverseSubObjsIc visits the sub-objects in depth-first pre-order,     *)
(* fields in index order: the visits so far are a prefix of it, however   *)
(* the nth of the item below survives the pushes of its sub-objects.      *)
IcPreOrder ==
    fn = "traverseSubObjsIc" => IsPrefix(VisitedItems, Tail(PreOrder(shape, << >>)))

(* The index chain handed to the visitor of traverseSubObjsIc leads from  *)
(* the root to the visited sub-object (subObjByChain(root, ic) = item):   *)
(* the chain a sub-object is pushed with extends its parent's.            *)
IcChains ==
    fn = "traverseSubObjsIc" => \A k \in DOMAIN visits : visits[k].ic = visits[k].item

(* The traversal returns, true or false, on every object.                 *)
Terminates == <>(result # None)

=============================================================================
