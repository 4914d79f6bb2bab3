------------------------------ MODULE SymState ------------------------------
(***************************************************************************)
(* One program point's BlockState (SymStateMap::Private::BlockState in     *)
(* src/sl/symstate.cc): a SymStateMarked container and its anyHit flag.   *)
(* The environment offers heaps through SymStateMap::insert and the        *)
(* symbolic execution engine marks pending heaps as done when it hands     *)
(* them to the transfer function.                                          *)
(***************************************************************************)
EXTENDS SymStateOps

LOCAL SX == INSTANCE SequencesExt
LOCAL BX == INSTANCE BagsExt

CONSTANTS
    Bypass,     \* the block passes the shape test of SymStateMap::insert
    MaxHeaps    \* bound on the number of stored heaps

VARIABLES
    bs,         \* [state, anyHit]
    changed,    \* the value SymStateMap::insert returned last
    offer,      \* the arguments of the last insert (history)
    processed   \* heaps handed to the transfer function (history)

vars == <<bs, changed, offer, processed>>

Cover(st) == UNION {st.heaps[i] : i \in DOMAIN st.heaps}

Init ==
    /\ bs = [state |-> EmptyState, anyHit |-> FALSE]
    /\ changed = FALSE
    /\ offer = [sh |-> {}, threeWay |-> FALSE]
    /\ processed = {}

\* SymStateMap::insert(dst, sh, allowThreeWay)
MapInsertStep(sh, allowThreeWay) ==
    /\ LET r == MapInsert(bs, Bypass, sh, allowThreeWay)
       IN /\ Len(r.state.heaps) <= MaxHeaps
          /\ bs' = [state |-> r.state, anyHit |-> r.anyHit]
          /\ changed' = r.changed
    /\ offer' = [sh |-> sh, threeWay |-> allowThreeWay]
    /\ UNCHANGED processed

\* the engine takes the pending heap at idx: setDone(idx)
TakePending(idx) ==
    /\ ~At(bs.state.done, idx)
    /\ bs' = [bs EXCEPT !.state = SetDone(@, idx)]
    /\ processed' = processed \cup {At(bs.state.heaps, idx)}
    /\ UNCHANGED <<changed, offer>>

Next ==
    \/ \E sh \in Heaps, allowThreeWay \in BOOLEAN : MapInsertStep(sh, allowThreeWay)
    \/ \E idx \in 0..(Len(bs.state.heaps) - 1) : TakePending(idx)

Spec == Init /\ [][Next]_vars

-----------------------------------------------------------------------------
TypeOK ==
    /\ bs.state.heaps \in Seq(Heaps)
    /\ bs.state.done \in Seq(BOOLEAN)
    /\ bs.state.pending \in Nat
    /\ bs.anyHit \in BOOLEAN
    /\ changed \in BOOLEAN
    /\ processed \subseteq Heaps

(* A heap marked done has really been handed to the transfer function:    *)
(* rotations, replacements and packState erasures never leave a done flag *)
(* on a heap that the engine has not seen, which would make the engine    *)
(* skip its successors.                                                   *)
DoneWasProcessed ==
    \A i \in DOMAIN bs.state.done :
        bs.state.done[i] => bs.state.heaps[i] \in processed

(* SymStateMap::insert implements the contract of HeapCover: the         *)
(* concrete shapes the stored heaps cover.                                 *)
Abstract == INSTANCE HeapCover WITH covered <- Cover(bs.state)
ImplementsHeapCover == Abstract!Spec

\* the insert stored the offered heap as one more entry and left the
\* others as they were (up to the order lookup may rotate them into)
AddedAsNewEntry(sh, old, new) == SX!ToBag(new) = BX!BagAdd(SX!ToBag(old), sh)

(* The comment at the anyHit assignment of SymStateMap::insert: "if the   *)
(* size did not grow, there must have been at least join".  anyHit turns   *)
(* true exactly on an insert that did not store the heap as a new entry    *)
(* (it was found isomorphic to a stored one, replaced one, or was joined   *)
(* into one and the container packed), and an insert that only added the   *)
(* heap, rotated or not, leaves anyHit as it was.                          *)
AnyHitMeansReuse ==
    [][\A sh \in Heaps, allowThreeWay \in BOOLEAN :
          (/\ offer' = [sh |-> sh, threeWay |-> allowThreeWay]
           /\ MapInsertStep(sh, allowThreeWay))
              => (bs'.anyHit <=> bs.anyHit \/ ~AddedAsNewEntry(sh, bs.state.heaps, bs'.state.heaps))]_vars

(* Specification, section 8, "State idempotence": inserting a heap       *)
(* isomorphic to one already stored returns false, whatever inserts,      *)
(* rotations and setDone steps came before and whether the caller allows  *)
(* a three-way join.  SymStateWithJoin::insert scans for the first heap    *)
(* joinSymHeaps accepts from index 0, so with a three-way join an earlier, *)
(* different heap can be widened with the offered one (finding 1).         *)
InsertIdempotent ==
    [][\A sh \in Heaps, allowThreeWay \in BOOLEAN :
          (/\ offer' = [sh |-> sh, threeWay |-> allowThreeWay]
           /\ MapInsertStep(sh, allowThreeWay)
           /\ \E i \in DOMAIN bs.state.heaps : areEqual(sh, bs.state.heaps[i]))
              => ~changed']_vars

=============================================================================
