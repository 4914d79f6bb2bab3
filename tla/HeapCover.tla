------------------------------ MODULE HeapCover ------------------------------
(***************************************************************************)
(* What the state container of one program point promises its callers     *)
(* (specification, sections 4.4 and 4.6): the concrete shapes it covers    *)
(* never shrink; an insertion that reports "no change" offered nothing     *)
(* new and changed nothing; an insertion that reports a change covers the  *)
(* offered heap afterwards; and without three-way join the container       *)
(* covers exactly what was offered, no more.                               *)
(***************************************************************************)
CONSTANTS Concrete, Heaps

VARIABLES
    covered,   \* the concrete shapes the stored heaps denote
    changed,   \* the result of the last insertion
    offer      \* the last insertion's arguments [sh, threeWay]

vars == <<covered, changed, offer>>

Init ==
    /\ covered = {}
    /\ changed = FALSE
    /\ offer = [sh |-> {}, threeWay |-> FALSE]

Offer(sh, threeWay) ==
    /\ offer' = [sh |-> sh, threeWay |-> threeWay]
    /\ \/ /\ sh \subseteq covered
          /\ changed' = FALSE
          /\ covered' = covered
       \/ /\ changed' = TRUE
          /\ covered' \in {c \in SUBSET Concrete : covered \cup sh \subseteq c}
          /\ ~threeWay => covered' = covered \cup sh

Next == \E sh \in Heaps, threeWay \in BOOLEAN : Offer(sh, threeWay)

Spec == Init /\ [][Next]_vars

=============================================================================
