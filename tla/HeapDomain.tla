----------------------------- MODULE HeapDomain -----------------------------
(***************************************************************************)
(* The abstract domain of symbolic heaps, as seen by the state container.  *)
(*                                                                         *)
(* A symbolic heap is abstracted to the set of concrete memory shapes it   *)
(* denotes (its concretisation).  Concrete is a small set of model values  *)
(* or numbers standing for concrete shapes; Heaps is the set of            *)
(* concretisations the analysis can represent (concrete regions, list      *)
(* segments with a minimum length, ...).  The heap operations of the       *)
(* engine (symcmp.cc, symjoin.cc) are not part of the sources modelled     *)
(* here: areEqual and joinSymHeaps are taken from their contract in the    *)
(* specification (section 4.3).                                            *)
(***************************************************************************)
EXTENDS FiniteSets

CONSTANTS
    Concrete,   \* concrete shapes
    Heaps       \* representable symbolic heaps, as sets of concrete shapes

ASSUME Heaps \subseteq (SUBSET Concrete) \ {{}}

\* Join statuses (EJoinStatus)
JS_USE_ANY   == "JS_USE_ANY"     \* the heaps are equal
JS_USE_SH1   == "JS_USE_SH1"     \* the first heap covers the second
JS_USE_SH2   == "JS_USE_SH2"     \* the second heap covers the first
JS_THREE_WAY == "JS_THREE_WAY"   \* a new, more abstract heap covers both
JoinStatus == {JS_USE_ANY, JS_USE_SH1, JS_USE_SH2, JS_THREE_WAY}

\* areEqual(sh1, sh2): isomorphism of two heaps
areEqual(sh1, sh2) == sh1 = sh2

\* The widening of two heaps: the least representable heap that covers
\* both, when the domain has exactly one such heap.
Upper(sh1, sh2) == {w \in Heaps : sh1 \cup sh2 \subseteq w}
Widenings(sh1, sh2) ==
    {w \in Upper(sh1, sh2) : \A v \in Upper(sh1, sh2) : v \subseteq w => v = w}

\* fault variant: the three-way join returns the plain union of the two
\* heaps, which the domain cannot represent
joinSymHeaps_noWiden(sh1, sh2, allowThreeWay) ==
    CASE sh1 = sh2 ->
            [ok |-> TRUE, status |-> JS_USE_ANY, result |-> sh1]
      [] sh2 \subseteq sh1 ->
            [ok |-> TRUE, status |-> JS_USE_SH1, result |-> sh1]
      [] sh1 \subseteq sh2 ->
            [ok |-> TRUE, status |-> JS_USE_SH2, result |-> sh2]
      [] allowThreeWay /\ Cardinality(Widenings(sh1, sh2)) = 1 ->
            [ok |-> TRUE, status |-> JS_THREE_WAY, result |-> sh1 \cup sh2]
      [] OTHER ->
            [ok |-> FALSE, status |-> JS_USE_ANY, result |-> sh1]

\* joinSymHeaps(&status, &result, sh1, sh2, allowThreeWay): whether the join
\* succeeds, the status it reports and the heap it writes to 'result'.
\* The three-way join is refused when allowThreeWay is FALSE.
joinSymHeaps(sh1, sh2, allowThreeWay) ==
    CASE sh1 = sh2 ->
            [ok |-> TRUE, status |-> JS_USE_ANY, result |-> sh1]
      [] sh2 \subseteq sh1 ->
            [ok |-> TRUE, status |-> JS_USE_SH1, result |-> sh1]
      [] sh1 \subseteq sh2 ->
            [ok |-> TRUE, status |-> JS_USE_SH2, result |-> sh2]
      [] allowThreeWay /\ Cardinality(Widenings(sh1, sh2)) = 1 ->
            [ok |-> TRUE, status |-> JS_THREE_WAY,
             result |-> CHOOSE w \in Widenings(sh1, sh2) : TRUE]
      [] OTHER ->
            [ok |-> FALSE, status |-> JS_USE_ANY, result |-> sh1]

=============================================================================
