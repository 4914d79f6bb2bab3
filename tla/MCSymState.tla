----------------------------- MODULE MCSymState -----------------------------
(***************************************************************************)
(* Model of one BlockState.  Concrete shapes are lengths of a singly      *)
(* linked list (0, 1, 2 meaning "2 or more") and a cyclic list (3).  The  *)
(* representable heaps are the three concrete lists, a may-exist node     *)
(* {0, 1}, a non-empty segment {1, 2}, a possibly empty segment {0, 1, 2}  *)
(* and the cycle {3}, which no heap joins with.  {0} and {1} join three-way *)
(* into {0, 1}, {0} and {2} into the possibly empty segment.               *)
(***************************************************************************)
EXTENDS SymState

MCConcrete == {0, 1, 2, 3}
MCHeaps == {{0}, {1}, {2}, {0, 1}, {0, 1, 2}, {3}}

=============================================================================
