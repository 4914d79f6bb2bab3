---------------------------- MODULE MCFixedPoint ----------------------------
(***************************************************************************)
(* A function that grows the list it is given and then walks it, in the   *)
(* style of the specification's scenario 3:                                *)
(*                                                                         *)
(*   1: entry (head is the list argument)        goto 2                    *)
(*   2: if (nondet)                              goto 3 else goto 4        *)
(*   3: n = malloc(); n->next = head; head = n;  goto 2   (closes a loop)  *)
(*   4: if (head)                                goto 5 else goto 6        *)
(*   5: head = head->next;                       goto 7                    *)
(*   6: return;                                                            *)
(*   7: goto 4;                                           (closes a loop)  *)
(*                                                                         *)
(* A concrete shape is the length of the list at head (2 meaning "2 or     *)
(* more").  The representable heaps are the concrete lists, the non-empty *)
(* segment {1, 2} and the possibly empty segment {0, 1, 2}: joining the    *)
(* empty list with a one-node list needs a widening to {0, 1, 2}.          *)
(* Block numbers are their pointer order.  Block 7 is the jump-only latch *)
(* gcc emits for the second loop; it and the return block 6 have one      *)
(* inbound edge and a terminal first instruction: the shape that          *)
(* SymStateMap::insert lets bypass the isomorphism check.                 *)
(***************************************************************************)
EXTENDS FixedPoint

MCConcrete == {0, 1, 2}
MCHeaps == {{0}, {1}, {2}, {1, 2}, {0, 1, 2}}
MCBlocks == 1..7
MCInitHeaps == {{0}, {1}, {1, 2}}

\* prepend a node: every length grows by one, saturating at "2 or more"
Push(sh) == {IF c < 2 THEN c + 1 ELSE 2 : c \in sh}

\* drop the first node of a non-empty list: "2 or more" becomes "1 or more"
Pop(sh) == UNION {IF c = 2 THEN {1, 2} ELSE {c - 1} : c \in sh}

\* the two branches of a condition on head; an infeasible branch emits nothing
Branch(b, sh) == IF sh = {} THEN << >> ELSE << <<b, sh>> >>

MCTransfer(b, sh) ==
    CASE b = 1 -> << <<2, sh>> >>
      [] b = 2 -> << <<3, sh>>, <<4, sh>> >>
      [] b = 3 -> << <<2, Push(sh)>> >>
      [] b = 4 -> Branch(5, sh \ {0}) \o Branch(6, sh \cap {0})
      [] b = 5 -> << <<7, Pop(sh)>> >>
      [] b = 6 -> << >>
      [] b = 7 -> << <<4, sh>> >>

MCLoopEdges == {<<3, 2>>, <<7, 4>>}

MCBypassBlocks == {6, 7}

=============================================================================
