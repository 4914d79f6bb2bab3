---------------------------- MODULE SchedulerOps ----------------------------
(***************************************************************************)
(* BlockScheduler (src/sl/symstate.cc) as operators over a scheduler value *)
(*                                                                         *)
(*     [kind    |-> k,      \* SE_BLOCK_SCHEDULER_KIND of the build        *)
(*      todo    |-> T,      \* d->todo, the set of waiting blocks           *)
(*      sched   |-> Q,      \* d->sched (kinds 0-2)                         *)
(*      visited |-> V]      \* the keys of d->done                          *)
(*                                                                         *)
(* Kinds: 0 FIFO (std::queue), 1 LIFO (std::vector), 2 LIFO that moves a   *)
(* re-scheduled block up, 3 load-driven (no queue; the block with the      *)
(* fewest pending heaps first).  The visit counts of d->done are only      *)
(* printed by printStats(), so only the set of visited blocks is kept.    *)
(* Blocks are numbers; their order stands for the pointer order in which   *)
(* the std::set todo is iterated.                                          *)
(***************************************************************************)
EXTENDS CppStd, FiniteSets

NoBlock == 0

EmptySched(k) == [kind |-> k, todo |-> {}, sched |-> <<>>, visited |-> {}]

\* fault variant: a re-scheduled block is pushed again instead of moved
Prioritize_push(s, bb) == Append(s, bb)

\* The SE_BLOCK_SCHEDULER_KIND == 2 branch of schedule() for a block that
\* is already waiting: seek it from the top down and, unless it is at the
\* top already, rotate [idx, end) so that the element at cnt - 1 comes first.
Prioritize(s, bb) ==
    LET cnt == Len(s)
        hits == {i \in 0..(cnt - 1) : At(s, i) = bb}
        idx == IF hits = {} THEN -1 ELSE CHOOSE i \in hits : \A k \in hits : k <= i
    IN IF idx < 0 \/ idx + 1 = cnt THEN s
       ELSE Rotate(s, idx, cnt - 1)

\* schedule(bb): the new scheduler value
ScheduleOp(sc, bb) ==
    IF bb \notin sc.todo
    THEN [sc EXCEPT !.todo = @ \cup {bb},
                    !.sched = IF sc.kind < 3 THEN Append(@, bb) ELSE @]
    ELSE [sc EXCEPT !.sched = IF sc.kind = 2 THEN Prioritize(@, bb) ELSE @]

\* The load-driven choice: 'load[cntPending] = bbNow' over todo in set
\* order keeps, for each count, the last block; the smallest count wins.
LoadPick(todo, cntPending) ==
    LET minLoad == CHOOSE n \in {cntPending[b] : b \in todo} :
                       \A b \in todo : n <= cntPending[b]
        atMin == {b \in todo : cntPending[b] = minLoad}
    IN CHOOSE b \in atMin : \A c \in atMin : c <= b

\* fault variant: the FIFO build pops the back of its queue
GetNextOp_fifoBack(sc, cntPending) ==
    LET bb == IF sc.kind = 3 THEN LoadPick(sc.todo, cntPending)
              ELSE sc.sched[Len(sc.sched)]
    IN [sc |-> [sc EXCEPT !.todo = @ \ {bb},
                          !.sched = IF sc.kind = 3 THEN @ ELSE SubSeq(@, 1, Len(@) - 1),
                          !.visited = @ \cup {bb}],
        bb |-> bb]

\* getNext(&bb) on a non-empty scheduler: [sc, bb]
GetNextOp(sc, cntPending) ==
    LET bb == CASE sc.kind = 0 -> Head(sc.sched)
              [] sc.kind \in {1, 2} -> sc.sched[Len(sc.sched)]
              [] sc.kind = 3 -> LoadPick(sc.todo, cntPending)
    IN [sc |-> [sc EXCEPT !.todo = @ \ {bb},
                          !.sched = CASE sc.kind = 0 -> Tail(@)
                                    [] sc.kind \in {1, 2} -> SubSeq(@, 1, Len(@) - 1)
                                    [] sc.kind = 3 -> @,
                          !.visited = @ \cup {bb}],
        bb |-> bb]

=============================================================================
