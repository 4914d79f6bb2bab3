--------------------------- MODULE BlockScheduler ---------------------------
(***************************************************************************)
(* The BlockScheduler of src/sl/symstate.cc on its own: the engine calls   *)
(* schedule() and getNext(), and the state map (the IPendingCountProvider) *)
(* may change the pending counts at any time.  The build's scheduler kind  *)
(* is chosen in the initial state.                                         *)
(***************************************************************************)
EXTENDS SchedulerOps, SequencesExt

CONSTANTS
    Blocks,       \* basic blocks (numbers, in pointer order)
    Kinds,        \* the SE_BLOCK_SCHEDULER_KIND builds considered
    MaxPending    \* bound on the pending count of a block

ASSUME Kinds \subseteq 0..3 /\ NoBlock \notin Blocks

VARIABLES
    sc,         \* the scheduler
    pending,    \* pcp->cntPending(bb)
    last        \* the block the last getNext() returned (history)

vars == <<sc, pending, last>>

Init ==
    /\ sc \in {EmptySched(k) : k \in Kinds}
    /\ pending \in [Blocks -> 0..MaxPending]
    /\ last = NoBlock

\* schedule(bb)
Schedule(bb) ==
    /\ sc' = ScheduleOp(sc, bb)
    /\ UNCHANGED <<pending, last>>

\* getNext(&bb), when it returns a block
GetNext ==
    /\ sc.todo # {}
    /\ LET r == GetNextOp(sc, pending)
       IN /\ sc' = r.sc
          /\ last' = r.bb
    /\ UNCHANGED pending

\* the state map changes the pending count of a block
SetPending(bb, n) ==
    /\ pending' = [pending EXCEPT ![bb] = n]
    /\ UNCHANGED <<sc, last>>

Next ==
    \/ \E bb \in Blocks : Schedule(bb)
    \/ GetNext
    \/ \E bb \in Blocks, n \in 0..MaxPending : SetPending(bb, n)

\* getNext() is called by the engine's main loop as long as it returns a
\* block, so it is weakly fair; schedule() is up to the engine.
Spec == Init /\ [][Next]_vars /\ WF_vars(GetNext)

-----------------------------------------------------------------------------
(* The queue and the set of waiting blocks agree: in the queue-based      *)
(* builds every waiting block is queued exactly once (so getNext() never  *)
(* hits the "BlockScheduler malfunction" break and prioritisation finds    *)
(* the block), and the load-driven build keeps no queue at all.            *)
SchedMirrorsTodo ==
    IF sc.kind < 3
    THEN /\ ToSet(sc.sched) = sc.todo
         /\ Len(sc.sched) = Cardinality(sc.todo)
    ELSE sc.sched = <<>>

(* FIFO: a scheduled block is eventually handed out by getNext(), however *)
(* often the engine schedules other blocks meanwhile.                     *)
FifoServesAll ==
    \A bb \in Blocks : (sc.kind = 0 /\ bb \in sc.todo) ~> (last = bb)

=============================================================================
