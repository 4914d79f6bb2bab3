----------------------------- MODULE FixedPoint -----------------------------
(***************************************************************************)
(* The fixed-point engine: the symbolic execution loop over basic blocks   *)
(* that feeds the SymStateMap and the BlockScheduler of src/sl/symstate.cc *)
(* (specification, section 2, "Dataflow", and sections 4.4-4.6).          *)
(*                                                                         *)
(* The loop itself (SymExecEngine in sl/symexec.cc) is not among the       *)
(* sources; it is modelled from the specification: take the next block    *)
(* from the scheduler, hand each of its pending heaps to the transfer      *)
(* function, offer every resulting heap to the successor block's state     *)
(* (three-way join allowed on loop-closing edges) and schedule that block  *)
(* when its state changed.  The program is given by Transfer, the          *)
(* successor heaps of a block for an input heap, in the order the block's  *)
(* terminal instruction emits them.                                        *)
(***************************************************************************)
EXTENDS SymStateOps, SchedulerOps, SequencesExt

CONSTANTS
    Blocks,         \* basic blocks (numbers, in pointer order)
    Entry,          \* the entry block of the analysed function
    InitHeaps,      \* the heaps the function may be entered with
    Transfer(_, _), \* Transfer(b, sh): sequence of <<successor, heap>>
    LoopEdges,      \* the loop-closing edges <<from, to>>
    BypassBlocks,   \* blocks that pass the shape test of SymStateMap::insert
    Kinds           \* the SE_BLOCK_SCHEDULER_KIND builds considered

ASSUME Entry \in Blocks /\ InitHeaps \subseteq Heaps /\ NoBlock \notin Blocks
ASSUME Kinds \subseteq 0..3

VARIABLES
    stateMap,   \* SymStateMap: block -> [state, anyHit]
    sc,         \* the BlockScheduler
    cur         \* the block being executed, NoBlock between blocks

vars == <<stateMap, sc, cur>>

EmptyBlockState == [state |-> EmptyState, anyHit |-> FALSE]

CntPending == [b \in Blocks |-> stateMap[b].state.pending]

Cover(st) == UNION ToSet(st.heaps)

\* the initial heap is inserted into the entry block, which is scheduled;
\* one initial state per entry heap and per scheduler build
Init ==
    \E sh0 \in InitHeaps :
      LET r == MapInsert(EmptyBlockState, Entry \in BypassBlocks, sh0, FALSE)
      IN /\ stateMap = [b \in Blocks |->
                          IF b = Entry THEN [state |-> r.state, anyHit |-> r.anyHit]
                          ELSE EmptyBlockState]
         /\ sc \in {ScheduleOp(EmptySched(k), Entry) : k \in Kinds}
         /\ cur = NoBlock

\* the main loop asks the scheduler for the next block
TakeBlock ==
    /\ cur = NoBlock
    /\ sc.todo # {}
    /\ LET r == GetNextOp(sc, CntPending)
       IN /\ sc' = r.sc
          /\ cur' = r.bb
    /\ UNCHANGED stateMap

\* SymStateMap::insert of one successor heap, then schedule() if it changed
Deliver(from, acc, succ) ==
    LET to == succ[1]
        r == MapInsert(acc.map[to], to \in BypassBlocks, succ[2],
                       <<from, to>> \in LoopEdges)
    IN [map |-> [acc.map EXCEPT ![to] = [state |-> r.state, anyHit |-> r.anyHit]],
        sc |-> IF r.changed THEN ScheduleOp(acc.sc, to) ELSE acc.sc]

\* the index of the first pending heap of block b, Len(heaps) if none
FirstPending(b) ==
    LET st == stateMap[b].state
        open == {i \in 0..(Len(st.heaps) - 1) : ~At(st.done, i)}
    IN IF open = {} THEN Len(st.heaps)
       ELSE CHOOSE i \in open : \A k \in open : i <= k

\* the heap at idx of the current block is marked done and handed to the
\* transfer function; its successors are delivered in order.  Returns
\* [map, sc].
ExecResult(idx) ==
    LET sh == At(stateMap[cur].state.heaps, idx)
        marked == [stateMap EXCEPT ![cur].state = SetDone(@, idx)]
        step(acc, succ) == Deliver(cur, acc, succ)
    IN FoldLeft(step, [map |-> marked, sc |-> sc], Transfer(cur, sh))

\* the first pending heap of the current block is executed
ExecHeap ==
    /\ cur # NoBlock
    /\ FirstPending(cur) < Len(stateMap[cur].state.heaps)
    /\ stateMap' = ExecResult(FirstPending(cur)).map
    /\ sc' = ExecResult(FirstPending(cur)).sc
    /\ UNCHANGED cur

\* no pending heap is left in the current block
FinishBlock ==
    /\ cur # NoBlock
    /\ \A i \in DOMAIN stateMap[cur].state.done : stateMap[cur].state.done[i]
    /\ cur' = NoBlock
    /\ UNCHANGED <<stateMap, sc>>

Next == TakeBlock \/ ExecHeap \/ FinishBlock

Finished == cur = NoBlock /\ sc.todo = {}

(* One thread runs the loop until the scheduler is empty: weak fairness   *)
(* of Next.  CanStep is ENABLED <<Next>>_vars written out as a state       *)
(* predicate (TakeBlock and FinishBlock always change cur; ExecHeap        *)
(* changes the state unless its result equals it), so that LoopRuns is    *)
(* WF_vars(Next) and TLC need not evaluate ENABLED over the transfer of a  *)
(* whole block.                                                            *)
CanStep ==
    \/ cur = NoBlock /\ sc.todo # {}
    \/ cur # NoBlock /\ FirstPending(cur) = Len(stateMap[cur].state.heaps)
    \/ /\ cur # NoBlock
       /\ FirstPending(cur) < Len(stateMap[cur].state.heaps)
       /\ ExecResult(FirstPending(cur)) # [map |-> stateMap, sc |-> sc]

LoopRuns == []<>~CanStep \/ []<><<Next>>_vars

Spec == Init /\ [][Next]_vars /\ LoopRuns

-----------------------------------------------------------------------------
TypeOK ==
    /\ \A b \in Blocks :
          /\ stateMap[b].state.heaps \in Seq(Heaps)
          /\ stateMap[b].state.done \in Seq(BOOLEAN)
          /\ stateMap[b].anyHit \in BOOLEAN
    /\ sc.todo \subseteq Blocks
    /\ cur \in Blocks \cup {NoBlock}

(* A block that holds a heap not yet handed to the transfer function is   *)
(* waiting in the scheduler or being executed: whatever insert, replace,   *)
(* three-way join or packState did to its state, the 'changed' result that *)
(* SymStateMap::insert reported made the engine schedule it.               *)
PendingScheduled ==
    \A b \in Blocks :
        (\E i \in DOMAIN stateMap[b].state.done : ~stateMap[b].state.done[i])
            => b \in sc.todo \/ b = cur

(* When the loop stops, the states form a post-fixed point: for every heap *)
(* stored at a block, every heap its transfer produces is covered by the   *)
(* state of the successor block.  This is what makes the analysis sound.   *)
FixpointSound ==
    Finished =>
        \A b \in Blocks : \A i \in DOMAIN stateMap[b].state.heaps :
            \A succ \in ToSet(Transfer(b, stateMap[b].state.heaps[i])) :
                succ[2] \subseteq Cover(stateMap[succ[1]].state)

(* Specification, section 8, "Fixed-point termination": the loop stops.   *)
Terminates == <>Finished

=============================================================================
