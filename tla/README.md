# TLA+ models of Predator's state containers, scheduler, fixed-point loop, symbolic cut, sub-object traversals, constant-GEP evaluator and Forester engine

This directory holds TLA+ models of the parts of Predator (`src/sl/`) that
decide which symbolic heaps a program point keeps, which block the analysis
executes next, and when the analysis stops. It also models the symbolic
execution engine of Forester (`src/fa_analysis/symexec.cc`) and the LLVM
pass that folds constant GEP indices (`src/cl/llvm/constgep.cc`). It holds the TLC
configurations that check them as well. Each definition is written from the C++
source. The code that is not in this repository (`symstate.hh`, `sl/symexec.cc`,
`symjoin.cc`, `symcmp.cc`, `symheap.cc`, `worklist.hh`) is modelled from `spec.md`, and `PROJECT.json`
marks those definitions `spec_modelled`. `PROJECT.json` also maps every
definition to the lines it models, lists the runs and mutants, and records the
findings and the hazards.

## 1. The system and its parts

Predator is a shape analyser. It runs a fixed-point computation over the
control-flow graph (CFG) of each function. The analysis state of a basic block
is a set of symbolic heaps.

| Part | Source | State | Operations that change it |
|---|---|---|---|
| State containers | `symstate.cc` 69-372, 548-568 | `heaps_` (a list of heaps), `done_` (a bitmap), `cntPending_` | `insertNew`, `insert` (union / with join), `lookup` (may rotate), `packState`, `rotateExisting`, `swapExisting`, `eraseExisting`, `setDone`, `swap`, `updateTraceOf` |
| BlockScheduler | `symstate.cc` 377-515 | `todo` (set), `sched` (queue or vector), `done` (visit counts) | `schedule`, `getNext` |
| SymStateMap | `symstate.cc` 573-653 | a `BlockState` per block: a marked container and `anyHit` | `insert`, `cntPending` (read by the scheduler) |
| Fixed-point loop | `symexec.cc` (not in `src/`) | the map, the scheduler, the current block | take a block, execute its pending heaps, insert the successor heaps, schedule the changed blocks |
| Heap domain | `symjoin.cc` and `symcmp.cc` (not in `src/`) | – | `joinSymHeaps` (status SH1/SH2/ANY/THREE_WAY), `areEqual` |
| Symbolic cut | `symcut.cc` | the `DeepCopyData` worklist and value map | `deepCopy`, `trackUses`, `prune`, `splitHeapByCVars`, `joinHeapsByCVars` |
| CFG rewriting | `fixed_point_rewrite.cc` | the fixed-point state's locations and edges, and recorded edits | `insertInsn`, `replaceInsn`, `dropInsn`, `dedupOutgoingEdges` |
| Forester engine | `fa_analysis/symexec.cc` | `todo` (a stack of per-instruction `SymState`s), each with `fwdConf` (the union of the configurations seen) and `outConf` (a stack of configurations to run) | `enqueue`, `stateUnion`, `processState`, `execInsn` and the `exec*` functions, `run` |
| Sub-object traversals | `symutil.hh` 128-295 | the `std::stack` of items (with index chains, for the legacy variant) | `traverseSubObjs`, `traverseSubObjsIc` |
| Constant-GEP evaluator | `cl/llvm/constgep.cc` | the GEP indices of a function | `runOnFunction`, `processOperandList`, `tryReplace` (sub, zext, sext, ptrtoint) |
| Driver | `cl_symexec.cc` | – | configuration, global initialisation, launch per function |

How the parts interact. The loop asks the scheduler for a block. For each
pending heap of that block, the loop:

1. marks the heap done (`setDone`);
2. executes the block on it;
3. offers every resulting heap to the successor block's state (`SymStateMap::insert`);
4. calls `schedule()` for that successor if the insert reported a change.

Three-way joins are allowed only on loop-closing edges. With the load-driven
build (`SE_BLOCK_SCHEDULER_KIND == 3`), the scheduler reads the pending counts
back from the map.

The hard behaviours are these:

- `insert` and `packState` reorder, replace and erase entries of a vector while
  scanning it.
- Two parallel vectors (`heaps_`, `done_`) and a counter must stay in
  lock-step.
- A replacement must re-arm the heap and be reported as a change.
- The scheduler builds differ in order and in prioritisation.
- The loop must reach a post-fixed point and stop.

## 2. Modules

| Module | Models | State / actions |
|---|---|---|
| `HeapDomain` | the heap domain | A heap is the set of concrete shapes it denotes. `joinSymHeaps` returns SH1/SH2/ANY by inclusion, or the unique least representable upper bound as a three-way join. |
| `CppStd` | the `std::vector` and `std::rotate` used by the code | `At` (0-based), `Rotate(s, a, b)` = `std::rotate(begin+a, begin+b, end)`, `EraseAt` |
| `SymStateOps` | the containers of `symstate.cc` as pure operators over `[heaps, done, pending]` | `InsertNew`, `EraseExisting`, `SwapExisting`, `SetDone`, `RotateExisting`, `Lookup`, `UnionInsert`, `PackLoop` (the loop of `packState`, `RECURSIVE`), `PackState`, `JoinRequested`, `FirstJoin`, `Insert`, `MapInsert` |
| `SymState` | one block's `BlockState` under arbitrary inserts and `setDone` | variables `bs`, `changed`, history `offer`, `processed`. Actions `MapInsertStep(sh, threeWay)` (the whole `SymStateMap::insert`) and `TakePending(idx)` |
| `HeapCover` | the abstract contract of `insert` | `covered` only grows. A non-three-way insert adds exactly the offered heap's shapes. A three-way insert may add more. `changed` is FALSE only if nothing was added. |
| `SchedulerOps` | `BlockScheduler` as operators | `ScheduleOp`, `Prioritize`, `LoadPick`, `GetNextOp`, for all four builds |
| `BlockScheduler` | the scheduler against an arbitrary engine | `Schedule(bb)`, `GetNext`, and `SetPending(bb, n)` (the pending-count provider) |
| `FixedPoint` | the loop, composed with `SymStateOps` and `SchedulerOps` | variables `stateMap`, `sc`, `cur`. Actions `TakeBlock`, `ExecHeap` (setDone, transfer, then insert and schedule every successor, as one step), `FinishBlock` |
| `CfgRewriteOps` | the edits of `StateRewriter` (`fixed_point_rewrite.cc`) as operators over a location graph `[insn, inE, outE]` (0-based, a `CfgEdge` is `[targetLoc, closesLoop]`) | `InsertInsn`, `ReplaceInsn`, `DropInsn` (its two redirect loops are `RedirectPred` and `RedirectSucc`, folded over the lists as the code iterates them), `DedupOutgoingEdges` |
| `CfgRewrite` | a `StateRewriter` driven by any caller | variable `g`. Actions `InsertInsnStep`, `ReplaceInsnStep`, `DropInsnStep`, `DedupStep`, guarded by what the code asserts of its arguments (live neighbours, an existing edge) |
| `SymCutOps` | `symcut.cc` as operators over a heap `[obj, preds, nextU]`: objects `[var, valid, flds]`, values `NULL`, `Addr(o, off)`, `Unkn(u)`; `DeepCopyData` as a record `[src, dst, cut, digBackward, valMap, wl, seen]` | `DigFields`, `AddObjectIfNeeded` (`ObjectFor`, `AddObject`), `HandleValueCore` (`AtOffset`), `TrackUses` (`Uses`, `TrackBack`), `HandleValue` (`NewUnknown`), `DeepCopyLoop` (`DeepCopyItem`, `RECURSIVE`), `DeepCopy`, `Prune` (`SeedVar`), `SplitHeapByCVars` (`SplitResult`), `JoinHeapsByCVars`. The heap queries of `symheap.cc` (`pointedBy`, `usedBy`, `regionByVar`, `heapAlloc`, `copyRelevantPreds`) and the `WorkList` (schedule once, LIFO) are written from `spec.md`. `LetVal(e, Body)` hands a value computed once to `Body`: it keeps every intermediate `DeepCopyData` evaluated, and walked by TLC's cost model, only once. |
| `SymCut` | a call site cutting a heap and joining it back | variables `heap`, `frame`, history `orig` (the heap split last) and `last` (its cut, the objects it copied into the part, the sanity check). Actions `Split(cut)`, `SplitNoFrame(cut)` (both `SplitStep`, the whole `splitHeapByCVars`) and `Join` |
| `FaEngine` | `Engine` and `SymState` of `fa_analysis/symexec.cc`. A configuration (an FAE) is a concrete store `[reg, heap]`, so `fwdConf` is a set, `subseteq` is membership and `join` is union | variables `prog`, `fwd`, `out`, `todo`, `err` (the exception that ended `run()`), history `done`. `ExecInsn` is `execInsn` with every `exec*` function (`ExecAssignment`, `ExecEq`, `ExecPlus`, `ExecMalloc`, `ExecFree`, `ExecNondet`, `ExecCond`), returning the results in the order they are passed to `stateUnion`. `StateUnion` is `enqueue` with its operand preparation, which throws on a bad dereference; `Deliver` folds it over the results. Actions `ProcessState` (the whole `processState()`) and `PopState` (its early return) |
| `SubObjTraversal` | `traverseSubObjs` and `traverseSubObjsIc` of `symutil.hh`. A sub-object is the sequence of field indices leading to it; the shape maps it to its `item_cnt`, or `NotComposite` | variables `shape`, `fn` (the traversal called), `leavesOnly`, `todo` (the stack), `cur` (the item being scanned), history `visits` (each visitor call with its chain), `result`. Actions `PopItem`, `ScanField`, `EndItem` (one loop iteration each), `IcLevelDone`, `IcVisitField` and `Return`. The visitor may ask to stop at any call (`Visit`) |
| `ConstGep` | `constgep.cc`. An integer constant is `[op \|-> "int", w, v]`, a constant expression a record of its opcode and operands; a pointer is null, `@g` or a one-index GEP | variables `geps` (the function's GEP indices), history `orig`, the loop position `g`, `j`, `status`. Actions `ProcessIndex` (one `processOperand` and `use.set`), `NextGep`, `Return`. The folds (`TryReplace*`, with `OperandAfter` for `processOperandList` on the instruction copies) return the set of outcomes a build can produce: a constant, `NoFold` (nullptr) or `Abort` (a failed cast). `ValueAt` is the reference evaluator, with `@g` at a given address |

`MCSymState`, `MCBlockScheduler`, `MCFixedPoint`, `MCCfgRewrite`, `MCSymCut`, `MCFaEngine`, `MCSubObjTraversal` and `MCConstGep` instantiate them. `MCFaEngine`
writes small programs as functions from locations to instructions.

`SymState` refines `HeapCover` under the refinement mapping
`covered <- UNION of the stored heaps`.

## 3. Runs

| Run | Config | Expect | What it shows |
|---|---|---|---|
| symstate | `MCSymState.cfg` | pass | Any sequence of inserts (three-way or not) and `setDone` steps never puts a done flag on a heap the engine has not seen (`DoneWasProcessed`); it implements `HeapCover` (`ImplementsHeapCover`); and `anyHit` turns true exactly on an insert that did not store the offered heap as one more entry, as the comment at `symstate.cc:639` claims (`AnyHitMeansReuse`). 45k states. |
| symstate_idem | `MCSymState_idem.cfg` | violation | `InsertIdempotent`: inserting a heap isomorphic to a stored one, with a three-way join allowed, widens an earlier heap and reports a change (finding 1). |
| scheduler | `MCBlockScheduler.cfg` | pass | Every build keeps its queue equal to `todo` with no duplicates (`SchedMirrorsTodo`). The FIFO build serves every scheduled block (`FifoServesAll`). 20k states. |
| fixpoint | `MCFixedPoint.cfg` | pass | On a loop that grows a list, followed by a loop that walks it, and a jump-only latch block of the bypass shape (`joinOnLoopEdgesOnly = 3`), under all four scheduler builds and three entry heaps, the model checks four things: the loop terminates (`Terminates`); every block with a pending heap is scheduled or running (`PendingScheduled`); the final states are a post-fixed point (`FixpointSound`); and types hold. 420 states. |
| faengine | `MCFaEngine.cfg` | pass | On six programs (a loop over a nondeterministic value that stores into a node and frees it, and five variants with a fault on some paths), four things hold. A state with queued configurations is always on `todo` (`PendingOnTodo`). When `run()` returns, `execInsn` has run on exactly the configurations main reaches (`Explored`). `run()` throws exactly when a reachable configuration makes an instruction throw (`ErrorReported`). The loop stops (`Terminates`). 147 states. |

| cfgrewrite | `MCCfgRewrite.cfg` | pass | Any sequence of edits (with no drop of a location that is its own successor) keeps the in-edge lists the mirror of the out-edge lists (`EdgesMirror`), leaves no edge to a dropped location (`NoDanglingEdges`), keeps every cycle through a `closesLoop` edge (`LoopEdgesCutCycles`), and `dropInsn` keeps reachability between the other locations (`DropKeepsPaths`). 17k states. |
| cfgrewrite_flags | `MCCfgRewrite_flags.cfg` | violation | `InsertFlagsAgree`: the assertion of `insertInsn` fails after `dropInsn` (finding 4). |
| cfgrewrite_selfloop | `MCCfgRewrite_selfloop.cfg` | violation | `NoDanglingEdges`: dropping a self-looping location leaves edges to it (finding 5). |
| subobjtraversal | `MCSubObjTraversal.cfg` | pass | On three nested struct types and any visitor, each sub-object is visited at most once and a traversal that returns true visited exactly the expected ones (`VisitsComplete`, leaves only with `leavesOnly`). `traverseSubObjsIc` visits in depth-first pre-order (`IcPreOrder`, against a `RECURSIVE` reference) and hands the visitor the chain leading to each sub-object (`IcChains`). Both return (`Terminates`). 153 states. |
| constgep | `MCConstGep.cfg` | pass | On 210 functions over ten index expressions, every index the pass replaces holds, in its type's bits, the value the expression has with every global at address 0 (`FoldsAsIfGlobalsAtNull`, finding 8): nested subs with and without `nsw`, zext and sext at the sign boundary, and the offsetof idiom fold exactly. 932 states. |
| symcut | `MCSymCut.cfg` | pass | On junk-free heaps without predicates and without pointers inside a freed object, any sequence of splits (with and without a frame) and joins keeps three things. The part a split keeps is exactly the closure of the cut under pointers, either way, and shared unknown values (`PartIsClosed`). The NDEBUG sanity check of `splitHeapByCVars` never fires (`SplitSane`). Joining the frame back gives the heap before the split up to renaming (`RoundTrip`). 21k states. |
| symcut_roundtrip | `MCSymCut_roundtrip.cfg` | violation | `RoundTrip`: a split by `{a}` and a join lose a predicate and duplicate a freed block (findings 6 and 7). |

Every property of a passing run has a mutant in `PROJECT.json`: a fault
variant, defined next to the operator it replaces, that TLC shows to violate
the property.

### Findings

1. **`InsertIdempotent`** (`symstate.cc:300`). `SymStateWithJoin::insert`
   joins with the first heap `joinSymHeaps` accepts. Take the stored heaps
   `<<{0}, {1}>>` and insert `{1}` again with a three-way join allowed. The
   heap `{0}` is widened with it, and the call returns true. Section 8 of the
   specification says an insert of an isomorphic heap returns false. TLC
   finds this in three inserts.

Two divergences from the specification's scheduler section were met while
modelling `SchedulerOps`. Each is the effect of one line, and no run checks
them:

- **Prioritized LIFO** (`symstate.cc:467`). `rotate(itIdx, itTop, end)`
   makes the old top element the first element of the rotated range. The
   block found at `idx` moves up by one place only. On `<<1, 2, 3>>`,
   `schedule(1)` gives `<<3, 1, 2>>`, and `getNext()` returns 2, not 1. The
   specification says the block is "bumped to the top"; its own open question
   notes the doubt.
- **Load-driven ties** (`symstate.cc:495`). `load[cntPending] = bbNow`
   over the pointer-ordered `todo` set keeps the last block of each load. The
   specification says ties are broken by insertion order.

4. **`InsertFlagsAgree`** (`fixed_point_rewrite.cc:213`). `dropInsn` ORs
   `closesLoop` into the redirected edges and keeps duplicates. On the loop
   graph, `dropInsn(1)`, `insertInsn(2, 2)`, `dropInsn(2)` leave location 0
   with two edges to 3, one flagged and one not. `insertInsn(0, 3)` then
   reaches its own `CL_BREAK_IF(closesLoop != ie.closesLoop)`.
5. **`NoDanglingEdges`** (`fixed_point_rewrite.cc:283`). `dropInsn` on a
   location that is its own successor copies the self-loop edge into its
   predecessors. On the loop graph, `dropInsn(1)` then `dropInsn(2)` leaves 0
   with an edge to the freed location 2, against the comment "finally detach
   'at' from the graph completely".

6. **`RoundTrip`, predicates** (`symcut.cc:345`). `deepCopy` ends with
   `copyRelevantPreds(dst, valMap)`, which keeps a predicate only if both
   its operands were copied. A Neq predicate between an unknown value `a`
   holds and one held by an object only `b` reaches is in neither the part
   nor the frame of `splitHeapByCVars(h, {a})`, and `joinHeapsByCVars` cannot
   bring it back. `spec.md` says the join reconstructs the original heap.
7. **`RoundTrip`, freed blocks** (`symcut.cc:269`). For a value whose object
   cannot be dereferenced, `trackUses` finds the users with `usedBy(valSrc)`,
   the exact value only. If `a = &freed[0]` and `s.next = &freed[1]`, the
   split by `{a}` does not pull `s` (nor `b`, which points to it) into the
   cut. The freed block is copied into both the part and the frame, and the
   join has two distinct freed blocks where the original had one.
8. **`FoldsAsIfGlobalsAtNull`** (`constgep.cc:103`). `tryReplacePtrToInt`
   replaces `ptrtoint(gep(base, idx))` by the GEP's accumulated offset and
   ignores the base. With `@g` at address 8, `ptrtoint(gep(@g, 1))` of
   2-byte elements becomes 2, not 10. The constgep run checks that every
   replacement equals the value with globals at address 0; the same claim
   with `@g` at its address fails on that index. A difference of two such
   addresses in one global folds correctly, as the bases cancel.

## 4. Bounds and why they are enough

- **symstate.**
  - The concrete shapes are `{0,1,2,3}`.
  - There are 6 representable heaps:
    - three single shapes;
    - `{0,1}` and `{0,1,2}`, where three-way joins land;
    - `{3}`, which joins with nothing.
  - These produce every join status: a failed join, SH1/SH2 in both scan loops, a three-way join that then packs, and a three-way join refused.
  - `MaxHeaps = 3` allows a pack that erases entries on both sides of `idxNew`.
  - `joinOnLoopEdgesOnly = 2` and `stateLiveOrdering = 2` exercise both the union path and the join path, and both rotations.
  - Every mutant above is caught within these bounds.
- **scheduler.** 3 blocks are the least for which a rotate differs from a swap. The pending counts 0..2 produce ties and strict minima.
- **fixpoint.**
  - The program has 7 blocks and two loop-closing edges. Blocks 6 (the
    return) and 7 (a jump-only latch) have the bypass shape, and
    `joinOnLoopEdgesOnly = 3` sends the latch's heaps around the join.
  - There are 5 representable heaps; joining the empty list with a one-node list needs a widening.
  - With 3 entry heaps, replacements (SH2), three-way joins and packs all happen at the loop heads.
  - TLC explores 420 distinct states.

- **cfgrewrite.** A loop (with a `closesLoop` back edge and an exit) and a
  diamond (two parallel paths) cover self-loops created by drops, parallel
  edges, and dedup. `MaxLocs = 6` allows two inserted locations, enough for
  an insert between locations created by drops. Both findings need 4 steps.

- **symcut.** Two program variables of one field and a heap object with two
  fields, valid or freed. A field holds `NULL`, the address of either
  variable, offset 0 or 1 of the heap object, or an unknown value that two
  fields may share. That gives pointers both ways between the variables
  and the object, interior pointers, shared unknowns and freed targets:
  every branch of `trackUses`, `handleValue` and `handleValueCore`, the
  cut enlarged by a backward step, and a frame that is empty. Heaps with junk
  are left out (`collectJunk` removes it, and a prune drops it by design).
  So are pointers inside a freed object and predicates, which findings 6
  and 7 show to break the round trip; `symcut_roundtrip` starts from a
  single heap that has both.

- **faengine.** 14 instructions and 5 registers. `IntVals = {0, 1}`: the
  counter of the loop saturates at 1 (`execPlus` stores 0 or 1). The
  nondeterministic value makes `dataEq` return both outcomes, so the loop
  body runs on unknown data and the subsumption of `fwdConf` must cut the
  loop. `MaxNodes = 1`: the program allocates one node; a path that would
  allocate past the bound ends. Each variant reaches a different exception:
  `free_nonref`, `size`, `cond`, a double free and a store after free
  (`deref`), and the base program ends normally.

- **subobjtraversal.** `Flat` (a struct and a scalar), `Nested` (an empty
  struct, a struct of a struct, fields after a nested struct) and `Deep`
  (three levels, an empty struct last). Three levels are the least at which a
  pushed item's `nth` is incremented below two pushes. Every field is a
  scalar or a struct; arrays and unions are composite types too and are
  traversed alike.

- **constgep.** Widths are scaled down: pointers of 4 bits, indices of 4
  and 2 bits, elements of 2 bytes, `@g` at 8. The folds only truncate and
  extend, so the boundaries that matter are the sign bit of each width and
  a wrap below zero, and every expression reaches one of them. Functions
  have one GEP with one or two indices, or two GEPs, so the loop both
  advances within a GEP and moves to the next one. `Assertions = TRUE`
  checks a build with LLVM's assertions: a narrow ptrtoint aborts there.
  Without assertions `ConstantInt::get` gives that ptrtoint a pointer-width
  constant, and `FoldsAsIfGlobalsAtNull` fails on
  `sext(ptrtoint i2 (gep null, 3)) - 1`; `PROJECT.json` lists it as a
  hazard, and no run checks that build.

## 5. Fairness

- **BlockScheduler.** `getNext()` is weakly fair: the engine's main loop calls
  it whenever `todo` is non-empty. `schedule()` and the pending counts are
  left to the environment, with no fairness.
- **FixedPoint.** One thread runs the loop until the scheduler is empty, so
  `Next` is weakly fair. `LoopRuns` states `WF_vars(Next)` with
  `ENABLED <<Next>>_vars` written out as the state predicate `CanStep`. TLC
  evaluates `ENABLED` over a whole block's transfer very slowly, and
  `CanStep` avoids that evaluation.
- **CfgRewrite.** Only safety is checked: the callers may
  stop editing at any time, so no fairness is assumed and the config has
  `CHECK_DEADLOCK FALSE`.
- **SymCut.** Safety only. Any split may follow a join, so the model has
  no deadlock and none is assumed.
- **FaEngine.** One thread runs `while (!todo.empty()) processState();`,
  so `Next` is weakly fair. The config has `CHECK_DEADLOCK FALSE` because
  `run()` returns when `todo` is empty or an exception is thrown.
- **SubObjTraversal.** The traversal is a loop of the calling thread, so
  `Next` is weakly fair. The config has `CHECK_DEADLOCK FALSE` because the
  function returns.
- **ConstGep.** `runOnFunction` is a loop of the calling thread, so `Next`
  is weakly fair; the pass returns or aborts, hence `CHECK_DEADLOCK FALSE`.
- The fixpoint config has `CHECK_DEADLOCK FALSE` because the engine really
  stops when the scheduler is empty.

## 6. Not modelled, and why

- **Trace nodes.** This covers `updateTraceOf` and the `Trace::*` calls. They
  are a provenance graph for error traces and do not influence which heaps are
  kept.
- **`SymStateMarked::swap`, `clear`, `operator=`.** These are whole-container
  replacements. The engine uses them outside the fixed-point loop.
- **The heap operations themselves.** This covers `joinSymHeaps`, `areEqual`
  and the transfer function. They are outside `src/` and far outside TLC's
  reach. They are abstracted to inclusion of concrete-shape sets, and a
  scenario gives the transfer function.
- **Parts of `symcut.cc`.** Uniform blocks (`UniBlockWriter`), custom
  values (`handleCustomValue`), value ranges, composite fields, segment
  kinds and minimum lengths, prototype levels, estimated types and the
  return slot are left out. They copy data along the same worklist, and
  none of them changes which objects a cut reaches.
- **Forest automata.** `FAE`, `normalize`, `heightAbstraction`,
  `isolateAtRoot`, `destroyStackFrame` and `check` are in headers outside
  this repository. A configuration is a concrete store, so abstraction is
  exact and every loop of the modelled programs reaches a fixed point by
  equality. `execRet` ends the path. Structure-valued operands
  (`nodeLookupMultiple`, `modifyNestedStruct`) are left out: the programs use
  single-field nodes.
- **`forestautext.hh`** is an older FAE extension whose API the engine no
  longer calls. **`tatimint.hh`** interns tree-automata transitions; no engine
  step depends on it.
- **`MultiRewriter`** only forwards each call to its slaves. **`ClInsn`,
  `TextInsn`** compute live/kill variable sets and print instructions; the
  model abstracts instructions to model values.
- **`RecordRewriter`.** It appends each edit to a list and replays the list
  in order into the consumer on `flush()`. A model of it refines a direct
  `StateRewriter` by the shape of its definitions, since the flushed graph
  is the replay that the refinement mapping names. Its one hazard is an
  exception from `apply()` part-way through `flush()` (the code marks it
  unsafe). No `apply()` under `src/` throws: cloning an instruction is code
  outside `src/`.
- **`cl_symexec.cc`** is configuration and I/O. **`src/tests`** holds input
  programs.
- **Parts of `constgep.cc`.** Instructions other than GEPs are skipped
  without a step. A GEP inside a ptrtoint has one index; struct-field
  indices add a constant offset the same way. The instruction copies that
  `getAsInstruction` leaks are not tracked. No property says the pass never
  aborts: it does abort on `zext(ptrtoint @g)`, and the code states no
  contract about which constant expressions reach it.
- **The rest of `symutil.hh`.** `objRoot`, `objRootByVal`, `objIsSeg` and
  `subOffsetIn` are inline queries over `SymHeap` (not in this repository);
  the other functions are declared here and defined in `symutil.cc`, which
  is not in this repository either. `traverseCore` hands the visitor the
  list `gatherLivePointers` returns. The `TObjPair` helper runs the same
  traversal over two objects of one type.

## 7. Plan for the following work

1. **More `FixedPoint` scenarios.** `forbidHeapReplace = TRUE`, and a pack
   that erases entries below `idxNew` inside the loop.
2. **`FaEngine` with calls.** Several functions, with `createStackFrame`
   and `destroyStackFrame` modelled from the call sites.
3. **`ConstGep` without assertions.** A configuration with
   `Assertions = FALSE` would check the pointer-width constant that a
   narrow ptrtoint yields; it fails `FoldsAsIfGlobalsAtNull` today.
