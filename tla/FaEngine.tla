------------------------------ MODULE FaEngine ------------------------------
(***************************************************************************)
(* The symbolic execution engine of Forester (src/fa_analysis/symexec.cc): *)
(* SymExec::Engine runs main() over a stack 'todo' of per-instruction      *)
(* SymStates.  A SymState keeps fwdConf, the union of the configurations   *)
(* that reached its instruction, and outConf, a stack of configurations    *)
(* still to execute.  processState() takes the state on top of todo and   *)
(* executes one of its configurations; every result goes through          *)
(* stateUnion(), whose enqueue() drops it when fwdConf already covers it.  *)
(*                                                                         *)
(* A configuration (an FAE) is abstracted to a concrete store: the values *)
(* of main's registers and a sequence of heap nodes (node i has root id i, *)
(* ids are not reused).  The forest automata, their normalisation and     *)
(* height abstraction (forestaut.hh, ufae.hh, not in this repository) are  *)
(* therefore exact: fwdConf is a set of stores, subseteq is membership and *)
(* join is union, and isolateAtRoot of a concrete store is the store.      *)
(***************************************************************************)
EXTENDS Integers, SequencesExt

CONSTANTS
    Locs,       \* the instruction locations of main, 0 .. n-1 in code order
    Regs,       \* the register indices of main's stack frame
    Programs,   \* the programs analysed: prog[l] is the instruction at l
    Entry,      \* main.cfg.entry()->begin()
    IntVals,    \* the integer values the programs use
    MaxNodes    \* bound on the heap nodes of one configuration

ASSUME /\ Entry \in Locs
       /\ \A p \in Programs : DOMAIN p = Locs

None == "none"

\* Data (types.hh, not in this repository): a register or selector value
Undef == [t |-> "undef", v |-> 0, d |-> 0]
CreateUnknw == [t |-> "unknw", v |-> 0, d |-> 0]
CreateBool(b) == [t |-> "bool", v |-> IF b THEN 1 ELSE 0, d |-> 0]
CreateInt(i) == [t |-> "int", v |-> i, d |-> 0]
CreateRef(root, displ) == [t |-> "ref", v |-> root, d |-> displ]
CreateVoidPtr(size) == [t |-> "void_ptr", v |-> size, d |-> 0]

\* operands: a register (CL_OPERAND_VAR), a dereference *(reg + displ)
\* (CL_OPERAND_VAR with an accessor) and a constant (CL_OPERAND_CST)
Reg(x) == [k |-> "reg", x |-> x, displ |-> 0, data |-> Undef]
Deref(x, displ) == [k |-> "ref", x |-> x, displ |-> displ, data |-> Undef]
Val(data) == [k |-> "val", x |-> 0, displ |-> 0, data |-> data]
NoOperand == Val(Undef)

VARIABLES
    prog,       \* the program being analysed
    fwd,        \* SymState::fwdConf of every location
    out,        \* SymState::outConf of every location (next() takes the back)
    todo,       \* Engine::todo (processState() takes the back)
    err,        \* the exception that ended run(), None while it runs
    done        \* the configurations handed to execInsn at each location (history)

vars == <<prog, fwd, out, todo, err, done>>

\* SymCtx::init and createStackFrame: every register undefined, no nodes
InitConf == [reg |-> [r \in Regs |-> Undef], heap |-> << >>]

-----------------------------------------------------------------------------
(* Operands and data (SymCtx::parseOperand is not in this repository: a   *)
(* dereference through a register that holds no reference to a live node  *)
(* makes it throw).                                                        *)

BadOperand(c, op) ==
    /\ op.k = "ref"
    /\ LET p == c.reg[op.x]
       IN ~(/\ p.t = "ref" /\ p.v \in DOMAIN c.heap /\ c.heap[p.v].alive
            /\ p.d + op.displ \in 0..(Len(c.heap[p.v].flds) - 1))

\* the operands prepareOperand / parseOperand look at fail to parse
ParseFails(c, insn) == \E op \in {insn.dst, insn.a, insn.b} : BadOperand(c, op)

\* OperandInfo: flag, root (a register or a node) and displacement
ParseOperand(c, op) ==
    [flag |-> op.k,
     root |-> IF op.k = "ref" THEN c.reg[op.x].v ELSE op.x,
     displ |-> IF op.k = "ref" THEN c.reg[op.x].d + op.displ ELSE 0,
     data |-> op.data]

\* Engine::readData of a single value
ReadData(c, oi) ==
    CASE oi.flag = "ref" -> c.heap[oi.root].flds[oi.displ + 1]
      [] oi.flag = "reg" -> c.reg[oi.root]
      [] oi.flag = "val" -> oi.data

\* Engine::writeData of a single value: nodeModify or varSet
WriteData(c, oi, in) ==
    IF oi.flag = "ref" THEN [c EXCEPT !.heap[oi.root].flds[oi.displ + 1] = in]
    ELSE [c EXCEPT !.reg[oi.root] = in]

Rd(c, op) == ReadData(c, ParseOperand(c, op))
Wr(c, op, in) == WriteData(c, ParseOperand(c, op), in)

\* FAE::nodeCreate and FAE::nodeDelete on a concrete store
NodeCreate(c, size) ==
    [c EXCEPT !.heap = Append(@, [alive |-> TRUE, flds |-> [i \in 1..size |-> Undef]])]
NodeDelete(c, root) == [c EXCEPT !.heap[root].alive = FALSE]

-----------------------------------------------------------------------------
(* Executing one instruction on one configuration: [outs, err], where     *)
(* outs lists the <<location, configuration>> pairs passed to stateUnion   *)
(* in the order the code passes them, and err is the exception thrown.     *)

Ok(outs) == [outs |-> outs, err |-> None]
Fail(e) == [outs |-> << >>, err |-> e]

\* execAssignment; a.n > 0 is the void* to T* case, n the size of T
ExecAssignment(l, c, i) ==
    IF i.n > 0
    THEN LET data == Rd(c, i.a)
         IN CASE i.n # data.v -> Fail("size")
              [] Len(c.heap) >= MaxNodes -> Ok(<< >>)
              [] OTHER -> LET c2 == NodeCreate(c, i.n)
                          IN Ok(<< <<l + 1, Wr(c2, i.dst, CreateRef(Len(c2.heap), 0))>> >>)
    ELSE Ok(<< <<l + 1, Wr(c, i.dst, Rd(c, i.a))>> >>)

\* Engine::dataEq: both outcomes when either side is unknown
DataEq(x, y, neg) ==
    IF x.t = "unknw" \/ y.t = "unknw"
    THEN << CreateBool(FALSE), CreateBool(TRUE) >>
    ELSE << CreateBool((x = y) # neg) >>

\* execEq: one successor per possible outcome
ExecEq(l, c, i, neg) ==
    LET res == DataEq(Rd(c, i.a), Rd(c, i.b), neg)
    IN Ok([k \in DOMAIN res |-> <<l + 1, Wr(c, i.dst, res[k])>>])

\* fault variant: the sum itself is stored
ExecPlus_sum(l, c, i) ==
    Ok(<< <<l + 1, Wr(c, i.dst, CreateInt(Rd(c, i.a).v + Rd(c, i.b).v))>> >>)

\* execPlus: the result is 1 if the sum is positive, 0 otherwise
ExecPlus(l, c, i) ==
    LET sum == Rd(c, i.a).v + Rd(c, i.b).v
    IN Ok(<< <<l + 1, Wr(c, i.dst, CreateInt(IF sum > 0 THEN 1 ELSE 0))>> >>)

\* execMalloc: the destination gets a void pointer to a block of the size
ExecMalloc(l, c, i) == Ok(<< <<l + 1, Wr(c, i.dst, CreateVoidPtr(Rd(c, i.a).v))>> >>)

\* execFree: the operand must be a reference to the start of a block;
\* isolateAtRoot (forestaut.hh) throws for a deleted node
ExecFree(l, c, i) ==
    LET data == Rd(c, i.a)
    IN CASE data.t # "ref" -> Fail("free_nonref")
         [] data.d # 0 -> Fail("free_displ")
         [] ~c.heap[data.v].alive -> Fail("deref")
         [] OTHER -> Ok(<< <<l + 1, NodeDelete(c, data.v)>> >>)

\* execNondet
ExecNondet(l, c, i) == Ok(<< <<l + 1, Wr(c, i.dst, CreateUnknw)>> >>)

\* execCond: the condition must be a boolean
ExecCond(l, c, i) ==
    LET data == Rd(c, i.a)
    IN IF data.t # "bool" THEN Fail("cond")
       ELSE Ok(<< <<IF data.v = 1 THEN i.t ELSE i.f, c>> >>)

\* BuiltinTable: the builtin a called function name stands for
Builtin(name) == IF name \in {"malloc", "free", "__nondet"} THEN name ELSE "none"

\* execInsn, after the parseOperand calls of the exec function; execJmp
\* and execRet (destroyStackFrame and check are not in this repository,
\* the path ends) inline
ExecInsn(l, c) ==
    LET i == prog[l]
    IN IF ParseFails(c, i) THEN Fail("deref")
       ELSE CASE i.op = "assign" -> ExecAssignment(l, c, i)
              [] i.op = "eq" -> ExecEq(l, c, i, FALSE)
              [] i.op = "ne" -> ExecEq(l, c, i, TRUE)
              [] i.op = "plus" -> ExecPlus(l, c, i)
              [] i.op = "call" /\ Builtin(i.fnc) = "malloc" -> ExecMalloc(l, c, i)
              [] i.op = "call" /\ Builtin(i.fnc) = "free" -> ExecFree(l, c, i)
              [] i.op = "call" /\ Builtin(i.fnc) = "__nondet" -> ExecNondet(l, c, i)
              [] i.op = "jmp" -> Ok(<< <<i.t, c>> >>)
              [] i.op = "cond" -> ExecCond(l, c, i)
              [] i.op = "ret" -> Ok(<< >>)

-----------------------------------------------------------------------------
(* The engine.  E is [fwd, out, todo, err], the part of the state the      *)
(* results of one processState() update.                                   *)

\* fault variant: enqueue joins before the subsumption check
StateUnion_joinFirst(E, t, c) ==
    LET J == [E EXCEPT !.fwd[t] = @ \cup {c}]
    IN CASE E.err # None \/ c \in J.fwd[t] -> J
         [] ParseFails(c, prog[t]) -> [J EXCEPT !.err = "deref"]
         [] OTHER -> [J EXCEPT !.out[t] = Append(@, c), !.todo = Append(@, t)]

\* fault variant: a configuration whose operands fail to parse is dropped
StateUnion_dropBad(E, t, c) ==
    CASE E.err # None \/ c \in E.fwd[t] -> E
      [] ParseFails(c, prog[t]) -> [E EXCEPT !.fwd[t] = @ \cup {c}]
      [] OTHER -> [E EXCEPT !.fwd[t] = @ \cup {c}, !.out[t] = Append(@, c),
                            !.todo = Append(@, t)]

\* stateUnion(getState(t), c): enqueue drops c if fwdConf covers it; else
\* it joins c into fwdConf, prepares the operands of t's instruction (which
\* throws on a bad dereference) and queues c; the state is pushed on todo
StateUnion(E, t, c) ==
    CASE E.err # None \/ c \in E.fwd[t] -> E
      [] ParseFails(c, prog[t]) -> [E EXCEPT !.fwd[t] = @ \cup {c}, !.err = "deref"]
      [] OTHER -> [E EXCEPT !.fwd[t] = @ \cup {c}, !.out[t] = Append(@, c),
                            !.todo = Append(@, t)]

\* the results of one execInsn go through stateUnion in order
Deliver(E, outs) ==
    LET step(acc, o) == StateUnion(acc, o[1], o[2])
    IN FoldLeft(step, E, outs)

\* run(): main's initial configuration is put in the entry state's outConf
\* directly (not through enqueue) and the entry state is scheduled
Init ==
    /\ prog \in Programs
    /\ fwd = [l \in Locs |-> {}]
    /\ out = [l \in Locs |-> IF l = Entry THEN << InitConf >> ELSE << >>]
    /\ todo = << Entry >>
    /\ err = None
    /\ done = [l \in Locs |-> {}]

\* fault variant: processState() leaves the exhausted state on todo
PopState_noPop ==
    /\ err = None /\ todo # << >>
    /\ out[Last(todo)] = << >>
    /\ UNCHANGED <<prog, fwd, out, todo, err, done>>

\* processState() on a state whose outConf is empty: it leaves todo
PopState ==
    /\ err = None /\ todo # << >>
    /\ out[Last(todo)] = << >>
    /\ todo' = Front(todo)
    /\ UNCHANGED <<prog, fwd, out, err, done>>

\* the configuration next() takes from the state on top of todo
Top == Last(out[Last(todo)])

\* fault variant: taking the last configuration, processState pops todo after
\* the results are delivered, removing the state pushed last, not its own
ProcessState_popAfter ==
    /\ err = None /\ todo # << >>
    /\ out[Last(todo)] # << >>
    /\ LET s == Last(todo)
           r == ExecInsn(s, Top)
           E == Deliver([fwd |-> fwd, out |-> [out EXCEPT ![s] = Front(@)],
                         todo |-> todo, err |-> r.err], r.outs)
       IN /\ fwd' = E.fwd
          /\ out' = E.out
          /\ todo' = IF Len(out[s]) = 1 THEN Front(E.todo) ELSE E.todo
          /\ err' = E.err
          /\ done' = [done EXCEPT ![s] = @ \cup {Top}]
    /\ UNCHANGED prog

\* processState(): next() pops a configuration, execInsn runs it and every
\* result goes through stateUnion; an exception ends run()
ProcessState ==
    /\ err = None /\ todo # << >>
    /\ out[Last(todo)] # << >>
    /\ LET s == Last(todo)
           r == ExecInsn(s, Top)
           E == Deliver([fwd |-> fwd, out |-> [out EXCEPT ![s] = Front(@)],
                         todo |-> todo, err |-> r.err], r.outs)
       IN /\ fwd' = E.fwd
          /\ out' = E.out
          /\ todo' = E.todo
          /\ err' = E.err
          /\ done' = [done EXCEPT ![s] = @ \cup {Top}]
    /\ UNCHANGED prog

Next == PopState \/ ProcessState

\* one thread runs 'while (!todo.empty()) processState();'
Spec == Init /\ [][Next]_vars /\ WF_vars(Next)

-----------------------------------------------------------------------------
\* the engine has stopped: todo is empty or an exception ended run()
Finished == todo = << >> \/ err # None

TypeOK ==
    /\ todo \in Seq(Locs)
    /\ err \in {None, "deref", "size", "free_nonref", "free_displ", "cond"}
    /\ \A l \in Locs : \A c \in fwd[l] \cup ToSet(out[l]) \cup done[l] :
          /\ DOMAIN c.reg = Regs
          /\ Len(c.heap) <= MaxNodes
          /\ \A v \in Range(c.reg) \cup UNION {Range(n.flds) : n \in Range(c.heap)} :
                \/ v \in {Undef, CreateUnknw, CreateBool(FALSE), CreateBool(TRUE)}
                \/ v.t = "int" /\ v.v \in IntVals
                \/ v.t = "void_ptr" /\ v.v \in IntVals
                \/ v.t = "ref" /\ v.v \in DOMAIN c.heap

(* Every state with a configuration in its outConf is on todo, however    *)
(* the stack was reordered by the states pushed on top of it: run() never *)
(* returns with a configuration left unexecuted.                           *)
PendingOnTodo ==
    err = None => \A l \in Locs : out[l] # << >> => l \in Range(todo)

\* the reference: the <<location, configuration>> pairs main reaches
Succ(x) == Range(ExecInsn(x[1], x[2]).outs)

RECURSIVE ReachFrom(_)
ReachFrom(S) ==
    LET next == S \cup UNION {Succ(x) : x \in S}
    IN IF next = S THEN S ELSE ReachFrom(next)

Reach == ReachFrom({<<Entry, InitConf>>})

(* When run() returns normally, execInsn has run on exactly the           *)
(* configurations main reaches at each instruction: the subsumption check *)
(* of enqueue, the LIFO order of todo and outConf, and the entry          *)
(* configuration that bypasses enqueue lose none and add none.            *)
Explored ==
    (todo = << >> /\ err = None) =>
        \A l \in Locs : done[l] = {x[2] : x \in {y \in Reach : y[1] = l}}

(* run() ends with an exception exactly when some configuration main      *)
(* reaches makes an instruction throw (a bad free, a non-boolean          *)
(* condition, a size mismatch, a bad dereference): an error is reported,  *)
(* and never one that no path reaches.                                     *)
ErrorReported ==
    Finished => (err # None <=> \E x \in Reach : ExecInsn(x[1], x[2]).err # None)

(* run() returns: the loop ends on every program, loops included.         *)
Terminates == <>Finished

=============================================================================
