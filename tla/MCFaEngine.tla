----------------------------- MODULE MCFaEngine -----------------------------
(***************************************************************************)
(* Programs for the Forester engine.  Registers: 1 t, 2 p, 3 c, 4 b, 5 i. *)
(* The base program builds a one-node structure and loops while a         *)
(* nondeterministic value is 0, storing the comparison into the node and   *)
(* counting the iterations; after the loop it frees the node:             *)
(*                                                                         *)
(*    0: t = malloc(1)            7: i = i + one                           *)
(*    1: p = t, cast to T        8: goto 3                                *)
(*    2: i = 0                    9: b = (i == 0)                          *)
(*    3: c = __nondet()          10: if (b) goto 11 else 12                *)
(*    4: b = (c == 0)            11: goto 12                               *)
(*    5: if (b) goto 6 else 9    12: free(p)                               *)
(*    6: p->data = b             13: return                                *)
(*                                                                         *)
(* The variants replace one instruction by a fault that only some paths   *)
(* reach: free(i) after the loop, a cast to a type of another size, a     *)
(* condition on the counter, a store through p after it is freed, and a   *)
(* second free.                                                            *)
(***************************************************************************)
EXTENDS FaEngine

MCLocs == 0..13
MCRegs == 1..5

Mk(op) == [op |-> op, dst |-> NoOperand, a |-> NoOperand, b |-> NoOperand,
           n |-> 0, fnc |-> "", t |-> 0, f |-> 0]
Assign(d, s) == [Mk("assign") EXCEPT !.dst = d, !.a = s]
AssignNew(d, s, n) == [Assign(d, s) EXCEPT !.n = n]
Binop(op, d, x, y) == [Mk(op) EXCEPT !.dst = d, !.a = x, !.b = y]
Call(fnc, d, x) == [Mk("call") EXCEPT !.fnc = fnc, !.dst = d, !.a = x]
Jmp(t) == [Mk("jmp") EXCEPT !.t = t]
Cond(x, t, f) == [Mk("cond") EXCEPT !.a = x, !.t = t, !.f = f]

Zero == Val(CreateInt(0))
One == Val(CreateInt(1))

Base ==
    << Call("malloc", Reg(1), One),
       AssignNew(Reg(2), Reg(1), 1),
       Assign(Reg(5), Zero),
       Call("__nondet", Reg(3), NoOperand),
       Binop("eq", Reg(4), Reg(3), Zero),
       Cond(Reg(4), 6, 9),
       Assign(Deref(2, 0), Reg(4)),
       Binop("plus", Reg(5), Reg(5), One),
       Jmp(3),
       Binop("eq", Reg(4), Reg(5), Zero),
       Cond(Reg(4), 11, 12),
       Jmp(12),
       Call("free", NoOperand, Reg(2)),
       Mk("ret") >>

\* the program as a function of the locations 0..13
AsProg(s) == [l \in MCLocs |-> s[l + 1]]

\* Base with the instruction at l replaced
Variant(l, insn) == AsProg([Base EXCEPT ![l + 1] = insn])

MCPrograms ==
    { AsProg(Base),
      Variant(12, Call("free", NoOperand, Reg(5))),
      Variant(1, AssignNew(Reg(2), Reg(1), 2)),
      Variant(10, Cond(Reg(5), 11, 12)),
      Variant(11, Call("free", NoOperand, Reg(2))),
      Variant(13, Assign(Deref(2, 0), Reg(4))) }

=============================================================================
