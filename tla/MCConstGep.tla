---------------------------- MODULE MCConstGep ----------------------------
(***************************************************************************)
(* GEP indices for the constant-GEP evaluator, with a 4-bit pointer width *)
(* and narrow 2-bit integers, @g at address 8.                            *)
(***************************************************************************)
EXTENDS ConstGep

Num(w, v) == [op |-> "int", w |-> w, v |-> v]
Sub(w, nsw, a, b) == [op |-> "sub", w |-> w, nsw |-> nsw, a |-> a, b |-> b]
Mul(w, a, b) == [op |-> "mul", w |-> w, a |-> a, b |-> b]
ZExt(w, a) == [op |-> "zext", w |-> w, a |-> a]
SExt(w, a) == [op |-> "sext", w |-> w, a |-> a]
PtrToInt(w, a) == [op |-> "ptrtoint", w |-> w, a |-> a]
Gep(base, idx, size) == [op |-> "gep", base |-> base, idx |-> idx, size |-> size]
Null == [op |-> "null"]
Global == [op |-> "global"]

\* offsetof(struct, a[3]) with 2-byte elements, as a 4-bit and a 2-bit int
OffsetOf == PtrToInt(4, Gep(Null, Num(4, 3), 2))
OffsetOfNarrow == PtrToInt(2, Gep(Null, Num(4, 3), 2))
\* (intptr_t)&g.a[1], and &g.a[2] - &g.a[1]
AddrInG == PtrToInt(4, Gep(Global, Num(4, 1), 2))
DiffInG == Sub(4, FALSE, PtrToInt(4, Gep(Global, Num(4, 2), 2)), AddrInG)

MCIndices ==
    { Num(4, 1),
      Sub(4, TRUE, Num(4, 1), Num(4, 3)),
      Sub(4, FALSE, ZExt(4, Num(2, 3)), Num(4, 1)),
      SExt(4, Num(2, 3)),
      Sub(4, TRUE, SExt(4, OffsetOfNarrow), Num(4, 1)),
      OffsetOf, AddrInG, DiffInG,
      ZExt(4, PtrToInt(2, Global)),
      Sub(4, TRUE, Mul(4, Num(4, 2), Num(4, 3)), Num(4, 1)) }

\* one GEP with one or two indices, or two GEPs with one each
MCFunctions ==
    { << << i >> >> : i \in MCIndices }
    \cup { << << i, k >> >> : i, k \in MCIndices }
    \cup { << << i >>, << k >> >> : i, k \in MCIndices }

=============================================================================
