------------------------------ MODULE ConstGep ------------------------------
(***************************************************************************)
(* The constant-GEP evaluator of src/cl/llvm/constgep.cc: runConstgep(f)  *)
(* walks the GetElementPtr instructions of f and replaces every index     *)
(* that is a constant expression (sub, zext, sext, ptrtoint of a GEP) by   *)
(* the ConstantInt it folds to.                                            *)
(*                                                                         *)
(* An integer constant is [op |-> "int", w, v] with v in 0..2^w-1; a       *)
(* constant expression is a record whose op is its opcode, with its        *)
(* operands as nested records.  A pointer is "null", "global" (one global *)
(* @g) or a constant "gep" [base, idx, size] with one index scaled by the  *)
(* element size.  Widths are in bits and kept small.                       *)
(*                                                                         *)
(* cast<ConstantInt> on an operand that did not fold fails an assertion,   *)
(* or is undefined behaviour without assertions; both end the pass, which  *)
(* is the outcome Abort.  ConstantInt::get of a pointer-width APInt for a  *)
(* narrower ptrtoint fails an assertion, or without assertions yields a    *)
(* pointer-width constant: the constant Assertions picks the build.        *)
(***************************************************************************)
EXTENDS Integers, Sequences

CONSTANTS
    PtrWidth,   \* the pointer width of the data layout
    GlobalAddr, \* the run-time address of @g
    Assertions, \* the build keeps LLVM's assertions
    Functions,  \* the functions: sequences of GEPs, each a sequence of indices
    Abort,      \* a model value: the pass stopped at a failed cast
    NoFold      \* a model value: tryReplace returned nullptr

ASSUME GlobalAddr \in 1..(2^PtrWidth - 1) /\ Assertions \in BOOLEAN

VARIABLES
    geps,       \* the GEP instructions of the function, indices as now
    orig,       \* the same before the pass (history)
    g,          \* the GEP the loop is at
    j,          \* the index of that GEP the loop is at
    status      \* "running", "done" (returned true) or "aborted"

vars == <<geps, orig, g, j, status>>

-----------------------------------------------------------------------------
(* Constants *)

IsConstInt(e) == e.op = "int"
IsConstExpr(e) == e.op \in {"sub", "zext", "sext", "ptrtoint", "gep", "mul"}

\* fault variant: the int64_t difference stored without truncation
CInt_noTrunc(w, v) == [op |-> "int", w |-> w, v |-> v]

\* ConstantInt::get / getSigned: the value truncated to the type's width
CInt(w, v) == [op |-> "int", w |-> w, v |-> v % (2^w)]

\* getSExtValue and getZExtValue of a ConstantInt
SExtValue(c) == IF c.v >= 2^(c.w - 1) THEN c.v - 2^c.w ELSE c.v
ZExtValue(c) == c.v

-----------------------------------------------------------------------------
(* The folds.  Each returns the set of outcomes the builds can produce:     *)
(* a ConstantInt, NoFold or Abort.                                          *)

RECURSIVE TryReplace(_), OperandAfter(_)

\* processOperandList on one use of an instruction copy: a constant
\* expression is replaced by its fold, anything else is left alone
OperandAfter(e) ==
    IF IsConstExpr(e)
    THEN {IF r = NoFold THEN e ELSE r : r \in TryReplace(e)}
    ELSE {e}

TryReplaceSub(e) ==
    {IF Abort \in {x, y} THEN Abort
     ELSE IF ~(IsConstInt(x) /\ IsConstInt(y)) THEN NoFold
     ELSE IF e.nsw THEN CInt(e.w, SExtValue(x) - SExtValue(y))
     ELSE CInt(e.w, ZExtValue(x) - ZExtValue(y)) :
        x \in OperandAfter(e.a), y \in OperandAfter(e.b)}

TryReplaceZExt(e) ==
    {IF x = Abort \/ ~IsConstInt(x) THEN Abort ELSE CInt(e.w, ZExtValue(x)) :
        x \in OperandAfter(e.a)}

\* fault variant: the copy of tryReplaceZExt keeps getZExtValue
TryReplaceSExt_zext(e) ==
    {IF x = Abort \/ ~IsConstInt(x) THEN Abort ELSE CInt(e.w, ZExtValue(x)) :
        x \in OperandAfter(e.a)}

TryReplaceSExt(e) ==
    {IF x = Abort \/ ~IsConstInt(x) THEN Abort ELSE CInt(e.w, SExtValue(x)) :
        x \in OperandAfter(e.a)}

\* the GEP's accumulated constant offset, in an APInt of pointer width; the
\* pointer operand of the GEP plays no part
TryReplacePtrToInt(e) ==
    IF e.a.op = "gep" /\ IsConstInt(e.a.idx)
    THEN LET off == CInt(PtrWidth, SExtValue(e.a.idx) * e.a.size)
         IN IF e.w = PtrWidth THEN {off} ELSE IF Assertions THEN {Abort} ELSE {off}
    ELSE {NoFold}

TryReplace(e) ==
    CASE e.op = "sub"      -> TryReplaceSub(e)
      [] e.op = "zext"     -> TryReplaceZExt(e)
      [] e.op = "sext"     -> TryReplaceSExt(e)
      [] e.op = "ptrtoint" -> TryReplacePtrToInt(e)
      [] OTHER             -> {NoFold}

\* processOperand: only a ConstantExpr is looked at
ProcessOperand(e) == IF IsConstExpr(e) THEN TryReplace(e) ELSE {NoFold}

-----------------------------------------------------------------------------
Init ==
    /\ geps \in Functions
    /\ orig = geps
    /\ g = 1
    /\ j = 1
    /\ status = "running"

\* one use of processOperandList(gep->indices()): a replacement is set
ProcessIndex ==
    /\ status = "running" /\ g <= Len(geps) /\ j <= Len(geps[g])
    /\ \E r \in ProcessOperand(geps[g][j]) :
          IF r = Abort
          THEN /\ status' = "aborted"
               /\ UNCHANGED <<geps, g, j>>
          ELSE /\ geps' = IF r = NoFold THEN geps
                          ELSE [geps EXCEPT ![g][j] = r]
               /\ j' = j + 1
               /\ UNCHANGED <<g, status>>
    /\ UNCHANGED orig

\* the last index of a GEP: on to the next instruction
NextGep ==
    /\ status = "running" /\ g <= Len(geps) /\ j > Len(geps[g])
    /\ g' = g + 1
    /\ j' = 1
    /\ UNCHANGED <<geps, orig, status>>

\* all instructions seen: runOnFunction returns true
Return ==
    /\ status = "running" /\ g > Len(geps)
    /\ status' = "done"
    /\ UNCHANGED <<geps, orig, g, j>>

Next == ProcessIndex \/ NextGep \/ Return

\* the pass is one loop of the calling thread
Spec == Init /\ [][Next]_vars /\ WF_vars(Next)

-----------------------------------------------------------------------------
(* The reference: the value an integer constant has at run time, with @g  *)
(* at address base.                                                       *)

SignedAt(v, w) == IF v >= 2^(w - 1) THEN v - 2^w ELSE v

RECURSIVE ValueAt(_, _), AddrAt(_, _)
AddrAt(p, base) ==
    CASE p.op = "null"   -> 0
      [] p.op = "global" -> base
      [] p.op = "gep"    ->
            (AddrAt(p.base, base) + SignedAt(ValueAt(p.idx, base), p.idx.w) * p.size)
                % (2^PtrWidth)

ValueAt(e, base) ==
    CASE e.op = "int"      -> e.v
      [] e.op = "sub"      -> (ValueAt(e.a, base) - ValueAt(e.b, base)) % (2^e.w)
      [] e.op = "mul"      -> (ValueAt(e.a, base) * ValueAt(e.b, base)) % (2^e.w)
      [] e.op = "zext"     -> ValueAt(e.a, base)
      [] e.op = "sext"     -> SignedAt(ValueAt(e.a, base), e.a.w) % (2^e.w)
      [] e.op = "ptrtoint" -> AddrAt(e.a, base) % (2^e.w)

TypeOK ==
    /\ status \in {"running", "done", "aborted"}
    /\ DOMAIN geps = DOMAIN orig
    /\ g \in 1..(Len(geps) + 1)
    /\ \A k \in DOMAIN geps : \A i \in DOMAIN geps[k] :
          LET e == geps[k][i]
          IN  \/ IsConstExpr(e)
              \/ IsConstInt(e) /\ e.v \in 0..(2^e.w - 1)

(* Every index the pass replaced holds, in the bits of the index's own    *)
(* type, the value the original constant expression has when every        *)
(* global is at address 0: sub (nsw or not), zext, sext and the offset of  *)
(* a ptrtoint of a GEP are folded exactly, nested ones through the         *)
(* instruction copies, while tryReplacePtrToInt drops the GEP's base.      *)
(* With @g at GlobalAddr # 0 the replaced value of ptrtoint(gep(@g, k))    *)
(* differs from the run-time one.                                          *)
FoldsAsIfGlobalsAtNull ==
    \A k \in DOMAIN geps : \A i \in DOMAIN geps[k] :
        LET e == geps[k][i]
            o == orig[k][i]
        IN  e # o => e.v % (2^o.w) = ValueAt(o, 0)

=============================================================================
