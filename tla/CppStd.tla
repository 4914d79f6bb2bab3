------------------------------- MODULE CppStd -------------------------------
(***************************************************************************)
(* The few C++ standard library operations the modelled code relies on,   *)
(* over TLA+ sequences with the code's 0-based positions.                  *)
(***************************************************************************)
EXTENDS Integers, Sequences

\* v[i] for a 0-based position i
At(s, i) == s[i + 1]

\* std::rotate(s.begin() + a, s.begin() + b, s.end()): the elements at
\* positions [b, end) move to position a and those at [a, b) follow them.
Rotate(s, a, b) == SubSeq(s, 1, a) \o SubSeq(s, b + 1, Len(s)) \o SubSeq(s, a + 1, b)

\* v.erase(v.begin() + i)
EraseAt(s, i) == SubSeq(s, 1, i) \o SubSeq(s, i + 2, Len(s))

=============================================================================
