-------------------------- MODULE MCSubObjTraversal --------------------------
(***************************************************************************)
(* Objects for the traversals, written as trees: "L" is a field of a      *)
(* non-composite type, a sequence is a composite type with those items.   *)
(***************************************************************************)
EXTENDS SubObjTraversal

RECURSIVE ShapeFrom(_, _)
\* the shape of tree t placed at sub-object o
ShapeFrom(t, o) ==
    IF t = "L" THEN (o :> NotComposite)
    ELSE FoldLeft(LAMBDA acc, k : acc @@ ShapeFrom(t[k], SubObj(o, k - 1)),
                  (o :> Len(t)), [k \in 1..Len(t) |-> k])

ShapeOf(t) == ShapeFrom(t, << >>)

\* struct { int a; struct { int b; struct {} e; int c; } s; struct { struct { int d; } t; } u; }
Nested == << "L", << "L", << >>, "L" >>, << << "L" >> >> >>

\* struct { struct { int a; int b; } s; int c; }
Flat == << << "L", "L" >>, "L" >>

\* struct { struct { struct { int a; int b; } t; int c; } s; struct {} e; }
Deep == << << << "L", "L" >>, "L" >>, << >> >>

MCShapes == {ShapeOf(Nested), ShapeOf(Flat), ShapeOf(Deep)}

=============================================================================
