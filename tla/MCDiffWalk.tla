------------------------------ MODULE MCDiffWalk ------------------------------
(***************************************************************************)
(* Small objects for DiffWalk: a field that may be a map, a list or a      *)
(* scalar, with two elements and a field below, and a field next to it.    *)
(* The fields have keys that are hard to write: an annotation name, a key  *)
(* with an apostrophe, and one with a bracket behind it, which ParsePath   *)
(* takes for two keys.                                                     *)
(***************************************************************************)
EXTENDS DiffReport, TLC

A == <<Field("a")>>
B == <<Field("k']")>>
Apostrophe == Append(A, Field("it's"))
First == Append(A, Index(0))
Name == Append(First, Field("a.b/c"))

SmallPaths == {A, B, Apostrophe, First, Append(A, Index(1)), Name}
SmallNodes == {MapNode, ListNode, Null, "1"}

SmallPatternSets ==
    {{}, {A}, {Append(A, AnyIndex)}, {First}, {<<AnyField, AnyField>>},
     {Name, Apostrophe},
     {Append(Append(A, AnyIndex), AnyField), B}}

SmallSpelling ==
    "a" :> <<"a">> @@ "it's" :> <<"i", "t", "'", "s">> @@ "k']" :> <<"k", "'", "]">>
        @@ "k\\" :> <<"k", "\\">> @@ "']" :> <<"'", "]">>
        @@ "a.b/c" :> <<"a", ".", "b", "/", "c">>

SmallMisread == Apostrophe :> Malformed @@ B :> <<Field("k\\"), Field("']")>>

\* Every text of up to MaxLength characters.
MaxLength == 5
SmallTexts == UNION {[1 .. n -> {"a", ".", "[", "]", "'", "*", "1"}] : n \in 0 .. MaxLength}

=============================================================================
