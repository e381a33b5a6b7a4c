------------------------------ MODULE MCRegistry ------------------------------
(***************************************************************************)
(* Instances of Registry for TLC: three names on a two-level tree, and one *)
(* name on a wider tree.                                                   *)
(***************************************************************************)
EXTENDS Registry, TLC

CONSTANTS a, b, bus1, prefix1, root, leaf, left, right, deep, iA, iB, d1, d2

\* a and b are exposed, bus1 is a unique name; each pair of services shares iA.
ManyNames == {a, b, bus1}
ManyHasPrefix == {<<a, prefix1>>, <<b, prefix1>>}
ManyParent == (leaf :> root)
ManyDefOf == [s \in ManyNames |-> [i \in {iA, iB} |-> IF s = b THEN d2 ELSE d1]]
ManyImplements == [s \in ManyNames |->
    (root :> {iA} @@ leaf :> (IF s = a THEN {iA, iB} ELSE {}))]

\* One exposed name (a) and one without the prefix (b); a tree with two branches.
WideNames == {a, b}
WideHasPrefix == {<<a, prefix1>>}
WideParent == (left :> root @@ right :> root @@ deep :> left)
WideDefOf == [s \in WideNames |-> [i \in {iA} |-> d1]]
WideImplements == [s \in WideNames |->
    (root :> {} @@ left :> {iA} @@ right :> {} @@ deep :> {iA})]
==============================================================================
