----------------------------- MODULE MCWebService -----------------------------
(***************************************************************************)
(* Instances of WebService for TLC.  a and b are exposed and share the     *)
(* interface iA, which b declares with another definition.                 *)
(***************************************************************************)
EXTENDS WebService, TLC

CONSTANTS a, b, prefix1, root, leaf, iA, d1, d2, m1, w1

TwoHasPrefix == Names \X {prefix1}
TwoParent == [p \in Paths \ {root} |-> root]
TwoDefOf == [s \in Names |-> [i \in {iA} |-> IF s = b THEN d2 ELSE d1]]
TwoImplements == [s \in Names |-> [p \in Paths |-> IF p = root THEN {iA} ELSE {}]]
TwoDeclares == (d1 :> {m1} @@ d2 :> {})
SameDeclares == (d1 :> {m1} @@ d2 :> {m1})

Ask(op, s) == [op |-> op, service |-> s, interface |-> iA, method |-> m1]

BrowseRequests == {Ask("services", a), Ask("service", a), Ask("interface", a), Ask("html", a)}
CallRequests == {Ask("call", a), Ask("call", b), Ask("try", a)}

AllRequests == BrowseRequests \cup CallRequests
==============================================================================
