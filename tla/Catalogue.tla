------------------------------ MODULE Catalogue ------------------------------
(***************************************************************************)
(* What the registry of dbus2http promises its readers (the HTTP handlers, *)
(* the WebSocket callbacks), without saying how the bus is scanned.        *)
(*                                                                         *)
(* Readers take the registry's lock for one lookup at a time, so the       *)
(* promise is about what may change between two lookups: definitions and   *)
(* listings only ever appear; at most one service's listing is growing at  *)
(* a time; an object is listed only after its parent, and only when every  *)
(* interface it names can be looked up.                                    *)
(***************************************************************************)
CONSTANTS
    Names,       \* bus names
    Paths,       \* object paths
    Root,        \* the path "/"
    Parent,      \* the parent of every path but the root
    NoPath,      \* the empty path under which an unreadable object is listed
    Interfaces,  \* interface names
    None

VARIABLES
    described,   \* the interfaces that can be looked up
    catalogue,   \* the objects listed for each service
    open         \* the service whose listing is still growing, or None

vars == <<described, catalogue, open>>

Entry == [path: Paths \cup {NoPath}, interfaces: SUBSET Interfaces]

Listed(s) == {e.path : e \in catalogue[s]}

Init ==
    /\ described = {}
    /\ catalogue = [s \in Names |-> {}]
    /\ open = None

\* An interface becomes known, or is known again with another definition.
Describe(i) ==
    /\ described' = described \cup {i}
    /\ UNCHANGED <<catalogue, open>>

\* A service nobody has listed yet starts to be listed.
Open(s) ==
    /\ open = None
    /\ catalogue[s] = {}
    /\ open' = s
    /\ UNCHANGED <<described, catalogue>>

\* One more object of the open service; it may be the last.
Publish(s, e) ==
    /\ open = s
    /\ e.interfaces \subseteq described
    /\ \/ e = [path |-> NoPath, interfaces |-> {}]
       \/ e.path = Root /\ Listed(s) = {}
       \/ e.path \in Paths \ ({Root} \cup Listed(s)) /\ Parent[e.path] \in Listed(s)
    /\ catalogue' = [catalogue EXCEPT ![s] = @ \cup {e}]
    /\ open' \in {s, None}
    /\ UNCHANGED described

Next ==
    \/ \E i \in Interfaces : Describe(i)
    \/ \E s \in Names : Open(s)
    \/ \E s \in Names, e \in Entry : Publish(s, e)

Spec == Init /\ [][Next]_vars
==============================================================================
