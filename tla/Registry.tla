------------------------------- MODULE Registry -------------------------------
(***************************************************************************)
(* The registry of dbus2http (InterfaceContext) and the thread that fills  *)
(* it: Dbus2Http::update() every 30 seconds, DbusEnumerator's recursive    *)
(* introspection, DbusSerialization's parse of one node.                   *)
(*                                                                         *)
(* One action is the code between two points where another thread can see  *)
(* the difference: InterfaceContext locks its mutex for one call only, and *)
(* an introspection is a blocking call to another process.                 *)
(*                                                                         *)
(* The bus is external: services come, go and change their object tree at  *)
(* any moment, and an introspection may fail at any moment.                *)
(***************************************************************************)
EXTENDS Naturals, Sequences, FiniteSets, Functions

CONSTANTS
    Names,             \* names that may appear on the bus
    UniqueNames,       \* those that start with ":1"
    Prefixes,          \* strings a prefix may be
    service_prefixes,  \* the prefixes given to the program
    HasPrefix,         \* the pairs <<name, prefix>> where name starts with prefix
    Paths, Root, Parent,
    NoPath,            \* the empty path of a default-constructed ObjectPath
    Interfaces,        \* interface names
    Defs,              \* what an introspection may say of an interface
    DefOf,             \* DefOf[s][i]: what service s says of interface i
    Implements,        \* Implements[s][p]: the interfaces of the object p of s
    None

ASSUME NamesAssumption ==
    /\ UniqueNames \subseteq Names
    /\ service_prefixes \subseteq Prefixes
    /\ HasPrefix \subseteq Names \X Prefixes
    /\ None \notin Names

ASSUME PathsAssumption ==
    /\ Root \in Paths
    /\ Parent \in [Paths \ {Root} -> Paths]
    /\ NoPath \notin Paths
    /\ IsFiniteSet(Paths)

\* The paths form a tree: what holds the root and the children of all it holds
\* holds every path.
ASSUME TreeAssumption ==
    \A T \in SUBSET Paths :
        Root \in T /\ (\A c \in Paths \ {Root} : Parent[c] \in T => c \in T) => T = Paths

ASSUME InterfacesAssumption ==
    /\ DefOf \in [Names -> [Interfaces -> Defs]]
    /\ Implements \in [Names -> [Paths -> SUBSET Interfaces]]
    /\ None \notin Defs

VARIABLES
    exports,        \* external: the object tree each name exports, {} if not on the bus
    interfaces,     \* InterfaceContext::interfaces, None where there is no entry
    object_paths,   \* InterfaceContext::object_paths, {} where there is no entry
    pc,             \* where the update thread is
    service_names,  \* names of this update() still to be looked at
    svc,            \* the service being scanned, or None
    pending,        \* paths the recursion still has to visit, next one first
    object,         \* the ObjectPath being built for Head(pending)
    unparsed,       \* interfaces of the introspected node not yet added
    stop_,
    moved           \* history: names whose tree changed since their scan began

bus == <<exports, moved>>
scan == <<svc, pending, object, unparsed>>
vars == <<exports, interfaces, object_paths, pc, service_names, svc, pending,
          object, unparsed, stop_, moved>>

-----------------------------------------------------------------------------

Children(p) == {c \in Paths \ {Root} : Parent[c] = p}

\* What a name may export: nothing, or a tree that holds the parent of each path.
Trees == {T \in SUBSET Paths :
            T # {} => Root \in T /\ \A p \in T \ {Root} : Parent[p] \in T}

Entry == [path: Paths \cup {NoPath}, interfaces: SUBSET Interfaces]

\* ObjectPath object_path; -- what parsing an empty document returns
EmptyObject == [path |-> NoPath, interfaces |-> {}, children |-> <<>>]

\* The orders in which a node may list a set of children.
Listings(S) == Bijection(1..Cardinality(S), S)

Recorded(s) == {e.path : e \in object_paths[s]}

contains_service(s) == object_paths[s] # {}
contains_interface(i) == interfaces[i] # None

match_prefix(s) ==
    service_prefixes # {} => \E prefix \in service_prefixes : <<s, prefix>> \in HasPrefix

-----------------------------------------------------------------------------

Init ==
    /\ exports \in [Names -> Trees]
    /\ interfaces = [i \in Interfaces |-> None]
    /\ object_paths = [s \in Names |-> {}]
    /\ pc = "check_stop"
    /\ service_names = {}
    /\ svc = None
    /\ pending = <<>>
    /\ object = EmptyObject
    /\ unparsed = {}
    /\ stop_ = FALSE
    /\ moved = {}

\* External: a service appears, leaves or rearranges its objects.
ServiceChanges(s, T) ==
    /\ T # exports[s]
    /\ exports' = [exports EXCEPT ![s] = T]
    /\ moved' = moved \cup {s}
    /\ UNCHANGED <<interfaces, object_paths, pc, service_names, scan, stop_>>

\* Dbus2Http::stop(), first line; the join is the wait for pc = "exited".
Stop ==
    /\ ~stop_
    /\ stop_' = TRUE
    /\ UNCHANGED <<bus, interfaces, object_paths, pc, service_names, scan>>

\* Mutant of WakeUp: the loop does not look at stop_.
WakeUpForever ==
    /\ pc = "check_stop"
    /\ pc' = "list_services"
    /\ UNCHANGED <<bus, interfaces, object_paths, service_names, scan, stop_>>

\* The loop of the update thread: the sleep ends, or stop_ ends it.
WakeUp ==
    /\ pc = "check_stop"
    /\ pc' = IF stop_ THEN "exited" ELSE "list_services"
    /\ UNCHANGED <<bus, interfaces, object_paths, service_names, scan, stop_>>

\* Mutant of ListServicesOk: unique names are not removed.
ListServicesKeepsUnique ==
    /\ pc = "list_services"
    /\ service_names' = {s \in Names : exports[s] # {}}
    /\ pc' = "next_service"
    /\ UNCHANGED <<bus, interfaces, object_paths, scan, stop_>>

\* list_services() answers with the well-known names now on the bus...
ListServicesOk ==
    /\ pc = "list_services"
    /\ service_names' = {s \in Names \ UniqueNames : exports[s] # {}}
    /\ pc' = "next_service"
    /\ UNCHANGED <<bus, interfaces, object_paths, scan, stop_>>

\* ... or swallows an error and returns no name.
ListServicesFails ==
    /\ pc = "list_services"
    /\ service_names' = {}
    /\ pc' = "next_service"
    /\ UNCHANGED <<bus, interfaces, object_paths, scan, stop_>>

\* update(): the two "continue".
SkipService(s) ==
    /\ pc = "next_service"
    /\ ~match_prefix(s) \/ contains_service(s)
    /\ service_names' = service_names \ {s}
    /\ UNCHANGED <<bus, interfaces, object_paths, pc, scan, stop_>>

\* Mutant of StartScan: a service that is listed is scanned again.
StartScanAgain(s) ==
    /\ pc = "next_service"
    /\ match_prefix(s)
    /\ service_names' = service_names \ {s}
    /\ svc' = s
    /\ pending' = <<Root>>
    /\ pc' = "introspect"
    /\ moved' = moved \ {s}
    /\ UNCHANGED <<exports, interfaces, object_paths, object, unparsed, stop_>>

\* Mutant of StartScan: the prefixes are not looked at.
StartScanAnyName(s) ==
    /\ pc = "next_service"
    /\ ~contains_service(s)
    /\ service_names' = service_names \ {s}
    /\ svc' = s
    /\ pending' = <<Root>>
    /\ pc' = "introspect"
    /\ moved' = moved \ {s}
    /\ UNCHANGED <<exports, interfaces, object_paths, object, unparsed, stop_>>

\* update(): the recursion starts at "/".
StartScan(s) ==
    /\ pc = "next_service"
    /\ match_prefix(s)
    /\ ~contains_service(s)
    /\ service_names' = service_names \ {s}
    /\ svc' = s
    /\ pending' = <<Root>>
    /\ pc' = "introspect"
    /\ moved' = moved \ {s}
    /\ UNCHANGED <<exports, interfaces, object_paths, object, unparsed, stop_>>

\* Mutant of EndUpdate: services that left the bus are forgotten.
EndUpdateForgets ==
    /\ pc = "next_service"
    /\ service_names = {}
    /\ object_paths' = [s \in Names |-> IF exports[s] = {} THEN {} ELSE object_paths[s]]
    /\ pc' = "check_stop"
    /\ UNCHANGED <<bus, interfaces, service_names, scan, stop_>>

\* The loop over the names is over.
EndUpdate ==
    /\ pc = "next_service"
    /\ service_names = {}
    /\ pc' = "check_stop"
    /\ UNCHANGED <<bus, interfaces, object_paths, service_names, scan, stop_>>

\* introspect_service() returns the node as the service exports it now.
IntrospectOk ==
    /\ pc = "introspect"
    /\ Head(pending) \in exports[svc]
    /\ \E children \in Listings(Children(Head(pending)) \cap exports[svc]) :
         object' = [path |-> Head(pending), interfaces |-> {}, children |-> children]
    /\ unparsed' = Implements[svc][Head(pending)]
    /\ pc' = "parse"
    /\ UNCHANGED <<bus, interfaces, object_paths, service_names, svc, pending, stop_>>

\* introspect_service() swallows any error and returns no XML: the parsed
\* document has no root and the object keeps its empty path.
IntrospectFails ==
    /\ pc = "introspect"
    /\ object' = EmptyObject
    /\ unparsed' = {}
    /\ pc' = "parse"
    /\ UNCHANGED <<bus, interfaces, object_paths, service_names, svc, pending, stop_>>

\* Mutant of ParseInterface: add_interface is not called.
ParseForgetsName(i) ==
    /\ pc = "parse"
    /\ i \in unparsed
    /\ interfaces' = [interfaces EXCEPT ![i] = DefOf[svc][i]]
    /\ unparsed' = unparsed \ {i}
    /\ UNCHANGED <<bus, object, object_paths, pc, service_names, svc, pending, stop_>>

\* One turn of parse_single_object_path's loop: add_interface, context.add(interface).
ParseInterface(i) ==
    /\ pc = "parse"
    /\ i \in unparsed
    /\ object' = [object EXCEPT !.interfaces = @ \cup {i}]
    /\ interfaces' = [interfaces EXCEPT ![i] = DefOf[svc][i]]
    /\ unparsed' = unparsed \ {i}
    /\ UNCHANGED <<bus, object_paths, pc, service_names, svc, pending, stop_>>

\* InterfaceContext::add(service_name, object_path): an entry of that path is replaced.
add(s, e) ==
    object_paths' = [object_paths EXCEPT ![s] = {x \in @ : x.path # e.path} \cup {e}]

\* Mutant of AddObject: the object is recorded before its interfaces are.
AddBeforeParse ==
    LET rest == object.children \o Tail(pending)
    IN  /\ pc = "parse"
        /\ add(svc, [path |-> object.path, interfaces |-> object.interfaces \cup unparsed])
        /\ pending' = rest
        /\ object' = EmptyObject
        /\ unparsed' = {}
        /\ pc' = IF rest = <<>> THEN "next_service" ELSE "introspect"
        /\ svc' = IF rest = <<>> THEN None ELSE svc
        /\ UNCHANGED <<bus, interfaces, service_names, stop_>>

\* Mutant of AddObject: the siblings are lost when the recursion returns.
AddForgetsSiblings ==
    LET rest == object.children
    IN  /\ pc = "parse"
        /\ unparsed = {}
        /\ add(svc, [path |-> object.path, interfaces |-> object.interfaces])
        /\ pending' = rest
        /\ object' = EmptyObject
        /\ pc' = IF rest = <<>> THEN "next_service" ELSE "introspect"
        /\ svc' = IF rest = <<>> THEN None ELSE svc
        /\ UNCHANGED <<bus, interfaces, service_names, unparsed, stop_>>

\* Mutant of AddObject: an object that could not be read is not recorded.
AddOnlyReadable ==
    LET rest == object.children \o Tail(pending)
    IN  /\ pc = "parse"
        /\ unparsed = {}
        /\ IF object.path = NoPath THEN UNCHANGED object_paths
           ELSE add(svc, [path |-> object.path, interfaces |-> object.interfaces])
        /\ pending' = rest
        /\ object' = EmptyObject
        /\ pc' = IF rest = <<>> THEN "next_service" ELSE "introspect"
        /\ svc' = IF rest = <<>> THEN None ELSE svc
        /\ UNCHANGED <<bus, interfaces, service_names, unparsed, stop_>>

\* context_.add(service_name, object), then into the children or back up.
AddObject ==
    LET rest == object.children \o Tail(pending)
    IN  /\ pc = "parse"
        /\ unparsed = {}
        /\ add(svc, [path |-> object.path, interfaces |-> object.interfaces])
        /\ pending' = rest
        /\ object' = EmptyObject
        /\ pc' = IF rest = <<>> THEN "next_service" ELSE "introspect"
        /\ svc' = IF rest = <<>> THEN None ELSE svc
        /\ UNCHANGED <<bus, interfaces, service_names, unparsed, stop_>>

Environment == \E s \in Names, T \in Trees : ServiceChanges(s, T)

UpdateThread ==
    \/ WakeUp
    \/ ListServicesOk
    \/ ListServicesFails
    \/ \E s \in service_names : SkipService(s) \/ StartScan(s)
    \/ EndUpdate
    \/ IntrospectOk
    \/ IntrospectFails
    \/ \E i \in Interfaces : ParseInterface(i)
    \/ AddObject

Next == Environment \/ Stop \/ UpdateThread

Spec == Init /\ [][Next]_vars

(***************************************************************************)
(* The thread is scheduled, and every call it blocks in returns: an sdbus  *)
(* call that gets no answer times out (that is IntrospectFails).           *)
(* ListNames is answered by the bus daemon itself and does not fail        *)
(* forever.  Nothing makes a service appear, leave or answer, and nothing  *)
(* makes the program stop.                                                 *)
(***************************************************************************)
Fairness == WF_vars(UpdateThread) /\ SF_vars(ListServicesOk)

FairSpec == Spec /\ Fairness

-----------------------------------------------------------------------------
(* Safety *)

Labels == {"check_stop", "list_services", "next_service", "introspect", "parse", "exited"}

\* Types of the registry, of the update thread's locals and of the bus.
TypeOK ==
    /\ exports \in [Names -> Trees]
    /\ interfaces \in [Interfaces -> Defs \cup {None}]
    /\ object_paths \in [Names -> SUBSET Entry]
    /\ pc \in Labels
    /\ service_names \subseteq Names \ UniqueNames
    /\ svc \in Names \cup {None}
    /\ pending \in Seq(Paths)
    /\ object \in [path: Paths \cup {NoPath}, interfaces: SUBSET Interfaces, children: Seq(Paths)]
    /\ unparsed \in SUBSET Interfaces
    /\ stop_ \in BOOLEAN
    /\ moved \in SUBSET Names

\* Whatever a reader finds in a listing it can look up: every interface named
\* by a recorded object has a definition.  The parse adds the definitions under
\* one lock each and the object under a later one, so the order is what counts.
Described ==
    \A s \in Names : \A e \in object_paths[s] : \A i \in e.interfaces : contains_interface(i)

\* Only well-known names with one of the program's prefixes are ever exposed.
OnlyMatching ==
    \A s \in Names : contains_service(s) => match_prefix(s) /\ s \notin UniqueNames

\* A scan during which nothing failed and nothing moved recorded the tree: each
\* object of the service, once, with its own interfaces, and nothing else.
CompleteScan ==
    \A s \in Names :
        contains_service(s) /\ svc # s /\ s \notin moved /\ NoPath \notin Recorded(s)
        => object_paths[s] = {[path |-> p, interfaces |-> Implements[s][p]] : p \in exports[s]}

\* The registry keeps the promise of module Catalogue: nothing is forgotten, one
\* listing grows at a time, parents first, never a dangling interface.
Promise == INSTANCE Catalogue WITH
    described <- {i \in Interfaces : contains_interface(i)},
    catalogue <- object_paths,
    open <- svc

CataloguePromise == Promise!Spec

-----------------------------------------------------------------------------
(* Liveness *)

\* Dbus2Http::stop() joins the update thread: the thread ends, even when stop_
\* is set in the middle of a scan that nothing interrupts.
StopJoins == stop_ ~> pc = "exited"

\* A matching service that is on the bus gets an entry, whether its
\* introspection works or not, unless it leaves or the program stops first.
EveryServiceListed ==
    \A s \in Names \ UniqueNames :
        match_prefix(s) /\ exports[s] # {} ~>
            contains_service(s) \/ exports[s] = {} \/ stop_

-----------------------------------------------------------------------------
(* What the documentation says and the code does not do *)

\* README.md: "providing a live overview of the available DBus ecosystem": the
\* listing of a service that keeps its tree catches up with that tree.
LiveOverview ==
    \A s \in Names : \A T \in Trees \ {{}} :
        <>[](exports[s] = T /\ match_prefix(s) /\ ~stop_) => <>(T \subseteq Recorded(s))
==============================================================================
