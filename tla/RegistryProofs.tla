---------------------------- MODULE RegistryProofs ----------------------------
(***************************************************************************)
(* Proofs about Registry, for every set of names, paths and interfaces.    *)
(***************************************************************************)
EXTENDS Registry, FiniteSetTheorems, TLAPS

Scanning == pc \in {"introspect", "parse"}

\* The locals of the recursion agree with where the thread is.
Shape ==
    /\ Scanning <=> svc # None
    /\ Scanning <=> pending # <<>>
    /\ pc # "parse" => object = EmptyObject /\ unparsed = {}
    /\ object.path = NoPath => object = EmptyObject /\ unparsed = {}
    /\ object.path # NoPath => object.path = Head(pending)
    /\ Scanning => match_prefix(svc) /\ svc \notin UniqueNames

\* The children of the node in hand are its children, each once.
Node ==
    /\ \A k \in 1..Len(object.children) : object.children[k] \in Children(object.path)
    /\ \A j, k \in 1..Len(object.children) : object.children[j] = object.children[k] => j = k

\* An object is recorded after its parent.
PrefixClosed ==
    \A s \in Names : \A p \in Paths \ {Root} :
        p \in Recorded(s) => Parent[p] \in Recorded(s)

\* What the recursion still has to visit is new, each path once, and hangs
\* below what it has recorded.
Frontier ==
    /\ \A k \in 1..Len(pending) :
         /\ pending[k] \notin Recorded(svc)
         /\ pending[k] = Root => object_paths[svc] = {}
         /\ pending[k] # Root => Parent[pending[k]] \in Recorded(svc)
    /\ \A j, k \in 1..Len(pending) : pending[j] = pending[k] => j = k

\* The node in hand names only interfaces already added.
InHand == \A i \in object.interfaces : contains_interface(i)

\* An object that could not be read has no interfaces.
Blank ==
    \A s \in Names : \A e \in object_paths[s] : e.path = NoPath => e.interfaces = {}

Tree == Node /\ PrefixClosed /\ Frontier

\* The node in hand is the one the service exports.
Faithful ==
    svc # None /\ svc \notin moved /\ object.path # NoPath =>
        /\ object.path \in exports[svc]
        /\ object.interfaces \cup unparsed = Implements[svc][object.path]
        /\ \A c \in Children(object.path) \cap exports[svc] :
             \E k \in 1..Len(object.children) : object.children[k] = c

\* What is recorded of a service that did not move is what it exports.
Sound ==
    \A s \in Names \ moved : \A e \in object_paths[s] :
        e.path # NoPath => e.path \in exports[s] /\ e.interfaces = Implements[s][e.path]

Pending(s, p) == svc = s /\ \E k \in 1..Len(pending) : pending[k] = p

\* Nothing is lost: the root and every child of a recorded object is recorded
\* or still to be visited.
NothingLost ==
    \A s \in Names \ moved :
        (contains_service(s) \/ svc = s) /\ NoPath \notin Recorded(s) =>
            /\ Root \in Recorded(s) \/ Pending(s, Root)
            /\ \A p \in Recorded(s) : \A c \in Children(p) \cap exports[s] :
                 c \in Recorded(s) \/ Pending(s, c)

Complete == Faithful /\ Sound /\ NothingLost
-----------------------------------------------------------------------------
(* Sequences *)

\* A listing of the children of a node is a sequence that holds each once.
LEMMA ListingsAreSequences ==
    ASSUME NEW S \in SUBSET Paths, NEW q \in Listings(S)
    PROVE  /\ q \in Seq(Paths)
           /\ \A k \in 1..Len(q) : q[k] \in S
           /\ \A c \in S : \E k \in 1..Len(q) : q[k] = c
           /\ \A j, k \in 1..Len(q) : q[j] = q[k] => j = k
<1>1. Cardinality(S) \in Nat
  BY PathsAssumption, FS_Subset, FS_CardinalityType
<1>2. /\ q \in [1..Cardinality(S) -> S]
      /\ \A c \in S : \E k \in 1..Cardinality(S) : q[k] = c
      /\ \A j, k \in 1..Cardinality(S) : q[j] = q[k] => j = k
  BY DEF Listings, Bijection, Injection, Surjection, IsInjective
<1>3. q \in Seq(Paths) /\ Len(q) = Cardinality(S)
  BY <1>1, <1>2
<1> QED
  BY <1>2, <1>3

\* What the recursion visits next: the children of the node, then the rest.
LEMMA RestOfScan ==
    ASSUME NEW S, NEW q \in Seq(S), NEW r \in Seq(S), r # <<>>,
           NEW rest, rest = q \o Tail(r)
    PROVE  /\ rest \in Seq(S)
           /\ Len(rest) = Len(q) + Len(r) - 1
           /\ \A k \in 1..Len(q) : k \in 1..Len(rest) /\ rest[k] = q[k]
           /\ \A k \in 2..Len(r) : Len(q) + k - 1 \in 1..Len(rest) /\ rest[Len(q) + k - 1] = r[k]
           /\ \A k \in 1..Len(rest) :
                 \/ k <= Len(q) /\ rest[k] = q[k]
                 \/ k > Len(q) /\ k - Len(q) + 1 \in 2..Len(r) /\ rest[k] = r[k - Len(q) + 1]
<1>1. Tail(r) \in Seq(S) /\ Len(Tail(r)) = Len(r) - 1 /\ Len(r) \in Nat \ {0}
  OBVIOUS
<1>2. \A k \in 1..Len(r) - 1 : Tail(r)[k] = r[k + 1]
  BY <1>1
<1>3. Len(q) \in Nat
  OBVIOUS
<1>4. rest \in Seq(S) /\ Len(rest) = Len(q) + Len(r) - 1
  BY <1>1, <1>3
<1>5. \A k \in 1..Len(rest) : rest[k] = IF k <= Len(q) THEN q[k] ELSE Tail(r)[k - Len(q)]
  BY <1>1, <1>3, <1>4
<1>6. \A k \in 1..Len(q) : k \in 1..Len(rest) /\ rest[k] = q[k]
  BY <1>1, <1>3, <1>4, <1>5
<1>7. ASSUME NEW k \in 2..Len(r)
      PROVE  Len(q) + k - 1 \in 1..Len(rest) /\ rest[Len(q) + k - 1] = r[k]
  BY <1>1, <1>2, <1>3, <1>4, <1>5
<1>8. ASSUME NEW k \in 1..Len(rest)
      PROVE  \/ k <= Len(q) /\ rest[k] = q[k]
             \/ k > Len(q) /\ k - Len(q) + 1 \in 2..Len(r) /\ rest[k] = r[k - Len(q) + 1]
  BY <1>1, <1>2, <1>3, <1>4, <1>5
<1> QED
  BY <1>4, <1>6, <1>7, <1>8

\* It visits no path twice if the two parts share none.
LEMMA RestDistinct ==
    ASSUME NEW S, NEW q \in Seq(S), NEW r \in Seq(S), r # <<>>,
           NEW rest, rest = q \o Tail(r),
           \A m, n \in 1..Len(q) : q[m] = q[n] => m = n,
           \A m, n \in 1..Len(r) : r[m] = r[n] => m = n,
           \A m \in 1..Len(q), n \in 2..Len(r) : q[m] # r[n]
    PROVE  \A j, k \in 1..Len(rest) : rest[j] = rest[k] => j = k
<1> SUFFICES ASSUME NEW j \in 1..Len(rest), NEW k \in 1..Len(rest), rest[j] = rest[k]
             PROVE  j = k
  OBVIOUS
<1> Len(q) \in Nat /\ Len(r) \in Nat /\ rest \in Seq(S) /\ Len(rest) \in Nat
  BY RestOfScan
<1>1. \A n \in 1..Len(rest) :
        \/ n \in 1..Len(q) /\ rest[n] = q[n]
        \/ n > Len(q) /\ n - Len(q) + 1 \in 2..Len(r) /\ rest[n] = r[n - Len(q) + 1]
  BY RestOfScan
<1>2. CASE j \in 1..Len(q) /\ k \in 1..Len(q)
  BY <1>1, <1>2
<1>3. CASE j > Len(q) /\ k > Len(q)
  <2>1. j - Len(q) + 1 \in 1..Len(r) /\ k - Len(q) + 1 \in 1..Len(r)
        /\ r[j - Len(q) + 1] = r[k - Len(q) + 1]
    BY <1>1, <1>3
  <2>2. j - Len(q) + 1 = k - Len(q) + 1
    BY <2>1
  <2> QED
    BY <2>2
<1> QED
  BY <1>1, <1>2, <1>3

-----------------------------------------------------------------------------
(* Type correctness *)

\* A scan has a service and a path to visit: what Head and the maps are
\* applied to is in their domain.
LEMMA TypingInitially == Init => TypeOK /\ Shape
<1> SUFFICES ASSUME Init PROVE TypeOK /\ Shape
  OBVIOUS
<1>1. EmptyObject \in [path: Paths \cup {NoPath}, interfaces: SUBSET Interfaces, children: Seq(Paths)]
  BY DEF EmptyObject
<1>2. pending \in Seq(Paths) /\ object_paths \in [Names -> SUBSET Entry]
  BY DEF Init
<1>3. TypeOK
  BY <1>1, <1>2 DEF Init, TypeOK, Labels
<1>4. Shape
  BY DEF Init, Shape, Scanning, EmptyObject
<1> QED
  BY <1>3, <1>4

LEMMA TypingPreserved == TypeOK /\ Shape /\ [Next]_vars => TypeOK' /\ Shape'
<1> SUFFICES ASSUME TypeOK, Shape, [Next]_vars PROVE TypeOK' /\ Shape'
  OBVIOUS
<1> USE DEF TypeOK, Shape, Scanning, match_prefix
<1>0. EmptyObject \in [path: Paths \cup {NoPath}, interfaces: SUBSET Interfaces, children: Seq(Paths)]
  BY DEF EmptyObject
<1>1. CASE Environment
  BY <1>1, ZenonT(60) DEF Environment, ServiceChanges, scan
<1>2. CASE Stop
  BY <1>2 DEF Stop, bus, scan
<1>3. CASE WakeUp
  BY <1>3 DEF WakeUp, bus, scan, Labels
<1>4. CASE ListServicesOk \/ ListServicesFails
  BY <1>4 DEF ListServicesOk, ListServicesFails, bus, scan, Labels
<1>5. CASE \E s \in service_names : SkipService(s)
  BY <1>5 DEF SkipService, bus, scan
<1>6. CASE \E s \in service_names : StartScan(s)
  <2> PICK s \in service_names : StartScan(s)
    BY <1>6
  <2>1. pending' \in Seq(Paths) /\ pending' # <<>>
    BY PathsAssumption DEF StartScan
  <2>2. /\ svc' \in Names \ UniqueNames /\ svc' # None /\ match_prefix(svc')
        /\ pc' = "introspect"
    BY NamesAssumption DEF StartScan
  <2>3. object = EmptyObject /\ unparsed = {}
    BY DEF StartScan
  <2>4. TypeOK'
    BY <2>1, <2>2 DEF StartScan, Labels
  <2> QED
    BY <2>1, <2>2, <2>3, <2>4 DEF StartScan, EmptyObject
<1>7. CASE EndUpdate
  BY <1>7 DEF EndUpdate, bus, scan, Labels
<1>8. CASE IntrospectOk
  <2>0. svc \in Names /\ pending # <<>> /\ Head(pending) \in Paths
    BY <1>8 DEF IntrospectOk
  <2>1. PICK children \in Listings(Children(Head(pending)) \cap exports[svc]) :
           object' = [path |-> Head(pending), interfaces |-> {}, children |-> children]
    BY <1>8 DEF IntrospectOk
  <2>2. children \in Seq(Paths)
    BY <2>1, ListingsAreSequences DEF Children
  <2>3. /\ object' \in [path: Paths \cup {NoPath}, interfaces: SUBSET Interfaces, children: Seq(Paths)]
        /\ object'.path = Head(pending)
    BY <2>0, <2>1, <2>2
  <2>4. Implements[svc][Head(pending)] \in SUBSET Interfaces
    BY <2>0, InterfacesAssumption
  <2> QED
    BY <1>8, <2>0, <2>3, <2>4, PathsAssumption DEF IntrospectOk, bus, Labels
<1>9. CASE IntrospectFails
  BY <1>0, <1>9 DEF IntrospectFails, bus, Labels, EmptyObject
<1>10. CASE \E i \in Interfaces : ParseInterface(i)
  <2> PICK i \in Interfaces : ParseInterface(i)
    BY <1>10
  <2>1. svc \in Names /\ DefOf[svc][i] \in Defs
    BY InterfacesAssumption DEF ParseInterface
  <2>2. object.path # NoPath
    BY DEF ParseInterface
  <2>3. /\ object' \in [path: Paths \cup {NoPath}, interfaces: SUBSET Interfaces, children: Seq(Paths)]
        /\ object'.path = object.path
    BY DEF ParseInterface
  <2> QED
    BY <2>1, <2>2, <2>3 DEF ParseInterface, bus
<1>11. CASE AddObject
  <2>1. svc \in Names /\ pending # <<>>
    BY <1>11 DEF AddObject
  <2>2. object.children \o Tail(pending) \in Seq(Paths)
    BY <2>1
  <2>3. [path |-> object.path, interfaces |-> object.interfaces] \in Entry
    BY DEF Entry
  <2>4. object_paths' \in [Names -> SUBSET Entry]
    BY <1>11, <2>1, <2>3 DEF AddObject, add
  <2> QED
    BY <1>0, <1>11, <2>1, <2>2, <2>4 DEF AddObject, bus, Labels, EmptyObject
<1>12. CASE UNCHANGED vars
  BY <1>12 DEF vars
<1> QED
  BY <1>1, <1>2, <1>3, <1>4, <1>5, <1>6, <1>7, <1>8, <1>9, <1>10, <1>11, <1>12
     DEF Next, UpdateThread

\* The types hold in every reachable state.
THEOREM TypeCorrect == Spec => []TypeOK
<1>1. Spec => [](TypeOK /\ Shape)
  BY TypingInitially, TypingPreserved, PTL DEF Spec
<1> QED
  BY <1>1, PTL

-----------------------------------------------------------------------------
(* What a listing names can be looked up *)

\* No step removes a definition.
LEMMA DefinitionsStay ==
    ASSUME TypeOK, Shape, [Next]_vars, NEW i \in Interfaces, contains_interface(i)
    PROVE  contains_interface(i)'
<1>1. CASE \E k \in Interfaces : ParseInterface(k)
  BY <1>1, InterfacesAssumption DEF ParseInterface, contains_interface, TypeOK, Shape, Scanning
<1>2. CASE UNCHANGED interfaces
  BY <1>2 DEF contains_interface
<1> QED
  BY <1>1, <1>2 DEF Next, Environment, ServiceChanges, Stop, UpdateThread, WakeUp, ListServicesOk,
     ListServicesFails, SkipService, StartScan, EndUpdate, IntrospectOk, IntrospectFails, AddObject, vars

LEMMA DescribedInitially == Init => Described /\ InHand
  BY DEF Init, Described, InHand, EmptyObject

LEMMA DescribedPreserved ==
    ASSUME TypeOK, Shape, Described, InHand, [Next]_vars
    PROVE  Described' /\ InHand'
<1>1. \A i \in Interfaces : contains_interface(i) => contains_interface(i)'
  BY DefinitionsStay
<1>2. \A s \in Names : \A e \in object_paths[s] : e.interfaces \subseteq Interfaces
  BY DEF TypeOK, Entry
<1>3. object.interfaces \subseteq Interfaces
  BY DEF TypeOK
<1>4. CASE \E i \in Interfaces : ParseInterface(i)
  <2> PICK i \in Interfaces : ParseInterface(i)
    BY <1>4
  <2>1. svc \in Names /\ DefOf[svc][i] \in Defs
    BY InterfacesAssumption DEF ParseInterface, TypeOK, Shape, Scanning
  <2>2. contains_interface(i)'
    BY <2>1, InterfacesAssumption DEF ParseInterface, contains_interface, TypeOK
  <2>3. object'.interfaces = object.interfaces \cup {i}
    BY DEF ParseInterface, TypeOK
  <2>4. InHand'
    BY <1>1, <1>3, <2>2, <2>3 DEF InHand, contains_interface
  <2>5. Described'
    BY <1>1, <1>2 DEF ParseInterface, Described, contains_interface
  <2> QED
    BY <2>4, <2>5
<1>5. CASE AddObject
  <2>1. svc \in Names /\ UNCHANGED interfaces /\ object' = EmptyObject
    BY <1>5 DEF AddObject, TypeOK, Shape, Scanning
  <2>2. InHand'
    BY <2>1 DEF InHand, EmptyObject
  <2>3. \A s \in Names : \A e \in object_paths'[s] :
          \/ e \in object_paths[s]
          \/ e.interfaces = object.interfaces
    BY <1>5, <2>1 DEF AddObject, add, TypeOK
  <2>4. Described'
    BY <2>1, <2>3 DEF Described, InHand, contains_interface
  <2> QED
    BY <2>2, <2>4
<1>6. CASE IntrospectOk \/ IntrospectFails
  <2>1. object'.interfaces = {} /\ UNCHANGED <<interfaces, object_paths>>
    BY <1>6 DEF IntrospectOk, IntrospectFails, EmptyObject
  <2> QED
    BY <2>1 DEF InHand, Described, contains_interface
<1>7. CASE UNCHANGED <<interfaces, object_paths, object>>
  BY <1>7 DEF InHand, Described, contains_interface
<1> QED
  BY <1>4, <1>5, <1>6, <1>7 DEF Next, Environment, ServiceChanges, Stop, UpdateThread, WakeUp,
     ListServicesOk, ListServicesFails, SkipService, StartScan, EndUpdate, scan, vars

\* A scan adds an object's interfaces before the object: no reader of a
\* listing meets an interface that get_interfaces() does not know.
THEOREM DescribedAlways == Spec => []Described
  BY DescribedInitially, DescribedPreserved, TypingInitially, TypingPreserved, PTL DEF Spec

\* Nothing outside the program's prefixes is ever exposed.
THEOREM OnlyMatchingAlways == Spec => []OnlyMatching
<1>1. Init => OnlyMatching
  BY DEF Init, OnlyMatching, contains_service
<1>2. ASSUME TypeOK, Shape, OnlyMatching, [Next]_vars
      PROVE  OnlyMatching'
  <2>1. CASE AddObject
    <3>1. svc \in Names \ UniqueNames /\ match_prefix(svc)
      BY <1>2, <2>1 DEF AddObject, TypeOK, Shape, Scanning
    <3>2. \A s \in Names \ {svc} : object_paths'[s] = object_paths[s]
      BY <1>2, <2>1 DEF AddObject, add, TypeOK
    <3> QED
      BY <1>2, <3>1, <3>2 DEF OnlyMatching, contains_service, match_prefix
  <2>2. CASE UNCHANGED object_paths
    BY <1>2, <2>2 DEF OnlyMatching, contains_service, match_prefix
  <2> QED
    BY <1>2, <2>1, <2>2 DEF Next, Environment, ServiceChanges, Stop, UpdateThread, WakeUp,
       ListServicesOk, ListServicesFails, SkipService, StartScan, EndUpdate, IntrospectOk,
       IntrospectFails, ParseInterface, vars
<1> QED
  BY <1>1, <1>2, TypingInitially, TypingPreserved, PTL DEF Spec

-----------------------------------------------------------------------------
(* The recursion visits a tree *)

\* No path is its own parent.
LEMMA NotOwnParent == \A p \in Paths \ {Root} : Parent[p] # p
<1> SUFFICES ASSUME NEW p \in Paths \ {Root}, Parent[p] = p PROVE FALSE
  OBVIOUS
<1>1. Root \in Paths \ {p} /\ Paths \ {p} \in SUBSET Paths
  BY PathsAssumption
<1>2. \A c \in Paths \ {Root} : Parent[c] \in Paths \ {p} => c \in Paths \ {p}
  OBVIOUS
<1>3. Paths \ {p} = Paths
  BY <1>1, <1>2, TreeAssumption
<1> QED
  BY <1>3

LEMMA TreeInitially == Init => Tree
<1> SUFFICES ASSUME Init PROVE Tree
  OBVIOUS
<1>1. Node
  BY DEF Init, Node, EmptyObject
<1>2. PrefixClosed
  BY DEF Init, PrefixClosed, Recorded
<1>3. Frontier
  BY DEF Init, Frontier
<1> QED
  BY <1>1, <1>2, <1>3 DEF Tree

\* What AddObject does to the recorded paths.
LEMMA AddRecords ==
    ASSUME TypeOK, Shape, AddObject, NEW s \in Names
    PROVE  /\ svc \in Names
           /\ s # svc => object_paths'[s] = object_paths[s] /\ Recorded(s)' = Recorded(s)
           /\ s = svc =>
                /\ Recorded(s)' = Recorded(s) \cup {object.path}
                /\ \A e \in object_paths'[s] :
                      \/ e \in object_paths[s]
                      \/ e = [path |-> object.path, interfaces |-> object.interfaces]
                /\ object_paths'[s] # {}
<1> DEFINE n == [path |-> object.path, interfaces |-> object.interfaces]
<1>1. svc \in Names
  BY DEF AddObject, TypeOK, Shape, Scanning
<1>2. object_paths' = [object_paths EXCEPT ![svc] = {x \in @ : x.path # n.path} \cup {n}]
  BY DEF AddObject, add
<1>3. s = svc => object_paths'[s] = {x \in object_paths[s] : x.path # n.path} \cup {n}
  BY <1>1, <1>2 DEF TypeOK
<1>4. s # svc => object_paths'[s] = object_paths[s]
  BY <1>1, <1>2 DEF TypeOK
<1>5. n.path = object.path
  OBVIOUS
<1> HIDE DEF n
<1>6. ASSUME s = svc PROVE Recorded(s)' = Recorded(s) \cup {object.path}
  BY <1>3, <1>5, <1>6 DEF Recorded
<1> QED
  BY <1>1, <1>3, <1>4, <1>6 DEF Recorded, n

\* Recording the node in hand and going on with its children keeps the tree.
LEMMA TreeAfterAdd ==
    ASSUME TypeOK, Shape, Tree, AddObject
    PROVE  Tree'
<1> DEFINE q == object.children
           rest == q \o Tail(pending)
           h == Head(pending)
<1>1. /\ svc \in Names /\ pending # <<>> /\ pending \in Seq(Paths) /\ q \in Seq(Paths)
      /\ Len(pending) \in Nat \ {0} /\ Len(q) \in Nat /\ h = pending[1] /\ h \in Paths
  BY DEF AddObject, TypeOK, Shape, Scanning
<1>2. /\ rest \in Seq(Paths) /\ Len(rest) \in Nat
      /\ \A k \in 1..Len(rest) :
            \/ k <= Len(q) /\ rest[k] = q[k]
            \/ k > Len(q) /\ k - Len(q) + 1 \in 2..Len(pending) /\ rest[k] = pending[k - Len(q) + 1]
  <2> HIDE DEF q
  <2>1. rest = q \o Tail(pending)
    OBVIOUS
  <2> HIDE DEF rest
  <2>2. rest \in Seq(Paths)
    BY <1>1, <2>1, RestOfScan
  <2>3. \A k \in 1..Len(rest) :
            \/ k <= Len(q) /\ rest[k] = q[k]
            \/ k > Len(q) /\ k - Len(q) + 1 \in 2..Len(pending) /\ rest[k] = pending[k - Len(q) + 1]
    BY <1>1, <2>1, RestOfScan
  <2> QED
    BY <2>2, <2>3
<1>3. pending' = rest /\ object' = EmptyObject /\ (rest # <<>> => svc' = svc)
  BY DEF AddObject
<1> HIDE DEF rest
<1>4. /\ \A s \in Names \ {svc} : object_paths'[s] = object_paths[s] /\ Recorded(s)' = Recorded(s)
      /\ \A s \in {svc} : Recorded(s)' = Recorded(s) \cup {object.path} /\ object_paths'[s] # {}
  BY <1>1, AddRecords
<1>5. object.path = NoPath \/ object.path = h
  BY DEF Shape
<1>6. Node'
  BY <1>3 DEF Node, EmptyObject
<1>7. h # Root => Parent[h] \in Recorded(svc)
  BY <1>1 DEF Tree, Frontier
<1>8. PrefixClosed'
  <2> SUFFICES ASSUME NEW s \in Names, NEW p \in Paths \ {Root}, p \in Recorded(s)'
               PROVE  Parent[p] \in Recorded(s)'
    BY DEF PrefixClosed
  <2>1. CASE s # svc
    BY <1>4, <2>1 DEF Tree, PrefixClosed
  <2>2. CASE s = svc /\ p \in Recorded(s)
    BY <1>4, <2>2 DEF Tree, PrefixClosed
  <2>3. CASE s = svc /\ p \notin Recorded(s)
    <3>1. p = h
      BY <1>4, <1>5, <2>3, PathsAssumption
    <3> QED
      BY <1>4, <1>7, <2>3, <3>1
  <2> QED
    BY <2>1, <2>2, <2>3
<1>9. Frontier'
  <2>1. CASE rest = <<>>
    BY <1>3, <2>1 DEF Frontier
  <2>2. CASE rest # <<>>
    <3> DEFINE Old == Recorded(svc)
               New == Old \cup {object.path}
    <3>0. svc' = svc /\ Recorded(svc)' = New
      BY <1>1, <1>3, <1>4, <2>2 DEF Recorded
    <3>1. \A k \in 2..Len(pending) :
             /\ pending[k] \in Paths \ (Old \cup {h, Root})
             /\ Parent[pending[k]] \in Old
      <4> SUFFICES ASSUME NEW k \in 2..Len(pending)
                   PROVE  /\ pending[k] \in Paths \ (Old \cup {h, Root})
                          /\ Parent[pending[k]] \in Old
        OBVIOUS
      <4>1. k \in 1..Len(pending) /\ 1 \in 1..Len(pending) /\ k # 1 /\ pending[k] \in Paths
        BY <1>1
      <4>2. pending[k] # h /\ pending[k] \notin Old
        BY <1>1, <4>1 DEF Tree, Frontier
      <4>3. pending[k] # Root
        <5>1. pending[k] = Root => h # Root /\ Old = {}
          BY <4>1, <4>2 DEF Tree, Frontier, Recorded
        <5> QED
          BY <1>7, <5>1
      <4> QED
        BY <4>1, <4>2, <4>3 DEF Tree, Frontier
    <3>2. \A k \in 1..Len(q) :
             /\ object.path = h
             /\ q[k] \in Paths \ {Root} /\ Parent[q[k]] = h
             /\ q[k] \notin New
      <4> SUFFICES ASSUME NEW k \in 1..Len(q)
                   PROVE  /\ object.path = h
                          /\ q[k] \in Paths \ {Root} /\ Parent[q[k]] = h
                          /\ q[k] \notin New
        OBVIOUS
      <4>1. object.path = h
        <5>1. object.path = NoPath => q = <<>>
          BY DEF Shape, EmptyObject
        <5> QED
          BY <1>5, <5>1
      <4>2. q[k] \in Paths \ {Root} /\ Parent[q[k]] = h
        BY <4>1 DEF Tree, Node, Children
      <4>3. q[k] # h
        BY <4>2, NotOwnParent
      <4>4. h \notin Old
        BY <1>1 DEF Tree, Frontier
      <4>5. q[k] \notin Old
        BY <1>1, <4>2, <4>4 DEF Tree, PrefixClosed
      <4> QED
        BY <4>1, <4>2, <4>3, <4>5
    <3>3. \A k \in 1..Len(rest) :
             /\ rest[k] \in Paths \ {Root}
             /\ rest[k] \notin New
             /\ Parent[rest[k]] \in New
      <4> SUFFICES ASSUME NEW k \in 1..Len(rest)
                   PROVE  /\ rest[k] \in Paths \ {Root}
                          /\ rest[k] \notin New
                          /\ Parent[rest[k]] \in New
        OBVIOUS
      <4>1. CASE k <= Len(q) /\ rest[k] = q[k]
        <5>1. k \in 1..Len(q)
          BY <1>1, <1>2, <4>1
        <5> QED
          BY <3>2, <4>1, <5>1
      <4>2. CASE k > Len(q) /\ k - Len(q) + 1 \in 2..Len(pending) /\ rest[k] = pending[k - Len(q) + 1]
        BY <1>5, <3>1, <4>2, PathsAssumption
      <4> QED
        BY <1>2, <4>1, <4>2
    <3>4. \A j, k \in 1..Len(rest) : rest[j] = rest[k] => j = k
      <4>1. \A m, n \in 1..Len(q) : q[m] = q[n] => m = n
        BY DEF Tree, Node
      <4>2. \A m, n \in 1..Len(pending) : pending[m] = pending[n] => m = n
        BY DEF Tree, Frontier
      <4>3. \A m \in 1..Len(q), n \in 2..Len(pending) : q[m] # pending[n]
        <5>1. h \notin Old
          BY <1>1 DEF Tree, Frontier
        <5> QED
          BY <3>1, <3>2, <5>1
      <4>4. rest = q \o Tail(pending)
        BY DEF rest
      <4> HIDE DEF q
      <4> QED
        BY <1>1, <4>1, <4>2, <4>3, <4>4, RestDistinct
    <3> QED
      BY <1>3, <3>0, <3>3, <3>4 DEF Frontier
  <2> QED
    BY <2>1, <2>2
<1> QED
  BY <1>6, <1>8, <1>9 DEF Tree

LEMMA TreePreserved ==
    ASSUME TypeOK, Shape, Tree, [Next]_vars
    PROVE  Tree'
<1>1. CASE \E s \in service_names : StartScan(s)
  <2> PICK s \in service_names : StartScan(s)
    BY <1>1
  <2>1. pending' = <<Root>> /\ svc' = s /\ object_paths[s] = {} /\ UNCHANGED <<object, object_paths>>
    BY DEF StartScan, contains_service
  <2>2. Node' /\ PrefixClosed'
    BY <2>1 DEF Tree, Node, PrefixClosed, Recorded
  <2>3. Len(pending') = 1 /\ pending'[1] = Root
    BY <2>1
  <2>4. Recorded(svc)' = {}
    BY <2>1 DEF Recorded
  <2>5. Frontier'
    BY <2>1, <2>3, <2>4 DEF Frontier
  <2> QED
    BY <2>2, <2>5 DEF Tree
<1>2. CASE IntrospectOk
  <2>1. PICK children \in Listings(Children(Head(pending)) \cap exports[svc]) :
           object' = [path |-> Head(pending), interfaces |-> {}, children |-> children]
    BY <1>2 DEF IntrospectOk
  <2>2. Children(Head(pending)) \cap exports[svc] \in SUBSET Paths
    BY DEF Children
  <2>3. Node'
    BY <2>1, <2>2, ListingsAreSequences DEF Node, Children
  <2> QED
    BY <1>2, <2>3 DEF IntrospectOk, Tree, PrefixClosed, Frontier, Recorded
<1>3. CASE IntrospectFails
  BY <1>3 DEF IntrospectFails, EmptyObject, Tree, Node, PrefixClosed, Frontier, Recorded
<1>4. CASE \E i \in Interfaces : ParseInterface(i)
  <2>1. UNCHANGED <<svc, pending, object_paths>>
    BY <1>4 DEF ParseInterface
  <2>2. object'.path = object.path /\ object'.children = object.children
    BY <1>4 DEF ParseInterface, TypeOK
  <2>3. Node'
    BY <2>2 DEF Tree, Node
  <2> QED
    BY <2>1, <2>3 DEF Tree, PrefixClosed, Frontier, Recorded
<1>5. CASE AddObject
  BY <1>5, TreeAfterAdd
<1>6. CASE UNCHANGED <<svc, pending, object, object_paths>>
  BY <1>6 DEF Tree, Node, PrefixClosed, Frontier, Recorded
<1> QED
  BY <1>1, <1>2, <1>3, <1>4, <1>5, <1>6 DEF Next, Environment, ServiceChanges, Stop, UpdateThread, WakeUp,
     ListServicesOk, ListServicesFails, SkipService, EndUpdate, scan, vars

-----------------------------------------------------------------------------
(* A scan that nothing disturbs is complete *)

LEMMA CompleteInitially == Init => Complete
  BY NamesAssumption DEF Init, Complete, Faithful, Sound, NothingLost, contains_service

\* What was to be visited is visited or still to be visited.
LEMMA PendingAfterAdd ==
    ASSUME TypeOK, Shape, AddObject, NEW s \in Names, s = svc, NEW c
    PROVE  /\ (\E k \in 1..Len(pending) : pending[k] = c) => c = Head(pending) \/ Pending(s, c)'
           /\ (\E k \in 1..Len(object.children) : object.children[k] = c) => Pending(s, c)'
<1> DEFINE q == object.children
           rest == q \o Tail(pending)
<1>1. pending \in Seq(Paths) /\ pending # <<>> /\ q \in Seq(Paths)
  BY DEF AddObject, TypeOK, Shape, Scanning
<1>2. pending' = rest /\ (rest # <<>> => svc' = s)
  BY DEF AddObject
<1>3. rest = q \o Tail(pending)
  OBVIOUS
<1> HIDE DEF rest, q
<1>4. /\ rest \in Seq(Paths)
      /\ \A k \in 1..Len(q) : k \in 1..Len(rest) /\ rest[k] = q[k]
      /\ \A k \in 2..Len(pending) : Len(q) + k - 1 \in 1..Len(rest) /\ rest[Len(q) + k - 1] = pending[k]
  BY <1>1, <1>3, RestOfScan
<1>5. ASSUME NEW m \in 1..Len(rest), rest[m] = c PROVE Pending(s, c)'
  <2>1. rest # <<>>
    BY <1>4, <1>5
  <2> QED
    BY <1>2, <1>5, <2>1 DEF Pending
<1>6. ASSUME NEW k \in 1..Len(q), q[k] = c PROVE Pending(s, c)'
  BY <1>4, <1>5, <1>6
<1>7. ASSUME NEW k \in 1..Len(pending), pending[k] = c PROVE c = Head(pending) \/ Pending(s, c)'
  <2>1. CASE k = 1
    BY <1>1, <1>7, <2>1
  <2>2. CASE k # 1
    <3>1. k \in 2..Len(pending)
      BY <1>1, <2>2
    <3>2. Len(q) + k - 1 \in 1..Len(rest) /\ rest[Len(q) + k - 1] = c
      BY <1>4, <1>7, <3>1
    <3> QED
      BY <1>5, <3>2
  <2> QED
    BY <2>1, <2>2
<1> QED
  BY <1>6, <1>7 DEF q

LEMMA CompleteAfterAdd ==
    ASSUME TypeOK, Shape, Complete, AddObject
    PROVE  Complete'
<1> DEFINE n == [path |-> object.path, interfaces |-> object.interfaces]
<1>1. svc \in Names /\ pending # <<>> /\ unparsed = {} /\ svc' \in {svc, None}
      /\ object' = EmptyObject /\ UNCHANGED <<exports, moved>>
  BY DEF AddObject, TypeOK, Shape, Scanning, bus
<1>2. Faithful'
  BY <1>1 DEF Faithful, EmptyObject
<1>3. Sound'
  <2> SUFFICES ASSUME NEW s \in Names \ moved, NEW e \in object_paths'[s], e.path # NoPath
               PROVE  e.path \in exports[s] /\ e.interfaces = Implements[s][e.path]
    BY <1>1 DEF Sound
  <2>1. CASE e \in object_paths[s]
    BY <2>1 DEF Complete, Sound
  <2>2. CASE s = svc /\ e = n
    BY <1>1, <2>2, NamesAssumption DEF Complete, Faithful
  <2> QED
    BY <2>1, <2>2, AddRecords
<1>4. NothingLost'
  <2> SUFFICES ASSUME NEW s \in Names \ moved,
                      contains_service(s)' \/ svc' = s,
                      NoPath \notin Recorded(s)'
               PROVE  /\ Root \in Recorded(s)' \/ Pending(s, Root)'
                      /\ \A p \in Recorded(s)' : \A c \in Children(p) \cap exports[s] :
                           c \in Recorded(s)' \/ Pending(s, c)'
    BY <1>1 DEF NothingLost
  <2>1. CASE s # svc
    <3>1. object_paths'[s] = object_paths[s] /\ Recorded(s)' = Recorded(s) /\ svc' # s
      BY <1>1, <2>1, AddRecords, NamesAssumption
    <3> QED
      BY <2>1, <3>1 DEF Complete, NothingLost, Pending, contains_service
  <2>2. CASE s = svc
    <3>1. Recorded(s)' = Recorded(s) \cup {object.path}
      BY <2>2, AddRecords
    <3>2. object.path = Head(pending) /\ object.path # NoPath
      BY <3>1 DEF Shape
    <3>3. /\ Root \in Recorded(s) \/ Pending(s, Root)
          /\ \A p \in Recorded(s) : \A c \in Children(p) \cap exports[s] :
               c \in Recorded(s) \/ Pending(s, c)
      BY <2>2, <3>1 DEF Complete, NothingLost
    <3>4. ASSUME NEW c, Pending(s, c) PROVE c \in Recorded(s)' \/ Pending(s, c)'
      BY <2>2, <3>1, <3>2, <3>4, PendingAfterAdd DEF Pending
    <3>5. ASSUME NEW c \in Children(object.path) \cap exports[s] PROVE Pending(s, c)'
      <4>1. \E k \in 1..Len(object.children) : object.children[k] = c
        BY <1>1, <2>2, <3>2, NamesAssumption DEF Complete, Faithful
      <4> QED
        BY <2>2, <4>1, PendingAfterAdd
    <3> QED
      BY <3>1, <3>3, <3>4, <3>5
  <2> QED
    BY <2>1, <2>2
<1> QED
  BY <1>2, <1>3, <1>4 DEF Complete

LEMMA CompletePreserved ==
    ASSUME TypeOK, Shape, Complete, [Next]_vars
    PROVE  Complete'
<1> USE DEF Complete, Faithful, Sound, NothingLost, Pending, Recorded, contains_service
<1>1. CASE Environment
  <2> PICK s \in Names, T \in Trees : ServiceChanges(s, T)
    BY <1>1 DEF Environment
  <2>1. moved' = moved \cup {s} /\ \A x \in Names \ {s} : exports'[x] = exports[x]
    BY DEF ServiceChanges, TypeOK
  <2>2. UNCHANGED <<object_paths, svc, pending, object, unparsed>>
    BY DEF ServiceChanges, scan
  <2>3. Faithful'
    BY <2>1, <2>2 DEF TypeOK
  <2>4. Sound'
    BY <2>1, <2>2
  <2>5. NothingLost'
    BY <2>1, <2>2
  <2> QED
    BY <2>3, <2>4, <2>5
<1>2. CASE \E s \in service_names : StartScan(s)
  <2> PICK s \in service_names : StartScan(s)
    BY <1>2
  <2>1. /\ svc' = s /\ pending' = <<Root>> /\ moved' = moved \ {s} /\ object_paths[s] = {}
        /\ UNCHANGED <<exports, object_paths, object, unparsed>>
    BY DEF StartScan
  <2>2. object.path = NoPath /\ svc = None
    BY DEF StartScan, Shape, Scanning, EmptyObject
  <2>3. Faithful'
    BY <2>1, <2>2
  <2>4. Sound'
    BY <2>1
  <2>5. NothingLost'
    <3>1. Len(pending') = 1 /\ pending'[1] = Root
      BY <2>1
    <3> SUFFICES ASSUME NEW x \in Names \ moved', contains_service(x)' \/ svc' = x,
                        NoPath \notin Recorded(x)'
                 PROVE  /\ Root \in Recorded(x)' \/ Pending(x, Root)'
                        /\ \A p \in Recorded(x)' : \A c \in Children(p) \cap exports'[x] :
                             c \in Recorded(x)' \/ Pending(x, c)'
      OBVIOUS
    <3>2. CASE x = s
      BY <2>1, <3>1, <3>2
    <3>3. CASE x # s
      BY <2>1, <2>2, <3>3, NamesAssumption
    <3> QED
      BY <3>2, <3>3
  <2> QED
    BY <2>3, <2>4, <2>5
<1>3. CASE IntrospectOk
  <2>1. PICK children \in Listings(Children(Head(pending)) \cap exports[svc]) :
           object' = [path |-> Head(pending), interfaces |-> {}, children |-> children]
    BY <1>3 DEF IntrospectOk
  <2>2. Children(Head(pending)) \cap exports[svc] \in SUBSET Paths
    BY DEF Children
  <2>3. /\ unparsed' = Implements[svc][Head(pending)] /\ Head(pending) \in exports[svc]
        /\ UNCHANGED <<exports, moved, object_paths, svc, pending>>
    BY <1>3 DEF IntrospectOk, bus
  <2>4. Faithful'
    BY <2>1, <2>2, <2>3, ListingsAreSequences
  <2> QED
    BY <2>3, <2>4
<1>4. CASE IntrospectFails
  BY <1>4 DEF IntrospectFails, EmptyObject, bus
<1>5. CASE \E i \in Interfaces : ParseInterface(i)
  <2> PICK i \in Interfaces : ParseInterface(i)
    BY <1>5
  <2>1. UNCHANGED <<exports, moved, object_paths, svc, pending>>
    BY DEF ParseInterface, bus
  <2>2. /\ object'.path = object.path /\ object'.children = object.children
        /\ object'.interfaces = object.interfaces \cup {i} /\ unparsed' = unparsed \ {i} /\ i \in unparsed
    BY DEF ParseInterface, TypeOK
  <2>3. object'.interfaces \cup unparsed' = object.interfaces \cup unparsed
    BY <2>2
  <2>4. Faithful'
    BY <2>1, <2>2, <2>3
  <2> QED
    BY <2>1, <2>4
<1>6. CASE AddObject
  BY <1>6, CompleteAfterAdd
<1>7. CASE UNCHANGED <<exports, moved, object_paths, svc, pending, object, unparsed>>
  BY <1>7
<1> QED
  BY <1>1, <1>2, <1>3, <1>4, <1>5, <1>6, <1>7 DEF Next, Stop, UpdateThread, WakeUp,
     ListServicesOk, ListServicesFails, SkipService, EndUpdate, bus, scan, vars

\* The listing of a service whose scan met no failure and no change is its tree.
THEOREM CompleteScanAlways == Spec => []CompleteScan
<1>1. ASSUME TypeOK, Shape, Complete PROVE CompleteScan
  <2> SUFFICES ASSUME NEW s \in Names, contains_service(s), svc # s, s \notin moved,
                      NoPath \notin Recorded(s)
               PROVE  object_paths[s] = {[path |-> p, interfaces |-> Implements[s][p]] : p \in exports[s]}
    BY DEF CompleteScan
  <2> DEFINE T == Recorded(s) \cup (Paths \ exports[s])
  <2>1. Root \in Recorded(s)
    BY <1>1 DEF Complete, NothingLost, Pending
  <2>2. \A p \in Recorded(s) : \A c \in Children(p) \cap exports[s] : c \in Recorded(s)
    BY <1>1 DEF Complete, NothingLost, Pending
  <2>3. \A e \in object_paths[s] : e \in Entry /\ e.path \in exports[s] /\ e.interfaces = Implements[s][e.path]
    BY <1>1 DEF TypeOK, Complete, Sound, Recorded
  <2>4. Recorded(s) \subseteq exports[s] /\ exports[s] \subseteq Paths
    BY <1>1, <2>3 DEF Recorded, TypeOK, Trees
  <2>5. T = Paths
    <3>1. T \in SUBSET Paths /\ Root \in T
      BY <2>1, <2>4
    <3>2. ASSUME NEW c \in Paths \ {Root}, Parent[c] \in T, c \in exports[s] PROVE c \in T
      <4>1. Parent[c] \in exports[s]
        BY <1>1, <3>2 DEF TypeOK, Trees
      <4> QED
        BY <2>2, <3>2, <4>1 DEF Children
    <3> QED
      BY <3>1, <3>2, TreeAssumption
  <2>6. exports[s] \subseteq Recorded(s)
    BY <2>4, <2>5
  <2>7. \A e \in object_paths[s] : e = [path |-> e.path, interfaces |-> Implements[s][e.path]]
    BY <2>3 DEF Entry
  <2>8. ASSUME NEW p \in exports[s]
        PROVE  [path |-> p, interfaces |-> Implements[s][p]] \in object_paths[s]
    <3>1. PICK e \in object_paths[s] : e.path = p
      BY <2>6 DEF Recorded
    <3> QED
      BY <2>7, <3>1
  <2> QED
    BY <2>3, <2>7, <2>8
<1> QED
  BY <1>1, TypingInitially, TypingPreserved, CompleteInitially, CompletePreserved, PTL DEF Spec

-----------------------------------------------------------------------------
(* The registry implements the catalogue *)

LEMMA PromiseInitially == Init => Promise!Init
<1> SUFFICES ASSUME Init PROVE Promise!Init
  OBVIOUS
<1>1. {i \in Interfaces : contains_interface(i)} = {}
  BY DEF Init, contains_interface
<1> QED
  BY <1>1 DEF Init, Promise!Init

LEMMA BlankInitially == Init => Blank
  BY DEF Init, Blank

LEMMA BlankPreserved ==
    ASSUME TypeOK, Shape, Blank, [Next]_vars
    PROVE  Blank'
<1>1. CASE AddObject
  <2> SUFFICES ASSUME NEW s \in Names, NEW e \in object_paths'[s], e.path = NoPath
               PROVE  e.interfaces = {}
    BY DEF Blank
  <2>1. CASE e \in object_paths[s]
    BY <2>1 DEF Blank
  <2>2. CASE e = [path |-> object.path, interfaces |-> object.interfaces]
    BY <2>2 DEF Shape, EmptyObject
  <2> QED
    BY <1>1, <2>1, <2>2, AddRecords
<1>2. CASE UNCHANGED object_paths
  BY <1>2 DEF Blank
<1> QED
  BY <1>1, <1>2 DEF Next, Environment, ServiceChanges, Stop, UpdateThread, WakeUp,
     ListServicesOk, ListServicesFails, SkipService, StartScan, EndUpdate, IntrospectOk,
     IntrospectFails, ParseInterface, vars

\* Recording an object is a Publish of the catalogue.
LEMMA AddPublishes ==
    ASSUME TypeOK, Shape, Tree, Blank, InHand, AddObject
    PROVE  Promise!Next
<1> DEFINE n == [path |-> object.path, interfaces |-> object.interfaces]
           known == {i \in Interfaces : contains_interface(i)}
<1>1. /\ svc \in Names /\ pending # <<>> /\ Head(pending) = pending[1] /\ 1 \in 1..Len(pending)
      /\ Head(pending) \in Paths
  BY DEF AddObject, TypeOK, Shape, Scanning
<1>2. n \in Entry
  BY DEF TypeOK, Entry
<1>3. n.interfaces \subseteq known
  BY DEF TypeOK, InHand
<1>4. \/ n = [path |-> NoPath, interfaces |-> {}]
      \/ n.path = Root /\ Recorded(svc) = {}
      \/ n.path \in Paths \ ({Root} \cup Recorded(svc)) /\ Parent[n.path] \in Recorded(svc)
  <2>1. CASE object.path = NoPath
    BY <2>1 DEF Shape, EmptyObject
  <2>2. CASE object.path = Head(pending) /\ Head(pending) = Root
    <3>1. n.path = Root /\ object_paths[svc] = {}
      BY <1>1, <2>2 DEF Tree, Frontier
    <3> QED
      BY <3>1 DEF Recorded
  <2>3. CASE object.path = Head(pending) /\ Head(pending) # Root
    <3>1. Head(pending) \notin Recorded(svc) /\ Parent[Head(pending)] \in Recorded(svc)
      BY <1>1, <2>3 DEF Tree, Frontier
    <3>2. n.path = Head(pending)
      BY <2>3
    <3> QED
      BY <1>1, <2>3, <3>1, <3>2
  <2> QED
    BY <2>1, <2>2, <2>3 DEF Shape
<1>5. object_paths' = [object_paths EXCEPT ![svc] = @ \cup {n}]
  <2>1. ASSUME NEW x \in object_paths[svc], x.path = n.path PROVE x = n
    <3>1. n.path \in Recorded(svc)
      BY <2>1 DEF Recorded
    <3>2. n.path # Root \/ Recorded(svc) # {}
      BY <3>1
    <3>3. n = [path |-> NoPath, interfaces |-> {}]
      BY <1>4, <3>1
    <3>4. x.interfaces = {}
      BY <1>1, <2>1, <3>3 DEF Blank
    <3>5. x.path = NoPath /\ x \in Entry
      BY <1>1, <2>1, <3>3 DEF TypeOK
    <3> QED
      BY <3>3, <3>4, <3>5 DEF Entry
  <2>2. object_paths' = [object_paths EXCEPT ![svc] = {x \in @ : x.path # n.path} \cup {n}]
    BY DEF AddObject, add
  <2>3. {x \in object_paths[svc] : x.path # n.path} \cup {n} = object_paths[svc] \cup {n}
    BY <2>1
  <2> QED
    BY <1>1, <2>2, <2>3 DEF TypeOK
<1>6. svc' \in {svc, None} /\ UNCHANGED interfaces
  BY DEF AddObject
<1>7. Promise!Listed(svc) = Recorded(svc)
  BY DEF Promise!Listed, Recorded
<1>8. known' = known
  BY <1>6 DEF contains_interface
<1>9. Promise!Publish(svc, n)
  BY <1>3, <1>4, <1>5, <1>6, <1>7, <1>8 DEF Promise!Publish
<1> QED
  BY <1>1, <1>2, <1>9 DEF Promise!Next, Promise!Entry, Entry

\* Nothing is forgotten, one listing grows at a time, parents come first and
\* no interface dangles: every step of the registry is a step of the catalogue.
THEOREM KeepsPromise == Spec => CataloguePromise
<1> DEFINE IInv == TypeOK /\ Shape /\ Tree /\ Blank /\ Described /\ InHand
<1>1. Init => IInv
  BY TypingInitially, TreeInitially, BlankInitially, DescribedInitially
<1>2. IInv /\ [Next]_vars => IInv'
  BY TypingPreserved, TreePreserved, BlankPreserved, DescribedPreserved
<1>3. IInv /\ [Next]_vars => [Promise!Next]_(Promise!vars)
  <2> SUFFICES ASSUME IInv, [Next]_vars PROVE Promise!Next \/ UNCHANGED Promise!vars
    OBVIOUS
  <2> DEFINE known == {i \in Interfaces : contains_interface(i)}
  <2>1. CASE \E s \in service_names : StartScan(s)
    <3> PICK s \in service_names : StartScan(s)
      BY <2>1
    <3>1. s \in Names /\ svc = None /\ svc' = s /\ object_paths[s] = {} /\ UNCHANGED <<interfaces, object_paths>>
      BY DEF StartScan, contains_service, TypeOK, Shape, Scanning
    <3>2. known' = known
      BY <3>1 DEF contains_interface
    <3>3. Promise!Open(s)
      BY <3>1, <3>2 DEF Promise!Open
    <3> QED
      BY <3>1, <3>3 DEF Promise!Next
  <2>2. CASE \E i \in Interfaces : ParseInterface(i)
    <3> PICK i \in Interfaces : ParseInterface(i)
      BY <2>2
    <3>1. svc \in Names /\ DefOf[svc][i] \in Defs /\ DefOf[svc][i] # None
      BY InterfacesAssumption DEF ParseInterface, TypeOK, Shape, Scanning
    <3>2. known' = known \cup {i}
      BY <3>1 DEF ParseInterface, contains_interface, TypeOK
    <3>3. Promise!Describe(i)
      BY <3>2 DEF ParseInterface, Promise!Describe
    <3> QED
      BY <3>3 DEF Promise!Next
  <2>3. CASE AddObject
    BY <2>3, AddPublishes
  <2>4. CASE UNCHANGED <<interfaces, object_paths, svc>>
    BY <2>4 DEF Promise!vars, contains_interface
  <2> QED
    BY <2>1, <2>2, <2>3, <2>4 DEF Next, Environment, ServiceChanges, Stop, UpdateThread, WakeUp,
       ListServicesOk, ListServicesFails, SkipService, EndUpdate, IntrospectOk, IntrospectFails, scan, vars
<1> QED
  BY <1>1, <1>2, <1>3, PromiseInitially, PTL DEF Spec, CataloguePromise, Promise!Spec


-----------------------------------------------------------------------------
(* A scan comes to an end *)

\* p and what is below it, near or far.
Under(p) ==
    {q \in Paths : \A T \in SUBSET Paths :
        p \in T /\ (\A c \in Paths \ {Root} : Parent[c] \in T => c \in T) => q \in T}

\* All that the recursion may still visit, however the service moves its objects.
Ahead == UNION {Under(pending[k]) : k \in 1..Len(pending)}

\* One node less to visit, or the one in hand introspected, or an interface of
\* it less to add.
Nearer ==
    \/ Cardinality(Ahead') < Cardinality(Ahead)
    \/ Ahead' = Ahead /\ pc = "introspect" /\ pc' = "parse"
    \/ Ahead' = Ahead /\ pc' = pc /\ \E i \in unparsed : unparsed' = unparsed \ {i}

LEMMA AheadFinite == IsFiniteSet(Ahead)
<1>1. Ahead \subseteq Paths
  BY DEF Ahead, Under
<1> QED
  BY <1>1, PathsAssumption, FS_Subset

LEMMA UnderItself ==
    ASSUME NEW p \in Paths
    PROVE  p \in Under(p)
  BY DEF Under

\* What is below a child is below its parent.
LEMMA UnderChild ==
    ASSUME NEW p \in Paths, NEW c \in Paths \ {Root}, Parent[c] = p
    PROVE  Under(c) \subseteq Under(p)
<1> SUFFICES ASSUME NEW q \in Under(c), NEW T \in SUBSET Paths, p \in T,
                    \A d \in Paths \ {Root} : Parent[d] \in T => d \in T
             PROVE  q \in T
  BY DEF Under
<1>1. c \in T
  OBVIOUS
<1> QED
  BY <1>1 DEF Under

\* When a node is recorded, what is ahead of the recursion is less by that node.
LEMMA AheadShrinks ==
    ASSUME TypeOK, Shape, Tree, AddObject, svc' # None
    PROVE  Cardinality(Ahead') < Cardinality(Ahead)
<1> DEFINE q == object.children
           rest == q \o Tail(pending)
           h == Head(pending)
           Old == Recorded(svc)
           T == Paths \ (Old \cup {h})
<1>1. /\ svc \in Names /\ pending # <<>> /\ pending \in Seq(Paths) /\ q \in Seq(Paths)
      /\ Len(pending) \in Nat \ {0} /\ Len(q) \in Nat /\ h = pending[1] /\ h \in Paths /\ 1 \in 1..Len(pending)
  BY DEF AddObject, TypeOK, Shape, Scanning
<1>2. pending' = rest
  BY DEF AddObject
<1>3. rest = q \o Tail(pending)
  OBVIOUS
<1> HIDE DEF rest, q
<1>4. /\ rest \in Seq(Paths)
      /\ \A k \in 1..Len(rest) :
            \/ k <= Len(q) /\ rest[k] = q[k]
            \/ k > Len(q) /\ k - Len(q) + 1 \in 2..Len(pending) /\ rest[k] = pending[k - Len(q) + 1]
  BY <1>1, <1>3, RestOfScan
<1>5. h \notin Old /\ (h # Root => Parent[h] \in Old)
  BY <1>1 DEF Tree, Frontier
<1>6. \A k \in 2..Len(pending) : pending[k] \in T
  <2> SUFFICES ASSUME NEW k \in 2..Len(pending) PROVE pending[k] \in T
    OBVIOUS
  <2>1. k \in 1..Len(pending) /\ k # 1 /\ pending[k] \in Paths
    BY <1>1
  <2> QED
    BY <1>1, <2>1 DEF Tree, Frontier
<1>7. \A k \in 1..Len(q) : q[k] \in T /\ q[k] \in Paths \ {Root} /\ Parent[q[k]] = h
  <2> SUFFICES ASSUME NEW k \in 1..Len(q)
               PROVE  q[k] \in T /\ q[k] \in Paths \ {Root} /\ Parent[q[k]] = h
    OBVIOUS
  <2>1. object.path = h
    <3>1. object.path = NoPath => q = <<>>
      BY DEF Shape, EmptyObject, q
    <3> QED
      BY <3>1 DEF Shape
  <2>2. q[k] \in Paths \ {Root} /\ Parent[q[k]] = h
    BY <2>1 DEF Tree, Node, Children, q
  <2>3. q[k] # h
    BY <2>2, NotOwnParent
  <2>4. q[k] \notin Old
    BY <1>1, <1>5, <2>2 DEF Tree, PrefixClosed
  <2> QED
    BY <2>2, <2>3, <2>4
<1>8. \A c \in Paths \ {Root} : Parent[c] \in T => c \in T
  <2> SUFFICES ASSUME NEW c \in Paths \ {Root}, c \notin T PROVE Parent[c] \notin T
    OBVIOUS
  <2>1. c \in Old \/ c = h
    OBVIOUS
  <2>2. Parent[c] \in Old
    BY <1>1, <1>5, <2>1 DEF Tree, PrefixClosed
  <2> QED
    BY <2>2
<1>9. \A k \in 1..Len(rest) : rest[k] \in T
  <2> TAKE k \in 1..Len(rest)
  <2>1. CASE k <= Len(q) /\ rest[k] = q[k]
    <3>1. k \in 1..Len(q)
      BY <1>1, <1>4, <2>1
    <3> QED
      BY <1>7, <2>1, <3>1
  <2>2. CASE k > Len(q) /\ k - Len(q) + 1 \in 2..Len(pending) /\ rest[k] = pending[k - Len(q) + 1]
    BY <1>6, <2>2
  <2> QED
    BY <1>4, <2>1, <2>2
<1>10. T \in SUBSET Paths /\ h \notin T
  OBVIOUS
<1> HIDE DEF T
<1>11. Ahead' = UNION {Under(rest[k]) : k \in 1..Len(rest)}
  BY <1>2 DEF Ahead, Under
<1>12. h \notin Ahead'
  <2> SUFFICES ASSUME NEW k \in 1..Len(rest), h \in Under(rest[k]) PROVE FALSE
    BY <1>11
  <2>1. rest[k] \in T
    BY <1>9
  <2> QED
    BY <1>8, <1>10, <2>1 DEF Under
<1>13. Ahead' \subseteq Ahead
  <2> SUFFICES ASSUME NEW k \in 1..Len(rest) PROVE Under(rest[k]) \subseteq Ahead
    BY <1>11
  <2>1. CASE k <= Len(q) /\ rest[k] = q[k]
    <3>1. k \in 1..Len(q)
      BY <1>1, <1>4, <2>1
    <3>2. Under(q[k]) \subseteq Under(h)
      BY <1>1, <1>7, <3>1, UnderChild
    <3> QED
      BY <1>1, <2>1, <3>2 DEF Ahead
  <2>2. CASE k > Len(q) /\ k - Len(q) + 1 \in 2..Len(pending) /\ rest[k] = pending[k - Len(q) + 1]
    <3>1. k - Len(q) + 1 \in 1..Len(pending)
      BY <1>1, <2>2
    <3> QED
      BY <2>2, <3>1 DEF Ahead
  <2> QED
    BY <1>4, <2>1, <2>2
<1>14. h \in Ahead
  BY <1>1, UnderItself DEF Ahead
<1>15. Ahead' \subseteq Ahead /\ Ahead' # Ahead
  BY <1>12, <1>13, <1>14
<1> QED
  BY <1>15, AheadFinite, FS_Subset, FS_CardinalityType

\* The recursion of a scan cannot go on for ever: whatever the service does to
\* its objects in the meantime, each step of the update thread takes it nearer
\* to its end, and no step of others takes it back.  No path is visited twice
\* in a scan.
THEOREM ScansComeToAnEnd ==
    Spec => [][svc # None /\ svc' # None => IF UpdateThread THEN Nearer ELSE UNCHANGED <<pc, scan>>]_vars
<1> DEFINE IInv == TypeOK /\ Shape /\ Tree
           Goal == svc # None /\ svc' # None => IF UpdateThread THEN Nearer ELSE UNCHANGED <<pc, scan>>
<1>1. Init => IInv
  BY TypingInitially, TreeInitially
<1>2. IInv /\ [Next]_vars => IInv'
  BY TypingPreserved, TreePreserved
<1>3. IInv /\ [Next]_vars => [Goal]_vars
  <2> SUFFICES ASSUME IInv, Next, svc # None, svc' # None
               PROVE  IF UpdateThread THEN Nearer ELSE UNCHANGED <<pc, scan>>
    BY DEF vars
  <2>1. CASE ~UpdateThread
    <3>1. Environment \/ Stop
      BY <2>1 DEF Next
    <3> QED
      BY <2>1, <3>1 DEF Environment, ServiceChanges, Stop, scan
  <2>2. ASSUME UpdateThread PROVE Nearer
    <3>1. pc \in {"introspect", "parse"}
      BY DEF Shape, Scanning
    <3>2. ~WakeUp /\ ~ListServicesOk /\ ~ListServicesFails /\ ~EndUpdate
          /\ ~\E s \in service_names : SkipService(s) \/ StartScan(s)
      BY <3>1 DEF WakeUp, ListServicesOk, ListServicesFails, SkipService, StartScan, EndUpdate
    <3>3. ASSUME UNCHANGED pending PROVE Ahead' = Ahead
      BY <3>3 DEF Ahead, Under
    <3>4. CASE IntrospectOk
      BY <3>3, <3>4 DEF IntrospectOk, Nearer
    <3>5. CASE IntrospectFails
      BY <3>3, <3>5 DEF IntrospectFails, Nearer
    <3>6. CASE \E i \in Interfaces : ParseInterface(i)
      BY <3>3, <3>6 DEF ParseInterface, Nearer
    <3>7. CASE AddObject
      BY <3>7, AheadShrinks DEF Nearer
    <3> QED
      BY <2>2, <3>2, <3>4, <3>5, <3>6, <3>7 DEF UpdateThread
  <2> QED
    BY <2>1, <2>2
<1> QED
  BY <1>1, <1>2, <1>3, PTL DEF Spec
==============================================================================
