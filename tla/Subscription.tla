------------------------------ MODULE Subscription ------------------------------
(***************************************************************************)
(* What the signal socket of dbus2http promises its clients, without       *)
(* threads, slots or connections: a client that subscribed gets the        *)
(* signals its rule matches, one by one in the order of the bus, until it  *)
(* leaves; a signal it does not get is one that was given up for a reason. *)
(* Signals that were on their way when it subscribed it may get as well.   *)
(***************************************************************************)
EXTENDS Naturals, Sequences

CONSTANTS
    Clients, Signals, Rules,
    Matches,   \* Matches[r]: the signals the rule r lets through
    None

VARIABLES
    bus,       \* the signals emitted so far
    rule,      \* the rule each client listens with, or None
    owed,      \* positions in bus that a client has still to get
    stream,    \* positions it got
    lost,      \* positions given up, for some client or for all
    gone       \* clients that left, or were turned away

vars == <<bus, rule, owed, stream, lost, gone>>

Init ==
    /\ bus = <<>>
    /\ rule = [c \in Clients |-> None]
    /\ owed = [c \in Clients |-> {}]
    /\ stream = [c \in Clients |-> <<>>]
    /\ lost = {}
    /\ gone = {}

Listens(c, sig) == rule[c] # None /\ sig \in Matches[rule[c]]

\* A signal is owed at once to everybody who listens to it.
Emit(sig) ==
    /\ bus' = Append(bus, sig)
    /\ owed' = [c \in Clients |->
                  IF Listens(c, sig) THEN owed[c] \cup {Len(bus) + 1} ELSE owed[c]]
    /\ UNCHANGED <<rule, stream, lost, gone>>

Subscribe(c, r) ==
    /\ rule[c] = None
    /\ c \notin gone
    /\ rule' = [rule EXCEPT ![c] = r]
    /\ \E early \in SUBSET {k \in 1..Len(bus) : bus[k] \in Matches[r]} :
         owed' = [owed EXCEPT ![c] = early]
    /\ UNCHANGED <<bus, stream, lost, gone>>

Next_up(c, k) == k \in owed[c] /\ \A j \in owed[c] : k <= j

Deliver(c, k) ==
    /\ Next_up(c, k)
    /\ stream' = [stream EXCEPT ![c] = Append(@, k)]
    /\ owed' = [owed EXCEPT ![c] = @ \ {k}]
    /\ UNCHANGED <<bus, rule, lost, gone>>

\* A signal whose turn it is is given up for the clients S.
GiveUp(k, S) ==
    /\ \A c \in S : Next_up(c, k)
    /\ lost' = lost \cup {k}
    /\ owed' = [c \in Clients |-> IF c \in S THEN owed[c] \ {k} ELSE owed[c]]
    /\ UNCHANGED <<bus, rule, stream, gone>>

Leave(S) ==
    /\ S \cap gone = {}
    /\ gone' = gone \cup S
    /\ rule' = [c \in Clients |-> IF c \in S THEN None ELSE rule[c]]
    /\ owed' = [c \in Clients |-> IF c \in S THEN {} ELSE owed[c]]
    /\ UNCHANGED <<bus, stream, lost>>

Next ==
    \/ \E sig \in Signals : Emit(sig)
    \/ \E c \in Clients, r \in Rules : Subscribe(c, r)
    \/ \E k \in 1..Len(bus) :
         \/ \E c \in Clients : Deliver(c, k)
         \/ \E S \in SUBSET Clients : GiveUp(k, S)
    \/ \E S \in SUBSET Clients : Leave(S)

Spec == Init /\ [][Next]_vars
==============================================================================
