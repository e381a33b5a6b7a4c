----------------------------- MODULE SignalSocket -----------------------------
(***************************************************************************)
(* The WebSocket side of dbus2http (SignalSocket): a client opens a        *)
(* connection with a D-Bus match rule and gets the matching signals.       *)
(*                                                                         *)
(* Three threads act on the same objects without a lock of their own:      *)
(*   - the WebSocket thread runs the open and close handlers, one at a     *)
(*     time, and stores and erases slots in conn2slot_;                    *)
(*   - the D-Bus thread runs the callbacks of the slots, one signal after  *)
(*     the other;                                                          *)
(*   - the main thread runs stop(), which walks and clears conn2slot_.     *)
(* Changing the map while main walks it is undefined behaviour: the walk   *)
(* may skip connections, or end the process.                               *)
(*                                                                         *)
(* External: websocketpp (accepts connections, calls handlers, closes) and *)
(* sdbus-c++ (routes a signal to the connection if a rule in force matches *)
(* it, runs the callbacks; releasing a slot waits for its callback).  Of   *)
(* the registry the callbacks read only which interfaces are known, and    *)
(* module Catalogue promises that this set only grows.                     *)
(***************************************************************************)
EXTENDS Naturals, Sequences, FiniteSets

CONSTANTS
    Conns,       \* connections clients may make, each at most once
    Signals,     \* D-Bus signals
    Interfaces, InterfaceOf,
    Rules,       \* match rules
    Queries,     \* what clients put after "?", see Kinds
    Matches,     \* Matches[r]: the signals the rule r lets through
    None,
    MaxSignals   \* bound: how many signals are emitted

\* What a query may be: a match rule; another text that starts with one of the
\* characters of "match="; such a text of fewer than six characters; the rest.
Kinds == {"match", "alike", "short", "foreign"}

ASSUME SocketAssumption ==
    /\ Queries \subseteq Kinds
    /\ InterfaceOf \in [Signals -> Interfaces]
    /\ Matches \in [Rules -> SUBSET Signals]
    /\ None \notin Rules
    /\ MaxSignals \in Nat

VARIABLES
    alive,      \* the process has not been ended by an exception or by undefined behaviour
    conn,       \* the life of each connection
    query,      \* what the client put after "?"
    rule,       \* the match rule taken from it
    slot,       \* the slot of a connection: installed by addMatch, stored in conn2slot_
    described,  \* interfaces the registry knows
    emitted,    \* history: the signals emitted on the bus
    inbox,      \* positions in emitted still to be dispatched, oldest first
    todo,       \* connections whose callback is still to be run for Head(inbox)
    callback,   \* the connection whose callback has its arguments, or none: {}
    got,        \* positions in emitted of the signals sent to each connection
    since,      \* history: Len(emitted) when the slot was installed
    refused,    \* history: positions dropped because interface or arguments were not understood
    main,       \* where stop() is
    walk,       \* connections stop() has still to close
    late,       \* history: connections not yet open when stop() cleared the map
    raced,      \* conn2slot_ changed while stop() was walking it
    ws, dbus    \* the two threads are running

wsvars == <<conn, query, rule, slot>>
busvars == <<emitted, inbox, todo, callback, got, refused>>
stopvars == <<main, walk, ws, dbus>>
vars == <<alive, conn, query, rule, slot, described, emitted, inbox, todo, callback,
          got, since, refused, main, walk, late, raced, ws, dbus>>

conn2slot_ == {c \in Conns : slot[c] = "stored"}

-----------------------------------------------------------------------------

Init ==
    /\ alive = TRUE
    /\ conn = [c \in Conns |-> "absent"]
    /\ query = [c \in Conns |-> None]
    /\ rule = [c \in Conns |-> None]
    /\ slot = [c \in Conns |-> "none"]
    /\ described = {}
    /\ emitted = <<>>
    /\ inbox = <<>>
    /\ todo = {}
    /\ callback = {}
    /\ got = [c \in Conns |-> <<>>]
    /\ since = [c \in Conns |-> 0]
    /\ refused = {}
    /\ main = "running"
    /\ walk = {}
    /\ late = {}
    /\ raced = FALSE
    /\ ws = TRUE
    /\ dbus = TRUE

\* External: the update thread describes an interface.
Describe(i) ==
    /\ i \notin described
    /\ described' = described \cup {i}
    /\ UNCHANGED <<alive, wsvars, busvars, since, stopvars, raced, late>>

\* External: the daemon routes a signal here if a rule in force matches it.
Emit(sig) ==
    /\ Len(emitted) < MaxSignals
    /\ emitted' = Append(emitted, sig)
    /\ inbox' = IF \E c \in Conns : slot[c] # "none" /\ sig \in Matches[rule[c]]
                THEN Append(inbox, Len(emitted) + 1) ELSE inbox
    /\ UNCHANGED <<alive, wsvars, described, todo, callback, got, since, refused, stopvars, raced, late>>

-----------------------------------------------------------------------------
(* The WebSocket thread *)

\* It runs no other handler while an open handler is under way.
Idle == ws /\ \A c \in Conns : conn[c] # "opening"

\* conn2slot_ changes under the walk of stop().
Touch == raced' = (raced \/ main = "walking")

\* External: a client connects; the handshake is still to come.
Connect(c) ==
    /\ ws
    /\ main = "running"
    /\ conn[c] = "absent"
    /\ conn' = [conn EXCEPT ![c] = "connecting"]
    /\ \E q \in Queries, r \in Rules :
         /\ query' = [query EXCEPT ![c] = q]
         /\ rule' = [rule EXCEPT ![c] = r]
    /\ UNCHANGED <<alive, slot, described, busvars, since, stopvars, raced, late>>

\* The open handler starts: get_con_from_hdl, get_query.
Open(c) ==
    /\ Idle
    /\ conn[c] = "connecting"
    /\ conn' = [conn EXCEPT ![c] = "opening"]
    /\ UNCHANGED <<alive, query, rule, slot, described, busvars, since, stopvars, raced, late>>

\* find_first_of says the query does not start like a match.
RefuseQuery(c) ==
    /\ conn[c] = "opening" /\ slot[c] = "none"
    /\ query[c] = "foreign"
    /\ conn' = [conn EXCEPT ![c] = "closing"]
    /\ UNCHANGED <<alive, query, rule, slot, described, busvars, since, stopvars, raced, late>>

\* substr(6) throws out of the handler, out of run() and out of the thread.
ThrowOnQuery(c) ==
    /\ conn[c] = "opening" /\ slot[c] = "none"
    /\ query[c] = "short"
    /\ alive' = FALSE
    /\ UNCHANGED <<wsvars, described, busvars, since, stopvars, raced, late>>

\* Mutant of AddMatch: the next signal is taken for an earlier one.
AddMatchNext(c) ==
    /\ conn[c] = "opening" /\ slot[c] = "none"
    /\ query[c] \in {"match", "alike"}
    /\ slot' = [slot EXCEPT ![c] = "installed"]
    /\ since' = [since EXCEPT ![c] = Len(emitted) + 1]
    /\ UNCHANGED <<alive, conn, query, rule, described, busvars, stopvars, raced, late>>

\* addMatch succeeds: from here on the callback may run...
AddMatch(c) ==
    /\ conn[c] = "opening" /\ slot[c] = "none"
    /\ query[c] \in {"match", "alike"}
    /\ slot' = [slot EXCEPT ![c] = "installed"]
    /\ since' = [since EXCEPT ![c] = Len(emitted)]
    /\ UNCHANGED <<alive, conn, query, rule, described, busvars, stopvars, raced, late>>

\* ... and the slot goes into the map.
StoreSlot(c) ==
    /\ conn[c] = "opening" /\ slot[c] = "installed"
    /\ slot' = [slot EXCEPT ![c] = "stored"]
    /\ conn' = [conn EXCEPT ![c] = "open"]
    /\ Touch
    /\ UNCHANGED <<alive, query, rule, described, busvars, since, stopvars, late>>

\* addMatch throws: the connection is closed.
AddMatchFails(c) ==
    /\ conn[c] = "opening" /\ slot[c] = "none"
    /\ query[c] \in {"match", "alike"}
    /\ conn' = [conn EXCEPT ![c] = "closing"]
    /\ UNCHANGED <<alive, query, rule, slot, described, busvars, since, stopvars, raced, late>>

\* External: the client closes, or the network does.
ClientCloses(c) ==
    /\ conn[c] = "open"
    /\ conn' = [conn EXCEPT ![c] = "closing"]
    /\ UNCHANGED <<alive, query, rule, slot, described, busvars, since, stopvars, raced, late>>

\* Mutant of CloseHandler: the slot stays in the map.
CloseKeepsSlot(c) ==
    /\ Idle
    /\ conn[c] = "closing"
    /\ conn' = [conn EXCEPT ![c] = "closed"]
    /\ UNCHANGED <<alive, query, rule, slot, described, busvars, since, stopvars, raced, late>>

\* The close handler: conn2slot_.erase(conn_hdl).
CloseHandler(c) ==
    /\ Idle
    /\ conn[c] = "closing"
    /\ c \notin callback
    /\ conn' = [conn EXCEPT ![c] = "closed"]
    /\ slot' = [slot EXCEPT ![c] = "none"]
    /\ raced' = (raced \/ (main = "walking" /\ c \in conn2slot_))
    /\ UNCHANGED <<alive, query, rule, described, busvars, since, stopvars, late>>

OpenHandler(c) == Open(c) \/ RefuseQuery(c) \/ ThrowOnQuery(c) \/ AddMatch(c) \/ StoreSlot(c) \/ AddMatchFails(c)

\* run() returns once ws_server_.stop() was called and no handler is under way.
WsExit ==
    /\ Idle
    /\ main = "join_ws"
    /\ ws' = FALSE
    /\ UNCHANGED <<alive, wsvars, described, busvars, since, main, walk, raced, dbus, late>>

-----------------------------------------------------------------------------
(* The D-Bus thread *)

Busy == todo # {} \/ callback # {}

\* Mutant of Dispatch: only slots that are in the map are looked at.
DispatchStored ==
    /\ dbus
    /\ ~Busy
    /\ inbox # <<>>
    /\ LET called == {c \in conn2slot_ : emitted[Head(inbox)] \in Matches[rule[c]]}
       IN  /\ todo' = called
           /\ inbox' = IF called = {} THEN Tail(inbox) ELSE inbox
    /\ UNCHANGED <<alive, wsvars, described, emitted, callback, got, since, refused, stopvars, raced, late>>

\* The event loop takes a signal and finds the slots that match it.
Dispatch ==
    /\ dbus
    /\ ~Busy
    /\ inbox # <<>>
    /\ LET called == {c \in Conns : slot[c] # "none" /\ emitted[Head(inbox)] \in Matches[rule[c]]}
       IN  /\ todo' = called
           /\ inbox' = IF called = {} THEN Tail(inbox) ELSE inbox
    /\ UNCHANGED <<alive, wsvars, described, emitted, callback, got, since, refused, stopvars, raced, late>>

\* The signal in hand is done when the last callback is.
Finish(rest) ==
    /\ todo' = rest
    /\ inbox' = IF rest = {} THEN Tail(inbox) ELSE inbox

\* A slot released since Dispatch is not called.
SkipCallback(c) ==
    /\ c \in todo /\ callback = {}
    /\ slot[c] = "none"
    /\ Finish(todo \ {c})
    /\ UNCHANGED <<alive, wsvars, described, emitted, callback, got, since, refused, stopvars, raced, late>>

\* Mutant of UnknownSignal: the callback is tried again.
UnknownSignalAgain(c) ==
    /\ c \in todo /\ callback = {}
    /\ slot[c] # "none"
    /\ InterfaceOf[emitted[Head(inbox)]] \notin described
    /\ refused' = refused \cup {Head(inbox)}
    /\ UNCHANGED <<alive, wsvars, described, emitted, inbox, todo, callback, got, since, stopvars, raced, late>>

\* get<Signal> does not know the interface: a warning, and nothing is sent.
UnknownSignal(c) ==
    /\ c \in todo /\ callback = {}
    /\ slot[c] # "none"
    /\ InterfaceOf[emitted[Head(inbox)]] \notin described
    /\ refused' = refused \cup {Head(inbox)}
    /\ Finish(todo \ {c})
    /\ UNCHANGED <<alive, wsvars, described, emitted, callback, got, since, stopvars, raced, late>>

\* get<Signal> copies the arguments...
LookupSignal(c) ==
    /\ c \in todo /\ callback = {}
    /\ slot[c] # "none"
    /\ InterfaceOf[emitted[Head(inbox)]] \in described
    /\ callback' = {c}
    /\ UNCHANGED <<alive, wsvars, described, emitted, inbox, todo, got, since, refused, stopvars, raced, late>>

\* Mutant of SendSignal: the callback is run twice.
SendTwice(c) ==
    /\ c \in callback
    /\ callback' = {}
    /\ got' = [got EXCEPT ![c] = Append(@, Head(inbox))]
    /\ IF c \in todo /\ Head(inbox) \notin {got[c][k] : k \in 1..Len(got[c])}
       THEN UNCHANGED <<todo, inbox>> ELSE Finish(todo \ {c})
    /\ UNCHANGED <<alive, wsvars, described, emitted, since, refused, stopvars, raced, late>>

\* Mutant of SendSignal: nothing is sent until the open handler has ended.
SendWhenOpen(c) ==
    /\ c \in callback
    /\ callback' = {}
    /\ got' = IF conn[c] = "open"
              THEN [got EXCEPT ![c] = Append(@, Head(inbox))] ELSE got
    /\ Finish(todo \ {c})
    /\ UNCHANGED <<alive, wsvars, described, emitted, since, refused, stopvars, raced, late>>

\* ... ExtractMessage converts them, and the text is sent if the connection is
\* open.  The client sees the connection as open before the slot is stored.
SendSignal(c) ==
    /\ c \in callback
    /\ callback' = {}
    /\ got' = IF conn[c] \in {"opening", "open"}
              THEN [got EXCEPT ![c] = Append(@, Head(inbox))] ELSE got
    /\ Finish(todo \ {c})
    /\ UNCHANGED <<alive, wsvars, described, emitted, since, refused, stopvars, raced, late>>

\* ExtractMessage throws out of the callback: sdbus-c++ reports a failed
\* callback, after which the bus library may call no other slot for the signal.
ExtractFails(c) ==
    /\ c \in callback
    /\ callback' = {}
    /\ refused' = refused \cup {Head(inbox)}
    /\ \E rest \in {todo \ {c}, {}} : Finish(rest)
    /\ UNCHANGED <<alive, wsvars, described, emitted, got, since, stopvars, raced, late>>

Callback(c) == SkipCallback(c) \/ UnknownSignal(c) \/ LookupSignal(c) \/ SendSignal(c) \/ ExtractFails(c)

\* enterEventLoop returns after the signal in hand.
DbusExit ==
    /\ dbus
    /\ ~Busy
    /\ main = "join_dbus"
    /\ dbus' = FALSE
    /\ UNCHANGED <<alive, wsvars, described, busvars, since, main, walk, raced, ws, late>>

-----------------------------------------------------------------------------
(* stop(), in the main thread *)

Goto(label) == main' = label

\* stop_listening, and the begin of the walk over conn2slot_.
StopListening ==
    /\ main = "running"
    /\ Goto("walking")
    /\ walk' = conn2slot_
    /\ UNCHANGED <<alive, wsvars, described, busvars, since, raced, ws, dbus, late>>

\* One turn of the walk: ws_server_.close(conn_hdl, ...).
CloseOne(c) ==
    /\ main = "walking"
    /\ c \in walk
    /\ walk' = walk \ {c}
    /\ conn' = [conn EXCEPT ![c] = IF @ = "open" THEN "closing" ELSE @]
    /\ UNCHANGED <<alive, query, rule, slot, described, busvars, since, main, raced, ws, dbus, late>>

\* Mutant of ClearSlots: the map is not cleared.
ClearNothing ==
    /\ main = "walking"
    /\ walk = {} \/ raced
    /\ walk' = {}
    /\ late' = {c \in Conns : conn[c] \in {"connecting", "opening"}}
    /\ Goto("stop_ws")
    /\ UNCHANGED <<alive, wsvars, described, busvars, since, raced, ws, dbus>>

\* conn2slot_.clear(), then ws_server_.stop(); each slot waits for its callback.
\* A walk the WebSocket thread disturbed may end early.
ClearSlots ==
    /\ main = "walking"
    /\ walk = {} \/ raced
    /\ callback \cap conn2slot_ = {}
    /\ slot' = [c \in Conns |-> IF slot[c] = "stored" THEN "none" ELSE slot[c]]
    /\ walk' = {}
    /\ late' = {c \in Conns : conn[c] \in {"connecting", "opening"}}
    /\ Goto("stop_ws")
    /\ UNCHANGED <<alive, conn, query, rule, described, busvars, since, raced, ws, dbus>>

\* Mutant of StopWs: the thread is joined before the server is stopped.
StopWsAfterJoin ==
    /\ main = "stop_ws"
    /\ ~ws
    /\ Goto("join_ws")
    /\ UNCHANGED <<alive, wsvars, described, busvars, since, walk, raced, ws, dbus, late>>

\* ws_server_.stop(): the thread may end from here on.
StopWs ==
    /\ main = "stop_ws"
    /\ Goto("join_ws")
    /\ UNCHANGED <<alive, wsvars, described, busvars, since, walk, raced, ws, dbus, late>>

\* ws_server_thread_.join(), then leaveEventLoop.
JoinWs ==
    /\ main = "join_ws"
    /\ ~ws
    /\ Goto("join_dbus")
    /\ UNCHANGED <<alive, wsvars, described, busvars, since, walk, raced, ws, dbus, late>>

JoinDbus ==
    /\ main = "join_dbus"
    /\ ~dbus
    /\ Goto("stopped")
    /\ UNCHANGED <<alive, wsvars, described, busvars, since, walk, raced, ws, dbus, late>>

\* The disturbed walk follows an iterator that is no longer valid.
Crash ==
    /\ raced
    /\ main = "walking"
    /\ alive' = FALSE
    /\ UNCHANGED <<wsvars, described, busvars, since, stopvars, raced, late>>

-----------------------------------------------------------------------------

WsThread == (\E c \in Conns : OpenHandler(c) \/ CloseHandler(c)) \/ WsExit

DbusThread == Dispatch \/ (\E c \in Conns : Callback(c)) \/ DbusExit

StopSteps == (\E c \in Conns : CloseOne(c)) \/ ClearSlots \/ StopWs \/ JoinWs \/ JoinDbus

Next ==
    /\ alive
    /\ \/ \E i \in Interfaces : Describe(i)
       \/ \E sig \in Signals : Emit(sig)
       \/ \E c \in Conns : Connect(c) \/ ClientCloses(c)
       \/ WsThread
       \/ DbusThread
       \/ StopListening
       \/ StopSteps
       \/ Crash

Spec == Init /\ [][Next]_vars

(***************************************************************************)
(* Each thread is scheduled.  Handlers return: addMatch is answered or     *)
(* times out.  Nobody must connect, emit, close or ask the program to stop.*)
(***************************************************************************)
Fairness ==
    /\ WF_vars(alive /\ WsThread)
    /\ WF_vars(alive /\ DbusThread)
    /\ WF_vars(alive /\ StopSteps)

FairSpec == Spec /\ Fairness

-----------------------------------------------------------------------------
(* Safety *)

Positions == 1..MaxSignals

\* Types, and the labels of the three threads.
TypeOK ==
    /\ alive \in BOOLEAN /\ raced \in BOOLEAN /\ ws \in BOOLEAN /\ dbus \in BOOLEAN
    /\ conn \in [Conns -> {"absent", "connecting", "opening", "open", "closing", "closed"}]
    /\ query \in [Conns -> Queries \cup {None}]
    /\ rule \in [Conns -> Rules \cup {None}]
    /\ slot \in [Conns -> {"none", "installed", "stored"}]
    /\ described \subseteq Interfaces
    /\ emitted \in Seq(Signals)
    /\ inbox \in Seq(Positions)
    /\ todo \subseteq Conns /\ callback \subseteq Conns /\ walk \subseteq Conns
    /\ got \in [Conns -> Seq(Positions)]
    /\ since \in [Conns -> 0..MaxSignals]
    /\ refused \subseteq Positions
    /\ late \subseteq Conns
    /\ main \in {"running", "walking", "stop_ws", "join_ws", "join_dbus", "stopped"}

\* A connection that is gone leaves no slot behind: nothing more is converted
\* for it, and the map cannot grow with the clients that come and go.
NoSlotLeaks ==
    \A c \in Conns : conn[c] \in {"absent", "connecting", "closed"} => slot[c] = "none"

\* A client gets signals its rule matches, in the order of the bus, each once.
InOrderOnce ==
    \A c \in Conns :
        /\ \A k \in 1..Len(got[c]) : emitted[got[c][k]] \in Matches[rule[c]]
        /\ \A j, k \in 1..Len(got[c]) : j < k => got[c][j] < got[c][k]

Sent(c) == {got[c][k] : k \in 1..Len(got[c])}

\* A subscribed client misses no matching signal: each one emitted since its
\* slot was installed is sent, waits its turn, or was not understood.
Waiting == {inbox[k] : k \in 1..Len(inbox)}

Due(c) == {k \in (since[c] + 1)..Len(emitted) : emitted[k] \in Matches[rule[c]]}

NothingMissed ==
    \A c \in Conns :
        conn[c] = "open" /\ slot[c] = "stored" => Due(c) \subseteq Sent(c) \cup Waiting \cup refused

\* What a client sees of this is module Subscription.  It listens from the moment
\* its slot is installed to the moment its connection or its slot goes, and has
\* still to get what waits in the inbox, except the signal in hand once its own
\* callback is done.
Listening(c) == slot[c] # "none" /\ conn[c] \in {"opening", "open"}

Settled(c, k) == todo # {} /\ c \notin todo /\ k = Head(inbox)

Owed(c) == {k \in Waiting : emitted[k] \in Matches[rule[c]] /\ ~Settled(c, k)}

Promise == INSTANCE Subscription WITH
    Clients <- Conns,
    bus <- emitted,
    rule <- [c \in Conns |-> IF Listening(c) THEN rule[c] ELSE None],
    owed <- [c \in Conns |-> IF Listening(c) THEN Owed(c) ELSE {}],
    stream <- got,
    lost <- refused,
    gone <- {c \in Conns : ~Listening(c) /\ conn[c] \in {"open", "closing", "closed"}}

\* The three threads give every client the stream that Subscription promises.
SubscriptionPromise == Promise!Spec

\* When stop() has returned no thread and no callback is left, and a slot only
\* where the open handler ended after the map was cleared: that slot is released
\* by the destructor, after the D-Bus connection it belongs to.
OnlyLateSlots ==
    main = "stopped" =>
        /\ ~ws /\ ~dbus /\ ~Busy
        /\ \A c \in Conns : slot[c] # "none" => c \in late

-----------------------------------------------------------------------------
(* Liveness *)

\* stop() returns: neither join waits forever.
StopReturns == main = "walking" ~> main = "stopped" \/ ~alive

\* A signal that was routed here is dispatched unless the program stops.
SignalsDispatched ==
    \A k \in Positions : (k \in Waiting) ~> (k \notin Waiting \/ main = "stopped" \/ ~alive)
==============================================================================
