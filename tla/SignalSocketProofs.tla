--------------------------- MODULE SignalSocketProofs ---------------------------
(***************************************************************************)
(* Proofs about SignalSocket, for every set of connections, signals and    *)
(* rules, and any number of signals.                                       *)
(***************************************************************************)
EXTENDS SignalSocket, SequenceTheorems, TLAPS

Elements(s) == {s[k] : k \in 1..Len(s)}

Increasing(s) == \A j, k \in 1..Len(s) : j < k => s[j] < s[k]

\* Positions are positions in the history, and the inbox is in the order of the bus.
Order ==
    /\ Len(emitted) <= MaxSignals
    /\ \A c \in Conns : since[c] <= Len(emitted)
    /\ Waiting \subseteq 1..Len(emitted)
    /\ Increasing(inbox)

\* What the connection's state says of its rule and its slot.
Slots ==
    \A c \in Conns :
        /\ conn[c] # "absent" => rule[c] \in Rules
        /\ slot[c] = "installed" => conn[c] = "opening"
        /\ slot[c] = "stored" => conn[c] \in {"open", "closing"}

Fresh(c) == conn[c] \in {"absent", "connecting"}

\* The callbacks still to be run are for the head of the inbox, which matches.
Hands ==
    /\ callback \subseteq todo
    /\ \A c \in callback : slot[c] # "none"
    /\ todo # {} => inbox # <<>>
    /\ \A c \in todo : ~Fresh(c) /\ emitted[Head(inbox)] \in Matches[rule[c]]

\* What was sent lies before what waits, except the signal in hand, which may have
\* been sent to the connections that are done with it.
Streams ==
    \A c \in Conns :
        /\ Fresh(c) => got[c] = <<>>
        /\ \A k \in Sent(c) : k \in 1..Len(emitted) /\ emitted[k] \in Matches[rule[c]]
        /\ \A k \in Sent(c) : \A j \in Waiting : k < j \/ (k = j /\ Settled(c, j))
        /\ Increasing(got[c])

\* NothingMissed, strengthened: what waits is still owed.
NothingOwedLost ==
    \A c \in Conns : Listening(c) => Due(c) \subseteq Sent(c) \cup refused \cup Owed(c)

\* What is over when stop() has come how far.
Ending ==
    /\ ~ws => main \in {"join_ws", "join_dbus", "stopped"} /\ \A c \in Conns : conn[c] # "opening"
    /\ main \in {"join_dbus", "stopped"} => ~ws
    /\ ~dbus => main \in {"join_dbus", "stopped"} /\ ~Busy
    /\ main = "stopped" => ~dbus
    /\ main \notin {"running", "walking"} =>
         \A c \in Conns : slot[c] # "none" \/ conn[c] \in {"connecting", "opening"} => c \in late

IInv == TypeOK /\ Order /\ Slots /\ Hands /\ Streams /\ NothingOwedLost /\ Ending

-----------------------------------------------------------------------------
(* Sequences *)

LEMMA ElementsOfAppend ==
    ASSUME NEW S, NEW s \in Seq(S), NEW x \in S
    PROVE  /\ Append(s, x) \in Seq(S)
           /\ Elements(Append(s, x)) = Elements(s) \cup {x}
  <1> DEFINE t == Append(s, x)
  <1>1. /\ t \in Seq(S) /\ Len(t) = Len(s) + 1 /\ Len(s) \in Nat
        /\ t[Len(s) + 1] = x
        /\ \A k \in 1..Len(s) : t[k] = s[k]
    OBVIOUS
  <1>2. \A k \in 1..Len(t) : t[k] \in Elements(s) \cup {x}
    BY <1>1 DEF Elements
  <1>3. \A k \in 1..Len(s) : s[k] \in Elements(t)
    BY <1>1 DEF Elements
  <1>4. x \in Elements(t)
    BY <1>1 DEF Elements
  <1> QED BY <1>1, <1>2, <1>3, <1>4 DEF Elements

LEMMA IncreasingAppend ==
    ASSUME NEW S \in SUBSET Nat, NEW s \in Seq(S), NEW x \in Nat, Increasing(s), \A k \in Elements(s) : k < x
    PROVE  Increasing(Append(s, x))
  BY DEF Increasing, Elements

\* The head of an increasing sequence is its least element, and not in the tail.
LEMMA HeadAndTail ==
    ASSUME NEW S \in SUBSET Nat, NEW s \in Seq(S), s # <<>>, Increasing(s)
    PROVE  /\ Tail(s) \in Seq(S)
           /\ Head(s) \in Elements(s) /\ Head(s) \in S
           /\ \A k \in Elements(s) : Head(s) <= k
           /\ Elements(Tail(s)) = Elements(s) \ {Head(s)}
           /\ Increasing(Tail(s))
  <1> DEFINE t == Tail(s)
  <1>1. /\ Len(s) \in Nat /\ Len(s) > 0 /\ Len(t) = Len(s) - 1
        /\ Head(s) = s[1]
        /\ \A k \in 1..Len(t) : t[k] = s[k + 1]
    OBVIOUS
  <1>2. \A k \in 1..Len(s) : s[k] \in Nat /\ (k # 1 => s[1] < s[k])
    <2>1. \A k \in 1..Len(s) : s[k] \in S
      OBVIOUS
    <2>2. \A k \in 1..Len(s) : s[k] \in Nat
      BY <2>1
    <2>3. \A k \in 1..Len(s) : k # 1 => s[1] < s[k]
      BY <1>1 DEF Increasing
    <2> QED BY <2>2, <2>3
  <1>3. \A k \in Elements(s) : Head(s) <= k
    BY <1>1, <1>2 DEF Elements
  <1>4. \A k \in 1..Len(t) : t[k] \in Elements(s) \ {Head(s)}
    BY <1>1, <1>2 DEF Elements
  <1>5. \A k \in 1..Len(s) : k # 1 => s[k] = t[k - 1] /\ k - 1 \in 1..Len(t)
    BY <1>1
  <1>6. Elements(s) \ {Head(s)} \subseteq Elements(t)
    BY <1>1, <1>5 DEF Elements
  <1>7. Increasing(t)
    BY <1>1 DEF Increasing
  <1>8. Head(s) \in Elements(s) /\ Head(s) \in S /\ t \in Seq(S)
    BY <1>1 DEF Elements
  <1> QED BY <1>3, <1>4, <1>6, <1>7, <1>8 DEF Elements

-----------------------------------------------------------------------------
(* What a step can do to the streams *)

Over(c) == conn[c] \in {"open", "closing", "closed"}

\* Nobody begins to listen; who stops listening has left.
Quiet ==
    /\ UNCHANGED <<busvars, since>>
    /\ \A c \in Conns :
         /\ rule'[c] = rule[c] \/ conn[c] = "absent"
         /\ Fresh(c)' => Fresh(c)
         /\ Listening(c)' => Listening(c)
         /\ Over(c) => Over(c)'
         /\ Listening(c) /\ ~Listening(c)' => Over(c)'
         /\ c \in callback => slot'[c] # "none"

\* The callbacks of the connections D are done with the signal in hand.
Done(D) ==
    /\ UNCHANGED <<wsvars, emitted, since>>
    /\ D # {} /\ D \subseteq todo
    /\ callback' = {}
    /\ Finish(todo \ D)
    /\ \/ /\ got' = got
          /\ refused' = refused \cup {Head(inbox)}
       \/ /\ got' = got
          /\ refused' = refused
          /\ \A c \in D : ~Listening(c)
       \/ /\ \E c \in D : D = {c} /\ Listening(c) /\ got' = [got EXCEPT ![c] = Append(@, Head(inbox))]
          /\ refused' = refused

LEMMA QuietSteps ==
    ASSUME TypeOK, Slots, Hands, NEW c \in Conns,
           \/ Connect(c) \/ Open(c) \/ RefuseQuery(c) \/ StoreSlot(c) \/ AddMatchFails(c)
           \/ ClientCloses(c) \/ CloseHandler(c) \/ CloseOne(c)
    PROVE  Quiet
  <1> USE DEF TypeOK, Slots, Hands, Quiet, Fresh, Listening, Over, busvars, stopvars, Touch, Idle, conn2slot_
  <1>1. CASE Connect(c)
    BY <1>1 DEF Connect
  <1>2. CASE Open(c)
    BY <1>2 DEF Open
  <1>3. CASE RefuseQuery(c)
    BY <1>3 DEF RefuseQuery
  <1>4. CASE StoreSlot(c)
    BY <1>4 DEF StoreSlot
  <1>5. CASE AddMatchFails(c)
    BY <1>5 DEF AddMatchFails
  <1>6. CASE ClientCloses(c)
    BY <1>6 DEF ClientCloses
  <1>7. CASE CloseHandler(c)
    BY <1>7 DEF CloseHandler
  <1>8. CASE CloseOne(c)
    BY <1>8 DEF CloseOne
  <1> QED BY <1>1, <1>2, <1>3, <1>4, <1>5, <1>6, <1>7, <1>8

LEMMA QuietClear ==
    ASSUME TypeOK, Slots, Hands, ClearSlots
    PROVE  Quiet
  BY DEF TypeOK, Slots, Hands, Quiet, Fresh, Listening, Over, busvars, conn2slot_, ClearSlots

\* Steps that leave connections and bus alone.
LEMMA IdleSteps ==
    ASSUME Hands, UNCHANGED <<wsvars, busvars, since>>
    PROVE  Quiet
  BY DEF Hands, Quiet, Fresh, Listening, Over, wsvars, busvars

LEMMA DoneSteps ==
    ASSUME TypeOK, Slots, Hands, NEW c \in Conns,
           SkipCallback(c) \/ UnknownSignal(c) \/ SendSignal(c) \/ ExtractFails(c)
    PROVE  \E D \in SUBSET Conns : Done(D)
  <1> USE DEF TypeOK, Slots, Hands, Listening, wsvars
  <1>1. CASE SkipCallback(c)
    <2>1. Done({c})
      BY <1>1 DEF SkipCallback, Done
    <2> QED BY <2>1
  <1>2. CASE UnknownSignal(c)
    <2>1. Done({c})
      BY <1>2 DEF UnknownSignal, Done
    <2> QED BY <2>1
  <1>3. CASE SendSignal(c)
    <2>1. c \in todo /\ slot[c] # "none" /\ callback' = {} /\ Finish(todo \ {c})
      BY <1>3 DEF SendSignal
    <2>2. CASE conn[c] \in {"opening", "open"}
      <3>1. Done({c})
        BY <1>3, <2>1, <2>2 DEF SendSignal, Done
      <3> QED BY <3>1
    <2>3. CASE conn[c] \notin {"opening", "open"}
      <3>1. Done({c})
        BY <1>3, <2>1, <2>3 DEF SendSignal, Done
      <3> QED BY <3>1
    <2> QED BY <2>2, <2>3
  <1>4. CASE ExtractFails(c)
    <2>1. PICK rest \in {todo \ {c}, {}} : Finish(rest)
      BY <1>4 DEF ExtractFails
    <2>2. todo \ (todo \ rest) = rest /\ todo \ rest # {} /\ todo \ rest \subseteq todo
      BY <1>4 DEF ExtractFails
    <2>3. Done(todo \ rest)
      BY <1>4, <2>1, <2>2 DEF ExtractFails, Done
    <2> QED BY <2>3
  <1> QED BY <1>1, <1>2, <1>3, <1>4

-----------------------------------------------------------------------------
(* Types *)

LEMMA TypesByConnection ==
    ASSUME SocketAssumption, TypeOK, Order, NEW c \in Conns,
           \/ Connect(c) \/ OpenHandler(c) \/ ClientCloses(c) \/ CloseHandler(c) \/ CloseOne(c)
    PROVE  TypeOK'
  <1> USE DEF SocketAssumption, TypeOK, busvars, stopvars, wsvars, Touch, Positions
  <1>1. CASE Connect(c)
    <2>1. query' \in [Conns -> Queries \cup {None}] /\ rule' \in [Conns -> Rules \cup {None}]
      BY <1>1 DEF Connect
    <2> QED BY <1>1, <2>1 DEF Connect
  <1>2. CASE OpenHandler(c)
    <2>1. CASE Open(c)
      BY <2>1 DEF Open
    <2>2. CASE RefuseQuery(c)
      BY <2>2 DEF RefuseQuery
    <2>3. CASE ThrowOnQuery(c)
      BY <2>3 DEF ThrowOnQuery
    <2>4. CASE AddMatch(c)
      <3>1. Len(emitted) \in 0..MaxSignals
        BY DEF Order
      <3> QED BY <2>4, <3>1 DEF AddMatch
    <2>5. CASE StoreSlot(c)
      BY <2>5 DEF StoreSlot
    <2>6. CASE AddMatchFails(c)
      BY <2>6 DEF AddMatchFails
    <2> QED BY <1>2, <2>1, <2>2, <2>3, <2>4, <2>5, <2>6 DEF OpenHandler
  <1>3. CASE ClientCloses(c)
    BY <1>3 DEF ClientCloses
  <1>4. CASE CloseHandler(c)
    BY <1>4 DEF CloseHandler, conn2slot_
  <1>5. CASE CloseOne(c)
    BY <1>5 DEF CloseOne
  <1> QED BY <1>1, <1>2, <1>3, <1>4, <1>5

LEMMA TypesByCallback ==
    ASSUME TypeOK, Hands, NEW c \in Conns, Callback(c)
    PROVE  TypeOK'
  <1> USE DEF TypeOK, stopvars, wsvars, Hands
  <1>1. c \in todo => Head(inbox) \in Positions /\ Tail(inbox) \in Seq(Positions)
    OBVIOUS
  <1>2. CASE SkipCallback(c)
    BY <1>1, <1>2 DEF SkipCallback, Finish
  <1>3. CASE UnknownSignal(c)
    BY <1>1, <1>3 DEF UnknownSignal, Finish
  <1>4. CASE LookupSignal(c)
    BY <1>4 DEF LookupSignal
  <1>5. CASE SendSignal(c)
    <2>1. got' \in [Conns -> Seq(Positions)]
      BY <1>1, <1>5 DEF SendSignal
    <2> QED BY <1>1, <1>5, <2>1 DEF SendSignal, Finish
  <1>6. CASE ExtractFails(c)
    BY <1>1, <1>6 DEF ExtractFails, Finish
  <1> QED BY <1>2, <1>3, <1>4, <1>5, <1>6 DEF Callback, SkipCallback, UnknownSignal, LookupSignal, SendSignal, ExtractFails

LEMMA TypeStep ==
    ASSUME SocketAssumption, TypeOK, Order, Hands, [Next]_vars
    PROVE  TypeOK'
  <1> USE DEF TypeOK, busvars, stopvars, wsvars
  <1>1. CASE \E i \in Interfaces : Describe(i)
    BY <1>1 DEF Describe
  <1>2. CASE \E sig \in Signals : Emit(sig)
    <2>1. PICK sig \in Signals : Emit(sig)
      BY <1>2
    <2>2. emitted' \in Seq(Signals)
      BY <2>1, ElementsOfAppend DEF Emit
    <2>3. Len(emitted) + 1 \in Positions
      BY <2>1 DEF Emit, SocketAssumption, Positions
    <2>4. inbox' \in Seq(Positions)
      BY <2>1, <2>3, ElementsOfAppend DEF Emit
    <2> QED BY <2>1, <2>2, <2>4 DEF Emit
  <1>3. CASE \E c \in Conns : Connect(c) \/ ClientCloses(c) \/ OpenHandler(c) \/ CloseHandler(c) \/ CloseOne(c)
    BY <1>3, TypesByConnection
  <1>4. CASE \E c \in Conns : Callback(c)
    BY <1>4, TypesByCallback
  <1>5. CASE Dispatch
    <2>1. inbox' \in Seq(Positions)
      BY <1>5 DEF Dispatch
    <2> QED BY <1>5, <2>1 DEF Dispatch
  <1>6. CASE WsExit \/ DbusExit
    BY <1>6 DEF WsExit, DbusExit
  <1>7. CASE StopListening \/ StopWs \/ JoinWs \/ JoinDbus
    BY <1>7 DEF StopListening, StopWs, JoinWs, JoinDbus, Goto, conn2slot_
  <1>8. CASE ClearSlots
    BY <1>8 DEF ClearSlots, Goto
  <1>9. CASE Crash
    BY <1>9 DEF Crash
  <1>10. CASE UNCHANGED vars
    BY <1>10 DEF vars
  <1> QED BY <1>1, <1>2, <1>3, <1>4, <1>5, <1>6, <1>7, <1>8, <1>9, <1>10 DEF Next, WsThread, DbusThread, StopSteps

-----------------------------------------------------------------------------
(* Connections and their slots, and the end of the threads *)

LEMMA SlotsByConnection ==
    ASSUME TypeOK, Slots, SocketAssumption, NEW c \in Conns,
           \/ Connect(c) \/ ClientCloses(c) \/ OpenHandler(c) \/ CloseHandler(c) \/ CloseOne(c)
    PROVE  Slots'
  <1> USE DEF TypeOK, Slots, Idle, busvars, stopvars, wsvars
  <1>1. CASE Connect(c)
    BY <1>1 DEF Connect
  <1>2. CASE Open(c)
    BY <1>2 DEF Open
  <1>3. CASE RefuseQuery(c)
    BY <1>3 DEF RefuseQuery
  <1>4. CASE ThrowOnQuery(c)
    BY <1>4 DEF ThrowOnQuery
  <1>5. CASE AddMatch(c)
    BY <1>5 DEF AddMatch
  <1>6. CASE StoreSlot(c)
    BY <1>6 DEF StoreSlot
  <1>7. CASE AddMatchFails(c)
    BY <1>7 DEF AddMatchFails
  <1>8. CASE ClientCloses(c)
    BY <1>8 DEF ClientCloses
  <1>9. CASE CloseHandler(c)
    BY <1>9 DEF CloseHandler
  <1>10. CASE CloseOne(c)
    BY <1>10 DEF CloseOne
  <1> QED BY <1>1, <1>2, <1>3, <1>4, <1>5, <1>6, <1>7, <1>8, <1>9, <1>10 DEF OpenHandler

LEMMA SlotsStep ==
    ASSUME SocketAssumption, TypeOK, Slots, [Next]_vars
    PROVE  Slots'
  <1>1. CASE UNCHANGED wsvars
    BY <1>1 DEF Slots, wsvars
  <1>2. CASE \E c \in Conns : Connect(c) \/ ClientCloses(c) \/ OpenHandler(c) \/ CloseHandler(c) \/ CloseOne(c)
    BY <1>2, SlotsByConnection
  <1>3. CASE ClearSlots
    BY <1>3 DEF ClearSlots, Slots, TypeOK, conn2slot_
  <1>4. CASE \E c \in Conns : Callback(c)
    <2>1. UNCHANGED wsvars
      BY <1>4 DEF Callback, SkipCallback, UnknownSignal, LookupSignal, SendSignal, ExtractFails
    <2> QED BY <2>1, <1>1
  <1>5. CASE (\E i \in Interfaces : Describe(i)) \/ (\E sig \in Signals : Emit(sig)) \/ Dispatch
    <2>1. UNCHANGED wsvars
      BY <1>5 DEF Describe, Emit, Dispatch
    <2> QED BY <2>1, <1>1
  <1>6. CASE WsExit \/ DbusExit \/ StopListening \/ StopWs \/ JoinWs \/ JoinDbus \/ Crash
    <2>1. UNCHANGED wsvars
      BY <1>6 DEF WsExit, DbusExit, StopListening, StopWs, JoinWs, JoinDbus, Crash
    <2> QED BY <2>1, <1>1
  <1>7. CASE UNCHANGED vars
    BY <1>7, <1>1 DEF vars, wsvars
  <1> QED BY <1>2, <1>3, <1>4, <1>5, <1>6, <1>7 DEF Next, WsThread, DbusThread, StopSteps

LEMMA EndingByConnection ==
    ASSUME TypeOK, Slots, Ending, NEW c \in Conns,
           \/ Connect(c) \/ ClientCloses(c) \/ OpenHandler(c) \/ CloseHandler(c) \/ CloseOne(c)
    PROVE  Ending'
  <1> USE DEF TypeOK, Slots, Ending, Busy, Idle, busvars, stopvars, wsvars
  <1>1. CASE Connect(c)
    BY <1>1 DEF Connect
  <1>2. CASE Open(c)
    BY <1>2 DEF Open
  <1>3. CASE RefuseQuery(c)
    BY <1>3 DEF RefuseQuery
  <1>4. CASE ThrowOnQuery(c)
    BY <1>4 DEF ThrowOnQuery
  <1>5. CASE AddMatch(c)
    BY <1>5 DEF AddMatch
  <1>6. CASE StoreSlot(c)
    BY <1>6 DEF StoreSlot
  <1>7. CASE AddMatchFails(c)
    BY <1>7 DEF AddMatchFails
  <1>8. CASE ClientCloses(c)
    BY <1>8 DEF ClientCloses
  <1>9. CASE CloseHandler(c)
    BY <1>9 DEF CloseHandler
  <1>10. CASE CloseOne(c)
    BY <1>10 DEF CloseOne
  <1> QED BY <1>1, <1>2, <1>3, <1>4, <1>5, <1>6, <1>7, <1>8, <1>9, <1>10 DEF OpenHandler

LEMMA EndingStep ==
    ASSUME TypeOK, Slots, Ending, Hands, [Next]_vars
    PROVE  Ending'
  <1> USE DEF TypeOK, Slots, Ending, Busy, Idle, Goto, busvars, stopvars, wsvars
  <1>1. CASE (\E i \in Interfaces : Describe(i)) \/ (\E sig \in Signals : Emit(sig))
    BY <1>1 DEF Describe, Emit
  <1>2. CASE \E c \in Conns : Connect(c) \/ ClientCloses(c) \/ OpenHandler(c) \/ CloseHandler(c) \/ CloseOne(c)
    BY <1>2, EndingByConnection
  <1>3. CASE ClearSlots
    BY <1>3 DEF ClearSlots
  <1>4. CASE \E c \in Conns : Callback(c)
    <2>1. dbus /\ UNCHANGED <<wsvars, stopvars, late>>
      BY <1>4 DEF Hands, Callback, SkipCallback, UnknownSignal, LookupSignal, SendSignal, ExtractFails
    <2> QED BY <2>1
  <1>5. CASE Dispatch
    BY <1>5 DEF Dispatch
  <1>6. CASE WsExit
    BY <1>6 DEF WsExit
  <1>7. CASE DbusExit
    BY <1>7 DEF DbusExit
  <1>8. CASE StopListening \/ StopWs \/ JoinWs \/ JoinDbus
    BY <1>8 DEF StopListening, StopWs, JoinWs, JoinDbus
  <1>9. CASE Crash
    BY <1>9 DEF Crash
  <1>10. CASE UNCHANGED vars
    BY <1>10 DEF vars
  <1> QED BY <1>1, <1>2, <1>3, <1>4, <1>5, <1>6, <1>7, <1>8, <1>9, <1>10 DEF Next, WsThread, DbusThread, StopSteps

-----------------------------------------------------------------------------
(* What waits and what is owed *)

\* Every step is one of six kinds.
LEMMA Effects ==
    ASSUME TypeOK, Slots, Hands, [Next]_vars
    PROVE  \/ Quiet
           \/ \E c \in Conns : AddMatch(c)
           \/ \E sig \in Signals : Emit(sig)
           \/ Dispatch
           \/ \E c \in Conns : LookupSignal(c)
           \/ \E D \in SUBSET Conns : Done(D)
  <1>1. CASE \E c \in Conns : Connect(c) \/ ClientCloses(c) \/ CloseHandler(c) \/ CloseOne(c)
    BY <1>1, QuietSteps
  <1>2. CASE \E c \in Conns : OpenHandler(c)
    <2>1. PICK c \in Conns : OpenHandler(c)
      BY <1>2
    <2>2. CASE ThrowOnQuery(c)
      BY <2>2, IdleSteps DEF ThrowOnQuery
    <2> QED BY <2>1, <2>2, QuietSteps DEF OpenHandler
  <1>3. CASE ClearSlots
    BY <1>3, QuietClear
  <1>4. CASE \E c \in Conns : Callback(c)
    BY <1>4, DoneSteps DEF Callback
  <1>5. CASE (\E i \in Interfaces : Describe(i)) \/ WsExit \/ DbusExit \/ StopListening
             \/ StopWs \/ JoinWs \/ JoinDbus \/ Crash \/ UNCHANGED vars
    <2>1. UNCHANGED <<wsvars, busvars, since>>
      BY <1>5 DEF Describe, WsExit, DbusExit, StopListening, StopWs, JoinWs, JoinDbus, Crash, vars, wsvars, busvars
    <2> QED BY <2>1, IdleSteps
  <1> QED BY <1>1, <1>2, <1>3, <1>4, <1>5 DEF Next, WsThread, DbusThread, StopSteps

\* What Head and Tail do to the inbox.
LEMMA InboxHead ==
    ASSUME TypeOK, Order, inbox # <<>>
    PROVE  /\ Head(inbox) \in Waiting /\ Head(inbox) \in 1..Len(emitted)
           /\ \A k \in Waiting : Head(inbox) <= k
           /\ Elements(Tail(inbox)) = Waiting \ {Head(inbox)}
           /\ Increasing(Tail(inbox))
  <1>1. inbox \in Seq(Positions) /\ Positions \in SUBSET Nat
    BY DEF TypeOK, Positions
  <1>2. Waiting = Elements(inbox)
    BY DEF Waiting, Elements
  <1> QED BY <1>1, <1>2, HeadAndTail DEF Order

LEMMA InboxGrows ==
    ASSUME TypeOK, Order, NEW sig \in Signals, Emit(sig)
    PROVE  /\ Waiting' = IF \E c \in Conns : slot[c] # "none" /\ sig \in Matches[rule[c]]
                         THEN Waiting \cup {Len(emitted) + 1} ELSE Waiting
           /\ Increasing(inbox')
           /\ inbox # <<>> => inbox' # <<>> /\ Head(inbox') = Head(inbox)
  <1> DEFINE n == Len(emitted) + 1
  <1>1. /\ inbox \in Seq(Positions) /\ Positions \in SUBSET Nat
        /\ n \in Nat
        /\ \A k \in Elements(inbox) : k < n
    <2>1. inbox \in Seq(Positions) /\ Positions \in SUBSET Nat /\ Len(emitted) \in Nat
      BY DEF TypeOK, Positions
    <2>2. Elements(inbox) \subseteq 1..Len(emitted)
      BY DEF Order, Waiting, Elements
    <2> QED BY <2>1, <2>2
  <1>2. Increasing(Append(inbox, n)) /\ Elements(Append(inbox, n)) = Elements(inbox) \cup {n}
    <2>1. Increasing(Append(inbox, n))
      BY <1>1, IncreasingAppend DEF Order
    <2>2. inbox \in Seq(Nat)
      <3>1. \A k \in 1..Len(inbox) : inbox[k] \in Nat
        <4>1. \A k \in 1..Len(inbox) : inbox[k] \in Positions
          BY <1>1
        <4> QED BY <4>1, <1>1
      <3> QED BY <1>1, <3>1, ElementOfSeq, SeqDef
    <2>3. Elements(Append(inbox, n)) = Elements(inbox) \cup {n}
      BY <1>1, <2>2, ElementsOfAppend
    <2> QED BY <2>1, <2>3
  <1>3. inbox # <<>> => Append(inbox, n) # <<>> /\ Head(Append(inbox, n)) = Head(inbox)
    BY <1>1
  <1>4. Waiting = Elements(inbox) /\ Waiting' = Elements(inbox')
    BY DEF Waiting, Elements
  <1> QED BY <1>2, <1>3, <1>4 DEF Emit, Order

LEMMA EmittedGrows ==
    ASSUME TypeOK, NEW sig \in Signals, Emit(sig)
    PROVE  /\ Len(emitted) \in Nat /\ Len(emitted') = Len(emitted) + 1
           /\ emitted'[Len(emitted) + 1] = sig
           /\ \A k \in 1..Len(emitted) : emitted'[k] = emitted[k]
  BY DEF TypeOK, Emit

LEMMA OrderStep ==
    ASSUME SocketAssumption, TypeOK, Order, Slots, Hands, [Next]_vars
    PROVE  Order'
  <1>1. CASE Quiet
    BY <1>1 DEF Quiet, busvars, Order, Waiting
  <1>2. CASE \E c \in Conns : AddMatch(c)
    BY <1>2 DEF AddMatch, busvars, Order, Waiting, TypeOK
  <1>3. CASE \E sig \in Signals : Emit(sig)
    <2>1. PICK sig \in Signals : Emit(sig)
      BY <1>3
    <2>2. /\ Len(emitted) \in Nat /\ Len(emitted') = Len(emitted) + 1
          /\ Len(emitted) < MaxSignals /\ since' = since
      BY <2>1, EmittedGrows DEF Emit
    <2>3. Waiting' \subseteq 1..Len(emitted') /\ Increasing(inbox')
      <3>1. Waiting' \subseteq Waiting \cup {Len(emitted) + 1} /\ Increasing(inbox')
        BY <2>1, InboxGrows
      <3>2. Waiting \subseteq 1..Len(emitted)
        BY DEF Order
      <3> HIDE DEF Waiting
      <3>3. \A k \in Waiting \cup {Len(emitted) + 1} : k \in 1..Len(emitted')
        BY <2>2, <3>2
      <3> QED BY <3>1, <3>3
    <2>4. Len(emitted') <= MaxSignals /\ \A c \in Conns : since'[c] <= Len(emitted')
      BY <2>2 DEF Order, TypeOK, SocketAssumption
    <2> QED BY <2>3, <2>4 DEF Order
  <1>4. CASE Dispatch \/ \E D \in SUBSET Conns : Done(D)
    <2>1. emitted' = emitted /\ since' = since /\ (inbox' = inbox \/ (inbox # <<>> /\ inbox' = Tail(inbox)))
      BY <1>4 DEF Dispatch, Done, Finish, Hands
    <2>2. Waiting' = Elements(inbox') /\ Waiting = Elements(inbox)
      BY DEF Waiting, Elements
    <2> QED BY <2>1, <2>2, InboxHead DEF Order
  <1>5. CASE \E c \in Conns : LookupSignal(c)
    BY <1>5 DEF LookupSignal, Order, Waiting
  <1> QED BY <1>1, <1>2, <1>3, <1>4, <1>5, Effects

\* What Done does to the inbox and to what is owed.
LEMMA DoneEffect ==
    ASSUME TypeOK, Order, Slots, Hands, NEW D \in SUBSET Conns, Done(D)
    PROVE  /\ inbox # <<>> /\ Head(inbox) \in Waiting /\ Head(inbox) \in 1..Len(emitted)
           /\ \A k \in Waiting : Head(inbox) <= k
           /\ \A c \in D : c \in todo /\ Head(inbox) \in Owed(c)
           /\ Waiting' = IF todo' = {} THEN Waiting \ {Head(inbox)} ELSE Waiting
           /\ \A c \in Conns : \A k : Settled(c, k)' =
                (todo' # {} /\ k = Head(inbox) /\ (c \in D \/ Settled(c, k)))
           /\ \A c \in Conns : Owed(c)' = IF c \in D THEN Owed(c) \ {Head(inbox)} ELSE Owed(c)
  <1> DEFINE h == Head(inbox)
  <1>1. /\ D # {} /\ D \subseteq todo /\ todo' = todo \ D
        /\ inbox' = IF todo' = {} THEN Tail(inbox) ELSE inbox
        /\ emitted' = emitted /\ rule' = rule
    BY DEF Done, Finish, wsvars
  <1>2. inbox # <<>> /\ h \in Waiting /\ h \in 1..Len(emitted) /\ \A k \in Waiting : h <= k
    BY <1>1, InboxHead DEF Hands
  <1>3. \A c \in D : c \in todo /\ h \in Owed(c)
    BY <1>1, <1>2 DEF Hands, Owed, Settled
  <1>4. Waiting' = IF todo' = {} THEN Waiting \ {h} ELSE Waiting
    <2>1. Waiting' = Elements(inbox') /\ Waiting = Elements(inbox)
      BY DEF Waiting, Elements
    <2> QED BY <1>1, <1>2, <2>1, InboxHead
  <1>5. \A c \in Conns : \A k : Settled(c, k)' = (todo' # {} /\ k = h /\ (c \in D \/ Settled(c, k)))
    BY <1>1 DEF Settled
  <1>6. ASSUME NEW c \in Conns
        PROVE  Owed(c)' = IF c \in D THEN Owed(c) \ {h} ELSE Owed(c)
    <2>1. Owed(c)' = {k \in Waiting' : emitted[k] \in Matches[rule[c]] /\ ~Settled(c, k)'}
      BY <1>1 DEF Owed
    <2>2. Owed(c) = {k \in Waiting : emitted[k] \in Matches[rule[c]] /\ ~(c \notin todo /\ k = h)}
      BY <1>1 DEF Owed, Settled
    <2>3. Owed(c)' = {k \in Waiting' : emitted[k] \in Matches[rule[c]] /\ ~(todo' # {} /\ k = h /\ (c \in D \/ c \notin todo))}
      BY <1>1, <1>5, <2>1 DEF Settled
    <2>4. CASE todo' = {}
      BY <1>1, <1>4, <2>2, <2>3, <2>4
    <2>5. CASE todo' # {}
      BY <1>1, <1>4, <2>2, <2>3, <2>5
    <2> QED BY <2>4, <2>5
  <1> QED BY <1>2, <1>3, <1>4, <1>5, <1>6

LEMMA HandsStep ==
    ASSUME SocketAssumption, TypeOK, Order, Slots, Hands, [Next]_vars
    PROVE  Hands'
  <1>1. CASE Quiet
    BY <1>1 DEF Quiet, busvars, Hands, TypeOK, Fresh
  <1>2. CASE \E c \in Conns : AddMatch(c)
    BY <1>2 DEF AddMatch, busvars, Hands, Fresh, TypeOK
  <1>3. CASE \E sig \in Signals : Emit(sig)
    <2>1. PICK sig \in Signals : Emit(sig)
      BY <1>3
    <2>2. UNCHANGED <<callback, todo, conn, rule, slot>>
      BY <2>1 DEF Emit, wsvars
    <2>3. todo # {} => inbox' # <<>> /\ emitted'[Head(inbox')] = emitted[Head(inbox)]
      BY <2>1, InboxGrows, InboxHead, EmittedGrows DEF Hands
    <2> QED BY <2>2, <2>3 DEF Hands, Fresh
  <1>4. CASE Dispatch
    BY <1>4 DEF Dispatch, Hands, Slots, TypeOK, Fresh, Busy, wsvars
  <1>5. CASE \E D \in SUBSET Conns : Done(D)
    BY <1>5 DEF Done, Finish, Hands, Fresh, wsvars
  <1>6. CASE \E c \in Conns : LookupSignal(c)
    BY <1>6 DEF LookupSignal, Hands, Fresh, wsvars
  <1> QED BY <1>1, <1>2, <1>3, <1>4, <1>5, <1>6, Effects

\* Dispatch looks at slots, as does the daemon: nobody who listens loses anything.
LEMMA DispatchEffect ==
    ASSUME TypeOK, Order, Slots, Hands, Dispatch
    PROVE  /\ Waiting' \subseteq Waiting
           /\ \A c \in Conns : \A k : Settled(c, k)' => c \notin todo'
           /\ \A c \in Conns : \A j \in Waiting' : ~Settled(c, j)
           /\ \A c \in Conns : Listening(c) => Owed(c)' = Owed(c)
  <1> DEFINE h == Head(inbox)
             called == {c \in Conns : slot[c] # "none" /\ emitted[h] \in Matches[rule[c]]}
  <1>1. /\ inbox # <<>> /\ todo = {} /\ todo' = called
        /\ inbox' = IF called = {} THEN Tail(inbox) ELSE inbox
        /\ emitted' = emitted /\ rule' = rule
    BY DEF Dispatch, Busy, wsvars
  <1>2. Waiting' = IF called = {} THEN Waiting \ {h} ELSE Waiting
    <2>1. Waiting' = Elements(inbox') /\ Waiting = Elements(inbox)
      BY DEF Waiting, Elements
    <2> QED BY <1>1, <2>1, InboxHead
  <1>3. \A c \in Conns : \A k : Settled(c, k)' = (called # {} /\ c \notin called /\ k = h)
    BY <1>1 DEF Settled
  <1>4. \A c \in Conns : \A k : ~Settled(c, k)
    BY <1>1 DEF Settled
  <1>5. ASSUME NEW c \in Conns, Listening(c)
        PROVE  Owed(c)' = Owed(c)
    <2>1. Owed(c)' = {k \in Waiting' : emitted[k] \in Matches[rule[c]] /\ ~(called # {} /\ c \notin called /\ k = h)}
      BY <1>1, <1>3 DEF Owed
    <2>2. Owed(c) = {k \in Waiting : emitted[k] \in Matches[rule[c]]}
      BY <1>4 DEF Owed
    <2>3. c \notin called => emitted[h] \notin Matches[rule[c]]
      BY <1>5 DEF Listening
    <2> QED BY <1>2, <2>1, <2>2, <2>3
  <1> QED BY <1>1, <1>2, <1>3, <1>4, <1>5

LEMMA EmitEffect ==
    ASSUME TypeOK, Order, Hands, NEW sig \in Signals, Emit(sig)
    PROVE  /\ Waiting \subseteq Waiting' /\ Waiting' \subseteq Waiting \cup {Len(emitted) + 1}
           /\ \A c \in Conns : \A k : Settled(c, k)' = Settled(c, k)
           /\ \A c \in Conns : Listening(c) =>
                Owed(c)' = IF sig \in Matches[rule[c]] THEN Owed(c) \cup {Len(emitted) + 1} ELSE Owed(c)
  <1> DEFINE n == Len(emitted) + 1
  <1>1. /\ Waiting' = IF \E c \in Conns : slot[c] # "none" /\ sig \in Matches[rule[c]]
                      THEN Waiting \cup {n} ELSE Waiting
        /\ inbox # <<>> => Head(inbox') = Head(inbox)
    BY InboxGrows
  <1>2. UNCHANGED <<todo, rule, slot, conn>>
    BY DEF Emit, wsvars
  <1>3. /\ \A k \in Waiting : k # n /\ emitted'[k] = emitted[k]
        /\ emitted'[n] = sig
    BY EmittedGrows DEF Order
  <1>4. \A c \in Conns : \A k : Settled(c, k)' = Settled(c, k)
    BY <1>1, <1>2 DEF Settled, Hands
  <1>5. \A c \in Conns : ~Settled(c, n)
    BY <1>3, InboxHead DEF Settled, Hands
  <1>6. ASSUME NEW c \in Conns, Listening(c)
        PROVE  Owed(c)' = IF sig \in Matches[rule[c]] THEN Owed(c) \cup {n} ELSE Owed(c)
    <2>1. Owed(c)' = {k \in Waiting' : emitted'[k] \in Matches[rule[c]] /\ ~Settled(c, k)}
      BY <1>2, <1>4 DEF Owed
    <2>2. CASE sig \in Matches[rule[c]]
      <3>1. Waiting' = Waiting \cup {n}
        BY <1>1, <1>6, <2>2 DEF Listening
      <3> QED BY <1>3, <1>5, <2>1, <2>2, <3>1 DEF Owed
    <2>3. CASE sig \notin Matches[rule[c]]
      BY <1>1, <1>3, <1>5, <2>1, <2>3 DEF Owed
    <2> QED BY <2>2, <2>3
  <1> QED BY <1>1, <1>4, <1>6

-----------------------------------------------------------------------------
(* Streams *)

LEMMA DoneNeverIdle ==
    ASSUME NEW D \in SUBSET Conns, Done(D), got' = got, NEW c \in D, Listening(c),
           TypeOK
    PROVE  Head(inbox) \in refused'
  <1>1. ASSUME NEW d \in D, got' = [got EXCEPT ![d] = Append(@, Head(inbox))]
        PROVE  FALSE
    <2>1. got[d] \in Seq(Positions) /\ got'[d] = Append(got[d], Head(inbox))
      BY <1>1 DEF TypeOK
    <2>2. Len(Append(got[d], Head(inbox))) = Len(got[d]) + 1 /\ Len(got[d]) \in Nat
      BY <2>1
    <2> QED BY <2>1, <2>2
  <1> QED BY <1>1 DEF Done

\* A callback sends one signal, later than all that its connection got before.
LEMMA SentByDone ==
    ASSUME TypeOK, Order, Slots, Hands, Streams, NEW D \in SUBSET Conns, Done(D), got' # got
    PROVE  \E c \in D :
             /\ D = {c} /\ Listening(c)
             /\ got' = [got EXCEPT ![c] = Append(@, Head(inbox))]
             /\ Sent(c)' = Sent(c) \cup {Head(inbox)}
             /\ Increasing(got'[c])
             /\ \A d \in Conns : d # c => got'[d] = got[d]
  <1> DEFINE h == Head(inbox)
  <1>1. PICK c \in D : D = {c} /\ Listening(c) /\ got' = [got EXCEPT ![c] = Append(@, h)]
    BY DEF Done
  <1>2. c \in Conns /\ got[c] \in Seq(Positions) /\ Positions \in SUBSET Nat
    BY DEF TypeOK, Positions
  <1>3. h \in Waiting /\ c \in todo /\ h \in 1..Len(emitted)
    BY DoneEffect
  <1>4. h \in Nat
    BY <1>3
  <1>5. got'[c] = Append(got[c], h) /\ \A d \in Conns : d # c => got'[d] = got[d]
    BY <1>1, <1>2 DEF TypeOK
  <1>6. \A k \in Elements(got[c]) : k < h
    BY <1>2, <1>3 DEF Streams, Settled, Sent, Elements
  <1>7. Increasing(Append(got[c], h))
    BY <1>2, <1>4, <1>6, IncreasingAppend DEF Streams
  <1>8. h \in Positions
    <2>1. inbox # <<>> /\ inbox \in Seq(Positions)
      BY DoneEffect DEF TypeOK
    <2> QED BY <2>1
  <1>9. Elements(Append(got[c], h)) = Elements(got[c]) \cup {h}
    BY <1>2, <1>8, ElementsOfAppend
  <1>10. Sent(c)' = Elements(got'[c]) /\ Sent(c) = Elements(got[c])
    BY DEF Sent, Elements
  <1> QED BY <1>1, <1>2, <1>5, <1>7, <1>9, <1>10

LEMMA StreamsStep ==
    ASSUME SocketAssumption, TypeOK, Order, Slots, Hands, Streams, [Next]_vars
    PROVE  Streams'
  <1>1. CASE Quiet
    <2>1. ASSUME NEW c \in Conns, Fresh(c)
          PROVE  Sent(c) = {} /\ Sent(c)' = {}
      <3>1. got[c] = <<>> /\ got'[c] = <<>>
        BY <1>1, <2>1 DEF Streams, Quiet, busvars
      <3> QED BY <3>1 DEF Sent
    <2>2. \A c \in Conns : \A j : Settled(c, j)' = Settled(c, j)
      BY <1>1 DEF Quiet, busvars, Settled
    <2>3. Waiting' = Waiting /\ got' = got /\ emitted' = emitted /\ \A c \in Conns : Sent(c)' = Sent(c)
      BY <1>1 DEF Quiet, busvars, Waiting, Sent
    <2>4. \A c \in Conns : rule'[c] = rule[c] \/ Fresh(c)
      BY <1>1 DEF Quiet, Fresh
    <2>5. \A c \in Conns : Fresh(c)' => Fresh(c)
      BY <1>1 DEF Quiet
    <2> QED BY <2>1, <2>2, <2>3, <2>4, <2>5 DEF Streams
  <1>2. CASE \E c \in Conns : AddMatch(c)
    BY <1>2 DEF AddMatch, busvars, Streams, Fresh, Sent, Waiting, Settled
  <1>3. CASE \E sig \in Signals : Emit(sig)
    <2>1. PICK sig \in Signals : Emit(sig)
      BY <1>3
    <2>2. UNCHANGED <<got, rule, conn>> /\ \A c \in Conns : Sent(c)' = Sent(c)
      BY <2>1 DEF Emit, wsvars, Sent
    <2>3. \A k \in 1..Len(emitted) : k < Len(emitted) + 1 /\ k \in 1..Len(emitted') /\ emitted'[k] = emitted[k]
      BY <2>1, EmittedGrows
    <2>4. /\ Waiting' \subseteq Waiting \cup {Len(emitted) + 1}
          /\ \A c \in Conns : \A k : Settled(c, k)' = Settled(c, k)
      BY <2>1, EmitEffect
    <2>5. \A c \in Conns : Fresh(c)' = Fresh(c)
      BY <2>2 DEF Fresh
    <2> QED BY <2>2, <2>3, <2>4, <2>5 DEF Streams
  <1>4. CASE Dispatch
    <2>1. UNCHANGED <<got, rule, conn, emitted>> /\ \A c \in Conns : Sent(c)' = Sent(c) /\ Fresh(c)' = Fresh(c)
      BY <1>4 DEF Dispatch, wsvars, Sent, Fresh
    <2>2. Waiting' \subseteq Waiting /\ \A c \in Conns : \A j \in Waiting' : ~Settled(c, j)
      BY <1>4, DispatchEffect
    <2> QED BY <2>1, <2>2 DEF Streams
  <1>5. CASE \E D \in SUBSET Conns : Done(D)
    <2>1. PICK D \in SUBSET Conns : Done(D)
      BY <1>5
    <2> DEFINE h == Head(inbox)
    <2>2. UNCHANGED <<rule, conn, emitted>> /\ \A c \in Conns : Fresh(c)' = Fresh(c)
      BY <2>1 DEF Done, wsvars, Fresh
    <2>3. /\ Waiting' = IF todo' = {} THEN Waiting \ {h} ELSE Waiting
          /\ h \in 1..Len(emitted) /\ \A k \in Waiting : h <= k
          /\ \A c \in D : c \in todo
      BY <2>1, DoneEffect
    <2>4. \A c \in Conns : \A k : Settled(c, k)' = (todo' # {} /\ k = h /\ (c \in D \/ Settled(c, k)))
      BY <2>1, DoneEffect
    <2>5. Waiting \subseteq 1..Len(emitted)
      BY DEF Order
    <2>6. ASSUME NEW c \in Conns, NEW j \in Waiting', NEW k \in Sent(c)
          PROVE  k < j \/ (k = j /\ Settled(c, j)')
      <3>1. j \in Waiting /\ (k < j \/ (k = j /\ Settled(c, j)))
        BY <2>3, <2>6 DEF Streams
      <3>2. Settled(c, j) => j = h /\ (j \in Waiting' => todo' # {})
        BY <2>3 DEF Settled
      <3> QED BY <2>4, <3>1, <3>2
    <2>7. CASE got' = got
      BY <2>2, <2>6, <2>7 DEF Streams, Sent
    <2>8. CASE got' # got
      <3>1. PICK c \in D : /\ D = {c} /\ Listening(c)
                           /\ Sent(c)' = Sent(c) \cup {h}
                           /\ Increasing(got'[c])
                           /\ \A d \in Conns : d # c => got'[d] = got[d]
        BY <2>1, <2>8, SentByDone
      <3>2. \A d \in Conns : d # c => Sent(d)' = Sent(d) /\ Increasing(got'[d])
        BY <3>1 DEF Sent, Streams
      <3>3. \A j \in Waiting' : h < j \/ (h = j /\ Settled(c, j)')
        <4>1. ASSUME NEW j \in Waiting' PROVE j \in Waiting /\ j \in Nat /\ h \in Nat /\ h <= j /\ (j = h => todo' # {})
          BY <2>3, <2>5
        <4>2. c \in Conns /\ c \in D
          BY <3>1
        <4>3. \A j \in Waiting' : j = h => Settled(c, j)'
          BY <2>1, <4>1, <4>2 DEF Done, Finish, Settled
        <4>4. \A j \in Waiting' : h < j \/ h = j
          BY <4>1
        <4> QED BY <4>3, <4>4
      <3>4. emitted[h] \in Matches[rule[c]] /\ ~Fresh(c)
        BY <2>3, <3>1 DEF Hands
      <3>5. \A d \in Conns : \A k \in Sent(d)' : k \in Sent(d) \/ (d = c /\ k = h)
        BY <3>1, <3>2
      <3>6. \A d \in Conns : Increasing(got'[d]) /\ (Fresh(d) => got'[d] = <<>>)
        BY <3>1, <3>2, <3>4 DEF Streams
      <3>7. \A d \in Conns : \A k \in Sent(d)' : k \in 1..Len(emitted) /\ emitted[k] \in Matches[rule[d]]
        BY <2>3, <3>4, <3>5 DEF Streams
      <3>8. \A d \in Conns : \A k \in Sent(d)' : \A j \in Waiting' : k < j \/ (k = j /\ Settled(d, j)')
        BY <2>6, <3>3, <3>5
      <3> QED BY <2>2, <3>6, <3>7, <3>8 DEF Streams
    <2> QED BY <2>7, <2>8
  <1>6. CASE \E c \in Conns : LookupSignal(c)
    <2>1. UNCHANGED <<got, rule, conn, emitted, inbox, todo>>
      BY <1>6 DEF LookupSignal, wsvars
    <2>2. Waiting' = Waiting /\ \A c \in Conns : Sent(c)' = Sent(c) /\ Fresh(c)' = Fresh(c)
      BY <2>1 DEF Waiting, Sent, Fresh
    <2>3. \A c \in Conns : \A j : Settled(c, j)' = Settled(c, j)
      BY <2>1 DEF Settled
    <2> QED BY <2>1, <2>2, <2>3 DEF Streams
  <1> QED BY <1>1, <1>2, <1>3, <1>4, <1>5, <1>6, Effects

LEMMA NothingOwedLostStep ==
    ASSUME SocketAssumption, TypeOK, Order, Slots, Hands, Streams, NothingOwedLost, [Next]_vars
    PROVE  NothingOwedLost'
  <1> SUFFICES ASSUME NEW c \in Conns, Listening(c)'
               PROVE  Due(c)' \subseteq Sent(c)' \cup refused' \cup Owed(c)'
    BY DEF NothingOwedLost
  <1> USE DEF NothingOwedLost
  <1>1. CASE Quiet
    <2>1. Listening(c) /\ rule'[c] = rule[c]
      BY <1>1 DEF Quiet, Listening
    <2>2. UNCHANGED <<emitted, inbox, todo, got, refused, since>>
      BY <1>1 DEF Quiet, busvars
    <2> QED BY <2>1, <2>2 DEF Due, Sent, Owed, Waiting, Settled
  <1>2. CASE \E d \in Conns : AddMatch(d)
    <2>1. PICK d \in Conns : AddMatch(d)
      BY <1>2
    <2>2. UNCHANGED <<emitted, inbox, todo, got, refused, rule, conn>>
      BY <2>1 DEF AddMatch, busvars
    <2>3. CASE c = d
      <3>1. since'[c] = Len(emitted) /\ Len(emitted) \in Nat
        BY <2>1, <2>3 DEF AddMatch, TypeOK
      <3>2. Due(c)' = {}
        BY <2>2, <3>1 DEF Due
      <3> QED BY <3>2
    <2>4. CASE c # d
      <3>1. since'[c] = since[c] /\ slot'[c] = slot[c]
        BY <2>1, <2>4 DEF AddMatch, TypeOK
      <3>2. Listening(c)
        BY <2>2, <3>1 DEF Listening
      <3> QED BY <2>2, <3>1, <3>2 DEF Due, Sent, Owed, Waiting, Settled
    <2> QED BY <2>3, <2>4
  <1>3. CASE \E sig \in Signals : Emit(sig)
    <2>1. PICK sig \in Signals : Emit(sig)
      BY <1>3
    <2> DEFINE n == Len(emitted) + 1
    <2>2. UNCHANGED <<since, got, refused, rule, conn, slot>>
      BY <2>1 DEF Emit, wsvars
    <2>3. Listening(c) /\ Sent(c)' = Sent(c)
      BY <2>2 DEF Listening, Sent
    <2>4. /\ Len(emitted) \in Nat /\ Len(emitted') = n /\ emitted'[n] = sig
          /\ \A k \in 1..Len(emitted) : emitted'[k] = emitted[k]
      BY <2>1, EmittedGrows
    <2>5. Owed(c)' = IF sig \in Matches[rule[c]] THEN Owed(c) \cup {n} ELSE Owed(c)
      BY <2>1, <2>3, EmitEffect
    <2>6. ASSUME NEW k \in Due(c)'
          PROVE  k \in Due(c) \/ (k = n /\ sig \in Matches[rule[c]])
      <3>1. since[c] \in Nat /\ k \in (since[c] + 1)..n /\ emitted'[k] \in Matches[rule[c]]
        BY <2>2, <2>4 DEF Due, TypeOK
      <3> QED BY <2>4, <3>1 DEF Due
    <2>7. Due(c) \subseteq Sent(c) \cup refused \cup Owed(c)
      BY <2>3
    <2> QED BY <2>2, <2>3, <2>5, <2>6, <2>7
  <1>4. CASE Dispatch
    <2>1. UNCHANGED <<emitted, got, refused, since, rule, conn, slot>>
      BY <1>4 DEF Dispatch, wsvars
    <2>2. Listening(c)
      BY <2>1 DEF Listening
    <2>3. Owed(c)' = Owed(c)
      BY <1>4, <2>2, DispatchEffect
    <2> QED BY <2>1, <2>2, <2>3 DEF Due, Sent
  <1>5. CASE \E D \in SUBSET Conns : Done(D)
    <2>1. PICK D \in SUBSET Conns : Done(D)
      BY <1>5
    <2> DEFINE h == Head(inbox)
    <2>2. UNCHANGED <<emitted, since, rule, conn, slot>> /\ refused \subseteq refused'
      BY <2>1 DEF Done, wsvars
    <2>3. Listening(c) /\ Due(c)' = Due(c)
      BY <2>2 DEF Listening, Due
    <2>4. Owed(c)' = IF c \in D THEN Owed(c) \ {h} ELSE Owed(c)
      BY <2>1, DoneEffect
    <2>5. Sent(c) \subseteq Sent(c)' /\ (c \in D => h \in Sent(c)' \cup refused')
      <3>1. CASE got' = got
        <4>1. Sent(c)' = Sent(c)
          BY <3>1 DEF Sent
        <4>2. c \in D => h \in refused'
          BY <2>1, <2>3, <3>1, DoneNeverIdle
        <4> QED BY <4>1, <4>2
      <3>2. CASE got' # got
        <4>1. PICK d \in D : /\ D = {d}
                             /\ Sent(d)' = Sent(d) \cup {h}
                             /\ \A e \in Conns : e # d => got'[e] = got[e]
          BY <2>1, <3>2, SentByDone
        <4>2. CASE c = d
          BY <4>1, <4>2
        <4>3. CASE c # d
          <5>1. Sent(c)' = Sent(c)
            BY <4>1, <4>3 DEF Sent
          <5> QED BY <4>1, <4>3, <5>1
        <4> QED BY <4>2, <4>3
      <3> QED BY <3>1, <3>2
    <2>6. Due(c) \subseteq Sent(c) \cup refused \cup Owed(c)
      BY <2>3
    <2> QED BY <2>2, <2>3, <2>4, <2>5, <2>6
  <1>6. CASE \E d \in Conns : LookupSignal(d)
    <2>1. UNCHANGED <<got, rule, conn, slot, emitted, inbox, todo, since, refused>>
      BY <1>6 DEF LookupSignal, wsvars
    <2> QED BY <2>1 DEF Listening, Due, Sent, Owed, Waiting, Settled
  <1> QED BY <1>1, <1>2, <1>3, <1>4, <1>5, <1>6, Effects

-----------------------------------------------------------------------------
(* Theorems *)

LEMMA IInvInit ==
    ASSUME SocketAssumption, Init
    PROVE  IInv
  <1> USE DEF Init
  <1>1. TypeOK
    <2>1. <<>> \in Seq(Positions) /\ <<>> \in Seq(Signals) /\ 0 \in 0..MaxSignals
      BY DEF SocketAssumption
    <2>2. got \in [Conns -> Seq(Positions)] /\ since \in [Conns -> 0..MaxSignals]
      BY <2>1
    <2> QED BY <2>1, <2>2 DEF TypeOK
  <1>2. Waiting = {} /\ \A c \in Conns : Sent(c) = {}
    BY DEF Waiting, Sent
  <1>3. Order /\ Slots /\ Hands /\ Ending
    BY <1>2 DEF Order, Slots, Hands, Ending, Increasing, SocketAssumption
  <1>4. Streams
    BY <1>2 DEF Streams, Increasing
  <1>5. NothingOwedLost
    BY DEF NothingOwedLost, Listening
  <1> QED BY <1>1, <1>3, <1>4, <1>5 DEF IInv

LEMMA IInvStep ==
    ASSUME SocketAssumption, IInv, [Next]_vars
    PROVE  IInv'
  BY TypeStep, OrderStep, SlotsStep, HandsStep, StreamsStep, NothingOwedLostStep, EndingStep DEF IInv

\* The invariant is inductive: no step of the WebSocket thread, the D-Bus thread,
\* stop() or the clients leaves it.
THEOREM Invariance == Spec => []IInv
  BY SocketAssumption, IInvInit, IInvStep, PTL DEF Spec

\* The variables of the three threads keep their types.
THEOREM TypeCorrect == Spec => []TypeOK
  <1>1. IInv => TypeOK
    BY DEF IInv
  <1> QED BY <1>1, Invariance, PTL

\* No slot outlives its connection.
THEOREM NoSlotLeaksAlways == Spec => []NoSlotLeaks
  <1>1. IInv => NoSlotLeaks
    BY DEF IInv, TypeOK, Slots, NoSlotLeaks
  <1> QED BY <1>1, Invariance, PTL

\* Every stream is in the order of the bus, without doubles, and as the rule wants.
THEOREM InOrderOnceAlways == Spec => []InOrderOnce
  <1>1. IInv => InOrderOnce
    BY DEF IInv, Streams, Increasing, Sent, InOrderOnce
  <1> QED BY <1>1, Invariance, PTL

\* A subscribed client misses no signal.
THEOREM NothingMissedAlways == Spec => []NothingMissed
  <1>1. IInv => NothingMissed
    BY DEF IInv, NothingOwedLost, Listening, Owed, NothingMissed
  <1> QED BY <1>1, Invariance, PTL

\* What stop() leaves behind.
THEOREM OnlyLateSlotsAlways == Spec => []OnlyLateSlots
  <1>1. IInv => OnlyLateSlots
    BY DEF IInv, TypeOK, Ending, OnlyLateSlots
  <1> QED BY <1>1, Invariance, PTL

-----------------------------------------------------------------------------
(* Refinement of Subscription *)

heard == [c \in Conns |-> IF Listening(c) THEN rule[c] ELSE None]
debts == [c \in Conns |-> IF Listening(c) THEN Owed(c) ELSE {}]
left == {c \in Conns : ~Listening(c) /\ Over(c)}

LEMMA PromiseInitially ==
    ASSUME Init
    PROVE  Promise!Init
  <1>1. \A c \in Conns : ~Listening(c) /\ ~Over(c)
    BY DEF Init, Listening, Over
  <1> QED BY <1>1 DEF Init, Promise!Init, Over

\* Closing, refusing, clearing: some clients leave.
LEMMA QuietLeaves ==
    ASSUME TypeOK, Slots, Quiet
    PROVE  \E S \in SUBSET Conns : Promise!Leave(S)
  <1>0. PICK S \in SUBSET Conns : S = left' \ left
    BY DEF left, Listening, Over
  <1>1. \A c \in Conns : Listening(c)' => /\ Listening(c) /\ rule'[c] = rule[c]
                                         /\ Owed(c)' = Owed(c)
    BY DEF Quiet, busvars, Listening, Owed, Waiting, Settled
  <1>2. left \subseteq left'
    BY DEF left, Quiet, Listening, Over
  <1>3. \A c \in Conns : Listening(c) /\ ~Listening(c)' => c \in S
    BY <1>0 DEF left, Quiet, Listening, Over
  <1>4. \A c \in S : ~Listening(c)'
    BY <1>0 DEF left, Listening, Over
  <1>5. left' = left \cup S /\ S \cap left = {}
    BY <1>0, <1>2
  <1>6. heard' = [c \in Conns |-> IF c \in S THEN None ELSE heard[c]]
    BY <1>1, <1>3, <1>4 DEF heard, Listening, Over
  <1>7. debts' = [c \in Conns |-> IF c \in S THEN {} ELSE debts[c]]
    BY <1>1, <1>3, <1>4 DEF debts, Listening, Over
  <1>8. UNCHANGED <<emitted, got, refused>>
    BY DEF Quiet, busvars
  <1>9. Promise!Leave(S)
    BY <1>5, <1>6, <1>7, <1>8 DEF Promise!Leave, heard, debts, left, Over, Listening
  <1> QED BY <1>9

LEMMA AddMatchSubscribes ==
    ASSUME TypeOK, Slots, Order, NEW c \in Conns, AddMatch(c)
    PROVE  \E r \in Rules : Promise!Subscribe(c, r)
  <1>0. PICK r \in Rules : r = rule[c]
    BY DEF AddMatch, Slots
  <1>1. /\ ~Listening(c) /\ c \notin left /\ Listening(c)'
        /\ UNCHANGED <<conn, rule, emitted, inbox, todo, got, refused>>
    BY DEF AddMatch, Slots, TypeOK, Listening, left, Over, busvars
  <1>2. \A d \in Conns : d # c => Listening(d)' = Listening(d)
    BY DEF AddMatch, TypeOK, Listening
  <1>3. \A d \in Conns : Owed(d)' = Owed(d)
    BY <1>1 DEF Owed, Waiting, Settled
  <1>4. Owed(c) \in SUBSET {k \in 1..Len(emitted) : emitted[k] \in Matches[r]}
    BY <1>0 DEF Owed, Order
  <1>5. heard' = [heard EXCEPT ![c] = r]
    BY <1>0, <1>1, <1>2 DEF heard, Listening, Over
  <1>6. debts' = [debts EXCEPT ![c] = Owed(c)]
    BY <1>1, <1>2, <1>3 DEF debts, Listening, Over
  <1>7. heard[c] = None
    BY <1>1 DEF heard, Listening, Over
  <1>8. left' = left
    BY <1>1, <1>2 DEF left, Over, Listening
  <1>9. Promise!Subscribe(c, r)
    BY <1>1, <1>4, <1>5, <1>6, <1>7, <1>8 DEF Promise!Subscribe, heard, debts, left, Over, Listening
  <1> QED BY <1>9

LEMMA EmitEmits ==
    ASSUME SocketAssumption, TypeOK, Order, Slots, Hands, NEW sig \in Signals, Emit(sig)
    PROVE  Promise!Emit(sig)
  <1>1. UNCHANGED <<conn, rule, slot, got, refused>> /\ emitted' = Append(emitted, sig)
    BY DEF Emit, wsvars
  <1>2. \A c \in Conns : Listening(c)' = Listening(c)
    BY <1>1 DEF Listening
  <1>3. \A c \in Conns : Listening(c) => rule[c] \in Rules /\ heard[c] = rule[c] /\ heard[c] # None
    BY DEF Slots, Listening, heard, SocketAssumption, Over
  <1>4. \A c \in Conns : ~Listening(c) => heard[c] = None
    BY DEF heard, Listening, Over
  <1>5. debts' = [c \in Conns |-> IF heard[c] # None /\ sig \in Matches[heard[c]]
                                  THEN debts[c] \cup {Len(emitted) + 1} ELSE debts[c]]
    <2>1. \A c \in Conns : Listening(c) =>
             Owed(c)' = IF sig \in Matches[rule[c]] THEN Owed(c) \cup {Len(emitted) + 1} ELSE Owed(c)
      BY EmitEffect
    <2> QED BY <1>2, <1>3, <1>4, <2>1 DEF debts, Listening, Over
  <1>6. heard' = heard /\ left' = left
    BY <1>1, <1>2 DEF heard, left, Over, Listening
  <1> QED BY <1>1, <1>5, <1>6 DEF Promise!Emit, Promise!Listens, heard, debts, left, Over, Listening

\* Dispatch and LookupSignal are the threads' own affair.
LEMMA Unseen ==
    ASSUME UNCHANGED <<conn, rule, slot, emitted, got, refused>>,
           \A c \in Conns : Listening(c) => Owed(c)' = Owed(c)
    PROVE  UNCHANGED Promise!vars
  <1>1. \A c \in Conns : Listening(c)' = Listening(c)
    BY DEF Listening
  <1>2. heard' = heard /\ debts' = debts /\ left' = left
    BY <1>1 DEF heard, debts, left, Over, Listening
  <1> QED BY <1>2 DEF Promise!vars, heard, debts, left, Over, Listening

LEMMA DoneDelivers ==
    ASSUME TypeOK, Order, Slots, Hands, Streams, NEW D \in SUBSET Conns, Done(D)
    PROVE  Promise!Next \/ UNCHANGED Promise!vars
  <1> DEFINE h == Head(inbox)
             S == {c \in D : Listening(c)}
  <1>1. /\ h \in 1..Len(emitted) /\ \A k \in Waiting : h <= k
        /\ \A c \in D : h \in Owed(c)
        /\ \A c \in Conns : Owed(c)' = IF c \in D THEN Owed(c) \ {h} ELSE Owed(c)
    BY DoneEffect
  <1>2. UNCHANGED <<conn, rule, slot, emitted>>
    BY DEF Done, wsvars
  <1>3. \A c \in Conns : Listening(c)' = Listening(c)
    BY <1>2 DEF Listening
  <1>4. heard' = heard /\ left' = left
    BY <1>2, <1>3 DEF heard, left, Over, Listening
  <1>5. debts' = [c \in Conns |-> IF c \in S THEN debts[c] \ {h} ELSE debts[c]]
    BY <1>1, <1>3 DEF debts, Listening, Over
  <1>6. \A c \in S : h \in debts[c] /\ \A j \in debts[c] : h <= j
    BY <1>1 DEF debts, Owed, Listening, Over
  <1>7. CASE got' = got /\ refused' = refused \cup {h}
    <2>1. Promise!GiveUp(h, S)
      BY <1>2, <1>4, <1>5, <1>6, <1>7 DEF Promise!GiveUp, Promise!Next_up, heard, debts, left, Over, Listening
    <2>2. S \in SUBSET Conns
      OBVIOUS
    <2> QED BY <1>1, <2>1, <2>2 DEF Promise!Next
  <1>8. CASE got' = got /\ refused' = refused /\ \A c \in D : ~Listening(c)
    <2>1. \A c \in Conns : Listening(c) => Owed(c)' = Owed(c)
      BY <1>1, <1>8
    <2> QED BY <1>2, <1>8, <2>1, Unseen
  <1>9. CASE refused' = refused /\ \E c \in D : D = {c} /\ Listening(c) /\ got' = [got EXCEPT ![c] = Append(@, h)]
    <2>1. PICK c \in D : D = {c} /\ Listening(c) /\ got' = [got EXCEPT ![c] = Append(@, h)]
      BY <1>9
    <2>2. c \in Conns /\ S = {c}
      BY <2>1
    <2>3. debts' = [debts EXCEPT ![c] = @ \ {h}]
      BY <1>5, <2>2 DEF debts, Listening, Over
    <2>4. Promise!Deliver(c, h)
      BY <1>2, <1>4, <1>6, <1>9, <2>1, <2>2, <2>3 DEF Promise!Deliver, Promise!Next_up, heard, debts, left, Over, Listening
    <2> QED BY <1>1, <2>2, <2>4 DEF Promise!Next
  <1> QED BY <1>7, <1>8, <1>9 DEF Done

\* The three threads, their races and stop() included, implement one stream per client.
THEOREM KeepsPromise == Spec => SubscriptionPromise
  <1>1. SocketAssumption /\ IInv /\ [Next]_vars => [Promise!Next]_(Promise!vars)
    <2> SUFFICES ASSUME SocketAssumption, IInv, [Next]_vars PROVE Promise!Next \/ UNCHANGED Promise!vars
      OBVIOUS
    <2> USE DEF IInv
    <2>1. CASE Quiet
      BY <2>1, QuietLeaves DEF Promise!Next
    <2>2. CASE \E c \in Conns : AddMatch(c)
      BY <2>2, AddMatchSubscribes DEF Promise!Next
    <2>3. CASE \E sig \in Signals : Emit(sig)
      BY <2>3, EmitEmits DEF Promise!Next
    <2>4. CASE Dispatch
      <3>1. UNCHANGED <<conn, rule, slot, emitted, got, refused>>
        BY <2>4 DEF Dispatch, wsvars
      <3> QED BY <2>4, <3>1, DispatchEffect, Unseen
    <2>5. CASE \E c \in Conns : LookupSignal(c)
      <3>1. UNCHANGED <<conn, rule, slot, emitted, got, refused, inbox, todo>>
        BY <2>5 DEF LookupSignal, wsvars
      <3>2. \A c \in Conns : Owed(c)' = Owed(c)
        BY <3>1 DEF Owed, Waiting, Settled
      <3> QED BY <3>1, <3>2, Unseen
    <2>6. CASE \E D \in SUBSET Conns : Done(D)
      BY <2>6, DoneDelivers
    <2> QED BY <2>1, <2>2, <2>3, <2>4, <2>5, <2>6, Effects
  <1> QED BY <1>1, SocketAssumption, Invariance, PromiseInitially, PTL DEF Spec, SubscriptionPromise, Promise!Spec
==============================================================================
