----------------------------- MODULE MatchRulePage -----------------------------
(***************************************************************************)
(* The page /dbus/matchrule: a form that puts a match rule together, and a *)
(* button that opens and closes a WebSocket with it.                       *)
(*                                                                         *)
(* The button's handler looks at the socket of the variable ws, while the  *)
(* handlers of every socket ever opened still write the button's text.     *)
(* External: the browser's WebSocket, and the network under it.            *)
(***************************************************************************)
EXTENDS Naturals, Sequences

CONSTANTS
    Inputs,      \* Inputs[f]: what a visitor may put into the field f
    MaxSockets   \* bound: how many sockets one visit opens

ASSUME MaxSocketsAssumption == MaxSockets \in Nat

VARIABLES
    fields,    \* the text in each field of the form
    wsPort,    \* the port the page connects to
    sockets,   \* the WebSockets the page has opened, in that order
    ws,        \* the last of them, 0 while there is none
    label      \* the button's text: "listen" or "stop"

rule_state == <<fields, wsPort, sockets, ws, label>>

-----------------------------------------------------------------------------
(* The rule *)

\* The fields in the order generateMatchRule looks at them.
Keys == <<"type", "sender", "interface", "member", "path", "path_namespace",
          "destination", "arg0namespace", "eavesdrop">>

Blank_form == [f \in {Keys[k] : k \in DOMAIN Keys} |-> <<>>]

\* The parts of the fields that are filled in, joined with ", ".
generateMatchRule(form) ==
    LET part(f) == <<f, "=", "'">> \o form[f] \o <<"'">>
        upto[k \in 0..Len(Keys)] ==
          IF k = 0 THEN <<>>
          ELSE IF form[Keys[k]] = <<>> THEN upto[k - 1]
          ELSE IF upto[k - 1] = <<>> THEN part(Keys[k])
          ELSE upto[k - 1] \o <<",", " ">> \o part(Keys[k])
    IN  upto[Len(Keys)]

\* External: the marks encodeURIComponent and the browser's URL parser escape.
\* Six of them the server undoes; of the others, which no name and no path of
\* D-Bus holds, these four stand for all.
Escapes == [space |-> " ", quote |-> "'", comma |-> ",", slash |-> "/", colon |-> ":", equals |-> "=",
            double |-> "\"", ampersand |-> "&", percent |-> "%", number |-> "#"]
Escaped == [space |-> "%20", quote |-> "%27", comma |-> "%2C", slash |-> "%2F",
            colon |-> "%3A", equals |-> "%3D",
            double |-> "%22", ampersand |-> "%26", percent |-> "%25", number |-> "%23"]
Undone == {"space", "quote", "comma", "slash", "colon", "equals"}

encodeURIComponent(text) ==
    [k \in DOMAIN text |->
       IF \E e \in DOMAIN Escapes : Escapes[e] = text[k]
       THEN Escaped[CHOOSE e \in DOMAIN Escapes : Escapes[e] = text[k]]
       ELSE text[k]]

replaceAll(text, from, to) ==
    [k \in DOMAIN text |-> IF text[k] = from THEN to ELSE text[k]]

\* Texts such as the names and paths of D-Bus: without an escape in them, which
\* would be undone although it was typed in, and without a mark that stays escaped.
Plain == Seq(STRING \ ({Escaped[e] : e \in DOMAIN Escaped}
                        \cup {Escapes[e] : e \in DOMAIN Escapes \ Undone}))

ASSUME InputsAssumption ==
    \A f \in DOMAIN Inputs : f \in DOMAIN Blank_form /\ Inputs[f] \subseteq Plain

\* Mutant of MatchOf: colons stay escaped.
MatchOfUnique(query) ==
    LET m1 == replaceAll(query, "%20", " ")
        m2 == replaceAll(m1, "%27", "'")
        m3 == replaceAll(m2, "%2C", ",")
        m4 == replaceAll(m3, "%2F", "/")
    IN  replaceAll(m4, "%3D", "=")

\* The server's open handler undoes six escapes, one after the other.
MatchOf(query) ==
    LET m1 == replaceAll(query, "%20", " ")
        m2 == replaceAll(m1, "%27", "'")
        m3 == replaceAll(m2, "%2C", ",")
        m4 == replaceAll(m3, "%2F", "/")
        m5 == replaceAll(m4, "%3A", ":")
    IN  replaceAll(m5, "%3D", "=")

-----------------------------------------------------------------------------

RuleInit ==
    /\ fields = Blank_form
    /\ wsPort = 10058
    /\ sockets = <<>>
    /\ ws = 0
    /\ label = "listen"

\* Mutant of OpenForm: the sockets of the last page are remembered.
OpenFormAgain(form, port) ==
    /\ fields' = form
    /\ wsPort' = port
    /\ ws' = 0
    /\ label' = "listen"
    /\ UNCHANGED sockets

\* The page is loaded: its URL fills the form in and names the port.  Leaving the
\* page before closes its sockets.
OpenForm(form, port) ==
    /\ fields' = form
    /\ wsPort' = port
    /\ sockets' = <<>>
    /\ ws' = 0
    /\ label' = "listen"

\* A field is changed; the rule follows.
Edit(f, text) ==
    /\ fields' = [fields EXCEPT ![f] = text]
    /\ UNCHANGED <<wsPort, sockets, ws, label>>

InState(state) == {n \in DOMAIN sockets : sockets[n].state = state}
Live == InState("CONNECTING") \cup InState("OPEN") \cup InState("CLOSING")

IsOpen(n) == n # 0 /\ sockets[n].state = "OPEN"

Become(n, state) == sockets' = [sockets EXCEPT ![n].state = state]

\* A new socket takes the place of the last one in the variable ws, and nothing
\* else of it changes; "left" is history: the state it was left in.
Connect(rule) ==
    /\ sockets' = Append([n \in DOMAIN sockets |->
                             IF n = ws THEN [sockets[n] EXCEPT !.left = sockets[n].state]
                             ELSE sockets[n]],
                         [state |-> "CONNECTING", left |-> "no", wanted |-> rule,
                          match |-> MatchOf(encodeURIComponent(rule))])
    /\ ws' = Len(sockets) + 1

\* toggleWebSocket: a socket that is open is closed...
ToggleOff ==
    /\ IsOpen(ws)
    /\ Become(ws, "CLOSING")
    /\ label' = "Listen"
    /\ UNCHANGED <<fields, wsPort, ws>>

\* Mutant of ToggleOn: an open socket is no reason not to open another one.
ToggleOnAgain ==
    /\ generateMatchRule(fields) # <<>>
    /\ Len(sockets) < MaxSockets
    /\ Connect(generateMatchRule(fields))
    /\ UNCHANGED <<fields, wsPort, label>>

\* ... and in every other state a new one is made, unless there is no rule yet.
ToggleOn ==
    /\ ~IsOpen(ws)
    /\ generateMatchRule(fields) # <<>>
    /\ Len(sockets) < MaxSockets
    /\ Connect(generateMatchRule(fields))
    /\ UNCHANGED <<fields, wsPort, label>>

\* ws.onopen
OnOpen(n) ==
    /\ sockets[n].state = "CONNECTING"
    /\ Become(n, "OPEN")
    /\ label' = "stop"
    /\ UNCHANGED <<fields, wsPort, ws>>

\* External: the server starts to close, as it does when it refuses a query.
ServerCloses(n) ==
    /\ sockets[n].state = "OPEN"
    /\ Become(n, "CLOSING")
    /\ UNCHANGED <<fields, wsPort, ws, label>>

\* ws.onclose, after the closing handshake, or when the connection is lost or
\* was never made (ws.onerror, which only logs, comes first).
OnClose(n) ==
    /\ sockets[n].state # "CLOSED"
    /\ Become(n, "CLOSED")
    /\ label' = "listen"
    /\ UNCHANGED <<fields, wsPort, ws>>

RuleStep ==
    \/ \E f \in DOMAIN Inputs : \E text \in Inputs[f] : Edit(f, text)
    \/ ToggleOff
    \/ ToggleOn
    \/ \E n \in DOMAIN sockets : OnOpen(n) \/ ServerCloses(n) \/ OnClose(n)

-----------------------------------------------------------------------------
(* Safety *)

RuleTypeOK ==
    /\ DOMAIN fields = DOMAIN Blank_form
    /\ ws = Len(sockets) /\ ws <= MaxSockets
    /\ \A n \in DOMAIN sockets : sockets[n].state \in {"CONNECTING", "OPEN", "CLOSING", "CLOSED"}
    /\ label \in {"listen", "Listen", "stop"}

\* The rule the server subscribes to is the one the form showed when the button
\* was pressed, although the escapes are undone by a list written by hand.
RuleArrives == \A n \in DOMAIN sockets : sockets[n].match = sockets[n].wanted

LeftIn(states) == {n \in DOMAIN sockets : sockets[n].left \in states}

\* What toggleWebSocket and the handlers of several sockets leave the button able
\* to do.  "stop" is shown only while there is something to stop.  A stream that
\* no press can end any more was left while it was still connecting, and a button
\* that does not say stop above an open socket comes of a socket that was left
\* before it was closed, and is closed by now: of a visitor who presses the button
\* only when the socket before is open or closed, there is one socket at a time,
\* and the label tells its state.
StreamsAccounted ==
    /\ label = "stop" => InState("OPEN") \cup InState("CLOSING") # {}
    /\ InState("OPEN") \subseteq {ws} \cup LeftIn({"CONNECTING"})
    /\ Live \subseteq {ws} \cup LeftIn({"CONNECTING", "CLOSING"})
    /\ IsOpen(ws) /\ label # "stop" =>
         InState("CLOSED") \cap LeftIn({"CONNECTING", "CLOSING"}) # {}
==============================================================================
