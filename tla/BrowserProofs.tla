----------------------------- MODULE BrowserProofs -----------------------------
(***************************************************************************)
(* Proofs about a browser on the server's pages: the match rule page,      *)
(* wherever the visitor goes between two visits to it, for every form and  *)
(* every number of sockets; and the walk through the other pages, for      *)
(* every tree of services and every set of files: where links lead, and    *)
(* what is called in the end.                                              *)
(***************************************************************************)
EXTENDS Browser, Recursion, SequenceTheorems

-----------------------------------------------------------------------------
(* The escapes *)

\* The server undoes by hand what the browser escaped, mark by mark, and comes
\* back to the text, if the text holds no escape itself and no mark that is escaped
\* and not undone.
THEOREM EscapesUndone ==
    ASSUME NEW S, NEW text \in Seq(S),
           \A k \in 1..Len(text) :
             /\ \A e \in DOMAIN Escaped : text[k] # Escaped[e]
             /\ \A e \in DOMAIN Escapes \ Undone : text[k] # Escapes[e]
    PROVE  MatchOf(encodeURIComponent(text)) = text
<1> DEFINE marks == {"space", "quote", "comma", "slash", "colon", "equals"}
           others == {"double", "ampersand", "percent", "number"}
           code == encodeURIComponent(text)
<1>1. /\ DOMAIN Escapes = marks \cup others /\ DOMAIN Escaped = marks \cup others
      /\ DOMAIN Escapes \ Undone = others
  BY DEF Escapes, Escaped, Undone
<1>2. /\ Escapes["space"] = " " /\ Escapes["quote"] = "'" /\ Escapes["comma"] = ","
      /\ Escapes["slash"] = "/" /\ Escapes["colon"] = ":" /\ Escapes["equals"] = "="
      /\ Escaped["space"] = "%20" /\ Escaped["quote"] = "%27" /\ Escaped["comma"] = "%2C"
      /\ Escaped["slash"] = "%2F" /\ Escaped["colon"] = "%3A" /\ Escaped["equals"] = "%3D"
  BY DEF Escapes, Escaped
<1>3. DOMAIN code = 1..Len(text)
  BY DEF encodeURIComponent
<1>4. ASSUME NEW k \in 1..Len(text), NEW e \in marks, text[k] = Escapes[e]
      PROVE  code[k] = Escaped[e]
  <2>1. \A d \in marks \cup others : Escapes[d] = text[k] => d = e
    <3>1. \A d \in others : Escapes[d] # text[k]
      BY <1>1, <1>4
    <3>2. \A d \in marks : Escapes[d] = Escapes[e] => d = e
      BY <1>2, <1>4 DEF marks
    <3> QED
      BY <1>4, <3>1, <3>2
  <2>2. (CHOOSE d \in DOMAIN Escapes : Escapes[d] = text[k]) = e
    BY <1>1, <1>4, <2>1
  <2> QED
    BY <1>1, <1>4, <2>2 DEF encodeURIComponent
<1>5. ASSUME NEW k \in 1..Len(text), \A e \in marks : text[k] # Escapes[e]
      PROVE  code[k] = text[k]
  BY <1>1, <1>5 DEF encodeURIComponent
<1> DEFINE m1 == replaceAll(code, "%20", " ")
           m2 == replaceAll(m1, "%27", "'")
           m3 == replaceAll(m2, "%2C", ",")
           m4 == replaceAll(m3, "%2F", "/")
           m5 == replaceAll(m4, "%3A", ":")
           m6 == replaceAll(m5, "%3D", "=")
<1>6. MatchOf(code) = m6
  BY DEF MatchOf
<1>7. /\ m6 = [k \in 1..Len(text) |-> m6[k]]
      /\ \A k \in 1..Len(text) :
           /\ code[k] = "%20" => m6[k] = " "
           /\ code[k] = "%27" => m6[k] = "'"
           /\ code[k] = "%2C" => m6[k] = ","
           /\ code[k] = "%2F" => m6[k] = "/"
           /\ code[k] = "%3A" => m6[k] = ":"
           /\ code[k] = "%3D" => m6[k] = "="
           /\ code[k] \notin {"%20", "%27", "%2C", "%2F", "%3A", "%3D"} => m6[k] = code[k]
  <2> HIDE DEF code
  <2>1. /\ m1 = [k \in 1..Len(text) |-> m1[k]]
        /\ \A k \in 1..Len(text) :
             m1[k] = IF code[k] = "%20" THEN " " ELSE code[k]
    BY <1>3 DEF replaceAll
  <2> HIDE DEF m1
  <2>2. /\ m2 = [k \in 1..Len(text) |-> m2[k]]
        /\ \A k \in 1..Len(text) :
             m2[k] = IF m1[k] = "%27" THEN "'" ELSE m1[k]
    BY <2>1 DEF replaceAll
  <2> HIDE DEF m2
  <2>3. /\ m3 = [k \in 1..Len(text) |-> m3[k]]
        /\ \A k \in 1..Len(text) :
             m3[k] = IF m2[k] = "%2C" THEN "," ELSE m2[k]
    BY <2>2 DEF replaceAll
  <2> HIDE DEF m3
  <2>4. /\ m4 = [k \in 1..Len(text) |-> m4[k]]
        /\ \A k \in 1..Len(text) :
             m4[k] = IF m3[k] = "%2F" THEN "/" ELSE m3[k]
    BY <2>3 DEF replaceAll
  <2> HIDE DEF m4
  <2>5. /\ m5 = [k \in 1..Len(text) |-> m5[k]]
        /\ \A k \in 1..Len(text) :
             m5[k] = IF m4[k] = "%3A" THEN ":" ELSE m4[k]
    BY <2>4 DEF replaceAll
  <2> HIDE DEF m5
  <2>6. /\ m6 = [k \in 1..Len(text) |-> m6[k]]
        /\ \A k \in 1..Len(text) :
             m6[k] = IF m5[k] = "%3D" THEN "=" ELSE m5[k]
    BY <2>5 DEF replaceAll
  <2> HIDE DEF m6
  <2>7. ASSUME NEW k \in 1..Len(text)
        PROVE  /\ code[k] = "%20" => m6[k] = " "
               /\ code[k] = "%27" => m6[k] = "'"
               /\ code[k] = "%2C" => m6[k] = ","
               /\ code[k] = "%2F" => m6[k] = "/"
               /\ code[k] = "%3A" => m6[k] = ":"
               /\ code[k] = "%3D" => m6[k] = "="
               /\ code[k] \notin {"%20", "%27", "%2C", "%2F", "%3A", "%3D"} => m6[k] = code[k]
    <3>1. /\ m1[k] = IF code[k] = "%20" THEN " " ELSE code[k]
          /\ m2[k] = IF m1[k] = "%27" THEN "'" ELSE m1[k]
          /\ m3[k] = IF m2[k] = "%2C" THEN "," ELSE m2[k]
      BY <2>1, <2>2, <2>3
    <3>2. /\ m4[k] = IF m3[k] = "%2F" THEN "/" ELSE m3[k]
          /\ m5[k] = IF m4[k] = "%3A" THEN ":" ELSE m4[k]
          /\ m6[k] = IF m5[k] = "%3D" THEN "=" ELSE m5[k]
      BY <2>4, <2>5, <2>6
    <3> QED
      BY <3>1, <3>2
  <2> QED
    BY <2>6, <2>7
<1> HIDE DEF code, m6
<1>8. ASSUME NEW k \in 1..Len(text)
      PROVE  m6[k] = text[k]
  <2>1. CASE \E e \in marks : text[k] = Escapes[e]
    <3> PICK e \in marks : text[k] = Escapes[e]
      BY <2>1
    <3>1. code[k] = Escaped[e]
      BY <1>4
    <3>2. \/ code[k] = "%20" /\ text[k] = " "
          \/ code[k] = "%27" /\ text[k] = "'"
          \/ code[k] = "%2C" /\ text[k] = ","
          \/ code[k] = "%2F" /\ text[k] = "/"
          \/ code[k] = "%3A" /\ text[k] = ":"
          \/ code[k] = "%3D" /\ text[k] = "="
      BY <1>2, <3>1
    <3> QED
      BY <1>7, <3>2
  <2>2. CASE \A e \in marks : text[k] # Escapes[e]
    <3>1. code[k] = text[k]
      BY <1>5, <2>2
    <3>2. code[k] \notin {"%20", "%27", "%2C", "%2F", "%3A", "%3D"}
      BY <1>1, <1>2, <3>1
    <3> QED
      BY <1>7, <3>1, <3>2
  <2> QED
    BY <2>1, <2>2
<1> QED
  <2>1. text = [k \in 1..Len(text) |-> text[k]]
    OBVIOUS
  <2>2. m6 = text
    BY <1>7, <1>8, <2>1
  <2> QED
    BY <1>6, <2>2 DEF code

-----------------------------------------------------------------------------
(* The button *)

States == {"CONNECTING", "OPEN", "CLOSING", "CLOSED"}
Socket(W, M) == [state: States, left: {"no"} \cup States, wanted: W, match: M]

\* The sockets are a sequence, and ws is the last of them.
ButtonShape ==
    /\ \E W, M : sockets \in Seq(Socket(W, M))
    /\ ws = Len(sockets)
    /\ label \in {"listen", "Listen", "stop"}

\* No socket was left open, and none of those left comes back to life.
LeftBehind ==
    \A n \in DOMAIN sockets \ {ws} :
      /\ sockets[n].left \in {"CONNECTING", "CLOSING", "CLOSED"}
      /\ sockets[n].state \in {"CONNECTING", "OPEN"} => sockets[n].left = "CONNECTING"
      /\ sockets[n].state = "CLOSING" => sockets[n].left \in {"CONNECTING", "CLOSING"}

\* What the label owes to the sockets.
LabelOwed ==
    /\ label = "stop" => \E n \in DOMAIN sockets : sockets[n].state \in {"OPEN", "CLOSING"}
    /\ IsOpen(ws) /\ label # "stop" =>
         \E n \in DOMAIN sockets : /\ sockets[n].state = "CLOSED"
                                  /\ sockets[n].left \in {"CONNECTING", "CLOSING"}

ButtonInv == ButtonShape /\ LeftBehind /\ LabelOwed

\* Any step of the page, its loading among them.
PageStep == RuleStep \/ \E form, port : OpenForm(form, port)

\* What a change of one socket's state leaves as it is.
LEMMA OneSocketChanges ==
    ASSUME ButtonShape, NEW n \in DOMAIN sockets, NEW state \in States, Become(n, state)
    PROVE  /\ \E W, M : sockets' \in Seq(Socket(W, M))
           /\ Len(sockets') = Len(sockets)
           /\ DOMAIN sockets' = DOMAIN sockets
           /\ sockets'[n].state = state
           /\ sockets'[n].left = sockets[n].left
           /\ \A k \in DOMAIN sockets \ {n} : sockets'[k] = sockets[k]
<1> PICK W, M : sockets \in Seq(Socket(W, M))
  BY DEF ButtonShape
<1>1. sockets' = [sockets EXCEPT ![n].state = state]
  BY DEF Become
<1>2. sockets[n] \in Socket(W, M) /\ [sockets[n] EXCEPT !.state = state] \in Socket(W, M)
  <2>1. sockets[n] \in Socket(W, M)
    OBVIOUS
  <2> QED
    BY <2>1 DEF Socket
<1>3. sockets' = [sockets EXCEPT ![n] = [sockets[n] EXCEPT !.state = state]]
  BY <1>1
<1>4. sockets' \in Seq(Socket(W, M)) /\ Len(sockets') = Len(sockets)
  BY <1>2, <1>3
<1>5. DOMAIN sockets' = DOMAIN sockets
  BY <1>3
<1>6. /\ sockets'[n].state = state /\ sockets'[n].left = sockets[n].left
      /\ \A k \in DOMAIN sockets \ {n} : sockets'[k] = sockets[k]
  BY <1>2, <1>3 DEF Socket
<1> QED
  BY <1>4, <1>5, <1>6

\* A new socket is the last, and on its way; of the one before it is put down
\* how it was left.
LEMMA SocketAdded ==
    ASSUME ButtonShape, ToggleOn
    PROVE  /\ \E W, M : sockets' \in Seq(Socket(W, M))
           /\ ws' = Len(sockets') /\ ws' \in DOMAIN sockets' /\ ws' \notin DOMAIN sockets
           /\ DOMAIN sockets' = DOMAIN sockets \cup {ws'}
           /\ sockets'[ws'].state = "CONNECTING"
           /\ \A k \in DOMAIN sockets : sockets'[k].state = sockets[k].state
           /\ \A k \in DOMAIN sockets \ {ws} : sockets'[k].left = sockets[k].left
           /\ ws \in DOMAIN sockets => sockets'[ws].left = sockets[ws].state
           /\ \A k \in DOMAIN sockets :
                sockets'[k].wanted = sockets[k].wanted /\ sockets'[k].match = sockets[k].match
           /\ sockets'[ws'].wanted = generateMatchRule(fields)
           /\ sockets'[ws'].match = MatchOf(encodeURIComponent(generateMatchRule(fields)))
<1> PICK W, M : sockets \in Seq(Socket(W, M))
  BY DEF ButtonShape
<1> DEFINE rule == generateMatchRule(fields)
           got == MatchOf(encodeURIComponent(rule))
           new == [state |-> "CONNECTING", left |-> "no", wanted |-> rule, match |-> got]
           old == [n \in DOMAIN sockets |->
                     IF n = ws THEN [sockets[n] EXCEPT !.left = sockets[n].state] ELSE sockets[n]]
<1>1. sockets' = Append(old, new) /\ ws' = Len(sockets) + 1
  BY DEF ToggleOn, Connect
<1> HIDE DEF rule, got
<1>2. DOMAIN sockets = 1..Len(sockets) /\ Len(sockets) \in Nat
  OBVIOUS
<1>3. \A n \in DOMAIN sockets : sockets[n] \in Socket(W, M)
  OBVIOUS
<1>4. ASSUME NEW n \in DOMAIN sockets
      PROVE  /\ old[n] \in Socket(W \cup {rule}, M \cup {got})
             /\ old[n].state = sockets[n].state
             /\ n # ws => old[n].left = sockets[n].left
             /\ n = ws => old[n].left = sockets[n].state
             /\ old[n].wanted = sockets[n].wanted /\ old[n].match = sockets[n].match
  BY <1>3 DEF Socket
<1>5. old \in Seq(Socket(W \cup {rule}, M \cup {got})) /\ Len(old) = Len(sockets)
  <2> DEFINE T == Socket(W \cup {rule}, M \cup {got})
  <2>1. \A n \in 1..Len(sockets) : old[n] \in T
    BY <1>2, <1>4
  <2>2. DOMAIN old = 1..Len(sockets) /\ old = [n \in 1..Len(sockets) |-> old[n]]
    BY <1>2
  <2> HIDE DEF T, old
  <2>3. old \in [1..Len(sockets) -> T]
    BY <2>1, <2>2
  <2>4. old \in Seq(T)
    BY <1>2, <2>3
  <2>5. Len(old) = Len(sockets)
    BY <1>2, <2>2, <2>4
  <2> QED
    BY <2>4, <2>5 DEF T
<1>6. new \in Socket(W \cup {rule}, M \cup {got})
  BY DEF Socket, States
<1> DEFINE T == Socket(W \cup {rule}, M \cup {got})
<1>7. old \in Seq(T) /\ new \in T /\ new.state = "CONNECTING" /\ new.wanted = rule /\ new.match = got
  BY <1>5, <1>6
<1> HIDE DEF old, new, T
<1>8. sockets' \in Seq(T) /\ Len(sockets') = Len(sockets) + 1
  BY <1>1, <1>2, <1>5, <1>7
<1>9. sockets'[Len(sockets) + 1] = new /\ \A k \in 1..Len(sockets) : sockets'[k] = old[k]
  BY <1>1, <1>2, <1>5, <1>7
<1>10. DOMAIN sockets' = 1..(Len(sockets) + 1)
  BY <1>2, <1>8
<1>11. \E X, Y : sockets' \in Seq(Socket(X, Y))
  BY <1>8 DEF T
<1> QED
  BY <1>1, <1>2, <1>4, <1>7, <1>8, <1>9, <1>10, <1>11 DEF rule, got

\* No press and no event of a socket loses the account.
LEMMA ButtonKept ==
    ASSUME ButtonInv, PageStep
    PROVE  ButtonInv'
<1> USE DEF ButtonInv
<1> PICK W, M : sockets \in Seq(Socket(W, M))
  BY DEF ButtonShape
<1>0. /\ DOMAIN sockets = 1..Len(sockets) /\ Len(sockets) \in Nat
      /\ \A n \in DOMAIN sockets : sockets[n].state \in States
  <2>1. \A n \in DOMAIN sockets : sockets[n] \in Socket(W, M)
    OBVIOUS
  <2> QED
    BY <2>1 DEF Socket
<1>1. CASE \E form, port : OpenForm(form, port)
  <2>1. sockets' = <<>> /\ ws' = 0 /\ label' = "listen"
    BY <1>1 DEF OpenForm
  <2>2. \E X, Y : sockets' \in Seq(Socket(X, Y))
    BY <2>1
  <2>3. Len(sockets') = 0 /\ DOMAIN sockets' = {}
    BY <2>1
  <2>4. ButtonShape'
    BY <2>1, <2>2, <2>3 DEF ButtonShape
  <2>5. LeftBehind' /\ LabelOwed'
    BY <2>1, <2>3 DEF LeftBehind, LabelOwed, IsOpen
  <2> QED
    BY <2>4, <2>5
<1>2. CASE \E f \in DOMAIN Inputs : \E text \in Inputs[f] : Edit(f, text)
  BY <1>2 DEF Edit, ButtonShape, LeftBehind, LabelOwed, IsOpen
<1>3. CASE ToggleOff
  <2>1. ws \in DOMAIN sockets /\ sockets[ws].state = "OPEN" /\ ws' = ws /\ label' = "Listen"
    BY <1>0, <1>3 DEF ToggleOff, IsOpen, ButtonShape
  <2>2. Become(ws, "CLOSING")
    BY <1>3 DEF ToggleOff
  <2> QED
    BY <1>0, <2>1, <2>2, OneSocketChanges DEF ButtonShape, LeftBehind, LabelOwed, IsOpen, States
<1>4. CASE ToggleOn
  <2>1. ~IsOpen(ws) /\ label' = label
    BY <1>4 DEF ToggleOn
  <2>2. ButtonShape'
    BY <1>4, <2>1, SocketAdded DEF ButtonShape
  <2>3. LeftBehind'
    <3> SUFFICES ASSUME NEW n \in DOMAIN sockets' \ {ws'}
                 PROVE  /\ sockets'[n].left \in {"CONNECTING", "CLOSING", "CLOSED"}
                        /\ sockets'[n].state \in {"CONNECTING", "OPEN"} => sockets'[n].left = "CONNECTING"
                        /\ sockets'[n].state = "CLOSING" => sockets'[n].left \in {"CONNECTING", "CLOSING"}
      BY DEF LeftBehind
    <3>1. n \in DOMAIN sockets /\ sockets'[n].state = sockets[n].state
      BY <1>4, SocketAdded
    <3>2. CASE n = ws
      <4>1. sockets'[n].left = sockets[n].state
        BY <1>4, <3>1, <3>2, SocketAdded
      <4>2. sockets[n].state \in {"CONNECTING", "CLOSING", "CLOSED"}
        BY <1>0, <2>1, <3>1, <3>2 DEF IsOpen, States
      <4> QED
        BY <3>1, <4>1, <4>2
    <3>3. CASE n # ws
      <4>1. sockets'[n].left = sockets[n].left
        BY <1>4, <3>1, <3>3, SocketAdded
      <4> QED
        BY <3>1, <3>3, <4>1 DEF LeftBehind
    <3> QED
      BY <3>2, <3>3
  <2>4. LabelOwed'
    <3>1. ~IsOpen(ws)'
      BY <1>4, SocketAdded DEF IsOpen
    <3> QED
      BY <1>4, <2>1, <3>1, SocketAdded DEF LabelOwed
  <2> QED
    BY <2>2, <2>3, <2>4
<1>5. CASE \E n \in DOMAIN sockets : OnOpen(n)
  <2> PICK n \in DOMAIN sockets : OnOpen(n)
    BY <1>5
  <2>1. sockets[n].state = "CONNECTING" /\ Become(n, "OPEN") /\ label' = "stop" /\ ws' = ws
    BY DEF OnOpen
  <2> QED
    BY <1>0, <2>1, OneSocketChanges DEF ButtonShape, LeftBehind, LabelOwed, IsOpen, States
<1>6. CASE \E n \in DOMAIN sockets : ServerCloses(n)
  <2> PICK n \in DOMAIN sockets : ServerCloses(n)
    BY <1>6
  <2>1. sockets[n].state = "OPEN" /\ Become(n, "CLOSING") /\ UNCHANGED <<label, ws>>
    BY DEF ServerCloses
  <2>2. ButtonShape' /\ LeftBehind'
    BY <1>0, <2>1, OneSocketChanges DEF ButtonShape, LeftBehind, States
  <2>3. LabelOwed'
    BY <1>0, <2>1, OneSocketChanges DEF ButtonShape, LabelOwed, IsOpen, States
  <2> QED
    BY <2>2, <2>3
<1>7. CASE \E n \in DOMAIN sockets : OnClose(n)
  <2> PICK n \in DOMAIN sockets : OnClose(n)
    BY <1>7
  <2>1. sockets[n].state # "CLOSED" /\ Become(n, "CLOSED") /\ label' = "listen" /\ ws' = ws
    BY DEF OnClose
  <2>2. ButtonShape' /\ LeftBehind'
    BY <1>0, <2>1, OneSocketChanges DEF ButtonShape, LeftBehind, States
  <2>3. LabelOwed'
    <3> SUFFICES ASSUME IsOpen(ws)'
                 PROVE  \E k \in DOMAIN sockets' : /\ sockets'[k].state = "CLOSED"
                                                  /\ sockets'[k].left \in {"CONNECTING", "CLOSING"}
      BY <2>1 DEF LabelOwed
    <3>1. n # ws
      BY <2>1, OneSocketChanges DEF IsOpen, States
    <3>2. sockets[n].left \in {"CONNECTING", "CLOSING"}
      BY <1>0, <2>1, <3>1 DEF LeftBehind, States
    <3> QED
      BY <2>1, <3>2, OneSocketChanges DEF States
  <2> QED
    BY <2>2, <2>3
<1> QED
  BY <1>1, <1>2, <1>3, <1>4, <1>5, <1>6, <1>7 DEF PageStep, RuleStep

LEMMA BrowserSteps == Next => PageStep \/ UNCHANGED rule_state
<1>1. ASSUME NEW url, NEW f, Load(url, f) PROVE PageStep
  BY <1>1 DEF Load, PageStep
<1> QED
  BY <1>1 DEF Next, Describe, Publish, ChooseInterface, Type, ChooseMethod, ChooseSignal, PressCall, SchemaSteps,
     OnSchema, Reload, RulePageStep, PageStep

\* The sockets, the variable ws and the button's text stay in step.
LEMMA ButtonInvariance == Spec => []ButtonInv
<1>1. Init => ButtonInv
  <2> SUFFICES ASSUME Init PROVE ButtonInv
    OBVIOUS
  <2>1. sockets = <<>> /\ ws = 0 /\ label = "listen"
    BY DEF Init, RuleInit
  <2>2. \E W, M : sockets \in Seq(Socket(W, M))
    BY <2>1
  <2>3. Len(sockets) = 0 /\ DOMAIN sockets = {}
    BY <2>1
  <2>4. ButtonShape
    BY <2>1, <2>2, <2>3 DEF ButtonShape
  <2>5. LeftBehind /\ LabelOwed
    BY <2>1, <2>3 DEF LeftBehind, LabelOwed, IsOpen
  <2> QED
    BY <2>4, <2>5 DEF ButtonInv
<1>2. ButtonInv /\ UNCHANGED rule_state => ButtonInv'
  BY DEF rule_state, ButtonInv, ButtonShape, LeftBehind, LabelOwed, IsOpen
<1>3. ButtonInv /\ [Next]_vars => ButtonInv'
  <2>1. UNCHANGED vars => UNCHANGED rule_state
    BY DEF vars
  <2> QED
    BY <1>2, <2>1, ButtonKept, BrowserSteps
<1> QED
  BY <1>1, <1>3, PTL DEF Spec

\* What the button of the match rule page has lost hold of was left behind by a
\* press in the middle of a connection's opening or closing, whatever the order in
\* which sockets open, fail and close, and however many of them there are.
THEOREM StreamsAccountedAlways == Spec => []StreamsAccounted
<1>1. ButtonInv => StreamsAccounted
  <2> SUFFICES ASSUME ButtonInv PROVE StreamsAccounted
    OBVIOUS
  <2> USE DEF ButtonInv
  <2>1. label = "stop" => InState("OPEN") \cup InState("CLOSING") # {}
    BY DEF LabelOwed, InState
  <2>2. InState("OPEN") \subseteq {ws} \cup LeftIn({"CONNECTING"})
    BY DEF LeftBehind, InState, LeftIn
  <2>3. Live \subseteq {ws} \cup LeftIn({"CONNECTING", "CLOSING"})
    BY DEF LeftBehind, InState, LeftIn, Live
  <2>4. IsOpen(ws) /\ label # "stop" =>
          InState("CLOSED") \cap LeftIn({"CONNECTING", "CLOSING"}) # {}
    BY DEF LabelOwed, InState, LeftIn
  <2> QED
    BY <2>1, <2>2, <2>3, <2>4 DEF StreamsAccounted
<1> QED
  BY <1>1, ButtonInvariance, PTL

-----------------------------------------------------------------------------
(* The rule *)

\* The texts that Plain is made of, and what a rule is made of.
Clean == STRING \ ({Escaped[e] : e \in DOMAIN Escaped}
                   \cup {Escapes[e] : e \in DOMAIN Escapes \ Undone})
Marks == Clean \cup {Keys[k] : k \in DOMAIN Keys} \cup {"=", "'", ",", " "}

LEMMA MarksAreNoEscapes ==
    ASSUME NEW m \in Marks
    PROVE  /\ \A e \in DOMAIN Escaped : m # Escaped[e]
           /\ \A e \in DOMAIN Escapes \ Undone : m # Escapes[e]
<1>1. \A e \in DOMAIN Escaped : Escaped[e] \in
        {"%20", "%27", "%2C", "%2F", "%3A", "%3D", "%22", "%26", "%25", "%23"}
  BY DEF Escaped
<1>2. \A e \in DOMAIN Escapes \ Undone : Escapes[e] \in {"\"", "&", "%", "#"}
  <2>1. DOMAIN Escapes \ Undone = {"double", "ampersand", "percent", "number"}
    BY DEF Escapes, Undone
  <2>2. /\ Escapes["double"] = "\"" /\ Escapes["ampersand"] = "&"
        /\ Escapes["percent"] = "%" /\ Escapes["number"] = "#"
    BY DEF Escapes
  <2> QED
    BY <2>1, <2>2
<1>3. \A k \in DOMAIN Keys : Keys[k] \in {"type", "sender", "interface", "member", "path",
                            "path_namespace", "destination", "arg0namespace", "eavesdrop"}
  BY DEF Keys
<1>4. m \in Clean => /\ \A e \in DOMAIN Escaped : m # Escaped[e]
                    /\ \A e \in DOMAIN Escapes \ Undone : m # Escapes[e]
  BY DEF Clean
<1> QED BY <1>1, <1>2, <1>3, <1>4 DEF Marks

LEMMA RulePlain ==
    ASSUME NEW form, \A f \in DOMAIN Blank_form : form[f] \in Seq(Marks)
    PROVE  generateMatchRule(form) \in Seq(Marks)
<1> DEFINE part(f) == <<f, "=", "'">> \o form[f] \o <<"'">>
           next(k, t) == IF form[Keys[k]] = <<>> THEN t
                         ELSE IF t = <<>> THEN part(Keys[k])
                         ELSE t \o <<",", " ">> \o part(Keys[k])
           upto(u) == [k \in 0..Len(Keys) |->
                         IF k = 0 THEN <<>>
                         ELSE IF form[Keys[k]] = <<>> THEN u[k - 1]
                         ELSE IF u[k - 1] = <<>> THEN part(Keys[k])
                         ELSE u[k - 1] \o <<",", " ">> \o part(Keys[k])]
<1>1. generateMatchRule(form) = (CHOOSE u : u = upto(u))[Len(Keys)]
  BY DEF generateMatchRule
<1> DEFINE M == Seq(Marks)
           D == [k \in 1..9 |-> [t \in M |-> next(k, t)]]
<1>2. Len(Keys) = 9 /\ \A k \in 1..9 : Keys[k] \in DOMAIN Blank_form /\ Keys[k] \in Marks
  <2>1. Len(Keys) = 9 /\ DOMAIN Keys = 1..9
    BY DEF Keys
  <2>2. DOMAIN Blank_form = {Keys[k] : k \in DOMAIN Keys}
    BY DEF Blank_form
  <2> QED BY <2>1, <2>2 DEF Marks
<1>3. \A k \in 1..9 : part(Keys[k]) \in M
  <2> TAKE k \in 1..9
  <2>1. Keys[k] \in Marks /\ form[Keys[k]] \in Seq(Marks)
    BY <1>2
  <2>2. "=" \in Marks /\ "'" \in Marks
    BY DEF Marks
  <2> HIDE DEF Marks
  <2>3. \A key \in Marks : <<key, "=", "'">> \in Seq(Marks) /\ <<"'">> \in Seq(Marks)
    BY <2>2
  <2> QED BY <2>1, <2>3
<1>4. \A k \in 1..9 : \A t \in M : next(k, t) \in M
  <2> TAKE k \in 1..9
  <2> TAKE t \in M
  <2>1. <<",", " ">> \in M
    <3>1. "," \in Marks /\ " " \in Marks
      BY DEF Marks
    <3>2. \A a, b \in Marks : <<a, b>> \in M
      <4> HIDE DEF Marks
      <4> QED OBVIOUS
    <3> HIDE DEF Marks, M
    <3> QED BY <3>1, <3>2, Zenon
  <2>2. part(Keys[k]) \in M
    BY <1>3
  <2> HIDE DEF part
  <2>3. t \o <<",", " ">> \o part(Keys[k]) \in M
    <3>1. \A a, b, c \in M : a \o b \o c \in M
      <4> HIDE DEF Marks
      <4> QED OBVIOUS
    <3> HIDE DEF M
    <3> QED BY <2>1, <2>2, <3>1, Zenon
  <2> QED BY <2>2, <2>3
<1>5. <<>> \in M
  OBVIOUS
<1>6. D \in [1..9 -> [M -> M]]
  <2> HIDE DEF next, M
  <2> QED BY <1>4
<1>7. \A k \in 1..9 : \A t \in M : D[k][t] = next(k, t)
  OBVIOUS
<1> HIDE DEF D, M, next
<1>8. PICK g \in [0..9 -> M] : Steps(9, <<>>, D, g)
  BY <1>5, <1>6, StepRecursion
<1>9. \A k \in 1..9 : g[k] = next(k, g[k - 1])
  <2>1. \A k \in 1..9 : k - 1 \in 0..9
    OBVIOUS
  <2> QED BY <1>7, <1>8, <2>1 DEF Steps
<1>10. g = upto(g)
  <2>1. \A k \in 0..9 : k # 0 => k \in 1..9
    OBVIOUS
  <2>2. \A k \in 0..9 : g[k] = IF k = 0 THEN <<>> ELSE next(k, g[k - 1])
    BY <1>8, <1>9, <2>1 DEF Steps
  <2> QED BY <1>2, <2>2 DEF next
<1> DEFINE h == CHOOSE u : u = upto(u)
<1>11. h = upto(h)
  <2> HIDE DEF upto
  <2> QED BY <1>10
<1> HIDE DEF h
<1>12. h[0] = <<>> /\ \A k \in 1..9 : h[k] = next(k, h[k - 1])
  <2>1. 0 \in 0..9 /\ \A k \in 1..9 : k \in 0..9 /\ k # 0
    OBVIOUS
  <2> QED BY <1>2, <1>11, <2>1 DEF next
<1>13. \A k \in 1..9 : h[k - 1] \in M => h[k] \in M
  BY <1>4, <1>12
<1>14. 0..9 \subseteq {k \in 0..9 : h[k] \in M}
  BY <1>5, <1>12, <1>13, InductionUpTo
<1>15. h[9] \in M
  BY <1>14
<1> QED BY <1>1, <1>2, <1>15 DEF h, M

LEMMA PlainIsMarks ==
    ASSUME NEW text \in Plain
    PROVE  text \in Seq(Marks)
<1>1. text \in Seq(Clean)
  BY DEF Plain, Clean
<1>2. Clean \subseteq Marks
  BY DEF Marks
<1>3. \A k \in 1..Len(text) : text[k] \in Marks
  BY <1>1, <1>2
<1> QED
  BY <1>1, <1>3

\* The server gets the rule that the form shows.
LEMMA FormArrives ==
    ASSUME NEW form, \A f \in DOMAIN Blank_form : form[f] \in Plain
    PROVE  MatchOf(encodeURIComponent(generateMatchRule(form))) = generateMatchRule(form)
<1> DEFINE rule == generateMatchRule(form)
<1>1. rule \in Seq(Marks)
  BY PlainIsMarks, RulePlain
<1> HIDE DEF rule
<1>2. \A k \in 1..Len(rule) : rule[k] \in Marks
  BY <1>1
<1>3. \A k \in 1..Len(rule) :
        /\ \A e \in DOMAIN Escaped : rule[k] # Escaped[e]
        /\ \A e \in DOMAIN Escapes \ Undone : rule[k] # Escapes[e]
  BY <1>2, MarksAreNoEscapes
<1>4. MatchOf(encodeURIComponent(rule)) = rule
  BY <1>1, <1>3, EscapesUndone
<1> QED
  BY <1>4 DEF rule

\* The form holds texts without escapes, and would do so after a reload.
RuleInv ==
    /\ DOMAIN fields = DOMAIN Blank_form
    /\ \A f \in DOMAIN Blank_form : fields[f] \in Plain
    /\ \A f \in DOMAIN Blank_form : FilledIn(location.query)[f] \in Plain
    /\ RuleArrives

LEMMA EmptyIsPlain == <<>> \in Plain
  BY DEF Plain

\* Links fill in nothing but the name of a signal.
LEMMA LinkForms ==
    /\ \A f \in DOMAIN Blank_form : FilledIn(NoQuery)[f] = <<>>
    /\ \A e : \A f \in DOMAIN Blank_form : FilledIn(InterfaceLink(e).query)[f] = <<>>
    /\ \A s : \A f \in DOMAIN Blank_form : FilledIn(SignalLink(s).query)[f] \in {<<>>, s}
<1>1. DOMAIN Blank_form = {"type", "sender", "interface", "member", "path",
                            "path_namespace", "destination", "arg0namespace", "eavesdrop"}
  <2>1. DOMAIN Keys = 1..9
    BY DEF Keys
  <2>2. DOMAIN Blank_form = {Keys[k] : k \in 1..9}
    BY <2>1 DEF Blank_form
  <2> QED
    BY <2>2 DEF Keys
<1> DEFINE name(f) == IF f = "path_namespace" THEN "pathNamespace" ELSE f
<1>2. \A query : \A f \in DOMAIN Blank_form :
        FilledIn(query)[f] = IF name(f) \in DOMAIN query THEN query[name(f)] ELSE <<>>
  BY DEF FilledIn
<1>3. \A f \in DOMAIN Blank_form : name(f) \notin {"object_path", "interface_name", "service_name", "ws_port"}
  BY <1>1
<1> HIDE DEF name
<1>4. DOMAIN NoQuery = {}
  BY DEF NoQuery
<1>5. \A e : DOMAIN InterfaceLink(e).query = {"object_path", "interface_name", "service_name"}
  BY DEF InterfaceLink
<1>6. \A s : DOMAIN SignalLink(s).query = {"member", "ws_port"} /\ SignalLink(s).query["member"] = s
  BY DEF SignalLink
<1> QED
  BY <1>2, <1>3, <1>4, <1>5, <1>6

LEMMA RuleLoaded ==
    ASSUME NEW url, NEW f, Load(url, f), \A g \in DOMAIN Blank_form : FilledIn(url.query)[g] \in Plain
    PROVE  RuleInv'
<1>1. fields' = FilledIn(url.query) /\ sockets' = <<>> /\ location' = url
  BY DEF Load, OpenForm
<1>2. RuleArrives'
  BY <1>1 DEF RuleArrives
<1>3. DOMAIN fields' = DOMAIN Blank_form
  BY <1>1 DEF FilledIn
<1>4. FilledIn(location.query)' = FilledIn(url.query)
  BY <1>1 DEF FilledIn
<1> QED
  BY <1>1, <1>2, <1>3, <1>4 DEF RuleInv

\* A socket keeps its rule.
LEMMA SocketsKeepRules ==
    ASSUME ButtonShape, RuleArrives, NEW n \in DOMAIN sockets, NEW state, Become(n, state)
    PROVE  RuleArrives'
<1> PICK W, M : sockets \in Seq(Socket(W, M))
  BY DEF ButtonShape
<1>1. sockets' = [sockets EXCEPT ![n] = [sockets[n] EXCEPT !.state = state]]
  BY DEF Become
<1>2. sockets[n] \in Socket(W, M)
  OBVIOUS
<1>3. DOMAIN sockets' = DOMAIN sockets
  BY <1>1
<1>4. sockets'[n].match = sockets[n].match /\ sockets'[n].wanted = sockets[n].wanted
  BY <1>1, <1>2 DEF Socket
<1>5. \A k \in DOMAIN sockets \ {n} : sockets'[k] = sockets[k]
  BY <1>1
<1> QED
  BY <1>3, <1>4, <1>5 DEF RuleArrives

LEMMA RuleStepKept ==
    ASSUME RuleInv, ButtonShape, RuleStep, UNCHANGED location
    PROVE  RuleInv'
<1>0. DOMAIN sockets = 1..Len(sockets) /\ Len(sockets) \in Nat
  BY DEF ButtonShape
<1>1. CASE \E f \in DOMAIN Inputs : \E text \in Inputs[f] : Edit(f, text)
  <2> PICK f \in DOMAIN Inputs : \E text \in Inputs[f] : Edit(f, text)
    BY <1>1
  <2> PICK text \in Inputs[f] : Edit(f, text)
    OBVIOUS
  <2>1. f \in DOMAIN Blank_form /\ text \in Plain
    BY InputsAssumption
  <2>2. fields' = [fields EXCEPT ![f] = text] /\ sockets' = sockets
    BY DEF Edit
  <2> QED
    BY <2>1, <2>2 DEF RuleInv, RuleArrives, FilledIn
<1>2. CASE ToggleOn
  <2>1. MatchOf(encodeURIComponent(generateMatchRule(fields))) = generateMatchRule(fields)
    BY FormArrives DEF RuleInv
  <2>2. sockets'[ws'].match = sockets'[ws'].wanted
    BY <1>2, <2>1, SocketAdded
  <2>3. RuleArrives'
    BY <1>2, <2>2, SocketAdded DEF RuleInv, RuleArrives
  <2>4. fields' = fields
    BY <1>2 DEF ToggleOn
  <2> QED
    BY <2>3, <2>4 DEF RuleInv, FilledIn
<1>3. CASE \/ ToggleOff
           \/ \E n \in DOMAIN sockets : OnOpen(n) \/ ServerCloses(n) \/ OnClose(n)
  <2>1. PICK n, state : n \in DOMAIN sockets /\ Become(n, state)
    <3>1. ToggleOff => ws \in DOMAIN sockets /\ Become(ws, "CLOSING")
      BY <1>0 DEF ToggleOff, IsOpen, ButtonShape
    <3> QED
      BY <1>3, <3>1 DEF OnOpen, ServerCloses, OnClose
  <2>2. fields' = fields
    BY <1>3 DEF ToggleOff, OnOpen, ServerCloses, OnClose
  <2>3. RuleArrives'
    BY <2>1, SocketsKeepRules DEF RuleInv
  <2> QED
    BY <2>2, <2>3 DEF RuleInv, FilledIn
<1> QED
  BY <1>1, <1>2, <1>3 DEF RuleStep

LEMMA RuleKept ==
    ASSUME RuleInv, ButtonShape, [Next]_vars
    PROVE  RuleInv'
<1>1. CASE \E e \in Listing : ChooseInterface(e)
  <2> PICK e \in Listing : ChooseInterface(e)
    BY <1>1
  <2>1. Load(InterfaceLink(e), None)
    BY DEF ChooseInterface
  <2>2. \A g \in DOMAIN Blank_form : FilledIn(InterfaceLink(e).query)[g] \in Plain
    BY LinkForms, EmptyIsPlain
  <2> QED
    BY <2>1, <2>2, RuleLoaded
<1>2. CASE \E url \in Typed : Type(url)
  <2> PICK url \in Typed : Type(url)
    BY <1>2
  <2>1. Load(url, None)
    BY DEF Type
  <2>2. \A g \in DOMAIN Blank_form : FilledIn(url.query)[g] \in Plain
    BY FormsAssumption
  <2> QED
    BY <2>1, <2>2, RuleLoaded
<1>3. CASE \E m \in UNION {Methods[e] : e \in Listing} : ChooseMethod(m)
  <2> PICK m : ChooseMethod(m)
    BY <1>3
  <2>1. Load(TryLink(location.query, m), None) /\ TryLink(location.query, m).query = NoQuery
    BY DEF ChooseMethod, TryLink
  <2>2. \A g \in DOMAIN Blank_form : FilledIn(TryLink(location.query, m).query)[g] \in Plain
    BY <2>1, LinkForms, EmptyIsPlain
  <2> QED
    BY <2>1, <2>2, RuleLoaded
<1>4. CASE \E s \in UNION {Signals[e] : e \in Listing} : ChooseSignal(s)
  <2> PICK s \in UNION {Signals[e] : e \in Listing} : ChooseSignal(s)
    BY <1>4
  <2>1. Load(SignalLink(s), None)
    BY DEF ChooseSignal
  <2>2. s \in Plain
    BY FormsAssumption
  <2>3. \A g \in DOMAIN Blank_form : FilledIn(SignalLink(s).query)[g] \in Plain
    BY <2>2, LinkForms, EmptyIsPlain
  <2> QED
    BY <2>1, <2>3, RuleLoaded
<1>5. CASE Reload
  <2>1. Load(location, fragment)
    BY <1>5 DEF Reload
  <2> QED
    BY <2>1, RuleLoaded DEF RuleInv
<1>6. CASE RulePageStep
  BY <1>6, RuleStepKept DEF RulePageStep, tab
<1>7. CASE UNCHANGED <<location, rule_state>>
  BY <1>7 DEF RuleInv, RuleArrives, FilledIn, rule_state
<1>8. \/ \E e \in Listing : Describe(e) \/ Publish(e)
      \/ PressCall
      \/ SchemaSteps
      \/ \E op \in Operations : OnSchema(Expand(op))
      \/ \E v \in Values : \E how \in Outcomes : OnSchema(Execute(v, how))
      \/ UNCHANGED vars
      => UNCHANGED <<location, rule_state>>
  BY DEF Describe, Publish, PressCall, SchemaSteps, OnSchema, vars, tab
<1> QED
  BY <1>1, <1>2, <1>3, <1>4, <1>5, <1>6, <1>7, <1>8 DEF Next

\* Of every rule that D-Bus names and paths can be put into, whatever of them
\* comes from a URL, a link or the visitor, the server subscribes to just that rule.
THEOREM RuleArrivesAlways == Spec => []RuleArrives
<1>1. Init => RuleInv
  <2> SUFFICES ASSUME Init PROVE RuleInv
    OBVIOUS
  <2>1. fields = Blank_form /\ sockets = <<>> /\ location.query = NoQuery
    BY DEF Init, RuleInit
  <2>2. \A f \in DOMAIN Blank_form : Blank_form[f] = <<>>
    BY DEF Blank_form
  <2>3. RuleArrives
    BY <2>1 DEF RuleArrives
  <2> QED
    BY <2>1, <2>2, <2>3, LinkForms, EmptyIsPlain DEF RuleInv
<1>2. ButtonInv => ButtonShape
  BY DEF ButtonInv
<1>3. RuleInv => RuleArrives
  BY DEF RuleInv
<1> QED
  BY <1>1, <1>2, <1>3, RuleKept, ButtonInvariance, PTL DEF Spec

-----------------------------------------------------------------------------
(* The path of a call, for texts of any length over any words: it is taken
   apart into the very names it was made of. *)

\* The first mark behind a text that does not hold it is found there.
LEMMA FindFirst ==
    ASSUME NEW W, NEW mark \in W, NEW u \in Seq(W), NEW v \in Seq(W), Without(u, mark)
    PROVE  find(u \o <<mark>> \o v, mark) = Len(u) + 1
<1> DEFINE text == u \o <<mark>> \o v
<1>1. /\ text \in Seq(W) /\ Len(text) = Len(u) + 1 + Len(v)
      /\ text[Len(u) + 1] = mark
      /\ \A k \in 1..Len(u) : text[k] = u[k]
  OBVIOUS
<1>2. Len(u) + 1 \in At(text, mark)
  BY <1>1 DEF At
<1>3. \A j \in At(text, mark) : Len(u) + 1 <= j
  <2> SUFFICES ASSUME NEW j \in At(text, mark), j < Len(u) + 1 PROVE FALSE
    BY <1>1 DEF At
  <2>1. j \in 1..Len(u) /\ u[j] = mark
    BY <1>1 DEF At
  <2> QED BY <2>1 DEF At, Without
<1>4. At(text, mark) \subseteq Nat
  BY DEF At
<1> HIDE DEF text
<1>5. find(text, mark) = Len(u) + 1
  BY <1>2, <1>3, <1>4 DEF find, Without
<1> QED BY <1>5 DEF text

\* The last mark before a text that does not hold it is found there.
LEMMA FindLast ==
    ASSUME NEW W, NEW mark \in W, NEW u \in Seq(W), NEW v \in Seq(W), Without(v, mark)
    PROVE  rfind(u \o <<mark>> \o v, mark) = Len(u) + 1
<1> DEFINE text == u \o <<mark>> \o v
<1>1. /\ text \in Seq(W) /\ Len(text) = Len(u) + 1 + Len(v)
      /\ text[Len(u) + 1] = mark
      /\ \A k \in 1..Len(v) : text[Len(u) + 1 + k] = v[k]
  OBVIOUS
<1>2. Len(u) + 1 \in At(text, mark)
  BY <1>1 DEF At
<1>3. \A j \in At(text, mark) : Len(u) + 1 >= j
  <2> SUFFICES ASSUME NEW j \in At(text, mark), j > Len(u) + 1 PROVE FALSE
    BY <1>1 DEF At
  <2>1. j - Len(u) - 1 \in 1..Len(v) /\ j = Len(u) + 1 + (j - Len(u) - 1)
    BY <1>1 DEF At
  <2>2. v[j - Len(u) - 1] = mark
    BY <1>1, <2>1 DEF At
  <2> QED BY <2>1, <2>2 DEF At, Without
<1>4. At(text, mark) \subseteq Nat
  BY DEF At
<1> HIDE DEF text
<1>5. rfind(text, mark) = Len(u) + 1
  BY <1>2, <1>3, <1>4 DEF rfind, Without
<1> QED BY <1>5 DEF text

\* Cutting at the mark gives both sides back.
LEMMA CutAtMark ==
    ASSUME NEW W, NEW mark \in W, NEW u \in Seq(W), NEW v \in Seq(W)
    PROVE  /\ Before(u \o <<mark>> \o v, Len(u) + 1) = u
           /\ After(u \o <<mark>> \o v, Len(u) + 1) = v
<1> DEFINE text == u \o <<mark>> \o v
<1>1. text \in Seq(W) /\ Len(text) = Len(u) + 1 + Len(v)
  OBVIOUS
<1>2. SubSeq(text, 1, Len(u)) = u
  OBVIOUS
<1>3. SubSeq(text, Len(u) + 2, Len(text)) = v
  OBVIOUS
<1> QED BY <1>1, <1>2, <1>3 DEF Before, After

\* Concatenation under a name of its own: the provers rewrite \o by themselves.
cat(s, t) == s \o t

LEMMA CatType ==
    ASSUME NEW W, NEW s \in Seq(W), NEW t \in Seq(W)
    PROVE  cat(s, t) \in Seq(W)
  BY ConcatProperties DEF cat

LEMMA CatAssociative ==
    ASSUME NEW W, NEW s \in Seq(W), NEW t \in Seq(W), NEW u \in Seq(W)
    PROVE  cat(cat(s, t), u) = cat(s, cat(t, u))
  BY ConcatAssociative DEF cat

\* The parse of a link made by the HTML pages gives back what the link was made
\* for: for every service and interface name without a slash, every object path
\* and every method name without slash or dot.
THEOREM LinksParseBack ==
    ASSUME NEW W, "/" \in W, "." \in W,
           NEW service \in Seq(W), NEW path \in Seq(W),
           NEW interface \in Seq(W), NEW method \in Seq(W),
           Without(service, "/"), Without(interface, "/"),
           Without(method, "/"), Without(method, ".")
    PROVE  LET c == [service |-> service, object |-> <<"/">> \o path,
                     interface |-> interface, method |-> method]
           IN  parse_dbus_request_path(CallPath(c)) = c
<1> DEFINE c == [service |-> service, object |-> <<"/">> \o path,
                 interface |-> interface, method |-> method]
           member == interface \o <<".">> \o method
           rest == path \o <<"/">> \o member
<1>1. /\ member \in Seq(W) /\ rest \in Seq(W)
      /\ CallPath(c) = service \o <<"/">> \o rest
  <2> DEFINE slash == <<"/">>
             dot == <<".">>
             front == cat(cat(service, slash), path)
             tail == cat(interface, cat(dot, method))
  <2>1. slash \in Seq(W) /\ dot \in Seq(W)
    OBVIOUS
  <2>2. CallPath(c) = service \o (slash \o path) \o slash \o interface \o dot \o method
    BY DEF CallPath
  <2>3. member \in Seq(W) /\ rest \in Seq(W)
    BY ConcatProperties
  <2> HIDE DEF slash, dot, c, member, rest
  <2>4. /\ cat(service, slash) \in Seq(W) /\ cat(path, slash) \in Seq(W)
        /\ cat(interface, dot) \in Seq(W) /\ cat(dot, method) \in Seq(W)
        /\ front \in Seq(W) /\ cat(front, slash) \in Seq(W)
        /\ cat(cat(front, slash), interface) \in Seq(W)
        /\ tail \in Seq(W) /\ cat(slash, tail) \in Seq(W)
    BY <2>1, CatType
  <2>5. cat(cat(cat(cat(cat(service, cat(slash, path)), slash), interface), dot), method)
          = cat(cat(front, slash), tail)
    BY <2>1, <2>4, CatAssociative
  <2>6. cat(cat(front, slash), tail) = cat(cat(service, slash), cat(path, cat(slash, tail)))
    BY <2>1, <2>4, CatAssociative
  <2>7. cat(path, cat(slash, tail)) = cat(cat(path, slash), cat(cat(interface, dot), method))
    BY <2>1, <2>4, CatAssociative
  <2>8. CallPath(c) = service \o slash \o rest
    BY <2>2, <2>5, <2>6, <2>7 DEF cat, rest, member, slash, dot
  <2> QED BY <2>3, <2>8 DEF slash
<1>2. Without(member, "/")
  <2> SUFFICES ASSUME NEW k \in 1..Len(member), member[k] = "/" PROVE FALSE
    BY DEF Without, At
  <2>1. CASE k \in 1..Len(interface)
    BY <2>1 DEF Without, At
  <2>2. CASE k = Len(interface) + 1
    BY <2>2
  <2>3. CASE k > Len(interface) + 1
    <3>1. k - Len(interface) - 1 \in 1..Len(method)
      BY <2>3
    <3>2. method[k - Len(interface) - 1] = member[k]
      BY <2>3, <3>1
    <3> QED BY <3>1, <3>2 DEF Without, At
  <2> QED BY <2>1, <2>2, <2>3
<1> HIDE DEF rest
<1>3. /\ find(CallPath(c), "/") = Len(service) + 1
      /\ Before(CallPath(c), Len(service) + 1) = service
      /\ After(CallPath(c), Len(service) + 1) = rest
  <2>1. find(service \o <<"/">> \o rest, "/") = Len(service) + 1
    BY <1>1, FindFirst
  <2>2. /\ Before(service \o <<"/">> \o rest, Len(service) + 1) = service
        /\ After(service \o <<"/">> \o rest, Len(service) + 1) = rest
    BY <1>1, CutAtMark
  <2> QED BY <1>1, <2>1, <2>2
<1> HIDE DEF member
<1>4. /\ rfind(rest, "/") = Len(path) + 1
      /\ Before(rest, Len(path) + 1) = path
      /\ After(rest, Len(path) + 1) = member
  <2>1. rfind(path \o <<"/">> \o member, "/") = Len(path) + 1
    BY <1>1, <1>2, FindLast
  <2>2. /\ Before(path \o <<"/">> \o member, Len(path) + 1) = path
        /\ After(path \o <<"/">> \o member, Len(path) + 1) = member
    BY <1>1, CutAtMark
  <2> QED BY <2>1, <2>2 DEF rest
<1>5. /\ rfind(member, ".") = Len(interface) + 1
      /\ Before(member, Len(interface) + 1) = interface
      /\ After(member, Len(interface) + 1) = method
  BY FindLast, CutAtMark DEF member
<1>6. Len(service) + 1 # 0 /\ Len(path) + 1 # 0 /\ Len(interface) + 1 # 0
  OBVIOUS
<1>7. parse_dbus_request_path(CallPath(c)) =
        [service |-> service, object |-> <<"/">> \o path,
         interface |-> interface, method |-> method]
  BY <1>3, <1>4, <1>5, <1>6 DEF parse_dbus_request_path, npos
<1> QED BY <1>7

-----------------------------------------------------------------------------
(* The path of a call, the other way: what is taken apart can be put together *)

\* What find finds is a mark, with none before it.
LEMMA FoundFirst ==
    ASSUME NEW W, NEW mark, NEW text \in Seq(W), NEW k, k = find(text, mark), k # npos
    PROVE  /\ k \in 1..Len(text) /\ text[k] = mark
           /\ Before(text, k) \in Seq(W) /\ After(text, k) \in Seq(W)
           /\ Without(Before(text, k), mark)
<1> DEFINE S == At(text, mark)
<1>1. S \subseteq Nat
  BY DEF At
<1>2. S # {} /\ k = CHOOSE i \in S : \A j \in S : i <= j
  BY DEF find, Without
<1> HIDE DEF S
<1>3. k \in S /\ \A j \in S : k <= j
  BY <1>1, <1>2, LeastElement
<1>4. k \in 1..Len(text) /\ text[k] = mark
  BY <1>3 DEF S, At
<1>5. /\ Before(text, k) \in Seq(W) /\ After(text, k) \in Seq(W) /\ Len(Before(text, k)) = k - 1
      /\ \A j \in 1..k - 1 : Before(text, k)[j] = text[j]
  BY <1>4 DEF Before, After
<1>6. ASSUME NEW j \in 1..Len(Before(text, k)), Before(text, k)[j] = mark PROVE FALSE
  <2>1. j \in 1..Len(text) /\ text[j] = mark /\ j < k
    BY <1>4, <1>5, <1>6
  <2>2. j \in S
    BY <2>1 DEF S, At
  <2> QED
    BY <1>3, <1>4, <2>1, <2>2
<1> QED
  BY <1>4, <1>5, <1>6 DEF Without, At

\* What rfind finds is a mark, with none behind it.
LEMMA FoundLast ==
    ASSUME NEW W, NEW mark, NEW text \in Seq(W), NEW k, k = rfind(text, mark), k # npos
    PROVE  /\ k \in 1..Len(text) /\ text[k] = mark
           /\ Before(text, k) \in Seq(W) /\ After(text, k) \in Seq(W)
           /\ Without(After(text, k), mark)
<1> DEFINE S == At(text, mark)
<1>1. S \subseteq 1..Len(text) /\ Len(text) \in Nat
  BY DEF At
<1>2. S # {} /\ k = CHOOSE i \in S : \A j \in S : i >= j
  BY DEF rfind, Without
<1>3. \E i \in S : \A j \in S : i >= j
  <2> DEFINE down == {n \in Nat : Len(text) - n \in S}
  <2>1. down # {}
    <3>1. PICK i \in S : TRUE
      BY <1>2
    <3>2. i \in 1..Len(text) /\ Len(text) \in Nat
      BY <1>1
    <3>3. Len(text) - i \in Nat /\ Len(text) - (Len(text) - i) = i
      BY <3>2
    <3> HIDE DEF S
    <3> QED
      BY <3>1, <3>3
  <2>2. PICK n \in down : \A l \in down : n <= l
    <3>1. down \in SUBSET Nat
      OBVIOUS
    <3> HIDE DEF down
    <3> QED
      BY <2>1, <3>1, LeastElement
  <2>3. n \in Nat /\ Len(text) - n \in S
    BY <2>2
  <2>4. ASSUME NEW j \in S PROVE Len(text) - n >= j
    <3>1. j \in 1..Len(text)
      BY <1>1
    <3>2. Len(text) - j \in Nat /\ Len(text) - (Len(text) - j) = j
      BY <1>1, <3>1
    <3> HIDE DEF S
    <3>3. Len(text) - j \in down
      BY <2>4, <3>2
    <3>4. n <= Len(text) - j
      BY <2>2, <3>3
    <3> QED
      BY <1>1, <2>3, <3>1, <3>4
  <2> QED
    BY <2>3, <2>4
<1> HIDE DEF S
<1>4. k \in S /\ \A j \in S : k >= j
  BY <1>2, <1>3
<1>5. k \in 1..Len(text) /\ text[k] = mark
  BY <1>4 DEF S, At
<1>6. /\ Before(text, k) \in Seq(W) /\ After(text, k) \in Seq(W) /\ Len(After(text, k)) = Len(text) - k
      /\ \A j \in 1..Len(text) - k : After(text, k)[j] = text[k + j]
  BY <1>5 DEF Before, After
<1>7. ASSUME NEW j \in 1..Len(After(text, k)), After(text, k)[j] = mark PROVE FALSE
  <2>1. k + j \in 1..Len(text) /\ text[k + j] = mark /\ k + j > k
    BY <1>5, <1>6, <1>7
  <2>2. k + j \in S
    BY <2>1 DEF S, At
  <2> QED
    BY <1>4, <1>5, <2>1, <2>2
<1> QED
  BY <1>5, <1>6, <1>7 DEF Without, At

\* x is s with t behind it.
Pasted(x, s, t) ==
    /\ Len(x) = Len(s) + Len(t)
    /\ \A k \in 1..Len(s) : x[k] = s[k]
    /\ \A k \in 1..Len(t) : x[Len(s) + k] = t[k]

LEMMA CatParts ==
    ASSUME NEW W, NEW s \in Seq(W), NEW t \in Seq(W)
    PROVE  cat(s, t) \in Seq(W) /\ Pasted(cat(s, t), s, t)
<1>1. s \o t \in Seq(W) /\ Len(s \o t) = Len(s) + Len(t)
  OBVIOUS
<1>2. \A k \in 1..Len(s) : (s \o t)[k] = s[k]
  OBVIOUS
<1>3. \A k \in 1..Len(t) : (s \o t)[Len(s) + k] = t[k]
  OBVIOUS
<1> QED
  BY <1>1, <1>2, <1>3 DEF cat, Pasted

\* The two sides of a mark, with the mark between them, are the text.
LEMMA CutJoins ==
    ASSUME NEW W, NEW text \in Seq(W), NEW k \in 1..Len(text), NEW mark \in W, text[k] = mark
    PROVE  text = cat(Before(text, k), cat(<<mark>>, After(text, k)))
<1> DEFINE u == Before(text, k)
           v == After(text, k)
           m == <<mark>>
           w == cat(m, v)
           x == cat(u, w)
<1>1. /\ u \in Seq(W) /\ Len(u) = k - 1 /\ \A j \in 1..k - 1 : u[j] = text[j]
      /\ v \in Seq(W) /\ Len(v) = Len(text) - k /\ \A j \in 1..Len(text) - k : v[j] = text[k + j]
  BY DEF Before, After
<1>2. m \in Seq(W) /\ Len(m) = 1 /\ m[1] = mark
  OBVIOUS
<1> HIDE DEF u, v, m
<1>3. /\ w \in Seq(W) /\ Len(w) = Len(m) + Len(v)
      /\ \A j \in 1..Len(m) : w[j] = m[j]
      /\ \A j \in 1..Len(v) : w[Len(m) + j] = v[j]
  <2>1. w \in Seq(W) /\ Pasted(w, m, v)
    BY <1>1, <1>2, CatParts
  <2> QED
    BY <2>1 DEF Pasted
<1> HIDE DEF w
<1>4. /\ x \in Seq(W) /\ Len(x) = Len(u) + Len(w)
      /\ \A j \in 1..Len(u) : x[j] = u[j]
      /\ \A j \in 1..Len(w) : x[Len(u) + j] = w[j]
  <2>1. x \in Seq(W) /\ Pasted(x, u, w)
    BY <1>1, <1>3, CatParts
  <2> QED
    BY <2>1 DEF Pasted
<1> HIDE DEF x
<1>5. Len(x) = Len(text)
  BY <1>1, <1>2, <1>3, <1>4
<1>6. \A j \in 1..Len(text) : x[j] = text[j]
  <2> TAKE j \in 1..Len(text)
  <2>1. CASE j < k
    BY <1>1, <1>4, <2>1
  <2>2. CASE j = k
    <3>1. 1 \in 1..Len(w) /\ Len(u) + 1 = k /\ 1 \in 1..Len(m)
      BY <1>1, <1>2, <1>3
    <3> QED
      BY <1>2, <1>3, <1>4, <2>2, <3>1
  <2>3. CASE j > k
    <3>1. j - k \in 1..Len(v) /\ 1 + (j - k) \in 1..Len(w) /\ Len(u) + (1 + (j - k)) = j /\ k + (j - k) = j
      BY <1>1, <1>2, <1>3, <2>3
    <3>2. x[j] = w[1 + (j - k)]
      BY <1>4, <3>1
    <3>3. w[1 + (j - k)] = v[j - k]
      BY <1>2, <1>3, <3>1
    <3> QED
      BY <1>1, <3>1, <3>2, <3>3
  <2> QED
    BY <2>1, <2>2, <2>3
<1>7. x = text
  BY <1>4, <1>5, <1>6
<1> QED
  BY <1>7, Zenon DEF x, w, u, v, m

\* A part of a text holds no mark that the text does not hold.
LEMMA WithoutBefore ==
    ASSUME NEW W, NEW text \in Seq(W), NEW mark, Without(text, mark), NEW k \in 1..Len(text)
    PROVE  Without(Before(text, k), mark) /\ Without(After(text, k), mark)
<1>1. /\ Len(Before(text, k)) = k - 1 /\ \A j \in 1..k - 1 : Before(text, k)[j] = text[j]
      /\ Len(After(text, k)) = Len(text) - k /\ \A j \in 1..Len(text) - k : After(text, k)[j] = text[k + j]
  BY DEF Before, After
<1>2. \A j \in 1..Len(text) : text[j] # mark
  BY DEF Without, At
<1>3. \A j \in 1..k - 1 : Before(text, k)[j] # mark
  BY <1>1, <1>2
<1>4. \A j \in 1..Len(text) - k : After(text, k)[j] # mark
  <2> TAKE j \in 1..Len(text) - k
  <2>1. k + j \in 1..Len(text)
    OBVIOUS
  <2> QED
    BY <1>1, <1>2, <2>1
<1> QED
  BY <1>1, <1>3, <1>4 DEF Without, At

\* The parts that a call path may have.
CallParts(c) ==
    /\ Without(c.service, "/") /\ Without(c.interface, "/")
    /\ Without(c.method, "/") /\ Without(c.method, ".")
    /\ c.object # <<>> /\ c.object[1] = "/"

\* A path that parse_dbus_request_path takes apart is the path of the call it
\* makes of it, with the slashes and dots where the HTML pages put them: no two
\* paths are taken for the same call, and nothing of a path is lost.
THEOREM PathsReadBack ==
    ASSUME NEW W, "/" \in W, "." \in W, NEW path \in Seq(W),
           parse_dbus_request_path(path) # Incomplete
    PROVE  LET c == parse_dbus_request_path(path)
           IN  CallPath(c) = path /\ CallParts(c)
<1> DEFINE first == find(path, "/")
           rest == After(path, first)
           last == rfind(rest, "/")
           member == After(rest, last)
           dot == rfind(member, ".")
           service == Before(path, first)
           front == Before(rest, last)
           interface == Before(member, dot)
           method == After(member, dot)
           c == [service |-> service, object |-> <<"/">> \o front,
                 interface |-> interface, method |-> method]
<1>1. first # npos /\ last # npos /\ dot # npos /\ parse_dbus_request_path(path) = c
  BY Zenon DEF parse_dbus_request_path
<1>2. /\ first \in 1..Len(path) /\ path[first] = "/"
      /\ service \in Seq(W) /\ rest \in Seq(W) /\ Without(service, "/")
  BY <1>1, FoundFirst, Zenon
<1>3. path = cat(service, cat(<<"/">>, rest))
  BY <1>2, CutJoins, Zenon
<1> HIDE DEF first
<1>4. /\ last \in 1..Len(rest) /\ rest[last] = "/"
      /\ front \in Seq(W) /\ member \in Seq(W) /\ Without(member, "/")
  BY <1>1, <1>2, FoundLast, Zenon
<1>5. rest = cat(front, cat(<<"/">>, member))
  BY <1>2, <1>4, CutJoins, Zenon
<1> HIDE DEF last
<1>6. /\ dot \in 1..Len(member) /\ member[dot] = "."
      /\ interface \in Seq(W) /\ method \in Seq(W) /\ Without(method, ".")
  BY <1>1, <1>4, FoundLast, Zenon
<1>7. member = cat(interface, cat(<<".">>, method))
  BY <1>4, <1>6, CutJoins, Zenon
<1>8. Without(interface, "/") /\ Without(method, "/")
  BY <1>4, <1>6, WithoutBefore, Zenon
<1> HIDE DEF dot, service, interface, method, front, member, rest
<1> DEFINE slash == <<"/">>
           point == <<".">>
<1>9. slash \in Seq(W) /\ point \in Seq(W)
  OBVIOUS
<1>10. CallPath(c) = cat(cat(cat(cat(cat(service, cat(slash, front)), slash), interface), point), method)
  BY DEF CallPath, cat
<1>11. path = cat(service, cat(slash, cat(front, cat(slash, cat(interface, cat(point, method))))))
  BY <1>3, <1>5, <1>7, Zenon
<1>12. CallParts(c)
  <2>1. slash \o front # <<>> /\ (slash \o front)[1] = "/"
    BY <1>4
  <2> HIDE DEF slash
  <2>2. c.service = service /\ c.interface = interface /\ c.method = method /\ c.object = slash \o front
    BY DEF slash
  <2> QED
    BY <1>2, <1>6, <1>8, <2>1, <2>2, Zenon DEF CallParts
<1> HIDE DEF slash, point, c
<1>13. CallPath(c) = path
  <2> DEFINE im == cat(interface, cat(point, method))
             fs == cat(front, cat(slash, im))
  <2>1. \A s, t \in Seq(W) : cat(s, t) \in Seq(W)
    BY CatType
  <2>2. \A s, t, u \in Seq(W) : cat(cat(s, t), u) = cat(s, cat(t, u))
    BY CatAssociative
  <2>3. /\ cat(slash, front) \in Seq(W) /\ cat(service, cat(slash, front)) \in Seq(W)
        /\ cat(cat(service, cat(slash, front)), slash) \in Seq(W)
        /\ cat(cat(cat(service, cat(slash, front)), slash), interface) \in Seq(W)
        /\ cat(point, method) \in Seq(W) /\ im \in Seq(W) /\ cat(slash, im) \in Seq(W)
    BY <1>2, <1>4, <1>6, <1>9, <2>1, Zenon
  <2>4. cat(cat(cat(cat(cat(service, cat(slash, front)), slash), interface), point), method)
          = cat(cat(cat(cat(service, cat(slash, front)), slash), interface), cat(point, method))
    BY <1>6, <1>9, <2>2, <2>3
  <2>5. cat(cat(cat(cat(service, cat(slash, front)), slash), interface), cat(point, method))
          = cat(cat(cat(service, cat(slash, front)), slash), im)
    BY <1>6, <1>9, <2>2, <2>3
  <2>6. cat(cat(cat(service, cat(slash, front)), slash), im) = cat(cat(service, cat(slash, front)), cat(slash, im))
    BY <1>9, <2>2, <2>3
  <2>7. cat(cat(service, cat(slash, front)), cat(slash, im)) = cat(service, cat(cat(slash, front), cat(slash, im)))
    BY <1>2, <2>2, <2>3
  <2>8. cat(cat(slash, front), cat(slash, im)) = cat(slash, fs)
    BY <1>4, <1>9, <2>2, <2>3
  <2> QED
    BY <1>10, <1>11, <2>4, <2>5, <2>6, <2>7, <2>8, Zenon
<1> QED
  BY <1>1, <1>12, <1>13, Zenon

-----------------------------------------------------------------------------
(* Routing *)

\* The words of the paths: the provers do not see that a literal is a string.
Literals == {"/", ".", "dbus", "service", "html", "interface", "call", "try", "matchrule",
             "index.html", "{service}", "{object_path}", "{interface}", "{method}"}
Words == STRING \cup Literals

\* A path is its prefix and what the handler gets of it.
LEMMA Cut ==
    ASSUME NEW p \in Seq(Words), NEW s \in Seq(Words)
    PROVE  /\ cat(p, s) \in Seq(Words) /\ Len(cat(p, s)) = Len(p) + Len(s)
           /\ SubSeq(cat(p, s), 1, Len(p)) = p
           /\ SubSeq(cat(p, s), Len(p) + 1, Len(cat(p, s))) = s
           /\ \A k \in 1..Len(p) : cat(p, s)[k] = p[k]
           /\ \A k \in 1..Len(s) : cat(p, s)[Len(p) + k] = s[k]
<1>1. p \o s \in Seq(Words) /\ Len(p \o s) = Len(p) + Len(s)
  OBVIOUS
<1>2. SubSeq(p \o s, 1, Len(p)) = p
  OBVIOUS
<1>3. SubSeq(p \o s, Len(p) + 1, Len(p \o s)) = s
  OBVIOUS
<1>4. \A k \in 1..Len(p) : (p \o s)[k] = p[k]
  OBVIOUS
<1>5. \A k \in 1..Len(s) : (p \o s)[Len(p) + k] = s[k]
  OBVIOUS
<1> QED
  BY <1>1, <1>2, <1>3, <1>4, <1>5 DEF cat

LEMMA BelowDbus ==
    ASSUME NEW s \in Seq(Words), Len(s) >= 1
    PROVE  /\ cat(dbus, s) \in Seq(Words) /\ Len(cat(dbus, s)) = 3 + Len(s)
           /\ cat(dbus, s)[2] = "dbus" /\ cat(dbus, s)[4] = s[1]
<1>1. dbus \in Seq(Words) /\ Len(dbus) = 3 /\ dbus[2] = "dbus"
  <2>1. "/" \in Words /\ "dbus" \in Words
    BY DEF Words, Literals
  <2>2. \A a, b, c \in Words : <<a, b, c>> \in Seq(Words)
    OBVIOUS
  <2>3. dbus \in Seq(Words)
    BY <2>1, <2>2, Zenon DEF dbus
  <2> QED
    BY <2>3 DEF dbus
<1>2. 2 \in 1..Len(dbus) /\ 1 \in 1..Len(s) /\ 4 = Len(dbus) + 1
  BY <1>1
<1>3. /\ cat(dbus, s) \in Seq(Words) /\ Len(cat(dbus, s)) = Len(dbus) + Len(s)
      /\ cat(dbus, s)[2] = dbus[2] /\ cat(dbus, s)[Len(dbus) + 1] = s[1]
  BY <1>1, <1>2, Cut
<1> QED
  BY <1>1, <1>2, <1>3

\* The words behind /dbus/ in the routes, in their order.
RouteWords == <<"service", "html", "interface", "interface", "service", "call", "try", "matchrule">>

LEMMA RouteTable ==
    /\ DOMAIN Routes = 1..8
    /\ \A n \in 1..8 : /\ Routes[n].path \in Seq(Words)
                       /\ Len(Routes[n].path) >= 4
                       /\ Routes[n].path[2] = "dbus"
                       /\ Routes[n].path[4] = RouteWords[n]
<1>1. DOMAIN Routes = 1..8
  BY DEF Routes
<1> DEFINE Good(n, tail) ==
      /\ Routes[n].path = cat(dbus, tail)
      /\ tail \in Seq(Words) /\ Len(tail) >= 1 /\ tail[1] = RouteWords[n]
<1>2. Good(1, <<"service">>) /\ Good(2, <<"html">>) /\ Good(8, <<"matchrule">>)
  BY DEF Routes, Route, RouteWords, Words, Literals, cat
<1>3. Good(3, <<"interface", "/", "html", "/">>) /\ Good(4, <<"interface", "/">>)
  BY DEF Routes, Route, RouteWords, Words, Literals, cat
<1>4. Good(5, <<"service", "/">>) /\ Good(6, <<"call", "/">>) /\ Good(7, <<"try", "/">>)
  BY DEF Routes, Route, RouteWords, Words, Literals, cat
<1>5. ASSUME NEW n \in 1..8, NEW tail, Good(n, tail)
      PROVE  /\ Routes[n].path \in Seq(Words)
             /\ Len(Routes[n].path) >= 4
             /\ Routes[n].path[2] = "dbus"
             /\ Routes[n].path[4] = RouteWords[n]
  BY <1>5, BelowDbus
<1> HIDE DEF Good
<1>6. \A n \in 1..8 : \E tail : Good(n, tail)
  BY <1>2, <1>3, <1>4
<1> QED
  BY <1>1, <1>5, <1>6

\* A path below /dbus/ fits only the routes of its next word.
LEMMA OnlyItsWord ==
    ASSUME NEW path \in Seq(Words), Len(path) >= 4, NEW verb, NEW n \in Fitting(verb, path)
    PROVE  n \in 1..8 /\ path[4] = RouteWords[n] /\ Routes[n].verb = verb
<1>1. n \in 1..8 /\ Fits(Routes[n], verb, path)
  BY RouteTable DEF Fitting
<1> DEFINE p == Routes[n].path
<1>2. p \in Seq(Words) /\ Len(p) >= 4 /\ p[4] = RouteWords[n]
  BY <1>1, RouteTable
<1>3. Len(p) <= Len(path) /\ SubSeq(path, 1, Len(p)) = p
  BY <1>1 DEF Fits
<1> HIDE DEF p
<1>4. SubSeq(path, 1, Len(p))[4] = path[4]
  BY <1>2, <1>3
<1> QED
  BY <1>1, <1>2, <1>3, <1>4 DEF Fits

\* No file is below /dbus/.
LEMMA NoFileThere ==
    ASSUME NEW path \in Seq(Words), Len(path) > 1, path[2] = "dbus"
    PROVE  ~IsFile(path)
<1> DEFINE index == path \o <<"index.html">>
<1>1. Len(index) > 1 /\ index[2] = "dbus"
  OBVIOUS
<1> QED
  BY <1>1, WordsAssumption DEF IsFile

\* The handler of the route n answers, and gets the rest of the path.
Reaches(verb, path, n, rest) ==
    \A how : Answer(verb, path, how) = Handle(Routes[n].handler, rest, how)

\* The first route of its word gets what is behind its path.
LEMMA Dispatched ==
    ASSUME NEW verb, NEW n \in 1..8, NEW rest \in Seq(Words), NEW path, path = cat(Routes[n].path, rest),
           Routes[n].verb = verb, Routes[n].open \/ rest = <<>>,
           \A k \in 1..8 : RouteWords[k] = RouteWords[n] => n <= k \/ ~Fits(Routes[k], verb, path)
    PROVE  Reaches(verb, path, n, rest)
<1>1. PICK p : p = Routes[n].path
  OBVIOUS
<1>2. p \in Seq(Words) /\ Len(p) >= 4 /\ p[2] = "dbus" /\ p[4] = RouteWords[n]
  BY <1>1, RouteTable, Zenon
<1>3. path = cat(p, rest)
  BY <1>1, Zenon
<1>4. Len(p) \in Nat /\ Len(rest) \in Nat /\ 2 \in 1..Len(p) /\ 4 \in 1..Len(p)
  BY <1>2
<1>5. /\ path \in Seq(Words) /\ Len(path) = Len(p) + Len(rest)
      /\ SubSeq(path, 1, Len(p)) = p
      /\ SubSeq(path, Len(p) + 1, Len(path)) = rest
      /\ path[2] = "dbus" /\ path[4] = RouteWords[n]
  <2>1. /\ path \in Seq(Words) /\ Len(path) = Len(p) + Len(rest)
        /\ SubSeq(path, 1, Len(p)) = p
        /\ SubSeq(path, Len(p) + 1, Len(path)) = rest
        /\ \A k \in 1..Len(p) : path[k] = p[k]
    <3>1. /\ cat(p, rest) \in Seq(Words) /\ Len(cat(p, rest)) = Len(p) + Len(rest)
          /\ SubSeq(cat(p, rest), 1, Len(p)) = p
          /\ SubSeq(cat(p, rest), Len(p) + 1, Len(cat(p, rest))) = rest
          /\ \A k \in 1..Len(p) : cat(p, rest)[k] = p[k]
      BY <1>2, Cut
    <3> QED
      BY <1>3, <3>1, Zenon
  <2>2. path[2] = p[2] /\ path[4] = p[4]
    BY <1>4, <2>1
  <2> QED
    BY <1>2, <2>1, <2>2
<1>6. Len(path) > 1 /\ Len(path) >= 4 /\ Len(p) <= Len(path)
  BY <1>2, <1>4, <1>5
<1>7. ~IsFile(path)
  BY <1>5, <1>6, NoFileThere
<1>8. rest = <<>> => p = path
  <2> SUFFICES ASSUME rest = <<>> PROVE p = path
    OBVIOUS
  <2>1. Len(path) = Len(p)
    BY <1>4, <1>5
  <2>2. path = SubSeq(path, 1, Len(path))
    BY <1>5
  <2> QED
    BY <1>5, <2>1, <2>2, Zenon
<1>9. Fits(Routes[n], verb, path)
  BY <1>1, <1>5, <1>6, <1>8, Zenon DEF Fits
<1>10. n \in Fitting(verb, path)
  BY <1>9, RouteTable, Zenon DEF Fitting
<1>11. ASSUME NEW k \in Fitting(verb, path)
       PROVE  k \in 1..8 /\ n <= k
  <2>1. k \in 1..8 /\ path[4] = RouteWords[k]
    BY <1>5, <1>6, OnlyItsWord
  <2>2. Fits(Routes[k], verb, path)
    BY DEF Fitting
  <2> QED
    BY <1>5, <2>1, <2>2
<1>12. First(Fitting(verb, path)) = n
  <2>1. \A k \in Fitting(verb, path) : (\A j \in Fitting(verb, path) : k <= j) => k = n
    BY <1>10, <1>11
  <2> QED
    BY <1>10, <1>11, <2>1 DEF First
<1>13. Fitting(verb, path) # {}
  BY <1>10
<1> QED
  BY <1>1, <1>5, <1>7, <1>12, <1>13, Zenon DEF Answer, Reaches

-----------------------------------------------------------------------------
(* What the links are answered *)

LEMMA StringsAreWords ==
    ASSUME NEW x \in Seq(STRING)
    PROVE  x \in Seq(Words)
<1>1. \A k \in 1..Len(x) : x[k] \in Words
  BY DEF Words
<1> QED
  BY <1>1

\* A method that someone declares, of something there is to list.
Callable(c) ==
    /\ c \in [service: Seq(STRING), object: Seq(STRING), interface: Seq(STRING), method: Seq(STRING)]
    /\ \E e \in Listing : c.service = e.service /\ c.object = e.object /\ c.interface = e.interface
    /\ \E d \in Listing : c.method \in Methods[d]

LEMMA CallableWords ==
    ASSUME NEW c, Callable(c)
    PROVE  /\ c.service \in Seq(Words) /\ c.object \in Seq(Words)
           /\ c.interface \in Seq(Words) /\ c.method \in Seq(Words)
           /\ Without(c.service, "/") /\ Without(c.interface, "/")
           /\ Without(c.method, "/") /\ Without(c.method, ".")
           /\ c.object # <<>> /\ c.object[1] = "/"
<1>1. /\ \E e \in Listing : c.service = e.service /\ c.object = e.object /\ c.interface = e.interface
      /\ \E d \in Listing : c.method \in Methods[d]
  BY DEF Callable
<1>2. /\ Without(c.service, "/") /\ Without(c.interface, "/")
      /\ c.object # <<>> /\ c.object[1] = "/"
      /\ Without(c.method, "/") /\ Without(c.method, ".")
  BY <1>1, WordsAssumption
<1> QED
  BY <1>2, StringsAreWords DEF Callable

\* Its path is taken apart into it.
LEMMA CallableParses ==
    ASSUME NEW c, Callable(c)
    PROVE  /\ CallPath(c) \in Seq(Words)
           /\ parse_dbus_request_path(CallPath(c)) = c
           /\ c # Incomplete
<1>1. "/" \in Words /\ "." \in Words
  BY DEF Words, Literals
<1>2. /\ c.service \in Seq(Words) /\ c.object \in Seq(Words)
      /\ c.interface \in Seq(Words) /\ c.method \in Seq(Words)
      /\ c.object # <<>> /\ c.object[1] = "/"
  BY CallableWords
<1>3. PICK path \in Seq(Words) : c.object = <<"/">> \o path
  <2>1. Tail(c.object) \in Seq(Words) /\ c.object = <<"/">> \o Tail(c.object)
    BY <1>2
  <2> QED
    BY <2>1
<1>4. c = [service |-> c.service, object |-> <<"/">> \o path, interface |-> c.interface, method |-> c.method]
  BY <1>3 DEF Callable
<1>5. parse_dbus_request_path(CallPath(c)) = c
  <2> DEFINE d == [service |-> c.service, object |-> <<"/">> \o path,
                   interface |-> c.interface, method |-> c.method]
  <2>1. /\ Without(c.service, "/") /\ Without(c.interface, "/")
        /\ Without(c.method, "/") /\ Without(c.method, ".")
    BY CallableWords
  <2>2. parse_dbus_request_path(CallPath(d)) = d
    BY <1>1, <1>2, <2>1, LinksParseBack, SMTT(40)
  <2> QED
    BY <1>4, <2>2, Zenon
<1>6. c # Incomplete
  BY <1>2 DEF Incomplete
<1>7. CallPath(c) \in Seq(Words)
  <2> DEFINE slash == <<"/">>
             dot == <<".">>
  <2>1. slash \in Seq(Words) /\ dot \in Seq(Words)
    BY <1>1
  <2>2. CallPath(c) = cat(cat(cat(cat(cat(c.service, c.object), slash), c.interface), dot), c.method)
    BY DEF CallPath, cat
  <2> HIDE DEF slash, dot
  <2> QED
    <3>1. \A s, t \in Seq(Words) : cat(s, t) \in Seq(Words)
      BY CatType
    <3>2. cat(cat(cat(c.service, c.object), slash), c.interface) \in Seq(Words)
      BY <1>2, <2>1, <3>1, Zenon
    <3>3. cat(cat(cat(cat(c.service, c.object), slash), c.interface), dot) \in Seq(Words)
      BY <2>1, <3>1, <3>2, Zenon
    <3>4. cat(cat(cat(cat(cat(c.service, c.object), slash), c.interface), dot), c.method) \in Seq(Words)
      BY <1>2, <3>1, <3>3, Zenon
    <3> QED
      BY <2>2, <3>4, Zenon
<1> QED
  BY <1>5, <1>6, <1>7

LEMMA EmptyIsWords == <<>> \in Seq(Words)
  OBVIOUS

LEMMA CatNothing ==
    ASSUME NEW s \in Seq(Words)
    PROVE  cat(s, <<>>) = s
  BY ConcatEmptySeq DEF cat

LEMMA RouteHeads ==
    /\ Routes[2].path = dbus \o <<"html">>
    /\ Routes[3].path = dbus \o <<"interface", "/", "html", "/">>
    /\ Routes[6].path = dbus \o <<"call", "/">>
    /\ Routes[7].path = dbus \o <<"try", "/">>
    /\ Routes[8].path = dbus \o <<"matchrule">>
  BY DEF Routes, Route

LEMMA RouteHandlers ==
    /\ Routes[2].verb = "GET" /\ Routes[2].handler = "html"
    /\ Routes[3].verb = "GET" /\ Routes[3].handler = "interface_html" /\ Routes[3].open
    /\ Routes[6].verb = "POST" /\ Routes[6].handler = "call" /\ Routes[6].open
    /\ Routes[7].verb = "GET" /\ Routes[7].handler = "try" /\ Routes[7].open
    /\ Routes[8].verb = "GET" /\ Routes[8].handler = "matchrule"
  BY DEF Routes, Route

\* The five pages and answers on the way.
LEMMA OverviewAnswered ==
    ASSUME NEW how
    PROVE  Answer("GET", Start.path, how) = [kind |-> "overview", links |-> listed]
<1>1. Start.path = cat(Routes[2].path, <<>>)
  <2>1. Start.path = Routes[2].path
    BY RouteHeads DEF Start
  <2>2. Routes[2].path \in Seq(Words)
    BY RouteTable
  <2> QED
    BY <2>1, <2>2, CatNothing, Zenon
<1>2. \A k \in 1..8 : RouteWords[k] = RouteWords[2] => 2 <= k
  BY DEF RouteWords
<1>3. Answer("GET", Start.path, how) = Handle("html", <<>>, how)
  <2>1. 2 \in 1..8 /\ <<>> \in Seq(Words)
    BY EmptyIsWords
  <2>2. ASSUME NEW path, path = cat(Routes[2].path, <<>>)
        PROVE  Answer("GET", path, how) = Handle("html", <<>>, how)
    <3>1. Reaches("GET", path, 2, <<>>)
      BY <1>2, <2>1, <2>2, RouteHandlers, Dispatched, Zenon
    <3> QED
      BY <3>1, RouteHandlers DEF Reaches
  <2> QED
    BY <1>1, <2>2, Zenon
<1> QED
  BY <1>3 DEF Handle

LEMMA InterfaceAnswered ==
    ASSUME NEW e \in Listing, e.interface \in KnownInterfaces, NEW how
    PROVE  Answer("GET", InterfaceLink(e).path, how) = interface_page(e.interface)
<1>0. e.interface \in Seq(Words) /\ Without(e.interface, "/")
  BY WordsAssumption, StringsAreWords
<1>1. InterfaceLink(e).path = cat(Routes[3].path, e.interface)
  BY RouteHeads DEF InterfaceLink, cat
<1>2. \A k \in 1..8 : RouteWords[k] = RouteWords[3] => 3 <= k
  BY DEF RouteWords
<1>3. Answer("GET", InterfaceLink(e).path, how) = Handle("interface_html", e.interface, how)
  <2>1. Reaches("GET", InterfaceLink(e).path, 3, e.interface)
    <3>1. ASSUME NEW path, path = cat(Routes[3].path, e.interface)
          PROVE  Reaches("GET", path, 3, e.interface)
      <4>1. 3 \in 1..8
        OBVIOUS
      <4> QED
        BY <1>0, <1>2, <3>1, <4>1, RouteHandlers, Dispatched, Zenon
    <3> QED
      BY <1>1, <3>1, Zenon
  <2> QED
    BY <2>1, RouteHandlers DEF Reaches
<1> QED
  BY <1>0, <1>3 DEF Handle, LookUp

LEMMA MatchRuleAnswered ==
    ASSUME NEW s, NEW how
    PROVE  Answer("GET", SignalLink(s).path, how) = [kind |-> "matchrule"]
<1>1. SignalLink(s).path = cat(Routes[8].path, <<>>)
  <2>1. SignalLink(s).path = Routes[8].path
    BY RouteHeads DEF SignalLink
  <2>2. Routes[8].path \in Seq(Words)
    BY RouteTable
  <2> QED
    BY <2>1, <2>2, CatNothing, Zenon
<1>2. \A k \in 1..8 : RouteWords[k] = RouteWords[8] => 8 <= k
  BY DEF RouteWords
<1>3. Answer("GET", SignalLink(s).path, how) = Handle("matchrule", <<>>, how)
  <2>1. 8 \in 1..8 /\ <<>> \in Seq(Words)
    BY EmptyIsWords
  <2>2. ASSUME NEW path, path = cat(Routes[8].path, <<>>)
        PROVE  Answer("GET", path, how) = Handle("matchrule", <<>>, how)
    <3>1. Reaches("GET", path, 8, <<>>)
      BY <1>2, <2>1, <2>2, RouteHandlers, Dispatched, Zenon
    <3> QED
      BY <3>1, RouteHandlers DEF Reaches
  <2> QED
    BY <1>1, <2>2, Zenon
<1> QED
  BY <1>3 DEF Handle

LEMMA TryAnswered ==
    ASSUME NEW c, Callable(c), NEW how
    PROVE  Answer("GET", dbus \o <<"try", "/">> \o CallPath(c), how) = Try(c, how)
<1>1. dbus \o <<"try", "/">> \o CallPath(c) = cat(Routes[7].path, CallPath(c))
  BY RouteHeads DEF cat
<1>2. \A k \in 1..8 : RouteWords[k] = RouteWords[7] => 7 <= k
  BY DEF RouteWords
<1>3. Answer("GET", dbus \o <<"try", "/">> \o CallPath(c), how) = Handle("try", CallPath(c), how)
  <2>1. 7 \in 1..8 /\ CallPath(c) \in Seq(Words)
    BY CallableParses
  <2>2. ASSUME NEW path, path = cat(Routes[7].path, CallPath(c))
        PROVE  Answer("GET", path, how) = Handle("try", CallPath(c), how)
    <3>1. Reaches("GET", path, 7, CallPath(c))
      BY <1>2, <2>1, <2>2, RouteHandlers, Dispatched, Zenon
    <3> QED
      BY <3>1, RouteHandlers DEF Reaches
  <2> QED
    BY <1>1, <2>2, Zenon
<1>4. Handle("try", CallPath(c), how) = Try(c, how)
  BY CallableParses DEF Handle
<1> QED
  BY <1>3, <1>4

LEMMA CallAnswered ==
    ASSUME NEW c, Callable(c), NEW how
    PROVE  Answer("POST", dbus \o <<"call", "/">> \o CallPath(c), how) = Call(c, how)
<1>1. dbus \o <<"call", "/">> \o CallPath(c) = cat(Routes[6].path, CallPath(c))
  BY RouteHeads DEF cat
<1>2. \A k \in 1..8 : RouteWords[k] = RouteWords[6] => 6 <= k
  BY DEF RouteWords
<1>3. Answer("POST", dbus \o <<"call", "/">> \o CallPath(c), how) = Handle("call", CallPath(c), how)
  <2>1. 6 \in 1..8 /\ CallPath(c) \in Seq(Words)
    BY CallableParses
  <2>2. ASSUME NEW path, path = cat(Routes[6].path, CallPath(c))
        PROVE  Answer("POST", path, how) = Handle("call", CallPath(c), how)
    <3>1. Reaches("POST", path, 6, CallPath(c))
      BY <1>2, <2>1, <2>2, RouteHandlers, Dispatched, Zenon
    <3> QED
      BY <3>1, RouteHandlers DEF Reaches
  <2> QED
    BY <1>1, <2>2, Zenon
<1>4. Handle("call", CallPath(c), how) = Call(c, how)
  BY CallableParses DEF Handle
<1> QED
  BY <1>3, <1>4

-----------------------------------------------------------------------------
(* Paths of the OpenAPI document's operations *)

\* A path is put together piece by piece.
Built(op, values, h) ==
    /\ h[0] = <<>>
    /\ \A k \in 1..Len(op.path) : h[k] = cat(h[k - 1], Placed(op, values, k))
    /\ PathOf(op, values) = h[Len(op.path)]

LEMMA PathBuilt ==
    ASSUME NEW op, NEW values, op.path \in Seq(Words),
           \A k \in 1..Len(op.path) : Placed(op, values, k) \in Seq(Words)
    PROVE  \E h : Built(op, values, h)
<1> DEFINE n == Len(op.path)
           W == Seq(Words)
           upto(u) == [k \in 0..Len(op.path) |->
                         IF k = 0 THEN <<>> ELSE u[k - 1] \o Placed(op, values, k)]
           D == [k \in 1..n |-> [t \in W |-> cat(t, Placed(op, values, k))]]
           h == CHOOSE u : u = upto(u)
<1>1. PathOf(op, values) = h[n]
  BY DEF PathOf
<1>2. n \in Nat /\ <<>> \in W
  OBVIOUS
<1>3. D \in [1..n -> [W -> W]]
  <2>1. \A k \in 1..n : \A t \in W : cat(t, Placed(op, values, k)) \in W
    BY CatType
  <2> HIDE DEF W, n
  <2> QED
    BY <2>1
<1>4. \A k \in 1..n : \A t \in W : D[k][t] = cat(t, Placed(op, values, k))
  OBVIOUS
<1> HIDE DEF D, W
<1>5. PICK g \in [0..n -> W] : Steps(n, <<>>, D, g)
  <2> HIDE DEF n
  <2> QED
    BY <1>2, <1>3, StepRecursion
<1>6. g = upto(g)
  <2>1. \A k \in 0..n : k # 0 => k \in 1..n /\ k - 1 \in 0..n
    BY <1>2
  <2>2. \A k \in 0..n : g[k] = IF k = 0 THEN <<>> ELSE g[k - 1] \o Placed(op, values, k)
    BY <1>4, <1>5, <2>1 DEF Steps, cat
  <2> QED
    BY <2>2
<1>7. h = upto(h)
  <2> HIDE DEF upto
  <2> QED
    BY <1>6
<1> HIDE DEF h
<1>8. h[0] = <<>> /\ \A k \in 1..n : h[k] = cat(h[k - 1], Placed(op, values, k))
  <2>1. 0 \in 0..n /\ \A k \in 1..n : k \in 0..n /\ k # 0
    BY <1>2
  <2> QED
    BY <1>7, <2>1 DEF cat
<1> QED
  BY <1>1, <1>8 DEF Built

\* As long as no parameter is placed, it is the path of the document.
LEMMA FixedPart ==
    ASSUME NEW p \in Seq(Words), NEW n \in 0..Len(p), NEW h, h[0] = <<>>,
           \A k \in 1..n : h[k] = cat(h[k - 1], <<p[k]>>)
    PROVE  h[n] = SubSeq(p, 1, n)
<1> DEFINE S == {k \in 0..n : h[k] = SubSeq(p, 1, k)}
<1>1. 0 \in S
  <2>1. SubSeq(p, 1, 0) = <<>> /\ 0 \in 0..n
    OBVIOUS
  <2> QED
    BY <2>1
<1>2. ASSUME NEW k \in 1..n, k - 1 \in S
      PROVE  k \in S
  <2>1. h[k] = SubSeq(p, 1, k - 1) \o <<p[k]>>
    BY <1>2 DEF cat
  <2>2. SubSeq(p, 1, k - 1) \o <<p[k]>> = SubSeq(p, 1, k)
    OBVIOUS
  <2> QED
    BY <2>1, <2>2
<1> HIDE DEF S
<1>3. n \in Nat /\ 0..n \subseteq S
  BY <1>1, <1>2, InductionUpTo
<1> QED
  BY <1>3 DEF S

LEMMA OneParameter ==
    ASSUME NEW op, NEW values, NEW p \in Seq(Words), NEW last \in Words, NEW x \in Seq(Words),
           op.path = cat(p, <<last>>),
           \A k \in 1..Len(p) : Placed(op, values, k) = <<p[k]>>,
           Placed(op, values, Len(p) + 1) = x
    PROVE  PathOf(op, values) = cat(p, x)
<1> DEFINE n == Len(p) + 1
<1>1. /\ op.path \in Seq(Words) /\ Len(op.path) = n /\ n \in Nat /\ n - 1 = Len(p)
      /\ \A k \in 1..n : k = n \/ k \in 1..Len(p)
  <2>1. <<last>> \in Seq(Words) /\ Len(<<last>>) = 1
    OBVIOUS
  <2>2. cat(p, <<last>>) \in Seq(Words) /\ Len(cat(p, <<last>>)) = Len(p) + Len(<<last>>)
    BY <2>1, Cut, Zenon
  <2> QED
    BY <2>1, <2>2
<1>2. \A k \in 1..n : Placed(op, values, k) \in Seq(Words)
  <2>1. \A k \in 1..Len(p) : <<p[k]>> \in Seq(Words)
    OBVIOUS
  <2> QED
    BY <1>1, <2>1
<1>3. PICK h : Built(op, values, h)
  BY <1>1, <1>2, PathBuilt
<1>4. h[0] = <<>> /\ (\A k \in 1..n : h[k] = cat(h[k - 1], Placed(op, values, k))) /\ PathOf(op, values) = h[n]
  BY <1>1, <1>3 DEF Built
<1>5. h[Len(p)] = p
  <2>1. \A k \in 1..Len(p) : h[k] = cat(h[k - 1], <<p[k]>>)
    <3>1. \A k \in 1..Len(p) : k \in 1..n
      OBVIOUS
    <3> QED
      BY <1>4, <3>1
  <2>2. h[Len(p)] = SubSeq(p, 1, Len(p))
    BY <1>4, <2>1, FixedPart
  <2> QED
    BY <2>2
<1>6. h[n] = cat(h[n - 1], x)
  BY <1>1, <1>4
<1> QED
  BY <1>1, <1>4, <1>5, <1>6

LEMMA NoParameter ==
    ASSUME NEW op, NEW values, op.path \in Seq(Words),
           \A k \in 1..Len(op.path) : Placed(op, values, k) = <<op.path[k]>>
    PROVE  PathOf(op, values) = op.path
<1> DEFINE p == op.path
<1>1. \A k \in 1..Len(p) : <<p[k]>> \in Seq(Words)
  OBVIOUS
<1>2. \A k \in 1..Len(p) : Placed(op, values, k) \in Seq(Words)
  BY <1>1
<1>3. PICK h : Built(op, values, h)
  BY <1>2, PathBuilt
<1>4. h[0] = <<>> /\ \A k \in 1..Len(p) : h[k] = cat(h[k - 1], <<p[k]>>)
  BY <1>3 DEF Built
<1>5. p \in Seq(Words) /\ Len(p) \in 0..Len(p) /\ SubSeq(p, 1, Len(p)) = p
  OBVIOUS
<1> HIDE DEF p
<1>6. h[Len(p)] = SubSeq(p, 1, Len(p))
  BY <1>4, <1>5, FixedPart
<1> QED
  BY <1>3, <1>5, <1>6 DEF Built, p

\* A word behind /dbus/ and a slash, and one parameter behind it.
OnDbus(p, w) ==
    /\ p \in Seq(Words) /\ Len(p) = 5
    /\ p[1] = "/" /\ p[2] = "dbus" /\ p[3] = "/" /\ p[4] = w /\ p[5] = "/"

LEMMA WordPath ==
    ASSUME NEW w \in Words, NEW parameter \in Words, NEW p, p = cat(dbus, <<w, "/">>)
    PROVE  /\ OnDbus(p, w)
           /\ cat(dbus, <<w, "/", parameter>>) = cat(p, <<parameter>>)
<1> DEFINE s == <<w, "/">>
           last == <<parameter>>
           tail == <<w, "/", parameter>>
<1>1. "/" \in Words /\ "dbus" \in Words
  BY DEF Words, Literals
<1>2. dbus \in Seq(Words) /\ Len(dbus) = 3 /\ dbus[1] = "/" /\ dbus[2] = "dbus" /\ dbus[3] = "/"
  <2>1. \A a, b, c \in Words : <<a, b, c>> \in Seq(Words)
    OBVIOUS
  <2>2. dbus \in Seq(Words)
    BY <1>1, <2>1, Zenon DEF dbus
  <2> QED
    BY <2>2 DEF dbus
<1>3. s \in Seq(Words) /\ Len(s) = 2 /\ s[1] = w /\ s[2] = "/"
  BY <1>1
<1>4. last \in Seq(Words) /\ Len(last) = 1 /\ last[1] = parameter
  OBVIOUS
<1>5. tail \in Seq(Words) /\ Len(tail) = 3 /\ tail[1] = w /\ tail[2] = "/" /\ tail[3] = parameter
  BY <1>1
<1> HIDE DEF s, last, tail
<1>6. p = cat(dbus, s)
  BY Zenon DEF s
<1>0. dbus \in Seq(Words) /\ s \in Seq(Words) /\ last \in Seq(Words)
  BY <1>2, <1>3, <1>4
<1>7. /\ p \in Seq(Words) /\ Len(p) = Len(dbus) + Len(s)
      /\ \A k \in 1..Len(dbus) : p[k] = dbus[k]
      /\ \A k \in 1..Len(s) : p[Len(dbus) + k] = s[k]
  <2>1. /\ cat(dbus, s) \in Seq(Words) /\ Len(cat(dbus, s)) = Len(dbus) + Len(s)
        /\ \A k \in 1..Len(dbus) : cat(dbus, s)[k] = dbus[k]
        /\ \A k \in 1..Len(s) : cat(dbus, s)[Len(dbus) + k] = s[k]
    BY <1>0, Cut
  <2> QED
    BY <1>6, <2>1, Zenon
<1>8. p[1] = "/" /\ p[2] = "dbus" /\ p[3] = "/" /\ p[4] = w /\ p[5] = "/"
  <2>1. Len(dbus) = 3 /\ Len(s) = 2
    BY <1>2, <1>3
  <2>2. \A k \in 1..3 : p[k] = dbus[k]
    BY <1>7, <2>1
  <2>3. \A k \in 1..2 : p[3 + k] = s[k]
    BY <1>7, <2>1
  <2>4. 1 \in 1..3 /\ 2 \in 1..3 /\ 3 \in 1..3 /\ 1 \in 1..2 /\ 2 \in 1..2 /\ 3 + 1 = 4 /\ 3 + 2 = 5
    OBVIOUS
  <2>5. p[1] = dbus[1] /\ p[2] = dbus[2] /\ p[3] = dbus[3] /\ p[4] = s[1] /\ p[5] = s[2]
    BY <2>2, <2>3, <2>4
  <2> QED
    BY <1>2, <1>3, <2>5, Zenon
<1>9. cat(s, last) = tail
  <2>1. /\ cat(s, last) \in Seq(Words) /\ Len(cat(s, last)) = Len(s) + Len(last)
        /\ \A k \in 1..Len(s) : cat(s, last)[k] = s[k]
        /\ \A k \in 1..Len(last) : cat(s, last)[Len(s) + k] = last[k]
    BY <1>3, <1>4, Cut, Zenon
  <2>2. \A k \in 1..3 : cat(s, last)[k] = tail[k]
    <3>2. cat(s, last)[1] = s[1] /\ cat(s, last)[2] = s[2] /\ cat(s, last)[2 + 1] = last[1]
      BY <1>3, <1>4, <2>1
    <3>3. \A k \in 1..3 : k = 1 \/ k = 2 \/ k = 3
      OBVIOUS
    <3> QED
      BY <1>3, <1>4, <1>5, <3>2, <3>3
  <2>3. Len(cat(s, last)) = 3
    BY <1>3, <1>4, <2>1
  <2> QED
    BY <1>5, <2>1, <2>2, <2>3, SeqEqual
<1>10. cat(dbus, tail) = cat(p, last)
  <2>1. cat(cat(dbus, s), last) = cat(dbus, cat(s, last))
    BY <1>0, CatAssociative
  <2> QED
    BY <1>6, <1>9, <2>1, Zenon
<1>11. Len(p) = 5
  BY <1>2, <1>3, <1>7
<1> QED
  BY <1>7, <1>8, <1>10, <1>11 DEF tail, last, OnDbus

\* The operations' routes, and where their parameters go.
LEMMA OperationWords ==
    /\ "service" \in Words /\ "interface" \in Words /\ "{service}" \in Words /\ "{interface}" \in Words
    /\ Routes[5].path = cat(dbus, <<"service", "/">>)
    /\ Routes[4].path = cat(dbus, <<"interface", "/">>)
    /\ list_objects.path = cat(dbus, <<"service", "/", "{service}">>)
    /\ get_interface.path = cat(dbus, <<"interface", "/", "{interface}">>)
<1>1. "service" \in Words /\ "interface" \in Words /\ "{service}" \in Words /\ "{interface}" \in Words
  BY DEF Words, Literals
<1>2. Routes[5].path = cat(dbus, <<"service", "/">>) /\ Routes[4].path = cat(dbus, <<"interface", "/">>)
  BY DEF Routes, Route, cat
<1>3. list_objects.path = cat(dbus, <<"service", "/", "{service}">>)
  BY DEF list_objects, Operation, cat
<1>4. get_interface.path = cat(dbus, <<"interface", "/", "{interface}">>)
  BY DEF get_interface, Operation, cat
<1> QED
  BY <1>1, <1>2, <1>3, <1>4, Zenon

LEMMA OnePlaced ==
    ASSUME NEW op, NEW values, NEW name \in DOMAIN Templates, NEW last \in Words, last = Templates[name],
           NEW p \in Seq(Words), op.path = cat(p, <<last>>), \A k \in 1..Len(p) : p[k] # last,
           DOMAIN op.in = {name}, op.in[name] = "path", values[name] \in Seq(Words)
    PROVE  PathOf(op, values) = cat(p, values[name])
<1> DEFINE n == Len(p)
<1>1. n \in Nat
  OBVIOUS
<1>2. (\A k \in 1..n : op.path[k] = p[k]) /\ op.path[n + 1] = last
  <2>1. <<last>> \in Seq(Words) /\ Len(<<last>>) = 1 /\ <<last>>[1] = last
    OBVIOUS
  <2>2. <<last>> \in Seq(Words)
    BY <2>1
  <2>3. /\ \A k \in 1..Len(p) : cat(p, <<last>>)[k] = p[k]
        /\ \A k \in 1..Len(<<last>>) : cat(p, <<last>>)[Len(p) + k] = <<last>>[k]
    BY <2>2, Cut
  <2>4. cat(p, <<last>>)[Len(p) + 1] = last
    <3>1. 1 \in 1..Len(<<last>>)
      BY <2>1
    <3>2. cat(p, <<last>>)[Len(p) + 1] = <<last>>[1]
      BY <2>3, <3>1
    <3> QED
      BY <2>1, <3>2, Zenon
  <2> QED
    BY <2>3, <2>4
<1>3. ASSUME NEW k \in 1..n
      PROVE  Placed(op, values, k) = <<p[k]>>
  <2>1. op.path[k] = p[k] /\ p[k] # last
    BY <1>2
  <2>2. {q \in DOMAIN op.in \cap DOMAIN Templates : op.in[q] = "path" /\ Templates[q] = op.path[k]} = {}
    BY <2>1, Zenon
  <2> QED
    BY <2>1, <2>2, Zenon DEF Placed
<1>4. Placed(op, values, n + 1) = values[name]
  <2>1. {q \in DOMAIN op.in \cap DOMAIN Templates : op.in[q] = "path" /\ Templates[q] = op.path[n + 1]} = {name}
    BY <1>2
  <2> QED
    BY <2>1 DEF Placed
<1> QED
  BY <1>3, <1>4, OneParameter

LEMMA QueryPlaced ==
    ASSUME NEW op, NEW values, op.path \in Seq(Words), \A name \in DOMAIN op.in : op.in[name] # "path"
    PROVE  PathOf(op, values) = op.path
<1>1. \A k : Placed(op, values, k) = <<op.path[k]>>
  BY DEF Placed
<1> QED
  BY <1>1, NoParameter

-----------------------------------------------------------------------------
(* What the operations of the document are answered *)

LEMMA DocumentRoutes ==
    /\ Routes[1].verb = "GET" /\ Routes[1].handler = "services" /\ ~Routes[1].open
    /\ Routes[4].verb = "GET" /\ Routes[4].handler = "interface" /\ Routes[4].open
    /\ Routes[5].verb = "GET" /\ Routes[5].handler = "service" /\ Routes[5].open
    /\ Routes[1].path = dbus \o <<"service">> /\ Routes[3].path = dbus \o <<"interface", "/", "html", "/">>
  BY DEF Routes, Route

\* Of the two routes that begin with service, the first takes nothing behind it.
LEMMA ShortRoute ==
    ASSUME NEW x \in Seq(Words), NEW path, path = cat(Routes[5].path, x)
    PROVE  ~Fits(Routes[1], "GET", path)
<1>1. Routes[5].path = cat(dbus, <<"service", "/">>) /\ Routes[1].path = cat(dbus, <<"service">>)
  BY OperationWords, DocumentRoutes DEF cat
<1>2. "/" \in Words /\ "service" \in Words
  BY DEF Words, Literals
<1>3. dbus \in Seq(Words)
  <2>1. "dbus" \in Words
    BY DEF Words, Literals
  <2>2. \A a, b, c \in Words : <<a, b, c>> \in Seq(Words)
    OBVIOUS
  <2> QED
    BY <1>2, <2>1, <2>2, Zenon DEF dbus
<1>4. Len(Routes[1].path) = Len(dbus) + 1
  <2>1. \A a \in Words : <<a>> \in Seq(Words) /\ Len(<<a>>) = 1
    OBVIOUS
  <2>2. <<"service">> \in Seq(Words) /\ Len(<<"service">>) = 1
    BY <1>2, <2>1, Zenon
  <2>3. Len(cat(dbus, <<"service">>)) = Len(dbus) + Len(<<"service">>)
    BY <1>3, <2>2, Cut, Zenon
  <2> QED
    BY <1>1, <2>2, <2>3, Zenon
<1>5. Routes[5].path \in Seq(Words) /\ Len(Routes[5].path) = Len(dbus) + 2
  <2>1. \A a, b \in Words : <<a, b>> \in Seq(Words) /\ Len(<<a, b>>) = 2
    OBVIOUS
  <2>2. <<"service", "/">> \in Seq(Words) /\ Len(<<"service", "/">>) = 2
    BY <1>2, <2>1, Zenon
  <2>3. /\ cat(dbus, <<"service", "/">>) \in Seq(Words)
        /\ Len(cat(dbus, <<"service", "/">>)) = Len(dbus) + Len(<<"service", "/">>)
    BY <1>3, <2>2, Cut, Zenon
  <2> QED
    BY <1>1, <2>2, <2>3, Zenon
<1>6. Len(path) = Len(Routes[5].path) + Len(x)
  <2>1. Len(cat(Routes[5].path, x)) = Len(Routes[5].path) + Len(x)
    BY <1>5, Cut, Zenon
  <2> QED
    BY <2>1, Zenon
<1>7. Len(dbus) \in Nat /\ Len(x) \in Nat
  BY <1>3
<1>8. Len(path) # Len(Routes[1].path)
  BY <1>4, <1>5, <1>6, <1>7
<1> QED
  BY <1>8, DocumentRoutes, Zenon DEF Fits

\* Of the two that begin with interface, the first wants two slashes more.
LEMMA PageRoute ==
    ASSUME NEW x \in Seq(Words), Without(x, "/"), NEW path, path = cat(Routes[4].path, x)
    PROVE  ~Fits(Routes[3], "GET", path)
<1>1. PICK p : p = Routes[4].path
  OBVIOUS
<1>2. p \in Seq(Words) /\ Len(p) = 5
  <2>1. p = cat(dbus, <<"interface", "/">>)
    BY <1>1, OperationWords, Zenon
  <2>2. "interface" \in Words
    BY OperationWords
  <2>3. cat(dbus, <<"interface", "/">>) \in Seq(Words) /\ Len(cat(dbus, <<"interface", "/">>)) = 5
    BY <2>2, WordPath, ZenonT(60) DEF OnDbus
  <2> QED
    BY <2>1, <2>3, Zenon
<1>3. PICK q : q = Routes[3].path
  OBVIOUS
<1>4. q \in Seq(Words) /\ Len(q) = 7 /\ q[7] = "/"
  <2> DEFINE tail == <<"interface", "/", "html", "/">>
  <2>1. q = cat(dbus, tail)
    BY <1>3, DocumentRoutes DEF cat
  <2>2. "interface" \in Words /\ "/" \in Words /\ "html" \in Words /\ "dbus" \in Words
    BY DEF Words, Literals
  <2>3. \A a, b, c, d \in Words : <<a, b, c, d>> \in Seq(Words) /\ Len(<<a, b, c, d>>) = 4
    OBVIOUS
  <2>4. tail \in Seq(Words) /\ Len(tail) = 4
    BY <2>2, <2>3, Zenon
  <2>5. tail[4] = "/"
    OBVIOUS
  <2> HIDE DEF tail
  <2>6. \A a, b, c \in Words : <<a, b, c>> \in Seq(Words) /\ Len(<<a, b, c>>) = 3
    OBVIOUS
  <2>7. dbus \in Seq(Words) /\ Len(dbus) = 3
    BY <2>2, <2>6, Zenon DEF dbus
  <2>8. /\ cat(dbus, tail) \in Seq(Words) /\ Len(cat(dbus, tail)) = Len(dbus) + Len(tail)
        /\ \A k \in 1..Len(tail) : cat(dbus, tail)[Len(dbus) + k] = tail[k]
    BY <2>4, <2>7, Cut, Zenon
  <2>9. 4 \in 1..4 /\ 3 + 4 = 7
    OBVIOUS
  <2>10. q \in Seq(Words) /\ Len(q) = 3 + 4 /\ q[3 + 4] = tail[4]
    BY <2>1, <2>4, <2>7, <2>8, <2>9, Zenon
  <2> QED
    BY <2>5, <2>9, <2>10, Zenon
<1>5. /\ Len(path) = Len(p) + Len(x) /\ path \in Seq(Words)
      /\ \A k \in 1..Len(x) : path[Len(p) + k] = x[k]
  <2>1. /\ Len(cat(p, x)) = Len(p) + Len(x) /\ cat(p, x) \in Seq(Words)
        /\ \A k \in 1..Len(x) : cat(p, x)[Len(p) + k] = x[k]
    BY <1>2, Cut, Zenon
  <2> QED
    BY <1>1, <2>1, Zenon
<1> SUFFICES ASSUME Fits(Routes[3], "GET", path) PROVE FALSE
  OBVIOUS
<1>6. Len(q) <= Len(path) /\ SubSeq(path, 1, Len(q)) = q
  BY <1>3, Zenon DEF Fits
<1>7. path[7] = "/" /\ 2 \in 1..Len(x)
  <2>1. SubSeq(path, 1, Len(q))[7] = path[7]
    BY <1>4, <1>5, <1>6
  <2>2. Len(x) \in Nat /\ 7 <= 5 + Len(x)
    BY <1>2, <1>4, <1>5, <1>6
  <2> QED
    BY <1>4, <1>6, <2>1, <2>2
<1>8. x[2] = "/"
  <2>1. path[Len(p) + 2] = x[2] /\ Len(p) + 2 = 7
    BY <1>2, <1>5, <1>7
  <2> QED
    BY <1>7, <2>1, Zenon
<1> QED
  BY <1>7, <1>8 DEF Without, At

LEMMA ServicesAnswered ==
    ASSUME NEW values, NEW how
    PROVE  Answer("GET", PathOf(list_services, values), how) = Json(KnownServices)
<1>1. PICK p : p = Routes[1].path
  OBVIOUS
<1>2. p \in Seq(Words)
  <2>1. 1 \in 1..8
    OBVIOUS
  <2> QED
    BY <1>1, <2>1, RouteTable, Zenon
<1>3. list_services.path = p /\ list_services.in = NoQuery
  BY <1>1, DocumentRoutes DEF list_services, Operation
<1>4. PathOf(list_services, values) = p
  <2>1. \A name \in DOMAIN list_services.in : list_services.in[name] # "path"
    BY <1>3 DEF NoQuery
  <2> QED
    BY <1>2, <1>3, <2>1, QueryPlaced
<1>5. p = cat(Routes[1].path, <<>>) /\ <<>> \in Seq(Words)
  <2>1. cat(p, <<>>) = p
    BY <1>2 DEF cat
  <2> QED
    BY <1>1, <2>1
<1>6. \A k \in 1..8 : RouteWords[k] = RouteWords[1] => 1 <= k
  OBVIOUS
<1>7. Answer("GET", p, how) = Handle("services", <<>>, how)
  <2>1. 1 \in 1..8
    OBVIOUS
  <2>2. Reaches("GET", p, 1, <<>>)
    BY <1>5, <1>6, <2>1, DocumentRoutes, Dispatched, Zenon
  <2> QED
    BY <2>2, DocumentRoutes DEF Reaches
<1> QED
  BY <1>4, <1>7 DEF Handle

LEMMA ObjectsAnswered ==
    ASSUME NEW values, values.service \in Seq(Words), Without(values.service, "/"), NEW how
    PROVE  Answer("GET", PathOf(list_objects, values), how) =
             IF values.service \in KnownServices THEN Json(values.service) ELSE Error(404)
<1>1. PICK p : p = Routes[5].path
  OBVIOUS
<1> DEFINE x == values.service
           path == cat(p, x)
<1>2. /\ p \in Seq(Words) /\ Len(p) = 5 /\ list_objects.path = cat(p, <<"{service}">>)
      /\ p[1] = "/" /\ p[2] = "dbus" /\ p[3] = "/" /\ p[4] = "service" /\ p[5] = "/"
  <2>1. p = cat(dbus, <<"service", "/">>) /\ list_objects.path = cat(dbus, <<"service", "/", "{service}">>)
    BY <1>1, OperationWords, Zenon
  <2>2. "service" \in Words /\ "{service}" \in Words
    BY OperationWords
  <2>3. /\ p \in Seq(Words) /\ Len(p) = 5
        /\ p[1] = "/" /\ p[2] = "dbus" /\ p[3] = "/" /\ p[4] = "service" /\ p[5] = "/"
        /\ cat(dbus, <<"service", "/", "{service}">>) = cat(p, <<"{service}">>)
    <3>1. OnDbus(p, "service") /\ cat(dbus, <<"service", "/", "{service}">>) = cat(p, <<"{service}">>)
      BY <2>1, <2>2, WordPath, Zenon
    <3> QED
      BY <3>1, Zenon DEF OnDbus
  <2> QED
    BY <2>1, <2>3, Zenon
<1>3. \A k \in 1..Len(p) : p[k] # "{service}"
  <2>1. \A k \in 1..5 : k = 1 \/ k = 2 \/ k = 3 \/ k = 4 \/ k = 5
    OBVIOUS
  <2> QED
    BY <1>2, <2>1
<1>4. PathOf(list_objects, values) = path
  <2>1. /\ DOMAIN list_objects.in = {"service"} /\ list_objects.in["service"] = "path"
        /\ "service" \in DOMAIN Templates /\ Templates["service"] = "{service}"
    BY DEF list_objects, Operation, Templates
  <2> QED
    BY <1>2, <1>3, <2>1, OperationWords, OnePlaced, ZenonT(60)
<1>5. ~Fits(Routes[1], "GET", path)
  BY <1>1, ShortRoute, Zenon
<1>6. \A k \in 1..8 : RouteWords[k] = RouteWords[5] => 5 <= k \/ k = 1
  BY DEF RouteWords
<1>7. Answer("GET", path, how) = Handle("service", x, how)
  <2>0. 5 \in 1..8
    OBVIOUS
  <2>1. path = cat(Routes[5].path, x)
    BY <1>1, Zenon
  <2>2. \A k \in 1..8 : RouteWords[k] = RouteWords[5] => 5 <= k \/ ~Fits(Routes[k], "GET", path)
    BY <1>5, <1>6, Zenon
  <2> HIDE DEF path
  <2>3. Reaches("GET", path, 5, x)
    BY <2>0, <2>1, <2>2, DocumentRoutes, Dispatched, ZenonT(60)
  <2> QED
    BY <2>3, DocumentRoutes DEF Reaches
<1> QED
  BY <1>4, <1>7 DEF Handle, LookUp

LEMMA InterfaceGot ==
    ASSUME NEW values, values.interface \in Seq(Words), Without(values.interface, "/"), NEW how
    PROVE  Answer("GET", PathOf(get_interface, values), how) =
             IF values.interface \in KnownInterfaces THEN Json(values.interface) ELSE Error(404)
<1>1. PICK p : p = Routes[4].path
  OBVIOUS
<1> DEFINE x == values.interface
           path == cat(p, x)
<1>2. /\ p \in Seq(Words) /\ Len(p) = 5 /\ get_interface.path = cat(p, <<"{interface}">>)
      /\ p[1] = "/" /\ p[2] = "dbus" /\ p[3] = "/" /\ p[4] = "interface" /\ p[5] = "/"
  <2>1. p = cat(dbus, <<"interface", "/">>) /\ get_interface.path = cat(dbus, <<"interface", "/", "{interface}">>)
    BY <1>1, OperationWords, Zenon
  <2>2. "interface" \in Words /\ "{interface}" \in Words
    BY OperationWords
  <2>3. /\ p \in Seq(Words) /\ Len(p) = 5
        /\ p[1] = "/" /\ p[2] = "dbus" /\ p[3] = "/" /\ p[4] = "interface" /\ p[5] = "/"
        /\ cat(dbus, <<"interface", "/", "{interface}">>) = cat(p, <<"{interface}">>)
    <3>1. OnDbus(p, "interface") /\ cat(dbus, <<"interface", "/", "{interface}">>) = cat(p, <<"{interface}">>)
      BY <2>1, <2>2, WordPath, Zenon
    <3> QED
      BY <3>1, Zenon DEF OnDbus
  <2> QED
    BY <2>1, <2>3, Zenon
<1>3. \A k \in 1..Len(p) : p[k] # "{interface}"
  <2>1. \A k \in 1..5 : k = 1 \/ k = 2 \/ k = 3 \/ k = 4 \/ k = 5
    OBVIOUS
  <2> QED
    BY <1>2, <2>1
<1>4. PathOf(get_interface, values) = path
  <2>1. /\ DOMAIN get_interface.in = {"interface"} /\ get_interface.in["interface"] = "path"
        /\ "interface" \in DOMAIN Templates /\ Templates["interface"] = "{interface}"
    BY DEF get_interface, Operation, Templates
  <2> QED
    BY <1>2, <1>3, <2>1, OperationWords, OnePlaced, ZenonT(60)
<1>5. ~Fits(Routes[3], "GET", path)
  BY <1>1, PageRoute, Zenon
<1>6. \A k \in 1..8 : RouteWords[k] = RouteWords[4] => 4 <= k \/ k = 3
  BY DEF RouteWords
<1>7. Answer("GET", path, how) = Handle("interface", x, how)
  <2>0. 4 \in 1..8
    OBVIOUS
  <2>1. path = cat(Routes[4].path, x)
    BY <1>1, Zenon
  <2>2. \A k \in 1..8 : RouteWords[k] = RouteWords[4] => 4 <= k \/ ~Fits(Routes[k], "GET", path)
    BY <1>5, <1>6, Zenon
  <2> HIDE DEF path
  <2>3. Reaches("GET", path, 4, x)
    BY <2>0, <2>1, <2>2, DocumentRoutes, Dispatched, ZenonT(60)
  <2> QED
    BY <2>3, DocumentRoutes DEF Reaches
<1> QED
  BY <1>4, <1>7 DEF Handle, LookUp

\* The call has its parameters in the query: the path is its templates, for every call.
LEMMA MethodCalled ==
    ASSUME NEW values, NEW how
    PROVE  \E c : Answer("POST", PathOf(call_method, values), how) = Call(c, how)
<1> DEFINE tail == <<"{service}", "/", "{object_path}", "/", "{interface}", ".", "{method}">>
           s == <<"call", "/", "{service}", "/", "{object_path}", "/", "{interface}", ".", "{method}">>
<1>1. /\ call_method.path = cat(dbus, s)
      /\ call_method.in = [service |-> "query", object |-> "query", interface |-> "query", method |-> "query"]
  BY Zenon DEF call_method, Operation, cat
<1>2. tail \in Seq(Words)
  <2>1. \A a, b, c, d, e, f, g \in Words : <<a, b, c, d, e, f, g>> \in Seq(Words)
    OBVIOUS
  <2>2. /\ "/" \in Words /\ "." \in Words /\ "{service}" \in Words /\ "{object_path}" \in Words
        /\ "{interface}" \in Words /\ "{method}" \in Words
    BY DEF Words, Literals
  <2> QED
    BY <2>1, <2>2, Zenon
<1>3. call_method.path = cat(Routes[6].path, tail)
  <2> DEFINE head == <<"call", "/">>
  <2>1. Routes[6].path = cat(dbus, head)
    BY RouteHeads DEF cat
  <2>2. s = cat(head, tail)
    <3>1. PICK a : a = "{service}"
      OBVIOUS
    <3>2. PICK b : b = "{object_path}"
      OBVIOUS
    <3>3. PICK c : c = "{interface}"
      OBVIOUS
    <3>4. PICK d : d = "{method}"
      OBVIOUS
    <3>5. <<"call", "/", a, "/", b, "/", c, ".", d>> = cat(head, <<a, "/", b, "/", c, ".", d>>)
      BY DEF cat
    <3> QED
      BY <3>1, <3>2, <3>3, <3>4, <3>5, Zenon DEF s, tail
  <2>3. head \in Seq(Words) /\ dbus \in Seq(Words)
    <3>1. \A a, b, c \in Words : <<a, b, c>> \in Seq(Words) /\ <<a, b>> \in Seq(Words)
      OBVIOUS
    <3>2. "/" \in Words /\ "call" \in Words /\ "dbus" \in Words
      BY DEF Words, Literals
    <3> QED
      BY <3>1, <3>2, Zenon DEF dbus
  <2> HIDE DEF head, tail, s
  <2>4. cat(cat(dbus, head), tail) = cat(dbus, cat(head, tail))
    BY <1>2, <2>3, CatAssociative
  <2> QED
    BY <1>1, <2>1, <2>2, <2>4, Zenon
<1> HIDE DEF tail, s
<1>4. call_method.path \in Seq(Words)
  <2>1. PICK p : p = Routes[6].path
    OBVIOUS
  <2>2. p \in Seq(Words)
    <3>1. 6 \in 1..8
      OBVIOUS
    <3> QED
      BY <2>1, <3>1, RouteTable, Zenon
  <2>3. cat(p, tail) \in Seq(Words)
    BY <1>2, <2>2, CatType
  <2> QED
    BY <1>3, <2>1, <2>3, Zenon
<1>5. PathOf(call_method, values) = call_method.path
  <2>1. \A name \in DOMAIN call_method.in : call_method.in[name] # "path"
    BY <1>1
  <2> QED
    BY <1>4, <2>1, QueryPlaced
<1>6. \A k \in 1..8 : RouteWords[k] = RouteWords[6] => 6 <= k
  BY DEF RouteWords
<1>7. ASSUME NEW path, path = cat(Routes[6].path, tail)
      PROVE  Answer("POST", path, how) = Handle("call", tail, how)
  <2>1. 6 \in 1..8
    OBVIOUS
  <2>2. Reaches("POST", path, 6, tail)
    BY <1>2, <1>6, <1>7, <2>1, RouteHandlers, Dispatched, Zenon
  <2> QED
    BY <2>2, RouteHandlers DEF Reaches
<1>8. Answer("POST", PathOf(call_method, values), how) = Handle("call", tail, how)
  BY <1>3, <1>5, <1>7, Zenon
<1>9. Handle("call", tail, how) = Call(parse_dbus_request_path(tail), how)
  BY DEF Handle
<1> QED
  BY <1>8, <1>9

\* What DocumentedAnswers says of an operation op, with the values v.
Documented(op, v, how) ==
    LET answer == Answer(op.verb, PathOf(op, v), how)
    IN  /\ Status(answer) \in op.responses
        /\ answer # Blank
        /\ op = list_objects => (v.service \in KnownServices) = (Status(answer) = 200)
        /\ op = get_interface => (v.interface \in KnownInterfaces) = (Status(answer) = 200)

LEMMA Distinct ==
    /\ list_services # list_objects /\ list_services # get_interface /\ list_objects # get_interface
    /\ call_method # list_objects /\ call_method # get_interface
    /\ list_services.verb = "GET" /\ list_services.responses = {200}
    /\ list_objects.verb = "GET" /\ list_objects.responses = {200, 404}
    /\ get_interface.verb = "GET" /\ get_interface.responses = {200, 404}
    /\ call_method.verb = "POST" /\ call_method.responses = {200, 400, 500}
<1>1. list_services.verb = "GET" /\ list_services.responses = {200} /\ list_services.in = NoQuery
  BY DEF list_services, Operation
<1>2. /\ list_objects.verb = "GET" /\ list_objects.responses = {200, 404}
      /\ DOMAIN list_objects.in = {"service"}
  BY DEF list_objects, Operation
<1>3. /\ get_interface.verb = "GET" /\ get_interface.responses = {200, 404}
      /\ DOMAIN get_interface.in = {"interface"}
  BY DEF get_interface, Operation
<1>4. call_method.verb = "POST" /\ call_method.responses = {200, 400, 500}
  BY DEF call_method, Operation
<1>5. list_objects # get_interface
  BY <1>2, <1>3
<1>6. call_method # list_objects /\ call_method # get_interface
  BY <1>2, <1>3, <1>4
<1>7. list_services # list_objects /\ list_services # get_interface
  <2>1. 404 \in list_objects.responses /\ 404 \in get_interface.responses /\ 404 \notin list_services.responses
    BY <1>1, <1>2, <1>3
  <2> QED
    BY <2>1
<1> QED
  BY <1>1, <1>2, <1>3, <1>4, <1>5, <1>6, <1>7, Zenon

LEMMA AllDocumented ==
    ASSUME NEW op \in Operations, op # listen_signals, NEW v, NEW how,
           v.service \in Seq(Words), Without(v.service, "/"),
           v.interface \in Seq(Words), Without(v.interface, "/")
    PROVE  Documented(op, v, how)
<1>1. \A x : Status(Json(x)) = 200 /\ Json(x) # Blank
  BY DEF Status, Json, Blank
<1>2. \A code : Status(Error(code)) = code /\ Error(code) # Blank
  BY DEF Status, Error, Blank
<1>3. CASE op = list_services
  <2>1. Answer(op.verb, PathOf(op, v), how) = Json(KnownServices)
    <3>1. op.verb = "GET"
      BY <1>3, Distinct
    <3> QED
      BY <1>3, <3>1, ServicesAnswered, Zenon
  <2> QED
    BY <1>1, <1>3, <2>1, Distinct DEF Documented
<1>4. CASE op = list_objects
  <2>1. Answer(op.verb, PathOf(op, v), how) = IF v.service \in KnownServices THEN Json(v.service) ELSE Error(404)
    <3>1. op.verb = "GET"
      BY <1>4, Distinct
    <3> QED
      BY <1>4, <3>1, ObjectsAnswered, ZenonT(60)
  <2> QED
    BY <1>1, <1>2, <1>4, <2>1, Distinct DEF Documented
<1>5. CASE op = get_interface
  <2>1. Answer(op.verb, PathOf(op, v), how) =
          IF v.interface \in KnownInterfaces THEN Json(v.interface) ELSE Error(404)
    <3>1. op.verb = "GET"
      BY <1>5, Distinct
    <3> QED
      BY <1>5, <3>1, InterfaceGot, ZenonT(60)
  <2> QED
    BY <1>1, <1>2, <1>5, <2>1, Distinct DEF Documented
<1>6. CASE op = call_method
  <2>1. PICK c : Answer(op.verb, PathOf(op, v), how) = Call(c, how)
    <3>1. op.verb = "POST"
      BY <1>6, Distinct
    <3> QED
      BY <1>6, <3>1, MethodCalled, Zenon
  <2>2. Status(Call(c, how)) \in {200, 400, 500} /\ Call(c, how) # Blank
    <3>1. PICK code \in {200, 400, 500} : Call(c, how) = Called(c, code)
      BY DEF Call
    <3>2. Status(Called(c, code)) = code /\ Called(c, code) # Blank
      BY DEF Called, Status, Blank
    <3> QED
      BY <3>1, <3>2
  <2> QED
    BY <1>6, <2>1, <2>2, Distinct DEF Documented
<1> QED
  BY <1>3, <1>4, <1>5, <1>6 DEF Operations

-----------------------------------------------------------------------------
(* The Swagger UI page *)

\* The page shows operations of the document, and executed was one of them.
SchemaInv ==
    /\ fragment \in Operations \cup {None}
    /\ expanded \in Operations \cup {None}
    /\ DocumentedAnswers

LEMMA OperationExecuted ==
    ASSUME SchemaInv, NEW v \in Values, NEW how, Execute(v, how)
    PROVE  DocumentedAnswers'
<1>1. PICK e \in Listing : v.service = e.service /\ v.interface = e.interface
  BY DEF Values
<1>2. /\ v.service \in Seq(Words) /\ Without(v.service, "/")
      /\ v.interface \in Seq(Words) /\ Without(v.interface, "/")
  BY <1>1, WordsAssumption, StringsAreWords
<1>3. expanded \in Operations
  BY DEF SchemaInv, Execute
<1>4. expanded # listen_signals => Documented(expanded, v, how)
  BY <1>2, <1>3, AllDocumented
<1>5. /\ executed'.op = expanded
      /\ executed'.known.service = (v.service \in KnownServices)
      /\ executed'.known.interface = (v.interface \in KnownInterfaces)
      /\ executed'.answer = Answer(expanded.verb, PathOf(expanded, v), how)
  BY Zenon DEF Execute
<1> QED
  BY <1>4, <1>5 DEF DocumentedAnswers, Documented

LEMMA SchemaKept ==
    ASSUME SchemaInv, [Next]_vars
    PROVE  SchemaInv'
<1>1. CASE UNCHANGED page_state
  BY <1>1 DEF page_state, SchemaInv, DocumentedAnswers, Status
<1>2. ASSUME NEW url, NEW f \in Operations \cup {None}, Load(url, f)
      PROVE  SchemaInv'
  BY <1>2 DEF Load, OpenSchema, SchemaInv, DocumentedAnswers
<1>3. CASE \/ \E e \in Listing : ChooseInterface(e)
           \/ \E url \in Typed : Type(url)
           \/ \E m \in UNION {Methods[e] : e \in Listing} : ChooseMethod(m)
           \/ \E s \in UNION {Signals[e] : e \in Listing} : ChooseSignal(s)
           \/ Reload
  BY <1>2, <1>3 DEF ChooseInterface, Type, ChooseMethod, ChooseSignal, Reload, SchemaInv
<1>4. CASE \/ OnSchema(LoadScript) \/ OnSchema(OnLoad) \/ OnSchema(ReadDocument(location.path))
           \/ \E op \in Operations : OnSchema(Expand(op))
  <2>1. executed' = executed
    BY <1>4 DEF OnSchema, LoadScript, OnLoad, ReadDocument, Expand
  <2>2. DocumentedAnswers'
    BY <2>1 DEF SchemaInv, DocumentedAnswers, Status
  <2>3. fragment' \in Operations \cup {None} /\ expanded' \in Operations \cup {None}
    BY <1>4 DEF OnSchema, LoadScript, OnLoad, ReadDocument, Expand, SchemaInv
  <2> QED
    BY <2>2, <2>3 DEF SchemaInv
<1>5. CASE \E v \in Values : \E how \in Outcomes : OnSchema(Execute(v, how))
  BY <1>5, OperationExecuted DEF OnSchema, Execute, SchemaInv
<1>6. CASE (\E e \in Listing : Describe(e) \/ Publish(e)) \/ PressCall \/ RulePageStep \/ UNCHANGED vars
  BY <1>1, <1>6 DEF Describe, Publish, PressCall, RulePageStep, vars
<1> QED
  BY <1>3, <1>4, <1>5, <1>6 DEF Next, SchemaSteps

\* Whatever the registry holds, and whatever a visitor fills in of the names there
\* are to list, Swagger UI gets a status that the OpenAPI document lists for the
\* operation, and no empty page; of a service or an interface it is 200 exactly when
\* the registry has it.
THEOREM DocumentedAnswersAlways == Spec => []DocumentedAnswers
<1>1. Init => SchemaInv
  BY DEF Init, SchemaInit, SchemaInv, DocumentedAnswers
<1>2. SchemaInv => DocumentedAnswers
  BY DEF SchemaInv
<1> QED
  BY <1>1, <1>2, SchemaKept, PTL DEF Spec

-----------------------------------------------------------------------------
(* The registry *)

\* What is listed was described before, and every interface has a declaration.
RegistryInv ==
    /\ listed \subseteq described /\ described \subseteq Listing
    /\ KnownInterfaces = {e.interface : e \in described}
    /\ \A i \in KnownInterfaces : declared[i] \in described /\ declared[i].interface = i

\* It never takes back what it told.
LEMMA RegistryKept ==
    ASSUME RegistryInv, [Next]_vars
    PROVE  RegistryInv' /\ described \subseteq described' /\ listed \subseteq listed'
<1>1. CASE \E e \in Listing : Describe(e)
  <2> PICK e \in Listing : Describe(e)
    BY <1>1
  <2>1. /\ described' = described \cup {e} /\ listed' = listed
        /\ declared' = [i \in KnownInterfaces \cup {e.interface} |->
                          IF i = e.interface THEN e ELSE declared[i]]
    BY DEF Describe
  <2>2. KnownInterfaces' = KnownInterfaces \cup {e.interface}
    BY <2>1 DEF KnownInterfaces
  <2>3. KnownInterfaces' = {d.interface : d \in described'}
    BY <2>1, <2>2 DEF RegistryInv
  <2>4. \A i \in KnownInterfaces' : declared'[i] \in described' /\ declared'[i].interface = i
    BY <2>1, <2>2 DEF RegistryInv
  <2> QED
    BY <2>1, <2>3, <2>4 DEF RegistryInv
<1>2. CASE \E e \in Listing : Publish(e)
  BY <1>2 DEF Publish, RegistryInv, KnownInterfaces
<1>3. CASE UNCHANGED registry
  BY <1>3 DEF registry, RegistryInv, KnownInterfaces
<1>4. ASSUME NEW url, NEW f, Load(url, f)
      PROVE  UNCHANGED registry
  BY <1>4 DEF Load
<1>5. \/ \E e \in Listing : ChooseInterface(e)
      \/ \E url \in Typed : Type(url)
      \/ \E m \in UNION {Methods[e] : e \in Listing} : ChooseMethod(m)
      \/ \E s \in UNION {Signals[e] : e \in Listing} : ChooseSignal(s)
      \/ Reload
      => UNCHANGED registry
  BY <1>4 DEF ChooseInterface, Type, ChooseMethod, ChooseSignal, Reload
<1>6. \/ PressCall
      \/ SchemaSteps
      \/ \E op \in Operations : OnSchema(Expand(op))
      \/ \E v \in Values : \E how \in Outcomes : OnSchema(Execute(v, how))
      \/ RulePageStep
      \/ UNCHANGED vars
      => UNCHANGED registry
  BY DEF PressCall, SchemaSteps, OnSchema, RulePageStep, vars
<1> QED
  BY <1>1, <1>2, <1>3, <1>5, <1>6 DEF Next

-----------------------------------------------------------------------------
(* The walk *)

\* What a page reached by links shows, and how it knows what was clicked on.
Way ==
    /\ page.kind \in {"overview", "interface", "try", "error", "matchrule"}
    /\ Shows("overview") => page.links \subseteq listed
    /\ Shows("interface") => \E e \in listed : \E d \in described :
         /\ location.query = InterfaceLink(e).query
         /\ d.interface = e.interface /\ page.methods = Methods[d]
         /\ chosen = [service |-> e.service, object |-> e.object, interface |-> e.interface, method |-> <<>>]
    /\ Shows("try") => Callable(chosen) /\ page.path = dbus \o <<"call", "/">> \o CallPath(chosen)
    /\ Shows("error") => /\ chosen.method # <<>> /\ page.status = 500
                         /\ Excused(chosen.interface, chosen.method)
    /\ Shows("matchrule") => wsPort = ws_port
    /\ called # None => called.kind = "call" /\ called.target = chosen

WalkInv == RegistryInv /\ (linked => Way)

\* While the visitor stays, the registry only gets to know more.
LEMMA WayStays ==
    ASSUME Way, listed \subseteq listed', described \subseteq described',
           UNCHANGED <<location, page, chosen, called, wsPort>>
    PROVE  Way'
<1>1. Callable(chosen)' = Callable(chosen)
  BY DEF Callable
<1>2. Excused(chosen.interface, chosen.method) => Excused(chosen.interface, chosen.method)'
  BY DEF Excused
<1>3. Shows("overview")' => page'.links \subseteq listed'
  BY DEF Way, Shows
<1>4. Shows("interface")' => \E e \in listed' : \E d \in described' :
         /\ location'.query = InterfaceLink(e).query
         /\ d.interface = e.interface /\ page'.methods = Methods[d]
         /\ chosen' = [service |-> e.service, object |-> e.object, interface |-> e.interface, method |-> <<>>]
  BY DEF Way, Shows
<1> QED
  BY <1>1, <1>2, <1>3, <1>4 DEF Way, Shows

LEMMA StartLoaded ==
    ASSUME Load(Start, None)
    PROVE  Way'
<1>1. page' = [kind |-> "overview", links |-> listed] /\ called' = None /\ listed' = listed
  BY OverviewAnswered DEF Load, registry
<1> QED
  BY <1>1 DEF Way, Shows

LEMMA InterfaceChosen ==
    ASSUME WalkInv, linked, NEW e, ChooseInterface(e)
    PROVE  Way'
<1>1. e \in listed /\ e \in described /\ e \in Listing
  BY DEF ChooseInterface, WalkInv, RegistryInv, Way
<1>2. /\ e.interface \in KnownInterfaces
      /\ declared[e.interface] \in described /\ declared[e.interface].interface = e.interface
  BY <1>1 DEF WalkInv, RegistryInv
<1>3. /\ page' = interface_page(e.interface) /\ location' = InterfaceLink(e) /\ called' = None
      /\ listed' = listed /\ described' = described
      /\ chosen' = [service |-> e.service, object |-> e.object, interface |-> e.interface, method |-> <<>>]
  BY <1>1, <1>2, InterfaceAnswered DEF ChooseInterface, Load, registry
<1>4. page'.kind = "interface" /\ page'.methods = Methods[declared[e.interface]]
  BY <1>3 DEF interface_page
<1> QED
  BY <1>1, <1>2, <1>3, <1>4 DEF Way, Shows

\* The method's page, or an error that has its reason.
LEMMA MethodChosen ==
    ASSUME WalkInv, linked, NEW m, ChooseMethod(m)
    PROVE  Way'
<1>1. PICK e \in listed, d \in described :
         /\ location.query = InterfaceLink(e).query
         /\ d.interface = e.interface /\ page.methods = Methods[d]
         /\ chosen = [service |-> e.service, object |-> e.object, interface |-> e.interface, method |-> <<>>]
  BY DEF ChooseMethod, WalkInv, Way
<1>2. e \in Listing /\ d \in Listing /\ m \in Methods[d] /\ m \in Seq(STRING) /\ m # <<>>
  BY <1>1, WordsAssumption DEF ChooseMethod, WalkInv, RegistryInv
<1> DEFINE c == [service |-> e.service, object |-> e.object, interface |-> e.interface, method |-> m]
<1>3. Callable(c) /\ c # Incomplete
  <2>1. c \in [service: Seq(STRING), object: Seq(STRING), interface: Seq(STRING), method: Seq(STRING)]
    BY <1>2, WordsAssumption
  <2>2. Callable(c)
    BY <1>2, <2>1 DEF Callable
  <2> QED
    BY <2>2, CallableParses
<1>4. TryLink(location.query, m).path = dbus \o <<"try", "/">> \o CallPath(c)
  BY <1>1 DEF TryLink, InterfaceLink, get
<1>5. chosen' = c /\ c.interface = d.interface /\ c.method = m
  BY <1>1 DEF ChooseMethod
<1> HIDE DEF c
<1>6. PICK how : page' = Try(c, how)
  BY <1>3, <1>4, TryAnswered DEF ChooseMethod, Load
<1>7. called' = None /\ listed' = listed /\ described' = described /\ declared' = declared
  BY DEF ChooseMethod, Load, registry
<1>8. CASE FindsMethod(c) /\ Proposes(c, how)
  <2>1. page' = [kind |-> "try", path |-> dbus \o <<"call", "/">> \o CallPath(c)]
    BY <1>3, <1>6, <1>8 DEF Try
  <2>2. Callable(c)'
    BY <1>3, <1>5 DEF Callable
  <2> QED
    BY <1>3, <1>5, <1>7, <2>1, <2>2 DEF Way, Shows
<1>9. CASE ~(FindsMethod(c) /\ Proposes(c, how))
  <2>1. page' = Error(500)
    BY <1>3, <1>6, <1>9 DEF Try
  <2>2. page'.kind = "error" /\ page'.status = 500
    BY <2>1 DEF Error
  <2>3. c.interface \in KnownInterfaces
    BY <1>5 DEF WalkInv, RegistryInv
  <2>4. declared[c.interface] \in described /\ declared[c.interface].interface = c.interface
    BY <2>3 DEF WalkInv, RegistryInv
  <2>5. c.method \notin Methods[declared[c.interface]] \ Awkward[declared[c.interface]]
    BY <1>9, <2>3 DEF FindsMethod, Proposes
  <2>6. Excused(chosen.interface, chosen.method)'
    BY <1>5, <1>7, <2>4, <2>5 DEF Excused
  <2>7. chosen'.method # <<>>
    BY <1>2, <1>5
  <2> QED
    BY <1>7, <2>2, <2>6, <2>7 DEF Way, Shows
<1> QED
  BY <1>8, <1>9

LEMMA SignalChosen ==
    ASSUME NEW s, ChooseSignal(s)
    PROVE  Way'
<1>1. page' = [kind |-> "matchrule"] /\ called' = None
  <2>1. \A how : Answer("GET", SignalLink(s).path, how) = [kind |-> "matchrule"]
    BY MatchRuleAnswered
  <2> QED
    BY <2>1 DEF ChooseSignal, Load
<1>2. wsPort' = ws_port
  BY DEF ChooseSignal, Load, OpenForm, SignalLink
<1> QED
  BY <1>1, <1>2 DEF Way, Shows

LEMMA CallPressed ==
    ASSUME WalkInv, linked, PressCall
    PROVE  Way'
<1>1. /\ Callable(chosen)
      /\ page.path = dbus \o <<"call", "/">> \o CallPath(chosen)
      /\ page.kind = "try"
  BY DEF PressCall, WalkInv, Way, Shows
<1>2. PICK how : called' = Call(chosen, how)
  BY <1>1, CallAnswered DEF PressCall
<1>3. called'.kind = "call" /\ called'.target = chosen
  BY <1>2 DEF Call, Called
<1>4. UNCHANGED <<registry, location, page, chosen>>
  BY DEF PressCall
<1>5. Callable(chosen)'
  BY <1>1, <1>4 DEF Callable
<1> QED
  BY <1>1, <1>3, <1>4, <1>5 DEF Way, Shows

LEMMA WalkKept ==
    ASSUME WalkInv, [Next]_vars
    PROVE  WalkInv'
<1>0. RegistryInv' /\ described \subseteq described' /\ listed \subseteq listed'
  BY RegistryKept DEF WalkInv
<1>1. CASE \E e \in Listing : Describe(e) \/ Publish(e)
  BY <1>0, <1>1, WayStays DEF Describe, Publish, tab, rule_state, WalkInv
<1>2. CASE \E e \in Listing : ChooseInterface(e)
  BY <1>0, <1>2, InterfaceChosen DEF ChooseInterface, WalkInv
<1>3. CASE \E url \in Typed : Type(url)
  <2> PICK url \in Typed : Type(url)
    BY <1>3
  <2>1. linked' => url = Start
    BY Zenon DEF Type
  <2>2. url = Start => Way'
    BY StartLoaded DEF Type
  <2> QED
    BY <1>0, <2>1, <2>2 DEF WalkInv
<1>4. CASE \E m \in UNION {Methods[e] : e \in Listing} : ChooseMethod(m)
  BY <1>0, <1>4, MethodChosen DEF ChooseMethod, WalkInv
<1>5. CASE \E s \in UNION {Signals[e] : e \in Listing} : ChooseSignal(s)
  BY <1>0, <1>5, SignalChosen DEF ChooseSignal, WalkInv
<1>6. CASE PressCall
  BY <1>0, <1>6, CallPressed DEF PressCall, WalkInv
<1>7. CASE UNCHANGED <<registry, tab, rule_state>>
  BY <1>0, <1>7, WayStays DEF tab, rule_state, WalkInv
<1>8. CASE Reload
  <2>1. ~linked /\ linked' = linked
    BY <1>8 DEF Reload, ShowsSchema, Shows, WalkInv, Way
  <2> QED
    BY <1>0, <2>1 DEF WalkInv
<1>9. CASE RulePageStep
  <2>1. UNCHANGED <<tab, wsPort>>
    BY <1>9 DEF RulePageStep, RuleStep, Edit, ToggleOff, ToggleOn, OnOpen, ServerCloses, OnClose
  <2> QED
    BY <1>0, <2>1, WayStays DEF tab, WalkInv
<1> QED
  BY <1>1, <1>2, <1>3, <1>4, <1>5, <1>6, <1>7, <1>8, <1>9 DEF Next, SchemaSteps, OnSchema, vars

\* WalkInv holds in every state of a visit.
THEOREM WalkInvariance == Spec => []WalkInv
<1>1. Init => WalkInv
  BY DEF Init, WalkInv, RegistryInv, KnownInterfaces
<1> QED
  BY <1>1, WalkKept, PTL DEF Spec

\* Whatever the registry holds and learns meanwhile, and whether the call is
\* answered or fails, what a visitor calls is the method, of the object, that the
\* links were followed to.
THEOREM CalledAsChosenAlways == Spec => []CalledAsChosen
<1>1. WalkInv => CalledAsChosen
  BY DEF WalkInv, Way, CalledAsChosen
<1> QED
  BY <1>1, WalkInvariance, PTL

\* A link that leads to an error was a method's, and its interface has been
\* declared without the method or with one that no request is proposed for; no link
\* leads to an empty page, and the WebSocket page reached by links knows the port.
THEOREM LinksAnsweredAlways == Spec => []LinksAnswered
<1>1. WalkInv => LinksAnswered
  BY DEF WalkInv, Way, LinksAnswered, Shows
<1> QED
  BY <1>1, WalkInvariance, PTL

-----------------------------------------------------------------------------
(* Types *)

Kinds == {"error", "blank", "json", "file", "overview", "interface", "try", "matchrule"}

\* A page is one of the kinds there are: GET comes to no call.
LEMMA PageKinds ==
    ASSUME NEW path, NEW how
    PROVE  Answer("GET", path, how).kind \in Kinds
<1> DEFINE found == Fitting("GET", path)
           handlers == {"services", "html", "interface_html", "interface", "service", "try", "matchrule"}
<1>1. \A n \in 1..8 : Routes[n].verb = "GET" => Routes[n].handler \in handlers
  BY DEF Routes, Route
<1>2. \A n \in found : n \in 1..8 /\ Routes[n].handler \in handlers
  BY <1>1, RouteTable DEF Fitting, Fits
<1>3. found # {} => First(found) \in found
  <2> SUFFICES ASSUME found # {} PROVE First(found) \in found
    OBVIOUS
  <2> HIDE DEF found
  <2>1. \E n \in found : \A k \in found : n <= k
    BY <1>2
  <2> QED
    BY <2>1 DEF First
<1>4. ASSUME NEW h \in handlers, NEW rest
      PROVE  Handle(h, rest, how).kind \in Kinds
  <2>1. \A name, known, answer : answer.kind \in Kinds => LookUp(name, known, answer).kind \in Kinds
    BY DEF LookUp, Blank, Error, Kinds
  <2>2. \A c : Try(c, how).kind \in Kinds
    BY DEF Try, Error, Kinds
  <2>3. /\ \A i : interface_page(i).kind \in Kinds
        /\ \A x : Json(x).kind \in Kinds
    BY DEF interface_page, Json, Kinds
  <2> QED
    BY <2>1, <2>2, <2>3 DEF Handle, Kinds
<1> HIDE DEF found, handlers
<1>5. found # {} => Handle(Routes[First(found)].handler,
                           SubSeq(path, Len(Routes[First(found)].path) + 1, Len(path)), how).kind \in Kinds
  BY <1>2, <1>3, <1>4
<1> QED
  BY <1>5 DEF Answer, Error, Kinds, found

LEMMA LoadTyped ==
    ASSUME TypeOK, NEW url, NEW f, Load(url, f)
    PROVE  /\ UNCHANGED registry /\ page'.kind \in Kinds
           /\ scripts' = 0 /\ document' = "unread"
           /\ DOMAIN fields' = DOMAIN Blank_form
           /\ sockets' = <<>> /\ ws' = 0 /\ label' = "listen"
<1>1. page'.kind \in Kinds
  BY PageKinds DEF Load
<1> QED
  BY <1>1 DEF Load, OpenSchema, OpenForm, FilledIn

LEMMA LoadKept ==
    ASSUME TypeOK, NEW url, NEW f, Load(url, f), linked' \in BOOLEAN
    PROVE  TypeOK'
<1>1. Len(Scripts) = 3 /\ 0 <= MaxSockets
  BY MaxSocketsAssumption DEF Scripts
<1>2. sockets' = <<>>
  BY LoadTyped
<1>3. Len(sockets') = 0 /\ DOMAIN sockets' = {}
  BY <1>2
<1>4. /\ UNCHANGED registry /\ page'.kind \in Kinds /\ scripts' = 0 /\ document' = "unread"
      /\ DOMAIN fields' = DOMAIN Blank_form /\ ws' = 0 /\ label' = "listen"
  BY LoadTyped
<1>5. RuleTypeOK'
  BY <1>1, <1>3, <1>4 DEF RuleTypeOK
<1>6. scripts' \in 0..Len(Scripts)
  BY <1>1, <1>4
<1> QED
  BY <1>4, <1>5, <1>6 DEF TypeOK, Kinds, registry, KnownInterfaces

\* The fields of the form, and the bound on sockets; the rest is ButtonShape.
LEMMA RulePageTyped ==
    ASSUME RuleTypeOK, ButtonInv, ButtonInv', RuleStep
    PROVE  RuleTypeOK'
<1>1. \A n \in DOMAIN sockets' : sockets'[n].state \in States
  <2>1. PICK W, M : sockets' \in Seq(Socket(W, M))
    BY DEF ButtonInv, ButtonShape
  <2>2. \A n \in DOMAIN sockets' : sockets'[n] \in Socket(W, M)
    BY <2>1
  <2> QED
    BY <2>2 DEF Socket
<1>2. DOMAIN fields' = DOMAIN fields
  BY DEF RuleStep, Edit, ToggleOff, ToggleOn, OnOpen, ServerCloses, OnClose
<1>3. ws' <= MaxSockets
  <2>1. CASE ToggleOn
    <3>1. ws' = Len(sockets) + 1 /\ Len(sockets) < MaxSockets
      BY <2>1 DEF ToggleOn, Connect
    <3>2. Len(sockets) \in Nat
      BY DEF ButtonInv, ButtonShape
    <3> QED
      BY <3>1, <3>2, MaxSocketsAssumption
  <2>2. CASE ~ToggleOn
    BY <2>2 DEF RuleStep, Edit, ToggleOff, OnOpen, ServerCloses, OnClose, RuleTypeOK
  <2> QED
    BY <2>1, <2>2
<1> QED
  BY <1>1, <1>2, <1>3 DEF RuleTypeOK, ButtonInv, ButtonShape, States

LEMMA TypeKept ==
    ASSUME TypeOK, ButtonInv, ButtonInv', [Next]_vars
    PROVE  TypeOK'
<1>0. Len(Scripts) = 3
  BY DEF Scripts
<1>1. CASE \E e \in Listing : Describe(e) \/ Publish(e)
  <2>1. RegistryInv'
    BY RegistryKept DEF TypeOK, RegistryInv
  <2>2. UNCHANGED <<tab, page_state, rule_state>>
    BY <1>1 DEF Describe, Publish
  <2> QED
    BY <2>1, <2>2 DEF tab, page_state, rule_state, TypeOK, RuleTypeOK, RegistryInv
<1>2. CASE \E e \in Listing : ChooseInterface(e)
  BY <1>2, LoadKept DEF ChooseInterface, TypeOK
<1>3. CASE \E url \in Typed : Type(url)
  <2> PICK url \in Typed : Type(url)
    BY <1>3
  <2>1. Load(url, None) /\ linked' \in BOOLEAN
    BY DEF Type
  <2> QED
    BY <2>1, LoadKept
<1>4. CASE \E m \in UNION {Methods[e] : e \in Listing} : ChooseMethod(m)
  BY <1>4, LoadKept DEF ChooseMethod, TypeOK
<1>5. CASE \E s \in UNION {Signals[e] : e \in Listing} : ChooseSignal(s)
  BY <1>5, LoadKept DEF ChooseSignal, TypeOK
<1>6. CASE PressCall
  BY <1>6 DEF PressCall, registry, KnownInterfaces, page_state, rule_state, TypeOK, RuleTypeOK
<1>7. CASE OnSchema(LoadScript)
  <2>1. OnSchema(LoadScript) => scripts' \in 0..Len(Scripts) /\ document' = document
    BY <1>0 DEF OnSchema, LoadScript, TypeOK
  <2> QED
    BY <1>7, <2>1 DEF OnSchema, registry, KnownInterfaces, tab, rule_state, TypeOK, RuleTypeOK
<1>8. CASE \/ OnSchema(OnLoad)
           \/ OnSchema(ReadDocument(location.path))
           \/ \E op \in Operations : OnSchema(Expand(op))
           \/ \E v \in Values : \E how \in Outcomes : OnSchema(Execute(v, how))
  <2>1. scripts' = scripts /\ document' \in {"unread", "shown", "failed"}
    BY <1>8 DEF OnSchema, OnLoad, ReadDocument, Expand, Execute, TypeOK
  <2>2. UNCHANGED <<registry, tab, rule_state>>
    BY <1>8 DEF OnSchema
  <2> QED
    BY <2>1, <2>2 DEF registry, KnownInterfaces, tab, rule_state, TypeOK, RuleTypeOK
<1>9. CASE Reload
  BY <1>9, LoadKept DEF Reload, TypeOK
<1>10. CASE RulePageStep
  <2>1. RuleTypeOK'
    BY <1>10, RulePageTyped DEF RulePageStep, TypeOK
  <2> QED
    BY <1>10, <2>1 DEF RulePageStep, registry, KnownInterfaces, tab, page_state, TypeOK
<1>11. CASE UNCHANGED vars
  BY <1>11 DEF vars, registry, KnownInterfaces, tab, page_state, rule_state, TypeOK, RuleTypeOK
<1> QED
  BY <1>1, <1>2, <1>3, <1>4, <1>5, <1>6, <1>7, <1>8, <1>9, <1>10, <1>11 DEF Next, SchemaSteps

\* The tab, the two pages with scripts and their sockets keep their types.
THEOREM TypeCorrect == Spec => []TypeOK
<1>1. Init => TypeOK
  <2> SUFFICES ASSUME Init PROVE TypeOK
    OBVIOUS
  <2>1. Len(Scripts) = 3 /\ 0 <= MaxSockets
    BY MaxSocketsAssumption DEF Scripts
  <2>2. /\ sockets = <<>> /\ ws = 0 /\ fields = Blank_form /\ label = "listen"
        /\ described = {} /\ KnownInterfaces = {} /\ listed = {} /\ page = Blank /\ linked = FALSE /\ scripts = 0 /\ document = "unread"
    BY DEF Init, RuleInit, SchemaInit, KnownInterfaces
  <2>3. Len(sockets) = 0 /\ DOMAIN sockets = {}
    BY <2>2
  <2>4. RuleTypeOK
    BY <2>1, <2>2, <2>3 DEF RuleTypeOK
  <2>5. scripts \in 0..Len(Scripts)
    BY <2>1, <2>2
  <2>6. page.kind = "blank"
    BY <2>2 DEF Blank
  <2> QED
    BY <2>2, <2>4, <2>5, <2>6 DEF TypeOK
<1> QED
  BY <1>1, TypeKept, ButtonInvariance, PTL DEF Spec
=================================================================================
