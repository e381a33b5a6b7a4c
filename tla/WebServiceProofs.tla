--------------------------- MODULE WebServiceProofs ---------------------------
(***************************************************************************)
(* Proofs about WebService, for every number of workers and every set of   *)
(* requests, names, paths and interfaces.                                  *)
(*                                                                         *)
(* The handlers never write to the registry, so that what RegistryProofs   *)
(* proves of it holds beside them; what they may rely on between two       *)
(* lookups is that the registry forgets nothing.                           *)
(***************************************************************************)
EXTENDS WebService, RegistryProofs

RegistryInv == TypeOK /\ Shape /\ Described /\ InHand

\* An answer is written when the handler ends, not before.
Fresh(w) == at[w] # "idle" => status[w] = None

\* What a handler has checked, or has read a name of, is there to be looked up.
Checked(w) ==
    /\ at[w] = "fetch" /\ req[w].op = "interface" => contains_interface(req[w].interface)
    /\ at[w] = "fetch" /\ req[w].op = "service" => contains_service(req[w].service)
    /\ \A x \in paths[w] : x[2] \in Recorded(x[1])
    /\ status[w] = 500 => req[w].op \in {"call", "try"}

\* What a client has learned stays true.
Learned(w) ==
    /\ \A s \in Names : <<"service", s>> \in known[w] => contains_service(s)
    /\ \A i \in Interfaces : <<"interface", i>> \in known[w] => contains_interface(i)
    /\ status[w] = 404 /\ req[w].op = "service" => <<"service", req[w].service>> \notin known[w]
    /\ status[w] = 404 /\ req[w].op = "interface" => <<"interface", req[w].interface>> \notin known[w]

\* What has become of the call, by where its handler is.
Honest(w) ==
    req[w].op = "call" =>
        /\ at[w] \in {"route", "fill", "send"} => message[w] = "none"
        /\ at[w] = "decode" => message[w] = "executed"
        /\ status[w] = 200 => message[w] = "executed"
        /\ status[w] = 400 => message[w] = "none"

\* A reference not written to since still says what it said.
Quiet(w) ==
    req[w].op = "call" /\ ~touched[w] =>
        /\ at[w] \in {"fill", "send", "wait", "decode"} =>
             /\ lookup[w] = interfaces[req[w].interface]
             /\ req[w].method \in Declares[lookup[w]]
        /\ at[w] \in {"send", "wait", "decode"} => filled[w] = lookup[w]
        /\ status[w] = 200 => decoded[w] = filled[w] /\ req[w].method \in Declares[decoded[w]]

\* A listing whose scan is over is scanned no more.
Sealed(w) ==
    req[w].op = "service" /\ sealed[w] /\ (at[w] = "read" \/ status[w] = 200) =>
        /\ ~touched[w]
        /\ svc # req[w].service
        /\ contains_service(req[w].service)
        /\ status[w] = 200 => listing[w] = object_paths[req[w].service]

\* A call that began when no scan could write to the interface any more.
SettledCall(w) ==
    req[w].op = "call" /\ sealed[w] /\ (at[w] \in {"fill", "send", "wait", "decode"} \/ status[w] = 200) =>
        /\ ~touched[w]
        /\ Settled(req[w].interface) /\ interfaces[req[w].interface] # None
        /\ status[w] = 200 => \A d \in {lookup[w], filled[w], decoded[w]} : d = interfaces[req[w].interface]

HandlersInv ==
    \A w \in Workers : Fresh(w) /\ Checked(w) /\ Learned(w) /\ Honest(w) /\ Quiet(w) /\ Sealed(w) /\ SettledCall(w)

\* A definition comes from a service that declares the interface.
Origin ==
    /\ \A i \in unparsed : svc \in Declarers(i)
    /\ \A i \in Interfaces : interfaces[i] # None => \E s \in Declarers(i) : interfaces[i] = DefOf[s][i]

IInv == RegistryInv /\ Origin /\ TypeOKWeb /\ HandlersInv

-----------------------------------------------------------------------------
(* Who writes what *)

\* A step of a worker, of the client it serves or of the service it calls.
WorkerStep(v) == (\E r \in Requests : Request(v, r)) \/ Handler(v) \/ Execute(v) \/ Crash(v)

\* Only the update thread writes to the registry.
LEMMA WorkersOnlyRead ==
    ASSUME NEW v \in Workers, WorkerStep(v)
    PROVE  UNCHANGED registry
  BY DEF WorkerStep, Request, Handler, Execute, Crash, ListServices, CheckInterface, FetchInterface, CheckService, FetchService, ReadListing, HtmlNames, HtmlPaths, HtmlObject, Reject, LookupMethod, FillMessage, Send, GetReply, CallFails, Decode, SampleRequest, ShowSignature

\* What the update thread does beside the handlers it does without them.
LEMMA RegistryStepsAreSteps == RegistryStep => Next
  BY DEF RegistryStep, Rewrite, Insert, Unseen, Next, UpdateThread

\* A step of one worker leaves the others alone.
LEMMA OthersAlone ==
    ASSUME TypeOKWeb, NEW v \in Workers, NEW w \in Workers, w # v, WorkerStep(v)
    PROVE  /\ at'[w] = at[w] /\ req'[w] = req[w] /\ status'[w] = status[w]
           /\ listing'[w] = listing[w] /\ paths'[w] = paths[w] /\ lookup'[w] = lookup[w]
           /\ filled'[w] = filled[w] /\ decoded'[w] = decoded[w] /\ touched'[w] = touched[w]
           /\ sealed'[w] = sealed[w] /\ message'[w] = message[w] /\ known'[w] = known[w]
<1> USE DEF TypeOKWeb, Answer, Goto, Learn, call, html
<1>1. CASE ListServices(v)
  BY <1>1 DEF ListServices
<1>2. CASE CheckInterface(v)
  BY <1>2 DEF CheckInterface
<1>3. CASE FetchInterface(v)
  BY <1>3 DEF FetchInterface
<1>4. CASE CheckService(v)
  BY <1>4 DEF CheckService
<1>5. CASE FetchService(v)
  BY <1>5 DEF FetchService
<1>6. CASE ReadListing(v)
  BY <1>6 DEF ReadListing
<1>7. CASE HtmlNames(v)
  BY <1>7 DEF HtmlNames
<1>8. CASE HtmlPaths(v)
  BY <1>8 DEF HtmlPaths
<1>9. CASE HtmlObject(v)
  BY <1>9 DEF HtmlObject
<1>10. CASE Reject(v)
  BY <1>10 DEF Reject
<1>11. CASE LookupMethod(v)
  BY <1>11 DEF LookupMethod
<1>12. CASE FillMessage(v)
  BY <1>12 DEF FillMessage
<1>13. CASE Send(v)
  BY <1>13 DEF Send
<1>14. CASE GetReply(v)
  BY <1>14 DEF GetReply
<1>15. CASE CallFails(v)
  BY <1>15 DEF CallFails
<1>16. CASE Decode(v)
  BY <1>16 DEF Decode
<1>17. CASE SampleRequest(v)
  BY <1>17 DEF SampleRequest
<1>18. CASE ShowSignature(v)
  BY <1>18 DEF ShowSignature
<1>19. CASE \E r \in Requests : Request(v, r)
  BY <1>19 DEF Request
<1>20. CASE Execute(v) \/ Crash(v)
  BY <1>20 DEF Execute, Crash
<1> QED
  BY <1>1, <1>2, <1>3, <1>4, <1>5, <1>6, <1>7, <1>8, <1>9, <1>10, <1>11, <1>12, <1>13, <1>14, <1>15, <1>16, <1>17, <1>18, <1>19, <1>20 DEF WorkerStep, Handler

-----------------------------------------------------------------------------
(* Types *)

LEMMA TypingWebInitially == WebInit => TypeOKWeb
  BY DEF WebInit, TypeOKWeb, Labels_W

\* Where a worker may be, and what it may answer.
Control == at \in [Workers -> Labels_W] /\ status \in [Workers -> {None, 200, 400, 404, 500}]

LEMMA AnswerTyped ==
    ASSUME Control, NEW v \in Workers, NEW code \in {200, 400, 404, 500}, Answer(v, code)
    PROVE  Control'
  BY DEF Answer, Goto, Control, Labels_W

LEMMA GotoTyped ==
    ASSUME Control, NEW v \in Workers, NEW label \in Labels_W, Goto(v, label), UNCHANGED status
    PROVE  Control'
  BY DEF Goto, Control

LEMMA ControlTyped ==
    ASSUME Control, NEW v \in Workers, WorkerStep(v)
    PROVE  Control'
<1> USE AnswerTyped, GotoTyped DEF Labels_W
<1>1. CASE ListServices(v)
  BY <1>1 DEF ListServices
<1>2. CASE CheckInterface(v)
  BY <1>2 DEF CheckInterface
<1>3. CASE FetchInterface(v)
  BY <1>3 DEF FetchInterface
<1>4. CASE CheckService(v)
  BY <1>4 DEF CheckService
<1>5. CASE FetchService(v)
  BY <1>5 DEF FetchService
<1>6. CASE ReadListing(v)
  BY <1>6 DEF ReadListing
<1>7. CASE HtmlNames(v)
  BY <1>7 DEF HtmlNames
<1>8. CASE HtmlPaths(v)
  BY <1>8 DEF HtmlPaths
<1>9. CASE HtmlObject(v)
  <2>1. CASE Goto(v, "html_paths") /\ UNCHANGED status
    BY <2>1
  <2>2. CASE UNCHANGED <<at, status>>
    BY <2>2 DEF Control
  <2>3. CASE Answer(v, 500)
    BY <2>3
  <2> QED
    BY <1>9, <2>1, <2>2, <2>3, ZenonT(60) DEF HtmlObject
<1>10. CASE Reject(v)
  BY <1>10 DEF Reject
<1>11. CASE LookupMethod(v)
  BY <1>11 DEF LookupMethod
<1>12. CASE FillMessage(v)
  BY <1>12 DEF FillMessage
<1>13. CASE Send(v)
  BY <1>13 DEF Send
<1>14. CASE GetReply(v)
  BY <1>14 DEF GetReply
<1>15. CASE CallFails(v)
  BY <1>15 DEF CallFails
<1>16. CASE Decode(v)
  BY <1>16 DEF Decode
<1>17. CASE SampleRequest(v)
  BY <1>17 DEF SampleRequest
<1>18. CASE ShowSignature(v)
  <2>1. Answer(v, 200) \/ Answer(v, 500)
    BY <1>18 DEF ShowSignature
  <2> QED
    BY <2>1
<1>19. CASE \E r \in Requests : Request(v, r)
  <2>1. at' = [at EXCEPT ![v] = "route"] /\ status' = [status EXCEPT ![v] = None]
    BY <1>19 DEF Request, Goto
  <2> QED
    BY <2>1 DEF Control
<1>20. CASE Execute(v) \/ Crash(v)
  BY <1>20 DEF Execute, Crash, Control
<1> QED
  BY <1>1, <1>2, <1>3, <1>4, <1>5, <1>6, <1>7, <1>8, <1>9, <1>10, <1>11, <1>12, <1>13, <1>14, <1>15, <1>16, <1>17, <1>18, <1>19, <1>20 DEF WorkerStep, Handler

\* Handlers that change nothing of what a page or a call is made of.
Elsewhere(v) ==
    \/ ListServices(v) \/ CheckInterface(v) \/ FetchInterface(v) \/ CheckService(v) \/ FetchService(v)
    \/ Reject(v) \/ GetReply(v) \/ CallFails(v) \/ SampleRequest(v) \/ ShowSignature(v)

\* What is recorded of a service are paths, and interfaces.
LEMMA RecordedAreWords ==
    ASSUME TypeOK, NEW s \in Names
    PROVE  /\ Recorded(s) \subseteq Paths \cup {NoPath}
           /\ UNION {e.interfaces : e \in object_paths[s]} \subseteq Interfaces
<1> object_paths[s] \in SUBSET Entry
  BY DEF TypeOK
<1> QED
  BY DEF Recorded, Entry

\* The pages a worker reads.
LEMMA PagesTyped ==
    ASSUME TypeOK, TypeOKWeb, NEW v \in Workers, WorkerStep(v)
    PROVE  /\ listing' \in [Workers -> SUBSET Entry]
           /\ names' \in [Workers -> SUBSET Names]
           /\ paths' \in [Workers -> SUBSET (Names \X (Paths \cup {NoPath}))]
<1> USE DEF TypeOKWeb, html
<1>0. req[v].service \in Names
  BY RequestsAssumption
<1>1. CASE ReadListing(v)
  <2> DEFINE now == object_paths[req[v].service]
  <2>1. now \in SUBSET Entry /\ {[e EXCEPT !.interfaces = {}] : e \in now} \in SUBSET Entry
    <3>1. now \in SUBSET Entry
      BY <1>0 DEF TypeOK
    <3>2. \A e \in Entry : [e EXCEPT !.interfaces = {}] \in Entry
      BY DEF Entry
    <3> QED
      BY <3>1, <3>2
  <2>2. \E S \in SUBSET Entry : listing' = [listing EXCEPT ![v] = S]
    BY <1>1, <2>1 DEF ReadListing
  <2> QED
    BY <1>1, <2>2 DEF ReadListing
<1>2. CASE HtmlPaths(v)
  <2>1. CASE UNCHANGED html
    BY <1>2, <2>1 DEF HtmlPaths
  <2>2. CASE \E s \in names[v] : /\ names' = [names EXCEPT ![v] = @ \ {s}]
                                 /\ paths' = [paths EXCEPT ![v] = {s} \X Recorded(s)]
    <3> PICK s \in names[v] : /\ names' = [names EXCEPT ![v] = @ \ {s}]
                              /\ paths' = [paths EXCEPT ![v] = {s} \X Recorded(s)]
      BY <2>2
    <3>1. s \in Names /\ {s} \X Recorded(s) \in SUBSET (Names \X (Paths \cup {NoPath}))
      BY RecordedAreWords
    <3> QED
      BY <1>2, <3>1 DEF HtmlPaths
  <2> QED
    BY <1>2, <2>1, <2>2 DEF HtmlPaths
<1>3. CASE HtmlNames(v)
  BY <1>3 DEF HtmlNames
<1>4. CASE HtmlObject(v)
  <2>1. UNCHANGED <<listing, names>>
    BY <1>4 DEF HtmlObject
  <2>2. UNCHANGED paths \/ \E x \in paths[v] : paths' = [paths EXCEPT ![v] = @ \ {x}]
    BY <1>4 DEF HtmlObject
  <2> QED
    BY <2>1, <2>2
<1>5. CASE \E r \in Requests : Request(v, r)
  BY <1>5 DEF Request
<1>6. CASE Elsewhere(v) \/ LookupMethod(v) \/ FillMessage(v) \/ Send(v) \/ Decode(v) \/ Execute(v) \/ Crash(v)
  <2>1. UNCHANGED <<listing, names, paths>>
    BY <1>6 DEF Elsewhere, ListServices, CheckInterface, FetchInterface, CheckService, FetchService, Reject,
       GetReply, CallFails, SampleRequest, ShowSignature, LookupMethod, FillMessage, Send, Decode, Execute, Crash
  <2> QED
    BY <2>1
<1> QED
  BY <1>1, <1>2, <1>3, <1>4, <1>5, <1>6 DEF WorkerStep, Handler, Elsewhere

\* The call a worker makes.
LEMMA CallTyped ==
    ASSUME TypeOK, TypeOKWeb, NEW v \in Workers, WorkerStep(v)
    PROVE  /\ lookup' \in [Workers -> Defs \cup {None}]
           /\ filled' \in [Workers -> Defs \cup {None}]
           /\ decoded' \in [Workers -> Defs \cup {None}]
           /\ message' \in [Workers -> {"none", "sent", "executed"}]
<1> USE DEF TypeOKWeb, call
<1>0. interfaces[req[v].interface] \in Defs \cup {None}
  BY RequestsAssumption DEF TypeOK
<1>1. CASE LookupMethod(v)
  BY <1>0, <1>1 DEF LookupMethod
<1>2. CASE FillMessage(v)
  BY <1>0, <1>2 DEF FillMessage
<1>3. CASE Send(v)
  BY <1>3 DEF Send
<1>4. CASE Execute(v)
  BY <1>4 DEF Execute
<1>5. CASE Decode(v)
  <2>1. UNCHANGED <<lookup, filled, message>>
    BY <1>5 DEF Decode
  <2>2. UNCHANGED decoded \/ \E d \in Defs \cup {None} : decoded' = [decoded EXCEPT ![v] = d]
    BY <1>5 DEF Decode
  <2> QED
    BY <2>1, <2>2
<1>6. CASE \E r \in Requests : Request(v, r)
  BY <1>6 DEF Request
<1>7. CASE Elsewhere(v) \/ ReadListing(v) \/ HtmlNames(v) \/ HtmlPaths(v) \/ HtmlObject(v) \/ Crash(v)
  <2>1. UNCHANGED call
    BY <1>7 DEF Elsewhere, ListServices, CheckInterface, FetchInterface, CheckService, FetchService, Reject,
       GetReply, CallFails, SampleRequest, ShowSignature, ReadListing, HtmlNames, HtmlPaths, HtmlObject, Crash
  <2> QED
    BY <2>1
<1> QED
  BY <1>1, <1>2, <1>3, <1>4, <1>5, <1>6, <1>7 DEF WorkerStep, Handler, Elsewhere

\* What clients have met are services and interfaces.
LEMMA KnownTyped ==
    ASSUME TypeOK, TypeOKWeb, NEW v \in Workers, WorkerStep(v)
    PROVE  known' \in [Workers -> SUBSET (({"service"} \X Names) \cup ({"interface"} \X Interfaces))]
<1> DEFINE K == ({"service"} \X Names) \cup ({"interface"} \X Interfaces)
<1>1. known \in [Workers -> SUBSET K]
  BY DEF TypeOKWeb
<1>2. ASSUME NEW N \in SUBSET K, known' = [known EXCEPT ![v] = @ \cup N]
      PROVE  known' \in [Workers -> SUBSET K]
  BY <1>1, <1>2
<1>3. CASE ListServices(v)
  <2> DEFINE N == {"service"} \X {s \in Names : contains_service(s)}
  <2>1. N \in SUBSET K /\ known' = [known EXCEPT ![v] = @ \cup N]
    BY <1>3 DEF ListServices, Learn
  <2> HIDE DEF N
  <2> QED
    BY <1>2, <2>1
<1>4. CASE ReadListing(v)
  <2> DEFINE now == object_paths[req[v].service]
  <2>1. now \in SUBSET Entry
    BY RequestsAssumption DEF TypeOK, TypeOKWeb
  <2>2. PICK S \in SUBSET (now \cup {[e EXCEPT !.interfaces = {}] : e \in now}) :
           Learn(v, "interface", UNION {e.interfaces : e \in S})
    BY <1>4 DEF ReadListing
  <2>3. \A e \in S : e.interfaces \subseteq Interfaces
    BY <2>1, <2>2 DEF Entry
  <2>4. {"interface"} \X UNION {e.interfaces : e \in S} \in SUBSET K
    BY <2>3
  <2> QED
    BY <1>2, <2>2, <2>4 DEF Learn
<1>5. CASE HtmlObject(v)
  <2>1. CASE UNCHANGED known
    BY <1>1, <2>1
  <2>2. CASE ~UNCHANGED known
    <3>1. PICK x \in paths[v] :
             Learn(v, "interface", UNION {e.interfaces : e \in {y \in object_paths[x[1]] : y.path = x[2]}})
      BY <1>5, <2>2 DEF HtmlObject
    <3> DEFINE I == UNION {e.interfaces : e \in {y \in object_paths[x[1]] : y.path = x[2]}}
    <3>2. x[1] \in Names
      BY DEF TypeOKWeb
    <3>3. I \subseteq Interfaces
      BY <3>2, RecordedAreWords
    <3>4. known' = [known EXCEPT ![v] = @ \cup {"interface"} \X I]
      BY <3>1 DEF Learn
    <3> HIDE DEF I
    <3>5. {"interface"} \X I \in SUBSET K
      BY <3>3
    <3> QED
      BY <1>2, <3>4, <3>5
  <2> QED
    BY <2>1, <2>2
<1>6. CASE UNCHANGED known
  BY <1>1, <1>6
<1> QED
  BY <1>3, <1>4, <1>5, <1>6 DEF WorkerStep, Handler, Request, Execute, Crash, CheckInterface, FetchInterface,
     CheckService, FetchService, HtmlNames, HtmlPaths, Reject, LookupMethod, FillMessage, Send, GetReply,
     CallFails, Decode, SampleRequest, ShowSignature

LEMMA TypingWebPreserved ==
    ASSUME TypeOK, TypeOKWeb, NEW v \in Workers, WorkerStep(v)
    PROVE  TypeOKWeb'
<1>1. Control'
  BY ControlTyped DEF TypeOKWeb, Control
<1>2. alive' \in BOOLEAN
  BY DEF TypeOKWeb, WorkerStep, Handler, Request, Execute, Crash, ListServices, CheckInterface, FetchInterface,
     CheckService, FetchService, ReadListing, HtmlNames, HtmlPaths, HtmlObject, Reject, LookupMethod,
     FillMessage, Send, GetReply, CallFails, Decode, SampleRequest, ShowSignature
<1>3. req' \in [Workers -> Requests]
  BY DEF TypeOKWeb, WorkerStep, Handler, Request, Execute, Crash, ListServices, CheckInterface, FetchInterface,
     CheckService, FetchService, ReadListing, HtmlNames, HtmlPaths, HtmlObject, Reject, LookupMethod,
     FillMessage, Send, GetReply, CallFails, Decode, SampleRequest, ShowSignature
<1>4. touched' \in [Workers -> BOOLEAN] /\ sealed' \in [Workers -> BOOLEAN]
  <2>1. CASE FetchService(v)
    BY <2>1 DEF FetchService, TypeOKWeb
  <2>2. CASE LookupMethod(v)
    <3> DEFINE over == Settled(req[v].interface)
    <3>1. /\ touched' \in {touched, [touched EXCEPT ![v] = FALSE]}
          /\ sealed' \in {sealed, [sealed EXCEPT ![v] = over]}
      BY <2>2, Zenon DEF LookupMethod
    <3>2. touched \in [Workers -> BOOLEAN] /\ sealed \in [Workers -> BOOLEAN]
      BY Zenon DEF TypeOKWeb
    <3>3. over \in BOOLEAN
      BY DEF Settled
    <3> HIDE DEF over
    <3>4. [touched EXCEPT ![v] = FALSE] \in [Workers -> BOOLEAN]
      BY <3>2
    <3>5. [sealed EXCEPT ![v] = over] \in [Workers -> BOOLEAN]
      BY <3>2, <3>3
    <3> QED
      BY <3>1, <3>2, <3>4, <3>5, Zenon
  <2>3. CASE \E r \in Requests : Request(v, r)
    BY <2>3 DEF Request, TypeOKWeb
  <2>4. CASE UNCHANGED <<touched, sealed>>
    BY <2>4 DEF TypeOKWeb
  <2> QED
    BY <2>1, <2>2, <2>3, <2>4 DEF WorkerStep, Handler, Execute, Crash, ListServices, CheckInterface,
       FetchInterface, CheckService, ReadListing, HtmlNames, HtmlPaths, HtmlObject, Reject, FillMessage,
       Send, GetReply, CallFails, Decode, SampleRequest, ShowSignature
<1> QED
  BY <1>1, <1>2, <1>3, <1>4, PagesTyped, CallTyped, KnownTyped DEF TypeOKWeb, Control

LEMMA TypingWebKept ==
    ASSUME TypeOKWeb, RegistryStep
    PROVE  TypeOKWeb'
<1>1. touched' \in [Workers -> BOOLEAN]
  <2>1. CASE UNCHANGED touched
    BY <2>1 DEF TypeOKWeb
  <2>2. CASE \E s, i : touched' = [w \in Workers |-> touched[w] \/ Points(w, s, i)]
    <3>1. PICK s, i : touched' = [w \in Workers |-> touched[w] \/ Points(w, s, i)]
      BY <2>2
    <3>2. \A w \in Workers : (touched[w] \/ Points(w, s, i)) \in BOOLEAN
      OBVIOUS
    <3> QED
      BY <3>1, <3>2, Zenon
  <2> QED
    BY <2>1, <2>2 DEF RegistryStep, Rewrite, Insert, Unseen
<1> QED
  BY <1>1 DEF RegistryStep, TypeOKWeb, html, call

-----------------------------------------------------------------------------
(* Beside the update thread *)

\* The registry forgets nothing.
LEMMA Grows ==
    ASSUME RegistryInv, [Next]_vars
    PROVE  /\ \A i \in Interfaces : contains_interface(i) => contains_interface(i)'
           /\ \A s \in Names : contains_service(s) => contains_service(s)'
           /\ \A s \in Names : Recorded(s) \subseteq Recorded(s)'
<1>1. \A i \in Interfaces : contains_interface(i) => contains_interface(i)'
  BY DefinitionsStay DEF RegistryInv
<1>2. CASE AddObject
  <2> SUFFICES ASSUME NEW s \in Names
               PROVE  /\ contains_service(s) => contains_service(s)'
                      /\ Recorded(s) \subseteq Recorded(s)'
    BY <1>1
  <2>1. CASE s = svc
    BY <1>2, <2>1, AddRecords DEF RegistryInv, contains_service
  <2>2. CASE s # svc
    BY <1>2, <2>2, AddRecords DEF RegistryInv, contains_service
  <2> QED
    BY <2>1, <2>2
<1>3. CASE UNCHANGED object_paths
  BY <1>1, <1>3 DEF contains_service, Recorded
<1> QED
  BY <1>2, <1>3 DEF Next, Environment, ServiceChanges, Stop, UpdateThread, WakeUp, ListServicesOk,
     ListServicesFails, SkipService, StartScan, EndUpdate, IntrospectOk, IntrospectFails, ParseInterface, vars

\* A definition a reader points at is rewritten only together with touched,
\* and so is a listing.
LEMMA RewritesTouch ==
    ASSUME RegistryInv, TypeOKWeb, RegistryStep, NEW w \in Workers, ~touched'[w]
    PROVE  /\ ~touched[w]
           /\ Holds(w) /\ req[w].op = "call" =>
                interfaces'[req[w].interface] = interfaces[req[w].interface]
           /\ Holds(w) /\ req[w].op = "service" =>
                object_paths'[req[w].service] = object_paths[req[w].service]
<1>0. req[w].service \in Names /\ req[w].interface \in Interfaces
  BY RequestsAssumption DEF TypeOKWeb
<1>1. CASE Rewrite
  <2>1. PICK i \in Interfaces :
           /\ ParseInterface(i)
           /\ touched' = [x \in Workers |-> touched[x] \/ Points(x, None, i)]
    BY <1>1 DEF Rewrite
  <2>2. ~touched[w] /\ ~Points(w, None, i)
    BY <2>1
  <2>3. object_paths' = object_paths /\ \A k \in Interfaces \ {i} : interfaces'[k] = interfaces[k]
    BY <2>1 DEF ParseInterface, RegistryInv, TypeOK
  <2> QED
    BY <1>0, <2>2, <2>3 DEF Points
<1>2. CASE Insert
  <2>1. ~touched[w] /\ ~Points(w, svc, None)
    BY <1>2 DEF Insert
  <2>2. interfaces' = interfaces /\ \A s \in Names \ {svc} : object_paths'[s] = object_paths[s]
    BY <1>2 DEF Insert, AddObject, add, RegistryInv, TypeOK
  <2> QED
    BY <1>0, <2>1, <2>2 DEF Points
<1>3. CASE Unseen
  <2>1. UNCHANGED <<touched, interfaces, object_paths>>
    BY <1>3 DEF Unseen, Environment, ServiceChanges, Stop, WakeUp, ListServicesOk, ListServicesFails,
       SkipService, StartScan, EndUpdate, IntrospectOk, IntrospectFails
  <2> QED
    BY <2>1
<1> QED
  BY <1>1, <1>2, <1>3 DEF RegistryStep

\* A service whose listing is begun and that is not being scanned is not
\* scanned again, and its listing is not written.
LEMMA ScanIsOver ==
    ASSUME RegistryInv, [Next]_vars, NEW s \in Names, contains_service(s), svc # s
    PROVE  svc' # s /\ object_paths'[s] = object_paths[s]
<1>0. s # None
  BY NamesAssumption
<1>1. CASE AddObject
  BY <1>0, <1>1, AddRecords DEF AddObject, RegistryInv
<1>2. CASE \E n \in service_names : StartScan(n)
  BY <1>2 DEF StartScan
<1>3. CASE UNCHANGED <<svc, object_paths>>
  BY <1>3
<1> QED
  BY <1>1, <1>2, <1>3 DEF Next, Environment, ServiceChanges, Stop, UpdateThread, WakeUp, ListServicesOk,
     ListServicesFails, SkipService, EndUpdate, IntrospectOk, IntrospectFails, ParseInterface, scan, vars

\* What is touched that way only a held reference sees.
LEMMA TouchesHolders ==
    ASSUME RegistryInv, TypeOKWeb, RegistryStep, NEW w \in Workers, touched'[w], ~touched[w]
    PROVE  /\ Holds(w)
           /\ req[w].op = "service" => req[w].service = svc
<1>0. req[w].service # None
  BY RequestsAssumption, NamesAssumption DEF TypeOKWeb
<1>1. CASE Rewrite
  <2>1. PICK i \in Interfaces : touched' = [x \in Workers |-> touched[x] \/ Points(x, None, i)]
    BY <1>1 DEF Rewrite
  <2> QED
    BY <1>0, <2>1 DEF Points
<1>2. CASE Insert
  BY <1>2 DEF Insert, Points
<1>3. CASE Unseen
  BY <1>3 DEF Unseen
<1> QED
  BY <1>1, <1>2, <1>3 DEF RegistryStep

\* Origin is kept: the node in hand belongs to a service that declares what it
\* names, and only what it names is written.
LEMMA OriginKept ==
    ASSUME RegistryInv, Origin, [Next]_vars
    PROVE  Origin'
<1>1. \A i : Declarers(i)' = Declarers(i)
  BY DEF Declarers, match_prefix
<1>2. CASE IntrospectOk
  <2>1. svc \in Names \ UniqueNames /\ match_prefix(svc) /\ Head(pending) \in Paths
    <3>1. pc = "introspect" /\ svc # None /\ pending # <<>>
      BY <1>2 DEF IntrospectOk, RegistryInv, Shape, Scanning
    <3>2. match_prefix(svc) /\ svc \notin UniqueNames
      BY <3>1 DEF RegistryInv, Shape, Scanning
    <3>3. svc \in Names /\ pending \in Seq(Paths)
      BY <3>1 DEF RegistryInv, TypeOK
    <3> QED
      BY <3>1, <3>2, <3>3
  <2>2. \A i \in Implements[svc][Head(pending)] : svc \in Declarers(i)
    BY <2>1, Zenon DEF Declarers
  <2>3. unparsed' = Implements[svc][Head(pending)] /\ svc' = svc /\ interfaces' = interfaces
    BY <1>2 DEF IntrospectOk
  <2> QED
    BY <1>1, <2>2, <2>3 DEF Origin
<1>3. CASE \E i \in Interfaces : ParseInterface(i)
  <2> PICK i \in Interfaces : ParseInterface(i)
    BY <1>3
  <2>1. i \in unparsed /\ unparsed' = unparsed \ {i} /\ svc' = svc
        /\ interfaces' = [interfaces EXCEPT ![i] = DefOf[svc][i]]
    BY DEF ParseInterface
  <2>2. svc \in Declarers(i)
    BY <2>1 DEF Origin
  <2>3. \A k \in Interfaces : interfaces'[k] = IF k = i THEN DefOf[svc][i] ELSE interfaces[k]
    BY <2>1 DEF RegistryInv, TypeOK
  <2> QED
    BY <1>1, <2>1, <2>2, <2>3, Zenon DEF Origin
<1>4. CASE unparsed' = {} /\ interfaces' = interfaces
  BY <1>1, <1>4 DEF Origin
<1>5. CASE UNCHANGED <<unparsed, svc, interfaces>>
  BY <1>1, <1>5 DEF Origin
<1>6. CASE AddObject
  <2>1. unparsed' = {} /\ interfaces' = interfaces
    BY <1>6 DEF AddObject
  <2> QED
    BY <1>4, <2>1
<1>7. CASE \E s \in service_names : StartScan(s)
  <2>1. pc # "parse" /\ unparsed' = unparsed /\ interfaces' = interfaces
    BY <1>7 DEF StartScan
  <2> QED
    BY <1>4, <2>1 DEF RegistryInv, Shape
<1>8. CASE IntrospectFails
  BY <1>4, <1>8 DEF IntrospectFails
<1> QED
  BY <1>2, <1>3, <1>5, <1>6, <1>7, <1>8 DEF Next, Environment, ServiceChanges, Stop, UpdateThread, WakeUp,
     ListServicesOk, ListServicesFails, SkipService, EndUpdate, scan, vars

\* What no scan can write to any more is not written to.
LEMMA SettledStays ==
    ASSUME RegistryInv, Origin, [Next]_vars, NEW i \in Interfaces, Settled(i)
    PROVE  Settled(i)' /\ interfaces'[i] = interfaces[i] /\ ~ParseInterface(i)
<1>1. Declarers(i)' = Declarers(i) /\ Declarers(i) \subseteq Names
  BY DEF Declarers, match_prefix
<1>2. i \notin unparsed
  BY DEF Origin, Settled
<1>3. ~ParseInterface(i)
  BY <1>2 DEF ParseInterface
<1>4. ASSUME NEW s \in Declarers(i) PROVE contains_service(s)' /\ svc' # s
  <2>1. s \in Names /\ contains_service(s) /\ svc # s
    BY <1>1 DEF Settled
  <2> QED
    BY <2>1, ScanIsOver DEF contains_service
<1>5. interfaces'[i] = interfaces[i]
  <2>1. CASE \E k \in Interfaces : ParseInterface(k)
    <3> PICK k \in Interfaces : ParseInterface(k)
      BY <2>1
    <3>1. k # i
      BY <1>3
    <3>2. interfaces' = [interfaces EXCEPT ![k] = DefOf[svc][k]]
      BY DEF ParseInterface
    <3> QED
      BY <3>1, <3>2 DEF RegistryInv, TypeOK
  <2>2. CASE UNCHANGED interfaces
    BY <2>2
  <2> QED
    BY <2>1, <2>2 DEF Next, Environment, ServiceChanges, Stop, UpdateThread, WakeUp, ListServicesOk,
       ListServicesFails, SkipService, StartScan, EndUpdate, IntrospectOk, IntrospectFails, AddObject, vars
<1> QED
  BY <1>1, <1>3, <1>4, <1>5 DEF Settled

\* A call is disturbed by the parse of its interface only.
LEMMA TouchesCalls ==
    ASSUME TypeOKWeb, RegistryStep, NEW w \in Workers, touched'[w], ~touched[w], req[w].op = "call"
    PROVE  ParseInterface(req[w].interface)
<1>0. req[w].interface # None
  BY RequestsAssumption DEF TypeOKWeb
<1>1. CASE Rewrite
  <2>1. PICK i \in Interfaces : /\ ParseInterface(i)
                                /\ touched' = [x \in Workers |-> touched[x] \/ Points(x, None, i)]
    BY <1>1 DEF Rewrite
  <2> QED
    BY <2>1 DEF Points
<1>2. CASE Insert
  BY <1>0, <1>2 DEF Insert, Points
<1>3. CASE Unseen
  BY <1>3 DEF Unseen
<1> QED
  BY <1>1, <1>2, <1>3 DEF RegistryStep

LEMMA UpdateKeeps ==
    ASSUME IInv, RegistryStep, RegistryInv', NEW w \in Workers
    PROVE  Fresh(w)' /\ Checked(w)' /\ Learned(w)' /\ Honest(w)' /\ Quiet(w)' /\ Sealed(w)' /\ SettledCall(w)'
<1>0. [Next]_vars
  BY RegistryStepsAreSteps
<1>1. /\ UNCHANGED <<at, req, status, listing, names, paths, lookup, filled, decoded, message, sealed, known>>
      /\ RegistryInv /\ Origin /\ TypeOKWeb
      /\ Fresh(w) /\ Checked(w) /\ Learned(w) /\ Honest(w) /\ Quiet(w) /\ Sealed(w) /\ SettledCall(w)
  BY DEF RegistryStep, html, call, IInv, HandlersInv
<1>2. req[w].service \in Names /\ req[w].interface \in Interfaces
  BY <1>1, RequestsAssumption DEF TypeOKWeb
<1>3. Fresh(w)' /\ Honest(w)'
  BY <1>1 DEF Fresh, Honest
<1>4. Checked(w)'
  <2>1. \A x \in paths[w] : x[1] \in Names
    BY <1>1 DEF TypeOKWeb
  <2> QED
    BY <1>0, <1>1, <1>2, <2>1, Grows, ZenonT(60) DEF Checked, contains_interface, contains_service, Recorded
<1>5. Learned(w)'
  BY <1>0, <1>1, Grows DEF Learned, contains_interface, contains_service
<1>6. Quiet(w)'
  BY <1>1, RewritesTouch DEF Quiet, Holds
<1>7. Sealed(w)'
  <2> SUFFICES ASSUME req[w].op = "service", sealed[w], at[w] = "read" \/ status[w] = 200
               PROVE  /\ ~touched'[w]
                      /\ svc' # req[w].service
                      /\ contains_service(req[w].service)'
                      /\ status[w] = 200 => listing[w] = object_paths'[req[w].service]
    BY <1>1 DEF Sealed, contains_service
  <2>1. /\ ~touched[w] /\ svc # req[w].service /\ contains_service(req[w].service)
        /\ status[w] = 200 => listing[w] = object_paths[req[w].service]
    BY <1>1 DEF Sealed
  <2> QED
    BY <1>0, <1>1, <1>2, <2>1, ScanIsOver, TouchesHolders DEF contains_service
<1>8. SettledCall(w)'
  <2> DEFINE i == req[w].interface
  <2> SUFFICES ASSUME req[w].op = "call", sealed[w], at[w] \in {"fill", "send", "wait", "decode"} \/ status[w] = 200
               PROVE  /\ ~touched'[w]
                      /\ Settled(i)' /\ interfaces'[i] # None
                      /\ status[w] = 200 => \A d \in {lookup[w], filled[w], decoded[w]} : d = interfaces'[i]
    BY <1>1 DEF SettledCall, Settled, Declarers, match_prefix
  <2>1. /\ ~touched[w] /\ Settled(i) /\ interfaces[i] # None
        /\ status[w] = 200 => \A d \in {lookup[w], filled[w], decoded[w]} : d = interfaces[i]
    BY <1>1 DEF SettledCall
  <2>2. Settled(i)' /\ interfaces'[i] = interfaces[i] /\ ~ParseInterface(i)
    BY <1>0, <1>1, <1>2, <2>1, SettledStays
  <2>3. ~touched'[w]
    BY <1>1, <2>1, <2>2, TouchesCalls
  <2> QED
    BY <2>1, <2>2, <2>3
<1> QED
  BY <1>3, <1>4, <1>5, <1>6, <1>7, <1>8

-----------------------------------------------------------------------------
(* A step of the worker itself *)

LEMMA FreshKept ==
    ASSUME TypeOKWeb, NEW v \in Workers, Fresh(v), WorkerStep(v)
    PROVE  Fresh(v)'
<1> USE DEF TypeOKWeb, Fresh, Answer, Goto, Serving
<1>1. CASE ListServices(v)
  BY <1>1 DEF ListServices
<1>2. CASE CheckInterface(v)
  BY <1>2 DEF CheckInterface
<1>3. CASE FetchInterface(v)
  BY <1>3 DEF FetchInterface
<1>4. CASE CheckService(v)
  BY <1>4 DEF CheckService
<1>5. CASE FetchService(v)
  BY <1>5 DEF FetchService
<1>6. CASE ReadListing(v)
  BY <1>6 DEF ReadListing
<1>7. CASE HtmlNames(v)
  BY <1>7 DEF HtmlNames
<1>8. CASE HtmlPaths(v)
  BY <1>8 DEF HtmlPaths
<1>9. CASE HtmlObject(v)
  BY <1>9, ZenonT(60) DEF HtmlObject
<1>10. CASE Reject(v)
  BY <1>10 DEF Reject
<1>11. CASE LookupMethod(v)
  BY <1>11 DEF LookupMethod
<1>12. CASE FillMessage(v)
  BY <1>12 DEF FillMessage
<1>13. CASE Send(v)
  BY <1>13 DEF Send
<1>14. CASE GetReply(v)
  BY <1>14 DEF GetReply
<1>15. CASE CallFails(v)
  BY <1>15 DEF CallFails
<1>16. CASE Decode(v)
  BY <1>16 DEF Decode
<1>17. CASE SampleRequest(v)
  BY <1>17 DEF SampleRequest
<1>18. CASE ShowSignature(v)
  BY <1>18 DEF ShowSignature
<1>19. CASE \E r \in Requests : Request(v, r)
  BY <1>19 DEF Request
<1>20. CASE Execute(v)
  BY <1>20 DEF Execute
<1>21. CASE Crash(v)
  BY <1>21 DEF Crash
<1> QED
  BY <1>1, <1>2, <1>3, <1>4, <1>5, <1>6, <1>7, <1>8, <1>9, <1>10, <1>11, <1>12, <1>13, <1>14, <1>15,
     <1>16, <1>17, <1>18, <1>19, <1>20, <1>21 DEF WorkerStep, Handler

LEMMA HonestKept ==
    ASSUME TypeOKWeb, NEW v \in Workers, Fresh(v), Honest(v), WorkerStep(v)
    PROVE  Honest(v)'
<1> USE RequestsAssumption DEF TypeOKWeb, Fresh, Honest, Answer, Goto, Serving, call
<1>1. CASE ListServices(v)
  BY <1>1 DEF ListServices
<1>2. CASE CheckInterface(v)
  BY <1>2 DEF CheckInterface
<1>3. CASE FetchInterface(v)
  BY <1>3 DEF FetchInterface
<1>4. CASE CheckService(v)
  BY <1>4 DEF CheckService
<1>5. CASE FetchService(v)
  BY <1>5 DEF FetchService
<1>6. CASE ReadListing(v)
  BY <1>6 DEF ReadListing
<1>7. CASE HtmlNames(v)
  BY <1>7 DEF HtmlNames
<1>8. CASE HtmlPaths(v)
  BY <1>8 DEF HtmlPaths
<1>9. CASE HtmlObject(v)
  BY <1>9 DEF HtmlObject
<1>10. CASE Reject(v)
  BY <1>10 DEF Reject
<1>11. CASE LookupMethod(v)
  BY <1>11 DEF LookupMethod
<1>12. CASE FillMessage(v)
  BY <1>12 DEF FillMessage
<1>13. CASE Send(v)
  BY <1>13 DEF Send
<1>14. CASE GetReply(v)
  BY <1>14 DEF GetReply
<1>15. CASE CallFails(v)
  BY <1>15 DEF CallFails
<1>16. CASE Decode(v)
  BY <1>16 DEF Decode
<1>17. CASE SampleRequest(v)
  BY <1>17 DEF SampleRequest
<1>18. CASE ShowSignature(v)
  BY <1>18 DEF ShowSignature
<1>19. CASE \E r \in Requests : Request(v, r)
  BY <1>19 DEF Request
<1>20. CASE Execute(v)
  BY <1>20 DEF Execute
<1>21. CASE Crash(v)
  BY <1>21 DEF Crash
<1> QED
  BY <1>1, <1>2, <1>3, <1>4, <1>5, <1>6, <1>7, <1>8, <1>9, <1>10, <1>11, <1>12, <1>13, <1>14, <1>15,
     <1>16, <1>17, <1>18, <1>19, <1>20, <1>21 DEF WorkerStep, Handler

LEMMA QuietKept ==
    ASSUME TypeOKWeb, NEW v \in Workers, Fresh(v), Quiet(v), WorkerStep(v)
    PROVE  Quiet(v)'
<1> USE DEF TypeOKWeb, Fresh, Quiet, Answer, Goto, Serving, call, Finds
<1>0. interfaces' = interfaces
  BY WorkersOnlyRead DEF registry
<1> USE <1>0, RequestsAssumption
<1>1. CASE ListServices(v)
  BY <1>1 DEF ListServices
<1>2. CASE CheckInterface(v)
  BY <1>2 DEF CheckInterface
<1>3. CASE FetchInterface(v)
  BY <1>3 DEF FetchInterface
<1>4. CASE CheckService(v)
  BY <1>4 DEF CheckService
<1>5. CASE FetchService(v)
  BY <1>5 DEF FetchService
<1>6. CASE ReadListing(v)
  BY <1>6 DEF ReadListing
<1>7. CASE HtmlNames(v)
  BY <1>7 DEF HtmlNames
<1>8. CASE HtmlPaths(v)
  BY <1>8 DEF HtmlPaths
<1>9. CASE HtmlObject(v)
  BY <1>9 DEF HtmlObject
<1>10. CASE Reject(v)
  BY <1>10 DEF Reject
<1>11. CASE LookupMethod(v)
  BY <1>11 DEF LookupMethod
<1>12. CASE FillMessage(v)
  BY <1>12 DEF FillMessage
<1>13. CASE Send(v)
  BY <1>13 DEF Send
<1>14. CASE GetReply(v)
  BY <1>14 DEF GetReply
<1>15. CASE CallFails(v)
  BY <1>15 DEF CallFails
<1>16. CASE Decode(v)
  BY <1>16 DEF Decode
<1>17. CASE SampleRequest(v)
  BY <1>17 DEF SampleRequest
<1>18. CASE ShowSignature(v)
  BY <1>18 DEF ShowSignature
<1>19. CASE \E r \in Requests : Request(v, r)
  BY <1>19 DEF Request
<1>20. CASE Execute(v)
  BY <1>20 DEF Execute
<1>21. CASE Crash(v)
  BY <1>21 DEF Crash
<1> QED
  BY <1>1, <1>2, <1>3, <1>4, <1>5, <1>6, <1>7, <1>8, <1>9, <1>10, <1>11, <1>12, <1>13, <1>14, <1>15,
     <1>16, <1>17, <1>18, <1>19, <1>20, <1>21 DEF WorkerStep, Handler

LEMMA SealedKept ==
    ASSUME TypeOKWeb, NEW v \in Workers, Fresh(v), Sealed(v), WorkerStep(v)
    PROVE  Sealed(v)'
<1> USE DEF TypeOKWeb, Fresh, Sealed, Answer, Goto, Serving, contains_service
<1>0. svc' = svc /\ object_paths' = object_paths
  BY WorkersOnlyRead DEF registry
<1> USE <1>0, RequestsAssumption
<1>1. CASE ListServices(v)
  BY <1>1 DEF ListServices
<1>2. CASE CheckInterface(v)
  BY <1>2 DEF CheckInterface
<1>3. CASE FetchInterface(v)
  BY <1>3 DEF FetchInterface
<1>4. CASE CheckService(v)
  BY <1>4 DEF CheckService
<1>5. CASE FetchService(v)
  <2>1. req' = req /\ (sealed'[v] => svc # req[v].service) /\ ~touched'[v]
    <3>1. req' = req /\ sealed'[v] = (svc # req[v].service) /\ touched'[v] = FALSE
      BY <1>5 DEF FetchService
    <3> QED
      BY <3>1, Zenon
  <2>2. status[v] = None
    BY <1>5 DEF FetchService
  <2>3. \/ contains_service(req[v].service) /\ status' = status
        \/ at'[v] = "idle" /\ status'[v] = 500
    BY <1>5 DEF FetchService
  <2> QED
    BY <2>1, <2>2, <2>3
<1>6. CASE ReadListing(v)
  <2>1. /\ at[v] = "read" /\ req' = req /\ sealed' = sealed /\ touched' = touched
        /\ at'[v] = "idle" /\ status'[v] = 200
    BY <1>6 DEF ReadListing
  <2>2. ~touched[v] => listing'[v] = object_paths[req[v].service]
    BY <1>6 DEF ReadListing
  <2> QED
    BY <2>1, <2>2
<1>7. CASE HtmlNames(v)
  BY <1>7 DEF HtmlNames
<1>8. CASE HtmlPaths(v)
  BY <1>8 DEF HtmlPaths
<1>9. CASE HtmlObject(v)
  BY <1>9 DEF HtmlObject
<1>10. CASE Reject(v)
  BY <1>10 DEF Reject
<1>11. CASE LookupMethod(v)
  BY <1>11 DEF LookupMethod
<1>12. CASE FillMessage(v)
  BY <1>12 DEF FillMessage
<1>13. CASE Send(v)
  BY <1>13 DEF Send
<1>14. CASE GetReply(v)
  BY <1>14 DEF GetReply
<1>15. CASE CallFails(v)
  BY <1>15 DEF CallFails
<1>16. CASE Decode(v)
  BY <1>16 DEF Decode
<1>17. CASE SampleRequest(v)
  BY <1>17 DEF SampleRequest
<1>18. CASE ShowSignature(v)
  BY <1>18 DEF ShowSignature
<1>19. CASE \E r \in Requests : Request(v, r)
  BY <1>19 DEF Request
<1>20. CASE Execute(v)
  BY <1>20 DEF Execute
<1>21. CASE Crash(v)
  BY <1>21 DEF Crash
<1> QED
  BY <1>1, <1>2, <1>3, <1>4, <1>5, <1>6, <1>7, <1>8, <1>9, <1>10, <1>11, <1>12, <1>13, <1>14, <1>15,
     <1>16, <1>17, <1>18, <1>19, <1>20, <1>21 DEF WorkerStep, Handler

\* Under the hand of its worker, a call that began settled stays so.
LEMMA SettledCallKept ==
    ASSUME TypeOKWeb, NEW v \in Workers, Fresh(v), Quiet(v), SettledCall(v), WorkerStep(v)
    PROVE  SettledCall(v)'
<1> USE DEF TypeOKWeb, Fresh, SettledCall, Answer, Goto, Serving, call
<1>0. UNCHANGED registry
  BY WorkersOnlyRead
<1>00. interfaces' = interfaces /\ \A i : Settled(i)' <=> Settled(i)
  BY <1>0 DEF registry, Settled, Declarers, contains_service, match_prefix
<1> USE <1>00, RequestsAssumption
<1>1. CASE ListServices(v)
  BY <1>1 DEF ListServices
<1>2. CASE CheckInterface(v)
  BY <1>2 DEF CheckInterface
<1>3. CASE FetchInterface(v)
  BY <1>3 DEF FetchInterface
<1>4. CASE CheckService(v)
  BY <1>4 DEF CheckService
<1>5. CASE FetchService(v)
  BY <1>5 DEF FetchService
<1>6. CASE ReadListing(v)
  BY <1>6 DEF ReadListing
<1>7. CASE HtmlNames(v)
  BY <1>7 DEF HtmlNames
<1>8. CASE HtmlPaths(v)
  BY <1>8 DEF HtmlPaths
<1>9. CASE HtmlObject(v)
  BY <1>9 DEF HtmlObject
<1>10. CASE Reject(v)
  BY <1>10 DEF Reject
<1>11. CASE LookupMethod(v)
  <2>1. at[v] = "route" /\ req' = req /\ status[v] = None
    BY <1>11 DEF LookupMethod
  <2>2. CASE /\ Finds(v)
             /\ touched' = [touched EXCEPT ![v] = FALSE]
             /\ sealed' = [sealed EXCEPT ![v] = Settled(req[v].interface)]
             /\ status' = status
    <3> DEFINE over == Settled(req[v].interface)
    <3>0. sealed' = [sealed EXCEPT ![v] = over] /\ touched' = [touched EXCEPT ![v] = FALSE]
      BY <2>2
    <3> HIDE DEF over
    <3>1. touched'[v] = FALSE /\ sealed'[v] = over /\ status'[v] = None
      BY <2>1, <2>2, <3>0
    <3>2. interfaces[req[v].interface] # None
      BY <2>2, Zenon DEF Finds, contains_interface
    <3> QED
      BY <2>1, <3>1, <3>2 DEF over
  <2>3. CASE Answer(v, 500)
    <3>1. status'[v] = 500 /\ at'[v] = "idle"
      BY <2>3
    <3> QED
      BY <3>1
  <2> QED
    BY <1>11, <2>2, <2>3, Zenon DEF LookupMethod
<1>12. CASE FillMessage(v)
  BY <1>12 DEF FillMessage
<1>13. CASE Send(v)
  BY <1>13 DEF Send
<1>14. CASE GetReply(v)
  BY <1>14 DEF GetReply
<1>15. CASE CallFails(v)
  BY <1>15 DEF CallFails
<1>16. CASE Decode(v)
  <2>1. /\ at[v] = "decode" /\ req[v].op = "call" /\ at'[v] = "idle" /\ status[v] = None
        /\ UNCHANGED <<req, lookup, filled, touched, sealed>>
    BY <1>16 DEF Decode
  <2>2. status'[v] = 200 /\ ~touched[v] => decoded'[v] = lookup[v]
    BY <1>16 DEF Decode
  <2>3. sealed[v] => /\ ~touched[v] /\ Settled(req[v].interface) /\ interfaces[req[v].interface] # None
                     /\ lookup[v] = interfaces[req[v].interface] /\ filled[v] = lookup[v]
    BY <2>1 DEF Quiet
  <2> QED
    BY <2>1, <2>2, <2>3
<1>17. CASE SampleRequest(v)
  BY <1>17 DEF SampleRequest
<1>18. CASE ShowSignature(v)
  BY <1>18 DEF ShowSignature
<1>19. CASE \E r \in Requests : Request(v, r)
  BY <1>19 DEF Request
<1>20. CASE Execute(v)
  BY <1>20 DEF Execute
<1>21. CASE Crash(v)
  BY <1>21 DEF Crash
<1> QED
  BY <1>1, <1>2, <1>3, <1>4, <1>5, <1>6, <1>7, <1>8, <1>9, <1>10, <1>11, <1>12, <1>13, <1>14, <1>15,
     <1>16, <1>17, <1>18, <1>19, <1>20, <1>21 DEF WorkerStep, Handler

LEMMA CheckedKept ==
    ASSUME TypeOKWeb, NEW v \in Workers, Fresh(v), Checked(v), WorkerStep(v)
    PROVE  Checked(v)'
<1> USE DEF TypeOKWeb, Fresh, Checked, Answer, Goto, Serving, contains_service, contains_interface, html, Recorded
<1>0. interfaces' = interfaces /\ object_paths' = object_paths
  BY WorkersOnlyRead DEF registry
<1> USE <1>0, RequestsAssumption
<1>1. CASE ListServices(v)
  BY <1>1 DEF ListServices
<1>2. CASE CheckInterface(v)
  BY <1>2 DEF CheckInterface
<1>3. CASE FetchInterface(v)
  BY <1>3 DEF FetchInterface
<1>4. CASE CheckService(v)
  BY <1>4 DEF CheckService
<1>5. CASE FetchService(v)
  BY <1>5 DEF FetchService
<1>6. CASE ReadListing(v)
  BY <1>6 DEF ReadListing
<1>7. CASE HtmlNames(v)
  BY <1>7 DEF HtmlNames
<1>8. CASE HtmlPaths(v)
  <2>1. CASE UNCHANGED html /\ Answer(v, 200)
    BY <1>8, <2>1 DEF HtmlPaths
  <2>2. CASE ~(UNCHANGED html /\ Answer(v, 200))
    <3>1. PICK s \in names[v] : paths' = [paths EXCEPT ![v] = {s} \X Recorded(s)]
      BY <1>8, <2>2, SMTT(40) DEF HtmlPaths
    <3>2. \A x \in paths'[v] : x[2] \in Recorded(x[1])
      BY <3>1
    <3>3. req' = req /\ status' = status /\ at'[v] = "html_object"
      BY <1>8, <2>2 DEF HtmlPaths
    <3> QED
      BY <3>2, <3>3
  <2> QED
    BY <2>1, <2>2
<1>9. CASE HtmlObject(v)
  <2>1. req' = req /\ req[v].op = "html"
    BY <1>9 DEF HtmlObject
  <2>2. paths' = paths \/ \E x \in paths[v] : paths' = [paths EXCEPT ![v] = @ \ {x}]
    BY <1>9, ZenonT(60) DEF HtmlObject
  <2>3. status' = status
    BY <1>9, ZenonT(60) DEF HtmlObject
  <2> QED
    BY <2>1, <2>2, <2>3
<1>10. CASE Reject(v)
  BY <1>10 DEF Reject
<1>11. CASE LookupMethod(v)
  BY <1>11 DEF LookupMethod
<1>12. CASE FillMessage(v)
  BY <1>12 DEF FillMessage
<1>13. CASE Send(v)
  BY <1>13 DEF Send
<1>14. CASE GetReply(v)
  BY <1>14 DEF GetReply
<1>15. CASE CallFails(v)
  BY <1>15 DEF CallFails
<1>16. CASE Decode(v)
  BY <1>16 DEF Decode
<1>17. CASE SampleRequest(v)
  BY <1>17 DEF SampleRequest
<1>18. CASE ShowSignature(v)
  BY <1>18 DEF ShowSignature
<1>19. CASE \E r \in Requests : Request(v, r)
  BY <1>19 DEF Request
<1>20. CASE Execute(v)
  BY <1>20 DEF Execute
<1>21. CASE Crash(v)
  BY <1>21 DEF Crash
<1> QED
  BY <1>1, <1>2, <1>3, <1>4, <1>5, <1>6, <1>7, <1>8, <1>9, <1>10, <1>11, <1>12, <1>13, <1>14, <1>15,
     <1>16, <1>17, <1>18, <1>19, <1>20, <1>21 DEF WorkerStep, Handler

\* Where nothing is learned, a 404 must be for what was never there.
LEMMA LearnedStays ==
    ASSUME TypeOKWeb, NEW v \in Workers, Learned(v), UNCHANGED <<known, req, interfaces, object_paths>>,
           \/ status'[v] # 404
           \/ status'[v] = status[v]
           \/ req[v].op = "service" /\ ~contains_service(req[v].service)
           \/ req[v].op = "interface" /\ ~contains_interface(req[v].interface)
    PROVE  Learned(v)'
<1>1. req[v].service \in Names /\ req[v].interface \in Interfaces
  BY RequestsAssumption DEF TypeOKWeb
<1> QED
  BY <1>1 DEF Learned, contains_service, contains_interface

\* What is learned must be there; then there is no 404.
LEMMA LearnedGrows ==
    ASSUME NEW v \in Workers, Learned(v), UNCHANGED <<req, interfaces, object_paths>>,
           status'[v] # 404 \/ req[v].op = "html",
           \A s \in Names :
               <<"service", s>> \in known'[v] => <<"service", s>> \in known[v] \/ contains_service(s),
           \A i \in Interfaces :
               <<"interface", i>> \in known'[v] => <<"interface", i>> \in known[v] \/ contains_interface(i)
    PROVE  Learned(v)'
  BY DEF Learned, contains_service, contains_interface

LEMMA LearnedKept ==
    ASSUME TypeOK, Described, TypeOKWeb, NEW v \in Workers, Learned(v), WorkerStep(v)
    PROVE  Learned(v)'
<1> USE DEF TypeOKWeb, Answer, Goto
<1>0. interfaces' = interfaces /\ object_paths' = object_paths
  BY WorkersOnlyRead DEF registry
<1>1. CASE ListServices(v)
  <2> DEFINE S == {s \in Names : contains_service(s)}
  <2>1. req' = req /\ status'[v] # 404
    BY <1>1 DEF ListServices
  <2>2. known'[v] = known[v] \cup ({"service"} \X S)
    BY <1>1 DEF ListServices, Learn
  <2>3. /\ \A s : <<"service", s>> \in known'[v] => <<"service", s>> \in known[v] \/ s \in S
        /\ \A i : <<"interface", i>> \in known'[v] => <<"interface", i>> \in known[v]
    BY <2>2
  <2> QED
    BY <1>0, <2>1, <2>2, <2>3, LearnedGrows
<1>2. CASE ReadListing(v)
  <2> DEFINE now == object_paths[req[v].service]
  <2>1. req' = req /\ status'[v] # 404
    BY <1>2 DEF ReadListing
  <2>2. PICK S \in SUBSET (now \cup {[e EXCEPT !.interfaces = {}] : e \in now}) :
           Learn(v, "interface", UNION {e.interfaces : e \in S})
    BY <1>2 DEF ReadListing
  <2>3. req[v].service \in Names
    BY RequestsAssumption
  <2>4. now \in SUBSET Entry /\ \A e \in now : \A i \in e.interfaces : contains_interface(i)
    BY <2>3 DEF Described, TypeOK
  <2>5. \A e \in S : e.interfaces \subseteq Interfaces /\ \A i \in e.interfaces : contains_interface(i)
    BY <2>2, <2>4 DEF Entry
  <2> DEFINE I == UNION {e.interfaces : e \in S}
  <2>6. I \in SUBSET Interfaces /\ \A i \in I : contains_interface(i)
    BY <2>5
  <2>7. known' = [known EXCEPT ![v] = @ \cup {"interface"} \X I]
    BY <2>2 DEF Learn
  <2> HIDE DEF I
  <2>8. /\ \A i : <<"interface", i>> \in known'[v] => <<"interface", i>> \in known[v] \/ i \in I
        /\ \A s : <<"service", s>> \in known'[v] => <<"service", s>> \in known[v]
    BY <2>7
  <2> QED
    BY <1>0, <2>1, <2>6, <2>8, LearnedGrows
<1>3. CASE HtmlObject(v)
  <2>0. req' = req
    BY <1>3 DEF HtmlObject
  <2>1. CASE paths[v] = {} /\ UNCHANGED <<status, known>>
    BY <1>0, <2>0, <2>1, LearnedStays
  <2>2. CASE \E x \in paths[v] : Answer(v, 500) /\ UNCHANGED known
    <3>1. status'[v] # 404 /\ UNCHANGED known
      BY <2>2
    <3> QED
      BY <1>0, <2>0, <3>1, LearnedStays
  <2>3. CASE \E x \in paths[v] :
           /\ Learn(v, "interface", UNION {e.interfaces : e \in {y \in object_paths[x[1]] : y.path = x[2]}})
           /\ UNCHANGED <<at, status, names>>
    <3>1. PICK x \in paths[v] :
             /\ Learn(v, "interface", UNION {e.interfaces : e \in {y \in object_paths[x[1]] : y.path = x[2]}})
             /\ UNCHANGED <<at, status, names>>
      BY <2>3
    <3> DEFINE I == UNION {e.interfaces : e \in {y \in object_paths[x[1]] : y.path = x[2]}}
    <3>2. x[1] \in Names
      OBVIOUS
    <3>3. I \in SUBSET Interfaces /\ \A i \in I : contains_interface(i)
      BY <3>2, RecordedAreWords DEF Described
    <3>4. known' = [known EXCEPT ![v] = @ \cup {"interface"} \X I]
      BY <3>1 DEF Learn
    <3>5. req[v].op = "html"
      BY <1>3 DEF HtmlObject, Serving
    <3> HIDE DEF I
    <3>6. /\ \A i : <<"interface", i>> \in known'[v] => <<"interface", i>> \in known[v] \/ i \in I
          /\ \A s : <<"service", s>> \in known'[v] => <<"service", s>> \in known[v]
      BY <3>4
    <3> QED
      BY <1>0, <2>0, <3>3, <3>5, <3>6, LearnedGrows
  <2> QED
    BY <1>3, <2>1, <2>2, <2>3, ZenonT(60) DEF HtmlObject, html
<1>4. CASE CheckInterface(v)
  <2>1. UNCHANGED <<known, req>>
    BY <1>4 DEF CheckInterface
  <2>2. status'[v] = status[v] \/ (req[v].op = "interface" /\ ~contains_interface(req[v].interface))
    BY <1>4 DEF CheckInterface, Serving
  <2> QED
    BY <1>0, <2>1, <2>2, LearnedStays
<1>5. CASE CheckService(v)
  <2>1. UNCHANGED <<known, req>>
    BY <1>5 DEF CheckService
  <2>2. status'[v] = status[v] \/ (req[v].op = "service" /\ ~contains_service(req[v].service))
    BY <1>5 DEF CheckService, Serving
  <2> QED
    BY <1>0, <2>1, <2>2, LearnedStays
<1>6. CASE \E r \in Requests : Request(v, r)
  <2>1. status'[v] # 404 /\ UNCHANGED known
    BY <1>6, RequestsAssumption DEF Request
  <2> QED
    BY <1>0, <2>1 DEF Learned, contains_service, contains_interface
<1>7. CASE FetchInterface(v) \/ FetchService(v) \/ Reject(v) \/ CallFails(v) \/ ShowSignature(v)
  <2>1. UNCHANGED <<known, req>>
    BY <1>7 DEF FetchInterface, FetchService, Reject, CallFails, ShowSignature
  <2>2. status'[v] = status[v] \/ status'[v] # 404
    BY <1>7 DEF FetchInterface, FetchService, Reject, CallFails, ShowSignature
  <2> QED
    BY <1>0, <2>1, <2>2, LearnedStays
<1>8. CASE HtmlNames(v) \/ HtmlPaths(v) \/ Send(v) \/ GetReply(v) \/ Execute(v) \/ Crash(v)
  <2>1. UNCHANGED <<known, req>>
    BY <1>8 DEF HtmlNames, HtmlPaths, Send, GetReply, Execute, Crash
  <2>2. status'[v] = status[v] \/ status'[v] # 404
    BY <1>8 DEF HtmlNames, HtmlPaths, Send, GetReply, Execute, Crash
  <2> QED
    BY <1>0, <2>1, <2>2, LearnedStays
<1>9. CASE LookupMethod(v) \/ FillMessage(v) \/ Decode(v) \/ SampleRequest(v)
  <2>1. UNCHANGED <<known, req>>
    BY <1>9 DEF LookupMethod, FillMessage, Decode, SampleRequest
  <2>2. status'[v] = status[v] \/ status'[v] # 404
    BY <1>9 DEF LookupMethod, FillMessage, Decode, SampleRequest
  <2> QED
    BY <1>0, <2>1, <2>2, LearnedStays
<1> QED
  BY <1>1, <1>2, <1>3, <1>4, <1>5, <1>6, <1>7, <1>8, <1>9 DEF WorkerStep, Handler

-----------------------------------------------------------------------------
(* The composition *)

LEMMA InitiallyIInv == WebInit => IInv
<1> SUFFICES ASSUME WebInit PROVE IInv
  OBVIOUS
<1>1. RegistryInv
  BY TypingInitially, DescribedInitially DEF WebInit, RegistryInv
<1>2. TypeOKWeb
  BY TypingWebInitially
<1>3. HandlersInv
  BY RequestsAssumption DEF WebInit, HandlersInv, Fresh, Checked, Learned, Honest, Quiet, Sealed, SettledCall
<1>4. Origin
  BY DEF WebInit, Init, Origin
<1> QED
  BY <1>1, <1>2, <1>3, <1>4 DEF IInv

\* Every step of the composition is one of the registry or leaves it alone.
LEMMA WebStepsAreSteps == [WebNext]_allvars => [Next]_vars
<1>1. CASE RegistryStep
  BY <1>1, RegistryStepsAreSteps
<1>2. CASE \E v \in Workers : WorkerStep(v)
  BY <1>2, WorkersOnlyRead DEF registry, vars
<1>3. CASE UNCHANGED allvars
  BY <1>3 DEF allvars, registry, vars
<1> QED
  BY <1>1, <1>2, <1>3 DEF WebNext, WorkerStep

LEMMA IInvPreserved == IInv /\ [WebNext]_allvars => IInv'
<1> SUFFICES ASSUME IInv, [WebNext]_allvars PROVE IInv'
  OBVIOUS
<1>1. RegistryInv' /\ Origin'
  <2>1. RegistryInv'
    BY WebStepsAreSteps, TypingPreserved, DescribedPreserved DEF IInv, RegistryInv
  <2>2. Origin'
    BY WebStepsAreSteps, OriginKept DEF IInv
  <2> QED
    BY <2>1, <2>2
<1>2. CASE RegistryStep
  BY <1>1, <1>2, TypingWebKept, UpdateKeeps DEF IInv, HandlersInv
<1>3. CASE \E v \in Workers : WorkerStep(v)
  <2> PICK v \in Workers : WorkerStep(v)
    BY <1>3
  <2>1. TypeOKWeb'
    BY TypingWebPreserved DEF IInv, RegistryInv
  <2>2. ASSUME NEW w \in Workers
        PROVE  Fresh(w)' /\ Checked(w)' /\ Learned(w)' /\ Honest(w)' /\ Quiet(w)' /\ Sealed(w)' /\ SettledCall(w)'
    <3>0. Fresh(w) /\ Checked(w) /\ Learned(w) /\ Honest(w) /\ Quiet(w) /\ Sealed(w) /\ SettledCall(w)
      BY DEF IInv, HandlersInv
    <3>1. CASE w = v
      BY <3>0, <3>1, FreshKept, CheckedKept, LearnedKept, HonestKept, QuietKept, SealedKept, SettledCallKept
         DEF IInv, RegistryInv
    <3>2. CASE w # v
      <4>1. svc' = svc /\ interfaces' = interfaces /\ object_paths' = object_paths
        BY WorkersOnlyRead DEF registry
      <4>2. /\ at'[w] = at[w] /\ req'[w] = req[w] /\ status'[w] = status[w]
            /\ listing'[w] = listing[w] /\ paths'[w] = paths[w] /\ lookup'[w] = lookup[w]
            /\ filled'[w] = filled[w] /\ decoded'[w] = decoded[w] /\ touched'[w] = touched[w]
            /\ sealed'[w] = sealed[w] /\ message'[w] = message[w] /\ known'[w] = known[w]
        BY <3>2, OthersAlone DEF IInv
      <4>3. Fresh(w)' /\ Checked(w)' /\ Learned(w)'
        BY <3>0, <4>1, <4>2 DEF Fresh, Checked, Learned, contains_interface, contains_service, Recorded
      <4>4. Honest(w)' /\ Quiet(w)' /\ Sealed(w)'
        BY <3>0, <4>1, <4>2 DEF Honest, Quiet, Sealed, contains_service
      <4>5. SettledCall(w)'
        <5>1. \A i : Settled(i)' <=> Settled(i)
          BY WorkersOnlyRead DEF registry, Settled, Declarers, contains_service, match_prefix
        <5> QED
          BY <3>0, <4>1, <4>2, <5>1 DEF SettledCall
      <4> QED
        BY <4>3, <4>4, <4>5
    <3> QED
      BY <3>1, <3>2
  <2> QED
    BY <1>1, <2>1, <2>2 DEF IInv, HandlersInv
<1>4. CASE UNCHANGED allvars
  <2>1. UNCHANGED <<svc, interfaces, object_paths, at, req, status, listing, paths, lookup, filled, decoded,
                    touched, sealed, message, known>>
    BY <1>4 DEF allvars, registry, web, html, call
  <2>2. TypeOKWeb'
    BY <1>4 DEF IInv, TypeOKWeb, allvars, web, html, call
  <2>3. HandlersInv'
    <3>1. \A i : Settled(i)' <=> Settled(i)
      BY <2>1 DEF Settled, Declarers, contains_service, match_prefix
    <3>2. ASSUME NEW w \in Workers
          PROVE  /\ Fresh(w)' /\ Checked(w)' /\ Learned(w)' /\ Honest(w)' /\ Quiet(w)' /\ Sealed(w)'
                 /\ SettledCall(w)'
      <4>1. Fresh(w) /\ Checked(w) /\ Learned(w) /\ Honest(w) /\ Quiet(w) /\ Sealed(w) /\ SettledCall(w)
        BY DEF IInv, HandlersInv
      <4>2. Fresh(w)' /\ Checked(w)' /\ Learned(w)'
        BY <2>1, <4>1 DEF Fresh, Checked, Learned, contains_interface, contains_service, Recorded
      <4>3. Honest(w)' /\ Quiet(w)' /\ Sealed(w)' /\ SettledCall(w)'
        BY <2>1, <3>1, <4>1 DEF Honest, Quiet, Sealed, SettledCall, contains_service
      <4> QED
        BY <4>2, <4>3
    <3> QED
      BY <3>2 DEF HandlersInv
  <2> QED
    BY <1>1, <2>2, <2>3 DEF IInv
<1> QED
  BY <1>2, <1>3, <1>4 DEF WebNext, WorkerStep

\* IInv is inductive: it holds in every reachable state of the composition.
THEOREM WebInvariance == WebSpec => []IInv
  BY InitiallyIInv, IInvPreserved, PTL DEF WebSpec

\* The registry behaves beside the handlers as it does without them: what
\* RegistryProofs proves of Spec holds of the composition.
THEOREM HandlersOnlyRead == WebSpec => Spec
  BY WebStepsAreSteps, PTL DEF WebSpec, WebInit, Spec

\* The handlers read what the catalogue promises, whatever they and the update
\* thread do between two of their lookups.
THEOREM PromiseBesideHandlers == WebSpec => CataloguePromise
  BY HandlersOnlyRead, KeepsPromise, PTL

\* Handlers keep their types.
THEOREM TypeCorrectWeb == WebSpec => []TypeOKWeb
  BY WebInvariance, PTL DEF IInv

\* The lookup after a contains_*() does not throw, however the update thread
\* comes between: only a call or a sample is answered 500.
THEOREM CheckedLookupsSucceedAlways == WebSpec => []CheckedLookupsSucceed
<1>1. IInv => CheckedLookupsSucceed
  BY DEF IInv, HandlersInv, Checked, CheckedLookupsSucceed
<1> QED
  BY <1>1, WebInvariance, PTL

\* A name found in one answer is never denied by a later one.
THEOREM FollowUpsSucceedAlways == WebSpec => []FollowUpsSucceed
<1>1. IInv => FollowUpsSucceed
  BY DEF IInv, HandlersInv, Learned, FollowUpsSucceed
<1> QED
  BY <1>1, WebInvariance, PTL

\* The iteration without the lock is safe once the scan of the service is over.
THEOREM SealedListingExactAlways == WebSpec => []SealedListingExact
<1>1. IInv => SealedListingExact
  BY DEF IInv, HandlersInv, Sealed, SealedListingExact
<1> QED
  BY <1>1, WebInvariance, PTL

\* 200 means the service executed the call, 400 that nothing was sent.
THEOREM AnswersTruthfulAlways == WebSpec => []AnswersTruthful
<1>1. IInv => AnswersTruthful
  BY DEF IInv, HandlersInv, Honest, AnswersTruthful
<1> QED
  BY <1>1, WebInvariance, PTL

\* Once the scans that can write to an interface are over, a call converts its
\* arguments and its reply with one definition, that of a service that declares
\* the interface, and no thread rewrites it during the call or after.
THEOREM SettledCallsExactAlways == WebSpec => []SettledCallsExact
<1>1. IInv => SettledCallsExact
  <2> SUFFICES ASSUME IInv, NEW w \in Workers, status[w] = 200, req[w].op = "call", sealed[w]
               PROVE  LET i == req[w].interface
                      IN  /\ ~touched[w]
                          /\ lookup[w] = interfaces[i] /\ filled[w] = interfaces[i] /\ decoded[w] = interfaces[i]
                          /\ \E s \in Declarers(i) : decoded[w] = DefOf[s][i]
                          /\ req[w].method \in Declares[decoded[w]]
    BY DEF SettledCallsExact
  <2> DEFINE i == req[w].interface
  <2>1. /\ ~touched[w] /\ interfaces[i] # None
        /\ \A d \in {lookup[w], filled[w], decoded[w]} : d = interfaces[i]
    BY DEF IInv, HandlersInv, SettledCall
  <2>2. req[w].method \in Declares[decoded[w]]
    BY <2>1 DEF IInv, HandlersInv, Quiet
  <2>3. i \in Interfaces
    BY RequestsAssumption DEF IInv, TypeOKWeb
  <2>4. \E s \in Declarers(i) : interfaces[i] = DefOf[s][i]
    BY <2>1, <2>3 DEF IInv, Origin
  <2> QED
    BY <2>1, <2>2, <2>4
<1> QED
  BY <1>1, WebInvariance, PTL
==============================================================================
