------------------------------ MODULE WebService ------------------------------
(***************************************************************************)
(* The HTTP side of dbus2http: the handlers of WebService, run by a pool   *)
(* of worker threads, DbusCaller::Call(), and the registry they read while *)
(* the update thread of module Registry writes to it.                      *)
(*                                                                         *)
(* One action is the code between two points where the registry can change *)
(* under the handler: each lookup takes the lock anew.  A reference that   *)
(* InterfaceContext returns after it unlocks is held across such a point   *)
(* in two places: the listing GET /dbus/service/{s} iterates, and the      *)
(* Method that Call() keeps while the D-Bus call is under way.  Using it   *)
(* after the update thread wrote there is undefined behaviour; the outcome *)
(* is any value the reader may come to, or the end of the process.  The    *)
(* short uses (in_args() right after get()) are part of the lookup.        *)
(*                                                                         *)
(* The called services are external: a message may be executed, answered   *)
(* with an error, or not answered before the call times out.               *)
(***************************************************************************)
EXTENDS Registry

CONSTANTS
    Workers,   \* threads of the HTTP server's pool, each with its client
    Methods,   \* method names
    Declares,  \* Declares[d]: the methods the definition d of an interface has
    Requests   \* what clients ask for

ASSUME RequestsAssumption ==
    /\ Declares \in [Defs -> SUBSET Methods]
    /\ Requests \subseteq [op: {"services", "service", "interface", "html", "call", "try"},
                           service: Names, interface: Interfaces, method: Methods]
    /\ None \notin {200, 400, 404, 500} /\ None \notin Interfaces

VARIABLES
    alive,     \* the process has not been ended by undefined behaviour
    at,        \* where each worker is
    req,       \* the request it serves, or served last
    status,    \* the HTTP status of the last answer, None while there is none
    listing,   \* the entries of the last /dbus/service/{s} answer
    names,     \* get_service_names() of an /dbus/html in progress
    paths,     \* <<service, path>> pairs left of its current service
    lookup,    \* definition that held the Method Call() refers to
    filled,    \* definition the arguments were converted with
    decoded,   \* definition the reply was converted with
    touched,   \* the update thread wrote where the held reference points
    sealed,    \* history: no scan that may write there was to come when it was obtained
    message,   \* what became of the D-Bus call
    known      \* history: services and interfaces met in earlier answers

registry == <<exports, interfaces, object_paths, pc, service_names, svc, pending,
              object, unparsed, stop_, moved>>
call == <<lookup, filled, decoded, message>>
html == <<names, paths>>
web == <<alive, at, req, status, listing, html, call, touched, sealed, known>>
allvars == <<registry, web>>

Labels_W == {"idle", "route", "fetch", "read", "html_paths", "html_object",
             "lookup", "fill", "send", "wait", "decode", "sample", "signature"}

Holds(w) == at[w] \in {"read", "fill", "send", "wait", "decode"}

-----------------------------------------------------------------------------

WebInit ==
    /\ Init
    /\ alive = TRUE
    /\ at = [w \in Workers |-> "idle"]
    /\ req \in [Workers -> Requests]
    /\ status = [w \in Workers |-> None]
    /\ listing = [w \in Workers |-> {}]
    /\ names = [w \in Workers |-> {}]
    /\ paths = [w \in Workers |-> {}]
    /\ lookup = [w \in Workers |-> None]
    /\ filled = [w \in Workers |-> None]
    /\ decoded = [w \in Workers |-> None]
    /\ touched = [w \in Workers |-> FALSE]
    /\ sealed = [w \in Workers |-> FALSE]
    /\ message = [w \in Workers |-> "none"]
    /\ known = [w \in Workers |-> {}]

Goto(w, label) == at' = [at EXCEPT ![w] = label]

Answer(w, code) ==
    /\ Goto(w, "idle")
    /\ status' = [status EXCEPT ![w] = code]

Learn(w, kind, S) == known' = [known EXCEPT ![w] = @ \cup {kind} \X S]

\* A client sends its next request.
Request(w, r) ==
    /\ at[w] = "idle"
    /\ req' = [req EXCEPT ![w] = r]
    /\ status' = [status EXCEPT ![w] = None]
    /\ listing' = [listing EXCEPT ![w] = {}]
    /\ lookup' = [lookup EXCEPT ![w] = None]
    /\ filled' = [filled EXCEPT ![w] = None]
    /\ decoded' = [decoded EXCEPT ![w] = None]
    /\ message' = [message EXCEPT ![w] = "none"]
    /\ touched' = [touched EXCEPT ![w] = FALSE]
    /\ sealed' = [sealed EXCEPT ![w] = FALSE]
    /\ Goto(w, "route")
    /\ UNCHANGED <<registry, alive, html, known>>

Serving(w, op, label) == at[w] = label /\ req[w].op = op

\* GET /dbus/service
ListServices(w) ==
    /\ Serving(w, "services", "route")
    /\ Answer(w, 200)
    /\ Learn(w, "service", {s \in Names : contains_service(s)})
    /\ UNCHANGED <<registry, alive, req, listing, html, call, touched, sealed>>

\* GET /dbus/interface/{i} and /dbus/interface/html/{i}: contains_interface...
CheckInterface(w) ==
    /\ Serving(w, "interface", "route")
    /\ \/ contains_interface(req[w].interface) /\ Goto(w, "fetch") /\ UNCHANGED status
       \/ ~contains_interface(req[w].interface) /\ Answer(w, 404)
    /\ UNCHANGED <<registry, alive, req, listing, html, call, touched, sealed, known>>

\* ... then get_interfaces, whose at() throws when there is no such interface.
FetchInterface(w) ==
    /\ Serving(w, "interface", "fetch")
    /\ Answer(w, IF contains_interface(req[w].interface) THEN 200 ELSE 500)
    /\ UNCHANGED <<registry, alive, req, listing, html, call, touched, sealed, known>>

\* GET /dbus/service/{s}: contains_service...
CheckService(w) ==
    /\ Serving(w, "service", "route")
    /\ \/ contains_service(req[w].service) /\ Goto(w, "fetch") /\ UNCHANGED status
       \/ ~contains_service(req[w].service) /\ Answer(w, 404)
    /\ UNCHANGED <<registry, alive, req, listing, html, call, touched, sealed, known>>

\* ... then object_paths_of_service, a reference into the map...
FetchService(w) ==
    /\ Serving(w, "service", "fetch")
    /\ IF contains_service(req[w].service)
       THEN Goto(w, "read") /\ UNCHANGED status
       ELSE Answer(w, 500)
    /\ sealed' = [sealed EXCEPT ![w] = svc # req[w].service]
    /\ touched' = [touched EXCEPT ![w] = FALSE]
    /\ UNCHANGED <<registry, alive, req, listing, html, call, known>>

\* ... and its conversion to JSON, without the lock.  An insertion during the
\* iteration may show or hide objects, or show one half written.
ReadListing(w) ==
    LET now == object_paths[req[w].service]
        seen == IF touched[w]
                THEN SUBSET (now \cup {[e EXCEPT !.interfaces = {}] : e \in now})
                ELSE {now}
    IN  /\ Serving(w, "service", "read")
        /\ Answer(w, 200)
        /\ \E S \in seen :
             /\ listing' = [listing EXCEPT ![w] = S]
             /\ Learn(w, "interface", UNION {e.interfaces : e \in S})
        /\ UNCHANGED <<registry, alive, req, html, call, touched, sealed>>

\* GET /dbus/html: get_service_names, ...
HtmlNames(w) ==
    /\ Serving(w, "html", "route")
    /\ names' = [names EXCEPT ![w] = {s \in Names : contains_service(s)}]
    /\ Goto(w, "html_paths")
    /\ UNCHANGED <<registry, alive, req, status, listing, paths, call, touched, sealed, known>>

\* ... get_object_path_string of each, ...
HtmlPaths(w) ==
    /\ Serving(w, "html", "html_paths")
    /\ \/ /\ names[w] = {}
          /\ Answer(w, 200)
          /\ UNCHANGED html
       \/ \E s \in names[w] :
            /\ names' = [names EXCEPT ![w] = @ \ {s}]
            /\ paths' = [paths EXCEPT ![w] = {s} \X Recorded(s)]
            /\ Goto(w, "html_object")
            /\ UNCHANGED status
    /\ UNCHANGED <<registry, alive, req, listing, call, touched, sealed, known>>

\* ... get_object_path of each, whose at() throws when there is no such object.
HtmlObject(w) ==
    /\ Serving(w, "html", "html_object")
    /\ \/ /\ paths[w] = {}
          /\ Goto(w, "html_paths")
          /\ UNCHANGED <<status, html, known>>
       \/ \E x \in paths[w] :
            IF x[2] \in Recorded(x[1])
            THEN /\ paths' = [paths EXCEPT ![w] = @ \ {x}]
                 /\ Learn(w, "interface", UNION {e.interfaces : e \in {y \in object_paths[x[1]] : y.path = x[2]}})
                 /\ UNCHANGED <<at, status, names>>
            ELSE Answer(w, 500) /\ UNCHANGED <<html, known>>
    /\ UNCHANGED <<registry, alive, req, listing, call, touched, sealed>>

\* Mutant of Reject: another status code.
RejectUnprocessable(w) ==
    /\ at[w] = "route"
    /\ req[w].op \in {"call", "try"}
    /\ Answer(w, 422)
    /\ UNCHANGED <<registry, alive, req, listing, html, call, touched, sealed, known>>

\* POST /dbus/call, GET /dbus/try: the path, or the body, does not parse.
Reject(w) ==
    /\ at[w] = "route"
    /\ req[w].op \in {"call", "try"}
    /\ Answer(w, 400)
    /\ UNCHANGED <<registry, alive, req, listing, html, call, touched, sealed, known>>

\* get<Method> finds a member or throws invalid_argument.
Finds(w) == /\ contains_interface(req[w].interface)
            /\ req[w].method \in Declares[interfaces[req[w].interface]]

\* The services whose scan may add a definition of the interface, and whether
\* those scans are all over: a service that is listed is not scanned again.
Declarers(i) == {s \in Names \ UniqueNames :
                   match_prefix(s) /\ \E p \in Paths : i \in Implements[s][p]}
Settled(i) == \A s \in Declarers(i) : contains_service(s) /\ svc # s

\* createMethodCall and the first get<Method>, whose reference Call() keeps.
LookupMethod(w) ==
    /\ Serving(w, "call", "route")
    /\ \/ /\ Finds(w)
          /\ lookup' = [lookup EXCEPT ![w] = interfaces[req[w].interface]]
          /\ touched' = [touched EXCEPT ![w] = FALSE]
          /\ sealed' = [sealed EXCEPT ![w] = Settled(req[w].interface)]
          /\ Goto(w, "fill")
          /\ UNCHANGED status
       \/ Answer(w, 500) /\ UNCHANGED <<lookup, touched, sealed>>
    /\ UNCHANGED <<registry, alive, req, listing, html, filled, decoded, message, known>>

\* The second get<Method>, and FillMessage with the in_args it returns.
FillMessage(w) ==
    /\ Serving(w, "call", "fill")
    /\ \/ /\ Finds(w)
          /\ filled' = [filled EXCEPT ![w] = interfaces[req[w].interface]]
          /\ Goto(w, "send")
          /\ UNCHANGED status
       \/ Answer(w, 500) /\ UNCHANGED filled
    /\ UNCHANGED <<registry, alive, req, listing, html, lookup, decoded, message, touched, sealed, known>>

\* callMethod sends the message and blocks.
Send(w) ==
    /\ Serving(w, "call", "send")
    /\ message' = [message EXCEPT ![w] = "sent"]
    /\ Goto(w, "wait")
    /\ UNCHANGED <<registry, alive, req, status, listing, html, lookup, filled, decoded, touched, sealed, known>>

\* External: the service executes the call, even when nobody waits any more.
Execute(w) ==
    /\ message[w] = "sent"
    /\ exports[req[w].service] # {}
    /\ message' = [message EXCEPT ![w] = "executed"]
    /\ UNCHANGED <<registry, alive, at, req, status, listing, html, lookup, filled, decoded, touched, sealed, known>>

\* callMethod returns the reply...
GetReply(w) ==
    /\ Serving(w, "call", "wait")
    /\ message[w] = "executed"
    /\ Goto(w, "decode")
    /\ UNCHANGED <<registry, alive, req, status, listing, html, call, touched, sealed, known>>

\* Mutant of CallFails: the error is swallowed.
CallFailsQuietly(w) ==
    /\ Serving(w, "call", "wait")
    /\ Answer(w, 200)
    /\ UNCHANGED <<registry, alive, req, listing, html, call, touched, sealed, known>>

\* Mutant of CallFails: no timeout, only a service that is gone is an error.
CallFailsIfGone(w) ==
    /\ Serving(w, "call", "wait")
    /\ exports[req[w].service] = {}
    /\ Answer(w, 500)
    /\ UNCHANGED <<registry, alive, req, listing, html, call, touched, sealed, known>>

\* ... or throws: an error reply, no such service, or a timeout.
CallFails(w) ==
    /\ Serving(w, "call", "wait")
    /\ Answer(w, 500)
    /\ UNCHANGED <<registry, alive, req, listing, html, call, touched, sealed, known>>

\* ExtractMessage with the out_args of the Method looked up before the call.
Decode(w) ==
    /\ Serving(w, "call", "decode")
    /\ \/ /\ Answer(w, 200)
          /\ \E d \in IF touched[w] THEN Defs ELSE {lookup[w]} :
               decoded' = [decoded EXCEPT ![w] = d]
       \/ Answer(w, 500) /\ UNCHANGED decoded
    /\ UNCHANGED <<registry, alive, req, listing, html, lookup, filled, message, touched, sealed, known>>

\* GET /dbus/try: RandRequest...
SampleRequest(w) ==
    /\ Serving(w, "try", "route")
    /\ \/ Finds(w) /\ Goto(w, "signature") /\ UNCHANGED status
       \/ Answer(w, 500)
    /\ UNCHANGED <<registry, alive, req, listing, html, call, touched, sealed, known>>

\* ... then get<Method> again for the signatures.
ShowSignature(w) ==
    /\ Serving(w, "try", "signature")
    /\ Answer(w, IF Finds(w) THEN 200 ELSE 500)
    /\ UNCHANGED <<registry, alive, req, listing, html, call, touched, sealed, known>>

\* A stale reference ends the process.
Crash(w) ==
    /\ at[w] \in {"read", "decode"}
    /\ touched[w]
    /\ alive' = FALSE
    /\ UNCHANGED <<registry, at, req, status, listing, html, call, touched, sealed, known>>

Handler(w) ==
    \/ ListServices(w)
    \/ CheckInterface(w)
    \/ FetchInterface(w)
    \/ CheckService(w)
    \/ FetchService(w)
    \/ ReadListing(w)
    \/ HtmlNames(w)
    \/ HtmlPaths(w)
    \/ HtmlObject(w)
    \/ Reject(w)
    \/ LookupMethod(w)
    \/ FillMessage(w)
    \/ Send(w)
    \/ GetReply(w)
    \/ CallFails(w)
    \/ Decode(w)
    \/ SampleRequest(w)
    \/ ShowSignature(w)

\* A worker that holds a reference to what the update thread assigns to.
Points(w, s, i) ==
    /\ Holds(w)
    /\ \/ req[w].op = "service" /\ req[w].service = s
       \/ req[w].op = "call" /\ req[w].interface = i

\* The update thread writes a definition, or an object, or nothing readers see.
Rewrite ==
    \E i \in Interfaces :
        /\ ParseInterface(i)
        /\ touched' = [w \in Workers |-> touched[w] \/ Points(w, None, i)]

Insert ==
    /\ AddObject
    /\ touched' = [w \in Workers |-> touched[w] \/ Points(w, svc, None)]

Unseen ==
    /\ Environment \/ Stop \/ WakeUp \/ ListServicesOk \/ ListServicesFails
       \/ (\E s \in service_names : SkipService(s) \/ StartScan(s))
       \/ EndUpdate \/ IntrospectOk \/ IntrospectFails
    /\ UNCHANGED touched

RegistryStep ==
    /\ Rewrite \/ Insert \/ Unseen
    /\ UNCHANGED <<alive, at, req, status, listing, html, call, sealed, known>>

WebNext ==
    /\ alive
    /\ \/ RegistryStep
       \/ \E w \in Workers :
            \/ \E r \in Requests : Request(w, r)
            \/ Handler(w)
            \/ Execute(w)
            \/ Crash(w)

WebSpec == WebInit /\ [][WebNext]_allvars

\* Workers are scheduled and every sdbus call returns; no client must ask.
WebFairSpec == WebSpec /\ \A w \in Workers : WF_allvars(alive /\ Handler(w))

-----------------------------------------------------------------------------
(* Safety *)

\* Types of the handlers' state.
TypeOKWeb ==
    /\ alive \in BOOLEAN
    /\ at \in [Workers -> Labels_W]
    /\ req \in [Workers -> Requests]
    /\ status \in [Workers -> {None, 200, 400, 404, 500}]
    /\ listing \in [Workers -> SUBSET Entry]
    /\ names \in [Workers -> SUBSET Names]
    /\ paths \in [Workers -> SUBSET (Names \X (Paths \cup {NoPath}))]
    /\ lookup \in [Workers -> Defs \cup {None}]
    /\ filled \in [Workers -> Defs \cup {None}]
    /\ decoded \in [Workers -> Defs \cup {None}]
    /\ touched \in [Workers -> BOOLEAN]
    /\ sealed \in [Workers -> BOOLEAN]
    /\ message \in [Workers -> {"none", "sent", "executed"}]
    /\ known \in [Workers -> SUBSET (({"service"} \X Names) \cup ({"interface"} \X Interfaces))]

\* contains_*() and the lookup that follows are two critical sections; the
\* lookup never throws, because the registry forgets nothing in between.
CheckedLookupsSucceed ==
    \A w \in Workers : status[w] = 500 => req[w].op \in {"call", "try"}

\* A client that follows a name from one answer to the next is not told that
\* there is no such service or interface, whatever the update thread does.
FollowUpsSucceed ==
    \A w \in Workers :
        status[w] = 404 =>
            /\ req[w].op = "service" => <<"service", req[w].service>> \notin known[w]
            /\ req[w].op = "interface" => <<"interface", req[w].interface>> \notin known[w]

\* The unlocked iteration of a listing whose scan was over is not disturbed:
\* the answer is the whole listing, and stays right.
SealedListingExact ==
    \A w \in Workers :
        status[w] = 200 /\ req[w].op = "service" /\ sealed[w]
        => ~touched[w] /\ listing[w] = object_paths[req[w].service]

\* 200 means the service executed the call; 400 means nothing was sent.
AnswersTruthful ==
    \A w \in Workers :
        req[w].op = "call" =>
            /\ status[w] = 200 => message[w] = "executed"
            /\ status[w] = 400 => message[w] = "none"

\* Call() looks the method up twice and keeps a reference into the registry while
\* the service works.  Once the scans that can write there are over, nothing
\* rewrites it any more, services that leave, return or rearrange their objects
\* notwithstanding: arguments and reply are converted with one definition, that
\* of a service that declares the interface, and it is the one that stays.
SettledCallsExact ==
    \A w \in Workers :
        LET i == req[w].interface
        IN  status[w] = 200 /\ req[w].op = "call" /\ sealed[w] =>
              /\ ~touched[w]
              /\ lookup[w] = interfaces[i] /\ filled[w] = interfaces[i] /\ decoded[w] = interfaces[i]
              /\ \E s \in Declarers(i) : decoded[w] = DefOf[s][i]
              /\ req[w].method \in Declares[decoded[w]]

-----------------------------------------------------------------------------
(* Liveness *)

\* Every request is answered.
EveryRequestAnswered ==
    \A w \in Workers : at[w] = "route" ~> (at[w] = "idle" \/ ~alive)

-----------------------------------------------------------------------------
(* What the documentation says and the code does not do *)

\* README.md: "automatically converts your JSON payload into the correct DBus
\* message types": the definition used is the one of the service that is called.
ConvertedAsDeclared ==
    \A w \in Workers :
        message[w] = "executed" => filled[w] = DefOf[req[w].service][req[w].interface]
==============================================================================
