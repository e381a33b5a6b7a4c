-------------------------------- MODULE Browser --------------------------------
(***************************************************************************)
(* A visitor walks through the pages of dbus2http: from the overview to an *)
(* interface, to one of its methods and the call, or to one of its signals *)
(* and the WebSocket, or to the Swagger UI page.  Meanwhile the registry   *)
(* gets to know more.                                                      *)
(***************************************************************************)
EXTENDS SchemaPage, MatchRulePage

CONSTANTS
    Typed    \* URLs a visitor types in: [path, query]

\* What D-Bus says of names and object paths; and /dbus/ holds no file.
ASSUME WordsAssumption ==
    /\ Listing \subseteq [service: Seq(STRING), object: Seq(STRING), interface: Seq(STRING)]
    /\ \A e \in Listing :
         /\ Without(e.service, "/") /\ Without(e.interface, "/")
         /\ e.object # <<>> /\ e.object[1] = "/"
         /\ \A m \in Methods[e] :
              m \in Seq(STRING) /\ m # <<>> /\ Without(m, "/") /\ Without(m, ".")
    /\ \A f \in Files : Len(f) > 1 => f[2] # "dbus"

VARIABLES
    location,  \* the URL of the page shown
    page,      \* the page
    linked,    \* history: the visitor came by links only, from the overview
    chosen,    \* history: the service, object, interface and method clicked on
    called     \* the server's answer to the last call, or None

tab == <<location, page, linked, chosen, called>>
vars == <<registry, tab, page_state, rule_state>>

Start == [path |-> dbus \o <<"html">>, query |-> NoQuery]
SchemaUrl == [path |-> schema \o <<"index.html">>, query |-> NoQuery]

Nothing == [service |-> <<>>, object |-> <<>>, interface |-> <<>>, method |-> <<>>]

Init ==
    /\ described = {}
    /\ declared = [i \in {} |-> None]
    /\ listed = {}
    /\ location = [path |-> <<>>, query |-> NoQuery]
    /\ page = Blank
    /\ linked = FALSE
    /\ chosen = Nothing
    /\ called = None
    /\ SchemaInit
    /\ RuleInit

\* The update thread adds one more interface, as a service declares it: of two
\* declarations under one name the last is kept.
Describe(e) ==
    /\ e \notin described
    /\ described' = described \cup {e}
    /\ declared' = [i \in KnownInterfaces \cup {e.interface} |->
                       IF i = e.interface THEN e ELSE declared[i]]
    /\ UNCHANGED <<listed, tab, page_state, rule_state>>

\* Then it adds the object that has it.
Publish(e) ==
    /\ e \in described \ listed
    /\ listed' = listed \cup {e}
    /\ UNCHANGED <<described, declared, tab, page_state, rule_state>>

Shows(kind) == page.kind = kind
ShowsSchema == Shows("file")

\* DOMContentLoaded of the match rule page: every field whose parameter is there.
\* path_namespace is spelled pathNamespace in the URL.
FilledIn(query) ==
    [f \in DOMAIN Blank_form |->
       LET name == IF f = "path_namespace" THEN "pathNamespace" ELSE f
       IN  IF name \in DOMAIN query THEN query[name] ELSE <<>>]

\* A URL fills the form in with names and paths, and so does a signal's name.
ASSUME FormsAssumption ==
    /\ \A url \in Typed : \A f \in DOMAIN Blank_form : FilledIn(url.query)[f] \in Plain
    /\ \A e \in Listing : Signals[e] \subseteq Plain

\* The browser loads a page; what the last one kept is gone.
Load(url, f) ==
    /\ location' = url
    /\ \E how \in Outcomes : page' = Answer("GET", url.path, how)
    /\ called' = None
    /\ OpenSchema(f)
    /\ OpenForm(FilledIn(url.query),
                IF "ws_port" \in DOMAIN url.query THEN url.query["ws_port"] ELSE 10058)
    /\ UNCHANGED registry

\* A URL is typed in.  The walk starts at the overview.
Type(url) ==
    /\ Load(url, None)
    /\ linked' = (url = Start)
    /\ chosen' = Nothing

\* A link of the overview.
ChooseInterface(e) ==
    /\ Shows("overview")
    /\ e \in page.links
    /\ Load(InterfaceLink(e), None)
    /\ chosen' = [service |-> e.service, object |-> e.object, interface |-> e.interface, method |-> <<>>]
    /\ UNCHANGED linked

\* A link of an interface page.
ChooseMethod(m) ==
    /\ Shows("interface")
    /\ m \in page.methods
    /\ Load(TryLink(location.query, m), None)
    /\ chosen' = [chosen EXCEPT !.method = m]
    /\ UNCHANGED linked

ChooseSignal(s) ==
    /\ Shows("interface")
    /\ s \in page.signals
    /\ Load(SignalLink(s), None)
    /\ UNCHANGED <<linked, chosen>>

\* The button of a try page: fetch('$path$', {method: 'POST', ...}), with the
\* proposed request or what the visitor made of it.
PressCall ==
    /\ Shows("try")
    /\ \E how \in Outcomes : called' = Answer("POST", page.path, how)
    /\ UNCHANGED <<registry, location, page, linked, chosen, page_state, rule_state>>

\* The Swagger UI page, and its reload, which keeps the fragment.
OnSchema(step) == ShowsSchema /\ step /\ UNCHANGED <<registry, tab, rule_state>>

Reload ==
    /\ ShowsSchema
    /\ Load(location, fragment)
    /\ UNCHANGED <<linked, chosen>>

SchemaSteps == OnSchema(LoadScript) \/ OnSchema(OnLoad) \/ OnSchema(ReadDocument(location.path))

Values == {[service |-> e.service, object |-> e.object, interface |-> e.interface, method |-> m] :
             e \in Listing, m \in UNION {Methods[d] : d \in Listing}}

\* The match rule page.
RulePageStep == Shows("matchrule") /\ RuleStep /\ UNCHANGED <<registry, tab, page_state>>

Next ==
    \/ \E e \in Listing : Describe(e) \/ Publish(e) \/ ChooseInterface(e)
    \/ \E url \in Typed : Type(url)
    \/ \E m \in UNION {Methods[e] : e \in Listing} : ChooseMethod(m)
    \/ \E s \in UNION {Signals[e] : e \in Listing} : ChooseSignal(s)
    \/ PressCall
    \/ SchemaSteps
    \/ Reload
    \/ \E op \in Operations : OnSchema(Expand(op))
    \/ \E v \in Values : \E how \in Outcomes : OnSchema(Execute(v, how))
    \/ RulePageStep

Spec == Init /\ [][Next]_vars

\* The browser goes on with a page it has begun to load.
FairSpec == Spec /\ WF_vars(SchemaSteps)

-----------------------------------------------------------------------------
(* Safety *)

TypeOK ==
    /\ listed \subseteq described /\ described \subseteq Listing
    /\ KnownInterfaces = {e.interface : e \in described}
    /\ \A i \in KnownInterfaces : declared[i] \in described /\ declared[i].interface = i
    /\ page.kind \in {"error", "blank", "json", "file", "overview", "interface", "try", "matchrule"}
    /\ linked \in BOOLEAN
    /\ scripts \in 0..Len(Scripts)
    /\ document \in {"unread", "shown", "failed"}
    /\ RuleTypeOK

\* Over four pages, each of which hands the names on in another way (a query, a
\* script, a path that is taken apart twice), what is called in the end is what
\* the visitor clicked on, whether the call is answered or fails.
CalledAsChosen == linked /\ called # None => called.kind = "call" /\ called.target = chosen

\* Someone declared the interface without the method, or the method is awkward.
Excused(interface, method) ==
    \E e \in described : e.interface = interface /\ method \notin Methods[e] \ Awkward[e]

\* No link on the way leads to an empty page or to an error, but for a method that
\* went with the declaration of its interface, which another service replaced at
\* some time, or one no request can be proposed for; and the WebSocket page reached
\* by links connects to the port the program listens at.
LinksAnswered ==
    linked => /\ ~Shows("blank")
              /\ Shows("error") => /\ chosen.method # <<>> /\ page.status = 500
                                  /\ Excused(chosen.interface, chosen.method)
              /\ Shows("matchrule") => wsPort = ws_port

\* Swagger UI is answered as the document says: with a status that is listed for
\* the operation, and with the thing itself when the registry has it.
DocumentedAnswers ==
    executed # None /\ executed.op # listen_signals =>
        /\ Status(executed.answer) \in executed.op.responses
        /\ executed.answer # Blank
        /\ executed.op = list_objects =>
             executed.known.service = (Status(executed.answer) = 200)
        /\ executed.op = get_interface =>
             executed.known.interface = (Status(executed.answer) = 200)

-----------------------------------------------------------------------------
(* Liveness *)

\* Once the scripts have arrived, the page shows the operations, opened where its
\* URL says, unless the document was lost or the visitor went on.
SchemaShown ==
    (ShowsSchema /\ AllArrived) ~>
        (document = "failed" \/ ~AllArrived \/ (document = "shown" /\ expanded = fragment))

-----------------------------------------------------------------------------
(* What the documentation says and the code does not do *)

\* dbus2http_openapi.yaml: "Use the query parameters to specify the target
\* service/object/interface/method."
CalledAsEntered ==
    executed # None /\ executed.op = call_method
    => executed.answer.kind = "call" /\ executed.answer.target = executed.values
==============================================================================
