---------------------------------- MODULE Site ----------------------------------
(***************************************************************************)
(* What the HTTP server of dbus2http answers to a verb and a path: the     *)
(* files below its mount point, then the routes of WebService in the order *)
(* they are registered in.  The handlers' steps beside the update thread   *)
(* are module WebService's; here a handler is the answer it gives.         *)
(*                                                                         *)
(* A URL is a path and a query; URLSearchParams.get of what is missing is  *)
(* null, which a template literal writes as the word null.                 *)
(***************************************************************************)
EXTENDS RequestPath, FiniteSets

CONSTANTS
    Listing,    \* what there is to list: [service, object, interface]
    Methods,    \* Methods[e]: the methods e.interface has, as e.service declares it
    Signals,    \* Signals[e]: its signals
    Awkward,    \* Awkward[e]: the methods no request may be proposed for
    Files,      \* paths of the files below the mount point
    ws_port     \* the port the signal socket listens at

ASSUME SiteAssumption ==
    /\ \A e \in Listing : DOMAIN e = {"service", "object", "interface"}
    /\ DOMAIN Methods = Listing /\ DOMAIN Signals = Listing /\ DOMAIN Awkward = Listing

VARIABLES
    described,  \* the members of Listing whose declarations were parsed so far
    declared,   \* the interfaces of the registry: from whom it has a declaration
    listed      \* the objects of the registry; they only grow

registry == <<described, declared, listed>>

dbus == <<"/", "dbus", "/">>

\* server_.Get and server_.Post in the order of their calls; an open route ends in (.*).
Route(verb, path, open, handler) ==
    [verb |-> verb, path |-> dbus \o path, open |-> open, handler |-> handler]

\* Mutant of Routes: the wider pattern is registered first.
RoutesWideFirst ==
    << Route("GET", <<"service">>, FALSE, "services"),
       Route("GET", <<"html">>, FALSE, "html"),
       Route("GET", <<"interface", "/">>, TRUE, "interface"),
       Route("GET", <<"interface", "/", "html", "/">>, TRUE, "interface_html"),
       Route("GET", <<"service", "/">>, TRUE, "service"),
       Route("POST", <<"call", "/">>, TRUE, "call"),
       Route("GET", <<"try", "/">>, TRUE, "try"),
       Route("GET", <<"matchrule">>, TRUE, "matchrule") >>

Routes ==
    << Route("GET", <<"service">>, FALSE, "services"),
       Route("GET", <<"html">>, FALSE, "html"),
       Route("GET", <<"interface", "/", "html", "/">>, TRUE, "interface_html"),
       Route("GET", <<"interface", "/">>, TRUE, "interface"),
       Route("GET", <<"service", "/">>, TRUE, "service"),
       Route("POST", <<"call", "/">>, TRUE, "call"),
       Route("GET", <<"try", "/">>, TRUE, "try"),
       Route("GET", <<"matchrule">>, TRUE, "matchrule") >>

Fits(r, verb, path) ==
    /\ r.verb = verb
    /\ Len(r.path) <= Len(path) /\ SubSeq(path, 1, Len(r.path)) = r.path
    /\ r.open \/ r.path = path

\* External: httplib takes the first route that fits.
Fitting(verb, path) == {n \in DOMAIN Routes : Fits(Routes[n], verb, path)}

First(S) == CHOOSE n \in S : \A k \in S : n <= k

-----------------------------------------------------------------------------
(* What a browser gets *)

Error(code) == [kind |-> "error", status |-> code]
Blank == [kind |-> "blank"]            \* 200 and nothing: the handler just returns
Json(content) == [kind |-> "json", content |-> content]

\* What else decides what a request comes to: its body is no JSON, or one of the
\* steps of the handler throws (a conversion, an error of the service, the timeout).
Outcomes == {"served", "failed", "no JSON"}

KnownServices == {e.service : e \in listed}
KnownInterfaces == DOMAIN declared

\* get<Method> finds it, in the last declaration of the interface.
FindsMethod(c) == c.interface \in KnownInterfaces /\ c.method \in Methods[declared[c.interface]]

\* The service has what is called (external).
Exists(c) ==
    \E e \in Listing : /\ <<e.service, e.object, e.interface>> = <<c.service, c.object, c.interface>>
                       /\ c.method \in Methods[e]

interface_page(i) ==
    [kind |-> "interface", methods |-> Methods[declared[i]], signals |-> Signals[declared[i]]]

\* Mutant of LookUp: what is not found is no error.
LookUpSilent(name, known, found) ==
    IF Without(name, "/") /\ name \in known THEN found ELSE Blank

\* The three handlers that look a name up: one with a slash gets no answer at all.
LookUp(name, known, found) ==
    IF ~Without(name, "/") THEN Blank
    ELSE IF name \in known THEN found ELSE Error(404)

\* RandRequest throws for a type it has no value for: o, g, h and arrays of arrays,
\* if it draws any value of that type at all, which in an array it need not.
Proposes(c, how) == ~(how = "failed" /\ c.method \in Awkward[declared[c.interface]])

Try(c, how) ==
    IF c = Incomplete THEN Error(400)
    ELSE IF FindsMethod(c) /\ Proposes(c, how)
         THEN [kind |-> "try", path |-> dbus \o <<"call", "/">> \o CallPath(c)]
         ELSE Error(500)

\* The answer to a call, and whom it is about.
Called(c, status) == [kind |-> "call", target |-> c, status |-> status]

Call(c, how) ==
    IF c = Incomplete \/ how = "no JSON" THEN Called(c, 400)
    ELSE IF FindsMethod(c) /\ Exists(c) /\ how = "served" THEN Called(c, 200)
    ELSE Called(c, 500)

Handle(handler, suffix, how) ==
    CASE handler = "services" -> Json(KnownServices)
      [] handler = "html" -> [kind |-> "overview", links |-> listed]
      [] handler = "interface_html" ->
           LookUp(suffix, KnownInterfaces, interface_page(suffix))
      [] handler = "interface" -> LookUp(suffix, KnownInterfaces, Json(suffix))
      [] handler = "service" -> LookUp(suffix, KnownServices, Json(suffix))
      [] handler = "call" -> Call(parse_dbus_request_path(suffix), how)
      [] handler = "try" -> Try(parse_dbus_request_path(suffix), how)
      [] handler = "matchrule" -> [kind |-> "matchrule"]

\* Files first, as httplib does it; / at the end of a path stands for index.html.
IsFile(path) == path \in Files \/ path \o <<"index.html">> \in Files

Answer(verb, path, how) ==
    IF verb = "GET" /\ IsFile(path) THEN [kind |-> "file"]
    ELSE IF Fitting(verb, path) = {} THEN Error(404)
    ELSE LET r == Routes[First(Fitting(verb, path))]
         IN  Handle(r.handler, SubSeq(path, Len(r.path) + 1, Len(path)), how)

Status(answer) == IF answer.kind \in {"error", "call"} THEN answer.status ELSE 200

-----------------------------------------------------------------------------
(* Links of the HTML pages *)

NoQuery == [name \in {} |-> <<>>]

get(query, name) == IF name \in DOMAIN query THEN query[name] ELSE <<"null">>

\* Of the overview: to_html of an object.
InterfaceLink(e) ==
    [path  |-> dbus \o <<"interface", "/", "html", "/">> \o e.interface,
     query |-> [object_path |-> e.object, interface_name |-> e.interface,
                service_name |-> e.service]]

\* Of an interface page: its script fills in what its own URL says.
TryLink(query, method) ==
    [path  |-> dbus \o <<"try", "/">>
                 \o CallPath([service |-> get(query, "service_name"),
                              object |-> get(query, "object_path"),
                              interface |-> get(query, "interface_name"), method |-> method]),
     query |-> NoQuery]

\* Of an interface page: to_html of a signal.
SignalLink(signal) ==
    [path |-> dbus \o <<"matchrule">>, query |-> [member |-> signal, ws_port |-> ws_port]]
==============================================================================
