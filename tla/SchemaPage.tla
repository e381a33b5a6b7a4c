------------------------------- MODULE SchemaPage -------------------------------
(***************************************************************************)
(* The page at /schema/: index.html loads Swagger UI, and                  *)
(* swagger-initializer.js configures it for dbus2http_openapi.yaml.        *)
(*                                                                         *)
(* Swagger UI itself is external: what it does with its configuration, and *)
(* with the operations of the document when a visitor executes one.        *)
(***************************************************************************)
EXTENDS Site

CONSTANTS None

VARIABLES
    scripts,     \* how many of the page's scripts were fetched
    defined,     \* the scripts among them that arrived
    ui,          \* window.ui: the configuration Swagger UI runs with, or None
    document,    \* the OpenAPI document: "unread", "shown" or "failed"
    fragment,    \* the URL's fragment: an operation, or None
    expanded,    \* the operation the page shows opened, or None
    executed     \* what was executed last, or None

page_state == <<scripts, defined, ui, document, fragment, expanded, executed>>

schema == <<"/", "schema", "/">>

\* index.html
Scripts == <<"swagger-ui-bundle.js", "swagger-ui-standalone-preset.js", "swagger-initializer.js">>

\* Mutant of Config: the preset that brings the layout is not among the presets.
ConfigNoStandalone ==
    [url         |-> <<"dbus2http_openapi.yaml">>,
     dom_id      |-> "#swagger-ui",
     deepLinking |-> TRUE,
     presets     |-> {"apis"},
     plugins     |-> {"DownloadUrl"},
     layout      |-> "StandaloneLayout"]

\* The configuration block of swagger-initializer.js; the URL is relative to the page.
Config ==
    [url         |-> <<"dbus2http_openapi.yaml">>,
     dom_id      |-> "#swagger-ui",
     deepLinking |-> TRUE,
     presets     |-> {"apis", "StandalonePreset"},
     plugins     |-> {"DownloadUrl"},
     layout      |-> "StandaloneLayout"]

\* External: what the parts of Swagger UI bring, and the element index.html has.
Layouts(config) ==
    {"BaseLayout"} \cup (IF "StandalonePreset" \in config.presets THEN {"StandaloneLayout"} ELSE {})
PageElements == {"#swagger-ui"}

Resolve(path, url) == Before(path, rfind(path, "/")) \o <<"/">> \o url

-----------------------------------------------------------------------------
(* The operations of dbus2http_openapi.yaml *)

Operation(verb, path, in, responses) ==
    [verb |-> verb, path |-> path, in |-> in, responses |-> responses]

\* "in" says where each parameter is put.
list_services == Operation("GET", dbus \o <<"service">>, NoQuery, {200})

list_objects ==
    Operation("GET", dbus \o <<"service", "/", "{service}">>, [service |-> "path"], {200, 404})

get_interface ==
    Operation("GET", dbus \o <<"interface", "/", "{interface}">>, [interface |-> "path"], {200, 404})

call_method ==
    Operation("POST",
              dbus \o <<"call", "/", "{service}", "/", "{object_path}", "/", "{interface}", ".", "{method}">>,
              [service |-> "query", object |-> "query", interface |-> "query", method |-> "query"],
              {200, 400, 500})

listen_signals == Operation("GET", dbus \o <<"signals">>, [match |-> "query"], {101})

Operations == {list_services, list_objects, get_interface, call_method, listen_signals}

Templates == [service |-> "{service}", object |-> "{object_path}",
              interface |-> "{interface}", method |-> "{method}"]

\* External: a parameter of the path takes the place of its template; one of the
\* query goes behind the path, and leaves the template as it is.
Placed(op, values, k) ==
    LET names == {p \in DOMAIN op.in \cap DOMAIN Templates :
                    op.in[p] = "path" /\ Templates[p] = op.path[k]}
    IN  IF names = {} THEN <<op.path[k]>> ELSE values[CHOOSE p \in names : TRUE]

PathOf(op, values) ==
    LET upto[k \in 0..Len(op.path)] ==
          IF k = 0 THEN <<>> ELSE upto[k - 1] \o Placed(op, values, k)
    IN  upto[Len(op.path)]

-----------------------------------------------------------------------------

SchemaInit ==
    /\ scripts = 0
    /\ defined = {}
    /\ ui = None
    /\ document = "unread"
    /\ fragment = None
    /\ expanded = None
    /\ executed = None

\* The page is fetched, with a fragment f.
OpenSchema(f) ==
    /\ scripts' = 0
    /\ defined' = {}
    /\ ui' = None
    /\ document' = "unread"
    /\ fragment' = f
    /\ expanded' = None
    /\ executed' = None

\* A script tag of index.html: the file arrives, or the network loses it.
LoadScript ==
    /\ scripts < Len(Scripts)
    /\ scripts' = scripts + 1
    /\ \/ /\ IsFile(schema \o <<Scripts[scripts + 1]>>)
          /\ defined' = defined \cup {Scripts[scripts + 1]}
       \/ UNCHANGED defined
    /\ UNCHANGED <<ui, document, fragment, expanded, executed>>

AllArrived == defined = {Scripts[k] : k \in DOMAIN Scripts}

\* window.onload: SwaggerUIBundle and SwaggerUIStandalonePreset are names the
\* other two scripts define; without one of them the handler throws.
OnLoad ==
    /\ scripts = Len(Scripts)
    /\ ui = None
    /\ AllArrived
    /\ ui' = Config
    /\ UNCHANGED <<scripts, defined, document, fragment, expanded, executed>>

\* External: Swagger UI draws its layout, fetches the document, shows it and opens
\* what the fragment names.
ReadDocument(path) ==
    /\ ui # None
    /\ document = "unread"
    /\ ui.layout \in Layouts(ui) /\ ui.dom_id \in PageElements
    /\ "DownloadUrl" \in ui.plugins
    /\ \/ /\ IsFile(Resolve(path, ui.url))
          /\ document' = "shown"
          /\ expanded' = IF ui.deepLinking THEN fragment ELSE None
       \/ document' = "failed" /\ UNCHANGED expanded
    /\ UNCHANGED <<scripts, defined, ui, fragment, executed>>

\* A visitor opens an operation: the fragment names it.
Expand(op) ==
    /\ document = "shown"
    /\ expanded' = op
    /\ fragment' = IF ui.deepLinking THEN op ELSE fragment
    /\ UNCHANGED <<scripts, defined, ui, document, executed>>

\* A visitor fills the opened operation in and executes it.
Execute(values, how) ==
    /\ document = "shown"
    /\ expanded # None
    /\ executed' = [op |-> expanded, values |-> values,
                    known |-> [service |-> values.service \in KnownServices,
                               interface |-> values.interface \in KnownInterfaces],
                    answer |-> Answer(expanded.verb, PathOf(expanded, values), how)]
    /\ UNCHANGED <<scripts, defined, ui, document, fragment, expanded>>
==============================================================================
