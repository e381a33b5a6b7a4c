# A verification project for dbus2http

dbus2http is a proxy between D-Bus and HTTP/WebSocket. It scans the bus, keeps
a registry of the services, objects and interfaces it found, converts HTTP
requests to D-Bus method calls and streams D-Bus signals to WebSocket clients.
Everything interesting happens between threads that share the registry and the
slots of the subscriptions, while the bus changes by itself. That is what these
TLA+ modules model, what TLC checks on small instances, and what TLAPS proves
for every instance: of the registry, the HTTP handlers beside it, the signal
socket, the pages, the life cycle, and the conversions between JSON and D-Bus
values. The conversions are sequential, so they are modelled as functions, which
the steps of a call apply.

Paths in this file and in `PROJECT.json` are relative to the directory that
holds `src/`, so `src/src/Dbus2Http.cpp` is the file of that name in the
repository's own `src` directory.

## Inventory

| Component | State | Operations | Talks to | Correct when |
|---|---|---|---|---|
| Registry (`entity/InterfaceContext.h`) | `object_paths`, `interfaces`, one mutex taken per call | two `add`, eight lookups | written by the update thread, read by HTTP workers and signal callbacks | what a reader finds in one answer it can look up later; a listing is right once its scan is over |
| Update thread (`Dbus2Http.cpp`) | `stop_`, the locals of `update()` | `update()` every 30 s, joined by `stop()` | enumerator, registry, main thread | every matching service gets listed, no other is; the thread can be joined |
| Enumerator (`DbusEnumerator.*`) | the stack of a recursion | `list_services`, `introspect_service`, `parse_object_paths_recursively` | bus daemon, services, parser, registry | one scan records the whole tree, each object once |
| Introspection parser (`DbusSerialization.cpp`) | the `ObjectPath` being built | `parse_single_object_path`, `parse_interface`, ... | registry (`add` of interfaces) | definitions are in the registry before the object that names them |
| HTTP handlers (`WebService.cpp`) | one request per worker thread | seven routes with state | registry, caller | the status tells the truth; every request is answered |
| Caller (`DbusCaller.h`) | a reference into the registry during a call | `Call`, `RandRequest` | services, registry | arguments and reply converted with what the service declares |
| HTML browser (`Dbus2Html`) | names and paths of a page in progress | `to_html` | registry | no lookup fails in the middle of a page |
| Signal socket (`SignalSocket.*`) | `conn2slot_`, the WebSocket connections | open/close/signal handlers, `start`, `stop` | bus, registry, three threads | signals in order, once, none lost; no slot leaks; `stop()` returns |
| Codecs (`Json2Message`, `Message2Json`, `Rand2Json`, `SignatureUtils`) | none | recursive conversions by signature | caller, signal socket | what is sent is what was meant and has the declared type; round trips |
| Web site (routes of `WebService.cpp`, pages of `Dbus2Html`) | routes in their order; names in URLs | one answer per path, links from page to page | browser, registry | links lead where they say; what is called is what was clicked on |
| Match rule page (`matchrule.html`) | form, `ws`, the button's text, every socket opened | edit, toggle, `onopen`, `onclose` | signal socket | the rule arrives as it was shown; the button can stop what it started |
| OpenAPI page (`schema/`) | scripts, Swagger UI's configuration, the document | load, expand, execute | HTTP server | the page shows, operations are answered as documented |
| `main.cpp` | `g_running` | parse options, start, wait, stop | all of the above | ends when asked to |
| Example services, tools, tests, packaging | - | - | - | not modelled |

The hard behaviours are: a bus that changes during a scan; errors of one
introspection that are swallowed; lookups that take the lock twice; references
returned after the lock is gone; D-Bus calls that time out and are executed
later; a map of slots that three threads use without a lock; names that are
joined into one path and taken apart again, twice on the way to a call; and a
button whose text all sockets of its page write. `PROJECT.json`
lists each under "hazards", at its line, with the property that would catch it.

## Modules

| Module | Models | Composes |
|---|---|---|
| `Catalogue` | abstract: what the registry promises its readers | - |
| `Registry` | registry, update thread, enumerator, parser, the bus | implements `Catalogue` |
| `RegistryProofs` | theorems about `Registry` | extends `Registry` |
| `Signature` | `SignatureUtils`, as functions | - |
| `IntegerJson` | integers of `Json2Message.h`: casts and limits | extends `Signature` |
| `DbusValues` | types, values and JSON as data; what it means that they agree | extends `IntegerJson` |
| `Payload` | `Json2Message`, `Message2Json`, `Rand2Json`: one call's payload | extends `DbusValues` |
| `Recursion`, `Levels` | no code: functions defined by recursion have the values they say | - |
| `PayloadProofs` | theorems about `Signature`, `IntegerJson` and `Payload` | extends `Payload`, `Recursion`; takes `Levels` eight times |
| `Lifecycle` | `main`, start and stop of every thread | what the threads do is in the other modules |
| `LifecycleProofs` | theorems about `Lifecycle` | extends `Lifecycle` |
| `WebService` | HTTP workers and `DbusCaller`, running beside the registry | extends `Registry` |
| `WebServiceProofs` | theorems about the composition of handlers and registry | extends `WebService`, `RegistryProofs` |
| `Subscription` | abstract: one stream of signals per client | - |
| `SignalSocket` | WebSocket thread, D-Bus thread and `stop()` in the main thread | implements `Subscription`; uses what `Catalogue` promises |
| `SignalSocketProofs` | theorems about `SignalSocket` | extends `SignalSocket` |
| `RequestPath` | `parse_dbus_request_path` and its counterpart in the pages | - |
| `Site` | routes, their order, and the answer and links of each page | extends `RequestPath` |
| `SchemaPage` | `/schema/`: its scripts, and Swagger UI on the OpenAPI document | extends `Site` |
| `MatchRulePage` | `/dbus/matchrule`: the form, the button, its sockets | - |
| `Browser` | a visitor who walks through all pages while the registry learns | extends `SchemaPage`, `MatchRulePage` |
| `BrowserProofs` | theorems about `RequestPath`, `MatchRulePage`, `SchemaPage` and `Browser` | extends `Browser`, `Recursion` |
| `MCRegistry`, `MCWebService`, `MCSignalSocket`, `MCPayload`, `MCBrowser` | instances for TLC | |

### Registry

One action is the code between two moments at which another thread could see a
difference: a call that locks the mutex, or a blocking call to the bus.

| Action | Code |
|---|---|
| `WakeUp` | loop of the update thread, `stop_` checked |
| `ListServicesOk`, `ListServicesFails` | `list_services`, and its two `catch` |
| `SkipService`, `StartScan`, `EndUpdate` | the loop of `update()` |
| `IntrospectOk`, `IntrospectFails` | `introspect_service`, and its two `catch` |
| `ParseInterface` | one turn of the loop over `interface` elements |
| `AddObject` | `context_.add(service, object)`, then the first child or back up |
| `Stop` | first line of `stop()`; the join waits for `pc = "exited"` |
| `ServiceChanges` | external: a name or its tree of objects changes |

The recursion is depth first, so its stack is the sequence `pending` of paths
still to be visited: visiting a node replaces the head by the node's children.
A failed introspection gives an `ObjectPath` with an empty path (`NoPath`) and
no children, and it is recorded like any other: that is what the code does.
A nested map from path to `ObjectPath` is a set of entries in which `add`
replaces the entry of the same path. `DefOf` and `Implements` say what a
service declares; an interface's members are one opaque definition (`Defs`).
`moved` is a history variable: the names whose tree changed since their scan
began, so that properties can say "of a service that kept still".

Simplifications: an interface of a service is declared the same by all its
objects; the order of the names in one update and of the interfaces of one node
is any order; the 30 one-second sleeps are one step.

### WebService

Worker threads with a program counter each. Every lookup takes the lock anew,
so a handler with a check and a lookup is two actions, and the HTML page is one
action per lookup. `object_paths_of_service` and `get<T>` return references
after unlocking. Two of them are held across other steps: the listing that is
converted to JSON without the lock, and the `Method` that `Call()` keeps while
the D-Bus call is under way. `touched` says that the update thread assigned
there meanwhile. Using the reference then is undefined behaviour, modelled as
any value the reader can come to, or the end of the process (`Crash`). The uses
that follow a `get` immediately, without a blocking call between, are part of
the lookup action. `known` is what a client has learnt from earlier answers,
each name with its kind, because a service may be named like an interface;
`sealed` records whether the scan that writes there was over when the reference was
obtained: that of the service for a listing, those of every service that may declare
the interface for a call (`Settled`).
Which paths are rejected is module `RequestPath`'s question; here any may be
(`Reject`), because the order of steps is the same, and conversions may throw.

### SignalSocket

The WebSocket thread runs one handler at a time: `Open`, then refusal, a throw,
or `AddMatch` and `StoreSlot`. The callback may run from `AddMatch` on, in the
D-Bus thread, which takes one signal at a time (`Dispatch`) and runs the
callbacks it is for: `UnknownSignal`, or `LookupSignal` followed by
`SendSignal` or `ExtractFails`. `stop()` is the sequence `StopListening`,
`CloseOne` for each connection met, `ClearSlots`, `StopWs`, `JoinWs`, `JoinDbus`.
A change of `conn2slot_` during the walk sets `raced`; the walk may then end
early, or the process with it. The query is one of four kinds: a match rule,
a text that only starts with one of the characters of `match=`, such a text
shorter than six characters, or anything else.

External, modelled from how the code uses them: websocketpp runs handlers on one
thread and returns from `run()` only between handlers; sdbus-c++ routes a signal
if some rule in force matches, calls the callbacks of the matching slots, and
waits for a callback in progress when its slot is released; after a callback
that throws it may call the others or not.

What a client sees is `Subscription`, which has neither threads nor slots: a
client subscribes, is owed every matching signal from then on, gets them one by
one, and leaves; a signal may be given up, for some clients or for all. The
mapping (`Promise`) says: a client listens from the moment its slot is installed
(`Listening`), not when the open handler ends; it is owed what waits in the inbox
and matches (`Owed`), except the signal in hand once its own callback is done
(`Settled`); it has left when its connection or its slot is going. A signal that
was emitted before the slot was installed and not yet dispatched may reach the
client: `Subscribe` lets some of the earlier signals be owed.

### The pages: RequestPath, Site, SchemaPage, MatchRulePage, Browser

`RequestPath` is the parser of call paths, on texts that are sequences of marks
and the words between them: service up to the first slash, method behind the
last dot behind the last slash. `CallPath` is what the pages put together.

`Site` maps a verb and a path to an answer: files of the mount point first, then
the first route that fits, in the order of registration, then its handler. Its
handlers give an answer in one step; their steps beside the update thread are
`WebService`. The links are what `to_html` and the script of an interface page
write; that script takes names from its own URL, and what is missing there
becomes the word `null`. The registry is what it needs to be for that: `declared` maps
an interface to the service whose declaration came last, which decides the methods a page
shows and a call finds, and `listed` are the objects. `how` (`Outcomes`) is what else
decides an answer: a request that is no JSON, or a step that throws. A proposal for the
try page throws only for the methods of `Awkward` (`Proposes`), those with arguments of a
type `RandJson` has no value for; inside an array it may throw or not, since the
array may be drawn empty. A call fails for any reason its handler has, with 400 or 500.

`SchemaPage` has one action per script (which the network may lose), `OnLoad`
for `swagger-initializer.js` (`Config` is its configuration block), `ReadDocument`
and `Expand`/`Execute` for the operations of the OpenAPI document. Swagger UI is
external: it needs the preset that brings its layout, resolves the URL against
the page, and puts a parameter into the path only where the document says so.

`MatchRulePage` has `Edit`, the two branches of `toggleWebSocket` (`ToggleOff`,
`ToggleOn`), `OnOpen`, `OnClose`, and `ServerCloses`. The button looks at the
socket of the variable `ws` only, the handlers of all sockets write its text.
A socket remembers in `left` the state it was in when a press put another one into that
variable. `MatchOf` is the server's list of
replacements, applied to `encodeURIComponent` of the rule. `Escapes` has the six marks
the server undoes and four more it does not (`"`, `&`, `%`, `#`), which stand for every other
mark; no name or path of D-Bus holds one of them, and `Plain` leaves them out.

`Browser` composes them: one tab, in which a visitor types a URL, follows links,
presses the button of a try page, reloads; `Describe` and `Publish` are the update
thread, which adds an interface (or replaces another service's) and then the object.
`linked` records that the visitor came by links only, `chosen` what was clicked.

### Signature, IntegerJson, DbusValues and Payload

`split` is a recursive function on sequences of one-character strings, one
recursion per turn of the loop, and `find_match_bracket` the least position at
which the brackets balance. Behind an `a` the code looks at one character, so
`aay` is cut into `aa` and `y`; the model does the same. At a bracket that is never
closed `find_match_bracket` returns 0 and the loop of `split` takes nothing, for
ever (`Stuck`). The model gives no result then; signatures from the bus and those
sd-bus accepted have their brackets closed.

`Payload` follows one call. Its state is the call, the message, the reply and
the body; `FillArgs`/`RefuseArgs` apply `FillMessage` to each argument,
`Serve` is the service, `ExtractArgs`/`FailOnReply` apply `ExtractMessage`.
Each conversion is a function with one more argument than the code has, the number
`n` of containers that may still be opened: `FillMessage[n]` is made of
`FillMessage[n - 1]` by `FillAny`, and what a container needs of the level below is
the parameter `deeper` of `FillArray`, `FillStruct`, `FillVariant`, and so on. The
code has no such number: sd-bus refuses to nest too deep, which is `Nesting`. The
results are records that tell whether something was thrown. Data is abstracted to what the
conversions tell apart: JSON is tagged by its kind, a text is an integer, an
integer with something behind it, a decimal number (of all three `stoll` takes the integer
they begin with, `Numeric`), a signature, or neither, and
integers have the widths `Width`, scaled down to two to five bits. JSON numbers
are cast to their type, as `json.get<T>()` does; texts are compared with the
limits, where `uint64_t` makes the comparison unsigned. An array is read until
one read fails, so its element must be readable at the end (`EndsCleanly`).

The properties compare this with `DbusValues`, where types are trees (`SigOf`, `HasType`,
`JsonOf`) that know nothing of how signatures are cut. `Convertible` lists the types the
code has a path for, `Plain` the values whose JSON is unambiguous. Outside them
the code does the following, all of which the model has: an empty dictionary
comes back as `null`; an `uint64` key of the upper half comes back negative;
boolean and double keys are refused; arrays of variants can be sent and not be
read; an `h` argument is skipped.
External: sd-bus refuses ill-formed signatures and incomplete containers.
Not modelled: the arguments' names (positions stand for them) and header fields.

### Lifecycle

`main` is a program counter with one action per statement that another thread
can notice; each `std::thread` is none, starting, running, ended or joined, and
the HTTP thread may be failed (`listen()` returned false) before `OnFailed`
tells `main`. `Die` is an exception nobody catches or a null pointer: a bus that
cannot be reached by the example, the proxy, the caller that `start()` makes, or the
signal socket (`NoBus`), a signal socket that could not listen and has no
D-Bus connection (`DbusNull`, `StopDeafSocket`), a short query (`ShortQuery`,
see `ThrowOnQuery` in `SignalSocket`). `Return` runs the destructors: a thread
that is still joinable terminates the process. External: httplib's `stop()`
does nothing to a server that is not running; sdbus-c++ and websocketpp leave a
loop also if they were told to before they entered it.

## What is checked

Runs with TLC; deadlock is not checked because the program may stop.

| Run | Instance | Shows |
|---|---|---|
| `RegistryMany` | names a, b (exposed), bus1 (unique); root and leaf; two interfaces, one shared and declared differently | `TypeOK`; `Described`: nothing listed that cannot be looked up; `CompleteScan`: an undisturbed scan recorded the tree; `CataloguePromise`: refinement of `Catalogue` |
| `RegistryLive` | a exposed, b without the prefix; a root with two branches, one of them two levels deep | `OnlyMatching`, `CompleteScan` on a tree where the recursion must come back to siblings; `StopJoins`; `EveryServiceListed` |
| `WebBrowse` | one worker, two services, two paths, the five kinds of listing | `CheckedLookupsSucceed`: a checked lookup never throws; `FollowUpsSucceed`: no 404 for a name from an earlier answer; `SealedListingExact`: a listing whose scan was over is returned whole although it is read without the lock |
| `WebCall` | one worker, two services that declare an interface with different methods, every kind of request | `TypeOKWeb`; `AnswersTruthful`: 200 only if executed, 400 only if nothing was sent (a 500 may be executed later); `SettledCallsExact`: a call that begins after the scans that declare its interface uses one definition, of a service that declares it, and it is the one that stays; `EveryRequestAnswered` |
| `SocketSafe` | two clients (symmetric), two signals of two interfaces, a narrow and a wide rule | `TypeOK`; `NoSlotLeaks`; `InOrderOnce`; `NothingMissed`; `OnlyLateSlots`: what `stop()` can leave behind; `SubscriptionPromise`: refinement of `Subscription` |
| `SocketLive` | one client, every kind of query, three signals | `StopReturns`: neither join of `stop()` waits for ever; `SignalsDispatched`: the D-Bus thread does not get stuck on a signal |
| `PayloadEcho` | 35 types with up to four values each, meant, proposed and odd requests, with and without binary support | `MessageTyped`: what is sent has the declared type; `PiecesComplete`: signatures are split as they were put together; `RoundTrip`: the echo of a request is the request; `ReplyAsSent`; `StringsChecked`; `SamplesAccepted` |
| `ProcessLife` | the whole process, with and without `--example` | `LifeTypeOK`; `NobodyLeftBehind`: no thread outlives `main`; `NeverHeadless`: `main` learns of a failed server; `EndsWhenAsked`: all joins return, unless the process dies or `server_.stop()` comes before `listen()` |
| `BrowserWalk` | two services that declare one interface differently, three objects, two of them roots, a method no request is proposed for; six URLs typed in; calls that fail; two sockets; a signal port other than the default | `TypeOK`; `CalledAsChosen`: over four pages, what is called is what was clicked on; `LinksAnswered`: no link leads to an empty page, and to an error only for a method that some service declared the interface without or that no request is proposed for; the port is passed on; `DocumentedAnswers`: an operation of the OpenAPI page is answered with a documented status, and with 200 exactly if the registry has what is asked for; `RuleArrives`: the server reads the rule the form showed; `StreamsAccounted`: a stream no press can end was left while it was connecting, and the label is wrong only after a socket was left before it was closed; `SchemaShown`: the page shows the document, opened where its URL says |

Three runs end in a counterexample, each to a sentence of the documentation:

| Run | Sentence | What the code does |
|---|---|---|
| `RegistryOverview` | README: "a live overview of the available DBus ecosystem" | listed services are never scanned again |
| `WebConverted` | README: "converts your JSON payload into the correct DBus message types" | interfaces are stored by name, so another service's definition may be used |
| `SchemaCall` | OpenAPI: "Use the query parameters to specify the target service/object/interface/method." | only the path is read; the parameters in the query are ignored and the templates of the path are parsed, so the answer, whatever it is, is about another call |

Other disagreements met on the way, which no run of its own checks. In the models:

- a failed introspection hides a subtree for good, because the service counts as
  listed (`IntrospectFails`; README: "Recursively enumerates all available DBus services");
- calls are not checked against the prefixes (`LookupMethod`; `--service_prefix`:
  "Only expose services with the given prefix");
- a signal of an interface the registry does not know is dropped (`UnknownSignal`;
  README: "forward matching signals");
- the query of a WebSocket is accepted if its first character is one of those of
  `match=`, which is what `find_first_of` asks, and a short one throws (`Kinds`;
  OpenAPI: "accepts a single "match" parameter");
- a JSON number too large for its type wraps, where the same number as a text is
  refused (`AppendIntegerFromJson`); arguments of several types cannot be sent at
  all: object paths, signatures, arrays of arrays, descriptors, boolean keys
  (`Convertible`; README: "Call any DBus method via an HTTP POST request");
- a decimal number in a text is sent as the integer it begins with, and a negative one
  for `uint64_t` as a large positive one (`Numeric`, `InLimits`);
- the pages link to every method, also to those for which the try page can only be an
  error, because no request can be proposed, and keep linking to a method whose
  interface was replaced (`Proposes`, `Describe`);
- a press on the button of the match rule page while the socket before is still
  connecting leaves a stream that no press can end, and a press that finds an open
  socket may leave another one open (`ToggleOn`, `StreamsAccounted`;
  `match_rule.inc`: "Close existing connection if open");
- marks a browser escapes and the server does not undo stay escaped in a match rule
  (`Escapes`);
- `/dbus/service/` and `/dbus/interface/` with a slash in the name answer 200 and
  nothing (`Blank`).

In the code only: README's `GET /introspect` has no route, and its
`POST /dbus/call/{service}/{object_path}/{interface}/{method}` is answered 400,
for want of a dot; `tests/test_methods.cpp` posts to a path without `/call`;
OpenAPI has `/dbus/service` return an array, the code an object with the array in
`services`; a 400 is documented as JSON and is plain text; `/dbus/signals` is
documented beside the HTTP routes and served at the other port only.

### Bounds

- Names: two services are what it takes to disturb a definition or a listing of
  one by a scan of the other; the third name is there to be ignored.
- Paths: two levels for parents before children; two branches and a grandchild
  for the return of the recursion. The proofs cover every tree.
- Workers: one. Workers share the registry, which they only read, the connection
  of `DbusCaller`, which keeps no state of a call in the models, and
  `Dbus2Html::ws_port`, which all of them set to the same value. So each meets
  the update thread alone, and `WebServiceProofs` covers any number of them.
- Clients: two, the fewest that can be served by one signal, or be opened and
  closed during one walk of `stop()`; each connects once (a client that comes
  back is another connection handle).
- Widths: two to five bits, so that each type has values the next narrower one
  lacks, `long long` is narrower than unsigned `t`, and all limits are tried.
- Types: those of `EchoService` and of the signatures in `all.json`, nested up to
  three deep; arrays and dictionaries of up to two elements (one to three when
  proposed), enough for a first, a last and an end.
- `MaxSignals`: two in `SocketSafe`, three in `SocketLive`; order and loss show
  with two. The proofs cover any number.
- `MaxSockets`: two, the fewest of which one can be an orphan of the other. The proofs
  cover any number.
- Pages: the root object, whose path is a slash and nothing else, a deeper one,
  and an interface of two services are the cases in which taking paths apart
  could go wrong; the two declare it with different methods, so that the second replaces
  what the first one's page linked to; one method is awkward; the signal port differs from the default of the page, so that a
  port not passed on is noticed. Every script, and the document, may be lost.

### Fairness

- `Registry!Fairness`: the update thread is scheduled, and its bus calls return
  because sdbus-c++ times out. `SF` on `ListServicesOk`: the bus daemon answers
  `ListNames` again and again and does not fail each time. Without it a service
  may never be listed. Nothing obliges services to appear, stay or answer.
- `WebFairSpec`: worker threads are scheduled and calls return (a timeout is
  `CallFails`). The update thread needs no fairness: handlers never wait for it.
- `SignalSocket!Fairness`: the WebSocket thread, the D-Bus thread and a `stop()`
  that has begun are scheduled. Clients, emitters and the decision to stop are not.
- `LifeFairSpec`: every thread and `main` are scheduled. Signals, failures and
  short queries need not happen. `Payload` has no liveness.
- `Browser!FairSpec`: the browser goes on with a page it has begun to load. What a
  visitor does is not fair, and the network may lose any file.

## What is proved

`RegistryProofs`, for all names, prefixes, interfaces and every finite tree of
paths, from the four assumptions in `Registry`:

- `TypeCorrect`: `Spec => []TypeOK`.
- `DescribedAlways`: `Spec => []Described`.
- `OnlyMatchingAlways`: `Spec => []OnlyMatching`.
- `CompleteScanAlways`: `Spec => []CompleteScan`.
- `KeepsPromise`: `Spec => CataloguePromise`, the refinement of `Catalogue`.
- `ScansComeToAnEnd`: `Spec => [][...]_vars`. While a scan goes on, each step of the
  update thread takes it nearer to its end (`Nearer`), and steps of others do not
  touch it.

`Described` is not inductive: the object in hand must name only interfaces that
were added (`InHand`), because `AddObject` publishes exactly that. `CompleteScan`
needs an invariant about a scan in progress. `Shape` ties the locals of the
recursion to the program counter. `Tree` says that the node in hand lists each
of its children once (`Node`), that objects are recorded after their parents
(`PrefixClosed`), and that what is still to be visited is new, distinct, and
hangs below what is recorded (`Frontier`). `Complete` adds that the node in hand
is what the service exports (`Faithful`), that what is recorded is what is
exported (`Sound`), and that the root and every exported child of a recorded
object is recorded or pending (`NothingLost`). When the scan ends, pending is
empty, so the recorded paths are closed under exported children and
`TreeAssumption`, induction over the tree stated about sets, makes them all of
the tree. `KeepsPromise` uses `Tree` and `Described` to show that each
`AddObject` is a `Publish`. `ScansComeToAnEnd` is what the prover can say of `StopJoins`,
which waits for a scan that nothing interrupts. A service may move its objects while it
is scanned; still, what the recursion may yet visit (`Ahead`, the pending paths and all
below them) is less by the node in hand when that is recorded, since the paths that
are neither recorded nor in hand are closed under children and hold all that is
pending. The lemmas `RestOfScan` and `RestDistinct` say what
`children \o Tail(pending)` holds; they are the whole reasoning about sequences.

`LifecycleProofs`, from no assumption:

- `TypeCorrect`: `LifeSpec => []LifeTypeOK`.
- `NobodyLeftBehindAlways`: `LifeSpec => []NobodyLeftBehind`.
- `NeverHeadlessAlways`: `LifeSpec => []NeverHeadless`.

The last two are not inductive: `Joins` adds that a join stays done from the place of
`main` behind it, and `Stops` that `listen()` returns normally only after
`stop_` is set, which is why that end of the HTTP thread is not a silent one.
`ThreadStep` covers all steps of threads that move on by themselves.

`WebServiceProofs`, for any number of workers, from `Registry`'s and
`WebService`'s assumptions:

- `HandlersOnlyRead`: `WebSpec => Spec`. What is proved of the registry alone holds
  beside the handlers, `PromiseBesideHandlers` (`WebSpec => CataloguePromise`) among it.
- `TypeCorrectWeb`, `CheckedLookupsSucceedAlways`, `FollowUpsSucceedAlways`,
  `SealedListingExactAlways`, `AnswersTruthfulAlways`, `SettledCallsExactAlways`:
  `WebSpec => []P` for the six invariants of the runs.

The invariant has one part per question, of one worker each (`HandlersInv`):
what was checked or read is still there (`Checked`), what was learned stays true
(`Learned`), where the call is (`Honest`), what an untouched reference says
(`Quiet`), that a listing whose scan is over is not written to (`Sealed`), and that a call
of a settled interface has what is in the registry (`SettledCall`). None of
the properties is inductive, because they speak of answers, and the handler comes
to its answer steps after it looked. Steps of other workers are dealt with by
`OthersAlone`; steps of the update thread by four facts: the registry only grows
(`Grows`), a definition changes only under a worker that is told so
(`RewritesTouch`, `TouchesHolders`), and a service that is listed and not being
scanned is never scanned again (`ScanIsOver`). From the last follows `SettledStays`: once
every service that may declare an interface is listed and not being scanned, no step
writes it, whatever the services do to their objects.

`SignalSocketProofs`, for any clients, rules and numbers of signals, from
`SocketAssumption`:

- `TypeCorrect`, `NoSlotLeaksAlways`, `InOrderOnceAlways`, `NothingMissedAlways`,
  `OnlyLateSlotsAlways`: `Spec => []P`.
- `KeepsPromise`: `Spec => SubscriptionPromise`, the refinement of `Subscription`.

`InOrderOnce` says nothing of what is still to come, so `Streams` adds that
everything sent lies before everything that waits, except the signal in hand,
sent to those who are done with it. `NothingMissed` is stated of open connections
with a stored slot; `NothingOwedLost` holds from the moment the slot is installed
and says that what waits is still owed, which is what makes the signals that
arrive between `AddMatch` and `StoreSlot` safe. `Slots` ties slot and connection,
`Hands` says that the callbacks to be run match the head of the inbox and belong to
connections that are not new, `Order` that the inbox is increasing, `Ending` how
far `stop()` has come. A step does one of few things to the streams: it leaves
them alone (`Quiet`), finishes callbacks (`Done`), or is one of `AddMatch`, `Emit`
and `Dispatch`; invariant and refinement are both proved along these cases.

`PayloadProofs`, for every table of types, every signature, every JSON, any widths of
at least two bits and any nesting, from `WidthAssumption`, `LongAssumption`
(`int64_t` and `uint64_t` have the same width), `DataAssumption` and
`InputsAssumption`. Of the functions:

- `MatchingBracket`: `find_match_bracket` returns the place of the bracket that closes
  the one at `left`, or 0 when there is none.
- `SplitCorrect`: `split(s)` succeeds exactly when `s` can be cut into pieces it knows
  (`Complete`), and returns the one way to cut it. `SplitConcatenates`: two
  signatures one behind the other are cut where the first one ends.
- `SplitEnds`: the loop of `split()` ends at every signature with balanced brackets. A
  turn that took nothing would be repeated for ever (`Stuck`); but a bracket behind any
  place of such a signature is closed behind it (`ClosedBehind`), because the count of
  open brackets falls by one at a time (`CountFalls`). The signatures of types are of
  that kind (`FlatBalanced`).
- `NumberTaken`, `TextChecked`: a JSON number becomes a value of its type, as itself if it
  is in range; a text is taken as the integer it begins with or refused, and a negative
  one for `uint64_t` arrives 2^64 higher.

Of a call:

- `PiecesCompleteAlways`, `MessageTypedAlways`, `StringsCheckedAlways`,
  `ReplyAsSentAlways`, `RoundTripAlways`, `SamplesAcceptedAlways`: `PayloadSpec => []P`.

`PiecesComplete` is about `SigOf`: by induction over the types (`TypeInduction`) every
signature is balanced in both kinds of brackets (`SigBalanced`), so a turn of `split` that
begins in front of a convertible type takes that type (`SplitBehind`, `WholeCut`).
`MessageTyped` is proved by induction over `Nesting`: `FillsTyped` says of one level
that whatever it writes for the signature of a list of types is one value for each of
them and has its type; `LevelTyped` carries it to the next level, one lemma per
container. It holds of types that are not convertible too, for which a signature may
be cut differently than it was put together: an array of arrays leaves a piece
`aa`, which throws (`Broken`, `BrokenRefused`). `StringsChecked` asks more than the type,
that a value stands where its text stood, which `FlattenFirst` says of the message.
`ReplyAsSent` is the way back, by the same kind of induction: `ReadsAs` says of one level
that what `ExtractMessage` reads for the signature of a list of types is what `JsonOf`
tells of the values, and `LevelReads` carries it on. For a dictionary it takes that keys
which are not the same have texts which are not the same (`KeyTold`); that is where the
conditions of `Plain` are needed. `ReplyInv` knows that the reply has the declared types:
`ProducesAssumption` for what a service makes, `MessageTyped` for what it echoes.
`RoundTrip` is the way there and back. `BacksAs` says of one level that what
`FillMessage` makes of the JSON that `JsonOf` tells of values is again one value for each
of them, of its type, plain and told alike (`Twin`). The values need not be the same ones:
an object has its members in an order of its own, so the entries of a dictionary may
arrive in another order, and JSON cannot tell. That order is used nowhere; an object
lists each member once (`ObjectLists`), which is all that is needed to find the entry of
a member and the member of an entry. `EchoInv` ties message and reply to `FillMethod`, and
the echo then is what `ReplyAsSent` says of a reply alike.
`SamplesAccepted` puts `Rand2Json` and `Json2Message` side by side: `Takes` says of one
level that what `RandJson` draws for the signature of convertible types `FillMessage`
takes, and `LevelTakes` carries it on. Two things could go wrong. The key of a dictionary
is drawn as a JSON of its type and becomes a text, which has to be read back as a number
of that type (`KeysTakenOver`): the numbers drawn are small enough for every width
(`SmallNumbers`, the reason why `WidthAssumption` asks for two bits). And what is drawn
for a variant has a signature of its own, `a{si}`, which `TypesAssumption` has among
the types.

`Recursion` and `Levels` are what these proofs and those of the pages rest on. TLA+
takes a recursive function for some function that solves its equation; that there
is one has to be shown. `RankRecursion` shows it for equations that look at
smaller arguments only, `StepRecursion` for those over a sequence, and `LevelOfLevel`
for functions whose value at `n` is made of the one at `n - 1`. Induction is
stated about sets of numbers (`Induction`, `RankInduction`), since the library's
theorems about it take an operator.

`BrowserProofs`, from `MaxSocketsAssumption`, `WordsAssumption` (what D-Bus allows as
names, methods and paths, and that no file lies below `/dbus/`), `SiteAssumption`,
`InputsAssumption` and `FormsAssumption`. The last two say that what is put into the form
of the match rule page holds no escape like `%20` and no mark that stays escaped, as no
name or path of D-Bus does; otherwise the rule would not be the one shown.

- `LinksParseBack`: `parse_dbus_request_path(CallPath(c)) = c` for every service and
  interface without a slash, every object path that begins with one, and every
  method with neither slash nor dot. The three marks that the parser looks for are
  found by their least or greatest position.
- `PathsReadBack`, the other way: `CallPath(parse_dbus_request_path(path)) = path` for
  every path in which the three marks are found, and the parts have their slashes and
  dots where the pages put them. So no two paths are taken for the same call.
- `EscapesUndone`: `MatchOf(encodeURIComponent(text)) = text` for every text that
  holds no escape itself and no mark the server does not undo. The replacements are
  chained; none touches what another one made.
- `RuleArrivesAlways`: `Spec => []RuleArrives`. The rule is made by a function over the
  fields of the form, so the proof is an induction over them.
- `StreamsAccountedAlways`: `Spec => []StreamsAccounted`, for any number of sockets and
  wherever else the visitor goes. It is inductive with `ButtonShape`
  (`ws` is the last of the sockets), `LeftBehind` (a press never replaces an open
  socket, and of those replaced only one left while connecting can open) and
  `LabelOwed` (what the label says of the sockets). What a change of one
  socket's state leaves alone is `OneSocketChanges`.
- `CalledAsChosenAlways`: `Spec => []CalledAsChosen`.
- `LinksAnsweredAlways`: `Spec => []LinksAnswered`.
- `DocumentedAnswersAlways`: `Spec => []DocumentedAnswers`. `PathOf` is a recursive function
  over the parts of a path; it is worked out for each path of the document, and the
  routes are tried on the result.
- `TypeCorrect`: `Spec => []TypeOK`, with `ButtonInv` for the sockets and `PageKinds`
  for the answers.

`CalledAsChosen` and `LinksAnswered` follow from `WalkInv`: each page of a walk knows what
was clicked on, an interface page by the query of its URL, a try page by its path
(`Way`), and an interface page lists the methods of one declaration of that interface, be
it a former one, which is what excuses an error later (`Excused`). `RegistryKept` says that
what was declared or listed stays so. That pages lead to each other is a lemma per
link, from `LinksParseBack` and from which routes fit a path: two fit the page of an interface, and the one meant
comes first.

Only model-checked:

- all liveness (`SchemaShown`, `EveryServiceListed`, `StopJoins`, `EveryRequestAnswered`,
  `StopReturns`, `SignalsDispatched`, `EndsWhenAsked`): temporal reasoning under
  fairness is beyond the prover;
- the three counterexamples, which are about one instance each.

## Plan

The order follows what the program is for: first what it knows of the bus, then
the calls and signals that rest on it, then the data they carry and the process
around them, then the pages in front of it. All modules named above are done, and
every invariant and every property of steps that a run checks is proved of its
specification. The rest of the plan is to keep up with the code: a new kind of type
is a case in `FillOne`, `ExtractOne` and `RandOne`, and a lemma in each of the three
inductions.

## Not modelled

- The Swagger UI bundles are vendored; what they do with their configuration is
  external in `SchemaPage`.
- `on_message` of the signal socket, which echoes a text; `HEAD`, `OPTIONS` and CORS
  headers; the message log and the clipboard of the match rule page; logging.
  None keeps a state that another part reads.
- Packaging, the example programs and the tests are not part of the running
  program; the example service is a service of the bus like any other.
- The XML syntax of an introspection and the layout of HTML and JSON carry no
  control.
- That the memory of `Dbus2Html::ws_port` and of `stop_` survives unsynchronised
  access is below the level of these models: the value written is always the same,
  or is read again.
