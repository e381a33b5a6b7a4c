------------------------------ MODULE Lifecycle ------------------------------
(***************************************************************************)
(* The life of the process: main() constructs and starts the parts, waits  *)
(* for g_running to fall, stops them one after the other and returns.      *)
(*                                                                         *)
(* What a part does while it runs is the matter of the other modules; here *)
(* a thread is none, starting, running, ended or joined.  The service      *)
(* thread has a state failed: listen() returned false.                     *)
(***************************************************************************)
EXTENDS Naturals

VARIABLES
    g_running, stop_,
    example_option,   \* --example
    main,             \* where main() is
    threads,          \* the state of each std::thread
    ws_listening,     \* SignalSocket's listen() succeeded
    ws_stopped, http_stopped, left,   \* who was told to leave its loop
    fate              \* "alive", or what ended the process early

vars == <<g_running, stop_, example_option, main, threads, ws_listening,
          ws_stopped, http_stopped, left, fate>>

Threads == {"example", "service", "update", "ws", "dbus"}

LifeInit ==
    /\ g_running = TRUE
    /\ stop_ = FALSE
    /\ example_option \in BOOLEAN
    /\ main = "example"
    /\ threads = [t \in Threads |-> "none"]
    /\ ws_listening = FALSE
    /\ ws_stopped = FALSE
    /\ http_stopped = FALSE
    /\ left = {}
    /\ fate = "alive"

\* An exception nobody catches, or a null pointer followed.
Die(why) ==
    /\ fate' = why
    /\ UNCHANGED <<g_running, stop_, example_option, main, threads, ws_listening,
                   ws_stopped, http_stopped, left>>

\* What is left alone by a step of main() and by a step of a thread.
Flags == <<g_running, stop_, ws_stopped, http_stopped, left>>
Mains == <<example_option, ws_listening, fate>>

Main(from, to) == fate = "alive" /\ main = from /\ main' = to
Become(t, from, to) ==
    fate = "alive" /\ threads[t] = from /\ threads' = [threads EXCEPT ![t] = to]

-----------------------------------------------------------------------------
\* main(), until it waits

LaunchExample ==
    /\ Main("example", "proxy")
    /\ threads' = IF example_option THEN [threads EXCEPT !["example"] = "starting"] ELSE threads
    /\ UNCHANGED <<Flags, Mains>>

\* createConnection() throws out of main(): for the example service, the
\* proxy, its caller (in start(), before the threads are made) or, if it could
\* listen, the signal socket.
NoBus ==
    /\ fate = "alive"
    /\ main \in {"proxy", "start", "socket"} \/ (main = "example" /\ example_option)
    /\ Die("no bus")

ConstructProxy ==
    /\ Main("proxy", "start")
    /\ UNCHANGED <<threads, Flags, Mains>>

StartProxy ==
    /\ Main("start", "socket")
    /\ threads' = [threads EXCEPT !["service"] = "starting", !["update"] = "running"]
    /\ UNCHANGED <<Flags, Mains>>

\* When listen() fails the constructor returns without a D-Bus connection.
ConstructSocket ==
    /\ Main("socket", "start socket")
    /\ ws_listening' \in BOOLEAN
    /\ UNCHANGED <<threads, Flags, example_option, fate>>

StartSocket ==
    /\ Main("start socket", "wait")
    /\ threads' = [threads EXCEPT !["ws"] = "starting", !["dbus"] = "starting"]
    /\ UNCHANGED <<Flags, Mains>>

-----------------------------------------------------------------------------
\* main(), once g_running is false

LeaveWait ==
    /\ Main("wait", "stop socket")
    /\ ~g_running
    /\ UNCHANGED <<threads, Flags, Mains>>

\* SignalSocket::stop(), up to the join of its first thread.
StopSocket ==
    /\ Main("stop socket", "join ws")
    /\ ws_listening
    /\ ws_stopped' = TRUE
    /\ UNCHANGED <<threads, g_running, stop_, http_stopped, left, Mains>>

\* stop_listening() throws on a socket that does not listen.
StopDeafSocket ==
    /\ fate = "alive" /\ main = "stop socket"
    /\ ~ws_listening
    /\ Die("no websocket")

\* Mutant of JoinWs: the D-Bus loop is not told to leave.
JoinWsOnly ==
    /\ Main("join ws", "join dbus")
    /\ Become("ws", "ended", "joined")
    /\ UNCHANGED <<Flags, Mains>>

JoinWs ==
    /\ Main("join ws", "join dbus")
    /\ Become("ws", "ended", "joined")
    /\ left' = left \cup {"dbus"}
    /\ UNCHANGED <<g_running, stop_, ws_stopped, http_stopped, Mains>>

JoinDbus ==
    /\ Main("join dbus", "stop proxy")
    /\ Become("dbus", "ended", "joined")
    /\ UNCHANGED <<Flags, Mains>>

\* Dbus2Http::stop() tells its threads before it waits for them.
StopProxy ==
    /\ Main("stop proxy", "join update")
    /\ stop_' = TRUE
    /\ UNCHANGED <<threads, g_running, ws_stopped, http_stopped, left, Mains>>

\* Mutant of JoinUpdate: the thread is not waited for.
ForgetUpdate ==
    /\ Main("join update", "stop http")
    /\ UNCHANGED <<threads, Flags, Mains>>

JoinUpdate ==
    /\ Main("join update", "stop http")
    /\ Become("update", "ended", "joined")
    /\ UNCHANGED <<Flags, Mains>>

\* server_.stop() does nothing to a server that is not (yet) running.
StopHttp ==
    /\ Main("stop http", "join service")
    /\ http_stopped' = (threads["service"] = "running")
    /\ UNCHANGED <<threads, g_running, stop_, ws_stopped, left, Mains>>

JoinService ==
    /\ Main("join service", "stop example")
    /\ Become("service", "ended", "joined")
    /\ left' = IF example_option THEN left \cup {"example"} ELSE left
    /\ UNCHANGED <<g_running, stop_, ws_stopped, http_stopped, Mains>>

JoinExample ==
    /\ Main("stop example", "return")
    /\ IF example_option THEN Become("example", "ended", "joined") ELSE UNCHANGED threads
    /\ UNCHANGED <<Flags, Mains>>

\* The destructors at the end of main(): one of a thread that was not joined
\* terminates the process.
Return ==
    /\ Main("return", "returned")
    /\ fate' = IF \A t \in Threads : threads[t] \in {"none", "joined"} THEN "alive" ELSE "terminated"
    /\ UNCHANGED <<threads, Flags, example_option, ws_listening>>

-----------------------------------------------------------------------------
\* the threads

\* SIGINT or SIGTERM.
handle_sigint ==
    /\ fate = "alive" /\ main # "returned"
    /\ g_running' = FALSE
    /\ UNCHANGED <<stop_, ws_stopped, http_stopped, left, main, threads, Mains>>

\* server_.listen() gets the port or not.
Listen ==
    /\ Become("service", "starting", "running") \/ Become("service", "starting", "failed")
    /\ UNCHANGED <<main, Flags, Mains>>

AcceptFails ==
    /\ Become("service", "running", "failed")
    /\ UNCHANGED <<main, Flags, Mains>>

\* listen() returns true once its workers are idle.
ListenReturns ==
    /\ http_stopped
    /\ Become("service", "running", "ended")
    /\ UNCHANGED <<main, Flags, Mains>>

\* Mutant of OnFailed: main() is not told.
OnFailedQuietly ==
    /\ Become("service", "failed", "ended")
    /\ UNCHANGED <<main, Flags, Mains>>

OnFailed ==
    /\ Become("service", "failed", "ended")
    /\ g_running' = (g_running /\ stop_)
    /\ UNCHANGED <<stop_, ws_stopped, http_stopped, left, main, Mains>>

\* Mutant of UpdateEnds: an update that fails ends the thread.
UpdateFails ==
    /\ Become("update", "running", "failed")
    /\ UNCHANGED <<main, Flags, Mains>>

\* The loop of the update thread; see Registry for what it does.
UpdateEnds ==
    /\ stop_
    /\ Become("update", "running", "ended")
    /\ UNCHANGED <<main, Flags, Mains>>

\* ws_server_.run(), which returns at once if it was stopped or never listened.
WsRuns ==
    /\ \/ ws_listening /\ Become("ws", "starting", "running")
       \/ ~ws_listening /\ Become("ws", "starting", "ended")
       \/ ws_stopped /\ Become("ws", "running", "ended")
    /\ UNCHANGED <<main, Flags, Mains>>

\* A query too short for substr(); see ThrowOnQuery of SignalSocket.
ShortQuery ==
    /\ fate = "alive" /\ threads["ws"] = "running"
    /\ Die("query")

\* enterEventLoop() returns after leaveEventLoop(), whichever comes first.
DbusRuns ==
    /\ \/ ws_listening /\ Become("dbus", "starting", "running")
       \/ "dbus" \in left /\ Become("dbus", "running", "ended")
    /\ UNCHANGED <<main, Flags, Mains>>

\* The thread follows the null dbus_connection_.
DbusNull ==
    /\ fate = "alive" /\ threads["dbus"] = "starting" /\ ~ws_listening
    /\ Die("no websocket")

\* RunExample() ends early when the bus refuses it.
ExampleRuns ==
    /\ \/ Become("example", "starting", "running")
       \/ Become("example", "starting", "ended")
       \/ "example" \in left /\ Become("example", "running", "ended")
    /\ UNCHANGED <<main, Flags, Mains>>

MainSteps ==
    \/ LaunchExample \/ ConstructProxy \/ StartProxy \/ ConstructSocket \/ StartSocket
    \/ LeaveWait \/ StopSocket \/ StopDeafSocket \/ JoinWs \/ JoinDbus
    \/ StopProxy \/ JoinUpdate \/ StopHttp \/ JoinService \/ JoinExample \/ Return

ServiceSteps == Listen \/ ListenReturns \/ OnFailed

LifeNext ==
    \/ MainSteps \/ NoBus \/ handle_sigint
    \/ ServiceSteps \/ AcceptFails
    \/ UpdateEnds \/ WsRuns \/ ShortQuery \/ DbusRuns \/ DbusNull \/ ExampleRuns

LifeSpec == LifeInit /\ [][LifeNext]_vars

\* Threads are scheduled; signals, clients and errors need not come.
LifeFairSpec ==
    /\ LifeSpec
    /\ WF_vars(MainSteps) /\ WF_vars(ServiceSteps) /\ WF_vars(UpdateEnds)
    /\ WF_vars(WsRuns) /\ WF_vars(DbusRuns) /\ WF_vars(DbusNull) /\ WF_vars(ExampleRuns)

-----------------------------------------------------------------------------

LifeTypeOK ==
    /\ g_running \in BOOLEAN /\ stop_ \in BOOLEAN /\ example_option \in BOOLEAN
    /\ ws_listening \in BOOLEAN /\ ws_stopped \in BOOLEAN /\ http_stopped \in BOOLEAN
    /\ threads \in [Threads -> {"none", "starting", "running", "ended", "failed", "joined"}]
    /\ \A t \in Threads \ {"service"} : threads[t] # "failed"
    /\ left \subseteq {"dbus", "example"}
    /\ fate \in {"alive", "no bus", "no websocket", "query", "terminated"}
    /\ main \in {"example", "proxy", "start", "socket", "start socket", "wait", "stop socket",
                 "join ws", "join dbus", "stop proxy", "join update", "stop http",
                 "join service", "stop example", "return", "returned"}

\* When main() returns, and its locals are destroyed, no thread runs any more that
\* uses them: with every combination of options, failures and early signals.
NobodyLeftBehind ==
    /\ fate # "terminated"
    /\ main \in {"return", "returned"} => \A t \in Threads : threads[t] \in {"none", "joined"}

\* The process does not go on without its HTTP server: once listen() has failed
\* and its thread is over, main() has been told to end.
NeverHeadless ==
    threads["service"] = "ended" /\ ~stop_ => ~g_running

\* server_.stop() came before listen(), which nobody will stop any more.
StopLost == main = "join service" /\ threads["service"] = "running" /\ ~http_stopped

\* Once asked to end, by a signal or by the failed HTTP server, main() gets
\* through all its joins, unless the process dies or the stop of the server is lost.
EndsWhenAsked == ~g_running ~> (main = "returned" \/ fate # "alive" \/ StopLost)
==============================================================================
