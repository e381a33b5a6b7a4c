--------------------------- MODULE LifecycleProofs ---------------------------
(***************************************************************************)
(* What main() guarantees at its end and while it waits, for every order   *)
(* of signals, failures and threads.                                       *)
(***************************************************************************)
EXTENDS Lifecycle, TLAPS

\* The places of main() behind each of its joins.
PastExample == {"return", "returned"}
PastService == {"stop example"} \cup PastExample
PastUpdate == {"stop http", "join service"} \cup PastService
PastDbus == {"stop proxy", "join update"} \cup PastUpdate
PastWs == {"join dbus"} \cup PastDbus

\* A join that main() has behind it stays done.
Joins ==
    /\ main \in PastWs => threads["ws"] = "joined"
    /\ main \in PastDbus => threads["dbus"] = "joined"
    /\ main \in PastUpdate => threads["update"] = "joined"
    /\ main \in PastService => threads["service"] = "joined"
    /\ main \in PastExample /\ example_option => threads["example"] = "joined"
    /\ ~example_option => threads["example"] = "none"

\* The server is stopped, and returns for that reason, only after stop_ is set.
Stops ==
    /\ main \in {"join update"} \cup PastUpdate => stop_
    /\ http_stopped => stop_

LifeInv == LifeTypeOK /\ Joins /\ Stops /\ NeverHeadless /\ fate # "terminated"

\* A thread that moves on by itself, and neither is nor becomes joined, keeps the
\* invariant; the service thread ends this way only after stop_.
LEMMA ThreadStep ==
  ASSUME LifeInv, NEW t \in Threads,
         NEW from \in {"starting", "running"}, NEW to \in {"running", "ended", "failed"},
         Become(t, from, to), UNCHANGED <<main, Flags, Mains>>,
         to = "failed" => t = "service",
         to = "ended" /\ t = "service" => stop_
  PROVE  LifeInv'
<1> USE DEF LifeInv
<1>1. /\ threads \in [Threads -> {"none", "starting", "running", "ended", "failed", "joined"}]
      /\ threads' = [threads EXCEPT ![t] = to]
      /\ threads[t] = from
  BY DEF LifeTypeOK, Become
<1>2. \A u \in Threads : threads'[u] = IF u = t THEN to ELSE threads[u]
  BY <1>1
<1>3. \A u \in Threads : /\ threads[u] = "joined" => threads'[u] = "joined"
                         /\ threads[u] = "none" => threads'[u] = "none"
  BY <1>1, <1>2
<1>4. UNCHANGED <<main, g_running, stop_, ws_stopped, http_stopped, left,
                  example_option, ws_listening, fate>>
  BY DEF Flags, Mains
<1>5. LifeTypeOK'
  <2>1. threads' \in [Threads -> {"none", "starting", "running", "ended", "failed", "joined"}]
    BY <1>1
  <2>2. \A u \in Threads \ {"service"} : threads'[u] # "failed"
    BY <1>2 DEF LifeTypeOK
  <2> QED
    BY <2>1, <2>2, <1>4, ZenonT(60) DEF LifeTypeOK
<1>6. Joins'
  BY <1>3, <1>4 DEF Joins, Threads, PastExample, PastService, PastUpdate, PastDbus, PastWs
<1>7. Stops'
  BY <1>4 DEF Stops
<1>8. NeverHeadless'
  BY <1>2, <1>4 DEF NeverHeadless, Threads
<1> QED
  BY <1>4, <1>5, <1>6, <1>7, <1>8

\* The strengthened invariant holds at the start and is kept by every step.
LEMMA LifeInductive == LifeSpec => []LifeInv
<1> USE DEF LifeInv, LifeTypeOK, Joins, Stops, NeverHeadless, Threads, PastExample, PastService,
            PastUpdate, PastDbus, PastWs
<1>1. LifeInit => LifeInv
  BY DEF LifeInit
<1>2. LifeInv /\ [LifeNext]_vars => LifeInv'
  <2> SUFFICES ASSUME LifeInv, [LifeNext]_vars PROVE LifeInv'
    OBVIOUS
  <2> USE DEF Flags, Mains, Main, Become, Die
  <2>1. CASE MainSteps
    <3>1. CASE LaunchExample
      BY <3>1, ZenonT(60) DEF LaunchExample
    <3>2. CASE ConstructProxy
      BY <3>2, ZenonT(60) DEF ConstructProxy
    <3>3. CASE StartProxy
      BY <3>3, ZenonT(60) DEF StartProxy
    <3>4. CASE ConstructSocket
      BY <3>4, ZenonT(60) DEF ConstructSocket
    <3>5. CASE StartSocket
      BY <3>5, ZenonT(60) DEF StartSocket
    <3>6. CASE LeaveWait
      BY <3>6, ZenonT(60) DEF LeaveWait
    <3>7. CASE StopSocket
      BY <3>7, ZenonT(60) DEF StopSocket
    <3>8. CASE StopDeafSocket
      BY <3>8, ZenonT(60) DEF StopDeafSocket
    <3>9. CASE JoinWs
      BY <3>9, ZenonT(60) DEF JoinWs
    <3>10. CASE JoinDbus
      BY <3>10, ZenonT(60) DEF JoinDbus
    <3>11. CASE StopProxy
      BY <3>11, ZenonT(60) DEF StopProxy
    <3>12. CASE JoinUpdate
      BY <3>12, ZenonT(60) DEF JoinUpdate
    <3>13. CASE StopHttp
      BY <3>13, ZenonT(60) DEF StopHttp
    <3>14. CASE JoinService
      BY <3>14, ZenonT(60) DEF JoinService
    <3>15. CASE JoinExample
      BY <3>15, ZenonT(60) DEF JoinExample
    <3>16. CASE Return
      BY <3>16, ZenonT(60) DEF Return
    <3> QED
      BY <2>1, <3>1, <3>2, <3>3, <3>4, <3>5, <3>6, <3>7, <3>8,
         <3>9, <3>10, <3>11, <3>12, <3>13, <3>14, <3>15, <3>16 DEF MainSteps
  <2>2. CASE NoBus
    BY <2>2, ZenonT(60) DEF NoBus
  <2>3. CASE handle_sigint
    BY <2>3, ZenonT(60) DEF handle_sigint
  <2>4. CASE Listen
    BY ONLY <2>4, LifeInv, ThreadStep DEF Listen, Threads
  <2>5. CASE AcceptFails
    BY ONLY <2>5, LifeInv, ThreadStep DEF AcceptFails, Threads
  <2>6. CASE ListenReturns
    BY <2>6, ZenonT(60) DEF ListenReturns
  <2>7. CASE OnFailed
    BY <2>7, ZenonT(60) DEF OnFailed
  <2>8. CASE UpdateEnds
    BY <2>8, ZenonT(60) DEF UpdateEnds
  <2>9. CASE WsRuns
    BY ONLY <2>9, LifeInv, ThreadStep DEF WsRuns, Threads
  <2>10. CASE ShortQuery
    BY <2>10, ZenonT(60) DEF ShortQuery
  <2>11. CASE DbusRuns
    BY ONLY <2>11, LifeInv, ThreadStep DEF DbusRuns, Threads
  <2>12. CASE DbusNull
    BY <2>12, ZenonT(60) DEF DbusNull
  <2>13. CASE ExampleRuns
    <3>1. CASE Become("example", "starting", "running")
      BY ONLY <3>1, <2>13, LifeInv, ThreadStep DEF ExampleRuns, Threads
    <3>2. CASE Become("example", "starting", "ended")
      BY ONLY <3>2, <2>13, LifeInv, ThreadStep DEF ExampleRuns, Threads
    <3>3. CASE Become("example", "running", "ended")
      BY ONLY <3>3, <2>13, LifeInv, ThreadStep DEF ExampleRuns, Threads
    <3> QED
      BY <2>13, <3>1, <3>2, <3>3 DEF ExampleRuns
  <2>14. CASE UNCHANGED vars
    <3>1. LifeTypeOK' /\ fate' # "terminated"
      BY <2>14, ZenonT(60) DEF vars
    <3>2. Joins' /\ Stops' /\ NeverHeadless'
      BY <2>14 DEF vars
    <3> QED
      BY ONLY <3>1, <3>2 DEF LifeInv
  <2> QED
    BY <2>1, <2>2, <2>3, <2>4, <2>5, <2>6, <2>7,
       <2>8, <2>9, <2>10, <2>11, <2>12, <2>13, <2>14 DEF LifeNext, ServiceSteps
<1> HIDE DEF LifeInv
<1> QED
  BY <1>1, <1>2, PTL DEF LifeSpec

\* main() and its threads stay in the states they have names for; of the threads
\* only that of the HTTP server can fail.
THEOREM TypeCorrect == LifeSpec => []LifeTypeOK
<1>1. LifeInv => LifeTypeOK
  BY DEF LifeInv
<1> QED
  BY <1>1, LifeInductive, PTL

\* main() never returns with a thread behind it, which std::thread's destructor
\* would answer by ending the process.
THEOREM NobodyLeftBehindAlways == LifeSpec => []NobodyLeftBehind
<1>1. LifeInv => NobodyLeftBehind
  BY DEF LifeInv, LifeTypeOK, Joins, NobodyLeftBehind, Threads, PastExample, PastService,
         PastUpdate, PastDbus, PastWs
<1> QED
  BY <1>1, LifeInductive, PTL

\* The process does not go on waiting after its HTTP server has failed.
THEOREM NeverHeadlessAlways == LifeSpec => []NeverHeadless
<1>1. LifeInv => NeverHeadless
  BY DEF LifeInv
<1> QED
  BY <1>1, LifeInductive, PTL
==============================================================================
