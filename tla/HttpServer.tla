----------------------------- MODULE HttpServer -----------------------------
(***************************************************************************)
(* The web side of the server (http_handler.c) with what it shares with    *)
(* the other threads: the alert history, the lock of the client list, the  *)
(* log, and the start and the shutdown sequence of main (server.c).  The   *)
(* readers of the history are the threads that serve an HTTP request each; *)
(* the metrics thread is the writer, and an alert is the number of the     *)
(* cycle that raised it.                                                   *)
(*                                                                         *)
(* Elsewhere: what a cycle computes and what it sends (MonitoringServer),  *)
(* whether a login is right (AuthService), the sessions of the TCP clients *)
(* and their part of the shutdown (ConnectionRegistry).                    *)
(***************************************************************************)
EXTENDS AlertSystem, FiniteSets

CONSTANT MaxCycles  \* cycles of the metrics thread considered

ASSUME NamesAssumption == {"main", "acceptor", "metrics"} \cap (Readers \cup {Free}) = {}
ASSUME CyclesAssumption == MaxCycles \in Nat /\ 1 .. MaxCycles \subseteq Alerts

Threads == {"main", "acceptor", "metrics"} \cup Readers

VARIABLES
  pc,           \* pc[t]: where thread t is
  httpStop,     \* g_http_stop
  httpOpen,     \* g_http_fd is a descriptor, not -1
  listening,    \* the socket behind it accepts: it has not been shut down
  metricsStop,  \* g_stop_flag
  cycle,        \* the ticks made so far
  news,         \* the alerts of this cycle that are still to be broadcast
  route,        \* route[r]: the page r makes
  todo,         \* todo[r]: what r still reads for the page it makes
  snap,         \* snap[r]: the cycle of the snapshot on r's page
  destroyed,    \* g_history_lock is destroyed: taking it fails, and takes nothing
  logLock, logOpen, onStderr, inFile  \* see Logger

L == INSTANCE Logger WITH Writers <- Threads, Nobody <- Free

socket == <<httpStop, httpOpen, listening>>
page == <<route, todo, snap>>
logger == <<logLock, logOpen, onStderr, inFile>>
others == <<metricsStop, cycle, news, destroyed>>
httpVars == <<vars, pc, socket, page, logger, others>>

Running == pc["main"] \notin {"exited", "crashed"}

\* The metrics thread is in connection_broadcast: it holds g_registry_lock and
\* writes to the clients.
Sending == {"sendMetric", "sendAlert"}

\* main, when its modules are initialised and its socket listens: the metrics
\* thread is about to begin.
HttpInit ==
  /\ Init /\ \E open \in BOOLEAN : L!LoggerInit(open)
  /\ pc = [t \in Threads |-> CASE t = "main"     -> "start"
                               [] t = "acceptor" -> "none"
                               [] t = "metrics"  -> "begin"
                               [] OTHER          -> "away"]
  /\ httpStop = FALSE /\ metricsStop = FALSE
  /\ httpOpen = FALSE /\ listening = FALSE
  /\ cycle = 0 /\ news = 0
  /\ route = [r \in Readers |-> "none"]
  /\ todo = [r \in Readers |-> <<>>]
  /\ snap = [r \in Readers |-> 0]
  /\ destroyed = FALSE

Goto(t, from, to) == pc[t] = from /\ pc' = [pc EXCEPT ![t] = to]

-----------------------------------------------------------------------------
(* The log calls.  A thread at one of these places writes an entry and goes   *)
(* on; log calls of a thread in a row are one entry.                          *)

AfterLogging ==
  [ready |-> "serve", cleanup |-> "raise", bye |-> "closeLog",
   hello |-> "check", farewell |-> "ended",
   begin |-> "loop", logMetric |-> "evaluate", logAlert |-> "alerts", end |-> "ended",
   log |-> "route"]

\* logger_write, called by thread t: two steps.
LogLine(t) ==
  /\ pc[t] \in DOMAIN AfterLogging
  /\ \/ /\ L!WriteStderr(t, <<t, pc[t]>>)
        /\ UNCHANGED pc
     \/ /\ L!WriteFile(t, <<t, pc[t]>>)
        /\ pc' = [pc EXCEPT ![t] = AfterLogging[@]]
  /\ UNCHANGED <<vars, socket, page, others>>

-----------------------------------------------------------------------------
(* The metrics thread *)

\* equipment_simulate_tick; connection_broadcast takes its lock, which nobody else
\* here keeps.
Tick ==
  /\ Goto("metrics", "loop", "sendMetric")
  /\ ~ metricsStop /\ cycle < MaxCycles
  /\ cycle' = cycle + 1
  /\ UNCHANGED <<vars, socket, page, logger, metricsStop, news, destroyed>>

\* connection_broadcast has sent the line to every client, and lets the lock go.
Sent ==
  /\ \/ Goto("metrics", "sendMetric", "logMetric")
     \/ Goto("metrics", "sendAlert", "logAlert")
  /\ UNCHANGED <<vars, socket, page, logger, others>>

\* alert_evaluate stores an alert for each threshold that is passed.
Raise ==
  /\ pc["metrics"] = "evaluate"
  /\ Push(cycle)
  /\ news' = news + 1
  /\ UNCHANGED <<pc, socket, page, logger, metricsStop, cycle, destroyed>>

Evaluated ==
  /\ Goto("metrics", "evaluate", "alerts")
  /\ UNCHANGED <<vars, socket, page, logger, others>>

\* The alerts of the cycle are broadcast one by one.
NextAlert ==
  /\ \/ news > 0 /\ news' = news - 1 /\ Goto("metrics", "alerts", "sendAlert")
     \/ news = 0 /\ Goto("metrics", "alerts", "loop") /\ UNCHANGED news
  /\ UNCHANGED <<vars, socket, page, logger, metricsStop, cycle, destroyed>>

MetricsEnd ==
  /\ Goto("metrics", "loop", "end")
  /\ metricsStop
  /\ UNCHANGED <<vars, socket, page, logger, others>>

-----------------------------------------------------------------------------
(* http_accept_loop *)

CheckStop ==
  /\ Goto("acceptor", "check", IF httpStop THEN "farewell" ELSE "accept")
  /\ UNCHANGED <<vars, socket, page, logger, others>>

\* accept is called with what g_http_fd is now: it waits, or fails with EINVAL
\* after the shutdown, or with EBADF.
CallAccept ==
  /\ Goto("acceptor", "accept", CASE ~ httpOpen -> "farewell"
                                  [] httpOpen /\ ~ listening -> "check"
                                  [] OTHER -> "waiting")
  /\ UNCHANGED <<vars, socket, page, logger, others>>

\* A connection is accepted.  It gets a thread; or none, as there is no memory for
\* the argument (the connection is closed) or pthread_create fails unseen (it stays
\* open).  In the second case the thread that is detached next is none either: th
\* is not initialised.
AcceptConnection(r) ==
  /\ pc["acceptor"] = "waiting" /\ listening
  /\ pc[r] = "away"
  /\ \/ \E to \in {"recv", "unserved"} :
          pc' = [pc EXCEPT !["acceptor"] = "check", ![r] = to]
     \/ pc' = [pc EXCEPT !["main"] = "crashed"]
  /\ UNCHANGED <<vars, socket, page, logger, others>>

\* Another error, such as having no descriptor left: the loop goes on.
AcceptFails ==
  /\ Goto("acceptor", "waiting", "check")
  /\ UNCHANGED <<vars, socket, page, logger, others>>

\* The shutdown of the socket wakes the thread that waits on it.
AcceptWoken ==
  /\ ~ listening
  /\ Goto("acceptor", "waiting", "check")
  /\ UNCHANGED <<vars, socket, page, logger, others>>

-----------------------------------------------------------------------------
(* A request and its thread *)

\* Variant with a planted fault: generate_dashboard copies the alerts first.
ReadsAlertsFirst ==
  [page |-> <<>>, status |-> <<"snapshot">>, sensors |-> <<"clients">>,
   alerts |-> <<"alerts">>, dashboard |-> <<"alerts", "snapshot", "clients">>]

\* What handle_request and its pages read, one after the other, of the state
\* they share: / and /login, an unknown path and a dashboard without the cookie
\* read nothing that changes here.
Reads ==
  [page |-> <<>>, status |-> <<"snapshot">>, sensors |-> <<"clients">>,
   alerts |-> <<"alerts">>, dashboard |-> <<"snapshot", "clients", "alerts">>]

\* recv has returned a request, which is logged and then made out; or what is none,
\* or not a GET, and is answered at once; or nothing.
Receive(r) ==
  /\ \E to \in {"log", "make", "unserved"} : Goto(r, "recv", to)
  /\ UNCHANGED <<vars, socket, page, logger, others>>

\* handle_request, after the log call: which page it is.
Choose(r) ==
  /\ Goto(r, "route", "make")
  /\ \E p \in DOMAIN Reads :
       route' = [route EXCEPT ![r] = p] /\ todo' = [todo EXCEPT ![r] = Reads[p]]
  /\ UNCHANGED <<vars, socket, snap, logger, others>>

Reading(r, what) == pc[r] = "make" /\ todo[r] # <<>> /\ Head(todo[r]) = what

\* equipment_state_read
ReadSnapshot(r) ==
  /\ Reading(r, "snapshot")
  /\ snap' = [snap EXCEPT ![r] = cycle]
  /\ todo' = [todo EXCEPT ![r] = Tail(@)]
  /\ UNCHANGED <<vars, pc, socket, route, logger, others>>

\* connection_registry_count waits for its lock; the number is not kept here.
CountClients(r) ==
  /\ Reading(r, "clients") /\ pc["metrics"] \notin Sending
  /\ todo' = [todo EXCEPT ![r] = Tail(@)]
  /\ UNCHANGED <<vars, pc, socket, route, snap, logger, others>>

\* alert_history_copy
CopyAlerts(r) ==
  /\ Reading(r, "alerts")
  /\ \/ ~ destroyed /\ CopyBegin(r) /\ UNCHANGED todo
     \/ CopyRecord(r) /\ UNCHANGED todo
     \/ CopyEnd(r) /\ todo' = [todo EXCEPT ![r] = Tail(@)]
  /\ UNCHANGED <<pc, socket, route, snap, logger, others>>

\* alert_history_copy when its mutex is destroyed: the same, without exclusion.
\* One step will do, as nobody writes any more (HistoryRests).
CopyUnlocked(r) ==
  /\ Reading(r, "alerts") /\ destroyed
  /\ answer' = [answer EXCEPT ![r] = [k \in 1 .. ToCopy(r) |->
                  ring[Slot(Oldest + (Available - ToCopy(r)) + k - 1)]]]
  /\ todo' = [todo EXCEPT ![r] = Tail(@)]
  /\ UNCHANGED <<history, lock, job, out, pc, socket, route, snap, logger, others>>

\* send_response, and close: a page fits into the buffer of its own socket.
Respond(r) ==
  /\ todo[r] = <<>>
  /\ Goto(r, "make", "answered")
  /\ route' = [route EXCEPT ![r] = "none"] /\ snap' = [snap EXCEPT ![r] = 0]
  /\ UNCHANGED <<vars, todo, socket, logger, others>>

-----------------------------------------------------------------------------
(* main: the start *)

\* http_server_start: it fails, on the socket or its port, and main goes on; or
\* the socket listens.  Then too the thread may be missing, unseen.
StartHttp ==
  /\ \/ /\ Goto("main", "start", "ready")
        /\ UNCHANGED <<httpOpen, listening>>
     \/ /\ pc["main"] = "start"
        /\ httpOpen' = TRUE /\ listening' = TRUE
        /\ \E thread \in {"hello", "none"} :
             pc' = [pc EXCEPT !["main"] = "ready", !["acceptor"] = thread]
  /\ UNCHANGED <<vars, httpStop, page, logger, others>>

\* The accept loop of main ends on any error of accept, and on SIGINT.  Any thread
\* may take that signal: one that waits in accept or recv returns with EINTR.
LeaveLoop ==
  /\ pc["main"] = "serve"
  /\ \/ pc' = [pc EXCEPT !["main"] = "cleanup"]
     \/ /\ pc["acceptor"] = "waiting"
        /\ pc' = [pc EXCEPT !["main"] = "cleanup", !["acceptor"] = "farewell"]
     \/ \E r \in Readers :
          /\ pc[r] = "recv"
          /\ pc' = [pc EXCEPT !["main"] = "cleanup", ![r] = "unserved"]
  /\ UNCHANGED <<vars, socket, page, logger, others>>

-----------------------------------------------------------------------------
(* main: the shutdown.  http_server_stop comes first: the flag, the socket,   *)
(* and the thread.                                                            *)

RaiseStop ==
  /\ Goto("main", "raise", IF httpOpen THEN "shut" ELSE "join")
  /\ httpStop' = TRUE
  /\ UNCHANGED <<vars, httpOpen, listening, page, logger, others>>

\* Variant with a planted fault: the socket is closed only, which a thread that
\* waits on it does not notice.
ShutSocketNot ==
  /\ Goto("main", "shut", "close")
  /\ UNCHANGED <<vars, socket, page, logger, others>>

\* shutdown(g_http_fd, SHUT_RDWR)
ShutSocket ==
  /\ Goto("main", "shut", "close")
  /\ listening' = FALSE
  /\ UNCHANGED <<vars, httpStop, httpOpen, page, logger, others>>

\* close, and g_http_fd = -1: what accept returns for either is the same.
CloseSocket ==
  /\ Goto("main", "close", "join")
  /\ httpOpen' = FALSE
  /\ UNCHANGED <<vars, httpStop, listening, page, logger, others>>

\* pthread_join(g_http_tid) is called as well when no such thread was made:
\* undefined, it fails or takes the process down.  metrics_request_stop is next.
JoinAcceptor ==
  /\ \/ pc["acceptor"] = "ended" /\ Goto("main", "join", "joinMetrics")
     \/ pc["acceptor"] = "none" /\ \E to \in {"joinMetrics", "crashed"} : Goto("main", "join", to)
  /\ metricsStop' = TRUE
  /\ UNCHANGED <<vars, socket, page, logger, cycle, news, destroyed>>

\* Variant with a planted fault: the metrics thread is not waited for.
DestroyAtOnce ==
  /\ Goto("main", "joinMetrics", "bye")
  /\ destroyed' = (lock = Free)
  /\ UNCHANGED <<vars, socket, page, logger, metricsStop, cycle, news>>

\* pthread_join(metrics_tid); the connections are closed, see ConnectionRegistry;
\* alert_system_destroy: a mutex that is held is not destroyed (EBUSY).
Destroy ==
  /\ pc["metrics"] = "ended"
  /\ Goto("main", "joinMetrics", "bye")
  /\ destroyed' = (lock = Free)
  /\ UNCHANGED <<vars, socket, page, logger, metricsStop, cycle, news>>

\* logger_close
CloseLog ==
  /\ Goto("main", "closeLog", "exit")
  /\ L!Close
  /\ UNCHANGED <<vars, socket, page, others>>

\* main returns: every thread ends.
Exit ==
  /\ Goto("main", "exit", "exited")
  /\ UNCHANGED <<vars, socket, page, logger, others>>

-----------------------------------------------------------------------------

Main ==
  \/ LogLine("main") \/ StartHttp
  \/ RaiseStop \/ ShutSocket \/ CloseSocket \/ JoinAcceptor
  \/ Destroy \/ CloseLog \/ Exit

\* What the metrics thread does by itself: whether Sent comes is up to the clients.
Metrics == LogLine("metrics") \/ Tick \/ Raise \/ Evaluated \/ NextAlert \/ MetricsEnd

Acceptor ==
  \/ LogLine("acceptor") \/ CheckStop \/ CallAccept \/ AcceptFails \/ AcceptWoken
  \/ \E r \in Readers : AcceptConnection(r)

\* What a request thread does by itself, once the request is there.
Request(r) ==
  \/ LogLine(r) \/ Choose(r) \/ ReadSnapshot(r) \/ CountClients(r)
  \/ CopyAlerts(r) \/ CopyUnlocked(r) \/ Respond(r)

HttpNext ==
  /\ Running
  /\ \/ Main \/ LeaveLoop \/ Metrics \/ Sent \/ Acceptor
     \/ \E r \in Readers : Receive(r) \/ Request(r)

\* Threads run on.  Nothing is assumed of browsers, of the clients of the TCP port,
\* of signals and of errors of accept.  A lock is got in the end: in MaxCycles
\* cycles and one run of each request it is taken a bounded number of times.
HttpSpec ==
  /\ HttpInit /\ [][HttpNext]_httpVars
  /\ WF_httpVars(Running /\ Main)
  /\ WF_httpVars(Running /\ Metrics)
  /\ WF_httpVars(Running /\ (LogLine("acceptor") \/ CheckStop \/ CallAccept \/ AcceptWoken))
  /\ \A r \in Readers : WF_httpVars(Running /\ Request(r))

-----------------------------------------------------------------------------
(* Safety *)

CountBefore(alerts, c) == Cardinality({i \in DOMAIN alerts : alerts[i] < c})

\* A dashboard page leaves nothing out: an alert raised in a cycle before that of
\* the readings it shows is listed, unless the list is full.  The two are read in
\* separate critical sections, while the metrics thread goes on.
DashboardMissesNothing ==
  \A r \in Readers :
    route[r] = "dashboard" /\ todo[r] = <<>> /\ Len(answer[r]) < MaxRecords[r] =>
      CountBefore(answer[r], snap[r]) >= CountBefore(Recent, snap[r])

\* Once its mutex is destroyed nobody writes the history, so that the requests
\* still served need no lock to get it right.
HistoryRests == [][destroyed => UNCHANGED history]_httpVars

\* When the log file is closed it holds all that stderr shows, although request
\* threads may be in the middle of an entry.
FileIsWhole == [][logOpen /\ ~ logOpen' => inFile = onStderr]_httpVars

-----------------------------------------------------------------------------
(* Liveness *)

\* The clients of the TCP port read what they are sent, so that a broadcast ends.
ClientsRead == WF_httpVars(Running /\ Sent)

\* A request that has arrived is answered, or the process ends before, if the clients
\* of the TCP port read.  One that does not may hold up every page that shows the
\* number of clients, for as long as it likes.
RequestsAnswered ==
  ClientsRead =>
    \A r \in Readers :
      pc[r] \in {"log", "route", "make"} ~> (pc[r] = "answered" \/ ~ Running)

\* The shutdown gets past the HTTP server and the metrics thread and to the end of
\* main, wherever they are, if the clients read and no thread is joined that was not
\* made.
ServerStops ==
  ClientsRead /\ [](pc["main"] # "crashed") =>
    (pc["main"] = "cleanup" ~> pc["main"] = "exited")
=============================================================================
