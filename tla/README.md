# A verification of the tractor telemetry server and its clients

This directory holds TLA+ modules that model the C server, the Go sensor
client and the Python operator client of this repository, TLC configurations
that check them on small instances, and TLAPS proofs of what holds for every
instance.  Paths below are relative to `src/PROYECTO_1_TELEMATICA/`; TP stands
for `docs/PROTOCOL.md`, ARCH for `docs/ARCHITECTURE.md`.

Run a check with `tlc -config <cfg> <module>`, a proof with `tlapm <module>`.
`PROJECT.json` lists runs, hazards, findings, theorems, a mutant for each
property (a plausible bug in one definition that the property catches), and
for each definition the source lines it models.

## 1. The system

A server holds the state of one simulated vehicle (rpm, coolant temperature,
tyre pressure, load, heading).  Clients speak a text protocol over TCP, one
command per line.  Every few seconds (five, as `server.c` sets it) the server moves the simulation by one
tick, sends a METRIC line to every client and, when thresholds are passed,
ALERT lines.  Engineers change rpm and heading and list the users; supervisors
watch.  Sensors (Go) send readings; operators (Python, Tk) show everything.

| component | state | operations | who uses it |
|---|---|---|---|
| `server/equipment_state.c` | `g_state`, its mutex | modify_rpm, adjust_heading, tick, read | metrics thread; sessions; HTTP |
| `server/alert_system.c` | ring `g_history`, `g_history_head`, `g_history_count`, its mutex | evaluate (pushes), copy, count | metrics thread; sessions; HTTP |
| `server/metrics_processor.c` | `g_stop_flag`, thread handle | the loop: tick, read, broadcast, evaluate, broadcast | calls the two above and the registry |
| `server/connection_handler.c`, registry | linked list of client nodes, its mutex; descriptors | add, remove, broadcast, count, shutdown | main, sessions, metrics thread |
| `server/connection_handler.c`, session loop | `carry`, `buf`, `combined` per session | recv, split, dispatch, save the rest | one thread per client |
| `server/connection_handler.c`, commands | role and name in the node | HELLO ... QUIT | sessions |
| `server/auth_service.c` | path of `users.conf`; strtok's static position | init, validate, destroy | sessions; HTTP |
| `server/server.c` | listening socket, `g_shutdown_requested` | accept loop, SIGINT, shutdown sequence | starts everything |
| `server/logger.c` | `g_log_file`, its mutex | open, an entry to stderr and file, close | every thread |
| `server/http_handler.c` | `g_http_fd`, `g_http_stop`, thread handle | start, accept loop, one thread per request (dashboard, status, alerts, login), stop | main; browsers |
| `clients/sensor_client/reconnect.go`, `protocol.go` | manager (`rm.conn`, `running`), connections | dial and handshake, receive, send, Close, Stop | main, sensors |
| `clients/sensor_client/main.go`, `sensor.go` | stopCh, simulated readings | start, tick, SIGINT | |
| `clients/operator_client/network.py` | `_socket`, `_connected`, `_should_receive` | connect, disconnect, send_command, receive loop | dashboard |
| `clients/operator_client/dashboard.py` | widgets | buttons, callbacks | GUI thread |
| `clients/operator_client/alerts.py` | history of 200, totals | add, clear, read | dashboard |

**Interactions.**  Server threads share the plant, the alert history, the
registry and strtok.  The plant and the history each have a mutex, and every
operation is one critical section; a command or a cycle is several of them.  The
registry's mutex is held while lines are written to sockets (broadcast, LIST
USERS).  Answers of a session are written without any lock, so that they mix
with broadcasts line by line.  The web pages read the plant, the number of clients
and the history in separate critical sections.  Session and request threads are
detached: the shutdown of main does not wait for them, closes their connections,
destroys the modules they use, and ends them by returning.  The clients share their fields among goroutines
or threads with no lock at all (but for Go's writes).

**What is hard here.**  The order in which a session and the metrics thread
write to one socket; reads and writes of the plant in separate critical
sections; descriptors as keys that the kernel reuses; blocking writes under a
lock; the shutdown while sessions and requests run, with an HTTP server that is in
any place of its accept loop or was never started; errors of accept and of
pthread_create; strtok in threads; a byte stream cut up
anew; an old receiver that outlives its connection in both clients; connections
that are lost without being closed; retries and their delay; the plant's corner
cases (a load below 10 %, 100 degrees, int overflow).

**What makes the components correct.**
Plant: the answer tells what was done; values stay in range.
History: a copy is the newest records as of one moment.
Web: a page leaves nothing out; a request that has arrived is answered; the stop
is noticed.  Log: the file has what stderr has.
Metrics and commands: a client that catches up misses no alert; alerts belong to
the METRIC line before them; a list is complete; what needs an engineer is done
for engineers only.
Framing: lines are the messages sent, whatever the pieces.
Registry: nodes and descriptors are never mixed up or used after free, leavers
go, the shutdown closes everything and ends.
Credentials: the verdict is what the file says.
Clients: one connection at a time, readings only within a session, losses
noticed and retried, the display true and complete, an interrupt obeyed.

## 2. The modules

| module | models | composed with |
|---|---|---|
| `EquipmentOps` | the arithmetic of `equipment_state.c`, as operators on a record | used by Equipment, MonitoringServer |
| `Equipment` | `g_state` as a state machine with the answer of MODIFY_RPM | EXTENDS EquipmentOps |
| `AlertOps` | the thresholds of `alert_evaluate`; what "the newest n" means | used by AlertLog, MonitoringServer |
| `AlertLog` | *abstract*: the newest `HistorySize` alerts; a copy is atomic | refined by AlertSystem |
| `AlertSystem` | ring, two counters, the copy loop record by record under the lock | INSTANCE AlertLog |
| `Logger` | the log file and its lock | |
| `HttpServer` | HTTP server, request threads, metrics thread and main from start to exit, on the history and the log | EXTENDS AlertSystem, INSTANCE Logger |
| `MonitoringServer` | metrics thread and sessions on plant, history and registry; what arrives at each client | EXTENDS EquipmentOps, AlertOps |
| `SessionFraming` | the receive loop with its buffers | |
| `ConnectionRegistry` | accept loop, nodes, descriptors, broadcasts, session threads, shutdown | |
| `AuthService` | validate with strtok, on a file that is edited | |
| `SensorClient` | the Go client | |
| `AlertManager` | the operator's history of alerts and its total | |
| `OperatorClient` | the Python client | INSTANCE AlertManager |
| `*Proofs` | theorems about Equipment, AlertSystem, HttpServer, SessionFraming, ConnectionRegistry, MonitoringServer, AuthService, SensorClient, OperatorClient | EXTEND their module and TLAPS; those of AlertSystem are in HttpServerProofs |
| `MC*` | instances for TLC | EXTEND their module |

Definitions named "Variant with a planted fault" are not part of a
specification; each stands for a bug that a property must catch.

### Equipment, EquipmentOps
`equipment` is `g_state`; `reply` the last answer of MODIFY_RPM.  One action
per operation (`ModifyRpm`, `AdjustHeading`, `Tick`), since each is one
critical section.  Headings are 0..3; their names are layout.  `WrappedSum` is
the sum `rpm + delta` in a word of the width that `IntMax` gives: overflow of a
signed int is undefined, and builds without special flags wrap.

### AlertLog, AlertSystem
`Push` is `history_push`, one critical section.  A copy is `CopyBegin`
(lock, `available`, `to_copy`, `start`), one `CopyRecord` per iteration and
`CopyEnd`, with the lock held from the first to the last.  `Recent`, the ring
read from its oldest slot, maps to `recent` of AlertLog.  Times and wording
of records are left out.

### Logger, HttpServer
`pc[t]` is where each thread of the server is: main, the metrics thread, the
accepting thread, and the readers of the history, which are the request threads
(a session's GET_ALERTS is MonitoringServer's).  `AfterLogging` lists the places where a
thread logs and where it goes from there; log calls of a thread in a row are one entry,
and an entry is two steps, `WriteStderr` and `WriteFile`, under the log's lock.  The log is two sets
of entries, without their times and order.

`Raise` is AlertSystem's `Push` with the number of the cycle as the alert;
`CopyAlerts` its copy.  `Reads` lists what each page reads, in order: the dashboard
the snapshot, the number of clients and then the alerts.  Of that number the model
keeps the wait for `g_registry_lock` (`CountClients`) and not the value.  The lock has
no variable: the metrics thread holds it exactly while it is in a broadcast
(`Sending`), whose end, `Sent`, is up to the clients; the sessions' short critical
sections are in ConnectionRegistry.  A cycle is `Tick`, the METRIC line, the log,
`Raise` for each alert, and `NextAlert` for each alert's own broadcast.  The verdict of
a login and pages that read nothing shared are left out.  A page is taken to fit into
the buffer of its socket, so that a browser cannot hold a thread.

`http_server_stop` is `RaiseStop`, `ShutSocket`, `CloseSocket`, `JoinAcceptor`; the
accepting thread has `CheckStop` and `CallAccept` apart, so that the stop can come
between.  `JoinAcceptor` is also called when the server could not start: joining a
thread that was never made is undefined, and the model has both outcomes, an error
and the end of the process; so has the `pthread_detach` of a thread that could not be
made (`AcceptConnection`).  `LeaveLoop` is a SIGINT or an error of accept in main; the
signal is taken by any thread, and a thread in accept or recv then returns with
EINTR.  `Destroy` destroys the history's mutex unless it is held (EBUSY).  Request
threads that come later take no lock at all: `CopyUnlocked`, one step, since
nobody writes by then, which `HistoryRests` states.

### MonitoringServer
`metrics` is the metrics thread with its locals (`snap`, the alerts `todo` and
`done`), a step per critical section and per broadcast.  `session[c]` has the role
of the node, the lines still to be written (`out`) and what comes `then`.
`SendLine` writes one line; LIST USERS keeps `lock` over its lines, GET_ALERTS
does not.  `inbox[c]` is what has been written to the client.  `recent` is the
history at the level of AlertLog, which AlertSystem implements; its records are
numbered with `pushed`.  Three things are for the properties only: `since[c]`, the
headings the plant has had since c's last turn, which an ADJUST_HEADING answer
carries; `newest`, the number of alerts at the moment of the copy, in the header of a
GET_ALERTS answer; and whether an ALERT line comes `from` a broadcast or the history.  HELLO, ROLE? and
SENSOR_DATA answer one line and change nothing that a property sees; GET_STATUS stands for them.

### SessionFraming
Bytes are NL, CR, NUL and one more (`QUIT`, the whole of its line).  `Recv` is
recv, the copy into `combined` and its terminator; `Dispatch` one turn of the
`strchr` loop; `SaveRest` the copy back to `carry`, or nothing when the rest is
too long.  `combined` is read as a C string, that is up to a NUL.

### ConnectionRegistry
`main`, `metrics` and `session[c]` are program counters.  `node[c]` and `fd[c]`
are `client_node_t`; `owner[f]` is the process's descriptor table.  `Accept`
takes any free descriptor.  `Spawn` may fail to make a thread, which `server.c`
does not look at: the node stays, and the detaching of no thread may end the process
(`killed`).  `LeaveLoop` is a SIGINT, or accept failing because no descriptor is
left (`NoFdLeft`), which ends the server as any other error does.  A write (`Writable`, `Written`) waits for a client that does
not read, and raises SIGPIPE after a reset unless it is a `send` with
MSG_NOSIGNAL; `Written` also says how data for a closed socket comes back as
a reset.  `CloseAll` is `connection_registry_shutdown`, which frees nodes whose
sessions still run.

### AuthService
A call opens the file, reads a line into its buffer, and calls strtok three
times.  `save` is strtok's position, one for the process: a read of it
(`LoadSave`) and what follows from it (`Scan`) are two steps, so that another
thread's call can come in between.  A token is a place in some thread's buffer,
so that a later line changes what it says; `Garbage` is the content of a buffer
that is gone.  `Replace` edits or removes the file, `Destroy` is the shutdown.

### SensorClient
`mgr` is the goroutine of `reconnectLoop`, `conn[k]` the fields of a
`ServerConnection`, `receiver[k]` its receive goroutine, `server[k]` the
server's end.  `k` is reused when Go's collector may have freed the object
(`Collect`), which also closes the socket by its finalizer: a lost connection
is never closed otherwise.  Between the end of Close (`StopClosed`) and the end of
main (`Exit`) the other goroutines go on.  `Crash` is a nil dereference (below).  `misled` says
that a broadcast was taken for an answer of the handshake.

### OperatorClient
`socket`, `connected`, `should` are the attributes of NetworkManager; `pc[t]` and
`on[k]` are the GUI thread and the receivers.  `_handle_disconnect` is four
steps.  A receiver waits in recv without a timeout (`blocked`), or with the one that the
next handshake has put on the socket (`timed`), and then may come back empty-handed
(`RecvTimeout`).  Callbacks queue up for the GUI thread (`callbacks`), which shows the
last state (`shown`).  An ALERT line is stored by the receiver (`RecvAlert`,
AlertManager's `AddAlert`), announced (`NotifyAlert`) and shown (`ShowAlert`), when
the label takes the totals of that moment; an alert is the number under which it
was stored.  `stale` says that Connect was clicked while an older
receiver was still there.  Receivers are joined by nobody.

## 3. The runs

| run | question | bounds, and why they suffice |
|---|---|---|
| equipment | ranges, the load below 10 %, truth of answers, where the plant ends | three deltas that clamp below, reach both bands and overflow; IntMax 9999 instead of 2^31-1, so that the sum can leave it; jitter at its upper end (the proofs take every jitter) |
| web_and_history | copies right, pages consistent, log whole, requests answered, shutdown ends | one request, which asks for 2 records of a ring of 3 (64 in C) with 4 pushes in 2 cycles: the ring wraps, a page is cut, a cycle raises several alerts, and the request, the writer and main meet at each lock; several requests at once are left to the proofs, which take every size and number |
| monitoring_server | no gap, no mixture, complete answers, lists, rights, headings | 2 clients; ring of 3 that wraps in the second cycle, answers of at most 2; five workloads (`MCWorkloads`), each a number of cycles and of commands of each kind that the clients send in any order: the history asked for across two cycles or twice, two turns by two engineers, rights given and taken with a change of the rpm or a list, departures |
| framing | lines are messages | buffers of 3 and 6 instead of 4096 and 8192; streams of 7 bytes: messages shorter, as long and longer than a buffer, in all divisions |
| registry | nodes, descriptors, leavers, shutdown, errors of accept and pthread_create | 2 connections, 2 descriptors that are reused and run out, a command under way per client, clients that read |
| auth | a call that overlaps none is right | 2 threads, two contents with a comment, incomplete line, unknown role and duplicate user; one edit or removal |
| sensor_client | the Go client's connections, delays and end | 2 connection objects, reused; a sensor; 6 failures: the fifth is the first whose delay is capped (2 * 2^4 = 32 > 30) |
| operator_client | display and socket | 2 clicks on Connect: a receiver of the first meets the second; 3 callbacks; 2 alerts and a history of 1 (200 in Python), so that it is cut and two receivers announce one each |
| stalled_client | *finding*: the shutdown with a client that stops reading | as registry, one client stalls |
| sigpipe | *finding*: an answer after a reset | as registry |
| auth_race | *finding*: overlapping validations | as auth |
| graceful_shutdown | *finding*: an interrupt that meets a handshake or a loss | as sensor_client |

Bounds on counters (MaxPushes, MaxCycles, Workloads, MaxBytes, MaxPending,
MaxEdits, MaxUnread, MaxQueue, MaxAlerts, MaxFailures) are constants that appear in guards.
Symmetry among clients is used in the run of MonitoringServer, which checks
no liveness.  `CHECK_DEADLOCK FALSE` stands where the program ends or a user may
stop for good; MonitoringServer has a `Finished` step instead, so that a session
that is stuck there would be reported.

### Properties
*Plant.*  `Envelope`: temperature at least ambient, pressure within 27..83.
`NeverRaisedAgain`: once the load is below 10 % the rpm never rises again; nothing is
said of decreases, which the code refuses too (section 4).  `RestsOrRunsDry`: from
then on the plant ends at rest or without load.  `OkIsExact`: OK means exactly the
delta.  `DecreaseOnlyByOverflow`: an increase lowers the rpm only beyond the
range of int.
*History and web.*  `ImplementsLog`; `DashboardMissesNothing`: a page lists the alerts
that came before the readings it shows, although cycles go on between its two
reads; `HistoryRests`: nobody writes the history once its mutex is gone, which is
what makes the late copies right; `RequestsAnswered`, `ServerStops`: when the clients
of the TCP port read what they are sent (`ClientsRead`), a request is answered, and
the shutdown gets to the end of main if it joins no thread that was never made.  Both
premises are needed: without the first, finding 1 holds up any page with the number
of clients, and the join.
*Log.*  `FileIsWhole`: closing waits for the entry that a thread is in the middle of.
*Server.*  `NoAlertGap`, `AlertsMatchMetric`, `UserListContiguous`,
`EffectsAreAuthorized`; `AlertReplyComplete`: the lines from the history behind a header
are the newest records of the moment of the copy, in order, whatever comes between
them; `HeadingReplyIsRecent`: the heading told is one that the plant has had since the
session's own turn, never an older one.
*Framing.*  `NoOverrun`, `LinesFollowMessages` (streams without a null byte),
`NothingWaits`.
*Registry.*  `DescriptorsAreTheirOwn`, `NodesOutliveTheirUsers` (before the
shutdown begins), `RemovesOnlyItself`, `LeaversAreRemoved` (unless the thread
could not be made), `ShutdownClosesAll` (connections without a thread
included), `ShutdownCompletes` (after a signal, and after an error of accept).
*Credentials.*  `UndisturbedVerdictIsRight`.
*Sensor client.*  `AtMostOneConnected`, `ReadingsInSession`,
`ConnectedMeansAuthenticated` (unless misled), `BackoffMatchesFailures`,
`LostIsRetried`, `StopEnds` (unless it crashes: finding 4).
*Operator client.*  `ShownIsTrue`, `LossIsNoticed`, `MissingSocketIsNoticed`,
`PanelAgrees`: when no alert is on its way, the list has each once, the label counts
all, and the history is the list's end, provided that there was one receiver at a
time.

`TypeOK` is an invariant of the runs equipment, web_and_history and framing.
In ConnectionRegistry, SensorClient, MonitoringServer, AuthService and OperatorClient
it is no part of the standing runs but a theorem (`TypeCorrect`).

### Fairness
Threads and goroutines that can run do run (weak fairness per thread).  Locks:
a thread that waits gets the mutex in the end (strong fairness of the action
that takes it); holders leave in a bounded number of steps and the metrics
thread sleeps between broadcasts.  Ticks recur, sleeps and deadlines pass, Go's
select takes a ready case in the end, Go's collector runs, Tk comes back to its
event loop.  METRIC lines keep coming on an open connection of the operator
client, whose recv, but for the timeout of a handshake, has no other way to return.  Nothing is assumed of users, of
clients of the server (except in `registry` that they read), of browsers, of
signals and errors of accept, of the network or of the peer's hanging up.  The
threads of HttpServer run on but for the end of a broadcast: it is fair only where a
property says so, by `ClientsRead`; main's joins then end because the threads joined do.
`MonitoringServer`, `SessionFraming` and
`AuthService` have safety properties only and assume nothing.

## 4. The findings

1. **A client that stops reading stops the server** (`stalled_client`).
   `connection_broadcast` (connection_handler.c:85) sends with blocking sockets
   under `g_registry_lock`; ARCH:202 promises "no deadlock risk".
2. **An answer to a reset connection kills the server** (`sigpipe`).  Answers are
   `dprintf`, and SIGPIPE is not ignored; ARCH:319 claims MSG_NOSIGNAL.
3. **Two validations at once mix their fields** (`auth_race`): strtok
   (auth_service.c:122).  Right credentials are refused.
4. **An interrupt can crash the Go client** (`graceful_shutdown`).  `Stop` and
   `readLine` compare `rm.conn` or `sc.conn` with nil and use it later, and the loop
   starts the receiver of a connection it has just published, while `Close` and
   `reconnectLoop` set these fields to nil without a lock (reconnect.go:113, 161 and
   177, protocol.go:161 and 194).  These are the `Crash` steps of SensorClient, which
   end the process; main.go:17 and 119 promise a graceful shutdown.

Divergences met while modelling which no run of their own records:
- MODIFY_RPM refuses decreases as well below 10 % load (equipment_state.c:86-88; TP:200
  says "Cannot increase RPM with load below 10%"), so that a turning machine can no
  longer be stopped: no property asserts this refusal.  A change clamped at 0 is made and answered
  `ERR rpm_at_minimum` (TP:201); a large delta overflows (TP:198): `OkIsExact` and
  `DecreaseOnlyByOverflow` say how far an answer can be trusted all the same.
- At exactly 100 degrees the temperature goes down and up (equipment_state.c:137).
- Lines of a GET_ALERTS answer mix with broadcast ALERT lines, which look alike, so
  that the `<count>` lines behind the header need not be the history (TP:70-76);
  `AlertReplyComplete` is about the lines that come from the history.
- ADJUST_HEADING may answer another engineer's heading (TP:110).
- A rest longer than `carry` is dropped without a word and the tail of the
  message is run as a command (connection_handler.c:388-390, TP:341):
  `LinesFollowMessages` allows exactly this.
- The shutdown frees nodes of running sessions (ARCH:320); `pthread_create` is not
  checked (ARCH:89), and a node without thread stays for ever.
- When the HTTP server could not start (port taken), the stop joins an uninitialised
  thread handle (http_handler.c:451), and so the accept loops detach one when
  pthread_create fails (server.c:178): undefined, against ARCH:320's graceful
  shutdown.  `ServerStops` excludes the crash by a premise; `ShutdownCompletes` counts
  the end of the process.
- Any error of accept ends the server, one that passes included (server.c:160).
- Requests that outlive the shutdown of the modules lock a destroyed mutex
  (alert_system.c:181, server.c:197).
- Entries of the log can stand out of the order of their times: the time is taken
  before the lock (logger.c:66-75), while logger.c:14 says "generated inside the
  lock to guarantee chronological ordering".
- An alert that is acknowledged before it is shown is shown as acknowledged
  (dashboard.py:470, alerts.py:131).
- Both clients take the first lines they read for the answers of the handshake,
  broadcasts included (network.py:86, protocol.go:95), so that a rejected client may
  believe itself accepted; `ConnectedMeansAuthenticated` is about the others.
- A null byte hides the rest of what was received with it from the cut into lines
  (connection_handler.c:375); `LinesFollowMessages` is about streams without one.
- SENSOR_DATA is answered, although its comment says it is not
  (connection_handler.c:326-329).  A role in `users.conf` that is not ENGINEER
  counts as SUPERVISOR.
- Go: comments say that the receiver resets the read deadline to zero
  (protocol.go:192-193) and that it is removed for long-lived reads
  (reconnect.go:160), but every `readLine` sets 15 s again, so that silence ends a
  good connection.
- Python: an older receiver can take over or close the next connection and leave
  the dashboard on "Disconnected"; hence the premise `~ stale` of `ShownIsTrue`.
  main.py:63 has an unquoted IP address, which does not parse.

## 5. What is proved

The theorems hold for all values of the constants that satisfy the named
assumptions of the module; the runs check the same formulas on an instance.

- `EquipmentProofs`: `TypeCorrect`, `EnvelopeHolds`, `NeverRaisedHolds`,
  `OkIsExactHolds`, `DecreaseHolds`, for every `IntMax`, every set of deltas and any
  jitter.  Type correctness is inductive by itself; the envelope needs it, for the
  pressure is recomputed from an rpm of at most 5000 in every tick.  The three
  action properties follow step by step from the type invariant.
- `HttpServerProofs`, the history by itself: `TypeCorrect` and `Implementation`
  (`Spec => ImplementsLog`) for every ring size, any readers and record limits.
  The inductive invariant `Inv` adds to the types: `RingShape` (before the first
  wrap the head follows the count), `JobFresh` (while a reader has the lock, its
  `start` and `toCopy` are what the history demands now, since pushes are locked
  out) and `OutIsPrefix` (what it has copied is a prefix of the answer).  It is
  needed because the abstract log answers in one step, at `CopyEnd`, while the
  ring was read step by step.  Pushes map to `Record`, `CopyEnd` to `Answer`,
  all other steps to stuttering; arithmetic modulo the ring size is in lemmas.
- `HttpServerProofs`, the server: `HttpTypeCorrect`, `HttpImplementation`, `HistoryRestsHolds`,
  `FileIsWholeHolds` and `DashboardMissesNothingHolds`, about the whole server for every
  ring size, any number of requests,
  any page bounds.  The first three use AlertSystem's `Inv`
  with `Control`: the metrics thread writes only in a cycle whose number is an
  alert, and the mutex is destroyed only with nobody holding it and that thread
  ended.  Every step of the server but `CopyUnlocked` is a step or a stutter of
  AlertSystem (`HistorySteps`), so that its invariant and refinement carry over;
  `CopyUnlocked` is shown to be an `Answer` by itself (`RecordOfCopy`).  The fourth
  uses `LogInv`: with the log's lock free the file has what stderr has, with it held
  all but the holder's entry, and no step of another thread moves a thread from
  its log call (`OtherSteps`), which needs that there is no accepting thread before
  main has started one (`Starting`).  The fifth uses `PageInv`: the history has alerts of cycles
  begun only (`Ages`), readings are of such a cycle (`Snapshots`) and are taken before
  the copy of the history (`Dashboards`); then the alerts of the history that are
  older than a page's readings stand on the page in their order, further back by
  as many as the ring has dropped since (`Lists`, `PagesList`), unless the page's
  own limit has cut it.
- `SessionFramingProofs`: `TypeCorrect`, `NoOverrunHolds`, `LinesFollow`,
  `NothingWaitsHolds`, for all buffer sizes with CarrySize + BufSize - 1 <=
  CombinedSize (`SizesAssumption`; in C, 4096 + 4095 <= 8192) and for all streams.
  What bounds `combined` is that `carry` is always shorter than its size.  The two
  properties of the lines compare what was dispatched with messages that a cut of the
  whole stream defines, and a step knows only what it kept.  `FollowInv` relates them:
  there is a `Cut` c, an NL or the beginning, up to which the stream has become lines
  (`Nth(received, c)` of them), and what is kept is the end of the stream behind some
  e >= c with no NL from c to e; either e = c and the message in progress is whole, or
  at least CarrySize bytes of it have been forgotten, so that it counts as too long.
  Messages that have ended are not changed by what is received later (`EndsOfLonger`),
  so that `Follows` survives a recv.

- `ConnectionRegistryProofs`: `TypeCorrect`, `DescriptorsSafe`, `NodesSafe`,
  `ShutdownClosesEverything`, `RemovalSafe`, for any number of connections and
  descriptors and whichever clients stall.  None of the properties is inductive.
  `Inv` adds: the list has no node twice and holds the live ones but for the one
  main is about to add (`Distinct`, `ListedIsLive`); a live node's descriptor is
  open on its connection and an open descriptor has its live node (`LiveIsOpen`,
  `OpenIsLive`), which is what makes a reused number harmless; a session that runs
  has a live node until the shutdown empties the list (`Lives`, `Emptied`); and
  while a broadcast holds the lock, the nodes it still has to visit are in the list
  (`Locking`).
- `SensorClientProofs`: `TypeCorrect`, `OneConnected`, `AuthenticatedSafe`,
  `ReadingsSafe`, `BackoffSafe`, for any number of connection objects.  `Inv` says
  where the connected object and the manager can be (`Places`, `Connected`), which
  step of the handshake the two ends are at (`Stage`), that verdicts arrive in step
  with the commands unless the client has been misled (`Verdicts`), and that
  readings go to a server only in its session (`Readings`).  The delay is a power of the multiplier;
  the provers know nothing of `^`, so that `BackoffSafe` has its two laws (x^0 = 1,
  x^(n+1) = x * x^n) as its hypothesis `PowerLaws`.
- `MonitoringServerProofs`: `TypeCorrect`, `EffectsAuthorized`, `AlertsMatch`,
  `NoGap`, `UserListSafe`, `HeadingRecent`, `AlertReplySafe`, for any number of
  clients, cycles and commands and every history size.  Every property speaks of what has arrived
  while the steps are about what is still to be written, so each has its part in
  `Inv`: `Authority` (a session's role is that of the last verdict, the one not yet
  written included, and only an engineer's session has an effect to tell); `Cycle`
  and `Matching` (during a cycle the last METRIC line of a client is of the cycle's
  snapshot, and all alerts of the cycle are raised by it); `Numbering` (the history
  is numbered without a gap); `Turns` (the heading of the plant is one it has had
  since each session's last turn, and so is every heading told); `Listing` (a list of users is whole in what has
  arrived followed by what is still to be written, and belongs to the holder of the
  lock, so that no broadcast gets in between); `Answering` (behind every header of
  GET_ALERTS there are, up to the next one, the records of the history numbered b + 1
  to b + count, all and in this order, where b + count is the number of the newest at
  the moment of the copy and count is as large as allowed: a broadcast that gets in between
  spreads their places and does not reorder them, `SpreadAnswers`).  `NoAlertGap` is
  inductive with these.
- `AuthServiceProofs`: `TypeCorrect`, `UndisturbedRight`, for any number of threads and
  edits and any files.  `Inv` has `Types` (a pointer that is not wild is inside its
  line or at its end, and a step that overwrites a line leaves no pointer into it;
  strtok's position is not NULL while a call is on its way to read it), `UpToDate` (a
  call has seen what the file is now) and `Undisturbed`: while a call is alone, the
  others are idle, and it is on its way (`Progress`): its text is what is left of a
  content it has seen, no line it has passed fits, its tokens are the fields of its
  line from the first on, NULL behind the last, and strtok stands behind them
  (`Parsing`).  No assumption on `save` before the call is needed: the first strtok of
  each line starts from the line.
- `OperatorClientProofs`: `TypeCorrect`, `ShownTrue`, `PanelAgreesHolds`, for any
  number of sockets, callbacks and alerts and any length of the history.  `Inv` has
  `Panel` (an alert is in the list or in exactly one place on its way to it, the
  totals count what was stored, the history is its end) and, as long as no second
  receiver has been made beside a first (`~ stale`), `Truth`: what the dashboard
  will show once the queued callbacks have run is the state of the connection
  (`Tells`), also half-way through `_handle_disconnect`; and `InOrder`, the alerts
  come up in the order they were stored.

The strengthened invariants were checked by TLC on the instances of the runs before
they were proved.  The assumptions on constants are that bounds are natural
numbers, that tags differ from the members of the sets they stand beside, and
what the code's constants satisfy: `MaxRecords \in 1 .. HistorySize` (the answer to
GET_ALERTS is cut to 16 of 64), 1 <= InitialDelay <= MaxDelay (2 s and 30 s), a history
of the operator of at least one (200).  The shutdown of ConnectionRegistry is proved
safe, not proved to end.

Only model-checked: all liveness (`RestsOrRunsDry`, `RequestsAnswered`, `ServerStops`, the
registry's and the clients'), which depends on ENABLED and is out of the reach of the
provers.

## 6. What is not modelled

- Of `http_handler.c` the parsing of requests, queries and cookies and the making of
  pages; of `logger.c` times and the order of entries; of `server.c` arguments and the
  set-up of the socket, which ends the program when it fails.
- Of `alerts.py` acknowledgement, totals by type, the filters and `clear_history`, which
  nobody calls; of the dashboard gauges, log and layout.
- `sensor.go`'s drifting values, which are floating-point and reach no other component;
  `main.py`, which asks for credentials and wires the parts; wording, parsing of numbers.
- Failures of malloc (but for a request's argument); torn reads of a name by LIST USERS;
  the value of the number of clients on a page.
- Build and container files have no behaviour of their own.

## 7. The plan

Done, in this order: plant, history, metrics and commands, framing, registry with
the shutdown, credentials, Go client, Python client; then the HTTP server and the
log with main's start and shutdown around the history, failures of accept and of
pthread_create, the operator's alerts; proofs of the plant, the history by itself and
in the whole server, the framing and the log; proofs of the registry, the metrics
thread with its sessions, both clients, the credentials, the lines of the framing and
the pages of the web server.

What modelling is left is small: marks of acknowledgement; the sessions' part of
`MonitoringServer` with HELLO and `AuthService`'s verdicts.

Every safety and action property that a passing run checks has its theorem.  Next, in
the order of worth: the safety half of the liveness properties, that is, the steps that
stay possible until what they promise has happened (the lock of the registry and the
log's have a holder that can go on; a session that leaves has its node until it takes
it out), as invariants from which only fairness is missing; and the two laws of `^`
that `BackoffSafe` presumes, should the provers come to support them.
