-------------------------- MODULE MonitoringServer --------------------------
(***************************************************************************)
(* The server at work: the metrics thread (metrics_processor.c) ticks the  *)
(* plant, broadcasts a METRIC line, evaluates the alerts, broadcasts them; *)
(* the sessions (connection_handler.c) run commands on the same plant and  *)
(* the same alert history.  What a client receives is the order in which   *)
(* the two kinds of threads write to its socket, kept in inbox.            *)
(*                                                                         *)
(* Each critical section of the C code is one step, and so is each line    *)
(* written to a socket.  g_registry_lock is a variable of its own because  *)
(* LIST USERS holds it while it writes.                                    *)
(***************************************************************************)
EXTENDS EquipmentOps, AlertOps, FiniteSets

CONSTANTS
  Clients,
  Deltas, Noise,  \* as in Equipment
  Verdicts,       \* what auth_service_validate may answer
  HistorySize,    \* ALERT_HISTORY_SIZE (64)
  MaxRecords,     \* MAX_HIST of cmd_get_alerts (16)
  Workloads       \* how many cycles of the metrics thread are considered, and how
                  \* many of each command the clients send, over all of them

ASSUME DeltasAssumption == Deltas \subseteq Ints
ASSUME NoiseAssumption == Noise \subseteq Jitter
ASSUME HistoryAssumption ==
  HistorySize \in Nat /\ MaxRecords \in 1 .. HistorySize
ASSUME VerdictsAssumption == Verdicts \subseteq {"ENGINEER", "SUPERVISOR", "NONE"}
ASSUME FreeAssumption == "free" \notin Clients

Names == {"AUTHENTICATE", "MODIFY_RPM", "ADJUST_HEADING", "GET_STATUS",
          "GET_ALERTS", "LIST USERS", "QUIT"}

ASSUME WorkloadsAssumption ==
  Workloads \subseteq [cycles : Nat, commands : [Names -> Nat]]

MaxCycleAlerts == 8   \* MAX_CYCLE_ALERTS

VARIABLES
  equipment,  \* g_state
  since,      \* since[c]: the headings of the plant since c's last turn of it
  recent,     \* the alert history, oldest first (the ring of AlertSystem)
  pushed,     \* alerts pushed so far; numbers the alerts
  metrics,    \* the metrics thread: pc and the locals of its loop
  cycles,     \* cycles still to come
  registry,   \* g_registry_head: the connected clients, newest first
  lock,       \* g_registry_lock: "free" or the session that lists the users
  session,    \* session[c]: pc, role, and the lines it still has to write
  inbox,      \* inbox[c]: the lines written to c's socket, in order
  copied,     \* copied[c]: alerts pushed when c's GET_ALERTS read them, or -1
  commands    \* commands[name]: how many of them are still to come

vars == <<equipment, since, recent, pushed, metrics, cycles, registry, lock,
          session, inbox, copied, commands>>
plant == <<equipment, since, recent, pushed>>
thread == <<metrics, cycles>>

Registered == {registry[i] : i \in 1 .. Len(registry)}

-----------------------------------------------------------------------------
(* Lines of the protocol *)

Metric(s) == [kind |-> "METRIC", snap |-> s]
Alert(a, from) == [kind |-> "ALERT", alert |-> a, from |-> from]
Status(s) == [kind |-> "STATUS", snap |-> s]
Ok(text) == [kind |-> "OK", text |-> text]
Err(text) == [kind |-> "ERR", text |-> text]
OkRole(verdict) == [kind |-> "OK", role |-> verdict]
OkCount(what, n) == [kind |-> "OK", what |-> what, count |-> n]
OkAlerts(n, newest) == [kind |-> "OK", what |-> "alerts", count |-> n, newest |-> newest]
OkHeading(h, after) == [kind |-> "OK", heading |-> h, since |-> after]
User(c) == [kind |-> "USER", client |-> c]
Bye == [kind |-> "BYE"]

-----------------------------------------------------------------------------

Idle(role) == [pc |-> "idle", role |-> role, out |-> <<>>, then |-> "idle"]

TypeOK ==
  /\ equipment \in EquipmentState
  /\ Len(recent) <= HistorySize /\ pushed \in Nat
  /\ metrics.pc \in {"tick", "read", "metric", "evaluate", "alerts", "sleep"}
  /\ metrics.snap \in EquipmentState
  /\ Registered \subseteq Clients
  /\ lock \in Clients \cup {"free"}
  /\ \A c \in Clients :
       /\ session[c].pc \in {"none", "idle", "readback", "sending", "removing", "gone"}
       /\ session[c].role \in {"SUPERVISOR", "ENGINEER"}
       /\ session[c].then \in {"idle", "removing"}
       /\ copied[c] \in -1 .. pushed

Init ==
  /\ equipment = InitialEquipment
  /\ since = [c \in Clients |-> {InitialEquipment.heading}]
  /\ recent = <<>> /\ pushed = 0
  /\ metrics = [pc |-> "tick", snap |-> InitialEquipment, todo |-> <<>>, done |-> <<>>]
  /\ registry = <<>> /\ lock = "free"
  /\ session = [c \in Clients |-> [Idle("SUPERVISOR") EXCEPT !.pc = "none"]]
  /\ inbox = [c \in Clients |-> <<>>]
  /\ copied = [c \in Clients |-> -1]
  /\ \E load \in Workloads : cycles = load.cycles /\ commands = load.commands

-----------------------------------------------------------------------------
(* The metrics thread: metrics_broadcast_thread *)

Tick(noise) ==
  /\ metrics.pc = "tick" /\ cycles > 0
  /\ equipment' = Ticked(equipment, noise)
  /\ metrics' = [metrics EXCEPT !.pc = "read"]
  /\ cycles' = cycles - 1
  /\ UNCHANGED <<since, recent, pushed, registry, lock, session, inbox, copied, commands>>

ReadSnapshot ==
  /\ metrics.pc = "read"
  /\ metrics' = [metrics EXCEPT !.pc = "metric", !.snap = equipment]
  /\ UNCHANGED <<plant, cycles, registry, lock, session, inbox, copied, commands>>

\* Variant with a planted fault: the broadcast does not take the lock.
BroadcastUnlocked(line) ==
  inbox' = [c \in Clients |->
              IF c \in Registered THEN Append(inbox[c], line) ELSE inbox[c]]

\* connection_broadcast: one send per registered client, under the lock.
Broadcast(line) ==
  /\ lock = "free"
  /\ inbox' = [c \in Clients |->
                 IF c \in Registered THEN Append(inbox[c], line) ELSE inbox[c]]

\* Variant with a planted fault: the alerts come from a second look at the plant.
BroadcastMetricStale ==
  /\ metrics.pc = "metric"
  /\ Broadcast(Metric(metrics.snap))
  /\ metrics' = [metrics EXCEPT !.pc = "evaluate",
                                !.todo = Evaluated(equipment, MaxCycleAlerts),
                                !.done = <<>>]
  /\ UNCHANGED <<plant, cycles, registry, lock, session, copied, commands>>

BroadcastMetric ==
  /\ metrics.pc = "metric"
  /\ Broadcast(Metric(metrics.snap))
  /\ metrics' = [metrics EXCEPT !.pc = "evaluate",
                                !.todo = Evaluated(metrics.snap, MaxCycleAlerts),
                                !.done = <<>>]
  /\ UNCHANGED <<plant, cycles, registry, lock, session, copied, commands>>

\* emit_alert: the record goes into the history before anybody hears of it.
EmitAlert ==
  /\ metrics.pc = "evaluate" /\ metrics.todo # <<>>
  /\ LET a == [alert |-> Head(metrics.todo), number |-> pushed + 1]
     IN  /\ recent' = Newest(HistorySize, Append(recent, a))
         /\ metrics' = [metrics EXCEPT !.todo = Tail(@), !.done = Append(@, a)]
  /\ pushed' = pushed + 1
  /\ UNCHANGED <<equipment, since, cycles, registry, lock, session, inbox, copied, commands>>

EvaluateEnd ==
  /\ metrics.pc = "evaluate" /\ metrics.todo = <<>>
  /\ metrics' = [metrics EXCEPT !.pc = "alerts"]
  /\ UNCHANGED <<plant, cycles, registry, lock, session, inbox, copied, commands>>

BroadcastAlert ==
  /\ metrics.pc = "alerts" /\ metrics.done # <<>>
  /\ Broadcast(Alert(Head(metrics.done), "broadcast"))
  /\ metrics' = [metrics EXCEPT !.done = Tail(@)]
  /\ UNCHANGED <<plant, cycles, registry, lock, session, copied, commands>>

EndCycle ==
  /\ metrics.pc = "alerts" /\ metrics.done = <<>>
  /\ metrics' = [metrics EXCEPT !.pc = "tick"]
  /\ UNCHANGED <<plant, cycles, registry, lock, session, inbox, copied, commands>>

MetricsThread ==
  \/ \E noise \in Noise : Tick(noise)
  \/ ReadSnapshot \/ BroadcastMetric \/ EmitAlert \/ EvaluateEnd
  \/ BroadcastAlert \/ EndCycle

-----------------------------------------------------------------------------
(* Connections *)

\* The accept loop registers the node before the session thread that writes
\* the welcome line exists.
Connect(c) ==
  /\ session[c].pc = "none" /\ lock = "free"
  /\ registry' = <<c>> \o registry
  /\ session' = [session EXCEPT ![c].pc = "sending", ![c].out = <<Ok("welcome")>>]
  /\ UNCHANGED <<plant, thread, lock, inbox, copied, commands>>

\* One line of the answer is written.  A USER line is formatted when it is
\* written, from the role the listed node has then.
Written(line) ==
  IF line.kind = "USER"
  THEN [kind |-> "USER", client |-> line.client, role |-> session[line.client].role]
  ELSE line

SendLine(c) ==
  /\ session[c].pc = "sending" /\ Len(session[c].out) > 1
  /\ inbox' = [inbox EXCEPT ![c] = Append(@, Written(Head(session[c].out)))]
  /\ session' = [session EXCEPT ![c].out = Tail(@)]
  /\ UNCHANGED <<plant, thread, registry, lock, copied, commands>>

\* After the last line the handler returns: LIST USERS gives the lock back (no
\* step of another thread can come between the two), and the session goes on
\* or, after QUIT, leaves.
SendLastLine(c) ==
  /\ session[c].pc = "sending" /\ Len(session[c].out) = 1
  /\ inbox' = [inbox EXCEPT ![c] = Append(@, Written(Head(session[c].out)))]
  /\ session' = [session EXCEPT ![c] =
                   [Idle(@.role) EXCEPT !.pc = session[c].then]]
  /\ lock' = IF lock = c THEN "free" ELSE lock
  /\ UNCHANGED <<plant, thread, registry, copied, commands>>

\* recv returns 0 or an error.
Disconnect(c) ==
  /\ session[c].pc = "idle"
  /\ session' = [session EXCEPT ![c].pc = "removing"]
  /\ UNCHANGED <<plant, thread, registry, lock, inbox, copied, commands>>

\* connection_registry_remove unlinks the session's node.
Remove(c) ==
  /\ session[c].pc = "removing" /\ lock = "free"
  /\ \E i \in 1 .. Len(registry) :
       /\ registry[i] = c
       /\ registry' = SubSeq(registry, 1, i - 1) \o SubSeq(registry, i + 1, Len(registry))
  /\ session' = [session EXCEPT ![c].pc = "gone"]
  /\ UNCHANGED <<plant, thread, lock, inbox, copied, commands>>

-----------------------------------------------------------------------------
(* Commands: dispatch_command and the cmd_ handlers *)

Dispatch(c, name) ==
  /\ session[c].pc = "idle" /\ commands[name] > 0
  /\ commands' = [commands EXCEPT ![name] = @ - 1]

Reply(c, lines) == session' = [session EXCEPT ![c].pc = "sending", ![c].out = lines]

IsEngineer(c) == session[c].role = "ENGINEER"

\* Variant with a planted fault: an engineer is never demoted.
CmdAuthenticateSticky(c, verdict) ==
  /\ Dispatch(c, "AUTHENTICATE")
  /\ session' = [session EXCEPT
       ![c].pc = "sending",
       ![c].role = IF verdict = "ENGINEER" THEN verdict ELSE @,
       ![c].out = <<IF verdict = "NONE" THEN Err("invalid_credentials") ELSE OkRole(verdict)>>]
  /\ UNCHANGED <<plant, thread, registry, lock, inbox, copied>>

CmdAuthenticate(c, verdict) ==
  /\ Dispatch(c, "AUTHENTICATE")
  /\ session' = [session EXCEPT
       ![c].pc = "sending",
       ![c].role = IF verdict = "NONE" THEN @ ELSE verdict,
       ![c].out = <<IF verdict = "NONE" THEN Err("invalid_credentials") ELSE OkRole(verdict)>>]
  /\ UNCHANGED <<plant, thread, registry, lock, inbox, copied>>

\* The three commands for engineers, when a supervisor sends them.
CmdForbidden(c) ==
  /\ \E name \in {"MODIFY_RPM", "ADJUST_HEADING", "LIST USERS"} : Dispatch(c, name)
  /\ ~ IsEngineer(c)
  /\ Reply(c, <<Err("forbidden")>>)
  /\ UNCHANGED <<plant, thread, registry, lock, inbox, copied>>

\* An argument that is missing or cannot be read.
CmdInvalid(c) ==
  /\ \E name \in {"MODIFY_RPM", "ADJUST_HEADING"} : Dispatch(c, name)
  /\ IsEngineer(c)
  /\ Reply(c, <<Err("invalid_value")>>)
  /\ UNCHANGED <<plant, thread, registry, lock, inbox, copied>>

CmdModifyRpm(c, delta) ==
  /\ Dispatch(c, "MODIFY_RPM") /\ IsEngineer(c)
  /\ equipment' = Modified(equipment, delta)
  /\ Reply(c, <<LET reason == ModifyReason(equipment, delta)
                IN  IF reason = "rpm" THEN Ok("rpm") ELSE Err(reason)>>)
  /\ UNCHANGED <<since, recent, pushed, thread, registry, lock, inbox, copied>>

\* cmd_adjust_heading turns the plant and then reads it in a second critical
\* section.
CmdAdjustHeading(c, direction) ==
  /\ Dispatch(c, "ADJUST_HEADING") /\ IsEngineer(c)
  /\ equipment' = Adjusted(equipment, direction)
  /\ since' = [d \in Clients |-> IF d = c THEN {equipment'.heading}
                                         ELSE since[d] \cup {equipment'.heading}]
  /\ session' = [session EXCEPT ![c].pc = "readback"]
  /\ UNCHANGED <<recent, pushed, thread, registry, lock, inbox, copied>>

\* Variant with a planted fault: the heading of the last METRIC is told.
ReadHeadingStale(c) ==
  /\ session[c].pc = "readback"
  /\ session' = [session EXCEPT
       ![c].pc = "sending",
       ![c].out = <<OkHeading(metrics.snap.heading, since[c])>>]
  /\ UNCHANGED <<plant, thread, registry, lock, inbox, copied, commands>>

ReadHeading(c) ==
  /\ session[c].pc = "readback"
  /\ session' = [session EXCEPT
       ![c].pc = "sending",
       ![c].out = <<OkHeading(equipment.heading, since[c])>>]
  /\ UNCHANGED <<plant, thread, registry, lock, inbox, copied, commands>>

\* ROLE?, HELLO, SENSOR_DATA and unknown commands answer one line too, from the
\* session's own node; GET_STATUS stands for them.
CmdGetStatus(c) ==
  /\ Dispatch(c, "GET_STATUS")
  /\ Reply(c, <<Status(equipment)>>)
  /\ UNCHANGED <<plant, thread, registry, lock, inbox, copied>>

\* Variant with a planted fault: the oldest records are copied.
CmdGetAlertsOldest(c) ==
  /\ Dispatch(c, "GET_ALERTS")
  /\ LET n == IF Len(recent) < MaxRecords THEN Len(recent) ELSE MaxRecords
     IN  Reply(c, <<OkAlerts(n, pushed)>>
                  \o [i \in 1 .. n |-> Alert(recent[i], "history")])
  /\ copied' = [copied EXCEPT ![c] = pushed]
  /\ UNCHANGED <<plant, thread, registry, lock, inbox>>

CmdGetAlerts(c) ==
  /\ Dispatch(c, "GET_ALERTS")
  /\ LET history == Newest(MaxRecords, recent)
     IN  Reply(c, <<OkAlerts(Len(history), pushed)>>
                  \o [i \in 1 .. Len(history) |-> Alert(history[i], "history")])
  /\ copied' = [copied EXCEPT ![c] = pushed]
  /\ UNCHANGED <<plant, thread, registry, lock, inbox>>

CmdListUsers(c) ==
  /\ Dispatch(c, "LIST USERS") /\ IsEngineer(c) /\ lock = "free"
  /\ lock' = c
  /\ Reply(c, <<OkCount("users", Len(registry))>>
              \o [i \in 1 .. Len(registry) |-> User(registry[i])])
  /\ UNCHANGED <<plant, thread, registry, inbox, copied>>

CmdQuit(c) ==
  /\ Dispatch(c, "QUIT")
  /\ session' = [session EXCEPT ![c].pc = "sending", ![c].out = <<Bye>>,
                                ![c].then = "removing"]
  /\ UNCHANGED <<plant, thread, registry, lock, inbox, copied>>

Command(c) ==
  \/ CmdForbidden(c) \/ CmdInvalid(c) \/ CmdGetStatus(c) \/ CmdGetAlerts(c)
  \/ CmdListUsers(c) \/ CmdQuit(c)
  \/ \E verdict \in Verdicts : CmdAuthenticate(c, verdict)
  \/ \E delta \in Deltas : CmdModifyRpm(c, delta)
  \/ \E direction \in Directions : CmdAdjustHeading(c, direction)

\* Nothing is left to do within the bounds.
Finished ==
  /\ metrics.pc = "tick" /\ cycles = 0
  /\ \A c \in Clients : session[c].pc = "gone"
  /\ UNCHANGED vars

Next ==
  \/ MetricsThread
  \/ Finished
  \/ \E c \in Clients :
       \/ Connect(c) \/ SendLine(c) \/ SendLastLine(c)
       \/ Disconnect(c) \/ Remove(c) \/ ReadHeading(c) \/ Command(c)

Spec == Init /\ [][Next]_vars

-----------------------------------------------------------------------------
(* Safety *)

Has(line, field) == field \in DOMAIN line

Positions(c, kind) == {i \in 1 .. Len(inbox[c]) : inbox[c][i].kind = kind}

\* Where the answers "OK <count> users" and "OK <count> alerts" begin.
Headers(c, what) ==
  {i \in Positions(c, "OK") : Has(inbox[c][i], "what") /\ inbox[c][i].what = what}

AlertsIn(lines) ==
  {lines[i].alert.number : i \in {j \in 1 .. Len(lines) : lines[j].kind = "ALERT"}}

ToBroadcast == {metrics.done[i].number : i \in 1 .. Len(metrics.done)}

\* "a newly connected operator can catch up" (alert_system.h): a registered
\* client that asked GET_ALERTS misses no alert from the oldest it was sent on.
\* Each was in the answer, or is broadcast to it, whatever the moment at which
\* it connected and asked, because a record enters the history before it is
\* broadcast.
NoAlertGap ==
  \A c \in Registered : copied[c] # -1 =>
    \A n \in 1 .. pushed :
      n > copied[c] - MaxRecords =>
        n \in AlertsIn(inbox[c]) \cup AlertsIn(session[c].out) \cup ToBroadcast

\* The alerts a client is sent in a cycle are those of the METRIC line it was
\* sent in that cycle, although commands change the plant in between.
AlertsMatchMetric ==
  \A c \in Clients : \A i \in Positions(c, "ALERT") :
    LET before == {j \in Positions(c, "METRIC") : j < i}
        last == CHOOSE j \in before : \A k \in before : k <= j
        raised == AllAlerts(inbox[c][last].snap)
    IN  inbox[c][i].from = "broadcast" /\ before # {} =>
          \E k \in 1 .. Len(raised) : raised[k] = inbox[c][i].alert.alert

\* The answer to LIST USERS arrives in one piece: n USER lines directly follow
\* "OK n users", for distinct clients, whoever broadcasts, connects or leaves.
UserListContiguous ==
  \A c \in Clients : \A i \in Headers(c, "users") :
    LET sent == {k \in 1 .. inbox[c][i].count : i + k <= Len(inbox[c])}
    IN  /\ \A k \in sent : inbox[c][i + k].kind = "USER"
        /\ Cardinality({inbox[c][i + k].client : k \in sent}) = Cardinality(sent)

\* What needs an engineer is only done for a session whose last accepted
\* credentials were an engineer's: every answer that shows an effect (the rpm,
\* a heading, the users) follows "OK role=ENGINEER" with no demotion between.
EffectsAreAuthorized ==
  \A c \in Clients : \A i \in Positions(c, "OK") :
    LET line == inbox[c][i]
        verdicts == {j \in Positions(c, "OK") : j < i /\ Has(inbox[c][j], "role")}
        effect == \/ Has(line, "heading")
                  \/ Has(line, "text") /\ line.text = "rpm"
                  \/ Has(line, "what") /\ line.what = "users"
    IN  effect =>
          \E j \in verdicts : /\ inbox[c][j].role = "ENGINEER"
                               /\ \A k \in verdicts : k <= j

\* The answer to GET_ALERTS is not one piece on the wire: ALERT lines of a cycle may
\* come between its lines.  Yet behind "OK n alerts" the lines that come from the
\* history are, in order, the n newest records of the moment at which the command was
\* carried out, as far as they have been written, although the history moves on.
AlertReplyComplete ==
  \A c \in Clients : \A i \in Headers(c, "alerts") :
    LET header == inbox[c][i]
        next == {j \in Headers(c, "alerts") : j > i}
        upTo == IF next = {} THEN Len(inbox[c]) ELSE CHOOSE j \in next : \A k \in next : j <= k
        lines == {j \in i + 1 .. upTo : /\ inbox[c][j].kind = "ALERT"
                                        /\ inbox[c][j].from = "history"}
    IN  /\ header.count = IF header.newest < MaxRecords THEN header.newest ELSE MaxRecords
        /\ Cardinality(lines) <= header.count
        /\ next # {} \/ session[c].pc # "sending" => Cardinality(lines) = header.count
        /\ \A j \in lines :
             inbox[c][j].alert.number
               = header.newest - header.count + Cardinality({l \in lines : l <= j})

\* The heading a session is told is one the plant has had since the session's own
\* turn: its own, or one that another engineer's turn gave the plant before the
\* session read it back, and never one from before its turn.
HeadingReplyIsRecent ==
  \A c \in Clients : \A i \in Positions(c, "OK") :
    Has(inbox[c][i], "heading") => inbox[c][i].heading \in inbox[c][i].since
=============================================================================
