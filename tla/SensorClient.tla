---------------------------- MODULE SensorClient ----------------------------
(***************************************************************************)
(* The Go sensor client: the reconnection loop with its backoff            *)
(* (reconnect.go), a connection with its three-line handshake, its         *)
(* receiver and its Close (protocol.go), the sensor goroutines and the     *)
(* shutdown of main (main.go).  The goroutines share the connection's      *)
(* fields and the manager's without a lock, but for the writes.            *)
(*                                                                         *)
(* The server's end of a connection answers in order, and puts broadcast   *)
(* lines in between at any moment.                                         *)
(***************************************************************************)
EXTENDS Integers, Sequences

CONSTANTS
  Ids,          \* ServerConnection objects at a time
  Sensors,      \* the sensor goroutines
  NoConn,       \* nil
  InitialDelay, MaxDelay, Multiplier,  \* ReconnectConfig, in seconds
  MaxFailures,  \* failed attempts in a row that are told apart
  MaxUnread     \* lines of the server under way to the client

ASSUME NoConnAssumption == NoConn \notin Ids
ASSUME DelaysAssumption ==
  /\ InitialDelay \in Nat \ {0} /\ MaxDelay \in Nat /\ InitialDelay <= MaxDelay
  /\ Multiplier \in Nat \ {0}
ASSUME BoundsAssumption == MaxFailures \in Nat /\ MaxUnread \in Nat

VARIABLES
  mgr,        \* reconnectLoop: pc, the connection sc, the delay
  failures,   \* attempts that have failed since the last success
  published,  \* rm.conn
  running,    \* rm.running, and stopCh of the manager is open
  conn,       \* conn[k]: the fields of a ServerConnection
  receiver,   \* receiver[k]: the goroutine of StartReceiver
  server,     \* server[k]: the server's end of the connection
  sensor,     \* sensor[s]: pc, and the connection it has fetched
  main,       \* the main goroutine: pc, and the connection it is closing
  crashed     \* a nil pointer has been dereferenced

vars == <<mgr, failures, published, running, conn, receiver, server, sensor, main, crashed>>
manager == <<mgr, failures, published>>
ends == <<conn, server>>

Ended == crashed \/ main.pc = "exited"

MgrPcs == {"dial", "welcome", "hello", "auth", "abandon", "closing", "backoff", "connected",
           "start", "watch", "lost", "pause", "stopped"}

\* connected and hasConn (sc.conn is not nil) are the object's; misled says that a
\* broadcast was taken for an answer during the handshake.
Unused == [connected |-> FALSE, hasConn |-> FALSE, misled |-> FALSE]

\* The server's end: the lines not read by the client yet, how many lines it was
\* sent and has answered, its verdict, and the last line it was sent.
NoServer == [up |-> FALSE, unread |-> <<>>, sent |-> 0, answered |-> 0,
             granted |-> FALSE, last |-> "none"]

TypeOK ==
  /\ mgr \in [pc : MgrPcs, sc : Ids \cup {NoConn}, delay : InitialDelay .. MaxDelay]
  /\ failures \in 0 .. MaxFailures
  /\ published \in Ids \cup {NoConn}
  /\ running \in BOOLEAN /\ crashed \in BOOLEAN
  /\ conn \in [Ids -> [connected : BOOLEAN, hasConn : BOOLEAN, misled : BOOLEAN]]
  /\ receiver \in [Ids -> {"none", "check", "readLine", "deadline", "wait", "done"}]
  /\ server \in [Ids -> [up : BOOLEAN, unread : Seq({"OK", "ERR", "METRIC"}), sent : 0 .. 2,
                       answered : 0 .. 3, granted : BOOLEAN,
                       last : {"none", "HELLO", "AUTHENTICATE", "SENSOR_DATA", "QUIT"}]]
  /\ \A k \in Ids : Len(server[k].unread) <= MaxUnread
  /\ sensor \in [Sensors -> [pc : {"off", "select", "send", "stopped"}, k : Ids \cup {NoConn}]]
  /\ main \in [pc : {"wait", "run", "join", "stop", "close", "closing", "leaving", "exited"},
               k : Ids \cup {NoConn}]

Init ==
  /\ mgr = [pc |-> "dial", sc |-> NoConn, delay |-> InitialDelay]
  /\ failures = 0 /\ published = NoConn /\ running = TRUE
  /\ conn = [k \in Ids |-> Unused]
  /\ receiver = [k \in Ids |-> "none"]
  /\ server = [k \in Ids |-> NoServer]
  /\ sensor = [s \in Sensors |-> [pc |-> "off", k |-> NoConn]]
  /\ main = [pc |-> "wait", k |-> NoConn] /\ crashed = FALSE

Crash ==
  /\ crashed' = TRUE
  /\ UNCHANGED <<manager, running, ends, receiver, sensor, main>>

-----------------------------------------------------------------------------
(* The server's end of connection k, and the runtime *)

\* Only the lines that the handshake may read are kept account of: what comes later
\* goes to the receiver and makes no difference, or is not read at all.
Shaking(k) == mgr.sc = k /\ mgr.pc \in {"welcome", "hello", "auth"}

\* The welcome line, and the answers to HELLO and AUTHENTICATE.
Answer(k) ==
  /\ Shaking(k) /\ server[k].up /\ server[k].answered <= server[k].sent
  /\ Len(server[k].unread) < MaxUnread
  /\ \E granted \in IF server[k].answered = 2 THEN BOOLEAN ELSE {FALSE} :
       server' = [server EXCEPT
         ![k].answered = @ + 1, ![k].granted = granted,
         ![k].unread = Append(@, IF server[k].answered < 2 \/ granted THEN "OK" ELSE "ERR")]
  /\ UNCHANGED <<manager, running, conn, receiver, sensor, main, crashed>>

\* A METRIC or ALERT line.
ServerBroadcast(k) ==
  /\ Shaking(k) /\ server[k].up /\ Len(server[k].unread) < MaxUnread
  /\ server' = [server EXCEPT ![k].unread = Append(@, "METRIC")]
  /\ UNCHANGED <<manager, running, conn, receiver, sensor, main, crashed>>

\* The server goes away, or ends the session.
ServerDown(k) ==
  /\ server[k].up
  /\ server' = [server EXCEPT ![k].up = FALSE]
  /\ UNCHANGED <<manager, running, conn, receiver, sensor, main, crashed>>

\* The collector frees a connection nobody refers to; that closes its socket.
InUse(k) ==
  \/ mgr.sc = k \/ published = k \/ main.k = k
  \/ receiver[k] \notin {"none", "done"}
  \/ \E s \in Sensors : sensor[s].k = k

Collect(k) ==
  /\ ~ InUse(k) /\ (conn[k] # Unused \/ server[k] # NoServer \/ receiver[k] # "none")
  /\ conn' = [conn EXCEPT ![k] = Unused]
  /\ server' = [server EXCEPT ![k] = NoServer]
  /\ receiver' = [receiver EXCEPT ![k] = "none"]
  /\ UNCHANGED <<manager, running, sensor, main, crashed>>

Free(k) == ~ InUse(k) /\ conn[k] = Unused /\ server[k] = NoServer /\ receiver[k] = "none"

-----------------------------------------------------------------------------
(* reconnectLoop *)

LoopEnds ==
  /\ mgr.pc \in {"dial", "watch", "backoff", "pause"} /\ ~ running
  /\ mgr' = [mgr EXCEPT !.pc = "stopped", !.sc = NoConn]
  /\ UNCHANGED <<failures, published, running, ends, receiver, sensor, main, crashed>>

Dial(k) ==
  /\ mgr.pc = "dial" /\ running /\ Free(k)
  /\ conn' = [conn EXCEPT ![k].connected = TRUE, ![k].hasConn = TRUE]
  /\ server' = [server EXCEPT ![k].up = TRUE]
  /\ mgr' = [mgr EXCEPT !.pc = "welcome", !.sc = k]
  /\ UNCHANGED <<failures, published, running, receiver, sensor, main, crashed>>

DialFails ==
  /\ mgr.pc = "dial" /\ running
  /\ mgr' = [mgr EXCEPT !.pc = "backoff"]
  /\ failures' = IF failures < MaxFailures THEN failures + 1 ELSE failures
  /\ UNCHANGED <<published, running, ends, receiver, sensor, main, crashed>>

\* Connect: a line is read, whichever it is, and the next command is sent.
Handshake(pc, next, command) ==
  LET k == mgr.sc IN
  /\ mgr.pc = pc /\ server[k].unread # <<>>
  /\ conn' = [conn EXCEPT ![k].misled = @ \/ Head(server[k].unread) = "METRIC"]
  /\ server' = [server EXCEPT ![k].unread = Tail(@), ![k].sent = @ + 1, ![k].last = command]
  /\ mgr' = [mgr EXCEPT !.pc = next]
  /\ UNCHANGED <<failures, published, running, receiver, sensor, main, crashed>>

SendHello == Handshake("welcome", "hello", "HELLO")
SendAuthenticate == Handshake("hello", "auth", "AUTHENTICATE")

\* Variant with a planted fault: the prefix is not looked at.
ReadVerdictAny ==
  LET k == mgr.sc IN
  /\ mgr.pc = "auth" /\ server[k].unread # <<>>
  /\ conn' = [conn EXCEPT ![k].misled = @ \/ Head(server[k].unread) = "METRIC"]
  /\ server' = [server EXCEPT ![k].unread = Tail(@)]
  /\ mgr' = [mgr EXCEPT !.pc = "connected"]
  /\ UNCHANGED <<failures, published, running, receiver, sensor, main, crashed>>

\* The third line decides by its prefix.
ReadVerdict ==
  LET k == mgr.sc IN
  /\ mgr.pc = "auth" /\ server[k].unread # <<>>
  /\ conn' = [conn EXCEPT ![k].misled = @ \/ Head(server[k].unread) = "METRIC"]
  /\ server' = [server EXCEPT ![k].unread = Tail(@)]
  /\ mgr' = [mgr EXCEPT !.pc = IF Head(server[k].unread) = "OK" THEN "connected" ELSE "abandon"]
  /\ UNCHANGED <<failures, published, running, receiver, sensor, main, crashed>>

\* A read has run into its deadline or the end of the connection, or a write has
\* failed.
HandshakeFails ==
  /\ mgr.pc \in {"welcome", "hello", "auth"}
  /\ server[mgr.sc].unread = <<>> \/ ~ server[mgr.sc].up
  /\ mgr' = [mgr EXCEPT !.pc = "abandon"]
  /\ UNCHANGED <<failures, published, running, ends, receiver, sensor, main, crashed>>

\* Close: QUIT, a pause, and then the socket.
CloseBegin(k) ==
  /\ conn' = [conn EXCEPT ![k].connected = FALSE]
  /\ server' = [server EXCEPT ![k].last = "QUIT", ![k].unread = <<>>]
CloseEnd(k) ==
  /\ conn' = [conn EXCEPT ![k].hasConn = FALSE]
  /\ server' = [server EXCEPT ![k].up = FALSE]

Abandon ==
  /\ mgr.pc = "abandon"
  /\ CloseBegin(mgr.sc)
  /\ mgr' = [mgr EXCEPT !.pc = "closing"]
  /\ UNCHANGED <<failures, published, running, receiver, sensor, main, crashed>>

Abandoned ==
  /\ mgr.pc = "closing"
  /\ CloseEnd(mgr.sc)
  /\ mgr' = [mgr EXCEPT !.pc = "backoff", !.sc = NoConn]
  /\ failures' = IF failures < MaxFailures THEN failures + 1 ELSE failures
  /\ UNCHANGED <<published, running, receiver, sensor, main, crashed>>

\* Variant with a planted fault: a longer delay is kept as it was.
AtMostKeeps(d) == IF d > MaxDelay THEN d \div Multiplier ELSE d

AtMost(d) == IF d > MaxDelay THEN MaxDelay ELSE d

\* waitWithStop(delay), and the next delay.
Backoff ==
  /\ mgr.pc = "backoff" /\ running
  /\ mgr' = [mgr EXCEPT !.pc = "dial", !.delay = AtMost(@ * Multiplier)]
  /\ UNCHANGED <<failures, published, running, ends, receiver, sensor, main, crashed>>

Publish ==
  /\ mgr.pc = "connected"
  /\ published' = mgr.sc
  /\ mgr' = [mgr EXCEPT !.pc = "start", !.delay = InitialDelay]
  /\ failures' = 0
  /\ UNCHANGED <<running, ends, receiver, sensor, main, crashed>>

\* sc.conn.SetReadDeadline, while Stop may have set sc.conn to nil.
StartReceiver ==
  /\ mgr.pc = "start"
  /\ IF conn[mgr.sc].hasConn
     THEN /\ receiver' = [receiver EXCEPT ![mgr.sc] = "check"]
          /\ mgr' = [mgr EXCEPT !.pc = "watch"]
          /\ server' = [server EXCEPT ![mgr.sc].unread = <<>>, ![mgr.sc].answered = 3]
          /\ UNCHANGED <<failures, published, running, conn, sensor, main, crashed>>
     ELSE Crash

\* Variant with a planted fault: the loop takes every wakeup for a loss.
WatchHasty ==
  /\ mgr.pc = "watch" /\ running
  /\ mgr' = [mgr EXCEPT !.pc = "lost", !.sc = NoConn]
  /\ UNCHANGED <<failures, published, running, ends, receiver, sensor, main, crashed>>

Watch ==
  /\ mgr.pc = "watch" /\ running /\ ~ conn[mgr.sc].connected
  /\ mgr' = [mgr EXCEPT !.pc = "lost", !.sc = NoConn]
  /\ UNCHANGED <<failures, published, running, ends, receiver, sensor, main, crashed>>

\* The lost connection is let go of; it is not closed.
Lost ==
  /\ mgr.pc = "lost"
  /\ published' = NoConn
  /\ mgr' = [mgr EXCEPT !.pc = "pause"]
  /\ UNCHANGED <<failures, running, ends, receiver, sensor, main, crashed>>

Pause ==
  /\ mgr.pc = "pause" /\ running
  /\ mgr' = [mgr EXCEPT !.pc = "dial"]
  /\ UNCHANGED <<failures, published, running, ends, receiver, sensor, main, crashed>>

Manager ==
  \/ LoopEnds \/ DialFails \/ SendHello \/ SendAuthenticate \/ ReadVerdict \/ HandshakeFails
  \/ Abandon \/ Abandoned \/ Backoff \/ Publish \/ StartReceiver \/ Watch \/ Lost \/ Pause
  \/ \E k \in Ids : Dial(k)

-----------------------------------------------------------------------------
(* The receiver of connection k *)

ReceiverGoes(k, pc) ==
  /\ receiver' = [receiver EXCEPT ![k] = pc]
  /\ UNCHANGED <<manager, running, ends, sensor, main, crashed>>

\* Variant with a planted fault: the receiver ends without a word.
ReceiverFailsSilently(k) ==
  /\ receiver' = [receiver EXCEPT ![k] = "done"]
  /\ UNCHANGED <<manager, running, ends, sensor, main, crashed>>

ReceiverFails(k) ==
  /\ conn' = [conn EXCEPT ![k].connected = FALSE]
  /\ receiver' = [receiver EXCEPT ![k] = "done"]
  /\ UNCHANGED <<manager, running, server, sensor, main, crashed>>

ReceiverLoop(k) ==
  /\ receiver[k] = "check"
  /\ ReceiverGoes(k, IF conn[k].connected THEN "readLine" ELSE "done")

\* readLine: sc.conn is compared with nil, and then used.
ReceiverNilCheck(k) ==
  /\ receiver[k] = "readLine"
  /\ IF conn[k].hasConn THEN ReceiverGoes(k, "deadline") ELSE ReceiverFails(k)

ReceiverDeadline(k) ==
  /\ receiver[k] = "deadline"
  /\ IF conn[k].hasConn THEN ReceiverGoes(k, "wait") ELSE Crash

\* A line has come.
ReceiverRead(k) ==
  /\ receiver[k] = "wait" /\ server[k].up
  /\ ReceiverGoes(k, "check")

\* The end of the connection, or no line for 15 seconds: the deadline is set for
\* every line.
ReceiverError(k) ==
  /\ receiver[k] = "wait"
  /\ ReceiverFails(k)

Receiver(k) ==
  \/ ReceiverLoop(k) \/ ReceiverNilCheck(k) \/ ReceiverDeadline(k)
  \/ ReceiverRead(k) \/ ReceiverError(k)

-----------------------------------------------------------------------------
(* The sensors: runSensor *)

\* The ticker fires and there is a connection.
Tick(s) ==
  /\ sensor[s].pc = "select" /\ published # NoConn /\ conn[published].connected
  /\ sensor' = [sensor EXCEPT ![s] = [pc |-> "send", k |-> published]]
  /\ UNCHANGED <<manager, running, ends, receiver, main, crashed>>

\* SendSensorData, on the connection fetched before.  sendLine looks for a closed one;
\* as main joins the sensors before Stop, none of them meets it.
SendReading(s) ==
  LET k == sensor[s].k IN
  /\ sensor[s].pc = "send"
  /\ sensor' = [sensor EXCEPT ![s] = [pc |-> "select", k |-> NoConn]]
  /\ \/ /\ conn[k].hasConn
        /\ server' = [server EXCEPT ![k].last = "SENSOR_DATA"]
        /\ UNCHANGED conn
     \/ /\ conn[k].hasConn /\ ~ server[k].up
        /\ conn' = [conn EXCEPT ![k].connected = FALSE]
        /\ UNCHANGED server
     \/ /\ ~ conn[k].hasConn
        /\ UNCHANGED ends
  /\ UNCHANGED <<manager, running, receiver, main, crashed>>

\* Variant with a planted fault: stopCh is not among the cases of the select.
SensorStopNever(s) ==
  /\ sensor[s].pc = "off" /\ main.pc \notin {"wait", "run"}
  /\ sensor' = [sensor EXCEPT ![s].pc = "stopped"]
  /\ UNCHANGED <<manager, running, ends, receiver, main, crashed>>

\* main has closed the sensors' stopCh.
SensorStop(s) ==
  /\ sensor[s].pc = "select" /\ main.pc \notin {"wait", "run"}
  /\ sensor' = [sensor EXCEPT ![s].pc = "stopped"]
  /\ UNCHANGED <<manager, running, ends, receiver, main, crashed>>

-----------------------------------------------------------------------------
(* main *)

MainGoes(pc, k) ==
  /\ main' = [pc |-> pc, k |-> k]
  /\ UNCHANGED <<manager, ends, receiver, sensor, crashed>>

\* A connection has been seen, or 30 seconds have passed.
LaunchSensors ==
  /\ main.pc = "wait" /\ main' = [main EXCEPT !.pc = "run"]
  /\ sensor' = [s \in Sensors |-> [pc |-> "select", k |-> NoConn]]
  /\ UNCHANGED <<manager, running, ends, receiver, crashed>>

\* SIGINT ends the process until main listens for it; then it closes stopCh.
Interrupt ==
  /\ \/ main.pc = "wait" /\ MainGoes("exited", NoConn)
     \/ main.pc = "run" /\ MainGoes("join", NoConn)
  /\ UNCHANGED running

\* Variant with a planted fault: the sensors are not waited for.
JoinNobody ==
  /\ main.pc = "join"
  /\ MainGoes("stop", NoConn) /\ UNCHANGED running

\* wg.Wait()
Join ==
  /\ main.pc = "join" /\ \A s \in Sensors : sensor[s].pc = "stopped"
  /\ MainGoes("stop", NoConn) /\ UNCHANGED running

\* Stop: rm.conn is compared with nil, and then used.
Stop ==
  /\ main.pc = "stop"
  /\ running' = FALSE
  /\ MainGoes(IF published = NoConn THEN "leaving" ELSE "close", NoConn)

StopClose ==
  /\ main.pc = "close"
  /\ IF published = NoConn THEN Crash
     ELSE IF ~ conn[published].hasConn
     THEN MainGoes("leaving", NoConn) /\ UNCHANGED running
     ELSE /\ CloseBegin(published)
          /\ main' = [pc |-> "closing", k |-> published]
          /\ UNCHANGED <<manager, running, receiver, sensor, crashed>>

\* sc.conn is nil from here on, and the other goroutines run until main has returned.
StopClosed ==
  /\ main.pc = "closing"
  /\ CloseEnd(main.k)
  /\ main' = [pc |-> "leaving", k |-> NoConn]
  /\ UNCHANGED <<manager, running, receiver, sensor, crashed>>

Exit ==
  /\ main.pc = "leaving"
  /\ MainGoes("exited", NoConn) /\ UNCHANGED running

Main == LaunchSensors \/ Join \/ Stop \/ StopClose \/ StopClosed \/ Exit

-----------------------------------------------------------------------------

Next ==
  /\ ~ Ended
  /\ \/ Manager \/ Main \/ Interrupt
     \/ \E k \in Ids : \/ Receiver(k)
                       \/ Answer(k) \/ ServerBroadcast(k) \/ ServerDown(k) \/ Collect(k)
     \/ \E s \in Sensors : Tick(s) \/ SendReading(s) \/ SensorStop(s)

\* Goroutines are scheduled, sleeps and deadlines end, and the collector runs.  A
\* select with two ready cases chooses either in the end.  Nothing is assumed of
\* the server and the network.
Spec ==
  /\ Init /\ [][Next]_vars
  /\ WF_vars(~ Ended /\ Manager)
  /\ WF_vars(~ Ended /\ Main)
  /\ \A k \in Ids : WF_vars(~ Ended /\ Receiver(k)) /\ WF_vars(~ Ended /\ Collect(k))
  /\ \A s \in Sensors : /\ WF_vars(~ Ended /\ SendReading(s))
                        /\ SF_vars(~ Ended /\ SensorStop(s))

-----------------------------------------------------------------------------
(* Safety *)

\* Of all connections the client still holds or has let go of, at most one counts as
\* connected, although lost ones linger with their receivers: sensors and the
\* reconnection loop are never fooled by an old one.
AtMostOneConnected ==
  \A j, k \in Ids : conn[j].connected /\ conn[k].connected => j = k

\* A connection carries readings only after its AUTHENTICATE and before its QUIT,
\* even when a sensor fetched it before it was lost, replaced or closed by Stop.
ReadingsInSession ==
  [][\A k \in Ids : server'[k].last = "SENSOR_DATA" =>
       server[k].last \in {"AUTHENTICATE", "SENSOR_DATA"}]_vars

\* When no broadcast has come between the answers of the handshake, the connection the
\* sensors use is one whose credentials the server has accepted, whatever else has
\* become of it since.
ConnectedMeansAuthenticated ==
  published # NoConn /\ ~ conn[published].misled => server[published].granted

\* The wait after the n-th failure in a row is InitialDelay * Multiplier^(n-1) and
\* at most MaxDelay; a success starts the count anew.
BackoffMatchesFailures ==
  mgr.pc = "backoff" /\ failures < MaxFailures =>
    LET grown == InitialDelay * Multiplier ^ (failures - 1)
    IN  mgr.delay = IF grown > MaxDelay THEN MaxDelay ELSE grown

\* "Handles SIGINT for graceful shutdown" (main.go): no goroutine uses a connection
\* that another has just set to nil.
NeverCrashes == ~ crashed

-----------------------------------------------------------------------------
(* Liveness *)

\* A connection the server has ended is let go of, and the next attempt is made.
LostIsRetried ==
  \A k \in Ids :
    (published = k /\ ~ server[k].up) ~> (mgr.pc = "dial" \/ ~ running \/ Ended)

\* A client that does not crash comes to its end after an interrupt, whatever the
\* network does.
StopEnds == []~ crashed => (main.pc = "join" ~> main.pc = "exited")
=============================================================================
