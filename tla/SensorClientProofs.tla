-------------------------- MODULE SensorClientProofs --------------------------
(* Proofs about SensorClient: the goroutines share the connections' fields    *)
(* without a lock, and still at most one connection counts as connected, the   *)
(* one that is published was accepted, and readings keep to its session.       *)
EXTENDS SensorClient, TLAPS

-----------------------------------------------------------------------------
(* The inductive invariant *)

\* Where reconnectLoop has a connection at hand, and where that one is not yet
\* published.
Holding == {"welcome", "hello", "auth", "abandon", "closing", "connected", "start", "watch"}
Unpublished == {"welcome", "hello", "auth", "abandon", "closing", "connected"}

Places ==
  /\ mgr.pc \in Holding <=> mgr.sc # NoConn
  /\ published # NoConn => mgr.pc \in {"start", "watch", "lost", "stopped"}
  /\ mgr.pc \in {"start", "watch"} => published = mgr.sc
  /\ main.pc = "closing" => main.k \in Ids
  /\ main.pc \in {"stop", "close", "closing", "leaving"} => \A s \in Sensors : sensor[s].pc = "stopped"

\* A connected connection is the one at hand, or the published one that the loop
\* has left behind at its end.
Connected ==
  /\ \A k \in Ids : conn[k].connected => mgr.sc = k \/ (mgr.pc = "stopped" /\ published = k)
  /\ mgr.pc = "closing" => ~ conn[mgr.sc].connected

\* What the loop has sent tells how far the handshake is.
Stage ==
  /\ mgr.pc = "welcome" => server[mgr.sc].sent = 0
  /\ mgr.pc = "hello" => server[mgr.sc].sent = 1
  /\ mgr.pc = "auth" => server[mgr.sc].sent = 2

\* As long as every line that was read was an answer, the answer to the last command
\* is the only one that can be unread, and the third says what the server decided.
InStep(k) ==
  LET sv == server[k]
      Answers == {i \in 1 .. Len(sv.unread) : sv.unread[i] # "METRIC"}
  IN  /\ sv.answered \in {sv.sent, sv.sent + 1}
      /\ sv.answered = sv.sent => Answers = {}
      /\ \A i, j \in Answers : i = j
      /\ sv.sent = 2 => \A i \in Answers : sv.unread[i] = "OK" => sv.granted

Verdicts ==
  /\ mgr.pc \in {"welcome", "hello", "auth"} /\ ~ conn[mgr.sc].misled => InStep(mgr.sc)
  /\ mgr.pc \in {"connected", "start", "watch"} /\ ~ conn[mgr.sc].misled =>
       server[mgr.sc].granted
  /\ ConnectedMeansAuthenticated

InSession == {"AUTHENTICATE", "SENSOR_DATA"}

Readings ==
  /\ mgr.pc \in {"auth", "connected"} => server[mgr.sc].last = "AUTHENTICATE"
  /\ published # NoConn /\ conn[published].connected => server[published].last \in InSession
  /\ \A s \in Sensors : sensor[s].pc = "send" =>
       /\ sensor[s].k \in Ids /\ server[sensor[s].k].last \in InSession
       /\ mgr.pc \in Unpublished => sensor[s].k # mgr.sc

Delay(n) == AtMost(InitialDelay * Multiplier ^ n)

Delays ==
  failures < MaxFailures =>
    /\ mgr.pc = "backoff" => failures >= 1 /\ mgr.delay = Delay(failures - 1)
    /\ mgr.pc \notin {"backoff", "stopped"} => mgr.delay = Delay(failures)

Inv == TypeOK /\ Places /\ Connected /\ Stage /\ Verdicts /\ Readings

-----------------------------------------------------------------------------
(* Types *)

LEMMA InitTypes == Init => TypeOK
<1> SUFFICES ASSUME Init PROVE TypeOK
  OBVIOUS
<1>1. mgr \in [pc : MgrPcs, sc : Ids \cup {NoConn}, delay : InitialDelay .. MaxDelay]
  BY DelaysAssumption DEF Init, MgrPcs
<1>2. failures \in 0 .. MaxFailures
  BY BoundsAssumption DEF Init
<1>3. conn \in [Ids -> [connected : BOOLEAN, hasConn : BOOLEAN, misled : BOOLEAN]]
  BY DEF Init, Unused
<1>4. \A k \in Ids : server[k] = NoServer
  BY DEF Init
<1>5. NoServer \in [up : BOOLEAN, unread : Seq({"OK", "ERR", "METRIC"}), sent : 0 .. 2,
                   answered : 0 .. 3, granted : BOOLEAN,
                   last : {"none", "HELLO", "AUTHENTICATE", "SENSOR_DATA", "QUIT"}]
  BY DEF NoServer
<1>6. Len(NoServer.unread) <= MaxUnread
  BY BoundsAssumption DEF NoServer
<1>7. server \in [Ids -> [up : BOOLEAN, unread : Seq({"OK", "ERR", "METRIC"}), sent : 0 .. 2,
                         answered : 0 .. 3, granted : BOOLEAN,
                         last : {"none", "HELLO", "AUTHENTICATE", "SENSOR_DATA", "QUIT"}]]
  BY <1>5 DEF Init
<1>8. sensor \in [Sensors -> [pc : {"off", "select", "send", "stopped"}, k : Ids \cup {NoConn}]]
  BY DEF Init
<1>9. main \in [pc : {"wait", "run", "join", "stop", "close", "closing", "leaving", "exited"},
               k : Ids \cup {NoConn}]
  BY DEF Init
<1> QED
  BY <1>1, <1>2, <1>3, <1>4, <1>6, <1>7, <1>8, <1>9 DEF Init, TypeOK

\* What TypeOK says of each variable.
Lines == Seq({"OK", "ERR", "METRIC"})
ServerEnd == [up : BOOLEAN, unread : Lines, sent : 0 .. 2, answered : 0 .. 3, granted : BOOLEAN,
              last : {"none", "HELLO", "AUTHENTICATE", "SENSOR_DATA", "QUIT"}]
MgrType == mgr \in [pc : MgrPcs, sc : Ids \cup {NoConn}, delay : InitialDelay .. MaxDelay]
ConnType == conn \in [Ids -> [connected : BOOLEAN, hasConn : BOOLEAN, misled : BOOLEAN]]
ServerType == server \in [Ids -> ServerEnd] /\ \A k \in Ids : Len(server[k].unread) <= MaxUnread
SensorType ==
  sensor \in [Sensors -> [pc : {"off", "select", "send", "stopped"}, k : Ids \cup {NoConn}]]
MainType == main \in [pc : {"wait", "run", "join", "stop", "close", "closing", "leaving", "exited"},
                     k : Ids \cup {NoConn}]
OtherTypes ==
  /\ failures \in 0 .. MaxFailures
  /\ published \in Ids \cup {NoConn}
  /\ running \in BOOLEAN /\ crashed \in BOOLEAN
  /\ receiver \in [Ids -> {"none", "check", "readLine", "deadline", "wait", "done"}]
  /\ SensorType /\ MainType

LEMMA TypeParts == TypeOK <=> MgrType /\ ConnType /\ ServerType /\ OtherTypes
  BY DEF TypeOK, MgrType, ConnType, ServerType, ServerEnd, Lines, OtherTypes,
         SensorType, MainType

LEMMA TypePartsNext == TypeOK' <=> MgrType' /\ ConnType' /\ ServerType' /\ OtherTypes'
  BY DEF TypeOK, MgrType, ConnType, ServerType, ServerEnd, Lines, OtherTypes,
         SensorType, MainType

\* The delay stays within its range.
LEMMA DelayInRange ==
  ASSUME NEW d \in InitialDelay .. MaxDelay
  PROVE  AtMost(d * Multiplier) \in InitialDelay .. MaxDelay
<1>1. d * Multiplier >= d /\ d * Multiplier \in Nat
  BY DelaysAssumption
<1> QED
  BY <1>1, DelaysAssumption DEF AtMost

\* What Tail is.
LEMMA TailUnread ==
  ASSUME NEW S, NEW s \in Seq(S), s # <<>>
  PROVE  /\ Head(s) = s[1] /\ Tail(s) \in Seq(S) /\ Len(s) \in Nat /\ Len(Tail(s)) = Len(s) - 1
         /\ 1 \in 1 .. Len(s)
         /\ \A i \in 1 .. Len(Tail(s)) : Tail(s)[i] = s[i + 1] /\ i + 1 \in 1 .. Len(s)
  OBVIOUS

LEMMA NothingUnread == <<>> \in Lines /\ Len(<<>>) <= MaxUnread
  BY BoundsAssumption DEF Lines

\* The server's end of one connection changes.
LEMMA ServerEdit ==
  ASSUME ServerType, NEW k \in Ids, NEW r \in ServerEnd, Len(r.unread) <= MaxUnread,
         server' = [server EXCEPT ![k] = r]
  PROVE  ServerType'
<1>1. server' \in [Ids -> ServerEnd]
  BY DEF ServerType
<1>2. ASSUME NEW j \in Ids PROVE Len(server'[j].unread) <= MaxUnread
  BY DEF ServerType
<1> QED
  BY <1>1, <1>2 DEF ServerType

\* The ways in which it does: the socket is closed, a line is sent, read or answered.
LEMMA UpEdit ==
  ASSUME ServerType, NEW k \in Ids, NEW up \in BOOLEAN, server' = [server EXCEPT ![k].up = up]
  PROVE  ServerType'
<1>1. server[k] \in ServerEnd /\ Len(server[k].unread) <= MaxUnread /\ DOMAIN server = Ids
  BY DEF ServerType
<1>2. [server[k] EXCEPT !.up = up] \in ServerEnd
  BY <1>1 DEF ServerEnd
<1> QED
  BY <1>1, <1>2, ServerEdit DEF ServerEnd

LEMMA ReadingEdit ==
  ASSUME ServerType, NEW k \in Ids, server' = [server EXCEPT ![k].last = "SENSOR_DATA"]
  PROVE  ServerType'
<1>1. server[k] \in ServerEnd /\ Len(server[k].unread) <= MaxUnread /\ DOMAIN server = Ids
  BY DEF ServerType
<1>2. [server[k] EXCEPT !.last = "SENSOR_DATA"] \in ServerEnd
  BY <1>1 DEF ServerEnd
<1> QED
  BY <1>1, <1>2, ServerEdit DEF ServerEnd

LEMMA UnreadEdit ==
  ASSUME ServerType, NEW k \in Ids, NEW s \in Lines, Len(s) <= MaxUnread,
         server' = [server EXCEPT ![k].unread = s]
  PROVE  ServerType'
<1>1. server[k] \in ServerEnd /\ DOMAIN server = Ids
  BY DEF ServerType
<1>2. [server[k] EXCEPT !.unread = s] \in ServerEnd
  BY <1>1 DEF ServerEnd
<1> QED
  BY <1>1, <1>2, ServerEdit DEF ServerEnd

LEMMA CloseEdit ==
  ASSUME ServerType, NEW k \in Ids,
         server' = [server EXCEPT ![k].last = "QUIT", ![k].unread = <<>>]
  PROVE  ServerType'
<1> DEFINE s == <<>>
<1>1. server[k] \in ServerEnd /\ DOMAIN server = Ids /\ s \in Lines /\ Len(s) <= MaxUnread
  BY NothingUnread DEF ServerType
<1>2. server' = [server EXCEPT ![k].last = "QUIT", ![k].unread = s]
  OBVIOUS
<1> HIDE DEF s
<1>3. [server[k] EXCEPT !.last = "QUIT", !.unread = s] \in ServerEnd
  BY <1>1 DEF ServerEnd
<1>4. server' = [server EXCEPT ![k] = [server[k] EXCEPT !.last = "QUIT", !.unread = s]]
  BY <1>1, <1>2
<1> QED
  BY <1>1, <1>3, <1>4, ServerEdit DEF ServerEnd

LEMMA StartEdit ==
  ASSUME ServerType, NEW k \in Ids,
         server' = [server EXCEPT ![k].unread = <<>>, ![k].answered = 3]
  PROVE  ServerType'
<1> DEFINE s == <<>>
           a == 3
<1>1. /\ server[k] \in ServerEnd /\ DOMAIN server = Ids /\ s \in Lines /\ Len(s) <= MaxUnread
      /\ a \in 0 .. 3
  BY NothingUnread DEF ServerType
<1>2. server' = [server EXCEPT ![k].unread = s, ![k].answered = a]
  OBVIOUS
<1> HIDE DEF s, a
<1>3. [server[k] EXCEPT !.unread = s, !.answered = a] \in ServerEnd
  BY <1>1 DEF ServerEnd
<1>4. server' = [server EXCEPT ![k] = [server[k] EXCEPT !.unread = s, !.answered = a]]
  BY <1>1, <1>2
<1> QED
  BY <1>1, <1>3, <1>4, ServerEdit DEF ServerEnd

LEMMA SendEdit ==
  ASSUME ServerType, NEW k \in Ids, NEW s \in Lines, Len(s) <= MaxUnread, NEW n \in 0 .. 2,
         NEW l \in {"HELLO", "AUTHENTICATE"},
         server' = [server EXCEPT ![k].unread = s, ![k].sent = n, ![k].last = l]
  PROVE  ServerType'
<1>1. server[k] \in ServerEnd /\ DOMAIN server = Ids
  BY DEF ServerType
<1>2. [server[k] EXCEPT !.unread = s, !.sent = n, !.last = l] \in ServerEnd
  BY <1>1 DEF ServerEnd
<1>3. server' = [server EXCEPT ![k] = [server[k] EXCEPT !.unread = s, !.sent = n, !.last = l]]
  BY <1>1
<1> QED
  BY <1>1, <1>2, <1>3, ServerEdit, ZenonT(40) DEF ServerEnd

LEMMA AnswerEdit ==
  ASSUME ServerType, NEW k \in Ids, NEW s \in Lines, Len(s) <= MaxUnread, NEW a \in 0 .. 3,
         NEW g \in BOOLEAN,
         server' = [server EXCEPT ![k].answered = a, ![k].granted = g, ![k].unread = s]
  PROVE  ServerType'
<1>1. server[k] \in ServerEnd /\ DOMAIN server = Ids
  BY DEF ServerType
<1>2. [server[k] EXCEPT !.answered = a, !.granted = g, !.unread = s] \in ServerEnd
  BY <1>1 DEF ServerEnd
<1>3. server' = [server EXCEPT ![k] = [server[k] EXCEPT !.answered = a, !.granted = g, !.unread = s]]
  BY <1>1
<1> QED
  BY <1>1, <1>2, <1>3, ServerEdit DEF ServerEnd

LEMMA FreeEdit ==
  ASSUME ServerType, NEW k \in Ids, server' = [server EXCEPT ![k] = NoServer]
  PROVE  ServerType'
<1>1. NoServer \in ServerEnd /\ NoServer.unread = <<>>
  BY NothingUnread DEF NoServer, ServerEnd
<1> QED
  BY <1>1, NothingUnread, ServerEdit

LEMMA ManagerTypes == ASSUME Inv, Manager PROVE TypeOK'
<1>1. MgrType /\ ConnType /\ ServerType /\ OtherTypes
  BY TypeParts DEF Inv
<1>2. CASE LoopEnds \/ DialFails \/ HandshakeFails \/ Backoff \/ Publish \/ Watch \/ Lost \/ Pause
  <2>1. ConnType' /\ ServerType'
    BY <1>1, <1>2 DEF LoopEnds, DialFails, HandshakeFails, Backoff, Publish, Watch, Lost, Pause,
                      ends, ConnType, ServerType
  <2>2. MgrType'
    <3>1. CASE Backoff
      <4>1. AtMost(mgr.delay * Multiplier) \in InitialDelay .. MaxDelay
        BY <1>1, DelayInRange DEF MgrType
      <4> QED
        BY <1>1, <3>1, <4>1 DEF Backoff, MgrType, MgrPcs
    <3>2. CASE LoopEnds \/ DialFails \/ HandshakeFails \/ Watch \/ Lost \/ Pause
      BY <1>1, <3>2 DEF LoopEnds, DialFails, HandshakeFails, Watch, Lost, Pause, MgrType, MgrPcs
    <3>3. CASE Publish
      <4>1. InitialDelay \in InitialDelay .. MaxDelay /\ "start" \in MgrPcs
        BY DelaysAssumption DEF MgrPcs
      <4> QED
        BY <1>1, <3>3, <4>1 DEF Publish, MgrType
    <3> QED
      BY <1>2, <3>1, <3>2, <3>3
  <2>3. OtherTypes'
    BY <1>1, <1>2, BoundsAssumption
    DEF LoopEnds, DialFails, HandshakeFails, Backoff, Publish, Watch, Lost, Pause, MgrType, OtherTypes, SensorType, MainType
  <2> QED
    BY <2>1, <2>2, <2>3, TypePartsNext
<1>3. ASSUME mgr.pc \in {"welcome", "hello", "auth"}, server[mgr.sc].unread # <<>>
      PROVE  /\ mgr.sc \in Ids /\ Tail(server[mgr.sc].unread) \in Lines
             /\ Len(Tail(server[mgr.sc].unread)) <= MaxUnread
  <2>1. mgr.sc \in Ids
    BY <1>1, <1>3 DEF Inv, Places, Holding, MgrType
  <2>2. server[mgr.sc].unread \in Lines /\ Len(server[mgr.sc].unread) <= MaxUnread
    BY <1>1, <2>1 DEF ServerType, ServerEnd
  <2> QED
    BY <1>3, <2>1, <2>2, TailUnread, BoundsAssumption DEF Lines
<1>4. ASSUME NEW pc, NEW next \in MgrPcs, NEW command \in {"HELLO", "AUTHENTICATE"},
             Handshake(pc, next, command), pc = "welcome" \/ pc = "hello"
      PROVE  TypeOK'
  <2> DEFINE k == mgr.sc
  <2>1. k \in Ids /\ Tail(server[k].unread) \in Lines /\ Len(Tail(server[k].unread)) <= MaxUnread
    BY <1>3, <1>4 DEF Handshake
  <2>2. server[k].sent + 1 \in 0 .. 2
    BY <1>4 DEF Handshake, Inv, Stage
  <2>3. server' = [server EXCEPT ![k].unread = Tail(server[k].unread), ![k].sent = server[k].sent + 1,
                                ![k].last = command]
    BY <1>1, <1>4, <2>1 DEF Handshake, ServerType
  <2>4. ServerType'
    BY <1>1, <1>4, <2>1, <2>2, <2>3, SendEdit
  <2>5. MgrType' /\ OtherTypes'
    BY <1>1, <1>4 DEF MgrType, OtherTypes, SensorType, MainType, Handshake
  <2>6. ConnType'
    BY <1>1, <1>4, <2>1 DEF ConnType, Handshake
  <2> QED
    BY <2>4, <2>5, <2>6, TypePartsNext
<1>5. CASE SendHello \/ SendAuthenticate
  BY <1>4, <1>5 DEF SendHello, SendAuthenticate, MgrPcs
<1>6. CASE ReadVerdict
  <2> DEFINE k == mgr.sc
  <2>1. k \in Ids /\ Tail(server[k].unread) \in Lines /\ Len(Tail(server[k].unread)) <= MaxUnread
    BY <1>3, <1>6 DEF ReadVerdict
  <2>2. server' = [server EXCEPT ![k].unread = Tail(server[k].unread)]
    BY <1>1, <1>6, <2>1 DEF ReadVerdict, ServerType
  <2>3. ServerType'
    BY <1>1, <2>1, <2>2, UnreadEdit
  <2>4. MgrType' /\ OtherTypes'
    BY <1>1, <1>6 DEF MgrType, MgrPcs, OtherTypes, SensorType, MainType, ReadVerdict
  <2>5. ConnType'
    BY <1>1, <1>6, <2>1 DEF ConnType, ReadVerdict
  <2> QED
    BY <2>3, <2>4, <2>5, TypePartsNext
<1>7. CASE Abandon
  <2>1. mgr.sc \in Ids
    BY <1>1, <1>7 DEF Inv, Places, Holding, MgrType, Abandon
  <2>2. MgrType' /\ OtherTypes' /\ ConnType'
    BY <1>1, <1>7, <2>1 DEF MgrType, MgrPcs, OtherTypes, SensorType, MainType, ConnType, Abandon, CloseBegin
  <2>3. ServerType'
    BY <1>1, <1>7, <2>1, CloseEdit DEF Abandon, CloseBegin
  <2> QED
    BY <2>2, <2>3, TypePartsNext
<1>8. CASE Abandoned
  <2>1. mgr.sc \in Ids
    BY <1>1, <1>8 DEF Inv, Places, Holding, MgrType, Abandoned
  <2>2. MgrType' /\ ConnType'
    BY <1>1, <1>8, <2>1 DEF MgrType, MgrPcs, ConnType, Abandoned, CloseEnd
  <2>3. OtherTypes'
    BY <1>1, <1>8, BoundsAssumption DEF OtherTypes, SensorType, MainType, Abandoned
  <2>4. ServerType'
    BY <1>1, <1>8, <2>1, UpEdit DEF Abandoned, CloseEnd
  <2> QED
    BY <2>2, <2>3, <2>4, TypePartsNext
<1>9. CASE StartReceiver
  <2>1. mgr.sc \in Ids
    BY <1>1, <1>9 DEF Inv, Places, Holding, MgrType, StartReceiver
  <2>2. MgrType' /\ OtherTypes' /\ ConnType'
    BY <1>1, <1>9, <2>1
    DEF MgrType, MgrPcs, OtherTypes, SensorType, MainType, ConnType, StartReceiver, Crash, manager, ends
  <2>3. ServerType'
    <3>1. CASE UNCHANGED server
      BY <1>1, <3>1 DEF ServerType
    <3>2. CASE server' = [server EXCEPT ![mgr.sc].unread = <<>>, ![mgr.sc].answered = 3]
      BY <1>1, <2>1, <3>2, StartEdit
    <3> QED
      BY <1>9, <3>1, <3>2 DEF StartReceiver, Crash, ends
  <2> QED
    BY <2>2, <2>3, TypePartsNext
<1>10. ASSUME NEW k \in Ids, Dial(k) PROVE TypeOK'
  <2>1. MgrType' /\ OtherTypes' /\ ConnType'
    BY <1>1, <1>10, ZenonT(40) DEF MgrType, MgrPcs, OtherTypes, SensorType, MainType, ConnType, Dial
  <2>2. ServerType'
    BY <1>1, <1>10, UpEdit DEF Dial
  <2> QED
    BY <2>1, <2>2, TypePartsNext
<1> QED
  BY <1>2, <1>5, <1>6, <1>7, <1>8, <1>9, <1>10 DEF Manager

LEMMA NetworkTypes ==
  ASSUME Inv, NEW k \in Ids, Answer(k) \/ ServerBroadcast(k) \/ ServerDown(k) \/ Collect(k)
  PROVE  TypeOK'
<1>1. MgrType /\ ConnType /\ ServerType /\ OtherTypes
  BY TypeParts DEF Inv
<1>2. ASSUME NEW l \in {"OK", "ERR", "METRIC"}, Len(server[k].unread) < MaxUnread
      PROVE  Append(server[k].unread, l) \in Lines /\ Len(Append(server[k].unread, l)) <= MaxUnread
  <2>1. server[k].unread \in Seq({"OK", "ERR", "METRIC"})
    BY <1>1 DEF ServerType, ServerEnd, Lines
  <2> QED
    BY <1>2, <2>1, BoundsAssumption DEF Lines
<1>3. CASE Answer(k)
  <2>1. PICK granted \in BOOLEAN :
          server' = [server EXCEPT ![k].answered = server[k].answered + 1, ![k].granted = granted,
                       ![k].unread = Append(server[k].unread,
                                       IF server[k].answered < 2 \/ granted THEN "OK" ELSE "ERR")]
    BY <1>1, <1>3 DEF Answer, ServerType
  <2>2. server[k].answered + 1 \in 0 .. 3
    <3>1. server[k] \in ServerEnd
      BY <1>1 DEF ServerType
    <3>2. server[k].answered <= server[k].sent
      BY <1>3 DEF Answer
    <3>3. server[k].answered \in 0 .. 3 /\ server[k].sent \in 0 .. 2
      BY <3>1 DEF ServerEnd
    <3> QED
      BY <3>2, <3>3
  <2>3. Len(server[k].unread) < MaxUnread
    BY <1>3 DEF Answer
  <2> DEFINE l == IF server[k].answered < 2 \/ granted THEN "OK" ELSE "ERR"
  <2>4. l \in {"OK", "ERR", "METRIC"}
    OBVIOUS
  <2> HIDE DEF l
  <2>5. Append(server[k].unread, l) \in Lines /\ Len(Append(server[k].unread, l)) <= MaxUnread
    BY <1>2, <2>3, <2>4
  <2>6. server' = [server EXCEPT ![k].answered = server[k].answered + 1, ![k].granted = granted,
                                ![k].unread = Append(server[k].unread, l)]
    BY <2>1 DEF l
  <2>7. ServerType'
    BY <1>1, <2>2, <2>5, <2>6, AnswerEdit
  <2>8. MgrType' /\ ConnType' /\ OtherTypes'
    BY <1>1, <1>3 DEF Answer, MgrType, ConnType, OtherTypes, SensorType, MainType, manager
  <2> QED
    BY <2>7, <2>8, TypePartsNext
<1>4. CASE ServerBroadcast(k)
  <2>1. server' = [server EXCEPT ![k].unread = Append(server[k].unread, "METRIC")]
        /\ Len(server[k].unread) < MaxUnread
    BY <1>1, <1>4 DEF ServerBroadcast, ServerType
  <2>2. ServerType'
    BY <1>1, <1>2, <2>1, UnreadEdit
  <2>3. MgrType' /\ ConnType' /\ OtherTypes'
    BY <1>1, <1>4 DEF ServerBroadcast, MgrType, ConnType, OtherTypes, SensorType, MainType, manager
  <2> QED
    BY <2>2, <2>3, TypePartsNext
<1>5. CASE ServerDown(k)
  <2>1. ServerType'
    BY <1>1, <1>5, UpEdit DEF ServerDown
  <2>2. MgrType' /\ ConnType' /\ OtherTypes'
    BY <1>1, <1>5 DEF ServerDown, MgrType, ConnType, OtherTypes, SensorType, MainType, manager
  <2> QED
    BY <2>1, <2>2, TypePartsNext
<1>6. CASE Collect(k)
  <2>1. ServerType'
    BY <1>1, <1>6, FreeEdit DEF Collect
  <2>2. Unused \in [connected : BOOLEAN, hasConn : BOOLEAN, misled : BOOLEAN]
    BY DEF Unused
  <2>3. MgrType' /\ ConnType' /\ OtherTypes'
    BY <1>1, <1>6, <2>2 DEF Collect, MgrType, ConnType, OtherTypes, SensorType, MainType, manager
  <2> QED
    BY <2>1, <2>3, TypePartsNext
<1> QED
  BY <1>3, <1>4, <1>5, <1>6

LEMMA GoroutineTypes ==
  ASSUME Inv, Main \/ Interrupt \/ (\E k \in Ids : Receiver(k))
              \/ \E s \in Sensors : Tick(s) \/ SendReading(s) \/ SensorStop(s)
  PROVE  TypeOK'
<1>1. MgrType /\ ConnType /\ ServerType /\ OtherTypes
  BY TypeParts DEF Inv
<1>2. CASE LaunchSensors \/ Join \/ Stop \/ Exit \/ Interrupt
  <2>1. MgrType' /\ ConnType' /\ ServerType'
    BY <1>1, <1>2 DEF LaunchSensors, Join, Stop, Exit, Interrupt, MainGoes, MgrType, ConnType, ServerType,
                      manager, ends
  <2>2. OtherTypes'
    <3>1. SensorType'
      BY <1>1, <1>2 DEF LaunchSensors, Join, Stop, Exit, Interrupt, MainGoes, OtherTypes, SensorType
    <3>2. MainType'
      BY <1>1, <1>2 DEF LaunchSensors, Join, Stop, Exit, Interrupt, MainGoes, OtherTypes, MainType
    <3> QED
      BY <1>1, <1>2, <3>1, <3>2
      DEF LaunchSensors, Join, Stop, Exit, Interrupt, MainGoes, OtherTypes, manager
  <2> QED
    BY <2>1, <2>2, TypePartsNext
<1>3. CASE StopClose
  <2>1. CASE UNCHANGED <<manager, ends, receiver, sensor, running>>
    <3>1. MgrType' /\ ConnType' /\ ServerType'
      BY <1>1, <2>1 DEF MgrType, ConnType, ServerType, manager, ends
    <3>2. OtherTypes'
      <4>1. /\ crashed' = TRUE \/ UNCHANGED crashed
            /\ \/ UNCHANGED main
               \/ main' = [pc |-> "leaving", k |-> NoConn]
               \/ main' = [pc |-> "closing", k |-> published]
        BY <1>3, <2>1 DEF StopClose, Crash, MainGoes
      <4>2. MainType' /\ crashed' \in BOOLEAN
        <5>1. crashed' \in BOOLEAN
          BY <1>1, <4>1 DEF OtherTypes
        <5>2. MainType'
          BY <1>1, <4>1 DEF OtherTypes, MainType
        <5> QED
          BY <5>1, <5>2
      <4> QED
        BY <1>1, <2>1, <4>2 DEF OtherTypes, SensorType, manager
    <3> QED
      BY <3>1, <3>2, TypePartsNext
  <2>2. CASE /\ published # NoConn /\ CloseBegin(published)
             /\ main' = [pc |-> "closing", k |-> published]
             /\ UNCHANGED <<manager, running, receiver, sensor, crashed>>
    <3>1. published \in Ids
      BY <1>1, <2>2 DEF OtherTypes
    <3>2. MgrType' /\ ConnType' /\ OtherTypes'
      BY <1>1, <2>2, <3>1 DEF MgrType, ConnType, OtherTypes, SensorType, MainType, manager, CloseBegin
    <3>3. ServerType'
      BY <1>1, <2>2, <3>1, CloseEdit DEF CloseBegin
    <3> QED
      BY <3>2, <3>3, TypePartsNext
  <2> QED
    BY <1>3, <2>1, <2>2 DEF StopClose, Crash, MainGoes
<1>4. CASE StopClosed
  <2>1. main.k \in Ids
    BY <1>4 DEF StopClosed, Inv, Places
  <2>2. MgrType' /\ ConnType' /\ OtherTypes'
    BY <1>1, <1>4, <2>1 DEF StopClosed, MgrType, ConnType, OtherTypes, SensorType, MainType, manager,
                                CloseEnd
  <2>3. ServerType'
    BY <1>1, <1>4, <2>1, UpEdit DEF StopClosed, CloseEnd
  <2> QED
    BY <2>2, <2>3, TypePartsNext
<1>5. ASSUME NEW k \in Ids, Receiver(k) PROVE TypeOK'
  <2>1. MgrType' /\ ServerType'
    BY <1>1, <1>5 DEF Receiver, ReceiverLoop, ReceiverNilCheck, ReceiverDeadline, ReceiverRead,
       ReceiverError, ReceiverGoes, ReceiverFails, Crash, MgrType, ServerType, manager, ends
  <2>2. ConnType'
    BY <1>1, <1>5 DEF Receiver, ReceiverLoop, ReceiverNilCheck, ReceiverDeadline, ReceiverRead,
       ReceiverError, ReceiverGoes, ReceiverFails, Crash, ConnType, ends
  <2>3. OtherTypes'
    BY <1>1, <1>5 DEF Receiver, ReceiverLoop, ReceiverNilCheck, ReceiverDeadline, ReceiverRead,
       ReceiverError, ReceiverGoes, ReceiverFails, Crash, OtherTypes, SensorType, MainType, manager, ends
  <2> QED
    BY <2>1, <2>2, <2>3, TypePartsNext
<1>6. ASSUME NEW s \in Sensors, Tick(s) \/ SensorStop(s) PROVE TypeOK'
  <2>1. MgrType' /\ ConnType' /\ ServerType' /\ OtherTypes'
    <3>1. SensorType'
      BY <1>1, <1>6 DEF Tick, SensorStop, OtherTypes, SensorType
    <3> QED
      BY <1>1, <1>6, <3>1 DEF Tick, SensorStop, MgrType, ConnType, ServerType, OtherTypes, MainType,
                              manager, ends
  <2> QED
    BY <2>1, TypePartsNext
<1>7. ASSUME NEW s \in Sensors, SendReading(s) PROVE TypeOK'
  <2>1. sensor[s].k \in Ids
    BY <1>7 DEF SendReading, Inv, Readings
  <2>2. MgrType' /\ ConnType' /\ OtherTypes'
    <3>1. SensorType'
      BY <1>1, <1>7 DEF SendReading, OtherTypes, SensorType
    <3>2. ConnType'
      BY <1>1, <1>7, <2>1 DEF SendReading, ConnType, ends
    <3> QED
      BY <1>1, <1>7, <3>1, <3>2 DEF SendReading, MgrType, OtherTypes, MainType, manager
  <2>3. ServerType'
    <3>1. CASE UNCHANGED server
      BY <1>1, <3>1 DEF ServerType
    <3>2. CASE server' = [server EXCEPT ![sensor[s].k].last = "SENSOR_DATA"]
      BY <1>1, <2>1, <3>2, ReadingEdit
    <3> QED
      BY <1>7, <3>1, <3>2 DEF SendReading, ends
  <2> QED
    BY <2>2, <2>3, TypePartsNext
<1> QED
  BY <1>2, <1>3, <1>4, <1>5, <1>6, <1>7 DEF Main

LEMMA TypeStep == Inv /\ [Next]_vars => TypeOK'
<1> SUFFICES ASSUME Inv, [Next]_vars PROVE TypeOK'
  OBVIOUS
<1>1. CASE UNCHANGED vars
  BY <1>1 DEF vars, Inv, TypeOK
<1> QED
  BY <1>1, ManagerTypes, NetworkTypes, GoroutineTypes DEF Next

-----------------------------------------------------------------------------
(* Every step keeps the invariant *)

\* The receiver or a failed write marks a connection as lost.
LEMMA Disconnected ==
  ASSUME Inv, NEW k \in Ids, conn' = [conn EXCEPT ![k].connected = FALSE]
  PROVE  \A j \in Ids : (conn'[j].connected => conn[j].connected) /\ conn'[j].misled = conn[j].misled
<1>1. conn \in [Ids -> [connected : BOOLEAN, hasConn : BOOLEAN, misled : BOOLEAN]]
  BY DEF Inv, TypeOK
<1>2. conn'[k].connected = FALSE /\ conn'[k].misled = conn[k].misled
  BY <1>1
<1>3. \A j \in Ids : j # k => conn'[j] = conn[j]
  BY <1>1
<1> QED
  BY <1>2, <1>3

\* That alone disturbs nothing.
LEMMA LossKeeps ==
  ASSUME Inv, UNCHANGED <<mgr, published, server, main>>,
         \A j \in Ids : (conn'[j].connected => conn[j].connected) /\ conn'[j].misled = conn[j].misled
  PROVE  Connected' /\ Verdicts'
<1>1. mgr.sc \in Ids \cup {NoConn} /\ published \in Ids \cup {NoConn}
  BY DEF Inv, TypeOK
<1>2. mgr.pc \in Holding => mgr.sc \in Ids
  BY <1>1 DEF Inv, Places
<1>3. Connected'
  BY <1>2 DEF Inv, Connected, Holding
<1>4. Verdicts'
  BY <1>1, <1>2 DEF Inv, Verdicts, InStep, Holding, ConnectedMeansAuthenticated
<1> QED
  BY <1>3, <1>4

LEMMA ReceiverFailsKeeps ==
  ASSUME Inv, NEW k \in Ids, ReceiverFails(k)
  PROVE  Connected' /\ Verdicts' /\ Readings'
<1>1. \A j \in Ids : (conn'[j].connected => conn[j].connected) /\ conn'[j].misled = conn[j].misled
  BY Disconnected DEF ReceiverFails
<1>2. UNCHANGED <<mgr, published, server, main, sensor>>
  BY DEF ReceiverFails, manager
<1>3. published \in Ids \cup {NoConn}
  BY DEF Inv, TypeOK
<1>4. Readings'
  BY <1>1, <1>2, <1>3 DEF Inv, Readings
<1> QED
  BY <1>1, <1>2, <1>4, LossKeeps

\* What a reading changes: the last line sent on a connection of the session, or the
\* mark of a connection that is gone.
LEMMA ReadingChanges ==
  ASSUME Inv, NEW s \in Sensors, SendReading(s)
  PROVE  /\ sensor[s].k \in Ids /\ server[sensor[s].k].last \in InSession
         /\ \A j \in Ids : (conn'[j].connected => conn[j].connected) /\ conn'[j].misled = conn[j].misled
         /\ \A j \in Ids : /\ server'[j].unread = server[j].unread /\ server'[j].sent = server[j].sent
                           /\ server'[j].answered = server[j].answered
                           /\ server'[j].granted = server[j].granted
                           /\ \/ server'[j].last = server[j].last
                              \/ j = sensor[s].k /\ server'[j].last = "SENSOR_DATA"
         /\ UNCHANGED <<mgr, published, main>>
         /\ sensor' = [sensor EXCEPT ![s] = [pc |-> "select", k |-> NoConn]]
<1>1. sensor[s].k \in Ids /\ server[sensor[s].k].last \in InSession
  BY DEF SendReading, Inv, Readings
<1>2. UNCHANGED <<mgr, published, main>>
      /\ sensor' = [sensor EXCEPT ![s] = [pc |-> "select", k |-> NoConn]]
  BY DEF SendReading, manager
<1>3. CASE server' = [server EXCEPT ![sensor[s].k].last = "SENSOR_DATA"] /\ UNCHANGED conn
  BY <1>1, <1>2, <1>3 DEF Inv, TypeOK
<1>4. CASE conn' = [conn EXCEPT ![sensor[s].k].connected = FALSE] /\ UNCHANGED server
  BY <1>1, <1>2, <1>4, Disconnected
<1>5. CASE UNCHANGED ends
  BY <1>1, <1>2, <1>5 DEF ends
<1> QED
  BY <1>3, <1>4, <1>5 DEF SendReading

LEMMA SendReadingKeeps ==
  ASSUME Inv, NEW s \in Sensors, SendReading(s)
  PROVE  Connected' /\ Stage' /\ Verdicts' /\ Readings'
<1>1. /\ mgr.sc \in Ids \cup {NoConn} /\ published \in Ids \cup {NoConn}
      /\ mgr.pc \in Holding => mgr.sc \in Ids
  BY DEF Inv, TypeOK, Places
<1>2. Connected'
  BY <1>1, ReadingChanges DEF Inv, Connected, Holding
<1>3. Stage'
  BY <1>1, ReadingChanges DEF Inv, Stage, Holding
<1>4. Verdicts'
  BY <1>1, ReadingChanges DEF Inv, Verdicts, InStep, Holding, ConnectedMeansAuthenticated
<1>5. Readings'
  <2>1. mgr.pc \in {"auth", "connected"} => sensor[s].k # mgr.sc
    BY DEF SendReading, Inv, Readings, Unpublished
  <2>2. mgr.pc \in {"auth", "connected"} => server'[mgr.sc].last = "AUTHENTICATE"
    BY <1>1, <2>1, ReadingChanges DEF Inv, Readings, Holding
  <2>3. published # NoConn /\ conn'[published].connected => server'[published].last \in InSession
    BY <1>1, ReadingChanges DEF Inv, Readings, InSession
  <2>4. ASSUME NEW t \in Sensors, sensor'[t].pc = "send"
        PROVE  /\ sensor'[t].k \in Ids /\ server'[sensor'[t].k].last \in InSession
               /\ mgr.pc \in Unpublished => sensor'[t].k # mgr.sc
    <3>1. sensor'[t] = sensor[t]
      BY <2>4, ReadingChanges DEF Inv, TypeOK
    <3>2. sensor[t].k \in Ids /\ server[sensor[t].k].last \in InSession
      BY <2>4, <3>1 DEF Inv, Readings
    <3> QED
      BY <2>4, <3>1, <3>2, ReadingChanges DEF Inv, Readings, InSession
  <2> QED
    BY <2>2, <2>3, <2>4, ReadingChanges DEF Readings
<1> QED
  BY <1>2, <1>3, <1>4, <1>5

\* A line of the handshake is taken from the front: either it was an answer, and the
\* client is still in step, or it was a broadcast, and the connection is misled.
LEMMA LineTaken ==
  ASSUME Inv, mgr.pc \in {"welcome", "hello", "auth"}, server[mgr.sc].unread # <<>>,
         conn' = [conn EXCEPT ![mgr.sc].misled = @ \/ Head(server[mgr.sc].unread) = "METRIC"]
  PROVE  /\ mgr.sc \in Ids
         /\ \A j \in Ids : j # mgr.sc => conn'[j] = conn[j]
         /\ conn'[mgr.sc].connected = conn[mgr.sc].connected
         /\ ~ conn'[mgr.sc].misled =>
              /\ InStep(mgr.sc) /\ Head(server[mgr.sc].unread) # "METRIC"
              /\ server[mgr.sc].answered = server[mgr.sc].sent + 1
              /\ \A i \in 1 .. Len(Tail(server[mgr.sc].unread)) :
                   Tail(server[mgr.sc].unread)[i] = "METRIC"
              /\ server[mgr.sc].sent = 2 /\ Head(server[mgr.sc].unread) = "OK" =>
                   server[mgr.sc].granted
<1> DEFINE k == mgr.sc
           sv == server[k]
<1>1. /\ k \in Ids /\ sv.unread \in Seq({"OK", "ERR", "METRIC"})
      /\ sv.sent \in 0 .. 2 /\ sv.answered \in 0 .. 3
  BY DEF Inv, TypeOK, Places, Holding
<1>2. conn \in [Ids -> [connected : BOOLEAN, hasConn : BOOLEAN, misled : BOOLEAN]]
  BY DEF Inv, TypeOK
<1>3. /\ \A j \in Ids : j # k => conn'[j] = conn[j]
      /\ conn'[k].connected = conn[k].connected
      /\ conn'[k].misled = (conn[k].misled \/ Head(sv.unread) = "METRIC")
  BY <1>1, <1>2
<1>4. /\ Head(sv.unread) = sv.unread[1] /\ 1 \in 1 .. Len(sv.unread)
      /\ \A i \in 1 .. Len(Tail(sv.unread)) :
           /\ Tail(sv.unread)[i] = sv.unread[i + 1] /\ i + 1 \in 1 .. Len(sv.unread) /\ i + 1 # 1
  BY <1>1, TailUnread
<1>5. ASSUME ~ conn'[k].misled
      PROVE  /\ InStep(k) /\ Head(sv.unread) # "METRIC" /\ sv.answered = sv.sent + 1
             /\ \A i \in 1 .. Len(Tail(sv.unread)) : Tail(sv.unread)[i] = "METRIC"
             /\ sv.sent = 2 /\ Head(sv.unread) = "OK" => sv.granted
  <2>1. InStep(k) /\ Head(sv.unread) # "METRIC"
    BY <1>3, <1>5 DEF Inv, Verdicts
  <2>2. 1 \in {i \in 1 .. Len(sv.unread) : sv.unread[i] # "METRIC"}
    BY <1>4, <2>1
  <2> QED
    BY <1>4, <2>1, <2>2 DEF InStep
<1> QED
  BY <1>1, <1>3, <1>5

LEMMA HandshakeKeepsAnswers ==
  ASSUME Inv, NEW pc, NEW next, NEW command, Handshake(pc, next, command),
         <<pc, next>> = <<"welcome", "hello">> \/ <<pc, next>> = <<"hello", "auth">>
  PROVE  Verdicts'
<1> DEFINE k == mgr.sc
<1>1. /\ mgr.pc = pc /\ pc \in {"welcome", "hello"} /\ next \in {"hello", "auth"}
      /\ server[k].unread # <<>> /\ mgr'.pc = next /\ mgr'.sc = k /\ published' = published
      /\ conn' = [conn EXCEPT ![k].misled = @ \/ Head(server[k].unread) = "METRIC"]
      /\ server' = [server EXCEPT ![k].unread = Tail(@), ![k].sent = @ + 1, ![k].last = command]
  BY DEF Handshake, Inv, TypeOK
<1>2. published = NoConn /\ k \in Ids
  BY <1>1, LineTaken DEF Inv, Places
<1>3. /\ server'[k].unread = Tail(server[k].unread) /\ server'[k].sent = server[k].sent + 1
      /\ server'[k].answered = server[k].answered
      /\ server[k].sent \in 0 .. 2 /\ server[k].answered \in 0 .. 3
  BY <1>1, <1>2 DEF Inv, TypeOK
<1>4. ~ conn'[k].misled => InStep(k)'
  <2> SUFFICES ASSUME ~ conn'[k].misled PROVE InStep(k)'
    OBVIOUS
  <2>1. /\ server[k].answered = server[k].sent + 1
        /\ \A i \in 1 .. Len(server'[k].unread) : server'[k].unread[i] = "METRIC"
    BY <1>1, <1>3, LineTaken
  <2> QED
    BY <1>1, <1>3, <2>1, ZenonT(40) DEF InStep
<1> QED
  BY <1>1, <1>2, <1>4 DEF Verdicts, ConnectedMeansAuthenticated, InStep

LEMMA ReadVerdictKeepsAnswers == Inv /\ ReadVerdict => Verdicts'
<1> SUFFICES ASSUME Inv, ReadVerdict PROVE Verdicts'
  OBVIOUS
<1> DEFINE k == mgr.sc
<1>1. /\ mgr.pc = "auth" /\ server[k].unread # <<>> /\ mgr'.sc = k /\ published' = published
      /\ mgr'.pc = IF Head(server[k].unread) = "OK" THEN "connected" ELSE "abandon"
      /\ conn' = [conn EXCEPT ![k].misled = @ \/ Head(server[k].unread) = "METRIC"]
      /\ server' = [server EXCEPT ![k].unread = Tail(@)]
  BY DEF ReadVerdict, Inv, TypeOK
<1>2. published = NoConn /\ k \in Ids /\ server[k].sent = 2
  BY <1>1, LineTaken DEF Inv, Places, Stage
<1>3. server'[k].granted = server[k].granted
  BY <1>1, <1>2 DEF Inv, TypeOK
<1>4. mgr'.pc = "connected" /\ ~ conn'[k].misled => server'[k].granted
  BY <1>1, <1>2, <1>3, LineTaken
<1> QED
  BY <1>1, <1>2, <1>4 DEF Verdicts, ConnectedMeansAuthenticated

LEMMA StartReceiverKeeps == Inv /\ StartReceiver => Verdicts' /\ Readings'
<1> SUFFICES ASSUME Inv, StartReceiver PROVE Verdicts' /\ Readings'
  OBVIOUS
<1> DEFINE k == mgr.sc
<1>1. k \in Ids /\ published = k /\ mgr.pc = "start"
  BY DEF StartReceiver, Inv, TypeOK, Places, Holding
<1>2. UNCHANGED <<published, conn, sensor, main>> /\ mgr'.pc \in {"start", "watch"} /\ mgr'.sc = k
  BY <1>1 DEF StartReceiver, Crash, manager, ends, Inv, TypeOK
<1>3. \A j \in Ids : server'[j].granted = server[j].granted /\ server'[j].last = server[j].last
  <2>1. CASE UNCHANGED server
    BY <2>1
  <2>2. CASE server' = [server EXCEPT ![k].unread = <<>>, ![k].answered = 3]
    BY <1>1, <2>2 DEF Inv, TypeOK
  <2> QED
    BY <2>1, <2>2 DEF StartReceiver, Crash, ends
<1>4. Verdicts'
  BY <1>1, <1>2, <1>3 DEF Inv, Verdicts, ConnectedMeansAuthenticated
<1>5. Readings'
  BY <1>1, <1>2, <1>3 DEF Inv, Readings, Unpublished
<1> QED
  BY <1>4, <1>5

LEMMA StopCloseKeepsAnswers == Inv /\ StopClose => Verdicts'
<1> SUFFICES ASSUME Inv, StopClose PROVE Verdicts'
  OBVIOUS
<1>1. UNCHANGED <<mgr, published>> /\ published \in Ids \cup {NoConn}
  BY DEF StopClose, Crash, MainGoes, manager, Inv, TypeOK
<1>2. CASE UNCHANGED ends
  BY <1>1, <1>2 DEF ends, Inv, Verdicts, ConnectedMeansAuthenticated, InStep
<1>3. CASE published # NoConn /\ CloseBegin(published)
  <2>1. mgr.pc \notin {"welcome", "hello", "auth", "connected"} /\ published \in Ids
    BY <1>1, <1>3 DEF Inv, Places
  <2>2. \A j \in Ids : server'[j].granted = server[j].granted /\ conn'[j].misled = conn[j].misled
    BY <1>3, <2>1 DEF CloseBegin, Inv, TypeOK
  <2>3. mgr.pc \in {"start", "watch"} => mgr.sc = published
    BY DEF Inv, Places
  <2> QED
    BY <1>1, <1>3, <2>1, <2>2, <2>3 DEF Inv, Verdicts, ConnectedMeansAuthenticated
<1> QED
  BY <1>2, <1>3 DEF StopClose, Crash, MainGoes


LEMMA PlacesStep == Inv /\ Next => Places'
<1> SUFFICES ASSUME Inv, Next PROVE Places'
  OBVIOUS
<1>1. CASE LoopEnds \/ DialFails \/ HandshakeFails \/ Backoff \/ Publish \/ Watch \/ Lost \/ Pause
  BY <1>1, NoConnAssumption, ZenonT(40) DEF Inv, TypeOK, MgrPcs, Places, Holding, ends, LoopEnds,
     DialFails, HandshakeFails, Backoff, Publish, Watch, Lost, Pause
<1>2. CASE SendHello
  BY <1>2, NoConnAssumption DEF Inv, TypeOK, MgrPcs, Places, Holding, ends, SendHello,
     Handshake
<1>3. CASE SendAuthenticate
  BY <1>3, NoConnAssumption DEF Inv, TypeOK, MgrPcs, Places, Holding, ends,
     SendAuthenticate, Handshake
<1>4. CASE ReadVerdict
  BY <1>4, NoConnAssumption DEF Inv, TypeOK, MgrPcs, Places, Holding, ends, ReadVerdict
<1>5. CASE Abandon
  BY <1>5, NoConnAssumption DEF Inv, TypeOK, MgrPcs, Places, Holding, ends, Abandon,
     CloseBegin
<1>6. CASE Abandoned
  BY <1>6, NoConnAssumption DEF Inv, TypeOK, MgrPcs, Places, Holding, ends, Abandoned,
     CloseEnd
<1>7. CASE StartReceiver
  BY <1>7, NoConnAssumption DEF Inv, TypeOK, MgrPcs, Places, Holding, ends, StartReceiver,
     Crash, manager
<1>8. CASE LaunchSensors \/ Join \/ Stop \/ Exit \/ Interrupt
  BY <1>8, NoConnAssumption DEF Inv, TypeOK, MgrPcs, Places, Holding, ends, LaunchSensors,
     Join, Stop, Exit, Interrupt, MainGoes, manager
<1>9. CASE StopClose
  BY <1>9, NoConnAssumption DEF Inv, TypeOK, MgrPcs, Places, Holding, ends, StopClose,
     Crash, MainGoes, CloseBegin, manager
<1>10. CASE StopClosed
  BY <1>10, NoConnAssumption DEF Inv, TypeOK, MgrPcs, Places, Holding, ends, StopClosed,
     CloseEnd, manager
<1>11. ASSUME NEW k \in Ids, Answer(k) PROVE Places'
  BY <1>11, NoConnAssumption DEF Inv, TypeOK, MgrPcs, Places, Holding, ends, Answer, manager
<1>12. ASSUME NEW k \in Ids, ServerBroadcast(k) PROVE Places'
  BY <1>12, NoConnAssumption DEF Inv, TypeOK, MgrPcs, Places, Holding, ends,
     ServerBroadcast, manager
<1>13. ASSUME NEW k \in Ids, ServerDown(k) PROVE Places'
  BY <1>13, NoConnAssumption DEF Inv, TypeOK, MgrPcs, Places, Holding, ends, ServerDown,
     manager
<1>14. ASSUME NEW k \in Ids, Collect(k) PROVE Places'
  BY <1>14, NoConnAssumption DEF Inv, TypeOK, MgrPcs, Places, Holding, ends, Collect,
     manager, InUse, Unused
<1>15. ASSUME NEW k \in Ids, Dial(k) PROVE Places'
  BY <1>15, NoConnAssumption DEF Inv, TypeOK, MgrPcs, Places, Holding, ends, Dial, Free,
     Unused, NoServer, InUse
<1>16. ASSUME NEW k \in Ids, ReceiverLoop(k) \/ ReceiverRead(k) \/ ReceiverDeadline(k) PROVE Places'
  BY <1>16, NoConnAssumption DEF Inv, TypeOK, MgrPcs, Places, Holding, ends, ReceiverLoop,
     ReceiverRead, ReceiverDeadline, ReceiverGoes, Crash, manager
<1>17. ASSUME NEW k \in Ids, ReceiverNilCheck(k) \/ ReceiverError(k) PROVE Places'
  BY <1>17, NoConnAssumption DEF Inv, TypeOK, MgrPcs, Places, Holding, ends,
     ReceiverNilCheck, ReceiverError, ReceiverGoes, ReceiverFails, manager
<1>18. ASSUME NEW s \in Sensors, Tick(s) PROVE Places'
  BY <1>18, NoConnAssumption DEF Inv, TypeOK, MgrPcs, Places, Holding, ends, Tick, manager
<1>19. ASSUME NEW s \in Sensors, SendReading(s) PROVE Places'
  BY <1>19, NoConnAssumption DEF Inv, TypeOK, MgrPcs, Places, Holding, ends, SendReading,
     manager
<1>20. ASSUME NEW s \in Sensors, SensorStop(s) PROVE Places'
  BY <1>20, NoConnAssumption DEF Inv, TypeOK, MgrPcs, Places, Holding, ends, SensorStop,
     manager
<1> QED
  BY <1>1, <1>2, <1>3, <1>4, <1>5, <1>6, <1>7, <1>8, <1>9, <1>10, <1>11, <1>12, <1>13,
     <1>14, <1>15, <1>16, <1>17, <1>18, <1>19, <1>20 DEF Next, Manager, Main, Receiver


LEMMA ConnectedStep == Inv /\ Next => Connected'
<1> SUFFICES ASSUME Inv, Next PROVE Connected'
  OBVIOUS
<1>1. CASE LoopEnds \/ DialFails \/ HandshakeFails \/ Backoff \/ Publish \/ Watch \/ Lost \/ Pause
  BY <1>1, NoConnAssumption, ZenonT(40) DEF Inv, TypeOK, MgrPcs, Places, Holding, Connected, ends,
     LoopEnds, DialFails, HandshakeFails, Backoff, Publish, Watch, Lost, Pause
<1>2. CASE SendHello
  BY <1>2, NoConnAssumption DEF Inv, TypeOK, MgrPcs, Places, Holding, Connected, ends,
     SendHello, Handshake
<1>3. CASE SendAuthenticate
  BY <1>3, NoConnAssumption DEF Inv, TypeOK, MgrPcs, Places, Holding, Connected, ends,
     SendAuthenticate, Handshake
<1>4. CASE ReadVerdict
  BY <1>4, NoConnAssumption DEF Inv, TypeOK, MgrPcs, Places, Holding, Connected, ends,
     ReadVerdict
<1>5. CASE Abandon
  BY <1>5, NoConnAssumption DEF Inv, TypeOK, MgrPcs, Places, Holding, Connected, ends,
     Abandon, CloseBegin
<1>6. CASE Abandoned
  BY <1>6, NoConnAssumption DEF Inv, TypeOK, MgrPcs, Places, Holding, Connected, ends,
     Abandoned, CloseEnd
<1>7. CASE StartReceiver
  BY <1>7, NoConnAssumption DEF Inv, TypeOK, MgrPcs, Places, Holding, Connected, ends,
     StartReceiver, Crash, manager
<1>8. CASE LaunchSensors \/ Join \/ Stop \/ Exit \/ Interrupt
  BY <1>8, NoConnAssumption DEF Inv, TypeOK, MgrPcs, Places, Holding, Connected, ends,
     LaunchSensors, Join, Stop, Exit, Interrupt, MainGoes, manager
<1>9. CASE StopClose
  BY <1>9, NoConnAssumption DEF Inv, TypeOK, MgrPcs, Places, Holding, Connected, ends,
     StopClose, Crash, MainGoes, CloseBegin, manager
<1>10. CASE StopClosed
  BY <1>10, NoConnAssumption DEF Inv, TypeOK, MgrPcs, Places, Holding, Connected, ends,
     StopClosed, CloseEnd, manager
<1>11. ASSUME NEW k \in Ids, Answer(k) PROVE Connected'
  BY <1>11, NoConnAssumption DEF Inv, TypeOK, MgrPcs, Places, Holding, Connected, ends,
     Answer, manager
<1>12. ASSUME NEW k \in Ids, ServerBroadcast(k) PROVE Connected'
  BY <1>12, NoConnAssumption DEF Inv, TypeOK, MgrPcs, Places, Holding, Connected, ends,
     ServerBroadcast, manager
<1>13. ASSUME NEW k \in Ids, ServerDown(k) PROVE Connected'
  BY <1>13, NoConnAssumption DEF Inv, TypeOK, MgrPcs, Places, Holding, Connected, ends,
     ServerDown, manager
<1>14. ASSUME NEW k \in Ids, Collect(k) PROVE Connected'
  BY <1>14, NoConnAssumption DEF Inv, TypeOK, MgrPcs, Places, Holding, Connected, ends,
     Collect, manager, InUse, Unused
<1>15. ASSUME NEW k \in Ids, Dial(k) PROVE Connected'
  BY <1>15, NoConnAssumption DEF Inv, TypeOK, MgrPcs, Places, Holding, Connected, ends,
     Dial, Free, Unused, NoServer, InUse
<1>16. ASSUME NEW k \in Ids, ReceiverLoop(k) \/ ReceiverRead(k) \/ ReceiverDeadline(k) PROVE Connected'
  BY <1>16, NoConnAssumption DEF Inv, TypeOK, MgrPcs, Places, Holding, Connected, ends,
     ReceiverLoop, ReceiverRead, ReceiverDeadline, ReceiverGoes, Crash, manager
<1>17. ASSUME NEW k \in Ids, ReceiverNilCheck(k) \/ ReceiverError(k) PROVE Connected'
  <2>1. CASE ReceiverFails(k)
    BY <2>1, ReceiverFailsKeeps
  <2>2. CASE ReceiverGoes(k, "deadline")
    BY <2>2 DEF Inv, Places, Holding, Connected, ReceiverGoes, manager, ends
  <2> QED
    BY <1>17, <2>1, <2>2 DEF ReceiverNilCheck, ReceiverError
<1>18. ASSUME NEW s \in Sensors, Tick(s) PROVE Connected'
  BY <1>18, NoConnAssumption DEF Inv, TypeOK, MgrPcs, Places, Holding, Connected, ends,
     Tick, manager
<1>19. ASSUME NEW s \in Sensors, SendReading(s) PROVE Connected'
  BY <1>19, SendReadingKeeps
<1>20. ASSUME NEW s \in Sensors, SensorStop(s) PROVE Connected'
  BY <1>20, NoConnAssumption DEF Inv, TypeOK, MgrPcs, Places, Holding, Connected, ends,
     SensorStop, manager
<1> QED
  BY <1>1, <1>2, <1>3, <1>4, <1>5, <1>6, <1>7, <1>8, <1>9, <1>10, <1>11, <1>12, <1>13,
     <1>14, <1>15, <1>16, <1>17, <1>18, <1>19, <1>20 DEF Next, Manager, Main, Receiver


LEMMA StageStep == Inv /\ Next => Stage'
<1> SUFFICES ASSUME Inv, Next PROVE Stage'
  OBVIOUS
<1>1. CASE LoopEnds \/ DialFails \/ HandshakeFails \/ Backoff \/ Publish \/ Watch \/ Lost \/ Pause
  BY <1>1, NoConnAssumption DEF Inv, TypeOK, MgrPcs, Places, Holding, Stage, ends,
     LoopEnds, DialFails, HandshakeFails, Backoff, Publish, Watch, Lost, Pause
<1>2. CASE SendHello
  BY <1>2, NoConnAssumption DEF Inv, TypeOK, MgrPcs, Places, Holding, Stage, ends,
     SendHello, Handshake
<1>3. CASE SendAuthenticate
  BY <1>3, NoConnAssumption DEF Inv, TypeOK, MgrPcs, Places, Holding, Stage, ends,
     SendAuthenticate, Handshake
<1>4. CASE ReadVerdict
  BY <1>4, NoConnAssumption DEF Inv, TypeOK, MgrPcs, Places, Holding, Stage, ends,
     ReadVerdict
<1>5. CASE Abandon
  BY <1>5, NoConnAssumption DEF Inv, TypeOK, MgrPcs, Places, Holding, Stage, ends, Abandon,
     CloseBegin
<1>6. CASE Abandoned
  BY <1>6, NoConnAssumption DEF Inv, TypeOK, MgrPcs, Places, Holding, Stage, ends,
     Abandoned, CloseEnd
<1>7. CASE StartReceiver
  BY <1>7, NoConnAssumption DEF Inv, TypeOK, MgrPcs, Places, Holding, Stage, ends,
     StartReceiver, Crash, manager
<1>8. CASE LaunchSensors \/ Join \/ Stop \/ Exit \/ Interrupt
  BY <1>8, NoConnAssumption DEF Inv, TypeOK, MgrPcs, Places, Holding, Stage, ends,
     LaunchSensors, Join, Stop, Exit, Interrupt, MainGoes, manager
<1>9. CASE StopClose
  BY <1>9, NoConnAssumption DEF Inv, TypeOK, MgrPcs, Places, Holding, Stage, ends,
     StopClose, Crash, MainGoes, CloseBegin, manager
<1>10. CASE StopClosed
  BY <1>10, NoConnAssumption DEF Inv, TypeOK, MgrPcs, Places, Holding, Stage, ends,
     StopClosed, CloseEnd, manager
<1>11. ASSUME NEW k \in Ids, Answer(k) PROVE Stage'
  BY <1>11, NoConnAssumption DEF Inv, TypeOK, MgrPcs, Places, Holding, Stage, ends, Answer,
     manager
<1>12. ASSUME NEW k \in Ids, ServerBroadcast(k) PROVE Stage'
  BY <1>12, NoConnAssumption DEF Inv, TypeOK, MgrPcs, Places, Holding, Stage, ends,
     ServerBroadcast, manager
<1>13. ASSUME NEW k \in Ids, ServerDown(k) PROVE Stage'
  BY <1>13, NoConnAssumption DEF Inv, TypeOK, MgrPcs, Places, Holding, Stage, ends,
     ServerDown, manager
<1>14. ASSUME NEW k \in Ids, Collect(k) PROVE Stage'
  BY <1>14, NoConnAssumption DEF Inv, TypeOK, MgrPcs, Places, Holding, Stage, ends,
     Collect, manager, InUse, Unused
<1>15. ASSUME NEW k \in Ids, Dial(k) PROVE Stage'
  BY <1>15, NoConnAssumption DEF Inv, TypeOK, MgrPcs, Places, Holding, Stage, ends, Dial,
     Free, Unused, NoServer, InUse
<1>16. ASSUME NEW k \in Ids, ReceiverLoop(k) \/ ReceiverRead(k) \/ ReceiverDeadline(k) PROVE Stage'
  BY <1>16, NoConnAssumption DEF Inv, TypeOK, MgrPcs, Places, Holding, Stage, ends,
     ReceiverLoop, ReceiverRead, ReceiverDeadline, ReceiverGoes, Crash, manager
<1>17. ASSUME NEW k \in Ids, ReceiverNilCheck(k) \/ ReceiverError(k) PROVE Stage'
  BY <1>17, NoConnAssumption DEF Inv, TypeOK, MgrPcs, Places, Holding, Stage, ends,
     ReceiverNilCheck, ReceiverError, ReceiverGoes, ReceiverFails, manager
<1>18. ASSUME NEW s \in Sensors, Tick(s) PROVE Stage'
  BY <1>18, NoConnAssumption DEF Inv, TypeOK, MgrPcs, Places, Holding, Stage, ends, Tick,
     manager
<1>19. ASSUME NEW s \in Sensors, SendReading(s) PROVE Stage'
  BY <1>19, SendReadingKeeps
<1>20. ASSUME NEW s \in Sensors, SensorStop(s) PROVE Stage'
  BY <1>20, NoConnAssumption DEF Inv, TypeOK, MgrPcs, Places, Holding, Stage, ends,
     SensorStop, manager
<1> QED
  BY <1>1, <1>2, <1>3, <1>4, <1>5, <1>6, <1>7, <1>8, <1>9, <1>10, <1>11, <1>12, <1>13,
     <1>14, <1>15, <1>16, <1>17, <1>18, <1>19, <1>20 DEF Next, Manager, Main, Receiver


LEMMA VerdictsStep == Inv /\ Next => Verdicts'
<1> SUFFICES ASSUME Inv, Next PROVE Verdicts'
  OBVIOUS
<1>1. CASE LoopEnds \/ DialFails \/ HandshakeFails \/ Backoff \/ Publish \/ Watch \/ Lost \/ Pause
  <2>1. CASE LoopEnds
    BY <2>1 DEF Inv, TypeOK, MgrPcs, Places, Holding, Verdicts, InStep,
     ConnectedMeansAuthenticated, ends, LoopEnds
  <2>2. CASE DialFails
    BY <2>2 DEF Inv, TypeOK, MgrPcs, Places, Holding, Verdicts, InStep,
     ConnectedMeansAuthenticated, ends, DialFails
  <2>3. CASE HandshakeFails
    BY <2>3 DEF Inv, TypeOK, MgrPcs, Places, Holding, Verdicts, InStep,
     ConnectedMeansAuthenticated, ends, HandshakeFails
  <2>4. CASE Backoff
    BY <2>4 DEF Inv, TypeOK, MgrPcs, Places, Holding, Verdicts, InStep,
     ConnectedMeansAuthenticated, ends, Backoff
  <2>5. CASE Publish
    BY <2>5 DEF Inv, TypeOK, MgrPcs, Places, Holding, Verdicts, InStep,
     ConnectedMeansAuthenticated, ends, Publish
  <2>6. CASE Watch
    BY <2>6 DEF Inv, TypeOK, MgrPcs, Places, Holding, Verdicts, InStep,
     ConnectedMeansAuthenticated, ends, Watch
  <2>7. CASE Lost
    BY <2>7 DEF Inv, TypeOK, MgrPcs, Places, Holding, Verdicts, InStep,
     ConnectedMeansAuthenticated, ends, Lost
  <2>8. CASE Pause
    BY <2>8 DEF Inv, TypeOK, MgrPcs, Places, Holding, Verdicts, InStep,
     ConnectedMeansAuthenticated, ends, Pause
  <2> QED
    BY <1>1, <2>1, <2>2, <2>3, <2>4, <2>5, <2>6, <2>7, <2>8
<1>2. CASE SendHello
  BY <1>2, HandshakeKeepsAnswers DEF SendHello
<1>3. CASE SendAuthenticate
  BY <1>3, HandshakeKeepsAnswers DEF SendAuthenticate
<1>4. CASE ReadVerdict
  BY <1>4, ReadVerdictKeepsAnswers
<1>5. CASE Abandon
  BY <1>5, NoConnAssumption DEF Inv, TypeOK, MgrPcs, Places, Holding, Verdicts, InStep,
     ConnectedMeansAuthenticated, ends, Abandon, CloseBegin
<1>6. CASE Abandoned
  BY <1>6, NoConnAssumption DEF Inv, TypeOK, MgrPcs, Places, Holding, Verdicts, InStep,
     ConnectedMeansAuthenticated, ends, Abandoned, CloseEnd
<1>7. CASE StartReceiver
  BY <1>7, StartReceiverKeeps
<1>8. CASE LaunchSensors \/ Join \/ Stop \/ Exit \/ Interrupt
  BY <1>8, NoConnAssumption DEF Inv, TypeOK, MgrPcs, Places, Holding, Verdicts, InStep,
     ConnectedMeansAuthenticated, ends, LaunchSensors, Join, Stop, Exit, Interrupt, MainGoes,
     manager
<1>9. CASE StopClose
  BY <1>9, StopCloseKeepsAnswers
<1>10. CASE StopClosed
  BY <1>10, NoConnAssumption DEF Inv, TypeOK, MgrPcs, Places, Holding, Verdicts, InStep,
     ConnectedMeansAuthenticated, ends, StopClosed, CloseEnd, manager
<1>11. ASSUME NEW k \in Ids, Answer(k) PROVE Verdicts'
  BY <1>11, NoConnAssumption, SMTT(60) DEF Inv, TypeOK, MgrPcs, Places, Holding, Verdicts, InStep,
     ConnectedMeansAuthenticated, ends, Answer, manager
<1>12. ASSUME NEW k \in Ids, ServerBroadcast(k) PROVE Verdicts'
  BY <1>12, NoConnAssumption DEF Inv, TypeOK, MgrPcs, Places, Holding, Verdicts, InStep,
     ConnectedMeansAuthenticated, ends, ServerBroadcast, manager
<1>13. ASSUME NEW k \in Ids, ServerDown(k) PROVE Verdicts'
  BY <1>13, NoConnAssumption DEF Inv, TypeOK, MgrPcs, Places, Holding, Verdicts, InStep,
     ConnectedMeansAuthenticated, ends, ServerDown, manager
<1>14. ASSUME NEW k \in Ids, Collect(k) PROVE Verdicts'
  BY <1>14, NoConnAssumption DEF Inv, TypeOK, MgrPcs, Places, Holding, Verdicts, InStep,
     ConnectedMeansAuthenticated, ends, Collect, manager, InUse, Unused
<1>15. ASSUME NEW k \in Ids, Dial(k) PROVE Verdicts'
  BY <1>15, NoConnAssumption DEF Inv, TypeOK, MgrPcs, Places, Holding, Verdicts, InStep,
     ConnectedMeansAuthenticated, ends, Dial, Free, Unused, NoServer, InUse
<1>16. ASSUME NEW k \in Ids, ReceiverLoop(k) \/ ReceiverRead(k) \/ ReceiverDeadline(k) PROVE Verdicts'
  BY <1>16, NoConnAssumption DEF Inv, TypeOK, MgrPcs, Places, Holding, Verdicts, InStep,
     ConnectedMeansAuthenticated, ends, ReceiverLoop, ReceiverRead, ReceiverDeadline,
     ReceiverGoes, Crash, manager
<1>17. ASSUME NEW k \in Ids, ReceiverNilCheck(k) \/ ReceiverError(k) PROVE Verdicts'
  <2>1. CASE ReceiverFails(k)
    BY <2>1, ReceiverFailsKeeps
  <2>2. CASE ReceiverGoes(k, "deadline")
    BY <2>2 DEF Inv, Places, Holding, Verdicts, InStep, ConnectedMeansAuthenticated,
     ReceiverGoes, manager, ends
  <2> QED
    BY <1>17, <2>1, <2>2 DEF ReceiverNilCheck, ReceiverError
<1>18. ASSUME NEW s \in Sensors, Tick(s) PROVE Verdicts'
  BY <1>18, NoConnAssumption DEF Inv, TypeOK, MgrPcs, Places, Holding, Verdicts, InStep,
     ConnectedMeansAuthenticated, ends, Tick, manager
<1>19. ASSUME NEW s \in Sensors, SendReading(s) PROVE Verdicts'
  BY <1>19, SendReadingKeeps
<1>20. ASSUME NEW s \in Sensors, SensorStop(s) PROVE Verdicts'
  BY <1>20, NoConnAssumption DEF Inv, TypeOK, MgrPcs, Places, Holding, Verdicts, InStep,
     ConnectedMeansAuthenticated, ends, SensorStop, manager
<1> QED
  BY <1>1, <1>2, <1>3, <1>4, <1>5, <1>6, <1>7, <1>8, <1>9, <1>10, <1>11, <1>12, <1>13,
     <1>14, <1>15, <1>16, <1>17, <1>18, <1>19, <1>20 DEF Next, Manager, Main, Receiver


LEMMA ReadingsStep == Inv /\ Next => Readings'
<1> SUFFICES ASSUME Inv, Next PROVE Readings'
  OBVIOUS
<1>1. CASE LoopEnds \/ DialFails \/ HandshakeFails \/ Backoff \/ Publish \/ Watch \/ Lost \/ Pause
  <2>1. CASE LoopEnds
    BY <2>1 DEF Inv, TypeOK, MgrPcs, Places, Holding, Connected, Readings, InSession,
     Unpublished, ends, LoopEnds
  <2>2. CASE DialFails
    BY <2>2 DEF Inv, TypeOK, MgrPcs, Places, Holding, Connected, Readings, InSession,
     Unpublished, ends, DialFails
  <2>3. CASE HandshakeFails
    BY <2>3 DEF Inv, TypeOK, MgrPcs, Places, Holding, Connected, Readings, InSession,
     Unpublished, ends, HandshakeFails
  <2>4. CASE Backoff
    BY <2>4 DEF Inv, TypeOK, MgrPcs, Places, Holding, Connected, Readings, InSession,
     Unpublished, ends, Backoff
  <2>5. CASE Publish
    BY <2>5 DEF Inv, TypeOK, MgrPcs, Places, Holding, Connected, Readings, InSession,
     Unpublished, ends, Publish
  <2>6. CASE Watch
    BY <2>6 DEF Inv, TypeOK, MgrPcs, Places, Holding, Connected, Readings, InSession,
     Unpublished, ends, Watch
  <2>7. CASE Lost
    BY <2>7 DEF Inv, TypeOK, MgrPcs, Places, Holding, Connected, Readings, InSession,
     Unpublished, ends, Lost
  <2>8. CASE Pause
    BY <2>8 DEF Inv, TypeOK, MgrPcs, Places, Holding, Connected, Readings, InSession,
     Unpublished, ends, Pause
  <2> QED
    BY <1>1, <2>1, <2>2, <2>3, <2>4, <2>5, <2>6, <2>7, <2>8
<1>2. CASE SendHello
  BY <1>2, NoConnAssumption DEF Inv, TypeOK, MgrPcs, Places, Holding, Connected, Readings,
     InSession, Unpublished, ends, SendHello, Handshake
<1>3. CASE SendAuthenticate
  BY <1>3, NoConnAssumption DEF Inv, TypeOK, MgrPcs, Places, Holding, Connected, Readings,
     InSession, Unpublished, ends, SendAuthenticate, Handshake
<1>4. CASE ReadVerdict
  BY <1>4, NoConnAssumption DEF Inv, TypeOK, MgrPcs, Places, Holding, Connected, Readings,
     InSession, Unpublished, ends, ReadVerdict
<1>5. CASE Abandon
  BY <1>5, NoConnAssumption DEF Inv, TypeOK, MgrPcs, Places, Holding, Connected, Readings,
     InSession, Unpublished, ends, Abandon, CloseBegin
<1>6. CASE Abandoned
  BY <1>6, NoConnAssumption DEF Inv, TypeOK, MgrPcs, Places, Holding, Connected, Readings,
     InSession, Unpublished, ends, Abandoned, CloseEnd
<1>7. CASE StartReceiver
  BY <1>7, StartReceiverKeeps
<1>8. CASE LaunchSensors \/ Join \/ Stop \/ Exit \/ Interrupt
  BY <1>8, NoConnAssumption DEF Inv, TypeOK, MgrPcs, Places, Holding, Connected, Readings,
     InSession, Unpublished, ends, LaunchSensors, Join, Stop, Exit, Interrupt, MainGoes, manager
<1>9. CASE StopClose
  BY <1>9, NoConnAssumption DEF Inv, TypeOK, MgrPcs, Places, Holding, Connected, Readings,
     InSession, Unpublished, ends, StopClose, Crash, MainGoes, CloseBegin, manager
<1>10. CASE StopClosed
  BY <1>10, NoConnAssumption DEF Inv, TypeOK, MgrPcs, Places, Holding, Connected, Readings,
     InSession, Unpublished, ends, StopClosed, CloseEnd, manager
<1>11. ASSUME NEW k \in Ids, Answer(k) PROVE Readings'
  BY <1>11, NoConnAssumption DEF Inv, TypeOK, MgrPcs, Places, Holding, Connected, Readings,
     InSession, Unpublished, ends, Answer, manager
<1>12. ASSUME NEW k \in Ids, ServerBroadcast(k) PROVE Readings'
  BY <1>12, NoConnAssumption DEF Inv, TypeOK, MgrPcs, Places, Holding, Connected, Readings,
     InSession, Unpublished, ends, ServerBroadcast, manager
<1>13. ASSUME NEW k \in Ids, ServerDown(k) PROVE Readings'
  BY <1>13, NoConnAssumption DEF Inv, TypeOK, MgrPcs, Places, Holding, Connected, Readings,
     InSession, Unpublished, ends, ServerDown, manager
<1>14. ASSUME NEW k \in Ids, Collect(k) PROVE Readings'
  BY <1>14, NoConnAssumption DEF Inv, TypeOK, MgrPcs, Places, Holding, Connected, Readings,
     InSession, Unpublished, ends, Collect, manager, InUse, Unused
<1>15. ASSUME NEW k \in Ids, Dial(k) PROVE Readings'
  BY <1>15, NoConnAssumption DEF Inv, TypeOK, MgrPcs, Places, Holding, Connected, Readings,
     InSession, Unpublished, ends, Dial, Free, Unused, NoServer, InUse
<1>16. ASSUME NEW k \in Ids, ReceiverLoop(k) \/ ReceiverRead(k) \/ ReceiverDeadline(k) PROVE Readings'
  BY <1>16, NoConnAssumption DEF Inv, TypeOK, MgrPcs, Places, Holding, Connected, Readings,
     InSession, Unpublished, ends, ReceiverLoop, ReceiverRead, ReceiverDeadline,
     ReceiverGoes, Crash, manager
<1>17. ASSUME NEW k \in Ids, ReceiverNilCheck(k) \/ ReceiverError(k) PROVE Readings'
  <2>1. CASE ReceiverFails(k)
    BY <2>1, ReceiverFailsKeeps
  <2>2. CASE ReceiverGoes(k, "deadline")
    BY <2>2 DEF Inv, Places, Holding, Connected, Readings, InSession, Unpublished,
     ReceiverGoes, manager, ends
  <2> QED
    BY <1>17, <2>1, <2>2 DEF ReceiverNilCheck, ReceiverError
<1>18. ASSUME NEW s \in Sensors, Tick(s) PROVE Readings'
  BY <1>18, NoConnAssumption DEF Inv, TypeOK, MgrPcs, Places, Holding, Connected, Readings,
     InSession, Unpublished, ends, Tick, manager
<1>19. ASSUME NEW s \in Sensors, SendReading(s) PROVE Readings'
  BY <1>19, SendReadingKeeps
<1>20. ASSUME NEW s \in Sensors, SensorStop(s) PROVE Readings'
  BY <1>20, NoConnAssumption DEF Inv, TypeOK, MgrPcs, Places, Holding, Connected, Readings,
     InSession, Unpublished, ends, SensorStop, manager
<1> QED
  BY <1>1, <1>2, <1>3, <1>4, <1>5, <1>6, <1>7, <1>8, <1>9, <1>10, <1>11, <1>12, <1>13,
     <1>14, <1>15, <1>16, <1>17, <1>18, <1>19, <1>20 DEF Next, Manager, Main, Receiver

LEMMA InitInv == Init => Inv
<1> SUFFICES ASSUME Init PROVE Inv
  OBVIOUS
<1>1. Places /\ Connected /\ Stage
  BY DEF Init, Places, Holding, Connected, Stage, Unused
<1>2. Verdicts /\ Readings
  BY DEF Init, Verdicts, ConnectedMeansAuthenticated, Readings
<1> QED
  BY <1>1, <1>2, InitTypes DEF Inv

LEMMA InvStep == Inv /\ [Next]_vars => Inv'
<1> SUFFICES ASSUME Inv, [Next]_vars PROVE Inv'
  OBVIOUS
<1>1. CASE UNCHANGED vars
  BY <1>1 DEF vars, Inv, TypeOK, Places, Connected, Stage, Verdicts, ConnectedMeansAuthenticated,
              InStep, Readings
<1>2. CASE Next
  BY <1>2, TypeStep, PlacesStep, ConnectedStep, StageStep, VerdictsStep, ReadingsStep DEF Inv
<1> QED
  BY <1>1, <1>2

LEMMA InvAlways == Spec => []Inv
  BY InitInv, InvStep, PTL DEF Spec

-----------------------------------------------------------------------------
(* The delay of the reconnection loop.  The arithmetic of powers is not known  *)
(* to the provers: its two laws are the hypothesis of what is proved.          *)

PowerLaws ==
  /\ Multiplier ^ 0 = 1
  /\ \A n \in Nat : Multiplier ^ n \in Nat /\ Multiplier ^ (n + 1) = Multiplier ^ n * Multiplier

\* Capping at every step is capping once.
LEMMA CapOnce ==
  ASSUME NEW d \in Nat
  PROVE  AtMost(AtMost(d) * Multiplier) = AtMost(d * Multiplier)
<1>1. CASE d <= MaxDelay
  BY <1>1, DelaysAssumption DEF AtMost
<1>2. CASE d > MaxDelay
  <2>1. d * Multiplier >= d /\ MaxDelay * Multiplier >= MaxDelay
        /\ d * Multiplier \in Nat /\ MaxDelay * Multiplier \in Nat
    BY DelaysAssumption
  <2> QED
    BY <1>2, <2>1, DelaysAssumption DEF AtMost
<1> QED
  BY <1>1, <1>2, DelaysAssumption

LEMMA NextDelay ==
  ASSUME PowerLaws, NEW n \in Nat
  PROVE  AtMost(Delay(n) * Multiplier) = Delay(n + 1)
<1> DEFINE d == InitialDelay * Multiplier ^ n
<1>1. Multiplier ^ n \in Nat /\ Multiplier ^ (n + 1) = Multiplier ^ n * Multiplier
  BY DEF PowerLaws
<1>2. d \in Nat /\ InitialDelay * Multiplier ^ (n + 1) = d * Multiplier
  BY <1>1, DelaysAssumption
<1> QED
  BY <1>2, CapOnce DEF Delay

LEMMA FirstDelay == PowerLaws => Delay(0) = InitialDelay
  BY DelaysAssumption DEF PowerLaws, Delay, AtMost

LEMMA DelaysStep == PowerLaws /\ Inv /\ Delays /\ [Next]_vars => Delays'
<1> SUFFICES ASSUME PowerLaws, Inv, Delays, [Next]_vars, failures' < MaxFailures
             PROVE  /\ mgr'.pc = "backoff" => failures' >= 1 /\ mgr'.delay = Delay(failures' - 1)
                    /\ mgr'.pc \notin {"backoff", "stopped"} => mgr'.delay = Delay(failures')
  BY DEF Delays, Delay
<1>1. failures \in Nat /\ MaxFailures \in Nat /\ failures <= MaxFailures
  BY BoundsAssumption DEF Inv, TypeOK
<1>2. CASE UNCHANGED mgr /\ UNCHANGED failures
  BY <1>2 DEF Delays
<1>3. CASE DialFails \/ Abandoned
  <2>1. failures' = failures + 1 /\ failures < MaxFailures /\ failures' - 1 = failures
    BY <1>1, <1>3 DEF DialFails, Abandoned
  <2>2. mgr'.pc = "backoff" /\ mgr'.delay = mgr.delay /\ mgr.pc \notin {"backoff", "stopped"}
    BY <1>3 DEF DialFails, Abandoned, Inv, TypeOK
  <2> QED
    BY <1>1, <2>1, <2>2 DEF Delays
<1>4. CASE Backoff
  <2>1. failures' = failures /\ mgr.pc = "backoff" /\ mgr'.pc = "dial"
        /\ mgr'.delay = AtMost(mgr.delay * Multiplier)
    BY <1>4 DEF Backoff, Inv, TypeOK
  <2>2. failures - 1 \in Nat /\ mgr.delay = Delay(failures - 1) /\ (failures - 1) + 1 = failures
    BY <1>1, <2>1 DEF Delays
  <2>3. mgr'.delay = Delay(failures)
    BY <2>1, <2>2, NextDelay
  <2> QED
    BY <2>1, <2>3
<1>5. CASE Publish
  BY <1>5, FirstDelay DEF Publish, Inv, TypeOK
<1>6. CASE LoopEnds
  BY <1>6 DEF LoopEnds, Inv, TypeOK
<1>7. ASSUME /\ UNCHANGED failures /\ mgr'.delay = mgr.delay
             /\ mgr.pc \notin {"backoff", "stopped"} /\ mgr'.pc \notin {"backoff", "stopped"}
      PROVE  mgr'.delay = Delay(failures') /\ mgr'.pc # "backoff"
  BY <1>7 DEF Delays
<1>8. CASE SendHello \/ SendAuthenticate \/ ReadVerdict \/ HandshakeFails \/ Abandon
  BY <1>7, <1>8 DEF SendHello, SendAuthenticate, Handshake, ReadVerdict, HandshakeFails, Abandon,
                    Inv, TypeOK
<1>9. CASE StartReceiver \/ Watch \/ Lost \/ Pause \/ \E k \in Ids : Dial(k)
  BY <1>2, <1>7, <1>9 DEF StartReceiver, Crash, manager, Watch, Lost, Pause, Dial, Inv, TypeOK
<1>10. CASE Main \/ Interrupt
  BY <1>2, <1>10 DEF Main, Interrupt, LaunchSensors, Join, Stop, StopClose, StopClosed, Exit, MainGoes,
                     Crash, manager
<1>11. ASSUME NEW k \in Ids, Receiver(k) \/ Answer(k) \/ ServerBroadcast(k) \/ ServerDown(k)
                             \/ Collect(k)
       PROVE  UNCHANGED mgr /\ UNCHANGED failures
  BY <1>11 DEF Receiver, ReceiverLoop, ReceiverNilCheck, ReceiverDeadline, ReceiverRead,
     ReceiverError, ReceiverGoes, ReceiverFails, Crash, Answer, ServerBroadcast, ServerDown,
     Collect, manager
<1>12. ASSUME NEW s \in Sensors, Tick(s) \/ SendReading(s) \/ SensorStop(s)
       PROVE  UNCHANGED mgr /\ UNCHANGED failures
  BY <1>12 DEF Tick, SendReading, SensorStop, manager
<1> QED
  BY <1>2, <1>3, <1>4, <1>5, <1>6, <1>8, <1>9, <1>10, <1>11, <1>12 DEF Next, Manager, vars

-----------------------------------------------------------------------------
(* The theorems *)

\* Type correctness of the goroutines' places and the fields they share.
THEOREM TypeCorrect == Spec => []TypeOK
  BY InvAlways, PTL DEF Inv

\* Whatever the goroutines' order, an old connection that lingers never counts as
\* connected beside a newer one.
THEOREM OneConnected == Spec => []AtMostOneConnected
<1>1. Inv => AtMostOneConnected
  BY NoConnAssumption DEF Inv, TypeOK, Places, Holding, Connected, AtMostOneConnected
<1> QED
  BY <1>1, InvAlways, PTL

\* Unless a broadcast has come between the answers, the published connection is one
\* whose credentials the server has accepted.
THEOREM AuthenticatedSafe == Spec => []ConnectedMeansAuthenticated
  BY InvAlways, PTL DEF Inv, Verdicts

\* Readings go out only between the AUTHENTICATE and the QUIT of their connection,
\* although they are sent on a connection that was fetched earlier.
THEOREM ReadingsSafe == Spec => ReadingsInSession
<1>1. Inv /\ [Next]_vars =>
        \A k \in Ids : server'[k].last = "SENSOR_DATA" =>
          server[k].last \in {"AUTHENTICATE", "SENSOR_DATA"}
  <2> SUFFICES ASSUME Inv, [Next]_vars, NEW k \in Ids, server'[k].last = "SENSOR_DATA"
               PROVE  server[k].last \in InSession
    BY DEF InSession
  <2>1. CASE server'[k].last = server[k].last
    BY <2>1 DEF InSession
  <2>2. ASSUME NEW s \in Sensors, SendReading(s) PROVE server[k].last \in InSession
    BY <2>1, <2>2, ReadingChanges
  <2>3. CASE SendHello \/ SendAuthenticate
    <3>1. \E l \in {"HELLO", "AUTHENTICATE"} :
            server' = [server EXCEPT ![mgr.sc].unread = Tail(@), ![mgr.sc].sent = @ + 1,
                                   ![mgr.sc].last = l]
      BY <2>3 DEF SendHello, SendAuthenticate, Handshake
    <3>2. server'[k].last = server[k].last \/ server'[k].last \in {"HELLO", "AUTHENTICATE"}
      BY <3>1 DEF Inv, TypeOK
    <3> QED
      BY <2>1, <3>2
  <2>4. CASE Abandon \/ StopClose
    BY <2>1, <2>4 DEF Abandon, StopClose, CloseBegin, Crash, MainGoes, ends, Inv, TypeOK
  <2>5. CASE StartReceiver \/ ReadVerdict \/ Abandoned \/ StopClosed
    <3>1. CASE StartReceiver
      <4>1. mgr.sc \in Ids
        BY <3>1 DEF StartReceiver, Inv, TypeOK, Places, Holding
      <4>2. CASE UNCHANGED server
        BY <2>1, <4>2
      <4>3. CASE server' = [server EXCEPT ![mgr.sc].unread = <<>>, ![mgr.sc].answered = 3]
        BY <2>1, <4>1, <4>3 DEF Inv, TypeOK
      <4> QED
        BY <3>1, <4>2, <4>3 DEF StartReceiver, Crash, ends
    <3>2. CASE ReadVerdict
      BY <2>1, <3>2 DEF ReadVerdict, Inv, TypeOK
    <3>3. CASE Abandoned \/ StopClosed
      <4>1. \E j : server' = [server EXCEPT ![j].up = FALSE]
        BY <3>3 DEF Abandoned, StopClosed, CloseEnd
      <4> QED
        BY <2>1, <4>1 DEF Inv, TypeOK
    <3> QED
      BY <2>5, <3>1, <3>2, <3>3
  <2>6. ASSUME NEW j \in Ids,
               Dial(j) \/ Answer(j) \/ ServerBroadcast(j) \/ ServerDown(j) \/ Collect(j)
        PROVE  server[k].last \in InSession
    <3>1. CASE Dial(j) \/ ServerDown(j)
      <4>1. \E u : server' = [server EXCEPT ![j].up = u]
        BY <3>1 DEF Dial, ServerDown
      <4> QED
        BY <2>1, <4>1 DEF Inv, TypeOK
    <3>4. CASE ServerBroadcast(j)
      BY <2>1, <3>4 DEF ServerBroadcast, Inv, TypeOK
    <3>2. CASE Answer(j)
      <4>1. PICK g \in BOOLEAN :
              server' = [server EXCEPT
                ![j].answered = @ + 1, ![j].granted = g,
                ![j].unread = Append(@, IF server[j].answered < 2 \/ g THEN "OK" ELSE "ERR")]
        BY <3>2 DEF Answer
      <4>2. server'[k].last = server[k].last
        BY <4>1 DEF Inv, TypeOK
      <4> QED
        BY <2>1, <4>2
    <3>3. CASE Collect(j)
      <4>1. server' = [server EXCEPT ![j] = NoServer] /\ NoServer.last # "SENSOR_DATA"
        BY <3>3 DEF Collect, NoServer
      <4>2. server'[k].last = server[k].last
        BY <4>1 DEF Inv, TypeOK
      <4> QED
        BY <2>1, <4>2
    <3> QED
      BY <2>6, <3>1, <3>2, <3>3, <3>4
  <2>7. ASSUME NEW j \in Ids, Receiver(j) PROVE UNCHANGED server
    BY <2>7 DEF Receiver, ReceiverLoop, ReceiverNilCheck, ReceiverDeadline, ReceiverRead,
       ReceiverError, ReceiverGoes, ReceiverFails, Crash, ends
  <2>8. CASE LaunchSensors \/ Join \/ Stop \/ Exit \/ Interrupt
    BY <2>1, <2>8 DEF LaunchSensors, Join, Stop, Exit, Interrupt, MainGoes, ends
  <2>9. ASSUME NEW s \in Sensors, Tick(s) \/ SensorStop(s) PROVE UNCHANGED server
    BY <2>9 DEF Tick, SensorStop, ends
  <2>10. CASE LoopEnds \/ DialFails \/ HandshakeFails \/ Backoff \/ Publish \/ Watch \/ Lost \/ Pause
    BY <2>1, <2>10 DEF LoopEnds, DialFails, HandshakeFails, Backoff, Publish, Watch, Lost, Pause, ends
  <2> QED
    BY <2>1, <2>2, <2>3, <2>4, <2>5, <2>6, <2>7, <2>8, <2>9, <2>10 DEF Next, Manager, Main, vars
<1> QED
  BY <1>1, InvAlways, PTL DEF Spec, ReadingsInSession

\* With the laws of powers: for any number of failures the wait is the power of the
\* multiplier, capped once, although the code multiplies and caps step by step.
THEOREM BackoffSafe == PowerLaws => (Spec => []BackoffMatchesFailures)
<1>1. PowerLaws /\ Init => Delays
  BY FirstDelay, DelaysAssumption DEF Init, Delays
<1>2. Delays => BackoffMatchesFailures
  BY DEF Delays, Delay, AtMost, BackoffMatchesFailures
<1>3. SUFFICES ASSUME PowerLaws PROVE Spec => []BackoffMatchesFailures
  OBVIOUS
<1>4. Init => Delays
  BY <1>1, <1>3
<1>5. Inv /\ Delays /\ [Next]_vars => Delays'
  BY <1>3, DelaysStep
<1> QED
  BY <1>2, <1>4, <1>5, InvAlways, PTL DEF Spec
=============================================================================
