--------------------------- MODULE OperatorClient ---------------------------
(***************************************************************************)
(* The Python operator client: NetworkManager (network.py), used by the    *)
(* GUI thread through the dashboard's buttons (dashboard.py) and by one    *)
(* receiver thread per successful connect.  The threads share _socket,     *)
(* _connected and _should_receive without a lock; a receiver reads         *)
(* self._socket anew each time round, whosever connection that is by then. *)
(*                                                                         *)
(* The dashboard learns of changes through callbacks that the GUI thread   *)
(* runs between the clicks.  Alerts are stored by the receivers (see       *)
(* AlertManager) and shown the same way.                                   *)
(***************************************************************************)
EXTENDS Integers, Sequences

CONSTANTS
  Socks,    \* the sockets made in the run, one for each click on Connect
  NoSock,   \* None
  GUI,      \* the GUI thread; the other threads are named by their socket
  MaxHistory, \* alerts remembered
  MaxAlerts,  \* alerts considered
  MaxQueue    \* callbacks that wait for the GUI thread

ASSUME NoSockAssumption == NoSock \notin Socks
ASSUME GUIAssumption == GUI \notin Socks
ASSUME BoundsAssumption ==
  MaxHistory \in Nat \ {0} /\ MaxAlerts \in Nat /\ MaxQueue \in Nat

VARIABLES
  socket,     \* self._socket
  connected,  \* self._connected
  should,     \* self._should_receive
  pc,         \* pc[t]: where a thread is
  on,         \* on[k]: the socket receiver k reads from
  link,       \* link[k]: "new", "open", or "eof" once the server has closed it
  closed,     \* closed[k]: the client has closed it
  callbacks,  \* the changes of connection and the alerts that are yet to be shown
  shown,      \* the dashboard shows "Connected"
  stale,      \* Connect was clicked while an older receiver was still there
  kept, total, \* see AlertManager
  got,        \* got[k]: the alert that receiver k has stored last
  rows,       \* the alerts in the dashboard's list, from the first one on
  label       \* the number of alerts in the dashboard's label

A == INSTANCE AlertManager

panel == <<kept, total, got, rows, label>>
vars == <<socket, connected, should, pc, on, link, closed, callbacks, shown, stale, panel>>
state == <<socket, connected, should>>
sockets == <<on, link, closed>>
dashboard == <<callbacks, shown, stale, panel>>

Threads == Socks \cup {GUI}

\* The steps of _handle_disconnect, which any thread may be in.
Handling == {"stopReceiving", "disconnected", "close", "clear", "notify"}

\* A receiver waits for data: for ever, or with the timeout of the socket.
InRecv == {"blocked", "timed"}

TypeOK ==
  /\ socket \in Socks \cup {NoSock} /\ connected \in BOOLEAN /\ should \in BOOLEAN
  /\ pc[GUI] \in {"idle", "handshake", "up", "start", "quit", "quitClose", "quitClear", "down",
                  "send"} \cup Handling
  /\ \A k \in Socks :
       pc[k] \in {"none", "loop", "recv", "alert", "lost", "done"} \cup InRecv \cup Handling
  /\ DOMAIN pc = Threads
  /\ on \in [Socks -> Socks \cup {NoSock}]
  /\ link \in [Socks -> {"new", "open", "eof"}]
  /\ closed \in [Socks -> BOOLEAN]
  /\ callbacks \in Seq(({"connection"} \X BOOLEAN) \cup ({"alert"} \X (1 .. total)))
  /\ Len(callbacks) <= MaxQueue
  /\ shown \in BOOLEAN /\ stale \in BOOLEAN
  /\ total \in 0 .. MaxAlerts /\ label \in 0 .. total /\ got \in [Socks -> 0 .. total]
  /\ kept \in Seq(1 .. total) /\ rows \in Seq(1 .. total)

Init ==
  /\ socket = NoSock /\ connected = FALSE /\ should = FALSE
  /\ pc = [t \in Threads |-> IF t = GUI THEN "idle" ELSE "none"]
  /\ on = [k \in Socks |-> NoSock]
  /\ link = [k \in Socks |-> "new"]
  /\ closed = [k \in Socks |-> FALSE]
  /\ callbacks = <<>> /\ shown = FALSE /\ stale = FALSE
  /\ A!AlertsInit /\ got = [k \in Socks |-> 0] /\ rows = <<>> /\ label = 0

Goes(t, to) == pc' = [pc EXCEPT ![t] = to]

\* What a call on self._socket meets.
SocketIsClosed == socket \in {k \in Socks : closed[k]}
SocketHasEnded == socket \in {k \in Socks : link[k] = "eof"}

Alive(k) == pc[k] \notin {"none", "done"}

\* self.after(0, ...).  A thread other than the GUI's waits until that one is back
\* in its event loop.
MayNotify(t) == t = GUI \/ (pc[GUI] = "idle" /\ Len(callbacks) < MaxQueue)
Notify(value) ==
  /\ callbacks' = Append(callbacks, <<"connection", value>>)
  /\ UNCHANGED <<shown, stale, panel>>

-----------------------------------------------------------------------------
(* _handle_disconnect and _cleanup_socket, step by step, in thread t *)

Returned(t) == IF t = GUI THEN "idle" ELSE "done"

StopReceiving(t) ==
  /\ pc[t] = "stopReceiving" /\ should' = FALSE /\ Goes(t, "disconnected")
  /\ UNCHANGED <<socket, connected, sockets, dashboard>>

MarkDisconnected(t) ==
  /\ pc[t] = "disconnected" /\ connected' = FALSE /\ Goes(t, "close")
  /\ UNCHANGED <<socket, should, sockets, dashboard>>

\* if self._socket: self._socket.close(); self._socket = None
CloseSocket(t, from, clear, next) ==
  /\ pc[t] = from
  /\ IF socket = NoSock
     THEN Goes(t, next) /\ UNCHANGED closed
     ELSE Goes(t, clear) /\ closed' = [closed EXCEPT ![socket] = TRUE]
  /\ UNCHANGED <<state, on, link, dashboard>>

ClearSocket(t, from, next) ==
  /\ pc[t] = from /\ socket' = NoSock /\ Goes(t, next)
  /\ UNCHANGED <<connected, should, sockets, dashboard>>

\* Variant with a planted fault: the dashboard is not told.
NotifyLostSilently(t) ==
  /\ pc[t] = "notify" /\ MayNotify(t)
  /\ Goes(t, Returned(t))
  /\ UNCHANGED <<state, sockets, dashboard>>

NotifyLost(t) ==
  /\ pc[t] = "notify" /\ MayNotify(t)
  /\ Notify(FALSE) /\ Goes(t, Returned(t))
  /\ UNCHANGED <<state, sockets>>

HandleDisconnect(t) ==
  \/ StopReceiving(t) \/ MarkDisconnected(t)
  \/ CloseSocket(t, "close", "clear", "notify") \/ ClearSocket(t, "clear", "notify")
  \/ NotifyLost(t)

-----------------------------------------------------------------------------
(* The GUI thread: callbacks and buttons *)

Due(kind) == pc[GUI] = "idle" /\ callbacks # <<>> /\ Head(callbacks)[1] = kind

\* _update_connection_ui
Show ==
  /\ Due("connection")
  /\ shown' = Head(callbacks)[2] /\ callbacks' = Tail(callbacks)
  /\ UNCHANGED <<state, pc, sockets, stale, panel>>

\* Variant with a planted fault: the label counts the list.
ShowAlertCounted ==
  /\ Due("alert")
  /\ rows' = Append(rows, Head(callbacks)[2]) /\ label' = Len(kept)
  /\ callbacks' = Tail(callbacks)
  /\ UNCHANGED <<state, pc, sockets, shown, stale, kept, total, got>>

\* _append_alert: the totals are those of now, other alerts may be on their way.
ShowAlert ==
  /\ Due("alert")
  /\ rows' = Append(rows, Head(callbacks)[2]) /\ label' = total
  /\ callbacks' = Tail(callbacks)
  /\ UNCHANGED <<state, pc, sockets, shown, stale, kept, total, got>>

\* A click makes one callback at most, so that this bounds their number.
MayClick == pc[GUI] = "idle" /\ Len(callbacks) < MaxQueue

\* The Connect button is enabled while the dashboard shows "Disconnected".
ClickConnect(k) ==
  /\ MayClick /\ ~ shown /\ ~ connected
  /\ link[k] = "new" /\ ~ closed[k]
  /\ socket' = k
  /\ link' = [link EXCEPT ![k] = "open"]
  /\ stale' = (stale \/ \E r \in Socks : Alive(r))
  /\ Goes(GUI, "handshake")
  /\ UNCHANGED <<connected, should, on, closed, callbacks, shown, panel>>

\* The handshake has been answered; self._socket.settimeout(None) needs the socket.
\* Another thread may have closed it, or set it to None.
HandshakeDone ==
  /\ pc[GUI] = "handshake" /\ socket # NoSock /\ ~ SocketIsClosed
  /\ connected' = TRUE
  /\ Goes(GUI, "up")
  /\ UNCHANGED <<socket, should, sockets, dashboard>>

\* Refused, rejected, timed out, or without a socket: it is cleaned up.
HandshakeFails ==
  /\ pc[GUI] = "handshake"
  /\ closed' = IF socket = NoSock THEN closed ELSE [closed EXCEPT ![socket] = TRUE]
  /\ socket' = NoSock
  /\ Goes(GUI, "idle")
  /\ UNCHANGED <<connected, should, on, link, dashboard>>

NotifyUp ==
  /\ pc[GUI] = "up" /\ MayNotify(GUI)
  /\ Notify(TRUE) /\ Goes(GUI, "start")
  /\ UNCHANGED <<state, sockets>>

\* _start_receiver: the new thread is named by the last socket made.
StartReceiver(k) ==
  /\ pc[GUI] = "start" /\ link[k] # "new" /\ pc[k] = "none"
  /\ should' = TRUE
  /\ pc' = [pc EXCEPT ![GUI] = "idle", ![k] = "loop"]
  /\ UNCHANGED <<socket, connected, sockets, dashboard>>

\* The Disconnect button is enabled while the dashboard shows "Connected".
ClickDisconnect ==
  /\ MayClick /\ shown /\ connected
  /\ should' = FALSE
  /\ Goes(GUI, "quit")
  /\ UNCHANGED <<socket, connected, sockets, dashboard>>

\* QUIT, if it can be sent, and a pause.
SendQuit ==
  /\ pc[GUI] = "quit" /\ Goes(GUI, "quitClose")
  /\ UNCHANGED <<state, sockets, dashboard>>

Down ==
  /\ pc[GUI] = "down" /\ MayNotify(GUI)
  /\ connected' = FALSE
  /\ Notify(FALSE) /\ Goes(GUI, "idle")
  /\ UNCHANGED <<socket, should, sockets>>

Disconnect ==
  \/ SendQuit \/ CloseSocket(GUI, "quitClose", "quitClear", "down")
  \/ ClearSocket(GUI, "quitClear", "down") \/ Down

\* send_command, from the buttons of the control panel.
ClickCommand ==
  /\ MayClick /\ connected /\ socket # NoSock
  /\ Goes(GUI, "send")
  /\ UNCHANGED <<state, sockets, dashboard>>

\* Without a socket nothing is sent, and nothing is noticed.
SendCommand ==
  /\ pc[GUI] = "send"
  /\ \/ Goes(GUI, "idle") /\ ~ SocketIsClosed
     \/ Goes(GUI, "stopReceiving") /\ (SocketIsClosed \/ SocketHasEnded)
  /\ UNCHANGED <<state, sockets, dashboard>>

Gui ==
  \/ Show \/ ShowAlert \/ HandshakeDone \/ HandshakeFails \/ NotifyUp \/ Disconnect \/ SendCommand
  \/ \E k \in Socks : StartReceiver(k)

-----------------------------------------------------------------------------
(* Receiver k: _receive_loop *)

Loop(k) ==
  /\ pc[k] = "loop"
  /\ Goes(k, IF should /\ connected THEN "recv" ELSE "done")
  /\ UNCHANGED <<state, sockets, dashboard>>

\* Variant with a planted fault: an exception just ends the thread.
ExceptionEnds == "done"

\* The except branch: the log, and _handle_disconnect, unless it was told to stop.
Exception == IF should THEN "lost" ELSE "done"

\* self._socket.recv: an exception when there is no socket, or a closed one.  During
\* a handshake the socket has a timeout of 10 s.
EnterRecv(k) ==
  /\ pc[k] = "recv"
  /\ IF socket = NoSock \/ SocketIsClosed
     THEN Goes(k, Exception) /\ UNCHANGED on
     ELSE /\ Goes(k, IF pc[GUI] = "handshake" THEN "timed" ELSE "blocked")
          /\ on' = [on EXCEPT ![k] = socket]
  /\ UNCHANGED <<state, link, closed, dashboard>>

\* A close in another thread does not wake it.  Lines reach the dashboard through
\* the GUI thread.
RecvData(k) ==
  /\ pc[k] \in InRecv /\ link[on[k]] = "open" /\ pc[GUI] = "idle"
  /\ Goes(k, "loop") /\ on' = [on EXCEPT ![k] = NoSock]
  /\ UNCHANGED <<state, link, closed, dashboard>>

\* An ALERT line is stored by the receiver itself.
RecvAlert(k) ==
  /\ pc[k] \in InRecv /\ link[on[k]] = "open" /\ total < MaxAlerts
  /\ A!AddAlert /\ got' = [got EXCEPT ![k] = total']
  /\ Goes(k, "alert") /\ on' = [on EXCEPT ![k] = NoSock]
  /\ UNCHANGED <<state, link, closed, callbacks, shown, stale, rows, label>>

\* on_new_alert, when AlertManager's lock is free again
NotifyAlert(k) ==
  /\ pc[k] = "alert" /\ MayNotify(k)
  /\ callbacks' = Append(callbacks, <<"alert", got[k]>>)
  /\ Goes(k, "loop")
  /\ UNCHANGED <<state, sockets, shown, stale, panel>>

\* except socket.timeout: continue
RecvTimeout(k) ==
  /\ pc[k] = "timed"
  /\ Goes(k, "loop") /\ on' = [on EXCEPT ![k] = NoSock]
  /\ UNCHANGED <<state, link, closed, dashboard>>

\* Variant with a planted fault: no data is taken for a timeout.
RecvEndContinues(k) ==
  /\ pc[k] \in InRecv /\ link[on[k]] = "eof"
  /\ Goes(k, "loop") /\ on' = [on EXCEPT ![k] = NoSock]
  /\ UNCHANGED <<state, link, closed, dashboard>>

RecvEnd(k) ==
  /\ pc[k] \in InRecv /\ link[on[k]] = "eof"
  /\ Goes(k, "lost") /\ on' = [on EXCEPT ![k] = NoSock]
  /\ UNCHANGED <<state, link, closed, dashboard>>

\* The loss is logged in the dashboard first.
LogLoss(k) ==
  /\ pc[k] = "lost" /\ pc[GUI] = "idle"
  /\ Goes(k, "stopReceiving")
  /\ UNCHANGED <<state, sockets, dashboard>>

Receiver(k) ==
  \/ Loop(k) \/ EnterRecv(k) \/ RecvData(k) \/ RecvAlert(k) \/ NotifyAlert(k)
  \/ RecvTimeout(k) \/ RecvEnd(k) \/ LogLoss(k)

\* The server ends the connection: after QUIT, or at any time.
ServerCloses(k) ==
  /\ link[k] = "open" /\ link' = [link EXCEPT ![k] = "eof"]
  /\ UNCHANGED <<state, pc, on, closed, dashboard>>

-----------------------------------------------------------------------------

Next ==
  \/ Gui \/ ClickDisconnect \/ ClickCommand
  \/ \E t \in Threads : HandleDisconnect(t)
  \/ \E k \in Socks : ClickConnect(k) \/ Receiver(k) \/ ServerCloses(k)

\* What receiver k does by itself, and what it does when the GUI thread is in its
\* event loop.
ByItself(k) == Loop(k) \/ EnterRecv(k) \/ RecvEnd(k) \/ HandleDisconnect(k)
WithGui(k) == RecvData(k) \/ NotifyAlert(k) \/ LogLoss(k) \/ NotifyLost(k)

\* Threads run on, connections deliver their METRIC lines, and the GUI thread comes
\* back to its event loop again and again.  Nothing is assumed of the user, of
\* alerts and of the server's hanging up.
Spec ==
  /\ Init /\ [][Next]_vars
  /\ WF_vars(Gui \/ HandleDisconnect(GUI))
  /\ \A k \in Socks : WF_vars(ByItself(k)) /\ SF_vars(WithGui(k))

-----------------------------------------------------------------------------
(* Safety *)

Quiet ==
  /\ pc[GUI] = "idle" /\ callbacks = <<>>
  /\ \A k \in Socks : pc[k] \notin Handling

\* As long as Connect was never clicked while an older receiver was still there, the
\* dashboard shows the truth whenever nothing is under way, and a connection that
\* counts as one has its socket - whichever of the two threads noticed a loss first.
ShownIsTrue ==
  Quiet /\ ~ stale => /\ shown = connected
                      /\ connected => socket # NoSock /\ ~ SocketIsClosed

\* When no alert is on its way, the list has every alert once and the label says how
\* many; what AlertManager remembers is the end of the list, provided that there was
\* one receiver at a time: two store and announce theirs in different orders.
PanelAgrees ==
  (\A k \in Socks : pc[k] # "alert") /\ (\A i \in DOMAIN callbacks : callbacks[i][1] # "alert") =>
    /\ label = total /\ Len(rows) = total
    /\ \A n \in 1 .. total : \E i \in DOMAIN rows : rows[i] = n
    /\ ~ stale => kept = SubSeq(rows, total - Len(kept) + 1, total)

-----------------------------------------------------------------------------
(* Liveness *)

\* A connection that the server has ended does not count as one for ever, although
\* receivers are told by shared flags when to stop.
LossIsNoticed ==
  \A k \in Socks : (connected /\ socket = k /\ link[k] = "eof") ~> ~ (connected /\ socket = k)

\* A client that counts as connected without a socket finds out: an older receiver's
\* clean-up may have taken the socket of a new connection.
MissingSocketIsNoticed == (connected /\ socket = NoSock) ~> (~ connected \/ socket # NoSock)
=============================================================================
