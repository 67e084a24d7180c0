------------------------ MODULE OperatorClientProofs ------------------------
(* The dashboard and the threads behind it: what it shows of the connection,   *)
(* and of the alerts, for any number of connections made one after the other,  *)
(* of alerts and of callbacks that wait.                                       *)
EXTENDS OperatorClient, TLAPS, FiniteSetTheorems, SequenceTheorems

-----------------------------------------------------------------------------
(* The callbacks that wait for the GUI thread *)

Callback == ({"connection"} \X BOOLEAN) \cup ({"alert"} \X (1 .. total))

Connection(v) == <<"connection", v>>
AlertOf(n) == <<"alert", n>>

\* Alert n is on its way.
Queued(q, n) == \E i \in 1 .. Len(q) : q[i] = AlertOf(n)

\* No alert waits twice.
OnceIn(q) == \A i, j \in 1 .. Len(q) : \A n \in Nat : q[i] = AlertOf(n) /\ q[j] = AlertOf(n) => i = j

\* The alerts wait in the order of their numbers.
Ascending(q) ==
  \A i, j \in 1 .. Len(q) : \A m, n \in Nat :
    i < j /\ q[i] = AlertOf(m) /\ q[j] = AlertOf(n) => m < n

\* When all callbacks have run, the dashboard will show v.
Tells(q, now, v) ==
  \/ \E i \in 1 .. Len(q) : /\ q[i] = Connection(v)
                            /\ \A j \in i + 1 .. Len(q) : q[j][1] # "connection"
  \/ (\A j \in 1 .. Len(q) : q[j][1] # "connection") /\ now = v

LEMMA Kinds ==
  \A n, v : /\ AlertOf(n)[1] = "alert" /\ AlertOf(n)[2] = n
            /\ Connection(v)[1] = "connection" /\ Connection(v)[2] = v
            /\ AlertOf(n) # Connection(v)
  BY DEF AlertOf, Connection

LEMMA SameAlert == \A m, n : AlertOf(m) = AlertOf(n) => m = n
  BY Kinds

\* A sequence with one more element at its end.
LEMMA Appended ==
  ASSUME NEW S, NEW q \in Seq(S), NEW e \in S
  PROVE  /\ Append(q, e) \in Seq(S) /\ Len(Append(q, e)) = Len(q) + 1 /\ Len(q) \in Nat
         /\ Append(q, e)[Len(q) + 1] = e
         /\ \A i \in 1 .. Len(q) : Append(q, e)[i] = q[i]
  BY AppendProperties

\* A sequence without its first element.
LEMMA TailOf ==
  ASSUME NEW S, NEW q \in Seq(S), q # <<>>
  PROVE  /\ Tail(q) \in Seq(S) /\ Len(Tail(q)) = Len(q) - 1 /\ Len(q) \in Nat /\ Len(q) >= 1
         /\ Head(q) = q[1] /\ Head(q) \in S
         /\ \A i \in 1 .. Len(q) - 1 : Tail(q)[i] = q[i + 1]
  BY HeadTailProperties

LEMMA AppendQueued ==
  ASSUME NEW S, NEW q \in Seq(S), NEW e \in S, NEW n
  PROVE  Queued(Append(q, e), n) <=> Queued(q, n) \/ e = AlertOf(n)
<1> DEFINE p == Append(q, e)
<1>1. /\ Len(p) = Len(q) + 1 /\ Len(q) \in Nat /\ p[Len(q) + 1] = e
      /\ \A i \in 1 .. Len(q) : p[i] = q[i]
  BY Appended
<1> HIDE DEF p
<1>2. Queued(p, n) <=> Queued(q, n) \/ e = AlertOf(n)
  BY <1>1 DEF Queued
<1> QED
  BY <1>2 DEF p

LEMMA TailQueued ==
  ASSUME NEW S, NEW q \in Seq(S), q # <<>>, NEW n
  PROVE  Queued(q, n) <=> Queued(Tail(q), n) \/ Head(q) = AlertOf(n)
<1> DEFINE p == Tail(q)
           first == Head(q)
<1>1. /\ Len(p) = Len(q) - 1 /\ Len(q) \in Nat /\ Len(q) >= 1 /\ first = q[1]
      /\ \A i \in 1 .. Len(q) - 1 : p[i] = q[i + 1]
  BY TailOf
<1> HIDE DEF p, first
<1>2. ASSUME Queued(q, n) PROVE Queued(p, n) \/ first = AlertOf(n)
  <2>1. PICK i \in 1 .. Len(q) : q[i] = AlertOf(n)
    BY <1>2 DEF Queued
  <2>2. i = 1 \/ (i - 1 \in 1 .. Len(p) /\ p[i - 1] = q[i])
    BY <1>1
  <2> QED
    BY <1>1, <2>1, <2>2 DEF Queued
<1>3. ASSUME Queued(p, n) PROVE Queued(q, n)
  <2>1. PICK i \in 1 .. Len(p) : p[i] = AlertOf(n)
    BY <1>3 DEF Queued
  <2>2. i + 1 \in 1 .. Len(q) /\ q[i + 1] = AlertOf(n)
    BY <1>1, <2>1
  <2> QED
    BY <2>2 DEF Queued
<1>4. first = AlertOf(n) => Queued(q, n)
  <2>1. 1 \in 1 .. Len(q)
    BY <1>1
  <2> QED
    BY <1>1, <2>1 DEF Queued
<1> QED
  BY <1>2, <1>3, <1>4 DEF p, first

LEMMA AppendOnce ==
  ASSUME NEW S, NEW q \in Seq(S), NEW e \in S, OnceIn(q),
         \A n \in Nat : e = AlertOf(n) => ~ Queued(q, n)
  PROVE  OnceIn(Append(q, e))
<1> DEFINE p == Append(q, e)
<1>1. /\ Len(p) = Len(q) + 1 /\ Len(q) \in Nat /\ p[Len(q) + 1] = e
      /\ \A i \in 1 .. Len(q) : p[i] = q[i]
  BY Appended
<1> HIDE DEF p
<1>2. OnceIn(p)
  <2> SUFFICES ASSUME NEW i \in 1 .. Len(p), NEW j \in 1 .. Len(p), NEW n \in Nat,
                      p[i] = AlertOf(n), p[j] = AlertOf(n)
               PROVE  i = j
    BY DEF OnceIn
  <2>1. \/ i \in 1 .. Len(q) /\ q[i] = AlertOf(n)
        \/ i = Len(q) + 1 /\ e = AlertOf(n)
    BY <1>1
  <2>2. \/ j \in 1 .. Len(q) /\ q[j] = AlertOf(n)
        \/ j = Len(q) + 1 /\ e = AlertOf(n)
    BY <1>1
  <2> QED
    BY <2>1, <2>2 DEF OnceIn, Queued
<1> QED
  BY <1>2 DEF p

LEMMA TailOnce ==
  ASSUME NEW S, NEW q \in Seq(S), q # <<>>, OnceIn(q)
  PROVE  /\ OnceIn(Tail(q))
         /\ \A n \in Nat : Head(q) = AlertOf(n) => ~ Queued(Tail(q), n)
<1> DEFINE p == Tail(q)
           first == Head(q)
<1>1. /\ Len(p) = Len(q) - 1 /\ Len(q) \in Nat /\ Len(q) >= 1 /\ first = q[1]
      /\ \A i \in 1 .. Len(q) - 1 : p[i] = q[i + 1]
  BY TailOf
<1> HIDE DEF p, first
<1>2. ASSUME NEW i \in 1 .. Len(p) PROVE i + 1 \in 1 .. Len(q) /\ p[i] = q[i + 1] /\ i + 1 # 1
  BY <1>1
<1>3. ASSUME NEW i \in 1 .. Len(p), NEW j \in 1 .. Len(p), NEW n \in Nat,
             p[i] = AlertOf(n), p[j] = AlertOf(n)
      PROVE  i = j
  <2>1. i + 1 = j + 1
    BY <1>2, <1>3 DEF OnceIn
  <2> QED
    BY <1>1, <2>1
<1>4. ASSUME NEW n \in Nat, first = AlertOf(n), Queued(p, n) PROVE FALSE
  <2>1. PICK i \in 1 .. Len(p) : p[i] = AlertOf(n)
    BY <1>4 DEF Queued
  <2>2. 1 \in 1 .. Len(q) /\ q[1] = AlertOf(n)
    BY <1>1, <1>4
  <2>3. i + 1 \in 1 .. Len(q) /\ q[i + 1] = AlertOf(n) /\ i + 1 # 1
    BY <1>2, <2>1
  <2>4. 1 = i + 1
    BY <2>2, <2>3 DEF OnceIn
  <2> QED
    BY <2>3, <2>4
<1>5. OnceIn(p) /\ \A n \in Nat : first = AlertOf(n) => ~ Queued(p, n)
  BY <1>3, <1>4 DEF OnceIn
<1> QED
  BY <1>5 DEF p, first

LEMMA AppendAscending ==
  ASSUME NEW S, NEW q \in Seq(S), NEW e \in S, Ascending(q),
         \A m, n \in Nat : e = AlertOf(n) /\ Queued(q, m) => m < n
  PROVE  Ascending(Append(q, e))
<1> DEFINE p == Append(q, e)
<1>1. /\ Len(p) = Len(q) + 1 /\ Len(q) \in Nat /\ p[Len(q) + 1] = e
      /\ \A i \in 1 .. Len(q) : p[i] = q[i]
  BY Appended
<1> HIDE DEF p
<1>2. Ascending(p)
  <2> SUFFICES ASSUME NEW i \in 1 .. Len(p), NEW j \in 1 .. Len(p), NEW m \in Nat, NEW n \in Nat,
                      i < j, p[i] = AlertOf(m), p[j] = AlertOf(n)
               PROVE  m < n
    BY DEF Ascending
  <2>1. i \in 1 .. Len(q) /\ q[i] = AlertOf(m)
    BY <1>1
  <2>2. \/ j \in 1 .. Len(q) /\ q[j] = AlertOf(n)
        \/ j = Len(q) + 1 /\ e = AlertOf(n)
    BY <1>1
  <2> QED
    BY <2>1, <2>2 DEF Ascending, Queued
<1> QED
  BY <1>2 DEF p

LEMMA TailAscending ==
  ASSUME NEW S, NEW q \in Seq(S), q # <<>>, Ascending(q)
  PROVE  /\ Ascending(Tail(q))
         /\ \A m, n \in Nat : Head(q) = AlertOf(m) /\ Queued(Tail(q), n) => m < n
<1> DEFINE p == Tail(q)
           first == Head(q)
<1>1. /\ Len(p) = Len(q) - 1 /\ Len(q) \in Nat /\ Len(q) >= 1 /\ first = q[1]
      /\ \A i \in 1 .. Len(q) - 1 : p[i] = q[i + 1]
  BY TailOf
<1> HIDE DEF p, first
<1>2. ASSUME NEW i \in 1 .. Len(p) PROVE i + 1 \in 1 .. Len(q) /\ p[i] = q[i + 1] /\ 1 < i + 1
  BY <1>1
<1>3. ASSUME NEW i \in 1 .. Len(p), NEW j \in 1 .. Len(p), NEW m \in Nat, NEW n \in Nat,
             i < j, p[i] = AlertOf(m), p[j] = AlertOf(n)
      PROVE  m < n
  <2>1. i + 1 < j + 1
    BY <1>1, <1>3
  <2> QED
    BY <1>2, <1>3, <2>1 DEF Ascending
<1>4. ASSUME NEW m \in Nat, NEW n \in Nat, first = AlertOf(m), Queued(p, n) PROVE m < n
  <2>1. PICK i \in 1 .. Len(p) : p[i] = AlertOf(n)
    BY <1>4 DEF Queued
  <2>2. 1 \in 1 .. Len(q) /\ q[1] = AlertOf(m)
    BY <1>1, <1>4
  <2>3. i + 1 \in 1 .. Len(q) /\ q[i + 1] = AlertOf(n) /\ 1 < i + 1
    BY <1>2, <2>1
  <2> QED
    BY <2>2, <2>3 DEF Ascending
<1>5. Ascending(p) /\ \A m, n \in Nat : first = AlertOf(m) /\ Queued(p, n) => m < n
  BY <1>3, <1>4 DEF Ascending
<1> QED
  BY <1>5 DEF p, first

\* What the dashboard will show: after one more callback, and after it has run one.
LEMMA AppendTells ==
  ASSUME NEW S, NEW q \in Seq(S), NEW e \in S, NEW now, NEW v
  PROVE  /\ e = Connection(v) => Tells(Append(q, e), now, v)
         /\ e[1] # "connection" /\ Tells(q, now, v) => Tells(Append(q, e), now, v)
<1> DEFINE p == Append(q, e)
<1>1. /\ Len(p) = Len(q) + 1 /\ Len(q) \in Nat /\ p[Len(q) + 1] = e
      /\ \A i \in 1 .. Len(q) : p[i] = q[i]
  BY Appended
<1> HIDE DEF p
<1>2. ASSUME e = Connection(v) PROVE Tells(p, now, v)
  <2>1. Len(q) + 1 \in 1 .. Len(p) /\ \A j \in (Len(q) + 1) + 1 .. Len(p) : FALSE
    BY <1>1
  <2> QED
    BY <1>1, <1>2, <2>1 DEF Tells
<1>3. ASSUME e[1] # "connection", Tells(q, now, v) PROVE Tells(p, now, v)
  <2>1. CASE (\A j \in 1 .. Len(q) : q[j][1] # "connection") /\ now = v
    <3>1. \A j \in 1 .. Len(p) : p[j][1] # "connection"
      BY <1>1, <1>3, <2>1
    <3> QED
      BY <2>1, <3>1 DEF Tells
  <2>2. ASSUME NEW i \in 1 .. Len(q), q[i] = Connection(v),
               \A j \in i + 1 .. Len(q) : q[j][1] # "connection"
        PROVE  Tells(p, now, v)
    <3>1. i \in 1 .. Len(p) /\ p[i] = Connection(v)
      BY <1>1, <2>2
    <3>2. \A j \in i + 1 .. Len(p) : p[j][1] # "connection"
      BY <1>1, <1>3, <2>2
    <3> QED
      BY <3>1, <3>2 DEF Tells
  <2> QED
    BY <1>3, <2>1, <2>2 DEF Tells
<1>4. /\ e = Connection(v) => Tells(p, now, v)
      /\ e[1] # "connection" /\ Tells(q, now, v) => Tells(p, now, v)
  BY <1>2, <1>3
<1> QED
  BY <1>4 DEF p

LEMMA TailTells ==
  ASSUME NEW S, NEW q \in Seq(S), q # <<>>, NEW now, NEW v, Tells(q, now, v)
  PROVE  /\ Head(q)[1] # "connection" => Tells(Tail(q), now, v)
         /\ \A b : Head(q) = Connection(b) => Tells(Tail(q), b, v)
<1> DEFINE p == Tail(q)
           first == Head(q)
<1>1. /\ Len(p) = Len(q) - 1 /\ Len(q) \in Nat /\ Len(q) >= 1 /\ first = q[1]
      /\ \A i \in 1 .. Len(q) - 1 : p[i] = q[i + 1]
  BY TailOf
<1> HIDE DEF p, first
<1>2. ASSUME NEW i \in 1 .. Len(p) PROVE i + 1 \in 2 .. Len(q) /\ p[i] = q[i + 1]
  BY <1>1
<1>3. 1 \in 1 .. Len(q)
  BY <1>1
<1>4. ASSUME NEW i \in 2 .. Len(q), q[i] = Connection(v),
             \A j \in i + 1 .. Len(q) : q[j][1] # "connection"
      PROVE  \A b : Tells(p, b, v)
  <2>1. i - 1 \in 1 .. Len(p) /\ p[i - 1] = Connection(v)
    BY <1>1, <1>4
  <2>2. ASSUME NEW j \in (i - 1) + 1 .. Len(p) PROVE p[j][1] # "connection"
    <3>1. j \in 1 .. Len(p) /\ j + 1 \in i + 1 .. Len(q)
      BY <1>1
    <3> QED
      BY <1>2, <1>4, <3>1
  <2> QED
    BY <2>1, <2>2 DEF Tells
<1>5. ASSUME \A j \in 2 .. Len(q) : q[j][1] # "connection"
      PROVE  Tells(p, v, v)
  BY <1>2, <1>5 DEF Tells
<1>6. CASE (\A j \in 1 .. Len(q) : q[j][1] # "connection") /\ now = v
  <2>1. first[1] # "connection"
    BY <1>1, <1>3, <1>6
  <2>2. \A b : first # Connection(b)
    BY <2>1, Kinds
  <2>3. \A j \in 2 .. Len(q) : q[j][1] # "connection"
    BY <1>1, <1>6
  <2> QED
    BY <1>5, <1>6, <2>2, <2>3 DEF p, first
<1>7. ASSUME NEW i \in 1 .. Len(q), q[i] = Connection(v),
             \A j \in i + 1 .. Len(q) : q[j][1] # "connection"
      PROVE  /\ first[1] # "connection" => Tells(p, now, v)
             /\ \A b : first = Connection(b) => Tells(p, b, v)
  <2>1. CASE i \in 2 .. Len(q)
    BY <1>4, <1>7, <2>1
  <2>2. CASE i = 1
    <3>1. first = Connection(v) /\ \A j \in 2 .. Len(q) : q[j][1] # "connection"
      BY <1>1, <1>7, <2>2
    <3>2. first[1] = "connection" /\ \A b : first = Connection(b) => b = v
      BY <3>1, Kinds
    <3> QED
      BY <1>5, <3>1, <3>2
  <2> QED
    BY <1>1, <2>1, <2>2
<1> QED
  BY <1>6, <1>7 DEF Tells, p, first

-----------------------------------------------------------------------------
(* The inductive invariant.  Types, with the room that the GUI thread has left *)
(* for the one callback that its click may make.                               *)

Room == pc[GUI] \notin {"idle", "start"} => Len(callbacks) < MaxQueue

InHand(n) == \E k \in Socks : pc[k] = "alert" /\ got[k] = n

Listed(n) == \E i \in 1 .. Len(rows) : rows[i] = n

Types ==
  /\ TypeOK /\ Room
  /\ \A k \in Socks : pc[k] = "alert" => got[k] \in 1 .. total

(* The connection, as long as no Connect was clicked with an older receiver    *)
(* about: there is one receiver at most, none while a connection is made; a     *)
(* thread that handles a loss has ended the connection for the others too, and  *)
(* what the dashboard will show once its callbacks have run is the truth,       *)
(* unless a thread is about to tell it something else.                          *)

Making == {"handshake", "up", "start"}
Telling == {"close", "clear", "notify"}

NoneWhileMaking == pc[GUI] \in Making => \A k \in Socks : ~ Alive(k)
OneReceiver == \A j, k \in Socks : Alive(j) /\ Alive(k) => j = k
LostForAll == \A t \in Threads : pc[t] \in Telling => ~ connected
Handshaking == /\ pc[GUI] = "handshake" => ~ connected
               /\ pc[GUI] = "up" => connected
WillShow ==
  pc[GUI] # "up" /\ (\A t \in Threads : pc[t] \notin Telling) => Tells(callbacks, shown, connected)
HasSocket ==
  connected => \/ socket # NoSock /\ ~ SocketIsClosed
               \/ pc[GUI] \in {"quitClear", "down"}

Truth == /\ NoneWhileMaking /\ OneReceiver /\ LostForAll
         /\ Handshaking /\ WillShow /\ HasSocket

(* The alerts: each of them is in one place, and those remembered are the last. *)

Everywhere == \A n \in 1 .. total : Listed(n) \/ Queued(callbacks, n) \/ InHand(n)

Once ==
  /\ \A i, j \in 1 .. Len(rows) : rows[i] = rows[j] => i = j
  /\ OnceIn(callbacks)
  /\ \A j, k \in Socks : pc[j] = "alert" /\ pc[k] = "alert" /\ got[j] = got[k] => j = k
  /\ \A n \in Nat : /\ ~ (Listed(n) /\ Queued(callbacks, n))
                    /\ ~ (Listed(n) /\ InHand(n))
                    /\ ~ (Queued(callbacks, n) /\ InHand(n))

Labelled == label = total \/ \E n \in Nat : Queued(callbacks, n) \/ InHand(n)

Remembered ==
  Len(kept) <= total /\ \A i \in 1 .. Len(kept) : kept[i] = (total - Len(kept)) + i

\* With one receiver at a time the alerts arrive in their order.
InOrder ==
  /\ \A i \in 1 .. Len(rows) : rows[i] = i
  /\ Ascending(callbacks)
  /\ \A n \in Nat : Queued(callbacks, n) => n > Len(rows)
  /\ \A n \in Nat : InHand(n) => n > Len(rows)
  /\ \A m, n \in Nat : Queued(callbacks, m) /\ InHand(n) => m < n

Panel == Everywhere /\ Once /\ Labelled /\ Remembered

Inv == Types /\ Panel /\ (~ stale => Truth /\ InOrder)

-----------------------------------------------------------------------------
(* Types *)

GuiPcs == {"idle", "handshake", "up", "start", "quit", "quitClose", "quitClear", "down",
           "send"} \cup Handling
ReceiverPcs == {"none", "loop", "recv", "alert", "lost", "done"} \cup InRecv \cup Handling

PcTypes ==
  /\ DOMAIN pc = Threads /\ pc[GUI] \in GuiPcs
  /\ \A k \in Socks : pc[k] \in ReceiverPcs

FlagTypes ==
  /\ socket \in Socks \cup {NoSock} /\ connected \in BOOLEAN /\ should \in BOOLEAN
  /\ on \in [Socks -> Socks \cup {NoSock}]
  /\ link \in [Socks -> {"new", "open", "eof"}]
  /\ closed \in [Socks -> BOOLEAN]
  /\ shown \in BOOLEAN /\ stale \in BOOLEAN

QueueTypes == callbacks \in Seq(Callback) /\ Len(callbacks) <= MaxQueue

PanelTypes ==
  /\ total \in 0 .. MaxAlerts /\ label \in 0 .. total /\ got \in [Socks -> 0 .. total]
  /\ kept \in Seq(1 .. total) /\ rows \in Seq(1 .. total)

LEMMA TypeParts == TypeOK <=> PcTypes /\ FlagTypes /\ QueueTypes /\ PanelTypes
  BY DEF TypeOK, PcTypes, FlagTypes, QueueTypes, PanelTypes, GuiPcs, ReceiverPcs, Callback

\* A thread goes on to a place of its kind.
LEMMA MoveTypes ==
  ASSUME PcTypes, NEW t \in Threads, NEW to,
         IF t = GUI THEN to \in GuiPcs ELSE to \in ReceiverPcs,
         pc' = [pc EXCEPT ![t] = to]
  PROVE  PcTypes' /\ pc'[t] = to /\ \A u \in Threads : u # t => pc'[u] = pc[u]
<1>1. GUI \in Threads /\ Socks \subseteq Threads /\ \A k \in Socks : k # GUI
  BY GUIAssumption DEF Threads
<1>2. pc'[t] = to /\ (\A u \in Threads : u # t => pc'[u] = pc[u]) /\ DOMAIN pc' = Threads
  BY DEF PcTypes
<1>3. pc'[GUI] \in GuiPcs
  BY <1>1, <1>2 DEF PcTypes
<1>4. \A k \in Socks : pc'[k] \in ReceiverPcs
  BY <1>1, <1>2 DEF PcTypes, Threads
<1> QED
  BY <1>2, <1>3, <1>4 DEF PcTypes

LEMMA PcSets ==
  /\ GuiPcs = {"idle", "handshake", "up", "start", "quit", "quitClose", "quitClear", "down",
               "send", "stopReceiving", "disconnected", "close", "clear", "notify"}
  /\ ReceiverPcs = {"none", "loop", "recv", "blocked", "timed", "alert", "lost", "done",
                    "stopReceiving", "disconnected", "close", "clear", "notify"}
  /\ \A k \in Socks : k \in Threads /\ k # GUI
  /\ GUI \in Threads
  BY GUIAssumption DEF GuiPcs, ReceiverPcs, InRecv, Handling, Threads

LEMMA HandlingPc ==
  ASSUME PcTypes, NEW t \in Threads, HandleDisconnect(t)
  PROVE  PcTypes'
<1> USE PcSets
<1>1. CASE StopReceiving(t)
  BY <1>1, MoveTypes DEF StopReceiving, Goes
<1>2. CASE MarkDisconnected(t)
  BY <1>2, MoveTypes DEF MarkDisconnected, Goes
<1>3. CASE CloseSocket(t, "close", "clear", "notify")
  <2>1. pc' = [pc EXCEPT ![t] = "clear"] \/ pc' = [pc EXCEPT ![t] = "notify"]
    BY <1>3 DEF CloseSocket, Goes
  <2> QED
    BY <2>1, MoveTypes
<1>4. CASE ClearSocket(t, "clear", "notify")
  BY <1>4, MoveTypes DEF ClearSocket, Goes
<1>5. CASE NotifyLost(t)
  BY <1>5, MoveTypes DEF NotifyLost, Goes, Returned
<1> QED
  BY <1>1, <1>2, <1>3, <1>4, <1>5 DEF HandleDisconnect

LEMMA GuiPc ==
  ASSUME PcTypes, Gui \/ ClickDisconnect \/ ClickCommand \/ \E k \in Socks : ClickConnect(k)
  PROVE  PcTypes'
<1> USE PcSets
<1>1. CASE Show \/ ShowAlert
  BY <1>1 DEF Show, ShowAlert, PcTypes
<1>2. CASE HandshakeDone \/ HandshakeFails \/ NotifyUp \/ ClickDisconnect \/ ClickCommand
           \/ \E k \in Socks : ClickConnect(k)
  <2>1. \E to \in {"up", "idle", "start", "quit", "send", "handshake"} : pc' = [pc EXCEPT ![GUI] = to]
    BY <1>2 DEF HandshakeDone, HandshakeFails, NotifyUp, ClickDisconnect, ClickCommand,
                ClickConnect, Goes
  <2> QED
    BY <2>1, MoveTypes
<1>3. CASE Disconnect \/ SendCommand
  <2>1. \E to \in {"quitClose", "quitClear", "down", "idle", "stopReceiving"} :
           pc' = [pc EXCEPT ![GUI] = to]
    BY <1>3 DEF Disconnect, SendQuit, CloseSocket, ClearSocket, Down, SendCommand, Goes
  <2> QED
    BY <2>1, MoveTypes
<1>4. ASSUME NEW k \in Socks, StartReceiver(k) PROVE PcTypes'
  <2>1. pc' = [pc EXCEPT ![GUI] = "idle", ![k] = "loop"]
    BY <1>4 DEF StartReceiver
  <2> QED
    BY <2>1 DEF PcTypes
<1> QED
  BY <1>1, <1>2, <1>3, <1>4 DEF Gui

LEMMA ReceiverPc ==
  ASSUME PcTypes, NEW k \in Socks, Receiver(k)
  PROVE  PcTypes'
<1> USE PcSets
<1>1. \E to \in {"recv", "done", "lost", "blocked", "timed", "loop", "alert", "stopReceiving"} :
         pc' = [pc EXCEPT ![k] = to]
  BY DEF Receiver, Loop, EnterRecv, RecvData, RecvAlert, NotifyAlert, RecvTimeout, RecvEnd, LogLoss, Goes,
         Exception
<1> QED
  BY <1>1, MoveTypes

LEMMA PcStep == PcTypes /\ Next => PcTypes'
<1> SUFFICES ASSUME PcTypes, Next PROVE PcTypes'
  OBVIOUS
<1>1. ASSUME NEW k \in Socks, ServerCloses(k) PROVE PcTypes'
  BY <1>1 DEF ServerCloses, PcTypes
<1> QED
  BY <1>1, HandlingPc, GuiPc, ReceiverPc DEF Next

\* The first callback is a change of the connection, or an alert.
LEMMA CallbackIs ==
  ASSUME NEW e \in Callback
  PROVE  \/ e[1] = "connection" /\ \E v \in BOOLEAN : e = Connection(v)
         \/ e[1] = "alert" /\ \E n \in 1 .. total : e = AlertOf(n)
<1>1. CASE e \in {"connection"} \X BOOLEAN
  BY <1>1 DEF Connection
<1>2. CASE e \in {"alert"} \X (1 .. total)
  BY <1>2 DEF AlertOf
<1> QED
  BY <1>1, <1>2 DEF Callback

LEMMA HeadIs ==
  ASSUME QueueTypes, NEW kind, Due(kind)
  PROVE  /\ callbacks # <<>> /\ Head(callbacks) \in Callback /\ pc[GUI] = "idle"
         /\ kind = "connection" => \E v \in BOOLEAN : Head(callbacks) = Connection(v)
         /\ kind = "alert" => \E n \in 1 .. total : Head(callbacks) = AlertOf(n)
<1>1. callbacks # <<>> /\ callbacks \in Seq(Callback) /\ Head(callbacks)[1] = kind /\ pc[GUI] = "idle"
  BY DEF QueueTypes, Due
<1>2. Head(callbacks) \in Callback
  BY <1>1, TailOf
<1> QED
  BY <1>1, <1>2, CallbackIs

LEMMA FlagStep == FlagTypes /\ QueueTypes /\ Next => FlagTypes'
<1> SUFFICES ASSUME FlagTypes, QueueTypes, Next PROVE FlagTypes'
  OBVIOUS
<1> USE DEF state, sockets, dashboard
<1>1. ASSUME NEW t \in Threads, HandleDisconnect(t) PROVE FlagTypes'
  BY <1>1 DEF FlagTypes, HandleDisconnect, StopReceiving, MarkDisconnected, CloseSocket,
              ClearSocket, NotifyLost, Notify
<1>2. CASE Show
  <2>1. UNCHANGED <<state, sockets, stale>> /\ shown' = Head(callbacks)[2] /\ Due("connection")
    BY <1>2 DEF Show
  <2>2. shown' \in BOOLEAN
    BY <2>1, HeadIs, Kinds
  <2> QED
    BY <2>1, <2>2 DEF FlagTypes
<1>3. CASE ShowAlert \/ HandshakeDone \/ HandshakeFails \/ NotifyUp \/ SendCommand
  BY <1>3 DEF FlagTypes, ShowAlert, HandshakeDone, HandshakeFails, NotifyUp, SendCommand, Notify
<1>4. CASE Disconnect \/ ClickDisconnect \/ ClickCommand
  BY <1>4 DEF FlagTypes, Disconnect, SendQuit, CloseSocket, ClearSocket, Down, Notify,
              ClickDisconnect, ClickCommand
<1>5. ASSUME NEW k \in Socks, StartReceiver(k) \/ ClickConnect(k) \/ ServerCloses(k) PROVE FlagTypes'
  BY <1>5 DEF FlagTypes, StartReceiver, ClickConnect, ServerCloses
<1>6. ASSUME NEW k \in Socks, Receiver(k) PROVE FlagTypes'
  BY <1>6 DEF FlagTypes, Receiver, Loop, EnterRecv, RecvData, RecvAlert, NotifyAlert, RecvTimeout, RecvEnd, LogLoss
<1> QED
  BY <1>1, <1>2, <1>3, <1>4, <1>5, <1>6 DEF Next, Gui

-----------------------------------------------------------------------------
(* What a step does to the callbacks and to the alerts *)

SameHands == \A k \in Socks : (pc'[k] = "alert") <=> (pc[k] = "alert")

Announces ==
  /\ UNCHANGED panel /\ SameHands
  /\ \E v \in BOOLEAN : callbacks' = Append(callbacks, Connection(v))

RunsConnection ==
  /\ UNCHANGED panel /\ SameHands
  /\ callbacks # <<>> /\ callbacks' = Tail(callbacks)
  /\ \E v \in BOOLEAN : Head(callbacks) = Connection(v)

\* A thread moves, but neither to an alert nor from one.
LEMMA NoHand ==
  ASSUME PcTypes, NEW t \in Threads, NEW to, to # "alert", pc[t] # "alert",
         pc' = [pc EXCEPT ![t] = to]
  PROVE  SameHands
  BY PcSets DEF SameHands, PcTypes

LEMMA HandlingPanel ==
  ASSUME PcTypes, NEW t \in Threads, HandleDisconnect(t)
  PROVE  (UNCHANGED <<callbacks, panel>> /\ SameHands) \/ Announces
<1> USE DEF dashboard
<1>1. CASE NotifyLost(t)
  <2>1. SameHands
    BY <1>1, NoHand DEF NotifyLost, Goes, Returned
  <2>2. UNCHANGED panel /\ callbacks' = Append(callbacks, Connection(FALSE))
    BY <1>1 DEF NotifyLost, Notify, Connection
  <2> QED
    BY <2>1, <2>2 DEF Announces
<1>2. CASE StopReceiving(t) \/ MarkDisconnected(t) \/ ClearSocket(t, "clear", "notify")
           \/ CloseSocket(t, "close", "clear", "notify")
  <2>1. UNCHANGED <<callbacks, panel>> /\ pc[t] # "alert"
    BY <1>2 DEF StopReceiving, MarkDisconnected, ClearSocket, CloseSocket
  <2>2. \E to \in {"disconnected", "close", "clear", "notify"} : pc' = [pc EXCEPT ![t] = to]
    BY <1>2 DEF StopReceiving, MarkDisconnected, ClearSocket, CloseSocket, Goes
  <2> QED
    BY <2>1, <2>2, NoHand
<1> QED
  BY <1>1, <1>2 DEF HandleDisconnect

LEMMA GuiPanel ==
  ASSUME PcTypes, QueueTypes,
         Gui \/ ClickDisconnect \/ ClickCommand \/ \E k \in Socks : ClickConnect(k)
  PROVE  \/ UNCHANGED <<callbacks, panel>> /\ SameHands
         \/ Announces \/ RunsConnection \/ ShowAlert
<1> USE DEF dashboard
<1>0. GUI \in Threads /\ pc[GUI] # "alert"
  BY PcSets DEF PcTypes
<1>1. CASE Show
  <2>1. UNCHANGED <<panel, pc>> /\ callbacks' = Tail(callbacks) /\ Due("connection")
    BY <1>1 DEF Show
  <2> QED
    BY <2>1, HeadIs DEF RunsConnection, SameHands
<1>2. CASE NotifyUp \/ Down
  <2>1. \E to \in {"start", "idle"} : pc' = [pc EXCEPT ![GUI] = to]
    BY <1>2 DEF NotifyUp, Down, Goes
  <2>2. UNCHANGED panel /\ \E v \in BOOLEAN : callbacks' = Append(callbacks, Connection(v))
    BY <1>2 DEF NotifyUp, Down, Notify, Connection
  <2> QED
    BY <1>0, <2>1, <2>2, NoHand DEF Announces
<1>3. CASE HandshakeDone \/ HandshakeFails \/ ClickDisconnect \/ ClickCommand
           \/ \E k \in Socks : ClickConnect(k)
  <2>1. \E to \in {"up", "idle", "quit", "send", "handshake"} : pc' = [pc EXCEPT ![GUI] = to]
    BY <1>3 DEF HandshakeDone, HandshakeFails, ClickDisconnect, ClickCommand, ClickConnect, Goes
  <2>2. UNCHANGED <<callbacks, panel>>
    BY <1>3 DEF HandshakeDone, HandshakeFails, ClickDisconnect, ClickCommand, ClickConnect
  <2> QED
    BY <1>0, <2>1, <2>2, NoHand
<1>4. CASE SendQuit \/ CloseSocket(GUI, "quitClose", "quitClear", "down")
           \/ ClearSocket(GUI, "quitClear", "down") \/ SendCommand
  <2>1. \E to \in {"quitClose", "quitClear", "down", "idle", "stopReceiving"} :
           pc' = [pc EXCEPT ![GUI] = to]
    BY <1>4 DEF SendQuit, CloseSocket, ClearSocket, SendCommand, Goes
  <2>2. UNCHANGED <<callbacks, panel>>
    BY <1>4 DEF SendQuit, CloseSocket, ClearSocket, SendCommand
  <2> QED
    BY <1>0, <2>1, <2>2, NoHand
<1>5. ASSUME NEW k \in Socks, StartReceiver(k) PROVE UNCHANGED <<callbacks, panel>> /\ SameHands
  BY <1>5, PcSets DEF StartReceiver, SameHands, PcTypes
<1> QED
  BY <1>1, <1>2, <1>3, <1>4, <1>5 DEF Gui, Disconnect

LEMMA ReceiverPanel ==
  ASSUME PcTypes, NEW k \in Socks, Receiver(k)
  PROVE  \/ UNCHANGED <<callbacks, panel>> /\ SameHands
         \/ RecvAlert(k) \/ NotifyAlert(k)
<1> USE DEF dashboard
<1>1. CASE Loop(k) \/ EnterRecv(k) \/ RecvData(k) \/ RecvTimeout(k) \/ RecvEnd(k) \/ LogLoss(k)
  <2>1. UNCHANGED <<callbacks, panel>> /\ pc[k] # "alert"
    BY <1>1 DEF Loop, EnterRecv, RecvData, RecvTimeout, RecvEnd, LogLoss, InRecv
  <2>2. \E to \in {"recv", "done", "lost", "blocked", "timed", "loop", "stopReceiving"} :
           pc' = [pc EXCEPT ![k] = to]
    BY <1>1 DEF Loop, EnterRecv, RecvData, RecvTimeout, RecvEnd, LogLoss, Goes, Exception
  <2> QED
    BY <2>1, <2>2, NoHand, PcSets
<1> QED
  BY <1>1 DEF Receiver

\* Every step, seen from the dashboard's alerts.
LEMMA PanelSteps ==
  ASSUME Types, Next
  PROVE  \/ UNCHANGED <<callbacks, panel>> /\ SameHands
         \/ Announces \/ RunsConnection \/ ShowAlert
         \/ \E k \in Socks : RecvAlert(k) \/ NotifyAlert(k)
<1>1. PcTypes /\ QueueTypes
  BY TypeParts DEF Types
<1>2. ASSUME NEW k \in Socks, ServerCloses(k) PROVE UNCHANGED <<callbacks, panel>> /\ SameHands
  BY <1>2 DEF ServerCloses, dashboard, SameHands
<1> QED
  BY <1>1, <1>2, HandlingPanel, GuiPanel, ReceiverPanel DEF Next

\* The GUI thread that is not in its event loop has room for its callback.
AtEase == pc[GUI] \in {"idle", "start"}

RoomKept ==
  \/ UNCHANGED callbacks /\ (AtEase' \/ ~ AtEase \/ Len(callbacks) < MaxQueue)
  \/ AtEase' /\ callbacks # <<>> /\ callbacks' = Tail(callbacks)
  \/ AtEase' /\ Len(callbacks) < MaxQueue /\ \E e : callbacks' = Append(callbacks, e)

\* A step of a receiver leaves the GUI thread where it is.
LEMMA GuiStays ==
  ASSUME PcTypes, NEW k \in Socks, NEW to, pc' = [pc EXCEPT ![k] = to]
  PROVE  pc'[GUI] = pc[GUI] /\ (AtEase' <=> AtEase)
  BY PcSets DEF PcTypes, AtEase

LEMMA HandlingRoom ==
  ASSUME PcTypes, Room, NEW t \in Threads, HandleDisconnect(t)
  PROVE  RoomKept
<1> USE DEF dashboard
<1>1. CASE NotifyLost(t)
  <2>1. callbacks' = Append(callbacks, Connection(FALSE)) /\ pc' = [pc EXCEPT ![t] = Returned(t)]
    BY <1>1 DEF NotifyLost, Notify, Connection, Goes
  <2>2. Len(callbacks) < MaxQueue
    BY <1>1 DEF NotifyLost, MayNotify, Room
  <2>3. AtEase'
    <3>1. CASE t = GUI
      BY <2>1, <3>1, PcSets DEF Returned, AtEase, PcTypes
    <3>2. CASE t # GUI
      BY <1>1, <2>1, <3>2, GuiStays DEF NotifyLost, MayNotify, AtEase, Threads
    <3> QED
      BY <3>1, <3>2
  <2> QED
    BY <2>1, <2>2, <2>3 DEF RoomKept
<1>2. CASE StopReceiving(t) \/ MarkDisconnected(t) \/ ClearSocket(t, "clear", "notify")
           \/ CloseSocket(t, "close", "clear", "notify")
  <2>1. UNCHANGED callbacks /\ pc[t] \in Handling
    BY <1>2 DEF StopReceiving, MarkDisconnected, ClearSocket, CloseSocket, Handling
  <2>2. \E to : pc' = [pc EXCEPT ![t] = to]
    BY <1>2 DEF StopReceiving, MarkDisconnected, ClearSocket, CloseSocket, Goes
  <2>3. CASE t = GUI
    BY <2>1, <2>3 DEF RoomKept, AtEase, Handling
  <2>4. CASE t # GUI
    BY <2>1, <2>2, <2>4, GuiStays DEF RoomKept, Threads
  <2> QED
    BY <2>3, <2>4
<1> QED
  BY <1>1, <1>2 DEF HandleDisconnect

LEMMA GuiRoom ==
  ASSUME PcTypes, Room,
         Gui \/ ClickDisconnect \/ ClickCommand \/ \E k \in Socks : ClickConnect(k)
  PROVE  RoomKept
<1> USE DEF dashboard
<1>0. GUI \in DOMAIN pc
  BY PcSets DEF PcTypes
<1>1. CASE Show \/ ShowAlert
  BY <1>1 DEF Show, ShowAlert, Due, RoomKept, AtEase
<1>2. CASE NotifyUp \/ Down
  <2>1. pc'[GUI] \in {"start", "idle"} /\ pc[GUI] \notin {"start", "idle"}
    BY <1>0, <1>2 DEF NotifyUp, Down, Goes
  <2>2. \E v : callbacks' = Append(callbacks, v)
    BY <1>2 DEF NotifyUp, Down, Notify
  <2> QED
    BY <2>1, <2>2 DEF RoomKept, AtEase, Room
<1>3. CASE HandshakeDone \/ HandshakeFails \/ SendQuit \/ SendCommand
           \/ CloseSocket(GUI, "quitClose", "quitClear", "down")
           \/ ClearSocket(GUI, "quitClear", "down")
  BY <1>3 DEF HandshakeDone, HandshakeFails, SendQuit, SendCommand, CloseSocket, ClearSocket,
              RoomKept, AtEase
<1>4. CASE ClickDisconnect \/ ClickCommand \/ \E k \in Socks : ClickConnect(k)
  BY <1>4 DEF ClickDisconnect, ClickCommand, ClickConnect, MayClick, RoomKept
<1>5. ASSUME NEW k \in Socks, StartReceiver(k) PROVE RoomKept
  <2>1. AtEase'
    BY <1>0, <1>5, PcSets DEF StartReceiver, AtEase
  <2> QED
    BY <1>5, <2>1 DEF StartReceiver, RoomKept
<1> QED
  BY <1>1, <1>2, <1>3, <1>4, <1>5 DEF Gui, Disconnect

LEMMA ReceiverRoom ==
  ASSUME PcTypes, NEW k \in Socks, Receiver(k) \/ ServerCloses(k)
  PROVE  RoomKept
<1> USE DEF dashboard
<1>1. CASE Loop(k) \/ EnterRecv(k) \/ RecvData(k) \/ RecvAlert(k) \/ RecvTimeout(k)
           \/ RecvEnd(k) \/ LogLoss(k)
  <2>1. UNCHANGED callbacks
    BY <1>1 DEF Loop, EnterRecv, RecvData, RecvAlert, RecvTimeout, RecvEnd, LogLoss
  <2>2. \E to : pc' = [pc EXCEPT ![k] = to]
    BY <1>1 DEF Loop, EnterRecv, RecvData, RecvAlert, RecvTimeout, RecvEnd, LogLoss, Goes
  <2> QED
    BY <2>1, <2>2, GuiStays DEF RoomKept
<1>2. CASE NotifyAlert(k)
  <2>1. /\ callbacks' = Append(callbacks, <<"alert", got[k]>>)
        /\ pc' = [pc EXCEPT ![k] = "loop"]
        /\ pc[GUI] = "idle" /\ Len(callbacks) < MaxQueue
    BY <1>2, PcSets DEF NotifyAlert, MayNotify, Goes
  <2> QED
    BY <2>1, GuiStays DEF RoomKept, AtEase
<1>3. CASE ServerCloses(k)
  BY <1>3 DEF ServerCloses, RoomKept, AtEase
<1> QED
  BY <1>1, <1>2, <1>3 DEF Receiver

LEMMA RoomSteps == ASSUME PcTypes, Room, Next PROVE RoomKept
  BY HandlingRoom, GuiRoom, ReceiverRoom DEF Next

-----------------------------------------------------------------------------
(* Types, continued *)

LEMMA WiderSeq ==
  ASSUME NEW S, NEW T, S \subseteq T, NEW q \in Seq(S)
  PROVE  q \in Seq(T)
  OBVIOUS

\* What is left of a list is its end.
LEMMA TrimmedIs ==
  ASSUME NEW S, NEW list \in Seq(S)
  PROVE  /\ A!Trimmed(list) \in Seq(S) /\ Len(A!Trimmed(list)) \in 0 .. Len(list)
         /\ \A i \in 1 .. Len(A!Trimmed(list)) :
              /\ (Len(list) - Len(A!Trimmed(list))) + i \in 1 .. Len(list)
              /\ A!Trimmed(list)[i] = list[(Len(list) - Len(A!Trimmed(list))) + i]
<1> DEFINE from == (Len(list) - MaxHistory) + 1
           end == SubSeq(list, from, Len(list))
<1>1. Len(list) \in Nat /\ MaxHistory \in Nat \ {0}
  BY BoundsAssumption
<1>2. CASE ~ Len(list) > MaxHistory
  BY <1>1, <1>2 DEF A!Trimmed
<1>3. CASE Len(list) > MaxHistory
  <2>1. A!Trimmed(list) = end
    BY <1>3 DEF A!Trimmed
  <2>2. from \in 1 .. Len(list)
    BY <1>1, <1>3
  <2>3. /\ end \in Seq(S) /\ Len(end) = (Len(list) - from) + 1
        /\ \A i \in 1 .. (Len(list) - from) + 1 : end[i] = list[from + i - 1]
    BY <1>1, <2>2, SubSeqProperties
  <2> HIDE DEF end
  <2>4. Len(end) = MaxHistory
    BY <1>1, <2>3
  <2>5. ASSUME NEW i \in 1 .. Len(end)
        PROVE  /\ (Len(list) - Len(end)) + i \in 1 .. Len(list)
               /\ end[i] = list[(Len(list) - Len(end)) + i]
    <3>1. from + i - 1 = (Len(list) - Len(end)) + i /\ from + i - 1 \in 1 .. Len(list)
      BY <1>1, <1>3, <2>4
    <3>2. i \in 1 .. (Len(list) - from) + 1
      BY <2>3
    <3> QED
      BY <2>3, <3>1, <3>2
  <2> QED
    BY <1>1, <1>3, <2>1, <2>3, <2>4, <2>5
<1> QED
  BY <1>2, <1>3

\* Alert n is stored as the newest.
LEMMA AddAlertIs ==
  ASSUME PanelTypes, A!AddAlert
  PROVE  /\ total' = total + 1 /\ total \in Nat
         /\ kept' \in Seq(1 .. total') /\ Len(kept') \in 0 .. Len(kept) + 1
         /\ \A i \in 1 .. Len(kept') :
              \/ i = Len(kept') /\ kept'[i] = total'
              \/ /\ ((Len(kept) + 1) - Len(kept')) + i \in 1 .. Len(kept)
                 /\ kept'[i] = kept[((Len(kept) + 1) - Len(kept')) + i]
<1> DEFINE list == Append(kept, total + 1)
<1>1. total \in Nat /\ total' = total + 1 /\ kept' = A!Trimmed(list)
  BY BoundsAssumption DEF PanelTypes, A!AddAlert
<1>2. kept \in Seq(1 .. total + 1) /\ total + 1 \in 1 .. total + 1
  <2>1. 1 .. total \subseteq 1 .. total + 1
    BY <1>1
  <2> QED
    BY <1>1, <2>1, WiderSeq DEF PanelTypes
<1>3. /\ list \in Seq(1 .. total + 1) /\ Len(list) = Len(kept) + 1 /\ Len(kept) \in Nat
      /\ list[Len(kept) + 1] = total + 1 /\ \A i \in 1 .. Len(kept) : list[i] = kept[i]
  BY <1>2, Appended
<1> HIDE DEF list
<1>4. /\ kept' \in Seq(1 .. total + 1) /\ Len(kept') \in 0 .. Len(list)
      /\ \A i \in 1 .. Len(kept') : /\ (Len(list) - Len(kept')) + i \in 1 .. Len(list)
                                    /\ kept'[i] = list[(Len(list) - Len(kept')) + i]
  BY <1>1, <1>3, TrimmedIs
<1>5. ASSUME NEW i \in 1 .. Len(kept')
      PROVE  \/ i = Len(kept') /\ kept'[i] = total'
             \/ /\ ((Len(kept) + 1) - Len(kept')) + i \in 1 .. Len(kept)
                /\ kept'[i] = kept[((Len(kept) + 1) - Len(kept')) + i]
  <2> DEFINE j == ((Len(kept) + 1) - Len(kept')) + i
  <2>1. j \in 1 .. Len(kept) + 1 /\ kept'[i] = list[j]
    BY <1>3, <1>4
  <2>2. j = Len(kept) + 1 => i = Len(kept')
    BY <1>3, <1>4
  <2> HIDE DEF j
  <2>3. CASE j = Len(kept) + 1
    BY <1>1, <1>3, <2>1, <2>2, <2>3
  <2>4. CASE j \in 1 .. Len(kept)
    BY <1>3, <2>1, <2>4 DEF j
  <2> QED
    BY <1>3, <2>1, <2>3, <2>4
<1> QED
  BY <1>1, <1>3, <1>4, <1>5

LEMMA SameCallback == UNCHANGED total => Callback' = Callback
  BY DEF Callback

LEMMA ConnectionIsCallback == \A v \in BOOLEAN : Connection(v) \in Callback
  BY DEF Callback, Connection

LEMMA AlertIsCallback == \A n \in 1 .. total : AlertOf(n) \in Callback
  BY DEF Callback, AlertOf

\* How many callbacks wait, in whatever way they have changed.
LEMMA QueueLength ==
  ASSUME QueueTypes, Room, RoomKept
  PROVE  Len(callbacks') <= MaxQueue /\ (~ AtEase' => Len(callbacks') < MaxQueue)
<1>0. callbacks \in Seq(Callback) /\ Len(callbacks) \in Nat /\ MaxQueue \in Nat
  BY BoundsAssumption DEF QueueTypes
<1>1. CASE UNCHANGED callbacks /\ (AtEase' \/ ~ AtEase \/ Len(callbacks) < MaxQueue)
  BY <1>1 DEF QueueTypes, Room, AtEase
<1>2. CASE AtEase' /\ callbacks # <<>> /\ callbacks' = Tail(callbacks)
  <2>1. Len(callbacks') = Len(callbacks) - 1
    BY <1>0, <1>2, TailOf
  <2> QED
    BY <1>0, <1>2, <2>1 DEF QueueTypes
<1>3. ASSUME NEW e, callbacks' = Append(callbacks, e), AtEase', Len(callbacks) < MaxQueue
      PROVE  Len(callbacks') <= MaxQueue
  <2>1. Len(callbacks') = Len(callbacks) + 1
    BY <1>0, <1>3
  <2> QED
    BY <1>0, <1>3, <2>1
<1> QED
  BY <1>1, <1>2, <1>3 DEF RoomKept

HandsHold == \A k \in Socks : pc[k] = "alert" => got[k] \in 1 .. total

CallbackTypes == callbacks \in Seq(Callback)

LEMMA TypesAre ==
  Types <=> /\ PcTypes /\ FlagTypes /\ PanelTypes /\ Room /\ HandsHold
            /\ CallbackTypes /\ Len(callbacks) <= MaxQueue
  BY TypeParts DEF Types, QueueTypes, CallbackTypes, HandsHold

LEMMA TypesArePrimed ==
  ASSUME PcTypes', FlagTypes', PanelTypes', Room', HandsHold', CallbackTypes',
         Len(callbacks') <= MaxQueue
  PROVE  Types'
  BY DEF Types, TypeOK, PcTypes, FlagTypes, PanelTypes, GuiPcs, ReceiverPcs, Callback, HandsHold,
         CallbackTypes

LEMMA TypesStep == ASSUME Types, Next PROVE Types'
<1>1. PcTypes /\ FlagTypes /\ QueueTypes /\ PanelTypes /\ Room
  BY TypeParts DEF Types
<1>2. PcTypes' /\ FlagTypes'
  BY <1>1, PcStep, FlagStep
<1>3. Len(callbacks') <= MaxQueue /\ Room'
  <2>1. Len(callbacks') <= MaxQueue /\ (~ AtEase' => Len(callbacks') < MaxQueue)
    BY <1>1, RoomSteps, QueueLength
  <2> QED
    BY <2>1 DEF Room, AtEase
<1>4. ASSUME UNCHANGED panel, SameHands, callbacks' \in Seq(Callback)
      PROVE  CallbackTypes' /\ PanelTypes' /\ HandsHold'
  <2>1. CallbackTypes' /\ UNCHANGED <<got, total>>
    BY <1>4, SameCallback DEF panel, CallbackTypes
  <2>2. PanelTypes'
    BY <1>1, <1>4 DEF PanelTypes, panel
  <2>3. HandsHold'
    BY <1>4, <2>1 DEF Types, SameHands, HandsHold
  <2> QED
    BY <2>1, <2>2, <2>3
<1>5. ASSUME UNCHANGED <<callbacks, panel>>, SameHands PROVE CallbackTypes' /\ PanelTypes' /\ HandsHold'
  BY <1>1, <1>4, <1>5 DEF QueueTypes
<1>6. ASSUME Announces PROVE CallbackTypes' /\ PanelTypes' /\ HandsHold'
  <2>1. callbacks' \in Seq(Callback)
    BY <1>1, <1>6, ConnectionIsCallback, Appended DEF Announces, QueueTypes
  <2> QED
    BY <1>4, <1>6, <2>1 DEF Announces
<1>7. ASSUME RunsConnection PROVE CallbackTypes' /\ PanelTypes' /\ HandsHold'
  <2>1. callbacks' \in Seq(Callback)
    BY <1>1, <1>7, TailOf DEF RunsConnection, QueueTypes
  <2> QED
    BY <1>4, <1>7, <2>1 DEF RunsConnection
<1>8. ASSUME ShowAlert PROVE CallbackTypes' /\ PanelTypes' /\ HandsHold'
  <2>1. /\ Due("alert") /\ rows' = Append(rows, Head(callbacks)[2]) /\ label' = total
        /\ callbacks' = Tail(callbacks) /\ UNCHANGED <<pc, kept, total, got>>
    BY <1>8 DEF ShowAlert
  <2>2. PICK n \in 1 .. total : Head(callbacks) = AlertOf(n)
    BY <1>1, <2>1, HeadIs
  <2>3. CallbackTypes'
    BY <1>1, <2>1, HeadIs, TailOf, SameCallback DEF QueueTypes, CallbackTypes
  <2>4. rows' \in Seq(1 .. total)
    <3>1. rows' = Append(rows, n)
      BY <2>1, <2>2, Kinds
    <3> QED
      BY <1>1, <3>1, Appended DEF PanelTypes
  <2>5. total \in 0 .. total
    BY <1>1, BoundsAssumption DEF PanelTypes
  <2>6. PanelTypes'
    BY <1>1, <2>1, <2>4, <2>5 DEF PanelTypes
  <2>7. HandsHold'
    BY <2>1 DEF Types, HandsHold
  <2> QED
    BY <2>3, <2>6, <2>7
<1>9. ASSUME NEW k \in Socks, RecvAlert(k) PROVE CallbackTypes' /\ PanelTypes' /\ HandsHold'
  <2>1. /\ A!AddAlert /\ got' = [got EXCEPT ![k] = total'] /\ total < MaxAlerts
        /\ UNCHANGED <<callbacks, rows, label>> /\ pc' = [pc EXCEPT ![k] = "alert"]
    BY <1>9 DEF RecvAlert, Goes
  <2>2. /\ total' = total + 1 /\ total \in Nat /\ kept' \in Seq(1 .. total')
    BY <1>1, <2>1, AddAlertIs
  <2>3. 1 .. total \subseteq 1 .. total' /\ 0 .. total \subseteq 0 .. total' /\ total' \in 1 .. total'
    BY <2>2
  <2>4. total' \in 0 .. MaxAlerts
    BY <2>1, <2>2, BoundsAssumption
  <2>5. label' \in 0 .. total' /\ rows' \in Seq(1 .. total')
    BY <1>1, <2>1, <2>3, WiderSeq DEF PanelTypes
  <2>6. got' \in [Socks -> 0 .. total']
    BY <1>1, <2>1, <2>3 DEF PanelTypes
  <2>7. PanelTypes'
    BY <2>2, <2>4, <2>5, <2>6 DEF PanelTypes
  <2>8. CallbackTypes'
    <3>1. Callback \subseteq Callback'
      BY <2>3 DEF Callback
    <3> QED
      BY <1>1, <2>1, <3>1, WiderSeq DEF QueueTypes, CallbackTypes
  <2>9. ASSUME NEW j \in Socks, pc'[j] = "alert" PROVE got'[j] \in 1 .. total'
    <3>1. CASE j = k
      BY <1>1, <2>1, <2>3, <3>1 DEF PanelTypes
    <3>2. CASE j # k
      <4>1. pc[j] = "alert" /\ got'[j] = got[j]
        BY <1>1, <2>1, <2>9, <3>2 DEF PanelTypes, PcTypes
      <4> QED
        BY <2>3, <4>1 DEF Types
    <3> QED
      BY <3>1, <3>2
  <2> QED
    BY <2>7, <2>8, <2>9 DEF HandsHold
<1>10. ASSUME NEW k \in Socks, NotifyAlert(k) PROVE CallbackTypes' /\ PanelTypes' /\ HandsHold'
  <2>1. /\ callbacks' = Append(callbacks, AlertOf(got[k])) /\ UNCHANGED panel
        /\ pc[k] = "alert" /\ pc' = [pc EXCEPT ![k] = "loop"]
    BY <1>10 DEF NotifyAlert, Goes, AlertOf
  <2>2. CallbackTypes'
    <3>1. AlertOf(got[k]) \in Callback
      BY <2>1, AlertIsCallback DEF Types
    <3> QED
      BY <1>1, <2>1, <3>1, Appended, SameCallback DEF QueueTypes, CallbackTypes, panel
  <2>3. PanelTypes' /\ UNCHANGED <<got, total>>
    BY <1>1, <2>1 DEF PanelTypes, panel
  <2>4. \A j \in Socks : pc'[j] = "alert" => pc[j] = "alert"
    BY <1>1, <2>1 DEF PcTypes
  <2> QED
    BY <2>2, <2>3, <2>4 DEF Types, HandsHold
<1>11. CallbackTypes' /\ PanelTypes' /\ HandsHold'
  BY <1>5, <1>6, <1>7, <1>8, <1>9, <1>10, PanelSteps
<1> QED
  BY <1>2, <1>3, <1>11, TypesArePrimed

-----------------------------------------------------------------------------
(* The alerts, step by step *)

\* Only numbers of alerts are on the way or in the list.
LEMMA PlacesAre ==
  ASSUME Types, NEW n
  PROVE  /\ Queued(callbacks, n) => n \in 1 .. total
         /\ InHand(n) => n \in 1 .. total
         /\ Listed(n) => n \in 1 .. total
<1>1. PanelTypes /\ HandsHold /\ CallbackTypes
  BY TypesAre
<1>2. ASSUME Queued(callbacks, n) PROVE n \in 1 .. total
  <2>1. PICK i \in 1 .. Len(callbacks) : callbacks[i] = AlertOf(n)
    BY <1>2 DEF Queued
  <2>2. AlertOf(n) \in Callback
    BY <1>1, <2>1 DEF CallbackTypes
  <2> QED
    BY <2>2, CallbackIs, Kinds
<1>3. InHand(n) => n \in 1 .. total
  BY <1>1 DEF InHand, HandsHold
<1>4. Listed(n) => n \in 1 .. total
  BY <1>1 DEF Listed, PanelTypes
<1> QED
  BY <1>2, <1>3, <1>4

\* The alerts are where they were.
SamePlaces ==
  /\ UNCHANGED panel /\ SameHands
  /\ OnceIn(callbacks')
  /\ Ascending(callbacks) => Ascending(callbacks')
  /\ \A n : Queued(callbacks', n) <=> Queued(callbacks, n)

LEMMA AnnouncesPlaces == ASSUME Types, Once, Announces PROVE SamePlaces
<1>1. CallbackTypes
  BY TypesAre
<1>2. PICK v \in BOOLEAN : callbacks' = Append(callbacks, Connection(v))
  BY DEF Announces
<1>3. Connection(v) \in Callback /\ \A n : Connection(v) # AlertOf(n)
  BY ConnectionIsCallback, Kinds
<1>4. OnceIn(callbacks')
  BY <1>1, <1>2, <1>3, AppendOnce DEF CallbackTypes, Once
<1>5. Ascending(callbacks) => Ascending(callbacks')
  BY <1>1, <1>2, <1>3, AppendAscending DEF CallbackTypes
<1>6. ASSUME NEW n PROVE Queued(callbacks', n) <=> Queued(callbacks, n)
  BY <1>1, <1>2, <1>3, AppendQueued DEF CallbackTypes
<1> QED
  BY <1>4, <1>5, <1>6 DEF Announces, SamePlaces

LEMMA RunsPlaces == ASSUME Types, Once, RunsConnection PROVE SamePlaces
<1>1. CallbackTypes
  BY TypesAre
<1>2. PICK v \in BOOLEAN : Head(callbacks) = Connection(v)
  BY DEF RunsConnection
<1>3. callbacks # <<>> /\ callbacks' = Tail(callbacks) /\ \A n : Connection(v) # AlertOf(n)
  BY Kinds DEF RunsConnection
<1>4. OnceIn(callbacks')
  BY <1>1, <1>3, TailOnce DEF CallbackTypes, Once
<1>5. Ascending(callbacks) => Ascending(callbacks')
  BY <1>1, <1>3, TailAscending DEF CallbackTypes
<1>6. ASSUME NEW n PROVE Queued(callbacks', n) <=> Queued(callbacks, n)
  BY <1>1, <1>2, <1>3, TailQueued DEF CallbackTypes
<1> QED
  BY <1>4, <1>5, <1>6 DEF RunsConnection, SamePlaces

LEMMA UnchangedPlaces == ASSUME Once, UNCHANGED <<callbacks, panel>>, SameHands PROVE SamePlaces
  BY DEF SamePlaces, Once

LEMMA SamePlacesPanel == ASSUME Panel, SamePlaces PROVE Panel' /\ (InOrder => InOrder')
<1>1. /\ UNCHANGED <<rows, label, kept, total, got>> /\ SameHands /\ OnceIn(callbacks')
      /\ Ascending(callbacks) => Ascending(callbacks')
  BY DEF SamePlaces, panel
<1>2. \A n : /\ Queued(callbacks', n) <=> Queued(callbacks, n)
             /\ InHand(n)' <=> InHand(n)
             /\ Listed(n)' <=> Listed(n)
  BY <1>1 DEF SamePlaces, InHand, Listed, SameHands
<1>3. Everywhere'
  BY <1>1, <1>2 DEF Panel, Everywhere
<1>4. Once'
  <2>1. \A j, k \in Socks : pc'[j] = "alert" /\ pc'[k] = "alert" /\ got'[j] = got'[k] => j = k
    BY <1>1 DEF Panel, Once, SameHands
  <2>2. \A n \in Nat : /\ ~ (Listed(n)' /\ Queued(callbacks', n))
                       /\ ~ (Listed(n)' /\ InHand(n)')
                       /\ ~ (Queued(callbacks', n) /\ InHand(n)')
    BY <1>2 DEF Panel, Once
  <2>3. \A i, j \in 1 .. Len(rows') : rows'[i] = rows'[j] => i = j
    BY <1>1 DEF Panel, Once
  <2> QED
    BY <1>1, <2>1, <2>2, <2>3 DEF Once
<1>5. Labelled'
  BY <1>1, <1>2 DEF Panel, Labelled
<1>6. Remembered'
  BY <1>1 DEF Panel, Remembered
<1>7. ASSUME InOrder PROVE InOrder'
  BY <1>1, <1>2, <1>7 DEF InOrder
<1> QED
  BY <1>3, <1>4, <1>5, <1>6, <1>7 DEF Panel

\* An alert goes from the callbacks to the list.
LEMMA ShowPlaces ==
  ASSUME Types, Once, ShowAlert
  PROVE  \E n \in 1 .. total :
           /\ UNCHANGED <<pc, kept, total, got>> /\ label' = total
           /\ rows' = Append(rows, n) /\ OnceIn(callbacks')
           /\ Ascending(callbacks) =>
                Ascending(callbacks') /\ \A m \in Nat : Queued(callbacks', m) => n < m
           /\ Queued(callbacks, n) /\ ~ Queued(callbacks', n)
           /\ \A m : Queued(callbacks, m) <=> Queued(callbacks', m) \/ m = n
<1>1. CallbackTypes /\ QueueTypes
  BY TypesAre DEF QueueTypes, CallbackTypes
<1>2. /\ Due("alert") /\ rows' = Append(rows, Head(callbacks)[2]) /\ label' = total
      /\ callbacks' = Tail(callbacks) /\ UNCHANGED <<pc, kept, total, got>>
  BY DEF ShowAlert
<1>3. PICK n \in 1 .. total : Head(callbacks) = AlertOf(n)
  BY <1>1, <1>2, HeadIs
<1>4. callbacks # <<>> /\ n \in Nat /\ rows' = Append(rows, n)
  BY <1>1, <1>2, <1>3, HeadIs, Kinds
<1>5. OnceIn(callbacks') /\ ~ Queued(callbacks', n)
  BY <1>1, <1>2, <1>3, <1>4, TailOnce DEF CallbackTypes, Once
<1>6. ASSUME NEW m PROVE Queued(callbacks, m) <=> Queued(callbacks', m) \/ m = n
  BY <1>1, <1>2, <1>3, <1>4, TailQueued, SameAlert DEF CallbackTypes
<1>7. ASSUME Ascending(callbacks)
      PROVE  Ascending(callbacks') /\ \A m \in Nat : Queued(callbacks', m) => n < m
  BY <1>1, <1>2, <1>3, <1>4, <1>7, TailAscending DEF CallbackTypes
<1> QED
  BY <1>2, <1>4, <1>5, <1>6, <1>7

\* A list with one more number in it.
LEMMA ListedOnce ==
  ASSUME NEW S, NEW r \in Seq(S), NEW n \in S
  PROVE  LET new == Append(r, n) IN
         /\ \A m : (\E i \in 1 .. Len(new) : new[i] = m) <=> (\E i \in 1 .. Len(r) : r[i] = m) \/ m = n
         /\ (/\ \A i, j \in 1 .. Len(r) : r[i] = r[j] => i = j
             /\ \A i \in 1 .. Len(r) : r[i] # n) =>
              \A i, j \in 1 .. Len(new) : new[i] = new[j] => i = j
<1> DEFINE new == Append(r, n)
<1>1. /\ Len(new) = Len(r) + 1 /\ Len(r) \in Nat /\ new[Len(r) + 1] = n
      /\ \A i \in 1 .. Len(r) : new[i] = r[i]
  BY Appended
<1> HIDE DEF new
<1>2. ASSUME NEW m
      PROVE  (\E i \in 1 .. Len(new) : new[i] = m) <=> (\E i \in 1 .. Len(r) : r[i] = m) \/ m = n
  BY <1>1
<1>3. ASSUME \A i, j \in 1 .. Len(r) : r[i] = r[j] => i = j,
             \A i \in 1 .. Len(r) : r[i] # n,
             NEW i \in 1 .. Len(new), NEW j \in 1 .. Len(new), new[i] = new[j]
      PROVE  i = j
  BY <1>1, <1>3
<1> QED
  BY <1>2, <1>3 DEF new

LEMMA ShowPanel ==
  ASSUME Types, Panel, ShowAlert
  PROVE  Panel' /\ (InOrder => InOrder')
<1>1. PanelTypes /\ Once
  BY TypesAre DEF Panel
<1>2. PICK n \in 1 .. total :
           /\ UNCHANGED <<pc, kept, total, got>> /\ label' = total
           /\ rows' = Append(rows, n) /\ OnceIn(callbacks')
           /\ Ascending(callbacks) =>
                Ascending(callbacks') /\ \A m \in Nat : Queued(callbacks', m) => n < m
           /\ Queued(callbacks, n) /\ ~ Queued(callbacks', n)
           /\ \A m : Queued(callbacks, m) <=> Queued(callbacks', m) \/ m = n
  BY <1>1, ShowPlaces
<1>3. n \in Nat /\ ~ Listed(n) /\ ~ InHand(n)
  BY <1>1, <1>2 DEF Once
<1>4. /\ \A m : Listed(m)' <=> Listed(m) \/ m = n
      /\ \A i, j \in 1 .. Len(rows') : rows'[i] = rows'[j] => i = j
  <2>1. rows \in Seq(1 .. total) /\ rows' = Append(rows, n)
    BY <1>1, <1>2 DEF PanelTypes
  <2>2. /\ \A i, j \in 1 .. Len(rows) : rows[i] = rows[j] => i = j
        /\ \A i \in 1 .. Len(rows) : rows[i] # n
    BY <1>1, <1>3 DEF Listed, Once
  <2> QED
    BY <2>1, <2>2, ListedOnce DEF Listed
<1>5. \A m : InHand(m)' <=> InHand(m)
  BY <1>2 DEF InHand
<1>6. Everywhere'
  BY <1>2, <1>4, <1>5 DEF Panel, Everywhere
<1>7. Once'
  <2>1. \A j, k \in Socks : pc'[j] = "alert" /\ pc'[k] = "alert" /\ got'[j] = got'[k] => j = k
    BY <1>1, <1>2 DEF Once
  <2>2. \A m \in Nat : /\ ~ (Listed(m)' /\ Queued(callbacks', m))
                       /\ ~ (Listed(m)' /\ InHand(m)')
                       /\ ~ (Queued(callbacks', m) /\ InHand(m)')
    BY <1>1, <1>2, <1>3, <1>4, <1>5 DEF Once
  <2> QED
    BY <1>2, <1>4, <2>1, <2>2 DEF Once
<1>8. Labelled' /\ Remembered'
  BY <1>2 DEF Panel, Labelled, Remembered
<1>9. ASSUME InOrder PROVE InOrder'
  <2>1. /\ Len(rows') = Len(rows) + 1 /\ Len(rows) \in Nat /\ rows'[Len(rows) + 1] = n
        /\ \A i \in 1 .. Len(rows) : rows'[i] = rows[i]
    BY <1>1, <1>2, Appended DEF PanelTypes
  <2>2. Ascending(callbacks') /\ \A m \in Nat : Queued(callbacks', m) => n < m
    BY <1>2, <1>9 DEF InOrder
  <2>3. n > Len(rows) /\ \A m \in Nat : InHand(m) => n < m
    BY <1>2, <1>3, <1>9 DEF InOrder
  <2>4. n = Len(rows) + 1
    <3> DEFINE m == Len(rows) + 1
    <3>1. m \in 1 .. total /\ m \in Nat /\ m <= n
      BY <1>1, <2>1, <2>3 DEF PanelTypes
    <3>2. ~ Listed(m)
      BY <1>9, <2>1 DEF Listed, InOrder
    <3>3. Queued(callbacks, m) \/ InHand(m)
      BY <3>1, <3>2 DEF Panel, Everywhere
    <3> HIDE DEF m
    <3>4. m = n
      BY <1>2, <2>2, <2>3, <3>1, <3>3
    <3> QED
      BY <3>4 DEF m
  <2>5. \A i \in 1 .. Len(rows') : rows'[i] = i
    BY <1>9, <2>1, <2>4 DEF InOrder
  <2>6. /\ \A m \in Nat : Queued(callbacks', m) => m > Len(rows')
        /\ \A m \in Nat : InHand(m)' => m > Len(rows')
    BY <1>5, <2>1, <2>2, <2>3, <2>4
  <2>7. \A l, m \in Nat : Queued(callbacks', l) /\ InHand(m)' => l < m
    BY <1>2, <1>5, <1>9 DEF InOrder
  <2> QED
    BY <2>2, <2>5, <2>6, <2>7 DEF InOrder
<1> QED
  BY <1>6, <1>7, <1>8, <1>9 DEF Panel

\* A receiver stores an alert.
LEMMA StorePlaces ==
  ASSUME Types, NEW k \in Socks, RecvAlert(k)
  PROVE  /\ UNCHANGED <<callbacks, rows, label, stale>> /\ total \in Nat /\ total' = total + 1
         /\ ~ InHand(total') /\ ~ Listed(total') /\ ~ Queued(callbacks, total')
         /\ \A m : InHand(m)' <=> InHand(m) \/ m = total'
         /\ pc[k] # "alert"
         /\ \A j \in Socks : /\ (pc'[j] = "alert") <=> (pc[j] = "alert") \/ j = k
                            /\ got'[j] = IF j = k THEN total' ELSE got[j]
<1>1. PanelTypes /\ PcTypes
  BY TypesAre
<1>2. /\ A!AddAlert /\ got' = [got EXCEPT ![k] = total'] /\ pc[k] # "alert"
      /\ UNCHANGED <<callbacks, rows, label, stale>> /\ pc' = [pc EXCEPT ![k] = "alert"]
  BY DEF RecvAlert, Goes, InRecv
<1>3. total' = total + 1 /\ total \in Nat
  BY <1>1, <1>2, AddAlertIs
<1>4. ~ InHand(total') /\ ~ Listed(total') /\ ~ Queued(callbacks, total')
  <2>1. total' \notin 1 .. total
    BY <1>3
  <2> QED
    BY <2>1, PlacesAre
<1>5. \A j \in Socks : /\ (pc'[j] = "alert") <=> (pc[j] = "alert") \/ j = k
                      /\ got'[j] = IF j = k THEN total' ELSE got[j]
  BY <1>1, <1>2, PcSets DEF PanelTypes, PcTypes
<1>6. ASSUME NEW m PROVE InHand(m)' <=> InHand(m) \/ m = total'
  <2>1. ASSUME InHand(m)' PROVE InHand(m) \/ m = total'
    BY <1>5, <2>1 DEF InHand
  <2>2. ASSUME InHand(m) PROVE InHand(m)'
    <3>1. PICK j \in Socks : pc[j] = "alert" /\ got[j] = m
      BY <2>2 DEF InHand
    <3>2. j # k
      BY <1>2, <3>1
    <3> QED
      BY <1>5, <3>1, <3>2 DEF InHand
  <2>3. m = total' => InHand(m)'
    BY <1>5 DEF InHand
  <2> QED
    BY <2>1, <2>2, <2>3
<1> QED
  BY <1>2, <1>3, <1>4, <1>5, <1>6

LEMMA StoreRemembers ==
  ASSUME Types, Remembered, NEW k \in Socks, RecvAlert(k)
  PROVE  Remembered'
<1>1. PanelTypes /\ A!AddAlert
  BY TypesAre DEF RecvAlert
<1>2. /\ total' = total + 1 /\ total \in Nat /\ Len(kept) \in Nat /\ Len(kept) <= total
      /\ Len(kept') \in 0 .. Len(kept) + 1
      /\ \A i \in 1 .. Len(kept') :
           \/ i = Len(kept') /\ kept'[i] = total'
           \/ /\ ((Len(kept) + 1) - Len(kept')) + i \in 1 .. Len(kept)
              /\ kept'[i] = kept[((Len(kept) + 1) - Len(kept')) + i]
  BY <1>1, AddAlertIs DEF PanelTypes, Remembered
<1>3. ASSUME NEW i \in 1 .. Len(kept') PROVE kept'[i] = (total' - Len(kept')) + i
  <2>1. CASE i = Len(kept') /\ kept'[i] = total'
    BY <1>2, <2>1
  <2>2. ASSUME ((Len(kept) + 1) - Len(kept')) + i \in 1 .. Len(kept),
               kept'[i] = kept[((Len(kept) + 1) - Len(kept')) + i]
        PROVE  kept'[i] = (total' - Len(kept')) + i
    <3>1. kept'[i] = (total - Len(kept)) + (((Len(kept) + 1) - Len(kept')) + i)
      BY <2>2 DEF Remembered
    <3> QED
      BY <1>2, <3>1
  <2> QED
    BY <1>2, <2>1, <2>2
<1> QED
  BY <1>2, <1>3 DEF Remembered

LEMMA StorePanel ==
  ASSUME Types, Panel, NEW k \in Socks, RecvAlert(k)
  PROVE  Panel' /\ (InOrder => InOrder')
<1>1. /\ UNCHANGED <<callbacks, rows, label, stale>> /\ total \in Nat /\ total' = total + 1
      /\ ~ InHand(total') /\ ~ Listed(total') /\ ~ Queued(callbacks, total')
      /\ \A m : InHand(m)' <=> InHand(m) \/ m = total'
      /\ pc[k] # "alert"
      /\ \A j \in Socks : /\ (pc'[j] = "alert") <=> (pc[j] = "alert") \/ j = k
                         /\ got'[j] = IF j = k THEN total' ELSE got[j]
  BY StorePlaces
<1>2. /\ \A m : Listed(m)' <=> Listed(m)
      /\ \A m : Queued(callbacks, m)' <=> Queued(callbacks, m)
  BY <1>1 DEF Listed, Queued
<1>3. Everywhere'
  BY <1>1, <1>2 DEF Panel, Everywhere
<1>4. Once'
  <2>1. ASSUME NEW i \in Socks, NEW j \in Socks, pc'[i] = "alert", pc'[j] = "alert", got'[i] = got'[j]
        PROVE  i = j
    <3>1. \A l \in Socks : pc[l] = "alert" => got[l] # total'
      BY <1>1 DEF InHand
    <3> QED
      BY <1>1, <2>1, <3>1 DEF Panel, Once
  <2>2. \A m \in Nat : /\ ~ (Listed(m)' /\ Queued(callbacks, m)')
                       /\ ~ (Listed(m)' /\ InHand(m)')
                       /\ ~ (Queued(callbacks, m)' /\ InHand(m)')
    BY <1>1, <1>2 DEF Panel, Once
  <2>3. /\ \A i, j \in 1 .. Len(rows') : rows'[i] = rows'[j] => i = j
        /\ OnceIn(callbacks')
    BY <1>1 DEF Panel, Once
  <2> QED
    BY <2>1, <2>2, <2>3 DEF Once
<1>5. Labelled'
  BY <1>1 DEF Labelled
<1>6. Remembered'
  BY StoreRemembers DEF Panel
<1>7. ASSUME InOrder PROVE InOrder'
  <2>1. total' > Len(rows)
    <3>1. Len(rows) \in Nat /\ PanelTypes
      BY TypesAre DEF PanelTypes
    <3>2. CASE Len(rows) >= 1
      <4>1. Len(rows) \in 1 .. Len(rows) /\ rows[Len(rows)] = Len(rows)
        BY <1>7, <3>1, <3>2 DEF InOrder
      <4>2. Len(rows) \in 1 .. total
        BY <3>1, <4>1 DEF PanelTypes
      <4> QED
        BY <1>1, <4>2
    <3> QED
      BY <1>1, <3>1, <3>2
  <2>2. \A m \in Nat : Queued(callbacks, m) => m < total'
    BY <1>1, PlacesAre
  <2>3. /\ \A i \in 1 .. Len(rows') : rows'[i] = i
        /\ Ascending(callbacks')
        /\ \A n \in Nat : Queued(callbacks', n) => n > Len(rows')
    BY <1>1, <1>2, <1>7 DEF InOrder
  <2>4. \A n \in Nat : InHand(n)' => n > Len(rows')
    BY <1>1, <1>7, <2>1 DEF InOrder
  <2>5. \A m, n \in Nat : Queued(callbacks', m) /\ InHand(n)' => m < n
    BY <1>1, <1>7, <2>2 DEF InOrder
  <2> QED
    BY <2>3, <2>4, <2>5 DEF InOrder
<1> QED
  BY <1>3, <1>4, <1>5, <1>6, <1>7 DEF Panel

\* A receiver announces the alert it has stored.
LEMMA AnnouncePanel ==
  ASSUME Types, Panel, NEW k \in Socks, NotifyAlert(k)
  PROVE  Panel' /\ (InOrder /\ OneReceiver => InOrder')
<1> DEFINE n == got[k]
<1>1. PanelTypes /\ PcTypes /\ CallbackTypes /\ HandsHold
  BY TypesAre
<1>2. /\ callbacks' = Append(callbacks, AlertOf(n)) /\ UNCHANGED <<kept, total, got, rows, label>>
      /\ pc[k] = "alert" /\ pc' = [pc EXCEPT ![k] = "loop"]
  BY DEF NotifyAlert, Goes, AlertOf, panel
<1>3. n \in 1 .. total /\ n \in Nat /\ AlertOf(n) \in Callback
  BY <1>1, <1>2, AlertIsCallback DEF HandsHold
<1>4. \A j \in Socks : (pc'[j] = "alert") <=> (pc[j] = "alert") /\ j # k
  BY <1>1, <1>2, PcSets DEF PcTypes
<1>5. InHand(n)
  BY <1>2 DEF InHand
<1> HIDE DEF n
<1>6. \A m : InHand(m)' <=> InHand(m) /\ m # n
  <2>1. \A j \in Socks : pc[j] = "alert" => (got[j] = n <=> j = k)
    BY <1>2 DEF Panel, Once, n
  <2> QED
    BY <1>2, <1>4, <2>1 DEF InHand
<1>7. \A m : Queued(callbacks', m) <=> Queued(callbacks, m) \/ m = n
  BY <1>1, <1>2, <1>3, AppendQueued, SameAlert DEF CallbackTypes
<1>8. \A m : Listed(m)' <=> Listed(m)
  BY <1>2 DEF Listed
<1>9. ~ Queued(callbacks, n) /\ ~ Listed(n)
  BY <1>3, <1>5 DEF Panel, Once
<1>10. Everywhere'
  BY <1>2, <1>6, <1>7, <1>8 DEF Panel, Everywhere
<1>11. Once'
  <2>1. OnceIn(callbacks')
    BY <1>1, <1>2, <1>3, <1>9, AppendOnce, SameAlert DEF CallbackTypes, Panel, Once
  <2>2. \A i, j \in Socks : pc'[i] = "alert" /\ pc'[j] = "alert" /\ got'[i] = got'[j] => i = j
    BY <1>2, <1>4 DEF Panel, Once
  <2>3. \A m \in Nat : /\ ~ (Listed(m)' /\ Queued(callbacks', m))
                       /\ ~ (Listed(m)' /\ InHand(m)')
                       /\ ~ (Queued(callbacks', m) /\ InHand(m)')
    BY <1>6, <1>7, <1>8, <1>9 DEF Panel, Once
  <2>4. \A i, j \in 1 .. Len(rows') : rows'[i] = rows'[j] => i = j
    BY <1>2 DEF Panel, Once
  <2> QED
    BY <2>1, <2>2, <2>3, <2>4 DEF Once
<1>12. Labelled' /\ Remembered'
  BY <1>2, <1>3, <1>7 DEF Panel, Labelled, Remembered
<1>13. ASSUME InOrder, OneReceiver PROVE InOrder'
  <2>1. \A m : ~ InHand(m)'
    BY <1>2, <1>4, <1>13 DEF InHand, OneReceiver, Alive
  <2>2. Ascending(callbacks')
    BY <1>1, <1>2, <1>3, <1>5, <1>13, AppendAscending, SameAlert DEF CallbackTypes, InOrder
  <2>3. \A m \in Nat : Queued(callbacks', m) => m > Len(rows')
    BY <1>2, <1>3, <1>5, <1>7, <1>13 DEF InOrder
  <2>4. \A i \in 1 .. Len(rows') : rows'[i] = i
    BY <1>2, <1>13 DEF InOrder
  <2> QED
    BY <2>1, <2>2, <2>3, <2>4 DEF InOrder
<1> QED
  BY <1>10, <1>11, <1>12, <1>13 DEF Panel

LEMMA PanelStep ==
  ASSUME Types, Panel, Next
  PROVE  Panel' /\ (InOrder /\ OneReceiver => InOrder')
<1>1. CASE SamePlaces
  BY <1>1, SamePlacesPanel
<1>2. Once
  BY DEF Panel
<1> QED
  BY <1>1, <1>2, PanelSteps, UnchangedPlaces, AnnouncesPlaces, RunsPlaces, ShowPanel, StorePanel,
     AnnouncePanel

-----------------------------------------------------------------------------
(* The connection, step by step *)

\* Where a thread is while the connection is made, or taken down.
Special == Making \cup Telling \cup {"quitClear", "down"}

LEMMA Places ==
  /\ Making = {"handshake", "up", "start"} /\ Telling = {"close", "clear", "notify"}
  /\ Special = {"handshake", "up", "start", "close", "clear", "notify", "quitClear", "down"}
  BY DEF Special, Making, Telling

LEMMA Moved ==
  ASSUME PcTypes, NEW t \in Threads, NEW to, pc' = [pc EXCEPT ![t] = to]
  PROVE  pc'[t] = to /\ \A u \in Threads : u # t => pc'[u] = pc[u]
  BY DEF PcTypes

\* A step that has nothing to do with the connection.
Ordinary ==
  /\ UNCHANGED <<socket, connected, closed>>
  /\ \A t \in Threads : pc'[t] = pc[t] \/ (pc[t] \notin Special /\ pc'[t] \notin Special)
  /\ \A k \in Socks : Alive(k)' => Alive(k)
  /\ Tells(callbacks, shown, connected) => Tells(callbacks', shown', connected)

LEMMA OrdinaryTruth == ASSUME Truth, Ordinary PROVE Truth'
<1>0. GUI \in Threads /\ \A k \in Socks : k \in Threads
  BY PcSets
<1>1. /\ \A t \in Threads : pc'[t] \in Telling <=> pc[t] \in Telling
      /\ \A p \in Special : pc'[GUI] = p <=> pc[GUI] = p
      /\ UNCHANGED <<socket, connected, closed>>
  BY <1>0, Places DEF Ordinary
<1>2. NoneWhileMaking'
  BY <1>1, Places DEF Ordinary, Truth, NoneWhileMaking
<1>3. OneReceiver'
  BY DEF Ordinary, Truth, OneReceiver
<1>4. LostForAll'
  BY <1>1 DEF Truth, LostForAll
<1>5. Handshaking'
  BY <1>1, Places DEF Truth, Handshaking
<1>6. WillShow'
  <2>1. pc'[GUI] = "up" <=> pc[GUI] = "up"
    BY <1>1, Places
  <2> QED
    BY <1>1, <2>1 DEF Truth, WillShow, Ordinary
<1>7. HasSocket'
  <2>1. pc'[GUI] \in {"quitClear", "down"} <=> pc[GUI] \in {"quitClear", "down"}
    BY <1>1, Places
  <2> QED
    BY <1>1, <2>1 DEF Truth, HasSocket, SocketIsClosed
<1> QED
  BY <1>2, <1>3, <1>4, <1>5, <1>6, <1>7 DEF Truth

\* A thread moves on without doing anything to the connection.
LEMMA OrdinaryMove ==
  ASSUME PcTypes, NEW t \in Threads, NEW to, pc' = [pc EXCEPT ![t] = to],
         pc[t] \notin Special, to \notin Special, pc[t] \notin {"none", "done"},
         UNCHANGED <<socket, connected, closed>>,
         Tells(callbacks, shown, connected) => Tells(callbacks', shown', connected)
  PROVE  Ordinary
<1>1. pc'[t] = to /\ \A u \in Threads : u # t => pc'[u] = pc[u]
  BY Moved
<1>2. ASSUME NEW k \in Socks, Alive(k)' PROVE Alive(k)
  BY <1>1, <1>2, PcSets DEF Alive
<1> QED
  BY <1>1, <1>2 DEF Ordinary

\* A thread finds the connection lost, and says so to the others.
LEMMA LosesTruth ==
  ASSUME PcTypes, Truth, NEW t \in Threads, NEW to \in Telling, pc' = [pc EXCEPT ![t] = to],
         pc[t] \in Handling, connected' = FALSE
  PROVE  Truth'
<1>1. pc'[t] = to /\ (\A u \in Threads : u # t => pc'[u] = pc[u]) /\ to \in {"close", "clear", "notify"}
  BY Moved, Places
<1>2. pc[t] \in {"stopReceiving", "disconnected", "close", "clear", "notify"}
  BY DEF Handling
<1>3. pc'[GUI] \notin Making
  <2>1. CASE t = GUI
    BY <1>1, <2>1, Places
  <2>2. CASE t # GUI
    <3>1. t \in Socks /\ Alive(t)
      BY <1>2, <2>2 DEF Threads, Alive
    <3> QED
      BY <1>1, <2>2, <3>1, PcSets DEF Truth, NoneWhileMaking
  <2> QED
    BY <2>1, <2>2
<1>4. \A k \in Socks : Alive(k)' => Alive(k)
  BY <1>1, <1>2, PcSets DEF Alive
<1>5. NoneWhileMaking' /\ Handshaking'
  BY <1>3, Places DEF NoneWhileMaking, Handshaking
<1>6. OneReceiver'
  BY <1>4 DEF Truth, OneReceiver
<1>7. LostForAll' /\ HasSocket'
  BY DEF LostForAll, HasSocket
<1>8. WillShow'
  BY <1>1 DEF WillShow
<1> QED
  BY <1>5, <1>6, <1>7, <1>8 DEF Truth

\* A thread has told the dashboard of the loss.
LEMMA TellsLossTruth ==
  ASSUME PcTypes, CallbackTypes, Truth, NEW t \in Threads, pc' = [pc EXCEPT ![t] = Returned(t)],
         pc[t] \in {"notify", "down"}, t # GUI => pc[t] = "notify", connected' = FALSE, UNCHANGED shown,
         callbacks' = Append(callbacks, Connection(FALSE))
  PROVE  Truth'
<1>1. pc'[t] = Returned(t) /\ \A u \in Threads : u # t => pc'[u] = pc[u]
  BY Moved
<1>2. pc'[GUI] \notin Making
  <2>1. CASE t = GUI
    BY <1>1, <2>1, Places DEF Returned
  <2>2. CASE t # GUI
    <3>1. t \in Socks /\ Alive(t)
      BY <2>2 DEF Threads, Alive
    <3> QED
      BY <1>1, <2>2, <3>1, PcSets DEF Truth, NoneWhileMaking
  <2> QED
    BY <2>1, <2>2
<1>3. \A k \in Socks : Alive(k)' => Alive(k)
  BY <1>1, PcSets DEF Alive
<1>4. NoneWhileMaking' /\ Handshaking'
  BY <1>2, Places DEF NoneWhileMaking, Handshaking
<1>5. OneReceiver'
  BY <1>3 DEF Truth, OneReceiver
<1>6. LostForAll' /\ HasSocket'
  BY DEF LostForAll, HasSocket
<1>7. WillShow'
  <2>1. Connection(FALSE) \in Callback
    BY ConnectionIsCallback
  <2>2. Tells(callbacks', shown', FALSE)
    BY <2>1, AppendTells DEF CallbackTypes
  <2> QED
    BY <2>2 DEF WillShow
<1> QED
  BY <1>4, <1>5, <1>6, <1>7 DEF Truth

LEMMA HandlingTruth ==
  ASSUME Types, Truth, NEW t \in Threads, HandleDisconnect(t)
  PROVE  Truth'
<1> USE DEF state, sockets, dashboard
<1>0. PcTypes /\ CallbackTypes /\ Telling = {"close", "clear", "notify"}
  BY TypesAre, Places
<1>1. CASE StopReceiving(t)
  <2>1. /\ pc[t] = "stopReceiving" /\ pc' = [pc EXCEPT ![t] = "disconnected"]
        /\ UNCHANGED <<socket, connected, closed, callbacks, shown>>
    BY <1>1 DEF StopReceiving, Goes
  <2>2. pc[t] \notin Special /\ "disconnected" \notin Special /\ pc[t] \notin {"none", "done"}
    BY <2>1, Places
  <2>3. Tells(callbacks, shown, connected) => Tells(callbacks', shown', connected)
    BY <2>1
  <2>4. Ordinary
    BY <1>0, <2>1, <2>2, <2>3, OrdinaryMove
  <2> QED
    BY <2>4, OrdinaryTruth
<1>2. CASE MarkDisconnected(t)
  <2>1. pc[t] \in Handling /\ pc' = [pc EXCEPT ![t] = "close"] /\ connected' = FALSE
    BY <1>2 DEF MarkDisconnected, Goes, Handling
  <2> QED
    BY <1>0, <2>1, LosesTruth
<1>3. CASE CloseSocket(t, "close", "clear", "notify") \/ ClearSocket(t, "clear", "notify")
  <2>1. pc[t] \in Telling /\ pc[t] \in Handling /\ UNCHANGED connected
    BY <1>0, <1>3 DEF CloseSocket, ClearSocket, Handling
  <2>2. \E to \in Telling : pc' = [pc EXCEPT ![t] = to]
    BY <1>0, <1>3 DEF CloseSocket, ClearSocket, Goes
  <2>3. connected' = FALSE
    BY <2>1, TypesAre DEF Truth, LostForAll, FlagTypes
  <2> QED
    BY <1>0, <2>1, <2>2, <2>3, LosesTruth
<1>4. CASE NotifyLost(t)
  <2>1. /\ pc[t] = "notify" /\ pc' = [pc EXCEPT ![t] = Returned(t)] /\ UNCHANGED <<connected, shown>>
        /\ callbacks' = Append(callbacks, Connection(FALSE))
    BY <1>4 DEF NotifyLost, Notify, Goes, Connection
  <2>2. connected' = FALSE
    BY <1>0, <2>1, TypesAre DEF Truth, LostForAll, FlagTypes
  <2> QED
    BY <1>0, <2>1, <2>2, TellsLossTruth
<1> QED
  BY <1>1, <1>2, <1>3, <1>4 DEF HandleDisconnect

\* The GUI thread alone moves.
LEMMA GuiMoves ==
  ASSUME PcTypes, NEW to, pc' = [pc EXCEPT ![GUI] = to]
  PROVE  /\ pc'[GUI] = to /\ \A k \in Socks : pc'[k] = pc[k] /\ (Alive(k)' <=> Alive(k))
         /\ \A t \in Threads : t = GUI \/ t \in Socks
  BY PcSets, Moved DEF Alive, Threads

LEMMA ClickConnectTruth ==
  ASSUME Types, Truth, NEW k \in Socks, ClickConnect(k), ~ stale'
  PROVE  Truth'
<1>1. /\ pc[GUI] = "idle" /\ pc' = [pc EXCEPT ![GUI] = "handshake"] /\ ~ connected
      /\ \A r \in Socks : ~ Alive(r)
      /\ UNCHANGED <<connected, callbacks, shown>>
  BY DEF ClickConnect, MayClick, Goes
<1>2. /\ pc'[GUI] = "handshake" /\ \A r \in Socks : pc'[r] = pc[r] /\ (Alive(r)' <=> Alive(r))
      /\ \A t \in Threads : t = GUI \/ t \in Socks
  BY <1>1, TypesAre, GuiMoves
<1>3. NoneWhileMaking' /\ OneReceiver'
  BY <1>1, <1>2 DEF NoneWhileMaking, OneReceiver
<1>4. LostForAll' /\ Handshaking' /\ HasSocket'
  BY <1>1, <1>2 DEF LostForAll, Handshaking, HasSocket
<1>5. WillShow'
  <2>1. ASSUME \A t \in Threads : pc'[t] \notin Telling PROVE \A t \in Threads : pc[t] \notin Telling
    BY <1>1, <1>2, <2>1, Places
  <2> QED
    BY <1>1, <1>2, <2>1 DEF Truth, WillShow
<1> QED
  BY <1>3, <1>4, <1>5 DEF Truth

LEMMA HandshakeTruth ==
  ASSUME Types, Truth, HandshakeDone \/ HandshakeFails
  PROVE  Truth'
<1>1. PICK to \in {"up", "idle"} : pc' = [pc EXCEPT ![GUI] = to]
  BY DEF HandshakeDone, HandshakeFails, Goes
<1>2. /\ pc'[GUI] = to /\ \A k \in Socks : pc'[k] = pc[k] /\ (Alive(k)' <=> Alive(k))
      /\ \A t \in Threads : t = GUI \/ t \in Socks
  BY <1>1, TypesAre, GuiMoves
<1>3. pc[GUI] = "handshake" /\ ~ connected /\ UNCHANGED <<callbacks, shown>>
  BY DEF HandshakeDone, HandshakeFails, dashboard, Truth, Handshaking
<1>4. \A k \in Socks : ~ Alive(k)
  BY <1>3, Places DEF Truth, NoneWhileMaking
<1>5. NoneWhileMaking' /\ OneReceiver'
  BY <1>2, <1>4 DEF NoneWhileMaking, OneReceiver
<1>6. \A t \in Threads : pc'[t] \notin Telling /\ pc[t] \notin Telling
  BY <1>2, <1>3, <1>4, Places DEF Alive
<1>7. LostForAll'
  BY <1>6 DEF LostForAll
<1>8. CASE HandshakeDone
  <2>1. connected' = TRUE /\ to = "up" /\ socket' # NoSock /\ ~ SocketIsClosed'
    BY <1>1, <1>2, <1>8, TypesAre, GuiMoves DEF HandshakeDone, Goes, SocketIsClosed, sockets
  <2> QED
    BY <1>2, <1>5, <1>7, <2>1 DEF Truth, Handshaking, WillShow, HasSocket
<1>9. CASE HandshakeFails
  <2>1. UNCHANGED connected /\ to = "idle"
    BY <1>1, <1>2, <1>9, TypesAre, GuiMoves DEF HandshakeFails, Goes
  <2>2. Handshaking' /\ HasSocket'
    BY <1>2, <1>3, <2>1 DEF Handshaking, HasSocket
  <2>3. Tells(callbacks, shown, connected)
    BY <1>3, <1>6 DEF Truth, WillShow
  <2>4. WillShow'
    BY <1>3, <2>1, <2>3 DEF WillShow
  <2> QED
    BY <1>5, <1>7, <2>2, <2>4 DEF Truth
<1> QED
  BY <1>8, <1>9

LEMMA NotifyUpTruth == ASSUME Types, Truth, NotifyUp PROVE Truth'
<1>1. /\ pc[GUI] = "up" /\ pc' = [pc EXCEPT ![GUI] = "start"]
      /\ UNCHANGED <<socket, connected, closed, shown>>
      /\ callbacks' = Append(callbacks, Connection(TRUE))
  BY DEF NotifyUp, Notify, Goes, state, sockets, Connection
<1>2. /\ pc'[GUI] = "start" /\ \A k \in Socks : pc'[k] = pc[k] /\ (Alive(k)' <=> Alive(k))
      /\ \A t \in Threads : t = GUI \/ t \in Socks
  BY <1>1, TypesAre, GuiMoves
<1>3. connected = TRUE
  BY <1>1, TypesAre DEF Truth, Handshaking, FlagTypes
<1>4. NoneWhileMaking' /\ OneReceiver'
  BY <1>1, <1>2, Places DEF Truth, NoneWhileMaking, OneReceiver
<1>5. LostForAll'
  BY <1>1, <1>2, Places DEF Truth, LostForAll
<1>6. Handshaking' /\ HasSocket'
  BY <1>1, <1>2 DEF Truth, Handshaking, HasSocket, SocketIsClosed
<1>7. WillShow'
  <2>1. Connection(TRUE) \in Callback /\ CallbackTypes
    BY ConnectionIsCallback, TypesAre
  <2>2. Tells(callbacks', shown', TRUE)
    BY <1>1, <2>1, AppendTells DEF CallbackTypes
  <2> QED
    BY <1>1, <1>3, <2>2 DEF WillShow
<1> QED
  BY <1>4, <1>5, <1>6, <1>7 DEF Truth

LEMMA StartTruth == ASSUME Types, Truth, NEW k \in Socks, StartReceiver(k) PROVE Truth'
<1>1. /\ pc[GUI] = "start" /\ pc[k] = "none" /\ pc' = [pc EXCEPT ![GUI] = "idle", ![k] = "loop"]
      /\ UNCHANGED <<socket, connected, closed, callbacks, shown>>
  BY DEF StartReceiver, sockets, dashboard
<1>2. /\ pc'[GUI] = "idle" /\ pc'[k] = "loop" /\ \A j \in Socks : j # k => pc'[j] = pc[j]
      /\ \A t \in Threads : t = GUI \/ t \in Socks
  BY <1>1, PcSets, TypesAre DEF PcTypes, Threads
<1>3. \A j \in Socks : ~ Alive(j)
  BY <1>1, Places DEF Truth, NoneWhileMaking
<1>4. NoneWhileMaking' /\ Handshaking'
  BY <1>2, Places DEF NoneWhileMaking, Handshaking
<1>5. OneReceiver'
  <2>1. \A j \in Socks : Alive(j)' => j = k
    BY <1>2, <1>3 DEF Alive
  <2> QED
    BY <2>1 DEF OneReceiver
<1>6. \A t \in Threads : pc'[t] \notin Telling /\ pc[t] \notin Telling
  <2>1. \A j \in Socks : pc[j] \in {"none", "done"} /\ (j # k => pc'[j] = pc[j])
    BY <1>2, <1>3 DEF Alive
  <2>2. ASSUME NEW t \in Threads PROVE pc[t] \notin Telling
    BY <1>1, <1>2, <2>1, Places
  <2>3. ASSUME NEW t \in Threads PROVE pc'[t] \notin Telling
    <3>1. pc'[t] = "idle" \/ pc'[t] = "loop" \/ pc'[t] = pc[t]
      BY <1>2, <2>1
    <3> QED
      BY <2>2, <3>1, Places
  <2> QED
    BY <2>2, <2>3
<1>7. LostForAll'
  BY <1>6 DEF LostForAll
<1>8. WillShow'
  <2>1. Tells(callbacks, shown, connected)
    BY <1>1, <1>6 DEF Truth, WillShow
  <2> QED
    BY <1>1, <2>1 DEF WillShow
<1>9. HasSocket'
  BY <1>1 DEF Truth, HasSocket, SocketIsClosed
<1> QED
  BY <1>4, <1>5, <1>7, <1>8, <1>9 DEF Truth

\* disconnect takes the socket while the connection still counts as one.
LEMMA QuitTruth ==
  ASSUME Types, Truth,
         CloseSocket(GUI, "quitClose", "quitClear", "down") \/ ClearSocket(GUI, "quitClear", "down")
  PROVE  Truth'
<1>1. /\ pc[GUI] \in {"quitClose", "quitClear"}
      /\ UNCHANGED <<connected, callbacks, shown>>
  BY DEF CloseSocket, ClearSocket, state, dashboard
<1>2. PICK to \in {"quitClear", "down"} : pc' = [pc EXCEPT ![GUI] = to]
  BY DEF CloseSocket, ClearSocket, Goes
<1>3. /\ pc'[GUI] = to /\ \A k \in Socks : pc'[k] = pc[k] /\ (Alive(k)' <=> Alive(k))
      /\ \A t \in Threads : t = GUI \/ t \in Socks
  BY <1>2, TypesAre, GuiMoves
<1>4. NoneWhileMaking' /\ OneReceiver' /\ Handshaking'
  BY <1>3, Places DEF Truth, NoneWhileMaking, OneReceiver, Handshaking
<1>5. \A t \in Threads : pc'[t] \in Telling <=> pc[t] \in Telling
  BY <1>1, <1>3, Places
<1>6. LostForAll' /\ HasSocket'
  BY <1>1, <1>3, <1>5 DEF Truth, LostForAll, HasSocket
<1>7. WillShow'
  BY <1>1, <1>5 DEF Truth, WillShow
<1> QED
  BY <1>4, <1>6, <1>7 DEF Truth

LEMMA DownTruth == ASSUME Types, Truth, Down PROVE Truth'
<1>1. /\ pc[GUI] = "down" /\ pc' = [pc EXCEPT ![GUI] = Returned(GUI)] /\ connected' = FALSE
      /\ UNCHANGED shown /\ callbacks' = Append(callbacks, Connection(FALSE))
  BY DEF Down, Notify, Goes, Returned, Connection
<1>2. PcTypes /\ CallbackTypes /\ GUI \in Threads
  BY TypesAre, PcSets
<1> QED
  BY <1>1, <1>2, TellsLossTruth

\* The dashboard runs a callback.
LEMMA ShowTruth == ASSUME Types, Truth, Show \/ ShowAlert PROVE Truth'
<1>1. /\ UNCHANGED <<socket, connected, closed, pc>> /\ callbacks' = Tail(callbacks)
  BY DEF Show, ShowAlert, state, sockets
<1>2. CallbackTypes /\ QueueTypes
  BY TypesAre DEF QueueTypes, CallbackTypes
<1>3. ASSUME Tells(callbacks, shown, connected) PROVE Tells(callbacks', shown', connected)
  <2>1. CASE Show
    <3>1. Due("connection") /\ shown' = Head(callbacks)[2]
      BY <2>1 DEF Show
    <3>2. PICK v \in BOOLEAN : Head(callbacks) = Connection(v)
      BY <1>2, <3>1, HeadIs
    <3>3. callbacks # <<>> /\ shown' = v
      BY <1>2, <3>1, <3>2, HeadIs, Kinds
    <3> QED
      BY <1>1, <1>2, <1>3, <3>2, <3>3, TailTells DEF CallbackTypes
  <2>2. CASE ShowAlert
    <3>1. Due("alert") /\ UNCHANGED shown
      BY <2>2 DEF ShowAlert
    <3>2. PICK n \in 1 .. total : Head(callbacks) = AlertOf(n)
      BY <1>2, <3>1, HeadIs
    <3>3. callbacks # <<>> /\ Head(callbacks)[1] # "connection"
      BY <1>2, <3>1, <3>2, HeadIs, Kinds
    <3> QED
      BY <1>1, <1>2, <1>3, <3>1, <3>3, TailTells DEF CallbackTypes
  <2> QED
    BY <2>1, <2>2
<1>4. Ordinary
  BY <1>1, <1>3 DEF Ordinary, Alive
<1> QED
  BY <1>4, OrdinaryTruth

LEMMA GuiTruth ==
  ASSUME Types, Truth, ~ stale',
         Gui \/ ClickDisconnect \/ ClickCommand \/ \E k \in Socks : ClickConnect(k)
  PROVE  Truth'
<1>1. CASE SendQuit \/ SendCommand \/ ClickDisconnect \/ ClickCommand
  <2>1. /\ pc[GUI] \in {"quit", "send", "idle"}
        /\ UNCHANGED <<socket, connected, closed, callbacks, shown>>
    BY <1>1 DEF SendQuit, SendCommand, ClickDisconnect, ClickCommand, MayClick, state, sockets, dashboard
  <2>2. PICK to \in {"quitClose", "idle", "stopReceiving", "quit", "send"} : pc' = [pc EXCEPT ![GUI] = to]
    BY <1>1 DEF SendQuit, SendCommand, ClickDisconnect, ClickCommand, Goes
  <2>3. pc[GUI] \notin Special /\ to \notin Special /\ pc[GUI] \notin {"none", "done"}
    BY <2>1, <2>2, Places
  <2>4. Tells(callbacks, shown, connected) => Tells(callbacks', shown', connected)
    BY <2>1
  <2>5. PcTypes /\ GUI \in Threads
    BY TypesAre, PcSets
  <2>6. Ordinary
    BY <2>1, <2>2, <2>3, <2>4, <2>5, OrdinaryMove
  <2> QED
    BY <2>6, OrdinaryTruth
<1> QED
  BY <1>1, ClickConnectTruth, HandshakeTruth, NotifyUpTruth, StartTruth, QuitTruth, DownTruth, ShowTruth
     DEF Gui, Disconnect

LEMMA ReceiverTruth ==
  ASSUME Types, Truth, NEW k \in Socks, Receiver(k) \/ ServerCloses(k)
  PROVE  Truth'
<1> USE DEF state, sockets, dashboard
<1>0. PcTypes /\ CallbackTypes /\ k \in Threads
  BY TypesAre, PcSets
<1>1. CASE ServerCloses(k)
  <2>1. Ordinary
    BY <1>1 DEF ServerCloses, Ordinary, Alive
  <2> QED
    BY <2>1, OrdinaryTruth
<1>2. CASE Receiver(k)
  <2>1. PICK to \in {"recv", "done", "lost", "blocked", "timed", "loop", "alert", "stopReceiving"} :
           pc' = [pc EXCEPT ![k] = to]
    BY <1>2 DEF Receiver, Loop, EnterRecv, RecvData, RecvAlert, NotifyAlert, RecvTimeout, RecvEnd, LogLoss, Goes,
                Exception
  <2>2. pc[k] \in {"loop", "recv", "blocked", "timed", "alert", "lost"} /\ UNCHANGED <<socket, connected, closed, shown>>
    BY <1>2 DEF Receiver, Loop, EnterRecv, RecvData, RecvAlert, NotifyAlert, RecvTimeout, RecvEnd, LogLoss, InRecv
  <2>3. pc[k] \notin Special /\ to \notin Special /\ pc[k] \notin {"none", "done"}
    BY <2>1, <2>2, Places
  <2>4. ASSUME Tells(callbacks, shown, connected) PROVE Tells(callbacks', shown', connected)
    <3>1. CASE NotifyAlert(k)
      <4>1. callbacks' = Append(callbacks, AlertOf(got[k])) /\ pc[k] = "alert"
        BY <3>1 DEF NotifyAlert, AlertOf
      <4>2. AlertOf(got[k]) \in Callback /\ AlertOf(got[k])[1] # "connection"
        BY <4>1, TypesAre, AlertIsCallback, Kinds DEF HandsHold
      <4> QED
        BY <1>0, <2>2, <2>4, <4>1, <4>2, AppendTells DEF CallbackTypes
    <3>2. CASE Loop(k) \/ EnterRecv(k) \/ RecvData(k) \/ RecvAlert(k) \/ RecvTimeout(k)
           \/ RecvEnd(k) \/ LogLoss(k)
      <4>1. UNCHANGED callbacks
        BY <3>2 DEF Loop, EnterRecv, RecvData, RecvAlert, RecvTimeout, RecvEnd, LogLoss
      <4> QED
        BY <2>2, <2>4, <4>1
    <3> QED
      BY <1>2, <3>1, <3>2 DEF Receiver
  <2>5. Ordinary
    BY <1>0, <2>1, <2>2, <2>3, <2>4, OrdinaryMove
  <2> QED
    BY <2>5, OrdinaryTruth
<1> QED
  BY <1>1, <1>2

LEMMA TruthStep == ASSUME Types, Truth, Next, ~ stale' PROVE Truth'
  BY HandlingTruth, GuiTruth, ReceiverTruth DEF Next

-----------------------------------------------------------------------------
(* The theorems *)

LEMMA InitInv == Init => Inv
<1> SUFFICES ASSUME Init PROVE Inv
  OBVIOUS
<1>1. /\ pc = [t \in Threads |-> IF t = GUI THEN "idle" ELSE "none"]
      /\ callbacks = <<>> /\ rows = <<>> /\ kept = <<>> /\ total = 0 /\ label = 0
      /\ got = [k \in Socks |-> 0] /\ connected = FALSE /\ shown = FALSE
  BY DEF Init, A!AlertsInit
<1>2. pc[GUI] = "idle" /\ (\A k \in Socks : pc[k] = "none") /\ DOMAIN pc = Threads
  BY <1>1, PcSets
<1>3. Len(callbacks) = 0 /\ Len(rows) = 0 /\ Len(kept) = 0
  BY <1>1
<1>4. PcTypes
  BY <1>2, PcSets DEF PcTypes
<1>5. FlagTypes
  BY DEF FlagTypes, Init
<1>6. PanelTypes /\ CallbackTypes
  BY <1>1, BoundsAssumption DEF PanelTypes, CallbackTypes
<1>7. Room /\ HandsHold /\ Len(callbacks) <= MaxQueue
  BY <1>2, <1>3, BoundsAssumption DEF Room, HandsHold
<1>8. Types
  BY <1>4, <1>5, <1>6, <1>7, TypesAre
<1>9. \A n : ~ Queued(callbacks, n) /\ ~ Listed(n) /\ ~ InHand(n)
  BY <1>2, <1>3 DEF Queued, Listed, InHand
<1>10. Everywhere /\ Labelled /\ Remembered
  BY <1>1, <1>3 DEF Everywhere, Labelled, Remembered
<1>11. Once
  BY <1>2, <1>3, <1>9 DEF Once, OnceIn
<1>12. InOrder
  BY <1>3, <1>9 DEF InOrder, Ascending
<1>13. NoneWhileMaking /\ OneReceiver /\ Handshaking
  BY <1>2 DEF NoneWhileMaking, OneReceiver, Handshaking, Alive, Making
<1>14. LostForAll /\ HasSocket
  BY <1>1 DEF LostForAll, HasSocket
<1>15. WillShow
  <2>1. shown = connected
    BY <1>1
  <2>2. \A j \in 1 .. Len(callbacks) : FALSE
    BY <1>3
  <2> QED
    BY <2>1, <2>2 DEF WillShow, Tells
<1> QED
  BY <1>8, <1>10, <1>11, <1>12, <1>13, <1>14, <1>15 DEF Inv, Panel, Truth

LEMMA InvStep == Inv /\ [Next]_vars => Inv'
<1> SUFFICES ASSUME Inv, [Next]_vars PROVE Inv'
  OBVIOUS
<1>1. CASE UNCHANGED vars
  <2>1. UNCHANGED <<socket, connected, should, pc, on, link, closed, callbacks, shown, stale,
                    kept, total, got, rows, label>>
    BY <1>1 DEF vars, panel
  <2>2. Types'
    BY <2>1 DEF Inv, Types, TypeOK, Room
  <2>3. Panel'
    BY <2>1 DEF Inv, Panel, Everywhere, Once, Labelled, Remembered, Listed, InHand
  <2>4. ~ stale => Truth'
    BY <2>1 DEF Inv, Truth, NoneWhileMaking, OneReceiver, LostForAll, Handshaking, WillShow,
                HasSocket, SocketIsClosed, Alive
  <2>5. ~ stale => InOrder'
    BY <2>1 DEF Inv, InOrder, InHand
  <2> QED
    BY <2>1, <2>2, <2>3, <2>4, <2>5 DEF Inv
<1>2. CASE Next
  <2>1. Types /\ Panel /\ (~ stale => Truth /\ InOrder)
    BY DEF Inv
  <2>2. Types' /\ Panel' /\ (InOrder /\ OneReceiver => InOrder')
    BY <1>2, <2>1, TypesStep, PanelStep
  <2>3. ~ stale' => ~ stale
    BY <1>2 DEF Next, HandleDisconnect, StopReceiving, MarkDisconnected, CloseSocket, ClearSocket,
                NotifyLost, Notify, Gui, Show, ShowAlert, HandshakeDone, HandshakeFails, NotifyUp,
                Disconnect, SendQuit, Down, SendCommand, StartReceiver, ClickDisconnect,
                ClickCommand, ClickConnect, Receiver, Loop, EnterRecv, RecvData, RecvAlert,
                NotifyAlert, RecvTimeout, RecvEnd, LogLoss, ServerCloses, dashboard
  <2>4. ~ stale' => Truth' /\ InOrder'
    BY <1>2, <2>1, <2>2, <2>3, TruthStep DEF Truth
  <2> QED
    BY <2>2, <2>4 DEF Inv
<1> QED
  BY <1>1, <1>2

LEMMA Invariance == Spec => []Inv
  BY InitInv, InvStep, PTL DEF Spec

\* Every variable has its type: no thread is in a place that is not its own, no more
\* callbacks wait than the bound says, and every alert that waits, or is in the
\* dashboard's list or in AlertManager's, has been stored.
THEOREM TypeCorrect == Spec => []TypeOK
<1>1. Inv => TypeOK
  BY DEF Inv, Types
<1> QED
  BY <1>1, Invariance, PTL

LEMMA InvShown == Inv => ShownIsTrue
<1> SUFFICES ASSUME Inv, Quiet, ~ stale
             PROVE  shown = connected /\ (connected => socket # NoSock /\ ~ SocketIsClosed)
  BY DEF ShownIsTrue
<1>1. pc[GUI] = "idle" /\ Len(callbacks) = 0
  BY DEF Quiet
<1>2. \A t \in Threads : pc[t] \notin Telling
  <2>1. \A k \in Socks : pc[k] \notin Telling
    BY Places DEF Quiet, Handling
  <2> QED
    BY <1>1, <2>1, Places DEF Threads
<1>3. Tells(callbacks, shown, connected)
  BY <1>1, <1>2 DEF Inv, Truth, WillShow
<1>4. shown = connected
  BY <1>1, <1>3 DEF Tells
<1> QED
  BY <1>1, <1>4 DEF Inv, Truth, HasSocket

\* What the dashboard shows of the connection is the truth, and a connection that
\* counts as one has its socket, whenever nothing is under way (network.py and
\* dashboard.py): whichever thread notices a loss, and however their steps
\* interleave, as long as Connect was not clicked with an older receiver about.
THEOREM ShownTrue == Spec => []ShownIsTrue
  BY InvShown, Invariance, PTL

\* A list of different numbers from 1 to n, in which none of these is missing, has n of them.
LEMMA AllOnce ==
  ASSUME NEW n \in Nat, NEW r \in Seq(1 .. n),
         \A i, j \in 1 .. Len(r) : r[i] = r[j] => i = j,
         \A m \in 1 .. n : \E i \in 1 .. Len(r) : r[i] = m
  PROVE  Len(r) = n
<1>1. Len(r) \in Nat /\ r \in [1 .. Len(r) -> 1 .. n] /\ DOMAIN r = 1 .. Len(r)
  BY LenProperties
<1>2. r \in Bijection(1 .. Len(r), 1 .. n)
  BY <1>1 DEF Bijection, Injection, Surjection, IsInjective
<1>3. ExistsBijection(1 .. Len(r), 1 .. n)
  BY <1>2 DEF ExistsBijection
<1>4. ASSUME NEW m \in Nat PROVE IsFiniteSet(1 .. m) /\ Cardinality(1 .. m) = m
  <2>1. IsFiniteSet(1 .. m) /\ Cardinality(1 .. m) = IF 1 > m THEN 0 ELSE m - 1 + 1
    BY FS_Interval
  <2> QED
    BY <2>1
<1> QED
  BY <1>1, <1>3, <1>4, FS_Bijection

LEMMA InvAgrees == Inv => PanelAgrees
<1> SUFFICES ASSUME Inv, \A k \in Socks : pc[k] # "alert",
                    \A i \in DOMAIN callbacks : callbacks[i][1] # "alert"
             PROVE  /\ label = total /\ Len(rows) = total
                    /\ \A n \in 1 .. total : \E i \in DOMAIN rows : rows[i] = n
                    /\ ~ stale => kept = SubSeq(rows, total - Len(kept) + 1, total)
  BY DEF PanelAgrees
<1>1. Types /\ Panel /\ (~ stale => InOrder)
  BY DEF Inv
<1>2. PanelTypes /\ CallbackTypes
  BY <1>1, TypesAre
<1>3. \A n : ~ InHand(n)
  BY DEF InHand
<1>4. \A n : ~ Queued(callbacks, n)
  BY <1>2, Kinds DEF Queued, CallbackTypes
<1>5. label = total /\ \A n \in 1 .. total : Listed(n)
  BY <1>1, <1>3, <1>4 DEF Panel, Labelled, Everywhere
<1>6. total \in Nat /\ rows \in Seq(1 .. total) /\ kept \in Seq(1 .. total)
  BY <1>2 DEF PanelTypes
<1>7. Len(rows) = total
  BY <1>1, <1>5, <1>6, AllOnce DEF Listed, Panel, Once
<1>8. \A n \in 1 .. total : \E i \in DOMAIN rows : rows[i] = n
  <2>1. DOMAIN rows = 1 .. Len(rows)
    BY <1>6, LenProperties
  <2> QED
    BY <1>5, <2>1 DEF Listed
<1>9. ASSUME ~ stale PROVE kept = SubSeq(rows, total - Len(kept) + 1, total)
  <2> DEFINE end == SubSeq(rows, total - Len(kept) + 1, total)
             from == total - Len(kept) + 1
  <2>1. Len(kept) \in 0 .. total /\ \A i \in 1 .. Len(kept) : kept[i] = (total - Len(kept)) + i
    BY <1>1, <1>6 DEF Panel, Remembered
  <2>2. \A i \in 1 .. total : rows[i] = i
    BY <1>1, <1>7, <1>9 DEF InOrder
  <2>3. from \in Int /\ \A i \in from .. total : i \in 1 .. total /\ rows[i] \in 1 .. total
    BY <1>6, <2>1, <2>2
  <2>4. /\ end \in Seq(1 .. total)
        /\ Len(end) = IF from <= total THEN total - from + 1 ELSE 0
        /\ \A i \in 1 .. total - from + 1 : end[i] = rows[from + i - 1]
    BY <1>6, <2>3, SubSeqProperties
  <2> HIDE DEF end
  <2>5. Len(end) = Len(kept)
    BY <1>6, <2>1, <2>4
  <2>6. ASSUME NEW i \in 1 .. Len(kept) PROVE kept[i] = end[i]
    <3>1. i \in 1 .. total - from + 1 /\ from + i - 1 \in 1 .. total
          /\ from + i - 1 = (total - Len(kept)) + i
      BY <1>6, <2>1
    <3> QED
      BY <2>1, <2>2, <2>4, <3>1
  <2>7. kept = end
    BY <1>6, <2>4, <2>5, <2>6, SeqEqual
  <2> QED
    BY <2>7 DEF end
<1> QED
  BY <1>5, <1>7, <1>8, <1>9

\* When no alert is on its way the dashboard's list has every alert once, its label
\* says how many, and AlertManager remembers the last ones of the list, if there was
\* one receiver at a time (alerts.py, on_new_alert and _append_alert).
THEOREM PanelAgreesHolds == Spec => []PanelAgrees
  BY InvAgrees, Invariance, PTL
=============================================================================
