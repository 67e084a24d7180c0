----------------------- MODULE ConnectionRegistryProofs -----------------------
(* Proofs about ConnectionRegistry: descriptors, nodes, sessions and the      *)
(* broadcast, for any number of clients and descriptors, whoever stalls.      *)
EXTENDS ConnectionRegistry, SequenceTheorems, TLAPS

-----------------------------------------------------------------------------
(* The inductive invariant.  The list holds the live nodes, each once, but    *)
(* for the one that main is about to add; the open descriptors and the live   *)
(* nodes are each other's; a session has a live node until the shutdown; and  *)
(* while a broadcast is on its way its lock keeps what it still has to visit   *)
(* in the list.                                                               *)

BeingAdded(c) == main.pc = "add" /\ main.client = c

ShutDown == main.pc \in {"destroy", "exited"}

Distinct == \A i, j \in 1 .. Len(registry) : registry[i] = registry[j] => i = j

ListedIsLive ==
  \A c \in Clients : c \in Registered <=> node[c] = "live" /\ ~ BeingAdded(c)

LiveIsOpen == \A c \in Clients : node[c] = "live" => fd[c] \in Fds /\ owner[fd[c]] = c

OpenIsLive ==
  \A f \in Fds : owner[f] # Nobody => node[owner[f]] = "live" /\ fd[owner[f]] = f

Lives ==
  /\ \A c \in Clients : peer[c] = "away" => node[c] = "none"
  /\ \A c \in Clients : node[c] = "none" => session[c] = "none"
  /\ \A c \in Clients : node[c] = "freed" /\ ~ ShutDown => session[c] = "gone"
  /\ main.pc \in {"add", "spawn"} =>
       /\ main.client \in Clients
       /\ node[main.client] = "live" /\ session[main.client] = "none"

Locking ==
  /\ \A c \in Clients : session[c] = "listing" => lock = c
  /\ metrics.pc = "sending" <=> lock = "metrics"
  /\ metrics.pc # "sending" => metrics.todo = <<>>
  /\ \A i \in 1 .. Len(metrics.todo) : metrics.todo[i] \in Registered

Emptied == ShutDown => registry = <<>>

Inv ==
  /\ TypeOK /\ Distinct /\ ListedIsLive /\ LiveIsOpen /\ OpenIsLive /\ Lives /\ Locking
  /\ Emptied

-----------------------------------------------------------------------------
(* Sequences: an element put in front, one taken out, the first one dropped.  *)

\* What <<a>> \o s is.
LEMMA InFront ==
  ASSUME NEW S, NEW s \in Seq(S), NEW a \in S
  PROVE  /\ <<a>> \o s \in Seq(S) /\ Len(<<a>> \o s) = Len(s) + 1
         /\ (<<a>> \o s)[1] = a
         /\ \A i \in 1 .. Len(s) : (<<a>> \o s)[i + 1] = s[i]
  OBVIOUS

Without(s, i) == SubSeq(s, 1, i - 1) \o SubSeq(s, i + 1, Len(s))

\* What is left when one element is unlinked.
LEMMA WithoutOne ==
  ASSUME NEW S, NEW s \in Seq(S), NEW i \in 1 .. Len(s)
  PROVE  /\ Without(s, i) \in Seq(S) /\ Len(Without(s, i)) = Len(s) - 1
         /\ \A k \in 1 .. Len(s) - 1 : Without(s, i)[k] = IF k < i THEN s[k] ELSE s[k + 1]
<1> DEFINE p == SubSeq(s, 1, i - 1)
           q == SubSeq(s, i + 1, Len(s))
<1>1. p \in Seq(S) /\ Len(p) = i - 1 /\ \A k \in 1 .. i - 1 : p[k] = s[k]
  OBVIOUS
<1>2. q \in Seq(S) /\ Len(q) = Len(s) - i /\ \A k \in 1 .. Len(s) - i : q[k] = s[i + k]
  BY SubSeqProperties
<1>3. Without(s, i) = p \o q
  BY DEF Without
<1> HIDE DEF p, q
<1>4. /\ p \o q \in Seq(S) /\ Len(p \o q) = Len(p) + Len(q)
      /\ \A k \in 1 .. Len(p) + Len(q) :
           (p \o q)[k] = IF k <= Len(p) THEN p[k] ELSE q[k - Len(p)]
  BY <1>1, <1>2, ConcatProperties
<1>5. ASSUME NEW k \in 1 .. Len(s) - 1
      PROVE  (p \o q)[k] = IF k < i THEN s[k] ELSE s[k + 1]
  <2>1. CASE k < i
    BY <1>1, <1>2, <1>4, <2>1
  <2>2. CASE ~ (k < i)
    <3>1. k - Len(p) \in 1 .. Len(s) - i /\ i + (k - Len(p)) = k + 1 /\ ~ (k <= Len(p))
      BY <1>1, <2>2
    <3> QED
      <4>1. (p \o q)[k] = q[k - Len(p)]
        BY <1>1, <1>2, <1>4, <3>1
      <4>2. q[k - Len(p)] = s[i + (k - Len(p))]
        BY <1>2, <3>1
      <4> QED
        BY <2>2, <3>1, <4>1, <4>2
  <2> QED
    BY <2>1, <2>2
<1> QED
  BY <1>1, <1>2, <1>3, <1>4, <1>5

\* What Tail is.
LEMMA TailOf ==
  ASSUME NEW S, NEW s \in Seq(S), s # <<>>
  PROVE  /\ Head(s) \in S /\ Tail(s) \in Seq(S) /\ Len(Tail(s)) = Len(s) - 1
         /\ \A i \in 1 .. Len(Tail(s)) : Tail(s)[i] = s[i + 1] /\ i + 1 \in 1 .. Len(s)
  OBVIOUS

-----------------------------------------------------------------------------
(* The steps that change the list *)

\* Registered nodes have different descriptors.
LEMMA ListedFds ==
  ASSUME Inv, NEW i \in 1 .. Len(registry), NEW j \in 1 .. Len(registry),
         fd[registry[i]] = fd[registry[j]]
  PROVE  i = j
<1>1. registry[i] \in Clients /\ registry[j] \in Clients
  BY DEF Inv, TypeOK
<1>2. registry[i] \in Registered /\ registry[j] \in Registered
  BY DEF Registered
<1>3. owner[fd[registry[i]]] = registry[i] /\ owner[fd[registry[j]]] = registry[j]
  BY <1>1, <1>2 DEF Inv, ListedIsLive, LiveIsOpen
<1> QED
  BY <1>3 DEF Inv, Distinct

\* connection_registry_remove unlinks the session's own node; only after the
\* shutdown there is none.
LEMMA RemovesOwnNode ==
  ASSUME Inv, NEW c \in Clients, Remove(c)
  PROVE  \/ ShutDown /\ registry = <<>> /\ UNCHANGED nodes
         \/ \E i \in 1 .. Len(registry) :
              /\ ~ ShutDown /\ registry[i] = c /\ node[c] = "live"
              /\ registry' = Without(registry, i)
              /\ owner' = [owner EXCEPT ![fd[c]] = Nobody]
              /\ node' = [node EXCEPT ![c] = "freed"]
              /\ UNCHANGED fd
<1> DEFINE hits == {i \in 1 .. Len(registry) : HasFd(registry[i], fd[c])}
<1>1. session[c] = "remove"
  BY DEF Remove
<1>2. CASE ShutDown
  <2>1. registry = <<>>
    BY <1>2 DEF Inv, Emptied
  <2>2. hits = {}
    BY <2>1
  <2> QED
    BY <1>2, <2>1, <2>2 DEF Remove
<1>3. CASE ~ ShutDown
  <2>1. node[c] = "live"
    BY <1>1, <1>3 DEF Inv, TypeOK, Lives
  <2>2. ~ BeingAdded(c)
    BY <1>1 DEF Inv, Lives, BeingAdded
  <2>3. PICK i \in 1 .. Len(registry) : registry[i] = c
    BY <2>1, <2>2 DEF Inv, ListedIsLive, Registered
  <2>4. hits = {i}
    BY <2>3, ListedFds DEF HasFd
  <2>5. i = CHOOSE j \in hits : \A k \in hits : j <= k
    <3> HIDE DEF hits
    <3>1. i <= i
      BY DEF Inv, TypeOK
    <3> QED
      BY <2>4, <3>1
  <2> QED
    BY <1>3, <2>1, <2>3, <2>4, <2>5 DEF Remove, Without
<1> QED
  BY <1>2, <1>3

-----------------------------------------------------------------------------
(* Types *)

LEMMA AddType == Inv /\ Add => TypeOK'
<1> SUFFICES ASSUME Inv, Add PROVE TypeOK'
  OBVIOUS
<1>1. main.client \in Clients
  BY DEF Inv, Lives, Add
<1>2. registry' \in Seq(Clients)
  BY <1>1, InFront DEF Inv, TypeOK, Add
<1>3. main' \in [pc : {"accept", "add", "spawn", "stop", "join", "close", "destroy", "exited"},
                 client : Clients \cup {Nobody}]
  BY DEF Inv, TypeOK, Add
<1> QED
  BY <1>2, <1>3 DEF Inv, TypeOK, Add

LEMMA RemoveType == ASSUME Inv, NEW c \in Clients, Remove(c) PROVE TypeOK'
<1>1. registry' \in Seq(Clients)
  BY RemovesOwnNode, WithoutOne DEF Inv, TypeOK, nodes
<1>2. owner' \in [Fds -> Clients \cup {Nobody}] /\ node' \in [Clients -> {"none", "live", "freed"}]
  <2>1. CASE UNCHANGED nodes
    BY <2>1 DEF Inv, TypeOK, nodes
  <2>2. CASE owner' = [owner EXCEPT ![fd[c]] = Nobody] /\ node' = [node EXCEPT ![c] = "freed"]
    BY <2>2 DEF Inv, TypeOK
  <2> QED
    BY <2>1, <2>2, RemovesOwnNode
<1>3. UNCHANGED fd
  BY RemovesOwnNode DEF nodes
<1> QED
  BY <1>1, <1>2, <1>3 DEF Inv, TypeOK, Remove, server

LEMMA BroadcastType == Inv /\ MetricsThread => TypeOK'
<1> SUFFICES ASSUME Inv, MetricsThread PROVE TypeOK'
  OBVIOUS
<1>1. CASE MetricsStop
  BY <1>1 DEF Inv, TypeOK, MetricsStop, server, nodes
<1>2. CASE BroadcastBegin
  BY <1>2 DEF Inv, TypeOK, BroadcastBegin, server, nodes
<1>3. CASE BroadcastSend
  <2>1. Head(metrics.todo) \in Clients /\ Tail(metrics.todo) \in Seq(Clients)
    BY <1>3, TailOf DEF Inv, TypeOK, BroadcastSend
  <2>2. metrics' \in [pc : {"idle", "sending", "stopped"}, todo : Seq(Clients)]
    BY <1>3, <2>1 DEF Inv, TypeOK, BroadcastSend
  <2>3. peer' \in [Clients -> {"away", "connected", "closed", "reset"}]
    BY <1>3, <2>1 DEF Inv, TypeOK, BroadcastSend, Written
  <2> QED
    BY <1>3, <2>2, <2>3 DEF Inv, TypeOK, BroadcastSend, server, nodes
<1>4. CASE BroadcastEnd
  BY <1>4 DEF Inv, TypeOK, BroadcastEnd, server, nodes
<1> QED
  BY <1>1, <1>2, <1>3, <1>4 DEF MetricsThread

LEMMA MainType == Inv /\ MainThread => TypeOK'
<1> SUFFICES ASSUME Inv, MainThread PROVE TypeOK'
  OBVIOUS
<1>1. CASE Spawn
  BY <1>1 DEF Inv, TypeOK, Spawn, nodes
<1>2. CASE LeaveLoop
  BY <1>2 DEF Inv, TypeOK, LeaveLoop, nodes
<1>3. CASE RequestStop
  BY <1>3 DEF Inv, TypeOK, RequestStop, nodes
<1>4. CASE Join
  BY <1>4 DEF Inv, TypeOK, Join, nodes
<1>5. CASE CloseAll
  <2>1. registry' \in Seq(Clients) /\ node' \in [Clients -> {"none", "live", "freed"}]
    BY <1>5 DEF Inv, TypeOK, CloseAll
  <2>2. owner' \in [Fds -> Clients \cup {Nobody}]
    BY <1>5 DEF Inv, TypeOK, CloseAll
  <2>3. main' \in [pc : {"accept", "add", "spawn", "stop", "join", "close", "destroy", "exited"},
                   client : Clients \cup {Nobody}]
    BY <1>5 DEF Inv, TypeOK, CloseAll
  <2> QED
    BY <1>5, <2>1, <2>2, <2>3 DEF Inv, TypeOK, CloseAll
<1>6. CASE Exit
  BY <1>6 DEF Inv, TypeOK, Exit, nodes
<1> QED
  BY <1>1, <1>2, <1>3, <1>4, <1>5, <1>6, AddType DEF MainThread

LEMMA SessionType == ASSUME Inv, NEW c \in Clients, Session(c) PROVE TypeOK'
<1>1. CASE Command(c)
  <2>1. pending' \in [Clients -> 0 .. MaxPending]
    BY <1>1, MaxPendingAssumption DEF Inv, TypeOK, Command
  <2>2. lock' \in Clients \cup {"main", "metrics", Nobody}
    BY <1>1 DEF Inv, TypeOK, Command
  <2>3. session' \in [Clients -> {"none", "idle", "reply", "listing", "bye", "remove", "gone"}]
    BY <1>1 DEF Inv, TypeOK, Command
  <2> QED
    BY <1>1, <2>1, <2>2, <2>3 DEF Inv, TypeOK, Command, nodes, server
<1>2. CASE Answer(c)
  BY <1>2 DEF Inv, TypeOK, Answer, Written, nodes, server
<1>3. CASE EndOfInput(c)
  BY <1>3 DEF Inv, TypeOK, EndOfInput, nodes, server
<1> QED
  BY <1>1, <1>2, <1>3, RemoveType DEF Session

LEMMA TypeStep == Inv /\ [Next]_vars => TypeOK'
<1> SUFFICES ASSUME Inv, [Next]_vars PROVE TypeOK'
  OBVIOUS
<1>1. CASE UNCHANGED vars
  BY <1>1 DEF Inv, TypeOK, vars
<1>2. CASE Signal
  BY <1>2 DEF Inv, TypeOK, Signal, nodes
<1>3. ASSUME NEW c \in Clients, Send(c) PROVE TypeOK'
  BY <1>3, MaxPendingAssumption DEF Inv, TypeOK, Send, nodes, server
<1>4. ASSUME NEW c \in Clients, Leave(c) PROVE TypeOK'
  BY <1>4 DEF Inv, TypeOK, Leave, nodes, server
<1>5. ASSUME NEW c \in Clients, NEW f \in Fds, Accept(c, f) PROVE TypeOK'
  BY <1>5 DEF Inv, TypeOK, Accept
<1> QED
  BY <1>1, <1>2, <1>3, <1>4, <1>5, SessionType, MainType, BroadcastType DEF Next

-----------------------------------------------------------------------------
(* Every step keeps the invariant *)

Rest == Distinct /\ ListedIsLive /\ LiveIsOpen /\ OpenIsLive /\ Lives /\ Locking /\ Emptied

LEMMA InitInv == Init => Inv
<1> SUFFICES ASSUME Init PROVE Inv
  OBVIOUS
<1>1. TypeOK
  <2>1. metrics \in [pc : {"idle", "sending", "stopped"}, todo : Seq(Clients)]
    BY DEF Init
  <2>2. pending \in [Clients -> 0 .. MaxPending]
    BY MaxPendingAssumption DEF Init
  <2> QED
    BY <2>1, <2>2 DEF Init, TypeOK
<1>2. Registered = {}
  BY DEF Init, Registered
<1>3. Lives /\ Emptied /\ OpenIsLive /\ Distinct
  BY DEF Init, Lives, Emptied, OpenIsLive, Distinct
<1>4. Locking
  <2>1. metrics.pc = "idle" /\ metrics.todo = <<>> /\ lock # "metrics"
    BY ThreadsAssumption DEF Init
  <2>2. \A c \in Clients : session[c] # "listing"
    BY DEF Init
  <2> QED
    BY <2>1, <2>2 DEF Locking
<1>5. ListedIsLive /\ LiveIsOpen
  BY <1>2 DEF Init, ListedIsLive, LiveIsOpen
<1> QED
  BY <1>1, <1>3, <1>4, <1>5 DEF Inv

\* What holds while the list, the nodes and the descriptors stay as they are.
LEMMA SameNodes ==
  ASSUME Inv, UNCHANGED nodes
  PROVE  Distinct' /\ LiveIsOpen' /\ OpenIsLive' /\ Registered' = Registered
  BY DEF Inv, nodes, Distinct, LiveIsOpen, OpenIsLive, Registered

\* Nobody's connection begins.
LEMMA QuietKeepsRest ==
  ASSUME Inv, UNCHANGED <<main, nodes, lock, metrics, session>>,
         \A c \in Clients : peer'[c] = "away" => peer[c] = "away"
  PROVE  Rest'
<1>1. ListedIsLive'
  BY SameNodes DEF Inv, nodes, ListedIsLive, BeingAdded
<1>2. Lives' /\ Emptied'
  BY DEF Inv, nodes, Lives, Emptied, ShutDown
<1>3. Locking'
  BY SameNodes DEF Inv, Locking
<1> QED
  BY <1>1, <1>2, <1>3, SameNodes DEF Rest

LEMMA ClientKeepsRest ==
  ASSUME Inv, NEW c \in Clients, Send(c) \/ Leave(c)
  PROVE  Rest'
<1>1. UNCHANGED <<main, nodes, lock, metrics, session>>
  BY DEF Send, Leave, server
<1>2. \A d \in Clients : peer'[d] = "away" => peer[d] = "away"
  BY DEF Send, Leave, Inv, TypeOK
<1> QED
  BY <1>1, <1>2, QuietKeepsRest

\* main goes on: to another place than "add", with a connection at hand only if
\* it keeps the one it has.
LEMMA MainKeepsRest ==
  ASSUME Inv, main.pc # "add", main'.pc \notin {"add", "spawn"},
         ShutDown => ShutDown', ShutDown' => registry = <<>>,
         UNCHANGED <<nodes, lock, metrics, peer>>,
         \A c \in Clients :
           session'[c] # session[c] =>
             main.pc = "spawn" /\ c = main.client /\ session'[c] = "reply"
  PROVE  Rest'
<1>1. ListedIsLive'
  BY SameNodes DEF Inv, nodes, ListedIsLive, BeingAdded
<1>2. Lives'
  BY DEF Inv, nodes, Lives
<1>3. Locking'
  BY SameNodes DEF Inv, Locking
<1>4. Emptied'
  BY DEF Inv, nodes, Emptied
<1> QED
  BY <1>1, <1>2, <1>3, <1>4, SameNodes DEF Rest

LEMMA MainMovesKeepRest ==
  ASSUME Inv, Spawn \/ LeaveLoop \/ RequestStop \/ Join \/ Exit
  PROVE  Rest'
<1>1. /\ main.pc # "add" /\ main'.pc \notin {"add", "spawn"}
      /\ ShutDown => ShutDown'
      /\ ShutDown' => ShutDown
  BY DEF Inv, TypeOK, ShutDown, Spawn, LeaveLoop, RequestStop, Join, Exit
<1>2. UNCHANGED <<nodes, lock, metrics, peer>>
  BY DEF Spawn, LeaveLoop, RequestStop, Join, Exit
<1>3. ASSUME NEW c \in Clients
      PROVE  session'[c] # session[c] =>
               main.pc = "spawn" /\ c = main.client /\ session'[c] = "reply"
  <2>1. CASE Spawn
    BY <2>1 DEF Inv, TypeOK, Lives, Spawn
  <2>2. CASE UNCHANGED session
    BY <2>2
  <2> QED
    BY <2>1, <2>2 DEF LeaveLoop, RequestStop, Join, Exit
<1>4. ShutDown => registry = <<>>
  BY DEF Inv, Emptied
<1> QED
  BY <1>1, <1>2, <1>3, <1>4, MainKeepsRest

LEMMA AcceptKeepsRest ==
  ASSUME Inv, NEW c \in Clients, NEW f \in Fds, Accept(c, f)
  PROVE  Rest'
<1>1. /\ node[c] = "none" /\ session[c] = "none" /\ c # Nobody /\ owner[f] = Nobody
      /\ main.pc = "accept" /\ main' = [pc |-> "add", client |-> c] /\ ~ ShutDown
      /\ node' = [node EXCEPT ![c] = "live"] /\ fd' = [fd EXCEPT ![c] = f]
      /\ owner' = [owner EXCEPT ![f] = c] /\ peer' = [peer EXCEPT ![c] = "connected"]
      /\ UNCHANGED <<registry, session, lock, metrics>>
  BY NobodyAssumption DEF Accept, Inv, Lives, ShutDown
<1>2. Distinct' /\ Emptied' /\ Registered' = Registered
  BY <1>1 DEF Inv, Distinct, Emptied, ShutDown, Registered
<1>3. ListedIsLive'
  BY <1>1, <1>2 DEF Inv, TypeOK, ListedIsLive, BeingAdded
<1>4. LiveIsOpen'
  <2> SUFFICES ASSUME NEW d \in Clients, node'[d] = "live"
               PROVE  fd'[d] \in Fds /\ owner'[fd'[d]] = d
    BY DEF LiveIsOpen
  <2>1. CASE d = c
    BY <1>1, <2>1 DEF Inv, TypeOK
  <2>2. CASE d # c
    <3>1. fd'[d] = fd[d] /\ fd[d] \in Fds /\ owner[fd[d]] = d /\ d # Nobody
      BY <1>1, <2>2, NobodyAssumption DEF Inv, TypeOK, LiveIsOpen
    <3> QED
      BY <1>1, <3>1 DEF Inv, TypeOK
  <2> QED
    BY <2>1, <2>2
<1>5. OpenIsLive'
  BY <1>1 DEF Inv, TypeOK, OpenIsLive
<1>6. Lives'
  BY <1>1 DEF Inv, TypeOK, Lives, ShutDown
<1>7. Locking'
  BY <1>1, <1>2 DEF Inv, Locking
<1> QED
  BY <1>2, <1>3, <1>4, <1>5, <1>6, <1>7 DEF Rest

LEMMA AddKeepsRest == Inv /\ Add => Rest'
<1> SUFFICES ASSUME Inv, Add PROVE Rest'
  OBVIOUS
<1> DEFINE c == main.client
<1>1. /\ c \in Clients /\ node[c] = "live" /\ BeingAdded(c) /\ lock = Nobody
      /\ main'.pc = "spawn" /\ main'.client = c
      /\ UNCHANGED <<node, fd, owner, session, peer, lock, metrics>>
  BY DEF Add, Inv, TypeOK, Lives, BeingAdded
<1>2. c \notin Registered
  BY <1>1 DEF Inv, ListedIsLive
<1>3. /\ registry' \in Seq(Clients) /\ Len(registry') = Len(registry) + 1 /\ registry'[1] = c
      /\ \A i \in 1 .. Len(registry) : registry'[i + 1] = registry[i]
      /\ Len(registry) \in Nat
  BY <1>1, InFront DEF Add, Inv, TypeOK
<1>4. ASSUME NEW i \in 1 .. Len(registry')
      PROVE  \/ i = 1 /\ registry'[i] = c
             \/ i - 1 \in 1 .. Len(registry) /\ registry'[i] = registry[i - 1]
  <2>1. CASE i = 1
    BY <1>3, <2>1
  <2>2. CASE i # 1
    <3>1. i - 1 \in 1 .. Len(registry) /\ (i - 1) + 1 = i
      BY <1>3, <2>2
    <3> QED
      BY <1>3, <3>1
  <2> QED
    BY <2>1, <2>2
<1>5. Registered' = Registered \cup {c}
  <2>1. Registered' \subseteq Registered \cup {c}
    BY <1>4 DEF Registered
  <2>2. c \in Registered'
    BY <1>3 DEF Registered
  <2>3. ASSUME NEW i \in 1 .. Len(registry) PROVE registry[i] \in Registered'
    <3>1. i + 1 \in 1 .. Len(registry')
      BY <1>3
    <3> QED
      BY <1>3, <3>1 DEF Registered
  <2> QED
    BY <2>1, <2>2, <2>3 DEF Registered
<1>6. Distinct'
  <2> SUFFICES ASSUME NEW i \in 1 .. Len(registry'), NEW j \in 1 .. Len(registry'),
                      registry'[i] = registry'[j]
               PROVE  i = j
    BY DEF Distinct
  <2>1. \A k \in 1 .. Len(registry) : registry[k] # c
    BY <1>2 DEF Registered
  <2>2. CASE i = 1 \/ j = 1
    BY <1>3, <1>4, <2>1, <2>2
  <2>3. CASE i # 1 /\ j # 1
    <3>1. i - 1 = j - 1
      BY <1>4, <2>3 DEF Inv, Distinct
    <3> QED
      BY <1>3, <3>1
  <2> QED
    BY <2>2, <2>3
<1>7. ListedIsLive'
  BY <1>1, <1>5 DEF Inv, ListedIsLive, BeingAdded
<1>8. LiveIsOpen' /\ OpenIsLive'
  BY <1>1 DEF Inv, LiveIsOpen, OpenIsLive
<1>9. Lives' /\ Emptied'
  BY <1>1 DEF Inv, Lives, Emptied, ShutDown, BeingAdded
<1>10. Locking'
  BY <1>1, <1>5 DEF Inv, Locking
<1> QED
  BY <1>6, <1>7, <1>8, <1>9, <1>10 DEF Rest

LEMMA CloseAllKeepsRest == Inv /\ CloseAll => Rest'
<1> SUFFICES ASSUME Inv, CloseAll PROVE Rest'
  OBVIOUS
<1>1. /\ main.pc = "close" /\ main'.pc = "destroy" /\ lock = Nobody /\ registry' = <<>>
      /\ node' = [c \in Clients |-> IF c \in Registered THEN "freed" ELSE node[c]]
      /\ owner' = [f \in Fds |-> IF \E c \in Registered : fd[c] = f THEN Nobody ELSE owner[f]]
      /\ UNCHANGED <<fd, session, peer, lock, metrics>>
  BY DEF CloseAll, Inv, TypeOK
<1>2. Registered' = {}
  BY <1>1 DEF Registered
<1>3. \A c \in Clients : node'[c] # "live" /\ (node'[c] = "none" <=> node[c] = "none")
  BY <1>1 DEF Inv, ListedIsLive, BeingAdded
<1>4. \A f \in Fds : owner'[f] = Nobody
  BY <1>1 DEF Inv, TypeOK, ListedIsLive, OpenIsLive, BeingAdded
<1>5. Distinct' /\ Emptied'
  BY <1>1 DEF Distinct, Emptied
<1>6. ListedIsLive' /\ LiveIsOpen' /\ OpenIsLive'
  BY <1>2, <1>3, <1>4 DEF ListedIsLive, LiveIsOpen, OpenIsLive
<1>7. Lives'
  BY <1>1, <1>3 DEF Inv, Lives, ShutDown
<1>8. Locking'
  BY <1>1, ThreadsAssumption DEF Inv, Locking
<1> QED
  BY <1>5, <1>6, <1>7, <1>8 DEF Rest

LEMMA BroadcastKeepsRest == Inv /\ MetricsThread => Rest'
<1> SUFFICES ASSUME Inv, MetricsThread PROVE Rest'
  OBVIOUS
<1>1. UNCHANGED <<main, nodes, session>>
  BY DEF MetricsThread, MetricsStop, BroadcastBegin, BroadcastSend, BroadcastEnd, server
<1>2. \A c \in Clients : peer'[c] = "away" => peer[c] = "away"
  <2>1. CASE BroadcastSend
    BY <2>1 DEF BroadcastSend, Written, Inv, TypeOK
  <2>2. CASE UNCHANGED peer
    BY <2>2
  <2> QED
    BY <2>1, <2>2 DEF MetricsThread, MetricsStop, BroadcastBegin, BroadcastEnd
<1>3. ListedIsLive'
  BY <1>1, SameNodes DEF Inv, nodes, ListedIsLive, BeingAdded
<1>4. Lives' /\ Emptied'
  BY <1>1, <1>2 DEF Inv, nodes, Lives, Emptied, ShutDown
<1>5. Locking'
  <2>1. Registered' = Registered
    BY <1>1, SameNodes
  <2>2. CASE MetricsStop
    BY <1>1, <2>1, <2>2 DEF Inv, TypeOK, Locking, MetricsStop
  <2>3. CASE BroadcastBegin
    <3>1. /\ lock = Nobody /\ lock' = "metrics" /\ metrics'.pc = "sending"
          /\ metrics'.todo = registry
      BY <2>3 DEF BroadcastBegin
    <3>2. \A c \in Clients : session'[c] # "listing"
      BY <1>1, <3>1, NobodyAssumption DEF Inv, Locking
    <3>3. \A i \in 1 .. Len(registry) : registry[i] \in Registered
      BY DEF Registered
    <3> QED
      BY <2>1, <3>1, <3>2, <3>3 DEF Locking
  <2>4. CASE BroadcastSend
    <3>1. /\ metrics.pc = "sending" /\ UNCHANGED lock /\ metrics'.pc = metrics.pc
          /\ metrics'.todo = Tail(metrics.todo) /\ metrics.todo # <<>>
      BY <2>4 DEF BroadcastSend, Inv, TypeOK
    <3>2. \A i \in 1 .. Len(metrics'.todo) : metrics'.todo[i] \in Registered
      BY <3>1, TailOf DEF Inv, TypeOK, Locking
    <3> QED
      BY <1>1, <2>1, <3>1, <3>2 DEF Inv, Locking
  <2>5. CASE BroadcastEnd
    <3>1. /\ metrics.pc = "sending" /\ lock' = Nobody /\ metrics'.pc = "idle"
          /\ metrics'.todo = <<>> /\ lock = "metrics"
      BY <2>5 DEF BroadcastEnd, Inv, TypeOK, Locking
    <3>2. \A c \in Clients : session'[c] # "listing"
      BY <1>1, <3>1, ThreadsAssumption DEF Inv, Locking
    <3>3. lock' # "metrics"
      BY <3>1, ThreadsAssumption
    <3> QED
      BY <3>1, <3>2, <3>3 DEF Locking
  <2> QED
    BY <2>2, <2>3, <2>4, <2>5 DEF MetricsThread
<1> QED
  BY <1>1, <1>3, <1>4, <1>5, SameNodes DEF Rest

\* A session goes on without touching its node; it takes the lock when it is free,
\* or gives back the one it has.
LEMMA SessionMovesKeepRest ==
  ASSUME Inv, NEW c \in Clients, Command(c) \/ Answer(c) \/ EndOfInput(c)
  PROVE  Rest'
<1>1. UNCHANGED <<main, nodes, metrics>> /\ session[c] \notin {"none", "gone"}
  BY DEF Command, Answer, EndOfInput, server
<1>2. \A d \in Clients : /\ d # c => session'[d] = session[d]
                         /\ session'[c] # "none"
                         /\ peer'[d] = "away" => peer[d] = "away"
  <2>1. CASE Command(c)
    BY <2>1 DEF Command, Inv, TypeOK
  <2>2. CASE Answer(c)
    BY <2>2 DEF Answer, Written, Inv, TypeOK
  <2>3. CASE EndOfInput(c)
    BY <2>3 DEF EndOfInput, Inv, TypeOK
  <2> QED
    BY <2>1, <2>2, <2>3
<1>3. ListedIsLive'
  BY <1>1, SameNodes DEF Inv, nodes, ListedIsLive, BeingAdded
<1>4. Lives' /\ Emptied'
  <2>1. \A d \in Clients : node[d] = "freed" /\ ~ ShutDown => session'[d] = "gone"
    BY <1>1, <1>2 DEF Inv, Lives
  <2>2. \A d \in Clients : node[d] = "none" => session'[d] = "none"
    BY <1>1, <1>2 DEF Inv, Lives
  <2>3. main.pc \in {"add", "spawn"} => main.client # c
    BY <1>1 DEF Inv, Lives
  <2> QED
    BY <1>1, <1>2, <2>1, <2>2, <2>3 DEF Inv, nodes, Lives, Emptied, ShutDown
<1>5. Locking'
  <2>1. c # "metrics" /\ Nobody # "metrics" /\ \A d \in Clients : d # Nobody
    BY ThreadsAssumption, NobodyAssumption
  <2>2. \/ session'[c] # "listing" /\ UNCHANGED lock /\ session[c] # "listing"
        \/ session'[c] = "listing" /\ lock = Nobody /\ lock' = c
        \/ session[c] = "listing" /\ session'[c] # "listing" /\ lock = c /\ lock' = Nobody
    <3>1. CASE Command(c)
      BY <3>1 DEF Command, Inv, TypeOK
    <3>2. CASE Answer(c)
      BY <3>2 DEF Answer, Inv, TypeOK, Locking
    <3>3. CASE EndOfInput(c)
      BY <3>3 DEF EndOfInput, Inv, TypeOK
    <3> QED
      BY <3>1, <3>2, <3>3
  <2>3. \A d \in Clients : session'[d] = "listing" => lock' = d
    BY <1>2, <2>1, <2>2 DEF Inv, Locking
  <2>4. lock' = "metrics" <=> lock = "metrics"
    BY <2>1, <2>2
  <2> QED
    BY <1>1, <2>3, <2>4, SameNodes DEF Inv, Locking
<1> QED
  BY <1>1, <1>3, <1>4, <1>5, SameNodes DEF Rest

\* What is registered after a node has been unlinked.
LEMMA UnlinkedOne ==
  ASSUME Inv, NEW i \in 1 .. Len(registry), registry' = Without(registry, i)
  PROVE  /\ Registered' = Registered \ {registry[i]}
         /\ Distinct'
<1>1. /\ registry \in Seq(Clients) /\ Len(registry) \in Nat /\ Len(registry') = Len(registry) - 1
      /\ \A k \in 1 .. Len(registry) - 1 :
           registry'[k] = IF k < i THEN registry[k] ELSE registry[k + 1]
  <2>1. registry \in Seq(Clients) /\ Len(registry) \in Nat
    BY DEF Inv, TypeOK
  <2> QED
    BY <2>1, WithoutOne
<1> DEFINE old(k) == IF k < i THEN k ELSE k + 1
<1>2. \A k \in 1 .. Len(registry') :
        old(k) \in 1 .. Len(registry) /\ old(k) # i /\ registry'[k] = registry[old(k)]
  BY <1>1
<1>3. \A k, l \in 1 .. Len(registry') : old(k) = old(l) => k = l
  BY <1>1
<1>4. ASSUME NEW j \in 1 .. Len(registry), j # i
      PROVE  \E k \in 1 .. Len(registry') : registry'[k] = registry[j]
  <2>1. CASE j < i
    <3>1. j \in 1 .. Len(registry')
      BY <1>1, <2>1
    <3> QED
      BY <1>1, <2>1, <3>1
  <2>2. CASE j > i
    <3>1. j - 1 \in 1 .. Len(registry') /\ ~ (j - 1 < i) /\ (j - 1) + 1 = j
      BY <1>1, <2>2
    <3>2. registry'[j - 1] = registry[j]
      BY <1>1, <3>1
    <3> QED
      BY <3>1, <3>2
  <2> QED
    BY <1>4, <2>1, <2>2
<1> HIDE DEF old
<1>5. \A j, k \in 1 .. Len(registry) : registry[j] = registry[k] => j = k
  BY DEF Inv, Distinct
<1>6. Distinct'
  BY <1>2, <1>3, <1>5 DEF Distinct
<1>7. Registered' \subseteq Registered \ {registry[i]}
  BY <1>2, <1>5 DEF Registered
<1>8. Registered \ {registry[i]} \subseteq Registered'
  BY <1>4 DEF Registered
<1> QED
  BY <1>6, <1>7, <1>8

LEMMA RemoveKeepsRest ==
  ASSUME Inv, NEW c \in Clients, Remove(c)
  PROVE  Rest'
<1>1. /\ session[c] = "remove" /\ session' = [session EXCEPT ![c] = "gone"] /\ lock = Nobody
      /\ UNCHANGED <<main, lock, metrics, peer>>
  BY DEF Remove, server
<1>2. main.pc \in {"add", "spawn"} => main.client # c
  BY <1>1 DEF Inv, Lives
<1>3. /\ lock # "metrics" /\ metrics.todo = <<>>
      /\ \A d \in Clients : session'[d] # "listing"
  BY <1>1, ThreadsAssumption, NobodyAssumption DEF Inv, TypeOK, Locking
<1>4. Locking'
  BY <1>1, <1>3 DEF Inv, Locking
<1>5. CASE ShutDown /\ registry = <<>> /\ UNCHANGED nodes
  <2>1. ListedIsLive'
    BY <1>1, <1>5, SameNodes DEF Inv, nodes, ListedIsLive, BeingAdded
  <2>2. node[c] # "none"
    BY <1>1 DEF Inv, Lives
  <2>3. Lives' /\ Emptied'
    BY <1>1, <1>2, <1>5, <2>2 DEF Inv, TypeOK, nodes, Lives, Emptied, ShutDown
  <2> QED
    BY <1>4, <1>5, <2>1, <2>3, SameNodes DEF Rest
<1>6. ASSUME NEW i \in 1 .. Len(registry), ~ ShutDown, registry[i] = c, node[c] = "live",
             registry' = Without(registry, i), owner' = [owner EXCEPT ![fd[c]] = Nobody],
             node' = [node EXCEPT ![c] = "freed"], UNCHANGED fd
      PROVE  Rest'
  <2>1. Registered' = Registered \ {c} /\ Distinct'
    BY <1>6, UnlinkedOne
  <2>2. fd[c] \in Fds /\ owner[fd[c]] = c
    BY <1>6 DEF Inv, LiveIsOpen
  <2>3. ListedIsLive'
    BY <1>1, <1>6, <2>1 DEF Inv, TypeOK, ListedIsLive, BeingAdded
  <2>4. LiveIsOpen'
    <3> SUFFICES ASSUME NEW d \in Clients, node'[d] = "live"
                 PROVE  fd[d] \in Fds /\ owner'[fd[d]] = d
      BY <1>6 DEF LiveIsOpen
    <3>1. d # c /\ fd[d] \in Fds /\ owner[fd[d]] = d
      BY <1>6 DEF Inv, TypeOK, LiveIsOpen
    <3>2. fd[d] # fd[c]
      BY <2>2, <3>1
    <3> QED
      BY <1>6, <3>1, <3>2 DEF Inv, TypeOK
  <2>5. OpenIsLive'
    <3> SUFFICES ASSUME NEW f \in Fds, owner'[f] # Nobody
                 PROVE  node'[owner'[f]] = "live" /\ fd[owner'[f]] = f
      BY <1>6 DEF OpenIsLive
    <3>1. f # fd[c] /\ owner'[f] = owner[f]
      BY <1>6, <2>2 DEF Inv, TypeOK
    <3>2. node[owner[f]] = "live" /\ fd[owner[f]] = f /\ owner[f] \in Clients
      BY <3>1 DEF Inv, TypeOK, OpenIsLive
    <3> QED
      BY <1>6, <3>1, <3>2 DEF Inv, TypeOK
  <2>6. Lives' /\ Emptied'
    BY <1>1, <1>2, <1>6 DEF Inv, TypeOK, Lives, Emptied, ShutDown
  <2> QED
    BY <1>4, <2>1, <2>3, <2>4, <2>5, <2>6 DEF Rest
<1> QED
  BY <1>5, <1>6, RemovesOwnNode

LEMMA InvStep == Inv /\ [Next]_vars => Inv'
<1> SUFFICES ASSUME Inv, [Next]_vars PROVE Rest'
  BY TypeStep DEF Inv, Rest
<1>1. CASE UNCHANGED vars
  BY <1>1, QuietKeepsRest DEF vars, nodes
<1>2. CASE Signal
  BY <1>2, QuietKeepsRest DEF Signal
<1>3. CASE MainThread
  BY <1>3, MainMovesKeepRest, AddKeepsRest, CloseAllKeepsRest DEF MainThread
<1>4. ASSUME NEW c \in Clients, Session(c) PROVE Rest'
  BY <1>4, SessionMovesKeepRest, RemoveKeepsRest DEF Session
<1> QED
  BY <1>1, <1>2, <1>3, <1>4, ClientKeepsRest, AcceptKeepsRest, BroadcastKeepsRest DEF Next

LEMMA InvAlways == Spec => []Inv
  BY InitInv, InvStep, PTL DEF Spec

-----------------------------------------------------------------------------
(* The theorems *)

\* Type correctness of every thread's place, the list, the descriptors and the lock.
THEOREM TypeCorrect == Spec => []TypeOK
  BY InvAlways, PTL DEF Inv

\* However often descriptors are reused, a registered node's descriptor is open on
\* that node's connection and no other node has it.
THEOREM DescriptorsSafe == Spec => []DescriptorsAreTheirOwn
<1>1. Inv => DescriptorsAreTheirOwn
  <2> SUFFICES ASSUME Inv, NEW i \in 1 .. Len(registry)
               PROVE  /\ node[registry[i]] = "live" /\ owner[fd[registry[i]]] = registry[i]
                      /\ \A j \in 1 .. Len(registry) : fd[registry[i]] = fd[registry[j]] => i = j
    BY DEF DescriptorsAreTheirOwn
  <2>1. registry[i] \in Clients /\ registry[i] \in Registered
    BY DEF Inv, TypeOK, Registered
  <2> QED
    BY <2>1, ListedFds DEF Inv, ListedIsLive, LiveIsOpen
<1> QED
  BY <1>1, InvAlways, PTL

\* Before the shutdown frees the list, no session and no broadcast reaches a node
\* that was freed.
THEOREM NodesSafe == Spec => []NodesOutliveTheirUsers
<1>1. Inv => NodesOutliveTheirUsers
  <2> SUFFICES ASSUME Inv, ~ ShutDown
               PROVE  /\ \A c \in Clients : node[c] = "freed" => session[c] = "gone"
                      /\ \A i \in 1 .. Len(metrics.todo) : node[metrics.todo[i]] = "live"
    BY DEF NodesOutliveTheirUsers, ShutDown
  <2>1. \A i \in 1 .. Len(metrics.todo) : metrics.todo[i] \in Clients
    BY DEF Inv, TypeOK
  <2> QED
    BY <2>1 DEF Inv, Lives, Locking, ListedIsLive
<1> QED
  BY <1>1, InvAlways, PTL

\* The walk of the shutdown leaves no descriptor open, whoever is registered and
\* whether or not it has a thread.
THEOREM ShutdownClosesEverything == Spec => []ShutdownClosesAll
<1>1. Inv => ShutdownClosesAll
  <2> SUFFICES ASSUME Inv, ShutDown, NEW f \in Fds, owner[f] # Nobody
               PROVE  FALSE
    BY DEF ShutdownClosesAll, ShutDown
  <2>1. owner[f] \in Clients /\ node[owner[f]] = "live" /\ ~ BeingAdded(owner[f])
    BY DEF Inv, TypeOK, OpenIsLive, ShutDown, BeingAdded
  <2>2. owner[f] \in Registered
    BY <2>1 DEF Inv, ListedIsLive
  <2> QED
    BY <2>2 DEF Inv, Emptied, Registered
<1> QED
  BY <1>1, InvAlways, PTL

\* A session that ends takes its own node out of the list and no other, although
\* it looks for it by its descriptor.
THEOREM RemovalSafe == Spec => RemovesOnlyItself
<1>1. Inv /\ [Next]_vars =>
        \A c \in Clients : session[c] = "remove" /\ session'[c] = "gone" =>
          Registered' = Registered \ {c}
  <2> SUFFICES ASSUME Inv, [Next]_vars, NEW c \in Clients,
                      session[c] = "remove", session'[c] = "gone"
               PROVE  Registered' = Registered \ {c}
    OBVIOUS
  <2>1. Remove(c)
    <3>1. CASE UNCHANGED session
      BY <3>1
    <3>2. CASE Spawn
      BY <3>2 DEF Spawn, Inv, TypeOK
    <3>3. ASSUME NEW d \in Clients, Session(d) PROVE Remove(c)
      BY <3>3, ZenonT(40) DEF Session, Command, Answer, EndOfInput, Remove, Inv, TypeOK
    <3> QED
      BY <3>1, <3>2, <3>3 DEF Next, vars, Signal, Send, Leave, Accept, MainThread, Add, LeaveLoop,
         RequestStop, Join, CloseAll, Exit, MetricsThread, MetricsStop, BroadcastBegin,
         BroadcastSend, BroadcastEnd
  <2>2. CASE ShutDown /\ registry = <<>> /\ UNCHANGED nodes
    BY <2>2 DEF nodes, Registered
  <2>3. ASSUME NEW i \in 1 .. Len(registry), registry[i] = c, registry' = Without(registry, i)
        PROVE  Registered' = Registered \ {c}
    BY <2>3, UnlinkedOne
  <2> QED
    BY <2>1, <2>2, <2>3, RemovesOwnNode
<1> QED
  BY <1>1, InvAlways, PTL DEF Spec, RemovesOnlyItself
=============================================================================
