------------------------- MODULE ConnectionRegistry -------------------------
(***************************************************************************)
(* The life of a connection in the server: the accept loop and the         *)
(* shutdown sequence of main (server.c), the list of client nodes under    *)
(* g_registry_lock with its descriptors, the session threads that serve    *)
(* and remove their node, and the broadcasts of the metrics thread, which  *)
(* holds the lock while it sends to one client after the other             *)
(* (connection_handler.c).  What the lines say is MonitoringServer's       *)
(* subject; here a line is a write that may block, fail or raise SIGPIPE.  *)
(***************************************************************************)
EXTENDS Integers, Sequences

CONSTANTS
  Clients,     \* the connections made in the run
  Fds,         \* the descriptors
  Stallers,    \* clients that stop reading: a write to them blocks
  Nobody,      \* neither a client nor a thread
  MaxPending   \* commands a client has under way at a time

ASSUME StallersAssumption == Stallers \subseteq Clients
ASSUME MaxPendingAssumption == MaxPending \in Nat
ASSUME NobodyAssumption == Nobody \notin Clients \cup Fds
ASSUME ThreadsAssumption == {"main", "metrics"} \cap (Clients \cup {Nobody}) = {}

VARIABLES
  main,       \* the main thread: pc, and the client it has just accepted
  signalled,  \* g_shutdown_requested
  stop,       \* g_stop_flag of the metrics thread
  registry,   \* the list from g_registry_head on
  node,       \* node[c]: "none", "live" or "freed"
  fd,         \* fd[c]: the member fd of c's node
  owner,      \* owner[f]: the connection descriptor f is open on, or Nobody
  lock,       \* who holds g_registry_lock
  metrics,    \* the metrics thread: pc, and the nodes still to be sent to
  session,    \* session[c]: the program counter of c's session thread
  peer,       \* peer[c]: "away", "connected", "closed" or "reset"
  pending,    \* pending[c]: commands sent and not yet taken up
  killed      \* what has ended the process: "SIGPIPE", "detach", or "no"thing yet

vars == <<main, signalled, stop, registry, node, fd, owner, lock, metrics,
          session, peer, pending, killed>>
nodes == <<registry, node, fd, owner>>
server == <<main, signalled, stop>>

Registered == {registry[i] : i \in 1 .. Len(registry)}
Running == killed = "no" /\ main.pc # "exited"

TypeOK ==
  /\ main \in [pc : {"accept", "add", "spawn", "stop", "join", "close", "destroy", "exited"},
               client : Clients \cup {Nobody}]
  /\ signalled \in BOOLEAN /\ stop \in BOOLEAN /\ killed \in {"no", "SIGPIPE", "detach"}
  /\ registry \in Seq(Clients)
  /\ node \in [Clients -> {"none", "live", "freed"}]
  /\ fd \in [Clients -> Fds \cup {Nobody}]
  /\ owner \in [Fds -> Clients \cup {Nobody}]
  /\ lock \in Clients \cup {"main", "metrics", Nobody}
  /\ metrics \in [pc : {"idle", "sending", "stopped"}, todo : Seq(Clients)]
  /\ session \in [Clients -> {"none", "idle", "reply", "listing", "bye", "remove", "gone"}]
  /\ peer \in [Clients -> {"away", "connected", "closed", "reset"}]
  /\ pending \in [Clients -> 0 .. MaxPending]

Init ==
  /\ main = [pc |-> "accept", client |-> Nobody]
  /\ signalled = FALSE /\ stop = FALSE /\ killed = "no"
  /\ registry = <<>>
  /\ node = [c \in Clients |-> "none"]
  /\ fd = [c \in Clients |-> Nobody]
  /\ owner = [f \in Fds |-> Nobody]
  /\ lock = Nobody
  /\ metrics = [pc |-> "idle", todo |-> <<>>]
  /\ session = [c \in Clients |-> "none"]
  /\ peer = [c \in Clients |-> "away"]
  /\ pending = [c \in Clients |-> 0]

-----------------------------------------------------------------------------
(* The clients and the operator of the server *)

Signal ==
  /\ Running /\ ~ signalled
  /\ signalled' = TRUE
  /\ UNCHANGED <<main, stop, nodes, lock, metrics, session, peer, pending, killed>>

Send(c) ==
  /\ Running /\ peer[c] = "connected" /\ pending[c] < MaxPending
  /\ pending' = [pending EXCEPT ![c] = @ + 1]
  /\ UNCHANGED <<server, nodes, lock, metrics, session, peer, killed>>

\* The client closes its socket; what it sent before can still be read.  When it
\* leaves data unread, its kernel resets the connection at once.
Leave(c) ==
  /\ Running /\ peer[c] = "connected"
  /\ peer' = [peer EXCEPT ![c] = IF c \in Stallers THEN "reset" ELSE "closed"]
  /\ UNCHANGED <<server, nodes, lock, metrics, session, pending, killed>>

-----------------------------------------------------------------------------
(* main: the accept loop *)

Accept(c, f) ==
  /\ Running /\ main.pc = "accept" /\ ~ signalled
  /\ peer[c] = "away" /\ owner[f] = Nobody
  /\ peer' = [peer EXCEPT ![c] = "connected"]
  /\ owner' = [owner EXCEPT ![f] = c]
  /\ node' = [node EXCEPT ![c] = "live"]
  /\ fd' = [fd EXCEPT ![c] = f]
  /\ main' = [pc |-> "add", client |-> c]
  /\ UNCHANGED <<signalled, stop, registry, lock, metrics, session, pending, killed>>

\* connection_registry_add
Add ==
  /\ Running /\ main.pc = "add" /\ lock = Nobody
  /\ registry' = <<main.client>> \o registry
  /\ main' = [main EXCEPT !.pc = "spawn"]
  /\ UNCHANGED <<signalled, stop, node, fd, owner, lock, metrics, session, peer, pending, killed>>

\* A session thread begins with the welcome line.  The result of pthread_create is
\* not looked at: when it fails the node stays registered without a thread, and
\* what is detached is no thread, which is undefined: an error, or the end.
Spawn ==
  /\ Running /\ main.pc = "spawn"
  /\ \/ session' = [session EXCEPT ![main.client] = "reply"] /\ UNCHANGED killed
     \/ killed' \in {"no", "detach"} /\ UNCHANGED session
  /\ main' = [pc |-> "accept", client |-> Nobody]
  /\ UNCHANGED <<signalled, stop, nodes, lock, metrics, peer, pending>>

-----------------------------------------------------------------------------
(* main: the shutdown sequence *)

NoFdLeft == \A f \in Fds : owner[f] # Nobody

\* on_sigint has shut the listening socket down, so that accept returns.  So it does
\* at once when no descriptor is left for a connection (EMFILE), and that error, as
\* any other, ends the loop as well.
LeaveLoop ==
  /\ Running /\ main.pc = "accept" /\ (signalled \/ NoFdLeft)
  /\ main' = [main EXCEPT !.pc = "stop"]
  /\ UNCHANGED <<signalled, stop, nodes, lock, metrics, session, peer, pending, killed>>

\* Variant with a planted fault: the metrics thread is joined without being asked
\* to stop.
RequestStopForgotten ==
  /\ Running /\ main.pc = "stop"
  /\ main' = [main EXCEPT !.pc = "join"]
  /\ UNCHANGED <<signalled, stop, nodes, lock, metrics, session, peer, pending, killed>>

\* metrics_request_stop
RequestStop ==
  /\ Running /\ main.pc = "stop"
  /\ stop' = TRUE
  /\ main' = [main EXCEPT !.pc = "join"]
  /\ UNCHANGED <<signalled, nodes, lock, metrics, session, peer, pending, killed>>

Join ==
  /\ Running /\ main.pc = "join" /\ metrics.pc = "stopped"
  /\ main' = [main EXCEPT !.pc = "close"]
  /\ UNCHANGED <<signalled, stop, nodes, lock, metrics, session, peer, pending, killed>>

\* Variant with a planted fault: the walk begins with the second node.
CloseAllButFirst ==
  /\ Running /\ main.pc = "close" /\ lock = Nobody
  /\ LET rest == {registry[i] : i \in 2 .. Len(registry)}
     IN  /\ node' = [c \in Clients |-> IF c \in rest THEN "freed" ELSE node[c]]
         /\ owner' = [f \in Fds |-> IF \E c \in rest : fd[c] = f THEN Nobody ELSE owner[f]]
  /\ registry' = <<>>
  /\ main' = [main EXCEPT !.pc = "destroy"]
  /\ UNCHANGED <<signalled, stop, fd, lock, metrics, session, peer, pending, killed>>

\* connection_registry_shutdown
CloseAll ==
  /\ Running /\ main.pc = "close" /\ lock = Nobody
  /\ registry' = <<>>
  /\ node' = [c \in Clients |-> IF c \in Registered THEN "freed" ELSE node[c]]
  /\ owner' = [f \in Fds |-> IF \E c \in Registered : fd[c] = f THEN Nobody ELSE owner[f]]
  /\ main' = [main EXCEPT !.pc = "destroy"]
  /\ UNCHANGED <<signalled, stop, fd, lock, metrics, session, peer, pending, killed>>

\* The modules are destroyed, main returns and with it every thread ends.
Exit ==
  /\ Running /\ main.pc = "destroy"
  /\ main' = [main EXCEPT !.pc = "exited"]
  /\ UNCHANGED <<signalled, stop, nodes, lock, metrics, session, peer, pending, killed>>

-----------------------------------------------------------------------------
(* The metrics thread: one connection_broadcast after the other *)

MetricsStop ==
  /\ Running /\ metrics.pc = "idle" /\ stop
  /\ metrics' = [metrics EXCEPT !.pc = "stopped"]
  /\ UNCHANGED <<server, nodes, lock, session, peer, pending, killed>>

BroadcastBegin ==
  /\ Running /\ metrics.pc = "idle" /\ ~ stop /\ lock = Nobody
  /\ lock' = "metrics"
  /\ metrics' = [pc |-> "sending", todo |-> registry]
  /\ UNCHANGED <<server, nodes, session, peer, pending, killed>>

\* A write to c returns when c reads, or when the connection is broken.
Writable(c) == c \notin Stallers \/ peer[c] = "reset"

\* A write to a peer that has closed provokes its RST.
Written(c) == [peer EXCEPT ![c] = IF @ = "closed" THEN "reset" ELSE @]

\* send with MSG_NOSIGNAL; its result is not looked at.
BroadcastSend ==
  /\ Running /\ metrics.pc = "sending" /\ metrics.todo # <<>>
  /\ Writable(Head(metrics.todo))
  /\ peer' = Written(Head(metrics.todo))
  /\ metrics' = [metrics EXCEPT !.todo = Tail(@)]
  /\ UNCHANGED <<server, nodes, lock, session, pending, killed>>

BroadcastEnd ==
  /\ Running /\ metrics.pc = "sending" /\ metrics.todo = <<>>
  /\ lock' = Nobody
  /\ metrics' = [metrics EXCEPT !.pc = "idle"]
  /\ UNCHANGED <<server, nodes, session, peer, pending, killed>>

-----------------------------------------------------------------------------
(* Session threads *)

\* A command is taken up: LIST USERS takes the registry lock, QUIT ends.
Command(c) ==
  /\ Running /\ session[c] = "idle" /\ pending[c] > 0
  /\ pending' = [pending EXCEPT ![c] = @ - 1]
  /\ \/ /\ session' = [session EXCEPT ![c] = "reply"] /\ UNCHANGED lock
     \/ /\ session' = [session EXCEPT ![c] = "bye"] /\ UNCHANGED lock
     \/ /\ lock = Nobody /\ lock' = c
        /\ session' = [session EXCEPT ![c] = "listing"]
  /\ UNCHANGED <<server, nodes, metrics, peer, killed>>

\* dprintf(cli->fd, ...): a plain write.  When the peer has reset the connection
\* it fails; and unless a pending ECONNRESET is reported first, SIGPIPE, which
\* nobody catches or ignores, ends the process.
Answer(c) ==
  /\ Running /\ session[c] \in {"reply", "listing", "bye"} /\ Writable(c)
  /\ peer' = Written(c)
  /\ killed' \in IF peer[c] = "reset" /\ owner[fd[c]] = c
                THEN {"no", "SIGPIPE"} ELSE {"no"}
  /\ session' = [session EXCEPT ![c] = IF @ = "bye" THEN "remove" ELSE "idle"]
  /\ lock' = IF session[c] = "listing" THEN Nobody ELSE lock
  /\ UNCHANGED <<server, nodes, metrics, pending>>

\* Variants with a planted fault: the session closes its descriptor before it
\* takes its node out; it returns without taking the node out.
EndOfInputCloses(c) ==
  /\ Running /\ session[c] = "idle" /\ pending[c] = 0 /\ peer[c] # "connected"
  /\ owner' = [owner EXCEPT ![fd[c]] = Nobody]
  /\ session' = [session EXCEPT ![c] = "remove"]
  /\ UNCHANGED <<server, registry, node, fd, lock, metrics, peer, pending, killed>>
EndOfInputReturns(c) ==
  /\ Running /\ session[c] = "idle" /\ pending[c] = 0 /\ peer[c] # "connected"
  /\ session' = [session EXCEPT ![c] = "gone"]
  /\ UNCHANGED <<server, nodes, lock, metrics, peer, pending, killed>>

\* recv returns 0 or an error: the peer is gone, or the descriptor is closed.
EndOfInput(c) ==
  /\ Running /\ session[c] = "idle"
  /\ \/ pending[c] = 0 /\ peer[c] # "connected"
     \/ owner[fd[c]] # c
  /\ session' = [session EXCEPT ![c] = "remove"]
  /\ UNCHANGED <<server, nodes, lock, metrics, peer, pending, killed>>

\* Variant with a planted fault: the comparison never succeeds.
HasFdNever(d, f) == FALSE

\* cur->fd == fd
HasFd(d, f) == fd[d] = f

\* Variant with a planted fault: the list is changed without the lock.
RemoveUnlocked(c) ==
  /\ Running /\ session[c] = "remove"
  /\ registry' = SelectSeq(registry, LAMBDA d : d # c)
  /\ owner' = [owner EXCEPT ![fd[c]] = Nobody]
  /\ node' = [node EXCEPT ![c] = "freed"]
  /\ session' = [session EXCEPT ![c] = "gone"]
  /\ UNCHANGED <<server, fd, lock, metrics, peer, pending, killed>>

\* connection_registry_remove(cli->fd): the first node with that descriptor is
\* unlinked, closed and freed; if there is none, nothing happens.
Remove(c) ==
  /\ Running /\ session[c] = "remove" /\ lock = Nobody
  /\ LET hits == {i \in 1 .. Len(registry) : HasFd(registry[i], fd[c])}
     IN  IF hits = {} THEN UNCHANGED nodes
         ELSE LET i == CHOOSE j \in hits : \A k \in hits : j <= k
              IN  /\ registry' = SubSeq(registry, 1, i - 1)
                                   \o SubSeq(registry, i + 1, Len(registry))
                  /\ owner' = [owner EXCEPT ![fd[registry[i]]] = Nobody]
                  /\ node' = [node EXCEPT ![registry[i]] = "freed"]
                  /\ UNCHANGED fd
  /\ session' = [session EXCEPT ![c] = "gone"]
  /\ UNCHANGED <<server, lock, metrics, peer, pending, killed>>

-----------------------------------------------------------------------------

MainThread == Add \/ Spawn \/ LeaveLoop \/ RequestStop \/ Join \/ CloseAll \/ Exit

MetricsThread == MetricsStop \/ BroadcastBegin \/ BroadcastSend \/ BroadcastEnd

Session(c) == Command(c) \/ Answer(c) \/ EndOfInput(c) \/ Remove(c)

Next ==
  \/ Signal
  \/ \E c \in Clients : Send(c) \/ Leave(c) \/ Session(c)
  \/ \E c \in Clients, f \in Fds : Accept(c, f)
  \/ MainThread \/ MetricsThread

\* Every thread runs on.  A thread that waits for the lock gets it in the end:
\* the metrics thread sleeps between its broadcasts, and a session that lists
\* the users waits for its client's next command afterwards.  Nothing is
\* assumed of the clients.
Spec ==
  /\ Init /\ [][Next]_vars
  /\ WF_vars(Spawn \/ LeaveLoop \/ RequestStop \/ Join \/ Exit)
  /\ SF_vars(Add \/ CloseAll)
  /\ WF_vars(MetricsStop \/ BroadcastSend \/ BroadcastEnd)
  /\ SF_vars(BroadcastBegin)
  /\ \A c \in Clients : /\ WF_vars(Command(c) \/ Answer(c) \/ EndOfInput(c))
                        /\ SF_vars(Remove(c))

-----------------------------------------------------------------------------
(* Safety *)

\* A descriptor belongs to at most one registered node, and is open on that
\* node's connection, although descriptors are reused and nodes are looked up
\* by them: a broadcast, an answer and a removal reach their own client.
DescriptorsAreTheirOwn ==
  \A i \in 1 .. Len(registry) :
    /\ node[registry[i]] = "live" /\ owner[fd[registry[i]]] = registry[i]
    /\ \A j \in 1 .. Len(registry) : fd[registry[i]] = fd[registry[j]] => i = j

\* While the server is not shutting down, nobody uses a node after it was
\* freed: not its session, and not a broadcast on its way through the list.
NodesOutliveTheirUsers ==
  main.pc \notin {"destroy", "exited"} =>
    /\ \A c \in Clients : node[c] = "freed" => session[c] = "gone"
    /\ \A i \in 1 .. Len(metrics.todo) : node[metrics.todo[i]] = "live"

\* When the shutdown destroys the modules every connection is closed, those that
\* never got a thread included.
ShutdownClosesAll ==
  main.pc \in {"destroy", "exited"} => \A f \in Fds : owner[f] = Nobody

\* A session removes its own node, and no other.
RemovesOnlyItself ==
  [][\A c \in Clients : session[c] = "remove" /\ session'[c] = "gone" =>
       Registered' = Registered \ {c}]_vars

-----------------------------------------------------------------------------
(* Liveness *)

\* A client that has left is not kept, provided that it has a session thread: its
\* node goes, and its descriptor can be used again.
LeaversAreRemoved ==
  \A c \in Clients :
    (c \in Registered /\ session[c] # "none" /\ peer[c] # "connected")
      ~> (c \notin Registered \/ ~ Running)

\* A signal ends the server, and so does leaving the accept loop otherwise.
ShutdownCompletes == (signalled \/ main.pc = "stop") ~> ~ Running

-----------------------------------------------------------------------------
(* What the documents say *)

\* ARCHITECTURE.md: "MSG_NOSIGNAL on send() to prevent SIGPIPE".
NoSigpipe == killed # "SIGPIPE"
=============================================================================
