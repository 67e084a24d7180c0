----------------------- MODULE MonitoringServerProofs -----------------------
(* Proofs about MonitoringServer: who may do what, what the metrics thread    *)
(* and the sessions write to one socket, and in which order, for any number   *)
(* of clients, cycles and commands, and any size of the history.              *)
EXTENDS MonitoringServer, FiniteSetTheorems, FunctionTheorems, SequenceTheorems, TLAPS

-----------------------------------------------------------------------------
(* The lines that a client can be sent, and the state in full                 *)

AlertKinds ==
  [type : {"rpm_high", "load_low", "temp_high", "pressure_high", "pressure_low"},
   severity : {"critical", "warning"}]

Records == [alert : AlertKinds, number : Nat]

Roles == {"SUPERVISOR", "ENGINEER"}

Pcs == {"none", "idle", "readback", "sending", "removing", "gone"}

MetricLine == [kind : {"METRIC"}, snap : EquipmentState]
AlertLine == [kind : {"ALERT"}, alert : Records, from : {"broadcast", "history"}]
StatusLine == [kind : {"STATUS"}, snap : EquipmentState]
TextLine == [kind : {"OK"}, text : {"welcome", "rpm"}]
ErrLine ==
  [kind : {"ERR"}, text : {"forbidden", "invalid_credentials", "invalid_value"} \cup Reasons]
RoleLine == [kind : {"OK"}, role : Roles]
CountLine == [kind : {"OK"}, what : {"users"}, count : Nat]
AlertsLine == [kind : {"OK"}, what : {"alerts"}, count : Nat, newest : Nat]
HeadingLine == [kind : {"OK"}, heading : Headings, since : SUBSET Headings]
UserLine == [kind : {"USER"}, client : Clients]
WrittenUserLine == [kind : {"USER"}, client : Clients, role : Roles]
ByeLine == [kind : {"BYE"}]

Lines ==
  MetricLine \cup AlertLine \cup StatusLine \cup TextLine \cup ErrLine \cup RoleLine
    \cup CountLine \cup AlertsLine \cup HeadingLine \cup UserLine \cup WrittenUserLine \cup ByeLine

Sessions ==
  [pc : Pcs, role : Roles, out : Seq(Lines), then : {"idle", "removing"}]

ThreadType ==
  /\ metrics \in [pc : {"tick", "read", "metric", "evaluate", "alerts", "sleep"},
                  snap : EquipmentState, todo : Seq(AlertKinds), done : Seq(Records)]
  /\ cycles \in Nat

PlantType ==
  /\ equipment \in EquipmentState /\ recent \in Seq(Records) /\ pushed \in Nat
  /\ since \in [Clients -> SUBSET Headings]

RegistryType == registry \in Seq(Clients) /\ lock \in Clients \cup {"free"}

SessionType ==
  /\ session \in [Clients -> Sessions]
  /\ inbox \in [Clients -> Seq(Lines)]
  /\ copied \in [Clients -> Int]
  /\ commands \in [Names -> Nat]

Types == ThreadType /\ PlantType /\ RegistryType /\ SessionType

-----------------------------------------------------------------------------
(* The parts of the inductive invariant                                       *)

\* What a session has to write, it has only while it is sending; a client that
\* has not connected has been sent nothing, and the list holds exactly the
\* clients that have connected and not left, each once.
Shape ==
  /\ \A c \in Clients :
       /\ session[c].pc = "sending" <=> session[c].out # <<>>
       /\ session[c].pc = "none" => inbox[c] = <<>> /\ copied[c] = -1
       /\ c \in Registered <=> session[c].pc \notin {"none", "gone"}
  /\ \A i, j \in 1 .. Len(registry) : registry[i] = registry[j] => i = j

IsVerdict(line) == line.kind = "OK" /\ Has(line, "role")

IsEffect(line) ==
  /\ line.kind = "OK"
  /\ \/ Has(line, "heading")
     \/ Has(line, "text") /\ line.text = "rpm"
     \/ Has(line, "what") /\ line.what = "users"

\* The last verdict among the first n lines of s is an engineer's.
EngineerAfter(s, n) ==
  \E j \in 1 .. n : /\ IsVerdict(s[j]) /\ s[j].role = "ENGINEER"
                     /\ \A k \in 1 .. n : IsVerdict(s[k]) => k <= j

Authorized(s) ==
  \A i \in 1 .. Len(s) : IsEffect(s[i]) => EngineerAfter(s, i - 1)

\* A session's role is that of the last verdict, the one still to be written
\* included, and a session with an effect to tell is an engineer's.
AuthorityOf(c) ==
  LET out == session[c].out
  IN  /\ Authorized(inbox[c])
      /\ session[c].role = "ENGINEER" /\ (\A k \in 1 .. Len(out) : ~ IsVerdict(out[k]))
           => EngineerAfter(inbox[c], Len(inbox[c]))
      /\ \A k \in 1 .. Len(out) :
           /\ IsVerdict(out[k]) => Len(out) = 1 /\ out[k].role = session[c].role
           /\ IsEffect(out[k]) => session[c].role = "ENGINEER"
      /\ session[c].pc = "readback" => session[c].role = "ENGINEER"

Authority == \A c \in Clients : AuthorityOf(c)

InCycle == metrics.pc \in {"evaluate", "alerts"}

RaisedBy(snap, a) == \E k \in 1 .. Len(AllAlerts(snap)) : AllAlerts(snap)[k] = a

\* The alerts of the cycle under way come from its snapshot.
Cycle ==
  /\ ~ InCycle => metrics.done = <<>>
  /\ metrics.pc # "evaluate" => metrics.todo = <<>>
  /\ \A k \in 1 .. Len(metrics.todo) : RaisedBy(metrics.snap, metrics.todo[k])
  /\ \A k \in 1 .. Len(metrics.done) : RaisedBy(metrics.snap, metrics.done[k].alert)

IsMetric(line) == line.kind = "METRIC"

IsBroadcastAlert(line) == line.kind = "ALERT" /\ line.from = "broadcast"

NoMetric(s, n) == \A j \in 1 .. n : ~ IsMetric(s[j])

LastMetric(s, n, j) ==
  /\ j \in 1 .. n /\ IsMetric(s[j])
  /\ \A k \in 1 .. n : IsMetric(s[k]) => k <= j

Matched(s) ==
  \A i \in 1 .. Len(s) : IsBroadcastAlert(s[i]) =>
    \/ NoMetric(s, i - 1)
    \/ \E j \in 1 .. Len(s) : /\ LastMetric(s, i - 1, j)
                               /\ RaisedBy(s[j].snap, s[i].alert.alert)

\* s has no METRIC line, or the last one is of this snapshot.
CurrentIn(s, snap) ==
  \/ NoMetric(s, Len(s))
  \/ \E j \in 1 .. Len(s) : LastMetric(s, Len(s), j) /\ s[j].snap = snap

MatchingOf(c) ==
  /\ Matched(inbox[c])
  /\ \A k \in 1 .. Len(session[c].out) :
       ~ IsMetric(session[c].out[k]) /\ ~ IsBroadcastAlert(session[c].out[k])

\* During a cycle the last METRIC line of a client, if it has any, is the
\* cycle's; no session writes a METRIC line or an alert of a broadcast.
Matching ==
  /\ \A c \in Clients : MatchingOf(c)
  /\ InCycle => \A c \in Registered : CurrentIn(inbox[c], metrics.snap)

\* The history holds the last alerts, numbered without a gap.
Numbering ==
  /\ Len(recent) = IF pushed < HistorySize THEN pushed ELSE HistorySize
  /\ \A i \in 1 .. Len(recent) : recent[i].number = pushed - Len(recent) + i
  /\ \A c \in Clients : copied[c] \in -1 .. pushed

IsHeading(line) == line.kind = "OK" /\ Has(line, "heading")

\* A heading that is told is one the plant has had since the session's turn.
ToldRight(line) == IsHeading(line) => line.heading \in line.since

Told(c) ==
  /\ \A k \in 1 .. Len(session[c].out) : ToldRight(session[c].out[k])
  /\ \A k \in 1 .. Len(inbox[c]) : ToldRight(inbox[c][k])

\* What the plant shows, it has had since any turn, and what is told is right.
Turns == \A c \in Clients : equipment.heading \in since[c] /\ Told(c)

IsUsers(line) == line.kind = "OK" /\ Has(line, "what") /\ line.what = "users"

IsUser(line) == line.kind = "USER"

\* The list that begins at position i of t is whole, for distinct clients.
ListAt(t, i) ==
  /\ i + t[i].count <= Len(t)
  /\ \A k \in 1 .. t[i].count : IsUser(t[i + k])
  /\ \A k, l \in 1 .. t[i].count : t[i + k].client = t[i + l].client => k = l

WholeLists(t) == \A i \in 1 .. Len(t) : IsUsers(t[i]) => ListAt(t, i)

\* What c has been sent and its session still has to write.
Text(c) == inbox[c] \o session[c].out

\* Every list of users is whole, what is still to be written included, and a
\* session without the lock, in which a broadcast may put a line, is in none.
ListingOf(c) ==
  /\ WholeLists(Text(c))
  /\ lock # c =>
       \A k \in 1 .. Len(session[c].out) :
         ~ IsUsers(session[c].out[k]) /\ ~ IsUser(session[c].out[k])

Listing == \A c \in Clients : ListingOf(c)

IsAlerts(line) == line.kind = "OK" /\ Has(line, "what") /\ line.what = "alerts"

IsRecord(line) == line.kind = "ALERT" /\ line.from = "history"

Number(line) == line.alert.number

\* Line j of t is a record of the answer that begins at position i.
InAnswer(t, i, j) ==
  /\ j \in i + 1 .. Len(t) /\ IsRecord(t[j])
  /\ \A k \in i + 1 .. j : ~ IsAlerts(t[k])

\* The records of that answer are those after number b, all of them, in order.
AnswerFrom(t, i, b) ==
  /\ \A j \in 1 .. Len(t) : InAnswer(t, i, j) => Number(t[j]) \in b + 1 .. b + t[i].count
  /\ \A j, k \in 1 .. Len(t) :
       InAnswer(t, i, j) /\ InAnswer(t, i, k) /\ j < k => Number(t[j]) < Number(t[k])
  /\ \A n \in b + 1 .. b + t[i].count :
       \E j \in 1 .. Len(t) : InAnswer(t, i, j) /\ Number(t[j]) = n

\* The header announces the newest records there were, and b comes before them.
Announces(line, b) ==
  /\ line.count = IF line.newest < MaxRecords THEN line.newest ELSE MaxRecords
  /\ line.newest = b + line.count

WholeAnswers(t) ==
  \A i \in 1 .. Len(t) : IsAlerts(t[i]) =>
    \E b \in Int : Announces(t[i], b) /\ AnswerFrom(t, i, b)

\* Every answer to GET_ALERTS is whole, what is still to be written included.
Answering == \A c \in Clients : WholeAnswers(Text(c))

Inv ==
  /\ Types /\ Shape /\ Authority /\ Cycle /\ Matching /\ Numbering /\ NoAlertGap
  /\ Turns /\ Listing /\ Answering

-----------------------------------------------------------------------------
(* The operations on the plant and on the history                             *)

\* Clamp returns a value of its interval.
LEMMA ClampInRange ==
  \A v, lo, hi \in Int : lo <= hi => Clamp(v, lo, hi) \in lo .. hi
  BY DEF Clamp

\* The base pressure and the sum that MODIFY_RPM computes are integers.
LEMMA IntegerResults ==
  \A r \in 0 .. RpmMax :
    BasePressure(r) \in Int /\ \A d \in Int : WrappedSum(r, d) \in Int
  BY IntMaxAssumption DEF RpmMax, BasePressure, WrappedSum

\* An operation on the plant gives a state of the plant, and MODIFY_RPM a reason.
LEMMA PlantOps ==
  ASSUME NEW s \in EquipmentState
  PROVE  /\ \A noise \in Noise : Ticked(s, noise) \in EquipmentState
         /\ \A delta \in Deltas : Modified(s, delta) \in EquipmentState
         /\ \A direction \in Directions : Adjusted(s, direction) \in EquipmentState
         /\ \A delta \in Deltas : ModifyReason(s, delta) \in Reasons
<1>1. /\ s.rpm \in 0 .. 5000 /\ s.load \in 0 .. 100 /\ s.temp \in 0 .. 100
      /\ s.heading \in 0 .. 3
  BY DEF EquipmentState, RpmMax, Headings
<1>r. s.rpm \in 0 .. RpmMax /\ RpmMax \in Int /\ 0 <= RpmMax
  BY DEF EquipmentState, RpmMax
<1>2. ASSUME NEW noise \in Noise PROVE Ticked(s, noise) \in EquipmentState
  <2>1. noise \in -3 .. 3
    BY NoiseAssumption DEF Jitter, JitterRange
  <2>2. TickedLoad(s) \in 0 .. 100 /\ TickedTemp(s) \in 0 .. 100
    BY <1>1 DEF TickedLoad, TickedTemp, Drain, Clamp, TempAmbient
  <2>3. TickedPressure(s, noise) \in 0 .. 100
    <3>0. BasePressure(s.rpm) \in Int
      BY <1>r, IntegerResults
    <3>1. BasePressure(s.rpm) + noise \in Int
      BY <2>1, <3>0
    <3>2. 0 \in Int /\ 100 \in Int /\ 0 <= 100
      OBVIOUS
    <3> QED
      BY <3>1, <3>2, ClampInRange, Zenon DEF TickedPressure
  <2> QED
    BY <2>2, <2>3 DEF Ticked, EquipmentState
<1>3. ASSUME NEW delta \in Deltas PROVE Modified(s, delta) \in EquipmentState
  <2>1. delta \in Int
    BY DeltasAssumption, IntMaxAssumption DEF Ints
  <2>2. WrappedSum(s.rpm, delta) \in Int
    BY <1>r, <2>1, IntegerResults
  <2>3. Clamp(WrappedSum(s.rpm, delta), 0, RpmMax) \in 0 .. RpmMax
    <3>1. 0 \in Int
      OBVIOUS
    <3> QED
      BY <1>r, <2>2, <3>1, ClampInRange, Zenon
  <2>4. ModifiedRpm(s, delta) \in 0 .. RpmMax
    BY <1>r, <2>3, Zenon DEF ModifiedRpm
  <2> QED
    BY <2>4 DEF Modified, EquipmentState
<1>4. ASSUME NEW direction \in Directions PROVE Adjusted(s, direction) \in EquipmentState
  <2>1. AdjustedHeading(s.heading, direction) \in 0 .. 3
    BY <1>1 DEF Directions, AdjustedHeading
  <2> QED
    BY <2>1 DEF Adjusted, EquipmentState, Headings
<1>5. ASSUME NEW delta \in Deltas PROVE ModifyReason(s, delta) \in Reasons
  BY DEF ModifyReason, Reasons
<1> QED
  BY <1>2, <1>3, <1>4, <1>5

\* The alerts of a snapshot are a sequence of kinds of alerts.
LEMMA AllAlertsType == ASSUME NEW s PROVE AllAlerts(s) \in Seq(AlertKinds)
<1>1. ASSUME NEW type \in {"rpm_high", "load_low", "temp_high", "pressure_high",
                           "pressure_low"},
             NEW high, NEW low
      PROVE  Level(type, high, low) \in Seq(AlertKinds)
  <2>1. /\ [type |-> type, severity |-> "critical"] \in AlertKinds
        /\ [type |-> type, severity |-> "warning"] \in AlertKinds
    BY DEF AlertKinds
  <2>2. ASSUME NEW a \in AlertKinds PROVE <<a>> \in Seq(AlertKinds)
    OBVIOUS
  <2> HIDE DEF AlertKinds
  <2>3. /\ <<[type |-> type, severity |-> "critical"]>> \in Seq(AlertKinds)
        /\ <<[type |-> type, severity |-> "warning"]>> \in Seq(AlertKinds)
        /\ <<>> \in Seq(AlertKinds)
    BY <2>1, <2>2
  <2> QED
    BY <2>3, Zenon DEF Level
<1>2. ASSUME NEW s1 \in Seq(AlertKinds), NEW s2 \in Seq(AlertKinds)
      PROVE  s1 \o s2 \in Seq(AlertKinds)
  BY ConcatProperties
<1> HIDE DEF AlertKinds
<1> QED
  BY <1>1, <1>2 DEF AllAlerts

\* alert_evaluate emits alerts of its snapshot.
LEMMA EvaluatedType ==
  ASSUME NEW s
  PROVE  /\ Evaluated(s, MaxCycleAlerts) \in Seq(AlertKinds)
         /\ \A k \in 1 .. Len(Evaluated(s, MaxCycleAlerts)) :
              RaisedBy(s, Evaluated(s, MaxCycleAlerts)[k])
<1> DEFINE all == AllAlerts(s)
           n == IF Len(all) < MaxCycleAlerts THEN Len(all) ELSE MaxCycleAlerts
<1>1. all \in Seq(AlertKinds) /\ Len(all) \in Nat
  BY AllAlertsType
<1>2. Evaluated(s, MaxCycleAlerts) = SubSeq(all, 1, n) /\ n \in 0 .. Len(all)
  BY <1>1 DEF Evaluated, MaxCycleAlerts
<1>3. ASSUME NEW a, \E k \in 1 .. Len(all) : all[k] = a PROVE RaisedBy(s, a)
  BY <1>3 DEF RaisedBy
<1> HIDE DEF all, n
<1> QED
  BY <1>1, <1>2, <1>3, SubSeqProperties

\* The newest records of a history.
LEMMA NewestOf ==
  ASSUME NEW S, NEW s \in Seq(S), NEW n \in Nat
  PROVE  LET k == IF Len(s) < n THEN Len(s) ELSE n
         IN  /\ Newest(n, s) \in Seq(S) /\ Len(Newest(n, s)) = k
             /\ \A i \in 1 .. k : Newest(n, s)[i] = s[Len(s) - k + i]
<1> DEFINE k == IF Len(s) < n THEN Len(s) ELSE n
<1>1. k \in 0 .. Len(s) /\ Len(s) \in Nat
  OBVIOUS
<1>2. Newest(n, s) = [i \in 1 .. k |-> s[Len(s) - k + i]]
  BY DEF Newest
<1> HIDE DEF k
<1>3. \A i \in 1 .. k : s[Len(s) - k + i] \in S
  BY <1>1
<1>4. /\ Newest(n, s) \in Seq(S) /\ Len(Newest(n, s)) = k
      /\ \A i \in 1 .. k : Newest(n, s)[i] = s[Len(s) - k + i]
  BY <1>1, <1>2, <1>3
<1> QED
  BY <1>4 DEF k


-----------------------------------------------------------------------------
(* Sequences: an element put in front, one taken out, the first one dropped.  *)

\* What <<a>> \o s is.
LEMMA InFront ==
  ASSUME NEW S, NEW s \in Seq(S), NEW a \in S
  PROVE  /\ <<a>> \o s \in Seq(S) /\ Len(<<a>> \o s) = Len(s) + 1
         /\ (<<a>> \o s)[1] = a
         /\ \A i \in 1 .. Len(s) : (<<a>> \o s)[i + 1] = s[i]
  OBVIOUS

\* What <<a>> is.
LEMMA OneElement ==
  ASSUME NEW S, NEW a \in S
  PROVE  <<a>> \in Seq(S) /\ Len(<<a>>) = 1 /\ <<a>>[1] = a /\ <<a>> # <<>>
  OBVIOUS

\* What Tail is.
LEMMA TailOf ==
  ASSUME NEW S, NEW s \in Seq(S), s # <<>>
  PROVE  /\ Head(s) = s[1] /\ s[1] \in S /\ Len(s) \in Nat /\ Len(s) > 0
         /\ Tail(s) \in Seq(S) /\ Len(Tail(s)) = Len(s) - 1
         /\ \A i \in 1 .. Len(Tail(s)) : Tail(s)[i] = s[i + 1] /\ i + 1 \in 1 .. Len(s)
  OBVIOUS

Without(s, i) == SubSeq(s, 1, i - 1) \o SubSeq(s, i + 1, Len(s))

\* What is left when one element is unlinked.
LEMMA WithoutOne ==
  ASSUME NEW S, NEW s \in Seq(S), NEW i \in 1 .. Len(s)
  PROVE  /\ Without(s, i) \in Seq(S) /\ Len(Without(s, i)) = Len(s) - 1
         /\ \A k \in 1 .. Len(s) - 1 : Without(s, i)[k] = IF k < i THEN s[k] ELSE s[k + 1]
<1> DEFINE p == SubSeq(s, 1, i - 1)
           q == SubSeq(s, i + 1, Len(s))
<1>1. p \in Seq(S) /\ Len(p) = i - 1 /\ \A k \in 1 .. i - 1 : p[k] = s[k]
  OBVIOUS
<1>2. q \in Seq(S) /\ Len(q) = Len(s) - i /\ \A k \in 1 .. Len(s) - i : q[k] = s[i + k]
  BY SubSeqProperties
<1>3. Without(s, i) = p \o q
  BY DEF Without
<1> HIDE DEF p, q
<1>4. /\ p \o q \in Seq(S) /\ Len(p \o q) = Len(p) + Len(q)
      /\ \A k \in 1 .. Len(p) + Len(q) :
           (p \o q)[k] = IF k <= Len(p) THEN p[k] ELSE q[k - Len(p)]
  BY <1>1, <1>2, ConcatProperties
<1>5. ASSUME NEW k \in 1 .. Len(s) - 1
      PROVE  (p \o q)[k] = IF k < i THEN s[k] ELSE s[k + 1]
  <2>1. CASE k < i
    BY <1>1, <1>2, <1>4, <2>1
  <2>2. CASE ~ (k < i)
    <3>1. k - Len(p) \in 1 .. Len(s) - i /\ i + (k - Len(p)) = k + 1 /\ ~ (k <= Len(p))
      BY <1>1, <2>2
    <3> QED
      <4>1. (p \o q)[k] = q[k - Len(p)]
        BY <1>1, <1>2, <1>4, <3>1
      <4>2. q[k - Len(p)] = s[i + (k - Len(p))]
        BY <1>2, <3>1
      <4> QED
        BY <2>2, <3>1, <4>1, <4>2
  <2> QED
    BY <2>1, <2>2
<1> QED
  BY <1>1, <1>2, <1>3, <1>4, <1>5

-----------------------------------------------------------------------------
(* The lines: each is of one sort.                                            *)

\* A line that is no verdict, no METRIC, no alert, no list of users and no user.
Plain(line) ==
  /\ ~ IsVerdict(line) /\ ~ IsMetric(line) /\ ~ IsBroadcastAlert(line)
  /\ ~ IsUsers(line) /\ ~ IsUser(line) /\ ~ IsAlerts(line) /\ ~ IsRecord(line)

\* The lines of the sessions that answer in one line.
LEMMA PlainLines ==
  /\ \A t \in {"welcome", "rpm"} :
       Ok(t) \in Lines /\ Plain(Ok(t)) /\ ~ IsHeading(Ok(t))
  /\ ~ IsEffect(Ok("welcome"))
  /\ \A t \in {"forbidden", "invalid_credentials", "invalid_value"} \cup Reasons :
       Err(t) \in Lines /\ Plain(Err(t)) /\ ~ IsHeading(Err(t)) /\ ~ IsEffect(Err(t))
  /\ \A s \in EquipmentState :
       /\ Status(s) \in Lines /\ Plain(Status(s))
       /\ ~ IsHeading(Status(s)) /\ ~ IsEffect(Status(s))
  /\ Bye \in Lines /\ Plain(Bye) /\ ~ IsHeading(Bye) /\ ~ IsEffect(Bye)
  BY DEF Plain, IsVerdict, IsEffect, IsMetric, IsBroadcastAlert, IsHeading, IsUsers, IsUser,
         IsAlerts, IsRecord, Has, Lines, TextLine, ErrLine, StatusLine, ByeLine, Ok, Err, Status, Bye

\* A heading is an effect.
LEMMA HeadingLines ==
  ASSUME NEW h \in Headings, NEW after \in SUBSET Headings
  PROVE  /\ OkHeading(h, after) \in Lines /\ Plain(OkHeading(h, after))
         /\ IsHeading(OkHeading(h, after)) /\ IsEffect(OkHeading(h, after))
         /\ OkHeading(h, after).heading = h /\ OkHeading(h, after).since = after
  BY DEF Plain, IsVerdict, IsEffect, IsMetric, IsBroadcastAlert, IsHeading, IsUsers, IsUser,
         IsAlerts, IsRecord, Has, Lines, HeadingLine, OkHeading

\* A role is a verdict and nothing else.
LEMMA RoleLines ==
  ASSUME NEW r \in Roles
  PROVE  /\ OkRole(r) \in Lines /\ IsVerdict(OkRole(r)) /\ OkRole(r).role = r
         /\ ~ IsEffect(OkRole(r)) /\ ~ IsMetric(OkRole(r))
         /\ ~ IsBroadcastAlert(OkRole(r)) /\ ~ IsHeading(OkRole(r))
         /\ ~ IsUsers(OkRole(r)) /\ ~ IsUser(OkRole(r))
         /\ ~ IsAlerts(OkRole(r)) /\ ~ IsRecord(OkRole(r))
  BY DEF IsVerdict, IsEffect, IsMetric, IsBroadcastAlert, IsHeading, IsUsers, IsUser,
         IsAlerts, IsRecord, Has, Lines, RoleLine, OkRole, Roles

\* What the metrics thread broadcasts.
LEMMA MetricLines ==
  ASSUME NEW s \in EquipmentState
  PROVE  /\ Metric(s) \in Lines /\ IsMetric(Metric(s)) /\ Metric(s).snap = s
         /\ ~ IsVerdict(Metric(s)) /\ ~ IsEffect(Metric(s))
         /\ ~ IsBroadcastAlert(Metric(s)) /\ ~ IsHeading(Metric(s))
         /\ ~ IsUsers(Metric(s)) /\ ~ IsUser(Metric(s))
         /\ ~ IsAlerts(Metric(s)) /\ ~ IsRecord(Metric(s))
         /\ Metric(s).kind # "ALERT"
  BY DEF IsVerdict, IsEffect, IsMetric, IsBroadcastAlert, IsHeading, IsUsers, IsUser,
         IsAlerts, IsRecord, Has, Lines, MetricLine, Metric

\* An alert, of a broadcast or of the history.
LEMMA AlertLines ==
  ASSUME NEW a \in Records, NEW from \in {"broadcast", "history"}
  PROVE  /\ Alert(a, from) \in Lines /\ Alert(a, from).kind = "ALERT"
         /\ Alert(a, from).alert = a
         /\ IsBroadcastAlert(Alert(a, from)) <=> from = "broadcast"
         /\ IsRecord(Alert(a, from)) <=> from = "history"
         /\ ~ IsAlerts(Alert(a, from)) /\ Number(Alert(a, from)) = a.number
         /\ ~ IsVerdict(Alert(a, from)) /\ ~ IsEffect(Alert(a, from))
         /\ ~ IsMetric(Alert(a, from)) /\ ~ IsHeading(Alert(a, from))
         /\ ~ IsUsers(Alert(a, from)) /\ ~ IsUser(Alert(a, from))
  BY DEF IsVerdict, IsEffect, IsMetric, IsBroadcastAlert, IsHeading, IsUsers, IsUser,
         IsAlerts, IsRecord, Number, Has, Lines, AlertLine, Alert

\* The first line of the answer to LIST USERS.
LEMMA CountLines ==
  ASSUME NEW n \in Nat
  PROVE  /\ OkCount("users", n) \in Lines /\ OkCount("users", n).count = n
         /\ IsUsers(OkCount("users", n)) /\ IsEffect(OkCount("users", n))
         /\ ~ IsAlerts(OkCount("users", n)) /\ ~ IsRecord(OkCount("users", n))
         /\ ~ IsVerdict(OkCount("users", n)) /\ ~ IsMetric(OkCount("users", n))
         /\ ~ IsBroadcastAlert(OkCount("users", n)) /\ ~ IsHeading(OkCount("users", n))
         /\ ~ IsUser(OkCount("users", n)) /\ OkCount("users", n).kind # "ALERT"
  BY DEF IsVerdict, IsEffect, IsMetric, IsBroadcastAlert, IsHeading, IsUsers, IsUser,
         IsAlerts, IsRecord, Has, Lines, CountLine, OkCount

\* The first line of the answer to GET_ALERTS.
LEMMA AlertsHeader ==
  ASSUME NEW n \in Nat, NEW m \in Nat
  PROVE  /\ OkAlerts(n, m) \in Lines /\ OkAlerts(n, m).count = n
         /\ OkAlerts(n, m).newest = m
         /\ ~ IsUsers(OkAlerts(n, m)) /\ ~ IsEffect(OkAlerts(n, m))
         /\ IsAlerts(OkAlerts(n, m)) /\ ~ IsRecord(OkAlerts(n, m))
         /\ ~ IsVerdict(OkAlerts(n, m)) /\ ~ IsMetric(OkAlerts(n, m))
         /\ ~ IsBroadcastAlert(OkAlerts(n, m)) /\ ~ IsHeading(OkAlerts(n, m))
         /\ ~ IsUser(OkAlerts(n, m)) /\ OkAlerts(n, m).kind # "ALERT"
  BY DEF IsVerdict, IsEffect, IsMetric, IsBroadcastAlert, IsHeading, IsUsers, IsUser,
         IsAlerts, IsRecord, Has, Lines, AlertsLine, OkAlerts

\* A USER line is nothing else.
LEMMA UserIsNothingElse ==
  ASSUME NEW line, IsUser(line)
  PROVE  /\ ~ IsVerdict(line) /\ ~ IsEffect(line) /\ ~ IsMetric(line)
         /\ ~ IsBroadcastAlert(line) /\ ~ IsHeading(line) /\ ~ IsUsers(line)
         /\ ~ IsAlerts(line) /\ ~ IsRecord(line) /\ line.kind # "ALERT"
  BY DEF IsVerdict, IsEffect, IsMetric, IsBroadcastAlert, IsHeading, IsUsers, IsUser,
         IsAlerts, IsRecord

\* A verdict is no effect.
LEMMA VerdictIsNoEffect ==
  ASSUME NEW line \in Lines, IsVerdict(line)
  PROVE  ~ IsEffect(line)
  BY DEF IsVerdict, IsEffect, Has, Lines, WrittenUserLine, UserLine, MetricLine, AlertLine,
         StatusLine, TextLine, ErrLine, RoleLine, CountLine, AlertsLine, HeadingLine, ByeLine

\* A USER line to be written.
LEMMA UserLines ==
  ASSUME NEW c \in Clients
  PROVE  User(c) \in Lines /\ IsUser(User(c)) /\ User(c).client = c
  BY DEF IsUser, Lines, UserLine, User

\* What is written is the line, or a USER line of the same client.
LEMMA WrittenIs ==
  ASSUME SessionType, NEW line \in Lines
  PROVE  /\ Written(line) \in Lines
         /\ ~ IsUser(line) => Written(line) = line
         /\ IsUser(line) => IsUser(Written(line)) /\ Written(line).client = line.client
<1>1. CASE ~ IsUser(line)
  BY <1>1 DEF IsUser, Written
<1>2. CASE IsUser(line)
  <2> DEFINE w == [kind |-> "USER", client |-> line.client,
                   role |-> session[line.client].role]
  <2>1. Written(line) = w
    BY <1>2 DEF IsUser, Written
  <2>2. line.client \in Clients
    BY <1>2 DEF IsUser, Lines, WrittenUserLine, UserLine, MetricLine, AlertLine, StatusLine,
                TextLine, ErrLine, RoleLine, CountLine, AlertsLine, HeadingLine, ByeLine
  <2>3. session[line.client].role \in Roles
    BY <2>2 DEF SessionType, Sessions
  <2>4. w \in WrittenUserLine
    BY <2>2, <2>3 DEF WrittenUserLine
  <2>5. w.kind = "USER" /\ w.client = line.client
    OBVIOUS
  <2> QED
    BY <1>2, <2>1, <2>4, <2>5 DEF IsUser, Lines
<1> QED
  BY <1>1, <1>2

-----------------------------------------------------------------------------
(* What the steps leave alone, and the types of the thread, plant and list     *)

\* What every command leaves alone.
LEMMA CommandFrame ==
  ASSUME NEW c \in Clients, Command(c)
  PROVE  /\ session[c].pc = "idle"
         /\ \E name \in Names :
              commands[name] > 0 /\ commands' = [commands EXCEPT ![name] = @ - 1]
         /\ UNCHANGED <<recent, pushed, metrics, cycles, registry, inbox>>
         /\ \/ CmdGetAlerts(c) /\ copied' = [copied EXCEPT ![c] = pushed]
            \/ copied' = copied
         /\ \/ CmdListUsers(c) /\ lock' = c /\ lock = "free"
            \/ lock' = lock
<1>1. CASE CmdForbidden(c)
  BY <1>1 DEF CmdForbidden, Dispatch, Names, thread, plant
<1>2. CASE CmdGetStatus(c)
  BY <1>2 DEF CmdGetStatus, Dispatch, Names, thread, plant
<1>3. CASE CmdGetAlerts(c)
  BY <1>3 DEF CmdGetAlerts, Dispatch, Names, thread, plant
<1>4. CASE CmdListUsers(c)
  BY <1>4 DEF CmdListUsers, Dispatch, Names, thread, plant
<1>5. CASE CmdQuit(c)
  BY <1>5 DEF CmdQuit, Dispatch, Names, thread, plant
<1>6. CASE \E verdict \in Verdicts : CmdAuthenticate(c, verdict)
  BY <1>6 DEF CmdAuthenticate, Dispatch, Names, thread, plant
<1>7. CASE \E delta \in Deltas : CmdModifyRpm(c, delta)
  BY <1>7 DEF CmdModifyRpm, Dispatch, Names, thread, plant
<1>8. CASE \E direction \in Directions : CmdAdjustHeading(c, direction)
  BY <1>8 DEF CmdAdjustHeading, Dispatch, Names, thread, plant
<1>9. CASE CmdInvalid(c)
  BY <1>9 DEF CmdInvalid, Dispatch, Names, thread, plant
<1> QED
  BY <1>9, <1>1, <1>2, <1>3, <1>4, <1>5, <1>6, <1>7, <1>8 DEF Command

\* What every step of a session leaves alone, whoever the session is.
LEMMA SessionFrame ==
  ASSUME NEW c \in Clients,
         \/ Connect(c) \/ SendLine(c) \/ SendLastLine(c) \/ Disconnect(c) \/ Remove(c)
         \/ ReadHeading(c) \/ Command(c)
  PROVE  /\ UNCHANGED <<recent, pushed, metrics, cycles>>
         /\ Connect(c) \/ Remove(c) \/ registry' = registry
         /\ lock' \in {lock, c, "free"}
         /\ \/ equipment' = equipment
            \/ \E delta \in Deltas : equipment' = Modified(equipment, delta)
            \/ \E direction \in Directions : equipment' = Adjusted(equipment, direction)
<1>1. CASE \/ Connect(c) \/ SendLine(c) \/ SendLastLine(c) \/ Disconnect(c) \/ Remove(c)
           \/ ReadHeading(c)
  BY <1>1 DEF Connect, SendLine, SendLastLine, Disconnect, Remove, ReadHeading, plant, thread
<1>2. CASE Command(c)
  <2>1. /\ UNCHANGED <<recent, pushed, metrics, cycles, registry>>
        /\ lock' \in {lock, c}
    BY <1>2, CommandFrame
  <2>2. CASE equipment' = equipment
    BY <2>1, <2>2
  <2>3. CASE equipment' # equipment
    <3>1. \/ \E delta \in Deltas : CmdModifyRpm(c, delta)
          \/ \E direction \in Directions : CmdAdjustHeading(c, direction)
      BY <1>2, <2>3 DEF Command, CmdForbidden, CmdInvalid, CmdGetStatus, CmdGetAlerts, CmdListUsers,
                        CmdQuit, CmdAuthenticate, plant
    <3> QED
      BY <2>1, <3>1 DEF CmdModifyRpm, CmdAdjustHeading
  <2> QED
    BY <2>2, <2>3
<1> QED
  BY <1>1, <1>2

\* A turn is noted for every client; nothing else changes what is noted.
LEMMA SinceIs ==
  ASSUME NEW c \in Clients,
         \/ Connect(c) \/ SendLine(c) \/ SendLastLine(c) \/ Disconnect(c) \/ Remove(c)
         \/ ReadHeading(c) \/ Command(c)
  PROVE  \/ since' = since
         \/ \E direction \in Directions :
              /\ CmdAdjustHeading(c, direction)
              /\ since' = [d \in Clients |-> IF d = c THEN {equipment'.heading}
                                              ELSE since[d] \cup {equipment'.heading}]
<1>1. CASE \/ Connect(c) \/ SendLine(c) \/ SendLastLine(c) \/ Disconnect(c) \/ Remove(c)
           \/ ReadHeading(c)
  BY <1>1 DEF Connect, SendLine, SendLastLine, Disconnect, Remove, ReadHeading, plant
<1>2. CASE \/ CmdForbidden(c) \/ CmdInvalid(c) \/ CmdGetStatus(c) \/ CmdGetAlerts(c)
           \/ CmdListUsers(c) \/ CmdQuit(c)
  BY <1>2 DEF CmdForbidden, CmdInvalid, CmdGetStatus, CmdGetAlerts, CmdListUsers, CmdQuit, plant
<1>3. CASE \E verdict \in Verdicts : CmdAuthenticate(c, verdict)
  BY <1>3 DEF CmdAuthenticate, plant
<1>4. CASE \E delta \in Deltas : CmdModifyRpm(c, delta)
  BY <1>4 DEF CmdModifyRpm
<1>5. CASE \E direction \in Directions : CmdAdjustHeading(c, direction)
  BY <1>5 DEF CmdAdjustHeading
<1> QED
  BY <1>1, <1>2, <1>3, <1>4, <1>5 DEF Command

\* What is noted are headings.
LEMMA SinceStep ==
  ASSUME PlantType, NEW c \in Clients,
         \/ Connect(c) \/ SendLine(c) \/ SendLastLine(c) \/ Disconnect(c) \/ Remove(c)
         \/ ReadHeading(c) \/ Command(c)
  PROVE  since' \in [Clients -> SUBSET Headings]
<1>1. CASE since' = since
  BY <1>1 DEF PlantType
<1>2. ASSUME NEW direction \in Directions, CmdAdjustHeading(c, direction),
             since' = [d \in Clients |-> IF d = c THEN {equipment'.heading}
                                         ELSE since[d] \cup {equipment'.heading}]
      PROVE  since' \in [Clients -> SUBSET Headings]
  <2> DEFINE h == equipment'.heading
  <2>1. equipment' \in EquipmentState
    BY <1>2, PlantOps DEF CmdAdjustHeading, PlantType
  <2>2. h \in Headings
    BY <2>1 DEF EquipmentState
  <2> HIDE DEF h
  <2>3. \A d \in Clients : since[d] \cup {h} \in SUBSET Headings /\ {h} \in SUBSET Headings
    BY <2>2 DEF PlantType
  <2>4. since' = [d \in Clients |-> IF d = c THEN {h} ELSE since[d] \cup {h}]
    BY <1>2 DEF h
  <2> QED
    BY <2>3, <2>4
<1> QED
  BY <1>1, <1>2, SinceIs

\* The state of the metrics thread stays in its type.
LEMMA ThreadStep == Types /\ Next => ThreadType'
<1> SUFFICES ASSUME Types, Next PROVE ThreadType'
  OBVIOUS
<1> USE DEF Types
<1>1. CASE ReadSnapshot \/ EvaluateEnd
  BY <1>1 DEF ReadSnapshot, EvaluateEnd, ThreadType, PlantType
<1>8. ASSUME NEW noise \in Noise, Tick(noise) PROVE ThreadType'
  <2>1. metrics' = [metrics EXCEPT !.pc = "read"] /\ cycles \in Nat /\ cycles > 0
        /\ cycles' = cycles - 1
    BY <1>8 DEF Tick, ThreadType
  <2>2. cycles' \in Nat
    BY <2>1
  <2> QED
    BY <2>1, <2>2 DEF ThreadType
<1>2. CASE BroadcastMetric
  <2>1. metrics' = [metrics EXCEPT !.pc = "evaluate",
                                   !.todo = Evaluated(metrics.snap, MaxCycleAlerts),
                                   !.done = <<>>]
        /\ cycles' = cycles
    BY <1>2 DEF BroadcastMetric, thread
  <2>2. Evaluated(metrics.snap, MaxCycleAlerts) \in Seq(AlertKinds)
    BY EvaluatedType
  <2>3. <<>> \in Seq(Records)
    OBVIOUS
  <2> QED
    BY <2>1, <2>2, <2>3 DEF ThreadType
<1>3. CASE EmitAlert
  <2> DEFINE a == [alert |-> Head(metrics.todo), number |-> pushed + 1]
             t == Tail(metrics.todo)
             d == Append(metrics.done, a)
  <2>1. metrics' = [metrics EXCEPT !.todo = t, !.done = d] /\ cycles' = cycles
    BY <1>3 DEF EmitAlert
  <2>2. t \in Seq(AlertKinds) /\ Head(metrics.todo) \in AlertKinds
    BY <1>3, TailOf DEF EmitAlert, ThreadType
  <2>3. a \in Records
    BY <2>2 DEF Records, PlantType
  <2>4. d \in Seq(Records)
    BY <2>3, AppendProperties DEF ThreadType
  <2> HIDE DEF a, t, d
  <2> QED
    BY <2>1, <2>2, <2>4 DEF ThreadType
<1>4. CASE BroadcastAlert
  <2> DEFINE d == Tail(metrics.done)
  <2>1. metrics' = [metrics EXCEPT !.done = d] /\ cycles' = cycles
    BY <1>4 DEF BroadcastAlert
  <2>2. d \in Seq(Records)
    BY <1>4, TailOf DEF BroadcastAlert, ThreadType
  <2> HIDE DEF d
  <2> QED
    BY <2>1, <2>2 DEF ThreadType
<1>5. CASE EndCycle
  BY <1>5 DEF EndCycle, ThreadType
<1>6. CASE Finished
  BY <1>6 DEF Finished, vars, ThreadType
<1>7. ASSUME NEW c \in Clients,
             \/ Connect(c) \/ SendLine(c) \/ SendLastLine(c) \/ Disconnect(c) \/ Remove(c)
             \/ ReadHeading(c) \/ Command(c)
      PROVE  ThreadType'
  BY <1>7, SessionFrame DEF ThreadType
<1> QED
  BY <1>1, <1>2, <1>3, <1>4, <1>5, <1>6, <1>7, <1>8 DEF Next, MetricsThread

\* The plant and the history stay in their types.
LEMMA PlantStep == Types /\ Next => PlantType'
<1> SUFFICES ASSUME Types, Next PROVE PlantType'
  OBVIOUS
<1> USE DEF Types
<1>1. ASSUME NEW noise \in Noise, Tick(noise) PROVE PlantType'
  BY <1>1, PlantOps DEF Tick, PlantType
<1>2. CASE ReadSnapshot \/ BroadcastMetric \/ EvaluateEnd \/ BroadcastAlert \/ EndCycle \/ Finished
  BY <1>2 DEF ReadSnapshot, BroadcastMetric, EvaluateEnd, BroadcastAlert, EndCycle, Finished,
              vars, plant, PlantType
<1>3. CASE EmitAlert
  <2> DEFINE a == [alert |-> Head(metrics.todo), number |-> pushed + 1]
             s == Append(recent, a)
  <2>1. /\ equipment' = equipment /\ since' = since /\ pushed' = pushed + 1
        /\ recent' = Newest(HistorySize, s)
    BY <1>3 DEF EmitAlert
  <2>2. Head(metrics.todo) \in AlertKinds
    BY <1>3, TailOf DEF EmitAlert, ThreadType
  <2>3. a \in Records
    BY <2>2 DEF Records, PlantType
  <2>4. s \in Seq(Records)
    BY <2>3, AppendProperties DEF PlantType
  <2> HIDE DEF a, s
  <2>5. Newest(HistorySize, s) \in Seq(Records)
    BY <2>4, NewestOf, HistoryAssumption
  <2> QED
    BY <2>1, <2>5 DEF PlantType
<1>4. ASSUME NEW c \in Clients,
             \/ Connect(c) \/ SendLine(c) \/ SendLastLine(c) \/ Disconnect(c) \/ Remove(c)
             \/ ReadHeading(c) \/ Command(c)
      PROVE  PlantType'
  <2>1. since' \in [Clients -> SUBSET Headings]
    BY <1>4, SinceStep
  <2> QED
    BY <1>4, <2>1, SessionFrame, PlantOps DEF PlantType
<1> QED
  BY <1>1, <1>2, <1>3, <1>4 DEF Next, MetricsThread

\* The list of the clients and its lock stay in their types.
LEMMA RegistryStep == Types /\ Next => RegistryType'
<1> SUFFICES ASSUME Types, Next PROVE RegistryType'
  OBVIOUS
<1> USE DEF Types
<1>1. CASE MetricsThread \/ Finished
  <2>1. UNCHANGED <<registry, lock>>
    BY <1>1 DEF MetricsThread, Tick, ReadSnapshot, BroadcastMetric, EmitAlert, EvaluateEnd,
                BroadcastAlert, EndCycle, Finished, vars
  <2> QED
    BY <2>1 DEF RegistryType
<1>2. ASSUME NEW c \in Clients, Connect(c) PROVE RegistryType'
  BY <1>2, InFront DEF Connect, RegistryType
<1>3. ASSUME NEW c \in Clients, Remove(c)
      PROVE  RegistryType'
  <2>1. PICK i \in 1 .. Len(registry) :
               registry' = SubSeq(registry, 1, i - 1) \o SubSeq(registry, i + 1, Len(registry))
    BY <1>3 DEF Remove
  <2>2. registry' = Without(registry, i) /\ lock' = lock
    BY <1>3, <2>1 DEF Remove, Without
  <2>3. Without(registry, i) \in Seq(Clients)
    BY WithoutOne DEF RegistryType
  <2> QED
    BY <2>2, <2>3 DEF RegistryType
<1>4. ASSUME NEW c \in Clients,
             \/ SendLine(c) \/ SendLastLine(c) \/ Disconnect(c) \/ ReadHeading(c) \/ Command(c)
      PROVE  RegistryType'
  <2>1. registry' = registry
    BY <1>4, CommandFrame DEF SendLine, SendLastLine, Disconnect, ReadHeading
  <2>2. lock' \in {lock, c, "free"}
    BY <1>4, SessionFrame
  <2> QED
    BY <2>1, <2>2 DEF RegistryType
<1> QED
  BY <1>1, <1>2, <1>3, <1>4 DEF Next

-----------------------------------------------------------------------------
(* What the steps of a session do to it                                       *)

\* Only c's session changes.
Changes(c) ==
  /\ session' \in [Clients -> Sessions]
  /\ \A d \in Clients \ {c} : session'[d] = session[d]

\* c's session, in a role, has these lines to write.
Answers(c, role, lines) ==
  /\ Changes(c)
  /\ session'[c].pc = "sending" /\ session'[c].role = role /\ session'[c].out = lines
  /\ inbox' = inbox

\* c's session goes to another pc and has nothing to write, before or after.
Moves(c, pc) ==
  /\ Changes(c)
  /\ session'[c].pc = pc /\ session'[c].role = session[c].role
  /\ session'[c].out = session[c].out
  /\ inbox' = inbox

\* c's session writes the first line it has, and goes on or is done.
Writes(c) ==
  /\ Changes(c)
  /\ session[c].pc = "sending" /\ session[c].out # <<>>
  /\ session'[c].pc \in {"sending", "idle", "removing"}
  /\ session'[c].pc = "sending" <=> Len(session[c].out) > 1
  /\ session'[c].role = session[c].role
  /\ session'[c].out = Tail(session[c].out)
  /\ inbox' = [inbox EXCEPT ![c] = Append(inbox[c], Written(session[c].out[1]))]

\* A record that replaces c's leaves the other sessions alone.
LEMMA Replaced ==
  ASSUME SessionType, NEW c \in Clients, NEW v \in Sessions,
         session' = [session EXCEPT ![c] = v]
  PROVE  Changes(c) /\ session'[c] = v
  BY DEF SessionType, Changes

\* What Reply does.
LEMMA ReplyIs ==
  ASSUME SessionType, NEW c \in Clients, NEW lines \in Seq(Lines), Reply(c, lines),
         UNCHANGED inbox
  PROVE  Answers(c, session[c].role, lines)
<1> DEFINE v == [session[c] EXCEPT !.pc = "sending", !.out = lines]
<1>1. session[c] \in Sessions
  BY DEF SessionType
<1>2. v \in Sessions /\ v.pc = "sending" /\ v.role = session[c].role /\ v.out = lines
  BY <1>1 DEF Sessions, Pcs
<1>3. session' = [session EXCEPT ![c] = v]
  BY <1>1 DEF Reply, SessionType
<1> HIDE DEF v
<1>4. Changes(c) /\ session'[c] = v
  BY <1>2, <1>3, Replaced
<1> QED
  BY <1>2, <1>4 DEF Answers

\* The first line of a connection.
LEMMA ConnectIs ==
  ASSUME SessionType, NEW c \in Clients, Connect(c)
  PROVE  Answers(c, session[c].role, <<Ok("welcome")>>)
<1> DEFINE lines == <<Ok("welcome")>>
<1>1. Ok("welcome") \in Lines
  BY PlainLines
<1>2. lines \in Seq(Lines)
  BY <1>1, OneElement
<1>3. session' = [session EXCEPT ![c].pc = "sending", ![c].out = lines] /\ UNCHANGED inbox
  BY DEF Connect
<1> HIDE DEF lines
<1>4. Reply(c, lines)
  BY <1>3 DEF Reply
<1>5. Answers(c, session[c].role, lines)
  BY <1>2, <1>3, <1>4, ReplyIs
<1> QED
  BY <1>5 DEF lines

\* The answer to the credentials.
LEMMA AuthenticateIs ==
  ASSUME SessionType, NEW c \in Clients, NEW verdict \in Verdicts,
         CmdAuthenticate(c, verdict)
  PROVE  \/ Answers(c, session[c].role, <<Err("invalid_credentials")>>)
         \/ verdict \in Roles /\ Answers(c, verdict, <<OkRole(verdict)>>)
<1> DEFINE line == IF verdict = "NONE" THEN Err("invalid_credentials") ELSE OkRole(verdict)
           role == IF verdict = "NONE" THEN session[c].role ELSE verdict
           lines == <<line>>
           v == [session[c] EXCEPT !.pc = "sending", !.role = role, !.out = lines]
<1>1. session[c] \in Sessions /\ verdict \in Roles \cup {"NONE"}
  BY VerdictsAssumption DEF SessionType, Roles
<1>2. line \in Lines /\ role \in Roles
  BY <1>1, PlainLines, RoleLines DEF Sessions, Roles
<1>3. session' = [session EXCEPT ![c].pc = "sending", ![c].role = role, ![c].out = lines]
      /\ UNCHANGED inbox
  BY DEF CmdAuthenticate
<1>4. \/ role = session[c].role /\ lines = <<Err("invalid_credentials")>>
      \/ verdict \in Roles /\ role = verdict /\ lines = <<OkRole(verdict)>>
  BY <1>1
<1> HIDE DEF line
<1>5. lines \in Seq(Lines)
  BY <1>2, OneElement
<1> HIDE DEF lines, role
<1>6. v \in Sessions /\ v.pc = "sending" /\ v.role = role /\ v.out = lines
  BY <1>1, <1>2, <1>5 DEF Sessions, Pcs
<1>7. session' = [session EXCEPT ![c] = v]
  BY <1>1, <1>3 DEF SessionType
<1> HIDE DEF v
<1>8. Changes(c) /\ session'[c] = v
  BY <1>6, <1>7, Replaced
<1>9. Answers(c, role, lines)
  BY <1>3, <1>6, <1>8 DEF Answers
<1> QED
  BY <1>4, <1>9

\* The answer to QUIT.
LEMMA QuitIs ==
  ASSUME SessionType, NEW c \in Clients, CmdQuit(c)
  PROVE  Answers(c, session[c].role, <<Bye>>)
<1> DEFINE lines == <<Bye>>
           v == [session[c] EXCEPT !.pc = "sending", !.out = lines, !.then = "removing"]
<1>1. session[c] \in Sessions
  BY DEF SessionType
<1>2. lines \in Seq(Lines)
  BY PlainLines, OneElement
<1>3. session' = [session EXCEPT ![c].pc = "sending", ![c].out = lines,
                                 ![c].then = "removing"]
      /\ UNCHANGED inbox
  BY DEF CmdQuit
<1> HIDE DEF lines
<1>4. v \in Sessions /\ v.pc = "sending" /\ v.role = session[c].role /\ v.out = lines
  BY <1>1, <1>2 DEF Sessions, Pcs
<1>5. session' = [session EXCEPT ![c] = v]
  BY <1>1, <1>3 DEF SessionType
<1> HIDE DEF v
<1>6. Changes(c) /\ session'[c] = v
  BY <1>4, <1>5, Replaced
<1>7. Answers(c, session[c].role, lines)
  BY <1>3, <1>4, <1>6 DEF Answers
<1> QED
  BY <1>7 DEF lines

\* The heading that is read back.
LEMMA ReadHeadingIs ==
  ASSUME SessionType, PlantType, NEW c \in Clients, ReadHeading(c)
  PROVE  /\ equipment.heading \in Headings /\ since[c] \in SUBSET Headings
         /\ Answers(c, session[c].role, <<OkHeading(equipment.heading, since[c])>>)
<1> DEFINE line == OkHeading(equipment.heading, since[c])
           lines == <<line>>
<1>1. equipment.heading \in Headings /\ since[c] \in SUBSET Headings
  BY DEF PlantType, EquipmentState
<1>2. line \in Lines
  BY <1>1, HeadingLines
<1>3. session' = [session EXCEPT ![c].pc = "sending", ![c].out = lines] /\ UNCHANGED inbox
  BY DEF ReadHeading
<1>4. lines \in Seq(Lines)
  BY <1>2, OneElement
<1> HIDE DEF lines
<1>5. Reply(c, lines)
  BY <1>3 DEF Reply
<1>6. Answers(c, session[c].role, lines)
  BY <1>3, <1>4, <1>5, ReplyIs
<1> QED
  BY <1>1, <1>6 DEF lines

\* A turn is not told yet.
LEMMA AdjustIs ==
  ASSUME SessionType, NEW c \in Clients, NEW direction \in Directions,
         CmdAdjustHeading(c, direction)
  PROVE  Moves(c, "readback") /\ session[c].role = "ENGINEER"
<1> DEFINE v == [session[c] EXCEPT !.pc = "readback"]
<1>1. session[c] \in Sessions
  BY DEF SessionType
<1>2. session' = [session EXCEPT ![c].pc = "readback"] /\ UNCHANGED inbox
      /\ session[c].role = "ENGINEER"
  BY DEF CmdAdjustHeading, IsEngineer
<1>3. /\ v \in Sessions /\ v.pc = "readback" /\ v.role = session[c].role
      /\ v.out = session[c].out
  BY <1>1 DEF Sessions, Pcs
<1>4. session' = [session EXCEPT ![c] = v]
  BY <1>1, <1>2 DEF SessionType
<1> HIDE DEF v
<1>5. Changes(c) /\ session'[c] = v
  BY <1>3, <1>4, Replaced
<1> QED
  BY <1>2, <1>3, <1>5 DEF Moves

\* A session that leaves.
LEMMA LeaveIs ==
  ASSUME SessionType, NEW c \in Clients, Disconnect(c) \/ Remove(c)
  PROVE  \/ Disconnect(c) /\ Moves(c, "removing")
         \/ Remove(c) /\ Moves(c, "gone")
<1>1. session[c] \in Sessions
  BY DEF SessionType
<1>2. ASSUME NEW pc \in Pcs, session' = [session EXCEPT ![c].pc = pc], UNCHANGED inbox
      PROVE  Moves(c, pc)
  <2> DEFINE v == [session[c] EXCEPT !.pc = pc]
  <2>1. /\ v \in Sessions /\ v.pc = pc /\ v.role = session[c].role
        /\ v.out = session[c].out
    BY <1>1 DEF Sessions
  <2>2. session' = [session EXCEPT ![c] = v]
    BY <1>1, <1>2 DEF SessionType
  <2> HIDE DEF v
  <2>3. Changes(c) /\ session'[c] = v
    BY <2>1, <2>2, Replaced
  <2> QED
    BY <1>2, <2>1, <2>3 DEF Moves
<1>3. "removing" \in Pcs /\ "gone" \in Pcs
  BY DEF Pcs
<1>4. CASE Disconnect(c)
  BY <1>2, <1>3, <1>4 DEF Disconnect
<1>5. CASE Remove(c)
  BY <1>2, <1>3, <1>5 DEF Remove
<1> QED
  BY <1>4, <1>5

\* A line is written.
LEMMA WriteIs ==
  ASSUME SessionType, NEW c \in Clients, SendLine(c) \/ SendLastLine(c)
  PROVE  Writes(c)
<1> DEFINE out == session[c].out
           rest == Tail(out)
<1>1. session[c] \in Sessions /\ out \in Seq(Lines) /\ Len(out) \in Nat /\ session[c].pc = "sending"
  BY DEF SessionType, Sessions, SendLine, SendLastLine
<1>2. out # <<>>
  BY <1>1 DEF SendLine, SendLastLine
<1>3. Head(out) = out[1] /\ rest \in Seq(Lines) /\ Len(rest) = Len(out) - 1
  BY <1>1, <1>2, TailOf
<1>4. inbox' = [inbox EXCEPT ![c] = Append(inbox[c], Written(out[1]))]
  BY <1>3 DEF SendLine, SendLastLine, SessionType
<1>5. CASE SendLine(c)
  <2> DEFINE v == [session[c] EXCEPT !.out = rest]
  <2>1. session' = [session EXCEPT ![c].out = rest] /\ Len(out) > 1
    BY <1>5 DEF SendLine, SessionType
  <2> HIDE DEF rest
  <2>2. v \in Sessions /\ v.pc = "sending" /\ v.role = session[c].role /\ v.out = rest
    BY <1>1, <1>3 DEF Sessions
  <2>3. session' = [session EXCEPT ![c] = v]
    BY <1>1, <2>1 DEF SessionType
  <2> HIDE DEF v
  <2>4. Changes(c) /\ session'[c] = v
    BY <2>2, <2>3, Replaced
  <2>5. session'[c].out = Tail(out)
    BY <2>2, <2>4 DEF rest
  <2> QED
    BY <1>1, <1>2, <1>4, <2>1, <2>2, <2>4, <2>5 DEF Writes
<1>6. CASE SendLastLine(c)
  <2> DEFINE none == <<>>
             v == [pc |-> session[c].then, role |-> session[c].role, out |-> none,
                   then |-> "idle"]
  <2>1. session' = [session EXCEPT ![c] = [Idle(session[c].role) EXCEPT !.pc = session[c].then]]
        /\ Len(out) = 1
    BY <1>6 DEF SendLastLine, SessionType
  <2>2. [Idle(session[c].role) EXCEPT !.pc = session[c].then] = v
    BY DEF Idle
  <2>3. rest = none /\ none \in Seq(Lines)
    <3>1. Len(rest) = 0
      BY <1>3, <2>1
    <3> HIDE DEF rest
    <3> QED
      BY <1>3, <3>1, EmptySeq
  <2>4. session[c].then \in Pcs \cap {"idle", "removing"}
    BY <1>1 DEF Sessions, Pcs
  <2> HIDE DEF none
  <2>5. v \in Sessions /\ v.pc = session[c].then /\ v.role = session[c].role /\ v.out = none
    BY <1>1, <2>3, <2>4 DEF Sessions
  <2> HIDE DEF v
  <2>6. Changes(c) /\ session'[c] = v
    BY <2>1, <2>2, <2>5, Replaced
  <2>7. session'[c].out = Tail(out)
    BY <2>3, <2>5, <2>6
  <2>8. ~ Len(out) > 1 /\ session'[c].pc \in {"idle", "removing"}
    BY <2>1, <2>4, <2>5, <2>6
  <2> QED
    BY <1>1, <1>2, <1>4, <2>5, <2>6, <2>7, <2>8 DEF Writes
<1> QED
  BY <1>5, <1>6

\* The commands that always answer with one plain line.
LEMMA OneLineIs ==
  ASSUME SessionType, PlantType, NEW c \in Clients,
         \/ CmdForbidden(c) \/ CmdInvalid(c) \/ CmdGetStatus(c)
         \/ \E delta \in Deltas : CmdModifyRpm(c, delta)
  PROVE  \E line \in Lines :
           /\ Plain(line) /\ ~ IsHeading(line)
           /\ IsEffect(line) => session[c].role = "ENGINEER"
           /\ Answers(c, session[c].role, <<line>>)
<1>1. ASSUME NEW line \in Lines, Reply(c, <<line>>), UNCHANGED inbox
      PROVE  Answers(c, session[c].role, <<line>>)
  <2>1. <<line>> \in Seq(Lines)
    BY OneElement
  <2> QED
    BY <1>1, <2>1, ReplyIs
<1>2. CASE CmdForbidden(c)
  <2> DEFINE line == Err("forbidden")
  <2>1. line \in Lines /\ Plain(line) /\ ~ IsHeading(line) /\ ~ IsEffect(line)
    BY PlainLines
  <2>2. Reply(c, <<line>>) /\ UNCHANGED inbox
    BY <1>2 DEF CmdForbidden
  <2> HIDE DEF line
  <2> QED
    BY <1>1, <2>1, <2>2
<1>5. CASE CmdInvalid(c)
  <2> DEFINE line == Err("invalid_value")
  <2>1. line \in Lines /\ Plain(line) /\ ~ IsHeading(line) /\ ~ IsEffect(line)
    BY PlainLines
  <2>2. Reply(c, <<line>>) /\ UNCHANGED inbox
    BY <1>5 DEF CmdInvalid
  <2> HIDE DEF line
  <2> QED
    BY <1>1, <2>1, <2>2
<1>3. CASE CmdGetStatus(c)
  <2> DEFINE line == Status(equipment)
  <2>1. line \in Lines /\ Plain(line) /\ ~ IsHeading(line) /\ ~ IsEffect(line)
    BY PlainLines DEF PlantType
  <2>2. Reply(c, <<line>>) /\ UNCHANGED inbox
    BY <1>3 DEF CmdGetStatus
  <2> HIDE DEF line
  <2> QED
    BY <1>1, <2>1, <2>2
<1>4. ASSUME NEW delta \in Deltas, CmdModifyRpm(c, delta)
      PROVE  \E line \in Lines :
               /\ Plain(line) /\ ~ IsHeading(line)
               /\ IsEffect(line) => session[c].role = "ENGINEER"
               /\ Answers(c, session[c].role, <<line>>)
  <2> DEFINE reason == ModifyReason(equipment, delta)
             line == IF reason = "rpm" THEN Ok("rpm") ELSE Err(reason)
  <2>1. reason \in Reasons
    BY PlantOps DEF PlantType
  <2>2. line \in Lines /\ Plain(line) /\ ~ IsHeading(line)
    BY <2>1, PlainLines
  <2>3. Reply(c, <<line>>) /\ UNCHANGED inbox /\ session[c].role = "ENGINEER"
    BY <1>4 DEF CmdModifyRpm, IsEngineer
  <2> HIDE DEF line
  <2> QED
    BY <1>1, <2>2, <2>3
<1> QED
  BY <1>2, <1>3, <1>4, <1>5

\* The answer to LIST USERS: a header and one line for each listed client.
LEMMA ListUsersIs ==
  ASSUME SessionType, RegistryType, NEW c \in Clients, CmdListUsers(c)
  PROVE  \E lines \in Seq(Lines) :
           /\ Answers(c, session[c].role, lines)
           /\ Len(lines) = Len(registry) + 1 /\ Len(registry) \in Nat
           /\ lines[1] = OkCount("users", Len(registry))
           /\ \A k \in 1 .. Len(registry) :
                registry[k] \in Clients /\ lines[k + 1] = User(registry[k])
<1> DEFINE n == Len(registry)
           header == OkCount("users", n)
           users == [i \in 1 .. n |-> User(registry[i])]
           lines == <<header>> \o users
<1>1. n \in Nat /\ \A k \in 1 .. n : registry[k] \in Clients
  BY DEF RegistryType
<1>2. header \in Lines
  BY <1>1, CountLines
<1>3. Reply(c, lines) /\ UNCHANGED inbox
  BY DEF CmdListUsers
<1>4. \A k \in 1 .. n : User(registry[k]) \in Lines
  BY <1>1, UserLines
<1> HIDE DEF n, header
<1>5. users \in Seq(Lines) /\ Len(users) = n /\ \A k \in 1 .. n : users[k] = User(registry[k])
  BY <1>1, <1>4
<1> HIDE DEF users
<1>6. /\ lines \in Seq(Lines) /\ Len(lines) = n + 1 /\ lines[1] = header
      /\ \A k \in 1 .. n : lines[k + 1] = users[k]
  BY <1>2, <1>5, InFront
<1> HIDE DEF lines
<1>7. Answers(c, session[c].role, lines)
  BY <1>3, <1>6, ReplyIs
<1>8. \A k \in 1 .. n : registry[k] \in Clients /\ lines[k + 1] = User(registry[k])
  BY <1>1, <1>5, <1>6
<1> QED
  BY <1>1, <1>6, <1>7, <1>8 DEF n, header

\* The answer to GET_ALERTS: a header and the newest records of the history.
LEMMA GetAlertsIs ==
  ASSUME SessionType, PlantType, NEW c \in Clients, CmdGetAlerts(c)
  PROVE  LET n == IF Len(recent) < MaxRecords THEN Len(recent) ELSE MaxRecords
         IN  /\ Len(recent) \in Nat /\ n \in 0 .. Len(recent)
             /\ \E lines \in Seq(Lines) :
                  /\ Answers(c, session[c].role, lines)
                  /\ Len(lines) = n + 1 /\ lines[1] = OkAlerts(n, pushed)
                  /\ \A k \in 1 .. n :
                       /\ recent[Len(recent) - n + k] \in Records
                       /\ lines[k + 1] = Alert(recent[Len(recent) - n + k], "history")
<1> DEFINE n == IF Len(recent) < MaxRecords THEN Len(recent) ELSE MaxRecords
           history == Newest(MaxRecords, recent)
           header == OkAlerts(Len(history), pushed)
           alerts == [i \in 1 .. Len(history) |-> Alert(history[i], "history")]
           lines == <<header>> \o alerts
<1>1. /\ Len(recent) \in Nat /\ n \in 0 .. Len(recent) /\ recent \in Seq(Records)
      /\ MaxRecords \in Nat /\ pushed \in Nat
  BY HistoryAssumption DEF PlantType
<1>2. /\ history \in Seq(Records) /\ Len(history) = n
      /\ \A k \in 1 .. n : history[k] = recent[Len(recent) - n + k]
  BY <1>1, NewestOf
<1>3. Reply(c, lines) /\ UNCHANGED inbox
  BY DEF CmdGetAlerts
<1> HIDE DEF n, history
<1>4. n \in Nat /\ \A k \in 1 .. n : history[k] \in Records
  BY <1>1, <1>2
<1>5. header \in Lines
  BY <1>1, <1>2, <1>4, AlertsHeader
<1>6. \A k \in 1 .. n : Alert(history[k], "history") \in Lines
  BY <1>4, AlertLines
<1>7. /\ alerts \in Seq(Lines) /\ Len(alerts) = n
      /\ \A k \in 1 .. n : alerts[k] = Alert(history[k], "history")
  BY <1>2, <1>4, <1>6
<1>8. header = OkAlerts(n, pushed)
  BY <1>2
<1> HIDE DEF alerts, header
<1>9. /\ lines \in Seq(Lines) /\ Len(lines) = n + 1 /\ lines[1] = header
      /\ \A k \in 1 .. n : lines[k + 1] = alerts[k]
  BY <1>5, <1>7, InFront
<1> HIDE DEF lines
<1>10. Answers(c, session[c].role, lines)
  BY <1>3, <1>9, ReplyIs
<1>11. /\ Len(recent) \in Nat /\ n \in 0 .. Len(recent)
       /\ \E l \in Seq(Lines) :
            /\ Answers(c, session[c].role, l)
            /\ Len(l) = n + 1 /\ l[1] = OkAlerts(n, pushed)
            /\ \A k \in 1 .. n :
                 /\ recent[Len(recent) - n + k] \in Records
                 /\ l[k + 1] = Alert(recent[Len(recent) - n + k], "history")
  <2>1. \A k \in 1 .. n : /\ recent[Len(recent) - n + k] \in Records
                           /\ lines[k + 1] = Alert(recent[Len(recent) - n + k], "history")
    BY <1>2, <1>4, <1>7, <1>9
  <2> QED
    BY <1>1, <1>8, <1>9, <1>10, <2>1
<1> QED
  BY <1>11 DEF n

\* What the metrics thread broadcasts, each registered client is sent.
Broadcasts(line) ==
  /\ line \in Lines /\ lock = "free" /\ UNCHANGED <<session, registry, lock, copied>>
  /\ inbox' = [d \in Clients |->
                 IF d \in Registered THEN Append(inbox[d], line) ELSE inbox[d]]

\* The two broadcasts.
LEMMA BroadcastIs ==
  ASSUME Types
  PROVE  /\ BroadcastMetric => Broadcasts(Metric(metrics.snap))
         /\ BroadcastAlert =>
              /\ Head(metrics.done) = metrics.done[1] /\ metrics.done[1] \in Records
              /\ Broadcasts(Alert(metrics.done[1], "broadcast"))
<1>1. Metric(metrics.snap) \in Lines
  BY MetricLines DEF Types, ThreadType
<1>2. ASSUME BroadcastAlert
      PROVE  Head(metrics.done) = metrics.done[1] /\ metrics.done[1] \in Records
  BY <1>2, TailOf DEF BroadcastAlert, Types, ThreadType
<1>3. metrics.done[1] \in Records => Alert(metrics.done[1], "broadcast") \in Lines
  BY AlertLines
<1> QED
  BY <1>1, <1>2, <1>3 DEF BroadcastMetric, BroadcastAlert, Broadcast, Broadcasts

\* The lines of a socket after one more.
LEMMA OneMore ==
  ASSUME SessionType, NEW d \in Clients, NEW line \in Lines
  PROVE  /\ Append(inbox[d], line) \in Seq(Lines) /\ Len(inbox[d]) \in Nat
         /\ Len(Append(inbox[d], line)) = Len(inbox[d]) + 1
         /\ \A k \in 1 .. Len(inbox[d]) : Append(inbox[d], line)[k] = inbox[d][k]
         /\ Append(inbox[d], line)[Len(inbox[d]) + 1] = line
<1>1. inbox[d] \in Seq(Lines)
  BY DEF SessionType
<1> QED
  BY <1>1, AppendProperties

\* The sessions and the lines they have written or still have to write keep
\* their types.
LEMMA SessionsType ==
  ASSUME Types, Next
  PROVE  session' \in [Clients -> Sessions] /\ inbox' \in [Clients -> Seq(Lines)]
<1> USE DEF Types
<1>1. ASSUME NEW c \in Clients, NEW role, NEW lines, Answers(c, role, lines)
      PROVE  session' \in [Clients -> Sessions] /\ inbox' \in [Clients -> Seq(Lines)]
  BY <1>1 DEF Answers, Changes, SessionType
<1>2. ASSUME NEW c \in Clients, NEW pc, Moves(c, pc)
      PROVE  session' \in [Clients -> Sessions] /\ inbox' \in [Clients -> Seq(Lines)]
  BY <1>2 DEF Moves, Changes, SessionType
<1>3. ASSUME NEW c \in Clients, Writes(c)
      PROVE  session' \in [Clients -> Sessions] /\ inbox' \in [Clients -> Seq(Lines)]
  <2>1. session[c].out \in Seq(Lines) /\ session[c].out # <<>>
    BY <1>3 DEF Writes, SessionType, Sessions
  <2>2. Written(session[c].out[1]) \in Lines
    BY <2>1, TailOf, WrittenIs
  <2>3. Append(inbox[c], Written(session[c].out[1])) \in Seq(Lines)
    BY <2>2, OneMore
  <2> QED
    BY <1>3, <2>3 DEF Writes, Changes, SessionType
<1>4. ASSUME NEW line, Broadcasts(line)
      PROVE  session' \in [Clients -> Sessions] /\ inbox' \in [Clients -> Seq(Lines)]
  <2>1. \A d \in Clients : Append(inbox[d], line) \in Seq(Lines)
    BY <1>4, OneMore DEF Broadcasts
  <2> QED
    BY <1>4, <2>1 DEF Broadcasts, SessionType
<1>5. ASSUME UNCHANGED <<session, inbox>>
      PROVE  session' \in [Clients -> Sessions] /\ inbox' \in [Clients -> Seq(Lines)]
  BY <1>5 DEF SessionType
<1>6. CASE MetricsThread
  <2>1. CASE (\E noise \in Noise : Tick(noise)) \/ ReadSnapshot \/ EmitAlert \/ EvaluateEnd
             \/ EndCycle
    BY <1>5, <2>1 DEF Tick, ReadSnapshot, EmitAlert, EvaluateEnd, EndCycle
  <2>2. CASE BroadcastMetric \/ BroadcastAlert
    BY <1>4, <2>2, BroadcastIs
  <2> QED
    BY <1>6, <2>1, <2>2 DEF MetricsThread
<1>7. CASE Finished
  BY <1>5, <1>7 DEF Finished, vars
<1>8. ASSUME NEW c \in Clients, Connect(c) \/ ReadHeading(c) \/ CmdQuit(c)
      PROVE  session' \in [Clients -> Sessions] /\ inbox' \in [Clients -> Seq(Lines)]
  BY <1>1, <1>8, ConnectIs, ReadHeadingIs, QuitIs
<1>9. ASSUME NEW c \in Clients, SendLine(c) \/ SendLastLine(c)
      PROVE  session' \in [Clients -> Sessions] /\ inbox' \in [Clients -> Seq(Lines)]
  BY <1>3, <1>9, WriteIs
<1>10. ASSUME NEW c \in Clients, Disconnect(c) \/ Remove(c)
       PROVE  session' \in [Clients -> Sessions] /\ inbox' \in [Clients -> Seq(Lines)]
  BY <1>2, <1>10, LeaveIs
<1>11. ASSUME NEW c \in Clients, NEW verdict \in Verdicts, CmdAuthenticate(c, verdict)
       PROVE  session' \in [Clients -> Sessions] /\ inbox' \in [Clients -> Seq(Lines)]
  BY <1>1, <1>11, AuthenticateIs
<1>12. ASSUME NEW c \in Clients, NEW direction \in Directions, CmdAdjustHeading(c, direction)
       PROVE  session' \in [Clients -> Sessions] /\ inbox' \in [Clients -> Seq(Lines)]
  BY <1>2, <1>12, AdjustIs
<1>13. ASSUME NEW c \in Clients,
              \/ CmdForbidden(c) \/ CmdInvalid(c) \/ CmdGetStatus(c)
              \/ \E delta \in Deltas : CmdModifyRpm(c, delta)
       PROVE  session' \in [Clients -> Sessions] /\ inbox' \in [Clients -> Seq(Lines)]
  BY <1>1, <1>13, OneLineIs
<1>14. ASSUME NEW c \in Clients, CmdListUsers(c)
       PROVE  session' \in [Clients -> Sessions] /\ inbox' \in [Clients -> Seq(Lines)]
  BY <1>1, <1>14, ListUsersIs
<1>15. ASSUME NEW c \in Clients, CmdGetAlerts(c)
       PROVE  session' \in [Clients -> Sessions] /\ inbox' \in [Clients -> Seq(Lines)]
  BY <1>1, <1>15, GetAlertsIs
<1> QED
  BY <1>6, <1>7, <1>8, <1>9, <1>10, <1>11, <1>12, <1>13, <1>14, <1>15 DEF Next, Command

\* The counters keep theirs.
LEMMA CountersStep == ASSUME Types, Next PROVE copied' \in [Clients -> Int] /\ commands' \in [Names -> Nat]
<1>1. copied \in [Clients -> Int] /\ commands \in [Names -> Nat] /\ pushed \in Int
  BY DEF Types, SessionType, PlantType
<1>2. CASE MetricsThread \/ Finished
  BY <1>1, <1>2 DEF MetricsThread, Tick, ReadSnapshot, BroadcastMetric, EmitAlert, EvaluateEnd,
                    BroadcastAlert, EndCycle, Finished, vars
<1>3. ASSUME NEW c \in Clients,
             \/ Connect(c) \/ SendLine(c) \/ SendLastLine(c) \/ Disconnect(c) \/ Remove(c)
             \/ ReadHeading(c)
      PROVE  copied' \in [Clients -> Int] /\ commands' \in [Names -> Nat]
  BY <1>1, <1>3 DEF Connect, SendLine, SendLastLine, Disconnect, Remove, ReadHeading
<1>4. ASSUME NEW c \in Clients, Command(c)
      PROVE  copied' \in [Clients -> Int] /\ commands' \in [Names -> Nat]
  <2>1. PICK name \in Names :
               commands[name] > 0 /\ commands' = [commands EXCEPT ![name] = @ - 1]
    BY <1>4, CommandFrame
  <2>2. commands[name] - 1 \in Nat
    BY <1>1, <2>1
  <2>3. commands' \in [Names -> Nat]
    BY <1>1, <2>1, <2>2
  <2> QED
    BY <1>1, <1>4, <2>3, CommandFrame
<1> QED
  BY <1>2, <1>3, <1>4 DEF Next

\* The initial state has the types.
LEMMA InitTypes == Init => Types
<1> SUFFICES ASSUME Init PROVE Types
  OBVIOUS
<1>1. InitialEquipment \in EquipmentState
  BY DEF InitialEquipment, EquipmentState, RpmMax, TempAmbient, Headings
<1>2. <<>> \in Seq(Lines) /\ <<>> \in Seq(AlertKinds) /\ <<>> \in Seq(Records)
      /\ <<>> \in Seq(Clients)
  OBVIOUS
<1>3. [Idle("SUPERVISOR") EXCEPT !.pc = "none"] \in Sessions
  <2> DEFINE none == <<>>
  <2>1. none \in Seq(Lines)
    BY <1>2
  <2>2. [Idle("SUPERVISOR") EXCEPT !.pc = "none"]
          = [pc |-> "none", role |-> "SUPERVISOR", out |-> none, then |-> "idle"]
    BY DEF Idle
  <2> HIDE DEF none
  <2> QED
    BY <2>1, <2>2 DEF Sessions, Pcs, Roles
<1>4. ThreadType
  <2> DEFINE none == <<>>
             snap == InitialEquipment
  <2>1. metrics = [pc |-> "tick", snap |-> snap, todo |-> none, done |-> none] /\ cycles \in Nat
    BY WorkloadsAssumption DEF Init
  <2>2. none \in Seq(AlertKinds) /\ none \in Seq(Records)
    BY <1>2
  <2> HIDE DEF none, snap
  <2>3. snap \in EquipmentState
    BY <1>1 DEF snap
  <2> QED
    BY <2>1, <2>2, <2>3 DEF ThreadType
<1>5. PlantType /\ RegistryType
  BY <1>1, <1>2 DEF Init, PlantType, RegistryType, EquipmentState
<1>6. session \in [Clients -> Sessions]
  BY <1>3 DEF Init
<1>7. SessionType
  BY <1>2, <1>6, WorkloadsAssumption DEF Init, SessionType
<1> QED
  BY <1>4, <1>5, <1>7 DEF Types

\* Every step keeps the types.
LEMMA TypesStep == Types /\ [Next]_vars => Types'
<1> SUFFICES ASSUME Types, [Next]_vars PROVE Types'
  OBVIOUS
<1>1. CASE UNCHANGED vars
  BY <1>1 DEF vars, Types, ThreadType, PlantType, RegistryType, SessionType
<1>2. CASE Next
  <2>1. ThreadType' /\ PlantType' /\ RegistryType'
    BY <1>2, ThreadStep, PlantStep, RegistryStep
  <2>2. SessionType'
    BY <1>2, SessionsType, CountersStep DEF SessionType
  <2> QED
    BY <2>1, <2>2 DEF Types
<1> QED
  BY <1>1, <1>2

-----------------------------------------------------------------------------
(* Shape                                                                      *)

\* The steps of a session that is connected, but for its removal.
Stays(c) ==
  /\ Changes(c) /\ session[c].pc \notin {"none", "gone"}
  /\ session'[c].pc \notin {"none", "gone"}
  /\ session'[c].pc = "sending" <=> session'[c].out # <<>>
  /\ UNCHANGED registry
  /\ \A d \in Clients \ {c} : inbox'[d] = inbox[d] /\ copied'[d] = copied[d]

\* A step that leaves every session where it is keeps the shape.
LEMMA StaysShape ==
  ASSUME Types, Shape, NEW c \in Clients, Stays(c)
  PROVE  Shape'
<1>1. Registered' = Registered
  BY DEF Stays, Registered
<1>2. ASSUME NEW d \in Clients
      PROVE  /\ session'[d].pc = "sending" <=> session'[d].out # <<>>
             /\ session'[d].pc = "none" => inbox'[d] = <<>> /\ copied'[d] = -1
             /\ d \in Registered' <=> session'[d].pc \notin {"none", "gone"}
  <2>1. CASE d = c
    BY <1>1, <2>1 DEF Stays, Shape
  <2>2. CASE d # c
    BY <1>1, <2>2 DEF Stays, Changes, Shape
  <2> QED
    BY <2>1, <2>2
<1>3. \A i, j \in 1 .. Len(registry') : registry'[i] = registry'[j] => i = j
  BY DEF Stays, Shape
<1> QED
  BY <1>2, <1>3 DEF Shape

\* A session that is not sending has nothing to write.
LEMMA NothingToTell ==
  ASSUME Types, Shape, NEW c \in Clients, session[c].pc # "sending"
  PROVE  session[c].out = <<>> /\ Len(session[c].out) = 0
  BY DEF Shape

\* A command answers, or turns the plant, in a session that stays.
LEMMA CommandStays ==
  ASSUME Types, Shape, NEW c \in Clients, Command(c)
  PROVE  Stays(c)
<1>1. /\ session[c].pc = "idle" /\ UNCHANGED <<registry, inbox>>
      /\ \A d \in Clients \ {c} : copied'[d] = copied[d]
  BY CommandFrame DEF Types, SessionType
<1>2. ASSUME NEW role, NEW lines, lines # <<>>, Answers(c, role, lines) PROVE Stays(c)
  BY <1>1, <1>2 DEF Stays, Answers
<1>3. ASSUME NEW role, NEW line \in Lines, Answers(c, role, <<line>>) PROVE Stays(c)
  <2>1. <<line>> # <<>>
    OBVIOUS
  <2> QED
    BY <1>2, <1>3, <2>1
<1> USE DEF Types
<1>4. CASE CmdForbidden(c) \/ CmdInvalid(c) \/ CmdGetStatus(c) \/ \E delta \in Deltas : CmdModifyRpm(c, delta)
  BY <1>3, <1>4, OneLineIs
<1>5. CASE CmdQuit(c)
  BY <1>3, <1>5, QuitIs, PlainLines
<1>6. CASE \E verdict \in Verdicts : CmdAuthenticate(c, verdict)
  BY <1>3, <1>6, AuthenticateIs, PlainLines, RoleLines
<1>7. CASE CmdGetAlerts(c)
  <2>1. PICK lines \in Seq(Lines), n \in Nat :
               Answers(c, session[c].role, lines) /\ Len(lines) = n + 1
    BY <1>7, GetAlertsIs
  <2>2. lines # <<>>
    BY <2>1
  <2> QED
    BY <1>2, <2>1, <2>2
<1>8. CASE CmdListUsers(c)
  <2>1. PICK lines \in Seq(Lines), n \in Nat :
               Answers(c, session[c].role, lines) /\ Len(lines) = n + 1
    BY <1>8, ListUsersIs
  <2>2. lines # <<>>
    BY <2>1
  <2> QED
    BY <1>2, <2>1, <2>2
<1>9. CASE \E direction \in Directions : CmdAdjustHeading(c, direction)
  <2>1. Moves(c, "readback")
    BY <1>9, AdjustIs
  <2> QED
    BY <1>1, <2>1, NothingToTell DEF Stays, Moves
<1> QED
  BY <1>4, <1>5, <1>6, <1>7, <1>8, <1>9 DEF Command

\* So does a session that reads the heading back, writes a line or hears that
\* its client has gone.
LEMMA SessionStays ==
  ASSUME Types, Shape, NEW c \in Clients,
         ReadHeading(c) \/ SendLine(c) \/ SendLastLine(c) \/ Disconnect(c)
  PROVE  Stays(c)
<1> USE DEF Types
<1>1. CASE ReadHeading(c)
  <2>1. session[c].pc = "readback" /\ UNCHANGED <<registry, inbox, copied>>
    BY <1>1 DEF ReadHeading
  <2>2. PICK line : Answers(c, session[c].role, <<line>>)
    BY <1>1, ReadHeadingIs
  <2>3. <<line>> # <<>>
    OBVIOUS
  <2> QED
    BY <2>1, <2>2, <2>3 DEF Stays, Answers
<1>2. CASE SendLine(c) \/ SendLastLine(c)
  <2>1. UNCHANGED <<registry, copied>>
    BY <1>2 DEF SendLine, SendLastLine
  <2>2. Writes(c)
    BY <1>2, WriteIs
  <2>3. session[c].out \in Seq(Lines) /\ session[c].out # <<>>
    BY <2>2 DEF Writes, SessionType, Sessions
  <2>4. Len(session[c].out) > 1 <=> Tail(session[c].out) # <<>>
    <3> DEFINE rest == Tail(session[c].out)
    <3>1. rest \in Seq(Lines) /\ Len(rest) = Len(session[c].out) - 1
          /\ Len(session[c].out) \in Nat
      BY <2>3, TailOf
    <3> HIDE DEF rest
    <3>2. rest # <<>> <=> Len(rest) # 0
      BY <3>1, EmptySeq
    <3>3. Len(session[c].out) > 1 <=> rest # <<>>
      BY <2>3, <3>1, <3>2, TailOf
    <3> QED
      BY <3>3 DEF rest
  <2>5. \A d \in Clients \ {c} : inbox'[d] = inbox[d]
    BY <2>2 DEF Writes, SessionType
  <2> QED
    BY <2>1, <2>2, <2>4, <2>5 DEF Stays, Writes
<1>3. CASE Disconnect(c)
  <2>1. session[c].pc = "idle" /\ UNCHANGED <<registry, inbox, copied>>
    BY <1>3 DEF Disconnect
  <2>2. Moves(c, "removing")
    BY <1>3, LeaveIs DEF Remove, Disconnect
  <2> QED
    BY <2>1, <2>2, NothingToTell DEF Stays, Moves
<1> QED
  BY <1>1, <1>2, <1>3

\* connection_registry_remove takes c out and leaves the others in their order.
LEMMA RemoveIs ==
  ASSUME Types, Shape, NEW c \in Clients, Remove(c)
  PROVE  /\ Registered' = Registered \ {c} /\ Moves(c, "gone")
         /\ session[c].pc = "removing" /\ lock = "free" /\ UNCHANGED <<lock, inbox, copied>>
         /\ \A i, j \in 1 .. Len(registry') : registry'[i] = registry'[j] => i = j
<1> USE DEF Types
<1>1. PICK i \in 1 .. Len(registry) : registry[i] = c /\ registry' = Without(registry, i)
  BY DEF Remove, Without
<1>2. /\ registry \in Seq(Clients) /\ Len(registry) \in Nat /\ i \in Nat
      /\ Len(registry') = Len(registry) - 1
      /\ \A k \in 1 .. Len(registry) - 1 :
           registry'[k] = IF k < i THEN registry[k] ELSE registry[k + 1]
  <2>1. registry \in Seq(Clients) /\ Len(registry) \in Nat /\ i \in Nat
    BY DEF RegistryType
  <2> QED
    BY <1>1, <2>1, WithoutOne
<1> DEFINE old(k) == IF k < i THEN k ELSE k + 1
<1>3. \A k \in 1 .. Len(registry') :
        old(k) \in 1 .. Len(registry) /\ old(k) # i /\ registry'[k] = registry[old(k)]
  BY <1>2
<1>4. \A k, l \in 1 .. Len(registry') : old(k) = old(l) => k = l
  BY <1>2
<1>5. ASSUME NEW j \in 1 .. Len(registry), j # i
      PROVE  \E k \in 1 .. Len(registry') : registry'[k] = registry[j]
  <2>1. CASE j < i
    <3>1. j \in 1 .. Len(registry')
      BY <1>2, <2>1
    <3> QED
      BY <1>2, <2>1, <3>1
  <2>2. CASE ~ j < i
    <3>1. j - 1 \in 1 .. Len(registry') /\ ~ j - 1 < i /\ (j - 1) + 1 = j
      BY <1>2, <1>5, <2>2
    <3> QED
      BY <1>2, <3>1
  <2> QED
    BY <2>1, <2>2
<1>6. \A j, k \in 1 .. Len(registry) : registry[j] = registry[k] => j = k
  BY DEF Shape
<1> HIDE DEF old
<1>7. Registered' = Registered \ {c}
  <2> DEFINE all == 1 .. Len(registry)
             all1 == 1 .. Len(registry')
  <2>1. Registered = {registry[j] : j \in all} /\ Registered' = {registry'[j] : j \in all1}
    BY DEF Registered
  <2>2. i \in all /\ registry[i] = c
    BY <1>1
  <2>3. \A k \in all1 : registry'[k] \in {registry[j] : j \in all} /\ registry'[k] # c
    BY <1>3, <1>6, <2>2
  <2>4. \A j \in all : j # i => \E k \in all1 : registry'[k] = registry[j]
    BY <1>5
  <2> HIDE DEF all, all1
  <2> QED
    BY <2>1, <2>2, <2>3, <2>4
<1>8. \A j, k \in 1 .. Len(registry') : registry'[j] = registry'[k] => j = k
  BY <1>3, <1>4, <1>6
<1>9. Moves(c, "gone")
  BY LeaveIs DEF Remove, Disconnect
<1> QED
  BY <1>7, <1>8, <1>9 DEF Remove

\* The accept loop puts c in front.
LEMMA ConnectRegisters ==
  ASSUME Types, Shape, NEW c \in Clients, Connect(c)
  PROVE  /\ Registered' = Registered \cup {c} /\ c \notin Registered
         /\ session[c].pc = "none" /\ lock = "free" /\ UNCHANGED <<lock, inbox, copied>>
         /\ \A i, j \in 1 .. Len(registry') : registry'[i] = registry'[j] => i = j
<1>1. registry' = <<c>> \o registry /\ session[c].pc = "none"
  BY DEF Connect
<1>2. c \notin Registered
  BY <1>1 DEF Shape
<1>3. /\ registry \in Seq(Clients) /\ Len(registry) \in Nat
      /\ Len(registry') = Len(registry) + 1 /\ registry'[1] = c
      /\ \A i \in 1 .. Len(registry) : registry'[i + 1] = registry[i]
  BY <1>1, InFront DEF Types, RegistryType
<1>4. ASSUME NEW i \in 1 .. Len(registry')
      PROVE  i = 1 \/ (i - 1 \in 1 .. Len(registry) /\ registry'[i] = registry[i - 1])
  <2>1. CASE i # 1
    <3>1. i - 1 \in 1 .. Len(registry) /\ (i - 1) + 1 = i
      BY <1>3, <2>1
    <3> QED
      BY <1>3, <3>1
  <2> QED
    BY <2>1
<1>5. \A i \in 1 .. Len(registry) : i + 1 \in 1 .. Len(registry')
  BY <1>3
<1>6. 1 \in 1 .. Len(registry')
  BY <1>3
<1>7. Registered' = Registered \cup {c}
  <2>1. \A i \in 1 .. Len(registry') : registry'[i] \in Registered \cup {c}
    BY <1>3, <1>4 DEF Registered
  <2>2. ASSUME NEW i \in 1 .. Len(registry) PROVE registry[i] \in Registered'
    BY <1>3, <1>5 DEF Registered
  <2>3. c \in Registered'
    BY <1>3, <1>6 DEF Registered
  <2> QED
    BY <2>1, <2>2, <2>3 DEF Registered
<1>8. ASSUME NEW i \in 1 .. Len(registry'), NEW j \in 1 .. Len(registry'),
             registry'[i] = registry'[j]
      PROVE  i = j
  <2>1. CASE i = 1 \/ j = 1
    BY <1>2, <1>3, <1>4, <1>8, <2>1 DEF Registered
  <2>2. CASE i # 1 /\ j # 1
    <3>1. i - 1 = j - 1
      BY <1>4, <1>8, <2>2 DEF Shape
    <3> QED
      BY <3>1
  <2> QED
    BY <2>1, <2>2
<1> QED
  BY <1>1, <1>2, <1>7, <1>8 DEF Connect

\* A broadcast keeps the shape.
LEMMA BroadcastShape ==
  ASSUME Types, Shape, NEW line, Broadcasts(line)
  PROVE  Shape'
<1>1. Registered' = Registered
  BY DEF Broadcasts, Registered
<1>2. \A d \in Clients : session[d].pc = "none" => inbox'[d] = inbox[d]
  BY DEF Broadcasts, Shape
<1> QED
  BY <1>1, <1>2 DEF Broadcasts, Shape

\* Every step keeps the shape.
LEMMA ShapeStep == Types /\ Shape /\ Next => Shape'
<1> SUFFICES ASSUME Types, Shape, Next PROVE Shape'
  OBVIOUS
<1>1. CASE \/ (\E noise \in Noise : Tick(noise)) \/ ReadSnapshot \/ EmitAlert \/ EvaluateEnd
           \/ EndCycle \/ Finished
  <2>1. UNCHANGED <<registry, session, inbox, copied>>
    BY <1>1 DEF Tick, ReadSnapshot, EmitAlert, EvaluateEnd, EndCycle, Finished, vars
  <2> QED
    BY <2>1 DEF Shape, Registered
<1>2. CASE BroadcastMetric \/ BroadcastAlert
  BY <1>2, BroadcastIs, BroadcastShape
<1>3. ASSUME NEW c \in Clients, Command(c) PROVE Shape'
  BY <1>3, CommandStays, StaysShape
<1>4. ASSUME NEW c \in Clients,
             ReadHeading(c) \/ SendLine(c) \/ SendLastLine(c) \/ Disconnect(c)
      PROVE  Shape'
  BY <1>4, SessionStays, StaysShape
<1>5. ASSUME NEW c \in Clients, Connect(c) PROVE Shape'
  <2>1. /\ Registered' = Registered \cup {c} /\ UNCHANGED <<inbox, copied>>
        /\ \A i, j \in 1 .. Len(registry') : registry'[i] = registry'[j] => i = j
    BY <1>5, ConnectRegisters
  <2>2. Answers(c, session[c].role, <<Ok("welcome")>>)
    BY <1>5, ConnectIs DEF Types
  <2>3. <<Ok("welcome")>> # <<>>
    OBVIOUS
  <2> QED
    BY <2>1, <2>2, <2>3 DEF Answers, Changes, Shape
<1>6. ASSUME NEW c \in Clients, Remove(c) PROVE Shape'
  <2>1. /\ Registered' = Registered \ {c} /\ UNCHANGED <<inbox, copied>>
        /\ Moves(c, "gone") /\ session[c].pc = "removing"
        /\ \A i, j \in 1 .. Len(registry') : registry'[i] = registry'[j] => i = j
    BY <1>6, RemoveIs
  <2> QED
    BY <2>1 DEF Moves, Changes, Shape
<1> QED
  BY <1>1, <1>2, <1>3, <1>4, <1>5, <1>6 DEF Next, MetricsThread

\* Initially nobody has connected.
LEMMA InitShape == Init => Shape
  BY DEF Init, Shape, Registered, Idle

-----------------------------------------------------------------------------
(* Authority                                                                  *)

\* Whether an engineer's verdict is the last depends on the lines up to there.
LEMMA EngineerPrefix ==
  ASSUME NEW s, NEW t, NEW n \in Nat, \A k \in 1 .. n : s[k] = t[k], EngineerAfter(s, n)
  PROVE  EngineerAfter(t, n)
  BY DEF EngineerAfter

\* One line more, which is no effect or follows an engineer's verdict.
LEMMA AuthorizedMore ==
  ASSUME SessionType, NEW d \in Clients, NEW line \in Lines, Authorized(inbox[d]),
         IsEffect(line) => EngineerAfter(inbox[d], Len(inbox[d]))
  PROVE  Authorized(Append(inbox[d], line))
<1> DEFINE s == inbox[d]
           t == Append(s, line)
<1>1. /\ Len(s) \in Nat /\ Len(t) = Len(s) + 1 /\ t[Len(s) + 1] = line
      /\ \A k \in 1 .. Len(s) : t[k] = s[k]
  BY OneMore
<1>2. Authorized(s) /\ (IsEffect(line) => EngineerAfter(s, Len(s)))
  OBVIOUS
<1> HIDE DEF s, t
<1>3. ASSUME NEW i \in 1 .. Len(t), IsEffect(t[i]) PROVE EngineerAfter(t, i - 1)
  <2>1. i - 1 \in Nat /\ \A k \in 1 .. i - 1 : s[k] = t[k]
    BY <1>1
  <2>2. EngineerAfter(s, i - 1)
    <3>1. CASE i = Len(s) + 1
      BY <1>1, <1>2, <1>3, <3>1
    <3>2. CASE i # Len(s) + 1
      <4>1. i \in 1 .. Len(s)
        BY <1>1, <3>2
      <4> QED
        BY <1>1, <1>2, <1>3, <4>1 DEF Authorized
    <3> QED
      BY <3>1, <3>2
  <2> QED
    BY <2>1, <2>2, EngineerPrefix
<1>4. Authorized(t)
  BY <1>3 DEF Authorized
<1> QED
  BY <1>4 DEF s, t

\* After one line more the last verdict is that line, or the one before it.
LEMMA EngineerMore ==
  ASSUME SessionType, NEW d \in Clients, NEW line \in Lines,
         IF IsVerdict(line) THEN line.role = "ENGINEER"
                            ELSE EngineerAfter(inbox[d], Len(inbox[d]))
  PROVE  EngineerAfter(Append(inbox[d], line), Len(Append(inbox[d], line)))
<1> DEFINE s == inbox[d]
           t == Append(s, line)
<1>1. /\ Len(s) \in Nat /\ Len(t) = Len(s) + 1 /\ t[Len(s) + 1] = line
      /\ \A k \in 1 .. Len(s) : t[k] = s[k]
  BY OneMore
<1>2. IF IsVerdict(line) THEN line.role = "ENGINEER" ELSE EngineerAfter(s, Len(s))
  OBVIOUS
<1> HIDE DEF s, t
<1>3. EngineerAfter(t, Len(t))
  <2>1. CASE IsVerdict(line)
    <3>1. /\ Len(t) \in 1 .. Len(t) /\ IsVerdict(t[Len(t)]) /\ t[Len(t)].role = "ENGINEER"
          /\ \A k \in 1 .. Len(t) : k <= Len(t)
      BY <1>1, <1>2, <2>1
    <3> QED
      BY <3>1 DEF EngineerAfter
  <2>2. CASE ~ IsVerdict(line)
    <3>1. PICK j \in 1 .. Len(s) :
                 /\ IsVerdict(s[j]) /\ s[j].role = "ENGINEER"
                 /\ \A k \in 1 .. Len(s) : IsVerdict(s[k]) => k <= j
      BY <1>2, <2>2 DEF EngineerAfter
    <3>2. j \in 1 .. Len(t) /\ IsVerdict(t[j]) /\ t[j].role = "ENGINEER"
      BY <1>1, <3>1
    <3>3. ASSUME NEW k \in 1 .. Len(t), IsVerdict(t[k]) PROVE k <= j
      <4>1. k \in 1 .. Len(s)
        BY <1>1, <2>2, <3>3
      <4> QED
        BY <1>1, <3>1, <3>3, <4>1
    <3> QED
      BY <3>2, <3>3 DEF EngineerAfter
  <2> QED
    BY <2>1, <2>2
<1> QED
  BY <1>3 DEF s, t

\* Only c's session changes.
LEMMA OthersAuthority ==
  ASSUME Authority, NEW c \in Clients, Changes(c), AuthorityOf(c)',
         \A d \in Clients \ {c} : inbox'[d] = inbox[d]
  PROVE  Authority'
<1>1. ASSUME NEW d \in Clients \ {c} PROVE AuthorityOf(d)'
  <2>1. session'[d] = session[d] /\ inbox'[d] = inbox[d]
    BY DEF Changes
  <2> QED
    BY <2>1 DEF Authority, AuthorityOf
<1> QED
  BY <1>1 DEF Authority

\* An answer without a verdict, by an engineer if it tells an effect.
LEMMA AnswersAuthority ==
  ASSUME Types, Authority, NEW c \in Clients, session[c].out = <<>>,
         NEW lines, Answers(c, session[c].role, lines),
         \A k \in 1 .. Len(lines) :
           ~ IsVerdict(lines[k]) /\ (IsEffect(lines[k]) => session[c].role = "ENGINEER")
  PROVE  Authority'
<1>1. /\ session'[c].pc = "sending" /\ session'[c].role = session[c].role
      /\ session'[c].out = lines /\ inbox' = inbox /\ Changes(c)
  BY DEF Answers
<1>2. Authorized(inbox[c])
      /\ (session[c].role = "ENGINEER" => EngineerAfter(inbox[c], Len(inbox[c])))
  BY DEF Authority, AuthorityOf
<1>3. AuthorityOf(c)'
  BY <1>1, <1>2 DEF AuthorityOf
<1> QED
  BY <1>1, <1>3, OthersAuthority

\* An answer of one line that is no verdict.
LEMMA OneLineAuthority ==
  ASSUME Types, Authority, NEW c \in Clients, session[c].out = <<>>,
         NEW line \in Lines, Answers(c, session[c].role, <<line>>),
         ~ IsVerdict(line), IsEffect(line) => session[c].role = "ENGINEER"
  PROVE  Authority'
<1>1. \A k \in 1 .. Len(<<line>>) : <<line>>[k] = line
  OBVIOUS
<1> QED
  BY <1>1, AnswersAuthority

\* An answer of one verdict.
LEMMA VerdictAuthority ==
  ASSUME Types, Authority, NEW c \in Clients, session[c].out = <<>>,
         NEW role \in Roles, Answers(c, role, <<OkRole(role)>>)
  PROVE  Authority'
<1> DEFINE lines == <<OkRole(role)>>
<1>1. Len(lines) = 1 /\ lines[1] = OkRole(role)
  OBVIOUS
<1>2. IsVerdict(lines[1]) /\ lines[1].role = role /\ ~ IsEffect(lines[1])
  BY <1>1, RoleLines
<1>3. /\ session'[c].pc = "sending" /\ session'[c].role = role
      /\ session'[c].out = lines /\ inbox' = inbox /\ Changes(c)
  BY DEF Answers
<1> HIDE DEF lines
<1>4. 1 \in 1 .. Len(lines) /\ \A k \in 1 .. Len(lines) : k = 1
  BY <1>1
<1>5. Authorized(inbox[c])
  BY DEF Authority, AuthorityOf
<1>6. AuthorityOf(c)'
  BY <1>1, <1>2, <1>3, <1>4, <1>5 DEF AuthorityOf
<1> QED
  BY <1>3, <1>6, OthersAuthority

\* A session that moves, and turns the plant only as an engineer's.
LEMMA MovesAuthority ==
  ASSUME Types, Authority, NEW c \in Clients, NEW pc, Moves(c, pc),
         pc = "readback" => session[c].role = "ENGINEER"
  PROVE  Authority'
<1>1. /\ session'[c].pc = pc /\ session'[c].role = session[c].role
      /\ session'[c].out = session[c].out /\ inbox' = inbox /\ Changes(c)
  BY DEF Moves
<1>2. AuthorityOf(c)'
  BY <1>1 DEF Authority, AuthorityOf
<1> QED
  BY <1>1, <1>2, OthersAuthority

\* Writing a line hands its authority over from what is to be written to what is.
LEMMA WritesAuthority ==
  ASSUME Types, Authority, NEW c \in Clients, Writes(c)
  PROVE  Authority'
<1> USE DEF Types
<1> DEFINE out == session[c].out
           rest == Tail(out)
           line == Written(out[1])
           s == inbox[c]
           t == Append(s, line)
<1>1. /\ session'[c].pc \in {"sending", "idle", "removing"}
      /\ session'[c].role = session[c].role /\ session'[c].out = rest /\ Changes(c)
  BY DEF Writes
<1>2. inbox'[c] = t /\ \A d \in Clients \ {c} : inbox'[d] = inbox[d]
  BY DEF Writes, SessionType
<1>3. out \in Seq(Lines) /\ out # <<>>
  BY DEF Writes, SessionType, Sessions
<1>4. /\ out[1] \in Lines /\ 1 \in 1 .. Len(out) /\ Len(out) \in Nat /\ Len(out) > 0
      /\ rest \in Seq(Lines) /\ Len(rest) = Len(out) - 1
      /\ \A k \in 1 .. Len(rest) : rest[k] = out[k + 1] /\ k + 1 \in 1 .. Len(out)
  BY <1>3, TailOf
<1>5. /\ line \in Lines /\ (IsVerdict(line) <=> IsVerdict(out[1]))
      /\ (IsEffect(line) <=> IsEffect(out[1])) /\ (IsVerdict(out[1]) => line = out[1])
  BY <1>4, WrittenIs, UserIsNothingElse
<1>6. AuthorityOf(c)
  BY DEF Authority
<1>7. IsEffect(line) => ~ IsVerdict(out[1]) /\ session[c].role = "ENGINEER"
  BY <1>4, <1>5, <1>6, VerdictIsNoEffect DEF AuthorityOf
<1>8. Len(out) > 1 => \A k \in 1 .. Len(out) : ~ IsVerdict(out[k])
  BY <1>4, <1>6 DEF AuthorityOf
<1>9. ~ Len(out) > 1 => \A k \in 1 .. Len(out) : k = 1
  BY <1>4
<1>10. (\A k \in 1 .. Len(out) : ~ IsVerdict(out[k])) \/ (Len(out) = 1 /\ IsVerdict(out[1]))
  <2>1. CASE Len(out) > 1
    BY <1>8, <2>1
  <2>2. CASE ~ Len(out) > 1
    <3>1. Len(out) = 1
      <4> DEFINE n == Len(out)
      <4>1. n \in Nat /\ n > 0 /\ ~ (n > 1)
        BY <1>4, <2>2
      <4> HIDE DEF n
      <4>2. n = 1
        BY <4>1
      <4> QED
        BY <4>2 DEF n
    <3>2. CASE IsVerdict(out[1])
      BY <3>1, <3>2
    <3>3. CASE ~ IsVerdict(out[1])
      <4>1. ASSUME NEW k \in 1 .. Len(out) PROVE ~ IsVerdict(out[k])
        <5>1. k = 1
          BY <1>9, <2>2
        <5> QED
          BY <3>3, <5>1
      <4> QED
        BY <4>1
    <3> QED
      BY <3>2, <3>3
  <2> QED
    BY <2>1, <2>2
<1>11. IsEffect(line) => EngineerAfter(s, Len(s))
  BY <1>6, <1>7, <1>10 DEF AuthorityOf
<1>12. Authorized(t)
  BY <1>5, <1>6, <1>11, AuthorizedMore DEF AuthorityOf
<1>13. session[c].role = "ENGINEER" => EngineerAfter(t, Len(t))
  <2>1. ASSUME session[c].role = "ENGINEER"
        PROVE  IF IsVerdict(line) THEN line.role = "ENGINEER" ELSE EngineerAfter(s, Len(s))
    BY <1>4, <1>5, <1>6, <1>10, <2>1 DEF AuthorityOf
  <2> QED
    BY <1>5, <2>1, EngineerMore
<1>14. \A k \in 1 .. Len(rest) : ~ IsVerdict(rest[k])
                                 /\ (IsEffect(rest[k]) => session[c].role = "ENGINEER")
  BY <1>4, <1>6, <1>8 DEF AuthorityOf
<1> HIDE DEF rest, line, s, t
<1>15. AuthorityOf(c)'
  BY <1>1, <1>2, <1>12, <1>13, <1>14 DEF AuthorityOf
<1> QED
  BY <1>1, <1>2, <1>15, OthersAuthority

\* A line that is neither an effect nor a verdict reaches the registered clients.
LEMMA BroadcastAuthority ==
  ASSUME Types, Authority, NEW line, Broadcasts(line), ~ IsEffect(line), ~ IsVerdict(line)
  PROVE  Authority'
<1> USE DEF Types
<1>1. line \in Lines /\ session' = session
  BY DEF Broadcasts
<1>2. ASSUME NEW d \in Clients PROVE AuthorityOf(d)'
  <2>1. AuthorityOf(d)
    BY DEF Authority
  <2>2. CASE inbox'[d] = inbox[d]
    BY <1>1, <2>1, <2>2 DEF AuthorityOf
  <2>3. CASE inbox'[d] = Append(inbox[d], line)
    <3>1. Authorized(Append(inbox[d], line))
      BY <1>1, <2>1, AuthorizedMore DEF AuthorityOf
    <3>2. EngineerAfter(inbox[d], Len(inbox[d]))
            => EngineerAfter(Append(inbox[d], line), Len(Append(inbox[d], line)))
      BY <1>1, EngineerMore
    <3> QED
      BY <1>1, <2>1, <2>3, <3>1, <3>2 DEF AuthorityOf
  <2> QED
    BY <2>2, <2>3 DEF Broadcasts
<1> QED
  BY <1>2 DEF Authority

\* Every step keeps the roles those of the last verdicts.
LEMMA AuthorityStep == Types /\ Shape /\ Authority /\ Next => Authority'
<1> SUFFICES ASSUME Types, Shape, Authority, Next PROVE Authority'
  OBVIOUS
<1> USE DEF Types
<1>1. CASE \/ (\E noise \in Noise : Tick(noise)) \/ ReadSnapshot \/ EmitAlert \/ EvaluateEnd
           \/ EndCycle \/ Finished
  <2>1. UNCHANGED <<session, inbox>>
    BY <1>1 DEF Tick, ReadSnapshot, EmitAlert, EvaluateEnd, EndCycle, Finished, vars
  <2> QED
    BY <2>1 DEF Authority, AuthorityOf
<1>2. CASE BroadcastMetric
  BY <1>2, BroadcastIs, BroadcastAuthority, MetricLines DEF ThreadType
<1>3. CASE BroadcastAlert
  BY <1>3, BroadcastIs, BroadcastAuthority, AlertLines
<1>4. ASSUME NEW c \in Clients, Command(c) PROVE Authority'
  <2>0. session[c].out = <<>>
    BY <1>4, CommandFrame, NothingToTell
  <2>1. CASE CmdForbidden(c) \/ CmdInvalid(c) \/ CmdGetStatus(c) \/ \E delta \in Deltas : CmdModifyRpm(c, delta)
    BY <2>0, <2>1, OneLineIs, OneLineAuthority DEF Plain
  <2>2. CASE CmdQuit(c)
    BY <2>0, <2>2, QuitIs, OneLineAuthority, PlainLines DEF Plain
  <2>3. CASE \E verdict \in Verdicts : CmdAuthenticate(c, verdict)
    <3>1. CASE Answers(c, session[c].role, <<Err("invalid_credentials")>>)
      BY <2>0, <3>1, OneLineAuthority, PlainLines DEF Plain
    <3>2. ASSUME NEW role \in Roles, Answers(c, role, <<OkRole(role)>>) PROVE Authority'
      BY <2>0, <3>2, VerdictAuthority
    <3> QED
      BY <2>3, <3>1, <3>2, AuthenticateIs
  <2>4. CASE CmdGetAlerts(c)
    <3>1. PICK n \in Nat, lines \in Seq(Lines) :
                 /\ Answers(c, session[c].role, lines)
                 /\ Len(lines) = n + 1 /\ lines[1] = OkAlerts(n, pushed) /\ pushed \in Nat
                 /\ \A k \in 1 .. n : \E a \in Records : lines[k + 1] = Alert(a, "history")
      <4> DEFINE n == IF Len(recent) < MaxRecords THEN Len(recent) ELSE MaxRecords
      <4>1. PICK lines \in Seq(Lines) :
                   /\ Answers(c, session[c].role, lines)
                   /\ Len(lines) = n + 1 /\ lines[1] = OkAlerts(n, pushed)
                   /\ \A k \in 1 .. n :
                        /\ recent[Len(recent) - n + k] \in Records
                        /\ lines[k + 1] = Alert(recent[Len(recent) - n + k], "history")
        BY <2>4, GetAlertsIs
      <4>2. n \in Nat /\ pushed \in Nat
        BY <2>4, GetAlertsIs DEF PlantType
      <4> HIDE DEF n
      <4> QED
        BY <4>1, <4>2
    <3>2. ASSUME NEW k \in 1 .. Len(lines) PROVE ~ IsVerdict(lines[k]) /\ ~ IsEffect(lines[k])
      <4>1. CASE k = 1
        BY <3>1, <4>1, AlertsHeader
      <4>2. CASE k # 1
        <5>1. k - 1 \in 1 .. n /\ (k - 1) + 1 = k
          BY <3>1, <4>2
        <5>2. PICK a \in Records : lines[k] = Alert(a, "history")
          BY <3>1, <5>1
        <5> QED
          BY <5>2, AlertLines
      <4> QED
        BY <4>1, <4>2
    <3> QED
      BY <2>0, <3>1, <3>2, AnswersAuthority
  <2>5. CASE CmdListUsers(c)
    <3>1. PICK n \in Nat, lines \in Seq(Lines) :
                 /\ Answers(c, session[c].role, lines)
                 /\ Len(lines) = n + 1 /\ lines[1] = OkCount("users", n)
                 /\ \A k \in 1 .. n : \E d \in Clients : lines[k + 1] = User(d)
      BY <2>5, ListUsersIs
    <3>2. ASSUME NEW k \in 1 .. Len(lines) PROVE ~ IsVerdict(lines[k])
      <4>1. CASE k = 1
        BY <3>1, <4>1, CountLines
      <4>2. CASE k # 1
        <5>1. k - 1 \in 1 .. n /\ (k - 1) + 1 = k
          BY <3>1, <4>2
        <5>2. PICK d \in Clients : lines[k] = User(d)
          BY <3>1, <5>1
        <5> QED
          BY <5>2, UserLines, UserIsNothingElse
      <4> QED
        BY <4>1, <4>2
    <3>3. session[c].role = "ENGINEER"
      BY <2>5 DEF CmdListUsers, IsEngineer
    <3> QED
      BY <2>0, <3>1, <3>2, <3>3, AnswersAuthority
  <2>6. CASE \E direction \in Directions : CmdAdjustHeading(c, direction)
    BY <2>6, AdjustIs, MovesAuthority
  <2> QED
    BY <1>4, <2>1, <2>2, <2>3, <2>4, <2>5, <2>6 DEF Command
<1>5. ASSUME NEW c \in Clients, SendLine(c) \/ SendLastLine(c) PROVE Authority'
  BY <1>5, WriteIs, WritesAuthority
<1>6. ASSUME NEW c \in Clients, Disconnect(c) \/ Remove(c) PROVE Authority'
  BY <1>6, LeaveIs, MovesAuthority
<1>7. ASSUME NEW c \in Clients, Connect(c) PROVE Authority'
  <2>1. session[c].out = <<>>
    BY <1>7, NothingToTell DEF Connect
  <2> QED
    BY <1>7, <2>1, ConnectIs, OneLineAuthority, PlainLines DEF Plain
<1>8. ASSUME NEW c \in Clients, ReadHeading(c) PROVE Authority'
  <2>1. session[c].out = <<>> /\ session[c].role = "ENGINEER"
    BY <1>8, NothingToTell DEF ReadHeading, Authority, AuthorityOf
  <2> DEFINE line == OkHeading(equipment.heading, since[c])
  <2>2. /\ equipment.heading \in Headings /\ since[c] \in SUBSET Headings
        /\ Answers(c, session[c].role, <<line>>)
    BY <1>8, ReadHeadingIs DEF Types
  <2>3. line \in Lines /\ ~ IsVerdict(line)
    BY <2>2, HeadingLines DEF Plain
  <2> HIDE DEF line
  <2> QED
    BY <2>1, <2>2, <2>3, OneLineAuthority
<1> QED
  BY <1>1, <1>2, <1>3, <1>4, <1>5, <1>6, <1>7, <1>8 DEF Next, MetricsThread

\* Initially no line has been written.
LEMMA InitAuthority == Init => Authority
  BY DEF Init, Authority, AuthorityOf, Authorized, Idle

-----------------------------------------------------------------------------
(* The alerts of a cycle                                                      *)

\* The steps of the metrics thread work off the alerts of one snapshot.
LEMMA CycleStep == Types /\ Cycle /\ Next => Cycle'
<1> SUFFICES ASSUME Types, Cycle, Next PROVE Cycle'
  OBVIOUS
<1> USE DEF Types
<1>1. metrics.todo \in Seq(AlertKinds) /\ metrics.done \in Seq(Records)
  BY DEF ThreadType
<1>2. CASE (\E noise \in Noise : Tick(noise)) \/ ReadSnapshot
  <2>1. /\ ~ InCycle /\ metrics'.pc \in {"read", "metric"}
        /\ metrics'.todo = metrics.todo /\ metrics'.done = metrics.done
    BY <1>2 DEF Tick, ReadSnapshot, ThreadType, InCycle
  <2>2. metrics.todo = <<>> /\ metrics.done = <<>>
    BY <2>1 DEF Cycle, InCycle
  <2>3. \A k \in 1 .. Len(<<>>) : FALSE
    OBVIOUS
  <2> QED
    BY <2>1, <2>2, <2>3 DEF Cycle
<1>3. CASE BroadcastMetric
  <2>1. /\ metrics'.pc = "evaluate" /\ metrics'.snap = metrics.snap /\ metrics'.done = <<>>
        /\ metrics'.todo = Evaluated(metrics.snap, MaxCycleAlerts)
    BY <1>3 DEF BroadcastMetric, ThreadType
  <2>2. \A k \in 1 .. Len(<<>>) : FALSE
    OBVIOUS
  <2> QED
    BY <2>1, <2>2, EvaluatedType DEF Cycle, InCycle
<1>4. CASE EmitAlert
  <2> DEFINE a == [alert |-> Head(metrics.todo), number |-> pushed + 1]
             t == Tail(metrics.todo)
             d == Append(metrics.done, a)
  <2>1. /\ metrics'.pc = "evaluate" /\ metrics'.snap = metrics.snap
        /\ metrics'.todo = t /\ metrics'.done = d /\ metrics.todo # <<>>
        /\ metrics.pc = "evaluate"
    BY <1>4 DEF EmitAlert, ThreadType
  <2>2. /\ Head(metrics.todo) = metrics.todo[1] /\ 1 \in 1 .. Len(metrics.todo)
        /\ metrics.todo[1] \in AlertKinds
        /\ \A i \in 1 .. Len(t) : t[i] = metrics.todo[i + 1] /\ i + 1 \in 1 .. Len(metrics.todo)
    BY <1>1, <2>1, TailOf
  <2>3. a \in Records /\ a.alert = metrics.todo[1]
    BY <2>2 DEF Records, PlantType
  <2> HIDE DEF a, t
  <2>4. /\ Len(metrics.done) \in Nat /\ Len(d) = Len(metrics.done) + 1
        /\ d[Len(metrics.done) + 1] = a
        /\ \A i \in 1 .. Len(metrics.done) : d[i] = metrics.done[i]
    BY <1>1, <2>3, AppendProperties
  <2>5. ASSUME NEW k \in 1 .. Len(d) PROVE RaisedBy(metrics.snap, d[k].alert)
    <3>1. CASE k = Len(metrics.done) + 1
      BY <2>2, <2>3, <2>4, <3>1 DEF Cycle
    <3>2. CASE k # Len(metrics.done) + 1
      <4>1. k \in 1 .. Len(metrics.done)
        BY <2>4, <3>2
      <4> QED
        BY <2>4, <4>1 DEF Cycle
    <3> QED
      BY <3>1, <3>2
  <2>6. \A k \in 1 .. Len(t) : RaisedBy(metrics.snap, t[k])
    BY <2>2 DEF Cycle
  <2> HIDE DEF d
  <2> QED
    BY <2>1, <2>5, <2>6 DEF Cycle, InCycle
<1>5. CASE EvaluateEnd \/ EndCycle
  <2>1. /\ metrics'.pc \in {"alerts", "tick"} /\ metrics'.snap = metrics.snap
        /\ metrics'.todo = metrics.todo /\ metrics'.done = metrics.done
        /\ metrics.todo = <<>> /\ (metrics'.pc = "tick" => metrics.done = <<>>)
    BY <1>5 DEF EvaluateEnd, EndCycle, ThreadType, Cycle
  <2> QED
    BY <2>1 DEF Cycle, InCycle
<1>6. CASE BroadcastAlert
  <2> DEFINE d == Tail(metrics.done)
  <2>1. /\ metrics'.pc = "alerts" /\ metrics'.snap = metrics.snap
        /\ metrics'.todo = metrics.todo /\ metrics'.done = d /\ metrics.done # <<>>
        /\ metrics.pc = "alerts"
    BY <1>6 DEF BroadcastAlert, ThreadType
  <2>2. \A i \in 1 .. Len(d) : d[i] = metrics.done[i + 1] /\ i + 1 \in 1 .. Len(metrics.done)
    BY <1>1, <2>1, TailOf
  <2>3. \A k \in 1 .. Len(d) : RaisedBy(metrics.snap, d[k].alert)
    BY <2>2 DEF Cycle
  <2> HIDE DEF d
  <2> QED
    BY <2>1, <2>3 DEF Cycle, InCycle
<1>7. CASE Finished
  BY <1>7 DEF Finished, vars, Cycle, InCycle
<1>8. ASSUME NEW c \in Clients,
             \/ Connect(c) \/ SendLine(c) \/ SendLastLine(c) \/ Disconnect(c) \/ Remove(c)
             \/ ReadHeading(c) \/ Command(c)
      PROVE  Cycle'
  <2>1. metrics' = metrics
    BY <1>8, CommandFrame DEF Connect, SendLine, SendLastLine, Disconnect, Remove, ReadHeading,
                              thread
  <2> QED
    BY <2>1 DEF Cycle, InCycle
<1> QED
  BY <1>2, <1>3, <1>4, <1>5, <1>6, <1>7, <1>8 DEF Next, MetricsThread

\* Initially no cycle is under way.
LEMMA InitCycle == Init => Cycle
  BY DEF Init, Cycle

-----------------------------------------------------------------------------
(* Matching                                                                   *)

\* What a session answers is neither a METRIC line nor an alert of a broadcast,
\* a heading only when it has read it back, a list only to LIST USERS, and records
\* of the history only to GET_ALERTS.
Answerable(c, line) ==
  /\ ~ IsMetric(line) /\ ~ IsBroadcastAlert(line)
  /\ IsHeading(line) => ReadHeading(c)
  /\ IsUsers(line) \/ IsUser(line) => CmdListUsers(c)
  /\ IsAlerts(line) \/ IsRecord(line) => CmdGetAlerts(c)

\* The lines that a session has to write after it connected, read back or ran a
\* command.
LEMMA AnsweredLines ==
  ASSUME Types, NEW c \in Clients, Connect(c) \/ ReadHeading(c) \/ Command(c)
  PROVE  /\ Changes(c) /\ inbox' = inbox
         /\ \/ /\ session'[c].out = session[c].out
               /\ session'[c].pc = "readback"
            \/ /\ session'[c].pc = "sending"
               /\ \A k \in 1 .. Len(session'[c].out) : Answerable(c, session'[c].out[k])
<1> USE DEF Types
<1> DEFINE Goal ==
      /\ Changes(c) /\ inbox' = inbox
      /\ \/ /\ session'[c].out = session[c].out
            /\ session'[c].pc = "readback"
         \/ /\ session'[c].pc = "sending"
            /\ \A k \in 1 .. Len(session'[c].out) : Answerable(c, session'[c].out[k])
<1> SUFFICES Goal
  OBVIOUS
<1>1. ASSUME NEW role, NEW line \in Lines, Answers(c, role, <<line>>), Answerable(c, line)
      PROVE  Goal
  <2>1. \A k \in 1 .. Len(<<line>>) : <<line>>[k] = line
    OBVIOUS
  <2> QED
    BY <1>1, <2>1 DEF Answers
<1>2. ASSUME NEW role, NEW lines \in Seq(Lines), NEW n \in Nat, Answers(c, role, lines),
             Len(lines) = n + 1, Answerable(c, lines[1]),
             \A k \in 1 .. n : Answerable(c, lines[k + 1])
      PROVE  Goal
  <2>1. ASSUME NEW k \in 1 .. Len(lines)
        PROVE  Answerable(c, lines[k])
    <3>1. CASE k # 1
      <4>1. k - 1 \in 1 .. n /\ (k - 1) + 1 = k
        BY <1>2, <3>1
      <4> QED
        BY <1>2, <4>1
    <3> QED
      BY <1>2, <3>1
  <2> QED
    BY <1>2, <2>1 DEF Answers
<1> HIDE DEF Goal
<1>3. CASE Connect(c)
  BY <1>1, <1>3, ConnectIs, PlainLines DEF Plain, Answerable
<1>4. CASE ReadHeading(c)
  BY <1>1, <1>4, ReadHeadingIs, HeadingLines DEF Plain, Answerable
<1>5. CASE Command(c)
  <2>1. CASE CmdForbidden(c) \/ CmdInvalid(c) \/ CmdGetStatus(c) \/ \E delta \in Deltas : CmdModifyRpm(c, delta)
    BY <1>1, <2>1, OneLineIs DEF Plain, Answerable
  <2>2. CASE CmdQuit(c)
    BY <1>1, <2>2, QuitIs, PlainLines DEF Plain, Answerable
  <2>3. CASE \E verdict \in Verdicts : CmdAuthenticate(c, verdict)
    <3>1. CASE Answers(c, session[c].role, <<Err("invalid_credentials")>>)
      BY <1>1, <3>1, PlainLines DEF Plain, Answerable
    <3>2. ASSUME NEW role \in Roles, Answers(c, role, <<OkRole(role)>>) PROVE Goal
      BY <1>1, <3>2, RoleLines DEF Answerable
    <3> QED
      BY <2>3, <3>1, <3>2, AuthenticateIs
  <2>4. CASE CmdGetAlerts(c)
    <3> DEFINE n == IF Len(recent) < MaxRecords THEN Len(recent) ELSE MaxRecords
    <3>1. n \in Nat /\ pushed \in Nat
      BY <2>4, GetAlertsIs DEF PlantType
    <3>2. PICK lines \in Seq(Lines) :
                 /\ Answers(c, session[c].role, lines)
                 /\ Len(lines) = n + 1 /\ lines[1] = OkAlerts(n, pushed)
                 /\ \A k \in 1 .. n :
                      /\ recent[Len(recent) - n + k] \in Records
                      /\ lines[k + 1] = Alert(recent[Len(recent) - n + k], "history")
      BY <2>4, GetAlertsIs
    <3> HIDE DEF n
    <3>3. Answerable(c, lines[1])
      BY <2>4, <3>1, <3>2, AlertsHeader DEF Answerable
    <3>4. \A k \in 1 .. n : Answerable(c, lines[k + 1])
      BY <2>4, <3>2, AlertLines DEF Answerable
    <3> QED
      BY <1>2, <3>1, <3>2, <3>3, <3>4
  <2>5. CASE CmdListUsers(c)
    <3>1. PICK lines \in Seq(Lines) :
                 /\ Answers(c, session[c].role, lines)
                 /\ Len(lines) = Len(registry) + 1 /\ Len(registry) \in Nat
                 /\ lines[1] = OkCount("users", Len(registry))
                 /\ \A k \in 1 .. Len(registry) :
                      registry[k] \in Clients /\ lines[k + 1] = User(registry[k])
      BY <2>5, ListUsersIs
    <3>2. Answerable(c, lines[1])
      BY <2>5, <3>1, CountLines DEF Answerable
    <3>3. \A k \in 1 .. Len(registry) :
            Answerable(c, lines[k + 1])
      BY <2>5, <3>1, UserLines, UserIsNothingElse DEF Answerable
    <3> QED
      BY <1>2, <3>1, <3>2, <3>3
  <2>6. CASE \E direction \in Directions : CmdAdjustHeading(c, direction)
    BY <2>6, AdjustIs DEF Moves, Goal
  <2> QED
    BY <1>5, <2>1, <2>2, <2>3, <2>4, <2>5, <2>6 DEF Command
<1> QED
  BY <1>3, <1>4, <1>5

\* The last METRIC line depends on the lines up to there.
LEMMA MetricPrefix ==
  ASSUME NEW s, NEW t, NEW n \in Nat, \A k \in 1 .. n : s[k] = t[k]
  PROVE  /\ NoMetric(s, n) => NoMetric(t, n)
         /\ \A j : LastMetric(s, n, j) => LastMetric(t, n, j) /\ s[j] = t[j]
  BY DEF NoMetric, LastMetric

\* One line more: an alert of a broadcast that matches, or another line.
LEMMA MatchedMore ==
  ASSUME SessionType, NEW d \in Clients, NEW line \in Lines, Matched(inbox[d]),
         NEW snap, CurrentIn(inbox[d], snap) \/ ~ IsBroadcastAlert(line),
         IsBroadcastAlert(line) => RaisedBy(snap, line.alert.alert)
  PROVE  Matched(Append(inbox[d], line))
<1> DEFINE s == inbox[d]
           t == Append(s, line)
<1>1. /\ Len(s) \in Nat /\ Len(t) = Len(s) + 1 /\ t[Len(s) + 1] = line
      /\ \A k \in 1 .. Len(s) : t[k] = s[k]
  BY OneMore
<1>2. Matched(s) /\ (CurrentIn(s, snap) \/ ~ IsBroadcastAlert(line))
  OBVIOUS
<1> HIDE DEF s, t
<1>3. ASSUME NEW i \in 1 .. Len(t), IsBroadcastAlert(t[i])
      PROVE  \/ NoMetric(t, i - 1)
             \/ \E j \in 1 .. Len(t) : /\ LastMetric(t, i - 1, j)
                                        /\ RaisedBy(t[j].snap, t[i].alert.alert)
  <2>1. i - 1 \in Nat /\ \A k \in 1 .. i - 1 : s[k] = t[k]
    BY <1>1
  <2>2. \/ NoMetric(s, i - 1)
        \/ \E j \in 1 .. Len(s) : /\ LastMetric(s, i - 1, j)
                                   /\ RaisedBy(s[j].snap, t[i].alert.alert)
    <3>1. CASE i = Len(s) + 1
      <4>1. t[i] = line /\ i - 1 = Len(s)
        BY <1>1, <3>1
      <4>2. CurrentIn(s, snap) /\ RaisedBy(snap, t[i].alert.alert)
        BY <1>2, <1>3, <4>1
      <4> QED
        BY <4>1, <4>2 DEF CurrentIn
    <3>2. CASE i # Len(s) + 1
      <4>1. i \in 1 .. Len(s) /\ t[i] = s[i]
        BY <1>1, <3>2
      <4> QED
        BY <1>2, <1>3, <4>1 DEF Matched
    <3> QED
      BY <3>1, <3>2
  <2>3. CASE NoMetric(s, i - 1)
    BY <2>1, <2>3, MetricPrefix
  <2>4. CASE \E j \in 1 .. Len(s) : /\ LastMetric(s, i - 1, j)
                                     /\ RaisedBy(s[j].snap, t[i].alert.alert)
    <3>1. PICK j \in 1 .. Len(s) : LastMetric(s, i - 1, j) /\ RaisedBy(s[j].snap, t[i].alert.alert)
      BY <2>4
    <3>2. LastMetric(t, i - 1, j) /\ s[j] = t[j]
      <4>1. \A l : LastMetric(s, i - 1, l) => LastMetric(t, i - 1, l) /\ s[l] = t[l]
        BY <2>1, MetricPrefix
      <4> QED
        BY <3>1, <4>1
    <3>3. j \in 1 .. Len(t)
      BY <1>1
    <3> QED
      BY <3>1, <3>2, <3>3
  <2> QED
    BY <2>2, <2>3, <2>4
<1>4. Matched(t)
  BY <1>3 DEF Matched
<1> QED
  BY <1>4 DEF s, t

\* One line more: the METRIC line of the snapshot, or no METRIC line.
LEMMA CurrentMore ==
  ASSUME SessionType, NEW d \in Clients, NEW line \in Lines, NEW snap,
         IF IsMetric(line) THEN line.snap = snap ELSE CurrentIn(inbox[d], snap)
  PROVE  CurrentIn(Append(inbox[d], line), snap)
<1> DEFINE s == inbox[d]
           t == Append(s, line)
<1>1. /\ Len(s) \in Nat /\ Len(t) = Len(s) + 1 /\ t[Len(s) + 1] = line
      /\ \A k \in 1 .. Len(s) : t[k] = s[k]
  BY OneMore
<1>2. IF IsMetric(line) THEN line.snap = snap ELSE CurrentIn(s, snap)
  OBVIOUS
<1> HIDE DEF s, t
<1>3. CurrentIn(t, snap)
  <2>1. CASE IsMetric(line)
    <3>1. /\ Len(t) \in 1 .. Len(t) /\ IsMetric(t[Len(t)]) /\ t[Len(t)].snap = snap
          /\ \A k \in 1 .. Len(t) : k <= Len(t)
      BY <1>1, <1>2, <2>1
    <3> QED
      BY <3>1 DEF CurrentIn, LastMetric
  <2>2. CASE ~ IsMetric(line)
    <3>1. \A k \in 1 .. Len(t) : (k \in 1 .. Len(s) /\ t[k] = s[k]) \/ ~ IsMetric(t[k])
      BY <1>1, <2>2
    <3>2. CASE NoMetric(s, Len(s))
      BY <1>1, <3>1, <3>2 DEF CurrentIn, NoMetric
    <3>3. CASE \E j \in 1 .. Len(s) : LastMetric(s, Len(s), j) /\ s[j].snap = snap
      <4>1. PICK j \in 1 .. Len(s) : LastMetric(s, Len(s), j) /\ s[j].snap = snap
        BY <3>3
      <4>2. j \in 1 .. Len(t) /\ t[j] = s[j]
        BY <1>1
      <4>3. LastMetric(t, Len(t), j)
        BY <3>1, <4>1, <4>2 DEF LastMetric
      <4> QED
        BY <4>1, <4>2, <4>3 DEF CurrentIn
    <3> QED
      BY <1>2, <2>2, <3>2, <3>3 DEF CurrentIn
  <2> QED
    BY <2>1, <2>2
<1> QED
  BY <1>3 DEF s, t

\* Within a session's step the registered clients are at most one more, which
\* was sent nothing, and the cycle stays where it is.
LEMMA MatchingFrame ==
  ASSUME Types, Shape, Matching, NEW c \in Clients, Changes(c), UNCHANGED metrics,
         \A d \in Clients \ {c} : inbox'[d] = inbox[d],
         MatchingOf(c)',
         Registered' \ {c} \subseteq Registered,
         InCycle /\ c \in Registered' => CurrentIn(inbox'[c], metrics.snap)
  PROVE  Matching'
<1>1. ASSUME NEW d \in Clients PROVE MatchingOf(d)'
  <2>1. CASE d # c
    <3>1. session'[d] = session[d] /\ inbox'[d] = inbox[d]
      BY <2>1 DEF Changes
    <3> QED
      BY <3>1 DEF Matching, MatchingOf
  <2> QED
    BY <2>1
<1>2. ASSUME InCycle', NEW d \in Registered' PROVE CurrentIn(inbox'[d], metrics.snap)
  <2>1. InCycle
    BY <1>2 DEF InCycle
  <2>2. CASE d # c
    <3>1. d \in Registered /\ d \in Clients
      BY <1>2, <2>2 DEF Registered, Types, RegistryType
    <3> QED
      BY <2>1, <2>2, <3>1 DEF Matching
  <2> QED
    BY <1>2, <2>1, <2>2
<1> QED
  BY <1>1, <1>2 DEF Matching

\* A session that writes disturbs no match.
LEMMA WritesMatching ==
  ASSUME Types, Shape, Matching, NEW c \in Clients, Writes(c), UNCHANGED <<metrics, registry>>
  PROVE  Matching'
<1> USE DEF Types
<1> DEFINE out == session[c].out
           rest == Tail(out)
           line == Written(out[1])
<1>1. session'[c].out = rest /\ Changes(c)
  BY DEF Writes
<1>2. inbox'[c] = Append(inbox[c], line) /\ \A d \in Clients \ {c} : inbox'[d] = inbox[d]
  BY DEF Writes, SessionType
<1>3. out \in Seq(Lines) /\ out # <<>>
  BY DEF Writes, SessionType, Sessions
<1>4. /\ out[1] \in Lines /\ 1 \in 1 .. Len(out)
      /\ \A k \in 1 .. Len(rest) : rest[k] = out[k + 1] /\ k + 1 \in 1 .. Len(out)
  BY <1>3, TailOf
<1>5. MatchingOf(c)
  BY DEF Matching
<1>6. line \in Lines /\ ~ IsMetric(line) /\ ~ IsBroadcastAlert(line)
  BY <1>4, <1>5, WrittenIs, UserIsNothingElse DEF MatchingOf
<1>7. Matched(Append(inbox[c], line))
  BY <1>5, <1>6, MatchedMore DEF MatchingOf
<1>8. \A k \in 1 .. Len(rest) : ~ IsMetric(rest[k]) /\ ~ IsBroadcastAlert(rest[k])
  BY <1>4, <1>5 DEF MatchingOf
<1>9. Registered' = Registered
  BY DEF Registered
<1>10. InCycle /\ c \in Registered' => CurrentIn(inbox'[c], metrics.snap)
  BY <1>2, <1>6, <1>9, CurrentMore DEF Matching
<1> HIDE DEF rest, line
<1>11. MatchingOf(c)'
  BY <1>1, <1>2, <1>7, <1>8 DEF MatchingOf
<1> QED
  BY <1>1, <1>2, <1>9, <1>10, <1>11, MatchingFrame

\* A session that answers or moves.
LEMMA AnswersMatching ==
  ASSUME Types, Shape, Matching, NEW c \in Clients, Changes(c), UNCHANGED <<metrics, inbox>>,
         \/ session'[c].out = session[c].out
         \/ \A k \in 1 .. Len(session'[c].out) :
              ~ IsMetric(session'[c].out[k]) /\ ~ IsBroadcastAlert(session'[c].out[k]),
         Registered' \ {c} \subseteq Registered,
         c \in Registered' => c \in Registered \/ inbox[c] = <<>>
  PROVE  Matching'
<1>1. MatchingOf(c)'
  BY DEF Matching, MatchingOf
<1>2. inbox[c] = <<>> => CurrentIn(inbox[c], metrics.snap)
  BY DEF CurrentIn, NoMetric
<1>3. InCycle /\ c \in Registered' => CurrentIn(inbox'[c], metrics.snap)
  BY <1>2 DEF Matching
<1> QED
  BY <1>1, <1>3, MatchingFrame

\* A broadcast to the registered clients: the METRIC line of the cycle that
\* begins, or an alert of the one under way.
LEMMA BroadcastMatching ==
  ASSUME Types, Shape, Matching, NEW line, Broadcasts(line), metrics'.snap = metrics.snap,
         IF IsMetric(line) THEN line.snap = metrics.snap /\ ~ IsBroadcastAlert(line)
         ELSE InCycle /\ RaisedBy(metrics.snap, line.alert.alert)
  PROVE  Matching'
<1> USE DEF Types
<1>1. line \in Lines /\ session' = session /\ Registered' = Registered
      /\ Registered \subseteq Clients
  BY DEF Broadcasts, Registered, RegistryType
<1>2. \A d \in Clients : inbox'[d] = IF d \in Registered THEN Append(inbox[d], line) ELSE inbox[d]
  BY DEF Broadcasts
<1>3. ASSUME NEW d \in Registered PROVE Matched(inbox'[d]) /\ CurrentIn(inbox'[d], metrics.snap)
  <2>1. d \in Clients /\ inbox'[d] = Append(inbox[d], line) /\ Matched(inbox[d])
    BY <1>1, <1>2 DEF Matching, MatchingOf
  <2>2. ~ IsMetric(line) => CurrentIn(inbox[d], metrics.snap)
    BY DEF Matching
  <2>3. CurrentIn(Append(inbox[d], line), metrics.snap)
    BY <1>1, <2>1, <2>2, CurrentMore
  <2>4. Matched(Append(inbox[d], line))
    BY <1>1, <2>1, <2>2, MatchedMore
  <2> QED
    BY <2>1, <2>3, <2>4
<1>4. ASSUME NEW d \in Clients PROVE MatchingOf(d)'
  BY <1>1, <1>2, <1>3 DEF Matching, MatchingOf
<1> QED
  BY <1>1, <1>3, <1>4 DEF Matching

\* Every step keeps the broadcast alerts with their METRIC line.
LEMMA MatchingStep == Types /\ Shape /\ Cycle /\ Matching /\ Next => Matching'
<1> SUFFICES ASSUME Types, Shape, Cycle, Matching, Next PROVE Matching'
  OBVIOUS
<1> USE DEF Types
<1>1. CASE \/ (\E noise \in Noise : Tick(noise)) \/ ReadSnapshot \/ EmitAlert \/ EvaluateEnd
           \/ EndCycle \/ Finished
  <2>1. UNCHANGED <<session, inbox, registry>>
    BY <1>1 DEF Tick, ReadSnapshot, EmitAlert, EvaluateEnd, EndCycle, Finished, vars
  <2>2. InCycle' => InCycle /\ metrics'.snap = metrics.snap
    BY <1>1 DEF Tick, ReadSnapshot, EmitAlert, EvaluateEnd, EndCycle, Finished, vars, InCycle,
                ThreadType
  <2>3. Registered' = Registered
    BY <2>1 DEF Registered
  <2> QED
    BY <2>1, <2>2, <2>3 DEF Matching, MatchingOf
<1>2. CASE BroadcastMetric
  <2>1. metrics'.snap = metrics.snap
    BY <1>2 DEF BroadcastMetric, ThreadType
  <2> QED
    BY <1>2, <2>1, BroadcastIs, BroadcastMatching, MetricLines DEF ThreadType
<1>3. CASE BroadcastAlert
  <2>1. metrics'.snap = metrics.snap /\ InCycle /\ metrics.done # <<>>
    BY <1>3 DEF BroadcastAlert, ThreadType, InCycle
  <2>2. metrics.done[1] \in Records /\ Broadcasts(Alert(metrics.done[1], "broadcast"))
    BY <1>3, BroadcastIs
  <2>3. RaisedBy(metrics.snap, metrics.done[1].alert)
    <3>1. 1 \in 1 .. Len(metrics.done)
      BY <2>1, TailOf DEF ThreadType
    <3> QED
      BY <3>1 DEF Cycle
  <2>4. /\ ~ IsMetric(Alert(metrics.done[1], "broadcast"))
        /\ Alert(metrics.done[1], "broadcast").alert = metrics.done[1]
    BY <2>2, AlertLines
  <2> QED
    BY <2>1, <2>2, <2>3, <2>4, BroadcastMatching
<1>4. ASSUME NEW c \in Clients, ReadHeading(c) \/ Command(c) PROVE Matching'
  <2>1. UNCHANGED <<metrics, registry>>
    BY <1>4, CommandFrame DEF ReadHeading, thread
  <2>2. Registered' = Registered
    BY <2>1 DEF Registered
  <2> QED
    BY <1>4, <2>1, <2>2, AnsweredLines, AnswersMatching DEF Answerable
<1>5. ASSUME NEW c \in Clients, Connect(c) PROVE Matching'
  <2>1. UNCHANGED metrics /\ Registered' = Registered \cup {c} /\ session[c].pc = "none"
    BY <1>5, ConnectRegisters DEF Connect, thread
  <2>2. inbox[c] = <<>>
    BY <2>1 DEF Shape
  <2> QED
    BY <1>5, <2>1, <2>2, AnsweredLines, AnswersMatching DEF Answerable
<1>6. ASSUME NEW c \in Clients, Remove(c) PROVE Matching'
  <2>1. UNCHANGED metrics
    BY <1>6 DEF Remove, thread
  <2> QED
    BY <1>6, <2>1, RemoveIs, AnswersMatching DEF Moves
<1>7. ASSUME NEW c \in Clients, Disconnect(c) PROVE Matching'
  <2>1. UNCHANGED <<metrics, registry>> /\ Moves(c, "removing")
    BY <1>7, LeaveIs DEF Disconnect, Remove, thread
  <2>2. Registered' = Registered
    BY <2>1 DEF Registered
  <2> QED
    BY <2>1, <2>2, AnswersMatching DEF Moves
<1>8. ASSUME NEW c \in Clients, SendLine(c) \/ SendLastLine(c) PROVE Matching'
  <2>1. UNCHANGED <<metrics, registry>>
    BY <1>8 DEF SendLine, SendLastLine, thread
  <2> QED
    BY <1>8, <2>1, WriteIs, WritesMatching
<1> QED
  BY <1>1, <1>2, <1>3, <1>4, <1>5, <1>6, <1>7, <1>8 DEF Next, MetricsThread

\* Initially no line has been written.
LEMMA InitMatching == Init => Matching
  BY DEF Init, Matching, MatchingOf, Matched, InCycle, Idle

-----------------------------------------------------------------------------
(* The numbers of the alerts                                                  *)

\* A record that enters the history has the next number.
LEMMA EmitNumbering ==
  ASSUME Types, Numbering, EmitAlert
  PROVE  Numbering'
<1> USE DEF Types
<1> DEFINE a == [alert |-> Head(metrics.todo), number |-> pushed + 1]
           s == Append(recent, a)
           k == IF Len(s) < HistorySize THEN Len(s) ELSE HistorySize
<1>1. recent' = Newest(HistorySize, s) /\ pushed' = pushed + 1 /\ UNCHANGED copied
  BY DEF EmitAlert
<1>2. /\ pushed \in Nat /\ HistorySize \in Nat /\ recent \in Seq(Records) /\ Len(recent) \in Nat
      /\ Len(recent) = IF pushed < HistorySize THEN pushed ELSE HistorySize
  BY HistoryAssumption DEF PlantType, Numbering
<1>3. Head(metrics.todo) \in AlertKinds
  BY TailOf DEF EmitAlert, ThreadType
<1>4. a \in Records /\ a.number = pushed + 1
  BY <1>2, <1>3 DEF Records
<1> HIDE DEF a
<1>5. /\ s \in Seq(Records) /\ Len(s) = Len(recent) + 1 /\ s[Len(recent) + 1] = a
      /\ \A i \in 1 .. Len(recent) : s[i] = recent[i]
  BY <1>2, <1>4, AppendProperties
<1> HIDE DEF s
<1>6. ASSUME NEW i \in 1 .. Len(s) PROVE s[i].number = (pushed + 1) - Len(s) + i
  <2>1. CASE i = Len(recent) + 1
    BY <1>2, <1>4, <1>5, <2>1
  <2>2. CASE i # Len(recent) + 1
    <3>1. i \in 1 .. Len(recent)
      BY <1>2, <1>5, <2>2
    <3>2. recent[i].number = pushed - Len(recent) + i
      BY <3>1 DEF Numbering
    <3> QED
      BY <1>2, <1>5, <3>1, <3>2
  <2> QED
    BY <2>1, <2>2
<1>7. /\ Len(recent') = k
      /\ \A i \in 1 .. k : recent'[i] = s[Len(s) - k + i]
  <2> DEFINE r == Newest(HistorySize, s)
  <2>0. s \in Seq(Records) /\ HistorySize \in Nat
    BY <1>2, <1>5
  <2>1. Len(r) = k /\ \A i \in 1 .. k : r[i] = s[Len(s) - k + i]
    BY <2>0, NewestOf
  <2> HIDE DEF k
  <2>2. recent' = r
    BY <1>1
  <2> HIDE DEF r
  <2> QED
    BY <2>1, <2>2
<1>8. k = (IF pushed' < HistorySize THEN pushed' ELSE HistorySize) /\ k \in 0 .. Len(s)
      /\ Len(s) \in Nat
  BY <1>1, <1>2, <1>5
<1> HIDE DEF k
<1>9. ASSUME NEW i \in 1 .. Len(recent') PROVE recent'[i].number = pushed' - Len(recent') + i
  <2>1. Len(s) - k + i \in 1 .. Len(s) /\ i \in 1 .. k
    BY <1>7, <1>8
  <2>2. recent'[i].number = (pushed + 1) - Len(s) + (Len(s) - k + i)
    BY <1>6, <1>7, <2>1
  <2> QED
    BY <1>1, <1>2, <1>7, <1>8, <2>1, <2>2
<1>10. \A c \in Clients : copied'[c] \in -1 .. pushed'
  BY <1>1, <1>2 DEF Numbering, SessionType
<1> QED
  BY <1>7, <1>8, <1>9, <1>10 DEF Numbering

\* Every step keeps the history numbered.
LEMMA NumberingStep == Types /\ Numbering /\ Next => Numbering'
<1> SUFFICES ASSUME Types, Numbering, Next PROVE Numbering'
  OBVIOUS
<1>1. CASE EmitAlert
  BY <1>1, EmitNumbering
<1>2. CASE \/ (\E noise \in Noise : Tick(noise)) \/ ReadSnapshot \/ BroadcastMetric
           \/ EvaluateEnd \/ BroadcastAlert \/ EndCycle \/ Finished
  <2>1. UNCHANGED <<recent, pushed, copied>>
    BY <1>2 DEF Tick, ReadSnapshot, BroadcastMetric, EvaluateEnd, BroadcastAlert, EndCycle,
                Finished, vars, plant
  <2> QED
    BY <2>1 DEF Numbering
<1>3. ASSUME NEW c \in Clients,
             \/ Connect(c) \/ SendLine(c) \/ SendLastLine(c) \/ Disconnect(c) \/ Remove(c)
             \/ ReadHeading(c) \/ Command(c)
      PROVE  Numbering'
  <2>1. UNCHANGED <<recent, pushed>>
        /\ (copied' = copied \/ copied' = [copied EXCEPT ![c] = pushed])
    BY <1>3, CommandFrame DEF Connect, SendLine, SendLastLine, Disconnect, Remove, ReadHeading,
                              plant
  <2>2. \A d \in Clients : copied'[d] = copied[d] \/ copied'[d] = pushed
    BY <2>1 DEF Types, SessionType
  <2>3. \A d \in Clients : copied'[d] \in -1 .. pushed'
    BY <2>1, <2>2 DEF Numbering, Types, PlantType
  <2> QED
    BY <2>1, <2>3 DEF Numbering
<1> QED
  BY <1>1, <1>2, <1>3 DEF Next, MetricsThread

\* Initially the history is empty.
LEMMA InitNumbering == Init => Numbering
  BY HistoryAssumption DEF Init, Numbering

-----------------------------------------------------------------------------
(* No gap                                                                     *)

\* Alert n has reached c, or will.
Reaches(n, c) == n \in AlertsIn(inbox[c]) \cup AlertsIn(session[c].out) \cup ToBroadcast

\* The alerts in a sequence of lines.
LEMMA AlertIn ==
  ASSUME NEW lines, NEW n
  PROVE  n \in AlertsIn(lines) <=>
           \E i \in 1 .. Len(lines) : lines[i].kind = "ALERT" /\ lines[i].alert.number = n
  BY DEF AlertsIn

\* The alerts in the lines of a socket after one more.
LEMMA AlertsMore ==
  ASSUME SessionType, NEW d \in Clients, NEW line \in Lines
  PROVE  /\ AlertsIn(inbox[d]) \subseteq AlertsIn(Append(inbox[d], line))
         /\ line.kind = "ALERT" => line.alert.number \in AlertsIn(Append(inbox[d], line))
<1> DEFINE s == inbox[d]
           t == Append(s, line)
<1>1. /\ Len(s) \in Nat /\ Len(t) = Len(s) + 1 /\ t[Len(s) + 1] = line
      /\ \A k \in 1 .. Len(s) : t[k] = s[k]
  BY OneMore
<1> HIDE DEF s, t
<1>2. ASSUME NEW n, n \in AlertsIn(s) PROVE n \in AlertsIn(t)
  <2>1. PICK i \in 1 .. Len(s) : s[i].kind = "ALERT" /\ s[i].alert.number = n
    BY <1>2, AlertIn
  <2>2. i \in 1 .. Len(t) /\ t[i] = s[i]
    BY <1>1
  <2> QED
    BY <2>1, <2>2, AlertIn
<1>3. ASSUME line.kind = "ALERT" PROVE line.alert.number \in AlertsIn(t)
  <2>1. Len(t) \in 1 .. Len(t) /\ t[Len(t)] = line
    BY <1>1
  <2> QED
    BY <1>3, <2>1, AlertIn
<1>4. AlertsIn(s) \subseteq AlertsIn(t)
  BY <1>2
<1> QED
  BY <1>3, <1>4 DEF s, t

\* Nothing that was on its way is lost, no client asks and no alert is raised.
LEMMA GapKept ==
  ASSUME NoAlertGap, pushed' = pushed,
         \A c \in Registered' : copied'[c] # -1 => c \in Registered /\ copied'[c] = copied[c],
         \A c \in Registered' : copied'[c] # -1 => \A n \in 1 .. pushed : Reaches(n, c) => Reaches(n, c)'
  PROVE  NoAlertGap'
<1> SUFFICES ASSUME NEW c \in Registered', copied'[c] # -1, NEW n \in 1 .. pushed',
                    n > copied'[c] - MaxRecords
             PROVE  Reaches(n, c)'
  BY DEF NoAlertGap, Reaches
<1>1. c \in Registered /\ copied[c] # -1 /\ n \in 1 .. pushed /\ n > copied[c] - MaxRecords
  OBVIOUS
<1>2. Reaches(n, c)
  BY <1>1 DEF NoAlertGap, Reaches
<1> QED
  BY <1>2

\* The alert that is raised is still to be broadcast.
LEMMA EmitGap ==
  ASSUME Types, NoAlertGap, EmitAlert
  PROVE  NoAlertGap'
<1> USE DEF Types
<1> DEFINE a == [alert |-> Head(metrics.todo), number |-> pushed + 1]
           d == Append(metrics.done, a)
<1>1. metrics'.done = d /\ pushed' = pushed + 1 /\ UNCHANGED <<registry, session, inbox, copied>>
  BY DEF EmitAlert, ThreadType
<1>2. metrics.done \in Seq(Records) /\ Head(metrics.todo) \in AlertKinds /\ pushed \in Nat
  BY TailOf DEF EmitAlert, ThreadType, PlantType
<1>3. a \in Records /\ a.number = pushed + 1
  BY <1>2 DEF Records
<1> HIDE DEF a
<1>4. /\ Len(metrics.done) \in Nat /\ Len(d) = Len(metrics.done) + 1
      /\ d[Len(metrics.done) + 1] = a
      /\ \A i \in 1 .. Len(metrics.done) : d[i] = metrics.done[i]
  BY <1>2, <1>3, AppendProperties
<1> HIDE DEF d
<1>5. pushed + 1 \in ToBroadcast'
  <2>1. Len(d) \in 1 .. Len(d) /\ d[Len(d)].number = pushed + 1
    BY <1>3, <1>4
  <2> QED
    BY <1>1, <2>1 DEF ToBroadcast
<1>6. ToBroadcast \subseteq ToBroadcast'
  <2>1. \A i \in 1 .. Len(metrics.done) : i \in 1 .. Len(d) /\ d[i].number = metrics.done[i].number
    BY <1>4
  <2> QED
    BY <1>1, <2>1 DEF ToBroadcast
<1> SUFFICES ASSUME NEW c \in Registered', copied'[c] # -1, NEW n \in 1 .. pushed',
                    n > copied'[c] - MaxRecords
             PROVE  Reaches(n, c)'
  BY DEF NoAlertGap, Reaches
<1>7. CASE n = pushed + 1
  BY <1>5, <1>7 DEF Reaches
<1>8. CASE n # pushed + 1
  <2>1. n \in 1 .. pushed /\ c \in Registered /\ copied[c] # -1 /\ n > copied[c] - MaxRecords
    BY <1>1, <1>2, <1>8 DEF Registered
  <2>2. Reaches(n, c)
    BY <2>1 DEF NoAlertGap, Reaches
  <2> QED
    BY <1>1, <1>6, <2>2 DEF Reaches
<1> QED
  BY <1>7, <1>8

\* The alert that is no longer to be broadcast has been sent to every client.
LEMMA BroadcastAlertGap ==
  ASSUME Types, NoAlertGap, BroadcastAlert
  PROVE  NoAlertGap'
<1> USE DEF Types
<1> DEFINE d == Tail(metrics.done)
           a == metrics.done[1]
           line == Alert(a, "broadcast")
<1>1. metrics'.done = d /\ metrics.done # <<>> /\ UNCHANGED pushed
  BY DEF BroadcastAlert, ThreadType, plant
<1>2. a \in Records /\ Broadcasts(line)
  BY BroadcastIs
<1>3. line \in Lines /\ line.kind = "ALERT" /\ line.alert = a
  BY <1>2, AlertLines
<1>4. /\ Len(metrics.done) \in Nat /\ Len(d) = Len(metrics.done) - 1
      /\ \A i \in 1 .. Len(d) : d[i] = metrics.done[i + 1]
  BY <1>1, TailOf DEF ThreadType
<1> HIDE DEF d
<1>5. ASSUME NEW n \in ToBroadcast PROVE n = a.number \/ n \in ToBroadcast'
  <2>1. PICK i \in 1 .. Len(metrics.done) : metrics.done[i].number = n
    BY DEF ToBroadcast
  <2>2. CASE i # 1
    <3>1. i - 1 \in 1 .. Len(d) /\ (i - 1) + 1 = i
      BY <1>4, <2>2
    <3>2. d[i - 1].number = n
      BY <1>4, <2>1, <3>1
    <3> QED
      BY <1>1, <3>1, <3>2 DEF ToBroadcast
  <2> QED
    BY <2>1, <2>2
<1> HIDE DEF line, a
<1>6. /\ Registered' = Registered /\ copied' = copied /\ session' = session
      /\ Registered \subseteq Clients
      /\ \A c \in Clients : c \in Registered => inbox'[c] = Append(inbox[c], line)
  BY <1>2 DEF Broadcasts, Registered, RegistryType
<1>7. ASSUME NEW c \in Registered, NEW n, Reaches(n, c) PROVE Reaches(n, c)'
  <2>1. /\ AlertsIn(inbox[c]) \subseteq AlertsIn(inbox'[c]) /\ a.number \in AlertsIn(inbox'[c])
    BY <1>3, <1>6, AlertsMore
  <2> QED
    BY <1>5, <1>6, <1>7, <2>1 DEF Reaches
<1> QED
  BY <1>1, <1>6, <1>7, GapKept

\* GET_ALERTS copies the newest records, up to the last one raised.
LEMMA GetAlertsGap ==
  ASSUME Types, Shape, Numbering, NoAlertGap, NEW c \in Clients, CmdGetAlerts(c)
  PROVE  NoAlertGap'
<1> USE DEF Types
<1> DEFINE m == IF Len(recent) < MaxRecords THEN Len(recent) ELSE MaxRecords
<1>1. /\ UNCHANGED <<metrics, registry, inbox, pushed>> /\ session[c].pc = "idle"
      /\ copied' = [copied EXCEPT ![c] = pushed]
  BY DEF CmdGetAlerts, Dispatch, thread, plant
<1>2. Len(recent) \in Nat /\ m \in 0 .. Len(recent) /\ m \in Nat
  BY GetAlertsIs
<1>3. PICK lines \in Seq(Lines) :
             /\ Answers(c, session[c].role, lines)
             /\ Len(lines) = m + 1 /\ lines[1] = OkAlerts(m, pushed)
             /\ \A k \in 1 .. m :
                  /\ recent[Len(recent) - m + k] \in Records
                  /\ lines[k + 1] = Alert(recent[Len(recent) - m + k], "history")
  BY GetAlertsIs
<1>4. /\ pushed \in Nat /\ HistorySize \in Nat /\ MaxRecords \in 1 .. HistorySize
      /\ Len(recent) = IF pushed < HistorySize THEN pushed ELSE HistorySize
  BY HistoryAssumption DEF PlantType, Numbering
<1>5. (m = Len(recent) /\ Len(recent) = pushed) \/ m = MaxRecords
  BY <1>4
<1> HIDE DEF m
<1>6. ASSUME NEW n \in 1 .. pushed, n > pushed - MaxRecords PROVE n \in AlertsIn(lines)
  <2> DEFINE k == n - (pushed - m)
  <2>1. k \in 1 .. m /\ n = pushed - Len(recent) + (Len(recent) - m + k)
    BY <1>2, <1>4, <1>5, <1>6
  <2> HIDE DEF k
  <2>2. Len(recent) - m + k \in 1 .. Len(recent)
    BY <1>2, <2>1
  <2>3. recent[Len(recent) - m + k].number = n
    BY <2>1, <2>2 DEF Numbering
  <2>4. /\ recent[Len(recent) - m + k] \in Records
        /\ lines[k + 1] = Alert(recent[Len(recent) - m + k], "history")
    BY <1>3, <2>1
  <2>5. lines[k + 1].kind = "ALERT" /\ lines[k + 1].alert.number = n
    BY <2>3, <2>4, AlertLines
  <2>6. k + 1 \in 1 .. Len(lines)
    BY <1>2, <1>3, <2>1
  <2> QED
    BY <2>5, <2>6, AlertIn
<1>7. session'[c].out = lines /\ \A d \in Clients \ {c} : session'[d] = session[d]
  BY <1>3 DEF Answers, Changes
<1>8. \A d \in Clients : copied'[d] = IF d = c THEN pushed ELSE copied[d]
  BY <1>1 DEF SessionType
<1>9. Registered' = Registered /\ Registered \subseteq Clients /\ ToBroadcast' = ToBroadcast
  BY <1>1 DEF Registered, RegistryType, ToBroadcast
<1> SUFFICES ASSUME NEW d \in Registered', copied'[d] # -1, NEW n \in 1 .. pushed',
                    n > copied'[d] - MaxRecords
             PROVE  Reaches(n, d)'
  BY DEF NoAlertGap, Reaches
<1>10. n \in 1 .. pushed /\ d \in Registered /\ d \in Clients
  BY <1>1, <1>9
<1>11. CASE d = c
  <2>1. n > pushed - MaxRecords
    BY <1>8, <1>10, <1>11
  <2> QED
    BY <1>6, <1>7, <1>10, <1>11, <2>1 DEF Reaches
<1>12. CASE d # c
  <2>1. copied[d] # -1 /\ n > copied[d] - MaxRecords
    BY <1>8, <1>10, <1>12
  <2>2. Reaches(n, d)
    BY <1>10, <2>1 DEF NoAlertGap, Reaches
  <2> QED
    BY <1>1, <1>7, <1>9, <1>10, <1>12, <2>2 DEF Reaches
<1> QED
  BY <1>11, <1>12

\* Without lines, no alerts.
LEMMA NoLinesNoAlerts == AlertsIn(<<>>) = {}
<1>1. \A i \in 1 .. Len(<<>>) : FALSE
  OBVIOUS
<1> QED
  BY <1>1 DEF AlertsIn

\* A line that is written moves from what is to be written to the socket.
LEMMA WritesGap ==
  ASSUME Types, NoAlertGap, NEW c \in Clients, Writes(c),
         UNCHANGED <<metrics, registry, pushed, copied>>
  PROVE  NoAlertGap'
<1> USE DEF Types
<1> DEFINE out == session[c].out
           rest == Tail(out)
           line == Written(out[1])
<1>1. session'[c].out = rest /\ \A d \in Clients \ {c} : session'[d] = session[d]
  BY DEF Writes, Changes
<1>2. inbox'[c] = Append(inbox[c], line) /\ \A d \in Clients \ {c} : inbox'[d] = inbox[d]
  BY DEF Writes, SessionType
<1>3. out \in Seq(Lines) /\ out # <<>>
  BY DEF Writes, SessionType, Sessions
<1>4. /\ out[1] \in Lines /\ Len(out) \in Nat /\ Len(rest) = Len(out) - 1
      /\ \A k \in 1 .. Len(rest) : rest[k] = out[k + 1]
  BY <1>3, TailOf
<1>5. line \in Lines /\ (out[1].kind = "ALERT" => line = out[1])
  BY <1>4, WrittenIs, UserIsNothingElse
<1> HIDE DEF rest, line
<1>6. ASSUME NEW n \in AlertsIn(out) PROVE n \in AlertsIn(inbox'[c]) \cup AlertsIn(rest)
  <2>1. PICK i \in 1 .. Len(out) : out[i].kind = "ALERT" /\ out[i].alert.number = n
    BY AlertIn
  <2>2. CASE i = 1
    <3>1. line.kind = "ALERT" /\ line.alert.number = n
      BY <1>5, <2>1, <2>2
    <3> QED
      BY <1>2, <1>5, <3>1, AlertsMore
  <2>3. CASE i # 1
    <3>1. i - 1 \in 1 .. Len(rest) /\ (i - 1) + 1 = i
      BY <1>4, <2>3
    <3>2. rest[i - 1] = out[i]
      BY <1>4, <3>1
    <3> QED
      BY <2>1, <3>1, <3>2, AlertIn
  <2> QED
    BY <2>2, <2>3
<1>7. AlertsIn(inbox[c]) \subseteq AlertsIn(inbox'[c])
  BY <1>2, <1>5, AlertsMore
<1>8. Registered' = Registered /\ Registered \subseteq Clients /\ ToBroadcast' = ToBroadcast
  BY DEF Registered, RegistryType, ToBroadcast
<1>9. ASSUME NEW d \in Registered, NEW n, Reaches(n, d) PROVE Reaches(n, d)'
  <2>1. CASE d = c
    BY <1>1, <1>6, <1>7, <1>8, <1>9, <2>1 DEF Reaches
  <2>2. CASE d # c
    BY <1>1, <1>2, <1>8, <1>9, <2>2 DEF Reaches
  <2> QED
    BY <2>1, <2>2
<1> QED
  BY <1>8, <1>9, GapKept

\* A session that had nothing to write answers something else, or moves.
LEMMA AnswersGap ==
  ASSUME Types, NoAlertGap, NEW c \in Clients, Changes(c), session[c].out = <<>>,
         UNCHANGED <<metrics, inbox, pushed, copied>>,
         Registered' \subseteq Registered \/ copied[c] = -1,
         Registered' \subseteq Registered \cup {c}
  PROVE  NoAlertGap'
<1> USE DEF Types
<1>1. ToBroadcast' = ToBroadcast /\ Registered \subseteq Clients
  BY DEF ToBroadcast, Registered, RegistryType
<1>2. ASSUME NEW d \in Registered', copied'[d] # -1, NEW n, Reaches(n, d) PROVE Reaches(n, d)'
  <2>1. CASE d = c
    BY <1>1, <1>2, <2>1, NoLinesNoAlerts DEF Reaches
  <2>2. CASE d # c
    <3>1. session'[d] = session[d]
      BY <1>1, <2>2 DEF Changes
    <3> QED
      BY <1>1, <1>2, <3>1 DEF Reaches
  <2> QED
    BY <2>1, <2>2
<1> QED
  BY <1>2, GapKept

\* Every step keeps each alert on its way to those who asked.
LEMMA NoGapStep == Types /\ Shape /\ Cycle /\ Numbering /\ NoAlertGap /\ Next => NoAlertGap'
<1> SUFFICES ASSUME Types, Shape, Cycle, Numbering, NoAlertGap, Next PROVE NoAlertGap'
  OBVIOUS
<1> USE DEF Types
<1>1. CASE (\E noise \in Noise : Tick(noise)) \/ ReadSnapshot \/ EvaluateEnd \/ EndCycle \/ Finished
  <2>1. UNCHANGED <<registry, session, inbox, pushed, copied>> /\ metrics'.done = metrics.done
    BY <1>1 DEF Tick, ReadSnapshot, EvaluateEnd, EndCycle, Finished, vars, plant, ThreadType
  <2>2. Registered' = Registered /\ ToBroadcast' = ToBroadcast
    BY <2>1 DEF Registered, ToBroadcast
  <2> QED
    BY <2>1, <2>2, GapKept DEF Reaches
<1>2. CASE BroadcastMetric
  <2>1. Broadcasts(Metric(metrics.snap)) /\ Metric(metrics.snap) \in Lines /\ UNCHANGED pushed
        /\ ~ InCycle
    BY <1>2, BroadcastIs DEF Broadcasts, BroadcastMetric, plant, InCycle
  <2>2. ToBroadcast = {}
    <3>1. metrics.done = <<>>
      BY <2>1 DEF Cycle
    <3> QED
      BY <3>1 DEF ToBroadcast
  <2>3. Registered' = Registered /\ Registered \subseteq Clients /\ UNCHANGED <<session, copied>>
    BY <2>1 DEF Registered, RegistryType, Broadcasts
  <2>4. \A d \in Registered : AlertsIn(inbox[d]) \subseteq AlertsIn(inbox'[d])
    BY <2>1, <2>3, AlertsMore DEF Broadcasts
  <2> QED
    BY <2>1, <2>2, <2>3, <2>4, GapKept DEF Reaches
<1>3. CASE EmitAlert
  BY <1>3, EmitGap
<1>4. CASE BroadcastAlert
  BY <1>4, BroadcastAlertGap
<1>5. ASSUME NEW c \in Clients, CmdGetAlerts(c) PROVE NoAlertGap'
  BY <1>5, GetAlertsGap
<1>6. ASSUME NEW c \in Clients, ReadHeading(c) \/ Command(c), ~ CmdGetAlerts(c) PROVE NoAlertGap'
  <2>1. UNCHANGED <<metrics, registry, inbox, pushed, copied>> /\ session[c].pc # "sending"
    BY <1>6, CommandFrame DEF ReadHeading, thread, plant
  <2>2. session[c].out = <<>> /\ Registered' = Registered
    BY <2>1, NothingToTell DEF Registered
  <2> QED
    BY <1>6, <2>1, <2>2, AnsweredLines, AnswersGap
<1>7. ASSUME NEW c \in Clients, Connect(c) PROVE NoAlertGap'
  <2>1. UNCHANGED <<metrics, inbox, pushed, copied>> /\ session[c].pc = "none"
        /\ Registered' = Registered \cup {c}
    BY <1>7, ConnectRegisters DEF Connect, thread, plant
  <2>2. session[c].out = <<>> /\ copied[c] = -1
    BY <2>1, NothingToTell DEF Shape
  <2> QED
    BY <1>7, <2>1, <2>2, AnsweredLines, AnswersGap
<1>8. ASSUME NEW c \in Clients, Disconnect(c) PROVE NoAlertGap'
  <2>1. UNCHANGED <<metrics, registry, inbox, pushed, copied>> /\ session[c].pc # "sending"
        /\ Changes(c)
    BY <1>8, LeaveIs DEF Disconnect, Remove, Moves, thread, plant
  <2>2. session[c].out = <<>> /\ Registered' = Registered
    BY <2>1, NothingToTell DEF Registered
  <2> QED
    BY <2>1, <2>2, AnswersGap
<1>9. ASSUME NEW c \in Clients, Remove(c) PROVE NoAlertGap'
  <2>1. UNCHANGED <<metrics, inbox, pushed, copied>> /\ session[c].pc # "sending" /\ Changes(c)
        /\ Registered' \subseteq Registered
    BY <1>9, RemoveIs DEF Remove, Moves, thread, plant
  <2>2. session[c].out = <<>>
    BY <2>1, NothingToTell
  <2> QED
    BY <2>1, <2>2, AnswersGap
<1>10. ASSUME NEW c \in Clients, SendLine(c) \/ SendLastLine(c) PROVE NoAlertGap'
  <2>1. UNCHANGED <<metrics, registry, pushed, copied>>
    BY <1>10 DEF SendLine, SendLastLine, thread, plant
  <2> QED
    BY <1>10, <2>1, WriteIs, WritesGap
<1> QED
  BY <1>1, <1>2, <1>3, <1>4, <1>5, <1>6, <1>7, <1>8, <1>9, <1>10 DEF Next, MetricsThread, Command

\* Initially nobody is registered.
LEMMA InitNoGap == Init => NoAlertGap
  BY DEF Init, NoAlertGap, Registered

-----------------------------------------------------------------------------
(* Turns                                                                      *)

\* The lines that a socket has been sent stay.
Extended(d) ==
  \A k \in 1 .. Len(inbox[d]) : k \in 1 .. Len(inbox'[d]) /\ inbox'[d][k] = inbox[d][k]

\* One more line leaves the others where they are.
LEMMA AppendExtends ==
  ASSUME SessionType, NEW d \in Clients, NEW line \in Lines, inbox'[d] = Append(inbox[d], line)
  PROVE  /\ Extended(d) /\ Len(inbox'[d]) \in 1 .. Len(inbox'[d])
         /\ inbox'[d][Len(inbox'[d])] = line
         /\ \A k \in 1 .. Len(inbox'[d]) : inbox'[d][k] = line \/ k \in 1 .. Len(inbox[d])
<1> DEFINE s == inbox[d]
           t == Append(s, line)
<1>1. /\ Len(s) \in Nat /\ Len(t) = Len(s) + 1 /\ t[Len(s) + 1] = line
      /\ \A k \in 1 .. Len(s) : t[k] = s[k]
  BY OneMore
<1>2. inbox'[d] = t
  OBVIOUS
<1> HIDE DEF t
<1>3. /\ Len(t) \in 1 .. Len(t) /\ t[Len(t)] = line
      /\ \A k \in 1 .. Len(t) : t[k] = line \/ k \in 1 .. Len(s)
  BY <1>1
<1> QED
  BY <1>1, <1>2, <1>3 DEF Extended

\* Only a turn changes the heading.
LEMMA HeadingStep ==
  ASSUME Types, Next
  PROVE  \/ equipment'.heading = equipment.heading
         \/ \E c \in Clients, direction \in Directions : CmdAdjustHeading(c, direction)
<1> USE DEF Types
<1>1. CASE MetricsThread \/ Finished
  BY <1>1 DEF MetricsThread, Tick, ReadSnapshot, BroadcastMetric, EmitAlert, EvaluateEnd,
              BroadcastAlert, EndCycle, Finished, vars, plant, Ticked, PlantType, EquipmentState
<1>2. ASSUME NEW c \in Clients,
             \/ Connect(c) \/ SendLine(c) \/ SendLastLine(c) \/ Disconnect(c) \/ Remove(c)
             \/ ReadHeading(c)
      PROVE  equipment'.heading = equipment.heading
  BY <1>2 DEF Connect, SendLine, SendLastLine, Disconnect, Remove, ReadHeading, plant
<1>3. ASSUME NEW c \in Clients, Command(c)
      PROVE  \/ equipment'.heading = equipment.heading
             \/ \E direction \in Directions : CmdAdjustHeading(c, direction)
  <2>1. CASE CmdForbidden(c) \/ CmdInvalid(c) \/ CmdGetStatus(c) \/ CmdGetAlerts(c) \/ CmdListUsers(c) \/ CmdQuit(c)
    BY <2>1 DEF CmdForbidden, CmdInvalid, CmdGetStatus, CmdGetAlerts, CmdListUsers, CmdQuit, plant
  <2>2. CASE \E verdict \in Verdicts : CmdAuthenticate(c, verdict)
    BY <2>2 DEF CmdAuthenticate, plant
  <2>3. CASE \E delta \in Deltas : CmdModifyRpm(c, delta)
    BY <2>3 DEF CmdModifyRpm, Modified, PlantType, EquipmentState
  <2> QED
    BY <1>3, <2>1, <2>2, <2>3 DEF Command
<1> QED
  BY <1>1, <1>2, <1>3 DEF Next

\* Every turn is noted, so what the plant shows always is.
LEMMA ShownStep ==
  ASSUME Types, Turns, Next, NEW c \in Clients
  PROVE  equipment'.heading \in since'[c]
<1>1. ASSUME NEW d \in Clients, NEW direction \in Directions, CmdAdjustHeading(d, direction)
      PROVE  equipment'.heading \in since'[c]
  <2> DEFINE h == equipment'.heading
  <2>1. since' = [e \in Clients |-> IF e = d THEN {h} ELSE since[e] \cup {h}]
    BY <1>1 DEF CmdAdjustHeading
  <2> HIDE DEF h
  <2>2. h \in since'[c]
    BY <2>1
  <2> QED
    BY <2>2 DEF h
<1>2. CASE equipment'.heading = equipment.heading /\ since' = since
  BY <1>2 DEF Turns
<1>3. CASE MetricsThread \/ Finished
  <2>1. since' = since
    BY <1>3 DEF MetricsThread, Tick, ReadSnapshot, BroadcastMetric, EmitAlert, EvaluateEnd,
                BroadcastAlert, EndCycle, Finished, vars, plant
  <2> QED
    BY <1>1, <1>2, <2>1, HeadingStep
<1>4. ASSUME NEW d \in Clients,
             \/ Connect(d) \/ SendLine(d) \/ SendLastLine(d) \/ Disconnect(d) \/ Remove(d)
             \/ ReadHeading(d) \/ Command(d)
      PROVE  equipment'.heading \in since'[c]
  BY <1>1, <1>2, <1>4, SinceIs, HeadingStep
<1> QED
  BY <1>3, <1>4 DEF Next

\* What a step tells is what the plant shows then.
LEMMA ToldStep ==
  ASSUME Types, Turns, Next, NEW c \in Clients
  PROVE  Told(c)'
<1> USE DEF Types
<1>1. ASSUME session'[c].out = session[c].out, inbox'[c] = inbox[c] PROVE Told(c)'
  BY <1>1 DEF Turns, Told
<1>2. CASE \/ (\E noise \in Noise : Tick(noise)) \/ ReadSnapshot \/ EmitAlert \/ EvaluateEnd
           \/ EndCycle \/ Finished
  BY <1>1, <1>2 DEF Tick, ReadSnapshot, EmitAlert, EvaluateEnd, EndCycle, Finished, vars
<1>3. ASSUME NEW line, Broadcasts(line), ~ IsHeading(line) PROVE Told(c)'
  <2>1. CASE inbox'[c] = Append(inbox[c], line)
    <3>1. /\ Extended(c) /\ session'[c] = session[c]
          /\ \A k \in 1 .. Len(inbox'[c]) : inbox'[c][k] = line \/ k \in 1 .. Len(inbox[c])
      BY <1>3, <2>1, AppendExtends DEF Broadcasts
    <3> QED
      BY <1>3, <3>1 DEF Turns, Told, ToldRight, Extended
  <2> QED
    BY <1>1, <1>3, <2>1 DEF Broadcasts
<1>4. ASSUME Command(c) \/ Connect(c) PROVE Told(c)'
  <2>1. inbox' = inbox /\ ~ ReadHeading(c)
    BY <1>4, AnsweredLines, CommandFrame DEF ReadHeading, Connect
  <2>2. CASE session'[c].out = session[c].out
    BY <1>1, <2>1, <2>2
  <2>3. CASE \A k \in 1 .. Len(session'[c].out) : Answerable(c, session'[c].out[k])
    BY <2>1, <2>3 DEF Turns, Told, Answerable, ToldRight
  <2> QED
    BY <1>4, <2>2, <2>3, AnsweredLines
<1>5. ASSUME ReadHeading(c) PROVE Told(c)'
  <2> DEFINE line == OkHeading(equipment.heading, since[c])
  <2>1. /\ equipment.heading \in Headings /\ since[c] \in SUBSET Headings
        /\ Answers(c, session[c].role, <<line>>)
    BY <1>5, ReadHeadingIs
  <2>2. ToldRight(line)
    BY <2>1, HeadingLines DEF Turns, ToldRight
  <2> HIDE DEF line
  <2>3. \A k \in 1 .. Len(<<line>>) : <<line>>[k] = line
    OBVIOUS
  <2>4. session'[c].out = <<line>> /\ inbox' = inbox
    BY <2>1 DEF Answers
  <2> QED
    BY <2>2, <2>3, <2>4 DEF Turns, Told
<1>6. ASSUME Disconnect(c) \/ Remove(c) PROVE Told(c)'
  BY <1>1, <1>6, LeaveIs DEF Moves
<1>7. ASSUME SendLine(c) \/ SendLastLine(c) PROVE Told(c)'
  <2> DEFINE out == session[c].out
             rest == Tail(out)
             line == Written(out[1])
  <2>0. Writes(c)
    BY <1>7, WriteIs
  <2>1. session'[c].out = rest /\ inbox'[c] = Append(inbox[c], line)
    BY <2>0 DEF Writes, SessionType
  <2>2. out \in Seq(Lines) /\ out # <<>>
    BY <2>0 DEF Writes, SessionType, Sessions
  <2>3. /\ out[1] \in Lines /\ 1 \in 1 .. Len(out)
        /\ \A k \in 1 .. Len(rest) : rest[k] = out[k + 1] /\ k + 1 \in 1 .. Len(out)
    BY <2>2, TailOf
  <2>4. line \in Lines /\ (IsHeading(line) => line = out[1])
    BY <2>3, WrittenIs, UserIsNothingElse
  <2>5. \A k \in 1 .. Len(out) : ToldRight(out[k])
    BY DEF Turns, Told
  <2>6. ToldRight(line)
    BY <2>3, <2>4, <2>5 DEF ToldRight
  <2> HIDE DEF out, rest, line
  <2>7. /\ Extended(c)
        /\ \A k \in 1 .. Len(inbox'[c]) : inbox'[c][k] = line \/ k \in 1 .. Len(inbox[c])
    BY <2>1, <2>4, AppendExtends
  <2>8. \A k \in 1 .. Len(inbox'[c]) : ToldRight(inbox'[c][k])
    BY <2>6, <2>7 DEF Turns, Told, Extended
  <2>9. \A k \in 1 .. Len(session'[c].out) : ToldRight(session'[c].out[k])
    BY <2>1, <2>3, <2>5
  <2> QED
    BY <2>8, <2>9 DEF Told
<1>8. ASSUME NEW d \in Clients,
             \/ Connect(d) \/ SendLine(d) \/ SendLastLine(d) \/ Disconnect(d) \/ Remove(d)
             \/ ReadHeading(d) \/ Command(d)
      PROVE  Told(c)'
  <2>1. CASE d = c
    BY <1>4, <1>5, <1>6, <1>7, <1>8, <2>1
  <2>2. CASE d # c
    <3>1. Changes(d) /\ inbox'[c] = inbox[c]
      BY <1>8, <2>2, AnsweredLines, WriteIs, LeaveIs DEF Writes, Moves, SessionType
    <3> QED
      BY <1>1, <2>2, <3>1 DEF Changes
  <2> QED
    BY <2>1, <2>2
<1>9. CASE BroadcastMetric
  BY <1>3, <1>9, BroadcastIs, MetricLines DEF ThreadType
<1>10. CASE BroadcastAlert
  BY <1>3, <1>10, BroadcastIs, AlertLines
<1> QED
  BY <1>2, <1>8, <1>9, <1>10 DEF Next, MetricsThread

\* Every step keeps what is told among what the plant has shown.
LEMMA TurnsStep == Types /\ Turns /\ Next => Turns'
  BY ShownStep, ToldStep DEF Turns

\* Initially nothing has been told.
LEMMA InitTurns == Init => Turns
<1>1. \A k \in 1 .. Len(<<>>) : FALSE
  OBVIOUS
<1> QED
  BY <1>1 DEF Init, Turns, Told, Idle

-----------------------------------------------------------------------------
(* Listing                                                                    *)

\* Of what is needed about lists: no line begins one or is part of one.
NoList(t) == \A k \in 1 .. Len(t) : ~ IsUsers(t[k]) /\ ~ IsUser(t[k])

\* The line that begins a list has a count, and is no part of a list.
LEMMA UsersCount ==
  ASSUME NEW line \in Lines, IsUsers(line)
  PROVE  line.count \in Nat /\ ~ IsUser(line)
  BY DEF IsUsers, IsUser, Has, Lines, WrittenUserLine, UserLine, MetricLine, AlertLine,
         StatusLine, TextLine, ErrLine, RoleLine, CountLine, AlertsLine, HeadingLine, ByeLine

\* What \o is.
LEMMA Joined ==
  ASSUME NEW S, NEW s \in Seq(S), NEW t \in Seq(S)
  PROVE  /\ s \o t \in Seq(S) /\ Len(s \o t) = Len(s) + Len(t)
         /\ Len(s) \in Nat /\ Len(t) \in Nat
         /\ \A k \in 1 .. Len(s) : (s \o t)[k] = s[k]
         /\ \A k \in 1 .. Len(t) : (s \o t)[Len(s) + k] = t[k]
         /\ \A k \in 1 .. Len(s) + Len(t) :
              k \in 1 .. Len(s) \/ (k - Len(s) \in 1 .. Len(t) /\ (s \o t)[k] = t[k - Len(s)])
<1>1. /\ s \o t \in Seq(S) /\ Len(s \o t) = Len(s) + Len(t)
      /\ \A k \in 1 .. Len(s) + Len(t) :
           (s \o t)[k] = IF k <= Len(s) THEN s[k] ELSE t[k - Len(s)]
  BY ConcatProperties
<1>2. Len(s) \in Nat /\ Len(t) \in Nat
  OBVIOUS
<1>3. \A k \in 1 .. Len(s) : (s \o t)[k] = s[k]
  BY <1>1, <1>2
<1>4. ASSUME NEW k \in 1 .. Len(t) PROVE (s \o t)[Len(s) + k] = t[k]
  <2>1. Len(s) + k \in 1 .. Len(s) + Len(t) /\ ~ (Len(s) + k <= Len(s)) /\ (Len(s) + k) - Len(s) = k
    BY <1>2
  <2> QED
    BY <1>1, <2>1
<1>5. ASSUME NEW k \in 1 .. Len(s) + Len(t)
      PROVE  k \in 1 .. Len(s) \/ (k - Len(s) \in 1 .. Len(t) /\ (s \o t)[k] = t[k - Len(s)])
  BY <1>1, <1>2
<1> QED
  BY <1>1, <1>2, <1>3, <1>4, <1>5

\* Whole lists stay whole when each line stays what it is for a list.
LEMMA SameLists ==
  ASSUME NEW t \in Seq(Lines), NEW u \in Seq(Lines), Len(u) = Len(t), WholeLists(t),
         \A k \in 1 .. Len(t) :
           /\ IsUsers(u[k]) => u[k] = t[k]
           /\ IsUser(t[k]) => IsUser(u[k]) /\ u[k].client = t[k].client
  PROVE  WholeLists(u)
<1> SUFFICES ASSUME NEW i \in 1 .. Len(u), IsUsers(u[i]) PROVE ListAt(u, i)
  BY DEF WholeLists
<1>1. u[i] = t[i] /\ IsUsers(t[i])
  OBVIOUS
<1>2. ListAt(t, i)
  BY <1>1 DEF WholeLists
<1> DEFINE n == t[i].count
<1>3. n \in Nat /\ Len(t) \in Nat
  BY <1>1, UsersCount
<1>4. /\ i + n <= Len(t)
      /\ \A k \in 1 .. n : IsUser(t[i + k])
      /\ \A k, l \in 1 .. n : t[i + k].client = t[i + l].client => k = l
  BY <1>2 DEF ListAt
<1>5. u[i].count = n
  BY <1>1
<1> HIDE DEF n
<1>6. \A k \in 1 .. n : i + k \in 1 .. Len(t)
  BY <1>3, <1>4
<1>7. \A k \in 1 .. n : IsUser(u[i + k]) /\ u[i + k].client = t[i + k].client
  BY <1>4, <1>6
<1>8. \A k, l \in 1 .. n : u[i + k].client = u[i + l].client => k = l
  BY <1>4, <1>7
<1> QED
  BY <1>4, <1>5, <1>7, <1>8 DEF ListAt

\* Whole lists stay whole when lines that begin no list follow.
LEMMA ListsMore ==
  ASSUME NEW s \in Seq(Lines), NEW t \in Seq(Lines), WholeLists(s),
         \A k \in 1 .. Len(t) : ~ IsUsers(t[k])
  PROVE  WholeLists(s \o t)
<1> DEFINE u == s \o t
<1>1. /\ u \in Seq(Lines) /\ Len(u) = Len(s) + Len(t) /\ Len(s) \in Nat /\ Len(t) \in Nat
      /\ \A k \in 1 .. Len(s) : u[k] = s[k]
      /\ \A k \in 1 .. Len(s) + Len(t) :
           k \in 1 .. Len(s) \/ (k - Len(s) \in 1 .. Len(t) /\ u[k] = t[k - Len(s)])
  BY Joined
<1> HIDE DEF u
<1> SUFFICES ASSUME NEW i \in 1 .. Len(u), IsUsers(u[i]) PROVE ListAt(u, i)
  BY DEF WholeLists, u
<1>2. i \in 1 .. Len(s) /\ u[i] = s[i]
  BY <1>1
<1>3. ListAt(s, i) /\ s[i].count \in Nat
  BY <1>2, UsersCount DEF WholeLists
<1> DEFINE n == s[i].count
<1>4. /\ i + n <= Len(s) /\ n \in Nat
      /\ \A k \in 1 .. n : IsUser(s[i + k])
      /\ \A k, l \in 1 .. n : s[i + k].client = s[i + l].client => k = l
  BY <1>3 DEF ListAt
<1>5. u[i].count = n
  BY <1>2
<1> HIDE DEF n
<1>6. \A k \in 1 .. n : i + k \in 1 .. Len(s) /\ u[i + k] = s[i + k]
  BY <1>1, <1>4
<1>7. \A k, l \in 1 .. n : u[i + k].client = u[i + l].client => k = l
  BY <1>4, <1>6
<1>8. i + n <= Len(u)
  BY <1>1, <1>4
<1>9. \A k \in 1 .. n : IsUser(u[i + k])
  BY <1>4, <1>6
<1> QED
  BY <1>5, <1>7, <1>8, <1>9 DEF ListAt

\* Lines in no list can be cut off.
LEMMA ListsCut ==
  ASSUME NEW s \in Seq(Lines), NEW t \in Seq(Lines), WholeLists(s \o t), NoList(t)
  PROVE  WholeLists(s)
<1> DEFINE u == s \o t
<1>1. /\ u \in Seq(Lines) /\ Len(u) = Len(s) + Len(t) /\ Len(s) \in Nat /\ Len(t) \in Nat
      /\ \A k \in 1 .. Len(s) : u[k] = s[k]
      /\ \A k \in 1 .. Len(s) + Len(t) :
           k \in 1 .. Len(s) \/ (k - Len(s) \in 1 .. Len(t) /\ u[k] = t[k - Len(s)])
      /\ WholeLists(u)
  BY Joined
<1> HIDE DEF u
<1> SUFFICES ASSUME NEW i \in 1 .. Len(s), IsUsers(s[i]) PROVE ListAt(s, i)
  BY DEF WholeLists
<1>2. i \in 1 .. Len(u) /\ u[i] = s[i]
  BY <1>1
<1>3. ListAt(u, i) /\ u[i].count \in Nat
  BY <1>1, <1>2, UsersCount DEF WholeLists
<1> DEFINE n == u[i].count
<1>4. /\ i + n <= Len(u) /\ n \in Nat
      /\ \A k \in 1 .. n : IsUser(u[i + k])
      /\ \A k, l \in 1 .. n : u[i + k].client = u[i + l].client => k = l
  BY <1>3 DEF ListAt
<1>5. s[i].count = n
  BY <1>2
<1> HIDE DEF n
<1>6. \A k \in 1 .. n : i + k \in 1 .. Len(s)
  <2> SUFFICES ASSUME NEW k \in 1 .. n PROVE i + k \in 1 .. Len(s)
    OBVIOUS
  <2>1. i + k \in 1 .. Len(s) + Len(t)
    BY <1>1, <1>4
  <2> QED
    BY <1>1, <1>4, <2>1 DEF NoList
<1>7. \A k \in 1 .. n : u[i + k] = s[i + k]
  BY <1>1, <1>6
<1>8. i + n <= Len(s)
  <2>1. CASE n = 0
    BY <1>4, <2>1
  <2>2. CASE n # 0
    <3>1. n \in 1 .. n
      BY <1>4, <2>2
    <3> QED
      BY <1>6, <3>1
  <2> QED
    BY <2>1, <2>2
<1> QED
  BY <1>4, <1>5, <1>7, <1>8 DEF ListAt

\* A first line for n users, and n distinct users.
Lists(t, n) ==
  /\ IsUsers(t[1]) /\ t[1].count = n
  /\ \A k \in 1 .. n : IsUser(t[k + 1]) /\ ~ IsUsers(t[k + 1])
  /\ \A k, l \in 1 .. n : t[k + 1].client = t[l + 1].client => k = l

\* A list of distinct clients after whole lists.
LEMMA ListAdded ==
  ASSUME NEW s \in Seq(Lines), WholeLists(s), NEW t \in Seq(Lines), NEW n \in Nat,
         Len(t) = n + 1, Lists(t, n)
  PROVE  WholeLists(s \o t)
<1> DEFINE u == s \o t
           m == Len(s)
<1>1. /\ u \in Seq(Lines) /\ Len(u) = m + (n + 1) /\ m \in Nat
      /\ \A k \in 1 .. m : u[k] = s[k]
      /\ \A k \in 1 .. n + 1 : u[m + k] = t[k]
      /\ \A k \in 1 .. m + (n + 1) :
           k \in 1 .. m \/ (k - m \in 1 .. n + 1 /\ u[k] = t[k - m])
  <2>1. /\ u \in Seq(Lines) /\ Len(u) = Len(s) + Len(t) /\ Len(s) \in Nat
        /\ \A k \in 1 .. Len(s) : u[k] = s[k]
    BY Joined
  <2>2. \A k \in 1 .. Len(t) : u[Len(s) + k] = t[k]
    BY Joined
  <2>3. \A k \in 1 .. Len(s) + Len(t) :
          k \in 1 .. Len(s) \/ (k - Len(s) \in 1 .. Len(t) /\ u[k] = t[k - Len(s)])
    BY Joined
  <2>4. Len(t) = n + 1
    OBVIOUS
  <2> HIDE DEF u
  <2> QED
    BY <2>1, <2>2, <2>3, <2>4
<1> HIDE DEF u, m
<1>2. ASSUME NEW i \in 1 .. m, IsUsers(u[i]) PROVE ListAt(u, i)
  <2>1. u[i] = s[i] /\ ListAt(s, i) /\ s[i].count \in Nat
    BY <1>1, <1>2, UsersCount DEF WholeLists, m
  <2> DEFINE p == s[i].count
  <2>2. /\ i + p <= m /\ p \in Nat
        /\ \A k \in 1 .. p : IsUser(s[i + k])
        /\ \A k, l \in 1 .. p : s[i + k].client = s[i + l].client => k = l
    BY <2>1 DEF ListAt, m
  <2>3. u[i].count = p
    BY <2>1
  <2> HIDE DEF p
  <2>4. \A k \in 1 .. p : i + k \in 1 .. m /\ u[i + k] = s[i + k]
    BY <1>1, <2>2
  <2>5. \A k, l \in 1 .. p : u[i + k].client = u[i + l].client => k = l
    BY <2>2, <2>4
  <2>6. i + p <= Len(u) /\ \A k \in 1 .. p : IsUser(u[i + k])
    BY <1>1, <2>2, <2>4
  <2> QED
    BY <2>3, <2>5, <2>6 DEF ListAt
<1>3. ListAt(u, m + 1)
  <2>1. u[m + 1] = t[1]
    BY <1>1
  <2>2. \A k \in 1 .. n : k + 1 \in 1 .. n + 1 /\ m + (k + 1) = (m + 1) + k
    BY <1>1
  <2>3. \A k \in 1 .. n : u[(m + 1) + k] = t[k + 1]
    BY <1>1, <2>2
  <2> USE DEF Lists
  <2>4. \A k, l \in 1 .. n : u[(m + 1) + k].client = u[(m + 1) + l].client => k = l
    BY <2>3
  <2>5. (m + 1) + n <= Len(u) /\ \A k \in 1 .. n : IsUser(u[(m + 1) + k])
    BY <1>1, <2>3
  <2>6. u[m + 1].count = n
    BY <2>1
  <2> QED
    BY <2>4, <2>5, <2>6 DEF ListAt
<1>4. ASSUME NEW i \in 1 .. Len(u), IsUsers(u[i]), i \notin 1 .. m PROVE i = m + 1
  <2>1. i - m \in 1 .. n + 1 /\ u[i] = t[i - m]
    BY <1>1, <1>4
  <2>2. CASE i - m # 1
    <3>1. (i - m) - 1 \in 1 .. n /\ ((i - m) - 1) + 1 = i - m
      BY <1>1, <2>1, <2>2
    <3> QED
      BY <1>4, <2>1, <3>1 DEF Lists
  <2> QED
    BY <1>1, <2>1, <2>2
<1> QED
  BY <1>2, <1>3, <1>4 DEF WholeLists, u

\* Outside a list, what has been sent holds whole lists only.
LEMMA NotListing ==
  ASSUME SessionType, NEW c \in Clients, ListingOf(c), lock # c
  PROVE  /\ inbox[c] \in Seq(Lines) /\ session[c].out \in Seq(Lines)
         /\ WholeLists(inbox[c]) /\ NoList(session[c].out)
<1>1. inbox[c] \in Seq(Lines) /\ session[c].out \in Seq(Lines)
  BY DEF SessionType, Sessions
<1>2. NoList(session[c].out) /\ WholeLists(inbox[c] \o session[c].out)
  BY DEF ListingOf, NoList, Text
<1> QED
  BY <1>1, <1>2, ListsCut

\* The sessions that a step is not about keep their lists.
LEMMA OthersListing ==
  ASSUME NEW c \in Clients, ListingOf(c), session'[c] = session[c], inbox'[c] = inbox[c],
         lock = c => lock' = c
  PROVE  ListingOf(c)'
  BY DEF ListingOf, Text

\* A session that has nothing to write answers with lines in no list.
LEMMA AnswersListing ==
  ASSUME Types, NEW c \in Clients, ListingOf(c), session[c].out = <<>>, inbox' = inbox,
         session'[c].out \in Seq(Lines), NoList(session'[c].out)
  PROVE  ListingOf(c)'
<1> DEFINE lines == session'[c].out
           none == session[c].out
<1>1. inbox[c] \in Seq(Lines) /\ none \in Seq(Lines) /\ Len(none) = 0
  BY DEF Types, SessionType, Sessions
<1>2. WholeLists(inbox[c] \o none)
  BY DEF ListingOf, Text
<1> HIDE DEF none
<1>3. NoList(none)
  BY <1>1 DEF NoList
<1>4. WholeLists(inbox[c])
  BY <1>1, <1>2, <1>3, ListsCut
<1>5. \A k \in 1 .. Len(lines) : ~ IsUsers(lines[k]) /\ ~ IsUser(lines[k])
  BY DEF NoList
<1>6. WholeLists(inbox[c] \o lines)
  BY <1>1, <1>4, <1>5, ListsMore
<1> QED
  BY <1>5, <1>6 DEF ListingOf, Text

\* LIST USERS names each registered client once.
LEMMA ListUsersListing ==
  ASSUME Types, Shape, NEW c \in Clients, ListingOf(c), session[c].out = <<>>, CmdListUsers(c)
  PROVE  ListingOf(c)'
<1> DEFINE n == Len(registry)
<1>1. PICK lines \in Seq(Lines) :
             /\ Answers(c, session[c].role, lines)
             /\ Len(lines) = n + 1 /\ n \in Nat
             /\ lines[1] = OkCount("users", n)
             /\ \A k \in 1 .. n : registry[k] \in Clients /\ lines[k + 1] = User(registry[k])
  BY ListUsersIs DEF Types
<1>2. \A i, j \in 1 .. n : registry[i] = registry[j] => i = j
  BY DEF Shape
<1>3. lock' = c /\ inbox' = inbox /\ session'[c].out = lines
  BY <1>1 DEF CmdListUsers, Answers
<1> HIDE DEF n
<1>4. IsUsers(lines[1]) /\ lines[1].count = n
  BY <1>1, CountLines
<1>5. \A k \in 1 .. n : /\ IsUser(lines[k + 1]) /\ ~ IsUsers(lines[k + 1])
                         /\ lines[k + 1].client = registry[k]
  BY <1>1, UserLines, UserIsNothingElse
<1>6. Lists(lines, n)
  BY <1>2, <1>4, <1>5 DEF Lists
<1> DEFINE none == session[c].out
<1>7. inbox[c] \in Seq(Lines) /\ none \in Seq(Lines) /\ Len(none) = 0
  BY DEF Types, SessionType, Sessions
<1>8. WholeLists(inbox[c] \o none)
  BY DEF ListingOf, Text
<1> HIDE DEF none
<1>9. NoList(none)
  BY <1>7 DEF NoList
<1>10. WholeLists(inbox[c])
  BY <1>7, <1>8, <1>9, ListsCut
<1>11. WholeLists(inbox[c] \o lines)
  BY <1>1, <1>6, <1>7, <1>10, ListAdded
<1> QED
  BY <1>3, <1>11 DEF ListingOf, Text

\* a is s and x, rest is what follows the first of out, t is s and u.
Adds(a, s, x) ==
  Len(a) = Len(s) + 1 /\ (\A k \in 1 .. Len(s) : a[k] = s[k]) /\ a[Len(s) + 1] = x

Follows(rest, out) ==
  /\ Len(out) > 0 /\ Len(rest) = Len(out) - 1
  /\ \A k \in 1 .. Len(rest) : rest[k] = out[k + 1] /\ k + 1 \in 1 .. Len(out)

Joins(t, s, u) ==
  /\ Len(t) = Len(s) + Len(u) /\ \A k \in 1 .. Len(s) : t[k] = s[k]
  /\ \A k \in 1 .. Len(u) : t[Len(s) + k] = u[k]

\* A first element handed over from one sequence to the other, changed.
LEMMA HandedOverParts ==
  ASSUME NEW S, NEW s \in Seq(S), NEW out \in Seq(S), NEW line \in S,
         NEW a \in Seq(S), Adds(a, s, line), NEW rest \in Seq(S), Follows(rest, out),
         NEW t \in Seq(S), Joins(t, s, out), NEW b \in Seq(S), Joins(b, a, rest)
  PROVE  /\ Len(b) = Len(t)
         /\ \A k \in 1 .. Len(t) : b[k] = t[k] \/ (b[k] = line /\ t[k] = out[1])
<1>1. Len(s) \in Nat /\ Len(out) \in Nat
  OBVIOUS
<1>2. Len(b) = Len(t)
  BY <1>1 DEF Joins, Adds, Follows
<1>3. ASSUME NEW k \in 1 .. Len(t)
      PROVE  b[k] = t[k] \/ (b[k] = line /\ t[k] = out[1])
  <2>1. CASE k <= Len(s)
    BY <1>1, <2>1 DEF Joins, Adds
  <2>2. CASE k = Len(s) + 1
    <3>1. 1 \in 1 .. Len(out) /\ k \in 1 .. Len(a)
      BY <1>1, <2>2 DEF Adds, Follows
    <3>2. t[k] = out[1]
      BY <2>2, <3>1 DEF Joins
    <3>3. b[k] = line
      BY <2>2, <3>1 DEF Joins, Adds
    <3> QED
      BY <3>2, <3>3
  <2>3. CASE k > Len(s) + 1
    <3> DEFINE n == (k - Len(s)) - 1
    <3>1. n \in 1 .. Len(rest) /\ Len(a) + n = k /\ n + 1 \in 1 .. Len(out) /\ Len(s) + (n + 1) = k
      BY <1>1, <2>3 DEF Joins, Adds, Follows
    <3> HIDE DEF n
    <3>2. b[k] = out[n + 1]
      BY <3>1 DEF Joins, Follows
    <3>3. t[k] = out[n + 1]
      BY <3>1 DEF Joins
    <3> QED
      BY <3>2, <3>3
  <2> QED
    BY <1>1, <2>1, <2>2, <2>3
<1> QED
  BY <1>2, <1>3

LEMMA HandedOver ==
  ASSUME NEW S, NEW s \in Seq(S), NEW out \in Seq(S), out # <<>>, NEW line \in S
  PROVE  /\ s \o out \in Seq(S) /\ Append(s, line) \o Tail(out) \in Seq(S)
         /\ Len(Append(s, line) \o Tail(out)) = Len(s \o out)
         /\ \A k \in 1 .. Len(s \o out) :
              \/ (Append(s, line) \o Tail(out))[k] = (s \o out)[k]
              \/ (Append(s, line) \o Tail(out))[k] = line /\ (s \o out)[k] = out[1]
<1>1. PICK a \in Seq(S) : a = Append(s, line)
  BY AppendProperties
<1>2. Adds(a, s, line)
  BY <1>1, AppendProperties DEF Adds
<1>3. PICK rest \in Seq(S) : rest = Tail(out)
  BY TailOf
<1>4. Follows(rest, out)
  BY <1>3, TailOf DEF Follows
<1>5. PICK t \in Seq(S) : t = s \o out
  BY Joined
<1>6. Joins(t, s, out)
  BY <1>5, Joined DEF Joins
<1>7. PICK b \in Seq(S) : b = a \o rest
  BY Joined
<1>8. Joins(b, a, rest)
  BY <1>7, Joined DEF Joins
<1>9. /\ Len(b) = Len(t)
      /\ \A k \in 1 .. Len(t) : b[k] = t[k] \/ (b[k] = line /\ t[k] = out[1])
  BY <1>2, <1>4, <1>6, <1>8, HandedOverParts
<1>10. b = Append(s, line) \o Tail(out)
  BY <1>1, <1>3, <1>7
<1> QED
  BY <1>5, <1>9, <1>10

\* A line that is written stays what it is for a list.
LEMMA WritesListing ==
  ASSUME Types, NEW c \in Clients, ListingOf(c), Writes(c),
         lock' = lock \/ Len(session[c].out) = 1
  PROVE  ListingOf(c)'
<1> DEFINE s == inbox[c]
           out == session[c].out
           rest == Tail(out)
           line == Written(out[1])
           t == s \o out
           u == Append(s, line) \o rest
<1>1. inbox'[c] = Append(s, line) /\ session'[c].out = rest /\ out # <<>>
  BY DEF Writes, Types, SessionType
<1>2. s \in Seq(Lines) /\ out \in Seq(Lines)
  BY DEF Types, SessionType, Sessions
<1>3. /\ out[1] \in Lines /\ Len(out) \in Nat /\ rest \in Seq(Lines) /\ Len(rest) = Len(out) - 1
      /\ \A k \in 1 .. Len(rest) : rest[k] = out[k + 1] /\ k + 1 \in 1 .. Len(out)
  BY <1>1, <1>2, TailOf
<1>4. /\ line \in Lines
      /\ IsUsers(line) => line = out[1]
      /\ IsUser(out[1]) => IsUser(line) /\ line.client = out[1].client
  BY <1>3, WrittenIs, UserIsNothingElse DEF Types
<1>5. /\ t \in Seq(Lines) /\ u \in Seq(Lines) /\ Len(u) = Len(t)
      /\ \A k \in 1 .. Len(t) : u[k] = t[k] \/ (u[k] = line /\ t[k] = out[1])
  <2>1. out # <<>> /\ line \in Lines
    BY <1>1, <1>4
  <2> HIDE DEF line, out
  <2>2. t \in Seq(Lines) /\ u \in Seq(Lines) /\ Len(u) = Len(t)
    BY <1>2, <2>1, HandedOver
  <2>3. \A k \in 1 .. Len(t) : u[k] = t[k] \/ (u[k] = line /\ t[k] = out[1])
    BY <1>2, <2>1, HandedOver
  <2> QED
    BY <2>2, <2>3
<1>6. WholeLists(t)
  BY DEF ListingOf, Text
<1>7. WholeLists(u)
  <2> HIDE DEF t, u, line
  <2> QED
    BY <1>4, <1>5, <1>6, SameLists
<1>8. WholeLists(Text(c))'
  BY <1>1, <1>7 DEF Text
<1> HIDE DEF rest
<1>9. lock' # c => \A k \in 1 .. Len(rest) : ~ IsUsers(rest[k]) /\ ~ IsUser(rest[k])
  BY <1>3 DEF ListingOf
<1> QED
  BY <1>1, <1>8, <1>9 DEF ListingOf

\* A broadcast puts its line into no list, for nobody lists the users then.
LEMMA BroadcastListing ==
  ASSUME Types, Listing, NEW line, Broadcasts(line), ~ IsUsers(line)
  PROVE  Listing'
<1> SUFFICES ASSUME NEW c \in Clients PROVE ListingOf(c)'
  BY DEF Listing
<1>1. lock' = lock /\ lock # c /\ session' = session /\ line \in Lines
  BY FreeAssumption DEF Broadcasts
<1>2. ListingOf(c)
  BY DEF Listing
<1> DEFINE out == session[c].out
<1>3. inbox[c] \in Seq(Lines) /\ out \in Seq(Lines) /\ WholeLists(inbox[c]) /\ NoList(out)
  BY <1>1, <1>2, NotListing DEF Types
<1>4. CASE inbox'[c] = Append(inbox[c], line)
  <2>1. Append(inbox[c], line) = inbox[c] \o <<line>>
    BY <1>1, <1>3
  <2>2. <<line>> \in Seq(Lines) /\ \A k \in 1 .. Len(<<line>>) : ~ IsUsers(<<line>>[k])
    BY <1>1
  <2>3. WholeLists(inbox[c] \o <<line>>) /\ inbox[c] \o <<line>> \in Seq(Lines)
    BY <1>3, <2>2, ListsMore, Joined
  <2>4. WholeLists(inbox'[c]) /\ inbox'[c] \in Seq(Lines)
    BY <1>4, <2>1, <2>3
  <2>5. WholeLists(inbox'[c] \o out)
    BY <1>3, <2>4, ListsMore DEF NoList
  <2> QED
    BY <1>1, <1>3, <2>5 DEF ListingOf, Text, NoList
<1>5. CASE inbox'[c] = inbox[c]
  BY <1>1, <1>2, <1>5, OthersListing
<1> QED
  BY <1>4, <1>5 DEF Broadcasts

\* Every step keeps the lists whole.
LEMMA ListingStep == Types /\ Shape /\ Listing /\ Next => Listing'
<1> SUFFICES ASSUME Types, Shape, Listing, Next PROVE Listing'
  OBVIOUS
<1> USE DEF Types
<1>1. CASE \/ (\E noise \in Noise : Tick(noise)) \/ ReadSnapshot \/ EmitAlert \/ EvaluateEnd
           \/ EndCycle \/ Finished
  <2>1. UNCHANGED <<session, inbox, lock>>
    BY <1>1 DEF Tick, ReadSnapshot, EmitAlert, EvaluateEnd, EndCycle, Finished, vars
  <2> QED
    BY <2>1, OthersListing DEF Listing
<1>2. CASE BroadcastMetric
  BY <1>2, BroadcastIs, BroadcastListing, MetricLines DEF ThreadType
<1>3. CASE BroadcastAlert
  BY <1>3, BroadcastIs, BroadcastListing, AlertLines
<1>4. ASSUME NEW d \in Clients, Changes(d), ListingOf(d)',
             \A c \in Clients \ {d} : inbox'[c] = inbox[c] /\ (lock = c => lock' = c)
      PROVE  Listing'
  BY <1>4, OthersListing DEF Listing, Changes
<1>5. ASSUME NEW d \in Clients, Connect(d) \/ ReadHeading(d) \/ Command(d) PROVE Listing'
  <2>1. Changes(d) /\ inbox' = inbox
    BY <1>5, AnsweredLines
  <2>2. \A c \in Clients \ {d} : lock = c => lock' = c
    BY <1>5, CommandFrame, FreeAssumption DEF Connect, ReadHeading
  <2>3. session[d].out = <<>> /\ ListingOf(d)
    BY <1>5, CommandFrame DEF Connect, ReadHeading, Shape, Listing
  <2>4. session'[d].out \in Seq(Lines)
    BY <2>1 DEF Changes, Sessions
  <2>5. CASE CmdListUsers(d)
    BY <1>4, <2>1, <2>2, <2>3, <2>5, ListUsersListing
  <2>6. CASE ~ CmdListUsers(d)
    <3>1. CASE session'[d].out = session[d].out
      <4>1. NoList(session'[d].out)
        BY <2>3, <3>1 DEF NoList
      <4> QED
        BY <1>4, <2>1, <2>2, <2>3, <2>4, <4>1, AnswersListing
    <3>2. CASE \A k \in 1 .. Len(session'[d].out) : Answerable(d, session'[d].out[k])
      <4>1. NoList(session'[d].out)
        BY <2>6, <3>2 DEF NoList, Answerable
      <4> QED
        BY <1>4, <2>1, <2>2, <2>3, <2>4, <4>1, AnswersListing
    <3> QED
      BY <1>5, <3>1, <3>2, AnsweredLines
  <2> QED
    BY <2>5, <2>6
<1>6. ASSUME NEW d \in Clients, Disconnect(d) \/ Remove(d) PROVE Listing'
  <2>1. Changes(d) /\ inbox' = inbox /\ session'[d].out = session[d].out
    BY <1>6, LeaveIs DEF Moves
  <2>2. lock' = lock
    BY <1>6 DEF Disconnect, Remove
  <2>3. ListingOf(d)'
    BY <2>1, <2>2 DEF Listing, ListingOf, Text
  <2> QED
    BY <1>4, <2>1, <2>2, <2>3
<1>7. ASSUME NEW d \in Clients, SendLine(d) \/ SendLastLine(d) PROVE Listing'
  <2>1. Writes(d) /\ (lock' = lock \/ Len(session[d].out) = 1)
    BY <1>7, WriteIs DEF SendLine, SendLastLine
  <2>2. ListingOf(d)'
    BY <2>1, WritesListing DEF Listing
  <2>3. \A c \in Clients \ {d} : inbox'[c] = inbox[c] /\ (lock = c => lock' = c)
    BY <1>7, <2>1 DEF Writes, SessionType, SendLine, SendLastLine
  <2> QED
    BY <1>4, <2>1, <2>2, <2>3 DEF Writes
<1> QED
  BY <1>1, <1>2, <1>3, <1>5, <1>6, <1>7 DEF Next, MetricsThread

\* Initially nothing has been sent and nothing is to be written.
LEMMA InitListing == Init => Listing
<1> SUFFICES ASSUME Init, NEW c \in Clients PROVE ListingOf(c)
  BY DEF Listing
<1>1. session[c].out = <<>> /\ inbox[c] = <<>>
  BY DEF Init, Idle
<1>2. Len(<<>> \o <<>>) = 0 /\ Len(<<>>) = 0
  OBVIOUS
<1> QED
  BY <1>1, <1>2 DEF ListingOf, Text, WholeLists

-----------------------------------------------------------------------------
(* Answering                                                                  *)

\* A line that counts for an answer to GET_ALERTS: its header or a record.
Counts(line) == IsAlerts(line) \/ IsRecord(line)

\* The header of an answer has a count, and is no record; a record has a number.
LEMMA AlertsCount ==
  ASSUME NEW line \in Lines
  PROVE  /\ IsAlerts(line) => line.count \in Nat /\ line.newest \in Nat /\ ~ IsRecord(line)
         /\ IsRecord(line) => Number(line) \in Nat
  BY DEF IsAlerts, IsRecord, Number, Has, Lines, WrittenUserLine, UserLine, MetricLine,
         AlertLine, Records, StatusLine, TextLine, ErrLine, RoleLine, CountLine, AlertsLine, HeadingLine,
         ByeLine

\* The lines of t that count stand in u in their order, at the places h, and
\* there are no others.
Spreads(t, u, h) ==
  /\ h \in [1 .. Len(t) -> 1 .. Len(u)]
  /\ \A i, j \in 1 .. Len(t) : i < j => h[i] < h[j]
  /\ \A i \in 1 .. Len(t) : Counts(t[i]) => u[h[i]] = t[i]
  /\ \A k \in 1 .. Len(u) : Counts(u[k]) => \E i \in 1 .. Len(t) : h[i] = k /\ t[i] = u[k]

LEMMA SpreadRecord ==
  ASSUME NEW t, NEW u, NEW h, Len(t) \in Nat, Len(u) \in Nat, Spreads(t, u, h),
         NEW i \in 1 .. Len(t), NEW j \in 1 .. Len(t)
  PROVE  InAnswer(u, h[i], h[j]) /\ Counts(t[j]) <=> InAnswer(t, i, j)
<1>1. h[i] \in 1 .. Len(u) /\ h[j] \in 1 .. Len(u)
  BY DEF Spreads
<1>2. ASSUME InAnswer(t, i, j)
      PROVE  InAnswer(u, h[i], h[j]) /\ Counts(t[j])
  <2>1. i < j /\ IsRecord(t[j]) /\ Counts(t[j])
    BY <1>2 DEF InAnswer, Counts
  <2>2. h[i] < h[j] /\ IsRecord(u[h[j]])
    BY <2>1 DEF Spreads
  <2>3. ASSUME NEW k \in h[i] + 1 .. h[j], IsAlerts(u[k]) PROVE FALSE
    <3>1. k \in 1 .. Len(u) /\ h[i] < k /\ k <= h[j]
      BY <1>1, <2>3
    <3>2. PICK l \in 1 .. Len(t) : h[l] = k /\ t[l] = u[k]
      BY <2>3, <3>1 DEF Spreads, Counts
    <3>3. ~ (l <= i)
      <4>1. l < i => h[l] < h[i]
        BY DEF Spreads
      <4> QED
        BY <1>1, <3>1, <3>2, <4>1
    <3>4. ~ (j < l)
      <4>1. j < l => h[j] < h[l]
        BY DEF Spreads
      <4> QED
        BY <1>1, <3>1, <3>2, <4>1
    <3>5. l \in i + 1 .. j
      BY <3>2, <3>3, <3>4
    <3> QED
      BY <1>2, <2>3, <3>2, <3>5 DEF InAnswer
  <2>4. h[j] \in h[i] + 1 .. Len(u)
    BY <1>1, <2>2
  <2> QED
    BY <2>1, <2>2, <2>3, <2>4 DEF InAnswer
<1>3. ASSUME InAnswer(u, h[i], h[j]), Counts(t[j])
      PROVE  InAnswer(t, i, j)
  <2>1. h[i] < h[j] /\ IsRecord(t[j])
    BY <1>1, <1>3 DEF InAnswer, Spreads
  <2>2. i < j
    <3>1. j < i => h[j] < h[i]
      BY DEF Spreads
    <3> QED
      BY <1>1, <2>1, <3>1
  <2>3. ASSUME NEW k \in i + 1 .. j, IsAlerts(t[k]) PROVE FALSE
    <3>1. k \in 1 .. Len(t) /\ i < k /\ (k < j \/ k = j)
      BY <2>3
    <3>2. u[h[k]] = t[k] /\ h[i] < h[k] /\ h[k] \in 1 .. Len(u)
      BY <2>3, <3>1 DEF Spreads, Counts
    <3>3. h[k] <= h[j]
      BY <1>1, <3>1, <3>2 DEF Spreads
    <3>4. h[k] \in h[i] + 1 .. h[j]
      BY <1>1, <3>2, <3>3
    <3> QED
      BY <1>3, <2>3, <3>2, <3>4 DEF InAnswer
  <2> QED
    BY <2>1, <2>2, <2>3 DEF InAnswer
<1> QED
  BY <1>2, <1>3

\* Answers stay whole when their lines are spread.
LEMMA SpreadAnswers ==
  ASSUME NEW t, NEW u, NEW h, Len(t) \in Nat, Len(u) \in Nat, Spreads(t, u, h),
         WholeAnswers(t)
  PROVE  WholeAnswers(u)
<1> SUFFICES ASSUME NEW k \in 1 .. Len(u), IsAlerts(u[k])
             PROVE  \E b \in Int : Announces(u[k], b) /\ AnswerFrom(u, k, b)
  BY DEF WholeAnswers
<1>1. PICK i \in 1 .. Len(t) : h[i] = k /\ t[i] = u[k]
  BY DEF Spreads, Counts
<1>2. PICK b \in Int : Announces(t[i], b) /\ AnswerFrom(t, i, b)
  BY <1>1 DEF WholeAnswers
<1>3. ASSUME NEW m \in 1 .. Len(u), InAnswer(u, k, m)
      PROVE  \E j \in 1 .. Len(t) : h[j] = m /\ t[j] = u[m] /\ InAnswer(t, i, j)
  <2>1. Counts(u[m])
    BY <1>3 DEF InAnswer, Counts
  <2>2. PICK j \in 1 .. Len(t) : h[j] = m /\ t[j] = u[m]
    BY <2>1 DEF Spreads
  <2>3. InAnswer(t, i, j)
    BY <1>1, <1>3, <2>1, <2>2, SpreadRecord
  <2> QED
    BY <2>2, <2>3
<1>4. \A m \in 1 .. Len(u) : InAnswer(u, k, m) => Number(u[m]) \in b + 1 .. b + u[k].count
  <2> SUFFICES ASSUME NEW m \in 1 .. Len(u), InAnswer(u, k, m)
               PROVE  Number(u[m]) \in b + 1 .. b + u[k].count
    OBVIOUS
  <2>1. PICK j \in 1 .. Len(t) : h[j] = m /\ t[j] = u[m] /\ InAnswer(t, i, j)
    BY <1>3
  <2>2. Number(t[j]) \in b + 1 .. b + t[i].count
    BY <1>2, <2>1 DEF AnswerFrom
  <2> QED
    BY <1>1, <2>1, <2>2
<1>5. \A m, n \in 1 .. Len(u) :
        InAnswer(u, k, m) /\ InAnswer(u, k, n) /\ m < n => Number(u[m]) < Number(u[n])
  <2> SUFFICES ASSUME NEW m \in 1 .. Len(u), NEW n \in 1 .. Len(u),
                      InAnswer(u, k, m), InAnswer(u, k, n), m < n
               PROVE  Number(u[m]) < Number(u[n])
    OBVIOUS
  <2>1. PICK j \in 1 .. Len(t) : h[j] = m /\ t[j] = u[m] /\ InAnswer(t, i, j)
    BY <1>3
  <2>2. PICK l \in 1 .. Len(t) : h[l] = n /\ t[l] = u[n] /\ InAnswer(t, i, l)
    BY <1>3
  <2>3. l < j => h[l] < h[j]
    BY DEF Spreads
  <2>4. j < l
    BY <2>1, <2>2, <2>3
  <2>5. Number(t[j]) < Number(t[l])
    BY <1>2, <2>1, <2>2, <2>4 DEF AnswerFrom
  <2> QED
    BY <2>1, <2>2, <2>5
<1>6. \A n \in b + 1 .. b + u[k].count :
        \E m \in 1 .. Len(u) : InAnswer(u, k, m) /\ Number(u[m]) = n
  <2> SUFFICES ASSUME NEW n \in b + 1 .. b + u[k].count
               PROVE  \E m \in 1 .. Len(u) : InAnswer(u, k, m) /\ Number(u[m]) = n
    OBVIOUS
  <2>1. n \in b + 1 .. b + t[i].count
    BY <1>1
  <2>2. PICK j \in 1 .. Len(t) : InAnswer(t, i, j) /\ Number(t[j]) = n
    BY <1>2, <2>1 DEF AnswerFrom
  <2>3. InAnswer(u, k, h[j]) /\ Counts(t[j])
    BY <1>1, <2>2, SpreadRecord
  <2>4. u[h[j]] = t[j] /\ h[j] \in 1 .. Len(u)
    BY <2>3 DEF Spreads
  <2> QED
    BY <2>2, <2>3, <2>4
<1>7. AnswerFrom(u, k, b)
  BY <1>4, <1>5, <1>6 DEF AnswerFrom
<1> QED
  BY <1>1, <1>2, <1>7

\* Lines that do not count may follow.
LEMMA AnswersMore ==
  ASSUME NEW t \in Seq(Lines), NEW lines \in Seq(Lines), WholeAnswers(t),
         \A k \in 1 .. Len(lines) : ~ Counts(lines[k])
  PROVE  WholeAnswers(t \o lines)
<1> DEFINE u == t \o lines
           h == [i \in 1 .. Len(t) |-> i]
<1>1. /\ Len(u) = Len(t) + Len(lines) /\ Len(t) \in Nat /\ Len(lines) \in Nat
      /\ \A k \in 1 .. Len(t) : u[k] = t[k]
      /\ \A k \in 1 .. Len(t) + Len(lines) :
           k \in 1 .. Len(t) \/ (k - Len(t) \in 1 .. Len(lines) /\ u[k] = lines[k - Len(t)])
  BY Joined
<1> HIDE DEF u
<1>2. h \in [1 .. Len(t) -> 1 .. Len(u)] /\ \A i \in 1 .. Len(t) : h[i] = i
  BY <1>1
<1>3. \A k \in 1 .. Len(u) : Counts(u[k]) => k \in 1 .. Len(t)
  BY <1>1
<1> HIDE DEF h
<1>4. Spreads(t, u, h)
  BY <1>1, <1>2, <1>3 DEF Spreads
<1>5. WholeAnswers(u)
  BY <1>1, <1>4, SpreadAnswers
<1> QED
  BY <1>5 DEF u

\* A line that does not count may come in between.
LEMMA AnswersBetween ==
  ASSUME NEW s \in Seq(Lines), NEW out \in Seq(Lines), WholeAnswers(s \o out),
         NEW line \in Lines, ~ Counts(line)
  PROVE  WholeAnswers(Append(s, line) \o out)
<1> DEFINE t == s \o out
           a == Append(s, line)
           u == a \o out
           h == [i \in 1 .. Len(t) |-> IF i <= Len(s) THEN i ELSE i + 1]
<1>1. /\ a \in Seq(Lines) /\ Len(a) = Len(s) + 1
      /\ (\A k \in 1 .. Len(s) : a[k] = s[k]) /\ a[Len(s) + 1] = line
  BY AppendProperties
<1> HIDE DEF a
<1>2. /\ Len(t) = Len(s) + Len(out) /\ Len(s) \in Nat /\ Len(out) \in Nat
      /\ \A k \in 1 .. Len(s) : t[k] = s[k]
      /\ \A k \in 1 .. Len(out) : t[Len(s) + k] = out[k]
  BY Joined
<1>3. /\ Len(u) = Len(a) + Len(out)
      /\ \A k \in 1 .. Len(a) : u[k] = a[k]
      /\ \A k \in 1 .. Len(out) : u[Len(a) + k] = out[k]
  <2>1. a \in Seq(Lines)
    BY <1>1
  <2> QED
    BY <2>1, Joined
<1> HIDE DEF t, u
<1>4. Len(t) \in Nat /\ Len(u) = Len(t) + 1
  BY <1>1, <1>2, <1>3
<1>5. /\ h \in [1 .. Len(t) -> 1 .. Len(u)]
      /\ \A i \in 1 .. Len(t) : h[i] = IF i <= Len(s) THEN i ELSE i + 1
  BY <1>2, <1>4
<1> HIDE DEF h
<1>6. \A i \in 1 .. Len(s) : u[i] = t[i]
  BY <1>1, <1>2, <1>3
<1>7. ASSUME NEW i \in 1 .. Len(t), ~ (i <= Len(s)) PROVE u[i + 1] = t[i]
  <2>1. i - Len(s) \in 1 .. Len(out) /\ Len(s) + (i - Len(s)) = i
        /\ Len(a) + (i - Len(s)) = i + 1
    BY <1>1, <1>2, <1>7
  <2>2. t[Len(s) + (i - Len(s))] = out[i - Len(s)] /\ u[Len(a) + (i - Len(s))] = out[i - Len(s)]
    BY <1>2, <1>3, <2>1
  <2> QED
    BY <2>1, <2>2
<1>8. u[Len(s) + 1] = line
  BY <1>1, <1>2, <1>3
<1>9. \A i \in 1 .. Len(t) : u[h[i]] = t[i]
  BY <1>2, <1>4, <1>5, <1>6, <1>7
<1>10. ASSUME NEW k \in 1 .. Len(u), Counts(u[k])
       PROVE  \E i \in 1 .. Len(t) : h[i] = k /\ t[i] = u[k]
  <2>1. CASE k <= Len(s)
    <3>1. k \in 1 .. Len(t) /\ h[k] = k
      BY <1>2, <1>4, <1>5, <2>1
    <3> QED
      BY <1>9, <3>1
  <2>2. CASE k > Len(s) + 1
    <3>1. k - 1 \in 1 .. Len(t) /\ h[k - 1] = k
      BY <1>2, <1>4, <1>5, <2>2
    <3> QED
      BY <1>9, <3>1
  <2>3. k # Len(s) + 1
    BY <1>8, <1>10
  <2>4. k <= Len(s) \/ k > Len(s) + 1
    BY <1>2, <1>4, <2>3
  <2> QED
    BY <2>1, <2>2, <2>4
<1>11. \A i, j \in 1 .. Len(t) : i < j => h[i] < h[j]
  BY <1>2, <1>4, <1>5
<1>12. Spreads(t, u, h)
  BY <1>5, <1>9, <1>10, <1>11 DEF Spreads
<1>13. WholeAnswers(t)
  BY DEF t
<1>14. WholeAnswers(u)
  BY <1>4, <1>12, <1>13, SpreadAnswers
<1> QED
  BY <1>14 DEF u, a

\* Answers stay whole when each line stays what it is for them.
LEMMA SameAnswers ==
  ASSUME NEW t \in Seq(Lines), NEW u \in Seq(Lines), Len(u) = Len(t), WholeAnswers(t),
         \A k \in 1 .. Len(t) : Counts(t[k]) \/ Counts(u[k]) => u[k] = t[k]
  PROVE  WholeAnswers(u)
<1> DEFINE h == [i \in 1 .. Len(t) |-> i]
<1>1. Len(t) \in Nat
  OBVIOUS
<1>2. h \in [1 .. Len(t) -> 1 .. Len(u)] /\ \A i \in 1 .. Len(t) : h[i] = i
  OBVIOUS
<1> HIDE DEF h
<1>3. Spreads(t, u, h)
  BY <1>1, <1>2 DEF Spreads
<1> QED
  BY <1>1, <1>3, SpreadAnswers

\* n records, numbered from b + 1 on, behind a header.
Answer(lines, n, b) ==
  /\ Len(lines) = n + 1 /\ IsAlerts(lines[1]) /\ lines[1].count = n
  /\ Announces(lines[1], b)
  /\ \A k \in 1 .. n : IsRecord(lines[k + 1]) /\ Number(lines[k + 1]) = b + k

\* A whole answer may follow.
LEMMA AnswerAdded ==
  ASSUME NEW t \in Seq(Lines), NEW lines \in Seq(Lines), WholeAnswers(t),
         NEW n \in Nat, NEW b \in Int, Answer(lines, n, b)
  PROVE  WholeAnswers(t \o lines)
<1> DEFINE u == t \o lines
           len == Len(t)
<1>1. /\ u \in Seq(Lines) /\ Len(u) = len + n + 1 /\ len \in Nat
      /\ \A k \in 1 .. len : u[k] = t[k]
      /\ \A k \in 1 .. n + 1 : u[len + k] = lines[k]
      /\ \A k \in 1 .. n + 1 : lines[k] \in Lines
  <2>1. Len(lines) = n + 1
    BY DEF Answer
  <2>2. /\ u \in Seq(Lines) /\ Len(u) = len + Len(lines) /\ len \in Nat
        /\ \A k \in 1 .. len : u[k] = t[k]
        /\ \A k \in 1 .. Len(lines) : u[len + k] = lines[k]
    BY Joined
  <2> QED
    BY <2>1, <2>2
<1> HIDE DEF u, len
<1>2. IsAlerts(u[len + 1]) /\ u[len + 1].count = n /\ Announces(u[len + 1], b)
  <2>1. u[len + 1] = lines[1]
    BY <1>1
  <2> QED
    BY <2>1 DEF Answer
<1>3. ASSUME NEW k \in 1 .. n
      PROVE  /\ IsRecord(u[len + 1 + k]) /\ Number(u[len + 1 + k]) = b + k
             /\ ~ IsAlerts(u[len + 1 + k])
  <2>1. u[len + 1 + k] = lines[k + 1] /\ lines[k + 1] \in Lines
    <3>1. k + 1 \in 1 .. n + 1 /\ len + (k + 1) = len + 1 + k
      BY <1>1
    <3> QED
      BY <1>1, <3>1
  <2>2. IsRecord(lines[k + 1]) /\ Number(lines[k + 1]) = b + k
    BY DEF Answer
  <2> QED
    BY <2>1, <2>2, AlertsCount
<1> SUFFICES ASSUME NEW i \in 1 .. Len(u), IsAlerts(u[i])
             PROVE  \E d \in Int : Announces(u[i], d) /\ AnswerFrom(u, i, d)
  BY DEF WholeAnswers, u
<1>4. i <= len + 1
  <2> SUFFICES ASSUME i > len + 1 PROVE FALSE
    BY <1>1
  <2>1. i - (len + 1) \in 1 .. n /\ len + 1 + (i - (len + 1)) = i
    BY <1>1
  <2> QED
    BY <1>3, <2>1
<1>5. CASE i <= len
  <2>1. t[i] = u[i] /\ i \in 1 .. Len(t)
    BY <1>1, <1>5 DEF len
  <2>2. PICK d \in Int : Announces(t[i], d) /\ AnswerFrom(t, i, d)
    BY <2>1 DEF WholeAnswers
  <2>3. ASSUME NEW j \in 1 .. Len(u), InAnswer(u, i, j)
        PROVE  j \in 1 .. Len(t) /\ u[j] = t[j] /\ InAnswer(t, i, j)
    <3>1. j <= len
      <4> SUFFICES ASSUME j > len PROVE FALSE
        BY <1>1
      <4>1. len + 1 \in i + 1 .. j
        BY <1>1, <1>5
      <4> QED
        BY <1>2, <2>3, <4>1 DEF InAnswer
    <3>2. j \in i + 1 .. len
      BY <1>1, <2>3, <3>1 DEF InAnswer
    <3>3. \A k \in i + 1 .. j : u[k] = t[k]
      BY <1>1, <3>2
    <3> QED
      BY <1>1, <2>3, <3>2, <3>3 DEF InAnswer, len
  <2>4. ASSUME NEW j \in 1 .. Len(t), InAnswer(t, i, j)
        PROVE  j \in 1 .. Len(u) /\ u[j] = t[j] /\ InAnswer(u, i, j)
    <3>1. j \in i + 1 .. len
      BY <2>4 DEF InAnswer, len
    <3>2. \A k \in i + 1 .. j : u[k] = t[k]
      BY <1>1, <3>1
    <3>3. j \in i + 1 .. Len(u) /\ j \in 1 .. Len(u) /\ j \in i + 1 .. j
      BY <1>1, <3>1
    <3> QED
      BY <2>4, <3>2, <3>3 DEF InAnswer
  <2>5. \A j \in 1 .. Len(u) : InAnswer(u, i, j) => Number(u[j]) \in d + 1 .. d + u[i].count
    BY <2>1, <2>2, <2>3 DEF AnswerFrom
  <2>6. \A j, k \in 1 .. Len(u) :
          InAnswer(u, i, j) /\ InAnswer(u, i, k) /\ j < k => Number(u[j]) < Number(u[k])
    BY <2>2, <2>3 DEF AnswerFrom
  <2>7. \A m \in d + 1 .. d + u[i].count :
          \E j \in 1 .. Len(u) : InAnswer(u, i, j) /\ Number(u[j]) = m
    <3> SUFFICES ASSUME NEW m \in d + 1 .. d + u[i].count
                 PROVE  \E j \in 1 .. Len(u) : InAnswer(u, i, j) /\ Number(u[j]) = m
      OBVIOUS
    <3>1. PICK j \in 1 .. Len(t) : InAnswer(t, i, j) /\ Number(t[j]) = m
      BY <2>1, <2>2 DEF AnswerFrom
    <3> QED
      BY <2>4, <3>1
  <2>8. AnswerFrom(u, i, d)
    BY <2>5, <2>6, <2>7 DEF AnswerFrom
  <2> QED
    BY <2>1, <2>2, <2>8
<1>6. CASE i = len + 1
  <2>1. ASSUME NEW j \in 1 .. Len(u), InAnswer(u, i, j)
        PROVE  j - (len + 1) \in 1 .. n /\ Number(u[j]) = b + (j - (len + 1))
    <3>1. j - (len + 1) \in 1 .. n /\ len + 1 + (j - (len + 1)) = j
      BY <1>1, <1>6, <2>1 DEF InAnswer
    <3> QED
      BY <1>3, <3>1
  <2>2. ASSUME NEW k \in 1 .. n
        PROVE  len + 1 + k \in 1 .. Len(u) /\ InAnswer(u, i, len + 1 + k)
    <3>1. len + 1 + k \in 1 .. Len(u) /\ len + 1 + k \in i + 1 .. Len(u)
      BY <1>1, <1>6
    <3>2. ASSUME NEW l \in i + 1 .. len + 1 + k PROVE ~ IsAlerts(u[l])
      <4>1. l - (len + 1) \in 1 .. n /\ len + 1 + (l - (len + 1)) = l
        BY <1>1, <1>6
      <4> QED
        BY <1>3, <4>1
    <3> QED
      BY <1>3, <3>1, <3>2 DEF InAnswer
  <2>3. \A j \in 1 .. Len(u) : InAnswer(u, i, j) => Number(u[j]) \in b + 1 .. b + n
    BY <2>1
  <2>4. \A j, k \in 1 .. Len(u) :
          InAnswer(u, i, j) /\ InAnswer(u, i, k) /\ j < k => Number(u[j]) < Number(u[k])
    <3> SUFFICES ASSUME NEW j \in 1 .. Len(u), NEW k \in 1 .. Len(u), InAnswer(u, i, j),
                        InAnswer(u, i, k), j < k
                 PROVE  Number(u[j]) < Number(u[k])
      OBVIOUS
    <3>1. Number(u[j]) = b + (j - (len + 1)) /\ Number(u[k]) = b + (k - (len + 1))
      BY <2>1
    <3> QED
      BY <1>1, <3>1
  <2>5. ASSUME NEW m \in b + 1 .. b + n
        PROVE  \E j \in 1 .. Len(u) : InAnswer(u, i, j) /\ Number(u[j]) = m
    <3>1. m - b \in 1 .. n /\ b + (m - b) = m
      OBVIOUS
    <3>2. /\ len + 1 + (m - b) \in 1 .. Len(u) /\ InAnswer(u, i, len + 1 + (m - b))
          /\ Number(u[len + 1 + (m - b)]) = b + (m - b)
      BY <1>3, <2>2, <3>1
    <3> QED
      BY <3>1, <3>2
  <2>6. u[i].count = n
    BY <1>2, <1>6
  <2>7. AnswerFrom(u, i, b)
    BY <2>3, <2>4, <2>5, <2>6 DEF AnswerFrom
  <2> QED
    BY <1>2, <1>6, <2>7
<1> QED
  BY <1>1, <1>4, <1>5, <1>6

\* What a session with nothing to write has been sent.
LEMMA SentIsWhole ==
  ASSUME SessionType, Answering, NEW c \in Clients, session[c].out = <<>>
  PROVE  inbox[c] \in Seq(Lines) /\ WholeAnswers(inbox[c])
<1>1. inbox[c] \in Seq(Lines)
  BY DEF SessionType
<1>2. Text(c) = inbox[c]
  BY <1>1 DEF Text
<1> QED
  BY <1>1, <1>2 DEF Answering

\* GET_ALERTS answers with the last records, which are numbered without a gap.
LEMMA GetAlertsAnswering ==
  ASSUME Types, Shape, Numbering, Answering, NEW c \in Clients, CmdGetAlerts(c)
  PROVE  WholeAnswers(Text(c)')
<1> DEFINE n == IF Len(recent) < MaxRecords THEN Len(recent) ELSE MaxRecords
           b == pushed - n
<1>1. Len(recent) \in Nat /\ n \in 0 .. Len(recent)
  BY GetAlertsIs DEF Types
<1>2. PICK lines \in Seq(Lines) :
             /\ Answers(c, session[c].role, lines)
             /\ Len(lines) = n + 1 /\ lines[1] = OkAlerts(n, pushed)
             /\ \A k \in 1 .. n :
                  /\ recent[Len(recent) - n + k] \in Records
                  /\ lines[k + 1] = Alert(recent[Len(recent) - n + k], "history")
  BY GetAlertsIs DEF Types
<1>9. n = IF pushed < MaxRecords THEN pushed ELSE MaxRecords
  BY HistoryAssumption DEF Numbering, Types, PlantType
<1> HIDE DEF n
<1>3. n \in Nat /\ b \in Int /\ pushed \in Nat /\ pushed = b + n
  BY <1>1 DEF Types, PlantType
<1>4. \A k \in 1 .. n : recent[Len(recent) - n + k].number = b + k
  <2> SUFFICES ASSUME NEW k \in 1 .. n PROVE recent[Len(recent) - n + k].number = b + k
    OBVIOUS
  <2>1. Len(recent) - n + k \in 1 .. Len(recent)
    BY <1>1, <1>3
  <2>2. recent[Len(recent) - n + k].number = pushed - Len(recent) + (Len(recent) - n + k)
    BY <2>1 DEF Numbering
  <2> QED
    BY <1>1, <1>3, <2>2
<1> HIDE DEF b
<1>5. Answer(lines, n, b)
  <2>1. IsAlerts(lines[1]) /\ lines[1].count = n /\ lines[1].newest = pushed
    BY <1>2, <1>3, AlertsHeader
  <2>3. Announces(lines[1], b)
    <3>1. n = IF pushed < MaxRecords THEN pushed ELSE MaxRecords
      BY <1>9
    <3>2. pushed = b + n
      BY <1>3
    <3> QED
      BY <2>1, <3>1, <3>2, Zenon DEF Announces
  <2>2. \A k \in 1 .. n : IsRecord(lines[k + 1]) /\ Number(lines[k + 1]) = b + k
    BY <1>2, <1>4, AlertLines
  <2> QED
    BY <1>2, <2>1, <2>2, <2>3 DEF Answer
<1>6. session[c].out = <<>> /\ inbox' = inbox /\ session'[c].out = lines
  BY <1>2 DEF CmdGetAlerts, Dispatch, Shape, Answers
<1>7. inbox[c] \in Seq(Lines) /\ WholeAnswers(inbox[c])
  BY <1>6, SentIsWhole DEF Types
<1>8. WholeAnswers(inbox[c] \o lines)
  BY <1>3, <1>5, <1>7, AnswerAdded
<1> QED
  BY <1>6, <1>8 DEF Text

\* A line that is written stays what it is for an answer.
LEMMA WritesAnswering ==
  ASSUME Types, Answering, NEW c \in Clients, Writes(c)
  PROVE  WholeAnswers(Text(c)')
<1> DEFINE s == inbox[c]
           out == session[c].out
           rest == Tail(out)
           line == Written(out[1])
           t == s \o out
           u == Append(s, line) \o rest
<1>1. inbox'[c] = Append(s, line) /\ session'[c].out = rest /\ out # <<>>
  BY DEF Writes, Types, SessionType
<1>2. s \in Seq(Lines) /\ out \in Seq(Lines)
  BY DEF Types, SessionType, Sessions
<1>3. out[1] \in Lines
  BY <1>1, <1>2, TailOf
<1>4. line \in Lines /\ (Counts(line) \/ Counts(out[1]) => line = out[1])
  BY <1>3, WrittenIs, UserIsNothingElse DEF Types, Counts
<1>5. WholeAnswers(t)
  BY DEF Answering, Text
<1>6. /\ t \in Seq(Lines) /\ u \in Seq(Lines) /\ Len(u) = Len(t)
      /\ \A k \in 1 .. Len(t) : u[k] = t[k] \/ (u[k] = line /\ t[k] = out[1])
  <2> HIDE DEF line, out
  <2>1. t \in Seq(Lines) /\ u \in Seq(Lines) /\ Len(u) = Len(t)
    BY <1>1, <1>2, <1>4, HandedOver
  <2>2. \A k \in 1 .. Len(t) : u[k] = t[k] \/ (u[k] = line /\ t[k] = out[1])
    BY <1>1, <1>2, <1>4, HandedOver
  <2> QED
    BY <2>1, <2>2
<1> HIDE DEF t, u, line
<1>7. WholeAnswers(u)
  BY <1>4, <1>5, <1>6, SameAnswers
<1> QED
  BY <1>1, <1>7 DEF Text, u

\* A broadcast may come between the lines of an answer, of which it is none.
LEMMA BroadcastAnswering ==
  ASSUME Types, Answering, NEW line, Broadcasts(line), ~ Counts(line)
  PROVE  Answering'
<1> SUFFICES ASSUME NEW c \in Clients PROVE WholeAnswers(Text(c)')
  BY DEF Answering
<1>1. session' = session /\ line \in Lines
  BY DEF Broadcasts
<1> DEFINE out == session[c].out
<1>2. inbox[c] \in Seq(Lines) /\ out \in Seq(Lines) /\ WholeAnswers(inbox[c] \o out)
  BY DEF Types, SessionType, Sessions, Answering, Text
<1>3. CASE inbox'[c] = Append(inbox[c], line)
  <2>1. WholeAnswers(Append(inbox[c], line) \o out)
    BY <1>1, <1>2, AnswersBetween
  <2> QED
    BY <1>1, <1>3, <2>1 DEF Text
<1>4. CASE inbox'[c] = inbox[c]
  BY <1>1, <1>2, <1>4 DEF Text
<1> QED
  BY <1>3, <1>4 DEF Broadcasts

\* Every step keeps the answers whole.
LEMMA AnsweringStep == Types /\ Shape /\ Numbering /\ Answering /\ Next => Answering'
<1> SUFFICES ASSUME Types, Shape, Numbering, Answering, Next PROVE Answering'
  OBVIOUS
<1>1. CASE \/ (\E noise \in Noise : Tick(noise)) \/ ReadSnapshot \/ EmitAlert \/ EvaluateEnd
           \/ EndCycle \/ Finished
  <2>1. UNCHANGED <<session, inbox>>
    BY <1>1 DEF Tick, ReadSnapshot, EmitAlert, EvaluateEnd, EndCycle, Finished, vars
  <2> QED
    BY <2>1 DEF Answering, Text
<1>2. CASE BroadcastMetric
  BY <1>2, BroadcastIs, BroadcastAnswering, MetricLines DEF Types, ThreadType, Counts
<1>3. CASE BroadcastAlert
  BY <1>3, BroadcastIs, BroadcastAnswering, AlertLines DEF Counts
<1>4. ASSUME NEW d \in Clients, Changes(d), WholeAnswers(Text(d)'),
             \A c \in Clients \ {d} : inbox'[c] = inbox[c]
      PROVE  Answering'
  BY <1>4 DEF Answering, Text, Changes
<1>5. ASSUME NEW d \in Clients, Connect(d) \/ ReadHeading(d) \/ Command(d) PROVE Answering'
  <2>1. Changes(d) /\ inbox' = inbox
    BY <1>5, AnsweredLines
  <2>2. session[d].out = <<>>
    BY <1>5, CommandFrame DEF Connect, ReadHeading, Shape
  <2>3. inbox[d] \in Seq(Lines) /\ WholeAnswers(inbox[d]) /\ session'[d].out \in Seq(Lines)
    BY <2>1, <2>2, SentIsWhole DEF Types, Changes, Sessions
  <2>4. CASE CmdGetAlerts(d)
    BY <1>4, <2>1, <2>4, GetAlertsAnswering
  <2>5. CASE session'[d].out = session[d].out
    BY <1>4, <2>1, <2>5 DEF Answering, Text
  <2>6. CASE ~ CmdGetAlerts(d) /\ \A k \in 1 .. Len(session'[d].out) :
                                    Answerable(d, session'[d].out[k])
    <3>1. \A k \in 1 .. Len(session'[d].out) : ~ Counts(session'[d].out[k])
      BY <2>6 DEF Answerable, Counts
    <3>2. WholeAnswers(inbox[d] \o session'[d].out)
      BY <2>3, <3>1, AnswersMore
    <3> QED
      BY <1>4, <2>1, <3>2 DEF Text
  <2> QED
    BY <1>5, <2>4, <2>5, <2>6, AnsweredLines
<1>6. ASSUME NEW d \in Clients, Disconnect(d) \/ Remove(d) PROVE Answering'
  <2>1. Changes(d) /\ inbox' = inbox /\ session'[d].out = session[d].out
    BY <1>6, LeaveIs DEF Moves, Types
  <2> QED
    BY <1>4, <2>1 DEF Answering, Text
<1>7. ASSUME NEW d \in Clients, SendLine(d) \/ SendLastLine(d) PROVE Answering'
  <2>1. Writes(d)
    BY <1>7, WriteIs DEF Types
  <2>2. \A c \in Clients \ {d} : inbox'[c] = inbox[c]
    BY <2>1 DEF Writes, Types, SessionType
  <2> QED
    BY <1>4, <2>1, <2>2, WritesAnswering DEF Writes
<1> QED
  BY <1>1, <1>2, <1>3, <1>5, <1>6, <1>7 DEF Next, MetricsThread

\* Initially nothing has been sent and nothing is to be written.
LEMMA InitAnswering == Init => Answering
<1> SUFFICES ASSUME Init, NEW c \in Clients PROVE WholeAnswers(Text(c))
  BY DEF Answering
<1>1. session[c].out = <<>> /\ inbox[c] = <<>>
  BY DEF Init, Idle
<1>2. Len(<<>> \o <<>>) = 0
  OBVIOUS
<1> QED
  BY <1>1, <1>2 DEF Text, WholeAnswers

-----------------------------------------------------------------------------
(* The properties                                                             *)

\* The types give the type invariant.
LEMMA TypesOK == Types /\ Numbering => TypeOK
<1> SUFFICES ASSUME Types, Numbering PROVE TypeOK
  OBVIOUS
<1>1. /\ equipment \in EquipmentState /\ pushed \in Nat
      /\ metrics.pc \in {"tick", "read", "metric", "evaluate", "alerts", "sleep"}
      /\ metrics.snap \in EquipmentState /\ lock \in Clients \cup {"free"}
  BY DEF Types, ThreadType, PlantType, RegistryType
<1>2. Len(recent) <= HistorySize
  BY <1>1, HistoryAssumption DEF Numbering
<1>3. Registered \subseteq Clients
  BY DEF Types, RegistryType, Registered
<1>4. \A c \in Clients :
        /\ session[c].pc \in Pcs /\ session[c].role \in Roles
        /\ session[c].then \in {"idle", "removing"} /\ copied[c] \in -1 .. pushed
  BY DEF Types, SessionType, Sessions, Numbering
<1> QED
  BY <1>1, <1>2, <1>3, <1>4 DEF TypeOK, Pcs, Roles

\* The last verdict before an effect is the one the property asks for.
LEMMA AuthorityIsEnough == Types /\ Authority => EffectsAreAuthorized
<1> SUFFICES ASSUME Types, Authority, NEW c \in Clients, NEW i \in Positions(c, "OK"),
                    IsEffect(inbox[c][i])
             PROVE  \E j \in {k \in Positions(c, "OK") : k < i /\ Has(inbox[c][k], "role")} :
                      /\ inbox[c][j].role = "ENGINEER"
                      /\ \A k \in {l \in Positions(c, "OK") : l < i /\ Has(inbox[c][l], "role")} :
                           k <= j
  BY DEF EffectsAreAuthorized, IsEffect, Positions
<1>1. inbox[c] \in Seq(Lines) /\ Len(inbox[c]) \in Nat
  BY DEF Types, SessionType
<1>2. i \in 1 .. Len(inbox[c])
  BY DEF Positions
<1>3. EngineerAfter(inbox[c], i - 1)
  BY <1>2 DEF Authority, AuthorityOf, Authorized
<1>4. PICK j \in 1 .. i - 1 : /\ IsVerdict(inbox[c][j]) /\ inbox[c][j].role = "ENGINEER"
                               /\ \A k \in 1 .. i - 1 : IsVerdict(inbox[c][k]) => k <= j
  BY <1>3 DEF EngineerAfter
<1>5. \A k : k \in Positions(c, "OK") /\ k < i /\ Has(inbox[c][k], "role")
               <=> k \in 1 .. i - 1 /\ IsVerdict(inbox[c][k])
  BY <1>1, <1>2 DEF Positions, IsVerdict
<1> QED
  BY <1>4, <1>5

\* The last METRIC line before an alert is the one the property chooses.
LEMMA MatchingIsEnough == Types /\ Matching => AlertsMatchMetric
<1> SUFFICES ASSUME Types, Matching, NEW c \in Clients, NEW i \in Positions(c, "ALERT"),
                    inbox[c][i].from = "broadcast",
                    {j \in Positions(c, "METRIC") : j < i} # {}
             PROVE  LET before == {j \in Positions(c, "METRIC") : j < i}
                        last == CHOOSE j \in before : \A k \in before : k <= j
                    IN  RaisedBy(inbox[c][last].snap, inbox[c][i].alert.alert)
  BY DEF AlertsMatchMetric, RaisedBy
<1> DEFINE s == inbox[c]
           before == {j \in Positions(c, "METRIC") : j < i}
           last == CHOOSE j \in before : \A k \in before : k <= j
<1>1. s \in Seq(Lines) /\ Len(s) \in Nat /\ i \in 1 .. Len(s) /\ IsBroadcastAlert(s[i])
  BY DEF Types, SessionType, Positions, IsBroadcastAlert
<1>2. \A k : k \in before <=> k \in 1 .. i - 1 /\ IsMetric(s[k])
  BY <1>1 DEF Positions, IsMetric
<1>3. ~ NoMetric(s, i - 1)
  BY <1>2 DEF NoMetric
<1>4. PICK j \in 1 .. Len(s) :
             LastMetric(s, i - 1, j) /\ RaisedBy(s[j].snap, s[i].alert.alert)
  BY <1>1, <1>3 DEF Matching, MatchingOf, Matched
<1>5. j \in before /\ \A k \in before : k <= j
  BY <1>2, <1>4 DEF LastMetric
<1>6. before \subseteq Nat
  BY <1>1, <1>2
<1> HIDE DEF before
<1>7. last \in before /\ \A k \in before : k <= last
  BY <1>5
<1>8. last = j
  <2> HIDE DEF last
  <2>1. last <= j /\ j <= last /\ last \in Nat /\ j \in Nat
    BY <1>5, <1>6, <1>7
  <2> QED
    BY <2>1
<1>9. RaisedBy(s[last].snap, s[i].alert.alert)
  BY <1>4, <1>8
<1> QED
  BY <1>9 DEF before

\* As many clients as lines.
LEMMA DistinctMany ==
  ASSUME NEW S, IsFiniteSet(S), NEW f, \A x, y \in S : f[x] = f[y] => x = y
  PROVE  Cardinality({f[x] : x \in S}) = Cardinality(S)
<1> DEFINE T == {f[x] : x \in S}
           g == [x \in S |-> f[x]]
<1>1. g \in [S -> T] /\ \A x, y \in S : g[x] = g[y] => x = y
  OBVIOUS
<1>2. \A t \in T : \E x \in S : g[x] = t
  OBVIOUS
<1>3. g \in Bijection(S, T)
  BY <1>1, <1>2, Fun_IsBij
<1>4. ExistsBijection(S, T)
  BY <1>3 DEF ExistsBijection
<1> QED
  BY <1>4, FS_Bijection

\* A whole list, as far as it has been sent, is what the property asks for.
LEMMA ListingIsEnough == Types /\ Listing => UserListContiguous
<1> SUFFICES ASSUME Types, Listing, NEW c \in Clients, NEW i \in Headers(c, "users")
             PROVE  LET sent == {k \in 1 .. inbox[c][i].count : i + k <= Len(inbox[c])}
                    IN  /\ \A k \in sent : inbox[c][i + k].kind = "USER"
                        /\ Cardinality({inbox[c][i + k].client : k \in sent}) = Cardinality(sent)
  BY DEF UserListContiguous
<1> DEFINE s == inbox[c]
           t == Text(c)
           n == s[i].count
           sent == {k \in 1 .. n : i + k <= Len(s)}
<1>1. s \in Seq(Lines) /\ session[c].out \in Seq(Lines)
  BY DEF Types, SessionType, Sessions
<1>2. i \in 1 .. Len(s) /\ IsUsers(s[i])
  BY DEF Headers, Positions, IsUsers
<1>3. n \in Nat
  BY <1>1, <1>2, UsersCount
<1>4. /\ Len(s) \in Nat /\ Len(t) = Len(s) + Len(session[c].out) /\ Len(session[c].out) \in Nat
      /\ \A k \in 1 .. Len(s) : t[k] = s[k]
  <2> DEFINE out == session[c].out
             u == s \o out
  <2> HIDE DEF s, out
  <2>1. /\ Len(s) \in Nat /\ Len(u) = Len(s) + Len(out) /\ Len(out) \in Nat
        /\ \A k \in 1 .. Len(s) : u[k] = s[k]
    BY <1>1, Joined DEF out
  <2> QED
    BY <2>1 DEF Text, s, out
<1>5. WholeLists(t)
  BY DEF Listing, ListingOf
<1> HIDE DEF s, t
<1>6. ListAt(t, i) /\ t[i] = s[i]
  BY <1>2, <1>4, <1>5 DEF WholeLists
<1>7. /\ \A k \in 1 .. n : IsUser(t[i + k])
      /\ \A k, l \in 1 .. n : t[i + k].client = t[i + l].client => k = l
  BY <1>6 DEF ListAt
<1> HIDE DEF n
<1>8. \A k \in sent : k \in 1 .. n /\ t[i + k] = s[i + k]
  BY <1>2, <1>3, <1>4
<1>9. IsFiniteSet(sent)
  <2>1. IsFiniteSet(1 .. n)
    BY <1>3, FS_Interval
  <2>2. sent \in SUBSET (1 .. n)
    OBVIOUS
  <2> QED
    BY <2>1, <2>2, FS_Subset
<1> DEFINE f == [k \in sent |-> s[i + k].client]
<1> HIDE DEF sent
<1>10. \A k \in sent : IsUser(s[i + k])
  BY <1>7, <1>8
<1>11. \A k, l \in sent : f[k] = f[l] => k = l
  BY <1>7, <1>8
<1>12. Cardinality({f[k] : k \in sent}) = Cardinality(sent)
  <2> HIDE DEF f
  <2> QED
    BY <1>9, <1>11, DistinctMany
<1>13. {f[k] : k \in sent} = {s[i + k].client : k \in sent}
  OBVIOUS
<1>14. /\ \A k \in sent : s[i + k].kind = "USER"
       /\ Cardinality({s[i + k].client : k \in sent}) = Cardinality(sent)
  BY <1>10, <1>12, <1>13 DEF IsUser
<1> QED
  BY <1>14 DEF sent, s, n

\* What has been told was right when it was told.
LEMMA TurnsAreEnough == Types /\ Turns => HeadingReplyIsRecent
  BY DEF Turns, Told, ToldRight, IsHeading, HeadingReplyIsRecent, Positions

\* A set of natural numbers that is not empty has a least element.
LEMMA LeastOf ==
  ASSUME NEW T, T \subseteq Nat, T # {}
  PROVE  \E x \in T : \A y \in T : x <= y
<1> DEFINE R == OpToRel(<, Nat)
<1>1. IsWellFoundedOn(R, Nat)
  BY NatLessThanWellFounded
<1>2. R = {p \in Nat \X Nat : p[1] < p[2]}
  BY DEF OpToRel
<1> HIDE DEF R
<1>3. PICK x \in T : \A y \in T : ~ (<<y, x>> \in R)
  BY <1>1, WFMin
<1>4. ASSUME NEW y \in T PROVE x <= y
  <2>1. x \in Nat /\ y \in Nat /\ <<y, x>> \in Nat \X Nat
    OBVIOUS
  <2>2. y < x => <<y, x>> \in R
    BY <1>2, <2>1
  <2> QED
    BY <1>3, <2>1, <2>2
<1> QED
  BY <1>4

\* Each line of J has its own number after a up to b; each number has its line.
Numbers(J, f, a, b) ==
  (\A j \in J : f[j] \in a + 1 .. b) /\ \A j, k \in J : f[j] = f[k] => j = k

HasAll(J, f, a, b) == \A n \in a + 1 .. b : \E j \in J : f[j] = n

LEMMA NumberedMany ==
  ASSUME NEW J, NEW f, NEW a \in Int, NEW b \in Int, a <= b, Numbers(J, f, a, b),
         HasAll(J, f, a, b)
  PROVE  Cardinality(J) = b - a
<1> DEFINE T == a + 1 .. b
           g == [j \in J |-> f[j]]
<1>1. g \in [J -> T] /\ \A j, k \in J : g[j] = g[k] => j = k
  BY DEF Numbers
<1>2. \A n \in T : \E j \in J : g[j] = n
  BY DEF HasAll
<1>3. g \in Bijection(J, T)
  BY <1>1, <1>2, Fun_IsBij
<1>4. ExistsBijection(J, T)
  BY <1>3 DEF ExistsBijection
<1>5. IsFiniteSet(T) /\ Cardinality(T) = IF a + 1 > b THEN 0 ELSE b - (a + 1) + 1
  BY FS_Interval
<1>6. Cardinality(T) = b - a
  BY <1>5
<1>7. ExistsBijection(T, J)
  BY <1>4, Fun_ExistsBijSymmetric
<1>8. Cardinality(J) = Cardinality(T)
  BY <1>5, <1>7, FS_Bijection
<1> QED
  BY <1>6, <1>8

LEMMA NumberedFew ==
  ASSUME NEW J, NEW f, NEW a \in Int, NEW b \in Int, a <= b, Numbers(J, f, a, b)
  PROVE  Cardinality(J) <= b - a
<1> DEFINE T == a + 1 .. b
           g == [j \in J |-> f[j]]
<1>1. g \in [J -> T] /\ \A j, k \in J : g[j] = g[k] => j = k
  BY DEF Numbers
<1>2. g \in Injection(J, T)
  BY <1>1, Fun_IsInj
<1>3. IsFiniteSet(T) /\ Cardinality(T) = IF a + 1 > b THEN 0 ELSE b - (a + 1) + 1
  BY FS_Interval
<1>4. Cardinality(T) = b - a
  BY <1>3
<1> HIDE DEF T, g
<1>5. Cardinality(J) <= Cardinality(T)
  BY <1>2, <1>3, FS_Injection
<1> QED
  BY <1>4, <1>5

\* s has been sent of t, and in it the answer at i goes up to upTo at most.
Stretch(s, t, i, upTo) ==
  /\ Len(s) \in Nat /\ Len(t) \in Nat /\ Len(s) <= Len(t)
  /\ \A k \in 1 .. Len(s) : t[k] = s[k]
  /\ i \in 1 .. Len(s) /\ s[i].count \in Nat /\ upTo \in i .. Len(s)
  /\ \A k \in i + 1 .. upTo : IsAlerts(s[k]) => k = upTo /\ ~ IsRecord(s[k])

RecordsTo(s, i, upTo) == {j \in i + 1 .. upTo : IsRecord(s[j])}

\* What AlertReplyComplete says of these lines.
Complete(s, t, i, upTo, lines, b) ==
  /\ Cardinality(lines) <= s[i].count
  /\ upTo = Len(t) \/ (IsAlerts(s[upTo]) /\ upTo > i) => Cardinality(lines) = s[i].count
  /\ \A j \in lines : Number(s[j]) = b + Cardinality({l \in lines : l <= j})

LEMMA AnswerLines ==
  ASSUME NEW s, NEW t, NEW i, NEW upTo, Stretch(s, t, i, upTo),
         NEW b \in Int, AnswerFrom(t, i, b)
  PROVE  Complete(s, t, i, upTo, RecordsTo(s, i, upTo), b)
<1> USE DEF Stretch
<1> DEFINE n == s[i].count
           f == [j \in 1 .. Len(s) |-> Number(s[j])]
           lines == RecordsTo(s, i, upTo)
<1> USE DEF RecordsTo
<1>1. t[i] = s[i] /\ n \in Nat
  OBVIOUS
<1>2. \A j \in lines : j \in i + 1 .. upTo /\ j \in 1 .. Len(s) /\ IsRecord(s[j])
  OBVIOUS
<1>3. ASSUME NEW j \in lines PROVE InAnswer(t, i, j)
  <2>1. j \in i + 1 .. Len(t) /\ IsRecord(t[j])
    BY <1>2
  <2>2. ASSUME NEW k \in i + 1 .. j, IsAlerts(t[k]) PROVE FALSE
    <3>1. k \in i + 1 .. upTo /\ t[k] = s[k]
      BY <1>2, <2>2
    <3>2. k = upTo /\ ~ IsRecord(s[k])
      BY <2>2, <3>1
    <3>3. k = j
      BY <1>2, <3>2
    <3> QED
      BY <1>2, <3>2, <3>3
  <2> QED
    BY <2>1, <2>2 DEF InAnswer
<1>4. \A j \in lines : f[j] = Number(t[j]) /\ f[j] \in b + 1 .. b + n
  <2> SUFFICES ASSUME NEW j \in lines PROVE f[j] = Number(t[j]) /\ f[j] \in b + 1 .. b + n
    OBVIOUS
  <2>1. InAnswer(t, i, j) /\ j \in 1 .. Len(s) /\ j \in 1 .. Len(t)
    BY <1>2, <1>3
  <2>2. f[j] = Number(t[j])
    BY <2>1
  <2> HIDE DEF f
  <2>3. Number(t[j]) \in b + 1 .. b + n
    BY <1>1, <2>1 DEF AnswerFrom
  <2> QED
    BY <2>2, <2>3
<1>5. ASSUME NEW l \in 1 .. Len(t), InAnswer(t, i, l), l <= upTo
      PROVE  l \in lines /\ f[l] = Number(t[l])
  <2>1. l \in i + 1 .. upTo /\ l \in 1 .. Len(s) /\ IsRecord(s[l])
    BY <1>5 DEF InAnswer
  <2> QED
    BY <2>1
<1> HIDE DEF n, f, lines
<1>6. \A j, k \in lines : j < k => f[j] < f[k]
  <2> SUFFICES ASSUME NEW j \in lines, NEW k \in lines, j < k PROVE f[j] < f[k]
    OBVIOUS
  <2>1. /\ InAnswer(t, i, j) /\ j \in 1 .. Len(t) /\ f[j] = Number(t[j])
        /\ InAnswer(t, i, k) /\ k \in 1 .. Len(t) /\ f[k] = Number(t[k])
    BY <1>2, <1>3, <1>4
  <2> QED
    BY <2>1 DEF AnswerFrom
<1>7. \A j, k \in lines : f[j] = f[k] => j = k
  <2> SUFFICES ASSUME NEW j \in lines, NEW k \in lines, f[j] = f[k] PROVE j = k
    OBVIOUS
  <2>1. j \in Int /\ k \in Int /\ f[j] \in Int
    BY <1>1, <1>2, <1>4
  <2>2. ~ (j < k) /\ ~ (k < j)
    BY <1>6, <2>1
  <2> QED
    BY <2>1, <2>2
<1>8. \A m \in b + 1 .. b + n : \E l \in 1 .. Len(t) : InAnswer(t, i, l) /\ Number(t[l]) = m
  BY <1>1 DEF AnswerFrom, n
<1>9. Cardinality(lines) <= n
  <2>1. b + n \in Int /\ b <= b + n /\ Numbers(lines, f, b, b + n)
    BY <1>1, <1>4, <1>7 DEF Numbers
  <2>2. Cardinality(lines) <= (b + n) - b
    BY <2>1, NumberedFew
  <2> QED
    BY <1>1, <2>2
<1>10. ASSUME upTo = Len(t) \/ (IsAlerts(s[upTo]) /\ upTo > i)
       PROVE  Cardinality(lines) = n
  <2>1. ASSUME NEW l \in 1 .. Len(t), InAnswer(t, i, l) PROVE l <= upTo
    <3> SUFFICES ASSUME ~ (l <= upTo) PROVE FALSE
      OBVIOUS
    <3>1. upTo # Len(t)
      BY <2>1
    <3>2. upTo \in i + 1 .. l /\ IsAlerts(t[upTo])
      BY <1>10, <2>1, <3>1
    <3> QED
      BY <2>1, <3>2 DEF InAnswer
  <2>2. HasAll(lines, f, b, b + n)
    BY <1>5, <1>8, <2>1 DEF HasAll
  <2>3. b + n \in Int /\ b <= b + n /\ Numbers(lines, f, b, b + n)
    BY <1>1, <1>4, <1>7 DEF Numbers
  <2>4. Cardinality(lines) = (b + n) - b
    BY <2>2, <2>3, NumberedMany
  <2> QED
    BY <1>1, <2>4
<1>11. ASSUME NEW j \in lines PROVE f[j] = b + Cardinality({l \in lines : l <= j})
  <2> DEFINE J == {l \in lines : l <= j}
  <2>1. f[j] \in b + 1 .. b + n /\ j \in Int
    BY <1>1, <1>2, <1>4
  <2>2. \A l \in lines : l \in Int /\ f[l] \in b + 1 .. b + n
    BY <1>1, <1>2, <1>4
  <2>3. ASSUME NEW l \in J PROVE f[l] \in b + 1 .. f[j]
    <3>1. l < j => f[l] < f[j]
      BY <1>6
    <3> QED
      BY <1>1, <2>1, <2>2, <3>1
  <2>4. ASSUME NEW m \in b + 1 .. f[j] PROVE \E l \in J : f[l] = m
    <3>1. m \in b + 1 .. b + n
      BY <1>1, <2>1
    <3>2. PICK l \in 1 .. Len(t) : InAnswer(t, i, l) /\ Number(t[l]) = m
      BY <1>8, <3>1
    <3>3. InAnswer(t, i, j) /\ j \in 1 .. Len(t) /\ f[j] = Number(t[j])
      BY <1>2, <1>3, <1>4
    <3>4. l <= j
      <4>1. j < l => Number(t[j]) < Number(t[l])
        BY <3>2, <3>3 DEF AnswerFrom
      <4>2. Number(t[l]) <= Number(t[j])
        BY <2>1, <3>2, <3>3
      <4> QED
        BY <2>1, <3>2, <3>3, <4>1, <4>2
    <3>5. l <= upTo
      BY <1>2, <3>4
    <3>6. l \in lines /\ f[l] = m
      BY <1>5, <3>2, <3>5
    <3> QED
      BY <3>4, <3>6
  <2>5. Numbers(J, f, b, f[j]) /\ HasAll(J, f, b, f[j])
    BY <1>7, <2>3, <2>4 DEF Numbers, HasAll
  <2>6. f[j] \in Int /\ b <= f[j]
    BY <1>1, <2>1
  <2> HIDE DEF J
  <2>7. Cardinality(J) = f[j] - b
    BY <2>5, <2>6, NumberedMany
  <2> QED
    BY <2>6, <2>7 DEF J
<1>12. \A j \in lines : f[j] = Number(s[j])
  BY <1>2 DEF f
<1> QED
  BY <1>9, <1>10, <1>11, <1>12 DEF n, lines, Complete

\* Whole answers are complete and in order as far as they have been sent.
LEMMA AnsweringIsEnough == Types /\ Shape /\ Answering => AlertReplyComplete
<1> SUFFICES ASSUME Types, Shape, Answering, NEW c \in Clients, NEW i \in Headers(c, "alerts")
             PROVE  LET header == inbox[c][i]
                        next == {j \in Headers(c, "alerts") : j > i}
                        upTo == IF next = {} THEN Len(inbox[c])
                                ELSE CHOOSE j \in next : \A k \in next : j <= k
                        lines == {j \in i + 1 .. upTo : /\ inbox[c][j].kind = "ALERT"
                                                        /\ inbox[c][j].from = "history"}
                    IN  /\ header.count = IF header.newest < MaxRecords
                                          THEN header.newest ELSE MaxRecords
                        /\ Cardinality(lines) <= header.count
                        /\ next # {} \/ session[c].pc # "sending" =>
                             Cardinality(lines) = header.count
                        /\ \A j \in lines :
                             inbox[c][j].alert.number = header.newest - header.count
                               + Cardinality({l \in lines : l <= j})
  BY DEF AlertReplyComplete
<1> DEFINE s == inbox[c]
           t == Text(c)
           next == {j \in Headers(c, "alerts") : j > i}
           upTo == IF next = {} THEN Len(s) ELSE CHOOSE j \in next : \A k \in next : j <= k
           lines == {j \in i + 1 .. upTo : s[j].kind = "ALERT" /\ s[j].from = "history"}
<1>1. s \in Seq(Lines) /\ session[c].out \in Seq(Lines)
  BY DEF Types, SessionType, Sessions
<1>2. /\ Len(s) \in Nat /\ Len(t) = Len(s) + Len(session[c].out) /\ Len(session[c].out) \in Nat
      /\ \A k \in 1 .. Len(s) : t[k] = s[k]
  <2> DEFINE out == session[c].out
             u == s \o out
  <2> HIDE DEF s, out
  <2>1. /\ Len(s) \in Nat /\ Len(u) = Len(s) + Len(out) /\ Len(out) \in Nat
        /\ \A k \in 1 .. Len(s) : u[k] = s[k]
    BY <1>1, Joined DEF out
  <2> QED
    BY <2>1 DEF Text, s, out
<1>3. \A k : k \in Headers(c, "alerts") <=> k \in 1 .. Len(s) /\ IsAlerts(s[k])
  BY DEF Headers, Positions, IsAlerts
<1>4. \A k \in 1 .. Len(s) : s[k] \in Lines
  BY <1>1
<1>5. WholeAnswers(t)
  BY DEF Answering
<1>6. session[c].pc # "sending" => Len(t) = Len(s)
  <2>1. session[c].pc # "sending" => session[c].out = <<>>
    BY DEF Shape
  <2> HIDE DEF s, t
  <2> QED
    BY <1>2, <2>1
<1> HIDE DEF s, t
<1>7. i \in 1 .. Len(s) /\ IsAlerts(s[i]) /\ s[i].count \in Nat /\ s[i].newest \in Nat
      /\ ~ IsRecord(s[i])
  BY <1>3, <1>4, AlertsCount
<1>8. PICK b \in Int : Announces(s[i], b) /\ AnswerFrom(t, i, b)
  BY <1>2, <1>5, <1>7 DEF WholeAnswers
<1>9. \A k : k \in next <=> k \in 1 .. Len(s) /\ IsAlerts(s[k]) /\ k > i
  BY <1>3
<1>10. next # {} => upTo \in next /\ \A k \in next : upTo <= k
  <2> SUFFICES ASSUME next # {} PROVE upTo \in next /\ \A k \in next : upTo <= k
    OBVIOUS
  <2>1. next \in SUBSET Nat
    BY <1>9
  <2> HIDE DEF next
  <2>2. \E j \in next : \A k \in next : j <= k
    BY <2>1, LeastOf
  <2> QED
    BY <2>2
<1>11. next = {} => upTo = Len(s)
  OBVIOUS
<1> HIDE DEF next, upTo
<1>12. upTo \in i .. Len(s) /\ (next # {} => IsAlerts(s[upTo]) /\ upTo > i)
  <2>1. next # {} => upTo \in 1 .. Len(s) /\ IsAlerts(s[upTo]) /\ upTo > i
    BY <1>9, <1>10
  <2> QED
    BY <1>2, <1>7, <1>11, <2>1
<1>13. \A k \in i + 1 .. upTo : IsAlerts(s[k]) => k = upTo /\ ~ IsRecord(s[k])
  <2> SUFFICES ASSUME NEW k \in i + 1 .. upTo, IsAlerts(s[k]) PROVE k = upTo /\ ~ IsRecord(s[k])
    OBVIOUS
  <2>1. k \in 1 .. Len(s) /\ k > i /\ k <= upTo /\ upTo \in Int
    BY <1>2, <1>7, <1>12
  <2>2. k \in next
    BY <1>9, <2>1
  <2>3. upTo <= k
    BY <1>10, <2>2
  <2>4. ~ IsRecord(s[k])
    BY <1>4, <2>1, AlertsCount
  <2> QED
    BY <2>1, <2>3, <2>4
<1>14. lines = RecordsTo(s, i, upTo)
  BY DEF RecordsTo, IsRecord
<1> HIDE DEF lines
<1>15. Complete(s, t, i, upTo, lines, b)
  <2>1. Len(t) \in Nat /\ Len(s) <= Len(t)
    BY <1>2
  <2>2. Stretch(s, t, i, upTo)
    BY <1>2, <1>7, <1>12, <1>13, <2>1 DEF Stretch
  <2> QED
    BY <1>8, <1>14, <2>2, AnswerLines
<1>16. next # {} \/ session[c].pc # "sending" => Cardinality(lines) = s[i].count
  BY <1>6, <1>11, <1>12, <1>15 DEF Complete
<1>17. b = s[i].newest - s[i].count
       /\ s[i].count = IF s[i].newest < MaxRecords THEN s[i].newest ELSE MaxRecords
  BY <1>7, <1>8 DEF Announces
<1>18. \A j \in lines : s[j].alert.number
                          = s[i].newest - s[i].count + Cardinality({l \in lines : l <= j})
  BY <1>15, <1>17 DEF Complete, Number
<1>19. Cardinality(lines) <= s[i].count
  BY <1>15 DEF Complete
<1> QED
  BY <1>16, <1>17, <1>18, <1>19 DEF next, upTo, lines, s

\* The invariant holds initially and no step breaks it.
LEMMA InvInductive == (Init => Inv) /\ (Inv /\ [Next]_vars => Inv')
<1>1. Init => Inv
  BY InitTypes, InitShape, InitAuthority, InitCycle, InitMatching, InitNumbering, InitNoGap,
     InitTurns, InitListing, InitAnswering DEF Inv
<1>2. Inv /\ Next => Inv'
  <2> SUFFICES ASSUME Inv, Next PROVE Inv'
    OBVIOUS
  <2>1. Types' /\ Shape' /\ Authority' /\ Cycle' /\ Matching'
    BY TypesStep, ShapeStep, AuthorityStep, CycleStep, MatchingStep DEF Inv
  <2>2. Numbering' /\ NoAlertGap' /\ Turns' /\ Listing' /\ Answering'
    BY NumberingStep, NoGapStep, TurnsStep, ListingStep, AnsweringStep DEF Inv
  <2> QED
    BY <2>1, <2>2 DEF Inv
<1>3. Inv /\ UNCHANGED vars => Inv'
  <2> SUFFICES ASSUME Inv, UNCHANGED vars PROVE Inv'
    OBVIOUS
  <2>1. Types' /\ Shape' /\ Cycle' /\ Numbering'
    BY TypesStep DEF Inv, Shape, Cycle, Numbering, InCycle, Registered, vars
  <2>2. Authority' /\ Matching'
    BY DEF Inv, Authority, AuthorityOf, Matching, MatchingOf, InCycle, Registered, vars
  <2>3. NoAlertGap'
    <3>1. NoAlertGap
      BY DEF Inv
    <3>2. /\ Registered' = Registered /\ ToBroadcast' = ToBroadcast
          /\ UNCHANGED <<copied, pushed, inbox, session>>
      BY DEF Registered, ToBroadcast, vars
    <3>3. \A c : UNCHANGED <<AlertsIn(inbox[c]), AlertsIn(session[c].out)>>
      BY <3>2 DEF AlertsIn
    <3> QED
      BY <3>1, <3>2, <3>3 DEF NoAlertGap
  <2>4. Turns' /\ Listing' /\ Answering'
    BY DEF Inv, Answering, Turns, Told, Listing, ListingOf, Text, vars
  <2> QED
    BY <2>1, <2>2, <2>3, <2>4 DEF Inv
<1> QED
  BY <1>1, <1>2, <1>3

\* The invariant always holds.
LEMMA InvHolds == Spec => []Inv
  BY InvInductive, PTL DEF Spec

-----------------------------------------------------------------------------
(* The theorems                                                               *)

\* The plant stays in its ranges, the history within its size, and each thread
\* and session at one of its places, whatever the commands.
THEOREM TypeCorrect == Spec => []TypeOK
<1>1. Inv => TypeOK
  BY TypesOK DEF Inv
<1> QED
  BY <1>1, InvHolds, PTL

\* No effect of an engineer's command is told to a client whose last verdict was
\* not ENGINEER, for any clients, credentials and commands: dispatch_command
\* checks the role that auth_service_validate gave last.
THEOREM EffectsAuthorized == Spec => []EffectsAreAuthorized
<1>1. Inv => EffectsAreAuthorized
  BY AuthorityIsEnough DEF Inv
<1> QED
  BY <1>1, InvHolds, PTL

\* An alert that is broadcast was raised by the METRIC line that the client was
\* sent last: metrics_broadcast_thread evaluates the snapshot it broadcast.
THEOREM AlertsMatch == Spec => []AlertsMatchMetric
<1>1. Inv => AlertsMatchMetric
  BY MatchingIsEnough DEF Inv
<1> QED
  BY <1>1, InvHolds, PTL

\* A client that has asked for the history misses no later alert, however its
\* connection and its command fall between emit_alert and the broadcasts.
THEOREM NoGap == Spec => []NoAlertGap
<1>1. Inv => NoAlertGap
  BY DEF Inv
<1> QED
  BY <1>1, InvHolds, PTL

\* The users of one LIST USERS reach the client in one piece and each once,
\* because cmd_list_users writes them under g_registry_lock.
THEOREM UserListSafe == Spec => []UserListContiguous
<1>1. Inv => UserListContiguous
  BY ListingIsEnough DEF Inv
<1> QED
  BY <1>1, InvHolds, PTL

\* The answer to GET_ALERTS is the newest records of the moment of the command, in
\* order and without a gap, although cmd_get_alerts writes it line by line without a
\* lock, for any sizes of the history and of the answer, and whatever is broadcast in
\* between.
THEOREM AlertReplySafe == Spec => []AlertReplyComplete
<1>1. Inv => AlertReplyComplete
  BY AnsweringIsEnough DEF Inv
<1> QED
  BY <1>1, InvHolds, PTL

\* cmd_adjust_heading, which turns the plant and reads it back in two critical
\* sections, tells a heading the plant has had since that turn, whoever turns it in
\* between.
THEOREM HeadingRecent == Spec => []HeadingReplyIsRecent
<1>1. Inv => HeadingReplyIsRecent
  BY TurnsAreEnough DEF Inv
<1> QED
  BY <1>1, InvHolds, PTL
=============================================================================
