----------------------------- MODULE AlertSystem -----------------------------
(***************************************************************************)
(* The alert history of alert_system.c: a ring of HistorySize records, the *)
(* next write position g_history_head and the number of records ever       *)
(* pushed, g_history_count, under g_history_lock.  The metrics thread      *)
(* pushes; sessions (GET_ALERTS) and HTTP threads (dashboard, /api/alerts) *)
(* copy.  The copy is modelled record by record, so that a push could come *)
(* between two of them if the lock did not keep it out.                    *)
(***************************************************************************)
EXTENDS Integers, Sequences

CONSTANTS
  HistorySize, Alerts, Readers, MaxRecords,
  NoAlert,     \* the zeroed record of a slot never written
  Free,        \* g_history_lock is not held
  MaxPushes    \* pushes considered; the program's limit is INT_MAX, where
               \* g_history_count overflows

ASSUME RingAssumption == HistorySize \in Nat \ {0} /\ MaxRecords \in [Readers -> Nat]
ASSUME LockAssumption == Free \notin Readers

VARIABLES
  ring,     \* g_history
  head,     \* g_history_head
  count,    \* g_history_count
  lock,     \* g_history_lock: Free or the reader that holds it
  job,      \* job[r]: first index and number of records of r's copy
  out,      \* out[r]: the records r has copied so far
  answer    \* answer[r]: the records r's last call returned

vars == <<ring, head, count, lock, job, out, answer>>
history == <<ring, head, count>>

Slots == 0 .. HistorySize - 1

Records == Seq(Alerts \cup {NoAlert})

TypeOK ==
  /\ ring \in [Slots -> Alerts \cup {NoAlert}]
  /\ head \in Slots
  /\ count \in Nat
  /\ lock \in Readers \cup {Free}
  /\ job \in [Readers -> [start : Nat, toCopy : Nat]]
  /\ out \in [Readers -> Records]
  /\ answer \in [Readers -> Records]

\* alert_system_init
Init ==
  /\ ring = [i \in Slots |-> NoAlert]
  /\ head = 0
  /\ count = 0
  /\ lock = Free
  /\ job = [r \in Readers |-> [start |-> 0, toCopy |-> 0]]
  /\ out = [r \in Readers |-> <<>>]
  /\ answer = [r \in Readers |-> <<>>]

\* Variant with a planted fault: the wrap comes one position late.
SlotLate(i) == IF i > HistorySize THEN i % HistorySize ELSE i

\* Positions are counted on past the end of the array and brought back to it.
Slot(i) == i % HistorySize

-----------------------------------------------------------------------------
(* history_push: the three assignments happen under the lock. *)

\* Variant with a planted fault: the lock is not taken.
PushUnlocked(a) ==
  /\ count < MaxPushes
  /\ ring' = [ring EXCEPT ![head] = a]
  /\ head' = Slot(head + 1)
  /\ count' = count + 1
  /\ UNCHANGED <<lock, job, out, answer>>

Push(a) ==
  /\ lock = Free
  /\ count < MaxPushes
  /\ ring' = [ring EXCEPT ![head] = a]
  /\ head' = Slot(head + 1)
  /\ count' = count + 1
  /\ UNCHANGED <<lock, job, out, answer>>

-----------------------------------------------------------------------------
(* alert_history_copy *)

Available == IF count < HistorySize THEN count ELSE HistorySize

Oldest == IF count < HistorySize THEN 0 ELSE head

ToCopy(r) == IF Available < MaxRecords[r] THEN Available ELSE MaxRecords[r]

CopyBegin(r) ==
  /\ lock = Free
  /\ lock' = r
  /\ job' = [job EXCEPT ![r] = [start |-> Oldest + (Available - ToCopy(r)),
                                toCopy |-> ToCopy(r)]]
  /\ out' = [out EXCEPT ![r] = <<>>]
  /\ UNCHANGED <<history, answer>>

CopyRecord(r) ==
  /\ lock = r
  /\ Len(out[r]) < job[r].toCopy
  /\ out' = [out EXCEPT ![r] = Append(@, ring[Slot(job[r].start + Len(out[r]))])]
  /\ UNCHANGED <<history, lock, job, answer>>

CopyEnd(r) ==
  /\ lock = r
  /\ Len(out[r]) >= job[r].toCopy
  /\ lock' = Free
  /\ answer' = [answer EXCEPT ![r] = out[r]]
  /\ UNCHANGED <<history, job, out>>

Next ==
  \/ \E a \in Alerts : Push(a)
  \/ \E r \in Readers : CopyBegin(r) \/ CopyRecord(r) \/ CopyEnd(r)

\* A thread inside the critical section runs on and leaves it.
Spec ==
  /\ Init /\ [][Next]_vars
  /\ \A r \in Readers : WF_vars(CopyRecord(r) \/ CopyEnd(r))

-----------------------------------------------------------------------------
(* The history, oldest first, as the ring represents it. *)
Recent == [k \in 1 .. Available |-> ring[Slot(Oldest + k - 1)]]

Log == INSTANCE AlertLog WITH recent <- Recent

\* The ring and its copy loop implement "the newest of the last HistorySize
\* alerts, as of one moment".
ImplementsLog == Log!LogSpec
=============================================================================
