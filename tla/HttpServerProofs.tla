-------------------------- MODULE HttpServerProofs --------------------------
(* First the history by itself: AlertSystem implements AlertLog, for every    *)
(* ring size, every set of readers and every max_records.  This holds in the  *)
(* server as well, where its mutex is destroyed while request threads still   *)
(* copy: the one thread that writes has ended by then.  And the log file is   *)
(* closed with all its entries, whoever is in the middle of one.  Last, the   *)
(* pages: a dashboard lists every alert older than the readings it shows.     *)
EXTENDS HttpServer, FiniteSetTheorems, TLAPS

-----------------------------------------------------------------------------
(* Positions in the ring *)

LEMMA SlotInside == \A i \in 0 .. HistorySize - 1 : Slot(i) = i
  BY RingAssumption DEF Slot

LEMMA SlotWrapped ==
  \A i \in HistorySize .. 2 * HistorySize - 1 : Slot(i) = i - HistorySize
  BY RingAssumption DEF Slot

LEMMA SlotOfWrappedSum ==
  ASSUME NEW h \in 0 .. HistorySize - 1, NEW k \in 1 .. HistorySize,
         ~ h + k < HistorySize
  PROVE  Slot(h + k) = h + k - HistorySize
<1>1. PICK m \in HistorySize .. 2 * HistorySize - 1 : m = h + k
  BY RingAssumption
<1>2. Slot(m) = m - HistorySize
  BY <1>1, SlotWrapped
<1>3. Slot(h + k) = Slot(m)
  BY <1>1, Zenon
<1>4. m - HistorySize = h + k - HistorySize
  BY <1>1, RingAssumption
<1> QED
  BY <1>2, <1>3, <1>4, Zenon

LEMMA SlotIsSlot == \A i \in Nat : Slot(i) \in Slots
  BY RingAssumption DEF Slot, Slots

-----------------------------------------------------------------------------
(* The inductive invariant.  RingShape: in the first turn of the ring the     *)
(* next slot is the number of records written.  JobFresh says that the       *)
(* indices computed when the lock was taken are still right while it is held. *)

RingShape == count < HistorySize => head = count

JobFresh ==
  \A r \in Readers : lock = r =>
    job[r] = [start |-> Oldest + (Available - ToCopy(r)), toCopy |-> ToCopy(r)]

OutIsPrefix ==
  \A r \in Readers : lock = r =>
    /\ Len(out[r]) <= ToCopy(r)
    /\ \A i \in 1 .. Len(out[r]) : out[r][i] = Recent[Available - ToCopy(r) + i]

Inv == TypeOK /\ RingShape /\ JobFresh /\ OutIsPrefix

LEMMA AvailableType ==
  ASSUME TypeOK
  PROVE  /\ Available \in 0 .. HistorySize
         /\ Oldest \in 0 .. HistorySize - 1
         /\ \A r \in Readers : ToCopy(r) \in 0 .. Available
         /\ \A r \in Readers : ToCopy(r) \in 0 .. MaxRecords[r]
<1>1. count \in Nat /\ head \in 0 .. HistorySize - 1 /\ HistorySize \in Nat \ {0}
  BY RingAssumption DEF TypeOK, Slots
<1>2. Available \in 0 .. HistorySize
  BY <1>1 DEF Available
<1>3. Oldest \in 0 .. HistorySize - 1
  BY <1>1 DEF Oldest
<1>4. ASSUME NEW r \in Readers
      PROVE  ToCopy(r) \in 0 .. Available /\ ToCopy(r) \in 0 .. MaxRecords[r]
  <2>1. MaxRecords[r] \in Nat
    BY RingAssumption
  <2> QED
    BY <1>2, <2>1 DEF ToCopy
<1> QED
  BY <1>2, <1>3, <1>4

LEMMA InitInv == Init => Inv
<1> SUFFICES ASSUME Init PROVE Inv
  OBVIOUS
<1>1. TypeOK
  BY RingAssumption DEF Init, TypeOK, Slots, Records
<1>2. RingShape /\ JobFresh /\ OutIsPrefix
  BY LockAssumption DEF Init, RingShape, JobFresh, OutIsPrefix
<1> QED
  BY <1>1, <1>2 DEF Inv

LEMMA PushKeepsInv ==
  ASSUME Inv, NEW a \in Alerts, Push(a)
  PROVE  Inv'
<1>1. TypeOK'
  <2>1. Slot(head + 1) \in Slots
    <3>1. head + 1 \in Nat
      BY RingAssumption DEF Inv, TypeOK, Slots
    <3> QED
      BY <3>1, SlotIsSlot
  <2> QED
    BY <2>1 DEF Inv, TypeOK, Push
<1>2. RingShape'
  <2>1. /\ count \in Nat /\ head \in 0 .. HistorySize - 1 /\ HistorySize \in Nat \ {0}
        /\ count' = count + 1 /\ head' = Slot(head + 1)
    BY RingAssumption DEF Inv, TypeOK, Slots, Push
  <2>2. ASSUME count + 1 < HistorySize PROVE Slot(head + 1) = count + 1
    <3>1. head = count
      BY <2>1, <2>2 DEF Inv, RingShape
    <3>2. head + 1 \in 0 .. HistorySize - 1
      BY <2>1, <2>2, <3>1
    <3> QED
      BY <3>1, <3>2, SlotInside
  <2> QED
    BY <2>1, <2>2 DEF RingShape
<1>3. JobFresh' /\ OutIsPrefix'
  BY LockAssumption DEF Push, JobFresh, OutIsPrefix
<1> QED
  BY <1>1, <1>2, <1>3 DEF Inv

LEMMA CopyBeginKeepsInv ==
  ASSUME Inv, NEW r \in Readers, CopyBegin(r)
  PROVE  Inv'
<1>0. TypeOK /\ lock' = r /\ UNCHANGED history
  BY DEF Inv, CopyBegin
<1>1. /\ Available' = Available /\ Oldest' = Oldest
      /\ \A q \in Readers : ToCopy(q)' = ToCopy(q)
  BY <1>0 DEF history, Available, Oldest, ToCopy
<1>2. [start |-> Oldest + (Available - ToCopy(r)), toCopy |-> ToCopy(r)]
        \in [start : Nat, toCopy : Nat]
  BY <1>0, AvailableType, RingAssumption
<1>3. job'[r] = [start |-> Oldest + (Available - ToCopy(r)), toCopy |-> ToCopy(r)]
  BY <1>0 DEF CopyBegin, TypeOK
<1>4. out'[r] = <<>>
  BY <1>0 DEF CopyBegin, TypeOK
<1>5. TypeOK'
  BY <1>0, <1>2 DEF CopyBegin, TypeOK, history, Records
<1>6. RingShape'
  BY <1>0 DEF Inv, RingShape, history
<1>7. JobFresh'
  BY <1>0, <1>1, <1>3 DEF JobFresh
<1>8. OutIsPrefix'
  <2>1. ToCopy(r) >= 0
    BY <1>0, AvailableType
  <2> QED
    BY <1>0, <1>1, <1>4, <2>1 DEF OutIsPrefix
<1> QED
  BY <1>5, <1>6, <1>7, <1>8 DEF Inv

LEMMA IndexOfNext ==
  \A available, oldest, n \in Nat : \A k \in 0 .. available : n < k =>
    /\ available - k + (n + 1) \in 1 .. available
    /\ oldest + (available - k + (n + 1)) - 1 = oldest + (available - k) + n
  OBVIOUS

\* The record copied next is the next one of the history asked for.
LEMMA NextRecord ==
  ASSUME Inv, NEW r \in Readers, lock = r, Len(out[r]) < job[r].toCopy
  PROVE  /\ ToCopy(r) = job[r].toCopy
         /\ ring[Slot(job[r].start + Len(out[r]))]
              = Recent[Available - ToCopy(r) + (Len(out[r]) + 1)]
         /\ ring[Slot(job[r].start + Len(out[r]))] \in Alerts \cup {NoAlert}
<1> DEFINE n == Len(out[r])
           j == Available - ToCopy(r) + (n + 1)
<1>1. TypeOK /\ n \in Nat
  BY DEF Inv, TypeOK, Records
<1>2. /\ job[r].start = Oldest + (Available - ToCopy(r))
      /\ job[r].toCopy = ToCopy(r)
  <2>1. job[r] = [start |-> Oldest + (Available - ToCopy(r)), toCopy |-> ToCopy(r)]
    BY DEF Inv, JobFresh
  <2> QED
    BY <2>1
<1>3. n < ToCopy(r)
  BY <1>2
<1>4. /\ Available \in Nat /\ Oldest \in Nat /\ ToCopy(r) \in 0 .. Available
  BY <1>1, AvailableType, RingAssumption
<1>5. j \in 1 .. Available /\ Oldest + j - 1 = Oldest + (Available - ToCopy(r)) + n
  BY <1>1, <1>3, <1>4, IndexOfNext
<1>6. Recent[j] = ring[Slot(Oldest + j - 1)]
  BY <1>5 DEF Recent
<1>7. Oldest + (Available - ToCopy(r)) + n \in Nat
  BY <1>1, <1>4
<1>8. Slot(job[r].start + n) \in Slots
  BY <1>2, <1>7, SlotIsSlot
<1>9. ring[Slot(job[r].start + n)] = Recent[j]
  BY <1>2, <1>5, <1>6
<1>10. ring[Slot(job[r].start + n)] \in Alerts \cup {NoAlert}
  BY <1>1, <1>8 DEF TypeOK
<1> QED
  BY <1>2, <1>9, <1>10

LEMMA CopyRecordKeepsInv ==
  ASSUME Inv, NEW r \in Readers, CopyRecord(r)
  PROVE  Inv'
<1> DEFINE next == ring[Slot(job[r].start + Len(out[r]))]
<1>0. /\ TypeOK /\ lock = r /\ lock' = r /\ job' = job /\ UNCHANGED history
      /\ Len(out[r]) < job[r].toCopy
      /\ out' = [out EXCEPT ![r] = Append(@, next)]
  BY DEF Inv, CopyRecord
<1>1. /\ Available' = Available /\ Oldest' = Oldest /\ Recent' = Recent
      /\ \A q \in Readers : ToCopy(q)' = ToCopy(q)
  BY <1>0 DEF history, Available, Oldest, ToCopy, Recent
<1>2. /\ ToCopy(r) = job[r].toCopy
      /\ next = Recent[Available - ToCopy(r) + (Len(out[r]) + 1)]
      /\ next \in Alerts \cup {NoAlert}
  BY <1>0, NextRecord
<1>3. out[r] \in Records /\ out'[r] = Append(out[r], next)
  BY <1>0 DEF TypeOK
<1>4. out'[r] \in Records
  BY <1>2, <1>3 DEF Records
<1>5. TypeOK'
  BY <1>0, <1>3, <1>4 DEF CopyRecord, TypeOK, history
<1>6. RingShape' /\ JobFresh'
  BY <1>0, <1>1 DEF Inv, RingShape, JobFresh, history
<1>7. OutIsPrefix'
  <2>1. /\ Len(out'[r]) = Len(out[r]) + 1
        /\ out'[r][Len(out[r]) + 1] = next
        /\ \A i \in 1 .. Len(out[r]) : out'[r][i] = out[r][i]
        /\ Len(out[r]) \in Nat
    BY <1>3 DEF Records
  <2>2. Len(out'[r]) <= ToCopy(r)
    BY <1>0, <1>1, <1>2, <2>1, AvailableType
  <2>3. \A i \in 1 .. Len(out'[r]) : out'[r][i] = Recent[Available - ToCopy(r) + i]
    BY <1>0, <1>2, <2>1 DEF Inv, OutIsPrefix
  <2> QED
    BY <1>0, <1>1, <2>2, <2>3 DEF OutIsPrefix
<1> QED
  BY <1>5, <1>6, <1>7 DEF Inv

LEMMA CopyEndKeepsInv ==
  ASSUME Inv, NEW r \in Readers, CopyEnd(r)
  PROVE  Inv'
<1>1. TypeOK'
  BY DEF Inv, TypeOK, CopyEnd, history
<1>2. RingShape'
  BY DEF Inv, RingShape, CopyEnd, history
<1>3. JobFresh' /\ OutIsPrefix'
  BY LockAssumption DEF CopyEnd, JobFresh, OutIsPrefix
<1> QED
  BY <1>1, <1>2, <1>3 DEF Inv

LEMMA NextKeepsInv == Inv /\ [Next]_vars => Inv'
<1> SUFFICES ASSUME Inv, [Next]_vars PROVE Inv'
  OBVIOUS
<1>1. CASE Next
  BY <1>1, PushKeepsInv, CopyBeginKeepsInv, CopyRecordKeepsInv, CopyEndKeepsInv
     DEF Next
<1>2. CASE UNCHANGED vars
  <2>1. /\ UNCHANGED <<history, lock, job, out, answer>>
        /\ UNCHANGED <<Available, Oldest, Recent>>
        /\ \A r \in Readers : ToCopy(r)' = ToCopy(r)
    BY <1>2 DEF vars, history, Available, Oldest, ToCopy, Recent
  <2>2. TypeOK' /\ RingShape'
    BY <2>1 DEF history, Inv, TypeOK, RingShape
  <2>3. JobFresh' /\ OutIsPrefix'
    BY <2>1 DEF Inv, JobFresh, OutIsPrefix
  <2> QED
    BY <2>2, <2>3 DEF Inv
<1> QED
  BY <1>1, <1>2

\* The state of the history and of every copy is well formed.
THEOREM TypeCorrect == Spec => []TypeOK
<1>1. Inv => TypeOK
  BY DEF Inv
<1> QED
  BY <1>1, InitInv, NextKeepsInv, PTL DEF Spec

-----------------------------------------------------------------------------
(* Refinement: the ring, read from its oldest record, is the log. *)

LEMMA RecentIsSequence ==
  ASSUME TypeOK
  PROVE  Recent \in Records /\ Len(Recent) = Available
<1>1. Available \in Nat /\ Oldest \in Nat
  BY AvailableType, RingAssumption
<1>2. ASSUME NEW k \in 1 .. Available
      PROVE  ring[Slot(Oldest + k - 1)] \in Alerts \cup {NoAlert}
  <2>1. Oldest + k - 1 \in Nat
    BY <1>1
  <2> QED
    BY <2>1, SlotIsSlot DEF TypeOK
<1> QED
  BY <1>1, <1>2 DEF Recent, Records

LEMMA SequenceIsFunction ==
  ASSUME NEW S, NEW t \in Seq(S)
  PROVE  t = [i \in 1 .. Len(t) |-> t[i]]
  OBVIOUS

LEMMA AppendIsFunction ==
  ASSUME NEW S, NEW s \in Seq(S), NEW a \in S
  PROVE  /\ Append(s, a) = [i \in 1 .. Len(s) + 1 |-> Append(s, a)[i]]
         /\ Append(s, a)
              = [i \in 1 .. Len(s) + 1 |-> IF i = Len(s) + 1 THEN a ELSE s[i]]
<1>1. Append(s, a) \in Seq(S) /\ Len(Append(s, a)) = Len(s) + 1
  OBVIOUS
<1>2. Append(s, a) = [i \in 1 .. Len(Append(s, a)) |-> Append(s, a)[i]]
  BY <1>1, SequenceIsFunction, Zenon
<1>3. \A i \in 1 .. Len(s) + 1 :
        Append(s, a)[i] = IF i = Len(s) + 1 THEN a ELSE s[i]
  OBVIOUS
<1>4. [i \in 1 .. Len(s) + 1 |-> Append(s, a)[i]]
        = [i \in 1 .. Len(s) + 1 |-> IF i = Len(s) + 1 THEN a ELSE s[i]]
  BY <1>3, Zenon
<1> QED
  BY <1>1, <1>2, <1>4, Zenon

\* A log with room to spare keeps everything when one record is added.
LEMMA NewestOfAppendWithRoom ==
  ASSUME NEW S, NEW s \in Seq(S), NEW a \in S, Len(s) < HistorySize
  PROVE  Log!Newest(HistorySize, Append(s, a)) = Append(s, a)
<1>1. Append(s, a) \in Seq(S) /\ Len(Append(s, a)) = Len(s) + 1 /\ Len(s) \in Nat
  OBVIOUS
<1>2. Append(s, a) = [i \in 1 .. Len(s) + 1 |-> Append(s, a)[i]]
  BY AppendIsFunction
<1>3. (IF Len(Append(s, a)) < HistorySize THEN Len(Append(s, a)) ELSE HistorySize)
        = Len(s) + 1
  BY <1>1, RingAssumption
<1>4. Log!Newest(HistorySize, Append(s, a))
        = [i \in 1 .. Len(s) + 1 |-> Append(s, a)[(Len(s) + 1) - (Len(s) + 1) + i]]
  BY <1>1, <1>3 DEF Log!Newest
<1>5. \A i \in 1 .. Len(s) + 1 : (Len(s) + 1) - (Len(s) + 1) + i = i
  BY <1>1
<1>6. [i \in 1 .. Len(s) + 1 |-> Append(s, a)[(Len(s) + 1) - (Len(s) + 1) + i]]
        = [i \in 1 .. Len(s) + 1 |-> Append(s, a)[i]]
  BY <1>5, Zenon
<1> QED
  BY <1>2, <1>4, <1>6, Zenon

\* The history s, full, after one more record: s without its first one, and a.
Shifted(s, a) == [i \in 1 .. HistorySize |-> Append(s, a)[i + 1]]

\* A full log drops its first record.
LEMMA NewestOfAppendWhenFull ==
  ASSUME NEW S, NEW s \in Seq(S), NEW a \in S, Len(s) = HistorySize
  PROVE  Log!Newest(HistorySize, Append(s, a)) = Shifted(s, a)
<1>1. Append(s, a) \in Seq(S) /\ Len(Append(s, a)) = Len(s) + 1 /\ Len(s) \in Nat
  OBVIOUS
<1>2. (IF Len(Append(s, a)) < HistorySize THEN Len(Append(s, a)) ELSE HistorySize)
        = HistorySize
  BY <1>1, RingAssumption
<1>3. Log!Newest(HistorySize, Append(s, a))
        = [i \in 1 .. HistorySize |-> Append(s, a)[(HistorySize + 1) - HistorySize + i]]
  BY <1>1, <1>2 DEF Log!Newest
<1>4. \A i \in 1 .. HistorySize : (HistorySize + 1) - HistorySize + i = i + 1
  BY RingAssumption
<1>5. [i \in 1 .. HistorySize |-> Append(s, a)[(HistorySize + 1) - HistorySize + i]]
        = [i \in 1 .. HistorySize |-> Append(s, a)[i + 1]]
  BY <1>4, Zenon
<1> QED
  BY <1>3, <1>5, Zenon DEF Shifted

\* Until the ring is full a push extends the history.
LEMMA PushExtends ==
  ASSUME Inv, NEW a \in Alerts, Push(a), count < HistorySize
  PROVE  Recent' = Append(Recent, a)
<1>1. /\ TypeOK /\ head = count /\ count \in Nat /\ HistorySize \in Nat \ {0}
      /\ count' = count + 1 /\ head' = Slot(head + 1)
      /\ ring' = [ring EXCEPT ![count] = a]
  BY RingAssumption DEF Inv, TypeOK, RingShape, Push
<1>2. Available = count /\ Oldest = 0 /\ Available' = count + 1
  BY <1>1 DEF Available, Oldest
<1>3. Oldest' = 0
  <2>1. CASE count + 1 < HistorySize
    BY <1>1, <2>1 DEF Oldest
  <2>2. CASE ~ count + 1 < HistorySize
    <3>1. count + 1 = HistorySize
      BY <1>1, <2>2
    <3>2. Slot(HistorySize) = 0
      BY <1>1, SlotWrapped
    <3> QED
      BY <1>1, <3>1, <3>2 DEF Oldest
  <2> QED
    BY <2>1, <2>2
<1>4. Recent = [k \in 1 .. count |-> ring[Slot(0 + k - 1)]]
  BY <1>2 DEF Recent
<1>5. Recent' = [k \in 1 .. count + 1 |-> ring'[Slot(0 + k - 1)]]
  BY <1>2, <1>3 DEF Recent, Slot
<1>6. ASSUME NEW k \in 1 .. count + 1
      PROVE  ring'[Slot(0 + k - 1)] = IF k = count + 1 THEN a ELSE ring[Slot(0 + k - 1)]
  <2>1. 0 + k - 1 \in 0 .. HistorySize - 1 /\ 0 + k - 1 = k - 1
    BY <1>1
  <2>2. Slot(0 + k - 1) = k - 1
    BY <2>1, SlotInside
  <2>3. k - 1 \in Slots /\ (k - 1 = count <=> k = count + 1)
    BY <1>1, <2>1 DEF Slots
  <2> QED
    BY <1>1, <2>2, <2>3 DEF TypeOK
<1>7. Append(Recent, a)
        = [k \in 1 .. count + 1 |-> IF k = count + 1 THEN a ELSE Recent[k]]
  <2>1. Recent \in Seq(Alerts \cup {NoAlert}) /\ Len(Recent) = count
    BY <1>1, <1>2, RecentIsSequence DEF Records
  <2>2. a \in Alerts \cup {NoAlert}
    OBVIOUS
  <2> QED
    BY <2>1, <2>2, AppendIsFunction
<1>8. \A k \in 1 .. count : Recent[k] = ring[Slot(0 + k - 1)]
  BY <1>4
<1> QED
  BY <1>1, <1>5, <1>6, <1>7, <1>8

\* In a full ring the slot overwritten is the oldest, and the next one
\* becomes the oldest.
LEMMA PushRotates ==
  ASSUME Inv, NEW a \in Alerts, Push(a), ~ count < HistorySize
  PROVE  Recent' = Shifted(Recent, a)
<1>1. /\ TypeOK /\ count \in Nat /\ HistorySize \in Nat \ {0}
      /\ head \in 0 .. HistorySize - 1
      /\ count' = count + 1 /\ head' = Slot(head + 1)
      /\ ring' = [ring EXCEPT ![head] = a]
  BY RingAssumption DEF Inv, TypeOK, Slots, Push
<1>2. Available = HistorySize /\ Oldest = head /\ Available' = HistorySize
  BY <1>1 DEF Available, Oldest
<1>3. Oldest' = Slot(head + 1)
  BY <1>1 DEF Oldest
<1>4. Recent' = [k \in 1 .. HistorySize |-> ring'[Slot(Slot(head + 1) + k - 1)]]
  BY <1>2, <1>3 DEF Recent, Slot
<1>5. \A k \in 1 .. HistorySize : Recent[k] = ring[Slot(head + k - 1)]
  BY <1>2 DEF Recent
<1>6. ASSUME NEW k \in 1 .. HistorySize
      PROVE  ring'[Slot(Slot(head + 1) + k - 1)] = Append(Recent, a)[k + 1]
  <2>0. Slot(Slot(head + 1) + k - 1) = Slot(head + k)
    <3>1. CASE head + 1 < HistorySize
      <4>1. Slot(head + 1) = head + 1
        BY <1>1, <3>1, SlotInside
      <4> QED
        BY <1>1, <4>1
    <3>2. CASE ~ head + 1 < HistorySize
      <4>1. head + 1 = HistorySize
        BY <1>1, <3>2
      <4>2. Slot(head + 1) = 0
        BY <1>1, <4>1, SlotWrapped
      <4>3. 0 + k - 1 \in 0 .. HistorySize - 1 /\ 0 + k - 1 = k - 1
        BY <1>1
      <4>4. Slot(0 + k - 1) = k - 1
        BY <4>3, SlotInside
      <4>5. head + k \in HistorySize .. 2 * HistorySize - 1
            /\ head + k - HistorySize = k - 1
        BY <1>1, <4>1
      <4>6. Slot(head + k) = head + k - HistorySize
        BY <1>1, <4>1, <4>5, SlotOfWrappedSum
      <4> QED
        BY <4>2, <4>4, <4>5, <4>6
    <3> QED
      BY <3>1, <3>2
  <2>1. /\ Append(Recent, a)[k + 1] = IF k = HistorySize THEN a ELSE Recent[k + 1]
    BY <1>1, <1>2, RecentIsSequence DEF Records
  <2>2. CASE k = HistorySize
    <3>1. Slot(head + k) = head
      <4>1. head + k \in HistorySize .. 2 * HistorySize - 1
            /\ head + k - HistorySize = head
        BY <1>1, <2>2
      <4>2. Slot(head + k) = head + k - HistorySize
        BY <1>1, <2>2, <4>1, SlotOfWrappedSum
      <4> QED
        BY <4>1, <4>2
    <3> QED
      BY <1>1, <2>0, <2>1, <2>2, <3>1 DEF TypeOK, Slots
  <2>3. CASE k # HistorySize
    <3>1. Recent[k + 1] = ring[Slot(head + k)]
      <4>1. k + 1 \in 1 .. HistorySize /\ head + (k + 1) - 1 = head + k
        BY <1>1, <2>3
      <4> QED
        BY <1>5, <4>1
    <3>2. Slot(head + k) # head
      <4>1. CASE head + k < HistorySize
        BY <1>1, <4>1, SlotInside
      <4>2. CASE ~ head + k < HistorySize
        <5>1. head + k \in HistorySize .. 2 * HistorySize - 1
              /\ head + k - HistorySize # head
          BY <1>1, <2>3, <4>2
        <5>2. Slot(head + k) = head + k - HistorySize
          BY <1>1, <4>2, <5>1, SlotOfWrappedSum
        <5> QED
          BY <5>1, <5>2, Zenon
      <4> QED
        BY <4>1, <4>2
    <3> QED
      BY <1>1, <2>0, <2>1, <2>3, <3>1, <3>2 DEF TypeOK
  <2> QED
    BY <2>2, <2>3
<1> QED
  BY <1>4, <1>6 DEF Shifted

LEMMA PushRefines ==
  ASSUME Inv, NEW a \in Alerts, Push(a)
  PROVE  Log!Record(a)
<1>1. TypeOK /\ Recent \in Seq(Alerts \cup {NoAlert}) /\ Len(Recent) = Available
  BY RecentIsSequence DEF Inv, Records
<1>2. Recent' = Log!Newest(HistorySize, Append(Recent, a))
  <2>0. a \in Alerts \cup {NoAlert}
    OBVIOUS
  <2>1. CASE count < HistorySize
    <3>1. Len(Recent) < HistorySize
      BY <1>1, <2>1 DEF Available
    <3> QED
      BY <1>1, <2>0, <2>1, <3>1, PushExtends, NewestOfAppendWithRoom
  <2>2. CASE ~ count < HistorySize
    <3>1. Len(Recent) = HistorySize
      BY <1>1, <2>2 DEF Available
    <3>2. Recent' = Shifted(Recent, a)
      BY <2>2, PushRotates
    <3>3. Log!Newest(HistorySize, Append(Recent, a)) = Shifted(Recent, a)
      BY <1>1, <2>0, <3>1, NewestOfAppendWhenFull
    <3> QED
      BY <3>2, <3>3, Zenon
  <2> QED
    BY <2>1, <2>2
<1> QED
  BY <1>2 DEF Log!Record, Push

LEMMA CopyEndRefines ==
  ASSUME Inv, NEW r \in Readers, CopyEnd(r)
  PROVE  Log!Answer(r)
<1>1. /\ TypeOK /\ lock = r /\ Len(out[r]) >= job[r].toCopy
      /\ answer' = [answer EXCEPT ![r] = out[r]]
      /\ UNCHANGED history
  BY DEF Inv, CopyEnd
<1>2. job[r] = [start |-> Oldest + (Available - ToCopy(r)), toCopy |-> ToCopy(r)]
  BY <1>1 DEF Inv, JobFresh
<1>3. /\ out[r] \in Records
      /\ Len(out[r]) <= ToCopy(r)
      /\ \A i \in 1 .. Len(out[r]) : out[r][i] = Recent[Available - ToCopy(r) + i]
  BY <1>1 DEF Inv, TypeOK, OutIsPrefix
<1>4. Len(out[r]) = ToCopy(r)
  <2>1. ToCopy(r) \in Nat /\ Len(out[r]) \in Nat /\ Len(out[r]) >= ToCopy(r)
    BY <1>1, <1>2, <1>3, AvailableType, RingAssumption DEF Records
  <2> QED
    BY <1>3, <2>1
<1>5. out[r] = [i \in 1 .. ToCopy(r) |-> Recent[Available - ToCopy(r) + i]]
  BY <1>3, <1>4 DEF Records
<1>6. Log!Newest(MaxRecords[r], Recent)
        = [i \in 1 .. ToCopy(r) |-> Recent[Available - ToCopy(r) + i]]
  <2>1. Len(Recent) = Available
    BY <1>1, RecentIsSequence
  <2> QED
    BY <2>1 DEF Log!Newest, ToCopy
<1>7. Recent' = Recent
  BY <1>1 DEF history, Recent, Available, Oldest
<1> QED
  BY <1>1, <1>5, <1>6, <1>7 DEF Log!Answer

LEMMA StutterRefines ==
  ASSUME UNCHANGED <<history, answer>>
  PROVE  UNCHANGED Log!logVars
  BY DEF history, Log!logVars, Recent, Available, Oldest

LEMMA NextRefines == Inv /\ [Next]_vars => [Log!LogNext]_Log!logVars
<1> SUFFICES ASSUME Inv, [Next]_vars PROVE [Log!LogNext]_Log!logVars
  OBVIOUS
<1>1. ASSUME NEW a \in Alerts, Push(a) PROVE Log!LogNext
  BY <1>1, PushRefines DEF Log!LogNext
<1>2. ASSUME NEW r \in Readers, CopyBegin(r) PROVE UNCHANGED Log!logVars
  BY <1>2, StutterRefines DEF CopyBegin
<1>3. ASSUME NEW r \in Readers, CopyRecord(r) PROVE UNCHANGED Log!logVars
  BY <1>3, StutterRefines DEF CopyRecord
<1>4. ASSUME NEW r \in Readers, CopyEnd(r) PROVE Log!LogNext
  BY <1>4, CopyEndRefines DEF Log!LogNext
<1>5. CASE UNCHANGED vars
  BY <1>5, StutterRefines DEF vars, history
<1> QED
  BY <1>1, <1>2, <1>3, <1>4, <1>5 DEF Next

LEMMA InitRefines == Init => Log!LogInit
<1> SUFFICES ASSUME Init PROVE Log!LogInit
  OBVIOUS
<1>1. Available = 0
  BY RingAssumption DEF Init, Available
<1>2. Recent = <<>>
  BY <1>1 DEF Recent
<1> QED
  BY <1>2 DEF Init, Log!LogInit

\* The ring with its copy loop implements the log of the newest alerts.
THEOREM Implementation == Spec => ImplementsLog
  BY InitInv, NextKeepsInv, InitRefines, NextRefines, PTL
     DEF Spec, ImplementsLog, Log!LogSpec


-----------------------------------------------------------------------------
(* The control of the metrics thread and of the destruction.  A cycle that    *)
(* raises alerts has a number that is an alert; and the mutex is destroyed     *)
(* only with nobody holding it and the metrics thread ended, for good.         *)

Writing == {"sendMetric", "logMetric", "evaluate"}

Control ==
  /\ DOMAIN pc = Threads
  /\ cycle \in 0 .. MaxCycles
  /\ pc["metrics"] \in Writing => cycle >= 1
  /\ destroyed \in BOOLEAN
  /\ destroyed => lock = Free /\ pc["metrics"] = "ended"

HttpInv == Inv /\ Control

LEMMA ThreadNames ==
  /\ "main" \in Threads /\ "acceptor" \in Threads /\ "metrics" \in Threads
  /\ \A r \in Readers : r \in Threads /\ r # "metrics" /\ r # "main" /\ r # "acceptor"
  /\ Free # "metrics"
  BY NamesAssumption DEF Threads

LEMMA LogPlaces ==
  /\ "ended" \notin DOMAIN AfterLogging
  /\ \A p \in DOMAIN AfterLogging : AfterLogging[p] \in Writing => p = "logMetric"
  /\ \A p \in DOMAIN AfterLogging : AfterLogging[p] # "start"
<1>1. DOMAIN AfterLogging =
        {"ready", "cleanup", "bye", "hello", "farewell", "begin", "logMetric", "logAlert",
         "end", "log"}
  BY DEF AfterLogging
<1> QED
  BY <1>1, SMT DEF AfterLogging, Writing

\* The steps of the server that are not stutters of AlertSystem.
LEMMA OnlyTheseTouchHistory ==
  ASSUME [HttpNext]_httpVars
  PROVE  \/ UNCHANGED vars \/ Raise
         \/ \E r \in Readers : CopyAlerts(r) \/ CopyUnlocked(r)
<1>1. CASE UNCHANGED httpVars
  BY <1>1 DEF httpVars
<1>2. CASE Main
  BY <1>2 DEF Main, LogLine, StartHttp, RaiseStop, ShutSocket, CloseSocket, JoinAcceptor,
              Destroy, CloseLog, Exit
<1>3. CASE LeaveLoop
  BY <1>3 DEF LeaveLoop
<1>4. CASE Metrics
  BY <1>4 DEF Metrics, LogLine, Tick, Evaluated, NextAlert, MetricsEnd
<1>5. CASE Acceptor
  BY <1>5 DEF Acceptor, LogLine, CheckStop, CallAccept, AcceptFails, AcceptWoken, AcceptConnection
<1>6. ASSUME NEW r \in Readers, Receive(r) \/ Request(r)
      PROVE  UNCHANGED vars \/ CopyAlerts(r) \/ CopyUnlocked(r)
  BY <1>6 DEF Receive, Request, LogLine, Choose, ReadSnapshot, CountClients, Respond
<1>7. CASE Sent
  BY <1>7 DEF Sent
<1> QED
  BY <1>1, <1>2, <1>3, <1>4, <1>5, <1>6, <1>7 DEF HttpNext

\* Every step but one of the server is, for the history, a step of AlertSystem.
LEMMA HistorySteps ==
  ASSUME HttpInv, [HttpNext]_httpVars
  PROVE  [Next]_vars \/ \E r \in Readers : CopyUnlocked(r)
<1>1. ASSUME NEW r \in Readers, CopyAlerts(r) PROVE Next
  BY <1>1 DEF CopyAlerts, Next
<1>2. CASE Raise
  <2>1. cycle \in Alerts /\ Push(cycle)
    BY <1>2, CyclesAssumption DEF Raise, HttpInv, Control, Writing
  <2> QED
    BY <2>1 DEF Next
<1> QED
  BY <1>1, <1>2, OnlyTheseTouchHistory

\* What leaves the metrics thread, the lock and the mutex alone.
LEMMA ElsewhereKeepsControl ==
  ASSUME Control, DOMAIN pc' = DOMAIN pc, pc'["metrics"] = pc["metrics"],
         UNCHANGED <<lock, others>>
  PROVE  Control'
  BY DEF Control, others

LEMMA SameKeepsControl == Control /\ UNCHANGED <<pc, lock, others>> => Control'
  BY ElsewhereKeepsControl

\* Another thread goes to its next place, or two do.
LEMMA MoveKeepsControl ==
  ASSUME Control, NEW t, NEW to, t # "metrics",
         pc' = [pc EXCEPT ![t] = to], UNCHANGED <<lock, others>>
  PROVE  Control'
<1>1. "metrics" \in DOMAIN pc
  BY ThreadNames DEF Control
<1>2. DOMAIN pc' = DOMAIN pc /\ pc'["metrics"] = pc["metrics"]
  BY <1>1
<1> QED
  BY <1>2, ElsewhereKeepsControl

LEMMA MovesKeepControl ==
  ASSUME Control, NEW t, NEW to, NEW u, NEW uto, t # "metrics", u # "metrics",
         pc' = [pc EXCEPT ![t] = to, ![u] = uto], UNCHANGED <<lock, others>>
  PROVE  Control'
<1>1. "metrics" \in DOMAIN pc
  BY ThreadNames DEF Control
<1>2. DOMAIN pc' = DOMAIN pc /\ pc'["metrics"] = pc["metrics"]
  BY <1>1
<1> QED
  BY <1>2, ElsewhereKeepsControl

LEMMA LogLineKeepsControl ==
  ASSUME Control, NEW t \in Threads, LogLine(t)
  PROVE  Control'
<1>1. /\ pc[t] \in DOMAIN AfterLogging
      /\ UNCHANGED <<lock, others>>
      /\ pc' = pc \/ pc' = [pc EXCEPT ![t] = AfterLogging[pc[t]]]
  BY DEF LogLine, vars
<1>2. CASE pc' = pc
  BY <1>1, <1>2, SameKeepsControl
<1>3. CASE t # "metrics" /\ pc' = [pc EXCEPT ![t] = AfterLogging[pc[t]]]
  BY <1>1, <1>3, MoveKeepsControl
<1>4. CASE t = "metrics" /\ pc' = [pc EXCEPT ![t] = AfterLogging[pc[t]]]
  <2>1. /\ DOMAIN pc' = DOMAIN pc
        /\ pc'["metrics"] = AfterLogging[pc["metrics"]]
        /\ pc["metrics"] # "ended"
    BY <1>1, <1>4, ThreadNames, LogPlaces DEF Control
  <2>2. pc'["metrics"] \in Writing => pc["metrics"] \in Writing
    BY <1>1, <1>4, <2>1, LogPlaces DEF Writing
  <2> QED
    BY <1>1, <2>1, <2>2 DEF Control, others
<1> QED
  BY <1>1, <1>2, <1>3, <1>4

LEMMA MainKeepsControl == ASSUME Control, Main PROVE Control'
<1>1. CASE LogLine("main")
  BY <1>1, ThreadNames, LogLineKeepsControl
<1>2. CASE StartHttp
  <2>1. UNCHANGED <<lock, others>>
    BY <1>2 DEF StartHttp, vars
  <2>2. \/ \E to : pc' = [pc EXCEPT !["main"] = to]
        \/ \E to, uto : pc' = [pc EXCEPT !["main"] = to, !["acceptor"] = uto]
    BY <1>2 DEF StartHttp, Goto
  <2> QED
    BY <2>1, <2>2, MoveKeepsControl, MovesKeepControl
<1>3. CASE RaiseStop \/ ShutSocket \/ CloseSocket \/ CloseLog \/ Exit
  <2>1. UNCHANGED <<lock, others>> /\ \E to : pc' = [pc EXCEPT !["main"] = to]
    BY <1>3 DEF RaiseStop, ShutSocket, CloseSocket, CloseLog, Exit, Goto, vars
  <2> QED
    BY <2>1, MoveKeepsControl
<1>4. CASE JoinAcceptor
  <2>1. /\ UNCHANGED <<lock, cycle, destroyed>>
        /\ \E to : pc' = [pc EXCEPT !["main"] = to]
    BY <1>4 DEF JoinAcceptor, Goto, vars
  <2>2. DOMAIN pc' = DOMAIN pc /\ pc'["metrics"] = pc["metrics"]
    BY <2>1, ThreadNames DEF Control
  <2> QED
    BY <2>1, <2>2 DEF Control
<1>5. CASE Destroy
  <2>1. /\ UNCHANGED <<lock, cycle>> /\ destroyed' = (lock = Free)
        /\ pc["metrics"] = "ended"
        /\ \E to : pc' = [pc EXCEPT !["main"] = to]
    BY <1>5 DEF Destroy, Goto, vars
  <2>2. DOMAIN pc' = DOMAIN pc /\ pc'["metrics"] = "ended"
    BY <2>1, ThreadNames DEF Control
  <2> QED
    BY <2>1, <2>2 DEF Control, Writing
<1> QED
  BY <1>1, <1>2, <1>3, <1>4, <1>5 DEF Main

LEMMA MetricsKeepsControl == ASSUME Control, Metrics PROVE Control'
<1>0. "metrics" \in DOMAIN pc
  BY ThreadNames DEF Control
<1>1. CASE LogLine("metrics")
  BY <1>1, ThreadNames, LogLineKeepsControl
<1>2. CASE Tick
  <2>1. /\ pc["metrics"] = "loop" /\ pc' = [pc EXCEPT !["metrics"] = "sendMetric"]
        /\ cycle < MaxCycles /\ cycle' = cycle + 1
        /\ UNCHANGED <<lock, destroyed>>
    BY <1>2 DEF Tick, Goto, vars
  <2>2. cycle' \in 0 .. MaxCycles /\ cycle' >= 1
    BY <2>1, CyclesAssumption DEF Control
  <2>3. DOMAIN pc' = DOMAIN pc /\ ~ destroyed
    BY <2>1 DEF Control
  <2> QED
    BY <2>1, <2>2, <2>3 DEF Control
<1>3. CASE Raise
  BY <1>3 DEF Raise, Push, Control
<1>4. CASE Evaluated \/ NextAlert \/ MetricsEnd
  <2>1. /\ pc["metrics"] # "ended" /\ UNCHANGED <<lock, cycle, destroyed>>
        /\ DOMAIN pc' = DOMAIN pc
        /\ pc'["metrics"] \in {"alerts", "sendAlert", "loop", "end"}
    BY <1>0, <1>4 DEF Evaluated, NextAlert, MetricsEnd, Goto, vars, others
  <2> QED
    BY <2>1 DEF Control, Writing
<1> QED
  BY <1>1, <1>2, <1>3, <1>4 DEF Metrics

LEMMA SentKeepsControl == ASSUME Control, Sent PROVE Control'
<1>0. "metrics" \in DOMAIN pc
  BY ThreadNames DEF Control
<1>1. /\ pc["metrics"] # "ended" /\ UNCHANGED <<lock, cycle, destroyed>>
      /\ DOMAIN pc' = DOMAIN pc
      /\ \/ pc["metrics"] = "sendMetric" /\ pc'["metrics"] = "logMetric"
         \/ pc'["metrics"] = "logAlert"
  BY <1>0 DEF Sent, Goto, vars, others
<1> QED
  BY <1>1 DEF Control, Writing

LEMMA AcceptorKeepsControl == ASSUME Control, Acceptor PROVE Control'
<1>1. CASE LogLine("acceptor")
  BY <1>1, ThreadNames, LogLineKeepsControl
<1>2. CASE CheckStop \/ CallAccept \/ AcceptFails \/ AcceptWoken
  <2>1. UNCHANGED <<lock, others>> /\ \E to : pc' = [pc EXCEPT !["acceptor"] = to]
    BY <1>2 DEF CheckStop, CallAccept, AcceptFails, AcceptWoken, Goto, vars
  <2> QED
    BY <2>1, MoveKeepsControl
<1>3. ASSUME NEW r \in Readers, AcceptConnection(r) PROVE Control'
  <2>1. UNCHANGED <<lock, others>>
    BY <1>3 DEF AcceptConnection, vars
  <2>2. \/ \E to : pc' = [pc EXCEPT !["main"] = to]
        \/ \E to, uto : pc' = [pc EXCEPT !["acceptor"] = to, ![r] = uto]
    BY <1>3 DEF AcceptConnection
  <2>3. r # "metrics"
    BY ThreadNames
  <2> QED
    BY <2>1, <2>2, <2>3, MoveKeepsControl, MovesKeepControl
<1> QED
  BY <1>1, <1>2, <1>3 DEF Acceptor

LEMMA RequestKeepsControl ==
  ASSUME Control, NEW r \in Readers, Receive(r) \/ Request(r)
  PROVE  Control'
<1>0. r \in Threads /\ r # "metrics"
  BY ThreadNames
<1>1. CASE Receive(r) \/ Choose(r) \/ Respond(r)
  <2>1. UNCHANGED <<lock, others>> /\ \E to : pc' = [pc EXCEPT ![r] = to]
    BY <1>1 DEF Receive, Choose, Respond, Goto, vars
  <2> QED
    BY <1>0, <2>1, MoveKeepsControl
<1>2. CASE LogLine(r)
  BY <1>0, <1>2, LogLineKeepsControl
<1>3. CASE ReadSnapshot(r) \/ CountClients(r) \/ CopyUnlocked(r)
  BY <1>3, SameKeepsControl DEF ReadSnapshot, CountClients, CopyUnlocked, vars
<1>4. CASE CopyAlerts(r)
  <2>1. UNCHANGED <<pc, others>> /\ (destroyed => lock = r)
    BY <1>4 DEF CopyAlerts, CopyBegin, CopyRecord, CopyEnd
  <2>2. r # Free
    BY LockAssumption
  <2> QED
    BY <2>1, <2>2 DEF Control, others
<1> QED
  BY <1>1, <1>2, <1>3, <1>4 DEF Request

LEMMA NextKeepsControl == ASSUME Control, [HttpNext]_httpVars PROVE Control'
<1>1. CASE UNCHANGED httpVars
  BY <1>1 DEF httpVars, vars, others, Control
<1>2. CASE LeaveLoop
  <2>1. UNCHANGED <<lock, others>>
    BY <1>2 DEF LeaveLoop, vars
  <2>2. \/ \E to : pc' = [pc EXCEPT !["main"] = to]
        \/ \E to, uto : pc' = [pc EXCEPT !["main"] = to, !["acceptor"] = uto]
        \/ \E r \in Readers : \E to, uto : pc' = [pc EXCEPT !["main"] = to, ![r] = uto]
    BY <1>2 DEF LeaveLoop
  <2>3. \A r \in Readers : r # "metrics"
    BY ThreadNames
  <2> QED
    BY <2>1, <2>2, <2>3, MoveKeepsControl, MovesKeepControl
<1> QED
  BY <1>1, <1>2, MainKeepsControl, MetricsKeepsControl, SentKeepsControl,
     AcceptorKeepsControl, RequestKeepsControl DEF HttpNext

-----------------------------------------------------------------------------
(* A copy without the lock is the copy that AlertSystem makes under it. *)

\* The record that a copy without the lock takes as its k-th.
LEMMA RecordOfCopy ==
  ASSUME TypeOK, NEW r \in Readers, NEW k \in 1 .. ToCopy(r)
  PROVE  /\ Recent[Available - ToCopy(r) + k]
               = ring[Slot(Oldest + (Available - ToCopy(r)) + k - 1)]
         /\ Recent[Available - ToCopy(r) + k] \in Alerts \cup {NoAlert}
<1> DEFINE j == Available - ToCopy(r) + k
<1>1. Available \in Nat /\ Oldest \in Nat /\ ToCopy(r) \in 0 .. Available
  BY AvailableType, RingAssumption
<1>2. /\ j \in 1 .. Available
      /\ Oldest + j - 1 = Oldest + (Available - ToCopy(r)) + k - 1
      /\ Oldest + j - 1 \in Nat
  BY <1>1
<1> HIDE DEF j
<1>3. Recent[j] = ring[Slot(Oldest + j - 1)]
  BY <1>2 DEF Recent
<1>4. ring[Slot(Oldest + j - 1)] \in Alerts \cup {NoAlert}
  BY <1>2, SlotIsSlot DEF TypeOK
<1> QED
  BY <1>2, <1>3, <1>4 DEF j

LEMMA CopyUnlockedKeepsInv ==
  ASSUME Inv, NEW r \in Readers, CopyUnlocked(r)
  PROVE  Inv'
<1> DEFINE copy == [k \in 1 .. ToCopy(r) |->
                      ring[Slot(Oldest + (Available - ToCopy(r)) + k - 1)]]
<1>1. /\ TypeOK /\ answer' = [answer EXCEPT ![r] = copy]
      /\ UNCHANGED <<history, lock, job, out>>
  BY DEF Inv, CopyUnlocked
<1>2. copy \in Records
  <2>1. ToCopy(r) \in Nat
    BY <1>1, AvailableType, RingAssumption
  <2>2. \A k \in 1 .. ToCopy(r) :
          ring[Slot(Oldest + (Available - ToCopy(r)) + k - 1)] \in Alerts \cup {NoAlert}
    BY <1>1, RecordOfCopy
  <2> QED
    BY <2>1, <2>2 DEF Records
<1> HIDE DEF copy
<1>3. TypeOK'
  BY <1>1, <1>2 DEF TypeOK, history
<1>4. /\ UNCHANGED <<Available, Oldest, Recent>>
      /\ \A q \in Readers : ToCopy(q)' = ToCopy(q)
  BY <1>1 DEF history, Available, Oldest, ToCopy, Recent
<1>5. RingShape'
  BY <1>1 DEF Inv, RingShape, history
<1>6. JobFresh' /\ OutIsPrefix'
  BY <1>1, <1>4 DEF Inv, JobFresh, OutIsPrefix
<1> QED
  BY <1>3, <1>5, <1>6 DEF Inv

LEMMA CopyUnlockedRefines ==
  ASSUME Inv, NEW r \in Readers, CopyUnlocked(r)
  PROVE  Log!Answer(r)
<1>1. TypeOK /\ UNCHANGED history
  BY DEF Inv, CopyUnlocked
<1>2. Len(Recent) = Available
  BY <1>1, RecentIsSequence
<1>3. Log!Newest(MaxRecords[r], Recent)
        = [k \in 1 .. ToCopy(r) |-> Recent[Available - ToCopy(r) + k]]
  BY <1>2 DEF Log!Newest, ToCopy
<1>4. \A k \in 1 .. ToCopy(r) : Recent[Available - ToCopy(r) + k]
        = ring[Slot(Oldest + (Available - ToCopy(r)) + k - 1)]
  BY <1>1, RecordOfCopy
<1>5. [k \in 1 .. ToCopy(r) |-> Recent[Available - ToCopy(r) + k]]
        = [k \in 1 .. ToCopy(r) |-> ring[Slot(Oldest + (Available - ToCopy(r)) + k - 1)]]
  BY <1>4, Zenon
<1>6. answer' = [answer EXCEPT ![r] = Log!Newest(MaxRecords[r], Recent)]
  BY <1>3, <1>5, Zenon DEF CopyUnlocked
<1>7. Recent' = Recent
  BY <1>1 DEF history, Recent, Available, Oldest
<1> QED
  BY <1>6, <1>7 DEF Log!Answer

-----------------------------------------------------------------------------

LEMMA HttpInitInv == HttpInit => HttpInv
<1> SUFFICES ASSUME HttpInit PROVE HttpInv
  OBVIOUS
<1>1. Inv
  BY InitInv DEF HttpInit
<1>2. pc["metrics"] = "begin" /\ DOMAIN pc = Threads
  BY ThreadNames DEF HttpInit
<1> QED
  <2>1. cycle \in 0 .. MaxCycles /\ ~ destroyed /\ destroyed \in BOOLEAN
    <3>1. MaxCycles \in Nat /\ cycle = 0
      BY CyclesAssumption DEF HttpInit
    <3>2. destroyed = FALSE
      BY DEF HttpInit
    <3>3. cycle \in 0 .. MaxCycles
      BY <3>1
    <3>4. ~ destroyed /\ destroyed \in BOOLEAN
      BY <3>2, Zenon
    <3> QED
      BY <3>3, <3>4, Zenon
  <2>2. pc["metrics"] \notin Writing
    BY <1>2 DEF Writing
  <2> QED
    BY <1>1, <1>2, <2>1, <2>2, Zenon DEF HttpInv, Control

LEMMA HttpNextKeepsInv == HttpInv /\ [HttpNext]_httpVars => HttpInv'
  BY HistorySteps, NextKeepsInv, NextKeepsControl, CopyUnlockedKeepsInv DEF HttpInv

LEMMA HttpNextRefines == HttpInv /\ [HttpNext]_httpVars => [Log!LogNext]_Log!logVars
  BY HistorySteps, NextRefines, CopyUnlockedRefines DEF HttpInv, Log!LogNext

\* In the whole server, too, the ring, its position and its lock stay in their
\* ranges.
THEOREM HttpTypeCorrect == HttpSpec => []TypeOK
<1>1. HttpInv => TypeOK
  BY DEF HttpInv, Inv
<1> QED
  BY <1>1, HttpInitInv, HttpNextKeepsInv, PTL DEF HttpSpec

\* Requests that copy the history while it is written, and after its
\* mutex is destroyed, get the newest alerts as of one moment.
THEOREM HttpImplementation == HttpSpec => ImplementsLog
<1>1. HttpInit => Log!LogInit
  BY InitRefines DEF HttpInit
<1> QED
  BY <1>1, HttpInitInv, HttpNextKeepsInv, HttpNextRefines, PTL
     DEF HttpSpec, ImplementsLog, Log!LogSpec

\* Nobody writes the history once its mutex is destroyed.
THEOREM HistoryRestsHolds == HttpSpec => HistoryRests
<1>1. ASSUME HttpInv, [HttpNext]_httpVars, destroyed PROVE UNCHANGED history
  <2>1. pc["metrics"] = "ended"
    BY <1>1 DEF HttpInv, Control
  <2>2. ~ Raise
    BY <2>1 DEF Raise
  <2>3. CASE UNCHANGED vars
    BY <2>3 DEF vars, history
  <2>4. ASSUME NEW r \in Readers, CopyAlerts(r) PROVE UNCHANGED history
    BY <2>4 DEF CopyAlerts, CopyBegin, CopyRecord, CopyEnd
  <2>5. ASSUME NEW r \in Readers, CopyUnlocked(r) PROVE UNCHANGED history
    BY <2>5 DEF CopyUnlocked
  <2> QED
    BY <1>1, <2>2, <2>3, <2>4, <2>5, OnlyTheseTouchHistory
<1>2. HttpInv /\ [HttpNext]_httpVars => [destroyed => UNCHANGED history]_httpVars
  BY <1>1
<1> QED
  BY <1>2, HttpInitInv, HttpNextKeepsInv, PTL DEF HttpSpec, HistoryRests

-----------------------------------------------------------------------------
(* The log.  A thread in the middle of an entry stays at its log call: no      *)
(* other step moves it.  So what stderr has and the file lacks is the entry of *)
(* the thread that holds the lock, and closing takes the lock.                 *)

Logging(t) == pc[t] \in DOMAIN AfterLogging

\* Before main has started the HTTP server there is no accepting thread.
Starting == pc["main"] = "start" => pc["acceptor"] = "none"

LogInv ==
  /\ Starting
  /\ logLock = Free /\ logOpen => inFile = onStderr
  /\ \A t \in Threads : logLock = t /\ Running =>
       Logging(t) /\ (logOpen => onStderr = inFile \cup {<<t, pc[t]>>})

LoggersStay ==
  pc'["main"] = "crashed" \/ \A t \in Threads : Logging(t) => pc'[t] = pc[t]

LEMMA LogPlaceNames ==
  /\ {"raise", "serve", "closeLog", "check", "ended", "loop", "sendMetric", "evaluate",
      "alerts", "sendAlert", "route", "make", "start", "shut", "close", "join",
      "joinMetrics", "exit", "accept", "waiting", "away", "recv", "none"} \cap DOMAIN AfterLogging = {}
<1>1. DOMAIN AfterLogging =
        {"ready", "cleanup", "bye", "hello", "farewell", "begin", "logMetric", "logAlert",
         "end", "log"}
  BY DEF AfterLogging
<1> QED
  BY <1>1

LEMMA MoveOfAnother ==
  ASSUME Control, NEW u, NEW to, ~ Logging(u), pc' = [pc EXCEPT ![u] = to]
  PROVE  LoggersStay
  BY DEF LoggersStay, Logging, Control

LEMMA MovesOfOthers ==
  ASSUME Control, NEW u, NEW to, NEW v, NEW vto, ~ Logging(u), ~ Logging(v),
         pc' = [pc EXCEPT ![u] = to, ![v] = vto]
  PROVE  LoggersStay
  BY DEF LoggersStay, Logging, Control

LEMMA GotoOfAnother ==
  ASSUME Control, NEW u, NEW from, NEW to, from \notin DOMAIN AfterLogging, Goto(u, from, to)
  PROVE  LoggersStay
  BY MoveOfAnother DEF Goto, Logging

\* A step that is no log call leaves the entries alone, and who makes one.
LEMMA OtherSteps ==
  ASSUME Control, Starting, HttpNext, ~ \E t \in Threads : LogLine(t), ~ CloseLog
  PROVE  UNCHANGED logger /\ LoggersStay
<1> USE LogPlaceNames
<1>0. "metrics" \in Threads /\ "main" \in Threads /\ "acceptor" \in Threads
      /\ Readers \subseteq Threads
  BY ThreadNames
<1>1. CASE Main
  <2>1. CASE StartHttp
    <3>1. UNCHANGED logger /\ ~ Logging("main") /\ ~ Logging("acceptor")
      BY <2>1 DEF StartHttp, Goto, Starting, Logging
    <3>2. \/ \E to : pc' = [pc EXCEPT !["main"] = to]
          \/ \E to, uto : pc' = [pc EXCEPT !["main"] = to, !["acceptor"] = uto]
      BY <2>1 DEF StartHttp, Goto
    <3> QED
      BY <3>1, <3>2, MoveOfAnother, MovesOfOthers
  <2>2. CASE RaiseStop
    BY <2>2, GotoOfAnother DEF RaiseStop
  <2>3. CASE ShutSocket
    BY <2>3, GotoOfAnother DEF ShutSocket
  <2>4. CASE CloseSocket
    BY <2>4, GotoOfAnother DEF CloseSocket
  <2>5. CASE JoinAcceptor
    BY <2>5, GotoOfAnother DEF JoinAcceptor
  <2>6. CASE Destroy
    BY <2>6, GotoOfAnother DEF Destroy
  <2>7. CASE Exit
    BY <2>7, GotoOfAnother DEF Exit
  <2> QED
    BY <1>0, <1>1, <2>1, <2>2, <2>3, <2>4, <2>5, <2>6, <2>7 DEF Main
<1>2. CASE LeaveLoop
  <2>1. UNCHANGED logger /\ ~ Logging("main")
    BY <1>2 DEF LeaveLoop, Logging
  <2>2. \/ \E to : pc' = [pc EXCEPT !["main"] = to]
        \/ /\ ~ Logging("acceptor")
           /\ \E to, uto : pc' = [pc EXCEPT !["main"] = to, !["acceptor"] = uto]
        \/ \E r \in Readers : /\ ~ Logging(r)
                             /\ \E to, uto : pc' = [pc EXCEPT !["main"] = to, ![r] = uto]
    BY <1>2 DEF LeaveLoop, Logging
  <2> QED
    BY <2>1, <2>2, MoveOfAnother, MovesOfOthers
<1>3. CASE Metrics
  <2>1. CASE Tick
    BY <2>1, GotoOfAnother DEF Tick
  <2>2. CASE Raise
    BY <2>2 DEF Raise, LoggersStay
  <2>3. CASE Evaluated
    BY <2>3, GotoOfAnother DEF Evaluated
  <2>4. CASE MetricsEnd
    BY <2>4, GotoOfAnother DEF MetricsEnd
  <2>5. CASE NextAlert
    BY <2>5, GotoOfAnother DEF NextAlert
  <2> QED
    BY <1>0, <1>3, <2>1, <2>2, <2>3, <2>4, <2>5 DEF Metrics
<1>4. CASE Acceptor
  <2>1. CASE CheckStop
    BY <2>1, GotoOfAnother DEF CheckStop
  <2>2. CASE CallAccept
    BY <2>2, GotoOfAnother DEF CallAccept
  <2>3. CASE AcceptFails
    BY <2>3, GotoOfAnother DEF AcceptFails
  <2>4. CASE AcceptWoken
    BY <2>4, GotoOfAnother DEF AcceptWoken
  <2>5. ASSUME NEW r \in Readers, AcceptConnection(r)
        PROVE  UNCHANGED logger /\ LoggersStay
    <3>1. UNCHANGED logger /\ ~ Logging("acceptor") /\ ~ Logging(r)
      BY <2>5 DEF AcceptConnection, Logging
    <3>2. CASE pc' = [pc EXCEPT !["main"] = "crashed"]
      BY <1>0, <3>1, <3>2 DEF LoggersStay, Control
    <3>3. CASE \E to : pc' = [pc EXCEPT !["acceptor"] = "check", ![r] = to]
      BY <3>1, <3>3, MovesOfOthers
    <3> QED
      BY <2>5, <3>2, <3>3 DEF AcceptConnection
  <2> QED
    BY <1>0, <1>4, <2>1, <2>2, <2>3, <2>4, <2>5 DEF Acceptor
<1>5. ASSUME NEW r \in Readers, Receive(r) \/ Request(r)
      PROVE  UNCHANGED logger /\ LoggersStay
  <2>1. CASE Receive(r)
    <3>1. UNCHANGED logger /\ pc[r] = "recv" /\ \E to : pc' = [pc EXCEPT ![r] = to]
      BY <2>1 DEF Receive, Goto
    <3> QED
      BY <3>1, MoveOfAnother DEF Logging
  <2>2. CASE ReadSnapshot(r) \/ CountClients(r) \/ CopyAlerts(r) \/ CopyUnlocked(r)
    BY <2>2 DEF ReadSnapshot, CountClients, CopyAlerts, CopyUnlocked, LoggersStay
  <2>3. CASE Respond(r)
    BY <2>3, GotoOfAnother DEF Respond
  <2>4. CASE Choose(r)
    BY <2>4, GotoOfAnother DEF Choose
  <2> QED
    BY <1>0, <1>5, <2>1, <2>2, <2>3, <2>4 DEF Request
<1>6. CASE Sent
  BY <1>6, GotoOfAnother DEF Sent
<1> QED
  BY <1>1, <1>2, <1>3, <1>4, <1>5, <1>6 DEF HttpNext

LEMMA StartingStays == ASSUME Control, Starting, [HttpNext]_httpVars PROVE Starting'
<1> USE LogPlaceNames
<1>0. /\ {"metrics", "main", "acceptor"} \subseteq DOMAIN pc /\ Readers \subseteq DOMAIN pc
      /\ \A r \in Readers : r \notin {"metrics", "main", "acceptor"}
  BY ThreadNames DEF Control
<1>1. CASE UNCHANGED pc
  BY <1>1 DEF Starting
<1>2. ASSUME NEW t \in Threads, LogLine(t) PROVE Starting'
  <2>1. \/ UNCHANGED pc
        \/ Logging(t) /\ pc' = [pc EXCEPT ![t] = AfterLogging[pc[t]]]
    BY <1>2 DEF LogLine, Logging
  <2>2. \A p \in DOMAIN AfterLogging : AfterLogging[p] # "start"
    BY LogPlaces
  <2>3. t = "acceptor" => pc["acceptor"] # "none" \/ UNCHANGED pc
    BY <2>1 DEF Logging
  <2>4. CASE t = "main" /\ Logging(t) /\ pc' = [pc EXCEPT ![t] = AfterLogging[pc[t]]]
    <3>1. pc'["main"] # "start"
      BY <1>0, <2>2, <2>4 DEF Logging
    <3> QED
      BY <3>1 DEF Starting
  <2>5. CASE t # "main" /\ Logging(t) /\ pc' = [pc EXCEPT ![t] = AfterLogging[pc[t]]]
    BY <1>0, <2>3, <2>5 DEF Starting, Logging
  <2> QED
    BY <1>1, <2>1, <2>4, <2>5
<1>3. CASE StartHttp \/ RaiseStop \/ ShutSocket \/ CloseSocket \/ JoinAcceptor \/ Destroy
           \/ CloseLog \/ Exit \/ LeaveLoop
  <2>1. pc'["main"] # "start"
    BY <1>0, <1>3 DEF StartHttp, RaiseStop, ShutSocket, CloseSocket, JoinAcceptor, Destroy,
                      CloseLog, Exit, LeaveLoop, Goto
  <2> QED
    BY <2>1 DEF Starting
<1>4. CASE Tick \/ Raise \/ Evaluated \/ NextAlert \/ MetricsEnd \/ Sent
  <2>1. pc'["main"] = pc["main"] /\ pc'["acceptor"] = pc["acceptor"]
    BY <1>0, <1>4, ThreadNames
       DEF Tick, Raise, Evaluated, NextAlert, MetricsEnd, Sent, Goto
  <2> QED
    BY <2>1 DEF Starting
<1>5. CASE CheckStop \/ CallAccept \/ AcceptFails \/ AcceptWoken
           \/ \E r \in Readers : AcceptConnection(r)
  <2>1. pc["acceptor"] # "none"
    BY <1>5 DEF CheckStop, CallAccept, AcceptFails, AcceptWoken, AcceptConnection, Goto
  <2>2. pc'["main"] = pc["main"] \/ pc'["main"] = "crashed"
    BY <1>0, <1>5
       DEF CheckStop, CallAccept, AcceptFails, AcceptWoken, AcceptConnection, Goto
  <2> QED
    BY <2>1, <2>2 DEF Starting
<1>6. ASSUME NEW r \in Readers, Receive(r) \/ Choose(r) \/ Respond(r) PROVE Starting'
  BY <1>0, <1>6 DEF Receive, Choose, Respond, Goto, Starting
<1>7. ASSUME NEW r \in Readers,
             ReadSnapshot(r) \/ CountClients(r) \/ CopyAlerts(r) \/ CopyUnlocked(r)
      PROVE  Starting'
  BY <1>1, <1>7 DEF ReadSnapshot, CountClients, CopyAlerts, CopyUnlocked
<1> QED
  BY <1>1, <1>2, <1>3, <1>4, <1>5, <1>6, <1>7, ThreadNames
     DEF HttpNext, httpVars, Main, Metrics, Acceptor, Request

LEMMA LogInitInv == HttpInit => LogInv
<1> SUFFICES ASSUME HttpInit PROVE LogInv
  OBVIOUS
<1>1. logLock = Free /\ inFile = onStderr
  BY DEF HttpInit, L!LoggerInit
<1>2. \A t \in Threads : t # Free
  BY LockAssumption, NamesAssumption DEF Threads
<1>3. pc["acceptor"] = "none"
  BY ThreadNames, Zenon DEF HttpInit
<1> QED
  BY <1>1, <1>2, <1>3 DEF LogInv, Starting

LEMMA LogNextKeepsInv == ASSUME Control, LogInv, [HttpNext]_httpVars PROVE LogInv'
<1>0. \A t \in Threads : t # Free
  BY LockAssumption, NamesAssumption DEF Threads
<1>1. CASE UNCHANGED httpVars
  BY <1>1 DEF httpVars, logger, LogInv, Logging, Running, Starting
<1>2. CASE HttpNext /\ CloseLog
  <2>1. logLock = Free /\ logLock' = Free /\ ~ logOpen'
    BY <1>2 DEF CloseLog, L!Close
  <2> QED
    BY <1>0, <2>1, StartingStays DEF LogInv
<1>3. ASSUME NEW t \in Threads, LogLine(t), HttpNext PROVE LogInv'
  <2>1. CASE L!WriteStderr(t, <<t, pc[t]>>) /\ UNCHANGED pc
    <3>1. /\ logLock = Free /\ logLock' = t /\ Logging(t) /\ logOpen' = logOpen
          /\ onStderr' = onStderr \cup {<<t, pc[t]>>} /\ inFile' = inFile
      BY <1>3, <2>1 DEF L!WriteStderr, LogLine, Logging
    <3>2. logOpen => onStderr' = inFile' \cup {<<t, pc'[t]>>}
      BY <2>1, <3>1 DEF LogInv
    <3> QED
      BY <1>0, <2>1, <3>1, <3>2, StartingStays DEF LogInv, Logging
  <2>2. CASE L!WriteFile(t, <<t, pc[t]>>)
    <3>1. /\ logLock = t /\ logLock' = Free /\ logOpen' = logOpen
          /\ inFile' = IF logOpen THEN inFile \cup {<<t, pc[t]>>} ELSE inFile
          /\ onStderr' = onStderr
      BY <2>2 DEF L!WriteFile
    <3>2. Running
      BY <1>3 DEF HttpNext
    <3>3. logOpen => inFile' = onStderr'
      BY <3>1, <3>2 DEF LogInv
    <3> QED
      BY <1>0, <3>1, <3>3, StartingStays DEF LogInv
  <2> QED
    BY <1>3, <2>1, <2>2 DEF LogLine
<1>4. CASE HttpNext /\ ~ CloseLog /\ ~ \E t \in Threads : LogLine(t)
  <2>1. UNCHANGED logger /\ LoggersStay /\ Running
    BY <1>4, OtherSteps DEF HttpNext, LogInv
  <2> QED
    BY <1>4, <2>1, StartingStays DEF LogInv, LoggersStay, Logging, Running, logger
<1> QED
  BY <1>1, <1>2, <1>3, <1>4

\* logger_close waits for the thread in the middle of an entry: the file it closes
\* has every entry that stderr has.
THEOREM FileIsWholeHolds == HttpSpec => FileIsWhole
<1>1. ASSUME HttpInv, LogInv, [HttpNext]_httpVars, logOpen, ~ logOpen' PROVE inFile = onStderr
  <2>1. CloseLog
    <3>1. ~ UNCHANGED logOpen
      BY <1>1
    <3>2. HttpNext
      BY <1>1, <3>1 DEF httpVars, logger
    <3>3. ~ \E t \in Threads : LogLine(t)
      BY <3>1 DEF LogLine, L!WriteStderr, L!WriteFile
    <3> QED
      BY <1>1, <3>1, <3>2, <3>3, OtherSteps DEF HttpInv, LogInv, logger
  <2> QED
    BY <1>1, <2>1 DEF CloseLog, L!Close, LogInv
<1>2. HttpInv /\ LogInv /\ [HttpNext]_httpVars
        => [logOpen /\ ~ logOpen' => inFile = onStderr]_httpVars
  BY <1>1
<1>3. HttpInv /\ LogInv /\ [HttpNext]_httpVars => LogInv'
  BY LogNextKeepsInv DEF HttpInv
<1> QED
  BY <1>2, <1>3, HttpInitInv, LogInitInv, HttpNextKeepsInv, PTL DEF HttpSpec, FileIsWhole

-----------------------------------------------------------------------------
(* Dashboard pages.  The alerts of the history that are older than the page's  *)
(* readings stand on the page in their order, d places further back when the   *)
(* ring has dropped d alerts since they were copied.  An alert raised later is *)
(* of the readings' cycle or a later one.                                      *)

Lists(listed, alerts, c) ==
  \E d \in Nat : \A i \in 1 .. Len(alerts) :
    alerts[i] < c => i + d \in 1 .. Len(listed) /\ listed[i + d] = alerts[i]

Ages == \A i \in 1 .. Len(Recent) : Recent[i] \in 1 .. cycle

Snapshots == \A r \in Readers : snap[r] \in 0 .. cycle

Dashboards ==
  \A r \in Readers :
    route[r] = "dashboard" =>
      todo[r] \in {Reads.dashboard, Tail(Reads.dashboard), Tail(Tail(Reads.dashboard)), <<>>}

PagesList ==
  \A r \in Readers :
    route[r] = "dashboard" /\ todo[r] = <<>> /\ Len(answer[r]) < MaxRecords[r] =>
      Lists(answer[r], Recent, snap[r])

PageShape ==
  /\ route \in [Readers -> DOMAIN Reads \cup {"none"}]
  /\ DOMAIN todo = Readers /\ DOMAIN snap = Readers

PageInv == PageShape /\ Ages /\ Snapshots /\ Dashboards /\ PagesList

\* A list that has the older alerts in their order counts as many of them.
LEMMA ListsCounts ==
  ASSUME NEW R, NEW listed \in Seq(R), NEW alerts \in Seq(R), NEW c, Lists(listed, alerts, c)
  PROVE  CountBefore(listed, c) >= CountBefore(alerts, c)
<1> DEFINE S == {i \in DOMAIN alerts : alerts[i] < c}
           T == {i \in DOMAIN listed : listed[i] < c}
<1>1. PICK d \in Nat : \A i \in 1 .. Len(alerts) :
        alerts[i] < c => i + d \in 1 .. Len(listed) /\ listed[i + d] = alerts[i]
  BY DEF Lists
<1>2. DOMAIN alerts = 1 .. Len(alerts) /\ DOMAIN listed = 1 .. Len(listed)
  OBVIOUS
<1> DEFINE f == [i \in S |-> i + d]
<1>3. f \in [S -> T]
  BY <1>1, <1>2
<1>4. \A i, j \in S : f[i] = f[j] => i = j
  BY <1>2
<1>5. f \in Injection(S, T)
  BY <1>3, <1>4, Zenon DEF Injection, IsInjective
<1>6. IsFiniteSet(T)
  <2>1. IsFiniteSet(1 .. Len(listed)) /\ T \in SUBSET (1 .. Len(listed))
    BY <1>2, FS_Interval
  <2> QED
    BY <2>1, FS_Subset
<1>7. Cardinality(S) <= Cardinality(T) /\ IsFiniteSet(S)
  BY <1>5, <1>6, FS_Injection
<1>8. Cardinality(S) \in Int /\ Cardinality(T) \in Int
  BY <1>6, <1>7, FS_CardinalityType
<1> QED
  BY <1>7, <1>8 DEF CountBefore

-----------------------------------------------------------------------------
(* What each step does to the pages and to the log that the ring represents. *)

\* A thread that serves a request takes another step than copying the alerts.
PageStep(r) == Choose(r) \/ ReadSnapshot(r) \/ CountClients(r) \/ Respond(r)

\* A copy of the alerts ends.
CopyDone(r) ==
  /\ Reading(r, "alerts") /\ Log!Answer(r)
  /\ todo' = [todo EXCEPT ![r] = Tail(@)]
  /\ UNCHANGED <<route, snap, cycle>>

LEMMA CopyStep ==
  ASSUME Inv, NEW r \in Readers, CopyAlerts(r) \/ CopyUnlocked(r)
  PROVE  UNCHANGED <<Recent, answer, page, cycle>> \/ CopyDone(r)
<1>1. CASE UNCHANGED todo /\ (CopyBegin(r) \/ CopyRecord(r))
  <2>1. UNCHANGED Log!logVars
    BY <1>1, StutterRefines DEF CopyBegin, CopyRecord
  <2>2. UNCHANGED <<route, snap, cycle>>
    BY DEF CopyAlerts, CopyUnlocked, others
  <2> QED
    BY <1>1, <2>1, <2>2 DEF Log!logVars, page
<1>2. CASE CopyAlerts(r) /\ CopyEnd(r) /\ todo' = [todo EXCEPT ![r] = Tail(@)]
  BY <1>2, CopyEndRefines DEF CopyAlerts, CopyDone, others
<1>3. CASE CopyUnlocked(r)
  BY <1>3, CopyUnlockedRefines DEF CopyUnlocked, CopyDone, others
<1> QED
  BY <1>1, <1>2, <1>3 DEF CopyAlerts

LEMMA PageSteps ==
  ASSUME HttpInv, [HttpNext]_httpVars
  PROVE  \/ UNCHANGED <<Recent, answer, page>> /\ cycle' \in {cycle, cycle + 1}
         \/ cycle \in Alerts /\ cycle >= 1 /\ Log!Record(cycle) /\ UNCHANGED <<page, cycle>>
         \/ \E r \in Readers : PageStep(r) /\ UNCHANGED <<Recent, answer, cycle>>
         \/ \E r \in Readers : CopyDone(r)
<1> USE DEF page, others
<1>0. UNCHANGED vars => UNCHANGED <<Recent, answer>>
  BY DEF vars, history, Recent, Available, Oldest
<1>1. CASE UNCHANGED httpVars
  BY <1>0, <1>1 DEF httpVars
<1>2. CASE Main
  BY <1>0, <1>2 DEF Main, LogLine, StartHttp, RaiseStop, ShutSocket, CloseSocket, JoinAcceptor,
              Destroy, CloseLog, Exit
<1>3. CASE LeaveLoop
  BY <1>0, <1>3 DEF LeaveLoop
<1>4. CASE Metrics
  <2>1. CASE Raise
    <3>1. cycle \in Alerts /\ cycle >= 1 /\ Push(cycle)
      BY <2>1, CyclesAssumption DEF Raise, HttpInv, Control, Writing
    <3>2. Log!Record(cycle)
      BY <3>1, PushRefines DEF HttpInv
    <3> QED
      BY <2>1, <3>1, <3>2 DEF Raise
  <2> QED
    BY <1>0, <1>4, <2>1 DEF Metrics, LogLine, Tick, Evaluated, NextAlert, MetricsEnd
<1>5. CASE Acceptor
  BY <1>0, <1>5 DEF Acceptor, LogLine, CheckStop, CallAccept, AcceptFails, AcceptWoken,
                    AcceptConnection
<1>6. ASSUME NEW r \in Readers, PageStep(r)
      PROVE  UNCHANGED <<Recent, answer, cycle>>
  BY <1>0, <1>6 DEF PageStep, Choose, ReadSnapshot, CountClients, Respond
<1>7. ASSUME NEW r \in Readers, Receive(r) \/ LogLine(r)
      PROVE  UNCHANGED <<Recent, answer, page>> /\ cycle' = cycle
  BY <1>0, <1>7 DEF Receive, LogLine
<1>8. ASSUME NEW r \in Readers, CopyAlerts(r) \/ CopyUnlocked(r)
      PROVE  UNCHANGED <<Recent, answer, page, cycle>> \/ CopyDone(r)
  BY <1>8, CopyStep DEF HttpInv
<1>9. CASE Sent
  BY <1>0, <1>9 DEF Sent
<1> QED
  BY <1>1, <1>2, <1>3, <1>4, <1>5, <1>6, <1>7, <1>8, <1>9 DEF HttpNext, Request, PageStep

LEMMA PageShapeStays ==
  ASSUME HttpInv, PageInv, [HttpNext]_httpVars
  PROVE  PageShape'
<1> USE DEF page
<1>1. CASE UNCHANGED page
  BY <1>1 DEF PageInv, PageShape
<1>2. ASSUME NEW r \in Readers, PageStep(r) PROVE PageShape'
  <2>1. CASE Choose(r)
    BY <2>1 DEF PageInv, PageShape, Choose
  <2>2. CASE ReadSnapshot(r)
    BY <2>2 DEF PageInv, PageShape, ReadSnapshot
  <2>3. CASE Respond(r)
    BY <2>3 DEF PageInv, PageShape, Respond
  <2>4. CASE CountClients(r)
    BY <2>4 DEF PageInv, PageShape, CountClients
  <2> QED
    BY <1>2, <2>1, <2>2, <2>3, <2>4 DEF PageStep
<1>3. ASSUME NEW r \in Readers, CopyDone(r) PROVE PageShape'
  BY <1>3 DEF PageInv, PageShape, CopyDone
<1> QED
  BY <1>1, <1>2, <1>3, PageSteps

LEMMA SnapshotsStay ==
  ASSUME HttpInv, PageInv, [HttpNext]_httpVars
  PROVE  Snapshots'
<1>0. cycle \in Nat
  BY CyclesAssumption DEF HttpInv, Control
<1>1. CASE UNCHANGED snap /\ cycle' \in {cycle, cycle + 1}
  BY <1>0, <1>1 DEF PageInv, Snapshots
<1>2. ASSUME NEW r \in Readers, PageStep(r), UNCHANGED cycle PROVE Snapshots'
  <2>1. CASE Choose(r) \/ CountClients(r)
    BY <1>2, <2>1 DEF PageInv, Snapshots, Choose, CountClients
  <2>2. CASE ReadSnapshot(r)
    BY <1>0, <1>2, <2>2 DEF PageInv, PageShape, Snapshots, ReadSnapshot
  <2>3. CASE Respond(r)
    BY <1>0, <1>2, <2>3 DEF PageInv, PageShape, Snapshots, Respond
  <2> QED
    BY <1>2, <2>1, <2>2, <2>3 DEF PageStep
<1> QED
  BY <1>1, <1>2, PageSteps DEF CopyDone, page

\* The parts of a dashboard are read in the order of Reads.
LEMMA ReadsOrder ==
  LET d == Reads.dashboard
  IN  /\ d = <<"snapshot", "clients", "alerts">>
      /\ Tail(d) = <<"clients", "alerts">> /\ Tail(Tail(d)) = <<"alerts">>
      /\ Tail(Tail(Tail(d))) = <<>>
      /\ d # <<>> /\ Tail(d) # <<>> /\ Tail(Tail(d)) # <<>>
      /\ Head(d) = "snapshot" /\ Head(Tail(d)) = "clients" /\ Head(Tail(Tail(d))) = "alerts"
  BY DEF Reads

LEMMA DashboardsStay ==
  ASSUME HttpInv, PageInv, [HttpNext]_httpVars
  PROVE  Dashboards'
<1> USE DEF page
<1>1. CASE UNCHANGED page
  BY <1>1 DEF PageInv, Dashboards
<1>2. ASSUME NEW r \in Readers, PageStep(r) PROVE Dashboards'
  <2>1. CASE Choose(r)
    <3>1. \A q \in Readers : q # r => route'[q] = route[q] /\ todo'[q] = todo[q]
      BY <2>1 DEF PageInv, PageShape, Choose
    <3>2. \E p \in DOMAIN Reads : route'[r] = p /\ todo'[r] = Reads[p]
      BY <2>1 DEF PageInv, PageShape, Choose
    <3> QED
      BY <3>1, <3>2 DEF PageInv, Dashboards
  <2>2. CASE ReadSnapshot(r) \/ CountClients(r)
    <3>1. \A q \in Readers : q # r => todo'[q] = todo[q]
      BY <2>2 DEF PageInv, PageShape, ReadSnapshot, CountClients
    <3>2. todo'[r] = Tail(todo[r]) /\ todo[r] # <<>>
      BY <2>2 DEF PageInv, PageShape, ReadSnapshot, CountClients, Reading
    <3>3. UNCHANGED route
      BY <2>2 DEF ReadSnapshot, CountClients
    <3> QED
      BY <3>1, <3>2, <3>3, ReadsOrder DEF PageInv, Dashboards
  <2>3. CASE Respond(r)
    BY <2>3 DEF PageInv, PageShape, Dashboards, Respond
  <2> QED
    BY <1>2, <2>1, <2>2, <2>3 DEF PageStep
<1>3. ASSUME NEW r \in Readers, CopyDone(r) PROVE Dashboards'
  <2>1. \A q \in Readers : q # r => todo'[q] = todo[q]
    BY <1>3 DEF PageInv, PageShape, CopyDone
  <2>2. todo'[r] = Tail(todo[r]) /\ Head(todo[r]) = "alerts" /\ todo[r] # <<>>
    BY <1>3 DEF PageInv, PageShape, CopyDone, Reading
  <2>3. UNCHANGED route
    BY <1>3 DEF CopyDone
  <2> QED
    BY <2>1, <2>2, <2>3, ReadsOrder DEF PageInv, Dashboards
<1> QED
  BY <1>1, <1>2, <1>3, PageSteps

\* A push drops e records at the front, one or none, and adds one at the end.
LEMMA PushMoves ==
  ASSUME HttpInv, NEW a \in Alerts, Log!Record(a)
  PROVE  \E e \in {0, 1} : \A i \in 1 .. Len(Recent') :
           \/ Recent'[i] = a
           \/ i + e \in 1 .. Len(Recent) /\ Recent'[i] = Recent[i + e]
<1>1. /\ Recent \in Seq(Alerts \cup {NoAlert}) /\ Len(Recent) = Available
      /\ Available \in 0 .. HistorySize
  BY RecentIsSequence, AvailableType DEF HttpInv, Inv, Records
<1>2. Recent' = Log!Newest(HistorySize, Append(Recent, a)) /\ a \in Alerts \cup {NoAlert}
  BY DEF Log!Record
<1>3. CASE Len(Recent) < HistorySize
  <2>1. Recent' = Append(Recent, a)
    BY <1>1, <1>2, <1>3, NewestOfAppendWithRoom
  <2>2. \A i \in 1 .. Len(Recent') :
          Recent'[i] = a \/ (i + 0 \in 1 .. Len(Recent) /\ Recent'[i] = Recent[i + 0])
    BY <1>1, <1>2, <2>1
  <2> QED
    BY <2>2
<1>4. CASE Len(Recent) = HistorySize
  <2>1. Recent' = Shifted(Recent, a)
    BY <1>1, <1>2, <1>4, NewestOfAppendWhenFull
  <2>2. \A i \in 1 .. Len(Recent') :
          Recent'[i] = a \/ (i + 1 \in 1 .. Len(Recent) /\ Recent'[i] = Recent[i + 1])
    BY <1>1, <1>4, <2>1, RingAssumption DEF Shifted
  <2> QED
    BY <2>2
<1> QED
  BY <1>1, <1>3, <1>4, RingAssumption

LEMMA AgesStay ==
  ASSUME HttpInv, PageInv, [HttpNext]_httpVars
  PROVE  Ages'
<1>0. cycle \in Nat /\ Ages
  BY CyclesAssumption DEF HttpInv, Control, PageInv
<1>1. CASE UNCHANGED Recent /\ cycle' \in {cycle, cycle + 1}
  BY <1>0, <1>1 DEF Ages
<1>2. CASE cycle \in Alerts /\ cycle >= 1 /\ Log!Record(cycle) /\ UNCHANGED cycle
  <2>1. PICK e \in {0, 1} : \A i \in 1 .. Len(Recent') :
          Recent'[i] = cycle \/ (i + e \in 1 .. Len(Recent) /\ Recent'[i] = Recent[i + e])
    BY <1>2, PushMoves
  <2> QED
    BY <1>0, <1>2, <2>1 DEF Ages
<1>3. ASSUME NEW r \in Readers, CopyDone(r) PROVE UNCHANGED <<Recent, cycle>>
  BY <1>3 DEF CopyDone, Log!Answer
<1> QED
  BY <1>1, <1>2, <1>3, PageSteps DEF page

\* What is listed stays listed when the history moves on by an alert that is no older
\* than the readings.
LEMMA ListsMovesOn ==
  ASSUME NEW listed, NEW old, NEW new, Len(old) \in Nat, Len(new) \in Nat,
         NEW c \in Nat, NEW a \in Nat, a >= c, Lists(listed, old, c),
         NEW e \in {0, 1},
         \A i \in 1 .. Len(new) : new[i] = a \/ (i + e \in 1 .. Len(old) /\ new[i] = old[i + e])
  PROVE  Lists(listed, new, c)
<1>1. PICK d \in Nat : \A i \in 1 .. Len(old) :
        old[i] < c => i + d \in 1 .. Len(listed) /\ listed[i + d] = old[i]
  BY DEF Lists
<1>2. e + d \in Nat
  OBVIOUS
<1>3. ASSUME NEW i \in 1 .. Len(new), new[i] < c
      PROVE  i + (e + d) \in 1 .. Len(listed) /\ listed[i + (e + d)] = new[i]
  <2>1. i + e \in 1 .. Len(old) /\ new[i] = old[i + e]
    BY <1>3
  <2>2. (i + e) + d = i + (e + d)
    OBVIOUS
  <2> QED
    BY <1>1, <1>3, <2>1, <2>2
<1> QED
  BY <1>2, <1>3 DEF Lists

\* A copy shorter than what was asked for is the whole history.
LEMMA CopyLists ==
  ASSUME HttpInv, PageInv, NEW r \in Readers, CopyDone(r), Len(answer'[r]) < MaxRecords[r],
         NEW c
  PROVE  Lists(answer'[r], Recent', c)
<1>1. Recent \in Seq(Alerts \cup {NoAlert}) /\ Len(Recent) \in Nat /\ MaxRecords[r] \in Nat
  BY RecentIsSequence, RingAssumption DEF HttpInv, Inv, Records
<1>2. answer'[r] = Log!Newest(MaxRecords[r], Recent) /\ Recent' = Recent
  BY DEF CopyDone, Log!Answer, HttpInv, Inv, TypeOK
<1>3. Len(Recent) < MaxRecords[r]
  <2>1. CASE ~ Len(Recent) < MaxRecords[r]
    <3>1. answer'[r] = [i \in 1 .. MaxRecords[r] |-> Recent[Len(Recent) - MaxRecords[r] + i]]
      BY <1>2, <2>1 DEF Log!Newest
    <3> QED
      BY <1>1, <3>1
  <2> QED
    BY <2>1
<1>4. answer'[r] = [i \in 1 .. Len(Recent) |-> Recent[Len(Recent) - Len(Recent) + i]]
  BY <1>2, <1>3 DEF Log!Newest
<1>5. Len(answer'[r]) = Len(Recent) /\ \A i \in 1 .. Len(Recent) : answer'[r][i] = Recent[i]
  BY <1>1, <1>4
<1>6. 0 \in Nat /\ \A i \in 1 .. Len(Recent) : i + 0 = i
  BY <1>1
<1> QED
  BY <1>1, <1>2, <1>5, <1>6 DEF Lists

LEMMA PagesListStay ==
  ASSUME HttpInv, PageInv, [HttpNext]_httpVars
  PROVE  PagesList'
<1>0. cycle \in Nat /\ PageShape /\ Snapshots /\ Dashboards /\ PagesList
  BY CyclesAssumption DEF HttpInv, Control, PageInv
<1>1. CASE UNCHANGED <<Recent, answer, page>>
  BY <1>0, <1>1 DEF PagesList, page
<1>2. CASE cycle \in Alerts /\ cycle >= 1 /\ Log!Record(cycle) /\ UNCHANGED <<page, cycle>>
  <2>1. PICK e \in {0, 1} : \A i \in 1 .. Len(Recent') :
          Recent'[i] = cycle \/ (i + e \in 1 .. Len(Recent) /\ Recent'[i] = Recent[i + e])
    BY <1>2, PushMoves
  <2>2. Len(Recent) \in Nat /\ Len(Recent') \in Nat
    BY HttpNextKeepsInv, RecentIsSequence, AvailableType DEF HttpInv, Inv
  <2>3. ASSUME NEW r \in Readers, Lists(answer[r], Recent, snap[r])
        PROVE  Lists(answer[r], Recent', snap[r])
    <3>1. snap[r] \in Nat /\ cycle >= snap[r]
      BY <1>0 DEF Snapshots
    <3> QED
      BY <1>0, <2>1, <2>2, <2>3, <3>1, ListsMovesOn
  <2>4. UNCHANGED <<route, todo, snap, answer>>
    BY <1>2 DEF page, Log!Record
  <2> QED
    BY <1>0, <2>3, <2>4 DEF PagesList
<1>3. ASSUME NEW r \in Readers, PageStep(r), UNCHANGED <<Recent, answer, cycle>>
      PROVE  PagesList'
  <2>1. \A q \in Readers : q # r => /\ route'[q] = route[q] /\ todo'[q] = todo[q]
                                    /\ snap'[q] = snap[q]
    BY <1>0, <1>3 DEF PageShape, PageStep, Choose, ReadSnapshot, CountClients, Respond
  <2>2. CASE ReadSnapshot(r) \/ CountClients(r)
    <3>1. /\ UNCHANGED route /\ todo'[r] = Tail(todo[r])
          /\ todo[r] # <<>> /\ Head(todo[r]) \in {"snapshot", "clients"}
      BY <1>0, <2>2 DEF PageShape, ReadSnapshot, CountClients, Reading
    <3>2. ~ (route'[r] = "dashboard" /\ todo'[r] = <<>>)
      BY <1>0, <3>1, ReadsOrder DEF Dashboards
    <3> QED
      BY <1>0, <1>3, <2>1, <3>2 DEF PagesList
  <2>3. CASE Choose(r)
    <3>1. \E p \in DOMAIN Reads : route'[r] = p /\ todo'[r] = Reads[p]
      BY <1>0, <2>3 DEF PageShape, Choose
    <3>2. ~ (route'[r] = "dashboard" /\ todo'[r] = <<>>)
      BY <3>1, ReadsOrder
    <3> QED
      BY <1>0, <1>3, <2>1, <3>2 DEF PagesList
  <2>4. CASE Respond(r)
    <3>1. route'[r] # "dashboard"
      BY <1>0, <2>4 DEF PageShape, Respond
    <3> QED
      BY <1>0, <1>3, <2>1, <3>1 DEF PagesList
  <2> QED
    BY <1>3, <2>2, <2>3, <2>4 DEF PageStep
<1>4. ASSUME NEW r \in Readers, CopyDone(r) PROVE PagesList'
  <2>1. \A q \in Readers : q # r => todo'[q] = todo[q] /\ answer'[q] = answer[q]
    BY <1>0, <1>4 DEF PageShape, CopyDone, Log!Answer, HttpInv, Inv, TypeOK
  <2>2. UNCHANGED <<route, snap, Recent>>
    BY <1>4 DEF CopyDone, Log!Answer
  <2>3. Len(answer'[r]) < MaxRecords[r] => Lists(answer'[r], Recent', snap'[r])
    BY <1>4, CopyLists
  <2> QED
    BY <1>0, <2>1, <2>2, <2>3 DEF PagesList
<1> QED
  BY <1>1, <1>2, <1>3, <1>4, PageSteps

LEMMA PageNextKeepsInv == HttpInv /\ PageInv /\ [HttpNext]_httpVars => PageInv'
  BY PageShapeStays, AgesStay, SnapshotsStay, DashboardsStay, PagesListStay DEF PageInv

LEMMA PageInitInv == HttpInit => PageInv
<1> SUFFICES ASSUME HttpInit PROVE PageInv
  OBVIOUS
<1>1. Recent = <<>>
  BY InitRefines DEF HttpInit, Log!LogInit
<1>2. /\ route = [r \in Readers |-> "none"] /\ snap = [r \in Readers |-> 0] /\ cycle = 0
      /\ DOMAIN todo = Readers
  BY DEF HttpInit
<1>3. PageShape
  BY <1>2 DEF PageShape
<1>4. Ages
  BY <1>1 DEF Ages
<1>5. Snapshots
  BY <1>2 DEF Snapshots
<1>6. Dashboards /\ PagesList
  BY <1>2 DEF Dashboards, PagesList
<1> QED
  BY <1>3, <1>4, <1>5, <1>6 DEF PageInv

\* A dashboard page lists every alert that is older than the readings on it, unless
\* its list is full, although the metrics thread goes on between the two.
THEOREM DashboardMissesNothingHolds == HttpSpec => []DashboardMissesNothing
<1>1. HttpInv /\ PageInv => DashboardMissesNothing
  <2> SUFFICES ASSUME HttpInv, PageInv, NEW r \in Readers, route[r] = "dashboard",
                      todo[r] = <<>>, Len(answer[r]) < MaxRecords[r]
               PROVE  CountBefore(answer[r], snap[r]) >= CountBefore(Recent, snap[r])
    BY DEF DashboardMissesNothing
  <2>1. Lists(answer[r], Recent, snap[r])
    BY DEF PageInv, PagesList
  <2>2. answer[r] \in Seq(Alerts \cup {NoAlert}) /\ Recent \in Seq(Alerts \cup {NoAlert})
    BY RecentIsSequence DEF HttpInv, Inv, TypeOK, Records
  <2> QED
    BY <2>1, <2>2, ListsCounts
<1> QED
  BY <1>1, HttpInitInv, HttpNextKeepsInv, PageInitInv, PageNextKeepsInv, PTL DEF HttpSpec
=============================================================================
