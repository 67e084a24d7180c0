--------------------------- MODULE EquipmentProofs ---------------------------
(* Theorems of Equipment for every IntMax, every set of deltas and every     *)
(* subset of the jitter range.                                               *)
EXTENDS Equipment, TLAPS

\* Clamp returns a value of its interval.
LEMMA ClampInRange ==
  \A v, lo, hi \in Int : lo <= hi => Clamp(v, lo, hi) \in lo .. hi
  BY DEF Clamp

\* Clamp leaves a value of its interval alone.
LEMMA ClampIsIdentityInRange ==
  \A lo, hi \in Int : \A v \in lo .. hi : Clamp(v, lo, hi) = v
  BY DEF Clamp

\* A number outside neither end of an interval is in it.
LEMMA BetweenTheEnds ==
  \A n, hi \in Int : ~ n < 0 /\ ~ n > hi => n \in 0 .. hi
  OBVIOUS

\* The base pressure is between 30 and 80 for every rpm in range.
LEMMA BasePressureInRange ==
  \A r \in 0 .. RpmMax : BasePressure(r) \in 30 .. 80
  BY DEF RpmMax, BasePressure

\* The sum of an rpm and an int of the machine is an integer; it is the exact
\* sum whenever it is not negative.
LEMMA SumExactUnlessNegative ==
  ASSUME NEW r \in 0 .. RpmMax, NEW d \in Ints
  PROVE  /\ WrappedSum(r, d) \in Int
         /\ WrappedSum(r, d) >= 0 => WrappedSum(r, d) = r + d
  BY IntMaxAssumption DEF RpmMax, Ints, WrappedSum

\* The two parts of the envelope that a tick maintains.
EnvelopeInv == TypeOK /\ Envelope

LEMMA ModifyKeepsInv ==
  ASSUME EnvelopeInv, NEW delta \in Deltas, ModifyRpm(delta)
  PROVE  EnvelopeInv'
<1>1. delta \in Ints
  BY DeltasAssumption
<1>2. equipment.rpm \in 0 .. RpmMax
  BY DEF EnvelopeInv, TypeOK, EquipmentState
<1>3. WrappedSum(equipment.rpm, delta) \in Int
  BY <1>1, <1>2, SumExactUnlessNegative
<1>4. ModifiedRpm(equipment, delta) \in 0 .. RpmMax
  <2>1. Clamp(WrappedSum(equipment.rpm, delta), 0, RpmMax) \in 0 .. RpmMax
    <3>1. RpmMax \in Int /\ 0 \in Int /\ 0 <= RpmMax
      BY DEF RpmMax
    <3> QED
      BY <1>3, <3>1, ClampInRange, Zenon
  <2> QED
    BY <1>2, <2>1, Zenon DEF ModifiedRpm
<1>5. ModifyReason(equipment, delta) \in Reasons
  BY DEF ModifyReason, Reasons
<1>6. equipment' \in EquipmentState
  BY <1>4 DEF EnvelopeInv, TypeOK, EquipmentState, ModifyRpm, Modified
<1>7. reply' \in Replies
  BY <1>5 DEF ModifyRpm, Replies
<1>8. Envelope'
  BY DEF EnvelopeInv, TypeOK, EquipmentState, Envelope, ModifyRpm, Modified
<1> QED
  BY <1>6, <1>7, <1>8 DEF EnvelopeInv, TypeOK

LEMMA AdjustKeepsInv ==
  ASSUME EnvelopeInv, NEW direction \in Turns, AdjustHeading(direction)
  PROVE  EnvelopeInv'
<1>1. AdjustedHeading(equipment.heading, direction) \in Headings
  BY TurnsAssumption
     DEF EnvelopeInv, TypeOK, EquipmentState, Headings, Directions, AdjustedHeading
<1>2. equipment' \in EquipmentState
  BY <1>1 DEF EnvelopeInv, TypeOK, EquipmentState, AdjustHeading, Adjusted
<1>3. reply' \in Replies
  BY DEF AdjustHeading, Replies, NoReply
<1>4. Envelope'
  BY DEF EnvelopeInv, TypeOK, EquipmentState, Envelope, AdjustHeading, Adjusted
<1> QED
  BY <1>2, <1>3, <1>4 DEF EnvelopeInv, TypeOK

LEMMA TickKeepsInv ==
  ASSUME EnvelopeInv, NEW noise \in Noise, Tick(noise)
  PROVE  EnvelopeInv'
<1>1. noise \in -3 .. 3
  BY NoiseAssumption DEF Jitter, JitterRange
<1>2. /\ equipment.rpm \in 0 .. 5000
      /\ equipment.load \in 0 .. 100
      /\ equipment.temp \in 28 .. 100
  BY DEF EnvelopeInv, TypeOK, EquipmentState, Envelope, RpmMax, TempAmbient
<1>3. TickedLoad(equipment) \in 0 .. 100
  BY <1>2, ClampInRange DEF TickedLoad, Drain, Clamp
<1>4. TickedTemp(equipment) \in 28 .. 100
  BY <1>2 DEF TickedTemp, TempAmbient, Clamp
<1>5. TickedPressure(equipment, noise) \in 27 .. 83
  <2>0. equipment.rpm \in 0 .. RpmMax
    BY <1>2 DEF RpmMax
  <2>1. BasePressure(equipment.rpm) \in 30 .. 80
    BY <2>0, BasePressureInRange
  <2> QED
    BY <1>1, <2>1 DEF TickedPressure, Clamp
<1>6. equipment' \in EquipmentState
  <2>1. /\ TickedTemp(equipment) \in 0 .. 100
        /\ TickedPressure(equipment, noise) \in 0 .. 100
    BY <1>4, <1>5
  <2>2. equipment \in EquipmentState
    BY DEF EnvelopeInv, TypeOK
  <2> QED
    BY <1>3, <2>1, <2>2 DEF EquipmentState, Tick, Ticked
<1>7. reply' \in Replies
  BY DEF Tick, Replies, NoReply
<1>8. /\ equipment'.temp = TickedTemp(equipment)
      /\ equipment'.pressure = TickedPressure(equipment, noise)
  BY DEF EnvelopeInv, TypeOK, EquipmentState, Tick, Ticked
<1>9. Envelope'
  BY <1>4, <1>5, <1>8 DEF Envelope, TempAmbient, JitterRange
<1> QED
  BY <1>6, <1>7, <1>9 DEF EnvelopeInv, TypeOK

LEMMA InitInv == Init => EnvelopeInv
  BY DEF Init, EnvelopeInv, TypeOK, Envelope, EquipmentState, InitialEquipment,
         Replies, NoReply, Headings, RpmMax, TempAmbient, JitterRange

LEMMA NextKeepsInv == EnvelopeInv /\ [Next]_vars => EnvelopeInv'
<1> SUFFICES ASSUME EnvelopeInv, [Next]_vars PROVE EnvelopeInv'
  OBVIOUS
<1>1. CASE Next
  BY <1>1, ModifyKeepsInv, AdjustKeepsInv, TickKeepsInv DEF Next
<1>2. CASE UNCHANGED vars
  BY <1>2 DEF vars, EnvelopeInv, TypeOK, Envelope
<1> QED
  BY <1>1, <1>2

\* Every reachable state is in the documented value ranges.
THEOREM TypeCorrect == Spec => []TypeOK
<1>1. EnvelopeInv => TypeOK
  BY DEF EnvelopeInv
<1> QED
  BY <1>1, InitInv, NextKeepsInv, PTL DEF Spec

\* The coolant stays at or above ambient and the pressure within 27 .. 83.
THEOREM EnvelopeHolds == Spec => []Envelope
<1>1. EnvelopeInv => Envelope
  BY DEF EnvelopeInv
<1> QED
  BY <1>1, InitInv, NextKeepsInv, PTL DEF Spec

\* RpmMax is a number.
LEMMA RpmMaxIsInt == RpmMax \in Int
  BY DEF RpmMax

\* Below 10 % load neither commands nor ticks raise the rpm, and the load does not
\* come back.
THEOREM NeverRaisedHolds == Spec => NeverRaisedAgain
<1> DEFINE Falling == equipment.load < LoadFloor =>
                       /\ equipment'.rpm <= equipment.rpm
                       /\ equipment'.load <= equipment.load
                       /\ equipment'.load < LoadFloor
<1>1. EnvelopeInv /\ EnvelopeInv' /\ [Next]_vars => [Falling]_vars
  <2> SUFFICES ASSUME EnvelopeInv, EnvelopeInv', Next, equipment.load < LoadFloor
               PROVE  /\ equipment'.rpm <= equipment.rpm
                      /\ equipment'.load <= equipment.load
                      /\ equipment'.load < LoadFloor
    OBVIOUS
  <2>1. /\ equipment \in EquipmentState
        /\ equipment.load \in 0 .. 100 /\ equipment.rpm \in 0 .. RpmMax
    BY DEF EnvelopeInv, TypeOK, EquipmentState
  <2>2. ASSUME NEW delta \in Deltas, ModifyRpm(delta)
        PROVE  equipment'.rpm = equipment.rpm /\ equipment'.load = equipment.load
    BY <2>1, <2>2 DEF ModifyRpm, Modified, ModifiedRpm, EquipmentState
  <2>3. ASSUME NEW direction \in Turns, AdjustHeading(direction)
        PROVE  equipment'.rpm = equipment.rpm /\ equipment'.load = equipment.load
    BY <2>1, <2>3 DEF AdjustHeading, Adjusted, EquipmentState
  <2>4. ASSUME NEW noise \in Noise, Tick(noise)
        PROVE  equipment'.rpm = equipment.rpm /\ equipment'.load <= equipment.load
    <3>1. TickedLoad(equipment) <= equipment.load
      BY <2>1 DEF TickedLoad, Drain, Clamp
    <3> QED
      BY <2>1, <2>4, <3>1 DEF Tick, Ticked, EquipmentState
  <2>5. equipment'.rpm = equipment.rpm /\ equipment'.load <= equipment.load
    BY <2>1, <2>2, <2>3, <2>4 DEF Next
  <2>6. equipment'.load \in 0 .. 100
    BY DEF EnvelopeInv, TypeOK, EquipmentState
  <2> QED
    BY <2>1, <2>5, <2>6, RpmMaxIsInt DEF LoadFloor
<1> QED
  BY <1>1, InitInv, NextKeepsInv, PTL DEF Spec, NeverRaisedAgain

\* An OK answer means the rpm moved by exactly the requested delta.
THEOREM OkIsExactHolds == Spec => OkIsExact
<1> DEFINE Exact == reply' # reply /\ reply'.reason = "rpm" =>
                      equipment'.rpm = equipment.rpm + reply'.delta
<1>1. EnvelopeInv /\ [Next]_vars => [Exact]_vars
  <2> SUFFICES ASSUME EnvelopeInv, Next, reply'.reason = "rpm"
               PROVE  equipment'.rpm = equipment.rpm + reply'.delta
    OBVIOUS
  <2>1. PICK delta \in Deltas : ModifyRpm(delta)
    BY DEF Next, AdjustHeading, Tick, NoReply
  <2>2. /\ equipment.rpm \in 0 .. RpmMax
        /\ delta \in Ints
        /\ equipment'.rpm = ModifiedRpm(equipment, delta)
        /\ reply'.delta = delta
        /\ ModifyReason(equipment, delta) = "rpm"
    BY <2>1, DeltasAssumption
       DEF EnvelopeInv, TypeOK, EquipmentState, ModifyRpm, Modified
  <2>3. /\ ~ equipment.load < LoadFloor
        /\ WrappedSum(equipment.rpm, delta) \in 0 .. RpmMax
    <3>1. WrappedSum(equipment.rpm, delta) \in Int
      BY <2>2, SumExactUnlessNegative
    <3>2. /\ ~ equipment.load < LoadFloor
          /\ ~ WrappedSum(equipment.rpm, delta) < 0
          /\ ~ WrappedSum(equipment.rpm, delta) > RpmMax
      BY <2>2, Zenon DEF ModifyReason
    <3>3. WrappedSum(equipment.rpm, delta) \in 0 .. RpmMax
      <4>1. RpmMax \in Int
        BY DEF RpmMax
      <4> QED
        BY <3>1, <3>2, <4>1, BetweenTheEnds, Zenon
    <3> QED
      BY <3>2, <3>3, Zenon
  <2>4. ModifiedRpm(equipment, delta) = WrappedSum(equipment.rpm, delta)
    <3>1. Clamp(WrappedSum(equipment.rpm, delta), 0, RpmMax)
            = WrappedSum(equipment.rpm, delta)
      <4>1. 0 \in Int /\ RpmMax \in Int
        BY DEF RpmMax
      <4> QED
        BY <2>3, <4>1, ClampIsIdentityInRange, Zenon
    <3> QED
      BY <2>3, <3>1, Zenon DEF ModifiedRpm
  <2> QED
    BY <2>2, <2>3, <2>4, SumExactUnlessNegative
<1> QED
  BY <1>1, InitInv, NextKeepsInv, PTL DEF Spec, OkIsExact

\* Clamping a larger value than one of the interval gives no smaller one.
LEMMA ClampKeepsAbove ==
  ASSUME NEW lo \in Int, NEW hi \in Int, NEW r \in lo .. hi, NEW n \in Int, n > r
  PROVE  Clamp(n, lo, hi) >= r
  BY DEF Clamp

\* An increase within the range of int raises the rpm or leaves it at its maximum.
LEMMA IncreaseRaises ==
  ASSUME NEW r \in 0 .. RpmMax, NEW d \in Ints, d > 0, ~ r + d > IntMax
  PROVE  Clamp(WrappedSum(r, d), 0, RpmMax) >= r
<1>1. RpmMax \in Int /\ 0 \in Int
  BY DEF RpmMax
<1>2. r \in Int /\ d \in Int /\ IntMax \in Int
  BY <1>1, IntMaxAssumption DEF Ints
<1>3. WrappedSum(r, d) = r + d
  BY <1>1, <1>2 DEF WrappedSum
<1>4. r + d \in Int /\ r + d > r
  BY <1>2
<1> QED
  BY <1>1, <1>3, <1>4, ClampKeepsAbove

\* An increase lowers the rpm only when the sum leaves the range of int: clamping
\* alone cannot, whatever the word size.
THEOREM DecreaseHolds == Spec => DecreaseOnlyByOverflow
<1> DEFINE Lowered == reply' # reply /\ reply'.delta > 0 /\ equipment'.rpm < equipment.rpm =>
                        equipment.rpm + reply'.delta > IntMax
<1>1. EnvelopeInv /\ [Next]_vars => [Lowered]_vars
  <2> SUFFICES ASSUME EnvelopeInv, Next, reply'.delta > 0, equipment'.rpm < equipment.rpm,
                      ~ equipment.rpm + reply'.delta > IntMax
               PROVE  FALSE
    OBVIOUS
  <2>1. PICK delta \in Deltas : ModifyRpm(delta)
    BY DEF Next, AdjustHeading, Tick, NoReply
  <2>2. equipment.rpm \in 0 .. RpmMax /\ delta \in Ints /\ reply'.delta = delta
    BY <2>1, DeltasAssumption DEF EnvelopeInv, TypeOK, EquipmentState, ModifyRpm
  <2>3. equipment'.rpm = ModifiedRpm(equipment, delta)
    BY <2>1 DEF EnvelopeInv, TypeOK, EquipmentState, ModifyRpm, Modified
  <2>4. Clamp(WrappedSum(equipment.rpm, delta), 0, RpmMax) >= equipment.rpm
    BY <2>2, IncreaseRaises
  <2>5. equipment.rpm \in Int /\ RpmMax \in Int
    BY <2>2, RpmMaxIsInt
  <2>6. \/ equipment'.rpm = equipment.rpm
        \/ equipment'.rpm = Clamp(WrappedSum(equipment.rpm, delta), 0, RpmMax)
    BY <2>3 DEF ModifiedRpm
  <2>7. ~ equipment'.rpm < equipment.rpm
    <3>1. equipment'.rpm \in Int
      BY NextKeepsInv, RpmMaxIsInt DEF EnvelopeInv, TypeOK, EquipmentState
    <3> QED
      BY <2>4, <2>5, <2>6, <3>1
  <2> QED
    BY <2>7
<1> QED
  BY <1>1, InitInv, NextKeepsInv, PTL DEF Spec, DecreaseOnlyByOverflow
=============================================================================
