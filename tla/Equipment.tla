------------------------------ MODULE Equipment ------------------------------
(***************************************************************************)
(* The simulated plant (equipment_state.c): one structure g_state, changed *)
(* by the metrics thread (a tick every cycle) and by the sessions of       *)
(* engineers (MODIFY_RPM, ADJUST_HEADING), each change one critical        *)
(* section.  "reply" is what the last MODIFY_RPM told its caller.          *)
(***************************************************************************)
EXTENDS EquipmentOps

CONSTANTS
  Deltas,   \* the values sscanf("%d") may hand to equipment_modify_rpm
  Turns,    \* the directions ADJUST_HEADING may ask for
  Noise     \* the values jitter(3) may return

ASSUME DeltasAssumption == Deltas \subseteq Ints
ASSUME TurnsAssumption == Turns \subseteq Directions
ASSUME NoiseAssumption == Noise \subseteq Jitter /\ Noise # {}

VARIABLES equipment, reply

vars == <<equipment, reply>>

NoReply == [delta |-> 0, reason |-> "none"]

Replies == [delta : Deltas \cup {0}, reason : Reasons \cup {"none"}]

TypeOK == equipment \in EquipmentState /\ reply \in Replies

Init == equipment = InitialEquipment /\ reply = NoReply

ModifyRpm(delta) ==
  /\ equipment' = Modified(equipment, delta)
  /\ reply' = [delta |-> delta, reason |-> ModifyReason(equipment, delta)]

AdjustHeading(direction) ==
  /\ equipment' = Adjusted(equipment, direction)
  /\ reply' = NoReply

Tick(noise) ==
  /\ equipment' = Ticked(equipment, noise)
  /\ reply' = NoReply

Next ==
  \/ \E delta \in Deltas : ModifyRpm(delta)
  \/ \E direction \in Turns : AdjustHeading(direction)
  \/ \E noise \in Noise : Tick(noise)

\* The metrics thread ticks in every cycle of its loop, for ever.
Spec == Init /\ [][Next]_vars /\ WF_vars(\E noise \in Noise : Tick(noise))

-----------------------------------------------------------------------------
(* Safety *)

\* The plant stays inside a smaller envelope than the documented 0..100: the
\* coolant never falls below ambient and the pressure follows 30 + rpm/100
\* within the jitter, so no cycle can report a pressure below 15 (pressure_low)
\* or above 90 (critical pressure_high).
Envelope ==
  /\ equipment.temp >= TempAmbient
  /\ equipment.pressure \in 30 - JitterRange .. 80 + JitterRange

\* "Cannot increase RPM with load below 10%" (PROTOCOL.md), and as nothing restores
\* the load, this is for good: from then on the rpm never rises again, whatever the
\* commands and ticks in between.
NeverRaisedAgain ==
  [][equipment.load < LoadFloor =>
       /\ equipment'.rpm <= equipment.rpm
       /\ equipment'.load <= equipment.load
       /\ equipment'.load < LoadFloor]_vars

\* "OK rpm=n" is only answered when the rpm moved by exactly the delta asked
\* for: no clamping and no overflow hides behind a positive answer.
OkIsExact ==
  [][reply' # reply /\ reply'.reason = "rpm" =>
       equipment'.rpm = equipment.rpm + reply'.delta]_vars

\* An increase is carried out as a decrease only when the sum of the rpm and the
\* delta leaves the range of int: for every delta up to IntMax - RpmMax the
\* clamping alone decides.
DecreaseOnlyByOverflow ==
  [][reply' # reply /\ reply'.delta > 0 /\ equipment'.rpm < equipment.rpm =>
       equipment.rpm + reply'.delta > IntMax]_vars

-----------------------------------------------------------------------------
(* Liveness *)

\* Once the load is below 10 % the plant ends for good in one of two places: at
\* rest, or without any load left.
RestsOrRunsDry ==
  (equipment.load < LoadFloor) ~> [](equipment.rpm = 0 \/ equipment.load = 0)
=============================================================================
