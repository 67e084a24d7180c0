---------------------------- MODULE EquipmentOps ----------------------------
(***************************************************************************)
(* What each operation of equipment_state.c does to one value of g_state.  *)
(* Every operation runs with g_state_lock held from its first read to its  *)
(* last write, so it is a function from a state to a state; Equipment      *)
(* makes a state machine of them and MonitoringServer shares them between  *)
(* threads.                                                                *)
(***************************************************************************)
EXTENDS Integers

CONSTANT IntMax     \* INT_MAX of the build (2147483647 in the program)

RpmMax == 5000

ASSUME IntMaxAssumption == IntMax \in Nat /\ IntMax >= RpmMax

JitterRange == 3
LoadFloor == 10        \* below it MODIFY_RPM is refused
TempAmbient == 28

Headings == 0 .. 3     \* HEADING_NORTH, EAST, SOUTH, WEST
Directions == {-1, 1}  \* LEFT, RIGHT
Jitter == -JitterRange .. JitterRange

Ints == -(IntMax + 1) .. IntMax

EquipmentState ==
  [rpm : 0 .. RpmMax, load : 0 .. 100, temp : 0 .. 100,
   pressure : 0 .. 100, heading : Headings]

InitialEquipment ==
  [rpm |-> 0, load |-> 100, temp |-> TempAmbient, pressure |-> 50, heading |-> 0]

Clamp(value, lo, hi) ==
  IF value < lo THEN lo ELSE IF value > hi THEN hi ELSE value

-----------------------------------------------------------------------------
(* equipment_modify_rpm *)

\* The sum g_state.equipment_rpm + delta as the build computes it: the
\* overflow of a signed addition is undefined in C, and the compiled code
\* adds two's complement words and tests the sign of the result.
WrappedSum(a, b) ==
  LET n == a + b
      m == 2 * (IntMax + 1)
  IN  IF n > IntMax THEN n - m ELSE IF n < -(IntMax + 1) THEN n + m ELSE n

\* Variant with a planted fault: the load is not looked at.
ModifiedRpmUnguarded(s, delta) == Clamp(WrappedSum(s.rpm, delta), 0, RpmMax)

\* Variant with a planted fault: the two bounds are taken for each other.
ModifiedRpmSwapped(s, delta) ==
  LET n == WrappedSum(s.rpm, delta)
  IN  IF s.load < LoadFloor THEN s.rpm
      ELSE IF n < 0 THEN 0 ELSE IF n > RpmMax THEN 0 ELSE n

ModifiedRpm(s, delta) ==
  IF s.load < LoadFloor THEN s.rpm
                        ELSE Clamp(WrappedSum(s.rpm, delta), 0, RpmMax)

\* Variant with a planted fault: clamping at the maximum is answered OK.
ModifyReasonNoMaximum(s, delta) ==
  IF s.load < LoadFloor THEN "system_load_too_low"
  ELSE IF WrappedSum(s.rpm, delta) < 0 THEN "rpm_at_minimum" ELSE "rpm"

\* The text left in *reason; "rpm" stands for "rpm=<n>", the only reason that
\* goes with the result 1 (OK).
ModifyReason(s, delta) ==
  LET n == WrappedSum(s.rpm, delta)
  IN  IF s.load < LoadFloor THEN "system_load_too_low"
      ELSE IF n < 0 THEN "rpm_at_minimum"
      ELSE IF n > RpmMax THEN "rpm_at_maximum"
      ELSE "rpm"

Reasons == {"system_load_too_low", "rpm_at_minimum", "rpm_at_maximum", "rpm"}

Modified(s, delta) == [s EXCEPT !.rpm = ModifiedRpm(s, delta)]

-----------------------------------------------------------------------------
(* equipment_adjust_heading *)

AdjustedHeading(h, direction) ==
  LET n == h + direction
  IN  IF n < 0 THEN 3 ELSE IF n > 3 THEN 0 ELSE n

Adjusted(s, direction) == [s EXCEPT !.heading = AdjustedHeading(s.heading, direction)]

-----------------------------------------------------------------------------
(* equipment_simulate_tick *)

Drain(rpm) == IF rpm >= 3000 THEN 3 ELSE IF rpm >= 1500 THEN 2 ELSE 1

\* Variants with a planted fault: no clamp; the load must cover the drain.
TickedLoadUnclamped(s) ==
  IF s.rpm > 0 /\ s.load > 0 THEN s.load - Drain(s.rpm) ELSE s.load
TickedLoadAllOrNothing(s) ==
  IF s.rpm > 0 /\ s.load >= Drain(s.rpm) THEN s.load - Drain(s.rpm) ELSE s.load

TickedLoad(s) ==
  IF s.rpm > 0 /\ s.load > 0 THEN Clamp(s.load - Drain(s.rpm), 0, 100) ELSE s.load

\* Variant with a planted fault: cooling does not stop at ambient.
TickedTempNoAmbient(s) ==
  Clamp(IF s.rpm > 3500 /\ s.temp < 100 THEN s.temp + 2
        ELSE IF s.rpm > 1500 /\ s.temp < 85 THEN s.temp + 1
        ELSE s.temp - 1, 0, 100)

TickedTemp(s) ==
  Clamp(IF s.rpm > 3500 /\ s.temp < 100 THEN s.temp + 2
        ELSE IF s.rpm > 1500 /\ s.temp < 85 THEN s.temp + 1
        ELSE IF s.temp > TempAmbient THEN s.temp - 1
        ELSE s.temp, 0, 100)

BasePressure(rpm) == 30 + (rpm * 50) \div 5000

TickedPressure(s, noise) == Clamp(BasePressure(s.rpm) + noise, 0, 100)

Ticked(s, noise) ==
  [s EXCEPT !.load = TickedLoad(s), !.temp = TickedTemp(s),
            !.pressure = TickedPressure(s, noise)]
=============================================================================
