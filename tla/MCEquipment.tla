----------------------------- MODULE MCEquipment -----------------------------
(* Model-checking instance of Equipment: the jitter at its upper end, a delta    *)
(* that clamps at 0, one that reaches both upper bands of the rpm, and one that *)
(* clamps at 5000 or, from 2500 rpm on, overflows the sum.                    *)
EXTENDS Equipment

MCIntMax == 9999
MCDeltas == {-5000, 2500, 9999}
MCTurns == {-1, 1}
MCNoise == {3}
=============================================================================
