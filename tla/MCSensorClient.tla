--------------------------- MODULE MCSensorClient ---------------------------
(* Instance of SensorClient with the delays of DefaultReconnectConfig: the sixth *)
(* failure is the first one whose delay the cap leaves as it is.               *)
EXTENDS SensorClient
=============================================================================
