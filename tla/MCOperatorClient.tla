-------------------------- MODULE MCOperatorClient --------------------------
(* Instance of OperatorClient: two clicks on Connect, so that a receiver of the *)
(* first connection meets the second.                                          *)
EXTENDS OperatorClient
=============================================================================
