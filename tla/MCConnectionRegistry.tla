------------------------ MODULE MCConnectionRegistry ------------------------
(* Instance of ConnectionRegistry.  A connection can take the descriptor that  *)
(* another one has just left.                                                 *)
EXTENDS ConnectionRegistry
=============================================================================
