---------------------------- MODULE MCAuthService ----------------------------
(* Instance of AuthService: a file with a comment, a role nobody knows and a   *)
(* user listed twice, and an edit of it with an incomplete line and another    *)
(* password.                                                                  *)
EXTENDS AuthService

MCStores == { << <<>>, <<"eng", "e1", "GUEST">>, <<"eng", "e1", "ENGINEER">> >>,
              << <<"eng", "e1">>, <<"eng", "s1", "ENGINEER">> >> }
MCRequests == [user : {"eng"}, pass : {"e1", "s1"}]
=============================================================================
