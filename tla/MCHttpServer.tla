---------------------------- MODULE MCHttpServer ----------------------------
(* Instance of HttpServer: an HTTP request that asks for fewer records than the *)
(* ring holds; the ring wraps.                                                  *)
EXTENDS HttpServer, TLC

CONSTANT r1

MCMaxRecords == r1 :> 2
==============================================================================
