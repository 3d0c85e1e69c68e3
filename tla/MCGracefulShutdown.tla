------------------------ MODULE MCGracefulShutdown ------------------------
(* GracefulShutdown for TLC: two requests and a probe; the deadlines of   *)
(* server.ts (3, 5 and 3 s against 15 s) scaled to 1, 2 and 1 against 5.  *)
EXTENDS GracefulShutdown
===========================================================================
