--------------------------- MODULE MCGrpcServer ----------------------------
(* Model-checking instances of GrpcServer.                                 *)
EXTENDS GrpcServer, TLC

CONSTANTS m1, m2, t1, t2

(* The io_manager's threads all run the same loop.                         *)
IoThreadsAreAlike == Permutations(IoThreads)
=============================================================================
