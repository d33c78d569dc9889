---------------------------- MODULE MCWorkerPool ----------------------------
(***************************************************************************)
(* Three blocks for two workers, which may be exchanged: some worker gets  *)
(* a second number, and both may be busy when the dispatcher has a third.  *)
(***************************************************************************)
EXTENDS WorkerPool, TLC

CONSTANTS w1, w2

MCWorkers == {w1, w2}
MCWanted == {3, 5, 8}
=============================================================================
