------------------------------- MODULE Process ------------------------------
(***************************************************************************)
(* The explorer's operating-system process: whether it runs, which release *)
(* of the program it runs, and the failures that can happen to the calls   *)
(* it makes to the RPC node and to Postgres.                               *)
(*                                                                         *)
(* proc is "running" from the start of main until SIGTERM cancels idxCtx,  *)
(* "stopping" from then until main returns, "down" otherwise.              *)
(*                                                                         *)
(* A call may fail at any time; MaxFaults bounds how often that happens.   *)
(* A statement that reports an error was either not applied, or applied    *)
(* and its answer lost.  A call given a cancelled context fails without    *)
(* having any effect, and that is not counted as a fault.                  *)
(***************************************************************************)
EXTENDS Database

CONSTANTS
    MaxFaults,   \* bound: failed calls in a behaviour
    MaxStops     \* bound: crashes and shutdowns in a behaviour

ASSUME ProcessAssumption == MaxFaults \in Nat /\ MaxStops \in Nat

VARIABLES proc, release, faults, stops

procVars == <<proc, release, faults, stops>>

ProcessTypeOK ==
    /\ proc \in {"down", "running", "stopping"}
    /\ release \in Releases
    /\ faults \in 0..MaxFaults
    /\ stops \in 0..MaxStops

ProcessInit ==
    /\ proc = "down"
    /\ release = 1
    /\ faults = 0
    /\ stops = 0

Fault == /\ faults < MaxFaults
         /\ faults' = faults + 1

NoFault == UNCHANGED faults

\* A statement executed with context.Background(): Effect is applied, or the
\* call reports an error (having been applied or not).
Execute(Effect, Succeeds, Fails) ==
    \/ NoFault /\ Effect /\ Succeeds
    \/ Fault /\ (Effect \/ UNCHANGED dbVars) /\ Fails

\* Mutant: the statements of DBHandler run with context.Background() too.
ExecuteUncancelled(Effect, Succeeds, Fails, Cancelled) ==
    Execute(Effect, Succeeds, Fails)

\* A statement executed with idxCtx, which SIGTERM cancels: database/sql
\* refuses it, without reaching the server, once the context is done.
ExecuteCtx(Effect, Succeeds, Fails, Cancelled) ==
    \/ proc = "running" /\ Execute(Effect, Succeeds, Fails)
    \/ proc = "stopping" /\ NoFault /\ UNCHANGED dbVars /\ Cancelled
=============================================================================
