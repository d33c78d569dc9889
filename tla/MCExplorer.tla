----------------------------- MODULE MCExplorer -----------------------------
(***************************************************************************)
(* Small chains for TLC.  Block 1 holds a call with events; block 2 a call *)
(* that only the second release decodes and a transaction of another       *)
(* contract through which the storage contract emits a log; block 3, for   *)
(* which the table actions has no partition, another call that only the    *)
(* second release decodes.                                                 *)
(***************************************************************************)
EXTENDS ExplorerClaims, ExplorerInvariant, TLC

CONSTANTS call, broken, late, inner, beyond

MCTx == {call, late, inner, beyond}
MCEmits == MCTx
MCBlockOf == call :> 1 @@ late :> 2 @@ inner :> 2 @@ beyond :> 3
MCDecodes == call :> <<"ok", "ok">> @@ late :> <<"malformed", "ok">>
             @@ inner :> <<"unknown", "unknown">>
             @@ beyond :> <<"malformed", "ok">>

\* For liveness: the older failed call occupies the list of the retry loop,
\* and never decodes.
MCLiveTx == {broken, late}
MCLiveBlockOf == broken :> 1 @@ late :> 2
MCLiveDecodes == broken :> <<"malformed", "malformed">>
                 @@ late :> <<"malformed", "ok">>

\* One transaction, for the retry loop.
MCRetryTx == {late}
MCRetryBlockOf == late :> 1
MCRetryDecodes == late :> <<"malformed", "ok">>
=============================================================================
