------------------------------- MODULE Chain -------------------------------
(***************************************************************************)
(* The blockchain as the explorer sees it through the JSON-RPC node: the   *)
(* environment of every other module.  Blocks are numbers, block 0 is the  *)
(* genesis block and holds no transaction.  The chain is append-only here  *)
(* (it never forks), so its whole content is constant and only the height  *)
(* the node announces moves.                                               *)
(*                                                                         *)
(* A transaction is a model value.  Of its logs the explorer's behaviour   *)
(* depends on one bit, whether the storage contract emitted a log the ABI  *)
(* decodes (Emits): all the logs of a transaction are in one block, hence  *)
(* in one chunk, and are always stored together.  Of its input it depends  *)
(* on what decoding it gives, which is a function of the ABI compiled into *)
(* the running release.                                                    *)
(***************************************************************************)
EXTENDS Naturals

CONSTANTS
    Tx,          \* the transactions
    MaxHead,     \* bound: the last block the chain reaches
    BlockOf,     \* BlockOf[t]: the block transaction t is in
    Emits,       \* the transactions with a decodable log of the contract
    MaxRelease,  \* bound: the number of releases of the program
    Decodes      \* Decodes[t][r]: what release r makes of the input of t

(***************************************************************************)
(* "ok": DecodeRPCTransaction returns a DecodedTx; "unknown": one of the   *)
(* three errors isPermanentDecodeError recognises (no input data, no       *)
(* method selector, unknown method selector); "malformed": any other.      *)
(***************************************************************************)
Outcomes == {"ok", "unknown", "malformed"}

Releases == 1..MaxRelease

ASSUME ChainAssumption ==
    /\ MaxHead \in Nat
    /\ MaxRelease \in Nat \ {0}
    /\ BlockOf \in [Tx -> 1..MaxHead]
    /\ Emits \subseteq Tx
    /\ Decodes \in [Tx -> [Releases -> Outcomes]]

VARIABLE head    \* the block number eth_blockNumber answers

Blocks == 0..MaxHead

\* The transactions in the blocks of B: what eth_getBlockByNumber answers.
TxsIn(B) == {t \in Tx : BlockOf[t] \in B}

\* The transactions with logs in the range: what eth_getLogs answers.
LogsBetween(first, last) == {t \in Emits : BlockOf[t] \in first..last}

\* Only blocks with a log of the contract are ever fetched by the indexer.
HasLogs(b) == \E t \in Emits : BlockOf[t] = b

ChainInit == head \in Blocks

\* The chain grows by one block.
Extend == /\ head < MaxHead
          /\ head' = head + 1
=============================================================================
