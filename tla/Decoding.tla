------------------------------ MODULE Decoding ------------------------------
(***************************************************************************)
(* What becomes of a log and of a transaction: the decoders of decoding/,  *)
(* the ABI and the structs they fill (utils/structs.go), and what the      *)
(* callers do with their errors.                                           *)
(*                                                                         *)
(* Names are those of the ABI.  go-ethereum finds the struct field of an   *)
(* argument by its name in upper camel case, so a field is keyed by the    *)
(* name of the argument it is meant for; a type is that of the ABI or of   *)
(* Go.  Values are abstracted to how they came to be.                      *)
(***************************************************************************)
EXTENDS Naturals, Sequences, FiniteSets

(***************************************************************************)
(* The events of the ABI: types of the indexed and of the other arguments. *)
(***************************************************************************)
NoArgs == [n \in {} |-> ""]

FileEvent == [indexed |-> [id |-> "bytes32", bucketId |-> "bytes32", name |-> "string"],
              plain |-> [owner |-> "address"]]

BucketEvent == [indexed |-> [id |-> "bytes32", name |-> "string", owner |-> "address"],
                plain |-> NoArgs]

PeerEvent == [indexed |-> [blockId |-> "bytes32", peerId |-> "bytes32"], plain |-> NoArgs]

FillEvent == [indexed |-> [fileId |-> "bytes32", chunkIndex |-> "uint256",
                           blockIndex |-> "uint256"],
              plain |-> [blockCID |-> "bytes32", nodeId |-> "bytes32"]]

Events ==
    [CreateBucket |-> BucketEvent, DeleteBucket |-> BucketEvent,
     CreateFile |-> FileEvent, AddFileChunk |-> FileEvent,
     CommitFile |-> FileEvent, DeleteFile |-> FileEvent,
     AddPeerBlock |-> PeerEvent, DeletePeerBlock |-> PeerEvent,
     FillChunkBlock |-> FillEvent,
     AddFileBlocks |-> [indexed |-> [ids |-> "bytes32[]", fileId |-> "bytes32"],
                        plain |-> NoArgs],
     EIP712DomainChanged |-> [indexed |-> NoArgs, plain |-> NoArgs],
     Initialized |-> [indexed |-> NoArgs, plain |-> [version |-> "uint64"]],
     Upgraded |-> [indexed |-> [implementation |-> "address"], plain |-> NoArgs]]

\* indexedEventNames, the topic filter of eth_getLogs.
EventTopicFilters ==
    {"CreateBucket", "CreateFile", "AddFileChunk", "CommitFile", "FillChunkBlock",
     "AddFileBlocks", "AddPeerBlock", "DeleteBucket", "DeletePeerBlock", "DeleteFile"}

(***************************************************************************)
(* The structs that take them.                                             *)
(***************************************************************************)
H == "Hash"
A == "Address"

FileStruct == [id |-> H, bucketId |-> H, name |-> H, owner |-> A]
BucketStruct == [id |-> H, name |-> H, owner |-> A]
PeerStruct == [blockId |-> H, peerId |-> H]

FillStruct == [fileId |-> H, chunkIndex |-> "Int", blockIndex |-> "Int",
               blockCID |-> H, nodeId |-> H]

EventStructs ==
    [CreateBucket |-> BucketStruct, DeleteBucket |-> BucketStruct,
     CreateFile |-> FileStruct, AddFileChunk |-> FileStruct,
     CommitFile |-> FileStruct, DeleteFile |-> FileStruct,
     AddPeerBlock |-> PeerStruct, DeletePeerBlock |-> PeerStruct,
     FillChunkBlock |-> FillStruct,
     AddFileBlocks |-> [ids |-> H, fileId |-> H],
     EIP712DomainChanged |-> NoArgs,
     Initialized |-> [version |-> "uint64"],
     Upgraded |-> [implementation |-> A]]

\* A factory is registered for the events that the ABI has too.
EventRegistry == [e \in DOMAIN Events \cap DOMAIN EventStructs |-> EventStructs[e]]

\* The Go type go-ethereum decodes a value to, as far as it can be assigned; a
\* topic holds the value itself or, of a string or an array, its hash.
GoType == [bytes32 |-> H, string |-> "string", address |-> A, uint256 |-> "Int",
           uint64 |-> "uint64", uint8 |-> "uint8", bytes |-> "HexBytes"]

OfData(type) == GoType[type]
OfTopic(type) == IF type \in {"string", "bytes32[]"} THEN H ELSE GoType[type]

\* Can the arguments, decoded by Of, be stored in the fields?
Fits(args, Of(_), fields) ==
    \A n \in DOMAIN args : n \in DOMAIN fields /\ fields[n] = Of(args[n])

(***************************************************************************)
(* A log: its event, how many topics follow the first, and its data, which *)
(* is what the ABI prescribes ("full"), cut off ("short") or not there.    *)
(***************************************************************************)
\* Mutant: as many topics as there are are parsed.
UnpackEventLoose(log) ==
    LET event == Events[log.event]
    IN  CASE log.data = "short" /\ event.plain # NoArgs -> "unpack"
          [] OTHER -> "none"

\* UnpackEvent: the error, or none.  Data that is not there is not asked for.
UnpackEvent(log) ==
    LET event == Events[log.event]
        fields == EventRegistry[log.event]
    IN  IF log.data = "short" /\ event.plain # NoArgs THEN "unpack"
        ELSE IF log.data = "full" /\ ~Fits(event.plain, OfData, fields) THEN "copy"
        ELSE IF log.topics # Cardinality(DOMAIN event.indexed) THEN "topics"
        ELSE IF ~Fits(event.indexed, OfTopic, fields) THEN "panic"
        ELSE "none"

\* The names that are the same in the json tags of the structs (snake case) and
\* in the ABI (camel case).
OneWord == {"id", "ids", "name", "owner", "version", "implementation"}

ArgType(event, n) ==
    IF n \in DOMAIN event.indexed THEN event.indexed[n] ELSE event.plain[n]

\* Mutant: the tags are those of the ABI, but for the name of a file.
AbiKnownNot(n) == n # "name"

\* Does structToMap find the argument of the ABI under the json tag?
AbiKnown(n) == n \in OneWord

\* structToMap: a hash is written as text where the ABI has a string, in hex
\* elsewhere; a field nothing was stored in is zero.
StructToMap(log) ==
    LET event == Events[log.event]
        fields == EventRegistry[log.event]
    IN  [n \in DOMAIN fields |->
            IF n \in DOMAIN event.plain /\ log.data # "full" THEN "zero"
            ELSE IF fields[n] # H THEN fields[n]
            ELSE IF AbiKnown(n) /\ ArgType(event, n) = "string" THEN "text" ELSE "hex"]

DecodeAnyLog(log) ==
    LET err == IF log.event = "none" THEN "no topics"
               ELSE IF log.event \notin DOMAIN EventRegistry THEN "unknown signature"
               ELSE UnpackEvent(log)
    IN  [err |-> err, data |-> IF err = "none" THEN StructToMap(log) ELSE NoArgs]

(***************************************************************************)
(* The methods of the ABI that change state, and the params structs.       *)
(* A method of one argument fills the first field; the fields of a tuple   *)
(* are filled in order, so tuples are sequences.                           *)
(***************************************************************************)
FillArgs == <<"bytes32", "bytes32", "bytes32", "uint256", "uint256", "uint8", "string",
              "bytes", "uint256">>

FillChunkBlockArgs == <<H, H, H, "Int", "Int", "uint8", "string", "HexBytes", "Int">>

Methods ==
    [addFileChunk |-> [chunkCID |-> "bytes", bucketId |-> "bytes32", fileName |-> "string",
                       encodedChunkSize |-> "uint256", cids |-> "bytes32[]",
                       chunkBlocksSizes |-> "uint256[]", chunkIndex |-> "uint256"],
     addFileChunks |-> [cids |-> "bytes[]", bucketId |-> "bytes32", fileName |-> "string",
                        encodedChunkSizes |-> "uint256[]", chunkBlocksCIDs |-> "bytes32[][]",
                        chunkBlockSizes |-> "uint256[][]", startingChunkIndex |-> "uint256"],
     commitFile |-> [bucketId |-> "bytes32", fileName |-> "string",
                     encodedFileSize |-> "uint256", actualSize |-> "uint256",
                     fileCID |-> "bytes"],
     createBucket |-> [bucketName |-> "string"],
     createFile |-> [bucketId |-> "bytes32", fileName |-> "string"],
     deleteBucket |-> [id |-> "bytes32", bucketName |-> "string", index |-> "uint256"],
     deleteFile |-> [fileID |-> "bytes32", bucketId |-> "bytes32", fileName |-> "string",
                     index |-> "uint256"],
     fillChunkBlock |-> [args |-> "tuple"],
     fillChunkBlocks |-> [args |-> "tuple[]"],
     initialize |-> [tokenAddress |-> "address"],
     setAccessManager |-> [accessManagerAddress |-> "address"],
     setAuthority |-> [upgradeAuthority |-> "address"],
     upgradeToAndCall |-> [newImplementation |-> "address", data |-> "bytes"]]

\* The fields of the struct that takes the params of a method.
TxParams ==
    [addFileChunk |-> [chunkCID |-> "HexBytes", bucketId |-> H, fileName |-> "string",
                       encodedChunkSize |-> "Int", cids |-> "[]Hash",
                       chunkBlocksSizes |-> "[]Int", chunkIndex |-> "Int"],
     addFileChunks |-> [cids |-> "[]HexBytes", bucketId |-> H, fileName |-> "string",
                        encodedChunkSizes |-> "[]Int", chunkBlocksCIDs |-> "[][]Hash",
                        chunkBlockSizes |-> "[][]Int", startingChunkIndex |-> "Int"],
     commitFile |-> [bucketId |-> H, fileName |-> "string", encodedFileSize |-> "Int",
                     actualSize |-> "Int", fileCID |-> "HexBytes"],
     createBucket |-> [bucketName |-> "string"],
     createFile |-> [bucketId |-> H, fileName |-> "string"],
     deleteBucket |-> [id |-> H, bucketName |-> "string", index |-> "Int"],
     deleteFile |-> [fileID |-> H, bucketId |-> H, fileName |-> "string", index |-> "Int"],
     fillChunkBlock |-> [args |-> "FillArgs"],
     fillChunkBlocks |-> [args |-> "[]FillArgs"],
     initialize |-> [tokenAddress |-> A],
     setAccessManager |-> [accessManagerAddress |-> A],
     setAuthority |-> [upgradeAuthority |-> A],
     upgradeToAndCall |-> [newImplementation |-> A, data |-> "HexBytes"]]

TxRegistry == [m \in DOMAIN Methods \cap DOMAIN TxParams |-> TxParams[m]]

FieldByField(args, fields) ==
    Len(args) = Len(fields) /\ \A i \in 1..Len(args) : fields[i] = GoType[args[i]]

\* Arrays are filled element by element.
OfInput(type) ==
    CASE type = "bytes32[]" -> "[]Hash"
      [] type = "uint256[]" -> "[]Int"
      [] type = "bytes[]" -> "[]HexBytes"
      [] type = "bytes32[][]" -> "[][]Hash"
      [] type = "uint256[][]" -> "[][]Int"
      [] type = "tuple" /\ FieldByField(FillArgs, FillChunkBlockArgs) -> "FillArgs"
      [] type = "tuple[]" /\ FieldByField(FillArgs, FillChunkBlockArgs) -> "[]FillArgs"
      [] OTHER -> OfData(type)

(***************************************************************************)
(* A transaction: whether the node sent an input at all, whether its text  *)
(* scans as hex (one that ceases to be hex further on scans, as fewer      *)
(* bytes), its bytes, the method its selector belongs to (none of ours:    *)
(* "foreign"), whether the rest are arguments of that method, whether it   *)
(* has a receiver, and whether its sender can be recovered.                *)
(***************************************************************************)
\* method.Inputs.Unpack and Copy.
UnpackInputs(tx) ==
    IF ~tx.proper THEN "unpack"
    ELSE IF ~Fits(Methods[tx.method], OfInput, TxRegistry[tx.method]) THEN "copy"
    ELSE "none"

\* Its error.  Neither the receiver nor the signature is looked at.
DecodeRPCTransaction(tx) ==
    IF ~tx.input THEN "no input data"
    ELSE IF ~tx.hex THEN "failed to scan hex data"
    ELSE IF tx.bytes < 4 THEN "no method selector"
    ELSE IF tx.method \notin DOMAIN TxRegistry THEN "unknown method selector"
    ELSE UnpackInputs(tx)

\* Mutant: the selector is unpacked with the arguments.
DecodeTransactionWhole(tx) ==
    IF tx.bytes < 4 THEN "no method selector"
    ELSE IF tx.method \notin DOMAIN TxRegistry THEN "unknown method"
    ELSE "unpack"

\* Its error.
DecodeTransaction(tx) ==
    IF tx.bytes < 4 THEN "no method selector"
    ELSE IF tx.method \notin DOMAIN TxRegistry THEN "unknown method"
    ELSE UnpackInputs(tx)

\* Mutant: an input that does not unpack is not meant for the contract either.
PermanentUnpack(err) ==
    err \in {"unknown method selector", "no method selector", "no input data", "unpack"}

IsPermanentDecodeError(err) ==
    err \in {"unknown method selector", "no method selector", "no input data"}

\* What a worker of Backfill makes of the transactions of a block.
WorkerDecodes(txs) ==
    LET err(i) == DecodeRPCTransaction(txs[i])
    IN  [decoded |-> {i \in DOMAIN txs : err(i) = "none"},
         failed |-> {i \in DOMAIN txs : err(i) # "none" /\ ~IsPermanentDecodeError(err(i))}]

\* DecodeBlock, which nothing under src/ calls (the tests call DecodeTransaction).
\* A transaction that creates a contract has no receiver, and *to panics.
DecodeBlock(txs) ==
    LET ok(i) == txs[i].sender /\ DecodeTransaction(txs[i]) = "none"
    IN  [decoded |-> {i \in DOMAIN txs : ok(i)},
         failed |-> {i \in DOMAIN txs : ~ok(i)},
         panics |-> \E i \in DOMAIN txs : txs[i].sender /\ ~txs[i].receiver]
=============================================================================
