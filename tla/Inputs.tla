------------------------------- MODULE Inputs -------------------------------
(***************************************************************************)
(* The functions of Decoding and Text and the loop of                      *)
(* FetchAndDecodeInBatches, each applied to every input of bounded size.   *)
(***************************************************************************)
EXTENDS Decoding, Text

CONSTANTS
    MaxText,     \* bound: characters of a text
    MaxTxs,      \* bound: transactions of a block
    MaxBlock     \* bound: the last block of a range of batches

ASSUME InputsAssumption == MaxText \in Nat /\ MaxTxs \in Nat /\ MaxBlock \in Nat

VARIABLES input, output

vars == <<input, output>>

Upto(n, S) == UNION {[1..k -> S] : k \in 0..n}

Logs == [event : DOMAIN Events \cup {"another event", "none"},
         topics : 0..3, data : {"full", "short", "none"}]

\* The calls of every method and of another contract, with and without arguments
\* in order, a receiver and a sender that can be recovered; an input of three
\* bytes, one that is empty, one that is not there and one that is not hex.
Call(m, proper, receiver, sender) ==
    [input |-> TRUE, hex |-> TRUE, bytes |-> 5, method |-> m, proper |-> proper,
     receiver |-> receiver, sender |-> sender]

Calls == {Call(m, p, r, s) : m \in DOMAIN Methods \cup {"foreign"},
                             p \in BOOLEAN, r \in BOOLEAN, s \in BOOLEAN}

Plain == Call("foreign", FALSE, TRUE, TRUE)

Txs == Calls \cup {[Plain EXCEPT !.bytes = 3], [Plain EXCEPT !.bytes = 0],
                   [Plain EXCEPT !.bytes = 0, !.input = FALSE],
                   [Plain EXCEPT !.bytes = 0, !.hex = FALSE]}

\* Mutant: the next batch starts at the end of the last.
BatchStepShort(size) == IF size = 0 THEN 1 ELSE size

\* start += batchSize + 1.
BatchStep(size) == size + 1

\* The ranges FetchAndDecodeInBatches asks for.
Batches(from, to, size) ==
    LET start(n) == from + n * BatchStep(size)
    IN  {<<start(n), IF start(n) + size > to THEN to ELSE start(n) + size>> :
            n \in {k \in 0..to : start(k) <= to}}

Requests == [from : 0..MaxBlock, to : 0..MaxBlock, size : 0..MaxBlock]

Init ==
    /\ \/ input \in [kind : {"log"}, value : Logs]
       \/ input \in [kind : {"txs"}, value : Upto(MaxTxs, Txs)]
       \/ input \in [kind : {"text"}, value : Upto(MaxText, Characters)]
       \/ input \in [kind : {"range"}, value : Requests]
    /\ output = << >>

Apply(kind, f(_)) == /\ input.kind = kind /\ output = << >>
                     /\ output' = <<f(input.value)>>
                     /\ UNCHANGED input

DecodeLog == Apply("log", DecodeAnyLog)

DecodeTxs == Apply("txs", LAMBDA txs : [worker |-> WorkerDecodes(txs),
                                        block |-> DecodeBlock(txs)])

StoreText == Apply("text", Sent)

FetchInBatches == Apply("range", LAMBDA r : Batches(r.from, r.to, r.size))

Next == DecodeLog \/ DecodeTxs \/ StoreText \/ FetchInBatches

Spec == Init /\ [][Next]_vars

Result(kind) == input.kind = kind /\ output # << >>

(***************************************************************************)
(* Logs and transactions.                                                  *)
(***************************************************************************)
\* What the filter of eth_getLogs lets through is decoded when it has the shape
\* the ABI gives it: three tables, the ABI, the registry and the structs, agree
\* on every event; none of its fields is left out or zero, and the indexed
\* strings, and they only, are written as text (events.go:83-129).
FilteredLogsDecode ==
    Result("log") /\ input.value.event \in EventTopicFilters /\ input.value.data = "full"
        => LET log == input.value
               event == Events[log.event]
               args == DOMAIN event.indexed \cup DOMAIN event.plain
               data == output[1].data
           IN  log.topics = Cardinality(DOMAIN event.indexed) =>
                   /\ output[1].err = "none"
                   /\ DOMAIN data = args
                   /\ \A n \in args : /\ data[n] # "zero"
                                      /\ data[n] = "text" <=> ArgType(event, n) = "string"

\* A log whose topics or data have another shape than the ABI gives its event is
\* an error and not a panic.  Data that is not there at all is the exception:
\* then the log is decoded, and exactly its plain arguments are zero
\* (helpers.go:18).
NotInPart ==
    Result("log") =>
        /\ output[1].err # "panic"
        /\ output[1].err = "none" =>
               LET event == Events[input.value.event]
                   data == output[1].data
               IN  /\ input.value.topics = Cardinality(DOMAIN event.indexed)
                   /\ input.value.data = "short" => event.plain = NoArgs
                   /\ {n \in DOMAIN data : data[n] = "zero"} =
                          IF input.value.data = "full" THEN {} ELSE DOMAIN event.plain

\* A call of a method of the contract is decoded if its arguments are in order
\* and recorded as failed if they are not, and so is an input that is not hex;
\* only calls of other methods, and transactions without a call, are skipped
\* without a trace (backfill.go:154-164 and 320-327).
OnlyForeignSkipped ==
    Result("txs") =>
        \A i \in DOMAIN input.value :
            LET tx == input.value[i]
            IN  /\ ~tx.hex => i \in output[1].worker.failed
                /\ tx.method # "foreign" =>
                       IF tx.proper THEN i \in output[1].worker.decoded
                                    ELSE i \in output[1].worker.failed

\* The two decoders agree on a block without a contract creation, on which
\* DecodeBlock panics, but for the calls whose sender cannot be recovered
\* (blocks.go:28-36): of the calls the worker decodes DecodeBlock decodes the
\* others, and what the worker records as failed is failed for it too.  A
\* types.Block has its inputs as bytes, so hex is no question.
DecodersAgree ==
    Result("txs") =>
        LET txs == input.value  worker == output[1].worker  block == output[1].block
        IN  (\A i \in DOMAIN txs : txs[i].receiver /\ txs[i].hex) =>
                /\ ~block.panics
                /\ block.decoded = {i \in worker.decoded : txs[i].sender}
                /\ worker.failed \subseteq block.failed

(***************************************************************************)
(* Texts.                                                                  *)
(***************************************************************************)
\* Is there a \u in the text that the digits of a code do not follow?
BadEscape(s) == \E i \in DOMAIN s : EscapeAt(s, i) /\ ~DigitsAt(s, i)

\* The database takes every text a topic can hold, with one exception, which it
\* always refuses: a \u in it that no code follows.
TextsAccepted ==
    Result("text") =>
        (Accepted(output[1]) <=> ~BadEscape(Each(CleanChar, HashToString(input.value))))

\* What it took is read again as it was sanitised, but for the code of a control
\* character that the text itself spells out.
TextsKept ==
    Result("text") /\ Accepted(output[1]) =>
        LET clean == Each(CleanChar, HashToString(input.value))
        IN  \/ GetEvents({output[1]}) = {clean}
            \/ \E i \in DOMAIN clean : /\ EscapeAt(clean, i) /\ DigitsAt(clean, i)
                                       /\ CodeAt(clean, i) \in ControlCodes

\* helpers.go:154, "fixes invalid Unicode escape sequences in a JSON string": the
\* JSON that UpdateEventsBatch sends is still JSON.
JSONFixed == Result("text") => ~Has(Unmarshal(output[1]), Invalid)

(***************************************************************************)
(* Batches.                                                                *)
(***************************************************************************)
\* Every block of the range is in exactly one batch, and no other block in any
\* (decoding_test.go, TestBackfillBatchPagination).
BatchesCover ==
    Result("range") =>
        \A b \in 0..(2 * MaxBlock) :
            LET with == {r \in output[1] : r[1] <= b /\ b <= r[2]}
            IN  Cardinality(with) =
                    IF input.value.from <= b /\ b <= input.value.to THEN 1 ELSE 0
=============================================================================
