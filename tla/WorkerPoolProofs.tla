-------------------------- MODULE WorkerPoolProofs --------------------------
(***************************************************************************)
(* The worker pool implements ChunkFetch, for every set of blocks and any  *)
(* number of workers.  A number sent is in the hands of one worker until   *)
(* it is fetched; it can only get lost once chunkCtx is done; and chunkCtx *)
(* is done only if idxCtx is, or if an error has been recorded before.     *)
(***************************************************************************)
EXTENDS WorkerPool, FiniteSetTheorems, TLAPS

Holds(w, n) == wpc[w] \in {"check", "fetch", "failed", "append"} /\ job[w] = n

\* Each number is with the dispatcher, with one worker or fetched; none is
\* lost before chunkCtx is done.
Accounted ==
    /\ \A n \in todo : fetched[n] = 0 /\ \A w \in Workers : ~Holds(w, n)
    /\ \A w \in Workers, n \in Wanted : Holds(w, n) => fetched[n] = 0
    /\ \A v, w \in Workers, n \in Wanted : Holds(v, n) /\ Holds(w, n) => v = w
    /\ ~ChunkDone => \A n \in Wanted : \/ n \in todo
                                       \/ fetched[n] = 1
                                       \/ \E w \in Workers : Holds(w, n)

\* The error that cancels the chunk is recorded first.
Causes ==
    /\ cancelled <=> firstErr # "none"
    /\ firstErr = "cancelled" => ctxDone
    /\ \A w \in Workers :
          wpc[w] = "failed" => /\ err[w] # "none"
                               /\ err[w] = "cancelled" => ChunkDone

Phases ==
    /\ dpc = "send" \/ todo = {} \/ ChunkDone
    /\ dpc = "returned" => \A w \in Workers : wpc[w] = "done"

PoolInv == TypeOK /\ Accounted /\ Causes /\ Phases

\* The invariant holds at first.
LEMMA PoolInit == Init => PoolInv
<1> SUFFICES ASSUME Init PROVE PoolInv
  OBVIOUS
<1> USE DEF Init
<1>1. TypeOK
  <2>1. ctxDone \in BOOLEAN /\ cancelled \in BOOLEAN
    OBVIOUS
  <2>2. fetched \in [Wanted -> 0..1]
    OBVIOUS
  <2>3. todo \in SUBSET Wanted /\ dpc \in {"send", "wait", "returned"}
    OBVIOUS
  <2>4. /\ wpc \in [Workers -> {"receive", "check", "fetch", "failed", "append", "done"}]
        /\ job \in [Workers -> Wanted]
        /\ err \in [Workers -> Errors]
        /\ firstErr \in Errors
    BY DEF Errors
  <2> QED BY <2>1, <2>2, <2>3, <2>4 DEF TypeOK
<1>2. Accounted
  BY DEF Accounted, Holds
<1>3. Causes /\ Phases
  BY DEF Causes, Phases
<1> QED BY <1>1, <1>2, <1>3 DEF PoolInv

\* Every step preserves it.
LEMMA PoolNext == PoolInv /\ [Next]_vars => PoolInv'
<1> SUFFICES ASSUME PoolInv, [Next]_vars PROVE PoolInv'
  OBVIOUS
<1> USE DEF PoolInv
<1>1. CASE Cancel
  BY <1>1 DEF Cancel, TypeOK, Accounted, Causes, Phases, Holds, ChunkDone
<1>2. ASSUME NEW w \in Workers, NEW n \in Wanted, Send(w, n) PROVE PoolInv'
  <2> USE DEF TypeOK
  <2>1. TypeOK'
    BY <1>2 DEF Send
  <2>2. Accounted'
    BY <1>2 DEF Send, Accounted, Holds, ChunkDone
  <2>3. Causes' /\ Phases'
    BY <1>2 DEF Send, Causes, Phases, ChunkDone
  <2> QED BY <2>1, <2>2, <2>3
<1>3. CASE EndSending
  BY <1>3 DEF EndSending, TypeOK, Accounted, Causes, Phases, Holds, ChunkDone
<1>4. CASE Return
  BY <1>4 DEF Return, TypeOK, Accounted, Causes, Phases, Holds, ChunkDone
<1>5. ASSUME NEW w \in Workers, EndReceiving(w) PROVE PoolInv'
  BY <1>5 DEF EndReceiving, TypeOK, Accounted, Causes, Phases, Holds, ChunkDone
<1>6. ASSUME NEW w \in Workers, CheckContext(w) PROVE PoolInv'
  BY <1>6 DEF CheckContext, TypeOK, Accounted, Causes, Phases, Holds, ChunkDone
<1>7. ASSUME NEW w \in Workers, Fetch(w) PROVE PoolInv'
  <2> USE DEF TypeOK
  <2>1. TypeOK'
    BY <1>7 DEF Fetch, Errors
  <2>2. Accounted'
    BY <1>7 DEF Fetch, Accounted, Holds, ChunkDone
  <2>3. Causes'
    BY <1>7 DEF Fetch, Causes, ChunkDone, Errors
  <2>4. Phases'
    BY <1>7 DEF Fetch, Phases, ChunkDone
  <2> QED BY <2>1, <2>2, <2>3, <2>4
<1>8. ASSUME NEW w \in Workers, RecordError(w) PROVE PoolInv'
  <2> USE DEF TypeOK
  <2>1. TypeOK'
    BY <1>8 DEF RecordError, Errors
  <2>2. ChunkDone'
    BY <1>8 DEF RecordError, Causes, ChunkDone
  <2>3. Accounted'
    BY <1>8, <2>2 DEF RecordError, Accounted, Holds
  <2>4. Causes' /\ Phases'
    BY <1>8 DEF RecordError, Causes, Phases, ChunkDone, Errors
  <2> QED BY <2>1, <2>3, <2>4
<1>9. ASSUME NEW w \in Workers, AppendBlock(w) PROVE PoolInv'
  <2> USE DEF TypeOK
  <2>1. job[w] \in Wanted /\ Holds(w, job[w])
    BY <1>9 DEF AppendBlock, Holds
  <2>2. fetched[job[w]] = 0
    BY <2>1 DEF Accounted
  <2>3. TypeOK'
    BY <1>9, <2>1, <2>2 DEF AppendBlock
  <2>4. Accounted'
    BY <1>9, <2>1, <2>2 DEF AppendBlock, Accounted, Holds, ChunkDone
  <2>5. Causes' /\ Phases'
    BY <1>9 DEF AppendBlock, Causes, Phases, ChunkDone
  <2> QED BY <2>3, <2>4, <2>5
<1>10. CASE UNCHANGED vars
  BY <1>10 DEF vars, TypeOK, Accounted, Causes, Phases, Holds, ChunkDone
<1> QED
  BY <1>1, <1>2, <1>3, <1>4, <1>5, <1>6, <1>7, <1>8, <1>9, <1>10
     DEF Next, Dispatcher, Worker

\* The bookkeeping of the pool is right in every reachable state.
THEOREM PoolInvariant == Spec => []PoolInv
<1>1. PoolInv /\ [Next]_vars => PoolInv'
  BY PoolNext
<1> QED BY PoolInit, <1>1, PTL DEF Spec

\* Every step of the pool is a step of ChunkFetch or leaves it alone.
LEMMA PoolStep == PoolInv /\ [Next]_vars => [CF!Next]_(CF!vars)
<1> SUFFICES ASSUME PoolInv, [Next]_vars PROVE [CF!Next]_(CF!vars)
  OBVIOUS
<1> USE DEF PoolInv
<1>1. CASE Cancel
  BY <1>1 DEF Cancel, CF!Next, CF!Cancel, Result, Returned
<1>2. CASE Return
  <2>1. dpc = "wait" /\ dpc' = "returned" /\ Result = "running"
        /\ UNCHANGED <<ctxDone, firstErr, fetched>>
    BY <1>2 DEF Return, Result
  <2>2. firstErr \in {"none", "rpc", "cancelled"} /\ fetched \in [Wanted -> 0..1]
    BY DEF TypeOK, Errors
  <2>3. CASE firstErr = "none"
    <3>1. Result' = "blocks" /\ Returned' = fetched
      BY <2>1, <2>3 DEF Result, Returned
    <3>2. CASE ctxDone
      BY <2>1, <2>2, <3>1, <3>2 DEF CF!Next, CF!Return
    <3>3. CASE ~ctxDone
      <4>1. ~ChunkDone /\ todo = {}
        BY <2>1, <2>3, <3>3 DEF Causes, Phases, ChunkDone
      <4>2. \A n \in Wanted : fetched[n] = 1
        BY <1>2, <4>1 DEF Return, Accounted, Holds
      <4>3. fetched = CF!Each
        BY <2>2, <4>2 DEF CF!Each
      <4> QED BY <2>1, <3>1, <4>3 DEF CF!Next, CF!Return
    <3> QED BY <3>2, <3>3
  <2>4. CASE firstErr = "rpc"
    <3>1. Result' = "error" /\ Returned' = CF!None
      BY <2>1, <2>4 DEF Result, Returned, CF!None
    <3> QED BY <2>1, <3>1 DEF CF!Next, CF!Return
  <2>5. CASE firstErr = "cancelled"
    <3>1. Result' = "cancelled" /\ Returned' = CF!None /\ ctxDone
      BY <2>1, <2>5 DEF Result, Returned, CF!None, Causes
    <3> QED BY <2>1, <3>1 DEF CF!Next, CF!Return
  <2> QED BY <2>2, <2>3, <2>4, <2>5
<1>3. CASE \/ \E w \in Workers, n \in Wanted : Send(w, n)
           \/ EndSending
  <2>1. UNCHANGED ctxDone /\ dpc # "returned" /\ dpc' # "returned"
    BY <1>3 DEF Send, EndSending
  <2> QED BY <2>1 DEF CF!vars, Result, Returned
<1>4. ASSUME NEW w \in Workers, Worker(w) PROVE UNCHANGED CF!vars
  <2>1. UNCHANGED <<ctxDone, dpc>> /\ wpc[w] # "done"
    BY <1>4 DEF Worker, EndReceiving, CheckContext, Fetch, RecordError, AppendBlock
  <2>2. dpc # "returned"
    BY <2>1 DEF Phases
  <2> QED BY <2>1, <2>2 DEF CF!vars, Result, Returned
<1>5. CASE UNCHANGED vars
  BY <1>5 DEF vars, CF!vars, Result, Returned
<1> QED BY <1>1, <1>2, <1>3, <1>4, <1>5 DEF Next, Dispatcher

\* The pool implements ChunkFetch: no block is lost without an error or
\* fetched twice, and no error is masked by the cancellation it causes.
THEOREM PoolFetchesChunk == Spec => FetchesChunk
<1>1. Init => CF!Init
  BY DEF Init, CF!Init, Result, Returned, CF!None
<1>2. PoolInv /\ [Next]_vars => [CF!Next]_(CF!vars)
  BY PoolStep
<1> QED BY <1>1, <1>2, PoolInvariant, PTL DEF Spec, FetchesChunk, CF!Spec

\* The variables of the pool keep their types; in particular a number is
\* fetched once at most.
THEOREM PoolTypeCorrect == Spec => []TypeOK
<1>1. PoolInv => TypeOK
  BY DEF PoolInv
<1> QED BY <1>1, PoolInvariant, PTL

(***************************************************************************)
(* The end of the pool, for any number of blocks and workers.  That it     *)
(* comes (PoolReturns) needs fairness and is left to the model checker.    *)
(* Here are its two halves: until Backfill has its answer some goroutine   *)
(* can run, and no step but SIGTERM can be taken for ever.                 *)
(***************************************************************************)
\* The guards of the dispatcher's actions, and of those of a worker.
DispatcherCanRun ==
    \/ /\ dpc = "send"
       /\ todo = {} \/ ChunkDone \/ \E w \in Workers : wpc[w] = "receive"
    \/ dpc = "wait" /\ \A w \in Workers : wpc[w] = "done"

WorkerCanRun(w) ==
    \/ wpc[w] \in {"check", "fetch", "failed", "append"}
    \/ wpc[w] = "receive" /\ dpc \in {"wait", "returned"}

NeverStuck == dpc = "returned" \/ DispatcherCanRun \/ \E w \in Workers : WorkerCanRun(w)

\* A worker ends when the channel is closed, or leaves a chunk that is done.
NoneQuitsEarly == \A w \in Workers : wpc[w] = "done" => dpc # "send" \/ ChunkDone

LEMMA QuitNext == PoolInv /\ NoneQuitsEarly /\ [Next]_vars => NoneQuitsEarly'
<1> SUFFICES ASSUME PoolInv, NoneQuitsEarly, [Next]_vars PROVE NoneQuitsEarly'
  OBVIOUS
<1>0. wpc \in [Workers -> {"receive", "check", "fetch", "failed", "append", "done"}]
  BY DEF PoolInv, TypeOK
<1>1. ChunkDone => ChunkDone'
  BY DEF Next, Dispatcher, Worker, Cancel, Send, EndSending, Return, EndReceiving,
         CheckContext, Fetch, RecordError, AppendBlock, ChunkDone, vars
<1>2. dpc # "send" => dpc' # "send"
  BY DEF Next, Dispatcher, Worker, Cancel, Send, EndSending, Return, EndReceiving,
         CheckContext, Fetch, RecordError, AppendBlock, vars
<1>3. ASSUME NEW w \in Workers, Worker(w) PROVE NoneQuitsEarly'
  <2>1. \A v \in Workers : v # w => wpc'[v] = wpc[v]
    BY <1>0, <1>3 DEF Worker, EndReceiving, CheckContext, Fetch, RecordError, AppendBlock
  <2>2. wpc'[w] = "done" => dpc' # "send" \/ ChunkDone'
    <3>1. CASE EndReceiving(w)
      BY <3>1 DEF EndReceiving
    <3>2. CASE CheckContext(w)
      BY <1>0, <1>1, <3>2 DEF CheckContext
    <3>3. CASE Fetch(w) \/ AppendBlock(w)
      BY <1>0, <3>3 DEF Fetch, AppendBlock
    <3>4. CASE RecordError(w)
      BY <3>4 DEF RecordError, PoolInv, Causes, ChunkDone
    <3> QED
      BY <1>3, <3>1, <3>2, <3>3, <3>4 DEF Worker
  <2> QED
    BY <1>1, <1>2, <2>1, <2>2 DEF NoneQuitsEarly
<1>4. CASE Cancel \/ Dispatcher \/ UNCHANGED vars
  <2>1. \A w \in Workers : wpc'[w] = "done" => wpc[w] = "done"
    BY <1>0, <1>4 DEF Cancel, Dispatcher, Send, EndSending, Return, vars
  <2> QED
    BY <1>1, <1>2, <2>1 DEF NoneQuitsEarly
<1> QED
  BY <1>3, <1>4 DEF Next

\* Nobody waits for ever on the unbuffered channel or in wg.Wait(), whichever
\* workers have quit (backfill.go:195-201).
THEOREM PoolNeverStuck == Spec => []NeverStuck
<1>1. Init => NoneQuitsEarly
  BY DEF Init, NoneQuitsEarly
<1>2. PoolInv /\ NoneQuitsEarly => NeverStuck
  <2> SUFFICES ASSUME PoolInv, NoneQuitsEarly, ~NeverStuck PROVE FALSE
    OBVIOUS
  <2>0. /\ wpc \in [Workers -> {"receive", "check", "fetch", "failed", "append", "done"}]
        /\ dpc \in {"send", "wait", "returned"}
    BY DEF PoolInv, TypeOK
  <2>1. CASE dpc = "send"
    <3>1. \A w \in Workers : wpc[w] = "done"
      BY <2>0, <2>1 DEF NeverStuck, DispatcherCanRun, WorkerCanRun
    <3>2. ChunkDone
      BY <2>1, <3>1, PoolAssumption DEF NoneQuitsEarly
    <3> QED
      BY <2>1, <3>2 DEF NeverStuck, DispatcherCanRun
  <2>2. CASE dpc = "wait"
    BY <2>0, <2>2 DEF NeverStuck, DispatcherCanRun, WorkerCanRun
  <2> QED
    BY <2>0, <2>1, <2>2 DEF NeverStuck
<1> QED
  BY <1>1, <1>2, QuitNext, PoolInvariant, PTL DEF Spec

\* What is left to do: a number that is not sent is worth more than one in a
\* worker's hands, and that less with each step the worker has made.
Count(label) == Cardinality({w \in Workers : wpc[w] = label})

Sending == IF dpc = "send" THEN 2 ELSE IF dpc = "wait" THEN 1 ELSE 0

Work ==
    6 * Cardinality(todo) + 5 * Count("check") + 4 * Count("fetch")
    + 3 * Count("failed") + 3 * Count("append") + Count("receive") + Sending

LEMMA CountType ==
    ASSUME IsFiniteSet(Workers), NEW label
    PROVE  Count(label) \in Nat
BY FS_Subset, FS_CardinalityType DEF Count

\* A worker goes from the label a to the label b.
Moved(a, b) ==
    /\ Count(a)' = Count(a) - 1
    /\ Count(b)' = Count(b) + 1
    /\ \A c : c # a /\ c # b => Count(c)' = Count(c)

LEMMA Moves ==
    ASSUME IsFiniteSet(Workers), DOMAIN wpc = Workers, NEW w \in Workers,
           NEW a, NEW b, wpc[w] = a, a # b, wpc' = [wpc EXCEPT ![w] = b]
    PROVE  Moved(a, b)
<1> DEFINE At(c) == {v \in Workers : wpc[v] = c}
           Then(c) == {v \in Workers : wpc'[v] = c}
<1>1. \A c : IsFiniteSet(At(c))
  BY FS_Subset
<1>2. /\ Then(a) = At(a) \ {w}
      /\ Then(b) = At(b) \cup {w}
      /\ \A c : c # a /\ c # b => Then(c) = At(c)
  OBVIOUS
<1>3. w \in At(a) /\ w \notin At(b)
  OBVIOUS
<1>4. \A c : Count(c) = Cardinality(At(c)) /\ Count(c)' = Cardinality(Then(c))
  BY DEF Count
<1> HIDE DEF At, Then
<1>5. Cardinality(Then(a)) = Cardinality(At(a)) - 1
  BY <1>1, <1>2, <1>3, FS_RemoveElement
<1>6. Cardinality(Then(b)) = Cardinality(At(b)) + 1
  BY <1>1, <1>2, <1>3, FS_AddElement
<1>7. Count(a)' = Count(a) - 1
  <2>1. Count(a) = Cardinality(At(a)) /\ Count(a)' = Cardinality(Then(a))
    BY <1>4
  <2> QED BY <1>5, <2>1
<1>8. Count(b)' = Count(b) + 1
  <2>1. Count(b) = Cardinality(At(b)) /\ Count(b)' = Cardinality(Then(b))
    BY <1>4
  <2> QED BY <1>6, <2>1
<1>9. ASSUME NEW c, c # a, c # b PROVE Count(c)' = Count(c)
  <2>1. Count(c) = Cardinality(At(c)) /\ Count(c)' = Cardinality(Then(c))
    BY <1>4
  <2>2. Then(c) = At(c)
    BY <1>2, <1>9
  <2> QED BY <2>1, <2>2
<1> QED
  BY <1>7, <1>8, <1>9 DEF Moved

LEMMA WorkType ==
    ASSUME IsFiniteSet(Wanted), IsFiniteSet(Workers), TypeOK
    PROVE  Work \in Nat /\ Cardinality(todo) \in Nat /\ Sending \in Nat
<1>1. Cardinality(todo) \in Nat
  BY FS_Subset, FS_CardinalityType DEF TypeOK
<1>2. Sending \in Nat
  BY DEF Sending
<1>3. /\ Count("check") \in Nat /\ Count("fetch") \in Nat /\ Count("failed") \in Nat
      /\ Count("append") \in Nat /\ Count("receive") \in Nat
  BY CountType
<1> QED
  BY <1>1, <1>2, <1>3 DEF Work

\* Every step but SIGTERM, and but the steps that change nothing, does some
\* of the work.
LEMMA Progress ==
    ASSUME IsFiniteSet(Wanted), IsFiniteSet(Workers), PoolInv, [Next]_vars
    PROVE  Work' < Work \/ UNCHANGED <<cancelled, todo, dpc, wpc, job, err, firstErr, fetched>>
<1>0. /\ wpc \in [Workers -> {"receive", "check", "fetch", "failed", "append", "done"}]
      /\ dpc \in {"send", "wait", "returned"}
      /\ TypeOK
  BY DEF PoolInv, TypeOK
<1>1. DOMAIN wpc = Workers
  BY <1>0
<1>2. PoolInv'
  BY PoolNext
<1>3. TypeOK'
  BY <1>2 DEF PoolInv
<1>4. /\ Count("check") \in Nat /\ Count("fetch") \in Nat /\ Count("failed") \in Nat
      /\ Count("append") \in Nat /\ Count("receive") \in Nat /\ Cardinality(todo) \in Nat
      /\ Sending \in Nat
  BY <1>0, CountType, WorkType
<1>5. ASSUME NEW w \in Workers, NEW n \in Wanted, Send(w, n) PROVE Work' < Work
  <2>1. Moved("receive", "check")
    BY <1>1, <1>5, Moves DEF Send
  <2>2. Cardinality(todo)' = Cardinality(todo) - 1
    <3>1. IsFiniteSet(todo) /\ n \in todo /\ todo' = todo \ {n}
      BY <1>0, <1>5, FS_Subset DEF TypeOK, Send
    <3> QED BY <3>1, FS_RemoveElement
  <2>3. Sending' = Sending
    BY <1>5 DEF Send, Sending
  <2> QED
    BY <1>4, <2>1, <2>2, <2>3 DEF Work, Moved
<1>6. CASE EndSending \/ Return
  <2>1. UNCHANGED <<todo, wpc>>
    BY <1>6 DEF EndSending, Return
  <2>2. \A c : Count(c)' = Count(c)
    BY <2>1 DEF Count
  <2>3. Sending' = Sending - 1
    BY <1>6 DEF Sending, EndSending, Return
  <2>4. Cardinality(todo)' = Cardinality(todo)
    BY <2>1
  <2> QED
    BY <1>4, <2>2, <2>3, <2>4 DEF Work
<1>7. ASSUME NEW w \in Workers, Worker(w) PROVE Work' < Work
  <2>1. Cardinality(todo)' = Cardinality(todo) /\ Sending' = Sending
    <3>1. UNCHANGED <<todo, dpc>>
      BY <1>7 DEF Worker, EndReceiving, CheckContext, Fetch, RecordError, AppendBlock
    <3> QED BY <3>1 DEF Sending
  <2>2. \/ Moved("receive", "done")
        \/ Moved("check", "fetch") \/ Moved("check", "done")
        \/ Moved("fetch", "append") \/ Moved("fetch", "failed")
        \/ Moved("failed", "done")
        \/ Moved("append", "receive")
    <3>1. EndReceiving(w) => Moved("receive", "done")
      BY <1>1, Moves DEF EndReceiving
    <3>2. CheckContext(w) => Moved("check", "fetch") \/ Moved("check", "done")
      <4>1. CASE ChunkDone
        BY <1>1, <4>1, Moves DEF CheckContext
      <4>2. CASE ~ChunkDone
        BY <1>1, <4>2, Moves DEF CheckContext
      <4> QED BY <4>1, <4>2
    <3>3. Fetch(w) => Moved("fetch", "append") \/ Moved("fetch", "failed")
      <4>1. CASE wpc' = [wpc EXCEPT ![w] = "append"]
        BY <1>1, <4>1, Moves DEF Fetch
      <4>2. CASE wpc' = [wpc EXCEPT ![w] = "failed"]
        BY <1>1, <4>2, Moves DEF Fetch
      <4> QED BY <4>1, <4>2 DEF Fetch
    <3>4. RecordError(w) => Moved("failed", "done")
      BY <1>1, Moves DEF RecordError
    <3>5. AppendBlock(w) => Moved("append", "receive")
      BY <1>1, Moves DEF AppendBlock
    <3> QED
      BY <1>7, <3>1, <3>2, <3>3, <3>4, <3>5 DEF Worker
  <2> QED
    BY <1>4, <2>1, <2>2 DEF Work, Moved
<1>8. CASE Cancel \/ UNCHANGED vars
  BY <1>8 DEF Cancel, vars
<1> QED
  BY <1>5, <1>6, <1>7, <1>8 DEF Next, Dispatcher

DoesWork ==
    [][ \/ Work' < Work
        \/ UNCHANGED <<cancelled, todo, dpc, wpc, job, err, firstErr, fetched>> ]_vars

\* Work is a natural number that every step of a goroutine makes smaller: the
\* pool takes 6 * (number of blocks) + (number of workers) + 2 steps at most.
THEOREM PoolEnds ==
    ASSUME IsFiniteSet(Wanted), IsFiniteSet(Workers)
    PROVE  Spec => [](Work \in Nat) /\ DoesWork
<1>1. PoolInv => Work \in Nat
  BY WorkType DEF PoolInv
<1>2. PoolInv /\ [Next]_vars =>
        [ \/ Work' < Work
          \/ UNCHANGED <<cancelled, todo, dpc, wpc, job, err, firstErr, fetched>> ]_vars
  BY Progress
<1> QED
  BY <1>1, <1>2, PoolInvariant, PTL DEF Spec, DoesWork
=============================================================================
