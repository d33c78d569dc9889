---------------------------- MODULE GetLogsProofs ---------------------------
(***************************************************************************)
(* GetLogs returns the logs of the whole chunk, each once, or an error:    *)
(* for every chunk, every limit of the node and every failure.             *)
(*                                                                         *)
(* The calls form a tree: two of them have nothing in common, or one is    *)
(* below the other.  So a half has one parent, which joins it once, and    *)
(* what a call has gathered is what its joined halves have returned.       *)
(***************************************************************************)
EXTENDS GetLogs, NaturalsInduction, FiniteSetTheorems, TLAPS

Active == {r \in Ranges : call[r] # "none"}

In(q, r) == r[1] <= q[1] /\ q[2] <= r[2]
Apart(q, r) == q[2] < r[1] \/ r[2] < q[1]

Nested == \A q, r \in Active : Apart(q, r) \/ In(q, r) \/ In(r, q)

\* A call in MakeRequest has nothing below it.
AskingAlone ==
    \A q, r \in Active : call[r] = "asking" /\ In(q, r) => q = r

SplitHasHalves ==
    \A r \in Ranges : call[r] = "split" => ~CannotSplit(r) /\ Halves(r) \subseteq Active

JoinedHasEnded == \A h \in joined : h \in Ranges /\ call[h] \in {"ok", "error"}

Tree == Nested /\ AskingAlone /\ SplitHasHalves /\ JoinedHasEnded

\* What the half h has brought to block b.
Brought(h, b) == IF h \in joined THEN LogsIn(h)[b] ELSE 0

Gathered ==
    \A r \in Ranges :
        /\ call[r] \in {"none", "asking"} => out[r] = NoLogs
        /\ call[r] = "ok" => out[r] = LogsIn(r)
        /\ call[r] = "split" /\ r \notin first =>
              \A b \in ChunkBlocks : out[r][b] = Brought(Left(r), b) + Brought(Right(r), b)

LogsInv == TypeOK /\ Tree /\ Gathered

(***************************************************************************)
(* Ranges.                                                                 *)
(***************************************************************************)
LEMMA RangeFacts ==
    ASSUME NEW r \in Ranges
    PROVE  /\ r[1] \in Int /\ r[2] \in Int
           /\ From <= r[1] /\ r[1] <= r[2] /\ r[2] <= To
           /\ r = <<r[1], r[2]>>
BY GetLogsAssumption DEF Ranges, ChunkBlocks

LEMMA SameRange ==
    ASSUME NEW q \in Ranges, NEW r \in Ranges, In(q, r), In(r, q)
    PROVE  q = r
<1>1. q[1] = r[1] /\ q[2] = r[2]
  BY RangeFacts DEF In
<1> QED
  BY <1>1, RangeFacts

\* A range that can be split consists of its halves.
LEMMA HalvesOf ==
    ASSUME NEW r \in Ranges, ~CannotSplit(r)
    PROVE  /\ Left(r) \in Ranges /\ Right(r) \in Ranges
           /\ Left(r)[1] = r[1] /\ Left(r)[2] = Mid(r)
           /\ Right(r)[1] = Mid(r) + 1 /\ Right(r)[2] = r[2]
           /\ Mid(r) \in Int /\ r[1] < Mid(r) /\ Mid(r) < r[2]
<1>1. /\ r[1] \in Int /\ r[2] \in Int /\ From \in Nat /\ To \in Nat
      /\ From <= r[1] /\ r[1] <= r[2] /\ r[2] <= To
  BY RangeFacts, GetLogsAssumption
<1>2. Mid(r) \in Int /\ r[1] <= Mid(r) /\ Mid(r) <= r[2]
  BY <1>1 DEF Mid
<1>3. Mid(r) # r[1] /\ Mid(r) # r[2]
  BY DEF CannotSplit
<1>4. r[1] < Mid(r) /\ Mid(r) < r[2]
  BY <1>1, <1>2, <1>3
<1> QED
  BY <1>1, <1>2, <1>4 DEF Left, Right, Ranges, ChunkBlocks

\* The logs of a range are those of its halves.
LEMMA LogsOfHalves ==
    ASSUME NEW r \in Ranges, ~CannotSplit(r), NEW b \in ChunkBlocks
    PROVE  LogsIn(r)[b] = LogsIn(Left(r))[b] + LogsIn(Right(r))[b]
BY RangeFacts, HalvesOf, GetLogsAssumption DEF LogsIn, ChunkBlocks

\* No range is a half of two calls.
LEMMA NotBelowBoth ==
    ASSUME Tree, NEW p \in Ranges, NEW r \in Ranges, call[p] = "split", call[r] = "split",
           NEW h \in Halves(p), h \in Halves(r), In(r, p)
    PROVE  r = p
<1>1. /\ ~CannotSplit(p) /\ ~CannotSplit(r)
      /\ Left(p) \in Active /\ Right(p) \in Active /\ r \in Active
  BY DEF Tree, SplitHasHalves, Halves, Active
<1>2. /\ p[1] \in Int /\ p[2] \in Int /\ r[1] \in Int /\ r[2] \in Int
      /\ p[1] <= r[1] /\ r[2] <= p[2]
  BY RangeFacts DEF In
<1>3. /\ Left(p)[1] = p[1] /\ Left(p)[2] = Mid(p)
      /\ Right(p)[1] = Mid(p) + 1 /\ Right(p)[2] = p[2]
      /\ Mid(p) \in Int /\ p[1] < Mid(p) /\ Mid(p) < p[2]
  BY <1>1, HalvesOf
<1>4. /\ h[1] \in Int /\ h[2] \in Int /\ r[1] <= h[1] /\ h[1] <= h[2] /\ h[2] <= r[2]
      /\ r[1] < h[1] \/ h[2] < r[2]
  <2>1. h = Left(r) \/ h = Right(r)
    BY DEF Halves
  <2> QED
    BY <1>1, <1>2, <2>1, HalvesOf
<1>5. /\ Apart(r, Left(p)) \/ In(r, Left(p)) \/ In(Left(p), r)
      /\ Apart(r, Right(p)) \/ In(r, Right(p)) \/ In(Right(p), r)
  BY <1>1 DEF Tree, Nested
<1>6. CASE h = Left(p)
  <2>1. In(Right(p), r)
    BY <1>2, <1>3, <1>4, <1>5, <1>6 DEF In, Apart
  <2>2. In(p, r)
    BY <1>2, <1>3, <1>4, <1>6, <2>1 DEF In
  <2> QED
    BY <2>2, SameRange
<1>7. CASE h = Right(p)
  <2>1. In(Left(p), r)
    BY <1>2, <1>3, <1>4, <1>5, <1>7 DEF In, Apart
  <2>2. In(p, r)
    BY <1>2, <1>3, <1>4, <1>7, <2>1 DEF In
  <2> QED
    BY <2>2, SameRange
<1> QED
  BY <1>6, <1>7 DEF Halves

LEMMA OneParent ==
    ASSUME Tree, NEW p \in Ranges, NEW r \in Ranges, call[p] = "split", call[r] = "split",
           NEW h \in Halves(p), h \in Halves(r)
    PROVE  r = p
<1>1. p \in Active /\ r \in Active /\ ~CannotSplit(p) /\ ~CannotSplit(r)
  BY DEF Tree, SplitHasHalves, Active
<1>2. ~Apart(p, r)
  <2>1. /\ h[1] \in Int /\ h[2] \in Int /\ h[1] <= h[2]
        /\ In(h, p) /\ In(h, r)
    <3>1. h \in {Left(p), Right(p)} /\ h \in {Left(r), Right(r)}
      BY DEF Halves
    <3> QED
      BY <1>1, <3>1, HalvesOf, RangeFacts DEF In
  <2> QED
    BY <2>1, RangeFacts DEF In, Apart
<1> QED
  BY <1>1, <1>2, NotBelowBoth DEF Tree, Nested

(***************************************************************************)
(* Type correctness.                                                       *)
(***************************************************************************)
LEMMA ChunkIsRange == Chunk \in Ranges
BY GetLogsAssumption DEF Chunk, Ranges, ChunkBlocks

LEMMA LogsType ==
    /\ \A r \in Ranges : LogsIn(r) \in [ChunkBlocks -> Nat]
    /\ NoLogs \in [ChunkBlocks -> Nat]
BY DEF LogsIn, NoLogs

LEMMA TooLargeType ==
    ASSUME TypeOK, NEW r \in Ranges, TooLarge(r)
    PROVE  call' \in [Ranges -> {"none", "asking", "split", "ok", "error"}]
BY DEF TypeOK, TooLarge

LEMMA InitLogsType == Init => TypeOK
BY GetLogsAssumption, LogsType DEF Init, TypeOK

LEMMA NextLogsType == TypeOK /\ [Next]_vars => TypeOK'
<1> SUFFICES ASSUME TypeOK, [Next]_vars PROVE TypeOK'
  OBVIOUS
<1> USE GetLogsAssumption DEF TypeOK
<1>1. ASSUME NEW r \in Ranges, Request(r) PROVE TypeOK'
  <2>0. attempt[r] \in Nat /\ attempt[r] < MaxRetry /\ UNCHANGED <<first, joined>>
    BY <1>1 DEF Request
  <2>1. attempt[r] + 1 \in 0..MaxRetry
    BY <2>0
  <2>2. Fault => faults' \in 0..MaxFaults
    BY DEF Fault
  <2>3. CASE Answered(r)
    BY <2>0, <2>3, LogsType DEF Answered
  <2>4. CASE RefusedByStatus(r) \/ OtherStatus(r)
    BY <2>0, <2>2, <2>4, TooLargeType DEF RefusedByStatus, OtherStatus
  <2>5. CASE RefusedByCode(r) \/ Retried(r)
    BY <2>0, <2>1, <2>2, <2>5 DEF RefusedByCode, Retried
  <2>6. CASE Broken(r)
    BY <2>0, <2>2, <2>6 DEF Broken
  <2> QED
    BY <1>1, <2>3, <2>4, <2>5, <2>6 DEF Request
<1>2. ASSUME NEW r \in Ranges, Exhausted(r) \/ Return(r) PROVE TypeOK'
  BY <1>2 DEF Exhausted, Return
<1>3. ASSUME NEW r \in Ranges, NEW half \in Ranges, Join(r, half) PROVE TypeOK'
  <2>1. [b \in ChunkBlocks |-> out[r][b] + out[half][b]] \in [ChunkBlocks -> Nat]
    OBVIOUS
  <2> QED
    BY <1>3, <2>1 DEF Join
<1>4. CASE UNCHANGED vars
  BY <1>4 DEF vars
<1> QED
  BY <1>1, <1>2, <1>3, <1>4 DEF Next

\* The variables keep their types.
THEOREM LogsTypeCorrect == Spec => []TypeOK
<1> QED
  BY InitLogsType, NextLogsType, PTL DEF Spec

(***************************************************************************)
(* A step of a call, by its kind.                                          *)
(***************************************************************************)
\* A call that ends, or that is asked again, changes nothing of the tree.
LEMMA EndKeepsTree ==
    ASSUME TypeOK, Tree, NEW r \in Ranges, call[r] \in {"asking", "split"},
           NEW e \in {"ok", "error"},
           call' = [call EXCEPT ![r] = e] \/ call' = call, joined' = joined
    PROVE  Tree'
<1>1. call \in [Ranges -> {"none", "asking", "split", "ok", "error"}]
  BY DEF TypeOK
<1>2. Active' = Active
  BY <1>1 DEF Active
<1>3. Nested' /\ AskingAlone'
  BY <1>1, <1>2 DEF Tree, Nested, AskingAlone, Active
<1>4. SplitHasHalves'
  BY <1>1, <1>2 DEF Tree, SplitHasHalves
<1>5. JoinedHasEnded'
  BY <1>1 DEF Tree, JoinedHasEnded
<1> QED
  BY <1>3, <1>4, <1>5 DEF Tree

\* The halves of a call that is split are new to the tree.
LEMMA NewHalves ==
    ASSUME TypeOK, Tree, NEW r \in Ranges, call[r] = "asking", ~CannotSplit(r)
    PROVE  /\ Halves(r) \subseteq Ranges
           /\ \A h \in Halves(r) : call[h] = "none" /\ h \notin joined /\ In(h, r) /\ h # r
<1> SUFFICES ASSUME NEW h \in Halves(r)
             PROVE  h \in Ranges /\ call[h] = "none" /\ h \notin joined /\ In(h, r) /\ h # r
  OBVIOUS
<1>1. h \in Ranges /\ In(h, r) /\ h # r
  <2>1. h = Left(r) \/ h = Right(r)
    BY DEF Halves
  <2> QED
    BY <2>1, HalvesOf, RangeFacts DEF In
<1>2. call[h] = "none"
  BY <1>1 DEF Tree, AskingAlone, Active
<1> QED
  BY <1>1, <1>2 DEF Tree, JoinedHasEnded

LEMMA SplitKeepsTree ==
    ASSUME TypeOK, Tree, NEW r \in Ranges, call[r] = "asking", ~CannotSplit(r),
           TooLarge(r), joined' = joined
    PROVE  Tree'
<1>0. /\ call' = [q \in Ranges |-> IF q = r THEN "split"
                                   ELSE IF q \in Halves(r) THEN "asking"
                                   ELSE call[q]]
      /\ r \in Active
  BY DEF TooLarge, Active
<1>1. /\ Halves(r) \subseteq Ranges
      /\ \A h \in Halves(r) : call[h] = "none" /\ h \notin joined /\ In(h, r) /\ h # r
  BY NewHalves
<1>2. Active' = Active \cup Halves(r)
  BY <1>0, <1>1 DEF Active
<1>3. ASSUME NEW h \in Halves(r), NEW q \in Active
      PROVE  /\ Apart(q, h) \/ In(h, q)
             /\ call[q] = "asking" /\ In(h, q) => q = r
  <2>1. Apart(q, r) \/ In(q, r) \/ In(r, q)
    BY <1>0 DEF Tree, Nested
  <2>2. /\ h[1] \in Int /\ h[2] \in Int /\ h[1] <= h[2]
        /\ r[1] \in Int /\ r[2] \in Int /\ r[1] <= h[1] /\ h[2] <= r[2]
        /\ q[1] \in Int /\ q[2] \in Int
    BY <1>1, RangeFacts DEF In, Active
  <2>3. In(q, r) => q = r
    BY <1>0 DEF Tree, AskingAlone
  <2>4. call[q] = "asking" /\ In(r, q) => q = r
    BY <1>0 DEF Tree, AskingAlone
  <2> QED
    BY <1>1, <2>1, <2>2, <2>3, <2>4 DEF In, Apart
<1>4. ASSUME NEW g \in Halves(r), NEW h \in Halves(r), g # h
      PROVE  Apart(g, h) /\ ~In(g, h)
  <2>1. \/ g = Left(r) /\ h = Right(r)
        \/ g = Right(r) /\ h = Left(r)
    BY <1>4 DEF Halves
  <2>2. /\ Left(r)[2] = Mid(r) /\ Right(r)[1] = Mid(r) + 1 /\ Mid(r) \in Int
        /\ Left(r)[1] \in Int /\ Left(r)[1] <= Left(r)[2]
        /\ Right(r)[2] \in Int /\ Right(r)[1] <= Right(r)[2]
    BY HalvesOf, RangeFacts
  <2> QED
    BY <2>1, <2>2 DEF In, Apart
<1>5. \A q \in Ranges : In(q, q)
  BY RangeFacts DEF In
<1>6. Nested'
  <2> SUFFICES ASSUME NEW p \in Active \cup Halves(r), NEW q \in Active \cup Halves(r)
               PROVE  Apart(p, q) \/ In(p, q) \/ In(q, p)
    BY <1>2 DEF Nested
  <2>1. CASE p \in Active /\ q \in Active
    BY <2>1 DEF Tree, Nested
  <2>2. CASE p \in Active /\ q \in Halves(r)
    BY <1>3, <2>2
  <2>3. CASE p \in Halves(r) /\ q \in Active
    <3>1. Apart(q, p) \/ In(p, q)
      BY <1>3, <2>3
    <3> QED
      BY <3>1 DEF Apart
  <2>4. CASE p \in Halves(r) /\ q \in Halves(r)
    BY <1>1, <1>4, <1>5, <2>4
  <2> QED
    BY <2>1, <2>2, <2>3, <2>4
<1>7. AskingAlone'
  <2> SUFFICES ASSUME NEW q \in Active \cup Halves(r), NEW p \in Active \cup Halves(r),
                      call'[p] = "asking", In(q, p)
               PROVE  q = p
    BY <1>2 DEF AskingAlone
  <2>0. p \in Ranges /\ q \in Ranges /\ p # r
    BY <1>0, <1>1 DEF Active
  <2>1. CASE p \in Active /\ p \notin Halves(r)
    <3>1. call[p] = "asking"
      BY <1>0, <2>0, <2>1
    <3>2. CASE q \in Active
      BY <2>1, <3>1, <3>2 DEF Tree, AskingAlone
    <3>3. CASE q \in Halves(r)
      BY <1>3, <2>0, <2>1, <3>1, <3>3
    <3> QED
      BY <3>2, <3>3
  <2>2. CASE p \in Halves(r)
    <3>1. CASE q \in Halves(r)
      BY <1>4, <2>2, <3>1
    <3>2. CASE q \in Active
      <4>1. Apart(q, p) \/ In(p, q)
        BY <1>3, <2>2, <3>2
      <4>2. ~Apart(q, p)
        BY <2>0, RangeFacts DEF In, Apart
      <4> QED
        BY <2>0, <4>1, <4>2, SameRange
    <3> QED
      BY <3>1, <3>2
  <2> QED
    BY <2>1, <2>2
<1>8. SplitHasHalves'
  BY <1>0, <1>1, <1>2 DEF Tree, SplitHasHalves
<1>9. JoinedHasEnded'
  BY <1>0, <1>1 DEF Tree, JoinedHasEnded
<1> QED
  BY <1>6, <1>7, <1>8, <1>9 DEF Tree

LEMMA NextTree == TypeOK /\ Tree /\ [Next]_vars => Tree'
<1> SUFFICES ASSUME TypeOK, Tree, [Next]_vars PROVE Tree'
  OBVIOUS
<1>1. ASSUME NEW r \in Ranges, Request(r) PROVE Tree'
  <2>0. call[r] = "asking" /\ joined' = joined
    BY <1>1 DEF Request
  <2>1. ASSUME TooLarge(r) PROVE Tree'
    <3>1. CASE CannotSplit(r)
      BY <2>0, <2>1, <3>1, EndKeepsTree DEF TooLarge
    <3>2. CASE ~CannotSplit(r)
      BY <2>0, <2>1, <3>2, SplitKeepsTree
    <3> QED
      BY <3>1, <3>2
  <2>2. \/ TooLarge(r) \/ call' = call
        \/ \E e \in {"ok", "error"} : call' = [call EXCEPT ![r] = e]
    BY <1>1 DEF Request, Answered, RefusedByStatus, RefusedByCode, Retried, OtherStatus, Broken
  <2> QED
    BY <2>0, <2>1, <2>2, EndKeepsTree
<1>2. ASSUME NEW r \in Ranges, Exhausted(r) \/ Return(r) PROVE Tree'
  BY <1>2, EndKeepsTree DEF Exhausted, Return
<1>3. ASSUME NEW r \in Ranges, NEW half \in Ranges, Join(r, half) PROVE Tree'
  BY <1>3 DEF Join, Tree, Nested, AskingAlone, SplitHasHalves, JoinedHasEnded, Active
<1>4. CASE UNCHANGED vars
  BY <1>4 DEF vars, Tree, Nested, AskingAlone, SplitHasHalves, JoinedHasEnded, Active
<1> QED
  BY <1>1, <1>2, <1>3, <1>4 DEF Next

(***************************************************************************)
(* What the calls have gathered.                                           *)
(***************************************************************************)
\* A turn of MakeRequest's loop.
LEMMA RequestGathers ==
    ASSUME LogsInv, NEW r \in Ranges, Request(r)
    PROVE  Gathered'
<1>0. /\ TypeOK /\ Tree /\ Gathered
      /\ call[r] = "asking" /\ UNCHANGED <<first, joined>> /\ out[r] = NoLogs
      /\ call \in [Ranges -> {"none", "asking", "split", "ok", "error"}]
      /\ out \in [Ranges -> [ChunkBlocks -> Nat]]
  BY DEF LogsInv, Request, Gathered, TypeOK
<1>k. ASSUME NEW q \in Ranges, call'[q] = call[q], out'[q] = out[q]
      PROVE  /\ call'[q] \in {"none", "asking"} => out'[q] = NoLogs
             /\ call'[q] = "ok" => out'[q] = LogsIn(q)
             /\ call'[q] = "split" /\ q \notin first' =>
                   \A b \in ChunkBlocks :
                       out'[q][b] = Brought(Left(q), b)' + Brought(Right(q), b)'
  BY <1>0, <1>k DEF Gathered, Brought
<1>1. CASE Answered(r)
  <2>1. /\ \A q \in Ranges : q # r => call'[q] = call[q] /\ out'[q] = out[q]
        /\ call'[r] = "ok" /\ out'[r] = LogsIn(r)
    BY <1>0, <1>1 DEF Answered
  <2> QED
    BY <1>k, <2>1 DEF Gathered
<1>2. ASSUME TooLarge(r), out' = out PROVE Gathered'
  <2>1. CASE CannotSplit(r)
    <3>1. /\ \A q \in Ranges : q # r => call'[q] = call[q]
          /\ call'[r] = "error"
      BY <1>0, <1>2, <2>1 DEF TooLarge
    <3> QED
      BY <1>2, <1>k, <3>1 DEF Gathered
  <2>2. CASE ~CannotSplit(r)
    <3>1. /\ Halves(r) \subseteq Ranges
          /\ \A h \in Halves(r) : call[h] = "none" /\ h \notin joined /\ h # r
      BY <1>0, <2>2, NewHalves
    <3>2. /\ \A q \in Ranges : q # r /\ q \notin Halves(r) => call'[q] = call[q]
          /\ \A h \in Halves(r) : call'[h] = "asking"
          /\ call'[r] = "split"
      BY <1>0, <1>2, <2>2, <3>1 DEF TooLarge
    <3>3. \A h \in Halves(r) : out'[h] = NoLogs
      BY <1>0, <1>2, <3>1 DEF Gathered
    <3>4. \A b \in ChunkBlocks : out'[r][b] = Brought(Left(r), b)' + Brought(Right(r), b)'
      BY <1>0, <1>2, <3>1 DEF NoLogs, Brought, Halves
    <3> QED
      BY <1>2, <1>k, <3>1, <3>2, <3>3, <3>4 DEF Gathered
  <2> QED
    BY <2>1, <2>2
<1>3. CASE RefusedByStatus(r) \/ OtherStatus(r)
  BY <1>2, <1>3 DEF RefusedByStatus, OtherStatus
<1>4. CASE RefusedByCode(r) \/ Retried(r)
  BY <1>4, <1>k DEF RefusedByCode, Retried, Gathered
<1>5. CASE Broken(r)
  <2>1. /\ \A q \in Ranges : q # r => call'[q] = call[q]
        /\ call'[r] = "error" /\ out' = out
    BY <1>0, <1>5 DEF Broken
  <2> QED
    BY <1>k, <2>1 DEF Gathered
<1> QED
  BY <1>1, <1>3, <1>4, <1>5 DEF Request

\* The goroutine of a half ends: it has one parent, so nobody else sees that.
LEMMA JoinGathers ==
    ASSUME LogsInv, NEW r \in Ranges, NEW half \in Ranges, Join(r, half)
    PROVE  Gathered'
<1>0. /\ TypeOK /\ Tree /\ Gathered
      /\ call[r] = "split" /\ half \in Halves(r) /\ half \notin joined
      /\ joined' = joined \cup {half} /\ call' = call
      /\ ~CannotSplit(r)
      /\ out \in [Ranges -> [ChunkBlocks -> Nat]]
  BY DEF LogsInv, Join, TypeOK, Tree, SplitHasHalves
<1>1. ASSUME NEW q \in Ranges, q # r
      PROVE  out'[q] = out[q] /\ (q \in first' <=> q \in first)
  BY <1>0, <1>1 DEF Join
<1>2. ASSUME NEW q \in Ranges, q # r, call[q] = "split", NEW b \in ChunkBlocks
      PROVE  /\ Brought(Left(q), b)' = Brought(Left(q), b)
             /\ Brought(Right(q), b)' = Brought(Right(q), b)
  <2>1. half \notin Halves(q)
    BY <1>0, <1>2, OneParent
  <2> QED
    BY <1>0, <2>1 DEF Brought, Halves
<1>3. ASSUME r \notin first', NEW b \in ChunkBlocks
      PROVE  out'[r][b] = Brought(Left(r), b)' + Brought(Right(r), b)'
  <2>1. /\ call[half] = "ok" /\ r \notin first
        /\ out'[r][b] = out[r][b] + out[half][b]
    BY <1>0, <1>3 DEF Join
  <2>2. /\ out[half][b] = LogsIn(half)[b] /\ LogsIn(half)[b] \in Nat
        /\ out[r][b] = Brought(Left(r), b) + Brought(Right(r), b)
    BY <1>0, <2>1, LogsType DEF Gathered
  <2>3. Left(r) # Right(r) /\ Left(r) \in Ranges /\ Right(r) \in Ranges
    BY <1>0, HalvesOf
  <2>4. Brought(Left(r), b) \in Nat /\ Brought(Right(r), b) \in Nat
    BY <2>3, LogsType DEF Brought
  <2>5. CASE half = Left(r)
    <3>1. /\ Brought(Left(r), b) = 0 /\ Brought(Left(r), b)' = LogsIn(half)[b]
          /\ Brought(Right(r), b)' = Brought(Right(r), b)
      BY <1>0, <2>3, <2>5 DEF Brought
    <3> QED
      BY <2>1, <2>2, <2>4, <3>1
  <2>6. CASE half = Right(r)
    <3>1. /\ Brought(Right(r), b) = 0 /\ Brought(Right(r), b)' = LogsIn(half)[b]
          /\ Brought(Left(r), b)' = Brought(Left(r), b)
      BY <1>0, <2>3, <2>6 DEF Brought
    <3> QED
      BY <2>1, <2>2, <2>4, <3>1
  <2> QED
    BY <1>0, <2>5, <2>6 DEF Halves
<1> QED
  BY <1>0, <1>1, <1>2, <1>3 DEF Gathered

\* wg.Wait() returns: the halves make up the range.
LEMMA ReturnGathers ==
    ASSUME LogsInv, NEW r \in Ranges, Return(r)
    PROVE  Gathered'
<1>0. /\ TypeOK /\ Tree /\ Gathered /\ ~CannotSplit(r)
      /\ call[r] = "split" /\ Left(r) \in joined /\ Right(r) \in joined
      /\ UNCHANGED <<out, first, joined>>
      /\ call \in [Ranges -> {"none", "asking", "split", "ok", "error"}]
      /\ out \in [Ranges -> [ChunkBlocks -> Nat]]
  BY DEF LogsInv, Return, TypeOK, Tree, SplitHasHalves, Halves
<1>1. /\ \A q \in Ranges : q # r => call'[q] = call[q]
      /\ call'[r] = IF r \in first THEN "error" ELSE "ok"
  BY <1>0 DEF Return
<1>2. ASSUME r \notin first PROVE out[r] = LogsIn(r)
  <2>1. ASSUME NEW b \in ChunkBlocks PROVE out[r][b] = LogsIn(r)[b]
    BY <1>0, <1>2, <2>1, LogsOfHalves DEF Gathered, Brought
  <2>2. out[r] \in [ChunkBlocks -> Nat] /\ LogsIn(r) \in [ChunkBlocks -> Nat]
    BY <1>0, LogsType
  <2> QED
    BY <2>1, <2>2
<1> QED
  BY <1>0, <1>1, <1>2 DEF Gathered, Brought

LEMMA InitLogsInv == Init => LogsInv
<1> SUFFICES ASSUME Init PROVE LogsInv
  OBVIOUS
<1>1. /\ \A r \in Ranges : call[r] \in {"none", "asking"} /\ out[r] = NoLogs
      /\ \A r \in Ranges : call[r] = "asking" <=> r = Chunk
      /\ first = {} /\ joined = {}
  BY DEF Init
<1>2. Active = {Chunk}
  BY <1>1, ChunkIsRange DEF Active
<1>3. Tree
  <2>1. In(Chunk, Chunk)
    BY ChunkIsRange, RangeFacts DEF In
  <2> QED
    BY <1>1, <1>2, <2>1 DEF Tree, Nested, AskingAlone, SplitHasHalves, JoinedHasEnded
<1>4. Gathered
  BY <1>1 DEF Gathered
<1> QED
  BY <1>3, <1>4, InitLogsType DEF LogsInv

LEMMA NextLogsInv == LogsInv /\ [Next]_vars => LogsInv'
<1> SUFFICES ASSUME LogsInv, [Next]_vars PROVE LogsInv'
  OBVIOUS
<1>1. TypeOK' /\ Tree'
  BY NextLogsType, NextTree DEF LogsInv
<1>2. ASSUME NEW r \in Ranges, Exhausted(r) PROVE Gathered'
  BY <1>2 DEF Exhausted, LogsInv, TypeOK, Gathered, Brought
<1>3. ASSUME UNCHANGED vars PROVE Gathered'
  BY <1>3 DEF vars, LogsInv, Gathered, Brought
<1>4. Gathered'
  BY <1>2, <1>3, RequestGathers, JoinGathers, ReturnGathers DEF Next
<1> QED
  BY <1>1, <1>4 DEF LogsInv

(***************************************************************************)
(* The theorems.                                                           *)
(***************************************************************************)
\* A call that has ended without error has the logs of its range, and one that
\* is split what its halves have brought.
THEOREM LogsInductive == Spec => []LogsInv
<1> QED
  BY InitLogsInv, NextLogsInv, PTL DEF Spec

\* Without an error GetLogs returns the logs of the whole chunk, each once
\* (rpc.go:89-158); the cursor advances on the strength of this.
THEOREM LogsCompleteHolds == Spec => []LogsComplete
<1>1. LogsInv => LogsComplete
  BY ChunkIsRange DEF LogsInv, Gathered, LogsComplete
<1> QED
  BY <1>1, LogsInductive, PTL

\* While no request has failed, no call has, for want of anything but size.
Untroubled ==
    faults = 0 => /\ \A r \in Ranges : call[r] # "error" /\ attempt[r] = 0
                  /\ first = {}

\* A node that serves ranges of two blocks and refuses larger ones by an HTTP
\* status never makes GetLogs fail by that alone (rpc.go:24-25).
THEOREM SplitSucceedsHolds ==
    ASSUME Refusal = "status", MaxRetry > 0
    PROVE  Spec => []SplitSucceeds
<1>1. Init => Untroubled
  BY DEF Init, Untroubled
<1>2. ASSUME NodeLimit >= 2, TypeOK, Untroubled, [Next]_vars PROVE Untroubled'
  <2> SUFFICES ASSUME faults' = 0
               PROVE  /\ \A r \in Ranges : call'[r] # "error" /\ attempt'[r] = 0
                      /\ first' = {}
    BY DEF Untroubled
  <2>0. /\ call \in [Ranges -> {"none", "asking", "split", "ok", "error"}]
        /\ faults \in Nat /\ NodeLimit \in Nat
    BY <1>2, GetLogsAssumption DEF TypeOK
  <2>1. faults = 0 /\ ~Fault
    <3>1. Fault \/ faults' = faults
      BY <1>2 DEF Next, Request, Answered, RefusedByStatus, RefusedByCode, Retried, OtherStatus,
                  Broken, Exhausted, Return, Join, vars
    <3> QED
      BY <2>0, <3>1 DEF Fault
  <2>2. (\A r \in Ranges : call[r] # "error" /\ attempt[r] = 0) /\ first = {}
    BY <1>2, <2>1 DEF Untroubled
  <2>3. ASSUME NEW r \in Ranges, Size(r) > NodeLimit PROVE ~CannotSplit(r)
    <3>1. r[1] \in Int /\ r[2] \in Int /\ r[2] - r[1] + 1 > 2
      BY <1>2, <2>0, <2>3, RangeFacts DEF Size
    <3>2. r[1] + 2 <= r[2]
      BY <3>1
    <3> QED
      BY <3>1, <3>2 DEF CannotSplit, Mid
  <2>4. ASSUME NEW r \in Ranges, Request(r)
        PROVE  (\A q \in Ranges : call'[q] # "error" /\ attempt'[q] = 0) /\ first' = {}
    <3>1. Answered(r) \/ RefusedByStatus(r)
      BY <2>1, <2>4 DEF Request, Retried, OtherStatus, Broken, RefusedByCode
    <3>2. CASE Answered(r)
      BY <2>0, <2>2, <2>4, <3>2 DEF Answered, Request
    <3>3. CASE RefusedByStatus(r)
      BY <2>0, <2>2, <2>3, <2>4, <3>3 DEF RefusedByStatus, TooLarge, Request
    <3> QED
      BY <3>1, <3>2, <3>3
  <2>5. \A r \in Ranges : ~Exhausted(r)
    BY <2>2 DEF Exhausted
  <2>6. ASSUME NEW r \in Ranges, Return(r)
        PROVE  (\A q \in Ranges : call'[q] # "error" /\ attempt'[q] = 0) /\ first' = {}
    BY <2>0, <2>2, <2>6 DEF Return
  <2>7. ASSUME NEW r \in Ranges, NEW half \in Ranges, Join(r, half)
        PROVE  (\A q \in Ranges : call'[q] # "error" /\ attempt'[q] = 0) /\ first' = {}
    BY <2>2, <2>7 DEF Join
  <2>8. CASE UNCHANGED vars
    BY <2>2, <2>8 DEF vars
  <2> QED
    BY <1>2, <2>4, <2>5, <2>6, <2>7, <2>8 DEF Next
<1>3. Untroubled => SplitSucceeds
  BY ChunkIsRange DEF Untroubled, SplitSucceeds
<1>4. ~(NodeLimit >= 2) => SplitSucceeds
  BY DEF SplitSucceeds
<1>5. CASE NodeLimit >= 2
  <2>1. TypeOK /\ Untroubled /\ [Next]_vars => Untroubled'
    BY <1>2, <1>5
  <2> QED
    BY <1>1, <2>1, <1>3, LogsTypeCorrect, PTL DEF Spec
<1>6. CASE ~(NodeLimit >= 2)
  <2>1. SplitSucceeds
    BY <1>4, <1>6
  <2> QED
    BY <2>1, PTL
<1> QED
  BY <1>5, <1>6

(***************************************************************************)
(* The end of GetLogs.  That it comes (GetLogsReturns) needs fairness and  *)
(* is left to the model checker.  Here are its two halves: until the call  *)
(* for the chunk has ended some call can run, and no run of steps is       *)
(* endless.                                                                *)
(***************************************************************************)
Ended(r) == call[r] \in {"ok", "error"}

\* The guards of a call's actions: it makes a request or gives up, one of its
\* goroutines has an answer, or wg.Wait() returns.
CallCanRun(r) ==
    \/ call[r] = "asking" /\ attempt[r] <= MaxRetry
    \/ call[r] = "split" /\ \E half \in Halves(r) \ joined : Ended(half)
    \/ call[r] = "split" /\ Halves(r) \subseteq joined

NeverStuck == Ended(Chunk) \/ \E r \in Ranges : CallCanRun(r)

\* Of some calls one has the smallest range.
LEMMA SmallestCall ==
    ASSUME NEW S \in SUBSET Ranges, S # {}
    PROVE  \E r \in S : \A q \in S : Size(r) <= Size(q)
<1> DEFINE T == {Size(r) : r \in S}
<1>1. \A r \in Ranges : Size(r) \in Nat
  BY RangeFacts DEF Size
<1>2. T \in SUBSET Nat /\ T # {}
  BY <1>1
<1>3. OpToRel(<, Nat) = {p \in Nat \X Nat : p[1] < p[2]}
  BY DEF OpToRel
<1> HIDE DEF T
<1>4. PICK n \in T : \A m \in T : ~(<<m, n>> \in OpToRel(<, Nat))
  BY <1>2, NatLessThanWellFounded, WFMin, Zenon
<1>5. ASSUME NEW m \in T PROVE n <= m
  <2>1. m \in Nat /\ n \in Nat
    BY <1>2
  <2>2. ~(m < n)
    BY <1>3, <1>4, <2>1
  <2> QED
    BY <2>1, <2>2
<1> USE DEF T
<1>6. PICK r \in S : Size(r) = n
  BY <1>4
<1> QED
  BY <1>5, <1>6

\* A half is smaller than its call.
LEMMA HalfIsSmaller ==
    ASSUME NEW r \in Ranges, ~CannotSplit(r), NEW h \in Halves(r)
    PROVE  h \in Ranges /\ Size(h) < Size(r)
<1>1. h = Left(r) \/ h = Right(r)
  BY DEF Halves
<1> QED
  BY <1>1, HalvesOf, RangeFacts DEF Size

\* GetLogs never waits for ever in wg.Wait(): the smallest call that has not
\* ended can run, since the halves of a call are smaller than it (rpc.go:123-149).
THEOREM LogsNeverStuck == Spec => []NeverStuck
<1>1. Init => call[Chunk] # "none"
  BY ChunkIsRange DEF Init
<1>2. LogsInv /\ call[Chunk] # "none" /\ [Next]_vars => (call[Chunk] # "none")'
  BY ChunkIsRange
     DEF LogsInv, TypeOK, Next, Request, Answered, RefusedByStatus, RefusedByCode, Retried,
         OtherStatus, Broken, TooLarge, Exhausted, Return, Join, vars
<1>3. LogsInv /\ call[Chunk] # "none" => NeverStuck
  <2> SUFFICES ASSUME LogsInv, call[Chunk] # "none", ~Ended(Chunk)
               PROVE  \E r \in Ranges : CallCanRun(r)
    BY DEF NeverStuck
  <2> DEFINE Running == {r \in Active : ~Ended(r)}
  <2>1. Running \in SUBSET Ranges /\ Chunk \in Running
    BY ChunkIsRange DEF Active
  <2>2. PICK r \in Running : \A q \in Running : Size(r) <= Size(q)
    <3> HIDE DEF Running
    <3> QED BY <2>1, SmallestCall
  <2>3. r \in Ranges /\ call[r] \in {"asking", "split"} /\ attempt[r] <= MaxRetry
    BY GetLogsAssumption DEF LogsInv, TypeOK, Active, Ended
  <2>4. CASE call[r] = "asking"
    BY <2>3, <2>4 DEF CallCanRun
  <2>5. CASE call[r] = "split"
    <3>1. ~CannotSplit(r) /\ Halves(r) \subseteq Active
      BY <2>3, <2>5 DEF LogsInv, Tree, SplitHasHalves
    <3>2. ASSUME NEW h \in Halves(r) PROVE Ended(h)
      <4>1. Size(h) < Size(r) /\ Size(h) \in Int /\ Size(r) \in Int
        BY <2>3, <3>1, HalfIsSmaller, RangeFacts DEF Size
      <4>2. h \notin Running
        BY <2>2, <4>1
      <4> QED BY <3>1, <4>2
    <3> QED
      BY <2>3, <2>5, <3>2 DEF CallCanRun
  <2> QED
    BY <2>3, <2>4, <2>5
<1> QED
  BY <1>1, <1>2, <1>3, LogsInductive, PTL DEF Spec

\* What a call has before it: to leave MakeRequest, to end, to be joined, and
\* each of its attempts.
Kinds == {"ask", "end", "join", "try"}

Deeds == Ranges \X (Kinds \X (0..MaxRetry))

ToDo(r, what, k) ==
    \/ what = "ask" /\ call[r] \in {"none", "asking"}
    \/ what = "end" /\ ~Ended(r)
    \/ what = "join" /\ r \notin joined
    \/ what = "try" /\ attempt[r] < k

Open(d) == ToDo(d[1], d[2][1], d[2][2])

Remaining == {d \in Deeds : Open(d)}

LEMMA DeedsFinite == IsFiniteSet(Deeds)
<1>1. IsFiniteSet(ChunkBlocks) /\ IsFiniteSet(0..MaxRetry)
  BY GetLogsAssumption, FS_Interval DEF ChunkBlocks
<1>2. IsFiniteSet(Ranges)
  <2>1. IsFiniteSet(ChunkBlocks \X ChunkBlocks)
    BY <1>1, FS_Product
  <2>2. Ranges \in SUBSET (ChunkBlocks \X ChunkBlocks)
    BY DEF Ranges
  <2> QED
    BY <2>1, <2>2, FS_Subset
<1>3. IsFiniteSet(Kinds)
  <2>1. IsFiniteSet({"ask"})
    BY FS_Singleton
  <2>2. IsFiniteSet({"ask"} \cup {"end"})
    BY <2>1, FS_AddElement
  <2>3. IsFiniteSet(({"ask"} \cup {"end"}) \cup {"join"})
    BY <2>2, FS_AddElement
  <2>4. IsFiniteSet((({"ask"} \cup {"end"}) \cup {"join"}) \cup {"try"})
    BY <2>3, FS_AddElement
  <2>5. Kinds = (({"ask"} \cup {"end"}) \cup {"join"}) \cup {"try"}
    BY DEF Kinds
  <2> QED
    BY <2>4, <2>5
<1>4. IsFiniteSet(Kinds \X (0..MaxRetry))
  BY <1>1, <1>3, FS_Product
<1>5. IsFiniteSet(Ranges \X (Kinds \X (0..MaxRetry)))
  BY <1>2, <1>4, FS_Product
<1> QED
  BY <1>5 DEF Deeds

\* A step opens nothing and settles something: then less remains.
LEMMA LessRemains ==
    ASSUME \A d \in Deeds : Open(d)' => Open(d),
           NEW e \in Deeds, Open(e), ~Open(e)'
    PROVE  Cardinality(Remaining)' < Cardinality(Remaining)
<1> DEFINE Now == {d \in Deeds : Open(d)}
           Then == {d \in Deeds : Open(d)'}
<1>1. Then \in SUBSET Now /\ e \in Now /\ e \notin Then
  OBVIOUS
<1>2. IsFiniteSet(Now)
  BY DeedsFinite, FS_Subset
<1>3. Remaining = Now /\ Remaining' = Then
  BY DEF Remaining, Deeds
<1> HIDE DEF Now, Then
<1>4. /\ IsFiniteSet(Then) /\ Cardinality(Then) <= Cardinality(Now)
      /\ Cardinality(Now) = Cardinality(Then) => Now = Then
  BY <1>1, <1>2, FS_Subset
<1>5. Cardinality(Now) \in Nat /\ Cardinality(Then) \in Nat
  BY <1>2, <1>4, FS_CardinalityType
<1>6. Cardinality(Then) < Cardinality(Now)
  BY <1>1, <1>4, <1>5
<1> QED
  BY <1>3, <1>6

\* The same, said of one call.
LEMMA Settles ==
    ASSUME \A r \in Ranges, what \in Kinds, k \in 0..MaxRetry : ToDo(r, what, k)' => ToDo(r, what, k),
           NEW r \in Ranges, NEW what \in Kinds, NEW k \in 0..MaxRetry,
           ToDo(r, what, k), ~ToDo(r, what, k)'
    PROVE  Cardinality(Remaining)' < Cardinality(Remaining)
<1>1. ASSUME NEW d \in Deeds, Open(d)' PROVE Open(d)
  BY <1>1 DEF Open, Deeds
<1>2. <<r, <<what, k>>>> \in Deeds
  BY DEF Deeds
<1>3. Open(<<r, <<what, k>>>>) /\ ~Open(<<r, <<what, k>>>>)'
  BY DEF Open
<1> QED
  BY <1>1, <1>2, <1>3, LessRemains

LEMMA LogsProgress ==
    ASSUME LogsInv, Next
    PROVE  Cardinality(Remaining)' < Cardinality(Remaining)
<1>0. /\ call \in [Ranges -> {"none", "asking", "split", "ok", "error"}]
      /\ attempt \in [Ranges -> 0..MaxRetry] /\ MaxRetry \in Nat
      /\ 0 \in 0..MaxRetry
      /\ Tree
  BY GetLogsAssumption DEF LogsInv, TypeOK
<1>1. ASSUME NEW r \in Ranges, Request(r)
      PROVE  Cardinality(Remaining)' < Cardinality(Remaining)
  <2>0. call[r] = "asking" /\ attempt[r] < MaxRetry /\ joined' = joined
    BY <1>1 DEF Request
  <2>1. CASE RefusedByCode(r) \/ Retried(r)
    <3>1. call' = call /\ attempt' = [attempt EXCEPT ![r] = @ + 1]
      BY <2>1 DEF RefusedByCode, Retried
    <3>2. \A q \in Ranges, what \in Kinds, k \in 0..MaxRetry : ToDo(q, what, k)' => ToDo(q, what, k)
      BY <1>0, <2>0, <3>1 DEF ToDo, Ended
    <3>3. /\ attempt[r] + 1 \in 0..MaxRetry
          /\ ToDo(r, "try", attempt[r] + 1)
      BY <1>0, <2>0 DEF ToDo
    <3>4. ASSUME NEW k \in 0..MaxRetry, k = attempt[r] + 1 PROVE ~ToDo(r, "try", k)'
      BY <1>0, <3>1, <3>4 DEF ToDo
    <3> QED
      BY <3>2, <3>3, <3>4, Settles DEF Kinds
  <2>2. CASE ~(RefusedByCode(r) \/ Retried(r))
    <3>1. attempt' = attempt /\ call'[r] \notin {"none", "asking"}
      BY <1>0, <1>1, <2>0, <2>2
         DEF Request, Answered, RefusedByStatus, OtherStatus, Broken, TooLarge
    <3>2. ASSUME NEW q \in Ranges
          PROVE  /\ call'[q] \in {"none", "asking"} => call[q] \in {"none", "asking"}
                 /\ Ended(q) => Ended(q)'
      <4>1. CASE TooLarge(r) /\ ~CannotSplit(r)
        <5>1. \A h \in Halves(r) : call[h] = "none"
          BY <2>0, <4>1, NewHalves DEF LogsInv
        <5> QED
          BY <1>0, <2>0, <4>1, <5>1 DEF TooLarge, Ended
      <4>2. CASE \E e \in {"ok", "error"} : call' = [call EXCEPT ![r] = e]
        BY <1>0, <2>0, <4>2 DEF Ended
      <4> QED
        BY <1>1, <2>2, <4>1, <4>2
           DEF Request, Answered, RefusedByStatus, OtherStatus, Broken, TooLarge
    <3>3. \A q \in Ranges, what \in Kinds, k \in 0..MaxRetry : ToDo(q, what, k)' => ToDo(q, what, k)
      BY <2>0, <3>1, <3>2 DEF ToDo
    <3>4. ToDo(r, "ask", 0) /\ ~ToDo(r, "ask", 0)'
      BY <2>0, <3>1 DEF ToDo
    <3> QED
      BY <1>0, <3>3, <3>4, Settles DEF Kinds
  <2> QED
    BY <2>1, <2>2
<1>2. ASSUME NEW r \in Ranges, Exhausted(r) \/ Return(r)
      PROVE  Cardinality(Remaining)' < Cardinality(Remaining)
  <2>1. PICK e \in {"ok", "error"} : call' = [call EXCEPT ![r] = e]
    BY <1>2 DEF Exhausted, Return
  <2>2. UNCHANGED <<attempt, joined>> /\ ~Ended(r)
    BY <1>2 DEF Exhausted, Return, Ended
  <2>3. \A q \in Ranges, what \in Kinds, k \in 0..MaxRetry : ToDo(q, what, k)' => ToDo(q, what, k)
    BY <1>0, <2>1, <2>2 DEF ToDo, Ended
  <2>4. ToDo(r, "end", 0) /\ ~ToDo(r, "end", 0)'
    BY <1>0, <2>1, <2>2 DEF ToDo, Ended
  <2> QED
    BY <1>0, <2>3, <2>4, Settles DEF Kinds
<1>3. ASSUME NEW r \in Ranges, NEW half \in Ranges, Join(r, half)
      PROVE  Cardinality(Remaining)' < Cardinality(Remaining)
  <2>1. /\ UNCHANGED <<call, attempt>> /\ joined' = joined \cup {half}
        /\ half \notin joined
    BY <1>3 DEF Join
  <2>2. \A q \in Ranges, what \in Kinds, k \in 0..MaxRetry : ToDo(q, what, k)' => ToDo(q, what, k)
    BY <2>1 DEF ToDo, Ended
  <2>3. ToDo(half, "join", 0) /\ ~ToDo(half, "join", 0)'
    BY <2>1 DEF ToDo
  <2> QED
    BY <1>0, <2>2, <2>3, Settles DEF Kinds
<1> QED
  BY <1>1, <1>2, <1>3 DEF Next

\* Every step of GetLogs settles something of a finite number of things, and
\* none is unsettled: however a range is split, and whatever fails, the number
\* of steps is bounded.
THEOREM LogsEnds ==
    Spec => [](Cardinality(Remaining) \in Nat)
            /\ [][Cardinality(Remaining)' < Cardinality(Remaining)]_vars
<1>1. Cardinality(Remaining) \in Nat
  BY DeedsFinite, FS_Subset, FS_CardinalityType DEF Remaining
<1>2. LogsInv /\ [Next]_vars => [Cardinality(Remaining)' < Cardinality(Remaining)]_vars
  BY LogsProgress
<1> QED
  BY <1>1, <1>2, LogsInductive, PTL DEF Spec
=============================================================================
