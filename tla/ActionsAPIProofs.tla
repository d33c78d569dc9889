-------------------------- MODULE ActionsAPIProofs --------------------------
(***************************************************************************)
(* Proofs about ActionsAPI, for every set of transactions, every page size *)
(* and every filter.  The invariant says that ids are drawn once (Fresh,   *)
(* Distinct), that a row has one id whoever writes it (OneWriter, KeepsId),*)
(* and that the client has passed the place of every row it was given      *)
(* (Passed); the place of a row that exists never changes.                 *)
(***************************************************************************)
EXTENDS ActionsAPI, TLAPS

Fresh ==
    \A t \in Tx : /\ actions[t].id < nextId
                  /\ \A s \in Sessions : work[s][t].id < nextId

OneWriter ==
    \A t \in Tx : \A s, u \in Sessions :
        work[s][t].id # 0 /\ work[u][t].id # 0 => s = u

KeepsId ==
    \A t \in Tx : \A s \in Sessions :
        work[s][t].id # 0 /\ actions[t].id # 0 => work[s][t].id = actions[t].id

Distinct ==
    \A t, u \in Tx :
        t # u =>
          /\ actions[t].id # 0 => actions[t].id # actions[u].id
          /\ \A s \in Sessions :
                work[s][t].id # 0 =>
                    /\ work[s][t].id # actions[u].id
                    /\ \A r \in Sessions : work[s][t].id # work[r][u].id

Passed ==
    \A t \in Tx :
        served[t] > 0 => /\ served[t] = 1
                         /\ actions[t].id # 0
                         /\ cpc # "idle"
                         /\ cpc = "paging" => ~Beyond(t)

BaseMatches == /\ base \subseteq Matching
               /\ cpc = "idle" => base = {} /\ after = {}

RowInv == Fresh /\ OneWriter /\ KeepsId /\ Distinct

IInv == TypeOK /\ RowInv /\ Passed /\ BaseMatches /\ OldRowsServed

\* The order of keys is strict and total.
LEMMA KeyOrder ==
    ASSUME NEW k \in Cursor, NEW l \in Cursor, NEW m \in Cursor
    PROVE  /\ ~Precedes(k, k)
           /\ Precedes(k, l) => ~Precedes(l, k)
           /\ Precedes(k, l) /\ Precedes(l, m) => Precedes(k, m)
           /\ Precedes(k, l) \/ Precedes(l, k) \/ k = l
BY DEF Cursor, Precedes

LEMMA KeyType ==
    ASSUME TypeOK, NEW t \in Tx
    PROVE  Key(t) \in Cursor
BY ActionsAPIAssumption DEF TypeOK, Row, Key, Cursor

LEMMA InitIInv == Init => IInv
<1> SUFFICES ASSUME Init PROVE IInv
  OBVIOUS
<1> USE ActionsAPIAssumption DEF Init, NoRow
<1>1. TypeOK
  BY DEF TypeOK, Row
<1>2. RowInv
  BY DEF RowInv, Fresh, OneWriter, KeepsId, Distinct
<1>3. Passed /\ BaseMatches /\ OldRowsServed
  BY DEF Passed, BaseMatches, OldRowsServed
<1> QED BY <1>1, <1>2, <1>3 DEF IInv

(***************************************************************************)
(* The writers.                                                            *)
(***************************************************************************)
\* What depends on the committed rows and the client alone.
ClientInv == Passed /\ BaseMatches /\ OldRowsServed

LEMMA ClientUnchanged ==
    ASSUME ClientInv, UNCHANGED <<actions, clientVars>>
    PROVE  ClientInv'
BY DEF ClientInv, Passed, BaseMatches, OldRowsServed, Beyond, Key, Matching,
       Accepted, clientVars

\* A statement of any session.
LEMMA UpsertStep ==
    ASSUME IInv, NEW s \in Sessions, NEW t \in Tx, NEW d \in BOOLEAN,
           Upsert(s, t, d)
    PROVE  IInv'
<1> USE DEF IInv
<1> DEFINE row == Upserted(t, d)
<1>1. /\ row \in Row
      /\ row.id # 0
      /\ row.id = nextId \/ (actions[t].id # 0 /\ row.id = actions[t].id)
      /\ actions[t].id # 0 => row.id = actions[t].id
  BY ActionsAPIAssumption DEF Upsert, Upserted, TypeOK, Row
<1> HIDE DEF row
<1>2. /\ work' = [work EXCEPT ![s] = [@ EXCEPT ![t] = row]]
      /\ nextId' = nextId + 1 /\ nextId <= MaxId
      /\ UNCHANGED <<actions, clientVars>>
      /\ \A u \in Sessions : work[u][t].id = 0
  BY DEF Upsert, Open, row
<1>3. \A u \in Sessions, v \in Tx :
        work'[u][v] = IF u = s /\ v = t THEN row ELSE work[u][v]
  BY <1>2 DEF TypeOK
<1>4. TypeOK'
  <2>1. work' \in [Sessions -> [Tx -> Row]]
    BY <1>1, <1>2 DEF TypeOK
  <2>2. nextId' \in 1..(MaxId + 1)
    BY <1>2, ActionsAPIAssumption DEF TypeOK
  <2> QED BY <1>2, <2>1, <2>2 DEF TypeOK, clientVars
<1>5. RowInv'
  <2> USE DEF RowInv
  <2>1. \A v \in Tx : actions[v].id \in Nat /\ \A u \in Sessions : work[u][v].id \in Nat
    BY DEF TypeOK, Row
  <2>2. nextId \in Nat /\ nextId # 0
    BY ActionsAPIAssumption DEF TypeOK
  <2>3. Fresh'
    BY <1>1, <1>2, <1>3, <2>1, <2>2 DEF Fresh
  <2>4. OneWriter'
    BY <1>2, <1>3 DEF OneWriter
  <2>5. KeepsId'
    BY <1>1, <1>2, <1>3 DEF KeepsId
  <2>6. Distinct'
    <3> SUFFICES ASSUME NEW v \in Tx, NEW u \in Tx, v # u
                 PROVE  /\ actions[v].id # 0 => actions[v].id # actions[u].id
                        /\ \A q \in Sessions :
                              work'[q][v].id # 0 =>
                                /\ work'[q][v].id # actions[u].id
                                /\ \A r \in Sessions : work'[q][v].id # work'[r][u].id
      BY <1>2 DEF Distinct
    <3>1. row.id # actions[u].id \/ t = u
      BY <1>1, <2>1, <2>2 DEF Distinct, Fresh
    <3>2. \A r \in Sessions : t # u => row.id # work[r][u].id
      BY <1>1, <2>1, <2>2 DEF Distinct, Fresh
    <3>3. \A r \in Sessions : t # v => row.id # work[r][v].id
      BY <1>1, <2>1, <2>2 DEF Distinct, Fresh
    <3> QED BY <1>1, <1>3, <3>1, <3>2, <3>3 DEF Distinct
  <2> QED BY <2>3, <2>4, <2>5, <2>6
<1>6. ClientInv'
  BY <1>2, ClientUnchanged DEF ClientInv
<1> QED BY <1>4, <1>5, <1>6 DEF ClientInv

LEMMA CommitStep ==
    ASSUME IInv, NEW s \in Sessions, Commit(s)
    PROVE  IInv'
<1> USE DEF IInv
<1>a. nextId \in Nat /\ nextId > 0 /\ base \subseteq Tx
  BY ActionsAPIAssumption DEF TypeOK
<1>b. \A t \in Tx : actions'[t] = IF work[s][t].id # 0 THEN work[s][t] ELSE actions[t]
  BY DEF Commit, Open
<1>c. \A u \in Sessions, t \in Tx :
            work'[u][t] = IF u = s THEN NoRow ELSE work[u][t]
  BY DEF Commit, End, TypeOK
<1>d. /\ UNCHANGED <<nextId, accepts, cpc, after, served>>
      /\ base' = {t \in base : actions'[t].id # 0 /\ actions'[t].decoded \in accepts[t]}
  BY DEF Commit, Accepted
<1>1. /\ \A t \in Tx : actions'[t] = IF work[s][t].id # 0 THEN work[s][t] ELSE actions[t]
      /\ \A u \in Sessions, t \in Tx :
            work'[u][t] = IF u = s THEN NoRow ELSE work[u][t]
      /\ UNCHANGED <<nextId, accepts, cpc, after, served>>
      /\ base' = {t \in base : actions'[t].id # 0 /\ actions'[t].decoded \in accepts[t]}
  BY <1>b, <1>c, <1>d
<1>2. TypeOK'
  <2>1. actions' \in [Tx -> Row]
    BY DEF Commit, TypeOK
  <2>2. work' \in [Sessions -> [Tx -> Row]]
    BY ActionsAPIAssumption DEF Commit, End, TypeOK, NoRow, Row
  <2> QED BY <1>1, <2>1, <2>2 DEF TypeOK
<1>3. RowInv'
  <2> USE DEF RowInv, NoRow
  <2>1. Fresh'
    BY <1>a, <1>1 DEF Fresh
  <2>2. OneWriter'
    BY <1>1 DEF OneWriter
  <2>3. KeepsId'
    BY <1>1 DEF KeepsId, OneWriter
  <2>4. Distinct'
    BY <1>1 DEF Distinct
  <2> QED BY <2>1, <2>2, <2>3, <2>4
<1>4. \A t \in Tx : actions[t].id # 0 => actions'[t].id = actions[t].id
  BY <1>1 DEF RowInv, KeepsId
<1>5. \A t \in Tx : actions[t].id # 0 => Key(t)' = Key(t) /\ (Beyond(t)' <=> Beyond(t))
  BY <1>1, <1>4 DEF Key, Beyond
<1>6. Passed'
  BY <1>1, <1>4, <1>5 DEF Passed
<1>7. BaseMatches'
  BY <1>a, <1>1 DEF BaseMatches, Matching, Accepted
<1>8. OldRowsServed'
  <2>1. \A t \in base : t \in Tx /\ actions[t].id # 0
    BY DEF BaseMatches, Matching, Accepted
  <2> QED BY <1>1, <1>5, <2>1 DEF OldRowsServed
<1> QED BY <1>2, <1>3, <1>6, <1>7, <1>8

LEMMA RollbackStep ==
    ASSUME IInv, NEW s \in Sessions, Rollback(s)
    PROVE  IInv'
<1> USE DEF IInv
<1>1. /\ \A u \in Sessions, t \in Tx :
            work'[u][t] = IF u = s THEN NoRow ELSE work[u][t]
      /\ UNCHANGED <<actions, nextId, clientVars>>
  BY DEF Rollback, End, TypeOK
<1>2. TypeOK'
  BY <1>1, ActionsAPIAssumption DEF Rollback, End, TypeOK, NoRow, Row, clientVars
<1>a. nextId \in Nat /\ nextId > 0
  BY ActionsAPIAssumption DEF TypeOK
<1>3. RowInv'
  BY <1>a, <1>1 DEF RowInv, Fresh, OneWriter, KeepsId, Distinct, NoRow
<1>4. ClientInv'
  BY <1>1, ClientUnchanged DEF ClientInv
<1> QED BY <1>2, <1>3, <1>4 DEF ClientInv

(***************************************************************************)
(* The client.  The rows of a page were ahead of the cursor, hence not     *)
(* served before; afterwards they are not ahead of it.                     *)
(***************************************************************************)
LEMMA TableUnchanged ==
    ASSUME RowInv, UNCHANGED tableVars
    PROVE  RowInv'
BY DEF RowInv, Fresh, OneWriter, KeepsId, Distinct, tableVars

LEMMA ServedOnce ==
    ASSUME IInv, cpc = "paging", NEW P \in SUBSET Rest, Serve(P)
    PROVE  /\ served' \in [Tx -> Nat]
           /\ \A t \in Tx : served'[t] = IF t \in P THEN 1 ELSE served[t]
<1> USE DEF IInv
<1>1. P \subseteq Tx
  BY DEF Rest, Matching
<1>2. \A t \in P : served[t] = 0
  BY <1>1 DEF Rest, Passed, TypeOK
<1>3. \A t \in Tx : served'[t] = IF t \in P THEN 1 ELSE served[t]
  BY <1>2 DEF Serve
<1>4. served' \in [Tx -> Nat]
  BY DEF Serve, TypeOK
<1> QED BY <1>3, <1>4

LEMMA BeginStep ==
    ASSUME IInv, Begin
    PROVE  IInv'
<1> USE DEF IInv, Begin
<1>1. TypeOK'
  BY DEF TypeOK, tableVars, Matching
<1>2. RowInv'
  BY TableUnchanged
<1>3. UNCHANGED <<actions, accepts, after, served>>
  BY DEF tableVars
<1>4. \A t \in Tx : served[t] = 0
  BY DEF Passed, TypeOK
<1>5. Passed'
  BY <1>3, <1>4 DEF Passed
<1>6. BaseMatches'
  BY <1>3 DEF BaseMatches, Matching, Accepted
<1>7. OldRowsServed'
  BY <1>3 DEF OldRowsServed, Beyond, BaseMatches
<1> QED BY <1>1, <1>2, <1>5, <1>6, <1>7

LEMMA NextPageStep ==
    ASSUME IInv, NextPage
    PROVE  IInv'
<1> USE DEF IInv
<1>1. PICK P \in FirstOf(Limit) :
          Serve(P) /\ \E last \in P : IsLast(last, P) /\ after' = {Key(last)}
  BY DEF NextPage
<1>2. PICK last \in P : IsLast(last, P) /\ after' = {Key(last)}
  BY <1>1
<1>3. /\ UNCHANGED <<actions, work, nextId, accepts, cpc, base>>
      /\ cpc = "paging"
  BY DEF NextPage, tableVars
<1>4. P \subseteq Rest /\ Rest \subseteq Tx /\ last \in Tx
  BY DEF FirstOf, Rest, Matching
<1>5. /\ served' \in [Tx -> Nat]
      /\ \A t \in Tx : served'[t] = IF t \in P THEN 1 ELSE served[t]
  BY <1>1, <1>3, <1>4, ServedOnce
<1>6. \A t \in Tx : Key(t)' = Key(t) /\ Key(t) \in Cursor
  BY <1>3, KeyType DEF Key
<1>7. \A t \in Tx : Beyond(t)' <=> Precedes(Key(last), Key(t))
  BY <1>2, <1>4, <1>6 DEF Beyond
<1>8. TypeOK'
  BY <1>2, <1>3, <1>4, <1>5, <1>6 DEF TypeOK
<1>9. RowInv'
  BY <1>3, TableUnchanged DEF tableVars
<1>10. Passed'
  <2> SUFFICES ASSUME NEW t \in Tx, served'[t] > 0
               PROVE  served'[t] = 1 /\ actions[t].id # 0 /\ ~Beyond(t)'
    BY <1>3 DEF Passed
  <2>1. CASE t \in P
    <3>1. ~Precedes(Key(last), Key(t))
      BY <1>2, <1>4, <1>6, <2>1, KeyOrder DEF IsLast
    <3>2. actions[t].id # 0
      BY <1>4, <2>1 DEF Rest, Matching, Accepted
    <3> QED BY <1>5, <1>7, <2>1, <3>1, <3>2
  <2>2. CASE t \notin P
    <3>1. served[t] = 1 /\ actions[t].id # 0 /\ ~Beyond(t)
      BY <1>3, <1>5, <2>2 DEF Passed
    <3>2. PICK k \in after : ~Precedes(k, Key(t))
      BY <3>1 DEF Beyond
    <3>3. Precedes(k, Key(last)) /\ k \in Cursor
      BY <1>4, <3>2 DEF Rest, Beyond, TypeOK
    <3>4. ~Precedes(Key(last), Key(t))
      BY <1>4, <1>6, <3>2, <3>3, KeyOrder
    <3> QED BY <1>5, <1>7, <2>2, <3>1, <3>4
  <2> QED BY <2>1, <2>2
<1>11. BaseMatches'
  BY <1>3 DEF BaseMatches, Matching, Accepted
<1>12. OldRowsServed'
  <2> SUFFICES ASSUME NEW t \in base
               PROVE  served'[t] > 0 \/ Beyond(t)'
    BY <1>3 DEF OldRowsServed
  <2>1. t \in Matching /\ t \in Tx
    BY DEF BaseMatches, Matching
  <2>2. CASE served[t] > 0
    BY <1>5, <2>1, <2>2
  <2>3. CASE Beyond(t)
    <3>1. t \in Rest
      BY <2>1, <2>3 DEF Rest
    <3>2. t \in P \/ Precedes(Key(last), Key(t))
      BY <3>1 DEF FirstOf
    <3> QED BY <1>5, <1>7, <2>1, <3>2
  <2> QED BY <2>2, <2>3 DEF OldRowsServed
<1> QED BY <1>8, <1>9, <1>10, <1>11, <1>12

LEMMA LastPageStep ==
    ASSUME IInv, LastPage
    PROVE  IInv'
<1> USE DEF IInv
<1>1. /\ UNCHANGED <<actions, work, nextId, accepts, after, base>>
      /\ cpc = "paging" /\ cpc' = "done"
      /\ Serve(Rest)
  BY DEF LastPage, tableVars
<1>2. /\ served' \in [Tx -> Nat]
      /\ \A t \in Tx : served'[t] = IF t \in Rest THEN 1 ELSE served[t]
  BY <1>1, ServedOnce
<1>3. TypeOK'
  BY <1>1, <1>2 DEF TypeOK
<1>4. RowInv'
  BY <1>1, TableUnchanged DEF tableVars
<1>5. Passed'
  BY <1>1, <1>2 DEF Passed, Rest, Matching, Accepted
<1>6. BaseMatches'
  BY <1>1 DEF BaseMatches, Matching, Accepted
<1>7. OldRowsServed'
  BY <1>1, <1>2 DEF OldRowsServed, Rest, BaseMatches, Matching
<1> QED BY <1>3, <1>4, <1>5, <1>6, <1>7

(***************************************************************************)
(* The theorems.                                                           *)
(***************************************************************************)
LEMMA NextIInv == IInv /\ [Next]_vars => IInv'
<1> SUFFICES ASSUME IInv, [Next]_vars PROVE IInv'
  OBVIOUS
<1>1. ASSUME NEW t \in Tx, InsertCall(t) \/ AppendEvents(t) \/ InsertRecovered(t)
      PROVE  IInv'
  BY <1>1, UpsertStep DEF InsertCall, AppendEvents, InsertRecovered, Sessions
<1>2. ASSUME NEW s \in Sessions, Commit(s) \/ Rollback(s)
      PROVE  IInv'
  BY <1>2, CommitStep, RollbackStep
<1>3. CASE Begin
  BY <1>3, BeginStep
<1>4. CASE NextPage
  BY <1>4, NextPageStep
<1>5. CASE LastPage
  BY <1>5, LastPageStep
<1>6. CASE UNCHANGED vars
  <2>1. TypeOK'
    BY <1>6 DEF IInv, TypeOK, vars, tableVars, clientVars
  <2>2. RowInv'
    BY <1>6, TableUnchanged DEF IInv, vars
  <2>3. ClientInv'
    BY <1>6, ClientUnchanged DEF IInv, ClientInv, vars, tableVars
  <2> QED BY <2>1, <2>2, <2>3 DEF IInv, ClientInv
<1> QED BY <1>1, <1>2, <1>3, <1>4, <1>5, <1>6 DEF Next, Write

\* The inductive invariant, and with it the types.
THEOREM Inductive == Spec => []IInv
BY InitIInv, NextIInv, PTL DEF Spec

\* No row is on two pages of ListActions, for every page size, every filter
\* and every set of transactions.
THEOREM NoRowTwiceHolds == Spec => []NoRowTwice
<1>1. IInv => NoRowTwice
  <2> SUFFICES ASSUME IInv, NEW t \in Tx PROVE served[t] <= 1
    BY DEF NoRowTwice
  <2> QED BY DEF IInv, TypeOK, Passed
<1> QED BY <1>1, Inductive, PTL

\* A row that matches from the first request on is on some page of
\* ListActions, or ahead of the cursor.
THEOREM OldRowsServedHolds == Spec => []OldRowsServed
<1>1. IInv => OldRowsServed
  BY DEF IInv
<1> QED BY <1>1, Inductive, PTL

\* A step keeps the ids of the rows there are.
LEMMA IdsKept ==
    ASSUME IInv, [Next]_vars, NEW t \in Tx, actions[t].id # 0
    PROVE  actions'[t].id = actions[t].id
<1>1. ASSUME NEW s \in Sessions, Commit(s)
      PROVE  actions'[t].id = actions[t].id
  BY <1>1 DEF Commit, Open, IInv, RowInv, KeepsId
<1>2. CASE UNCHANGED actions
  BY <1>2
<1> QED BY <1>1, <1>2 DEF Next, Write, InsertCall, AppendEvents, InsertRecovered,
           Upsert, Rollback, Begin, NextPage, LastPage, vars, tableVars

\* The address of a row, (block_num, id), stays its own for ever.
THEOREM LinksStableHolds == Spec => LinksStable
<1>1. ASSUME IInv, IInv', [Next]_vars, NEW t \in Tx, NEW k \in {Key(t)}, actions[t].id # 0
      PROVE  GetActionByID(k)' = {t}
  <2>1. actions'[t].id = actions[t].id
    BY <1>1, IdsKept
  <2>2. Key(t)' = k
    BY <1>1, <2>1 DEF Key
  <2>3. \A u \in Tx : u # t => actions'[u].id # actions'[t].id
    BY <1>1, <2>1 DEF IInv, RowInv, Distinct
  <2>4. \A u \in Tx : u # t => Key(u)' # k
    BY <2>2, <2>3 DEF Key
  <2> QED BY <1>1, <2>1, <2>2, <2>4 DEF GetActionByID
<1>2. IInv /\ IInv' /\ [Next]_vars =>
        [\A t \in Tx : \A k \in {Key(t)} :
            actions[t].id # 0 => GetActionByID(k)' = {t}]_vars
  BY <1>1
<1> QED BY <1>2, Inductive, PTL DEF Spec, LinksStable
=============================================================================
