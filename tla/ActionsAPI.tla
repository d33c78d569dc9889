----------------------------- MODULE ActionsAPI -----------------------------
(***************************************************************************)
(* GET /actions: a client that pages through the table actions by keyset,  *)
(* while the indexer and the retry loop insert and update rows.            *)
(*                                                                         *)
(* Rows are ordered by (block_num, id).  The id is drawn from a sequence   *)
(* when an INSERT is executed, and seen by others when its SQL transaction *)
(* commits, so that neither blocks nor ids become visible in order.  An    *)
(* upsert that finds the row keeps its id, although it has drawn one.      *)
(*                                                                         *)
(* Of the columns a filter tests, the block is fixed, and method, caller,  *)
(* contract and tx_params are set with the decoded call: a row written for *)
(* its events holds placeholders in them.  Hence a filter is, for every    *)
(* transaction, the set of values of "decoded" under which it accepts the  *)
(* row.                                                                    *)
(***************************************************************************)
EXTENDS Naturals, FiniteSets

CONSTANTS
    Tx,       \* the transactions with a row of actions, now or later
    BlockOf,  \* BlockOf[t]: the block of t
    Limit,    \* the limit parameter, 1 to 500 in the code, 50 by default
    MaxId     \* bound: the ids drawn from the sequence

ASSUME ActionsAPIAssumption ==
    /\ BlockOf \in [Tx -> Nat]
    /\ Limit \in Nat \ {0}
    /\ MaxId \in Nat

VARIABLES
    actions,  \* actions[t]: the committed row of t
    work,     \* work[s][t]: the row of t that session s has not committed yet
    nextId,   \* the identity sequence of the table
    accepts,  \* the filter of the client
    cpc,      \* the client: "idle", "paging" or "done"
    after,    \* the cursor of its next request, {} for none
    served,   \* history: how often the client was given the row of t
    base      \* history: the rows that match the filter ever since it began

tableVars == <<actions, work, nextId>>
clientVars == <<accepts, cpc, after, served, base>>
vars == <<tableVars, clientVars>>

\* The SQL transactions that write the table: InsertTransactionBatch and
\* UpdateEventsBatch of the indexer, InsertTransaction of the retry loop.
Sessions == {"batch", "events", "retry"}

Row == [id : 0..MaxId, decoded : BOOLEAN]
NoRow == [id |-> 0, decoded |-> FALSE]
Cursor == [block : Nat, id : Nat]

TypeOK ==
    /\ actions \in [Tx -> Row]
    /\ work \in [Sessions -> [Tx -> Row]]
    /\ nextId \in 1..(MaxId + 1)
    /\ accepts \in [Tx -> SUBSET BOOLEAN]
    /\ cpc \in {"idle", "paging", "done"}
    /\ after \in SUBSET Cursor
    /\ served \in [Tx -> Nat]
    /\ base \in SUBSET Tx

Init ==
    /\ actions = [t \in Tx |-> NoRow]
    /\ work = [s \in Sessions |-> [t \in Tx |-> NoRow]]
    /\ nextId = 1
    /\ accepts \in [Tx -> SUBSET BOOLEAN]
    /\ cpc = "idle"
    /\ after = {}
    /\ served = [t \in Tx |-> 0]
    /\ base = {}

(***************************************************************************)
(* The writers.                                                            *)
(***************************************************************************)
\* The rows session s has written in its SQL transaction.
Open(s) == {t \in Tx : work[s][t].id # 0}

\* Mutant: INSERT OR REPLACE, the row gets a new id.
UpsertedAnew(t, decodes) ==
    [id |-> nextId, decoded |-> actions[t].decoded \/ decodes]

\* INSERT ... ON CONFLICT (block_num, tx_hash) DO UPDATE: an existing row
\* keeps its id; the columns of the call are only ever set.
Upserted(t, decodes) ==
    IF actions[t].id = 0
    THEN [id |-> nextId, decoded |-> decodes]
    ELSE [actions[t] EXCEPT !.decoded = @ \/ decodes]

\* One such statement.  It waits for another session that holds the row.
Upsert(s, t, decodes) ==
    /\ nextId <= MaxId
    /\ \A u \in Sessions : t \notin Open(u)
    /\ work' = [work EXCEPT ![s] = [@ EXCEPT ![t] = Upserted(t, decodes)]]
    /\ nextId' = nextId + 1
    /\ UNCHANGED <<actions, clientVars>>

\* The loop of InsertTransactionBatch: decoded calls of one block.
InsertCall(t) ==
    /\ Open("events") = {}
    /\ \A u \in Open("batch") : BlockOf[u] = BlockOf[t]
    /\ Upsert("batch", t, TRUE)

\* UpdateEventsBatch: one SQL transaction per transaction, after the calls.
AppendEvents(t) ==
    /\ Open("batch") = {} /\ Open("events") = {}
    /\ Upsert("events", t, FALSE)

\* InsertTransaction, called by the retry loop, also for blocks long past.
InsertRecovered(t) ==
    /\ Open("retry") = {}
    /\ Upsert("retry", t, TRUE)

End(s) == work' = [work EXCEPT ![s] = [t \in Tx |-> NoRow]]

Accepted(t, row) == row.id # 0 /\ row.decoded \in accepts[t]

Commit(s) ==
    /\ Open(s) # {}
    /\ actions' = [t \in Tx |-> IF t \in Open(s) THEN work[s][t] ELSE actions[t]]
    /\ End(s)
    /\ base' = {t \in base : Accepted(t, actions'[t])}
    /\ UNCHANGED <<nextId, accepts, cpc, after, served>>

\* An error, a cancelled context or a crash; the ids drawn are lost.
Rollback(s) ==
    /\ Open(s) # {}
    /\ End(s)
    /\ UNCHANGED <<actions, nextId, clientVars>>

(***************************************************************************)
(* The client and ListActions, one SELECT per request.                     *)
(***************************************************************************)
Key(t) == [block |-> BlockOf[t], id |-> actions[t].id]

\* ORDER BY a.block_num ASC, a.id ASC.
Precedes(k, l) == k.block < l.block \/ (k.block = l.block /\ k.id < l.id)

\* GetActionByID: the rows GET /actions/{blockNum}/{id} answers with.
GetActionByID(k) == {t \in Tx : actions[t].id # 0 /\ Key(t) = k}

\* Mutant: (a.block_num, a.id) >= ($1, $2).
FromCursor(t) == \A k \in after : ~Precedes(Key(t), k)

\* (a.block_num, a.id) > ($1, $2), or no condition without a cursor.
Beyond(t) == \A k \in after : Precedes(k, Key(t))

Matching == {t \in Tx : Accepted(t, actions[t])}

Rest == {t \in Matching : Beyond(t)}

\* The first n rows of Rest.
FirstOf(n) == {P \in SUBSET Rest :
                  /\ Cardinality(P) = n
                  /\ \A t \in P, u \in Rest \ P : Precedes(Key(t), Key(u))}

IsLast(t, P) == t \in P /\ \A u \in P \ {t} : Precedes(Key(u), Key(t))

Serve(P) == served' = [t \in Tx |-> IF t \in P THEN served[t] + 1 ELSE served[t]]

Begin ==
    /\ cpc = "idle"
    /\ cpc' = "paging"
    /\ base' = Matching
    /\ UNCHANGED <<tableVars, accepts, after, served>>

\* Mutant: the cursor is that of the extra row, result[limit].
NextPageExtra ==
    /\ cpc = "paging"
    /\ Cardinality(Rest) > Limit
    /\ \E P \in FirstOf(Limit), Q \in FirstOf(Limit + 1) :
          /\ Serve(P)
          /\ \E last \in Q : IsLast(last, Q) /\ after' = {Key(last)}
    /\ UNCHANGED <<tableVars, accepts, cpc, base>>

\* LIMIT is one more than the page: there is a next page when that row comes.
\* The cursor is the last row of the page.
NextPage ==
    /\ cpc = "paging"
    /\ Cardinality(Rest) > Limit
    /\ \E P \in FirstOf(Limit) :
          /\ Serve(P)
          /\ \E last \in P : IsLast(last, P) /\ after' = {Key(last)}
    /\ UNCHANGED <<tableVars, accepts, cpc, base>>

\* A page without next_cursor.
LastPage ==
    /\ cpc = "paging"
    /\ Cardinality(Rest) <= Limit
    /\ Serve(Rest)
    /\ cpc' = "done"
    /\ UNCHANGED <<tableVars, accepts, after, base>>

(***************************************************************************)
(* The specification and its properties.                                   *)
(***************************************************************************)
Write == \/ \E t \in Tx : InsertCall(t) \/ AppendEvents(t) \/ InsertRecovered(t)
         \/ \E s \in Sessions : Commit(s) \/ Rollback(s)

Next == Write \/ Begin \/ NextPage \/ LastPage

Spec == Init /\ [][Next]_vars

\* No row is on two pages (actions.go:60), although rows are inserted before
\* the cursor, updated by upserts, and begin or cease to match in between.
NoRowTwice == \A t \in Tx : served[t] <= 1

\* A row that matches the filter from the first request on is on some page, or
\* still ahead of the cursor: what is inserted or committed meanwhile, in any
\* order, pushes no row off the end of a page (actions.go:131-141, 175-179).
OldRowsServed ==
    \A t \in base : served[t] > 0 \/ (cpc = "paging" /\ Beyond(t))

\* The address (block_num, id) the client was given for a row is that of this
\* row for ever (api/handlers/actions.go:78-123): no upsert moves it, and no
\* other row gets the same one, whatever is rolled back.
LinksStable ==
    [][\A t \in Tx : \A k \in {Key(t)} :
            actions[t].id # 0 => GetActionByID(k)' = {t}]_vars
=============================================================================
