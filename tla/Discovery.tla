------------------------------ MODULE Discovery -----------------------------
(***************************************************************************)
(* Which contracts the indexer asks for, and for which blocks.             *)
(*                                                                         *)
(* FetchStorageContractAddresses (utils/constants.go) asks the public      *)
(* explorer for a page of contracts and then the node for the bytecodes    *)
(* and implementation slots, one request after the other, while contracts  *)
(* are verified and proxies upgraded.  main does it once before Backfill   *)
(* and LiveIndexing does it again; the list in hand then goes into every   *)
(* eth_getLogs.  A chunk is one step here: it is asked for and the cursor  *)
(* passes it, or it fails.                                                 *)
(***************************************************************************)
EXTENDS Naturals, FiniteSets

CONSTANTS
    Contracts,   \* the contracts of the chain
    Storages,    \* those with "Storage" in their name
    Proxies,     \* those with "Proxy" in their name
    ZeroAddress, \* what an empty implementation slot holds: no contract
    Code,        \* Code[c]: the bytecode of c; that of the zero address is empty
    PageSize,    \* offset=100: contracts on the page that is read
    ChunkSize,   \* blocks per chunk
    MaxHeight,   \* bound: the last block of the chain
    MaxUpgrades, \* bound: upgrades of proxies
    MaxStops     \* bound: restarts of the process

ASSUME DiscoveryAssumption ==
    /\ IsFiniteSet(Contracts)
    /\ Storages \subseteq Contracts /\ Proxies \subseteq Contracts
    /\ DOMAIN Code = Contracts \cup {ZeroAddress} /\ ZeroAddress \notin Contracts
    /\ \A s \in Storages : Code[s] # Code[ZeroAddress]
    /\ PageSize \in Nat /\ ChunkSize \in Nat \ {0} /\ MaxHeight \in Nat
    /\ MaxUpgrades \in Nat /\ MaxStops \in Nat

VARIABLES
    listed,      \* the contracts the explorer has verified
    impl,        \* impl[p]: the implementation a proxy delegates to
    upgrades, stops,
    pc,          \* the call that comes next: "list", "code", "slot", "implcode";
                 \* "index" when a list is in hand; "exit" and "dead"
    live,        \* is this LiveIndexing, or main and Backfill?
    page,        \* the contracts on the page
    todo,        \* those of the current pass still to look at
    bytecodes,   \* the keys of storageBytecodes
    hand,        \* the proxy in hand, and what its slot held
    addresses,   \* storageAddresses
    cursor,      \* the last block the indexer has passed
    asked,       \* history: asked[h], the list in the eth_getLogs of block h
    due, ever,   \* history: the contracts that were due all the time, or at
                 \* some time, since the current discovery began
    owed,        \* history: owed[h], those that the list must hold when h is
                 \* asked for
    excused      \* history: a call of the discovery in force failed, or the
                 \* page did not hold everything listed

worldVars == <<listed, impl, upgrades>>
passVars == <<page, todo, bytecodes, hand>>
indexVars == <<cursor, asked, owed>>
historyVars == <<due, ever, excused>>
vars == <<worldVars, stops, pc, live, passVars, addresses, indexVars, historyVars>>

Heights == 1..MaxHeight

TypeOK ==
    /\ listed \subseteq Contracts
    /\ impl \in [Proxies -> Contracts \cup {ZeroAddress}]
    /\ upgrades \in 0..MaxUpgrades /\ stops \in 0..MaxStops
    /\ pc \in {"list", "code", "slot", "implcode", "index", "exit", "dead"}
    /\ live \in BOOLEAN
    /\ page \subseteq Contracts /\ todo \subseteq page
    /\ bytecodes \subseteq {Code[s] : s \in Storages}
    /\ hand \in [proxy : Proxies \cup {ZeroAddress}, target : Contracts \cup {ZeroAddress}]
    /\ addresses \subseteq Contracts
    /\ cursor \in 0..MaxHeight
    /\ asked \in [Heights -> SUBSET Contracts]
    /\ due \subseteq ever /\ ever \subseteq Contracts
    /\ owed \in [Heights -> SUBSET Contracts]
    /\ excused \in BOOLEAN

(***************************************************************************)
(* The chain and its explorer.                                             *)
(***************************************************************************)
\* The contracts whose logs belong into the index: the verified storage
\* contracts, and the verified proxies of a verified storage contract.
Due(L, I) ==
    (L \cap Storages) \cup
    {p \in L \cap Proxies : \E s \in L \cap Storages :
                                I[p] # ZeroAddress /\ Code[I[p]] = Code[s]}

Verify(c) ==
    /\ c \notin listed
    /\ listed' = listed \cup {c}
    /\ ever' = ever \cup Due(listed', impl)
    /\ UNCHANGED <<impl, upgrades, stops, pc, live, passVars, addresses, indexVars,
                   due, excused>>

Upgrade(p, c) ==
    /\ upgrades < MaxUpgrades /\ upgrades' = upgrades + 1
    /\ impl[p] # c
    /\ impl' = [impl EXCEPT ![p] = c]
    /\ due' = Due(due, impl')
    /\ ever' = ever \cup Due(listed, impl')
    /\ UNCHANGED <<listed, stops, pc, live, passVars, addresses, indexVars, excused>>

(***************************************************************************)
(* FetchStorageContractAddresses.                                          *)
(***************************************************************************)
\* What its caller does with an error: log.Fatalf in main, and LiveIndexing
\* returns.
AfterError == IF live THEN "dead" ELSE "exit"

World == UNCHANGED <<worldVars, stops, live, indexVars>>

\* The first page, as the explorer sorts them.  An answer of status 200 without
\* a result is an empty page: the status in its body is not looked at.
Pages == {P \in SUBSET listed :
             \/ P = {}
             \/ P = listed
             \/ Cardinality(P) = PageSize}

ListContracts ==
    /\ pc = "list"
    /\ \E P \in Pages :
          /\ Cardinality(P) <= PageSize
          /\ page' = P
          /\ todo' = P \cap Storages
          /\ excused' = (P # listed)
    /\ addresses' = {} /\ bytecodes' = {}
    /\ pc' = "code"
    /\ due' = Due(listed, impl) /\ ever' = Due(listed, impl)
    /\ UNCHANGED hand
    /\ World

ListFails ==
    /\ pc = "list"
    /\ pc' = AfterError
    /\ UNCHANGED <<passVars, addresses, historyVars>>
    /\ World

\* Mutant: the address is added only once its bytecode is known.
GetCodeFirst(c) ==
    /\ pc = "code" /\ c \in todo
    /\ todo' = todo \ {c}
    /\ \/ /\ bytecodes' = bytecodes \cup {Code[c]}
          /\ addresses' = addresses \cup {c}
          /\ UNCHANGED excused
       \/ excused' = TRUE /\ UNCHANGED <<bytecodes, addresses>>
    /\ UNCHANGED <<pc, page, hand, due, ever>>
    /\ World

\* First pass.  The address is added before its bytecode is asked for.
GetCode(c) ==
    /\ pc = "code" /\ c \in todo
    /\ todo' = todo \ {c}
    /\ addresses' = addresses \cup {c}
    /\ \/ bytecodes' = bytecodes \cup {Code[c]} /\ UNCHANGED excused
       \/ excused' = TRUE /\ UNCHANGED bytecodes
    /\ UNCHANGED <<pc, page, hand, due, ever>>
    /\ World

SecondPass ==
    /\ pc = "code" /\ todo = {}
    /\ todo' = page \cap Proxies
    /\ pc' = "slot"
    /\ UNCHANGED <<page, bytecodes, hand, addresses, historyVars>>
    /\ World

\* GetImplementationAddress; an error means: continue with the next proxy.
GetSlot(p) ==
    /\ pc = "slot" /\ p \in todo
    /\ todo' = todo \ {p}
    /\ \/ /\ hand' = [proxy |-> p, target |-> impl[p]]
          /\ pc' = "implcode"
          /\ UNCHANGED excused
       \/ excused' = TRUE /\ UNCHANGED <<hand, pc>>
    /\ UNCHANGED <<page, bytecodes, addresses, due, ever>>
    /\ World

\* Mutant: any implementation will do.
FoundAny == TRUE

\* An empty slot is no case of its own: the code of the zero address is looked up.
Found == Code[hand.target] \in bytecodes

GetImplCode ==
    /\ pc = "implcode"
    /\ \/ /\ addresses' = IF Found THEN addresses \cup {hand.proxy} ELSE addresses
          /\ UNCHANGED excused
       \/ excused' = TRUE /\ UNCHANGED addresses
    /\ pc' = "slot"
    /\ UNCHANGED <<page, todo, bytecodes, hand, due, ever>>
    /\ World

\* Mutant: an empty list is accepted.
AcceptableAlways == TRUE

\* DefaultBackfillConfig refuses an empty list; LiveIndexing does not look.
Acceptable == live \/ addresses # {}

ReturnAddresses ==
    /\ pc = "slot" /\ todo = {}
    /\ pc' = IF Acceptable THEN "index" ELSE AfterError
    /\ UNCHANGED <<passVars, addresses, historyVars>>
    /\ World

(***************************************************************************)
(* Backfill and LiveIndexing.                                              *)
(***************************************************************************)
\* To the node, a filter without an address is a filter for every address.
Filter == IF addresses = {} THEN Contracts ELSE addresses

\* Mutant: the last chunk is not cut.
ChunksUncut == {cursor + 1 .. cursor + ChunkSize}

\* The blocks of a chunk, from the one after the cursor to the end of the range.
Chunks == {cursor + 1 .. e : e \in {n \in Heights : cursor < n /\ n <= cursor + ChunkSize}}

IndexChunk ==
    /\ pc = "index"
    /\ \E H \in Chunks :
          /\ cursor' = cursor + Cardinality(H)
          /\ asked' = [h \in Heights |-> IF h \in H THEN Filter ELSE asked[h]]
          /\ owed' = [h \in Heights |->
                         IF h \notin H THEN owed[h]
                         ELSE IF excused THEN page \cap Storages ELSE due]
    /\ UNCHANGED <<worldVars, stops, pc, live, passVars, addresses, historyVars>>

\* Backfill returns, with or without an error, and main goes on.
Handover ==
    /\ pc = "index" /\ ~live
    /\ live' = TRUE
    /\ pc' = "list"
    /\ UNCHANGED <<worldVars, stops, passVars, addresses, indexVars, historyVars>>

LiveFails ==
    /\ pc = "index" /\ live
    /\ pc' = "dead"
    /\ UNCHANGED <<worldVars, stops, live, passVars, addresses, indexVars, historyVars>>

Restart ==
    /\ stops < MaxStops /\ stops' = stops + 1
    /\ pc' = "list" /\ live' = FALSE
    /\ UNCHANGED <<worldVars, passVars, addresses, indexVars, historyVars>>

Init ==
    /\ listed \in SUBSET Contracts
    /\ impl \in [Proxies -> Contracts \cup {ZeroAddress}]
    /\ upgrades = 0 /\ stops = 0
    /\ pc = "list" /\ live = FALSE
    /\ page = {} /\ todo = {} /\ bytecodes = {} /\ addresses = {}
    /\ hand = [proxy |-> ZeroAddress, target |-> ZeroAddress]
    /\ cursor = 0
    /\ asked = [h \in Heights |-> {}] /\ owed = [h \in Heights |-> {}]
    /\ due = {} /\ ever = {} /\ excused = FALSE

Discover ==
    \/ ListContracts \/ ListFails
    \/ \E c \in Storages : GetCode(c)
    \/ SecondPass
    \/ \E p \in Proxies : GetSlot(p)
    \/ GetImplCode \/ ReturnAddresses

Next ==
    \/ \E c \in Contracts : Verify(c)
    \/ \E p \in Proxies, c \in Contracts : Upgrade(p, c)
    \/ Discover
    \/ IndexChunk \/ Handover \/ LiveFails \/ Restart

Spec == Init /\ [][Next]_vars

(***************************************************************************)
(* Safety.                                                                 *)
(***************************************************************************)
\* Nothing the list can hold is left out of a block behind the cursor: with no
\* failed call and everything on the page, each contract that was due from the
\* beginning of the discovery until the chunk is asked for; otherwise still
\* each storage contract on the page.  A call that fails costs proxies only
\* (constants.go:101-130).
NothingLeftOut == \A h \in 1..cursor : owed[h] \subseteq asked[h]

\* No contract gets on the list that was not due at some time since the
\* discovery began, though the listing, the bytecodes, the slots and the codes
\* behind them are read at different times.
OnlyContractsDue == addresses \subseteq ever

\* Logs of every contract of the chain are asked for only by LiveIndexing, and
\* only if the page had no storage contract: main refuses an empty list
\* (config.go:30-32), and a failed call takes no storage contract off it.
NeverAsksForAll ==
    pc = "index" /\ addresses = {} => live /\ page \cap Storages = {}
=============================================================================
