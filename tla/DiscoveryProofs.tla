--------------------------- MODULE DiscoveryProofs --------------------------
(***************************************************************************)
(* The list of contracts, for every set of contracts and every proxy, with *)
(* upgrades and new listings between any two requests of the discovery.    *)
(* The first pass leaves every storage contract of the page on the list    *)
(* and no bytecode but theirs in hand; the second pass puts a proxy on it  *)
(* only for an implementation it had when its slot was read.               *)
(***************************************************************************)
EXTENDS Discovery, FiniteSetTheorems, TLAPS

Discovering == pc \in {"code", "slot", "implcode"}

\* What was read belongs to what there was since the discovery began.
ReadWasThere ==
    /\ page \subseteq listed
    /\ page \cap Storages \subseteq ever
    /\ bytecodes \subseteq {Code[s] : s \in page \cap Storages}
    /\ Discovering => Due(listed, impl) \subseteq ever
    /\ pc \in {"slot", "implcode"} => todo \subseteq Proxies
    /\ pc = "implcode" => /\ hand.proxy \in page \cap Proxies
                          /\ Found => hand.proxy \in ever

\* The storage contracts of the page get on the list, whatever calls fail.
StoragesListed ==
    /\ pc = "code" => page \cap Storages \subseteq addresses \cup todo
    /\ pc \in {"slot", "implcode", "index"} => page \cap Storages \subseteq addresses

\* What was due all the time is, with no failed call and everything on the
\* page, on the list, still to be looked at, or in hand and about to be found.
DueListed ==
    /\ due = Due(due, impl)
    /\ ~excused /\ (Discovering \/ pc = "index") => due \subseteq page
    /\ ~excused /\ pc = "code" =>
          \A s \in page \cap Storages : s \in todo \/ Code[s] \in bytecodes
    /\ ~excused /\ pc \in {"slot", "implcode"} =>
          /\ \A s \in page \cap Storages : Code[s] \in bytecodes
          /\ \A p \in due : \/ p \in addresses \/ p \in todo
                            \/ pc = "implcode" /\ hand.proxy = p /\ Found
    /\ ~excused /\ pc = "index" => due \subseteq addresses

\* main goes on with a list that is not empty.
MainHasContracts == pc = "index" /\ addresses = {} => live

ListInv ==
    /\ TypeOK
    /\ OnlyContractsDue
    /\ ReadWasThere
    /\ StoragesListed
    /\ DueListed
    /\ MainHasContracts
    /\ NothingLeftOut

(***************************************************************************)
(* What is due.                                                            *)
(***************************************************************************)
LEMMA DueIsListed ==
    ASSUME NEW L, NEW I
    PROVE  /\ Due(L, I) \subseteq L
           /\ Due(Due(L, I), I) = Due(L, I)
           /\ Due(L, I) \subseteq Storages \cup Proxies
BY DEF Due

LEMMA DueGrows ==
    ASSUME NEW L, NEW K, NEW I, L \subseteq K
    PROVE  Due(L, I) \subseteq Due(K, I)
BY DEF Due

(***************************************************************************)
(* Type correctness.                                                       *)
(***************************************************************************)
LEMMA InitDiscoveryType == Init => TypeOK
<1> SUFFICES ASSUME Init PROVE TypeOK
  OBVIOUS
<1> USE DiscoveryAssumption DEF Init
<1>1. /\ upgrades \in 0..MaxUpgrades /\ stops \in 0..MaxStops /\ cursor \in 0..MaxHeight
  OBVIOUS
<1>2. /\ asked \in [Heights -> SUBSET Contracts] /\ owed \in [Heights -> SUBSET Contracts]
      /\ hand \in [proxy : Proxies \cup {ZeroAddress}, target : Contracts \cup {ZeroAddress}]
  OBVIOUS
<1> QED
  BY <1>1, <1>2 DEF TypeOK

LEMMA FilterType == TypeOK => Filter \subseteq Contracts /\ addresses \subseteq Filter
BY DEF TypeOK, Filter

\* The blocks of a chunk come right after the cursor, which passes them all.
LEMMA ChunkOfBlocks ==
    ASSUME TypeOK, NEW H \in Chunks
    PROVE  /\ H \subseteq Heights
           /\ cursor + Cardinality(H) \in 0..MaxHeight
           /\ 1..(cursor + Cardinality(H)) = (1..cursor) \cup H
<1>1. PICK e \in Heights : cursor < e /\ H = (cursor + 1)..e
  BY DEF Chunks
<1>2. cursor \in Nat /\ e \in Nat /\ MaxHeight \in Nat /\ e <= MaxHeight /\ 1 <= e
  BY DiscoveryAssumption DEF TypeOK, Heights
<1>3. Cardinality(H) = e - cursor
  <2>1. Cardinality(H) = e - (cursor + 1) + 1
    BY <1>1, <1>2, FS_Interval
  <2> QED
    BY <1>2, <2>1
<1>4. cursor + Cardinality(H) = e
  BY <1>2, <1>3
<1> QED
  BY <1>1, <1>2, <1>4 DEF Heights

LEMMA DiscoveryType == TypeOK /\ ReadWasThere /\ [Next]_vars => TypeOK'
<1> SUFFICES ASSUME TypeOK, ReadWasThere, [Next]_vars PROVE TypeOK'
  OBVIOUS
<1> USE DEF worldVars, passVars, indexVars, historyVars, World
<1>1. ASSUME NEW c \in Contracts, Verify(c) PROVE TypeOK'
  <2>1. Due(listed', impl) \subseteq Contracts
    BY <1>1, DueIsListed DEF Verify, TypeOK
  <2> QED
    BY <1>1, <2>1 DEF Verify, TypeOK
<1>2. ASSUME NEW p \in Proxies, NEW c \in Contracts, Upgrade(p, c) PROVE TypeOK'
  <2>1. Due(due, impl') \subseteq due /\ Due(listed, impl') \subseteq listed
    BY DueIsListed
  <2>2. upgrades' \in 0..MaxUpgrades
    BY <1>2, DiscoveryAssumption DEF Upgrade, TypeOK
  <2>3. impl' \in [Proxies -> Contracts \cup {ZeroAddress}]
    BY <1>2 DEF Upgrade, TypeOK
  <2> QED
    BY <1>2, <2>1, <2>2, <2>3 DEF Upgrade, TypeOK
<1>3. CASE ListContracts
  <2>1. Due(listed, impl) \subseteq listed
    BY DueIsListed
  <2> QED
    BY <1>3, <2>1 DEF ListContracts, Pages, TypeOK
<1>4. CASE ListFails
  BY <1>4 DEF ListFails, AfterError, TypeOK
<1>5. ASSUME NEW c \in Storages, GetCode(c) PROVE TypeOK'
  BY <1>5, DiscoveryAssumption DEF GetCode, TypeOK
<1>6. CASE SecondPass
  BY <1>6 DEF SecondPass, TypeOK
<1>7. ASSUME NEW p \in Proxies, GetSlot(p) PROVE TypeOK'
  <2>1. impl[p] \in Contracts \cup {ZeroAddress}
    BY DEF TypeOK
  <2>2. hand' \in [proxy : Proxies \cup {ZeroAddress}, target : Contracts \cup {ZeroAddress}]
    BY <1>7, <2>1 DEF GetSlot, TypeOK
  <2> QED
    BY <1>7, <2>2 DEF GetSlot, TypeOK
<1>9. CASE GetImplCode
  <2>1. hand.proxy \in Contracts
    BY <1>9 DEF GetImplCode, ReadWasThere, TypeOK
  <2>2. addresses' \subseteq Contracts
    BY <1>9, <2>1 DEF GetImplCode, TypeOK
  <2> QED
    BY <1>9, <2>2 DEF GetImplCode, TypeOK
<1>10. CASE ReturnAddresses
  BY <1>10 DEF ReturnAddresses, AfterError, TypeOK
<1>11. CASE IndexChunk
  <2>1. PICK H \in Chunks :
            /\ cursor' = cursor + Cardinality(H)
            /\ asked' = [h \in Heights |-> IF h \in H THEN Filter ELSE asked[h]]
            /\ owed' = [h \in Heights |->
                           IF h \notin H THEN owed[h]
                           ELSE IF excused THEN page \cap Storages ELSE due]
    BY <1>11 DEF IndexChunk
  <2>2. /\ asked' \in [Heights -> SUBSET Contracts]
        /\ owed' \in [Heights -> SUBSET Contracts]
    BY <2>1, FilterType DEF TypeOK
  <2>3. cursor' \in 0..MaxHeight
    BY <2>1, ChunkOfBlocks
  <2> QED
    BY <1>11, <2>2, <2>3 DEF IndexChunk, TypeOK
<1>12. CASE Handover \/ LiveFails
  BY <1>12 DEF Handover, LiveFails, TypeOK
<1>13. CASE Restart
  <2>1. stops' \in 0..MaxStops
    BY <1>13, DiscoveryAssumption DEF Restart, TypeOK
  <2> QED
    BY <1>13, <2>1 DEF Restart, TypeOK
<1>14. CASE UNCHANGED vars
  BY <1>14 DEF vars, TypeOK
<1> QED
  BY <1>1, <1>2, <1>3, <1>4, <1>5, <1>6, <1>7, <1>9, <1>10, <1>11, <1>12, <1>13, <1>14
  DEF Next, Discover

(***************************************************************************)
(* What is read was there.                                                 *)
(***************************************************************************)
ReadInv == TypeOK /\ ReadWasThere /\ OnlyContractsDue

LEMMA NextRead == ReadInv /\ [Next]_vars => ReadWasThere' /\ OnlyContractsDue'
<1> SUFFICES ASSUME TypeOK, ReadWasThere, OnlyContractsDue, [Next]_vars
             PROVE  ReadWasThere' /\ OnlyContractsDue'
  BY DEF ReadInv
<1> USE DEF worldVars, passVars, indexVars, historyVars, World
\* The world moves on, or the indexer goes on to a state that reads nothing.
<1>a. ASSUME UNCHANGED <<pc, passVars, addresses>>, listed \subseteq listed',
             ever \subseteq ever', Due(listed', impl') \subseteq ever'
      PROVE  ReadWasThere' /\ OnlyContractsDue'
  BY <1>a DEF ReadWasThere, OnlyContractsDue, Discovering, Found
<1>b. ASSUME UNCHANGED <<listed, ever, passVars, addresses>>,
             pc' \in {"list", "exit", "dead", "index"}
      PROVE  ReadWasThere' /\ OnlyContractsDue'
  BY <1>b DEF ReadWasThere, OnlyContractsDue, Discovering
<1>1. ASSUME NEW c \in Contracts, Verify(c) PROVE ReadWasThere' /\ OnlyContractsDue'
  BY <1>1, <1>a DEF Verify
<1>2. ASSUME NEW p \in Proxies, NEW c \in Contracts, Upgrade(p, c)
      PROVE  ReadWasThere' /\ OnlyContractsDue'
  BY <1>2, <1>a DEF Upgrade
<1>3. CASE ListContracts
  <2>1. /\ page' \subseteq listed' /\ listed' = listed /\ impl' = impl
        /\ ever' = Due(listed, impl)
        /\ addresses' = {} /\ bytecodes' = {} /\ pc' = "code"
    BY <1>3 DEF ListContracts, Pages
  <2>2. page' \cap Storages \subseteq ever'
    BY <2>1 DEF Due
  <2> QED
    BY <2>1, <2>2 DEF ReadWasThere, OnlyContractsDue, Discovering
<1>4. CASE ListFails \/ ReturnAddresses
  BY <1>4, <1>b DEF ListFails, ReturnAddresses, AfterError
<1>5. ASSUME NEW c \in Storages, GetCode(c) PROVE ReadWasThere' /\ OnlyContractsDue'
  <2>1. /\ c \in page \cap Storages
        /\ UNCHANGED <<listed, impl, page, ever, pc>> /\ pc = "code"
        /\ addresses' = addresses \cup {c}
        /\ bytecodes' \subseteq bytecodes \cup {Code[c]}
    BY <1>5 DEF GetCode, TypeOK
  <2> QED
    BY <2>1 DEF ReadWasThere, OnlyContractsDue, Discovering
<1>6. CASE SecondPass
  BY <1>6 DEF SecondPass, ReadWasThere, OnlyContractsDue, Discovering
<1>7. ASSUME NEW p \in Proxies, GetSlot(p) PROVE ReadWasThere' /\ OnlyContractsDue'
  <2>1. /\ UNCHANGED <<listed, impl, page, ever, bytecodes, addresses>>
        /\ pc = "slot" /\ todo' = todo \ {p} /\ p \in page \cap Proxies
        /\ pc' = "slot" \/ (pc' = "implcode" /\ hand' = [proxy |-> p, target |-> impl[p]])
    BY <1>7 DEF GetSlot, TypeOK
  <2>2. ASSUME hand' = [proxy |-> p, target |-> impl[p]], Found'
        PROVE  p \in ever
    <3>1. Code[impl[p]] \in bytecodes
      BY <2>1, <2>2 DEF Found
    <3>2. PICK s \in page \cap Storages : Code[impl[p]] = Code[s]
      BY <3>1 DEF ReadWasThere
    <3>3. impl[p] # ZeroAddress
      BY <3>2, DiscoveryAssumption
    <3>4. p \in Due(listed, impl)
      BY <2>1, <3>2, <3>3 DEF Due, ReadWasThere
    <3> QED
      BY <2>1, <3>4 DEF ReadWasThere, Discovering
  <2> QED
    BY <2>1, <2>2 DEF ReadWasThere, OnlyContractsDue, Discovering
<1>8. CASE GetImplCode
  <2>1. /\ UNCHANGED <<listed, impl, page, todo, ever, bytecodes>>
        /\ pc = "implcode" /\ pc' = "slot"
        /\ addresses' \subseteq addresses \/ (Found /\ addresses' = addresses \cup {hand.proxy})
    BY <1>8 DEF GetImplCode
  <2> QED
    BY <2>1 DEF ReadWasThere, OnlyContractsDue, Discovering
<1>9. CASE IndexChunk \/ Handover \/ LiveFails \/ Restart
  BY <1>9, <1>b DEF IndexChunk, Handover, LiveFails, Restart
<1>10. CASE UNCHANGED vars
  BY <1>10 DEF vars, ReadWasThere, OnlyContractsDue, Discovering, Found
<1> QED
  BY <1>1, <1>2, <1>3, <1>4, <1>5, <1>6, <1>7, <1>8, <1>9, <1>10 DEF Next, Discover

(***************************************************************************)
(* What is due is listed.                                                  *)
(***************************************************************************)
LEMMA InitListInv == Init => ListInv
<1> SUFFICES ASSUME Init PROVE ListInv
  OBVIOUS
<1>1. /\ page = {} /\ bytecodes = {} /\ addresses = {} /\ pc = "list" /\ due = {}
      /\ cursor = 0
  BY DEF Init
<1>2. ReadWasThere /\ OnlyContractsDue /\ StoragesListed /\ MainHasContracts
  BY <1>1 DEF ReadWasThere, OnlyContractsDue, StoragesListed, MainHasContracts, Discovering
<1>3. DueListed
  <2>1. due = Due(due, impl)
    BY <1>1 DEF Due
  <2> QED
    BY <1>1, <2>1 DEF DueListed, Discovering
<1>4. NothingLeftOut
  BY <1>1 DEF NothingLeftOut
<1> QED
  BY <1>2, <1>3, <1>4, InitDiscoveryType DEF ListInv

LEMMA NextStorages ==
    ListInv /\ [Next]_vars => StoragesListed' /\ MainHasContracts'
<1> SUFFICES ASSUME TypeOK, StoragesListed, MainHasContracts, [Next]_vars
             PROVE  StoragesListed' /\ MainHasContracts'
  BY DEF ListInv
<1> USE DEF worldVars, passVars, indexVars, historyVars, World, StoragesListed,
            MainHasContracts
<1>1. CASE \E c \in Contracts : Verify(c)
  BY <1>1 DEF Verify
<1>2. CASE \E p \in Proxies, c \in Contracts : Upgrade(p, c)
  BY <1>2 DEF Upgrade
<1>3. CASE ListContracts
  BY <1>3 DEF ListContracts
<1>4. CASE ListFails \/ ReturnAddresses
  BY <1>4 DEF ListFails, ReturnAddresses, AfterError, Acceptable
<1>5. ASSUME NEW c \in Storages, GetCode(c)
      PROVE  StoragesListed' /\ MainHasContracts'
  <2>1. /\ page' = page /\ pc = "code" /\ pc' = "code"
        /\ addresses' = addresses \cup {c} /\ todo' = todo \ {c}
    BY <1>5 DEF GetCode
  <2> QED
    BY <2>1
<1>6. CASE SecondPass
  BY <1>6 DEF SecondPass
<1>7. CASE \E p \in Proxies : GetSlot(p)
  BY <1>7 DEF GetSlot
<1>8. CASE GetImplCode
  BY <1>8 DEF GetImplCode
<1>9. CASE IndexChunk \/ Handover \/ LiveFails \/ Restart
  BY <1>9 DEF IndexChunk, Handover, LiveFails, Restart
<1>10. CASE UNCHANGED vars
  BY <1>10 DEF vars
<1> QED
  BY <1>1, <1>2, <1>3, <1>4, <1>5, <1>6, <1>7, <1>8, <1>9, <1>10 DEF Next, Discover

LEMMA NextDue == ListInv /\ [Next]_vars => DueListed'
<1> SUFFICES ASSUME TypeOK, ReadWasThere, StoragesListed, DueListed, [Next]_vars
             PROVE  DueListed'
  BY DEF ListInv
<1> USE DEF worldVars, passVars, indexVars, historyVars, World
<1>0. due \subseteq Storages \cup Proxies
  BY DueIsListed DEF DueListed
\* Of what is due some may go; everything else is as it was.
<1>a. ASSUME UNCHANGED <<pc, passVars, addresses, excused>>, due' \subseteq due,
             due' = Due(due', impl')
      PROVE  DueListed'
  BY <1>a DEF DueListed, Discovering, Found
<1>b. ASSUME UNCHANGED <<impl, due>>, pc' \in {"list", "exit", "dead"}
      PROVE  DueListed'
  BY <1>b DEF DueListed, Discovering
<1>1. ASSUME NEW c \in Contracts, Verify(c) PROVE DueListed'
  BY <1>1, <1>a DEF Verify, DueListed
<1>2. ASSUME NEW p \in Proxies, NEW c \in Contracts, Upgrade(p, c) PROVE DueListed'
  BY <1>2, <1>a, DueIsListed DEF Upgrade
<1>3. CASE ListContracts
  <2>1. /\ due' = Due(listed, impl) /\ impl' = impl /\ pc' = "code"
        /\ todo' = page' \cap Storages
        /\ ~excused' => page' = listed
    BY <1>3 DEF ListContracts
  <2> QED
    BY <2>1, DueIsListed DEF DueListed, Discovering
<1>4. CASE ListFails
  BY <1>4, <1>b DEF ListFails, AfterError
<1>5. ASSUME NEW c \in Storages, GetCode(c) PROVE DueListed'
  <2>1. /\ UNCHANGED <<page, due, impl, pc>> /\ pc = "code" /\ todo' = todo \ {c}
        /\ ~excused' => ~excused /\ bytecodes' = bytecodes \cup {Code[c]}
    BY <1>5 DEF GetCode
  <2> QED
    BY <2>1 DEF DueListed, Discovering
<1>6. CASE SecondPass
  <2>1. /\ UNCHANGED <<page, due, impl, bytecodes, addresses, excused>>
        /\ pc = "code" /\ pc' = "slot" /\ todo = {} /\ todo' = page \cap Proxies
    BY <1>6 DEF SecondPass
  <2>2. ASSUME ~excused, NEW p \in due PROVE p \in addresses \/ p \in todo'
    BY <1>0, <2>1, <2>2 DEF DueListed, StoragesListed, Discovering
  <2> QED
    BY <2>1, <2>2 DEF DueListed, Discovering
<1>7. ASSUME NEW p \in Proxies, GetSlot(p) PROVE DueListed'
  <2>1. /\ UNCHANGED <<page, due, impl, bytecodes, addresses>>
        /\ pc = "slot" /\ todo' = todo \ {p}
        /\ ~excused' => /\ ~excused /\ pc' = "implcode"
                        /\ hand' = [proxy |-> p, target |-> impl[p]]
        /\ pc' \in {"slot", "implcode"}
    BY <1>7 DEF GetSlot
  <2>2. ASSUME ~excused', p \in due PROVE p \in addresses \/ Found'
    <3>1. CASE p \in Storages
      BY <2>1, <2>2, <3>1 DEF StoragesListed, DueListed, Discovering
    <3>2. CASE p \notin Storages
      <4>1. PICK s \in due \cap Storages : impl[p] # ZeroAddress /\ Code[impl[p]] = Code[s]
        BY <2>2, <3>2 DEF DueListed, Due
      <4>2. Code[s] \in bytecodes
        BY <2>1, <2>2, <4>1 DEF DueListed, Discovering
      <4> QED
        BY <2>1, <2>2, <4>1, <4>2 DEF Found
    <3> QED
      BY <3>1, <3>2
  <2> QED
    BY <2>1, <2>2 DEF DueListed, Discovering
<1>8. CASE GetImplCode
  <2>1. /\ UNCHANGED <<page, todo, due, impl, bytecodes>>
        /\ pc = "implcode" /\ pc' = "slot"
        /\ ~excused' => /\ ~excused
                        /\ addresses' = IF Found THEN addresses \cup {hand.proxy}
                                                 ELSE addresses
    BY <1>8 DEF GetImplCode
  <2> QED
    BY <2>1 DEF DueListed, Discovering
<1>9. CASE ReturnAddresses
  <2>1. /\ UNCHANGED <<page, due, impl, addresses, excused>>
        /\ pc = "slot" /\ todo = {} /\ pc' \in {"index", "exit", "dead"}
    BY <1>9 DEF ReturnAddresses, AfterError
  <2> QED
    BY <2>1 DEF DueListed, Discovering
<1>10. CASE IndexChunk
  <2>1. UNCHANGED <<pc, page, due, impl, addresses, excused>> /\ pc = "index"
    BY <1>10 DEF IndexChunk
  <2> QED
    BY <2>1 DEF DueListed, Discovering
<1>11. CASE Handover \/ LiveFails \/ Restart
  BY <1>11, <1>b DEF Handover, LiveFails, Restart
<1>12. CASE UNCHANGED vars
  BY <1>12 DEF vars, DueListed, Discovering, Found
<1> QED
  BY <1>1, <1>2, <1>3, <1>4, <1>5, <1>6, <1>7, <1>8, <1>9, <1>10, <1>11, <1>12
  DEF Next, Discover

LEMMA NextNothingLeftOut == ListInv /\ [Next]_vars => NothingLeftOut'
<1> SUFFICES ASSUME ListInv, [Next]_vars PROVE NothingLeftOut'
  OBVIOUS
<1>1. CASE IndexChunk
  <2>1. PICK H \in Chunks :
            /\ cursor' = cursor + Cardinality(H)
            /\ asked' = [h \in Heights |-> IF h \in H THEN Filter ELSE asked[h]]
            /\ owed' = [h \in Heights |->
                           IF h \notin H THEN owed[h]
                           ELSE IF excused THEN page \cap Storages ELSE due]
    BY <1>1 DEF IndexChunk
  <2>2. /\ 1..cursor' = (1..cursor) \cup H /\ H \subseteq Heights
        /\ 1..cursor \subseteq Heights
    <3>1. 1..cursor \subseteq Heights
      BY DiscoveryAssumption DEF ListInv, TypeOK, Heights
    <3> QED
      BY <2>1, <3>1, ChunkOfBlocks DEF ListInv
  <2>3. (IF excused THEN page \cap Storages ELSE due) \subseteq Filter
    <3>1. pc = "index"
      BY <1>1 DEF IndexChunk
    <3>2. CASE excused
      BY <3>1, <3>2, FilterType DEF ListInv, StoragesListed
    <3>3. CASE ~excused
      BY <3>1, <3>3, FilterType DEF ListInv, DueListed
    <3> QED
      BY <3>2, <3>3
  <2>4. ASSUME NEW h \in H PROVE owed'[h] \subseteq asked'[h]
    BY <2>1, <2>2, <2>3
  <2>5. ASSUME NEW h \in 1..cursor, h \notin H PROVE owed'[h] \subseteq asked'[h]
    BY <2>1, <2>2, <2>5 DEF ListInv, NothingLeftOut
  <2> QED
    BY <2>2, <2>4, <2>5 DEF NothingLeftOut
<1>2. CASE UNCHANGED indexVars
  BY <1>2 DEF indexVars, ListInv, NothingLeftOut
<1> QED
  BY <1>1, <1>2
  DEF Next, Discover, Verify, Upgrade, ListContracts, ListFails, GetCode, SecondPass, GetSlot,
      GetImplCode, ReturnAddresses, Handover, LiveFails, Restart, World, indexVars, vars

THEOREM ListInductive == Spec => []ListInv
<1>1. ListInv /\ [Next]_vars => ListInv'
  <2> SUFFICES ASSUME ListInv, [Next]_vars PROVE ListInv'
    OBVIOUS
  <2>1. ReadWasThere' /\ OnlyContractsDue' /\ TypeOK'
    BY NextRead, DiscoveryType DEF ListInv, ReadInv
  <2> QED
    BY <2>1, NextStorages, NextDue, NextNothingLeftOut DEF ListInv
<1> QED
  BY InitListInv, <1>1, PTL DEF Spec

(***************************************************************************)
(* The theorems.                                                           *)
(***************************************************************************)
\* The variables keep their types.
THEOREM DiscoveryTypeCorrect == Spec => []TypeOK
<1>1. ListInv => TypeOK
  BY DEF ListInv
<1> QED
  BY <1>1, ListInductive, PTL

\* No contract gets on the list that was not due since the discovery began.
THEOREM OnlyContractsDueHolds == Spec => []OnlyContractsDue
<1>1. ListInv => OnlyContractsDue
  BY DEF ListInv
<1> QED
  BY <1>1, ListInductive, PTL

\* Whatever is upgraded or verified between two requests of the discovery, no
\* contract that was due all the time is left out of the eth_getLogs of a
\* block behind the cursor, unless a call failed or the page was too short;
\* then still no storage contract of the page is (constants.go:101-130).
THEOREM NothingLeftOutHolds == Spec => []NothingLeftOut
<1>1. ListInv => NothingLeftOut
  BY DEF ListInv
<1> QED
  BY <1>1, ListInductive, PTL

\* The filter without an address, that is for every address, is used by
\* LiveIndexing only, and only for a page without a storage contract.
THEOREM NeverAsksForAllHolds == Spec => []NeverAsksForAll
<1>1. ListInv => NeverAsksForAll
  BY DEF ListInv, StoragesListed, MainHasContracts, NeverAsksForAll
<1> QED
  BY <1>1, ListInductive, PTL
=============================================================================
