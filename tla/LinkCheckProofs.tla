---------------------------- MODULE LinkCheckProofs ----------------------------
(***************************************************************************)
(* Theorems about LinkCheck, for any links of any shapes, any number of    *)
(* passes and goroutines and any lifetimes.                                *)
(*                                                                         *)
(* One invariant carries them: each item of a pass, each cache entry, each *)
(* row and each check is sound by itself, relative to the shape of its     *)
(* link and to what has been found of it.                                  *)
(***************************************************************************)
EXTENDS LinkCheck, CheckersProofs, FiniteSetTheorems

\* A result of link l, d: somebody has found the link dead.
Fits(l, result, d) == result \in Possible(shape[l]) /\ (result = "dead" => d)

\* The result of an item is its link's; only a cached one has an age.
ItemOK(l, it, d) ==
    /\ it.stage \in {"got", "listed"} \/ it.from # "unknown" => Fits(l, it.result, d)
    /\ it.from # "cache" => it.age = 0

KeyOK(l, e, d) == e.here => Fits(l, e.result, d) /\ e.age + e.left <= TTL(l, e.result)

Items == \A p \in Pass, l \in Link : ItemOK(l, item[p][l], condemned[l])
Keys == \A l \in Link : KeyOK(l, cache[l], condemned[l])
Rows == \A l \in Link : table[l] = "dead" => condemned[l]

\* What a pass holds of its links, a pass that does not run of none.
Control ==
    /\ pc \in [Pass -> {"idle", "cache", "table", "work"}]
    /\ \A p \in Pass, l \in Link : pc[p] = "idle" => item[p][l].stage = "none"

ItemsType == item \in [Pass -> [Link -> Item]]
StoreType ==
    /\ cache \in [Link -> Entry]
    /\ table \in [Link -> {"none", "dead", "limited"}]
    /\ condemned \in [Link -> BOOLEAN]

Inv == CheckInv /\ Control /\ ItemsType /\ StoreType /\ Items /\ Keys /\ Rows

---------------------------------------------------------------------------
(* Values. *)

LEMMA ConstantsType ==
    /\ NoItem \in Item /\ Todo \in Item /\ NoEntry \in Entry
    /\ Todo = [stage |-> "todo", result |-> "dead", from |-> "unknown", age |-> 0]
    /\ Todo.stage = "todo" /\ Todo.from = "unknown" /\ Todo.age = 0
    /\ NoItem.stage = "none" /\ NoItem.from = "unknown" /\ NoItem.age = 0
    /\ ~ NoEntry.here
  <1>1. 0 \in 0 .. Horizon
    BY TTLAssumption
  <1> QED
    BY <1>1 DEF NoItem, Todo, NoEntry, Item, Entry, Stage, Source, Result

LEMMA PossibleType == \A s \in Shape : Possible(s) \subseteq Result /\ "dead" \in Possible(s)
  BY DEF Possible, Result

LEMMA TTLType ==
    ASSUME NEW l \in Link, shape[l] \in Shape, NEW result
    PROVE  TTL(l, result) \in 0 .. Horizon
  <1>1. shape[l].platform \in Platform
    BY DEF Shape
  <1> QED
    BY <1>1, TTLAssumption DEF TTL

LEMMA OlderType ==
    ASSUME NEW age \in 0 .. Horizon
    PROVE  Older(age) \in 0 .. Horizon /\ Older(age) <= age + 1
  BY TTLAssumption DEF Older

LEMMA InitInv == Init => Inv
  <1> SUFFICES ASSUME Init PROVE Inv
    OBVIOUS
  <1>1. CheckInv
    BY InitCheck DEF Init
  <1> USE ConstantsType
  <1> HIDE DEF NoItem, NoEntry
  <1>2. ItemsType /\ StoreType
    BY DEF Init, ItemsType, StoreType
  <1>3. \A p \in Pass, l \in Link : item[p][l] = NoItem
    BY DEF Init
  <1>4. Items
    BY <1>3 DEF Items, ItemOK
  <1>5. Keys /\ Rows
    BY DEF Init, Keys, KeyOK, Rows
  <1>6. Control
    BY <1>3 DEF Control, Init
  <1> QED
    BY <1>1, <1>2, <1>4, <1>5, <1>6 DEF Inv

---------------------------------------------------------------------------
(* Frames: what the parts of the invariant depend on. *)

\* More is found dead, nothing else changes of the store.
LEMMA CondemnedOnly ==
    ASSUME Inv, UNCHANGED <<shape, cache, table>>, condemned' \in [Link -> BOOLEAN],
           \A l \in Link : condemned[l] => condemned'[l]
    PROVE  StoreType' /\ Keys' /\ Rows'
  BY DEF Inv, StoreType, Keys, Rows, KeyOK, Fits, TTL

LEMMA ItemsOnly ==
    ASSUME Inv, UNCHANGED <<shape, cache, table, condemned>>
    PROVE  StoreType' /\ Keys' /\ Rows'
  BY CondemnedOnly DEF Inv, StoreType

LEMMA StoreOnly ==
    ASSUME Inv, UNCHANGED <<shape, pc, item>>, \A l \in Link : condemned[l] => condemned'[l]
    PROVE  Items' /\ ItemsType' /\ Control'
  BY DEF Inv, Items, ItemsType, Control, ItemOK, Fits

\* Items of one pass change, each into a sound one.
LEMMA ItemsOfPass ==
    ASSUME Inv, NEW p \in Pass, NEW its \in [Link -> Item], item' = [item EXCEPT ![p] = its],
           UNCHANGED <<shape, condemned>>,
           \A l \in Link : ItemOK(l, its[l], condemned[l]),
           pc' \in [Pass -> {"idle", "cache", "table", "work"}],
           \A q \in Pass : q # p => pc'[q] = pc[q],
           pc'[p] = "idle" => \A l \in Link : its[l].stage = "none"
    PROVE  ItemsType' /\ Items' /\ Control'
  <1>1. ItemsType' /\ \A q \in Pass : item'[q] = IF q = p THEN its ELSE item[q]
    BY DEF Inv, ItemsType
  <1>2. Items'
    BY <1>1 DEF Inv, Items, ItemOK, Fits
  <1>3. Control'
    BY <1>1 DEF Inv, Control
  <1> QED
    BY <1>1, <1>2, <1>3

\* One item of a working pass does.
LEMMA OneItem ==
    ASSUME Inv, NEW p \in Pass, NEW l \in Link, NEW it \in Item, Put(p, l, it),
           UNCHANGED <<shape, condemned, pc>>, pc[p] = "work", ItemOK(l, it, condemned[l])
    PROVE  ItemsType' /\ Items' /\ Control'
  <1> DEFINE its == [item[p] EXCEPT ![l] = it]
  <1>1. item[p] \in [Link -> Item]
    BY DEF Inv, ItemsType
  <1>2. its \in [Link -> Item] /\ \A m \in Link : its[m] = IF m = l THEN it ELSE item[p][m]
    BY <1>1
  <1>3. item' = [item EXCEPT ![p] = its]
    BY <1>1 DEF Put, Inv, ItemsType
  <1>4. \A m \in Link : ItemOK(m, its[m], condemned[m])
    BY <1>2 DEF Inv, Items
  <1> HIDE DEF its
  <1> QED
    BY <1>2, <1>3, <1>4, ItemsOfPass DEF Inv, Control

---------------------------------------------------------------------------
(* The steps of a pass. *)

LEMMA StartInv == ASSUME Inv, NEW p \in Pass, Start(p) PROVE Inv'
  <1>1. PICK S \in SUBSET Link :
          item' = [item EXCEPT ![p] = [l \in Link |-> IF l \in S THEN Todo ELSE NoItem]]
    BY DEF Start
  <1> DEFINE its == [l \in Link |-> IF l \in S THEN Todo ELSE NoItem]
  <1>2. its \in [Link -> Item]
    BY ConstantsType
  <1>3. \A l \in Link : ItemOK(l, its[l], condemned[l])
    BY ConstantsType DEF ItemOK
  <1>4. /\ pc' \in [Pass -> {"idle", "cache", "table", "work"}] /\ pc'[p] = "cache"
        /\ \A q \in Pass : q # p => pc'[q] = pc[q]
    BY DEF Start, GoTo, Inv, Control
  <1>5. UNCHANGED <<shape, check, cache, table, condemned>>
    BY DEF Start
  <1>6. item' = [item EXCEPT ![p] = its]
    BY <1>1
  <1> HIDE DEF its
  <1>7. ItemsType' /\ Items' /\ Control'
    BY <1>2, <1>3, <1>4, <1>5, <1>6, ItemsOfPass
  <1> QED
    BY <1>5, <1>7, ItemsOnly DEF Inv, CheckInv, CheckTypeOK

\* What the cache or the table says of a link, for an item or not.
LEMMA FoundOK ==
    ASSUME Inv, NEW p \in Pass, NEW l \in Link, NEW source \in {"cache", "table"},
           NEW result, NEW age \in 0 .. Horizon, Fits(l, result, condemned[l]),
           source # "cache" => age = 0
    PROVE  Found(p, l, source, result, age) \in Item
             /\ ItemOK(l, Found(p, l, source, result, age), condemned[l])
  <1>1. item[p][l] \in Item /\ ItemOK(l, item[p][l], condemned[l])
    BY DEF Inv, Items, ItemsType
  <1>2. result \in Result
    BY CheckOf, PossibleType DEF Fits, Inv
  <1> DEFINE it == [Todo EXCEPT !.result = result, !.from = source, !.age = age]
  <1>3. it \in Item /\ it.stage = "todo" /\ it.from = source /\ it.age = age /\ it.result = result
    BY <1>2, ConstantsType DEF Item, Stage, Source
  <1> HIDE DEF it
  <1>4. Found(p, l, source, result, age) \in {it, item[p][l]}
    BY DEF Found, it
  <1>5. ItemOK(l, it, condemned[l])
    BY <1>3 DEF ItemOK
  <1> QED
    BY <1>1, <1>3, <1>4, <1>5

LEMMA ReadInv == ASSUME Inv, NEW p \in Pass, ReadCache(p) \/ ReadTable(p) PROVE Inv'
  <1>1. /\ UNCHANGED <<shape, check, cache, table, condemned>>
        /\ pc' \in [Pass -> {"idle", "cache", "table", "work"}] /\ pc'[p] # "idle"
        /\ \A q \in Pass : q # p => pc'[q] = pc[q]
    BY DEF ReadCache, ReadTable, GoTo, Inv, Control
  <1>2. ASSUME NEW its \in [Link -> Item], item' = [item EXCEPT ![p] = its],
               \A l \in Link : ItemOK(l, its[l], condemned[l])
        PROVE  Inv'
    <2>1. ItemsType' /\ Items' /\ Control'
      BY <1>1, <1>2, ItemsOfPass
    <2> QED
      BY <1>1, <2>1, ItemsOnly DEF Inv, CheckInv, CheckTypeOK
  <1>3. \A l \in Link : item[p][l] \in Item /\ ItemOK(l, item[p][l], condemned[l])
    BY DEF Inv, ItemsType, Items
  <1>4. ASSUME NEW decoded \in SUBSET {l \in Link : cache[l].here},
               item' = [item EXCEPT ![p] = [l \in Link |->
                IF l \in decoded THEN Found(p, l, "cache", cache[l].result, cache[l].age)
                                 ELSE item[p][l]]]
        PROVE  Inv'
    <2> DEFINE its == [l \in Link |->
                IF l \in decoded THEN Found(p, l, "cache", cache[l].result, cache[l].age)
                                 ELSE item[p][l]]
    <2>1. ASSUME NEW l \in Link, l \in decoded
          PROVE  Found(p, l, "cache", cache[l].result, cache[l].age) \in Item
                   /\ ItemOK(l, Found(p, l, "cache", cache[l].result, cache[l].age), condemned[l])
      <3>1. Fits(l, cache[l].result, condemned[l]) /\ cache[l].age \in 0 .. Horizon
        BY <2>1 DEF Inv, Keys, KeyOK, StoreType, Entry
      <3> QED
        BY <3>1, FoundOK
    <2>2. its \in [Link -> Item] /\ \A l \in Link : ItemOK(l, its[l], condemned[l])
      BY <1>3, <2>1
    <2>3. item' = [item EXCEPT ![p] = its]
      BY <1>4
    <2> HIDE DEF its
    <2> QED
      BY <1>2, <2>2, <2>3
  <1>5. CASE item' = [item EXCEPT ![p] = [l \in Link |->
                IF KnownDead(l) THEN Found(p, l, "table", "dead", 0) ELSE item[p][l]]]
    <2> DEFINE its == [l \in Link |->
                IF KnownDead(l) THEN Found(p, l, "table", "dead", 0) ELSE item[p][l]]
    <2>1. ASSUME NEW l \in Link, KnownDead(l)
          PROVE  Found(p, l, "table", "dead", 0) \in Item
                   /\ ItemOK(l, Found(p, l, "table", "dead", 0), condemned[l])
      <3>1. Fits(l, "dead", condemned[l]) /\ 0 \in 0 .. Horizon
        BY <2>1, CheckOf, PossibleType, TTLAssumption DEF Inv, Rows, KnownDead, Fits
      <3> QED
        BY <3>1, FoundOK
    <2>2. its \in [Link -> Item] /\ \A l \in Link : ItemOK(l, its[l], condemned[l])
      BY <1>3, <2>1
    <2>3. item' = [item EXCEPT ![p] = its]
      BY <1>5
    <2> HIDE DEF its
    <2> QED
      BY <1>2, <2>2, <2>3
  <1>6. CASE UNCHANGED item
    <2>1. item' = [item EXCEPT ![p] = item[p]] /\ item[p] \in [Link -> Item]
      BY <1>6 DEF Inv, ItemsType
    <2> QED
      BY <1>2, <1>3, <2>1
  <1> QED
    BY <1>4, <1>5, <1>6 DEF ReadCache, ReadTable

LEMMA LaunchInv == ASSUME Inv, NEW p \in Pass, NEW l \in Link, Launch(p, l) PROVE Inv'
  <1>0. /\ pc[p] = "work" /\ UNCHANGED <<shape, pc, cache, table, condemned>>
        /\ item[p][l].stage = "todo"
    BY DEF Launch, At2, Begin, Asks, Gives
  <1>1. item[p][l] \in Item /\ ItemOK(l, item[p][l], condemned[l])
    BY DEF Inv, ItemsType, Items
  <1>2. CheckInv'
    BY <1>0, BeginSound DEF Launch, Inv, CheckInv, CheckTypeOK
  <1>3. CASE item[p][l].from # "unknown" /\ Put(p, l, [item[p][l] EXCEPT !.stage = "got"])
    <2> DEFINE it == [item[p][l] EXCEPT !.stage = "got"]
    <2>1. /\ it \in Item /\ it.stage = "got" /\ it.from = item[p][l].from
          /\ it.result = item[p][l].result /\ it.age = item[p][l].age
      BY <1>1 DEF Item, Stage
    <2>2. Put(p, l, it)
      BY <1>3
    <2> HIDE DEF it
    <2>3. ItemOK(l, it, condemned[l])
      BY <1>1, <1>3, <2>1 DEF ItemOK
    <2> QED
      BY <1>0, <1>2, <2>1, <2>2, <2>3, OneItem, ItemsOnly DEF Inv
  <1>4. CASE Put(p, l, [Todo EXCEPT !.stage = "wait"])
    <2> DEFINE it == [Todo EXCEPT !.stage = "wait"]
    <2>1. it \in Item /\ it.stage = "wait" /\ it.from = "unknown" /\ it.age = 0
      BY ConstantsType DEF Item, Stage
    <2>2. Put(p, l, it)
      BY <1>4
    <2> HIDE DEF it
    <2>3. ItemOK(l, it, condemned[l])
      BY <2>1 DEF ItemOK
    <2> QED
      BY <1>0, <1>2, <2>1, <2>2, <2>3, OneItem, ItemsOnly DEF Inv
  <1> QED
    BY <1>3, <1>4 DEF Launch

LEMMA ReportInv == ASSUME Inv, NEW p \in Pass, NEW l \in Link, Report(p, l) PROVE Inv'
  <1>0. /\ pc[p] = "work" /\ item[p][l].stage = "got"
        /\ UNCHANGED <<shape, check, pc, table, condemned>>
    BY DEF Report, At2
  <1>1. /\ item[p][l] \in Item /\ ItemOK(l, item[p][l], condemned[l])
        /\ Fits(l, item[p][l].result, condemned[l])
    BY <1>0 DEF Inv, ItemsType, Items, ItemOK
  <1>2. ItemsType' /\ Items' /\ Control'
    <2> DEFINE it == [NoItem EXCEPT !.stage = "listed", !.result = item[p][l].result]
    <2>1. /\ it \in Item /\ it.stage = "listed" /\ it.from = "unknown" /\ it.age = 0
          /\ it.result = item[p][l].result
      BY <1>1, ConstantsType DEF Item, Stage
    <2>2. Put(p, l, it)
      BY DEF Report
    <2> HIDE DEF it
    <2>3. ItemOK(l, it, condemned[l])
      BY <1>1, <2>1 DEF ItemOK
    <2> QED
      BY <1>0, <2>1, <2>2, <2>3, OneItem
  <1>3. StoreType' /\ Keys'
    <2>1. CASE UNCHANGED cache
      BY <1>0, <2>1, ItemsOnly
    <2>2. CASE /\ Stores(item[p][l])
               /\ cache' = [cache EXCEPT ![l] =
                     [here |-> TRUE, result |-> item[p][l].result,
                      left |-> TTL(l, item[p][l].result), age |-> item[p][l].age]]
      <3> DEFINE e == [here |-> TRUE, result |-> item[p][l].result,
                       left |-> TTL(l, item[p][l].result), age |-> item[p][l].age]
      <3>1. item[p][l].age = 0 /\ item[p][l].result \in Result
        BY <1>1, <2>2 DEF Stores, ItemOK, Item
      <3>2. TTL(l, item[p][l].result) \in 0 .. Horizon
        BY CheckOf, TTLType DEF Inv
      <3>3. e \in Entry
        BY <3>1, <3>2, TTLAssumption DEF Entry
      <3>4. KeyOK(l, e, condemned[l])
        BY <1>1, <3>1, <3>2 DEF KeyOK
      <3>5. cache' = [cache EXCEPT ![l] = e]
        BY <2>2
      <3> HIDE DEF e
      <3>6. \A m \in Link : KeyOK(m, cache'[m], condemned[m])
        BY <3>4, <3>5 DEF Inv, Keys, StoreType
      <3>7. Keys'
        BY <1>0, <3>6 DEF Keys, KeyOK, Fits, TTL
      <3> QED
        BY <1>0, <3>3, <3>5, <3>7 DEF Inv, StoreType
    <2> QED
      BY <2>1, <2>2 DEF Report
  <1> QED
    BY <1>0, <1>2, <1>3 DEF Inv, Rows, CheckInv, CheckTypeOK

\* What Invalid lists, it lists for a result that has been found.
LEMMA FinishInv == ASSUME Inv, NEW p \in Pass, Finish(p) PROVE Inv'
  <1>0. UNCHANGED <<shape, check, cache, condemned>>
    BY DEF Finish
  <1>1. ItemsType' /\ Items' /\ Control'
    <2> DEFINE its == [l \in Link |-> NoItem]
    <2>1. its \in [Link -> Item] /\ \A l \in Link : its[l] = NoItem
      BY ConstantsType
    <2>2. \A l \in Link : ItemOK(l, its[l], condemned[l])
      BY <2>1, ConstantsType DEF ItemOK
    <2>3. item' = [item EXCEPT ![p] = its]
      BY DEF Finish
    <2>4. /\ pc' \in [Pass -> {"idle", "cache", "table", "work"}]
          /\ \A q \in Pass : q # p => pc'[q] = pc[q]
      BY DEF Finish, GoTo, Inv, Control
    <2> HIDE DEF its
    <2> QED
      BY <1>0, <2>1, <2>2, <2>3, <2>4, ConstantsType, ItemsOfPass
  <1>2. StoreType' /\ Rows' /\ Keys'
    <2>1. CASE UNCHANGED table
      BY <1>0, <2>1, ItemsOnly
    <2>2. CASE table' = [l \in Link |-> IF l \in Invalid(p) THEN item[p][l].result ELSE table[l]]
      <3>1. ASSUME NEW l \in Invalid(p)
            PROVE  item[p][l].result \in {"dead", "limited"}
                     /\ (item[p][l].result = "dead" => condemned[l])
        BY <3>1 DEF Invalid, Inv, Items, ItemOK, Fits
      <3>2. StoreType'
        BY <1>0, <2>2, <3>1 DEF Inv, StoreType
      <3>3. Rows'
        BY <1>0, <2>2, <3>1 DEF Inv, Rows
      <3>4. Keys'
        BY <1>0 DEF Inv, Keys, KeyOK, Fits, TTL
      <3> QED
        BY <3>2, <3>3, <3>4
    <2> QED
      BY <2>1, <2>2 DEF Finish
  <1> QED
    BY <1>0, <1>1, <1>2 DEF Inv, CheckInv, CheckTypeOK

---------------------------------------------------------------------------
(* The steps of a check, and the others. *)

\* All who wait for a link get the same item.
LEMMA HandInv ==
    ASSUME Inv, NEW l \in Link, NEW it \in Item, Hand(l, it), UNCHANGED <<shape, pc>>,
           condemned' \in [Link -> BOOLEAN], \A m \in Link : condemned[m] => condemned'[m],
           ItemOK(l, it, condemned'[l])
    PROVE  ItemsType' /\ Items' /\ Control'
  <1>1. \A p \in Pass, m \in Link :
          item'[p][m] = IF p \in Waiting(l) /\ m = l THEN it ELSE item[p][m]
    BY DEF Hand, Inv, ItemsType
  <1>2. ItemsType'
    BY DEF Hand, Inv, ItemsType
  <1>3. Items'
    BY <1>1 DEF Inv, Items, ItemOK, Fits
  <1>4. Control'
    BY <1>1 DEF Inv, Control, Waiting, At2
  <1> QED
    BY <1>2, <1>3, <1>4

LEMMA ResetOne ==
    ASSUME CheckInv, NEW l \in Link, UNCHANGED shape, check' = [check EXCEPT ![l] = NoCheck]
    PROVE  CheckInv'
  <1>1. check' = [m \in Link |-> IF m \in {l} THEN NoCheck ELSE check[m]]
    BY DEF CheckInv, CheckTypeOK
  <1> QED
    BY <1>1, ResetSound

LEMMA ReturnInv == ASSUME Inv, NEW l \in Link, Return(l) PROVE Inv'
  <1> DEFINE it == [NoItem EXCEPT !.stage = "got", !.result = check[l].result, !.from = "site"]
  <1>0. check[l] \in Check /\ check[l].result \in Possible(shape[l])
    BY CheckOf DEF Inv, Return, Sound
  <1>1. /\ it \in Item /\ it.stage = "got" /\ it.from = "site" /\ it.age = 0
        /\ it.result = check[l].result
    BY <1>0, ConstantsType DEF Item, Stage, Source, Check
  <1>2. Hand(l, it) /\ UNCHANGED <<shape, pc, cache, table>>
        /\ check' = [check EXCEPT ![l] = NoCheck]
        /\ condemned' = [condemned EXCEPT ![l] = @ \/ check[l].result = "dead"]
    BY DEF Return
  <1> HIDE DEF it
  <1>3. /\ condemned' \in [Link -> BOOLEAN]
        /\ \A m \in Link : condemned[m] => condemned'[m]
        /\ check[l].result = "dead" => condemned'[l]
    BY <1>2 DEF Inv, StoreType
  <1>4. ItemOK(l, it, condemned'[l])
    BY <1>0, <1>1, <1>3 DEF ItemOK, Fits
  <1>5. CheckInv'
    BY <1>2, ResetOne DEF Inv
  <1> QED
    BY <1>1, <1>2, <1>3, <1>4, <1>5, HandInv, CondemnedOnly DEF Inv

LEMMA PanicInv == ASSUME Inv, NEW l \in Link, Panic(l) PROVE Inv'
  <1> DEFINE it == [NoItem EXCEPT !.stage = "lost"]
  <1>1. it \in Item /\ it.stage = "lost" /\ it.from = "unknown" /\ it.age = 0
    BY ConstantsType DEF Item, Stage
  <1>2. Hand(l, it) /\ UNCHANGED <<shape, pc, cache, table, condemned>>
        /\ check' = [check EXCEPT ![l] = NoCheck]
    BY DEF Panic
  <1> HIDE DEF it
  <1>3. ItemOK(l, it, condemned'[l])
    BY <1>1 DEF ItemOK
  <1>4. CheckInv'
    BY <1>2, ResetOne DEF Inv
  <1>5. condemned' \in [Link -> BOOLEAN] /\ \A m \in Link : condemned[m] => condemned'[m]
    BY <1>2 DEF Inv, StoreType
  <1> QED
    BY <1>1, <1>2, <1>3, <1>4, <1>5, HandInv, CondemnedOnly DEF Inv

LEMMA ClearInv == ASSUME Inv, ClearRateLimited PROVE Inv'
  <1>1. StoreType' /\ Rows'
    BY DEF ClearRateLimited, Inv, StoreType, Rows
  <1>2. Keys'
    BY DEF ClearRateLimited, Inv, Keys, KeyOK, Fits, TTL
  <1>3. CheckInv'
    BY DEF ClearRateLimited, Inv, CheckInv, CheckTypeOK
  <1> QED
    BY <1>1, <1>2, <1>3, StoreOnly DEF ClearRateLimited, Inv

LEMMA TickInv == ASSUME Inv, Tick PROVE Inv'
  <1>0. UNCHANGED <<shape, check, pc, table, condemned>>
    BY DEF Tick
  <1>1. ASSUME NEW l \in Link
        PROVE  cache'[l] \in Entry /\ KeyOK(l, cache'[l], condemned[l])
    <2>1. /\ cache[l] \in Entry /\ KeyOK(l, cache[l], condemned[l])
          /\ cache'[l] = IF cache[l].left > 1
                         THEN [cache[l] EXCEPT !.left = @ - 1, !.age = Older(@)] ELSE NoEntry
      BY DEF Tick, Inv, StoreType, Keys
    <2>2. CASE cache[l].left > 1
      <3> DEFINE e == [cache[l] EXCEPT !.left = @ - 1, !.age = Older(@)]
      <3>1. cache[l].left \in 0 .. Horizon /\ cache[l].age \in 0 .. Horizon
        BY <2>1 DEF Entry
      <3>2. Older(cache[l].age) \in 0 .. Horizon /\ Older(cache[l].age) <= cache[l].age + 1
        BY <3>1, OlderType
      <3>3. cache[l].left - 1 \in 0 .. Horizon
        BY <2>2, <3>1, TTLAssumption
      <3>4. /\ e \in Entry /\ e.here = cache[l].here /\ e.result = cache[l].result
            /\ e.left = cache[l].left - 1 /\ e.age = Older(cache[l].age)
        BY <2>1, <3>2, <3>3 DEF Entry
      <3> HIDE DEF e
      <3>5. TTL(l, cache[l].result) \in 0 .. Horizon
        BY CheckOf, TTLType DEF Inv
      <3>6. KeyOK(l, e, condemned[l])
        BY <2>1, <3>1, <3>2, <3>4, <3>5, TTLAssumption DEF KeyOK
      <3> QED
        BY <2>1, <2>2, <3>4, <3>6 DEF e
    <2>3. CASE ~ (cache[l].left > 1)
      BY <2>1, <2>3, ConstantsType DEF KeyOK
    <2> QED
      BY <2>2, <2>3
  <1>2. StoreType' /\ Keys' /\ Rows'
    <2>1. cache' \in [Link -> Entry]
      BY <1>1 DEF Tick
    <2>2. Keys'
      BY <1>0, <1>1 DEF Keys, KeyOK, Fits, TTL
    <2> QED
      BY <1>0, <2>1, <2>2 DEF Inv, StoreType, Rows
  <1>3. ASSUME NEW p \in Pass, NEW l \in Link
        PROVE  /\ item'[p][l] \in Item /\ ItemOK(l, item'[p][l], condemned[l])
               /\ item'[p][l].stage = item[p][l].stage
    <2>1. /\ item[p][l] \in Item /\ ItemOK(l, item[p][l], condemned[l])
          /\ item'[p][l] = IF item[p][l].from = "cache"
                           THEN [item[p][l] EXCEPT !.age = Older(@)] ELSE item[p][l]
      BY DEF Tick, Inv, ItemsType, Items
    <2>2. CASE item[p][l].from = "cache"
      <3> DEFINE it == [item[p][l] EXCEPT !.age = Older(@)]
      <3>1. Older(item[p][l].age) \in 0 .. Horizon
        BY <2>1, OlderType DEF Item
      <3>2. /\ it \in Item /\ it.stage = item[p][l].stage /\ it.from = "cache"
            /\ it.result = item[p][l].result
        BY <2>1, <2>2, <3>1 DEF Item
      <3> HIDE DEF it
      <3>3. item'[p][l] = it
        BY <2>1, <2>2 DEF it
      <3> QED
        BY <2>1, <2>2, <3>2, <3>3 DEF ItemOK
    <2> QED
      BY <2>1, <2>2
  <1>4. ItemsType'
    BY <1>3 DEF Tick, ItemsType
  <1>5. Items'
    BY <1>0, <1>3 DEF Items, ItemOK, Fits
  <1>6. Control'
    BY <1>0, <1>3 DEF Inv, Control
  <1> QED
    BY <1>0, <1>2, <1>4, <1>5, <1>6 DEF Inv, CheckInv, CheckTypeOK

LEMMA CrashInv == ASSUME Inv, Crash PROVE Inv'
  <1>1. CheckInv'
    <2>1. check' = [l \in Link |-> IF l \in Link THEN NoCheck ELSE check[l]] /\ UNCHANGED shape
      BY DEF Crash
    <2> QED
      BY <2>1, ResetSound DEF Inv
  <1>2. \A p \in Pass, l \in Link : item'[p][l] = NoItem
    BY DEF Crash
  <1>3. ItemsType' /\ Items' /\ Control'
    BY <1>2, ConstantsType DEF Crash, ItemsType, Items, ItemOK, Control
  <1> QED
    BY <1>1, <1>3, ItemsOnly DEF Crash, Inv

LEMMA NextInv == Inv /\ [Next]_vars => Inv'
  <1> SUFFICES ASSUME Inv, [Next]_vars PROVE Inv'
    OBVIOUS
  <1>1. ASSUME NEW l \in Link, Converse(l) \/ Deadline(l) PROVE Inv'
    <2>1. CheckInv' /\ UNCHANGED shape
      BY <1>1, CheckStepSound, ExpireSound, ShapeStays DEF Converse, Deadline, Inv
    <2> QED
      BY <1>1, <2>1, StoreOnly, ItemsOnly DEF Converse, Deadline, Inv
  <1>2. CASE UNCHANGED vars
    <2>1. CheckInv'
      BY <1>2 DEF vars, Inv, CheckInv, CheckTypeOK
    <2> QED
      BY <1>2, <2>1, StoreOnly, ItemsOnly DEF vars, Inv
  <1> QED
    BY <1>1, <1>2, StartInv, ReadInv, LaunchInv, ReportInv, FinishInv, ReturnInv, PanicInv,
       ClearInv, TickInv, CrashInv
       DEF Next, PassStep

LEMMA SpecInv == Spec => []Inv
  BY InitInv, NextInv, PTL DEF Spec

---------------------------------------------------------------------------
(* The properties. *)

\* Type correctness, of Checkers and LinkCheck together.
THEOREM TypeCorrect == Spec => []TypeOK
  <1>1. Inv => TypeOK
    BY DEF Inv, TypeOK, CheckInv, ItemsType, StoreType, Control
  <1> QED
    BY <1>1, SpecInv, PTL

\* Whichever request of whichever check it cuts off, a deadline makes a link valid
\* on Xunlei and 123 only.  The theorem says what the code does; that UC's comments
\* (uc_checker.go:75, 80) announce the same leniency it does not excuse.
THEOREM NoLateVerdict == Spec => []LateVerdicts
  <1>1. Inv => LateVerdicts
    BY DEF Inv, CheckInv, Sound, LateVerdicts
  <1> QED
    BY <1>1, SpecInv, PTL

\* Through singleflight, cache and table, a link never gets a result that its
\* own checker could not have given.
THEOREM OnlyPossibleResults == Spec => []ResultsPossible
  <1>1. Inv => ResultsPossible
    BY DEF Inv, CheckInv, Sound, Items, ItemOK, Keys, KeyOK, Fits, ResultsPossible
  <1> QED
    BY <1>1, SpecInv, PTL

\* However passes overlap, share, fail and crash, a link counts as dead only
\* after a check has found it so.
THEOREM DeadOnlyIfFound == Spec => []DeadWasFound
  <1>1. Inv => DeadWasFound
    BY DEF Inv, Items, ItemOK, Keys, KeyOK, Rows, Fits, DeadWasFound
  <1> QED
    BY <1>1, SpecInv, PTL

\* No hit, however long a pass holds it, prolongs the life of a cached result.
THEOREM NoHitProlongs == Spec => []HitsDoNotProlong
  <1>1. Inv => HitsDoNotProlong
    BY DEF Inv, Keys, KeyOK, HitsDoNotProlong
  <1> QED
    BY <1>1, SpecInv, PTL

---------------------------------------------------------------------------
(* Who waits for a check. *)

Waits(p, l) == item[p][l].stage = "wait"

\* Only a pass that works waits; somebody waits for every check, and for a check
\* if anybody waits.
WaitInv ==
    /\ \A p \in Pass, l \in Link : Waits(p, l) => pc[p] = "work"
    /\ \A l \in Link : (\E p \in Pass : Waits(p, l)) <=> check[l].step # "idle"

\* Steps that neither let anybody wait nor end a check.
LEMMA NobodyNew ==
    ASSUME Inv, WaitInv, UNCHANGED check, \A p \in Pass, l \in Link : Waits(p, l)' <=> Waits(p, l),
           \A p \in Pass : pc[p] = "work" => pc'[p] = "work" \/ \A l \in Link : ~ Waits(p, l)
    PROVE  WaitInv'
  BY DEF WaitInv

\* One item of a pass changes, or all, from one stage that is none of those to another.
LEMMA OneWaits ==
    ASSUME Inv, NEW p \in Pass, NEW l \in Link, NEW it, Put(p, l, it)
    PROVE  \A q \in Pass, m \in Link :
              Waits(q, m)' <=> IF q = p /\ m = l THEN it.stage = "wait" ELSE Waits(q, m)
  BY DEF Put, Waits, Inv, ItemsType

LEMMA ItsWait ==
    ASSUME Inv, NEW p \in Pass, NEW its \in [Link -> Item], item' = [item EXCEPT ![p] = its]
    PROVE  \A q \in Pass, m \in Link :
              Waits(q, m)' <=> IF q = p THEN its[m].stage = "wait" ELSE Waits(q, m)
  BY DEF Waits, Inv, ItemsType

LEMMA StartWaits == ASSUME Inv, WaitInv, NEW p \in Pass, Start(p) PROVE WaitInv'
  <1>1. PICK S \in SUBSET Link :
          item' = [item EXCEPT ![p] = [l \in Link |-> IF l \in S THEN Todo ELSE NoItem]]
    BY DEF Start
  <1> DEFINE its == [l \in Link |-> IF l \in S THEN Todo ELSE NoItem]
  <1>2. its \in [Link -> Item] /\ \A l \in Link : its[l].stage # "wait"
    BY ConstantsType
  <1>3. item' = [item EXCEPT ![p] = its]
    BY <1>1
  <1> HIDE DEF its
  <1>4. pc[p] = "idle" /\ UNCHANGED check /\ \A q \in Pass : q # p => pc'[q] = pc[q]
    BY DEF Start, GoTo, Inv, Control
  <1>5. \A l \in Link : ~ Waits(p, l)
    BY <1>4 DEF WaitInv
  <1> QED
    BY <1>2, <1>3, <1>4, <1>5, ItsWait, NobodyNew

LEMMA ReadWaits == ASSUME Inv, WaitInv, NEW p \in Pass, ReadCache(p) \/ ReadTable(p) PROVE WaitInv'
  <1>1. /\ pc[p] # "work" /\ UNCHANGED check
        /\ \A q \in Pass : q # p => pc'[q] = pc[q]
    BY DEF ReadCache, ReadTable, GoTo, Inv, Control
  <1>2. \A l \in Link : ~ Waits(p, l)
    BY <1>1 DEF WaitInv
  <1>3. \A l \in Link : \A source, result, age :
          Found(p, l, source, result, age).stage # "wait"
    BY <1>2, ConstantsType DEF Found, Waits, Todo
  <1>4. \A l \in Link : ~ Waits(p, l)'
    BY <1>2, <1>3 DEF ReadCache, ReadTable, Waits, Inv, ItemsType
  <1>5. \A q \in Pass, l \in Link : q # p => (Waits(q, l)' <=> Waits(q, l))
    BY DEF ReadCache, ReadTable, Waits, Inv, ItemsType
  <1> QED
    BY <1>1, <1>2, <1>4, <1>5, NobodyNew

LEMMA LaunchWaits ==
    ASSUME Inv, WaitInv, NEW p \in Pass, NEW l \in Link, Launch(p, l) PROVE WaitInv'
  <1>1. pc[p] = "work" /\ UNCHANGED pc /\ ~ Waits(p, l)
    BY DEF Launch, At2, Waits
  <1>2. CASE Put(p, l, [item[p][l] EXCEPT !.stage = "got"]) /\ UNCHANGED check
    <2> DEFINE it == [item[p][l] EXCEPT !.stage = "got"]
    <2>1. it.stage = "got"
      BY DEF Inv, ItemsType, Item
    <2>2. Put(p, l, it)
      BY <1>2
    <2> HIDE DEF it
    <2> QED
      BY <1>1, <1>2, <2>1, <2>2, OneWaits, NobodyNew
  <1>3. CASE /\ Put(p, l, [Todo EXCEPT !.stage = "wait"])
             /\ (check[l].step # "idle" /\ UNCHANGED check) \/ Begin(l)
    <2> DEFINE it == [Todo EXCEPT !.stage = "wait"]
    <2>1. it.stage = "wait"
      BY DEF Todo, NoItem
    <2>2. Put(p, l, it)
      BY <1>3
    <2> HIDE DEF it
    <2>3. \A q \in Pass, m \in Link : Waits(q, m)' <=> (q = p /\ m = l) \/ Waits(q, m)
      BY <1>1, <2>1, <2>2, OneWaits
    <2>4. Begin(l) => \/ \E step \in Request \cup {"limit"} : Asks(l, step)
                      \/ \E result : Gives(l, result)
      BY DEF Begin
    <2>5. check'[l].step # "idle" /\ \A m \in Link \ {l} : check'[m] = check[m]
      BY <1>3, <2>4, AsksGoesOn DEF Inv, CheckInv
    <2> QED
      BY <1>1, <2>3, <2>5 DEF WaitInv
  <1> QED
    BY <1>2, <1>3 DEF Launch

LEMMA ReportWaits ==
    ASSUME Inv, WaitInv, NEW p \in Pass, NEW l \in Link, Report(p, l) PROVE WaitInv'
  <1> DEFINE it == [NoItem EXCEPT !.stage = "listed", !.result = item[p][l].result]
  <1>1. UNCHANGED <<pc, check>> /\ ~ Waits(p, l) /\ Put(p, l, it)
    BY DEF Report, At2, Waits
  <1>2. it.stage = "listed"
    BY DEF NoItem
  <1> HIDE DEF it
  <1> QED
    BY <1>1, <1>2, OneWaits, NobodyNew

LEMMA FinishWaits == ASSUME Inv, WaitInv, NEW p \in Pass, Finish(p) PROVE WaitInv'
  <1> DEFINE its == [l \in Link |-> NoItem]
  <1>1. UNCHANGED check /\ \A q \in Pass : q # p => pc'[q] = pc[q]
    BY DEF Finish, GoTo, Inv, Control
  <1>2. \A l \in Link : ~ Waits(p, l)
    BY DEF Finish, Through, Waits
  <1>3. its \in [Link -> Item] /\ \A l \in Link : its[l].stage # "wait"
    BY ConstantsType
  <1>4. item' = [item EXCEPT ![p] = its]
    BY DEF Finish
  <1> HIDE DEF its
  <1> QED
    BY <1>1, <1>2, <1>3, <1>4, ItsWait, NobodyNew

\* The end of a check: everybody who waited for it goes on.
LEMMA HandWaits ==
    ASSUME Inv, WaitInv, NEW l \in Link, NEW it, it.stage # "wait", Hand(l, it),
           check' = [check EXCEPT ![l] = NoCheck], UNCHANGED pc
    PROVE  WaitInv'
  <1>1. \A p \in Pass : p \in Waiting(l) <=> Waits(p, l)
    BY DEF Waiting, At2, Waits, WaitInv
  <1>2. \A p \in Pass, m \in Link :
          Waits(p, m)' <=> (m # l /\ Waits(p, m))
    BY <1>1 DEF Hand, Waits, Inv, ItemsType
  <1>3. check'[l].step = "idle" /\ \A m \in Link \ {l} : check'[m] = check[m]
    BY DEF Inv, CheckInv, CheckTypeOK, NoCheck
  <1> QED
    BY <1>2, <1>3 DEF WaitInv

LEMMA EndWaits ==
    ASSUME Inv, WaitInv, NEW l \in Link, Return(l) \/ Panic(l) PROVE WaitInv'
  <1>1. \A result : [NoItem EXCEPT !.stage = "got", !.result = result, !.from = "site"].stage = "got"
    BY DEF NoItem
  <1>2. [NoItem EXCEPT !.stage = "lost"].stage = "lost"
    BY DEF NoItem
  <1> HIDE DEF NoItem
  <1>3. CASE Return(l)
    <2> DEFINE it == [NoItem EXCEPT !.stage = "got", !.result = check[l].result, !.from = "site"]
    <2>1. it.stage # "wait" /\ Hand(l, it)
      BY <1>1, <1>3 DEF Return
    <2> HIDE DEF it
    <2> QED
      BY <1>3, <2>1, HandWaits DEF Return
  <1>4. CASE Panic(l)
    <2> DEFINE it == [NoItem EXCEPT !.stage = "lost"]
    <2>1. it.stage # "wait" /\ Hand(l, it)
      BY <1>2, <1>4 DEF Panic
    <2> HIDE DEF it
    <2> QED
      BY <1>4, <2>1, HandWaits DEF Panic
  <1> QED
    BY <1>3, <1>4

LEMMA TickWaits == ASSUME Inv, WaitInv, Tick PROVE WaitInv'
  <1>1. UNCHANGED <<pc, check>>
    BY DEF Tick
  <1>2. ASSUME NEW p \in Pass, NEW l \in Link
        PROVE  Waits(p, l)' <=> Waits(p, l)
    <2>1. item[p][l] \in Item
      BY DEF Inv, ItemsType
    <2>2. [item[p][l] EXCEPT !.age = Older(item[p][l].age)].stage = item[p][l].stage
      BY <2>1 DEF Item
    <2>3. \/ item'[p][l] = item[p][l]
          \/ item'[p][l] = [item[p][l] EXCEPT !.age = Older(item[p][l].age)]
      BY DEF Tick
    <2> QED
      BY <2>2, <2>3 DEF Waits
  <1> QED
    BY <1>1, <1>2, NobodyNew

LEMMA ConverseWaits ==
    ASSUME Inv, WaitInv, NEW l \in Link, Converse(l) \/ Deadline(l) PROVE WaitInv'
  <1>1. UNCHANGED <<pc, item>>
    BY DEF Converse, Deadline
  <1>2. /\ check[l].step # "idle" /\ check'[l].step # "idle"
        /\ \A m \in Link \ {l} : check'[m] = check[m]
    BY GoesOn DEF Converse, Deadline, Inv, CheckInv
  <1> QED
    BY <1>1, <1>2 DEF WaitInv, Waits

LEMMA NextWaits == ASSUME Inv, WaitInv, [Next]_vars PROVE WaitInv'
  <1>1. CASE UNCHANGED vars \/ ClearRateLimited
    BY <1>1, NobodyNew DEF vars, ClearRateLimited, Waits
  <1>2. CASE Crash
    <2>1. \A p \in Pass, l \in Link : item'[p][l].stage = "none" /\ check'[l].step = "idle"
      BY <1>2 DEF Crash, NoItem, NoCheck
    <2> QED
      BY <2>1, <1>2 DEF WaitInv, Waits, Crash, NoCheck
  <1> QED
    BY <1>1, <1>2, StartWaits, ReadWaits, LaunchWaits, ReportWaits, FinishWaits, EndWaits,
       TickWaits, ConverseWaits DEF Next, PassStep

LEMMA SpecWaits == Spec => []WaitInv
  <1>1. Init => WaitInv
    BY DEF Init, WaitInv, Waits, CheckInit, NoItem, NoCheck
  <1> QED
    BY <1>1, NextWaits, SpecInv, PTL DEF Spec

\* Somebody waits for every check that goes on, and a check goes on for everybody
\* who waits: singleflight brings its result, or its panic, to all of them
\* (checker_service.go:603-640).
THEOREM AwaitedAreChecked == Spec => []AwaitedIsChecked
  <1>1. WaitInv => AwaitedIsChecked
    BY DEF WaitInv, Waits, AwaitedIsChecked, Waiting, At2
  <1> QED
    BY <1>1, SpecWaits, PTL

\* So the semaphore of a pass is never held by goroutines that cannot go on: of
\* a pass that works, either all links are through, or a goroutine can begin,
\* or one has a result to report, or one waits for a check that goes on.
CanGoOn(p) ==
    \/ Through(p)
    \/ \E l \in Link :
          \/ At2(p, l, "todo") /\ Cardinality(Running(p)) < Concurrency
          \/ At2(p, l, "got")
          \/ At2(p, l, "wait") /\ check[l].step # "idle"

\* ... whatever the number of links and slots.
THEOREM PassesCanGoOn == Spec => [](\A p \in Pass : pc[p] = "work" => CanGoOn(p))
  <1>1. ASSUME Inv, WaitInv, NEW p \in Pass, pc[p] = "work"
        PROVE  CanGoOn(p)
    <2>1. CASE Running(p) = {}
      <3>1. Cardinality(Running(p)) = 0
        BY <2>1, FS_EmptySet
      <3>2. ASSUME NEW l \in Link
            PROVE  item[p][l].stage \in {"none", "todo", "listed", "lost"}
        <4>1. item[p][l] \in Item /\ item[p][l].stage \notin {"wait", "got"}
          BY <1>1, <2>1 DEF Running, Inv, ItemsType
        <4> QED
          BY <4>1 DEF Item, Stage
      <3>3. Cardinality(Running(p)) < Concurrency
        BY <3>1, PassAssumption
      <3> QED
        BY <1>1, <3>2, <3>3 DEF CanGoOn, Through, At2
    <2>2. CASE Running(p) # {}
      BY <1>1, <2>2 DEF Running, CanGoOn, At2, WaitInv, Waits
    <2> QED
      BY <2>1, <2>2
  <1>2. Inv /\ WaitInv => \A p \in Pass : pc[p] = "work" => CanGoOn(p)
    BY <1>1
  <1> QED
    BY <1>2, SpecInv, SpecWaits, PTL

---------------------------------------------------------------------------
(* The refinement. *)

\* The state functions Detection's variables stand for.
PossibleOf == [l \in Link |-> {VerdictOf(r) : r \in Possible(shape[l])}]
Answers == [p \in Pass |-> [l \in Link |-> AnswerOf(item[p][l])]]

LEMMA InitPasses == Init => Passes!Init
  <1> SUFFICES ASSUME Init PROVE Passes!Init
    OBVIOUS
  <1>1. \A l \in Link : shape[l] \in Shape
    BY ShapesAssumption DEF Init, CheckInit
  <1>2. \A r \in Result : VerdictOf(r) \in {"valid", "locked", "dead", "limited"}
    BY DEF Result, VerdictOf
  <1>3. PossibleOf \in [Link -> SUBSET {"valid", "locked", "dead", "limited"}]
    BY <1>1, <1>2, PossibleType DEF PossibleOf
  <1>4. \A p \in Pass, l \in Link : AnswerOf(item[p][l]) = "none"
    BY ConstantsType DEF Init, AnswerOf
  <1> QED
    BY <1>3, <1>4 DEF Passes!Init, Passes!Verdict, PossibleOf, Init

\* Steps that change no shape, no stage but among those that are asked for, and
\* no row.
LEMMA Stutters ==
    ASSUME UNCHANGED <<shape, table>>,
           \A p \in Pass, l \in Link : AnswerOf(item'[p][l]) = AnswerOf(item[p][l])
    PROVE  UNCHANGED <<PossibleOf, Answers, table>>
  BY DEF PossibleOf, Answers

LEMMA AnswerValues ==
    ASSUME NEW it \in Item
    PROVE  /\ it.stage \in {"todo", "wait", "got"} <=> AnswerOf(it) = "asked"
           /\ it.stage = "listed" => AnswerOf(it) = VerdictOf(it.result)
           /\ it.stage \in {"none", "lost"} => AnswerOf(it) = it.stage
           /\ it.stage = "none" <=> AnswerOf(it) = "none"
           /\ AnswerOf(it) \in {"dead", "limited"} <=>
                 it.stage = "listed" /\ it.result \in {"dead", "limited"}
  BY DEF AnswerOf, VerdictOf, Item, Stage, Result

LEMMA StartTakes == ASSUME Inv, NEW p \in Pass, Start(p) PROVE Passes!Take(p)
  <1>1. PICK S \in SUBSET Link :
          item' = [item EXCEPT ![p] = [l \in Link |-> IF l \in S THEN Todo ELSE NoItem]]
    BY DEF Start
  <1>2. \A q \in Pass, l \in Link : item'[q][l] =
          IF q = p THEN (IF l \in S THEN Todo ELSE NoItem) ELSE item[q][l]
    BY <1>1 DEF Inv, ItemsType
  <1>3. AnswerOf(Todo) = "asked" /\ AnswerOf(NoItem) = "none"
    BY ConstantsType, AnswerValues
  <1>4. \A l \in Link : AnswerOf(item[p][l]) = "none"
    BY AnswerValues DEF Inv, Control, ItemsType, Start
  <1>5. Answers' = [Answers EXCEPT ![p] = [l \in Link |-> IF l \in S THEN "asked" ELSE "none"]]
    BY <1>2, <1>3 DEF Answers
  <1>6. UNCHANGED <<PossibleOf, table>>
    BY DEF Start, PossibleOf
  <1> QED
    BY <1>4, <1>5, <1>6 DEF Passes!Take, Passes!Idle, Answers, PossibleOf

LEMMA ReadStutters ==
    ASSUME Inv, NEW p \in Pass, ReadCache(p) \/ ReadTable(p)
    PROVE  UNCHANGED <<PossibleOf, Answers, table>>
  <1>1. ASSUME NEW l \in Link, NEW source, NEW result, NEW age
        PROVE  AnswerOf(Found(p, l, source, result, age)) = AnswerOf(item[p][l])
    BY ConstantsType DEF Found, AnswerOf, Todo
  <1>2. \A l \in Link : AnswerOf(item'[p][l]) = AnswerOf(item[p][l])
    BY <1>1 DEF ReadCache, ReadTable, Inv, ItemsType
  <1>3. \A q \in Pass : q # p => item'[q] = item[q]
    BY DEF ReadCache, ReadTable, Inv, ItemsType
  <1> QED
    BY <1>2, <1>3, Stutters DEF ReadCache, ReadTable

LEMMA PutAnswer ==
    ASSUME Inv, NEW p \in Pass, NEW l \in Link, NEW it, Put(p, l, it)
    PROVE  \A q \in Pass, m \in Link :
             item'[q][m] = IF q = p /\ m = l THEN it ELSE item[q][m]
  BY DEF Put, Inv, ItemsType

LEMMA LaunchStutters ==
    ASSUME Inv, NEW p \in Pass, NEW l \in Link, Launch(p, l)
    PROVE  UNCHANGED <<PossibleOf, Answers, table>>
  <1>1. UNCHANGED <<shape, table>> /\ item[p][l].stage = "todo" /\ item[p][l] \in Item
    BY DEF Launch, At2, Begin, Asks, Gives, Inv, ItemsType
  <1>2. PICK it : Put(p, l, it) /\ it.stage \in {"got", "wait"}
    <2>1. \/ Put(p, l, [item[p][l] EXCEPT !.stage = "got"])
          \/ Put(p, l, [Todo EXCEPT !.stage = "wait"])
      BY DEF Launch
    <2>2. [item[p][l] EXCEPT !.stage = "got"].stage = "got"
      BY <1>1 DEF Item
    <2>3. [Todo EXCEPT !.stage = "wait"].stage = "wait"
      BY ConstantsType
    <2> QED
      BY <2>1, <2>2, <2>3
  <1>3. AnswerOf(it) = "asked" /\ AnswerOf(item[p][l]) = "asked"
    BY <1>1, <1>2 DEF AnswerOf
  <1> QED
    BY <1>1, <1>2, <1>3, PutAnswer, Stutters

LEMMA ReportSettles ==
    ASSUME Inv, NEW p \in Pass, NEW l \in Link, Report(p, l)
    PROVE  Passes!Settle(p, l)
  <1> DEFINE it == [NoItem EXCEPT !.stage = "listed", !.result = item[p][l].result]
  <1>1. item[p][l] \in Item /\ item[p][l].stage = "got" /\ item[p][l].result \in Possible(shape[l])
    BY DEF Report, At2, Inv, ItemsType, Items, ItemOK, Fits
  <1>2. it.stage = "listed" /\ it.result = item[p][l].result /\ Put(p, l, it)
    BY ConstantsType DEF Item, Report
  <1> HIDE DEF it
  <1>3. AnswerOf(it) = VerdictOf(item[p][l].result) /\ AnswerOf(item[p][l]) = "asked"
    BY <1>1, <1>2 DEF AnswerOf
  <1>4. Answers' = [Answers EXCEPT ![p][l] = VerdictOf(item[p][l].result)]
    <2>1. \A q \in Pass, m \in Link : AnswerOf(item'[q][m]) =
            IF q = p /\ m = l THEN VerdictOf(item[p][l].result) ELSE AnswerOf(item[q][m])
      BY <1>2, <1>3, PutAnswer
    <2> QED
      BY <2>1 DEF Answers
  <1>5. UNCHANGED <<PossibleOf, table>>
    BY DEF Report, PossibleOf
  <1>6. VerdictOf(item[p][l].result) \in PossibleOf[l]
    BY <1>1 DEF PossibleOf
  <1> QED
    BY <1>3, <1>4, <1>5, <1>6 DEF Passes!Settle, Answers, PossibleOf

LEMMA FinishEnds == ASSUME Inv, NEW p \in Pass, Finish(p) PROVE Passes!End(p)
  <1>1. \A l \in Link : item[p][l] \in Item
    BY DEF Inv, ItemsType
  <1>2. \A l \in Link : AnswerOf(item[p][l]) # "asked"
    BY <1>1, AnswerValues DEF Finish, Through
  <1>3. Answers' = [Answers EXCEPT ![p] = [l \in Link |-> "none"]]
    <2>1. \A q \in Pass, l \in Link : item'[q][l] = IF q = p THEN NoItem ELSE item[q][l]
      BY DEF Finish, Inv, ItemsType
    <2>2. AnswerOf(NoItem) = "none"
      BY ConstantsType, AnswerValues
    <2> QED
      BY <2>1, <2>2 DEF Answers
  <1>4. \A l \in Link :
          /\ l \in Invalid(p) <=> AnswerOf(item[p][l]) \in {"dead", "limited"}
          /\ l \in Invalid(p) => AnswerOf(item[p][l]) = item[p][l].result
    BY <1>1, AnswerValues DEF Invalid, VerdictOf
  <1>5. \/ table' = [l \in Link |-> IF Answers[p][l] \in {"dead", "limited"}
                                   THEN Answers[p][l] ELSE table[l]]
        \/ UNCHANGED table
    BY <1>4 DEF Finish, Answers
  <1>6. UNCHANGED PossibleOf
    BY DEF Finish, PossibleOf
  <1> QED
    BY <1>2, <1>3, <1>5, <1>6 DEF Passes!End, Answers, PossibleOf

LEMMA ReturnStutters ==
    ASSUME Inv, NEW l \in Link, Return(l)
    PROVE  UNCHANGED <<PossibleOf, Answers, table>>
  <1> DEFINE it == [NoItem EXCEPT !.stage = "got", !.result = check[l].result, !.from = "site"]
  <1>1. AnswerOf(it) = "asked"
    BY ConstantsType DEF AnswerOf, NoItem
  <1>2. Hand(l, it) /\ UNCHANGED <<shape, table>>
    BY DEF Return
  <1> HIDE DEF it
  <1>3. \A p \in Waiting(l) : AnswerOf(item[p][l]) = "asked"
    BY DEF Waiting, At2, AnswerOf
  <1> QED
    BY <1>1, <1>2, <1>3, Stutters DEF Hand, Inv, ItemsType

LEMMA PanicLoses == ASSUME Inv, NEW l \in Link, Panic(l) PROVE Passes!Lose(l)
  <1> DEFINE it == [NoItem EXCEPT !.stage = "lost"]
             P == Waiting(l)
  <1>1. AnswerOf(it) = "lost"
    BY ConstantsType DEF AnswerOf, NoItem
  <1>2. Hand(l, it) /\ UNCHANGED <<shape, table>>
    BY DEF Panic
  <1> HIDE DEF it
  <1>3. P \in SUBSET {p \in Pass : Answers[p][l] = "asked"}
    BY DEF Waiting, At2, AnswerOf, Answers
  <1>4. \A p \in Pass, m \in Link : item'[p][m] = IF p \in P /\ m = l THEN it ELSE item[p][m]
    BY <1>2 DEF Hand, Inv, ItemsType
  <1>5. Answers' = [p \in Pass |-> IF p \in P THEN [Answers[p] EXCEPT ![l] = "lost"]
                                              ELSE Answers[p]]
    BY <1>1, <1>4 DEF Answers
  <1>6. UNCHANGED <<PossibleOf, table>>
    BY <1>2 DEF PossibleOf
  <1> HIDE DEF P
  <1> QED
    BY <1>3, <1>5, <1>6 DEF Passes!Lose, Answers, PossibleOf

LEMMA TickStutters == ASSUME Inv, Tick PROVE UNCHANGED <<PossibleOf, Answers, table>>
  <1>1. \A p \in Pass, l \in Link : /\ item'[p][l].stage = item[p][l].stage
                                   /\ item'[p][l].result = item[p][l].result
    <2> SUFFICES ASSUME NEW p \in Pass, NEW l \in Link
                 PROVE  /\ item'[p][l].stage = item[p][l].stage
                        /\ item'[p][l].result = item[p][l].result
      OBVIOUS
    <2>1. /\ item[p][l] \in Item
          /\ item'[p][l] = IF item[p][l].from = "cache"
                           THEN [item[p][l] EXCEPT !.age = Older(@)] ELSE item[p][l]
      BY DEF Tick, Inv, ItemsType
    <2> QED
      BY <2>1 DEF Item
  <1> QED
    BY <1>1, Stutters DEF Tick, AnswerOf

LEMMA CrashCrashes == ASSUME Crash PROVE Passes!Crash
  <1>1. \A p \in Pass, l \in Link : AnswerOf(item'[p][l]) = "none"
    BY ConstantsType, AnswerValues DEF Crash
  <1> QED
    BY <1>1 DEF Crash, Passes!Crash

LEMMA NextPasses ==
    Inv /\ [Next]_vars => [Passes!Next]_<<PossibleOf, Answers, table>>
  <1> SUFFICES ASSUME Inv, [Next]_vars,
                      ~ UNCHANGED <<PossibleOf, Answers, table>>
               PROVE  Passes!Next
    OBVIOUS
  <1>1. ASSUME NEW p \in Pass, Start(p) \/ PassStep(p) PROVE Passes!Next
    BY <1>1, StartTakes, ReadStutters, LaunchStutters, ReportSettles, FinishEnds
       DEF PassStep, Passes!Next
  <1>2. ASSUME NEW l \in Link, Converse(l) \/ Deadline(l) PROVE FALSE
    <2>1. UNCHANGED <<shape, item, table>>
      BY <1>2, ShapeStays DEF Converse, Deadline
    <2> QED
      BY <2>1, Stutters
  <1>3. ASSUME NEW l \in Link, Return(l) \/ Panic(l) PROVE Passes!Next
    BY <1>3, ReturnStutters, PanicLoses DEF Passes!Next
  <1>4. CASE ClearRateLimited
    BY <1>4 DEF ClearRateLimited, Passes!Next, Passes!Clear
  <1>5. CASE Tick
    BY <1>5, TickStutters
  <1>6. CASE Crash
    BY <1>6, CrashCrashes DEF Passes!Next
  <1>7. CASE UNCHANGED vars
    BY <1>7, Stutters DEF vars
  <1> QED
    BY <1>1, <1>2, <1>3, <1>4, <1>5, <1>6, <1>7 DEF Next

\* Passes over links of a platform do what Detection promises: one verdict a
\* link's platform can give for every link, or its loss, and then the end, which
\* stores those that are invalid and no others.
THEOREM DetectionImplemented == Spec => ImplementsDetection
  <1>1. Init => Passes!Init
    BY InitPasses
  <1>2. Inv /\ [Next]_vars =>
          [Passes!Next]_<<PossibleOf, Answers, table>>
    BY NextPasses
  <1> QED
    BY <1>1, <1>2, SpecInv, PTL
       DEF Spec, ImplementsDetection, Passes!Spec, PossibleOf, Answers
===============================================================================
