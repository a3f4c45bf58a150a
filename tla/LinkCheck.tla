------------------------------- MODULE LinkCheck ------------------------------
(***************************************************************************)
(* The detection passes over the links of one platform                     *)
(* (checkLinksWithConcurrency): what a pass finds in the Redis cache and   *)
(* in invalid_links, read once for all its links before any is checked;    *)
(* the goroutines, at most Concurrency of a pass at a time; the checks     *)
(* they share through singleflight; the result they put into the cache;    *)
(* and the invalid links stored after the last of them.                    *)
(*                                                                         *)
(* The checks are those of Checkers.  That the submission of a pass is     *)
(* claimed before and saved after is in Submission; here the end of a pass *)
(* is its BatchUpsert.  The cache and the table outlive the process.       *)
(***************************************************************************)
EXTENDS Checkers, FiniteSets

CONSTANTS
    Pass,               \* bound: detection passes at a time
    Concurrency,        \* goroutines of a pass
    CacheEnabled,       \* the server connected to Redis when it started
    PlatformTTL,        \* platformTTLMap, in ticks; 0: not configured
    InvalidTTL,         \* 0: not configured
    DefaultTTL,         \* for valid results, 24 hours
    DefaultInvalidTTL,  \* for the others, 168 hours
    Horizon             \* the longest age that is told apart

VARIABLES
    pc,         \* where each pass is
    item,       \* each link of each pass
    cache,      \* the keys link:check:... of Redis
    table,      \* invalid_links: none, dead, limited (is_rate_limited)
    condemned   \* history: a check has found the link dead

vars == <<shape, check, pc, item, cache, table, condemned>>

ASSUME PassAssumption == Concurrency \in Nat \ {0} /\ CacheEnabled \in BOOLEAN
ASSUME TTLAssumption ==
    /\ PlatformTTL \in [Platform -> Nat] /\ InvalidTTL \in Nat
    /\ DefaultTTL \in Nat \ {0} /\ DefaultInvalidTTL \in Nat \ {0} /\ Horizon \in Nat
    /\ DefaultTTL <= Horizon /\ DefaultInvalidTTL <= Horizon /\ InvalidTTL <= Horizon
    /\ \A f \in Platform : PlatformTTL[f] <= Horizon

\* A link of a pass: not in the list, to do, waiting for a check, with a result,
\* in a list of the pass, lost in a panic.
Stage == {"none", "todo", "wait", "got", "listed", "lost"}
\* from: what gave the result; age: since the cached copy of it was written.
Source == {"unknown", "cache", "table", "site"}
Item == [stage : Stage, result : Result, from : Source, age : 0 .. Horizon]
NoItem == [stage |-> "none", result |-> "dead", from |-> "unknown", age |-> 0]
Todo == [NoItem EXCEPT !.stage = "todo"]

\* A cache entry: how long Redis keeps it, how long it has been there.
Entry == [here : BOOLEAN, result : Result, left : 0 .. Horizon, age : 0 .. Horizon]
NoEntry == [here |-> FALSE, result |-> "dead", left |-> 0, age |-> 0]

TypeOK ==
    /\ CheckTypeOK
    /\ pc \in [Pass -> {"idle", "cache", "table", "work"}]
    /\ item \in [Pass -> [Link -> Item]]
    /\ cache \in [Link -> Entry]
    /\ table \in [Link -> {"none", "dead", "limited"}]
    /\ condemned \in [Link -> BOOLEAN]

Init ==
    /\ CheckInit
    /\ pc = [p \in Pass |-> "idle"]
    /\ item = [p \in Pass |-> [l \in Link |-> NoItem]]
    /\ cache = [l \in Link |-> NoEntry]
    /\ table = [l \in Link |-> "none"]
    /\ condemned = [l \in Link |-> FALSE]

GoTo(p, place) == pc' = [pc EXCEPT ![p] = place]
At2(p, l, stage) == pc[p] = "work" /\ item[p][l].stage = stage
Put(p, l, it) == item' = [item EXCEPT ![p][l] = it]

(***************************************************************************)
(* Before the goroutines.                                                  *)
(***************************************************************************)

\* A pass is started for the links of a submission that are of one platform.
Start(p) ==
    /\ pc[p] = "idle"
    /\ \E S \in SUBSET Link :
          /\ S # {}
          /\ \A l, m \in S : shape[l].platform = shape[m].platform
          /\ item' = [item EXCEPT ![p] = [l \in Link |-> IF l \in S THEN Todo ELSE NoItem]]
    /\ GoTo(p, "cache")
    /\ UNCHANGED <<shape, check, cache, table, condemned>>

Found(p, l, source, result, age) ==
    IF item[p][l].stage = "todo" /\ item[p][l].from = "unknown"
    THEN [Todo EXCEPT !.result = result, !.from = source, !.age = age]
    ELSE item[p][l]

\* MGet, of all links at once; an entry that cannot be decoded is no hit.
\* Without a cache, or when the call fails, there are none.
ReadCache(p) ==
    /\ pc[p] = "cache"
    /\ \/ /\ CacheEnabled
          /\ \E decoded \in SUBSET {l \in Link : cache[l].here} :
                item' = [item EXCEPT ![p] = [l \in Link |->
                    IF l \in decoded THEN Found(p, l, "cache", cache[l].result, cache[l].age)
                                     ELSE item[p][l]]]
       \/ UNCHANGED item
    /\ GoTo(p, "table")
    /\ UNCHANGED <<shape, check, cache, table, condemned>>

\* Mutant of KnownDead: every row counts.
KnownDeadAny(l) == table[l] # "none"

\* FindByLinksNonRateLimited: a row made by a rate limit says nothing.
KnownDead(l) == table[l] = "dead"

\* Of the links that were not hits.  It may fail.
ReadTable(p) ==
    /\ pc[p] = "table"
    /\ \/ item' = [item EXCEPT ![p] = [l \in Link |->
                IF KnownDead(l) THEN Found(p, l, "table", "dead", 0) ELSE item[p][l]]]
       \/ UNCHANGED item
    /\ GoTo(p, "work")
    /\ UNCHANGED <<shape, check, cache, table, condemned>>

(***************************************************************************)
(* The goroutines.                                                         *)
(***************************************************************************)
Running(p) == {l \in Link : item[p][l].stage \in {"wait", "got"}}

\* A goroutine with a result at hand goes on with it; the others join the
\* check of the link that is going on or begin one.
Launch(p, l) ==
    /\ At2(p, l, "todo")
    /\ Cardinality(Running(p)) < Concurrency
    /\ \/ /\ item[p][l].from # "unknown"
          /\ Put(p, l, [item[p][l] EXCEPT !.stage = "got"])
          /\ UNCHANGED <<shape, check>>
       \/ /\ item[p][l].from = "unknown"
          /\ Put(p, l, [Todo EXCEPT !.stage = "wait"])
          /\ \/ check[l].step # "idle" /\ UNCHANGED <<shape, check>>
             \/ Begin(l)
    /\ UNCHANGED <<pc, cache, table, condemned>>

Waiting(l) == {p \in Pass : At2(p, l, "wait")}

\* Mutant of Hand: only one of those that wait gets the result.
HandOne(l, it) ==
    LET first == CHOOSE p \in Waiting(l) : TRUE
    IN  item' = [item EXCEPT ![first][l] = it]

\* The items of link l of the passes that wait for it become `it`.
Hand(l, it) ==
    item' = [p \in Pass |-> IF p \in Waiting(l) THEN [item[p] EXCEPT ![l] = it] ELSE item[p]]

\* Check has returned: everybody who waits gets the one result.
Return(l) ==
    /\ check[l].step = "done"
    /\ Hand(l, [NoItem EXCEPT !.stage = "got", !.result = check[l].result, !.from = "site"])
    /\ check' = [check EXCEPT ![l] = NoCheck]
    /\ condemned' = [condemned EXCEPT ![l] = @ \/ check[l].result = "dead"]
    /\ UNCHANGED <<shape, pc, cache, table>>

\* Check has panicked: singleflight panics in everybody who waits; each
\* recovers, without a result.
Panic(l) ==
    /\ check[l].step \notin {"idle", "done"}
    /\ Hand(l, [NoItem EXCEPT !.stage = "lost"])
    /\ check' = [check EXCEPT ![l] = NoCheck]
    /\ UNCHANGED <<shape, pc, cache, table, condemned>>

\* How long a result is kept.
TTL(l, result) ==
    CASE CountsValid(result) ->
            IF PlatformTTL[shape[l].platform] > 0 THEN PlatformTTL[shape[l].platform]
                                                  ELSE DefaultTTL
      [] OTHER -> IF InvalidTTL > 0 THEN InvalidTTL ELSE DefaultInvalidTTL

\* Mutant of Stores: a hit is written back.
StoresAlways(it) == CacheEnabled

\* What came from the cache is not put there again.
Stores(it) == CacheEnabled /\ it.from # "cache"

\* Set the result in the cache, unless that fails, and list the link.
Report(p, l) ==
    /\ At2(p, l, "got")
    /\ \/ /\ Stores(item[p][l])
          /\ cache' = [cache EXCEPT ![l] =
                [here |-> TRUE, result |-> item[p][l].result,
                 left |-> TTL(l, item[p][l].result), age |-> item[p][l].age]]
       \/ UNCHANGED cache
    /\ Put(p, l, [NoItem EXCEPT !.stage = "listed", !.result = item[p][l].result])
    /\ UNCHANGED <<shape, check, pc, table, condemned>>

(***************************************************************************)
(* The end of a pass, and the others.                                      *)
(***************************************************************************)

\* Mutant of Invalid: Baidu's protected links, which do not count as valid,
\* are among them.
InvalidClosed(p) ==
    {l \in Link : item[p][l].stage = "listed" /\ ~ CountsValid(item[p][l].result)}

\* The invalid links of a pass: not the protected ones, valid or not.
Invalid(p) ==
    {l \in Link : item[p][l].stage = "listed" /\ item[p][l].result \in {"dead", "limited"}}

\* Mutant of Through: a goroutine that panicked is not counted as done.
ThroughListed(p) == \A l \in Link : item[p][l].stage \in {"none", "listed"}

Through(p) == \A l \in Link : item[p][l].stage \in {"none", "listed", "lost"}

\* wg.Wait is over: store the invalid links, which may fail.
Finish(p) ==
    /\ pc[p] = "work" /\ Through(p)
    /\ \/ table' = [l \in Link |-> IF l \in Invalid(p) THEN item[p][l].result ELSE table[l]]
       \/ UNCHANGED table
    /\ item' = [item EXCEPT ![p] = [l \in Link |-> NoItem]]
    /\ GoTo(p, "idle")
    /\ UNCHANGED <<shape, check, cache, condemned>>

\* DELETE /links/rate-limited; the cache is left as it is.
ClearRateLimited ==
    /\ table' = [l \in Link |-> IF table[l] = "limited" THEN "none" ELSE table[l]]
    /\ UNCHANGED <<shape, check, pc, item, cache, condemned>>

Older(age) == IF age < Horizon THEN age + 1 ELSE Horizon

\* An hour: cached results grow older, in Redis and in the hands of a pass.
Tick ==
    /\ cache' = [l \in Link |->
          IF cache[l].left > 1
          THEN [cache[l] EXCEPT !.left = @ - 1, !.age = Older(@)] ELSE NoEntry]
    /\ item' = [p \in Pass |-> [l \in Link |->
          IF item[p][l].from = "cache" THEN [item[p][l] EXCEPT !.age = Older(@)]
                                       ELSE item[p][l]]]
    /\ UNCHANGED <<shape, check, pc, table, condemned>>

\* The server stops and starts again.
Crash ==
    /\ pc' = [p \in Pass |-> "idle"]
    /\ item' = [p \in Pass |-> [l \in Link |-> NoItem]]
    /\ check' = [l \in Link |-> NoCheck]
    /\ UNCHANGED <<shape, cache, table, condemned>>

PassStep(p) ==
    ReadCache(p) \/ ReadTable(p) \/ Finish(p) \/ \E l \in Link : Launch(p, l) \/ Report(p, l)

\* The steps of the checks, apart from those of Return and Begin.
Converse(l) == CheckStep(l) /\ UNCHANGED <<pc, item, cache, table, condemned>>
Deadline(l) == Expire(l) /\ UNCHANGED <<pc, item, cache, table, condemned>>

Next ==
    \/ \E p \in Pass : Start(p) \/ PassStep(p)
    \/ \E l \in Link : Converse(l) \/ Deadline(l) \/ Return(l) \/ Panic(l)
    \/ ClearRateLimited \/ Tick \/ Crash

Spec == Init /\ [][Next]_vars

\* Goroutines are scheduled, requests end (by the deadline or the client's own
\* 30 seconds), and a check gets past the rate limit.
FairSpec ==
    /\ Spec
    /\ \A p \in Pass : WF_vars(PassStep(p))
    /\ \A l \in Link : WF_vars(Converse(l)) /\ WF_vars(Return(l))

(***************************************************************************)
(* Properties.                                                             *)
(***************************************************************************)

\* A deadline that passes, in whatever request of the conversation, makes a link
\* valid on two platforms only: Xunlei looks at the context itself, and 123
\* forgives every error.  UC's comments say it means to as well (a timeout and
\* a connection error "count as valid"), but its tests look for errors that Do
\* does not return; the other platforms mean a late link to be invalid.
LateVerdicts ==
    \A l \in Link :
        check[l].step = "done" /\ check[l].late /\ CountsValid(check[l].result)
            => shape[l].platform \in {"xunlei", "pan123"}

\* What passes hold, list and cache of a link is a result its checker can give:
\* a malformed link is never anything but dead, and a link that brought its
\* passcode is not reported as protected by Quark, Baidu and Tianyi, also when
\* the result is another pass's, or comes from the cache or invalid_links.
ResultsPossible ==
    \A l \in Link :
        /\ check[l].step = "done" => check[l].result \in Possible(shape[l])
        /\ cache[l].here => cache[l].result \in Possible(shape[l])
        /\ \A p \in Pass : item[p][l].stage \in {"got", "listed"}
                              => item[p][l].result \in Possible(shape[l])

\* Nothing makes a link dead but a check that has found it so: neither a rate
\* limited result, which passes share, cache and store as well, nor a row that
\* was made by one.  (A dead row is never checked again.)
DeadWasFound ==
    \A l \in Link :
        (\/ table[l] = "dead"
         \/ cache[l].here /\ cache[l].result = "dead"
         \/ \E p \in Pass : /\ item[p][l].from \in {"cache", "table"}
                                  \/ item[p][l].stage = "listed"
                            /\ item[p][l].result = "dead")
            => condemned[l]

\* A result is never older in the cache than its time to live: passes that hit
\* it, and hold it while it expires or others replace it, do not prolong it.
HitsDoNotProlong ==
    \A l \in Link : cache[l].here => cache[l].age + cache[l].left <= TTL(l, cache[l].result)

\* A check is going on exactly while somebody waits for it: no goroutine waits for
\* a result nobody will bring, which would keep its slot and its pass for good,
\* and no check goes on that a pass has ended without, however the passes meet in
\* singleflight.
AwaitedIsChecked ==
    \A l \in Link : Waiting(l) # {} <=> check[l].step # "idle"

\* A pass ends, whatever sites, cache and database do, and although links of
\* it are lost in panics.
PassEnds == \A p \in Pass : pc[p] # "idle" ~> pc[p] = "idle"

(***************************************************************************)
(* Refinement.                                                             *)
(***************************************************************************)
VerdictOf(result) == IF result = "closed" THEN "locked" ELSE result

AnswerOf(it) ==
    CASE it.stage = "listed" -> VerdictOf(it.result)
      [] it.stage \in {"todo", "wait", "got"} -> "asked"
      [] OTHER -> it.stage

Passes == INSTANCE Detection
              WITH possible <- [l \in Link |-> {VerdictOf(r) : r \in Possible(shape[l])}],
                   answer <- [p \in Pass |-> [l \in Link |-> AnswerOf(item[p][l])]]

\* The lists of a pass are what Submission takes a detection to be.
ImplementsDetection == Passes!Spec

===============================================================================
