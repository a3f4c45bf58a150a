------------------------------ MODULE Submission ------------------------------
(***************************************************************************)
(* The life of a row of submission_records: the request (POST              *)
(* /links/check or the run of a scheduled task) that creates it, the two   *)
(* detection passes that may claim it (CheckRealtime,                      *)
(* CheckRealtimeWithPlatformFilter), the background checker that scans for *)
(* pending rows, and the administrator's                                   *)
(* DELETE /links/rate-limited.                                             *)
(*                                                                         *)
(* Every process runs against the database alone, so a step of the model   *)
(* is one database call together with the local computation around it.     *)
(* The detection of a set of links is one step whose outcome is any        *)
(* verdict per link: what produces the verdict (cache, invalid_links,      *)
(* the platform's site) and a platform switched off, whose links are       *)
(* reported valid, are below this level.                                   *)
(*                                                                         *)
(* Links are the normalised links; an unrecognised one has a platform      *)
(* outside Platform.  The selections of a request are subsets of Platform; *)
(* Platform itself is "all platforms selected".                            *)
(***************************************************************************)
EXTENDS Integers, FiniteSets

CONSTANTS
    Sub,            \* ids of submission_records rows
    Link,           \* links clients submit
    Platform,       \* platforms the validator recognises
    PlatformOf,     \* the platform of each link
    Request,        \* requests that may arrive: [task, sel]
    Verdict,        \* outcomes of checking a link that may occur
    Goroutines,     \* bound: background goroutines alive per submission
    BatchLimit,     \* rows one background scan reads (10 in main.go)
    FaultOps,       \* operations that may fail
    MaxFaults       \* bound: faults in a behaviour

Operation == {"lookup", "create", "claim", "get", "save", "upsert", "list",
              "settle", "panic", "crash"}

ASSUME RequestAssumption == Request \subseteq [task : BOOLEAN, sel : SUBSET Platform]
ASSUME VerdictAssumption == Verdict \subseteq {"valid", "locked", "dead", "limited"}
ASSUME BoundAssumption == /\ Goroutines \in Nat
                          /\ BatchLimit \in Nat \ {0}
                          /\ MaxFaults \in Nat
                          /\ FaultOps \subseteq Operation

VARIABLES
    rec,            \* the table submission_records
    invalidLink,    \* the table invalid_links: none, limited (is_rate_limited), dead
    pc,             \* where each worker is
    job,            \* the arguments each worker runs with
    found,          \* the lists a detection has collected
    copy,           \* the row a recovering worker has read
    loop,           \* the background checker: one scan of pending rows
    execution,      \* task_executions: the row of the run that makes a submission
    faults,         \* faults so far
    cleared         \* history: rate limited rows deleted since a submission began

vars == <<rec, invalidLink, pc, job, found, copy, loop, execution, faults, cleared>>

\* Worker <<s, 0>> is the request that creates s, <<s, k>> with k > 0 a
\* goroutine the background checker has started for s.
Worker == Sub \X (0 .. Goroutines)
Target(w) == w[1]
Caller(s) == <<s, 0>>
IsCaller(w) == w[2] = 0

Status == {"absent", "pending", "checking", "checked"}

\* "left" is a row that says running and that nobody will update.
Execution == {"none", "running", "success", "failed", "left"}

Row == [status : Status, original : SUBSET Link, pending : SUBSET Link,
        valid : SUBSET Link, locked : SUBSET Link]
Job == [raw : SUBSET Link, links : SUBSET Link, sel : SUBSET Platform, task : BOOLEAN]
Found == [valid : SUBSET Link, locked : SUBSET Link, dead : SUBSET Link,
          limited : SUBSET Link, kept : SUBSET Link]
Entry == [sub : Sub, links : SUBSET Link]

NoRow == [status |-> "absent", original |-> {}, pending |-> {}, valid |-> {}, locked |-> {}]
NoJob == [raw |-> {}, links |-> {}, sel |-> Platform, task |-> FALSE]
Nothing == [valid |-> {}, locked |-> {}, dead |-> {}, limited |-> {}, kept |-> {}]

Recognised == {l \in Link : PlatformOf[l] \in Platform}

\* The places of a worker that has won the row and has not yet let go of it.
Working == {"check", "get", "save", "restore", "recover", "put back"}
Place == Working \cup {"idle", "create", "claim", "upsert", "done", "failed"}

\* CheckRealtime covers every platform, CheckRealtimeWithPlatformFilter does not.
Unfiltered(w) == job[w].sel = Platform

TypeOK ==
    /\ rec \in [Sub -> Row]
    /\ invalidLink \in [Link -> {"none", "limited", "dead"}]
    /\ pc \in [Worker -> Place]
    /\ job \in [Worker -> Job]
    /\ found \in [Worker -> Found]
    /\ copy \in [Worker -> Row]
    /\ loop \in [pc : {"scan", "finish"}, batch : SUBSET Entry, sub : SUBSET Sub, row : Row]
    /\ execution \in [Sub -> Execution]
    /\ faults \in 0 .. MaxFaults
    /\ cleared \in [Sub -> SUBSET Link]

Init ==
    /\ rec = [s \in Sub |-> NoRow]
    /\ invalidLink = [l \in Link |-> "none"]
    /\ pc = [w \in Worker |-> "idle"]
    /\ job = [w \in Worker |-> NoJob]
    /\ found = [w \in Worker |-> Nothing]
    /\ copy = [w \in Worker |-> NoRow]
    /\ loop = [pc |-> "scan", batch |-> {}, sub |-> {}, row |-> NoRow]
    /\ execution = [s \in Sub |-> "none"]
    /\ faults = 0
    /\ cleared = [s \in Sub |-> {}]

(***************************************************************************)
(* Faults and the ends of a worker.                                        *)
(***************************************************************************)
Fails(op) == op \in FaultOps /\ faults < MaxFaults /\ faults' = faults + 1
Succeeds == faults' = faults

GoTo(w, place) == pc' = [pc EXCEPT ![w] = place]

\* A worker that is through: a goroutine is gone, a request keeps its outcome.
Leave(w, outcome) ==
    /\ GoTo(w, IF IsCaller(w) THEN outcome ELSE "idle")
    /\ job' = [job EXCEPT ![w] = NoJob]
    /\ found' = [found EXCEPT ![w] = Nothing]
    /\ copy' = [copy EXCEPT ![w] = NoRow]

Write(s, row) == rec' = [rec EXCEPT ![s] = row]

(***************************************************************************)
(* The request: LinkService.CheckLinks, then the handler or ExecuteTask.   *)
(***************************************************************************)

\* FindByLinks.
KnownInvalid(links) == {l \in links : invalidLink[l] # "none"}

\* A run first makes its row of task_executions, which says running.
Execute(s, r) == execution' = [execution EXCEPT ![s] = IF r.task THEN "running" ELSE @]

\* Parse the links, look up the known invalid ones.  Without a recognised
\* link no row is made: the handler answers, a task runs CheckRealtime on
\* submission 0, which no row has.  A run may find no link at all, and it may
\* fail before it has any: no execution row, no data, a script that fails.
Submit(s) ==
    LET w == Caller(s) IN
    /\ pc[w] = "idle"
    /\ \E raw \in SUBSET Link, r \in Request :
        LET all == raw \cap Recognised IN
        /\ raw # {} \/ r.task
        /\ \/ /\ all = {}
              /\ Leave(w, IF r.task /\ raw # {} THEN "failed" ELSE "done")
              /\ Execute(s, r)
              /\ Succeeds
           \/ /\ all # {}
              /\ GoTo(w, "create")
              /\ job' = [job EXCEPT ![w] =
                    [raw |-> raw, links |-> all \ KnownInvalid(all),
                     sel |-> IF r.task THEN Platform ELSE r.sel, task |-> r.task]]
              /\ UNCHANGED <<found, copy>>
              /\ Execute(s, r)
              /\ Succeeds
           \/ /\ all # {}
              /\ Fails("lookup")
              /\ Leave(w, "failed")
              /\ Execute(s, r)
           \/ /\ r.task
              /\ Leave(w, "failed")
              /\ UNCHANGED execution \/ Execute(s, r)
              /\ Succeeds
    /\ UNCHANGED <<rec, invalidLink, loop, cleared>>

\* The handler detects at once only if platforms are selected and links are left.
DetectsAtOnce(j) == j.task \/ (j.sel # {} /\ j.links # {})

\* Insert the row.
Create(s) ==
    LET w == Caller(s) IN
    /\ pc[w] = "create"
    /\ \/ /\ Write(s, [NoRow EXCEPT !.status = "pending", !.original = job[w].raw,
                                    !.pending = job[w].links])
          /\ IF DetectsAtOnce(job[w])
             THEN GoTo(w, "claim") /\ UNCHANGED <<job, found, copy>>
             ELSE Leave(w, "done")
          /\ Succeeds
       \/ /\ Fails("create")
          /\ Leave(w, "failed")
          /\ UNCHANGED rec
    /\ UNCHANGED <<invalidLink, loop, execution, cleared>>

(***************************************************************************)
(* A detection pass.                                                       *)
(***************************************************************************)

\* Mutants of Claimable: no condition on the status; a row in checking too.
ClaimableAlways(s) == rec[s].status # "absent"
ClaimableTwice(s) == rec[s].status \in {"pending", "checking"}

\* UPDATE ... SET status = 'checking' WHERE id = s AND status = 'pending'.
Claimable(s) == rec[s].status = "pending"

Claim(w) ==
    LET s == Target(w) IN
    /\ pc[w] = "claim"
    /\ \/ /\ Claimable(s)
          /\ Write(s, [rec[s] EXCEPT !.status = "checking"])
          /\ GoTo(w, "check")
          /\ Succeeds
          /\ UNCHANGED <<job, found, copy>>
       \/ /\ ~ Claimable(s)
          /\ Leave(w, "failed")
          /\ Succeeds
          /\ UNCHANGED rec
       \/ /\ Fails("claim")
          /\ Leave(w, "failed")
          /\ UNCHANGED rec
    /\ UNCHANGED <<invalidLink, loop, execution, cleared>>

\* The links a pass asks a checker about, and those it does not.
Covered(j) == {l \in j.links : PlatformOf[l] \in j.sel}
Skipped(j) == j.links \ Covered(j)

\* Mutants of Collected: a locked link listed as valid too; the links a
\* filtered pass skips forgotten.
CollectedLockedValid(j, done, v) ==
    [valid |-> {l \in done : v[l] \in {"valid", "locked"}},
     locked |-> {l \in done : v[l] = "locked"},
     limited |-> {}, dead |-> {l \in done : v[l] = "dead"}, kept |-> Skipped(j)]
CollectedSkippedLost(j, done, v) ==
    [valid |-> {l \in done : v[l] = "valid"}, locked |-> {l \in done : v[l] = "locked"},
     limited |-> {}, dead |-> {l \in done : v[l] = "dead"}, kept |-> {}]

\* The lists after the links of `done` were given the verdicts v.  The
\* unfiltered pass reports an unrecognised link invalid, the filtered one
\* keeps it, with the links of platforms that are not selected.
Collected(j, done, v) ==
    LET With(x) == {l \in done : v[l] = x}
        all == j.sel = Platform
    IN [valid |-> With("valid"), locked |-> With("locked"), limited |-> With("limited"),
        dead |-> With("dead") \cup (IF all THEN Skipped(j) ELSE {}),
        kept |-> IF all THEN {} ELSE Skipped(j)]

\* All goroutines of the pass, up to wg.Wait.  A panic in a link's
\* goroutine is recovered there and its link is in no list.
Check(w) ==
    /\ pc[w] = "check"
    /\ \E done \in SUBSET Covered(job[w]) : \E v \in [done -> Verdict] :
        /\ found' = [found EXCEPT ![w] = Collected(job[w], done, v)]
        /\ \/ done = Covered(job[w]) /\ Succeeds
           \/ done # Covered(job[w]) /\ Fails("panic")
    /\ GoTo(w, "get")
    /\ UNCHANGED <<rec, invalidLink, job, copy, loop, execution, cleared>>

\* GetByID before the final Save.  On an error the row that could be
\* restored is nil, so nothing is restored.
Get(w) ==
    /\ pc[w] = "get"
    /\ \/ /\ GoTo(w, "save")
          /\ Succeeds
          /\ UNCHANGED <<job, found, copy>>
       \/ /\ Fails("get")
          /\ Leave(w, "failed")
    /\ UNCHANGED <<rec, invalidLink, loop, execution, cleared>>

\* Mutant of ResultRow: the links left are added to pending_links.
ResultRowAdds(s, f, status) ==
    [rec[s] EXCEPT !.status = status, !.pending = @ \cup f.kept,
                   !.valid = f.valid, !.locked = f.locked]

\* Another: a new struct instead of the row that was read.
ResultRowNew(s, f, status) ==
    [NoRow EXCEPT !.status = status, !.pending = f.kept, !.valid = f.valid, !.locked = f.locked]

\* The row as a pass writes it.  Save writes all columns; of those of the
\* row read by Get only the original links are kept.
ResultRow(s, f, status) ==
    [rec[s] EXCEPT !.status = status, !.pending = f.kept,
                   !.valid = f.valid, !.locked = f.locked]

\* Mutants of StatusAfter: a name no query knows; checked with links left;
\* the claim not given up when links are left.
StatusUnknown(f) == IF f.kept = {} THEN "done" ELSE "pending"
StatusChecked(f) == "checked"
StatusHeld(f) == IF f.kept = {} THEN "checked" ELSE "checking"

StatusAfter(f) == IF f.kept = {} THEN "checked" ELSE "pending"

\* The Save.  When it fails CheckRealtime tries to put the row back to
\* pending, unless it had no links to check.
Save(w) ==
    LET s == Target(w) IN
    /\ pc[w] = "save"
    /\ \/ /\ Write(s, ResultRow(s, found[w], StatusAfter(found[w])))
          /\ IF found[w].dead \cup found[w].limited = {}
             THEN Leave(w, "done")
             ELSE GoTo(w, "upsert") /\ UNCHANGED <<job, found, copy>>
          /\ Succeeds
       \/ /\ Fails("save")
          /\ IF Unfiltered(w) /\ job[w].links # {}
             THEN GoTo(w, "restore") /\ UNCHANGED <<job, found, copy>>
             ELSE Leave(w, "failed")
          /\ UNCHANGED rec
    /\ UNCHANGED <<invalidLink, loop, execution, cleared>>

\* The second Save: the result lists, with the status pending.
Restore(w) ==
    LET s == Target(w) IN
    /\ pc[w] = "restore"
    /\ \/ Write(s, ResultRow(s, found[w], "pending")) /\ Succeeds
       \/ UNCHANGED rec /\ Fails("save")
    /\ Leave(w, "failed")
    /\ UNCHANGED <<invalidLink, loop, execution, cleared>>

\* Mutant of Upserted: the rate limited links are not stored.
UpsertedDeadOnly(f) ==
    [l \in Link |-> IF l \in f.dead THEN "dead" ELSE invalidLink[l]]

\* BatchUpsert: insert, or overwrite is_rate_limited of the row that is there.
Upserted(f) ==
    [l \in Link |-> IF l \in f.dead THEN "dead"
                    ELSE IF l \in f.limited THEN "limited" ELSE invalidLink[l]]

Upsert(w) ==
    /\ pc[w] = "upsert"
    /\ \/ invalidLink' = Upserted(found[w]) /\ Succeeds
       \/ UNCHANGED invalidLink /\ Fails("upsert")
    /\ Leave(w, "done")
    /\ UNCHANGED <<rec, loop, execution, cleared>>

\* A panic in the body of the pass.  CheckRealtime has a deferred recover;
\* the filtered pass has none, and its request ends in gin's.
Panic(w) ==
    /\ pc[w] \in {"check", "get", "save", "restore", "upsert"}
    /\ Fails("panic")
    /\ IF Unfiltered(w)
       THEN GoTo(w, "recover") /\ UNCHANGED <<job, found, copy>>
       ELSE Leave(w, "failed")
    /\ UNCHANGED <<rec, invalidLink, loop, execution, cleared>>

\* The recover: read the row and, if it is still checking, put it back.
Recover(w) ==
    LET s == Target(w) IN
    /\ pc[w] = "recover"
    /\ \/ /\ rec[s].status = "checking"
          /\ GoTo(w, "put back")
          /\ copy' = [copy EXCEPT ![w] = rec[s]]
          /\ Succeeds
          /\ UNCHANGED <<job, found>>
       \/ /\ rec[s].status # "checking"
          /\ Leave(w, "failed")
          /\ Succeeds
       \/ /\ Fails("get")
          /\ Leave(w, "failed")
    /\ UNCHANGED <<rec, invalidLink, loop, execution, cleared>>

PutBack(w) ==
    /\ pc[w] = "put back"
    /\ \/ Write(Target(w), [copy[w] EXCEPT !.status = "pending"]) /\ Succeeds
       \/ UNCHANGED rec /\ Fails("save")
    /\ Leave(w, "failed")
    /\ UNCHANGED <<invalidLink, loop, execution, cleared>>

\* Mutant of Outcome: the error is not the one the deferred function looks at.
OutcomeAlways(s) == "success"

Outcome(s) == IF pc[Caller(s)] = "done" THEN "success" ELSE "failed"

\* The end of a run, deferred in ExecuteTask: save the outcome.  A panic after
\* CheckRealtime, which returns no row when it has recovered, is one too.
Settle(s) ==
    /\ execution[s] = "running"
    /\ pc[Caller(s)] \in {"done", "failed"}
    /\ \/ execution' = [execution EXCEPT ![s] = Outcome(s)] /\ Succeeds
       \/ execution' = [execution EXCEPT ![s] = "left"] /\ Fails("settle")
    /\ UNCHANGED <<rec, invalidLink, pc, job, found, copy, loop, cleared>>

(***************************************************************************)
(* The background checker: CheckPendingSubmissions, called in a loop.      *)
(***************************************************************************)
Pending == {s \in Sub : rec[s].status = "pending"}

\* A scan reads up to BatchLimit pending rows.
Scan ==
    /\ loop.pc = "scan"
    /\ loop.batch = {}
    /\ \/ /\ \E B \in SUBSET Pending :
                /\ Cardinality(B) <= BatchLimit
                /\ B = Pending \/ Cardinality(B) = BatchLimit
                /\ loop' = [loop EXCEPT !.batch =
                                {[sub |-> s, links |-> rec[s].pending] : s \in B}]
          /\ Succeeds
       \/ /\ Fails("list")
          /\ UNCHANGED loop
    /\ UNCHANGED <<rec, invalidLink, pc, job, found, copy, execution, cleared>>

\* A row with pending links gets a goroutine that runs CheckRealtime on the
\* links the scan has read.
Spawn ==
    /\ loop.pc = "scan"
    /\ \E e \in loop.batch, w \in Worker :
        /\ e.links # {}
        /\ Target(w) = e.sub /\ ~ IsCaller(w) /\ pc[w] = "idle"
        /\ GoTo(w, "claim")
        /\ job' = [job EXCEPT ![w] = [NoJob EXCEPT !.links = e.links]]
        /\ loop' = [loop EXCEPT !.batch = @ \ {e}]
    /\ UNCHANGED <<rec, invalidLink, found, copy, execution, faults, cleared>>

\* A row without: read it again, and if it is not checked yet ...
FinishRead ==
    /\ loop.pc = "scan"
    /\ \E e \in loop.batch :
        /\ e.links = {}
        /\ \/ /\ rec[e.sub].status = "checked"
              /\ loop' = [loop EXCEPT !.batch = @ \ {e}]
              /\ Succeeds
           \/ /\ rec[e.sub].status # "checked"
              /\ loop' = [pc |-> "finish", batch |-> loop.batch \ {e},
                          sub |-> {e.sub}, row |-> rec[e.sub]]
              /\ Succeeds
           \/ /\ Fails("get")
              /\ loop' = [loop EXCEPT !.batch = @ \ {e}]
    /\ UNCHANGED <<rec, invalidLink, pc, job, found, copy, execution, cleared>>

\* ... save it as checked.
FinishSave ==
    /\ loop.pc = "finish"
    /\ \/ /\ \E s \in loop.sub :
                Write(s, [loop.row EXCEPT !.status = "checked", !.pending = {}])
          /\ Succeeds
       \/ UNCHANGED rec /\ Fails("save")
    /\ loop' = [loop EXCEPT !.pc = "scan", !.sub = {}, !.row = NoRow]
    /\ UNCHANGED <<invalidLink, pc, job, found, copy, execution, cleared>>

(***************************************************************************)
(* The administrator, and the end of the process.                          *)
(***************************************************************************)

\* DELETE FROM invalid_links WHERE is_rate_limited.
ClearRateLimited ==
    LET limited == {l \in Link : invalidLink[l] = "limited"} IN
    /\ limited # {}
    /\ invalidLink' = [l \in Link |-> IF l \in limited THEN "none" ELSE invalidLink[l]]
    /\ cleared' = [s \in Sub |-> IF pc[Caller(s)] = "idle" THEN {} ELSE cleared[s] \cup limited]
    /\ UNCHANGED <<rec, pc, job, found, copy, loop, execution, faults>>

\* The process dies and starts again: the tables stay, every worker is gone.
\* Nothing at startup looks at the rows that are in checking, and at the
\* executions that are running.
Crash ==
    /\ Fails("crash")
    /\ pc' = [w \in Worker |-> IF ~ IsCaller(w) THEN "idle"
                               ELSE IF pc[w] \in {"idle", "done"} THEN pc[w] ELSE "failed"]
    /\ job' = [w \in Worker |-> NoJob]
    /\ found' = [w \in Worker |-> Nothing]
    /\ copy' = [w \in Worker |-> NoRow]
    /\ loop' = [pc |-> "scan", batch |-> {}, sub |-> {}, row |-> NoRow]
    /\ execution' = [s \in Sub |-> IF execution[s] = "running" THEN "left" ELSE execution[s]]
    /\ UNCHANGED <<rec, invalidLink, cleared>>

Pass(w) ==
    \/ Claim(w) \/ Check(w) \/ Get(w) \/ Save(w) \/ Restore(w) \/ Upsert(w)
    \/ Recover(w) \/ PutBack(w)

Background == Scan \/ Spawn \/ FinishRead \/ FinishSave

Next ==
    \/ \E s \in Sub : Submit(s) \/ Create(s) \/ Settle(s)
    \/ \E w \in Worker : Pass(w) \/ Panic(w)
    \/ Background
    \/ ClearRateLimited
    \/ Crash

Spec == Init /\ [][Next]_vars

\* Goroutines are scheduled, database calls return and checks end (the HTTP
\* clients have timeouts); the background loop never ends.  Nobody is bound
\* to submit, to clear, to fail or to crash.
Fairness ==
    /\ \A s \in Sub : WF_vars(Create(s))
    /\ \A w \in Worker : WF_vars(Pass(w))
    /\ WF_vars(Background)

FairSpec == Spec /\ Fairness

(***************************************************************************)
(* Properties.                                                             *)
(***************************************************************************)

\* A pass holds its row from the claim to its last write of it.  The filtered
\* pass lets go with the Save (the row may be pending again), the unfiltered
\* one only ends, so that its deferred recover still finds its own row.
Holds(w) == pc[w] \in Working \/ (pc[w] = "upsert" /\ Unfiltered(w))

\* However requests, tasks and scans interleave, and whatever fails, no row is
\* held by two passes: the conditional UPDATE is the only lock there is
\* (UpdateStatusToChecking), and stale goroutines of earlier scans, failed
\* saves and recovers all write the status that guards it.
OnePassAtATime ==
    \A v, w \in Worker : Holds(v) /\ Holds(w) /\ Target(v) = Target(w) => v = w

\* As long as nothing fails a row in checking has a pass that works on it, so
\* no row is stuck there: no scan ever reads a row in checking.
NoneAbandoned ==
    faults = 0 =>
        \A s \in Sub : rec[s].status = "checking" => \E w \in Worker : Holds(w) /\ Target(w) = s

\* The invalid links a pass has taken off the row and not yet stored.
InHand(s) ==
    UNION {found[w].dead \cup found[w].limited :
              w \in {u \in Worker : pc[u] = "upsert" /\ Target(u) = s}}

\* The links of a row of which the tables, or a pass about to store them, say
\* something: to be checked, valid, locked or invalid.
Accounted(s) ==
    rec[s].pending \cup rec[s].valid \cup rec[s].locked \cup InHand(s)
        \cup KnownInvalid(Link) \cup cleared[s]

\* As long as nothing fails and every request detects all platforms or none,
\* each recognised link of a submission is accounted for at every moment:
\* between the scan, the claim, the Save that empties pending_links and the
\* BatchUpsert after it nothing is lost, with stale goroutines about and the
\* administrator deleting rows.
NoLinkVanishes ==
    faults = 0 =>
        \A s \in Sub : rec[s].original \cap Recognised \subseteq Accounted(s)

\* As long as nothing fails a link leaves pending_links only together with
\* its verdict, whatever the selection of the request.
PendingLeavesWithVerdict ==
    [][ faults' = 0 =>
          \A s \in Sub : rec[s].pending \ rec'[s].pending
                            \subseteq rec'[s].valid \cup rec'[s].locked \cup InHand(s)' ]_vars

\* A row that is checked has no pending links: scans skip it, so a link left
\* there would never be checked.  Also after faults.
CheckedHasNothingPending ==
    \A s \in Sub : rec[s].status = "checked" => rec[s].pending = {}

\* What a client has submitted stays as it is: every writer after the first one
\* saves all columns of a row it has read or holds a copy of, also after faults.
SubmittedLinksStay ==
    [][ \A s \in Sub : rec[s].status # "absent" => rec'[s].original = rec[s].original ]_vars

\* The lists of a row are made of its own links, also when goroutines write what
\* they were told by an old scan, and after faults.
OnlySubmittedLinks ==
    \A s \in Sub : rec[s].pending \cup rec[s].valid \cup rec[s].locked \subseteq rec[s].original

\* No link is reported in two of the lists of a row, also after faults and
\* after passes that ran on stale snapshots of pending_links.
ListsDisjoint ==
    \A s \in Sub : /\ rec[s].valid \cap rec[s].locked = {}
                   /\ rec[s].pending \cap (rec[s].valid \cup rec[s].locked) = {}

\* As long as nothing fails a checked row is final: neither a late goroutine
\* nor the scan's own save of a row without pending links changes it.
CheckedIsFinal ==
    [][ faults' = 0 =>
          \A s \in Sub : rec[s].status = "checked" => rec'[s] = rec[s] ]_vars

\* As long as nothing fails a pass that is refused its row leaves it in good
\* hands: another pass has it, or it is checked.  So the task or request that the
\* background checker overtakes is recorded as failed, but not its links.
RefusedIsTaken ==
    [][ faults' = 0 =>
          \A w \in Worker : pc[w] = "claim" /\ pc'[w] \in {"idle", "failed"} =>
              \/ rec[Target(w)].status = "checked"
              \/ \E v \in Worker : Holds(v) /\ Target(v) = Target(w) ]_vars

\* A run that is recorded as a success has its submission checked, or had no link
\* to submit: whoever else had claimed the row, and whatever has failed.
SuccessIsChecked ==
    \A s \in Sub : execution[s] = "success" => rec[s].status \in {"checked", "absent"}

\* Without faults every submission is checked in the end, also when its
\* request selected some platforms or none, and more rows are pending than a
\* scan reads.
EventuallyChecked ==
    \A s \in Sub : rec[s].status = "pending" ~> rec[s].status = "checked"

(***************************************************************************)
(* What comments and the README say, and the code does not keep.           *)
(***************************************************************************)

\* "restore the status to pending so that it can be retried ... when a panic
\* occurs or an error is returned": a row that nobody works on is not left in
\* checking.
FailedPassRestored ==
    \A s \in Sub : rec[s].status = "checking" => \E w \in Worker : Holds(w) /\ Target(w) = s

\* ValidLinks are "the valid links once detection is complete": a later pass
\* over the links that were left does not take valid links off the row.
ValidLinksKept == [][ \A s \in Sub : rec[s].valid \subseteq rec'[s].valid ]_vars

(***************************************************************************)
(* Refinement.                                                             *)
(***************************************************************************)

\* Without faults the rows go through the stages of Lifecycle: a row is only
\* ever handed back with fewer links, links are never added, and checked is
\* the last stage.
StageOf(status) ==
    CASE status = "absent" -> "absent"
      [] status = "pending" -> "waiting"
      [] status = "checking" -> "working"
      [] status = "checked" -> "finished"

Stages == INSTANCE Lifecycle
              WITH stage <- [s \in Sub |-> StageOf(rec[s].status)],
                   todo <- [s \in Sub |-> rec[s].pending]

ImplementsLifecycle == Stages!Spec

\* Where calls may fail the rows do so until one has.
LifecycleUntilFault == Stages!Init /\ [][faults' = 0 => Stages!Next]_(Stages!vars)

===============================================================================
