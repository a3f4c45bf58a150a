------------------------------- MODULE Scheduler -------------------------------
(***************************************************************************)
(* Scheduled tasks: the table scheduled_tasks, the requests that change    *)
(* it, the cron scheduler with its entries and the map from a task to its  *)
(* entry, the goroutines cron starts, the loop that looks for expired      *)
(* tasks, and the end and restart of the process.                          *)
(*                                                                         *)
(* Requests, cron's goroutines and the loop share the table, cron and the  *)
(* map; the map has no lock.  A step is one call of the database or one    *)
(* access to cron and the map.  A run of a task (fetch, submit, check) is  *)
(* one step here, which takes as long as it likes, and the row of the task *)
(* may change meanwhile; what it does is in Submission.                    *)
(***************************************************************************)
EXTENDS Integers, FiniteSets

CONSTANTS
    Task,           \* ids of scheduled_tasks rows; bound: rows ever created
    Name, Cron,     \* names; cron expressions the parser accepts
    Malformed,      \* and those it does not (also five fields)
    Zero,           \* Go's zero value: a field that is not set
    Created,        \* rows that requests may create
    Changes,        \* what update requests may change: Zero leaves a field
    Requests,       \* bound: goroutines that serve requests
    Firings,        \* bound: goroutines that cron has started
    Loop,           \* the goroutine of checkExpiredTasks
    Together,       \* bound: operations in progress at a time
    Entry,          \* bound: ids of cron entries in use at a time
    MaxTime,        \* bound of the clock
    MaxFaults       \* bound: failing calls and crashes

VARIABLES
    task,           \* the table scheduled_tasks
    jobs,           \* the entries of cron
    entries,        \* the scheduler's map: the entry of each task
    pc,             \* where each goroutine is
    my,             \* the local variables of each goroutine
    now,            \* the clock
    faults,
    upset           \* history: tasks with overlapping writers or a failed call
                    \* since the process has started

control == <<pc, my>>
vars == <<task, jobs, entries, control, now, faults, upset>>

Actor == Requests \cup Firings \cup {Loop}
Instant == 1 .. MaxTime
Status == {"new", "gone", "stopped", "active", "expired"}

\* A row, or a struct for an update of some of its fields.
Row == [status : Status \cup {Zero}, name : Name \cup {Zero},
        cron : Cron \cup Malformed \cup {Zero}, destroyAt : Instant \cup {Zero}]
Empty == [status |-> Zero, name |-> Zero, cron |-> Zero, destroyAt |-> Zero]

Job == [id : Entry, task : Task, cron : Cron]
Stale == [task : Task, row : Row]
Kind == {"none", "change", "run", "fire", "tick"}
Local == [kind : Kind, task : SUBSET Task, row : Row, due : SUBSET Stale, id : Entry \cup {Zero}]
Place == {"idle", "insert", "update", "reload", "remove", "forget", "add", "enter", "map", "note",
          "execute", "run", "expire", "again", "drop"}

\* The handler of a creation asks for a name and an expression; "new" and "gone"
\* stand for a row that is not there.
ASSUME RowsAssumption ==
    /\ Changes \cup Created \subseteq {p \in Row : p.status \notin {"new", "gone"}}
    /\ \A p \in Created : p.name # Zero /\ p.cron # Zero
ASSUME ZeroAssumption ==
    \A set \in {Status, Name, Cron, Malformed, Instant, Entry} : Zero \notin set
ASSUME SetsAssumption == Loop \notin Requests \cup Firings /\ Requests \cap Firings = {}
ASSUME BoundsAssumption == MaxTime \in Nat /\ MaxFaults \in Nat /\ Together \in Nat

TypeOK ==
    /\ task \in [Task -> {row \in Row : row.status # Zero}]
    /\ jobs \subseteq Job
    /\ entries \in [Task -> Entry \cup {Zero}]
    /\ pc \in [Actor -> Place]
    /\ my \in [Actor -> Local]
    /\ now \in 0 .. MaxTime
    /\ faults \in 0 .. MaxFaults
    /\ upset \subseteq Task

Locals == [kind |-> "none", task |-> {}, row |-> Empty, due |-> {}, id |-> Zero]

Init ==
    /\ task = [t \in Task |-> [Empty EXCEPT !.status = "new"]]
    /\ jobs = {}
    /\ entries = [t \in Task |-> Zero]
    /\ pc = [a \in Actor |-> "idle"]
    /\ my = [a \in Actor |-> Locals]
    /\ now = 0
    /\ faults = 0
    /\ upset = {}

Fails == faults < MaxFaults /\ faults' = faults + 1
Succeeds == faults' = faults

GoTo(a, place) == pc' = [pc EXCEPT ![a] = place]
Keep(a, local) == my' = [my EXCEPT ![a] = local]
Finish(a) == GoTo(a, "idle") /\ Keep(a, Locals)

\* On to the next place, with the locals as they are, or through.
Go(a, place) == IF place = "idle" THEN Finish(a) ELSE GoTo(a, place) /\ UNCHANGED my

Busy == {a \in Actor : pc[a] # "idle"}
Starts(a, place, local) ==
    /\ pc[a] = "idle"
    /\ Cardinality(Busy) < Together
    /\ GoTo(a, place)
    /\ Keep(a, local)
    /\ Succeeds

(***************************************************************************)
(* The table.                                                              *)
(***************************************************************************)
Exists(t) == task[t].status \notin {"new", "gone"}

Or(new, old) == IF new = Zero THEN old ELSE new

\* gorm's Updates writes the fields of the struct that are not zero.
Updated(row, p) ==
    [status |-> Or(p.status, row.status), name |-> Or(p.name, row.name),
     cron |-> Or(p.cron, row.cron), destroyAt |-> Or(p.destroyAt, row.destroyAt)]

\* Mutant of Saved: a Save, which inserts the row when it is not there.
SavedAlways(t, p) == [task EXCEPT ![t] = Updated(@, p)]

\* Mutant of Saved: of a task that expires only the status is written.
SavedStatus(t, p) ==
    [task EXCEPT ![t] = IF ~ Exists(t) THEN @
                        ELSE IF p.status = "expired" THEN [@ EXCEPT !.status = "expired"]
                        ELSE Updated(@, p)]

\* UPDATE ... WHERE id = t.
Saved(t, p) == [task EXCEPT ![t] = IF Exists(t) THEN Updated(@, p) ELSE @]

\* ExistsByName, among all tasks or among the others.
Taken(name, among) == \E t \in among : Exists(t) /\ task[t].name = name

\* executeTask asks for a time after the instant, the query for one not before.
Passed(row) == row.destroyAt # Zero /\ now > row.destroyAt
Due(row) == row.destroyAt # Zero /\ now >= row.destroyAt

\* Mutant of ExpiredTasks: the query asks for another status.
ExpiredTasksStopped == {t \in Task : task[t].status = "stopped" /\ Due(task[t])}

\* GetExpiredTasks.
ExpiredTasks == {t \in Task : task[t].status = "active" /\ Due(task[t])}

(***************************************************************************)
(* Requests.  One that ends with an error before it has written anything   *)
(* is no step.                                                             *)
(***************************************************************************)

\* Mutant of NewRow: no default status.
NewRowAsIs(p) == p

\* The row to insert: stopped unless the request says otherwise.
NewRow(p) == [p EXCEPT !.status = Or(@, "stopped")]

CreateTask(a) ==
    \E p \in Created :
        /\ ~ Taken(p.name, Task)
        /\ Cardinality({t \in Task : task[t].status = "new"})
              > Cardinality({b \in Actor : pc[b] = "insert"})
        /\ Starts(a, "insert", [Locals EXCEPT !.kind = "change", !.row = NewRow(p)])
        /\ UNCHANGED <<task, jobs, entries, now>>

UpdateTask(a) ==
    \E t \in Task, p \in Changes :
        /\ p.name # Zero => ~ Taken(p.name, Task \ {t})
        /\ Starts(a, "update", [Locals EXCEPT !.kind = "change", !.task = {t}, !.row = p])
        /\ UNCHANGED <<task, jobs, entries, now>>

\* Enable and disable read the whole row to write it back.
Toggle(a, status) ==
    \E t \in Task :
        /\ Exists(t)
        /\ Starts(a, "update", [Locals EXCEPT !.kind = "change", !.task = {t},
                                              !.row = [task[t] EXCEPT !.status = status]])
        /\ UNCHANGED <<task, jobs, entries, now>>

EnableTask(a) == Toggle(a, "active")
DisableTask(a) == Toggle(a, "stopped")

\* The row goes; its cron entry is not looked at.
DeleteTask ==
    /\ Cardinality(Busy) < Together
    /\ \E t \in Task :
        /\ Exists(t)
        /\ task' = [task EXCEPT ![t] = [Empty EXCEPT !.status = "gone"]]
    /\ UNCHANGED <<jobs, entries, pc, my, now, faults>>

\* A manual run, whatever the status.
RunTask(a) ==
    \E t \in Task :
        /\ Exists(t)
        /\ Starts(a, "run", [Locals EXCEPT !.kind = "run", !.task = {t}, !.row = task[t]])
        /\ UNCHANGED <<task, jobs, entries, now>>

Insert(a) ==
    /\ pc[a] = "insert"
    /\ \/ \E t \in Task :
            /\ task[t].status = "new"
            /\ task' = [task EXCEPT ![t] = my[a].row]
            /\ IF my[a].row.status = "active"
               THEN GoTo(a, "reload") /\ Keep(a, [my[a] EXCEPT !.task = {t}])
               ELSE Finish(a)
            /\ Succeeds
       \/ Fails /\ Finish(a) /\ UNCHANGED task
    /\ UNCHANGED <<jobs, entries, now>>

\* The write of a request, which reloads the task then, and of a firing,
\* which ignores an error.
Update(a) ==
    LET next == IF my[a].kind = "change" THEN "reload"
                ELSE IF my[a].row.status = "expired" THEN "remove" ELSE "idle"
    IN /\ pc[a] = "update"
       /\ \/ \E t \in my[a].task : task' = Saved(t, my[a].row) /\ Go(a, next) /\ Succeeds
          \/ /\ Fails
             /\ Go(a, IF my[a].kind = "change" THEN "idle" ELSE next)
             /\ UNCHANGED task
       /\ UNCHANGED <<jobs, entries, now>>

(***************************************************************************)
(* ReloadTask, removeTask and addTask.                                     *)
(***************************************************************************)
Reload(a) ==
    /\ pc[a] = "reload"
    /\ \E t \in my[a].task :
        \/ /\ Exists(t)
           /\ GoTo(a, "remove")
           /\ Keep(a, [my[a] EXCEPT !.row = task[t]])
           /\ Succeeds
        \/ ~ Exists(t) /\ Finish(a) /\ Succeeds
        \/ Fails /\ Finish(a)
    /\ UNCHANGED <<task, jobs, entries, now>>

\* Mutant of Without: the entry is only forgotten, cron keeps it.
WithoutNothing(t) == jobs

\* cron.Remove of the entry the map has for t.
Without(t) == {j \in jobs : j.id # entries[t]}

\* Mutant of Schedules: everything that is not expired is put into cron.
SchedulesStopped(row) == row.status # "expired"

\* The condition under which ReloadTask adds the task again.
Schedules(row) == row.status = "active"

AfterRemove(a) ==
    CASE my[a].kind = "change" -> IF Schedules(my[a].row) THEN "add" ELSE "idle"
      [] my[a].kind = "tick" -> IF my[a].due = {} THEN "idle" ELSE "drop"
      [] OTHER -> "idle"

\* removeTask: look the entry up and remove it from cron ...
Remove(a) ==
    /\ pc[a] = "remove"
    /\ \E t \in my[a].task :
        IF entries[t] # Zero
        THEN jobs' = Without(t) /\ Go(a, "forget")
        ELSE UNCHANGED jobs /\ Go(a, AfterRemove(a))
    /\ UNCHANGED <<task, entries, now, faults>>

\* Mutant of Forgotten: the map keeps it.
ForgottenNot(t) == entries

\* delete(s.entries, t).
Forgotten(t) == [entries EXCEPT ![t] = Zero]

\* ... and delete it from the map.
Forget(a) ==
    /\ pc[a] = "forget"
    /\ \E t \in my[a].task : entries' = Forgotten(t)
    /\ Go(a, AfterRemove(a))
    /\ UNCHANGED <<task, jobs, now, faults>>

\* Ids are never used twice; the model takes one nobody knows any more.
Fresh == Entry \ ({j.id : j \in jobs} \cup {entries[t] : t \in Task} \cup {my[a].id : a \in Actor})
NewId == CHOOSE id \in Fresh : TRUE

\* addTask: parse, remove the entry the map knows from cron, ...
Add(a) ==
    /\ pc[a] = "add"
    /\ \/ my[a].row.cron \notin Cron /\ Finish(a) /\ UNCHANGED jobs
       \/ \E t \in my[a].task :
            /\ my[a].row.cron \in Cron
            /\ jobs' = Without(t)
            /\ GoTo(a, "enter")
            /\ UNCHANGED my
    /\ UNCHANGED <<task, entries, now, faults>>

\* ... AddFunc, ...
Enter(a) ==
    /\ pc[a] = "enter"
    /\ Fresh # {}
    /\ \E t \in my[a].task :
        jobs' = jobs \cup {[id |-> NewId, task |-> t, cron |-> my[a].row.cron]}
    /\ GoTo(a, "map")
    /\ Keep(a, [my[a] EXCEPT !.id = NewId])
    /\ UNCHANGED <<task, entries, now, faults>>

\* ... enter it into the map ...
Map(a) ==
    /\ pc[a] = "map"
    /\ \E t \in my[a].task : entries' = [entries EXCEPT ![t] = my[a].id]
    /\ GoTo(a, "note")
    /\ Keep(a, [my[a] EXCEPT !.id = Zero])
    /\ UNCHANGED <<task, jobs, now, faults>>

\* ... and write the row back, for its next run; an error is logged.
Note(a) ==
    /\ pc[a] = "note"
    /\ \/ \E t \in my[a].task : task' = Saved(t, my[a].row) /\ Succeeds
       \/ Fails /\ UNCHANGED task
    /\ Finish(a)
    /\ UNCHANGED <<jobs, entries, now>>

(***************************************************************************)
(* Cron starts a goroutine for an entry, at any time; the goroutine reads  *)
(* the row: executeTask.                                                   *)
(***************************************************************************)
Fire(a) ==
    /\ \E j \in jobs :
        Starts(a, "execute", [Locals EXCEPT !.kind = "fire", !.task = {j.task}])
    /\ UNCHANGED <<task, jobs, entries, now>>

Execute(a) ==
    /\ pc[a] = "execute"
    /\ \E t \in my[a].task :
        LET row == task[t] IN
        \/ /\ Exists(t) /\ row.status # "active"
           /\ GoTo(a, "remove") /\ Keep(a, [my[a] EXCEPT !.row = row]) /\ Succeeds
        \/ /\ row.status = "active" /\ Passed(row)
           /\ GoTo(a, "update") /\ Keep(a, [my[a] EXCEPT !.row = [row EXCEPT !.status = "expired"]])
           /\ Succeeds
        \/ /\ row.status = "active" /\ ~ Passed(row)
           /\ GoTo(a, "run") /\ Keep(a, [my[a] EXCEPT !.row = row]) /\ Succeeds
        \/ ~ Exists(t) /\ Finish(a) /\ Succeeds
        \/ Fails /\ Finish(a)
    /\ UNCHANGED <<task, jobs, entries, now>>

\* A firing writes the row it has read when the run is over.
AfterRun(a) == IF my[a].kind = "fire" THEN "update" ELSE "idle"

\* ExecuteTask; its error is logged.
Run(a) ==
    /\ pc[a] = "run"
    /\ Go(a, AfterRun(a))
    /\ UNCHANGED <<task, jobs, entries, now, faults>>

(***************************************************************************)
(* The loop that looks for expired tasks, once a minute.                   *)
(***************************************************************************)
Found == {[task |-> t, row |-> task[t]] : t \in ExpiredTasks}

\* CheckExpiredTasks reads them ...
Tick ==
    /\ \/ Starts(Loop, IF ExpiredTasks = {} THEN "again" ELSE "expire",
                 [Locals EXCEPT !.kind = "tick", !.due = Found])
       \/ /\ pc[Loop] = "idle" /\ Cardinality(Busy) < Together
          /\ GoTo(Loop, "again") /\ Keep(Loop, [Locals EXCEPT !.kind = "tick"])
          /\ Fails
    /\ UNCHANGED <<task, jobs, entries, now>>

\* ... and writes each as it was, but expired, up to an error.
Expire ==
    /\ pc[Loop] = "expire"
    /\ \/ \E d \in my[Loop].due :
            /\ task' = Saved(d.task, [d.row EXCEPT !.status = "expired"])
            /\ GoTo(Loop, IF my[Loop].due = {d} THEN "again" ELSE "expire")
            /\ Keep(Loop, [my[Loop] EXCEPT !.due = @ \ {d}])
            /\ Succeeds
       \/ /\ Fails
          /\ GoTo(Loop, "again")
          /\ Keep(Loop, [my[Loop] EXCEPT !.due = {}])
          /\ UNCHANGED task
    /\ UNCHANGED <<jobs, entries, now>>

\* Then the loop asks for the expired tasks again, to remove their entries.
Again ==
    /\ pc[Loop] = "again"
    /\ \/ ExpiredTasks = {} /\ Finish(Loop) /\ Succeeds
       \/ /\ ExpiredTasks # {}
          /\ GoTo(Loop, "drop") /\ Keep(Loop, [my[Loop] EXCEPT !.due = Found])
          /\ Succeeds
       \/ Fails /\ Finish(Loop)
    /\ UNCHANGED <<task, jobs, entries, now>>

Drop ==
    /\ pc[Loop] = "drop"
    /\ \E d \in my[Loop].due :
        Keep(Loop, [my[Loop] EXCEPT !.task = {d.task}, !.due = @ \ {d}])
    /\ GoTo(Loop, "remove")
    /\ UNCHANGED <<task, jobs, entries, now, faults>>

(***************************************************************************)
(* Time, and the process.                                                  *)
(***************************************************************************)
Advance ==
    /\ now < MaxTime
    /\ now' = now + 1
    /\ UNCHANGED <<task, jobs, entries, pc, my, faults>>

\* The process ends and starts again: cron and the map hold the active tasks
\* (loadActiveTasks, before anything else runs).
Restart ==
    LET loaded == {t \in Task : task[t].status = "active" /\ task[t].cron \in Cron} IN
    /\ Fails
    /\ \E id \in [loaded -> Entry] :
        /\ \A s, t \in loaded : id[s] = id[t] => s = t
        /\ jobs' = {[id |-> id[t], task |-> t, cron |-> task[t].cron] : t \in loaded}
        /\ entries' = [t \in Task |-> IF t \in loaded THEN id[t] ELSE Zero]
    /\ pc' = [a \in Actor |-> "idle"]
    /\ my' = [a \in Actor |-> Locals]
    /\ UNCHANGED <<task, now>>

Step(a) ==
    \/ Insert(a) \/ Update(a) \/ Reload(a) \/ Remove(a) \/ Forget(a) \/ Add(a) \/ Enter(a) \/ Map(a)
    \/ Note(a) \/ Execute(a) \/ Run(a)

Watch == Tick \/ Expire \/ Again \/ Drop \/ Step(Loop)

Request(a) == CreateTask(a) \/ UpdateTask(a) \/ EnableTask(a) \/ DisableTask(a) \/ RunTask(a)

\* Everything but the end of the process.
Happens ==
    \/ \E a \in Requests : Request(a) \/ Step(a)
    \/ \E a \in Firings : Fire(a) \/ Step(a)
    \/ DeleteTask
    \/ Watch
    \/ Advance

\* The tasks whose row or entry a goroutine may still write: not a manual run.
Writes(a) ==
    (IF my[a].kind = "run" \/ pc[a] = "drop" THEN {} ELSE my[a].task)
        \cup {d.task : d \in my[a].due}

\* One goroutine at a time writes to the task, any number to the others.
Apart(t) == \A a, b \in Actor : t \in Writes(a) \cap Writes(b) => a = b

\* Nobody writes to the task.
Free(t) == \A a \in Actor : t \notin Writes(a)

\* Upset is a task two goroutines write to at a time, and one that is written
\* to while a call fails.
Noted ==
    upset' = upset \cup {t \in Task : ~ Apart(t)'}
                   \cup {t \in Task : faults' # faults /\ ~ Free(t)}

Next == (Happens /\ Noted) \/ (Restart /\ upset' = {})

Spec == Init /\ [][Next]_vars

\* Goroutines are scheduled, calls return, runs end (curl's client and the
\* checkers have timeouts), and the ticker of the loop ticks.  A step moves its
\* goroutine.
FairSpec ==
    /\ Spec
    /\ \A a \in Requests \cup Firings : WF_control(Step(a))
    /\ WF_control(Watch)

(***************************************************************************)
(* Properties.  Nothing is locked, so two goroutines that write to one     *)
(* task can part the table, cron and the map, and leave them so until the  *)
(* next start; likewise a call that fails.  Such a task is upset.  What is *)
(* said of the others is said for all behaviours, and a start sets all     *)
(* right.                                                                  *)
(***************************************************************************)

\* A deleted row does not come back, whatever a request, a firing or the loop
\* that has read it before writes later (gorm's Updates, not Save).
DeletedStaysDeleted ==
    [][\A t \in Task : task[t].status = "gone" => task'[t].status = "gone"]_vars

\* A task becomes expired only when its time has come, or because a request says
\* so: a goroutine that writes the status from a copy that is out of date, when
\* the time has been moved meanwhile, writes the old time with it.
ExpiresOnlyWhenDue ==
    [][\A t \in Task :
        task[t].status # "expired" /\ task'[t].status = "expired" =>
            \/ Due(task'[t])
            \/ \E r \in Requests :
                  pc[r] \in {"insert", "update"} /\ pc'[r] # pc[r] /\ my[r].row.status = "expired"]_vars

\* What is done for one task never takes the cron entry of another, however the
\* operations overlap in the map, which has no lock (removeTask and addTask).
OwnEntryOnly ==
    [][faults' = faults =>
        \A j \in jobs \ jobs' :
            \E a \in Actor : pc[a] \in {"remove", "add"} /\ j.task \in my[a].task]_vars

\* An active task whose time has come does not remain so: the loop gets to it,
\* whatever requests and firings write meanwhile, unless its time is moved.
DueTaskExpires ==
    \A t \in Task :
        (task[t].status = "active" /\ Due(task[t])) ~> ~ (task[t].status = "active" /\ Due(task[t]))

JobsOf(t) == {j \in jobs : j.task = t}

\* The map never points to an entry that cron does not have: what the map has for
\* a task is an entry of it in cron, however the operations overlap and whatever
\* fails, but while somebody is between removing the entry and saying so
\* (removeTask, addTask).  An entry that cron has and the map does not know there
\* may be: two reloads at once leave one.
MapKnowsCron ==
    \A t \in Task : entries[t] # Zero =>
        \/ \E j \in JobsOf(t) : j.id = entries[t]
        \/ \E a \in Actor : pc[a] \in {"forget", "enter", "map"} /\ t \in my[a].task

\* An active task that is not upset, and that nobody works on, has one entry in
\* cron, with its expression, and it is the one the map knows.
ActiveHasItsJob ==
    \A t \in Task \ upset :
        Free(t) /\ task[t].status = "active" /\ task[t].cron \in Cron /\ ~ Due(task[t]) =>
            JobsOf(t) = {[id |-> entries[t], task |-> t, cron |-> task[t].cron]}

\* A stopped task that is not upset, and that nobody works on, has no entry left,
\* neither in cron nor in the map.
StoppedHasNoJob ==
    \A t \in Task \ upset :
        Free(t) /\ task[t].status = "stopped" => JobsOf(t) = {} /\ entries[t] = Zero

\* What CreateTask says it makes sure of (scheduled_task_service.go:48): a name
\* that is taken is not given again.
NamesUnique ==
    \A s, t \in Task : Exists(s) /\ Exists(t) /\ task[s].name = task[t].name => s = t

\* What scheduler.go:165 says of the write after a run (it updates the times
\* of the last and the next run): a stopped task becomes active by a request.
StoppedUntilRequested ==
    [][\A t \in Task :
        task[t].status = "stopped" /\ task'[t].status = "active" =>
            \E r \in Requests : pc[r] = "update" /\ pc'[r] # "update"]_vars

===============================================================================
