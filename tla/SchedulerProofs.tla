---------------------------- MODULE SchedulerProofs -----------------------------
(***************************************************************************)
(* Theorems about Scheduler, for any number of tasks, goroutines, entries  *)
(* and faults.                                                             *)
(***************************************************************************)
EXTENDS Scheduler, FiniteSetTheorems, TLAPS

\* What a goroutine is about to insert has a status: the default is set before.
\* What it is about to enter into cron has an expression that cron takes.
ReadyFor(place, row) ==
    /\ place = "insert" => row.status # Zero
    /\ place = "enter" => row.cron \in Cron
Ready == \A a \in Actor : ReadyFor(pc[a], my[a].row)

\* TypeOK, but for the history variable.
Typed ==
    /\ task \in [Task -> {row \in Row : row.status # Zero}]
    /\ jobs \subseteq Job
    /\ entries \in [Task -> Entry \cup {Zero}]
    /\ pc \in [Actor -> Place]
    /\ my \in [Actor -> Local]
    /\ now \in 0 .. MaxTime
    /\ faults \in 0 .. MaxFaults

TypeInv == Typed /\ Ready

UpsetTyped == upset \subseteq Task

ControlOK ==
    /\ pc \in [Actor -> Place]
    /\ my \in [Actor -> Local]
    /\ Ready

---------------------------------------------------------------------------
(* Where a goroutine goes. *)

LEMMA LocalsType == Locals \in Local /\ Empty \in Row
  BY DEF Locals, Local, Empty, Row, Kind, Status

\* A goroutine moves to a place, with locals of the right type.
LEMMA MoveType ==
    ASSUME ControlOK, NEW a \in Actor, NEW place \in Place, NEW local \in Local,
           GoTo(a, place), Keep(a, local),
           ReadyFor(place, local.row)
    PROVE  ControlOK'
  BY DEF ControlOK, GoTo, Keep, Ready

LEMMA StayType ==
    ASSUME ControlOK, NEW a \in Actor, NEW place \in Place, GoTo(a, place), UNCHANGED my,
           ReadyFor(place, my[a].row)
    PROVE  ControlOK'
  BY DEF ControlOK, GoTo, Ready

LEMMA FinishType ==
    ASSUME ControlOK, NEW a \in Actor, Finish(a)
    PROVE  ControlOK'
  <1>1. "idle" \in Place
    BY DEF Place
  <1>2. \A row : ReadyFor("idle", row)
    BY DEF ReadyFor
  <1> QED
    BY <1>1, <1>2, LocalsType, MoveType DEF Finish

LEMMA GoType ==
    ASSUME ControlOK, NEW a \in Actor, NEW place \in Place, Go(a, place), ReadyFor(place, my[a].row)
    PROVE  ControlOK'
  BY FinishType, StayType DEF Go

\* Any other place asks for nothing.
LEMMA ReadyElsewhere ==
    ASSUME NEW place, place \notin {"insert", "enter"}, NEW row
    PROVE  ReadyFor(place, row)
  BY DEF ReadyFor

LEMMA FaultType ==
    ASSUME faults \in 0 .. MaxFaults, Succeeds \/ Fails
    PROVE  faults' \in 0 .. MaxFaults
  BY BoundsAssumption DEF Succeeds, Fails

\* What is written to the table is a row.
LEMMA SavedType ==
    ASSUME task \in [Task -> {row \in Row : row.status # Zero}], NEW t \in Task, NEW p \in Row
    PROVE  Saved(t, p) \in [Task -> {row \in Row : row.status # Zero}]
  <1>1. \A row \in Row : row.status # Zero =>
            Updated(row, p) \in Row /\ Updated(row, p).status # Zero
    BY DEF Updated, Or, Row
  <1> QED
    BY <1>1 DEF Saved

LEMMA ExpiredType == ASSUME TypeInv PROVE Found \in SUBSET Stale
  BY DEF Found, ExpiredTasks, TypeInv, Typed, Stale, Row

---------------------------------------------------------------------------
(* The operations, one lemma each. *)

LEMMA InitType == Init => TypeInv
  <1> SUFFICES ASSUME Init PROVE TypeInv
    OBVIOUS
  <1>1. [Empty EXCEPT !.status = "new"] \in {row \in Row : row.status # Zero}
    BY ZeroAssumption DEF Empty, Row, Status
  <1>2. "idle" \in Place
    BY DEF Place
  <1> QED
    BY <1>1, <1>2, LocalsType, BoundsAssumption DEF Init, TypeInv, Typed, Ready, ReadyFor

\* An operation starts: its control and its fault count.
LEMMA StartsType ==
    ASSUME TypeInv, NEW a \in Actor, NEW place \in Place, NEW local \in Local,
           Starts(a, place, local), ReadyFor(place, local.row)
    PROVE  ControlOK' /\ faults' \in 0 .. MaxFaults
  <1>1. ControlOK
    BY DEF TypeInv, Typed, ControlOK
  <1>2. ControlOK'
    BY <1>1, MoveType DEF Starts
  <1> QED
    BY <1>2, FaultType DEF Starts, TypeInv, Typed

LEMMA RequestType ==
    ASSUME TypeInv, NEW a \in Requests, Request(a)
    PROVE  TypeInv'
  <1>a. a \in Actor
    BY DEF Actor
  <1>p. /\ {"insert", "update", "run"} \subseteq Place
        /\ \A row : ReadyFor("update", row) /\ ReadyFor("run", row)
    BY ReadyElsewhere DEF Place
  <1>s. \A t \in Task : task[t] \in Row /\ task[t].status # Zero
    BY DEF TypeInv, Typed
  <1>1. CASE CreateTask(a)
    <2>1. PICK p \in Created :
              Starts(a, "insert", [Locals EXCEPT !.kind = "change", !.row = NewRow(p)])
      BY <1>1 DEF CreateTask
    <2>2. NewRow(p) \in Row /\ NewRow(p).status # Zero
      BY RowsAssumption, ZeroAssumption DEF NewRow, Or, Row, Status
    <2>3. [Locals EXCEPT !.kind = "change", !.row = NewRow(p)] \in Local
      BY <2>2, LocalsType DEF Local, Kind, Locals
    <2>4. ControlOK' /\ faults' \in 0 .. MaxFaults
      BY <1>a, <1>p, <2>1, <2>2, <2>3, StartsType DEF Locals, ReadyFor
    <2> QED
      BY <1>1, <2>4 DEF CreateTask, TypeInv, Typed, ControlOK
  <1>2. CASE UpdateTask(a)
    <2>1. PICK t \in Task, p \in Changes :
              Starts(a, "update", [Locals EXCEPT !.kind = "change", !.task = {t}, !.row = p])
      BY <1>2 DEF UpdateTask
    <2>2. [Locals EXCEPT !.kind = "change", !.task = {t}, !.row = p] \in Local
      BY RowsAssumption, LocalsType DEF Local, Kind, Locals
    <2>3. ControlOK' /\ faults' \in 0 .. MaxFaults
      BY <1>a, <1>p, <2>1, <2>2, StartsType
    <2> QED
      BY <1>2, <2>3 DEF UpdateTask, TypeInv, Typed, ControlOK
  <1>3. ASSUME NEW status \in Status, Toggle(a, status) PROVE TypeInv'
    <2>1. PICK t \in Task :
              Starts(a, "update", [Locals EXCEPT !.kind = "change", !.task = {t},
                                                 !.row = [task[t] EXCEPT !.status = status]])
      BY <1>3 DEF Toggle
    <2>2. [task[t] EXCEPT !.status = status] \in Row
      BY <1>s DEF Row
    <2>3. [Locals EXCEPT !.kind = "change", !.task = {t},
                         !.row = [task[t] EXCEPT !.status = status]] \in Local
      BY <2>2, LocalsType DEF Local, Kind, Locals
    <2>4. ControlOK' /\ faults' \in 0 .. MaxFaults
      BY <1>a, <1>p, <2>1, <2>3, StartsType
    <2> QED
      BY <1>3, <2>4 DEF Toggle, TypeInv, Typed, ControlOK
  <1>4. CASE RunTask(a)
    <2>1. PICK t \in Task :
              Starts(a, "run", [Locals EXCEPT !.kind = "run", !.task = {t}, !.row = task[t]])
      BY <1>4 DEF RunTask
    <2>2. [Locals EXCEPT !.kind = "run", !.task = {t}, !.row = task[t]] \in Local
      BY <1>s, LocalsType DEF Local, Kind, Locals
    <2>3. ControlOK' /\ faults' \in 0 .. MaxFaults
      BY <1>a, <1>p, <2>1, <2>2, StartsType
    <2> QED
      BY <1>4, <2>3 DEF RunTask, TypeInv, Typed, ControlOK
  <1>5. {"active", "stopped"} \subseteq Status
    BY DEF Status
  <1> QED
    BY <1>1, <1>2, <1>3, <1>4, <1>5 DEF Request, EnableTask, DisableTask

LEMMA DeleteType == ASSUME TypeInv, DeleteTask PROVE TypeInv'
  <1>1. [Empty EXCEPT !.status = "gone"] \in {row \in Row : row.status # Zero}
    BY ZeroAssumption DEF Empty, Row, Status
  <1>2. task' \in [Task -> {row \in Row : row.status # Zero}]
    BY <1>1 DEF DeleteTask, TypeInv, Typed
  <1> QED
    BY <1>2 DEF DeleteTask, TypeInv, Typed, Ready

\* What the two lemmas of steps below say of the variables of control.
LEMMA StepControl ==
    ASSUME TypeInv, NEW a \in Actor, Step(a)
    PROVE  ControlOK'
  <1>c. ControlOK
    BY DEF TypeInv, Typed, ControlOK
  <1>m. my[a] \in Local
    BY DEF TypeInv, Typed
  <1>s. \A t \in Task : task[t] \in Row /\ task[t].status # Zero
    BY DEF TypeInv, Typed
  <1>p. /\ {"idle", "update", "reload", "remove", "forget", "add", "enter", "map", "note", "run",
            "drop"} \subseteq Place
        /\ \A place \in {"idle", "update", "reload", "remove", "forget", "add", "map", "note", "run",
                         "drop"} : \A row : ReadyFor(place, row)
    BY ReadyElsewhere DEF Place
  <1>r. AfterRemove(a) \in {"add", "idle", "drop"} /\ AfterRun(a) \in {"update", "idle"}
    BY DEF AfterRemove, AfterRun
  <1>1. CASE Insert(a)
    <2>1. CASE Finish(a)
      BY <1>c, <2>1, FinishType
    <2>2. ASSUME NEW t \in Task, GoTo(a, "reload"), Keep(a, [my[a] EXCEPT !.task = {t}])
          PROVE  ControlOK'
      <3>1. [my[a] EXCEPT !.task = {t}] \in Local
        BY <1>m DEF Local
      <3> QED
        BY <1>c, <1>p, <2>2, <3>1, MoveType
    <2> QED
      BY <1>1, <2>1, <2>2 DEF Insert
  <1>2. CASE Update(a)
    <2>1. PICK place \in {"reload", "remove", "idle"} : Go(a, place)
      BY <1>2 DEF Update
    <2> QED
      BY <1>c, <1>p, <2>1, GoType
  <1>3. CASE Reload(a)
    <2>1. CASE Finish(a)
      BY <1>c, <2>1, FinishType
    <2>2. ASSUME NEW t \in Task, GoTo(a, "remove"), Keep(a, [my[a] EXCEPT !.row = task[t]])
          PROVE  ControlOK'
      <3>1. [my[a] EXCEPT !.row = task[t]] \in Local
        BY <1>m, <1>s DEF Local
      <3> QED
        BY <1>c, <1>p, <2>2, <3>1, MoveType
    <2> QED
      BY <1>3, <1>m, <2>1, <2>2 DEF Reload, Local
  <1>4. CASE Remove(a)
    <2>1. Go(a, "forget") \/ Go(a, AfterRemove(a))
      BY <1>4 DEF Remove
    <2> QED
      BY <1>c, <1>p, <1>r, <2>1, GoType
  <1>5. CASE Forget(a)
    BY <1>5, <1>c, <1>p, <1>r, GoType DEF Forget, Forgotten
  <1>6. CASE Add(a)
    BY <1>6, <1>c, <1>p, FinishType, StayType DEF Add, ReadyFor
  <1>7. CASE Map(a)
    <2>1. [my[a] EXCEPT !.id = Zero] \in Local
      BY <1>m DEF Local
    <2> QED
      BY <1>7, <1>c, <1>p, <2>1, MoveType DEF Map
  <1>8. CASE Note(a)
    BY <1>8, <1>c, FinishType DEF Note
  <1>9. CASE Execute(a)
    <2>1. CASE Finish(a)
      BY <1>c, <2>1, FinishType
    <2>2. ASSUME NEW place \in {"remove", "update", "run"}, NEW row \in Row,
                 GoTo(a, place), Keep(a, [my[a] EXCEPT !.row = row])
          PROVE  ControlOK'
      <3>1. [my[a] EXCEPT !.row = row] \in Local
        BY <1>m DEF Local
      <3> QED
        BY <1>c, <1>p, <2>2, <3>1, MoveType
    <2>3. \A t \in Task : [task[t] EXCEPT !.status = "expired"] \in Row
      BY <1>s DEF Row, Status
    <2>4. my[a].task \subseteq Task
      BY <1>m DEF Local
    <2> QED
      BY <1>9, <1>s, <2>1, <2>2, <2>3, <2>4 DEF Execute
  <1>10. CASE Run(a)
    BY <1>10, <1>c, <1>p, <1>r, GoType DEF Run
  <1>11. CASE Enter(a)
    <2>1. NewId \in Entry
      BY <1>11 DEF NewId, Fresh, Enter
    <2>2. [my[a] EXCEPT !.id = NewId] \in Local
      BY <1>m, <2>1 DEF Local
    <2> QED
      BY <1>11, <1>c, <1>p, <2>2, MoveType DEF Enter
  <1> QED
    BY <1>1, <1>2, <1>3, <1>4, <1>5, <1>6, <1>7, <1>8, <1>9, <1>10, <1>11 DEF Step

\* What a step of an operation does to the table, cron and the map.
LEMMA StepData ==
    ASSUME TypeInv, NEW a \in Actor, Step(a)
    PROVE  /\ task' \in [Task -> {row \in Row : row.status # Zero}]
           /\ jobs' \subseteq Job
           /\ entries' \in [Task -> Entry \cup {Zero}]
           /\ now' = now
           /\ faults' \in 0 .. MaxFaults
  <1> DEFINE Rows == {row \in Row : row.status # Zero}
  <1>m. /\ my[a] \in Local
        /\ my[a].task \subseteq Task
        /\ my[a].row \in Row
        /\ my[a].id \in Entry \cup {Zero}
    BY DEF TypeInv, Typed, Local
  <1>t. /\ task \in [Task -> Rows]
        /\ jobs \subseteq Job
        /\ entries \in [Task -> Entry \cup {Zero}]
        /\ faults \in 0 .. MaxFaults
    BY DEF TypeInv, Typed
  <1>w. \A t \in my[a].task : Saved(t, my[a].row) \in [Task -> Rows]
    BY <1>m, <1>t, SavedType
  <1>f. Succeeds \/ Fails => faults' \in 0 .. MaxFaults
    BY <1>t, FaultType
  <1>u. faults' = faults => faults' \in 0 .. MaxFaults
    BY <1>t
  <1>j. \A t \in Task : Without(t) \subseteq Job
    BY <1>t DEF Without
  <1> HIDE DEF Rows
  <1>1. CASE Insert(a)
    <2>1. my[a].row \in Rows
      BY <1>1, <1>m DEF Insert, TypeInv, Ready, ReadyFor, Rows
    <2>2. task' \in [Task -> Rows]
      BY <1>1, <1>t, <2>1 DEF Insert
    <2> QED
      BY <1>1, <1>t, <1>f, <2>2 DEF Insert, Rows
  <1>2. CASE Update(a)
    BY <1>2, <1>t, <1>w, <1>f DEF Update, Rows
  <1>3. CASE Reload(a)
    BY <1>3, <1>t, <1>f DEF Reload, Rows
  <1>4. CASE Remove(a)
    BY <1>4, <1>m, <1>t, <1>j, <1>u DEF Remove, Rows
  <1>5. CASE Forget(a)
    <2>1. entries' \in [Task -> Entry \cup {Zero}]
      BY <1>5, <1>m, <1>t DEF Forget, Forgotten
    <2> QED
      BY <1>5, <1>t, <1>u, <2>1 DEF Forget, Forgotten, Rows
  <1>6. CASE Add(a)
    BY <1>6, <1>m, <1>t, <1>j, <1>u DEF Add, Rows
  <1>7. CASE Map(a)
    <2>1. entries' \in [Task -> Entry \cup {Zero}]
      BY <1>7, <1>m, <1>t DEF Map
    <2> QED
      BY <1>7, <1>t, <1>u, <2>1 DEF Map, Rows
  <1>8. CASE Note(a)
    BY <1>8, <1>t, <1>w, <1>f DEF Note, Rows
  <1>9. CASE Execute(a)
    <2>1. Succeeds \/ Fails
      BY <1>9 DEF Execute
    <2> QED
      BY <1>9, <1>t, <1>f, <2>1 DEF Execute, Rows
  <1>10. CASE Run(a)
    BY <1>10, <1>t, <1>u DEF Run, Rows
  <1>11. CASE Enter(a)
    <2>1. NewId \in Entry
      BY <1>11 DEF NewId, Fresh, Enter
    <2>2. my[a].row.cron \in Cron
      BY <1>11 DEF TypeInv, Ready, ReadyFor, Enter
    <2>3. jobs' \subseteq Job
      BY <1>11, <1>m, <1>t, <2>1, <2>2 DEF Enter, Job
    <2> QED
      BY <1>11, <1>t, <1>u, <2>3 DEF Enter, Rows
  <1> QED
    BY <1>1, <1>2, <1>3, <1>4, <1>5, <1>6, <1>7, <1>8, <1>9, <1>10, <1>11 DEF Step

LEMMA StepType == ASSUME TypeInv, NEW a \in Actor, Step(a) PROVE TypeInv'
  BY StepControl, StepData DEF ControlOK, TypeInv, Typed

LEMMA FireType == ASSUME TypeInv, NEW a \in Firings, Fire(a) PROVE TypeInv'
  <1>1. PICK j \in jobs :
            Starts(a, "execute", [Locals EXCEPT !.kind = "fire", !.task = {j.task}])
    BY DEF Fire
  <1>2. [Locals EXCEPT !.kind = "fire", !.task = {j.task}] \in Local
    BY LocalsType DEF TypeInv, Typed, Job, Local, Kind, Locals
  <1>3. a \in Actor /\ "execute" \in Place /\ \A row : ReadyFor("execute", row)
    BY ReadyElsewhere DEF Actor, Place
  <1>4. ControlOK' /\ faults' \in 0 .. MaxFaults
    BY <1>1, <1>2, <1>3, StartsType
  <1> QED
    BY <1>4 DEF Fire, TypeInv, Typed, ControlOK

LEMMA WatchType == ASSUME TypeInv, Watch PROVE TypeInv'
  <1>a. Loop \in Actor
    BY DEF Actor
  <1>c. ControlOK
    BY DEF TypeInv, Typed, ControlOK
  <1>m. my[Loop] \in Local /\ my[Loop].due \subseteq Stale
    BY <1>a DEF TypeInv, Typed, Local
  <1>p. /\ {"expire", "again", "drop", "remove"} \subseteq Place
        /\ \A place \in {"expire", "again", "drop", "remove"} : \A row : ReadyFor(place, row)
    BY ReadyElsewhere DEF Place
  <1>d. \A due \in SUBSET Stale : [my[Loop] EXCEPT !.due = due] \in Local
    BY <1>m DEF Local
  <1>1. CASE Tick
    <2>1. [Locals EXCEPT !.kind = "tick", !.due = Found] \in Local
      BY LocalsType, ExpiredType DEF Local, Kind, Locals
    <2>2. [Locals EXCEPT !.kind = "tick"] \in Local
      BY LocalsType DEF Local, Kind, Locals
    <2>3. CASE Starts(Loop, IF ExpiredTasks = {} THEN "again" ELSE "expire",
                      [Locals EXCEPT !.kind = "tick", !.due = Found])
      <3>1. ControlOK' /\ faults' \in 0 .. MaxFaults
        BY <1>a, <1>p, <2>1, <2>3, StartsType
      <3> QED
        BY <1>1, <3>1 DEF Tick, TypeInv, Typed, ControlOK
    <2>4. CASE /\ GoTo(Loop, "again") /\ Keep(Loop, [Locals EXCEPT !.kind = "tick"])
               /\ Fails
      <3>1. ControlOK'
        BY <1>a, <1>c, <1>p, <2>2, <2>4, MoveType
      <3>2. faults' \in 0 .. MaxFaults
        BY <2>4, FaultType DEF TypeInv, Typed
      <3> QED
        BY <1>1, <3>1, <3>2 DEF Tick, TypeInv, Typed, ControlOK
    <2> QED
      BY <1>1, <2>3, <2>4 DEF Tick
  <1>2. CASE Expire
    <2>1. ASSUME NEW d \in my[Loop].due,
                 task' = Saved(d.task, [d.row EXCEPT !.status = "expired"]),
                 GoTo(Loop, IF my[Loop].due = {d} THEN "again" ELSE "expire"),
                 Keep(Loop, [my[Loop] EXCEPT !.due = my[Loop].due \ {d}])
          PROVE  ControlOK' /\ task' \in [Task -> {row \in Row : row.status # Zero}]
      <3>1. d.task \in Task /\ [d.row EXCEPT !.status = "expired"] \in Row
        BY <1>m DEF Stale, Row, Status
      <3>2. task' \in [Task -> {row \in Row : row.status # Zero}]
        BY <2>1, <3>1, SavedType DEF TypeInv, Typed
      <3>3. [my[Loop] EXCEPT !.due = my[Loop].due \ {d}] \in Local
        BY <1>m, <1>d
      <3> QED
        BY <1>a, <1>c, <1>p, <2>1, <3>2, <3>3, MoveType
    <2>2. ASSUME GoTo(Loop, "again"), Keep(Loop, [my[Loop] EXCEPT !.due = {}])
          PROVE  ControlOK'
      BY <1>a, <1>c, <1>d, <1>p, <2>2, MoveType
    <2>3. ControlOK' /\ task' \in [Task -> {row \in Row : row.status # Zero}]
      BY <1>2, <2>1, <2>2 DEF Expire, TypeInv, Typed
    <2>4. faults' \in 0 .. MaxFaults
      BY <1>2, FaultType DEF Expire, TypeInv, Typed
    <2> QED
      BY <1>2, <2>3, <2>4 DEF Expire, TypeInv, Typed, ControlOK
  <1>3. CASE Again
    <2>1. ControlOK'
      BY <1>3, <1>a, <1>c, <1>d, <1>p, ExpiredType, FinishType, MoveType DEF Again
    <2>2. faults' \in 0 .. MaxFaults
      BY <1>3, FaultType DEF Again, TypeInv, Typed
    <2> QED
      BY <1>3, <2>1, <2>2 DEF Again, TypeInv, Typed, ControlOK
  <1>4. CASE Drop
    <2>1. PICK d \in my[Loop].due :
              Keep(Loop, [my[Loop] EXCEPT !.task = {d.task}, !.due = my[Loop].due \ {d}])
      BY <1>4, <1>a DEF Drop
    <2>2. [my[Loop] EXCEPT !.task = {d.task}, !.due = my[Loop].due \ {d}] \in Local
      BY <1>m DEF Local, Stale
    <2>3. ControlOK'
      BY <1>4, <1>a, <1>c, <1>p, <2>1, <2>2, MoveType DEF Drop
    <2> QED
      BY <1>4, <2>3 DEF Drop, TypeInv, Typed, ControlOK
  <1>5. CASE Step(Loop)
    BY <1>5, <1>a, StepType
  <1> QED
    BY <1>1, <1>2, <1>3, <1>4, <1>5 DEF Watch

LEMMA AdvanceType == ASSUME TypeInv, Advance PROVE TypeInv'
  BY BoundsAssumption DEF Advance, TypeInv, Typed, Ready

LEMMA RestartType == ASSUME TypeInv, Restart PROVE TypeInv'
  <1> DEFINE loaded == {t \in Task : task[t].status = "active" /\ task[t].cron \in Cron}
  <1>1. PICK id \in [loaded -> Entry] :
            /\ jobs' = {[id |-> id[t], task |-> t, cron |-> task[t].cron] : t \in loaded}
            /\ entries' = [t \in Task |-> IF t \in loaded THEN id[t] ELSE Zero]
    BY DEF Restart
  <1>2. jobs' \subseteq Job
    BY <1>1 DEF Job
  <1>3. entries' \in [Task -> Entry \cup {Zero}]
    BY <1>1
  <1>4. pc' \in [Actor -> Place] /\ my' \in [Actor -> Local] /\ Ready'
    BY LocalsType DEF Restart, Place, Ready, ReadyFor
  <1>5. faults' \in 0 .. MaxFaults
    BY FaultType DEF Restart, TypeInv, Typed
  <1> QED
    BY <1>2, <1>3, <1>4, <1>5 DEF Restart, TypeInv, Typed

LEMMA NextType == TypeInv /\ [Next]_vars => TypeInv'
  <1>1. CASE TypeInv /\ UNCHANGED vars
    BY <1>1 DEF vars, control, TypeInv, Typed, Ready
  <1>2. CASE TypeInv /\ Next
    <2>1. ASSUME NEW a \in Requests, Request(a) \/ Step(a) PROVE TypeInv'
      BY <1>2, <2>1, RequestType, StepType DEF Actor
    <2>2. ASSUME NEW a \in Firings, Fire(a) \/ Step(a) PROVE TypeInv'
      BY <1>2, <2>2, FireType, StepType DEF Actor
    <2> QED
      BY <1>2, <2>1, <2>2, DeleteType, WatchType, AdvanceType, RestartType DEF Next, Happens
  <1> QED
    BY <1>1, <1>2

LEMMA TypeInvariant == Spec => []TypeInv
  BY InitType, NextType, PTL DEF Spec

\* The scheduler is type correct; in particular every row that exists has a
\* status (CreateTask sets the default before the insert).
THEOREM TypeCorrect == Spec => []TypeOK
  <1>1. Init => UpsetTyped
    BY DEF Init, UpsetTyped
  <1>2. UpsetTyped /\ [Next]_vars => UpsetTyped'
    BY DEF Next, Noted, vars, UpsetTyped
  <1>3. TypeInv /\ UpsetTyped => TypeOK
    BY DEF TypeInv, Typed, UpsetTyped, TypeOK
  <1> QED
    BY <1>1, <1>2, <1>3, TypeInvariant, PTL DEF Spec

---------------------------------------------------------------------------
(* Deleted tasks. *)

\* An update does not touch a row that is gone.
LEMMA SavedKeepsGone ==
    ASSUME TypeInv, NEW t \in Task, NEW s \in Task, NEW p \in Row,
           task' = Saved(s, p), task[t].status = "gone"
    PROVE  task'[t].status = "gone"
  BY DEF TypeInv, Typed, Saved, Exists

LEMMA StepKeepsGone ==
    ASSUME TypeInv, NEW a \in Actor, Step(a), NEW t \in Task, task[t].status = "gone"
    PROVE  task'[t].status = "gone"
  <1>m. my[a].task \subseteq Task /\ my[a].row \in Row
    BY DEF TypeInv, Typed, Local
  <1>1. CASE Insert(a)
    BY <1>1 DEF Insert, TypeInv, Typed
  <1>2. CASE Update(a)
    BY <1>2, <1>m, SavedKeepsGone DEF Update
  <1>3. CASE Note(a)
    BY <1>3, <1>m, SavedKeepsGone DEF Note
  <1>4. CASE UNCHANGED task
    BY <1>4
  <1> QED
    BY <1>1, <1>2, <1>3, <1>4
       DEF Step, Reload, Remove, Forget, Add, Enter, Map, Execute, Run

LEMMA NextKeepsGone ==
    ASSUME TypeInv, [Next]_vars, NEW t \in Task, task[t].status = "gone"
    PROVE  task'[t].status = "gone"
  <1>1. ASSUME NEW a \in Actor, Step(a) PROVE task'[t].status = "gone"
    BY <1>1, StepKeepsGone
  <1>2. CASE DeleteTask
    BY <1>2 DEF DeleteTask, Exists, TypeInv, Typed
  <1>3. CASE Expire
    <2>1. ASSUME NEW d \in my[Loop].due,
                 task' = Saved(d.task, [d.row EXCEPT !.status = "expired"])
          PROVE  task'[t].status = "gone"
      <3>1. d.task \in Task /\ [d.row EXCEPT !.status = "expired"] \in Row
        BY DEF TypeInv, Typed, Local, Actor, Stale, Row, Status
      <3> QED
        BY <2>1, <3>1, SavedKeepsGone
    <2> QED
      BY <1>3, <2>1 DEF Expire
  <1>4. CASE UNCHANGED task
    BY <1>4
  <1> QED
    BY <1>1, <1>2, <1>3, <1>4
       DEF Next, Happens, vars, control, Actor, Request, CreateTask, UpdateTask, EnableTask, DisableTask, Toggle, RunTask,
           Fire, Watch, Tick, Again, Drop, Advance, Restart

\* A deleted task does not come back, however many stale copies of its row
\* requests, firings and the loop still hold and write.
THEOREM DeletedForGood == Spec => DeletedStaysDeleted
  <1>1. TypeInv /\ [Next]_vars =>
            [\A t \in Task : task[t].status = "gone" => task'[t].status = "gone"]_vars
    BY NextKeepsGone
  <1> QED
    BY <1>1, TypeInvariant, PTL DEF Spec, DeletedStaysDeleted

---------------------------------------------------------------------------
(* What a goroutine has in hand, whatever the others do: facts about its   *)
(* place and its locals alone.                                             *)

\* Where an operation can be, by its kind.
Route(kind) ==
    CASE kind = "none" -> {"idle"}
      [] kind = "change" -> {"insert", "update", "reload", "remove", "forget", "add", "enter", "map", "note"}
      [] kind = "run" -> {"run"}
      [] kind = "fire" -> {"execute", "run", "update", "remove", "forget"}
      [] kind = "tick" -> {"expire", "again", "drop", "remove", "forget"}

\* An operation is about one task, except that the loop remembers several; the
\* loop has no row of its own; what is added to cron or run by cron is active.
Formed(place, local) ==
    /\ place \in Route(local.kind)
    /\ place = "idle" => local = Locals
    /\ \A s, t \in local.task : s = t
    /\ local.due # {} => local.kind = "tick"
    /\ local.kind = "tick" => local.row = Empty
    /\ local.id # Zero => place = "map"
    /\ local.row.status \notin {"new", "gone"}
    /\ place \in {"add", "enter", "map", "note"} => local.row.status = "active"
    /\ local.kind = "fire" /\ place = "run" => local.row.status = "active"
    /\ local.kind = "fire" /\ place = "update" => local.row.status \in {"active", "expired"}

Base == TypeInv /\ \A a \in Actor : Formed(pc[a], my[a])

\* The others stay where they are.
Only(a) == \A b \in Actor : b # a => pc'[b] = pc[b] /\ my'[b] = my[b]

LEMMA Moved ==
    ASSUME TypeInv, NEW a \in Actor, NEW place, NEW local, GoTo(a, place), Keep(a, local)
    PROVE  pc'[a] = place /\ my'[a] = local /\ Only(a)
  BY DEF TypeInv, Typed, GoTo, Keep, Only

LEMMA Stayed ==
    ASSUME TypeInv, NEW a \in Actor, NEW place, GoTo(a, place), UNCHANGED my
    PROVE  pc'[a] = place /\ my'[a] = my[a] /\ Only(a)
  BY DEF TypeInv, Typed, GoTo, Only

LEMMA MoveBase ==
    ASSUME Base, TypeInv', NEW a \in Actor, NEW place, NEW local,
           GoTo(a, place), Keep(a, local), Formed(place, local)
    PROVE  Base'
  BY Moved DEF Base, Only

LEMMA LocalsFormed == Formed("idle", Locals)
  BY ZeroAssumption DEF Formed, Locals, Route, Empty, Status

LEMMA FinishBase ==
    ASSUME Base, TypeInv', NEW a \in Actor, Finish(a)
    PROVE  Base'
  BY LocalsFormed, MoveBase DEF Finish

LEMMA StayBase ==
    ASSUME Base, TypeInv', NEW a \in Actor, NEW place, GoTo(a, place), UNCHANGED my, Formed(place, my[a])
    PROVE  Base'
  BY Stayed DEF Base, Only

LEMMA GoBase ==
    ASSUME Base, TypeInv', NEW a \in Actor, NEW place, Go(a, place),
           place # "idle" => Formed(place, my[a])
    PROVE  Base'
  BY FinishBase, StayBase DEF Go

\* The kind of an operation, from where it is.
LEMMA Kinds ==
    ASSUME Base, NEW a \in Actor
    PROVE  /\ pc[a] \in {"insert", "reload", "add", "enter", "map", "note"} => my[a].kind = "change"
           /\ pc[a] = "update" => my[a].kind \in {"change", "fire"}
           /\ pc[a] \in {"remove", "forget"} => my[a].kind \in {"change", "fire", "tick"}
           /\ pc[a] = "execute" => my[a].kind = "fire"
           /\ pc[a] = "run" => my[a].kind \in {"run", "fire"}
           /\ pc[a] \in {"expire", "again", "drop"} => my[a].kind = "tick"
           /\ my[a].kind # "tick" => my[a].due = {}
           /\ pc[a] # "map" => my[a].id = Zero
           /\ my[a] \in Local /\ my[a].task \subseteq Task /\ my[a].row \in Row /\ my[a].due \subseteq Stale
           /\ \A t \in my[a].task : my[a].task = {t}
  <1>1. my[a] \in Local /\ Formed(pc[a], my[a])
    BY DEF Base, TypeInv, Typed
  <1> QED
    BY <1>1 DEF Formed, Route, Local, Kind

\* A step of an operation, one case per action.
LEMMA StepBase == ASSUME Base, TypeInv', NEW a \in Actor, Step(a) PROVE Base'
  <1>m. /\ Formed(pc[a], my[a]) /\ my[a] \in Local /\ my[a].task \subseteq Task
        /\ \A t \in Task : task[t] \in Row
    BY Kinds DEF Base, TypeInv, Typed
  <1>z. Zero \notin {"new", "gone"}
    BY ZeroAssumption DEF Status
  <1>f. ASSUME Finish(a) PROVE Base'
    BY <1>f, FinishBase
  <1>1. CASE Insert(a)
    <2>1. ASSUME NEW t \in Task, GoTo(a, "reload"), Keep(a, [my[a] EXCEPT !.task = {t}])
          PROVE  Base'
      <3>1. Formed("reload", [my[a] EXCEPT !.task = {t}])
        BY <1>1, <1>m, Kinds DEF Insert, Formed, Route, Local
      <3> QED
        BY <2>1, <3>1, MoveBase
    <2> QED
      BY <1>1, <1>f, <2>1 DEF Insert
  <1>2. CASE Update(a)
    <2>1. PICK place : Go(a, place) /\ (place # "idle" => place \in Route(my[a].kind) \ {"update", "run"})
                       /\ place \in {"reload", "remove", "idle"}
      BY <1>2, Kinds DEF Update, Route
    <2>2. place # "idle" => Formed(place, my[a])
      BY <1>2, <1>m, <2>1, Kinds DEF Update, Formed
    <2> QED
      BY <2>1, <2>2, GoBase
  <1>3. CASE Reload(a)
    <2>1. ASSUME NEW t \in Task, Exists(t), GoTo(a, "remove"), Keep(a, [my[a] EXCEPT !.row = task[t]])
          PROVE  Base'
      <3>1. Formed("remove", [my[a] EXCEPT !.row = task[t]])
        BY <1>3, <1>m, <2>1, Kinds DEF Reload, Formed, Route, Local, Exists
      <3> QED
        BY <2>1, <3>1, MoveBase
    <2> QED
      BY <1>3, <1>m, <1>f, <2>1 DEF Reload
  <1>4. CASE Remove(a) \/ Forget(a)
    <2>1. PICK place \in {"forget", "add", "drop", "idle"} :
              Go(a, place) /\ (place # "idle" => place \in Route(my[a].kind))
              /\ (place = "add" => my[a].row.status = "active")
      BY <1>4, Kinds DEF Remove, Forget, AfterRemove, Schedules, Route
    <2>2. place # "idle" => Formed(place, my[a])
      BY <1>4, <1>m, <2>1, Kinds DEF Remove, Forget, Formed
    <2> QED
      BY <2>1, <2>2, GoBase
  <1>5. CASE Add(a)
    <2>1. ASSUME GoTo(a, "enter"), UNCHANGED my PROVE Base'
      <3>1. Formed("enter", my[a])
        BY <1>5, <1>m, Kinds DEF Add, Formed, Route
      <3> QED
        BY <2>1, <3>1, StayBase
    <2> QED
      BY <1>5, <1>f, <2>1 DEF Add
  <1>10. CASE Enter(a)
    <2>1. Formed("map", [my[a] EXCEPT !.id = NewId])
      BY <1>10, <1>m, Kinds DEF Enter, Formed, Route, Local
    <2> QED
      BY <1>10, <2>1, MoveBase DEF Enter
  <1>6. CASE Map(a)
    <2>1. Formed("note", [my[a] EXCEPT !.id = Zero])
      BY <1>6, <1>m, Kinds DEF Map, Formed, Route, Local
    <2> QED
      BY <1>6, <2>1, MoveBase DEF Map
  <1>7. CASE Note(a)
    BY <1>7, <1>f DEF Note
  <1>8. CASE Execute(a)
    <2>1. ASSUME NEW place \in {"remove", "update", "run"}, NEW row, row.status \notin {"new", "gone"},
                 place = "run" => row.status = "active", place = "update" => row.status = "expired",
                 GoTo(a, place), Keep(a, [my[a] EXCEPT !.row = row])
          PROVE  Base'
      <3>1. Formed(place, [my[a] EXCEPT !.row = row])
        BY <1>8, <1>m, <2>1, Kinds DEF Execute, Formed, Route, Local
      <3> QED
        BY <2>1, <3>1, MoveBase
    <2>2. \A t \in Task : [task[t] EXCEPT !.status = "expired"].status = "expired"
      BY <1>m DEF Row
    <2> QED
      BY <1>8, <1>m, <1>f, <2>1, <2>2 DEF Execute, Exists
  <1>9. CASE Run(a)
    <2>1. AfterRun(a) # "idle" => Formed(AfterRun(a), my[a])
      BY <1>9, <1>m, Kinds DEF Run, Formed, Route, AfterRun
    <2> QED
      BY <1>9, <2>1, GoBase DEF Run
  <1> QED
    BY <1>1, <1>2, <1>3, <1>4, <1>5, <1>6, <1>7, <1>8, <1>9, <1>10 DEF Step

\* A goroutine takes up an operation.
Started(a, place, local) ==
    /\ pc[a] = "idle" /\ GoTo(a, place) /\ Keep(a, local)
    /\ local \in Local /\ Formed(place, local)
    /\ UNCHANGED <<task, jobs, entries, now>>

\* A request: to insert a row, to update one, or to run a task.
LEMMA RequestStarts ==
    ASSUME Base, NEW a \in Requests, Request(a)
    PROVE  \E place, local :
              /\ Started(a, place, local) /\ Succeeds
              /\ local.due = {}
              /\ \/ place = "insert" /\ local.task = {}
                 \/ place = "update" /\ local.kind = "change"
                 \/ place = "run" /\ local.kind = "run" /\ \A t \in local.task : Exists(t)
  <1>s. \A t \in Task : task[t] \in Row
    BY DEF Base, TypeInv, Typed
  <1>1. CASE CreateTask(a)
    <2>1. PICK p \in Created :
              Starts(a, "insert", [Locals EXCEPT !.kind = "change", !.row = NewRow(p)])
      BY <1>1 DEF CreateTask
    <2>2. NewRow(p) \in Row /\ NewRow(p).status \notin {"new", "gone"}
      BY RowsAssumption DEF NewRow, Or, Row, Status
    <2> DEFINE local == [Locals EXCEPT !.kind = "change", !.row = NewRow(p)]
    <2>3. /\ local \in Local /\ Formed("insert", local)
          /\ local.due = {} /\ local.task = {}
      BY <2>2, LocalsType DEF Local, Kind, Locals, Formed, Route
    <2>4. Started(a, "insert", local) /\ Succeeds
      BY <1>1, <2>1, <2>3 DEF CreateTask, Started, Starts
    <2> QED
      BY <2>3, <2>4
  <1>2. ASSUME NEW t \in Task, NEW row \in Row, row.status \notin {"new", "gone"},
               Starts(a, "update", [Locals EXCEPT !.kind = "change", !.task = {t}, !.row = row]),
               UNCHANGED <<task, jobs, entries, now>>
        PROVE  \E place, local :
                  /\ Started(a, place, local) /\ Succeeds
                  /\ local.due = {}
                  /\ place = "update" /\ local.kind = "change"
    <2> DEFINE local == [Locals EXCEPT !.kind = "change", !.task = {t}, !.row = row]
    <2>1. /\ local \in Local /\ Formed("update", local)
          /\ local.due = {} /\ local.kind = "change"
      BY <1>2, LocalsType DEF Local, Kind, Locals, Formed, Route
    <2>2. Started(a, "update", local) /\ Succeeds
      BY <1>2, <2>1 DEF Started, Starts
    <2> QED
      BY <2>1, <2>2
  <1>3. CASE UpdateTask(a)
    <2>1. PICK t \in Task, p \in Changes :
              Starts(a, "update", [Locals EXCEPT !.kind = "change", !.task = {t}, !.row = p])
      BY <1>3 DEF UpdateTask
    <2>2. p \in Row /\ p.status \notin {"new", "gone"}
      BY RowsAssumption
    <2> QED
      BY <1>2, <1>3, <2>1, <2>2 DEF UpdateTask
  <1>4. ASSUME NEW status \in {"active", "stopped"}, Toggle(a, status)
        PROVE  \E t \in Task, row \in Row :
                  /\ row.status = status
                  /\ Starts(a, "update", [Locals EXCEPT !.kind = "change", !.task = {t}, !.row = row])
                  /\ UNCHANGED <<task, jobs, entries, now>>
    <2>1. PICK t \in Task :
              Starts(a, "update", [Locals EXCEPT !.kind = "change", !.task = {t},
                                                 !.row = [task[t] EXCEPT !.status = status]])
      BY <1>4 DEF Toggle
    <2>2. /\ [task[t] EXCEPT !.status = status] \in Row
          /\ [task[t] EXCEPT !.status = status].status = status
      BY <1>s DEF Row, Status
    <2> QED
      BY <1>4, <2>1, <2>2 DEF Toggle
  <1>5. CASE RunTask(a)
    <2>1. PICK t \in Task :
              /\ Exists(t)
              /\ Starts(a, "run", [Locals EXCEPT !.kind = "run", !.task = {t}, !.row = task[t]])
      BY <1>5 DEF RunTask
    <2> DEFINE local == [Locals EXCEPT !.kind = "run", !.task = {t}, !.row = task[t]]
    <2>2. /\ local \in Local /\ Formed("run", local)
          /\ local.due = {} /\ local.task = {t} /\ local.kind = "run"
      BY <1>s, <2>1, LocalsType DEF Local, Kind, Locals, Formed, Route, Exists
    <2>3. Started(a, "run", local) /\ Succeeds
      BY <1>5, <2>1, <2>2 DEF RunTask, Started, Starts
    <2> QED
      BY <2>1, <2>2, <2>3
  <1>6. CASE EnableTask(a) \/ DisableTask(a)
    BY <1>2, <1>4, <1>6 DEF EnableTask, DisableTask
  <1> QED
    BY <1>1, <1>2, <1>3, <1>5, <1>6 DEF Request

\* A firing: for a task that has an entry.
LEMMA FireStarts ==
    ASSUME Base, NEW a \in Firings, Fire(a)
    PROVE  \E j \in jobs, local \in Local :
              /\ Started(a, "execute", local) /\ Succeeds
              /\ local.due = {} /\ local.kind = "fire" /\ local.task = {j.task} /\ local.row = Empty
              /\ j.task \in Task
  <1>1. PICK j \in jobs :
            Starts(a, "execute", [Locals EXCEPT !.kind = "fire", !.task = {j.task}])
    BY DEF Fire
  <1> DEFINE local == [Locals EXCEPT !.kind = "fire", !.task = {j.task}]
  <1>2. j.task \in Task
    BY DEF Base, TypeInv, Typed, Job
  <1>3. Zero \notin {"new", "gone"}
    BY ZeroAssumption DEF Status
  <1>4. /\ local \in Local /\ Formed("execute", local)
        /\ local.due = {} /\ local.kind = "fire" /\ local.task = {j.task} /\ local.row = Empty
    BY <1>2, <1>3, LocalsType DEF Local, Kind, Locals, Formed, Route, Empty
  <1>5. Started(a, "execute", local) /\ Succeeds
    BY <1>1, <1>4 DEF Fire, Started, Starts
  <1> QED
    BY <1>2, <1>4, <1>5

\* The loop: with the tasks that are due, or without when it cannot read them.
LEMMA TickStarts ==
    ASSUME Base, Tick
    PROVE  \E place \in {"expire", "again"}, local \in Local :
              /\ Started(Loop, place, local)
              /\ local.due \subseteq Found /\ local.kind = "tick" /\ local.task = {}
  <1>1. Found \in SUBSET Stale
    BY ExpiredType DEF Base
  <1>2. Zero \notin {"new", "gone"}
    BY ZeroAssumption DEF Status
  <1>3. ASSUME NEW place \in {"expire", "again"}, NEW local, pc[Loop] = "idle",
               GoTo(Loop, place), Keep(Loop, local),
               \/ local = [Locals EXCEPT !.kind = "tick", !.due = Found]
               \/ local = [Locals EXCEPT !.kind = "tick"]
        PROVE  /\ Started(Loop, place, local) /\ local \in Local
               /\ local.due \subseteq Found /\ local.kind = "tick" /\ local.task = {}
    <2>1. /\ local \in Local /\ local.kind = "tick" /\ local.task = {} /\ local.row = Empty
          /\ local.due \subseteq Found /\ local.id = Zero
      BY <1>1, <1>3, LocalsType DEF Local, Kind, Locals
    <2>2. Formed(place, local)
      BY <1>2, <1>3, <2>1 DEF Formed, Route, Empty
    <2>3. Started(Loop, place, local)
      BY <1>3, <2>1, <2>2 DEF Tick, Started
    <2> QED
      BY <2>1, <2>3
  <1> QED
    BY <1>3 DEF Tick, Starts

\* What the loop does then: it drops rows from its list, or makes a new one.
LEMMA LoopMoves ==
    ASSUME Base, Expire \/ Again \/ Drop
    PROVE  /\ Loop \in Actor /\ my[Loop].kind = "tick"
           /\ UNCHANGED <<jobs, entries, now>>
           /\ \E place \in {"idle", "expire", "again", "drop", "remove"}, local \in Local :
                /\ GoTo(Loop, place) /\ Keep(Loop, local) /\ Formed(place, local)
                /\ \/ place = "idle" /\ local = Locals /\ task' = task
                   \/ /\ local.kind = "tick" /\ local.row = Empty
                      /\ \/ /\ place \in {"expire", "again"} /\ local.task = my[Loop].task
                            /\ local.due \subseteq my[Loop].due
                            /\ \/ task' = task
                               \/ \E d \in my[Loop].due :
                                    /\ task' = Saved(d.task, [d.row EXCEPT !.status = "expired"])
                                    /\ local.due = my[Loop].due \ {d}
                         \/ /\ place = "drop" /\ local.task = my[Loop].task
                            /\ local.due = Found /\ task' = task
                         \/ \E d \in my[Loop].due :
                               /\ place = "remove" /\ local.task = {d.task}
                               /\ local.due = my[Loop].due \ {d} /\ task' = task
  <1>a. Loop \in Actor
    BY DEF Actor
  <1>k. /\ my[Loop].kind = "tick" /\ my[Loop] \in Local /\ my[Loop].due \subseteq Stale
        /\ my[Loop].row = Empty /\ my[Loop].id = Zero /\ Formed(pc[Loop], my[Loop])
        /\ \A s, t \in my[Loop].task : s = t
    <2>1. /\ my[Loop].kind = "tick" /\ my[Loop] \in Local /\ my[Loop].due \subseteq Stale
          /\ my[Loop].id = Zero
      BY <1>a, Kinds DEF Expire, Again, Drop
    <2> QED
      BY <1>a, <2>1 DEF Base, Formed
  <1>f. Found \in SUBSET Stale
    BY ExpiredType DEF Base
  <1>l. ASSUME NEW place \in {"expire", "again", "drop", "remove"}, NEW local \in Local,
               local.kind = "tick", local.row = Empty, local.id = Zero, \A s, t \in local.task : s = t
        PROVE  Formed(place, local)
    BY <1>k, <1>l DEF Formed, Route
  <1>d. ASSUME NEW due \in SUBSET Stale
        PROVE  LET local == [my[Loop] EXCEPT !.due = due] IN
               /\ local \in Local /\ local.kind = "tick" /\ local.row = Empty /\ local.due = due
               /\ local.task = my[Loop].task /\ local.id = Zero
    BY <1>k DEF Local
  <1>1. CASE Expire
    <2>1. PICK place \in {"expire", "again"}, due \in SUBSET my[Loop].due :
              /\ GoTo(Loop, place) /\ Keep(Loop, [my[Loop] EXCEPT !.due = due])
              /\ \/ task' = task
                 \/ \E d \in my[Loop].due :
                      /\ task' = Saved(d.task, [d.row EXCEPT !.status = "expired"])
                      /\ due = my[Loop].due \ {d}
      BY <1>1 DEF Expire
    <2> DEFINE local == [my[Loop] EXCEPT !.due = due]
    <2>2. /\ local \in Local /\ local.kind = "tick" /\ local.row = Empty /\ local.due = due
          /\ local.task = my[Loop].task /\ local.id = Zero
      BY <1>d, <1>k
    <2> HIDE DEF local
    <2>3. Formed(place, local)
      BY <1>k, <1>l, <2>2
    <2>4. GoTo(Loop, place) /\ Keep(Loop, local)
      BY <2>1 DEF local
    <2>5. UNCHANGED <<jobs, entries, now>>
      BY <1>1 DEF Expire
    <2>6. \/ task' = task
          \/ \E d \in my[Loop].due :
               /\ task' = Saved(d.task, [d.row EXCEPT !.status = "expired"])
               /\ local.due = my[Loop].due \ {d}
      BY <2>1, <2>2
    <2>7. local.due \subseteq my[Loop].due
      BY <2>1, <2>2
    <2> QED
      BY <1>a, <1>k, <2>2, <2>3, <2>4, <2>5, <2>6, <2>7
  <1>2. CASE Again
    <2>1. CASE Finish(Loop)
      BY <1>2, <1>a, <1>k, <2>1, LocalsFormed, LocalsType DEF Again, Finish
    <2>2. CASE GoTo(Loop, "drop") /\ Keep(Loop, [my[Loop] EXCEPT !.due = Found])
      <3> DEFINE local == [my[Loop] EXCEPT !.due = Found]
      <3>1. /\ local \in Local /\ local.kind = "tick" /\ local.row = Empty /\ local.due = Found
            /\ local.task = my[Loop].task /\ local.id = Zero
        BY <1>d, <1>f
      <3> HIDE DEF local
      <3>2. Formed("drop", local)
        BY <1>k, <1>l, <3>1
      <3> QED
        BY <1>2, <1>a, <1>k, <2>2, <3>1, <3>2 DEF Again, local
    <2> QED
      BY <1>2, <2>1, <2>2 DEF Again
  <1>3. CASE Drop
    <2>1. PICK d \in my[Loop].due :
              Keep(Loop, [my[Loop] EXCEPT !.task = {d.task}, !.due = my[Loop].due \ {d}])
      BY <1>3, <1>a DEF Drop
    <2> DEFINE local == [my[Loop] EXCEPT !.task = {d.task}, !.due = my[Loop].due \ {d}]
    <2>2. /\ local \in Local /\ local.kind = "tick" /\ local.row = Empty
          /\ local.due = my[Loop].due \ {d} /\ local.task = {d.task} /\ local.id = Zero
      BY <1>k DEF Local, Stale
    <2> HIDE DEF local
    <2>3. Formed("remove", local)
      BY <1>l, <2>2
    <2> QED
      BY <1>3, <1>a, <1>k, <2>1, <2>2, <2>3 DEF Drop, local
  <1> QED
    BY <1>1, <1>2, <1>3

LEMMA InitBase == Init => Base
  BY InitType, LocalsFormed DEF Init, Base

LEMMA NextBase == ASSUME Base, [Next]_vars PROVE Base'
  <1>t. TypeInv'
    BY NextType DEF Base
  <1>s. ASSUME NEW a \in Actor, NEW place, NEW local, Started(a, place, local) PROVE Base'
    BY <1>s, <1>t, MoveBase DEF Started
  <1>1. CASE UNCHANGED <<pc, my>>
    BY <1>1, <1>t DEF Base
  <1>2. CASE Restart
    BY <1>2, <1>t, LocalsFormed DEF Restart, Base
  <1>3. ASSUME NEW a \in Actor, Step(a) PROVE Base'
    BY <1>3, <1>t, StepBase
  <1>4. ASSUME NEW a \in Requests, Request(a) PROVE Base'
    BY <1>4, <1>s, RequestStarts DEF Actor
  <1>5. ASSUME NEW a \in Firings, Fire(a) PROVE Base'
    BY <1>5, <1>s, FireStarts DEF Actor
  <1>6. CASE Tick
    BY <1>6, <1>s, TickStarts DEF Actor
  <1>7. CASE Expire \/ Again \/ Drop
    BY <1>7, <1>t, LoopMoves, MoveBase
  <1> QED
    BY <1>1, <1>2, <1>3, <1>4, <1>5, <1>6, <1>7 DEF Next, Happens, Watch, vars, control, Actor, DeleteTask, Advance

LEMMA BaseInvariant == Spec => []Base
  <1>1. Base /\ [Next]_vars => Base'
    BY NextBase
  <1> QED
    BY <1>1, InitBase, PTL DEF Spec

\* A step of an operation moves one goroutine; it keeps its list, its kind and,
\* but for the one that is named, each of the other locals.
LEMMA StepMoves ==
    ASSUME Base, NEW a \in Actor, Step(a)
    PROVE  /\ Only(a) /\ pc[a] # "idle" /\ now' = now
           /\ \/ pc'[a] = "idle" /\ my'[a] = Locals
              \/ /\ my'[a].kind = my[a].kind /\ my'[a].due = my[a].due
                 /\ my'[a].task = my[a].task \/ pc[a] = "insert"
                 /\ my'[a].row = my[a].row \/ pc[a] \in {"reload", "execute"}
                 /\ my'[a].id = my[a].id \/ my'[a].id = Zero \/ pc[a] = "enter"
  <1>t. TypeInv /\ my[a] \in Local
    BY Kinds DEF Base
  <1>f. ASSUME Finish(a) PROVE Only(a) /\ pc'[a] = "idle" /\ my'[a] = Locals
    BY <1>f, <1>t, Moved DEF Finish
  <1>g. ASSUME NEW place, Go(a, place)
        PROVE  Only(a) /\ ((pc'[a] = "idle" /\ my'[a] = Locals) \/ my'[a] = my[a])
    BY <1>f, <1>g, <1>t, Stayed DEF Go
  <1>1. CASE Insert(a)
    <2>1. ASSUME NEW t \in Task, GoTo(a, "reload"), Keep(a, [my[a] EXCEPT !.task = {t}])
          PROVE  Only(a) /\ my'[a] = [my[a] EXCEPT !.task = {t}]
      BY <1>t, <2>1, Moved
    <2>2. Only(a) /\ ((pc'[a] = "idle" /\ my'[a] = Locals) \/ \E t \in Task : my'[a] = [my[a] EXCEPT !.task = {t}])
      BY <1>1, <1>f, <2>1 DEF Insert
    <2> QED
      BY <1>1, <1>t, <2>2 DEF Insert, Local
  <1>2. CASE Update(a)
    BY <1>2, <1>g DEF Update
  <1>3. CASE Reload(a)
    <2>1. Only(a) /\ ((pc'[a] = "idle" /\ my'[a] = Locals) \/ \E t \in Task : my'[a] = [my[a] EXCEPT !.row = task[t]])
      BY <1>3, <1>f, <1>t, Moved DEF Reload, Local
    <2> QED
      BY <1>3, <1>t, <2>1 DEF Reload, Local
  <1>4. CASE Remove(a) \/ Forget(a)
    BY <1>4, <1>g DEF Remove, Forget
  <1>5. CASE Add(a)
    BY <1>5, <1>f, <1>t, Stayed DEF Add
  <1>10. CASE Enter(a)
    <2>1. Only(a) /\ my'[a] = [my[a] EXCEPT !.id = NewId]
      BY <1>10, <1>t, Moved DEF Enter
    <2> QED
      BY <1>10, <1>t, <2>1 DEF Enter, Local
  <1>6. CASE Map(a)
    <2>1. Only(a) /\ my'[a] = [my[a] EXCEPT !.id = Zero]
      BY <1>6, <1>t, Moved DEF Map
    <2> QED
      BY <1>6, <1>t, <2>1 DEF Map, Local
  <1>7. CASE Note(a)
    BY <1>7, <1>f DEF Note
  <1>8. CASE Execute(a)
    <2>1. ASSUME NEW place, NEW row, GoTo(a, place), Keep(a, [my[a] EXCEPT !.row = row])
          PROVE  /\ Only(a) /\ my'[a].kind = my[a].kind /\ my'[a].due = my[a].due
                 /\ my'[a].task = my[a].task /\ my'[a].id = my[a].id
      <3>1. Only(a) /\ my'[a] = [my[a] EXCEPT !.row = row]
        BY <1>t, <2>1, Moved
      <3> QED
        BY <1>t, <3>1 DEF Local
    <2> QED
      BY <1>8, <1>f, <2>1 DEF Execute
  <1>9. CASE Run(a)
    BY <1>9, <1>g DEF Run
  <1> QED
    BY <1>1, <1>2, <1>3, <1>4, <1>5, <1>6, <1>7, <1>8, <1>9, <1>10 DEF Step

---------------------------------------------------------------------------
(* The time of a task that becomes expired. *)

\* What a firing or the loop will write as expired was due when it was read.
Dated(a) ==
    /\ my[a].kind = "fire" /\ pc[a] = "update" /\ my[a].row.status = "expired" => Due(my[a].row)
    /\ \A d \in my[a].due : Due(d.row)

\* Only requests change tasks.
Changer(a) == my[a].kind = "change" => a \in Requests

DateInv == Base /\ \A a \in Actor : Dated(a) /\ Changer(a)

\* What is due stays so.
LEMMA DueStays ==
    ASSUME TypeInv, [Next]_vars, NEW row \in Row, Due(row)
    PROVE  Due(row)'
  <1>1. ASSUME NEW a \in Actor, Step(a) PROVE now' = now
    <2>1. now' = now
      BY <1>1 DEF Step, Insert, Update, Reload, Remove, Forget, Add, Enter, Map, Note, Execute, Run
    <2> QED
      BY <2>1
  <1>2. ASSUME NEW a \in Actor, Request(a) \/ Fire(a) PROVE now' = now
    BY <1>2 DEF Request, CreateTask, UpdateTask, EnableTask, DisableTask, Toggle, RunTask, Fire
  <1>3. now' = now \/ now' = now + 1
    BY <1>1, <1>2 DEF Next, Happens, vars, control, Watch, Tick, Expire, Again, Drop, DeleteTask, Advance, Restart, Actor
  <1>4. now \in Nat /\ (row.destroyAt # Zero => row.destroyAt \in Nat)
    BY BoundsAssumption DEF TypeInv, Typed, Row, Instant
  <1> QED
    BY <1>3, <1>4 DEF Due

LEMMA NextDated == DateInv /\ [Next]_vars => DateInv'
  <1> SUFFICES ASSUME DateInv, [Next]_vars PROVE DateInv'
    OBVIOUS
  <1>b. Base /\ Base' /\ TypeInv
    BY NextBase DEF DateInv, Base
  <1>d. \A row \in Row : Due(row) => Due(row)'
    BY <1>b, DueStays
  <1>k. ASSUME NEW b \in Actor, my'[b] = my[b], pc'[b] = pc[b] PROVE Dated(b)' /\ Changer(b)'
    <2>1. my[b].row \in Row /\ \A e \in my[b].due : e.row \in Row
      BY <1>b, Kinds DEF Stale
    <2> QED
      BY <1>d, <1>k, <2>1 DEF Dated, DateInv, Changer
  \* one moves; its list is no longer, or new, and what it will write is due
  <1>m. ASSUME NEW a \in Actor, Only(a),
               \A e \in my'[a].due : e \in my[a].due \/ e \in Found,
               my'[a].kind = "change" => a \in Requests,
               my'[a].kind = "fire" /\ pc'[a] = "update" /\ my'[a].row.status = "expired" =>
                   my'[a].row \in Row /\ Due(my'[a].row)
        PROVE  DateInv'
    <2>1. \A e \in my'[a].due : e.row \in Row /\ Due(e.row)
      <3>1. \A e \in Found : e.row \in Row /\ Due(e.row)
        BY <1>b DEF Found, ExpiredTasks, TypeInv, Typed
      <3>2. \A e \in my[a].due : e.row \in Row /\ Due(e.row)
        BY <1>b, Kinds DEF Stale, DateInv, Dated
      <3> QED
        BY <1>m, <3>1, <3>2
    <2>2. PICK row : row = my'[a].row
      OBVIOUS
    <2>3. Dated(a)' /\ Changer(a)'
      BY <1>d, <1>m, <2>1, <2>2 DEF Dated, Changer
    <2> QED
      BY <1>b, <1>k, <1>m, <2>3 DEF DateInv, Only
  <1>s. ASSUME NEW a \in Actor, NEW place, NEW local, Started(a, place, local), local.due \subseteq Found,
               local.kind = "fire" => place # "update", local.kind = "change" => a \in Requests
        PROVE  DateInv'
    <2>1. pc'[a] = place /\ my'[a] = local /\ Only(a)
      BY <1>b, <1>s, Moved DEF Started
    <2> QED
      BY <1>m, <1>s, <2>1
  <1>1. ASSUME NEW a \in Actor, Step(a) PROVE DateInv'
    <2>1. /\ Only(a) /\ my'[a].due \subseteq my[a].due
          /\ my'[a].kind = "change" => a \in Requests
      BY <1>1, <1>b, StepMoves DEF Locals, DateInv, Changer
    <2>2. CASE my'[a].kind = "fire" /\ pc'[a] = "update" /\ my'[a].row.status = "expired"
      <3>1. my'[a].kind = my[a].kind /\ (my'[a].row = my[a].row \/ pc[a] = "execute" \/ pc[a] = "reload")
        BY <1>1, <1>b, <2>2, StepMoves DEF Locals
      <3>2. CASE Execute(a)
        <4>1. PICK t \in my[a].task : task[t].status = "active" /\ Passed(task[t])
                  /\ Keep(a, [my[a] EXCEPT !.row = [task[t] EXCEPT !.status = "expired"]])
          BY <1>b, <2>2, <3>2, Moved DEF Execute, Finish
        <4>2. task[t] \in Row /\ [task[t] EXCEPT !.status = "expired"] \in Row
          <5>1. t \in Task
            BY <1>b, Kinds
          <5>2. task[t] \in Row
            BY <1>b, <5>1 DEF TypeInv, Typed
          <5> QED
            BY <5>2 DEF Row, Status
        <4>3. my'[a].row = [task[t] EXCEPT !.status = "expired"]
          BY <1>b, <4>1, Kinds DEF Keep, TypeInv, Typed, Local
        <4>4. my'[a].row.destroyAt = task[t].destroyAt
          BY <4>2, <4>3 DEF Row
        <4>5. Due(task[t])
          BY <1>b, <4>1, <4>2, BoundsAssumption DEF Passed, Due, Row, TypeInv, Typed, Instant
        <4>6. Due(my'[a].row)
          BY <4>4, <4>5 DEF Due
        <4> QED
          BY <1>m, <2>1, <4>2, <4>3, <4>6
      <3>3. CASE Run(a)
        <4>1. my'[a].row = my[a].row /\ my[a].row.status = "active"
          BY <1>b, <2>2, <3>1, <3>3 DEF Run, Base, Formed
        <4> QED
          BY <2>2, <4>1
      <3>4. pc[a] \notin {"execute", "run"} => pc'[a] # "update"
        <4>1. ASSUME NEW place \in {"reload", "remove", "forget", "add", "enter", "drop", "map", "note", "idle"},
                     GoTo(a, place) \/ Go(a, place)
              PROVE  pc'[a] # "update"
          BY <1>b, <4>1 DEF GoTo, Go, Finish, TypeInv, Typed
        <4>2. CASE Insert(a) \/ Update(a)
          BY <4>1, <4>2 DEF Insert, Update, Finish
        <4>3. CASE Reload(a) \/ Remove(a) \/ Forget(a) \/ Add(a) \/ Enter(a) \/ Map(a) \/ Note(a)
          BY <4>1, <4>3 DEF Reload, Remove, Forget, AfterRemove, Add, Enter, Map, Note, Finish
        <4> QED
          BY <1>1, <4>2, <4>3 DEF Step, Execute, Run
      <3>5. Execute(a) \/ Run(a)
        BY <1>1, <2>2, <3>4
           DEF Step, Insert, Update, Reload, Remove, Forget, Add, Enter, Map, Note, Execute, Run
      <3> QED
        BY <3>2, <3>3, <3>5
    <2> QED
      BY <1>m, <2>1, <2>2
  <1>2. ASSUME NEW a \in Requests, Request(a) PROVE DateInv'
    <2>1. PICK place, local : Started(a, place, local) /\ local.due = {} /\ local.kind # "fire"
      BY <1>2, <1>b, RequestStarts DEF Started, Formed, Route, Local, Kind
    <2> QED
      BY <1>s, <2>1 DEF Actor
  <1>3. ASSUME NEW a \in Firings, Fire(a) PROVE DateInv'
    BY <1>3, <1>b, <1>s, FireStarts DEF Actor
  <1>4. CASE Tick
    BY <1>4, <1>b, <1>s, TickStarts DEF Actor
  <1>5. CASE Expire \/ Again \/ Drop
    <2>1. PICK place, local :
              /\ GoTo(Loop, place) /\ Keep(Loop, local) /\ local.kind \notin {"fire", "change"}
              /\ \A e \in local.due : e \in my[Loop].due \/ e \in Found
      BY <1>5, <1>b, LoopMoves DEF Locals
    <2>2. my'[Loop] = local /\ Only(Loop) /\ Loop \in Actor
      BY <1>b, <2>1, Moved DEF Actor
    <2> QED
      BY <1>m, <2>1, <2>2
  <1>6. CASE Restart
    BY <1>6, <1>b DEF Restart, DateInv, Dated, Changer, Locals
  <1>7. CASE UNCHANGED <<pc, my>>
    BY <1>7, <1>b, <1>k DEF DateInv
  <1> QED
    BY <1>1, <1>2, <1>3, <1>4, <1>5, <1>6, <1>7 DEF Next, Happens, Watch, vars, control, Actor, DeleteTask, Advance

LEMMA SavedExpires ==
    ASSUME TypeInv, NEW t \in Task, NEW p \in Row, task' = Saved(t, p),
           NEW s \in Task, task[s].status # "expired", task'[s].status = "expired"
    PROVE  p.status = "expired" /\ (Due(p) => Due(task'[s]))
  <1>1. task \in [Task -> Row]
    BY DEF TypeInv, Typed
  <1>2. s = t /\ task'[s] = Updated(task[s], p)
    BY <1>1 DEF Saved
  <1>3. p.status = "expired"
    BY <1>1, <1>2 DEF Updated, Or
  <1>4. p.destroyAt # Zero => task'[s].destroyAt = p.destroyAt
    BY <1>2 DEF Updated, Or
  <1> QED
    BY <1>3, <1>4 DEF Due

\* A task expires only when its time has come or a request says so, however
\* requests, firings and the loop overlap and whatever fails: who writes the
\* status from a stale copy writes the time with which the task was due.
THEOREM ExpiryInTime == Spec => ExpiresOnlyWhenDue
  <1>1. DateInv /\ [Next]_vars =>
            \A t \in Task :
                task[t].status # "expired" /\ task'[t].status = "expired" =>
                    \/ Due(task'[t])
                    \/ \E r \in Requests :
                          pc[r] \in {"insert", "update"} /\ pc'[r] # pc[r] /\ my[r].row.status = "expired"
    <2> SUFFICES ASSUME DateInv, [Next]_vars, NEW t \in Task,
                        task[t].status # "expired", task'[t].status = "expired",
                        ~ Due(task'[t])
                 PROVE  \E r \in Requests :
                          pc[r] \in {"insert", "update"} /\ pc'[r] # pc[r] /\ my[r].row.status = "expired"
      OBVIOUS
    <2>b. Base /\ TypeInv /\ task \in [Task -> Row]
      BY DEF DateInv, Base, TypeInv, Typed
    <2>s. ASSUME NEW a \in Actor, Step(a)
          PROVE  \E r \in Requests :
                    pc[r] \in {"insert", "update"} /\ pc'[r] # pc[r] /\ my[r].row.status = "expired"
      <3>1. my[a].row \in Row /\ my[a].task \subseteq Task /\ Formed(pc[a], my[a])
        BY <2>b, Kinds DEF Base
      <3>2. CASE Insert(a)
        <4>1. PICK s \in Task : task' = [task EXCEPT ![s] = my[a].row]
          BY <3>2 DEF Insert
        <4>2. my[a].row.status = "expired"
          BY <2>b, <4>1
        <4>3. a \in Requests /\ pc[a] = "insert"
          BY <2>b, <3>2, Kinds DEF Insert, DateInv, Changer
        <4>4. pc'[a] # "insert"
          BY <2>b, <3>2 DEF Insert, GoTo, Finish, TypeInv, Typed
        <4> QED
          BY <4>2, <4>3, <4>4
      <3>3. CASE Update(a)
        <4>1. my[a].row.status = "expired" /\ ~ Due(my[a].row)
          BY <2>b, <3>1, <3>3, SavedExpires DEF Update
        <4>2. my[a].kind = "change"
          BY <2>b, <3>3, <4>1, Kinds DEF Update, DateInv, Dated
        <4>3. a \in Requests /\ pc[a] = "update"
          BY <3>3, <4>2 DEF Update, DateInv, Changer
        <4>4. pc'[a] # "update"
          BY <2>b, <3>3 DEF Update, Go, GoTo, Finish, TypeInv, Typed
        <4> QED
          BY <4>1, <4>3, <4>4
      <3>4. CASE Note(a)
        <4>1. my[a].row.status = "expired"
          BY <2>b, <3>1, <3>4, SavedExpires DEF Note
        <4> QED
          BY <3>1, <3>4, <4>1 DEF Note, Formed
      <3>5. task' = task \/ Insert(a) \/ Update(a) \/ Note(a)
        BY <2>s DEF Step, Reload, Remove, Forget, Add, Enter, Map, Execute, Run
      <3> QED
        BY <3>2, <3>3, <3>4, <3>5
    <2>1. ASSUME Expire PROVE FALSE
      <3>1. PICK d \in my[Loop].due : task' = Saved(d.task, [d.row EXCEPT !.status = "expired"])
        BY <2>1 DEF Expire
      <3>2. d.task \in Task /\ d.row \in Row /\ Due(d.row)
        BY <2>b, Kinds DEF Stale, DateInv, Dated, Actor
      <3>3. /\ [d.row EXCEPT !.status = "expired"] \in Row
            /\ [d.row EXCEPT !.status = "expired"].destroyAt = d.row.destroyAt
        BY <3>2 DEF Row, Status
      <3>4. Due([d.row EXCEPT !.status = "expired"])
        BY <3>2, <3>3 DEF Due
      <3> QED
        BY <2>b, <3>1, <3>2, <3>3, <3>4, SavedExpires
    <2>2. ASSUME DeleteTask PROVE FALSE
      BY <2>2, <2>b DEF DeleteTask, Empty
    <2>3. ASSUME NEW a \in Actor, Request(a) \/ Fire(a) PROVE task' = task
      BY <2>3 DEF Request, CreateTask, UpdateTask, EnableTask, DisableTask, Toggle, RunTask, Fire
    <2>4. Tick \/ Again \/ Drop \/ Advance \/ Restart \/ UNCHANGED vars => task' = task
      BY DEF Tick, Again, Drop, Advance, Restart, vars, control
    <2> QED
      BY <2>s, <2>1, <2>2, <2>3, <2>4 DEF Next, Happens, Watch, Actor
  <1>2. Init => DateInv
    BY InitBase DEF Init, DateInv, Dated, Changer, Locals
  <1> QED
    BY <1>1, <1>2, NextDated, PTL DEF Spec, ExpiresOnlyWhenDue

---------------------------------------------------------------------------
(* Whose entry an id is, whatever overlaps and whatever fails. *)

\* Ids are used once, and neither the map nor a goroutine knows the id of one
\* task's entry for that of another.
IdsApart ==
    /\ \A j, k \in jobs : j.id = k.id => j = k
    /\ \A j \in jobs, t \in Task : j.id = entries[t] => j.task = t
    /\ \A j \in jobs, a \in Actor : j.id = my[a].id => j.task \in my[a].task

Bare(t) == JobsOf(t) = {} /\ entries[t] = Zero

\* Of a task not yet created cron and the map know nothing; a request may be
\* about it already.
Unmade(t) ==
    task[t].status = "new" =>
        /\ Bare(t)
        /\ \A a \in Actor :
            /\ t \in my[a].task => my[a].kind = "change" /\ pc[a] \in {"update", "reload"}
            /\ \A d \in my[a].due : d.task # t

OwnInv == Base /\ IdsApart /\ \A t \in Task : Unmade(t)

\* What is removed for a task is its own.
LEMMA WithoutOwn ==
    ASSUME IdsApart, NEW t \in Task
    PROVE  Without(t) \subseteq jobs /\ \A j \in jobs : j.task # t => j \in Without(t)
  BY DEF IdsApart, Without

LEMMA NewIdIsNew ==
    ASSUME Fresh # {}
    PROVE  /\ NewId \in Entry
           /\ \A j \in jobs : j.id # NewId
           /\ \A t \in Task : entries[t] # NewId
           /\ \A a \in Actor : my[a].id # NewId
  <1>1. NewId \in Fresh
    BY DEF NewId
  <1> QED
    BY <1>1 DEF Fresh

\* A step of an operation changes cron and the map for its own task only.
LEMMA StepOwn ==
    ASSUME Base, IdsApart, NEW a \in Actor, Step(a), NEW t \in Task, t \notin my[a].task
    PROVE  JobsOf(t)' = JobsOf(t) /\ entries'[t] = entries[t]
  <1>m. my[a].task \subseteq Task /\ entries \in [Task -> Entry \cup {Zero}]
    BY Kinds DEF Base, TypeInv, Typed
  <1>w. \A s \in my[a].task : \A j \in jobs : j.task = t => j \in Without(s)
    BY <1>m, WithoutOwn
  <1>v. \A s \in my[a].task : Without(s) \subseteq jobs
    BY DEF Without
  <1>1. CASE Remove(a) \/ Add(a)
    <2>1. jobs' = jobs \/ \E s \in my[a].task : jobs' = Without(s)
      BY <1>1 DEF Remove, Add
    <2> QED
      BY <1>1, <1>w, <1>v, <2>1 DEF Remove, Add, JobsOf
  <1>2. CASE Enter(a)
    <2>1. PICK j : j.task \in my[a].task /\ jobs' = jobs \cup {j}
      BY <1>2 DEF Enter
    <2> QED
      BY <1>2, <2>1 DEF Enter, JobsOf
  <1>3. CASE Forget(a)
    BY <1>3, <1>m DEF Forget, Forgotten, JobsOf
  <1>4. CASE Map(a)
    BY <1>4, <1>m DEF Map, JobsOf
  <1>5. CASE UNCHANGED <<jobs, entries>>
    BY <1>5 DEF JobsOf
  <1> QED
    BY <1>1, <1>2, <1>3, <1>4, <1>5
       DEF Step, Insert, Update, Reload, Note, Execute, Run

LEMMA StepIds == ASSUME OwnInv, Base', NEW a \in Actor, Step(a) PROVE IdsApart'
  <1>b. Base /\ IdsApart /\ Only(a) /\ my[a].task \subseteq Task
    BY StepMoves, Kinds DEF OwnInv
  <1>y. Zero \notin Entry
    BY ZeroAssumption
  <1>t. jobs \subseteq Job /\ jobs' \subseteq Job /\ entries \in [Task -> Entry \cup {Zero}]
    BY <1>b DEF Base, TypeInv, Typed
  <1>i. \A j \in jobs' : j.id # Zero
    BY <1>t, <1>y DEF Job
  <1>o. \A s \in my[a].task : my[a].task = {s}
    BY <1>b, Kinds
  \* nothing is added; who has moved knows no id
  <1>s. ASSUME jobs' \subseteq jobs, entries' = entries, my'[a].id = Zero PROVE IdsApart'
    <2>1. \A j \in jobs', b \in Actor : j.id = my'[b].id => j.task \in my'[b].task
      BY <1>b, <1>i, <1>s DEF IdsApart, Only
    <2> QED
      BY <1>b, <1>s, <2>1 DEF IdsApart
  <1>z. pc'[a] # "map" => my'[a].id = Zero
    BY DEF Base, Formed
  <1>1. CASE Enter(a)
    <2>1. PICK job : job.id = NewId /\ job.task \in my[a].task /\ jobs' = jobs \cup {job}
      BY <1>1 DEF Enter
    <2>2. job.id = NewId /\ job.task \in my[a].task
      BY <2>1
    <2>3. my'[a].id = NewId /\ my'[a].task = my[a].task
      BY <1>1, <1>b, Kinds DEF Enter, Keep, Base, TypeInv, Typed, Local
    <2>4. /\ \A j \in jobs : j.id # job.id
          /\ \A s \in Task : entries[s] # job.id
          /\ \A b \in Actor : my[b].id # job.id
      BY <1>1, <2>2, NewIdIsNew DEF Enter
    <2>5. \A j, k \in jobs' : j.id = k.id => j = k
      BY <1>b, <2>1, <2>4 DEF IdsApart
    <2>6. \A j \in jobs', s \in Task : j.id = entries'[s] => j.task = s
      BY <1>1, <1>b, <2>1, <2>4 DEF IdsApart, Enter
    <2>7. \A j \in jobs' : j.id = my'[a].id => j.task \in my'[a].task
      BY <2>1, <2>2, <2>3, <2>4
    <2>8. \A j \in jobs', b \in Actor : b # a /\ j.id = my'[b].id => j.task \in my'[b].task
      BY <1>b, <2>1, <2>4 DEF IdsApart, Only
    <2> QED
      BY <2>5, <2>6, <2>7, <2>8 DEF IdsApart
  <1>2. CASE Map(a)
    <2>1. PICK t \in my[a].task : entries' = [entries EXCEPT ![t] = my[a].id]
      BY <1>2 DEF Map
    <2>2. t \in Task /\ my[a].task = {t} /\ jobs' = jobs
      BY <1>2, <1>b, <1>o, <2>1 DEF Map
    <2>3. \A j \in jobs', s \in Task : j.id = entries'[s] => j.task = s
      BY <1>b, <1>t, <2>1, <2>2 DEF IdsApart
    <2>4. my'[a].id = Zero
      BY <1>2, <1>b, Kinds DEF Map, Keep, Base, TypeInv, Typed, Local
    <2>5. \A j \in jobs', b \in Actor : j.id = my'[b].id => j.task \in my'[b].task
      BY <1>b, <1>i, <2>2, <2>4 DEF IdsApart, Only
    <2> QED
      BY <1>b, <2>2, <2>3, <2>5 DEF IdsApart
  <1>3. CASE Forget(a)
    <2>1. PICK t \in my[a].task : entries' = [entries EXCEPT ![t] = Zero]
      BY <1>3 DEF Forget, Forgotten
    <2>2. t \in Task /\ jobs' = jobs
      BY <1>3, <1>b, <2>1 DEF Forget, Forgotten
    <2>3. \A j \in jobs', s \in Task : j.id = entries'[s] => j.task = s
      BY <1>b, <1>i, <1>t, <2>1, <2>2 DEF IdsApart
    <2>4. \A j \in jobs', b \in Actor : j.id = my'[b].id => j.task \in my'[b].task
      <3>1. pc'[a] # "map"
        <4>1. PICK place \in {"add", "drop", "idle"} : Go(a, place)
          BY <1>3 DEF Forget, Forgotten, AfterRemove
        <4> QED
          BY <1>b, <4>1 DEF Go, GoTo, Finish, Base, TypeInv, Typed
      <3> QED
        BY <1>b, <1>i, <1>z, <2>2, <3>1 DEF IdsApart, Only
    <2> QED
      BY <1>b, <2>2, <2>3, <2>4 DEF IdsApart
  <1>4. CASE ~ (Enter(a) \/ Map(a) \/ Forget(a))
    <2>1. jobs' \subseteq jobs /\ entries' = entries
      BY <1>4 DEF Step, Insert, Update, Reload, Remove, Add, Note, Execute, Run, Without
    <2>2. pc[a] # "enter" /\ my[a].id = Zero
      <3>1. pc[a] \notin {"enter", "map"}
        BY <1>4 DEF Step, Insert, Update, Reload, Remove, Add, Note, Execute, Run
      <3> QED
        BY <1>b, <3>1, Kinds
    <2>3. my'[a].id = Zero
      BY <1>b, <2>2, StepMoves DEF Locals
    <2> QED
      BY <1>s, <2>1, <2>3
  <1> QED
    BY <1>1, <1>2, <1>3, <1>4

\* A row that exists stays a row that has existed.
LEMMA SavedMakesNone ==
    ASSUME TypeInv, NEW t \in Task, NEW p \in Row, p.status \notin {"new", "gone"}, task' = Saved(t, p),
           NEW s \in Task
    PROVE  /\ s # t => task'[s] = task[s]
           /\ Exists(s)' <=> Exists(s)
           /\ ~ Exists(s) => task'[s] = task[s]
  <1>1. task \in [Task -> Row]
    BY DEF TypeInv, Typed
  <1>2. Exists(t) => Updated(task[t], p).status \notin {"new", "gone"}
    BY DEF Updated, Or, Exists
  <1> QED
    BY <1>1, <1>2 DEF Saved, Exists

\* What a step of an operation does to the rows of other tasks, and to rows that
\* are not there.
LEMMA StepRows ==
    ASSUME Base, NEW a \in Actor, Step(a), NEW t \in Task
    PROVE  \/ /\ Exists(t)' <=> Exists(t)
              /\ t \notin my[a].task \/ ~ Exists(t) => task'[t] = task[t]
           \/ Insert(a) /\ task[t].status = "new" /\ task' = [task EXCEPT ![t] = my[a].row] /\ Exists(t)'
  <1>m. /\ TypeInv /\ my[a].task \subseteq Task /\ my[a].row \in Row /\ my[a].row.status \notin {"new", "gone"}
        /\ task \in [Task -> Row]
    BY Kinds DEF Base, TypeInv, Typed, Formed
  <1>1. CASE Insert(a)
    BY <1>1, <1>m DEF Insert, Exists
  <1>2. CASE task' = task
    BY <1>2 DEF Exists
  <1>3. ASSUME NEW s \in my[a].task, task' = Saved(s, my[a].row)
        PROVE  /\ Exists(t)' <=> Exists(t)
               /\ t \notin my[a].task \/ ~ Exists(t) => task'[t] = task[t]
    BY <1>3, <1>m, SavedMakesNone
  <1> QED
    BY <1>1, <1>2, <1>3 DEF Step, Update, Reload, Remove, Forget, Add, Enter, Map, Note, Execute, Run

LEMMA StepUnmade ==
    ASSUME OwnInv, Base', NEW a \in Actor, Step(a), NEW t \in Task
    PROVE  Unmade(t)'
  <1> SUFFICES ASSUME task'[t].status = "new" PROVE Unmade(t)'
    BY DEF Unmade
  <1>b. Base /\ IdsApart /\ Unmade(t) /\ Only(a)
    BY StepMoves DEF OwnInv
  <1>r. task[t].status = "new"
    BY <1>b, StepRows DEF Exists
  <1>u. /\ Bare(t)
        /\ \A b \in Actor : /\ t \in my[b].task => my[b].kind = "change" /\ pc[b] \in {"update", "reload"}
                            /\ \A d \in my[b].due : d.task # t
    BY <1>b, <1>r DEF Unmade
  <1>1. Bare(t)'
    <2>1. CASE t \notin my[a].task
      BY <1>b, <1>u, <2>1, StepOwn DEF Bare
    <2>2. CASE t \in my[a].task
      <3>1. UNCHANGED <<jobs, entries>>
        BY <1>u, <2>2 DEF Step, Insert, Update, Reload, Remove, Forget, Add, Enter, Map, Note, Execute, Run
      <3> QED
        BY <1>u, <3>1 DEF Bare, JobsOf
    <2> QED
      BY <2>1, <2>2
  <1>2. \A d \in my'[a].due : d.task # t
    BY <1>b, <1>u, StepMoves DEF Locals
  <1>3. t \in my'[a].task => my'[a].kind = "change" /\ pc'[a] \in {"update", "reload"}
    <2> SUFFICES ASSUME t \in my'[a].task PROVE my'[a].kind = "change" /\ pc'[a] \in {"update", "reload"}
      OBVIOUS
    <2>1. my'[a].kind = my[a].kind /\ (my'[a].task = my[a].task \/ pc[a] = "insert")
      BY <1>b, StepMoves DEF Locals
    <2>2. ~ Insert(a)
      <3>1. ASSUME NEW s \in Task, task' = [task EXCEPT ![s] = my[a].row], Keep(a, [my[a] EXCEPT !.task = {s}])
            PROVE  FALSE
        <4>1. my'[a].task = {s}
          BY <1>b, <3>1, Kinds DEF Keep, Base, TypeInv, Typed, Local
        <4>2. s = t /\ task'[t] = my[a].row
          BY <1>b, <3>1, <4>1 DEF Base, TypeInv, Typed
        <4> QED
          BY <1>b, <4>2 DEF Base, Formed
      <3>2. ~ Finish(a)
        BY <1>b, Moved DEF Finish, Locals, Base
      <3> QED
        BY <3>1, <3>2 DEF Insert
    <2>3. t \in my[a].task
      BY <2>1, <2>2 DEF Step, Update, Reload, Remove, Forget, Add, Enter, Map, Note, Execute, Run
    <2>4. Update(a) \/ Reload(a)
      BY <1>u, <2>2, <2>3 DEF Step, Remove, Forget, Add, Enter, Map, Note, Execute, Run
    <2>5. CASE Update(a)
      <3>1. Go(a, "reload") \/ Go(a, "idle")
        BY <1>u, <2>3, <2>5 DEF Update
      <3>2. ~ Finish(a)
        BY <1>b, Moved DEF Finish, Locals, Base
      <3> QED
        BY <1>b, <1>u, <2>1, <2>3, <3>1, <3>2, Stayed DEF Go, Base
    <2>6. CASE Reload(a)
      <3>1. ~ Exists(t) /\ my[a].task = {t}
        BY <1>b, <1>r, <2>3, Kinds DEF Exists
      <3>2. Finish(a)
        BY <2>6, <3>1 DEF Reload
      <3> QED
        BY <1>b, <3>2, Moved DEF Finish, Locals, Base
    <2> QED
      BY <2>4, <2>5, <2>6
  <1>4. \A b \in Actor : b # a => my'[b] = my[b] /\ pc'[b] = pc[b]
    BY <1>b DEF Only
  <1> QED
    BY <1>1, <1>2, <1>3, <1>4, <1>u DEF Unmade

\* A goroutine moves, leaves cron and the map alone, knows no id and makes no row
\* new; what it takes up for a task that is not there is a request.
LEMMA MoveOwn ==
    ASSUME OwnInv, Base', NEW a \in Actor, Only(a), UNCHANGED <<jobs, entries>>, my'[a].id = Zero,
           \A t \in Task : task'[t].status = "new" => task[t].status = "new",
           \A t \in Task : task'[t].status = "new" =>
               /\ t \in my'[a].task => my'[a].kind = "change" /\ pc'[a] \in {"update", "reload"}
               /\ \A d \in my'[a].due : d.task # t
    PROVE  OwnInv'
  <1>y. Zero \notin Entry
    BY ZeroAssumption
  <1>i. \A j \in jobs' : j.id # Zero
    BY <1>y DEF Base, TypeInv, Typed, Job
  <1>1. \A j \in jobs', b \in Actor : j.id = my'[b].id => j.task \in my'[b].task
    BY <1>i DEF OwnInv, IdsApart, Only
  <1>2. IdsApart'
    BY <1>1 DEF OwnInv, IdsApart
  <1>3. ASSUME NEW t \in Task, task'[t].status = "new"
        PROVE  /\ Bare(t)'
               /\ \A b \in Actor : /\ t \in my'[b].task => my'[b].kind = "change" /\ pc'[b] \in {"update", "reload"}
                                   /\ \A d \in my'[b].due : d.task # t
    <2>1. Unmade(t) /\ task[t].status = "new"
      BY <1>3 DEF OwnInv
    <2>2. Bare(t)'
      BY <2>1 DEF Unmade, Bare, JobsOf
    <2>3. ASSUME NEW b \in Actor, b # a
          PROVE  /\ t \in my'[b].task => my'[b].kind = "change" /\ pc'[b] \in {"update", "reload"}
                 /\ \A d \in my'[b].due : d.task # t
      BY <2>1, <2>3 DEF Unmade, Only
    <2> QED
      BY <1>3, <2>2, <2>3
  <1>4. \A t \in Task : Unmade(t)'
    BY <1>3 DEF Unmade
  <1> QED
    BY <1>2, <1>4 DEF OwnInv

LEMMA NextOwn == OwnInv /\ [Next]_vars => OwnInv'
  <1> SUFFICES ASSUME OwnInv, [Next]_vars PROVE OwnInv'
    OBVIOUS
  <1>b. Base /\ Base' /\ TypeInv /\ IdsApart /\ \A t \in Task : Unmade(t)
    BY NextBase DEF OwnInv, Base
  <1>t. task \in [Task -> Row]
    BY <1>b DEF TypeInv, Typed
  <1>s. ASSUME NEW a \in Actor, NEW place, NEW local, Started(a, place, local), place # "map",
               \A t \in Task : task[t].status = "new" =>
                   /\ t \in local.task => local.kind = "change" /\ place = "update"
                   /\ \A d \in local.due : d.task # t
        PROVE  OwnInv'
    <2>1. pc'[a] = place /\ my'[a] = local /\ Only(a)
      BY <1>b, <1>s, Moved DEF Started
    <2>2. my'[a].id = Zero
      BY <1>b, <1>s, <2>1 DEF Base, Formed
    <2>3. task' = task /\ UNCHANGED <<jobs, entries>>
      BY <1>s DEF Started
    <2> QED
      BY <1>b, <1>s, <2>1, <2>2, <2>3, MoveOwn
  <1>f. \A d \in Found : d.task \in Task /\ task[d.task].status = "active"
    BY DEF Found, ExpiredTasks
  <1>1. ASSUME NEW a \in Actor, Step(a) PROVE OwnInv'
    BY <1>1, <1>b, StepIds, StepUnmade DEF OwnInv
  <1>2. ASSUME NEW a \in Requests, Request(a) PROVE OwnInv'
    <2>1. PICK place, local :
              /\ Started(a, place, local) /\ local.due = {} /\ place \in {"insert", "update", "run"}
              /\ \/ place = "insert" /\ local.task = {}
                 \/ place = "update" /\ local.kind = "change"
                 \/ \A t \in local.task : Exists(t)
      BY <1>2, <1>b, RequestStarts
    <2> QED
      BY <1>s, <2>1 DEF Actor, Exists
  <1>3. ASSUME NEW a \in Firings, Fire(a) PROVE OwnInv'
    <2>1. PICK j \in jobs, local \in Local :
              /\ Started(a, "execute", local) /\ local.due = {} /\ local.task = {j.task} /\ j.task \in Task
      BY <1>3, <1>b, FireStarts
    <2>2. task[j.task].status # "new"
      BY <1>b, <2>1 DEF Unmade, Bare, JobsOf
    <2> QED
      BY <1>s, <2>1, <2>2 DEF Actor
  <1>4. CASE Tick
    <2>1. PICK place \in {"expire", "again"}, local \in Local :
              Started(Loop, place, local) /\ local.due \subseteq Found /\ local.task = {}
      BY <1>4, <1>b, TickStarts
    <2> QED
      BY <1>f, <1>s, <2>1 DEF Actor
  <1>5. CASE Expire \/ Again \/ Drop
    <2>1. Loop \in Actor /\ UNCHANGED <<jobs, entries>> /\ my[Loop].kind = "tick" /\ my[Loop].due \subseteq Stale
      BY <1>5, <1>b, LoopMoves, Kinds DEF Actor
    <2>2. PICK place \in {"idle", "expire", "again", "drop", "remove"}, local \in Local :
              /\ GoTo(Loop, place) /\ Keep(Loop, local) /\ Formed(place, local)
              /\ \A d \in local.due : d \in my[Loop].due \/ d \in Found
              /\ \A t \in local.task : t \in my[Loop].task \/ \E d \in my[Loop].due : t = d.task
              /\ task' = task \/ \E d \in my[Loop].due :
                                     task' = Saved(d.task, [d.row EXCEPT !.status = "expired"])
      BY <1>5, <1>b, LoopMoves DEF Locals
    <2>3. pc'[Loop] = place /\ my'[Loop] = local /\ Only(Loop) /\ my'[Loop].id = Zero
      BY <1>b, <2>1, <2>2, Moved DEF Formed
    <2>4. ASSUME NEW t \in Task, task'[t].status = "new" PROVE task[t].status = "new"
      <3>1. ASSUME NEW d \in my[Loop].due, task' = Saved(d.task, [d.row EXCEPT !.status = "expired"])
            PROVE  task[t].status = "new"
        <4>1. d.task \in Task /\ d.row \in Row
          BY <2>1 DEF Stale
        <4>2. /\ [d.row EXCEPT !.status = "expired"] \in Row
              /\ [d.row EXCEPT !.status = "expired"].status \notin {"new", "gone"}
          BY <4>1 DEF Row, Status
        <4> QED
          BY <1>b, <2>4, <3>1, <4>1, <4>2, SavedMakesNone DEF Exists
      <3> QED
        BY <2>2, <2>4, <3>1
    <2>5. ASSUME NEW t \in Task, task'[t].status = "new"
          PROVE  t \notin local.task /\ \A d \in local.due : d.task # t
      <3>1. task[t].status = "new" /\ Unmade(t)
        BY <1>b, <2>4, <2>5
      <3>2. t \notin my[Loop].task /\ \A d \in my[Loop].due : d.task # t
        BY <2>1, <3>1 DEF Unmade
      <3> QED
        BY <1>f, <2>2, <3>1, <3>2
    <2> QED
      BY <1>b, <2>1, <2>3, <2>4, <2>5, MoveOwn
  <1>6. CASE DeleteTask \/ Advance \/ UNCHANGED vars
    <2>1. UNCHANGED <<jobs, entries, pc, my>>
      BY <1>6 DEF DeleteTask, Advance, vars, control
    <2>2. \A t \in Task : task'[t].status = "new" => task[t].status = "new"
      BY <1>6, <1>t DEF DeleteTask, Advance, vars, control, Empty
    <2> QED
      BY <1>b, <2>1, <2>2 DEF OwnInv, IdsApart, Unmade, Bare, JobsOf
  <1>7. CASE Restart
    <2> DEFINE loaded == {t \in Task : task[t].status = "active" /\ task[t].cron \in Cron}
    <2>0. \A t \in loaded : t \in Task /\ task[t].status = "active"
      OBVIOUS
    <2>1. PICK id \in [loaded -> Entry] :
              /\ \A s, t \in loaded : id[s] = id[t] => s = t
              /\ jobs' = {[id |-> id[t], task |-> t, cron |-> task[t].cron] : t \in loaded}
              /\ entries' = [t \in Task |-> IF t \in loaded THEN id[t] ELSE Zero]
      BY <1>7 DEF Restart
    <2> HIDE DEF loaded
    <2>2. task' = task /\ \A a \in Actor : my'[a].task = {} /\ my'[a].due = {} /\ my'[a].id = Zero
      BY <1>7 DEF Restart, Locals
    <2>3. Zero \notin Entry
      BY ZeroAssumption
    <2>4. \A j \in jobs' : j.task \in loaded /\ j.id = id[j.task] /\ j.cron = task[j.task].cron
      <3>1. ASSUME NEW j \in jobs' PROVE j.task \in loaded /\ j.id = id[j.task] /\ j.cron = task[j.task].cron
        <4>1. PICK t \in loaded : j = [id |-> id[t], task |-> t, cron |-> task[t].cron]
          BY <2>1
        <4> QED
          BY <4>1
      <3> QED
        BY <3>1
    <2>5. \A j, k \in jobs' : j.id = k.id => j = k
      BY <2>1
    <2>6. \A j \in jobs', t \in Task : j.id = entries'[t] => j.task = t
      BY <2>0, <2>1, <2>3, <2>4
    <2>7. \A j \in jobs' : j.id # Zero
      BY <2>1, <2>3, <2>4
    <2>8. \A t \in Task : task'[t].status = "new" => Bare(t)'
      BY <2>0, <2>1, <2>2, <2>4 DEF Bare, JobsOf
    <2> QED
      BY <1>b, <2>2, <2>5, <2>6, <2>7, <2>8 DEF OwnInv, IdsApart, Unmade
  <1> QED
    BY <1>1, <1>2, <1>3, <1>4, <1>5, <1>6, <1>7 DEF Next, Happens, Watch, Actor

LEMMA InitOwn == Init => OwnInv
  BY InitBase DEF Init, OwnInv, IdsApart, Unmade, Bare, JobsOf, Locals

LEMMA OwnInvariant == Spec => []OwnInv
  BY InitOwn, NextOwn, PTL DEF Spec

\* No step takes the entry of a task it is not about, though neither cron's
\* entries and the map nor two operations on them are kept apart by a lock: the
\* id the map has for a task is never that of another one's entry.
THEOREM EntriesOwn == Spec => OwnEntryOnly
  <1>1. OwnInv /\ [Next]_vars =>
            (faults' = faults =>
                \A j \in jobs \ jobs' :
                    \E a \in Actor : pc[a] \in {"remove", "add"} /\ j.task \in my[a].task)
    <2> SUFFICES ASSUME OwnInv, [Next]_vars, faults' = faults, NEW j \in jobs \ jobs'
                 PROVE  \E a \in Actor : pc[a] \in {"remove", "add"} /\ j.task \in my[a].task
      OBVIOUS
    <2>b. Base /\ IdsApart /\ j.task \in Task
      BY DEF OwnInv, Base, TypeInv, Typed, Job
    <2>1. ASSUME NEW a \in Actor, Step(a)
          PROVE  pc[a] \in {"remove", "add"} /\ j.task \in my[a].task
      <3>1. Remove(a) \/ Add(a)
        BY <2>1 DEF Step, Insert, Update, Reload, Forget, Enter, Map, Note, Execute, Run
      <3>2. j.task \in my[a].task
        BY <2>1, <2>b, StepOwn DEF JobsOf
      <3> QED
        BY <3>1, <3>2 DEF Remove, Add
    <2>2. ASSUME NEW a \in Actor, Request(a) \/ Fire(a) PROVE FALSE
      BY <2>2 DEF Request, CreateTask, UpdateTask, EnableTask, DisableTask, Toggle, RunTask, Fire
    <2>3. ~ (Tick \/ Expire \/ Again \/ Drop \/ DeleteTask \/ Advance \/ UNCHANGED vars)
      BY DEF Tick, Expire, Again, Drop, DeleteTask, Advance, vars, control
    <2>4. ~ Restart
      BY <2>b, BoundsAssumption DEF Restart, Fails, Base, TypeInv, Typed
    <2> QED
      BY <2>1, <2>2, <2>3, <2>4 DEF Next, Happens, Watch, Actor
  <1> QED
    BY <1>1, OwnInvariant, PTL DEF Spec, OwnEntryOnly

---------------------------------------------------------------------------
(* What the map points to. *)

\* The id a goroutine has from cron is that of an entry for its task which nobody
\* else knows.
Holds(a) ==
    pc[a] = "map" =>
        /\ my[a].id \in Entry
        /\ \E j \in jobs : j.id = my[a].id /\ j.task \in my[a].task
        /\ \A t \in Task : entries[t] # my[a].id
        /\ \A b \in Actor : my[b].id = my[a].id => b = a

MapInv == OwnInv /\ MapKnowsCron /\ \A a \in Actor : Holds(a)

\* Nobody moves between removing an entry and saying so.
Between(a, t) == pc[a] \in {"forget", "enter", "map"} /\ t \in my[a].task

\* The entries of cron stay, and so does the map; who moves was not in between.
LEMMA MapStays ==
    ASSUME MapInv, NEW a \in Actor, Only(a), UNCHANGED <<jobs, entries>>,
           pc[a] \notin {"forget", "enter", "map"}, pc'[a] # "map", my'[a].id = Zero
    PROVE  MapKnowsCron' /\ \A b \in Actor : Holds(b)'
  <1>1. MapKnowsCron'
    BY DEF MapInv, MapKnowsCron, JobsOf, Only
  <1>2. ASSUME NEW b \in Actor PROVE Holds(b)'
    BY <1>2, ZeroAssumption DEF MapInv, Holds, Only
  <1> QED
    BY <1>1, <1>2

LEMMA StepMap ==
    ASSUME MapInv, Base', NEW a \in Actor, Step(a)
    PROVE  MapKnowsCron' /\ \A b \in Actor : Holds(b)'
  <1>b. /\ Base /\ TypeInv /\ IdsApart /\ Only(a) /\ MapKnowsCron
        /\ my[a] \in Local /\ my[a].task \subseteq Task
        /\ \A t \in my[a].task : my[a].task = {t}
        /\ entries \in [Task -> Entry \cup {Zero}] /\ jobs \subseteq Job
    BY StepMoves, Kinds DEF MapInv, OwnInv, Base, TypeInv, Typed
  <1>y. Zero \notin Entry
    BY ZeroAssumption
  <1>h. \A b \in Actor : Holds(b)
    BY DEF MapInv
  <1>z. pc'[a] # "map" => my'[a].id = Zero
    BY DEF Base, Formed
  <1>1. CASE Insert(a) \/ Update(a) \/ Reload(a) \/ Note(a) \/ Execute(a) \/ Run(a)
    <2>1. UNCHANGED <<jobs, entries>> /\ pc[a] \notin {"forget", "enter", "map"}
      BY <1>1 DEF Insert, Update, Reload, Note, Execute, Run
    <2>2. my'[a].id = Zero
      BY <1>b, <2>1, Kinds, StepMoves DEF Locals
    <2>3. pc'[a] # "map"
      <3>1. PICK place \in {"idle", "reload", "remove", "update", "run"} : GoTo(a, place)
        BY <1>1 DEF Insert, Update, Reload, Note, Execute, Run, Go, Finish, AfterRun
      <3> QED
        BY <1>b, <3>1 DEF GoTo, TypeInv, Typed
    <2> QED
      BY <1>b, <2>1, <2>2, <2>3, MapStays
  <1>2. CASE Remove(a) \/ Add(a)
    <2>1. /\ pc[a] \in {"remove", "add"} /\ entries' = entries
          /\ pc'[a] # "map" /\ my'[a].id = Zero
      <3>1. CASE Remove(a)
        <4>1. PICK place \in {"forget", "add", "drop", "idle"} : Go(a, place)
          BY <1>b, <3>1 DEF Remove, AfterRemove
        <4>2. pc'[a] # "map"
          BY <1>b, <4>1, Moved, Stayed DEF Go, Finish
        <4> QED
          BY <1>z, <3>1, <4>2 DEF Remove
      <3>2. CASE Add(a)
        <4>1. pc'[a] # "map"
          BY <1>b, <3>2, Moved, Stayed DEF Add, Finish
        <4> QED
          BY <1>z, <3>2, <4>1 DEF Add
      <3> QED
        BY <1>2, <3>1, <3>2
    <2>2. \/ jobs' = jobs
          \/ \E t \in my[a].task :
                jobs' = Without(t) /\ (entries[t] # Zero => pc'[a] \in {"forget", "enter"} /\ my'[a] = my[a])
      <3>1. CASE Remove(a)
        BY <1>b, <3>1, Stayed DEF Remove, Go
      <3>2. CASE Add(a)
        BY <1>b, <3>2, Stayed DEF Add
      <3> QED
        BY <1>2, <3>1, <3>2
    <2>3. CASE jobs' = jobs
      BY <1>b, <2>1, <2>3, MapStays
    <2>4. ASSUME NEW t \in my[a].task, jobs' = Without(t),
                 entries[t] # Zero => pc'[a] \in {"forget", "enter"} /\ my'[a] = my[a]
          PROVE  MapKnowsCron' /\ \A b \in Actor : Holds(b)'
      <3>1. ASSUME NEW s \in Task, entries'[s] # Zero
            PROVE  \/ \E j \in JobsOf(s)' : j.id = entries'[s]
                   \/ \E b \in Actor : Between(b, s)'
        <4>1. CASE s = t
          BY <2>1, <2>4, <3>1, <4>1 DEF Between
        <4>2. CASE s # t
          <5>1. \/ \E j \in JobsOf(s) : j.id = entries[s]
                \/ \E b \in Actor : Between(b, s)
            BY <1>b, <2>1, <3>1 DEF MapKnowsCron, Between
          <5>2. ASSUME NEW j \in JobsOf(s), j.id = entries[s] PROVE j \in JobsOf(s)'
            BY <1>b, <2>4, <4>2, <5>2, WithoutOwn DEF JobsOf
          <5>3. ASSUME NEW b \in Actor, Between(b, s) PROVE Between(b, s)'
            BY <1>b, <2>1, <5>3 DEF Between, Only
          <5> QED
            BY <2>1, <5>1, <5>2, <5>3
        <4> QED
          BY <4>1, <4>2
      <3>2. MapKnowsCron'
        BY <3>1 DEF MapKnowsCron, Between
      <3>3. ASSUME NEW b \in Actor PROVE Holds(b)'
        <4>1. CASE b = a
          BY <2>1, <4>1 DEF Holds
        <4>2. CASE b # a
          BY <1>b, <1>h, <1>y, <2>1, <2>4, <4>2 DEF Holds, Only, Without
        <4> QED
          BY <4>1, <4>2
      <3> QED
        BY <3>2, <3>3
    <2> QED
      BY <2>2, <2>3, <2>4
  <1>3. CASE Forget(a)
    <2>1. PICK t \in my[a].task : entries' = [entries EXCEPT ![t] = Zero]
      BY <1>3 DEF Forget, Forgotten
    <2>2. t \in Task /\ my[a].task = {t} /\ jobs' = jobs /\ pc[a] = "forget"
      BY <1>3, <1>b, <2>1 DEF Forget
    <2>3. pc'[a] # "map" /\ my'[a].id = Zero
      <3>1. PICK place \in {"add", "drop", "idle"} : Go(a, place)
        BY <1>3 DEF Forget, AfterRemove
      <3>2. pc'[a] # "map"
        BY <1>b, <3>1, Moved, Stayed DEF Go, Finish
      <3> QED
        BY <1>z, <3>2
    <2>4. \A s \in Task : s # t => entries'[s] = entries[s] /\ JobsOf(s)' = JobsOf(s)
      BY <1>b, <2>1, <2>2 DEF JobsOf
    <2>5. \A b \in Actor, s \in Task : s # t /\ Between(b, s) => Between(b, s)'
      BY <1>b, <2>2 DEF Between, Only
    <2>6. MapKnowsCron'
      <3>1. entries'[t] = Zero
        BY <1>b, <2>1, <2>2
      <3> QED
        BY <1>b, <2>4, <2>5, <3>1 DEF MapKnowsCron, Between
    <2>7. ASSUME NEW b \in Actor PROVE Holds(b)'
      <3>1. CASE b = a
        BY <2>3, <3>1 DEF Holds
      <3>2. CASE b # a
        BY <1>b, <1>h, <1>y, <2>1, <2>2, <2>3, <3>2 DEF Holds, Only
      <3> QED
        BY <3>1, <3>2
    <2> QED
      BY <2>6, <2>7
  <1>4. CASE Enter(a)
    <2>1. PICK job : job.id = NewId /\ job.task \in my[a].task /\ jobs' = jobs \cup {job}
      BY <1>4 DEF Enter
    <2>2. /\ NewId \in Entry
          /\ \A t \in Task : entries[t] # NewId
          /\ \A b \in Actor : my[b].id # NewId
      BY <1>4, NewIdIsNew DEF Enter
    <2>3. /\ entries' = entries /\ pc'[a] = "map"
          /\ my'[a].id = NewId /\ my'[a].task = my[a].task
      <3>1. pc'[a] = "map" /\ my'[a] = [my[a] EXCEPT !.id = NewId]
        BY <1>4, <1>b, Moved DEF Enter
      <3> QED
        BY <1>4, <1>b, <3>1 DEF Enter, Local
    <2>4. \A b \in Actor, s \in Task : Between(b, s) => Between(b, s)'
      BY <1>b, <2>3 DEF Between, Only
    <2>5. MapKnowsCron'
      BY <1>b, <2>1, <2>3, <2>4 DEF MapKnowsCron, Between, JobsOf
    <2>6. ASSUME NEW b \in Actor PROVE Holds(b)'
      <3>1. CASE b = a
        BY <1>b, <2>1, <2>2, <2>3, <3>1 DEF Holds, Only
      <3>2. CASE b # a
        BY <1>b, <1>h, <2>1, <2>2, <2>3, <3>2 DEF Holds, Only
      <3> QED
        BY <3>1, <3>2
    <2> QED
      BY <2>5, <2>6
  <1>5. CASE Map(a)
    <2>1. PICK t \in my[a].task : entries' = [entries EXCEPT ![t] = my[a].id]
      BY <1>5 DEF Map
    <2>2. t \in Task /\ my[a].task = {t} /\ jobs' = jobs /\ pc[a] = "map"
      BY <1>5, <1>b, <2>1 DEF Map
    <2>3. pc'[a] # "map" /\ my'[a].id = Zero
      <3>1. pc'[a] = "note"
        BY <1>5, <1>b, Moved DEF Map
      <3> QED
        BY <1>z, <3>1
    <2>4. PICK j \in jobs : j.id = my[a].id /\ j.task = t
      BY <1>h, <2>2 DEF Holds
    <2>5. \A s \in Task : s # t => entries'[s] = entries[s] /\ JobsOf(s)' = JobsOf(s)
      BY <1>b, <2>1, <2>2 DEF JobsOf
    <2>6. \A b \in Actor, s \in Task : s # t /\ Between(b, s) => Between(b, s)'
      BY <1>b, <2>2 DEF Between, Only
    <2>7. MapKnowsCron'
      <3>1. entries'[t] = my[a].id /\ j \in JobsOf(t)'
        BY <1>b, <2>1, <2>2, <2>4 DEF JobsOf
      <3> QED
        BY <1>b, <2>4, <2>5, <2>6, <3>1 DEF MapKnowsCron, Between
    <2>8. ASSUME NEW b \in Actor PROVE Holds(b)'
      <3>1. CASE b = a
        BY <2>3, <3>1 DEF Holds
      <3>2. CASE b # a
        BY <1>b, <1>h, <1>y, <2>1, <2>2, <2>3, <3>2 DEF Holds, Only
      <3> QED
        BY <3>1, <3>2
    <2> QED
      BY <2>7, <2>8
  <1> QED
    BY <1>1, <1>2, <1>3, <1>4, <1>5 DEF Step

LEMMA NextMap == MapInv /\ [Next]_vars => MapInv'
  <1> SUFFICES ASSUME MapInv, [Next]_vars PROVE MapKnowsCron' /\ \A b \in Actor : Holds(b)'
    BY NextOwn DEF MapInv
  <1>b. Base /\ Base' /\ TypeInv /\ MapKnowsCron /\ \A b \in Actor : Holds(b)
    BY NextBase DEF MapInv, OwnInv, Base
  \* one moves that was not in between, and is not
  <1>m. ASSUME NEW a \in Actor, NEW place, NEW local, GoTo(a, place), Keep(a, local),
               UNCHANGED <<jobs, entries>>, pc[a] \notin {"forget", "enter", "map"}, place # "map"
        PROVE  MapKnowsCron' /\ \A b \in Actor : Holds(b)'
    <2>1. pc'[a] = place /\ Only(a)
      BY <1>b, <1>m, Moved
    <2>2. my'[a].id = Zero
      BY <1>b, <1>m, <2>1 DEF Base, Formed
    <2> QED
      BY <1>m, <2>1, <2>2, MapStays
  <1>1. ASSUME NEW a \in Actor, Step(a) PROVE MapKnowsCron' /\ \A b \in Actor : Holds(b)'
    BY <1>1, <1>b, StepMap
  <1>2. ASSUME NEW a \in Requests, Request(a) PROVE MapKnowsCron' /\ \A b \in Actor : Holds(b)'
    BY <1>2, <1>b, <1>m, RequestStarts DEF Started, Actor
  <1>3. ASSUME NEW a \in Firings, Fire(a) PROVE MapKnowsCron' /\ \A b \in Actor : Holds(b)'
    BY <1>3, <1>b, <1>m, FireStarts DEF Started, Actor
  <1>4. CASE Tick
    BY <1>4, <1>b, <1>m, TickStarts DEF Started, Actor
  <1>5. CASE Expire \/ Again \/ Drop
    <2>1. PICK place, local : GoTo(Loop, place) /\ Keep(Loop, local) /\ place # "map"
      BY <1>5, <1>b, LoopMoves
    <2> QED
      BY <1>5, <1>b, <1>m, <2>1, LoopMoves DEF Expire, Again, Drop
  <1>6. CASE UNCHANGED <<jobs, entries, pc, my>>
    BY <1>6, <1>b DEF MapKnowsCron, JobsOf, Holds
  <1>7. CASE Restart
    <2> DEFINE loaded == {t \in Task : task[t].status = "active" /\ task[t].cron \in Cron}
    <2>1. PICK id \in [loaded -> Entry] :
              /\ jobs' = {[id |-> id[t], task |-> t, cron |-> task[t].cron] : t \in loaded}
              /\ entries' = [t \in Task |-> IF t \in loaded THEN id[t] ELSE Zero]
      BY <1>7 DEF Restart
    <2>2. ASSUME NEW t \in Task, entries'[t] # Zero PROVE \E j \in JobsOf(t)' : j.id = entries'[t]
      <3>1. t \in loaded /\ entries'[t] = id[t]
        BY <2>1, <2>2
      <3>2. [id |-> id[t], task |-> t, cron |-> task[t].cron] \in jobs'
        BY <2>1, <3>1
      <3> QED
        BY <3>1, <3>2 DEF JobsOf
    <2>3. \A b \in Actor : pc'[b] = "idle"
      BY <1>7 DEF Restart
    <2> QED
      BY <2>2, <2>3 DEF MapKnowsCron, Holds
  <1> QED
    BY <1>1, <1>2, <1>3, <1>4, <1>5, <1>6, <1>7
       DEF Next, Happens, Watch, Actor, DeleteTask, Advance, vars, control

\* However the operations overlap and whatever fails, what the map has for a task
\* is an entry of that task in cron, but while somebody is between removing the
\* entry and saying so.
THEOREM MapKeepsUp == Spec => []MapKnowsCron
  <1>1. Init => MapInv
    BY InitOwn DEF Init, MapInv, MapKnowsCron, Holds
  <1>2. MapInv => MapKnowsCron
    BY DEF MapInv
  <1> QED
    BY <1>1, <1>2, NextMap, PTL DEF Spec

---------------------------------------------------------------------------
(* Cron and the map have of a task what its row asks for, until two        *)
(* goroutines write to that task at a time, or a call fails for it.        *)
(* Nothing is assumed of what happens to other tasks, nor of deletions.    *)

\* The map knows what cron has of t.
Known(t) == \A j \in JobsOf(t) : j.id = entries[t]

\* Cron and the map have of t what its row asks for.
Kept(t) ==
    /\ task[t].status = "stopped" => Bare(t)
    /\ task[t].status = "active" /\ task[t].cron \in Cron /\ ~ Due(task[t]) =>
           JobsOf(t) = {[id |-> entries[t], task |-> t, cron |-> task[t].cron]}

\* A task may lose its entry: its row asks for none, or will be looked at again.
MayLose(a, t) ==
    CASE my[a].kind = "change" -> my[a].row = task[t]
      [] my[a].kind = "tick" -> task[t].status # "active" \/ Due(task[t])
      [] OTHER -> task[t].status # "active"

\* How far a goroutine has come with a task.
Phase(a, t) ==
    /\ pc[a] \in {"remove", "forget"} => MayLose(a, t)
    /\ pc[a] = "forget" => JobsOf(t) = {}
    /\ pc[a] \in {"add", "enter"} => Bare(t)
    /\ pc[a] = "map" =>
           /\ my[a].row.cron \in Cron
           /\ JobsOf(t) = {[id |-> my[a].id, task |-> t, cron |-> my[a].row.cron]}
    /\ pc[a] \in {"add", "enter", "map", "note"} => my[a].row = task[t]
    /\ my[a].kind = "fire" /\ pc[a] = "run" => my[a].row = task[t]
    /\ my[a].kind = "fire" /\ pc[a] = "update" =>
           my[a].row = task[t] \/ my[a].row = [task[t] EXCEPT !.status = "expired"]

\* A goroutine reschedules the task just now.
Moves(a, t) == pc[a] \in {"reload", "remove", "forget", "add", "enter", "map"} /\ t \in my[a].task
Enters(a, t) == pc[a] = "map" /\ t \in my[a].task

Settled(t) ==
    Exists(t) =>
        /\ \A a \in Actor : t \in my[a].task => Phase(a, t)
        /\ \A a \in Actor : \A d \in my[a].due : d.task = t => d.row = task[t]
        /\ Kept(t) \/ \E a \in Actor : Moves(a, t)
        /\ Known(t) \/ \E a \in Actor : Enters(a, t)

Inv == OwnInv /\ DateInv

\* Who does not write to a task is not on the way to.
LEMMA NotWriting ==
    ASSUME Base, NEW a \in Actor, NEW t \in Task, t \notin Writes(a)
    PROVE  /\ \A d \in my[a].due : d.task # t
           /\ ~ Moves(a, t) /\ ~ Enters(a, t)
           /\ t \in my[a].task =>
                  /\ pc[a] \in {"run", "drop"}
                  /\ my[a].kind = "fire" => pc[a] # "run"
  <1>1. \A d \in my[a].due : d.task # t
    BY DEF Writes
  <1>2. CASE t \notin my[a].task
    BY <1>1, <1>2 DEF Moves, Enters
  <1>3. CASE my[a].kind = "run" \/ pc[a] = "drop"
    <2>1. pc[a] \in {"run", "drop"} /\ (my[a].kind = "fire" => pc[a] # "run")
      BY <1>3 DEF Base, Formed, Route
    <2> QED
      BY <1>1, <2>1 DEF Moves, Enters
  <1> QED
    BY <1>1, <1>2, <1>3 DEF Writes

\* A row of the task and its entry stay; who moves keeps what is said of him.
LEMMA Frame ==
    ASSUME NEW t \in Task, Settled(t), task'[t] = task[t], JobsOf(t)' = JobsOf(t), entries'[t] = entries[t],
           Due(task[t]) => Due(task[t])',
           \A b \in Actor :
              \/ pc'[b] = pc[b] /\ my'[b] = my[b]
              \/ /\ t \in my'[b].task => Phase(b, t)'
                 /\ \A d \in my'[b].due : d.task = t => d.row = task[t]
                 /\ Moves(b, t) => Moves(b, t)' \/ Kept(t)
                 /\ Enters(b, t) => Enters(b, t)'
    PROVE  Settled(t)'
  <1> SUFFICES ASSUME Exists(t)' PROVE Settled(t)'
    BY DEF Settled
  <1>1. Exists(t)
    BY DEF Exists
  <1>2. Kept(t) => Kept(t)'
    BY DEF Kept, Bare
  <1>3. Known(t) => Known(t)'
    BY DEF Known
  <1>4. ASSUME NEW b \in Actor, pc'[b] = pc[b], my'[b] = my[b], t \in my[b].task PROVE Phase(b, t)'
    <2>1. Phase(b, t)
      BY <1>1, <1>4 DEF Settled
    <2>2. MayLose(b, t) => MayLose(b, t)'
      BY <1>4 DEF MayLose
    <2> QED
      BY <1>4, <2>1, <2>2 DEF Phase, Bare
  <1>5. \A b \in Actor : t \in my'[b].task => Phase(b, t)'
    BY <1>4
  <1>6. \A b \in Actor : \A d \in my'[b].due : d.task = t => d.row = task'[t]
    BY <1>1 DEF Settled
  <1>7. \A b \in Actor : (Moves(b, t) => Moves(b, t)' \/ Kept(t)) /\ (Enters(b, t) => Enters(b, t)')
    BY DEF Moves, Enters
  <1>8. Kept(t)' \/ \E b \in Actor : Moves(b, t)'
    BY <1>1, <1>2, <1>7 DEF Settled
  <1>9. Known(t)' \/ \E b \in Actor : Enters(b, t)'
    BY <1>1, <1>3, <1>7 DEF Settled
  <1> QED
    BY <1>5, <1>6, <1>8, <1>9 DEF Settled

\* Who writes to the task moves: the others do not matter.
LEMMA Alone ==
    ASSUME Base, NEW a \in Actor, NEW t \in Task, Only(a), \A b \in Actor : b # a => t \notin Writes(b),
           t \in my'[a].task => Phase(a, t)',
           \A d \in my'[a].due : d.task = t => d.row = task'[t],
           Kept(t)' \/ Moves(a, t)', Known(t)' \/ Enters(a, t)'
    PROVE  Settled(t)'
  <1>1. ASSUME NEW b \in Actor, b # a
        PROVE  (t \in my'[b].task => Phase(b, t)') /\ \A d \in my'[b].due : d.task # t
    <2>1. t \notin Writes(b) /\ pc'[b] = pc[b] /\ my'[b] = my[b]
      BY <1>1 DEF Only
    <2>2. /\ \A d \in my[b].due : d.task # t
          /\ t \in my[b].task =>
                 /\ pc[b] \in {"run", "drop"}
                 /\ my[b].kind = "fire" => pc[b] # "run"
      BY <2>1, NotWriting
    <2> QED
      BY <2>1, <2>2 DEF Phase
  <1> QED
    BY <1>1 DEF Settled

\* A row that is written by who has read it.
LEMMA RowWritten ==
    ASSUME TypeInv, NEW t \in Task, NEW p \in Row, task' = Saved(t, p), Exists(t)
    PROVE  /\ p = task[t] => task' = task
           /\ p.status = "expired" => task'[t].status = "expired"
  <1>1. task \in [Task -> {row \in Row : row.status # Zero}]
    BY DEF TypeInv, Typed
  <1>2. \A row \in Row : Updated(row, row) = row
    BY DEF Updated, Or, Row
  <1>3. task' = [task EXCEPT ![t] = Updated(task[t], p)]
    BY <1>1 DEF Saved
  <1>4. p = task[t] => task' = task
    BY <1>1, <1>2, <1>3
  <1>5. p.status = "expired" => task'[t].status = "expired"
    <2>1. Zero # "expired"
      BY ZeroAssumption DEF Status
    <2> QED
      BY <1>1, <1>3, <2>1 DEF Updated, Or
  <1> QED
    BY <1>4, <1>5

LEMMA InsertSettled ==
    ASSUME Inv, Base', NEW a \in Actor, Insert(a), ~ Fails, NEW t \in Task, Settled(t)
    PROVE  Settled(t)'
  <1>b. Base /\ TypeInv /\ Only(a) /\ Unmade(t) /\ now' = now
    BY StepMoves DEF Inv, OwnInv, Base, Step
  <1>m. /\ my[a] \in Local /\ my[a].row.status \notin {"new", "gone"} /\ my[a].due = {} /\ pc[a] = "insert"
        /\ task \in [Task -> Row]
    BY <1>b, Kinds DEF Base, Formed, Insert, TypeInv, Typed
  <1>1. PICK s \in Task :
            /\ task[s].status = "new"
            /\ task' = [task EXCEPT ![s] = my[a].row]
            /\ IF my[a].row.status = "active"
               THEN GoTo(a, "reload") /\ Keep(a, [my[a] EXCEPT !.task = {s}])
               ELSE Finish(a)
    BY DEF Insert
  <1>2. UNCHANGED <<jobs, entries>> /\ JobsOf(t)' = JobsOf(t)
    BY DEF Insert, JobsOf
  <1>3. \/ /\ my[a].row.status = "active"
           /\ pc'[a] = "reload" /\ my'[a] = [my[a] EXCEPT !.task = {s}]
        \/ /\ my[a].row.status # "active"
           /\ pc'[a] = "idle" /\ my'[a] = Locals
    BY <1>1, <1>b, Moved DEF Finish
  <1>4. /\ my'[a].due = {}
        /\ \/ my'[a].task = {} /\ my[a].row.status # "active"
           \/ /\ my[a].row.status = "active" /\ my'[a].task = {s}
              /\ pc'[a] = "reload" /\ my'[a].kind = "change"
    <2>1. CASE my'[a] = [my[a] EXCEPT !.task = {s}]
      BY <1>3, <1>b, <1>m, <2>1, Kinds DEF Locals, Local
    <2>2. CASE my'[a] = Locals
      BY <1>3, <2>2 DEF Locals
    <2> QED
      BY <1>3, <2>1, <2>2
  <1>5. CASE s # t
    <2>1. task'[t] = task[t]
      BY <1>1, <1>5, <1>m
    <2>2. ~ Moves(a, t) /\ ~ Enters(a, t)
      BY <1>m DEF Moves, Enters
    <2>3. Due(task[t])' <=> Due(task[t])
      BY <1>b, <2>1 DEF Due
    <2> QED
      BY <1>2, <1>4, <1>5, <1>b, <2>1, <2>2, <2>3, Frame DEF Only
  <1>6. CASE s = t
    <2>1. task'[t] = my[a].row /\ Bare(t)'
      BY <1>1, <1>2, <1>6, <1>b, <1>m DEF Unmade, Bare
    <2>2. ASSUME NEW b \in Actor, b # a
          PROVE  (t \in my'[b].task => Phase(b, t)') /\ \A d \in my'[b].due : d.task # t
      <3>1. /\ my'[b] = my[b] /\ pc'[b] = pc[b]
            /\ t \in my[b].task => my[b].kind = "change" /\ pc[b] \in {"update", "reload"}
            /\ \A d \in my[b].due : d.task # t
        BY <1>1, <1>6, <1>b, <2>2 DEF Unmade, Only
      <3> QED
        BY <3>1 DEF Phase
    <2>3. t \in my'[a].task => Phase(a, t)' /\ Moves(a, t)'
      BY <1>4 DEF Phase, Moves
    <2>4. Known(t)'
      BY <2>1 DEF Known, Bare
    <2>5. Kept(t)' \/ Moves(a, t)'
      BY <1>3, <1>4, <1>6, <1>m, <2>1, <2>3 DEF Kept, Bare, Local
    <2> QED
      BY <1>4, <2>2, <2>3, <2>4, <2>5 DEF Settled
  <1> QED
    BY <1>5, <1>6

\* A step of the only goroutine that writes to the task, one case per action.
LEMMA SoleSettled ==
    ASSUME Inv, NEW a \in Actor, Step(a), ~ Insert(a), faults' = faults,
           NEW t \in Task, t \in my[a].task, my[a].kind # "run", Exists(t), Settled(t),
           \A b \in Actor : b # a => t \notin Writes(b)
    PROVE  Settled(t)'
  <1>b. Base /\ TypeInv /\ IdsApart /\ Only(a) /\ now' = now
    BY StepMoves DEF Inv, OwnInv, Base
  <1>m. /\ my[a] \in Local /\ my[a].task = {t} /\ my[a].row \in Row /\ Formed(pc[a], my[a])
        /\ my[a].row.status \notin {"new", "gone"}
        /\ my[a].kind # "tick" => my[a].due = {}
    BY <1>b, Kinds DEF Base, Formed
  <1>t. /\ task \in [Task -> Row] /\ jobs \subseteq Job /\ entries \in [Task -> Entry \cup {Zero}]
        /\ task[t].status # Zero /\ ~ Fails
    BY <1>b DEF TypeInv, Typed, Fails
  <1>p. Phase(a, t) /\ \A d \in my[a].due : d.task = t => d.row = task[t]
    BY <1>m DEF Settled
  <1>n. \A b \in Actor : b # a => ~ Moves(b, t) /\ ~ Enters(b, t)
    BY <1>b, NotWriting
  <1>k. (Kept(t) \/ Moves(a, t)) /\ (Known(t) \/ Enters(a, t))
    BY <1>n DEF Settled
  <1>a. ASSUME t \in my'[a].task => Phase(a, t)',
               \A d \in my'[a].due : d.task = t => d.row = task'[t],
               Kept(t)' \/ Moves(a, t)', Known(t)' \/ Enters(a, t)'
        PROVE  Settled(t)'
    BY <1>a, <1>b, Alone
  <1>f. ASSUME Finish(a), Kept(t)', Known(t)' PROVE Settled(t)'
    <2>1. my'[a].task = {} /\ my'[a].due = {}
      BY <1>b, <1>f, Moved DEF Finish, Locals
    <2> QED
      BY <1>a, <1>f, <2>1
  <1>s. ASSUME NEW place, GoTo(a, place), UNCHANGED my PROVE pc'[a] = place /\ my'[a] = my[a]
    BY <1>b, <1>s, Stayed
  <1>x. ASSUME NEW place, NEW local, GoTo(a, place), Keep(a, local) PROVE pc'[a] = place /\ my'[a] = local
    BY <1>b, <1>x, Moved
  <1>u. ASSUME UNCHANGED <<jobs, entries>>
        PROVE  JobsOf(t)' = JobsOf(t) /\ (Known(t) => Known(t)') /\ (task'[t] = task[t] /\ Kept(t) => Kept(t)')
    BY <1>b, <1>u DEF Known, Kept, Bare, JobsOf, Due
  <1>2. CASE Update(a)
    <2>1. task' = Saved(t, my[a].row) /\ pc[a] = "update" /\ UNCHANGED <<jobs, entries>>
      BY <1>2, <1>m, <1>t DEF Update
    <2>2. my[a].kind \in {"change", "fire"} /\ my[a].due = {}
      BY <1>b, <1>m, <2>1, Kinds
    <2>3. Known(t)'
      BY <1>k, <1>u, <2>1 DEF Enters
    <2>4. CASE my[a].kind = "change"
      <3>1. GoTo(a, "reload") /\ UNCHANGED my
        BY <1>2, <1>t, <2>4 DEF Update, Go
      <3>2. pc'[a] = "reload" /\ my'[a] = my[a]
        BY <1>s, <3>1
      <3>3. Phase(a, t)' /\ Moves(a, t)'
        BY <2>4, <3>2 DEF Phase, Moves
      <3> QED
        BY <1>a, <2>2, <2>3, <3>2, <3>3
    <2>5. CASE my[a].kind = "fire" /\ my[a].row.status = "expired"
      <3>1. GoTo(a, "remove") /\ UNCHANGED my
        BY <1>2, <1>t, <2>5 DEF Update, Go
      <3>2. pc'[a] = "remove" /\ my'[a] = my[a]
        BY <1>s, <3>1
      <3>3. task'[t].status = "expired"
        BY <1>b, <1>m, <2>1, <2>5, RowWritten
      <3>4. Phase(a, t)' /\ Moves(a, t)'
        BY <2>5, <3>2, <3>3 DEF Phase, MayLose, Moves
      <3> QED
        BY <1>a, <2>2, <2>3, <3>2, <3>4
    <2>6. CASE my[a].kind = "fire" /\ my[a].row.status # "expired"
      <3>1. my[a].row = task[t]
        <4>1. [task[t] EXCEPT !.status = "expired"].status = "expired"
          BY <1>t DEF Row
        <4> QED
          BY <1>p, <2>1, <2>6, <4>1 DEF Phase
      <3>2. task' = task
        BY <1>b, <1>m, <2>1, <3>1, RowWritten
      <3>3. Finish(a)
        BY <1>2, <1>t, <2>6 DEF Update, Go
      <3>4. Kept(t)'
        BY <1>k, <1>u, <2>1, <3>2 DEF Moves
      <3> QED
        BY <1>f, <2>3, <3>3, <3>4
    <2> QED
      BY <2>2, <2>4, <2>5, <2>6
  <1>3. CASE Reload(a)
    <2>1. GoTo(a, "remove") /\ Keep(a, [my[a] EXCEPT !.row = task[t]])
      BY <1>3, <1>m, <1>t DEF Reload
    <2>2. pc[a] = "reload" /\ UNCHANGED <<task, jobs, entries>> /\ my[a].kind = "change" /\ my[a].due = {}
      BY <1>3, <1>b, <1>m, Kinds DEF Reload
    <2>3. /\ pc'[a] = "remove" /\ my'[a].row = task'[t] /\ my'[a].kind = "change" /\ my'[a].due = {}
          /\ my'[a].task = {t}
      <3>1. pc'[a] = "remove" /\ my'[a] = [my[a] EXCEPT !.row = task[t]]
        BY <1>x, <2>1
      <3> QED
        BY <1>m, <2>2, <3>1 DEF Local
    <2>4. Phase(a, t)' /\ Moves(a, t)'
      BY <2>3 DEF Phase, MayLose, Moves
    <2>5. Known(t)'
      BY <1>k, <1>u, <2>2 DEF Enters
    <2> QED
      BY <1>a, <2>3, <2>4, <2>5
  \* the task has lost its entry: the operation goes on, or ends
  <1>d. ASSUME pc[a] \in {"remove", "forget"}, Go(a, AfterRemove(a)), UNCHANGED task, Bare(t)'
        PROVE  Settled(t)'
    <2>1. MayLose(a, t) /\ my[a].kind \in {"change", "fire", "tick"}
      BY <1>b, <1>d, <1>p, Kinds DEF Phase
    <2>2. AfterRemove(a) # "add" =>
              task[t].status # "active" \/ task[t].cron \notin Cron \/ Due(task[t])
      BY <2>1 DEF MayLose, AfterRemove, Schedules
    <2>3. Known(t)' /\ (AfterRemove(a) # "add" => Kept(t)')
      BY <1>b, <1>d, <2>2 DEF Bare, Known, Kept, Due
    <2>4. CASE AfterRemove(a) = "idle"
      BY <1>d, <1>f, <2>3, <2>4 DEF Go
    <2>5. CASE AfterRemove(a) \in {"add", "drop"}
      <3>1. GoTo(a, AfterRemove(a)) /\ UNCHANGED my
        BY <1>d, <2>5 DEF Go
      <3>2. pc'[a] = AfterRemove(a) /\ my'[a] = my[a]
        BY <1>s, <3>1
      <3>3. AfterRemove(a) = "add" => my[a].kind = "change"
        BY DEF AfterRemove, Schedules
      <3>4. Phase(a, t)'
        BY <1>d, <2>1, <2>5, <3>2, <3>3 DEF Phase, MayLose
      <3>5. AfterRemove(a) = "add" => Moves(a, t)'
        BY <1>m, <3>2 DEF Moves
      <3> QED
        BY <1>a, <1>d, <1>p, <2>3, <3>2, <3>4, <3>5
    <2> QED
      BY <2>4, <2>5 DEF AfterRemove
  <1>4. CASE Remove(a)
    <2>1. pc[a] = "remove" /\ UNCHANGED <<task, entries>> /\ Known(t) /\ MayLose(a, t)
      BY <1>4, <1>k, <1>p DEF Remove, Enters, Phase
    <2>2. CASE entries[t] = Zero
      <3>1. UNCHANGED jobs /\ Go(a, AfterRemove(a))
        BY <1>4, <1>m, <2>2 DEF Remove
      <3>2. \A j \in jobs : j.id # Zero
        BY <1>t, ZeroAssumption DEF Job
      <3>3. Bare(t)'
        BY <2>1, <2>2, <3>1, <3>2 DEF Known, Bare, JobsOf
      <3> QED
        BY <1>d, <2>1, <3>1, <3>3
    <2>3. CASE entries[t] # Zero
      <3>1. jobs' = Without(t) /\ GoTo(a, "forget") /\ UNCHANGED my
        BY <1>4, <1>m, <2>3 DEF Remove, Go
      <3>2. pc'[a] = "forget" /\ my'[a] = my[a]
        BY <1>s, <3>1
      <3>3. JobsOf(t)' = {}
        BY <2>1, <3>1 DEF Without, Known, JobsOf
      <3>4. Phase(a, t)' /\ Moves(a, t)' /\ Known(t)'
        BY <1>b, <1>m, <2>1, <3>2, <3>3 DEF Phase, MayLose, Moves, Known, Due
      <3> QED
        BY <1>a, <1>p, <2>1, <3>2, <3>4
    <2> QED
      BY <2>2, <2>3
  <1>5. CASE Forget(a)
    <2>1. /\ pc[a] = "forget" /\ UNCHANGED <<task, jobs>> /\ JobsOf(t) = {}
          /\ entries' = [entries EXCEPT ![t] = Zero] /\ Go(a, AfterRemove(a))
      BY <1>5, <1>m, <1>p DEF Forget, Forgotten, Phase
    <2>2. Bare(t)'
      BY <1>t, <2>1 DEF Bare, JobsOf
    <2> QED
      BY <1>d, <2>1, <2>2
  <1>6. CASE Add(a)
    <2>1. /\ pc[a] = "add" /\ UNCHANGED <<task, entries>> /\ my[a].kind = "change" /\ my[a].due = {}
          /\ Bare(t) /\ my[a].row = task[t]
      BY <1>6, <1>b, <1>m, <1>p, Kinds DEF Add, Phase
    <2>2. CASE my[a].row.cron \notin Cron /\ Finish(a) /\ UNCHANGED jobs
      <3>1. task[t].status = "active"
        BY <1>m, <2>1 DEF Formed
      <3>2. Kept(t)' /\ Known(t)'
        BY <2>1, <2>2, <3>1 DEF Kept, Known, Bare, JobsOf
      <3> QED
        BY <1>f, <2>2, <3>2
    <2>3. CASE jobs' = Without(t) /\ GoTo(a, "enter") /\ UNCHANGED my
      <3>1. pc'[a] = "enter" /\ my'[a] = my[a]
        BY <1>s, <2>3
      <3>2. Bare(t)'
        BY <2>1, <2>3 DEF Bare, JobsOf, Without
      <3>3. Phase(a, t)' /\ Moves(a, t)' /\ Known(t)'
        BY <1>m, <2>1, <3>1, <3>2 DEF Phase, Moves, Known, Bare
      <3> QED
        BY <1>a, <2>1, <3>1, <3>3
    <2> QED
      BY <1>6, <1>m, <2>2, <2>3 DEF Add
  <1>11. CASE Enter(a)
    <2>1. /\ pc[a] = "enter" /\ UNCHANGED <<task, entries>> /\ my[a].kind = "change" /\ my[a].due = {}
          /\ Bare(t) /\ my[a].row = task[t] /\ my[a].row.cron \in Cron
      BY <1>11, <1>b, <1>m, <1>p, Kinds DEF Enter, Phase, TypeInv, Ready, ReadyFor
    <2>2. PICK id, job :
              /\ id = NewId
              /\ job = [id |-> id, task |-> t, cron |-> my[a].row.cron]
              /\ jobs' = jobs \cup {job}
      BY <1>11, <1>m DEF Enter
    <2>3. /\ pc'[a] = "map" /\ my'[a].row = my[a].row /\ my'[a].task = {t} /\ my'[a].due = {}
          /\ my'[a].id = id /\ my'[a].kind = "change"
      <3>1. pc'[a] = "map" /\ my'[a] = [my[a] EXCEPT !.id = id]
        BY <1>11, <1>x, <2>2 DEF Enter
      <3> QED
        BY <1>m, <2>1, <3>1 DEF Local
    <2>4. job.task = t
      BY <2>2
    <2>5. JobsOf(t)' = {job}
      BY <2>1, <2>2, <2>4 DEF JobsOf, Bare
    <2>6. Phase(a, t)'
      BY <2>1, <2>2, <2>3, <2>5 DEF Phase
    <2>7. Moves(a, t)' /\ Enters(a, t)'
      BY <2>3 DEF Moves, Enters
    <2> QED
      BY <1>a, <2>3, <2>6, <2>7
  <1>7. CASE Map(a)
    <2>1. /\ pc[a] = "map" /\ UNCHANGED <<task, jobs>> /\ my[a].kind = "change" /\ my[a].due = {}
          /\ my[a].row = task[t] /\ my[a].row.status = "active" /\ my[a].row.cron \in Cron
          /\ JobsOf(t) = {[id |-> my[a].id, task |-> t, cron |-> my[a].row.cron]}
          /\ GoTo(a, "note") /\ Keep(a, [my[a] EXCEPT !.id = Zero])
      BY <1>7, <1>b, <1>m, <1>p, Kinds DEF Map, Phase, Formed
    <2>2. entries'[t] = my[a].id /\ JobsOf(t)' = JobsOf(t)
      BY <1>7, <1>m, <1>t, <2>1 DEF Map, JobsOf
    <2>3. /\ pc'[a] = "note" /\ my'[a].row = my[a].row /\ my'[a].task = {t} /\ my'[a].due = {}
          /\ my'[a].kind = "change"
      <3>1. pc'[a] = "note" /\ my'[a] = [my[a] EXCEPT !.id = Zero]
        BY <1>x, <2>1
      <3> QED
        BY <1>m, <2>1, <3>1 DEF Local
    <2>4. Kept(t)' /\ Known(t)'
      BY <2>1, <2>2 DEF Kept, Known
    <2>5. Phase(a, t)'
      BY <2>1, <2>3 DEF Phase
    <2> QED
      BY <1>a, <2>3, <2>4, <2>5
  <1>8. CASE Note(a)
    <2>1. /\ task' = Saved(t, my[a].row) /\ pc[a] = "note" /\ UNCHANGED <<jobs, entries>> /\ Finish(a)
          /\ my[a].row = task[t]
      BY <1>8, <1>m, <1>p, <1>t DEF Note, Phase
    <2>2. task' = task
      BY <1>b, <1>m, <2>1, RowWritten
    <2>3. Kept(t)' /\ Known(t)'
      BY <1>k, <1>u, <2>1, <2>2 DEF Moves, Enters
    <2> QED
      BY <1>f, <2>1, <2>3
  <1>9. CASE Execute(a)
    <2>1. pc[a] = "execute" /\ UNCHANGED <<task, jobs, entries>> /\ my[a].kind = "fire" /\ my[a].due = {}
      BY <1>9, <1>b, <1>m, Kinds DEF Execute
    <2>2. Kept(t)' /\ Known(t)'
      BY <1>k, <1>u, <2>1 DEF Moves, Enters
    <2>3. ASSUME NEW row, NEW place \in {"remove", "update", "run"},
                 GoTo(a, place), Keep(a, [my[a] EXCEPT !.row = row]),
                 place = "remove" => task[t].status # "active",
                 place = "update" => row = [task[t] EXCEPT !.status = "expired"],
                 place = "run" => row = task[t]
          PROVE  Settled(t)'
      <3>1. pc'[a] = place /\ my'[a] = [my[a] EXCEPT !.row = row]
        BY <1>x, <2>3
      <3>2. my'[a].row = row /\ my'[a].due = {} /\ my'[a].kind = "fire"
        BY <1>m, <2>1, <3>1 DEF Local
      <3>3. Phase(a, t)'
        BY <2>1, <2>3, <3>1, <3>2 DEF Phase, MayLose
      <3> QED
        BY <1>a, <2>2, <3>2, <3>3
    <2>4. CASE Finish(a)
      BY <1>f, <2>2, <2>4
    <2> QED
      BY <1>9, <1>m, <1>t, <2>3, <2>4 DEF Execute
  <1>10. CASE Run(a)
    <2>1. UNCHANGED <<task, jobs, entries>> /\ pc[a] = "run" /\ my[a].due = {} /\ my[a].kind = "fire"
      BY <1>10, <1>b, <1>m, Kinds DEF Run
    <2>2. Kept(t)' /\ Known(t)'
      BY <1>k, <1>u, <2>1 DEF Moves, Enters
    <2>3. GoTo(a, "update") /\ UNCHANGED my
      BY <1>10, <2>1 DEF Run, Go, AfterRun
    <2>4. pc'[a] = "update" /\ my'[a] = my[a]
      BY <1>s, <2>3
    <2>5. Phase(a, t)'
      BY <1>p, <2>1, <2>4 DEF Phase
    <2> QED
      BY <1>a, <2>1, <2>2, <2>4, <2>5
  <1> QED
    BY <1>2, <1>3, <1>4, <1>5, <1>6, <1>7, <1>8, <1>9, <1>10, <1>11 DEF Step

\* A step of an operation.
LEMMA StepSettled ==
    ASSUME Inv, Base', NEW a \in Actor, Step(a), NEW t \in Task, Settled(t), Apart(t),
           faults' = faults \/ Free(t)
    PROVE  Settled(t)'
  <1>b. /\ Base /\ TypeInv /\ IdsApart /\ Only(a) /\ now' = now /\ pc[a] # "drop"
        /\ my[a].task \subseteq Task /\ my[a] \in Local
    <2>1. pc[a] # "drop"
      BY DEF Step, Insert, Update, Reload, Remove, Forget, Add, Enter, Map, Note, Execute, Run
    <2> QED
      BY <2>1, StepMoves, Kinds DEF Inv, OwnInv, Base, TypeInv, Typed
  <1>1. CASE Insert(a) /\ ~ Fails
    BY <1>1, <1>b, InsertSettled
  <1>6. CASE Insert(a) /\ Finish(a) /\ UNCHANGED task
    <2>1. UNCHANGED <<task, jobs, entries>> /\ JobsOf(t)' = JobsOf(t) /\ pc[a] = "insert"
      BY <1>6 DEF Insert, JobsOf
    <2>2. pc'[a] = "idle" /\ my'[a].task = {} /\ my'[a].due = {}
      BY <1>6, <1>b, Moved DEF Finish, Locals
    <2>3. (Due(task[t]) => Due(task[t])') /\ ~ Moves(a, t) /\ ~ Enters(a, t)
      BY <1>b, <2>1 DEF Due, Moves, Enters
    <2> QED
      BY <1>b, <2>1, <2>2, <2>3, Frame DEF Only
  <1>2. CASE ~ Insert(a) /\ ~ Exists(t)
    BY <1>2, <1>b, StepRows DEF Settled
  <1>3. CASE ~ Insert(a) /\ t \notin my[a].task
    <2>1. task'[t] = task[t] /\ JobsOf(t)' = JobsOf(t) /\ entries'[t] = entries[t]
      BY <1>3, <1>b, StepRows, StepOwn
    <2>2. (Due(task[t]) => Due(task[t])') /\ ~ Moves(a, t) /\ ~ Enters(a, t)
      BY <1>3, <1>b, <2>1 DEF Due, Moves, Enters
    <2>3. pc[a] # "insert"
      BY <1>3 DEF Step, Update, Reload, Remove, Forget, Add, Enter, Map, Note, Execute, Run
    <2>4. t \notin my'[a].task /\ my'[a].due \subseteq my[a].due
      BY <1>3, <1>b, <2>3, StepMoves DEF Locals
    <2>5. CASE Exists(t)
      <3>1. \A d \in my'[a].due : d.task = t => d.row = task[t]
        BY <2>4, <2>5 DEF Settled
      <3> QED
        BY <1>b, <2>1, <2>2, <2>4, <3>1, Frame DEF Only
    <2>6. CASE ~ Exists(t)
      BY <1>2, <1>3, <2>6
    <2> QED
      BY <2>5, <2>6
  <1>4. CASE t \in my[a].task /\ my[a].kind = "run"
    <2>1. pc[a] = "run" /\ my[a].due = {}
      BY <1>4, <1>b, Kinds DEF Base, Formed, Route
    <2>2. Run(a)
      BY <2>1 DEF Step, Insert, Update, Reload, Remove, Forget, Add, Enter, Map, Note, Execute
    <2>3. UNCHANGED <<task, jobs, entries>> /\ JobsOf(t)' = JobsOf(t)
      BY <2>2 DEF Run, JobsOf
    <2>4. my'[a] = Locals
      BY <1>4, <1>b, <2>2, Moved DEF Run, Go, Finish, AfterRun
    <2>5. (t \in my'[a].task => Phase(a, t)') /\ my'[a].due = {}
      BY <1>4, <2>1, <2>4 DEF Phase, Locals
    <2>6. (Due(task[t]) => Due(task[t])') /\ ~ Moves(a, t) /\ ~ Enters(a, t)
      BY <1>b, <2>1, <2>3 DEF Due, Moves, Enters
    <2> QED
      BY <1>b, <2>3, <2>5, <2>6, Frame DEF Only
  <1>5. CASE ~ Insert(a) /\ t \in my[a].task /\ my[a].kind # "run" /\ Exists(t)
    <2>1. t \in Writes(a)
      BY <1>5, <1>b DEF Writes
    <2>2. /\ \A b \in Actor : b # a => t \notin Writes(b)
          /\ faults' = faults
      BY <2>1 DEF Apart, Free
    <2> QED
      BY <1>5, <2>2, SoleSettled
  <1>7. CASE Insert(a)
    <2>1. Succeeds \/ (Finish(a) /\ UNCHANGED task)
      BY <1>7 DEF Insert
    <2>2. Succeeds => ~ Fails
      BY <1>b, BoundsAssumption DEF Succeeds, Fails, TypeInv, Typed
    <2> QED
      BY <1>1, <1>6, <1>7, <2>1, <2>2
  <1> QED
    BY <1>2, <1>3, <1>4, <1>5, <1>7

\* A step of anyone, but the end of the process.
LEMMA NextSettled ==
    ASSUME Inv, [Happens /\ Noted]_vars, NEW t \in Task, Settled(t), Apart(t),
           faults' = faults \/ Free(t)
    PROVE  Settled(t)'
  <1>b. /\ Base /\ Base' /\ TypeInv /\ task \in [Task -> Row] /\ task[t].status # Zero
        /\ (Due(task[t]) => Due(task[t])' \/ task'[t] # task[t])
    <2>0. [Next]_vars
      BY DEF Next
    <2>1. Base /\ Base' /\ TypeInv
      BY <2>0, NextBase DEF Inv, OwnInv, Base
    <2>2. Due(task[t]) /\ task'[t] = task[t] => Due(task[t])'
      <3>1. PICK row : row = task[t]
        OBVIOUS
      <3>2. row \in Row /\ (Due(row) => Due(row)')
        BY <2>0, <2>1, <3>1, DueStays DEF TypeInv, Typed
      <3> QED
        BY <3>1, <3>2 DEF Due
    <2> QED
      BY <2>1, <2>2 DEF TypeInv, Typed
  <1>o. JobsOf(t)' = JobsOf(t) \/ jobs' # jobs
    BY DEF JobsOf
  \* one moves, and the row and the entry of the task stay
  <1>m. ASSUME NEW a \in Actor, Only(a), UNCHANGED <<jobs, entries>>, task'[t] = task[t],
               t \in my'[a].task => Phase(a, t)',
               \A d \in my'[a].due : d.task = t => d.row = task[t],
               ~ Moves(a, t), ~ Enters(a, t)
        PROVE  Settled(t)'
    BY <1>b, <1>m, <1>o, Frame DEF Only
  <1>s. ASSUME NEW a \in Actor, NEW place, NEW local, Started(a, place, local),
               \/ place \in {"insert", "execute", "expire", "again"}
               \/ place = "update" /\ local.kind = "change"
               \/ place = "run" /\ local.kind = "run",
               \A d \in local.due : d.task = t => d.row = task[t]
        PROVE  Settled(t)'
    <2>1. Only(a) /\ pc'[a] = place /\ my'[a] = local
      BY <1>b, <1>s, Moved DEF Started
    <2>2. ~ Moves(a, t) /\ ~ Enters(a, t)
      BY <1>s DEF Started, Moves, Enters
    <2>3. Phase(a, t)'
      BY <1>s, <2>1 DEF Phase
    <2> QED
      BY <1>m, <1>s, <2>1, <2>2, <2>3 DEF Started
  <1>f. \A d \in Found : d.task = t => d.row = task[t]
    BY DEF Found
  <1>1. CASE UNCHANGED <<task, jobs, entries, pc, my>>
    BY <1>1, <1>b, <1>o, Frame
  <1>2. ASSUME NEW a \in Actor, Step(a) PROVE Settled(t)'
    BY <1>2, <1>b, StepSettled
  <1>3. ASSUME NEW a \in Requests, Request(a) PROVE Settled(t)'
    <2>1. PICK place, local :
              /\ Started(a, place, local) /\ local.due = {}
              /\ \/ place = "insert"
                 \/ place = "update" /\ local.kind = "change"
                 \/ place = "run" /\ local.kind = "run"
      BY <1>3, <1>b, RequestStarts
    <2> QED
      BY <1>s, <2>1 DEF Actor
  <1>4. ASSUME NEW a \in Firings, Fire(a) PROVE Settled(t)'
    <2>1. PICK j \in jobs, local \in Local : Started(a, "execute", local) /\ local.due = {}
      BY <1>4, <1>b, FireStarts
    <2> QED
      BY <1>s, <2>1 DEF Actor
  <1>5. CASE Tick
    <2>1. PICK place \in {"expire", "again"}, local \in Local : Started(Loop, place, local) /\ local.due \subseteq Found
      BY <1>5, <1>b, TickStarts
    <2> QED
      BY <1>f, <1>s, <2>1 DEF Actor
  <1>6. CASE Expire \/ Again \/ Drop
    <2>1. PICK place \in {"idle", "expire", "again", "drop", "remove"}, local \in Local :
            /\ GoTo(Loop, place) /\ Keep(Loop, local)
            /\ \/ place = "idle" /\ local = Locals /\ task' = task
               \/ /\ local.kind = "tick"
                  /\ \/ /\ place \in {"expire", "again"} /\ local.task = my[Loop].task
                        /\ local.due \subseteq my[Loop].due
                        /\ \/ task' = task
                           \/ \E d \in my[Loop].due :
                                /\ task' = Saved(d.task, [d.row EXCEPT !.status = "expired"])
                                /\ local.due = my[Loop].due \ {d}
                     \/ /\ place = "drop" /\ local.task = my[Loop].task
                        /\ local.due = Found /\ task' = task
                     \/ \E d \in my[Loop].due :
                           /\ place = "remove" /\ local.task = {d.task}
                           /\ local.due = my[Loop].due \ {d} /\ task' = task
      BY <1>6, <1>b, LoopMoves
    <2>2. /\ Loop \in Actor /\ my[Loop].kind = "tick" /\ UNCHANGED <<jobs, entries>>
          /\ pc[Loop] \in {"expire", "again", "drop"} /\ my[Loop].due \subseteq Stale
          /\ \A d \in my[Loop].due : Due(d.row)
      BY <1>6, <1>b, LoopMoves, Kinds DEF Expire, Again, Drop, Inv, DateInv, Dated, Actor
    <2>3. Only(Loop) /\ pc'[Loop] = place /\ my'[Loop] = local
      BY <1>b, <2>1, <2>2, Moved
    <2>4. ~ Moves(Loop, t) /\ ~ Enters(Loop, t)
      BY <2>2 DEF Moves, Enters
    <2>5. Exists(t) => \A d \in my[Loop].due : d.task = t => d.row = task[t]
      BY <2>2 DEF Settled
    <2>6. ~ Exists(t) => task'[t] = task[t]
      <3>1. ASSUME NEW d \in my[Loop].due, task' = Saved(d.task, [d.row EXCEPT !.status = "expired"]), ~ Exists(t)
            PROVE  task'[t] = task[t]
        BY <1>b, <2>2, <3>1 DEF Saved, Stale
      <3> QED
        BY <2>1, <3>1
    <2>7. CASE ~ Exists(t)
      BY <2>6, <2>7 DEF Settled, Exists
    <2>8. CASE Exists(t) /\ task' = task
      <3>1. \A d \in local.due : d.task = t => d.row = task[t]
        BY <1>f, <2>1, <2>5, <2>8 DEF Locals
      <3>2. t \in local.task => Phase(Loop, t)'
        <4>1. CASE place \in {"idle", "expire", "again", "drop"}
          BY <2>1, <2>3, <4>1 DEF Phase, Locals
        <4>2. ASSUME NEW d \in my[Loop].due, place = "remove", local.task = {d.task}, t \in local.task
              PROVE  Phase(Loop, t)'
          <5>1. d.row = task[t] /\ Due(task[t]) /\ local.kind = "tick"
            BY <2>1, <2>2, <2>5, <2>8, <4>2
          <5>2. Due(task[t])'
            BY <1>b, <2>8, <5>1
          <5> QED
            BY <2>3, <4>2, <5>1, <5>2 DEF Phase, MayLose
        <4> QED
          BY <2>1, <4>1, <4>2
      <3> QED
        BY <1>m, <2>2, <2>3, <2>4, <2>8, <3>1, <3>2
    <2>9. ASSUME NEW d \in my[Loop].due, Exists(t), place \in {"expire", "again"},
                 task' = Saved(d.task, [d.row EXCEPT !.status = "expired"]),
                 local.due = my[Loop].due \ {d}, local.kind = "tick"
          PROVE  Settled(t)'
      <3>1. PICK p : p = [d.row EXCEPT !.status = "expired"]
        OBVIOUS
      <3>2. d.task \in Task /\ d.row \in Row /\ p \in Row /\ p.status = "expired" /\ task' = Saved(d.task, p)
        BY <2>2, <2>9, <3>1 DEF Stale, Row, Status
      <3>3. t \in local.task => Phase(Loop, t)'
        BY <2>3, <2>9 DEF Phase
      <3>4. CASE d.task # t
        <4>1. task'[t] = task[t]
          BY <1>b, <3>2, <3>4 DEF Saved
        <4> QED
          BY <1>m, <2>2, <2>3, <2>4, <2>5, <2>9, <3>3, <4>1
      <3>5. CASE d.task = t
        <4>1. task'[t].status = "expired"
          BY <1>b, <2>9, <3>2, <3>5, RowWritten
        <4>2. \A b \in Actor : b # Loop => t \notin Writes(b)
          BY <2>2, <2>9, <3>5 DEF Apart, Writes
        <4>3. \A e \in my'[Loop].due : e.task # t
          BY <2>2, <2>3, <2>5, <2>9, <3>5 DEF Stale
        <4>4. Known(t)
          BY <1>b, <2>4, <2>9, <4>2, NotWriting DEF Settled
        <4>5. Kept(t)' /\ Known(t)'
          BY <1>o, <2>2, <4>1, <4>4 DEF Kept, Known
        <4> QED
          BY <1>b, <2>2, <2>3, <3>3, <4>2, <4>3, <4>5, Alone
      <3> QED
        BY <3>4, <3>5
    <2> QED
      BY <2>1, <2>7, <2>8, <2>9
  <1>7. CASE DeleteTask
    <2>1. PICK s \in Task : task' = [task EXCEPT ![s] = [Empty EXCEPT !.status = "gone"]]
      BY <1>7 DEF DeleteTask
    <2>2. CASE s = t
      BY <1>b, <2>1, <2>2 DEF Settled, Exists, Empty
    <2>3. CASE s # t
      <3>1. task'[t] = task[t] /\ UNCHANGED <<jobs, entries, pc, my>>
        BY <1>7, <1>b, <2>1, <2>3 DEF DeleteTask
      <3> QED
        BY <1>b, <1>o, <3>1, Frame
    <2> QED
      BY <2>2, <2>3
  <1> QED
    BY <1>1, <1>2, <1>3, <1>4, <1>5, <1>6, <1>7 DEF Happens, Watch, vars, control, Actor, Advance

\* The start of the process puts everything in order, whatever it finds.
LEMMA RestartSettled ==
    ASSUME TypeInv, Restart, NEW t \in Task
    PROVE  Settled(t)'
  <1> DEFINE loaded == {s \in Task : task[s].status = "active" /\ task[s].cron \in Cron}
  <1>1. PICK id \in [loaded -> Entry] :
            /\ jobs' = {[id |-> id[s], task |-> s, cron |-> task[s].cron] : s \in loaded}
            /\ entries' = [s \in Task |-> IF s \in loaded THEN id[s] ELSE Zero]
    BY DEF Restart
  <1>2. task' = task /\ \A a \in Actor : my'[a].task = {} /\ my'[a].due = {}
    BY DEF Restart, Locals
  <1>3. /\ t \in loaded => JobsOf(t)' = {[id |-> id[t], task |-> t, cron |-> task[t].cron]} /\ entries'[t] = id[t]
        /\ t \notin loaded => JobsOf(t)' = {} /\ entries'[t] = Zero
    <2>1. JobsOf(t)' = {j \in jobs' : j.task = t}
      BY DEF JobsOf
    <2> QED
      BY <1>1, <2>1
  <1>4. Kept(t)' /\ Known(t)'
    BY <1>2, <1>3 DEF Kept, Known, Bare
  <1> QED
    BY <1>2, <1>4 DEF Settled

\* What is settled is kept when nobody works on it.
LEMMA SettledKept ==
    ASSUME Base, NEW t \in Task, Settled(t), Free(t), Exists(t)
    PROVE  Kept(t)
  BY NotWriting DEF Settled, Free

---------------------------------------------------------------------------
(* The theorems. *)

LEMMA InvInvariant == Spec => []Inv
  <1>1. Init => Inv
    BY InitOwn, InitBase DEF Init, Inv, DateInv, Dated, Changer, Locals
  <1>2. Inv /\ [Next]_vars => Inv'
    BY NextOwn, NextDated DEF Inv
  <1> QED
    BY <1>1, <1>2, PTL DEF Spec

LEMMA InitSettled == ASSUME Init, NEW t \in Task PROVE Settled(t)
  BY DEF Init, Settled, Exists, Empty

\* A task is upset, or it is settled.
Calm == \A t \in Task \ upset : Settled(t) /\ Apart(t)

LEMMA CalmInvariant == Spec => [](Inv /\ Calm)
  <1>1. Init => Calm
    BY InitSettled DEF Init, Calm, Apart, Writes, Locals
  <1>2. Inv /\ Calm /\ [Next]_vars => Calm'
    <2> SUFFICES ASSUME Inv, Calm, [Next]_vars, NEW t \in Task, t \notin upset'
                 PROVE  (Settled(t) /\ Apart(t))'
      BY DEF Calm
    <2>1. CASE Happens /\ Noted
      <3>1. t \notin upset /\ Apart(t)' /\ (faults' = faults \/ Free(t))
        BY <2>1 DEF Noted
      <3>2. Settled(t)'
        BY <2>1, <3>1, NextSettled DEF Calm
      <3> QED
        BY <3>1, <3>2
    <2>2. CASE Restart
      <3>1. Settled(t)'
        BY <2>2, RestartSettled DEF Inv, OwnInv, Base
      <3>2. Apart(t)'
        BY <2>2 DEF Restart, Apart, Writes, Locals
      <3> QED
        BY <3>1, <3>2
    <2>3. CASE UNCHANGED vars
      <3>1. t \notin upset /\ UNCHANGED <<pc, my>>
        BY <2>3 DEF vars, control
      <3>2. Free(t) \/ faults' = faults
        BY <2>3 DEF vars
      <3>3. Settled(t)'
        BY <2>3, <3>1, <3>2, NextSettled DEF Calm
      <3> QED
        BY <3>1, <3>3 DEF Calm, Apart, Writes
    <2> QED
      BY <2>1, <2>2, <2>3 DEF Next
  <1> QED
    BY <1>1, <1>2, InvInvariant, PTL DEF Spec

\* Cron and the map have of a task what its row asks for whenever nobody works on
\* it, as long as it is not upset: no two goroutines have written to it at a time
\* and no call has failed for it since the process has started.  The goroutines
\* that work on other tasks may overlap as they like and their calls fail, and so
\* may those that run the task by hand, and its deletion.
THEOREM TaskKept == Spec => [](\A t \in Task \ upset : Free(t) /\ Exists(t) => Kept(t))
  <1>1. Inv /\ Calm => \A t \in Task \ upset : Free(t) /\ Exists(t) => Kept(t)
    BY SettledKept DEF Inv, OwnInv, Calm
  <1> QED
    BY <1>1, CalmInvariant, PTL

\* In particular an active task that is not due has one entry, with its expression,
\* and the map knows it ...
THEOREM ActiveTasksScheduled == Spec => []ActiveHasItsJob
  <1>1. Inv /\ Calm => ActiveHasItsJob
    BY SettledKept DEF Inv, OwnInv, Calm, ActiveHasItsJob, Kept, Exists
  <1> QED
    BY <1>1, CalmInvariant, PTL

\* ... and a stopped one has none.
THEOREM StoppedTasksRemoved == Spec => []StoppedHasNoJob
  <1>1. Inv /\ Calm => StoppedHasNoJob
    BY SettledKept DEF Inv, OwnInv, Calm, StoppedHasNoJob, Kept, Bare, Exists
  <1> QED
    BY <1>1, CalmInvariant, PTL

\* The start of the process mends what overlapping writers and failing calls have
\* left: cron and the map have of every task what its row asks for, whatever the
\* process that has ended has left behind.  No task is upset then, so this stays
\* so (TaskKept) until two writers overlap or a call fails again.
THEOREM RestartReschedules == Spec => [][Restart => \A t \in Task : (Exists(t) => Kept(t))']_vars
  <1>1. TypeInv /\ [Next]_vars => (Restart => \A t \in Task : (Exists(t) => Kept(t))')
    <2> SUFFICES ASSUME TypeInv, Restart, NEW t \in Task
                 PROVE  (Exists(t) => Kept(t))'
      OBVIOUS
    <2>1. Settled(t)'
      BY RestartSettled
    <2>2. \A a \in Actor : ~ Moves(a, t)'
      BY DEF Restart, Locals, Moves
    <2> QED
      BY <2>1, <2>2 DEF Settled
  <1> QED
    BY <1>1, TypeInvariant, PTL DEF Spec

===============================================================================
