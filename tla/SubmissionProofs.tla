--------------------------- MODULE SubmissionProofs ---------------------------
(***************************************************************************)
(* Theorems about Submission, for any number of submissions, links,        *)
(* platforms, goroutines and faults.                                       *)
(***************************************************************************)
EXTENDS Submission, TLAPS

USE DEF Worker, Target, Caller, IsCaller, Status, Operation

-------------------------------------------------------------------------------
(***************************************************************************)
(* Type correctness.                                                       *)
(***************************************************************************)

\* What is the same in every step that ends a worker.
LEMMA LeaveType ==
    ASSUME TypeOK, NEW w \in Worker, NEW o \in {"done", "failed"}, Leave(w, o)
    PROVE  /\ pc' \in [Worker -> Place]
           /\ job' \in [Worker -> Job]
           /\ found' \in [Worker -> Found]
           /\ copy' \in [Worker -> Row]
BY DEF TypeOK, Leave, GoTo, Place, Working, Job, Found, Row, NoJob, Nothing, NoRow

LEMMA GoToType ==
    ASSUME TypeOK, NEW w \in Worker, NEW o \in Place, GoTo(w, o)
    PROVE  pc' \in [Worker -> Place]
BY DEF TypeOK, GoTo

LEMMA WriteType ==
    ASSUME TypeOK, NEW s \in Sub, NEW row \in Row, Write(s, row)
    PROVE  rec' \in [Sub -> Row]
BY DEF TypeOK, Write

LEMMA FaultsType ==
    ASSUME TypeOK, NEW op, Fails(op) \/ Succeeds
    PROVE  faults' \in 0 .. MaxFaults
BY BoundAssumption DEF TypeOK, Fails, Succeeds

LEMMA InitType == Init => TypeOK
BY BoundAssumption
   DEF Init, TypeOK, Row, Job, Found, NoRow, NoJob, Nothing, Place, Working, Execution

LEMMA SubmitType ==
    ASSUME TypeOK, NEW s \in Sub, Submit(s)
    PROVE  TypeOK'
<1> DEFINE w == Caller(s)
<1>w. w \in Worker
  BY BoundAssumption
<1>1. PICK raw \in SUBSET Link, r \in Request :
        LET all == raw \cap Recognised IN
        /\ \/ Leave(w, "done") \/ Leave(w, "failed")
           \/ /\ GoTo(w, "create")
              /\ job' = [job EXCEPT ![w] =
                    [raw |-> raw, links |-> all \ KnownInvalid(all),
                     sel |-> IF r.task THEN Platform ELSE r.sel, task |-> r.task]]
              /\ UNCHANGED <<found, copy>>
        /\ Succeeds \/ Fails("lookup")
        /\ UNCHANGED execution \/ Execute(s, r)
  BY DEF Submit
<1>2. UNCHANGED <<rec, invalidLink, loop, cleared>>
  BY DEF Submit
<1>3. /\ faults' \in 0 .. MaxFaults
      /\ execution' \in [Sub -> Execution]
  BY <1>1, FaultsType DEF Execute, Execution, TypeOK
<1>4. /\ pc' \in [Worker -> Place]
      /\ job' \in [Worker -> Job]
      /\ found' \in [Worker -> Found]
      /\ copy' \in [Worker -> Row]
  <2>1. CASE \E o \in {"done", "failed"} : Leave(w, o)
    BY <2>1, <1>w, LeaveType
  <2>2. CASE /\ GoTo(w, "create")
             /\ job' = [job EXCEPT ![w] =
                 [raw |-> raw, links |-> (raw \cap Recognised) \ KnownInvalid(raw \cap Recognised),
                  sel |-> IF r.task THEN Platform ELSE r.sel, task |-> r.task]]
             /\ UNCHANGED <<found, copy>>
    <3>1. pc' \in [Worker -> Place]
      BY <2>2, <1>w, GoToType DEF Place, Working
    <3>2. job' \in [Worker -> Job]
      BY <2>2, <1>w, RequestAssumption DEF TypeOK, Job
    <3> QED BY <2>2, <3>1, <3>2 DEF TypeOK
  <2> QED BY <2>1, <2>2, <1>1
<1> QED BY <1>2, <1>3, <1>4 DEF TypeOK

LEMMA CreateType ==
    ASSUME TypeOK, NEW s \in Sub, Create(s)
    PROVE  TypeOK'
<1> DEFINE w == Caller(s)
<1>w. w \in Worker
  BY BoundAssumption
<1>1. rec' \in [Sub -> Row]
  <2>1. job[w] \in Job
    BY <1>w DEF TypeOK
  <2>2. [NoRow EXCEPT !.status = "pending", !.original = job[w].raw,
                      !.pending = job[w].links] \in Row
    BY <2>1 DEF NoRow, Row, Job
  <2> QED BY <2>2, WriteType DEF Create, TypeOK
<1>2. faults' \in 0 .. MaxFaults
  BY FaultsType DEF Create
<1>3. CASE Leave(w, "done") \/ Leave(w, "failed")
  BY <1>1, <1>2, <1>3, <1>w, LeaveType DEF Create, TypeOK
<1>4. CASE GoTo(w, "claim") /\ UNCHANGED <<job, found, copy>>
  <2>1. pc' \in [Worker -> Place]
    BY <1>4, <1>w, GoToType DEF Place, Working
  <2> QED BY <1>1, <1>2, <1>4, <2>1 DEF Create, TypeOK
<1> QED BY <1>3, <1>4 DEF Create

\* A step of a pass either ends its worker or moves it to another place.
LEMMA ClaimType ==
    ASSUME TypeOK, NEW w \in Worker, Claim(w)
    PROVE  TypeOK'
<1>1. rec' \in [Sub -> Row]
  <2>1. rec[Target(w)] \in Row
    BY DEF TypeOK
  <2>2. [rec[Target(w)] EXCEPT !.status = "checking"] \in Row
    BY <2>1 DEF Row
  <2> QED BY <2>2, WriteType DEF Claim, TypeOK
<1>2. faults' \in 0 .. MaxFaults
  BY FaultsType DEF Claim
<1>3. CASE Leave(w, "failed")
  BY <1>1, <1>2, <1>3, LeaveType DEF Claim, TypeOK
<1>4. CASE GoTo(w, "check") /\ UNCHANGED <<job, found, copy>>
  <2>1. pc' \in [Worker -> Place]
    BY <1>4, GoToType DEF Place, Working
  <2> QED BY <1>1, <1>2, <1>4, <2>1 DEF Claim, TypeOK
<1> QED BY <1>3, <1>4 DEF Claim

LEMMA CheckType ==
    ASSUME TypeOK, NEW w \in Worker, Check(w)
    PROVE  TypeOK'
<1>1. \E done \in SUBSET Covered(job[w]) : \E v \in [done -> Verdict] :
        /\ found' = [found EXCEPT ![w] = Collected(job[w], done, v)]
        /\ Succeeds \/ Fails("panic")
  BY Zenon DEF Check
<1>2. job[w] \in Job
  BY DEF TypeOK
<1>3. \A done \in SUBSET Covered(job[w]) : \A v \in [done -> Verdict] :
        Collected(job[w], done, v) \in Found
  BY <1>2 DEF Collected, Found, Covered, Skipped, Job
<1>4. faults' \in 0 .. MaxFaults
  BY <1>1, FaultsType
<1>5. pc' \in [Worker -> Place]
  BY GoToType DEF Check, Place, Working
<1> QED BY <1>1, <1>3, <1>4, <1>5 DEF Check, TypeOK

LEMMA GetType ==
    ASSUME TypeOK, NEW w \in Worker, Get(w)
    PROVE  TypeOK'
<1>1. faults' \in 0 .. MaxFaults
  BY FaultsType DEF Get
<1>2. CASE Leave(w, "failed")
  BY <1>1, <1>2, LeaveType DEF Get, TypeOK
<1>3. CASE GoTo(w, "save") /\ UNCHANGED <<job, found, copy>>
  <2>1. pc' \in [Worker -> Place]
    BY <1>3, GoToType DEF Place, Working
  <2> QED BY <1>1, <1>3, <2>1 DEF Get, TypeOK
<1> QED BY <1>2, <1>3 DEF Get

LEMMA ResultRowType ==
    ASSUME TypeOK, NEW s \in Sub, NEW w \in Worker, NEW status \in {"pending", "checked"}
    PROVE  ResultRow(s, found[w], status) \in Row
BY DEF TypeOK, ResultRow, Row, Found

LEMMA SaveType ==
    ASSUME TypeOK, NEW w \in Worker, Save(w)
    PROVE  TypeOK'
<1>1. rec' \in [Sub -> Row]
  <2>1. StatusAfter(found[w]) \in {"pending", "checked"}
    BY DEF StatusAfter
  <2> QED BY <2>1, ResultRowType DEF Save, TypeOK, Write
<1>2. faults' \in 0 .. MaxFaults
  BY FaultsType DEF Save
<1>3. CASE Leave(w, "done") \/ Leave(w, "failed")
  BY <1>1, <1>2, <1>3, LeaveType DEF Save, TypeOK
<1>4. CASE (GoTo(w, "upsert") \/ GoTo(w, "restore")) /\ UNCHANGED <<job, found, copy>>
  <2>1. pc' \in [Worker -> Place]
    BY <1>4, GoToType DEF Place, Working
  <2> QED BY <1>1, <1>2, <1>4, <2>1 DEF Save, TypeOK
<1> QED BY <1>3, <1>4 DEF Save

LEMMA RestoreType ==
    ASSUME TypeOK, NEW w \in Worker, Restore(w)
    PROVE  TypeOK'
<1>1. rec' \in [Sub -> Row]
  BY ResultRowType DEF Restore, TypeOK, Write
<1>2. faults' \in 0 .. MaxFaults
  BY FaultsType DEF Restore
<1> QED BY <1>1, <1>2, LeaveType DEF Restore, TypeOK

LEMMA UpsertType ==
    ASSUME TypeOK, NEW w \in Worker, Upsert(w)
    PROVE  TypeOK'
<1>1. invalidLink' \in [Link -> {"none", "limited", "dead"}]
  BY DEF Upsert, TypeOK, Upserted
<1>2. faults' \in 0 .. MaxFaults
  BY FaultsType DEF Upsert
<1> QED BY <1>1, <1>2, LeaveType DEF Upsert, TypeOK

LEMMA PanicType ==
    ASSUME TypeOK, NEW w \in Worker, Panic(w)
    PROVE  TypeOK'
<1>1. faults' \in 0 .. MaxFaults
  BY FaultsType DEF Panic
<1>2. CASE Leave(w, "failed")
  BY <1>1, <1>2, LeaveType DEF Panic, TypeOK
<1>3. CASE GoTo(w, "recover") /\ UNCHANGED <<job, found, copy>>
  <2>1. pc' \in [Worker -> Place]
    BY <1>3, GoToType DEF Place, Working
  <2> QED BY <1>1, <1>3, <2>1 DEF Panic, TypeOK
<1> QED BY <1>2, <1>3 DEF Panic

LEMMA RecoverType ==
    ASSUME TypeOK, NEW w \in Worker, Recover(w)
    PROVE  TypeOK'
<1>1. faults' \in 0 .. MaxFaults
  BY FaultsType DEF Recover
<1>2. CASE Leave(w, "failed")
  BY <1>1, <1>2, LeaveType DEF Recover, TypeOK
<1>3. CASE GoTo(w, "put back") /\ copy' = [copy EXCEPT ![w] = rec[Target(w)]]
           /\ UNCHANGED <<job, found>>
  <2>1. pc' \in [Worker -> Place]
    BY <1>3, GoToType DEF Place, Working
  <2>2. copy' \in [Worker -> Row]
    BY <1>3 DEF TypeOK
  <2> QED BY <1>1, <1>3, <2>1, <2>2 DEF Recover, TypeOK
<1> QED BY <1>2, <1>3 DEF Recover

LEMMA PutBackType ==
    ASSUME TypeOK, NEW w \in Worker, PutBack(w)
    PROVE  TypeOK'
<1>1. rec' \in [Sub -> Row]
  <2>1. copy[w] \in Row
    BY DEF TypeOK
  <2>2. [copy[w] EXCEPT !.status = "pending"] \in Row
    BY <2>1 DEF Row
  <2> QED BY <2>2, WriteType DEF PutBack, TypeOK
<1>2. faults' \in 0 .. MaxFaults
  BY FaultsType DEF PutBack
<1> QED BY <1>1, <1>2, LeaveType DEF PutBack, TypeOK

LEMMA BackgroundType ==
    ASSUME TypeOK, Background
    PROVE  TypeOK'
<1>0. faults' \in 0 .. MaxFaults
  BY FaultsType DEF Background, Scan, Spawn, FinishRead, FinishSave, TypeOK
<1>1. CASE Scan
  <2>1. \A B \in SUBSET Pending :
          {[sub |-> s, links |-> rec[s].pending] : s \in B} \in SUBSET Entry
    BY DEF TypeOK, Row, Entry, Pending
  <2> QED BY <1>0, <1>1, <2>1 DEF Scan, TypeOK
<1>2. CASE Spawn
  <2>1. PICK e \in loop.batch, w \in Worker :
          /\ GoTo(w, "claim")
          /\ job' = [job EXCEPT ![w] = [NoJob EXCEPT !.links = e.links]]
          /\ loop' = [loop EXCEPT !.batch = loop.batch \ {e}]
    BY <1>2 DEF Spawn
  <2>2. pc' \in [Worker -> Place]
    BY <2>1, GoToType DEF Place, Working
  <2>3. job' \in [Worker -> Job]
    BY <2>1 DEF TypeOK, Job, NoJob, Entry
  <2> QED BY <1>0, <1>2, <2>1, <2>2, <2>3 DEF Spawn, TypeOK
<1>3. CASE FinishRead
  BY <1>0, <1>3 DEF FinishRead, TypeOK, Entry
<1>4. CASE FinishSave
  <2>1. rec' \in [Sub -> Row]
    <3>1. [loop.row EXCEPT !.status = "checked", !.pending = {}] \in Row
      BY DEF TypeOK, Row
    <3> QED BY <1>4, <3>1, WriteType DEF FinishSave, TypeOK
  <2>2. NoRow \in Row
    BY DEF NoRow, Row
  <2> QED BY <1>0, <1>4, <2>1, <2>2 DEF FinishSave, TypeOK
<1> QED BY <1>1, <1>2, <1>3, <1>4 DEF Background

LEMMA ClearType ==
    ASSUME TypeOK, ClearRateLimited
    PROVE  TypeOK'
BY DEF ClearRateLimited, TypeOK

LEMMA SettleType ==
    ASSUME TypeOK, NEW s \in Sub, Settle(s)
    PROVE  TypeOK'
<1>1. faults' \in 0 .. MaxFaults
  BY FaultsType DEF Settle
<1>2. execution' \in [Sub -> Execution]
  BY DEF Settle, TypeOK, Execution, Outcome
<1> QED BY <1>1, <1>2 DEF Settle, TypeOK

LEMMA CrashType ==
    ASSUME TypeOK, Crash
    PROVE  TypeOK'
<1>1. faults' \in 0 .. MaxFaults
  BY FaultsType DEF Crash
<1>2. execution' \in [Sub -> Execution]
  BY DEF Crash, TypeOK, Execution
<1> QED BY <1>1, <1>2 DEF Crash, TypeOK, Place, Working, NoJob, Job, Nothing, Found, NoRow, Row

LEMMA NextType == TypeOK /\ [Next]_vars => TypeOK'
<1> SUFFICES ASSUME TypeOK, [Next]_vars PROVE TypeOK'
  OBVIOUS
<1>1. CASE UNCHANGED vars
  BY <1>1 DEF TypeOK, vars
<1>2. ASSUME NEW s \in Sub, Submit(s) \/ Create(s) \/ Settle(s) PROVE TypeOK'
  BY <1>2, SubmitType, CreateType, SettleType
<1>3. ASSUME NEW w \in Worker, Pass(w) \/ Panic(w) PROVE TypeOK'
  BY <1>3, ClaimType, CheckType, GetType, SaveType, RestoreType, UpsertType,
     RecoverType, PutBackType, PanicType DEF Pass
<1> QED BY <1>1, <1>2, <1>3, BackgroundType, ClearType, CrashType DEF Next

\* Every variable keeps its type, for every value of the constants.
THEOREM TypeCorrect == Spec => []TypeOK
BY InitType, NextType, PTL DEF Spec

-------------------------------------------------------------------------------
(***************************************************************************)
(* One pass at a time.  The lock is the status of the row: it is held by a *)
(* pass while the status is checking or checked, and taken when it is      *)
(* pending.  The invariant says that nothing else writes pending.          *)
(***************************************************************************)

\* The row of a pass that holds it is not pending; after the Save of an
\* unfiltered pass, which keeps no links, it is checked.
HeldRows ==
    \A w \in Worker :
        /\ Holds(w) => rec[Target(w)].status \in {"checking", "checked"}
        /\ pc[w] = "upsert" /\ Unfiltered(w) => rec[Target(w)].status = "checked"
        /\ pc[w] \in {"get", "save", "restore"} /\ Unfiltered(w) => found[w].kept = {}

\* Nobody knows of a row before it is there.
RowsExist ==
    /\ \A s \in Sub : pc[Caller(s)] \in {"idle", "create"} => rec[s].status = "absent"
    /\ \A e \in loop.batch : rec[e.sub].status # "absent"
    /\ \A s \in loop.sub : rec[s].status # "absent"

LockInv == OnePassAtATime /\ HeldRows /\ RowsExist /\ NoneAbandoned

\* All that is used of workers from here on.
LEMMA Workers ==
    /\ \A w \in Worker : Target(w) \in Sub
    /\ \A w \in Worker : IsCaller(w) => w = Caller(Target(w))
    /\ \A s \in Sub : Caller(s) \in Worker /\ Target(Caller(s)) = s /\ IsCaller(Caller(s))
BY BoundAssumption

HIDE DEF Worker, Target, Caller, IsCaller

\* What a step of worker u may do to its row and its place, other workers
\* left alone, without breaking LockInv.
LEMMA WorkerStep ==
    ASSUME TypeOK, TypeOK', LockInv, NEW u \in Worker,
           NEW t \in Sub, t = Target(u),
           \A w \in Worker \ {u} :
              pc'[w] = pc[w] /\ job'[w] = job[w] /\ found'[w] = found[w],
           \A s \in Sub \ {t} : rec'[s] = rec[s],
           Holds(u)' => Holds(u) \/ rec[t].status = "pending",
           \/ rec'[t] = rec[t]
           \/ Holds(u)
           \/ rec[t].status = "pending"
           \/ rec[t].status = "absent" /\ u = Caller(t),
           Holds(u)' => rec'[t].status \in {"checking", "checked"},
           (pc[u] = "upsert" /\ Unfiltered(u))' => rec'[t].status = "checked",
           (pc[u] \in {"get", "save", "restore"} /\ Unfiltered(u))' => found'[u].kept = {},
           rec'[t].status = "absent" => rec[t].status = "absent",
           u = Caller(t) /\ pc'[u] \in {"idle", "create"} => rec'[t].status = "absent",
           faults' = 0 => faults = 0,
           faults' = 0 /\ rec'[t].status = "checking"
              => Holds(u)' \/ (rec[t].status = "checking" /\ ~ Holds(u)),
           loop'.batch \subseteq loop.batch,
           loop'.sub = loop.sub
    PROVE  LockInv'
<1> USE DEF LockInv
<1>1. \A w \in Worker \ {u} : /\ Holds(w)' <=> Holds(w)
                             /\ Unfiltered(w)' <=> Unfiltered(w)
  BY DEF Holds, Unfiltered
<1>2. \A w \in Worker \ {u} : Holds(w) => rec'[Target(w)] = rec[Target(w)]
  <2> SUFFICES ASSUME NEW w \in Worker \ {u}, Holds(w), Target(w) = t
               PROVE  rec'[t] = rec[t]
    BY Workers
  <2>1. ~ Holds(u)
    BY DEF OnePassAtATime
  <2>2. rec[t].status \in {"checking", "checked"}
    BY DEF HeldRows
  <2> QED BY <2>1, <2>2
<1>3. OnePassAtATime'
  <2>1. ASSUME NEW w \in Worker \ {u}, Holds(w), Holds(u)', Target(w) = t
        PROVE  FALSE
    <3>1. rec[t].status \in {"checking", "checked"}
      BY <2>1 DEF HeldRows
    <3>2. Holds(u)
      BY <2>1, <3>1
    <3> QED BY <2>1, <3>2 DEF OnePassAtATime
  <2>2. ASSUME NEW v \in Worker, NEW w \in Worker, Holds(v)', Holds(w)',
               Target(v) = Target(w), v # w
        PROVE  FALSE
    <3>1. CASE v = u
      BY <1>1, <2>1, <2>2, <3>1 DEF Holds, Unfiltered
    <3>2. CASE w = u
      BY <1>1, <2>1, <2>2, <3>2 DEF Holds, Unfiltered
    <3>3. CASE v # u /\ w # u
      BY <1>1, <2>2, <3>3 DEF OnePassAtATime, Holds, Unfiltered
    <3> QED BY <3>1, <3>2, <3>3
  <2> QED BY <2>2 DEF OnePassAtATime
<1>4. HeldRows'
  <2>1. ASSUME NEW w \in Worker, w # u
        PROVE  /\ Holds(w)' => rec'[Target(w)].status \in {"checking", "checked"}
               /\ (pc[w] = "upsert" /\ Unfiltered(w))' => rec'[Target(w)].status = "checked"
               /\ (pc[w] \in {"get", "save", "restore"} /\ Unfiltered(w))'
                     => found'[w].kept = {}
    <3>1. CASE Holds(w)
      BY <1>1, <1>2, <2>1, <3>1 DEF HeldRows, Holds, Unfiltered
    <3>2. CASE ~ Holds(w)
      BY <1>1, <2>1, <3>2 DEF Holds, Working, Unfiltered
    <3> QED BY <3>1, <3>2
  <2> QED BY <2>1 DEF HeldRows
<1>5. RowsExist'
  <2>1. \A s \in Sub : pc'[Caller(s)] \in {"idle", "create"} => rec'[s].status = "absent"
    <3> SUFFICES ASSUME NEW s \in Sub, pc'[Caller(s)] \in {"idle", "create"}
                 PROVE  rec'[s].status = "absent"
      OBVIOUS
    <3>1. CASE Caller(s) = u
      BY <3>1, Workers
    <3>2. CASE Caller(s) # u
      <4>1. rec[s].status = "absent"
        BY <3>2, Workers DEF RowsExist
      <4>2. s = t => ~ Holds(u)
        BY <4>1 DEF HeldRows
      <4> QED BY <3>2, <4>1, <4>2
    <3> QED BY <3>1, <3>2
  <2>2. \A s \in Sub : rec[s].status # "absent" => rec'[s].status # "absent"
    OBVIOUS
  <2> QED BY <2>1, <2>2 DEF RowsExist, TypeOK, Entry
<1>6. NoneAbandoned'
  <2> SUFFICES ASSUME faults' = 0, NEW s \in Sub, rec'[s].status = "checking"
               PROVE  \E w \in Worker : Holds(w)' /\ Target(w) = s
    BY DEF NoneAbandoned
  <2>1. CASE s = t /\ Holds(u)'
    BY <2>1
  <2>2. CASE ~ (s = t /\ Holds(u)')
    <3>1. rec[s].status = "checking" /\ (s = t => ~ Holds(u))
      BY <2>2
    <3>2. PICK w \in Worker : Holds(w) /\ Target(w) = s
      BY <3>1 DEF NoneAbandoned
    <3>3. w # u
      BY <3>1, <3>2
    <3> QED BY <1>1, <3>2, <3>3 DEF Holds, Unfiltered
  <2> QED BY <2>1, <2>2
<1> QED BY <1>3, <1>4, <1>5, <1>6

\* The worker that takes a step is the only one whose place changes.
LEMMA LeaveOthers ==
    ASSUME TypeOK, NEW u \in Worker, NEW o, Leave(u, o)
    PROVE  /\ \A w \in Worker \ {u} :
                 pc'[w] = pc[w] /\ job'[w] = job[w] /\ found'[w] = found[w]
           /\ pc'[u] = (IF IsCaller(u) THEN o ELSE "idle")
BY DEF TypeOK, Leave, GoTo

LEMMA GoToOthers ==
    ASSUME TypeOK, NEW u \in Worker, NEW o, GoTo(u, o)
    PROVE  /\ \A w \in Worker \ {u} : pc'[w] = pc[w]
           /\ pc'[u] = o
BY DEF TypeOK, GoTo

LEMMA WriteOthers ==
    ASSUME TypeOK, NEW s \in Sub, NEW row, Write(s, row)
    PROVE  /\ \A r \in Sub \ {s} : rec'[r] = rec[r]
           /\ rec'[s] = row
BY DEF TypeOK, Write

LEMMA FaultsGrow ==
    ASSUME TypeOK, NEW op
    PROVE  /\ Fails(op) => faults' # 0
           /\ Succeeds => faults' = faults
           /\ ~ (Fails(op) /\ Succeeds)
BY BoundAssumption DEF TypeOK, Fails, Succeeds

\* The row a step of u leaves: as it was, or rewritten by u.
RowKept(u) == rec' = rec
RowWritten(u, status) ==
    \E row \in Row : Write(Target(u), row) /\ row.status = status

LEMMA RowEffect ==
    ASSUME TypeOK, NEW u \in Worker, NEW status
    PROVE  /\ RowKept(u) => \A s \in Sub : rec'[s] = rec[s]
           /\ RowWritten(u, status) =>
                 /\ \A s \in Sub \ {Target(u)} : rec'[s] = rec[s]
                 /\ rec'[Target(u)].status = status
BY Workers, WriteOthers DEF RowKept, RowWritten

\* A worker ends.  If it held its row it must have said what becomes of it,
\* unless something failed.
LEMMA LeaveStep ==
    ASSUME TypeOK, TypeOK', LockInv, NEW u \in Worker,
           NEW o \in {"done", "failed"}, Leave(u, o),
           \/ RowKept(u)
           \/ Holds(u) /\ (RowWritten(u, "pending") \/ RowWritten(u, "checked")),
           faults' = 0 => faults = 0,
           faults' = 0 /\ Holds(u) => rec'[Target(u)].status # "checking",
           loop' = loop
    PROVE  LockInv'
<1> DEFINE t == Target(u)
<1>1. t \in Sub
  BY Workers
<1>2. /\ \A w \in Worker \ {u} :
            pc'[w] = pc[w] /\ job'[w] = job[w] /\ found'[w] = found[w]
      /\ pc'[u] \in {"idle", "done", "failed"}
      /\ IsCaller(u) => pc'[u] \in {"done", "failed"}
  BY LeaveOthers
<1>3. \A s \in Sub \ {t} : rec'[s] = rec[s]
  BY RowEffect
<1>4. rec'[t] = rec[t] \/ (Holds(u) /\ rec'[t].status \in {"pending", "checked"})
  BY <1>1, RowEffect
<1>5. /\ ~ Holds(u)'
      /\ ~ (pc[u] \in {"upsert", "get", "save", "restore"})'
  BY <1>2 DEF Holds, Working
<1>6. rec'[t].status = "absent" => rec[t].status = "absent"
  BY <1>4
<1>7. u = Caller(t) => pc'[u] \notin {"idle", "create"}
  BY <1>1, <1>2, Workers
<1>8. faults' = 0 /\ rec'[t].status = "checking" => rec[t].status = "checking" /\ ~ Holds(u)
  BY <1>4
<1> HIDE DEF t
<1> QED BY <1>1, <1>2, <1>3, <1>4, <1>5, <1>6, <1>7, <1>8, WorkerStep DEF t

\* A worker that holds its row goes on with it.
LEMMA HoldStep ==
    ASSUME TypeOK, TypeOK', LockInv, NEW u \in Worker,
           NEW o \in Working \cup {"upsert"}, GoTo(u, o), job' = job,
           \A w \in Worker \ {u} : found'[w] = found[w],
           Holds(u), o = "upsert" /\ Unfiltered(u) => rec'[Target(u)].status = "checked",
           o \in {"get", "save", "restore"} /\ Unfiltered(u) => found'[u].kept = {},
           \/ o # "upsert" /\ RowKept(u)
           \/ o = "upsert" /\ (RowWritten(u, "checked") \/ RowWritten(u, "pending")),
           faults' = 0 => faults = 0,
           loop' = loop
    PROVE  LockInv'
<1> DEFINE t == Target(u)
<1>1. t \in Sub
  BY Workers
<1>2. /\ \A w \in Worker \ {u} :
            pc'[w] = pc[w] /\ job'[w] = job[w] /\ found'[w] = found[w]
      /\ pc'[u] = o
      /\ Unfiltered(u)' <=> Unfiltered(u)
  BY GoToOthers DEF Unfiltered
<1>3. \A s \in Sub \ {t} : rec'[s] = rec[s]
  BY RowEffect
<1>4. \/ o # "upsert" /\ rec'[t] = rec[t]
      \/ o = "upsert" /\ rec'[t].status \in {"pending", "checked"}
  BY <1>1, RowEffect
<1>5. rec[t].status \in {"checking", "checked"}
  BY DEF LockInv, HeldRows
<1>6. Holds(u)' => rec'[t].status \in {"checking", "checked"}
  BY <1>2, <1>4, <1>5 DEF Holds, Working
<1>7. faults' = 0 /\ rec'[t].status = "checking" => Holds(u)'
  BY <1>2, <1>4, <1>5 DEF Holds, Working
<1>8. u = Caller(t) => pc'[u] \notin {"idle", "create"}
  BY <1>2 DEF Working
<1>9. (pc[u] = "upsert" /\ Unfiltered(u))' => rec'[t].status = "checked"
  BY <1>2
<1>10. (pc[u] \in {"get", "save", "restore"} /\ Unfiltered(u))' => found'[u].kept = {}
  BY <1>2
<1> HIDE DEF t
<1> QED BY <1>1, <1>2, <1>3, <1>4, <1>5, <1>6, <1>7, <1>8, <1>9, <1>10, WorkerStep DEF t

LEMMA ClaimLock ==
    ASSUME TypeOK, TypeOK', LockInv, NEW u \in Worker, Claim(u)
    PROVE  LockInv'
<1> DEFINE t == Target(u)
<1>0. t \in Sub /\ loop' = loop /\ (faults' = 0 => faults = 0)
  BY Workers, FaultsGrow DEF Claim
<1>1. CASE Leave(u, "failed") /\ UNCHANGED rec
  <2>1. ~ Holds(u)
    BY DEF Claim, Holds, Working
  <2> QED BY <1>0, <1>1, <2>1, LeaveStep DEF RowKept
<1>2. CASE /\ rec[t].status = "pending"
           /\ Write(t, [rec[t] EXCEPT !.status = "checking"])
           /\ GoTo(u, "check")
           /\ UNCHANGED <<job, found, copy>>
  <2>1. rec'[t].status = "checking" /\ \A s \in Sub \ {t} : rec'[s] = rec[s]
    BY <1>0, <1>2, WriteOthers DEF TypeOK, Row
  <2>2. pc'[u] = "check" /\ \A w \in Worker \ {u} : pc'[w] = pc[w]
    BY <1>2, GoToOthers
  <2>3. Holds(u)'
    BY <2>2 DEF Holds, Working
  <2>4. ~ (pc[u] \in {"upsert", "get", "save", "restore"})'
    BY <2>2
  <2>5. pc'[u] \notin {"idle", "create"}
    BY <2>2
  <2> HIDE DEF t
  <2> QED BY <1>0, <1>2, <2>1, <2>2, <2>3, <2>4, <2>5, WorkerStep DEF t
<1> QED BY <1>1, <1>2 DEF Claim, Claimable

LEMMA CheckLock ==
    ASSUME TypeOK, TypeOK', LockInv, NEW u \in Worker, Check(u)
    PROVE  LockInv'
<1>1. Holds(u) /\ loop' = loop /\ job' = job /\ (faults' = 0 => faults = 0)
  BY FaultsGrow DEF Check, Holds, Working
<1>2. /\ \A w \in Worker \ {u} : found'[w] = found[w]
      /\ Unfiltered(u) => found'[u].kept = {}
  BY DEF Check, Collected, TypeOK, Unfiltered
<1> QED BY <1>1, <1>2, HoldStep DEF Check, RowKept, Working

LEMMA GetLock ==
    ASSUME TypeOK, TypeOK', LockInv, NEW u \in Worker, Get(u)
    PROVE  LockInv'
<1>1. /\ Holds(u) /\ loop' = loop /\ (faults' = 0 => faults = 0) /\ RowKept(u)
      /\ Unfiltered(u) => found[u].kept = {}
  BY FaultsGrow DEF Get, Holds, Working, RowKept, LockInv, HeldRows
<1>2. CASE Fails("get") /\ Leave(u, "failed")
  BY <1>1, <1>2, FaultsGrow, LeaveStep
<1>3. CASE GoTo(u, "save") /\ UNCHANGED <<job, found, copy>>
  BY <1>1, <1>3, HoldStep DEF Working
<1> QED BY <1>2, <1>3 DEF Get

LEMMA SaveLock ==
    ASSUME TypeOK, TypeOK', LockInv, NEW u \in Worker, Save(u)
    PROVE  LockInv'
<1> DEFINE t == Target(u)
           f == found[u]
<1>0. t \in Sub /\ Holds(u) /\ loop' = loop /\ (faults' = 0 => faults = 0)
  BY Workers, FaultsGrow DEF Save, Holds, Working
<1>1. CASE Fails("save") /\ UNCHANGED rec
  <2>1. CASE Leave(u, "failed")
    BY <1>0, <1>1, <2>1, FaultsGrow, LeaveStep DEF RowKept
  <2>2. CASE GoTo(u, "restore") /\ UNCHANGED <<job, found, copy>>
    <3>1. Unfiltered(u) => found[u].kept = {}
      BY DEF Save, LockInv, HeldRows
    <3> QED BY <1>0, <1>1, <2>2, <3>1, HoldStep DEF RowKept, Working
  <2>3. ~ Succeeds
    BY <1>1, FaultsGrow
  <2> QED BY <2>1, <2>2, <2>3 DEF Save
<1>2. CASE Write(t, ResultRow(t, f, StatusAfter(f))) /\ Succeeds
  <2>1. StatusAfter(f) \in {"pending", "checked"}
    BY DEF StatusAfter
  <2>2. ResultRow(t, f, StatusAfter(f)) \in Row
    BY <1>0, <2>1, ResultRowType
  <2>3. ResultRow(t, f, StatusAfter(f)).status = StatusAfter(f)
    BY <1>0 DEF ResultRow, TypeOK, Row
  <2>4. RowWritten(u, StatusAfter(f)) /\ rec'[t].status = StatusAfter(f)
    BY <1>0, <1>2, <2>2, <2>3, WriteOthers DEF RowWritten
  <2>5. CASE Leave(u, "done")
    BY <1>0, <2>1, <2>4, <2>5, LeaveStep
  <2>6. CASE GoTo(u, "upsert") /\ UNCHANGED <<job, found, copy>>
    <3>1. Unfiltered(u) => StatusAfter(f) = "checked"
      BY DEF Save, LockInv, HeldRows, StatusAfter
    <3> QED BY <1>0, <2>1, <2>4, <2>6, <3>1, HoldStep
  <2>7. ~ Fails("save")
    BY <1>2, FaultsGrow
  <2> HIDE DEF f
  <2> QED BY <2>5, <2>6, <2>7 DEF Save
<1> QED BY <1>1, <1>2 DEF Save

LEMMA RestoreLock ==
    ASSUME TypeOK, TypeOK', LockInv, NEW u \in Worker, Restore(u)
    PROVE  LockInv'
<1> DEFINE t == Target(u)
<1>0. t \in Sub /\ Holds(u) /\ loop' = loop /\ Leave(u, "failed") /\ (faults' = 0 => faults = 0)
  BY Workers, FaultsGrow DEF Restore, Holds, Working
<1>1. CASE Write(t, ResultRow(t, found[u], "pending"))
  <2>1. ResultRow(t, found[u], "pending") \in Row
    BY <1>0, ResultRowType
  <2>2. ResultRow(t, found[u], "pending").status = "pending"
    BY <1>0 DEF ResultRow, TypeOK, Row
  <2>3. RowWritten(u, "pending") /\ rec'[t].status = "pending"
    BY <1>0, <1>1, <2>1, <2>2, WriteOthers DEF RowWritten
  <2> QED BY <1>0, <2>3, LeaveStep
<1>2. CASE UNCHANGED rec /\ Fails("save")
  BY <1>0, <1>2, FaultsGrow, LeaveStep DEF RowKept
<1> QED BY <1>1, <1>2 DEF Restore

LEMMA UpsertLock ==
    ASSUME TypeOK, TypeOK', LockInv, NEW u \in Worker, Upsert(u)
    PROVE  LockInv'
<1>1. /\ loop' = loop /\ Leave(u, "done") /\ (faults' = 0 => faults = 0)
      /\ RowKept(u)
  BY FaultsGrow DEF Upsert, RowKept
<1>2. Holds(u) => rec'[Target(u)].status # "checking"
  BY <1>1 DEF Upsert, Holds, Working, LockInv, HeldRows, RowKept
<1> QED BY <1>1, <1>2, LeaveStep

LEMMA PanicLock ==
    ASSUME TypeOK, TypeOK', LockInv, NEW u \in Worker, Panic(u)
    PROVE  LockInv'
<1>1. loop' = loop /\ faults' # 0 /\ RowKept(u)
  BY FaultsGrow DEF Panic, RowKept
<1>2. CASE Unfiltered(u) /\ GoTo(u, "recover") /\ UNCHANGED <<job, found, copy>>
  <2>1. Holds(u)
    BY <1>2 DEF Panic, Holds, Working
  <2> QED BY <1>1, <1>2, <2>1, HoldStep DEF Working
<1>3. CASE Leave(u, "failed")
  BY <1>1, <1>3, LeaveStep
<1> QED BY <1>2, <1>3 DEF Panic

LEMMA RecoverLock ==
    ASSUME TypeOK, TypeOK', LockInv, NEW u \in Worker, Recover(u)
    PROVE  LockInv'
<1>1. /\ Holds(u) /\ loop' = loop /\ (faults' = 0 => faults = 0) /\ RowKept(u)
  BY FaultsGrow DEF Recover, Holds, Working, RowKept
<1>2. CASE rec[Target(u)].status # "checking" /\ Leave(u, "failed")
  BY <1>1, <1>2, LeaveStep DEF RowKept
<1>3. CASE Fails("get") /\ Leave(u, "failed")
  BY <1>1, <1>3, FaultsGrow, LeaveStep
<1>4. CASE GoTo(u, "put back") /\ UNCHANGED <<job, found>>
  BY <1>1, <1>4, HoldStep DEF Working
<1> QED BY <1>2, <1>3, <1>4 DEF Recover

LEMMA PutBackLock ==
    ASSUME TypeOK, TypeOK', LockInv, NEW u \in Worker, PutBack(u)
    PROVE  LockInv'
<1> DEFINE t == Target(u)
<1>0. t \in Sub /\ Holds(u) /\ loop' = loop /\ Leave(u, "failed") /\ (faults' = 0 => faults = 0)
  BY Workers, FaultsGrow DEF PutBack, Holds, Working
<1>1. CASE Write(t, [copy[u] EXCEPT !.status = "pending"])
  <2>1. copy[u] \in Row
    BY DEF TypeOK
  <2>2. /\ [copy[u] EXCEPT !.status = "pending"] \in Row
        /\ [copy[u] EXCEPT !.status = "pending"].status = "pending"
    BY <2>1 DEF Row
  <2>3. RowWritten(u, "pending") /\ rec'[t].status = "pending"
    BY <1>0, <1>1, <2>2, WriteOthers DEF RowWritten
  <2> QED BY <1>0, <2>3, LeaveStep
<1>2. CASE UNCHANGED rec /\ Fails("save")
  BY <1>0, <1>2, FaultsGrow, LeaveStep DEF RowKept
<1> QED BY <1>1, <1>2 DEF PutBack

LEMMA SubmitLock ==
    ASSUME TypeOK, TypeOK', LockInv, NEW s \in Sub, Submit(s)
    PROVE  LockInv'
<1> DEFINE u == Caller(s)
<1>0. /\ u \in Worker /\ Target(u) = s /\ loop' = loop /\ rec' = rec
      /\ (faults' = 0 => faults = 0)
  BY Workers, FaultsGrow DEF Submit
<1>1. ~ Holds(u) /\ rec[s].status = "absent"
  BY <1>0 DEF Submit, Holds, Working, LockInv, RowsExist
<1>2. CASE \E o \in {"done", "failed"} : Leave(u, o)
  BY <1>0, <1>1, <1>2, LeaveStep DEF RowKept
<1>3. CASE GoTo(u, "create") /\ UNCHANGED <<found, copy>>
           /\ \E j \in Job : job' = [job EXCEPT ![u] = j]
  <2>1. /\ \A w \in Worker \ {u} :
              pc'[w] = pc[w] /\ job'[w] = job[w] /\ found'[w] = found[w]
        /\ pc'[u] = "create"
    BY <1>0, <1>3, GoToOthers DEF TypeOK
  <2>2. ~ Holds(u)' /\ ~ (pc[u] \in {"upsert", "get", "save", "restore"})'
    BY <2>1 DEF Holds, Working
  <2> HIDE DEF u
  <2> QED BY <1>0, <1>1, <2>1, <2>2, WorkerStep
<1>4. \A raw \in SUBSET Link, r \in Request :
        [raw |-> raw, links |-> (raw \cap Recognised) \ KnownInvalid(raw \cap Recognised),
         sel |-> IF r.task THEN Platform ELSE r.sel, task |-> r.task] \in Job
  BY RequestAssumption DEF Job
<1> QED BY <1>2, <1>3, <1>4 DEF Submit

LEMMA CreateLock ==
    ASSUME TypeOK, TypeOK', LockInv, NEW s \in Sub, Create(s)
    PROVE  LockInv'
<1> DEFINE u == Caller(s)
<1>0. /\ u \in Worker /\ Target(u) = s /\ loop' = loop /\ (faults' = 0 => faults = 0)
  BY Workers, FaultsGrow DEF Create
<1>1. ~ Holds(u) /\ rec[s].status = "absent"
  BY <1>0 DEF Create, Holds, Working, LockInv, RowsExist
<1>2. CASE UNCHANGED rec /\ Leave(u, "failed")
  BY <1>0, <1>1, <1>2, LeaveStep DEF RowKept
<1>3. CASE Write(s, [NoRow EXCEPT !.status = "pending", !.original = job[u].raw,
                                  !.pending = job[u].links])
  <2>1. rec'[s].status = "pending" /\ \A r \in Sub \ {s} : rec'[r] = rec[r]
    <3> HIDE DEF u
    <3> QED BY <1>3 DEF NoRow, Write, TypeOK
  <2>2. /\ \A w \in Worker \ {u} :
              pc'[w] = pc[w] /\ job'[w] = job[w] /\ found'[w] = found[w]
        /\ pc'[u] \in {"claim", "done", "failed"}
    BY <1>0, GoToOthers, LeaveOthers, Workers DEF Create
  <2>3. ~ Holds(u)' /\ ~ (pc[u] \in {"upsert", "get", "save", "restore"})'
    BY <2>2 DEF Holds, Working
  <2> HIDE DEF u
  <2> QED BY <1>0, <1>1, <2>1, <2>2, <2>3, WorkerStep DEF u
<1> QED BY <1>2, <1>3 DEF Create

LEMMA SpawnLock ==
    ASSUME TypeOK, TypeOK', LockInv, Spawn
    PROVE  LockInv'
<1>1. PICK e \in loop.batch, u \in Worker :
        /\ Target(u) = e.sub /\ ~ IsCaller(u) /\ pc[u] = "idle"
        /\ GoTo(u, "claim")
        /\ job' = [job EXCEPT ![u] = [NoJob EXCEPT !.links = e.links]]
        /\ loop' = [loop EXCEPT !.batch = loop.batch \ {e}]
  BY DEF Spawn
<1>2. /\ rec' = rec /\ found' = found /\ faults' = faults
      /\ loop'.batch \subseteq loop.batch /\ loop'.sub = loop.sub
  BY <1>1 DEF Spawn, TypeOK
<1>3. /\ \A w \in Worker \ {u} :
            pc'[w] = pc[w] /\ job'[w] = job[w] /\ found'[w] = found[w]
      /\ pc'[u] = "claim"
  BY <1>1, <1>2, GoToOthers DEF TypeOK
<1>4. /\ ~ Holds(u) /\ ~ Holds(u)'
      /\ ~ (pc[u] \in {"upsert", "get", "save", "restore"})'
  BY <1>1, <1>3 DEF Holds, Working
<1>5. Target(u) \in Sub /\ u # Caller(Target(u))
  BY <1>1, Workers
<1> QED BY <1>2, <1>3, <1>4, <1>5, WorkerStep

\* The steps that leave every worker where it is.
LEMMA IdleStep ==
    ASSUME TypeOK, TypeOK', LockInv, UNCHANGED <<pc, job, found>>,
           \A s \in Sub : rec'[s] = rec[s] \/
              (s \in loop.sub /\ rec'[s].status = "checked"),
           faults' = 0 => faults = 0,
           \A e \in loop'.batch : rec[e.sub].status # "absent",
           \A s \in loop'.sub : rec[s].status # "absent"
    PROVE  LockInv'
<1> USE DEF LockInv
<1>1. \A w \in Worker : Holds(w)' <=> Holds(w)
  BY DEF Holds, Unfiltered
<1>2. OnePassAtATime'
  BY DEF OnePassAtATime, Holds, Unfiltered
<1>3. \A s \in Sub : rec[s].status # "absent" => rec'[s].status # "absent"
  OBVIOUS
<1>4. HeldRows'
  BY Workers DEF HeldRows, Holds, Unfiltered
<1>5. RowsExist'
  <2>1. \A s \in Sub : rec[s].status = "absent" => rec'[s].status = "absent"
    BY DEF RowsExist
  <2> QED BY <1>3, <2>1 DEF RowsExist, TypeOK, Entry
<1>6. NoneAbandoned'
  BY DEF NoneAbandoned, Holds, Unfiltered
<1> QED BY <1>2, <1>4, <1>5, <1>6

LEMMA LoopLock ==
    ASSUME TypeOK, TypeOK', LockInv,
           \/ Scan \/ FinishRead \/ FinishSave \/ ClearRateLimited
           \/ \E s \in Sub : Settle(s)
    PROVE  LockInv'
<1>0. UNCHANGED <<pc, job, found>> /\ (faults' = 0 => faults = 0)
  BY FaultsGrow DEF Scan, FinishRead, FinishSave, ClearRateLimited, Settle
<1>1. CASE Scan
  <2>1. rec' = rec /\ loop'.sub = loop.sub
    BY <1>1 DEF Scan, TypeOK
  <2>2. \A e \in loop'.batch : rec[e.sub].status # "absent"
    BY <1>1 DEF Scan, TypeOK, Pending, LockInv, RowsExist
  <2> QED BY <1>0, <2>1, <2>2, IdleStep DEF LockInv, RowsExist
<1>2. CASE FinishRead
  <2>1. /\ rec' = rec
        /\ loop'.batch \subseteq loop.batch
        /\ \A s \in loop'.sub : s \in loop.sub \/ \E e \in loop.batch : s = e.sub
    BY <1>2 DEF FinishRead, TypeOK
  <2> QED BY <1>0, <2>1, IdleStep DEF LockInv, RowsExist
<1>3. CASE FinishSave
  <2>1. loop'.batch = loop.batch /\ loop'.sub = {}
    BY <1>3 DEF FinishSave, TypeOK
  <2>2. \A s \in Sub : rec'[s] = rec[s] \/ (s \in loop.sub /\ rec'[s].status = "checked")
    <3>1. CASE UNCHANGED rec
      BY <3>1
    <3>2. CASE \E s \in loop.sub :
                  Write(s, [loop.row EXCEPT !.status = "checked", !.pending = {}])
      <4>1. PICK s \in loop.sub :
              Write(s, [loop.row EXCEPT !.status = "checked", !.pending = {}])
        BY <3>2
      <4>2. s \in Sub /\ loop.row \in Row
        BY DEF TypeOK
      <4>3. [loop.row EXCEPT !.status = "checked", !.pending = {}].status = "checked"
        BY <4>2 DEF Row
      <4> QED BY <4>1, <4>2, <4>3 DEF Write, TypeOK
    <3> QED BY <1>3, <3>1, <3>2 DEF FinishSave
  <2> QED BY <1>0, <2>1, <2>2, IdleStep DEF LockInv, RowsExist
<1>4. CASE ClearRateLimited
  BY <1>0, <1>4, IdleStep DEF ClearRateLimited, LockInv, RowsExist
<1>5. CASE \E s \in Sub : Settle(s)
  BY <1>0, <1>5, IdleStep DEF Settle, LockInv, RowsExist
<1> QED BY <1>1, <1>2, <1>3, <1>4, <1>5

LEMMA CrashLock ==
    ASSUME TypeOK, TypeOK', LockInv, Crash
    PROVE  LockInv'
<1>1. faults' # 0 /\ rec' = rec
  BY FaultsGrow DEF Crash
<1>2. \A w \in Worker : pc'[w] \in {"idle", "done", "failed"}
  BY DEF Crash
<1>3. \A w \in Worker : ~ Holds(w)' /\ ~ (pc[w] \in {"upsert", "get", "save", "restore"})'
  BY <1>2 DEF Holds, Working
<1>4. OnePassAtATime' /\ HeldRows'
  BY <1>3 DEF OnePassAtATime, HeldRows
<1>5. RowsExist'
  BY <1>1, Workers DEF Crash, RowsExist, LockInv
<1> QED BY <1>1, <1>4, <1>5 DEF LockInv, NoneAbandoned

LEMMA InitLock == Init => LockInv
BY Workers DEF Init, LockInv, OnePassAtATime, HeldRows, RowsExist, NoneAbandoned, Holds,
               Working, NoRow

LEMMA NextLock == TypeOK /\ TypeOK' /\ LockInv /\ [Next]_vars => LockInv'
<1> SUFFICES ASSUME TypeOK, TypeOK', LockInv, [Next]_vars PROVE LockInv'
  OBVIOUS
<1>1. CASE UNCHANGED vars
  BY <1>1 DEF vars, LockInv, OnePassAtATime, HeldRows, RowsExist, NoneAbandoned, Holds, Unfiltered
<1>2. ASSUME NEW s \in Sub, Submit(s) \/ Create(s) PROVE LockInv'
  BY <1>2, SubmitLock, CreateLock
<1>3. ASSUME NEW w \in Worker, Pass(w) \/ Panic(w) PROVE LockInv'
  BY <1>3, ClaimLock, CheckLock, GetLock, SaveLock, RestoreLock, UpsertLock, RecoverLock,
     PutBackLock, PanicLock DEF Pass
<1> QED BY <1>1, <1>2, <1>3, SpawnLock, LoopLock, CrashLock DEF Next, Background

LEMMA LockHolds == Spec => []LockInv
BY TypeCorrect, InitLock, NextLock, PTL DEF Spec

\* No row is ever held by two passes, whatever fails.
THEOREM OnePass == Spec => []OnePassAtATime
<1>1. LockInv => OnePassAtATime
  BY DEF LockInv
<1> QED BY <1>1, LockHolds, PTL

\* Without faults a row in checking always has a pass that works on it.
THEOREM NoRowStuck == Spec => []NoneAbandoned
<1>1. LockInv => NoneAbandoned
  BY DEF LockInv
<1> QED BY <1>1, LockHolds, PTL

===============================================================================
