-------------------------- MODULE SubmissionLinkProofs --------------------------
(***************************************************************************)
(* Theorems about the links of a submission while nothing fails: where     *)
(* they go when they leave pending_links, that checked is the end, that    *)
(* none vanishes, and that the rows implement Lifecycle.                   *)
(***************************************************************************)
EXTENDS SubmissionRowProofs

-------------------------------------------------------------------------------
(***************************************************************************)
(* What everybody who is about to write a row knows of it.  The scan and   *)
(* the goroutines work with copies of pending_links that may be old; the   *)
(* invariant says in which way they may differ from the row.               *)
(***************************************************************************)
\* A row without links to check and without results.
Bare(row) == row.pending = {} /\ row.valid = {} /\ row.locked = {}

\* A worker on its way to the Save of its row has been told all links that are
\* pending.  The request has been told exactly these until the row is checked;
\* a goroutine has been told of some, which go only when the row is checked.
\* The row a pass holds is checked already only if there was nothing to check.
Told(w) ==
    LET row == rec[Target(w)]
        links == job[w].links
    IN /\ row.status # "absent"
       /\ row.pending \subseteq links
       /\ IsCaller(w) => row.status = "checked" \/ row.pending = links
       /\ ~ IsCaller(w) => links # {} /\ (row.status = "checked" \/ row.pending # {})
       /\ pc[w] # "claim" /\ row.status = "checked" => links = {} /\ Bare(row)

\* The lists of a pass are made of the links it was told.
Sorted(w) ==
    job[w].links = found[w].valid \cup found[w].locked \cup found[w].dead
                       \cup found[w].limited \cup found[w].kept

\* The places a worker only comes to after a fault.
Repairing == {"restore", "recover", "put back"}

WorkerQuiet(w) ==
    /\ pc[w] \notin Repairing
    /\ ~ IsCaller(w) => Unfiltered(w)
    /\ pc[w] \in {"claim", "check", "get", "save"} => Told(w)
    /\ pc[w] \in {"get", "save"} => Sorted(w)

\* A row that is not checked and has no links left never had any; one that is
\* not there has nothing.
RowQuiet(s) ==
    /\ rec[s].status # "checked" /\ rec[s].pending = {} => Bare(rec[s])
    /\ rec[s].status = "absent" => rec[s].pending = {} /\ rec[s].original = {}

\* What the scan has read is not less than what is pending.
EntryQuiet(e) ==
    LET row == rec[e.sub] IN
    /\ row.pending \subseteq e.links
    /\ e.links # {} => row.status = "checked" \/ row.pending # {}

\* The row the scan is about to save differs in its status at most.
SaveQuiet(s) == Bare(rec[s]) /\ Bare(loop.row) /\ loop.row.original = rec[s].original

LinkInv ==
    faults = 0 =>
        /\ \A w \in Worker : WorkerQuiet(w)
        /\ \A s \in Sub : RowQuiet(s)
        /\ \A e \in loop.batch : EntryQuiet(e)
        /\ \A s \in loop.sub : SaveQuiet(s)

LEMMA Repairs ==
    /\ \A x \in {"idle", "create", "claim", "check", "get", "save", "upsert", "done", "failed"} :
          x \notin Repairing
    /\ Working = {"check", "get", "save"} \cup Repairing
BY Zenon DEF Repairing, Working

\* What a step of worker u may do to its row, other workers left alone: if the
\* row changes, who else knows of it has to be content with it.
LEMMA QuietStep ==
    ASSUME TypeOK, LinkInv, faults = 0, NEW u \in Worker, NEW t \in Sub, t = Target(u),
           \A w \in Worker \ {u} :
              pc'[w] = pc[w] /\ job'[w] = job[w] /\ found'[w] = found[w],
           \A s \in Sub \ {t} : rec'[s] = rec[s],
           loop'.batch \subseteq loop.batch, loop'.sub = loop.sub, loop'.row = loop.row,
           WorkerQuiet(u)',
           \/ rec'[t] = rec[t]
           \/ /\ RowQuiet(t)'
              /\ \A w \in Worker \ {u} : Target(w) = t => WorkerQuiet(w)'
              /\ \A e \in loop.batch : e.sub = t => EntryQuiet(e)'
              /\ t \in loop.sub => SaveQuiet(t)'
    PROVE  LinkInv'
<1>1. ASSUME NEW w \in Worker \ {u}, rec'[Target(w)] = rec[Target(w)]
      PROVE  WorkerQuiet(w)'
  <2>1. WorkerQuiet(w)
    BY DEF LinkInv
  <2>2. pc'[w] = pc[w] /\ job'[w] = job[w] /\ found'[w] = found[w]
    OBVIOUS
  <2> QED BY <1>1, <2>1, <2>2 DEF WorkerQuiet, Told, Sorted, Unfiltered
<1>2. \A w \in Worker : WorkerQuiet(w)'
  BY <1>1, Workers
<1>3. \A s \in Sub : RowQuiet(s)'
  BY DEF LinkInv, RowQuiet
<1>4. \A e \in loop'.batch : EntryQuiet(e)'
  <2> SUFFICES ASSUME NEW e \in loop.batch, rec'[e.sub] = rec[e.sub]
               PROVE  EntryQuiet(e)'
    BY DEF TypeOK, Entry
  <2> QED BY DEF LinkInv, EntryQuiet
<1>5. \A s \in loop'.sub : SaveQuiet(s)'
  <2> SUFFICES ASSUME NEW s \in loop.sub, rec'[s] = rec[s]
               PROVE  SaveQuiet(s)'
    BY DEF TypeOK
  <2> QED BY DEF LinkInv, SaveQuiet
<1> QED BY <1>2, <1>3, <1>4, <1>5 DEF LinkInv

\* A worker that ends, or has not begun, has nothing to be quiet about.
LEMMA LeaveQuiet ==
    ASSUME TypeOK, LinkInv, faults = 0, NEW u \in Worker, NEW o \in {"done", "failed"},
           Leave(u, o)
    PROVE  WorkerQuiet(u)'
<1>1. pc'[u] \in {"idle", "done", "failed"}
  BY LeaveOthers
<1>2. job'[u] = NoJob
  BY DEF Leave, TypeOK
<1> QED BY <1>1, <1>2, Repairs DEF WorkerQuiet, Unfiltered, NoJob

\* A worker that ends without having touched its row.
LEMMA EndQuiet ==
    ASSUME TypeOK, LinkInv, faults = 0, NEW u \in Worker, NEW o \in {"done", "failed"},
           Leave(u, o), UNCHANGED <<rec, loop>>
    PROVE  LinkInv'
BY LeaveOthers, LeaveQuiet, QuietStep, Workers

LEMMA SubmitQuiet ==
    ASSUME TypeOK, LinkInv, faults = 0, faults' = 0, NEW s \in Sub, Submit(s)
    PROVE  LinkInv'
<1> DEFINE w == Caller(s)
<1>1. w \in Worker /\ Target(w) = s /\ IsCaller(w)
  BY Workers
<1>2. UNCHANGED <<rec, loop>>
  BY DEF Submit
<1>3. CASE \E o \in {"done", "failed"} : Leave(w, o)
  BY <1>1, <1>2, <1>3, EndQuiet
<1>4. CASE /\ GoTo(w, "create")
           /\ \A u \in Worker \ {w} : job'[u] = job[u]
           /\ UNCHANGED found
  <2>1. WorkerQuiet(w)'
    BY <1>1, <1>4, GoToOthers, Repairs DEF WorkerQuiet
  <2> QED BY <1>1, <1>2, <1>4, <2>1, GoToOthers, QuietStep
<1>5. ASSUME NEW x, job' = [job EXCEPT ![w] = x]
      PROVE  \A u \in Worker \ {w} : job'[u] = job[u]
  BY <1>5 DEF TypeOK
<1> QED BY <1>3, <1>4, <1>5 DEF Submit

LEMMA CreateQuiet ==
    ASSUME TypeOK, LockInv, LinkInv, faults = 0, faults' = 0, NEW s \in Sub, Create(s)
    PROVE  LinkInv'
<1> DEFINE w == Caller(s)
           row == [NoRow EXCEPT !.status = "pending", !.original = job[w].raw,
                                !.pending = job[w].links]
<1>1. w \in Worker /\ Target(w) = s /\ IsCaller(w)
  BY Workers
<1>2. Write(s, row) /\ loop' = loop /\ pc[w] = "create"
  BY FaultsGrow DEF Create
<1>3. /\ rec[s].status = "absent"
      /\ \A e \in loop.batch : e.sub # s
      /\ s \notin loop.sub
  BY <1>2 DEF LockInv, RowsExist
<1>4. /\ \A r \in Sub \ {s} : rec'[r] = rec[r]
      /\ rec'[s] = row
  BY <1>2, WriteOthers
<1>5. row.status = "pending" /\ row.pending = job[w].links /\ row.valid = {} /\ row.locked = {}
  BY DEF NoRow
<1>6. RowQuiet(s)'
  BY <1>4, <1>5 DEF RowQuiet, Bare
<1>7. \A u \in Worker \ {w} : pc'[u] = pc[u] /\ job'[u] = job[u] /\ found'[u] = found[u]
  BY <1>1, GoToOthers, LeaveOthers DEF Create
<1>8. ASSUME NEW u \in Worker \ {w}, Target(u) = s
      PROVE  WorkerQuiet(u)'
  <2>1. WorkerQuiet(u)
    BY DEF LinkInv
  <2>2. pc[u] \notin {"claim", "check", "get", "save"}
    BY <1>3, <1>8, <2>1 DEF WorkerQuiet, Told
  <2> QED BY <1>7, <2>1, <2>2 DEF WorkerQuiet, Unfiltered
<1>9. WorkerQuiet(w)'
  <2>1. CASE Leave(w, "done") \/ Leave(w, "failed")
    BY <1>1, <2>1, LeaveQuiet
  <2>2. CASE GoTo(w, "claim") /\ UNCHANGED job
    <3>1. pc'[w] = "claim"
      BY <1>1, <2>2, GoToOthers
    <3> QED BY <1>1, <1>4, <1>5, <2>2, <3>1, Repairs DEF WorkerQuiet, Told
  <2> QED BY <2>1, <2>2 DEF Create
<1> HIDE DEF w, row
<1> QED BY <1>1, <1>2, <1>3, <1>4, <1>6, <1>7, <1>8, <1>9, QuietStep

LEMMA ClaimQuiet ==
    ASSUME TypeOK, LockInv, LinkInv, faults = 0, faults' = 0, NEW u \in Worker, Claim(u)
    PROVE  LinkInv'
<1> DEFINE t == Target(u)
<1>1. t \in Sub /\ rec[t] \in Row
  BY Workers DEF TypeOK
<1>2. loop' = loop /\ pc[u] = "claim"
  BY DEF Claim
<1>3. CASE Leave(u, "failed") /\ UNCHANGED rec
  BY <1>2, <1>3, EndQuiet
<1>4. CASE /\ rec[t].status = "pending"
           /\ Write(t, [rec[t] EXCEPT !.status = "checking"])
           /\ GoTo(u, "check")
           /\ UNCHANGED <<job, found>>
  <2>1. /\ \A s \in Sub \ {t} : rec'[s] = rec[s]
        /\ rec'[t] = [rec[t] EXCEPT !.status = "checking"]
    BY <1>1, <1>4, WriteOthers
  <2>2. /\ rec'[t].status = "checking" /\ rec'[t].pending = rec[t].pending
        /\ rec'[t].valid = rec[t].valid /\ rec'[t].locked = rec[t].locked
        /\ rec'[t].original = rec[t].original
    BY <1>1, <2>1 DEF Row
  <2>3. \A w \in Worker \ {u} : pc'[w] = pc[w] /\ job'[w] = job[w] /\ found'[w] = found[w]
    BY <1>4, GoToOthers
  <2>4. \A w \in Worker : Target(w) = t => ~ Holds(w)
    BY <1>4 DEF LockInv, HeldRows
  <2>5. WorkerQuiet(u)'
    <3>1. WorkerQuiet(u) /\ Told(u)
      BY <1>2 DEF LinkInv, WorkerQuiet
    <3>2. pc'[u] = "check" /\ job'[u] = job[u]
      BY <1>4, GoToOthers
    <3> QED BY <1>4, <2>2, <3>1, <3>2, Repairs DEF WorkerQuiet, Told, Unfiltered
  <2>6. ASSUME NEW w \in Worker \ {u}, Target(w) = t
        PROVE  WorkerQuiet(w)'
    <3>1. WorkerQuiet(w) /\ ~ Holds(w)
      BY <2>4, <2>6 DEF LinkInv
    <3>2. pc[w] \notin {"check", "get", "save"}
      BY <3>1, Repairs DEF Holds
    <3>3. pc'[w] = pc[w] /\ job'[w] = job[w]
      BY <2>3
    <3> QED BY <1>4, <2>2, <2>6, <3>1, <3>2, <3>3 DEF WorkerQuiet, Told, Unfiltered
  <2>7. RowQuiet(t)'
    BY <1>1, <1>4, <2>2 DEF LinkInv, RowQuiet, Bare
  <2>8. \A e \in loop.batch : e.sub = t => EntryQuiet(e)'
    BY <1>4, <2>2 DEF LinkInv, EntryQuiet
  <2>9. t \in loop.sub => SaveQuiet(t)'
    BY <1>2, <2>2 DEF LinkInv, SaveQuiet, Bare
  <2> HIDE DEF t
  <2> QED BY <1>1, <1>2, <2>1, <2>3, <2>5, <2>6, <2>7, <2>8, <2>9, QuietStep DEF t
<1> QED BY <1>3, <1>4, FaultsGrow DEF Claim, Claimable

\* Without a fault the lists of a detection are made of all its links.
LEMMA CheckSorts ==
    ASSUME TypeOK, faults = 0, faults' = 0, NEW u \in Worker, Check(u)
    PROVE  /\ Sorted(u)'
           /\ \A w \in Worker \ {u} : found'[w] = found[w]
           /\ GoTo(u, "get")
           /\ UNCHANGED <<rec, job, loop>>
<1>1. /\ GoTo(u, "get")
      /\ UNCHANGED <<rec, job, loop>>
  BY Zenon DEF Check
<1>2. ASSUME NEW done, done # Covered(job[u]), Fails("panic")
      PROVE  FALSE
  BY <1>2, FaultsGrow
<1>3. \E v \in [Covered(job[u]) -> Verdict] :
          found' = [found EXCEPT ![u] = Collected(job[u], Covered(job[u]), v)]
  BY <1>2, Zenon DEF Check
<1>4. PICK v \in [Covered(job[u]) -> Verdict] :
          found' = [found EXCEPT ![u] = Collected(job[u], Covered(job[u]), v)]
  BY <1>3
<1>5. /\ found'[u] = Collected(job[u], Covered(job[u]), v)
      /\ \A w \in Worker \ {u} : found'[w] = found[w]
  BY <1>4 DEF TypeOK
<1>6. \A l \in Covered(job[u]) : v[l] \in {"valid", "locked", "dead", "limited"}
  BY VerdictAssumption
<1>7. job[u].links = Covered(job[u]) \cup Skipped(job[u])
  BY DEF Covered, Skipped
<1>8. Sorted(u)'
  BY <1>1, <1>5, <1>6, <1>7 DEF Sorted, Collected
<1> QED BY <1>1, <1>5, <1>8

LEMMA CheckQuiet ==
    ASSUME TypeOK, LinkInv, faults = 0, faults' = 0, NEW u \in Worker, Check(u)
    PROVE  LinkInv'
<1>1. pc[u] = "check"
  BY Zenon DEF Check
<1>2. WorkerQuiet(u) /\ Told(u)
  BY <1>1 DEF LinkInv, WorkerQuiet
<1>3. WorkerQuiet(u)'
  BY <1>1, <1>2, CheckSorts, GoToOthers, Repairs DEF WorkerQuiet, Told, Unfiltered
<1> QED BY <1>3, CheckSorts, GoToOthers, QuietStep, Workers

LEMMA GetQuiet ==
    ASSUME TypeOK, LinkInv, faults = 0, faults' = 0, NEW u \in Worker, Get(u)
    PROVE  LinkInv'
<1>1. GoTo(u, "save") /\ pc[u] = "get" /\ UNCHANGED <<rec, job, found, loop>>
  BY FaultsGrow DEF Get
<1>2. WorkerQuiet(u) /\ Told(u) /\ Sorted(u)
  BY <1>1 DEF LinkInv, WorkerQuiet
<1>3. WorkerQuiet(u)'
  BY <1>1, <1>2, GoToOthers, Repairs DEF WorkerQuiet, Told, Sorted, Unfiltered
<1> QED BY <1>1, <1>3, GoToOthers, QuietStep, Workers

\* What a pass is about to save: no links but pending ones are kept, every
\* pending one is in some list, and a row that is checked stays as it is.
LEMMA AboutToSave ==
    ASSUME TypeOK, LockInv, LinkInv, faults = 0, NEW u \in Worker, pc[u] = "save"
    PROVE  LET row == rec[Target(u)]
               f == found[u]
           IN /\ row.status # "absent"
              /\ f.kept \subseteq row.pending
              /\ row.pending \subseteq f.kept \cup f.valid \cup f.locked \cup f.dead \cup f.limited
              /\ ~ IsCaller(u) => f.kept = {}
              /\ row.status = "checked" \/ row.pending = {} =>
                    /\ Bare(row)
                    /\ f.kept = {} /\ f.valid = {} /\ f.locked = {} /\ f.dead = {} /\ f.limited = {}
<1>1. WorkerQuiet(u) /\ Told(u) /\ Sorted(u) /\ RowQuiet(Target(u))
  BY Workers DEF LinkInv, WorkerQuiet
<1>2. Unfiltered(u) => found[u].kept = {}
  BY DEF LockInv, HeldRows
<1>3. IsCaller(u) => rec[Target(u)].pending = job[u].links
  BY <1>1 DEF Told, Bare
<1>4. ~ IsCaller(u) => /\ found[u].kept = {}
                       /\ rec[Target(u)].status # "checked"
                       /\ rec[Target(u)].pending # {}
  BY <1>1, <1>2 DEF WorkerQuiet, Told
<1>5. rec[Target(u)].status = "checked" \/ rec[Target(u)].pending = {} =>
          Bare(rec[Target(u)]) /\ job[u].links = {}
  BY <1>1, <1>3, <1>4 DEF Told, RowQuiet
<1>6. rec[Target(u)].status # "absent" /\ rec[Target(u)].pending \subseteq job[u].links
  BY <1>1 DEF Told
<1>7. job[u].links = found[u].valid \cup found[u].locked \cup found[u].dead
                         \cup found[u].limited \cup found[u].kept
  BY <1>1 DEF Sorted
<1>8. found[u].kept \subseteq rec[Target(u)].pending
  BY <1>3, <1>4, <1>7
<1> QED BY <1>4, <1>5, <1>6, <1>7, <1>8

\* The row that is saved.
LEMMA SavedFields ==
    ASSUME TypeOK, NEW s \in Sub, NEW u \in Worker, NEW status
    PROVE  LET row == ResultRow(s, found[u], status)
           IN /\ row.status = status /\ row.pending = found[u].kept
              /\ row.valid = found[u].valid /\ row.locked = found[u].locked
              /\ row.original = rec[s].original
<1>1. rec[s] \in Row
  BY DEF TypeOK
<1> QED BY <1>1 DEF ResultRow, Row

LEMMA SaveEffect ==
    ASSUME TypeOK, LinkInv, faults = 0, faults' = 0, NEW u \in Worker, Save(u)
    PROVE  /\ pc[u] = "save" /\ loop' = loop
           /\ \A s \in Sub \ {Target(u)} : rec'[s] = rec[s]
           /\ LET row == rec'[Target(u)] IN
              /\ row.status = StatusAfter(found[u]) /\ row.pending = found[u].kept
              /\ row.valid = found[u].valid /\ row.locked = found[u].locked
              /\ row.original = rec[Target(u)].original
           /\ \/ found[u].dead \cup found[u].limited = {} /\ Leave(u, "done")
              \/ GoTo(u, "upsert") /\ UNCHANGED <<job, found>>
<1>1. Target(u) \in Sub
  BY Workers
<1>2. /\ Write(Target(u), ResultRow(Target(u), found[u], StatusAfter(found[u])))
      /\ pc[u] = "save" /\ loop' = loop
      /\ \/ found[u].dead \cup found[u].limited = {} /\ Leave(u, "done")
         \/ GoTo(u, "upsert") /\ UNCHANGED <<job, found>>
  BY FaultsGrow, Zenon DEF Save
<1>3. /\ \A s \in Sub \ {Target(u)} : rec'[s] = rec[s]
      /\ rec'[Target(u)] = ResultRow(Target(u), found[u], StatusAfter(found[u]))
  BY <1>1, <1>2, WriteOthers
<1> QED BY <1>1, <1>2, <1>3, SavedFields

LEMMA SaveQuietly ==
    ASSUME TypeOK, LockInv, LinkInv, faults = 0, faults' = 0, NEW u \in Worker, Save(u)
    PROVE  LinkInv'
<1> DEFINE t == Target(u)
<1>1. t \in Sub
  BY Workers
<1>2. pc[u] = "save" /\ loop' = loop
  BY SaveEffect
<1>3. /\ rec[t].status # "absent"
      /\ rec'[t].pending \subseteq rec[t].pending
      /\ rec'[t].status = (IF rec'[t].pending = {} THEN "checked" ELSE "pending")
      /\ ~ IsCaller(u) => rec'[t].pending = {}
      /\ rec'[t].original = rec[t].original
      /\ rec[t].pending = {} => Bare(rec'[t])
  BY <1>2, AboutToSave, SaveEffect DEF StatusAfter, Bare
<1>4. \A w \in Worker \ {u} : pc'[w] = pc[w] /\ job'[w] = job[w] /\ found'[w] = found[w]
  BY LeaveOthers, GoToOthers, SaveEffect
<1>5. Holds(u)
  BY <1>2, Repairs DEF Holds
<1>6. WorkerQuiet(u)'
  <2>1. CASE Leave(u, "done")
    BY <2>1, LeaveQuiet
  <2>2. CASE GoTo(u, "upsert") /\ UNCHANGED job
    <3>1. WorkerQuiet(u)
      BY DEF LinkInv
    <3> QED BY <2>2, <3>1, GoToOthers, Repairs DEF WorkerQuiet, Unfiltered
  <2> QED BY <2>1, <2>2, SaveEffect
<1>7. ASSUME NEW w \in Worker \ {u}, Target(w) = t
      PROVE  WorkerQuiet(w)'
  <2>1. WorkerQuiet(w) /\ ~ Holds(w)
    BY <1>5, <1>7 DEF LinkInv, LockInv, OnePassAtATime
  <2>2. pc[w] \notin {"check", "get", "save"}
    BY <2>1, Repairs DEF Holds
  <2>3. pc[w] = "claim" => Told(w)'
    <3> SUFFICES ASSUME pc[w] = "claim"
                 PROVE  Told(w)'
      OBVIOUS
    <3>1. Told(w)
      BY <2>1 DEF WorkerQuiet
    <3>2. IsCaller(w) => ~ IsCaller(u)
      BY <1>7, Workers
    <3> QED BY <1>3, <1>4, <1>7, <3>1, <3>2 DEF Told
  <2> QED BY <1>4, <2>1, <2>2, <2>3 DEF WorkerQuiet, Unfiltered
<1>8. RowQuiet(t)'
  BY <1>3 DEF RowQuiet
<1>9. \A e \in loop.batch : e.sub = t => EntryQuiet(e)'
  BY <1>3 DEF LinkInv, EntryQuiet
<1>10. t \in loop.sub => SaveQuiet(t)'
  BY <1>2, <1>3 DEF LinkInv, SaveQuiet, Bare
<1> HIDE DEF t
<1> QED BY <1>1, <1>2, <1>4, <1>6, <1>7, <1>8, <1>9, <1>10, QuietStep, SaveEffect DEF t

\* Without faults nothing is restored, and no pass panics.
LEMMA NoRepairs ==
    ASSUME TypeOK, LinkInv, faults = 0, faults' = 0, NEW u \in Worker
    PROVE  ~ Restore(u) /\ ~ Recover(u) /\ ~ PutBack(u) /\ ~ Panic(u)
<1>1. pc[u] \notin Repairing
  BY DEF LinkInv, WorkerQuiet
<1>2. ~ Restore(u) /\ ~ Recover(u) /\ ~ PutBack(u)
  BY <1>1, Zenon DEF Restore, Recover, PutBack, Repairing
<1>3. ASSUME Fails("panic")
      PROVE  FALSE
  BY <1>3, FaultsGrow
<1>4. ~ Panic(u)
  BY <1>3, Zenon DEF Panic
<1> QED BY <1>2, <1>4

LEMMA PassQuiet ==
    ASSUME TypeOK, LockInv, LinkInv, faults = 0, faults' = 0, NEW u \in Worker, Pass(u)
    PROVE  LinkInv'
<1>1. CASE Upsert(u)
  BY <1>1, EndQuiet DEF Upsert
<1> QED BY <1>1, ClaimQuiet, CheckQuiet, GetQuiet, SaveQuietly, NoRepairs DEF Pass

LEMMA SpawnQuiet ==
    ASSUME TypeOK, LockInv, LinkInv, faults = 0, faults' = 0, Spawn
    PROVE  LinkInv'
<1>1. PICK e \in loop.batch, w \in Worker :
          /\ e.links # {}
          /\ Target(w) = e.sub /\ ~ IsCaller(w)
          /\ GoTo(w, "claim")
          /\ job' = [job EXCEPT ![w] = [NoJob EXCEPT !.links = e.links]]
          /\ loop' = [loop EXCEPT !.batch = @ \ {e}]
  BY DEF Spawn
<1>2. UNCHANGED <<rec, found>>
  BY DEF Spawn
<1>3. /\ loop'.batch \subseteq loop.batch
      /\ loop'.sub = loop.sub
      /\ loop'.row = loop.row
  BY <1>1 DEF TypeOK
<1>4. /\ \A x \in Worker \ {w} : pc'[x] = pc[x] /\ job'[x] = job[x] /\ found'[x] = found[x]
      /\ pc'[w] = "claim"
      /\ job'[w].links = e.links /\ job'[w].sel = Platform
  BY <1>1, <1>2, GoToOthers DEF TypeOK, NoJob
<1>5. EntryQuiet(e) /\ rec[e.sub].status # "absent"
  BY DEF LinkInv, LockInv, RowsExist
<1>6. WorkerQuiet(w)'
  BY <1>1, <1>2, <1>4, <1>5, Repairs DEF WorkerQuiet, Told, EntryQuiet, Unfiltered
<1> QED BY <1>2, <1>3, <1>4, <1>6, QuietStep, Workers

\* A step of the scan that leaves the workers and the rows alone.
LEMMA OnlyLoop ==
    ASSUME LinkInv, faults = 0, UNCHANGED <<rec, pc, job, found>>,
           \A e \in loop'.batch : EntryQuiet(e),
           \A s \in loop'.sub : SaveQuiet(s)'
    PROVE  LinkInv'
<1>1. \A w \in Worker : WorkerQuiet(w)'
  BY DEF LinkInv, WorkerQuiet, Told, Sorted, Unfiltered
<1>2. \A s \in Sub : RowQuiet(s)'
  BY DEF LinkInv, RowQuiet
<1>3. \A e \in loop'.batch : EntryQuiet(e)'
  BY DEF EntryQuiet
<1> QED BY <1>1, <1>2, <1>3 DEF LinkInv

LEMMA ScanQuiet ==
    ASSUME TypeOK, LinkInv, faults = 0, faults' = 0, Scan
    PROVE  LinkInv'
<1>1. PICK B \in SUBSET Pending :
          loop' = [loop EXCEPT !.batch = {[sub |-> s, links |-> rec[s].pending] : s \in B}]
  BY FaultsGrow DEF Scan
<1>2. UNCHANGED <<rec, pc, job, found>>
  BY DEF Scan
<1>3. /\ loop'.batch = {[sub |-> s, links |-> rec[s].pending] : s \in B}
      /\ loop'.sub = loop.sub /\ loop'.row = loop.row
  BY <1>1 DEF TypeOK
<1>4. \A e \in loop'.batch : EntryQuiet(e)
  BY <1>3 DEF EntryQuiet
<1>5. \A s \in loop'.sub : SaveQuiet(s)'
  BY <1>2, <1>3 DEF LinkInv, SaveQuiet
<1> QED BY <1>2, <1>4, <1>5, OnlyLoop

LEMMA FinishReadQuiet ==
    ASSUME TypeOK, LinkInv, faults = 0, faults' = 0, FinishRead
    PROVE  LinkInv'
<1>1. PICK e \in loop.batch :
          /\ e.links = {}
          /\ \/ loop' = [loop EXCEPT !.batch = @ \ {e}]
             \/ /\ rec[e.sub].status # "checked"
                /\ loop' = [pc |-> "finish", batch |-> loop.batch \ {e},
                            sub |-> {e.sub}, row |-> rec[e.sub]]
  BY DEF FinishRead
<1>2. UNCHANGED <<rec, pc, job, found>>
  BY DEF FinishRead
<1>3. loop'.batch \subseteq loop.batch
  BY <1>1 DEF TypeOK
<1>4. \A x \in loop'.batch : EntryQuiet(x)
  BY <1>3 DEF LinkInv
<1>5. CASE loop' = [loop EXCEPT !.batch = @ \ {e}]
  <2>1. loop'.sub = loop.sub /\ loop'.row = loop.row
    BY <1>5 DEF TypeOK
  <2>2. \A s \in loop'.sub : SaveQuiet(s)'
    BY <1>2, <2>1 DEF LinkInv, SaveQuiet
  <2> QED BY <1>2, <1>4, <2>2, OnlyLoop
<1>6. CASE /\ rec[e.sub].status # "checked"
           /\ loop'.sub = {e.sub} /\ loop'.row = rec[e.sub]
  <2>1. e.sub \in Sub /\ EntryQuiet(e)
    BY DEF TypeOK, Entry, LinkInv
  <2>2. Bare(rec[e.sub])
    BY <1>1, <1>6, <2>1 DEF LinkInv, EntryQuiet, RowQuiet
  <2>3. \A s \in loop'.sub : SaveQuiet(s)'
    BY <1>2, <1>6, <2>2 DEF SaveQuiet, Bare
  <2> QED BY <1>2, <1>4, <2>3, OnlyLoop
<1> QED BY <1>1, <1>5, <1>6

LEMMA NoFaultBefore ==
    ASSUME TypeOK, Next, faults' = 0
    PROVE  faults = 0
<1>1. \A op : Fails(op) => faults' # 0
  BY FaultsGrow
<1>2. \/ faults' = faults
      \/ \E op : Fails(op)
  <2>1. ASSUME NEW w \in Worker, Check(w)
        PROVE  faults' = faults \/ \E op : Fails(op)
    BY <2>1, Zenon DEF Check, Succeeds
  <2>2. CASE \E s \in Sub : Submit(s) \/ Create(s) \/ Settle(s)
    BY <2>2, Zenon DEF Submit, Create, Settle, Succeeds
  <2>3. ASSUME NEW w \in Worker, Claim(w) \/ Get(w) \/ Save(w) \/ Restore(w)
        PROVE  faults' = faults \/ \E op : Fails(op)
    BY <2>3, Zenon DEF Claim, Get, Save, Restore, Succeeds
  <2>4. ASSUME NEW w \in Worker, Upsert(w) \/ Recover(w) \/ PutBack(w) \/ Panic(w)
        PROVE  faults' = faults \/ \E op : Fails(op)
    BY <2>4, Zenon DEF Upsert, Recover, PutBack, Panic, Succeeds
  <2>5. CASE Background
    <3>1. CASE Spawn
      BY <3>1 DEF Spawn
    <3> QED BY <2>5, <3>1, Zenon DEF Background, Scan, FinishRead, FinishSave, Succeeds
  <2>6. CASE ClearRateLimited
    BY <2>6 DEF ClearRateLimited
  <2>7. CASE Crash
    BY <2>7 DEF Crash
  <2> QED BY <2>1, <2>2, <2>3, <2>4, <2>5, <2>6, <2>7 DEF Next, Pass
<1> QED BY <1>1, <1>2

\* The scan's own Save changes the status of a row at most.
LEMMA FinishEffect ==
    ASSUME TypeOK, LinkInv, faults = 0, faults' = 0, FinishSave
    PROVE  /\ UNCHANGED <<pc, job, found>>
           /\ loop'.batch = loop.batch /\ loop'.sub = {}
           /\ \E t \in loop.sub :
                 /\ t \in Sub
                 /\ \A s \in Sub \ {t} : rec'[s] = rec[s]
                 /\ rec'[t].status = "checked" /\ rec'[t].original = rec[t].original
                 /\ Bare(rec[t]) /\ Bare(rec'[t])
<1>1. PICK t \in loop.sub : Write(t, [loop.row EXCEPT !.status = "checked", !.pending = {}])
  BY FaultsGrow DEF FinishSave
<1>2. t \in Sub /\ loop.row \in Row /\ rec[t] \in Row
  BY DEF TypeOK
<1>3. /\ \A s \in Sub \ {t} : rec'[s] = rec[s]
      /\ rec'[t] = [loop.row EXCEPT !.status = "checked", !.pending = {}]
  BY <1>1, <1>2, WriteOthers
<1>4. SaveQuiet(t)
  BY DEF LinkInv
<1>5. rec'[t].status = "checked" /\ rec'[t].original = rec[t].original /\ Bare(rec'[t])
  BY <1>2, <1>3, <1>4 DEF SaveQuiet, Bare, Row
<1>6. UNCHANGED <<pc, job, found>> /\ loop'.batch = loop.batch /\ loop'.sub = {}
  BY DEF FinishSave, TypeOK
<1> QED BY <1>2, <1>3, <1>4, <1>5, <1>6 DEF SaveQuiet

LEMMA FinishSaveQuiet ==
    ASSUME TypeOK, LinkInv, faults = 0, faults' = 0, FinishSave
    PROVE  LinkInv'
<1>1. /\ UNCHANGED <<pc, job, found>>
      /\ loop'.batch = loop.batch /\ loop'.sub = {}
  BY FinishEffect
<1>2. PICK t \in loop.sub :
         /\ t \in Sub
         /\ \A s \in Sub \ {t} : rec'[s] = rec[s]
         /\ rec'[t].status = "checked" /\ rec'[t].original = rec[t].original
         /\ Bare(rec[t]) /\ Bare(rec'[t])
  BY FinishEffect
<1>3. ASSUME NEW w \in Worker
      PROVE  WorkerQuiet(w)'
  <2>1. WorkerQuiet(w)
    BY DEF LinkInv
  <2>2. Told(w) => Told(w)'
    <3>1. CASE Target(w) = t
      BY <1>1, <1>2, <3>1 DEF Told, Bare
    <3>2. CASE Target(w) # t
      BY <1>1, <1>2, <3>2, Workers DEF Told
    <3> QED BY <3>1, <3>2
  <2> QED BY <1>1, <2>1, <2>2 DEF WorkerQuiet, Sorted, Unfiltered
<1>4. \A s \in Sub : RowQuiet(s)'
  BY <1>2 DEF LinkInv, RowQuiet
<1>5. \A e \in loop'.batch : EntryQuiet(e)'
  <2> SUFFICES ASSUME NEW e \in loop.batch
               PROVE  EntryQuiet(e)'
    BY <1>1
  <2>1. e.sub \in Sub /\ EntryQuiet(e)
    BY DEF TypeOK, Entry, LinkInv
  <2> QED BY <1>2, <2>1 DEF EntryQuiet, Bare
<1> QED BY <1>1, <1>3, <1>4, <1>5 DEF LinkInv

LEMMA NextQuiet == TypeOK /\ TypeOK' /\ LockInv /\ LinkInv /\ [Next]_vars => LinkInv'
<1> SUFFICES ASSUME TypeOK, TypeOK', LockInv, LinkInv, [Next]_vars, faults' = 0
             PROVE  LinkInv'
  BY DEF LinkInv
<1>1. CASE UNCHANGED vars
  BY <1>1 DEF vars, LinkInv, WorkerQuiet, Told, Sorted, Unfiltered, RowQuiet, EntryQuiet,
              SaveQuiet
<1>2. CASE Next
  <2>1. faults = 0
    BY <1>2, NoFaultBefore
  <2>2. CASE ClearRateLimited
    BY <2>1, <2>2, OnlyLoop DEF ClearRateLimited, LinkInv, SaveQuiet
  <2>3. ~ Crash
    BY FaultsGrow DEF Crash
  <2>4. CASE \E s \in Sub : Settle(s)
    BY <2>1, <2>4, OnlyLoop DEF Settle, LinkInv, SaveQuiet
  <2> QED BY <1>2, <2>1, <2>2, <2>3, <2>4, SubmitQuiet, CreateQuiet, PassQuiet, NoRepairs, SpawnQuiet,
            ScanQuiet, FinishReadQuiet, FinishSaveQuiet DEF Next, Background
<1> QED BY <1>1, <1>2

LEMMA InitQuiet == Init => LinkInv
<1> SUFFICES ASSUME Init
             PROVE  LinkInv
  OBVIOUS
<1>1. \A w \in Worker : pc[w] = "idle" /\ job[w].sel = Platform
  BY DEF Init, NoJob
<1>2. \A w \in Worker : WorkerQuiet(w)
  BY <1>1, Repairs DEF WorkerQuiet, Unfiltered
<1>3. \A s \in Sub : RowQuiet(s)
  BY DEF Init, NoRow, RowQuiet, Bare
<1>4. loop.batch = {} /\ loop.sub = {}
  BY DEF Init
<1> QED BY <1>2, <1>3, <1>4 DEF LinkInv

LEMMA QuietHolds == Spec => []LinkInv
BY InitQuiet, NextQuiet, TypeCorrect, LockHolds, PTL DEF Spec

-------------------------------------------------------------------------------
(***************************************************************************)
(* What the steps do to the rows.                                          *)
(***************************************************************************)

\* The fault-free steps that write a row: a request creates it, a pass claims
\* and saves it, the scan saves it.
LEMMA RowSteps ==
    ASSUME TypeOK, LockInv, LinkInv, Next, faults' = 0
    PROVE  \/ rec' = rec
           \/ \E s \in Sub : Create(s)
           \/ \E w \in Worker : Claim(w) \/ Save(w)
           \/ FinishSave
<1>1. faults = 0
  BY NoFaultBefore
<1>2. ~ Crash
  BY FaultsGrow DEF Crash
<1>3. ASSUME NEW w \in Worker, Check(w)
      PROVE  rec' = rec
  BY <1>3, Zenon DEF Check
<1>4. CASE \/ \E s \in Sub : Submit(s) \/ Settle(s)
           \/ \E w \in Worker : Get(w) \/ Upsert(w)
           \/ Scan \/ Spawn \/ FinishRead \/ ClearRateLimited
  BY <1>4 DEF Submit, Settle, Get, Upsert, Scan, Spawn, FinishRead, ClearRateLimited
<1> QED BY <1>1, <1>2, <1>3, <1>4, NoRepairs DEF Next, Pass, Background

\* Rows that agree in every column.
LEMMA SameRow ==
    ASSUME NEW x \in Row, NEW y \in Row, x.status = y.status, x.original = y.original,
           x.pending = y.pending, x.valid = y.valid, x.locked = y.locked
    PROVE  x = y
BY DEF Row

\* A row that is claimed.
LEMMA ClaimEffect ==
    ASSUME TypeOK, NEW u \in Worker, Claim(u)
    PROVE  \/ rec' = rec
           \/ /\ rec[Target(u)].status = "pending"
              /\ rec' = [rec EXCEPT ![Target(u)] = [rec[Target(u)] EXCEPT !.status = "checking"]]
              /\ \A s \in Sub \ {Target(u)} : rec'[s] = rec[s]
              /\ LET row == rec'[Target(u)]
                     old == rec[Target(u)]
                 IN /\ row.status = "checking" /\ row.pending = old.pending
                    /\ row.valid = old.valid /\ row.locked = old.locked
                    /\ row.original = old.original
<1>1. Target(u) \in Sub /\ rec[Target(u)] \in Row
  BY Workers DEF TypeOK
<1> QED BY <1>1 DEF Claim, Claimable, Write, Row, TypeOK

LEMMA CreateEffect ==
    ASSUME TypeOK, LockInv, NEW s \in Sub, Create(s)
    PROVE  \/ rec' = rec
           \/ /\ rec[s].status = "absent"
              /\ \A r \in Sub \ {s} : rec'[r] = rec[r]
              /\ rec'[s].status = "pending"
              /\ rec'[s].original = job[Caller(s)].raw
              /\ rec'[s].pending = job[Caller(s)].links
              /\ rec'[s].valid = {} /\ rec'[s].locked = {}
<1> DEFINE row == [NoRow EXCEPT !.status = "pending", !.original = job[Caller(s)].raw,
                                !.pending = job[Caller(s)].links]
<1>1. rec[s].status = "absent"
  BY DEF Create, LockInv, RowsExist
<1>2. /\ row.status = "pending" /\ row.original = job[Caller(s)].raw
      /\ row.pending = job[Caller(s)].links /\ row.valid = {} /\ row.locked = {}
  BY DEF NoRow
<1>3. rec' = rec \/ Write(s, row)
  BY DEF Create
<1> QED BY <1>1, <1>2, <1>3, WriteOthers

-------------------------------------------------------------------------------
(***************************************************************************)
(* The theorems that need nothing more.                                    *)
(***************************************************************************)

\* While nothing fails a checked row is final, for any number of requests,
\* goroutines and scans: a late goroutine finds the status in its way, and the
\* scan saves from its old copy only rows that never had a link to check
\* (checker_service.go:96-111, 773-801).
THEOREM CheckedStays == Spec => CheckedIsFinal
<1> DEFINE Final == faults' = 0 => \A s \in Sub : rec[s].status = "checked" => rec'[s] = rec[s]
<1>1. TypeOK /\ LockInv /\ LinkInv /\ [Next]_vars => Final
  <2> SUFFICES ASSUME TypeOK, LockInv, LinkInv, Next, faults' = 0,
                      NEW s \in Sub, rec[s].status = "checked"
               PROVE  rec'[s] = rec[s]
    BY DEF vars
  <2>1. faults = 0
    BY NoFaultBefore
  <2>2. ASSUME NEW r \in Sub, Create(r)
        PROVE  rec'[s] = rec[s]
    BY <2>2, CreateEffect
  <2>3. ASSUME NEW w \in Worker, Claim(w)
        PROVE  rec'[s] = rec[s]
    BY <2>3, ClaimEffect
  <2>4. ASSUME NEW w \in Worker, Save(w)
        PROVE  rec'[s] = rec[s]
    <3>1. CASE s # Target(w)
      BY <2>1, <2>4, <3>1, SaveEffect
    <3>2. CASE s = Target(w)
      <4>1. /\ Bare(rec[s]) /\ rec[s] \in Row /\ rec'[s] \in Row
            /\ rec'[s].status = "checked" /\ Bare(rec'[s])
            /\ rec'[s].original = rec[s].original
        BY <2>1, <2>4, <3>2, AboutToSave, SaveEffect, NextType DEF StatusAfter, Bare, TypeOK
      <4> QED BY <2>1, <4>1, SameRow DEF Bare
    <3> QED BY <3>1, <3>2
  <2>5. ASSUME FinishSave
        PROVE  rec'[s] = rec[s]
    <3>1. rec[s] \in Row /\ rec'[s] \in Row
      BY NextType DEF TypeOK
    <3>2. PICK t \in loop.sub :
              /\ \A r \in Sub \ {t} : rec'[r] = rec[r]
              /\ rec'[t].status = "checked" /\ rec'[t].original = rec[t].original
              /\ Bare(rec[t]) /\ Bare(rec'[t])
      BY <2>1, <2>5, FinishEffect
    <3>3. CASE s = t
      BY <3>1, <3>2, <3>3, SameRow DEF Bare
    <3> QED BY <3>2, <3>3
  <2> QED BY <2>2, <2>3, <2>4, <2>5, RowSteps
<1> QED BY <1>1, TypeCorrect, LockHolds, QuietHolds, PTL DEF Spec, CheckedIsFinal

\* Only its own Claim takes a worker from there.
LEMMA LeavesClaim ==
    ASSUME TypeOK, Next, faults' = 0, NEW w \in Worker, pc[w] = "claim", pc'[w] # "claim"
    PROVE  Claim(w)
<1> DEFINE Moved(v) == \E place : Leave(v, place) \/ GoTo(v, place)
<1>1. \A v \in Worker \ {w} : Moved(v) => pc'[w] = pc[w]
  BY LeaveOthers, GoToOthers
<1>2. ASSUME NEW s \in Sub, Submit(s) \/ Create(s)
      PROVE  FALSE
  <2>1. Caller(s) \in Worker /\ Caller(s) # w
    BY <1>2, Workers DEF Submit, Create
  <2>2. Moved(Caller(s))
    BY <1>2, Zenon DEF Submit, Create
  <2> QED BY <1>1, <2>1, <2>2
<1>3. ASSUME NEW v \in Worker, Pass(v) \/ Panic(v), v # w
      PROVE  FALSE
  <2>1. Claim(v) \/ Check(v) \/ Get(v) => Moved(v)
    BY Zenon DEF Claim, Check, Get
  <2>2. Save(v) \/ Restore(v) \/ Upsert(v) => Moved(v)
    BY Zenon DEF Save, Restore, Upsert
  <2>3. Recover(v) \/ PutBack(v) \/ Panic(v) => Moved(v)
    BY Zenon DEF Recover, PutBack, Panic
  <2> QED BY <1>1, <1>3, <2>1, <2>2, <2>3 DEF Pass
<1>4. ~ Panic(w) /\ (Pass(w) => Claim(w))
  BY Zenon DEF Pass, Panic, Check, Get, Save, Restore, Upsert, Recover, PutBack
<1>5. ~ Spawn
  <2>1. ASSUME NEW v \in Worker, pc[v] = "idle", GoTo(v, "claim")
        PROVE  FALSE
    BY <1>1, <2>1
  <2> QED BY <2>1 DEF Spawn
<1>6. ~ Crash
  BY FaultsGrow DEF Crash
<1>7. ~ (\/ Scan \/ FinishRead \/ FinishSave \/ ClearRateLimited
         \/ \E s \in Sub : Settle(s))
  BY DEF Scan, FinishRead, FinishSave, ClearRateLimited, Settle
<1> QED BY <1>2, <1>3, <1>4, <1>5, <1>6, <1>7 DEF Next, Background

\* While nothing fails a pass that does not get its row leaves it to another one
\* that has it, or finds it checked: who is on the way to a row knows it exists
\* (Told), the update refuses it only when it is not pending
\* (submission_repository.go), and a row in checking has its pass.
THEOREM RefusedAreTaken == Spec => RefusedIsTaken
<1> DEFINE Taken(w) == \/ rec[Target(w)].status = "checked"
                       \/ \E v \in Worker : Holds(v) /\ Target(v) = Target(w)
           Refused(w) == pc[w] = "claim" /\ pc'[w] \in {"idle", "failed"}
<1>1. TypeOK /\ LockInv /\ LinkInv /\ [Next]_vars =>
          (faults' = 0 => \A w \in Worker : Refused(w) => Taken(w))
  <2> SUFFICES ASSUME TypeOK, LockInv, LinkInv, Next, faults' = 0,
                      NEW w \in Worker, Refused(w)
               PROVE  Taken(w)
    BY DEF vars
  <2>1. faults = 0
    BY NoFaultBefore
  <2>2. Claim(w)
    BY LeavesClaim
  <2>3. rec[Target(w)].status # "pending"
    BY <2>2, FaultsGrow, GoToOthers DEF Claim, Claimable
  <2>4. Target(w) \in Sub /\ rec[Target(w)].status \in {"checking", "checked"}
    BY <2>1, <2>3, Workers DEF LinkInv, WorkerQuiet, Told, TypeOK, Row, Status
  <2> QED BY <2>1, <2>4 DEF LockInv, NoneAbandoned
<1> QED BY <1>1, TypeCorrect, LockHolds, QuietHolds, PTL DEF Spec, RefusedIsTaken

\* While nothing fails a link leaves pending_links only together with its
\* verdict, whatever the requests select and however old the links are that a
\* goroutine was started with (checker_service.go:252-263, 444-483).
THEOREM LinksLeaveWithVerdict == Spec => PendingLeavesWithVerdict
<1> DEFINE Leaves == faults' = 0 =>
               \A s \in Sub : rec[s].pending \ rec'[s].pending
                                 \subseteq rec'[s].valid \cup rec'[s].locked \cup InHand(s)'
<1>1. TypeOK /\ LockInv /\ LinkInv /\ [Next]_vars => Leaves
  <2> SUFFICES ASSUME TypeOK, LockInv, LinkInv, [Next]_vars, faults' = 0, NEW s \in Sub,
                      NEW l \in rec[s].pending \ rec'[s].pending
               PROVE  l \in rec'[s].valid \cup rec'[s].locked \cup InHand(s)'
    OBVIOUS
  <2>1. Next /\ rec'[s] # rec[s]
    BY DEF vars
  <2>2. faults = 0
    BY <2>1, NoFaultBefore
  <2>3. ASSUME NEW r \in Sub, Create(r)
        PROVE  FALSE
    <3>1. rec[s].status = "absent" /\ rec[s].pending # {}
      BY <2>1, <2>3, CreateEffect
    <3> QED BY <2>2, <3>1 DEF LinkInv, RowQuiet
  <2>4. ASSUME NEW w \in Worker, Claim(w)
        PROVE  FALSE
    BY <2>4, ClaimEffect
  <2>5. ASSUME FinishSave
        PROVE  FALSE
    BY <2>2, <2>5, FinishEffect DEF Bare
  <2>6. PICK w \in Worker : Save(w)
    BY <2>1, <2>3, <2>4, <2>5, RowSteps
  <2>7. s = Target(w)
    BY <2>1, <2>2, <2>6, SaveEffect
  <2>8. l \in found[w].valid \cup found[w].locked \cup found[w].dead \cup found[w].limited
    BY <2>2, <2>6, <2>7, AboutToSave, SaveEffect
  <2>9. CASE l \in found[w].valid \cup found[w].locked
    BY <2>2, <2>6, <2>7, <2>9, SaveEffect
  <2>10. CASE l \in found[w].dead \cup found[w].limited
    <3>1. GoTo(w, "upsert") /\ found' = found
      BY <2>2, <2>6, <2>10, SaveEffect
    <3>2. pc'[w] = "upsert"
      BY <3>1, GoToOthers
    <3> QED BY <2>7, <2>10, <3>1, <3>2 DEF InHand
  <2> QED BY <2>8, <2>9, <2>10
<1> QED BY <1>1, TypeCorrect, LockHolds, QuietHolds, PTL DEF Spec, PendingLeavesWithVerdict

-------------------------------------------------------------------------------
(***************************************************************************)
(* No link vanishes.  Its links reach a row from a request that has looked *)
(* up the known invalid ones before; a pass takes them off the row and     *)
(* stores the invalid ones after its Save.  Both gaps are bridged by the   *)
(* invariant.  The lists of a row are overwritten, so the argument needs   *)
(* passes over all platforms: then only a checked row has results.         *)
(***************************************************************************)

\* Every pass checks all platforms, and so does every request that detects.
WholePasses ==
    \A w \in Worker :
        /\ pc[w] \in {"claim", "check", "get", "save"} => Unfiltered(w)
        /\ pc[w] = "create" => /\ job[w].task => Unfiltered(w)
                               /\ job[w].sel \in {{}, Platform}

\* What is known of the links of a row, and of one that is about to be created.
RowAccount(s) ==
    /\ rec[s].status # "checked" => rec[s].valid = {} /\ rec[s].locked = {}
    /\ rec[s].original \cap Recognised \subseteq Accounted(s)

RequestAccount(s) ==
    pc[Caller(s)] = "create" =>
        job[Caller(s)].raw \cap Recognised
            \subseteq job[Caller(s)].links \cup KnownInvalid(Link) \cup cleared[s]

AccountInv ==
    faults = 0 => /\ WholePasses
                  /\ \A s \in Sub : RowAccount(s) /\ RequestAccount(s)

\* No request selects some platforms only.
NoneOrAll == \A r \in Request : r.task \/ r.sel \in {{}, Platform}

\* The step of one worker keeps WholePasses if what it does next is whole.
LEMMA WholeStep ==
    ASSUME WholePasses, NEW u \in Worker,
           \A w \in Worker \ {u} : pc'[w] = pc[w] /\ job'[w] = job[w],
           pc'[u] \in {"claim", "check", "get", "save"} => Unfiltered(u)',
           pc'[u] = "create" => /\ job'[u].task => Unfiltered(u)'
                                /\ job'[u].sel \in {{}, Platform}
    PROVE  WholePasses'
BY DEF WholePasses, Unfiltered

LEMMA PassWhole ==
    ASSUME TypeOK, LinkInv, faults = 0, faults' = 0, WholePasses, NEW u \in Worker, Pass(u)
    PROVE  WholePasses'
<1>1. ASSUME NEW o \in {"done", "failed"}, Leave(u, o)
      PROVE  WholePasses'
  <2>1. pc'[u] \in {"idle", "done", "failed"}
    BY <1>1, LeaveOthers
  <2> QED BY <1>1, <2>1, LeaveOthers, WholeStep
<1>2. ASSUME NEW o \in {"check", "get", "save", "upsert"}, GoTo(u, o), job' = job,
             pc[u] \in {"claim", "check", "get", "save"}
      PROVE  WholePasses'
  <2>1. Unfiltered(u)'
    BY <1>2 DEF WholePasses, Unfiltered
  <2>2. pc'[u] # "create"
    BY <1>2, GoToOthers
  <2> QED BY <1>2, <2>1, <2>2, GoToOthers, WholeStep
<1>3. CASE Claim(u)
  BY <1>1, <1>2, <1>3 DEF Claim
<1>4. CASE Check(u)
  <2>1. pc[u] = "check"
    BY <1>4, Zenon DEF Check
  <2> QED BY <1>2, <1>4, <2>1, CheckSorts
<1>5. CASE Get(u)
  BY <1>1, <1>2, <1>5 DEF Get
<1>6. CASE Save(u)
  BY <1>1, <1>2, <1>6, SaveEffect
<1>7. CASE Upsert(u)
  BY <1>1, <1>7 DEF Upsert
<1> QED BY <1>3, <1>4, <1>5, <1>6, <1>7, NoRepairs DEF Pass

LEMMA NextWhole ==
    ASSUME NoneOrAll, TypeOK, LinkInv, faults = 0, faults' = 0, WholePasses, Next
    PROVE  WholePasses'
<1>1. ASSUME NEW s \in Sub, Submit(s)
      PROVE  WholePasses'
  <2> DEFINE w == Caller(s)
  <2>1. w \in Worker
    BY Workers
  <2>2. ASSUME NEW o \in {"done", "failed"}, Leave(w, o)
        PROVE  WholePasses'
    <3>1. pc'[w] \in {"idle", "done", "failed"}
      BY <2>1, <2>2, LeaveOthers
    <3> QED BY <2>1, <2>2, <3>1, LeaveOthers, WholeStep
  <2>3. ASSUME NEW raw, NEW links, NEW r \in Request, GoTo(w, "create"),
               job' = [job EXCEPT ![w] =
                          [raw |-> raw, links |-> links,
                           sel |-> IF r.task THEN Platform ELSE r.sel, task |-> r.task]]
        PROVE  WholePasses'
    <3>1. /\ \A u \in Worker \ {w} : job'[u] = job[u]
          /\ job'[w].task = r.task /\ job'[w].sel = IF r.task THEN Platform ELSE r.sel
      BY <2>1, <2>3 DEF TypeOK
    <3>2. pc'[w] = "create" /\ \A u \in Worker \ {w} : pc'[u] = pc[u]
      BY <2>1, <2>3, GoToOthers
    <3>3. (job'[w].task => Unfiltered(w)') /\ job'[w].sel \in {{}, Platform}
      BY <3>1 DEF Unfiltered, NoneOrAll
    <3> QED BY <2>1, <3>1, <3>2, <3>3, WholeStep
  <2> QED BY <1>1, <2>2, <2>3 DEF Submit
<1>2. ASSUME NEW s \in Sub, Create(s)
      PROVE  WholePasses'
  <2> DEFINE w == Caller(s)
  <2>1. w \in Worker /\ pc[w] = "create"
    BY <1>2, Workers DEF Create
  <2>2. ASSUME NEW o \in {"done", "failed"}, Leave(w, o)
        PROVE  WholePasses'
    <3>1. pc'[w] \in {"idle", "done", "failed"}
      BY <2>1, <2>2, LeaveOthers
    <3> QED BY <2>1, <2>2, <3>1, LeaveOthers, WholeStep
  <2>3. CASE DetectsAtOnce(job[w]) /\ GoTo(w, "claim") /\ UNCHANGED job
    <3>1. Unfiltered(w)
      BY <2>1, <2>3 DEF WholePasses, DetectsAtOnce, Unfiltered
    <3>2. pc'[w] = "claim" /\ \A u \in Worker \ {w} : pc'[u] = pc[u]
      BY <2>1, <2>3, GoToOthers
    <3> QED BY <2>1, <2>3, <3>1, <3>2, WholeStep DEF Unfiltered
  <2> QED BY <1>2, <2>2, <2>3 DEF Create
<1>3. CASE Spawn
  <2>1. PICK e \in loop.batch, w \in Worker :
            GoTo(w, "claim") /\ job' = [job EXCEPT ![w] = [NoJob EXCEPT !.links = e.links]]
    BY <1>3 DEF Spawn
  <2>2. /\ \A u \in Worker \ {w} : pc'[u] = pc[u] /\ job'[u] = job[u]
        /\ pc'[w] = "claim" /\ job'[w].sel = Platform
    BY <2>1, GoToOthers DEF TypeOK, NoJob
  <2> QED BY <2>2, WholeStep DEF Unfiltered
<1>4. CASE \/ Scan \/ FinishRead \/ FinishSave \/ ClearRateLimited
           \/ \E s \in Sub : Settle(s)
  <2>1. UNCHANGED <<pc, job>>
    BY <1>4 DEF Scan, FinishRead, FinishSave, ClearRateLimited, Settle
  <2> QED BY <2>1 DEF WholePasses, Unfiltered
<1>5. ~ Crash
  BY FaultsGrow DEF Crash
<1> QED BY <1>1, <1>2, <1>3, <1>4, <1>5, PassWhole, NoRepairs DEF Next, Background

LEMMA InHandOf ==
    ASSUME NEW s \in Sub, NEW l
    PROVE  /\ l \in InHand(s) <=>
                 \E w \in Worker : /\ pc[w] = "upsert" /\ Target(w) = s
                                   /\ l \in found[w].dead \cup found[w].limited
           /\ l \in InHand(s)' <=>
                 \E w \in Worker : /\ pc'[w] = "upsert" /\ Target(w) = s
                                   /\ l \in found'[w].dead \cup found'[w].limited
BY DEF InHand

\* A worker that does not store invalid links just now takes none out of hand.
LEMMA InHandKept ==
    ASSUME NEW s \in Sub, NEW u \in Worker, pc[u] # "upsert",
           \A w \in Worker \ {u} : pc'[w] = pc[w] /\ found'[w] = found[w]
    PROVE  InHand(s) \subseteq InHand(s)'
BY InHandOf

\* The account of a row grows with the tables and with what is in hand.
LEMMA RowAccountKept ==
    ASSUME NEW s \in Sub, RowAccount(s), InHand(s) \subseteq InHand(s)',
           UNCHANGED <<invalidLink, cleared>>,
           rec'[s].original = rec[s].original,
           rec[s].pending \cup rec[s].valid \cup rec[s].locked
              \subseteq rec'[s].pending \cup rec'[s].valid \cup rec'[s].locked \cup InHand(s)',
           rec'[s].status # "checked" => rec'[s].valid = {} /\ rec'[s].locked = {}
    PROVE  RowAccount(s)'
<1>1. KnownInvalid(Link)' = KnownInvalid(Link)
  BY DEF KnownInvalid
<1>2. Accounted(s) \subseteq Accounted(s)'
  BY <1>1 DEF Accounted
<1> QED BY <1>2 DEF RowAccount, Recognised

LEMMA RequestAccountKept ==
    ASSUME NEW s \in Sub, RequestAccount(s), UNCHANGED cleared,
           KnownInvalid(Link) \subseteq KnownInvalid(Link)',
           pc'[Caller(s)] = "create" =>
              pc[Caller(s)] = "create" /\ job'[Caller(s)] = job[Caller(s)]
    PROVE  RequestAccount(s)'
BY DEF RequestAccount, Recognised

\* A step of one worker that leaves the rows and the invalid links alone.
LEMMA AccountStep ==
    ASSUME NEW u \in Worker, pc[u] # "upsert", pc'[u] # "create",
           \A w \in Worker \ {u} : pc'[w] = pc[w] /\ job'[w] = job[w] /\ found'[w] = found[w],
           UNCHANGED <<rec, invalidLink, cleared>>,
           \A s \in Sub : RowAccount(s) /\ RequestAccount(s)
    PROVE  \A s \in Sub : (RowAccount(s) /\ RequestAccount(s))'
<1> SUFFICES ASSUME NEW s \in Sub
             PROVE  (RowAccount(s) /\ RequestAccount(s))'
  OBVIOUS
<1>1. RowAccount(s)'
  <2>1. InHand(s) \subseteq InHand(s)'
    BY InHandKept
  <2> QED BY <2>1, RowAccountKept DEF RowAccount
<1>2. pc'[Caller(s)] = "create" => pc[Caller(s)] = "create" /\ job'[Caller(s)] = job[Caller(s)]
  BY Workers
<1>3. RequestAccount(s)'
  BY <1>2, RequestAccountKept DEF KnownInvalid
<1> QED BY <1>1, <1>3

LEMMA SubmitAccount ==
    ASSUME TypeOK, NEW t \in Sub, Submit(t), \A s \in Sub : RowAccount(s) /\ RequestAccount(s)
    PROVE  \A s \in Sub : (RowAccount(s) /\ RequestAccount(s))'
<1> DEFINE u == Caller(t)
<1>1. u \in Worker /\ pc[u] = "idle" /\ UNCHANGED <<rec, invalidLink, cleared>>
  BY Workers DEF Submit
<1>2. ASSUME NEW o \in {"done", "failed"}, Leave(u, o)
      PROVE  \A s \in Sub : (RowAccount(s) /\ RequestAccount(s))'
  <2>1. pc'[u] # "create"
    BY <1>1, <1>2, LeaveOthers
  <2> QED BY <1>1, <1>2, <2>1, LeaveOthers, AccountStep
<1>3. ASSUME NEW raw \in SUBSET Link, NEW r \in Request,
             GoTo(u, "create"), UNCHANGED found,
             LET all == raw \cap Recognised IN
             job' = [job EXCEPT ![u] =
                       [raw |-> raw, links |-> all \ KnownInvalid(all),
                        sel |-> IF r.task THEN Platform ELSE r.sel, task |-> r.task]]
      PROVE  \A s \in Sub : (RowAccount(s) /\ RequestAccount(s))'
  <2>1. /\ \A w \in Worker \ {u} : pc'[w] = pc[w] /\ job'[w] = job[w] /\ found'[w] = found[w]
        /\ job'[u].raw = raw
        /\ job'[u].links = (raw \cap Recognised) \ KnownInvalid(raw \cap Recognised)
    BY <1>1, <1>3, GoToOthers DEF TypeOK
  <2>2. RequestAccount(t)'
    BY <1>1, <2>1 DEF RequestAccount, KnownInvalid, Recognised
  <2>3. ASSUME NEW s \in Sub
        PROVE  RowAccount(s)'
    <3>1. InHand(s) \subseteq InHand(s)'
      BY <1>1, <2>1, InHandKept
    <3> QED BY <1>1, <3>1, RowAccountKept DEF RowAccount
  <2>4. ASSUME NEW s \in Sub, s # t
        PROVE  RequestAccount(s)'
    <3>1. Caller(s) \in Worker \ {u}
      BY <2>4, Workers
    <3> QED BY <1>1, <2>1, <3>1, RequestAccountKept DEF KnownInvalid
  <2> QED BY <2>2, <2>3, <2>4
<1> QED BY <1>1, <1>2, <1>3 DEF Submit

\* The step of worker u that changes row t, and of the request at most t's.
LEMMA AccountWrite ==
    ASSUME NEW t \in Sub, NEW u \in Worker, pc[u] # "upsert", pc'[u] # "create",
           \A w \in Worker \ {u} : pc'[w] = pc[w] /\ job'[w] = job[w] /\ found'[w] = found[w],
           UNCHANGED <<invalidLink, cleared>>,
           \A s \in Sub \ {t} : rec'[s] = rec[s],
           RowAccount(t)',
           \A s \in Sub : RowAccount(s) /\ RequestAccount(s)
    PROVE  \A s \in Sub : (RowAccount(s) /\ RequestAccount(s))'
<1>1. ASSUME NEW s \in Sub, s # t
      PROVE  RowAccount(s)'
  <2>1. InHand(s) \subseteq InHand(s)'
    BY InHandKept
  <2> QED BY <1>1, <2>1, RowAccountKept DEF RowAccount
<1>2. ASSUME NEW s \in Sub
      PROVE  RequestAccount(s)'
  <2>1. pc'[Caller(s)] = "create" => pc[Caller(s)] = "create" /\ job'[Caller(s)] = job[Caller(s)]
    BY Workers
  <2> QED BY <2>1, RequestAccountKept DEF KnownInvalid
<1> QED BY <1>1, <1>2

LEMMA CreateAccount ==
    ASSUME TypeOK, LockInv, faults = 0, faults' = 0, NEW t \in Sub, Create(t),
           \A s \in Sub : RowAccount(s) /\ RequestAccount(s)
    PROVE  \A s \in Sub : (RowAccount(s) /\ RequestAccount(s))'
<1> DEFINE u == Caller(t)
<1>1. u \in Worker /\ pc[u] = "create" /\ UNCHANGED <<invalidLink, cleared>>
  BY Workers DEF Create
<1>2. /\ \A w \in Worker \ {u} : pc'[w] = pc[w] /\ job'[w] = job[w] /\ found'[w] = found[w]
      /\ pc'[u] \in {"claim", "done", "failed"}
  <2>1. CASE GoTo(u, "claim") /\ UNCHANGED <<job, found>>
    BY <1>1, <2>1, GoToOthers
  <2>2. CASE Leave(u, "done") \/ Leave(u, "failed")
    BY <1>1, <2>2, LeaveOthers, Workers
  <2> QED BY <2>1, <2>2 DEF Create
<1>3. CASE rec' = rec
  BY <1>1, <1>2, <1>3, AccountStep
<1>4. CASE /\ \A r \in Sub \ {t} : rec'[r] = rec[r]
           /\ rec'[t].original = job[u].raw /\ rec'[t].pending = job[u].links
           /\ rec'[t].valid = {} /\ rec'[t].locked = {}
  <2>1. RowAccount(t)'
    BY <1>1, <1>4 DEF RowAccount, RequestAccount, Accounted, KnownInvalid, Recognised
  <2> QED BY <1>1, <1>2, <1>4, <2>1, AccountWrite
<1> QED BY <1>3, <1>4, CreateEffect

LEMMA ClaimAccount ==
    ASSUME TypeOK, NEW u \in Worker, Claim(u), \A s \in Sub : RowAccount(s) /\ RequestAccount(s)
    PROVE  \A s \in Sub : (RowAccount(s) /\ RequestAccount(s))'
<1> DEFINE t == Target(u)
<1>1. t \in Sub /\ pc[u] = "claim" /\ UNCHANGED <<invalidLink, cleared>>
  BY Workers DEF Claim
<1>2. /\ \A w \in Worker \ {u} : pc'[w] = pc[w] /\ job'[w] = job[w] /\ found'[w] = found[w]
      /\ pc'[u] \in {"idle", "check", "failed"}
  BY GoToOthers, LeaveOthers DEF Claim
<1>3. CASE rec' = rec
  BY <1>1, <1>2, <1>3, AccountStep
<1>4. CASE rec' # rec
  <2>1. InHand(t) \subseteq InHand(t)'
    BY <1>1, <1>2, InHandKept
  <2>2. RowAccount(t)'
    BY <1>1, <1>4, <2>1, ClaimEffect, RowAccountKept DEF RowAccount
  <2> HIDE DEF t
  <2> QED BY <1>1, <1>2, <1>4, <2>2, ClaimEffect, AccountWrite DEF t
<1> QED BY <1>3, <1>4

LEMMA SaveAccount ==
    ASSUME TypeOK, LockInv, LinkInv, faults = 0, faults' = 0, WholePasses, NEW u \in Worker, Save(u),
           \A s \in Sub : RowAccount(s) /\ RequestAccount(s)
    PROVE  \A s \in Sub : (RowAccount(s) /\ RequestAccount(s))'
<1> DEFINE t == Target(u)
<1>1. t \in Sub /\ pc[u] = "save" /\ UNCHANGED <<invalidLink, cleared>>
  BY Workers DEF Save
<1>2. /\ \A w \in Worker \ {u} : pc'[w] = pc[w] /\ job'[w] = job[w] /\ found'[w] = found[w]
      /\ pc'[u] \in {"idle", "upsert", "done"}
  BY SaveEffect, GoToOthers, LeaveOthers
<1>3. found[u].kept = {}
  BY <1>1 DEF WholePasses, LockInv, HeldRows
<1>4. rec'[t].status = "checked"
  BY <1>3, SaveEffect DEF StatusAfter
<1>5. InHand(t) \subseteq InHand(t)'
  BY <1>1, <1>2, InHandKept
<1>6. rec[t].valid = {} /\ rec[t].locked = {}
  BY <1>1, AboutToSave DEF RowAccount, Bare
<1>7. found[u].dead \cup found[u].limited \subseteq InHand(t)'
  <2>1. CASE GoTo(u, "upsert") /\ found' = found
    <3>1. pc'[u] = "upsert"
      BY <2>1, GoToOthers
    <3> QED BY <1>1, <2>1, <3>1, InHandOf
  <2> QED BY <2>1, SaveEffect
<1>8. rec[t].pending \subseteq rec'[t].valid \cup rec'[t].locked \cup InHand(t)'
  BY <1>1, <1>3, <1>7, AboutToSave, SaveEffect
<1>9. rec'[t].original = rec[t].original
  BY SaveEffect
<1>10. RowAccount(t)'
  BY <1>1, <1>4, <1>5, <1>6, <1>8, <1>9, RowAccountKept
<1>11. \A s \in Sub \ {t} : rec'[s] = rec[s]
  BY SaveEffect
<1> HIDE DEF t
<1> QED BY <1>1, <1>2, <1>10, <1>11, AccountWrite

LEMMA UpsertAccount ==
    ASSUME TypeOK, faults = 0, faults' = 0, NEW u \in Worker, Upsert(u),
           \A s \in Sub : RowAccount(s) /\ RequestAccount(s)
    PROVE  \A s \in Sub : (RowAccount(s) /\ RequestAccount(s))'
<1>1. /\ invalidLink' = Upserted(found[u]) /\ UNCHANGED <<rec, cleared>>
      /\ Leave(u, "done")
  BY FaultsGrow DEF Upsert
<1>2. /\ \A w \in Worker \ {u} : pc'[w] = pc[w] /\ job'[w] = job[w] /\ found'[w] = found[w]
      /\ pc'[u] \in {"idle", "done"}
  BY <1>1, LeaveOthers
<1>3. found[u].dead \subseteq Link /\ found[u].limited \subseteq Link
  BY DEF TypeOK, Found
<1>4. KnownInvalid(Link) \cup found[u].dead \cup found[u].limited \subseteq KnownInvalid(Link)'
  BY <1>1, <1>3 DEF KnownInvalid, Upserted
<1>5. ASSUME NEW s \in Sub
      PROVE  RowAccount(s)'
  <2>1. InHand(s) \subseteq InHand(s)' \cup KnownInvalid(Link)'
    BY <1>2, <1>4, InHandOf
  <2>2. Accounted(s) \subseteq Accounted(s)'
    BY <1>1, <1>4, <2>1 DEF Accounted
  <2> QED BY <1>1, <2>2 DEF RowAccount, Recognised
<1>6. ASSUME NEW s \in Sub
      PROVE  RequestAccount(s)'
  <2>1. pc'[Caller(s)] = "create" => pc[Caller(s)] = "create" /\ job'[Caller(s)] = job[Caller(s)]
    BY <1>2, Workers
  <2> QED BY <1>1, <1>4, <2>1, RequestAccountKept
<1> QED BY <1>5, <1>6

\* What the administrator deletes moves from the table to the history.
LEMMA ClearAccount ==
    ASSUME TypeOK, LockInv, LinkInv, faults = 0, ClearRateLimited,
           \A s \in Sub : RowAccount(s) /\ RequestAccount(s)
    PROVE  \A s \in Sub : (RowAccount(s) /\ RequestAccount(s))'
<1> SUFFICES ASSUME NEW s \in Sub
             PROVE  (RowAccount(s) /\ RequestAccount(s))'
  OBVIOUS
<1>1. UNCHANGED <<rec, pc, job, found>>
  BY DEF ClearRateLimited
<1>2. InHand(s)' = InHand(s)
  BY <1>1 DEF InHand
<1>3. CASE pc[Caller(s)] = "idle"
  <2>1. rec[s].original = {} /\ rec[s].status = "absent"
    BY <1>3 DEF LockInv, RowsExist, LinkInv, RowQuiet
  <2> QED BY <1>1, <1>3, <2>1 DEF RowAccount, RequestAccount
<1>4. CASE pc[Caller(s)] # "idle"
  <2>1. KnownInvalid(Link) \cup cleared[s] \subseteq KnownInvalid(Link)' \cup cleared'[s]
    BY <1>4 DEF ClearRateLimited, KnownInvalid
  <2>2. Accounted(s) \subseteq Accounted(s)'
    BY <1>1, <1>2, <2>1 DEF Accounted
  <2> QED BY <1>1, <2>1, <2>2 DEF RowAccount, RequestAccount, Recognised
<1> QED BY <1>3, <1>4

LEMMA BackgroundAccount ==
    ASSUME TypeOK, LinkInv, faults = 0, faults' = 0, Background,
           \A s \in Sub : RowAccount(s) /\ RequestAccount(s)
    PROVE  \A s \in Sub : (RowAccount(s) /\ RequestAccount(s))'
<1>0. UNCHANGED <<invalidLink, found, cleared>>
  BY DEF Background, Scan, Spawn, FinishRead, FinishSave
<1>1. CASE Spawn
  <2>1. PICK w \in Worker, links \in SUBSET Link :
           /\ pc[w] = "idle" /\ GoTo(w, "claim")
           /\ job' = [job EXCEPT ![w] = [NoJob EXCEPT !.links = links]]
    BY <1>1 DEF Spawn, TypeOK, Entry
  <2>2. /\ \A x \in Worker \ {w} : pc'[x] = pc[x] /\ job'[x] = job[x]
        /\ pc'[w] = "claim"
    BY <2>1, GoToOthers DEF TypeOK
  <2>3. rec' = rec
    BY <1>1 DEF Spawn
  <2> QED BY <1>0, <2>1, <2>2, <2>3, AccountStep
<1>2. CASE Scan \/ FinishRead
  <2>1. UNCHANGED <<rec, pc, job>>
    BY <1>2 DEF Scan, FinishRead
  <2> QED BY <1>0, <2>1 DEF RowAccount, RequestAccount, Accounted, InHand, KnownInvalid, Recognised
<1>3. CASE FinishSave
  <2>1. UNCHANGED <<pc, job>>
    BY <1>3 DEF FinishSave
  <2>2. PICK t \in loop.sub :
           /\ t \in Sub
           /\ \A s \in Sub \ {t} : rec'[s] = rec[s]
           /\ rec'[t].status = "checked" /\ rec'[t].original = rec[t].original
           /\ Bare(rec[t]) /\ Bare(rec'[t])
    BY <1>3, FinishEffect
  <2>3. \A s \in Sub : InHand(s)' = InHand(s)
    BY <1>0, <2>1 DEF InHand
  <2>4. ASSUME NEW s \in Sub
        PROVE  RowAccount(s)'
    <3>1. CASE s = t
      BY <1>0, <2>2, <2>3, <3>1, RowAccountKept DEF Bare
    <3>2. CASE s # t
      BY <1>0, <2>2, <2>3, <3>2, RowAccountKept DEF RowAccount
    <3> QED BY <3>1, <3>2
  <2>5. ASSUME NEW s \in Sub
        PROVE  RequestAccount(s)'
    BY <1>0, <2>1, RequestAccountKept DEF KnownInvalid
  <2> QED BY <2>4, <2>5
<1> QED BY <1>1, <1>2, <1>3 DEF Background

LEMMA NextAccount ==
    ASSUME NoneOrAll
    PROVE  TypeOK /\ LockInv /\ LinkInv /\ AccountInv /\ [Next]_vars => AccountInv'
<1> SUFFICES ASSUME TypeOK, LockInv, LinkInv, AccountInv, [Next]_vars, faults' = 0
             PROVE  AccountInv'
  BY DEF AccountInv
<1>1. CASE UNCHANGED vars
  BY <1>1 DEF vars, AccountInv, WholePasses, Unfiltered, RowAccount, RequestAccount, Accounted,
              InHand, KnownInvalid, Recognised
<1>2. CASE Next
  <2>1. faults = 0 /\ WholePasses /\ \A s \in Sub : RowAccount(s) /\ RequestAccount(s)
    BY <1>2, NoFaultBefore DEF AccountInv
  <2>2. WholePasses'
    BY <1>2, <2>1, NextWhole
  <2>3. ASSUME NEW u \in Worker, Check(u)
        PROVE  \A s \in Sub : (RowAccount(s) /\ RequestAccount(s))'
    <3>1. pc[u] = "check" /\ UNCHANGED <<rec, invalidLink, cleared>>
      BY <2>3, Zenon DEF Check
    <3>2. /\ \A w \in Worker \ {u} : pc'[w] = pc[w] /\ job'[w] = job[w] /\ found'[w] = found[w]
          /\ pc'[u] = "get"
      BY <2>1, <2>3, CheckSorts, GoToOthers
    <3> QED BY <2>1, <3>1, <3>2, AccountStep
  <2>4. ASSUME NEW u \in Worker, Get(u)
        PROVE  \A s \in Sub : (RowAccount(s) /\ RequestAccount(s))'
    <3>1. /\ pc[u] = "get" /\ UNCHANGED <<rec, invalidLink, job, found, cleared>>
          /\ GoTo(u, "save")
      BY <2>1, <2>4, FaultsGrow DEF Get
    <3>2. (\A w \in Worker \ {u} : pc'[w] = pc[w]) /\ pc'[u] = "save"
      BY <3>1, GoToOthers
    <3> QED BY <2>1, <3>1, <3>2, AccountStep
  <2>5. ~ Crash
    BY FaultsGrow DEF Crash
  <2>6. ASSUME NEW t \in Sub, Settle(t)
        PROVE  \A s \in Sub : (RowAccount(s) /\ RequestAccount(s))'
    <3>1. UNCHANGED <<rec, invalidLink, pc, job, found, cleared>>
      BY <2>6 DEF Settle
    <3> QED BY <2>1, <3>1 DEF RowAccount, RequestAccount, Accounted, InHand, KnownInvalid,
                              Recognised
  <2>7. \A s \in Sub : (RowAccount(s) /\ RequestAccount(s))'
    BY <1>2, <2>1, <2>3, <2>4, <2>5, <2>6, SubmitAccount, CreateAccount, ClaimAccount,
       SaveAccount, UpsertAccount, ClearAccount, BackgroundAccount, NoRepairs DEF Next, Pass
  <2> QED BY <2>2, <2>7 DEF AccountInv
<1> QED BY <1>1, <1>2

\* While nothing fails, and every request detects all platforms or none, each
\* recognised link of a submission is in one of the lists of its row, among the
\* invalid links, or in the hand of a pass about to store it: for any number of
\* requests, goroutines and scans (link_service.go:58-148,
\* checker_service.go:252-358, 744-805).
THEOREM LinksStay ==
    ASSUME NoneOrAll
    PROVE  Spec => []NoLinkVanishes
<1>1. Init => AccountInv
  <2> SUFFICES ASSUME Init
               PROVE  WholePasses /\ \A s \in Sub : RowAccount(s) /\ RequestAccount(s)
    BY DEF AccountInv
  <2>1. \A w \in Worker : pc[w] = "idle"
    BY DEF Init
  <2>2. \A s \in Sub : rec[s] = NoRow
    BY DEF Init
  <2> QED BY <2>1, <2>2, Workers DEF WholePasses, RowAccount, RequestAccount, NoRow
<1>2. TypeOK /\ LockInv /\ LinkInv /\ AccountInv /\ [Next]_vars => AccountInv'
  BY NextAccount
<1>3. AccountInv => NoLinkVanishes
  BY DEF AccountInv, RowAccount, NoLinkVanishes
<1> QED BY <1>1, <1>2, <1>3, TypeCorrect, LockHolds, QuietHolds, PTL DEF Spec

-------------------------------------------------------------------------------
(***************************************************************************)
(* Refinement.  Creating a row is Arrive, claiming it Start; the Save of a *)
(* pass is HandBack or Finish, that of the scan Finish.                    *)
(***************************************************************************)
StageMap == [s \in Sub |-> StageOf(rec[s].status)]
TodoMap == [s \in Sub |-> rec[s].pending]

LEMMA StageValues ==
    /\ StageOf("absent") = "absent"
    /\ StageOf("pending") = "waiting"
    /\ StageOf("checking") = "working"
    /\ StageOf("checked") = "finished"
BY DEF StageOf

\* A step that changes one row moves it, and no other, to another stage.
LEMMA MovesOne ==
    ASSUME NEW t \in Sub, NEW to, NEW links, StageOf(rec'[t].status) = to,
           rec'[t].pending = links, \A s \in Sub \ {t} : rec'[s] = rec[s]
    PROVE  Stages!Move(t, to, links)
<1>1. StageMap' = [StageMap EXCEPT ![t] = to]
  BY DEF StageMap
<1>2. TodoMap' = [TodoMap EXCEPT ![t] = links]
  BY DEF TodoMap
<1> QED BY <1>1, <1>2 DEF Stages!Move, StageMap, TodoMap

\* One lemma per step of Lifecycle.
LEMMA Arrives ==
    ASSUME NEW t \in Sub, \A s \in Sub \ {t} : rec'[s] = rec[s],
           rec[t].status = "absent", rec'[t].status = "pending",
           rec'[t].pending \in SUBSET Link
    PROVE  Stages!Next
<1>1. PICK links \in SUBSET Link : links = rec'[t].pending
  OBVIOUS
<1>2. Stages!Move(t, "waiting", links)
  BY <1>1, MovesOne, StageValues
<1>3. StageMap[t] = "absent"
  BY StageValues DEF StageMap
<1>4. Stages!Arrive(t)
  BY <1>2, <1>3, Zenon DEF Stages!Arrive, StageMap
<1> QED BY <1>4, Zenon DEF Stages!Next

LEMMA Starts ==
    ASSUME NEW t \in Sub, \A s \in Sub \ {t} : rec'[s] = rec[s],
           rec[t].status = "pending", rec'[t].status = "checking",
           rec'[t].pending = rec[t].pending
    PROVE  Stages!Next
<1>1. StageMap[t] = "waiting" /\ TodoMap[t] = rec[t].pending
  BY StageValues DEF StageMap, TodoMap
<1>2. /\ StageMap' = [StageMap EXCEPT ![t] = "working"]
      /\ TodoMap' = [TodoMap EXCEPT ![t] = TodoMap[t]]
  BY StageValues DEF StageMap, TodoMap
<1>3. Stages!Start(t)
  BY <1>1, <1>2, Zenon DEF Stages!Start, Stages!Move, StageMap, TodoMap
<1> QED BY <1>3, Zenon DEF Stages!Next

LEMMA HandsBack ==
    ASSUME NEW t \in Sub, \A s \in Sub \ {t} : rec'[s] = rec[s],
           rec[t].status = "checking", rec'[t].status = "pending",
           rec'[t].pending \subseteq rec[t].pending, rec'[t].pending # {}
    PROVE  Stages!Next
<1>1. StageMap[t] = "working" /\ TodoMap[t] = rec[t].pending
  BY StageValues DEF StageMap, TodoMap
<1>2. PICK links \in SUBSET TodoMap[t] : links = rec'[t].pending
  BY <1>1
<1>3. Stages!Move(t, "waiting", links) /\ links # {}
  BY <1>2, MovesOne, StageValues
<1>4. Stages!HandBack(t)
  BY <1>1, <1>3, Zenon DEF Stages!HandBack, StageMap, TodoMap
<1> QED BY <1>4, Zenon DEF Stages!Next

LEMMA Finishes ==
    ASSUME NEW t \in Sub, \A s \in Sub \ {t} : rec'[s] = rec[s],
           \/ rec[t].status = "checking"
           \/ rec[t].status = "pending" /\ rec[t].pending = {},
           rec'[t].status = "checked", rec'[t].pending = {}
    PROVE  Stages!Next
<1>1. \/ StageMap[t] = "working"
      \/ StageMap[t] = "waiting" /\ TodoMap[t] = {}
  BY StageValues DEF StageMap, TodoMap
<1>2. Stages!Move(t, "finished", {})
  BY MovesOne, StageValues
<1>3. Stages!Finish(t)
  BY <1>1, <1>2, Zenon DEF Stages!Finish, StageMap, TodoMap
<1> QED BY <1>3, Zenon DEF Stages!Next

\* A row that is saved as it was.
LEMMA StaysFinished ==
    ASSUME NEW t \in Sub, \A s \in Sub \ {t} : rec'[s] = rec[s],
           rec'[t].status = rec[t].status, rec'[t].pending = rec[t].pending
    PROVE  UNCHANGED <<StageMap, TodoMap>>
BY DEF StageMap, TodoMap

LEMMA NextStages ==
    ASSUME TypeOK, LockInv, LinkInv, Next, faults' = 0
    PROVE  Stages!Next \/ UNCHANGED <<StageMap, TodoMap>>
<1>1. faults = 0
  BY NoFaultBefore
<1>2. CASE rec' = rec
  BY <1>2 DEF StageMap, TodoMap
<1>3. ASSUME NEW s \in Sub, Create(s), rec' # rec
      PROVE  Stages!Next
  <2>1. rec'[s].pending \in SUBSET Link
    BY NextType DEF TypeOK, Row
  <2> QED BY <1>3, <2>1, CreateEffect, Arrives
<1>4. ASSUME NEW w \in Worker, Claim(w), rec' # rec
      PROVE  Stages!Next
  BY <1>4, ClaimEffect, Starts, Workers
<1>5. ASSUME NEW w \in Worker, Save(w)
      PROVE  Stages!Next \/ UNCHANGED <<StageMap, TodoMap>>
  <2> DEFINE t == Target(w)
  <2>1. t \in Sub /\ pc[w] = "save" /\ \A s \in Sub \ {t} : rec'[s] = rec[s]
    BY <1>1, <1>5, SaveEffect, Workers
  <2>2. /\ rec'[t].pending \subseteq rec[t].pending
        /\ rec'[t].status = (IF rec'[t].pending = {} THEN "checked" ELSE "pending")
        /\ rec[t].status = "checked" => rec[t].pending = {} /\ rec'[t].pending = {}
    BY <1>1, <1>5, <2>1, AboutToSave, SaveEffect DEF StatusAfter, Bare
  <2>3. rec[t].status \in {"checking", "checked"}
    BY <2>1, Repairs DEF LockInv, HeldRows, Holds
  <2> HIDE DEF t
  <2>4. CASE rec[t].status = "checked"
    BY <2>1, <2>2, <2>4, StaysFinished
  <2>5. CASE rec[t].status = "checking" /\ rec'[t].pending = {}
    BY <2>1, <2>2, <2>5, Finishes
  <2>6. CASE rec[t].status = "checking" /\ rec'[t].pending # {}
    BY <2>1, <2>2, <2>6, HandsBack
  <2> QED BY <2>3, <2>4, <2>5, <2>6
<1>6. ASSUME FinishSave
      PROVE  Stages!Next \/ UNCHANGED <<StageMap, TodoMap>>
  <2>1. PICK t \in loop.sub :
           /\ t \in Sub
           /\ \A s \in Sub \ {t} : rec'[s] = rec[s]
           /\ rec'[t].status = "checked"
           /\ rec[t].pending = {} /\ rec'[t].pending = {}
    BY <1>1, <1>6, FinishEffect DEF Bare
  <2>2. rec[t].status \in {"pending", "checking", "checked"}
    BY <2>1 DEF LockInv, RowsExist, TypeOK, Row, Status
  <2> QED BY <2>1, <2>2, Finishes, StaysFinished
<1> QED BY <1>2, <1>3, <1>4, <1>5, <1>6, RowSteps

\* Until something fails the rows take the steps of Lifecycle: a row is only ever
\* handed back with fewer links, none is added, and checked is the last stage,
\* for any number of requests, goroutines and scans.
THEOREM LifecycleFollowed == Spec => LifecycleUntilFault
<1>1. Init => Stages!Init
  <2> SUFFICES ASSUME Init
               PROVE  Stages!Init
    OBVIOUS
  <2>1. \A s \in Sub : rec[s] = NoRow
    BY DEF Init
  <2> QED BY <2>1, StageValues DEF Stages!Init, NoRow
<1>2. TypeOK /\ LockInv /\ LinkInv /\ [Next]_vars => [faults' = 0 => Stages!Next]_(Stages!vars)
  <2> SUFFICES ASSUME TypeOK, LockInv, LinkInv, [Next]_vars, faults' = 0
               PROVE  Stages!Next \/ UNCHANGED Stages!vars
    OBVIOUS
  <2>1. CASE UNCHANGED vars
    BY <2>1 DEF vars, Stages!vars
  <2>2. CASE Next
    BY <2>2, NextStages DEF StageMap, TodoMap, Stages!vars
  <2> QED BY <2>1, <2>2
<1> QED BY <1>1, <1>2, TypeCorrect, LockHolds, QuietHolds, PTL DEF Spec, LifecycleUntilFault

\* Where nothing can fail they implement it.
THEOREM LifecycleImplemented ==
    ASSUME MaxFaults = 0
    PROVE  Spec => ImplementsLifecycle
<1>1. TypeOK /\ TypeOK' /\ [faults' = 0 => Stages!Next]_(Stages!vars) => [Stages!Next]_(Stages!vars)
  BY DEF TypeOK
<1> QED BY <1>1, TypeCorrect, LifecycleFollowed, PTL
        DEF LifecycleUntilFault, ImplementsLifecycle, Stages!Spec

===============================================================================
