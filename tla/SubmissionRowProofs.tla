-------------------------- MODULE SubmissionRowProofs --------------------------
(***************************************************************************)
(* Theorems about the lists of a row of submission_records.                *)
(***************************************************************************)
EXTENDS SubmissionProofs

-------------------------------------------------------------------------------
(***************************************************************************)
(* The lists of a row are disjoint.  A row is written from the lists of a  *)
(* pass, from the copy of a recovering pass or from the row the scan has   *)
(* read, so these have to be disjoint too.                                 *)
(***************************************************************************)
Disjoint(pending, valid, locked) ==
    /\ valid \cap locked = {}
    /\ pending \cap (valid \cup locked) = {}

DisjointRow(row) == Disjoint(row.pending, row.valid, row.locked)

ListsInv ==
    /\ \A s \in Sub : DisjointRow(rec[s])
    /\ \A w \in Worker : Disjoint(found[w].kept, found[w].valid, found[w].locked)
    /\ \A w \in Worker : DisjointRow(copy[w])
    /\ DisjointRow(loop.row)

\* A row without lists; the lists of a pass that has not begun.
LEMMA EmptyLists ==
    /\ DisjointRow(NoRow)
    /\ Disjoint(Nothing.kept, Nothing.valid, Nothing.locked)
BY DEF NoRow, Nothing, Disjoint, DisjointRow

\* The lists of a detection: each link has one verdict, and only links of
\* platforms the pass does not cover are kept.
LEMMA CollectedDisjoint ==
    ASSUME NEW j \in Job, NEW done \in SUBSET Covered(j), NEW v \in [done -> Verdict]
    PROVE  LET f == Collected(j, done, v) IN Disjoint(f.kept, f.valid, f.locked)
BY DEF Collected, Disjoint, Skipped

\* Ending a worker leaves disjoint lists.
LEMMA LeaveLists ==
    ASSUME TypeOK, ListsInv, NEW w \in Worker, NEW o, Leave(w, o)
    PROVE  /\ \A u \in Worker : Disjoint(found'[u].kept, found'[u].valid, found'[u].locked)
           /\ \A u \in Worker : DisjointRow(copy'[u])
<1>1. found' = [found EXCEPT ![w] = Nothing] /\ copy' = [copy EXCEPT ![w] = NoRow]
  BY DEF Leave
<1>2. \A u \in Worker : found'[u] = found[u] \/ found'[u] = Nothing
  BY <1>1 DEF TypeOK
<1>3. \A u \in Worker : copy'[u] = copy[u] \/ copy'[u] = NoRow
  BY <1>1 DEF TypeOK
<1> QED BY <1>2, <1>3, EmptyLists DEF ListsInv

\* Writing a row whose lists are disjoint.
LEMMA WriteLists ==
    ASSUME TypeOK, ListsInv, NEW s \in Sub, NEW row, DisjointRow(row), Write(s, row)
    PROVE  \A r \in Sub : DisjointRow(rec'[r])
<1>1. \A r \in Sub : rec'[r] = rec[r] \/ rec'[r] = row
  BY DEF Write, TypeOK
<1> QED BY <1>1 DEF ListsInv

\* A row with other lists, or another status, of a row in Row.
LEMMA ResultRowLists ==
    ASSUME TypeOK, ListsInv, NEW s \in Sub, NEW w \in Worker, NEW status
    PROVE  DisjointRow(ResultRow(s, found[w], status))
<1>1. rec[s] \in Row /\ found[w] \in Found
  BY DEF TypeOK
<1>2. Disjoint(found[w].kept, found[w].valid, found[w].locked)
  BY DEF ListsInv
<1> QED BY <1>1, <1>2 DEF ResultRow, DisjointRow, Row

LEMMA StatusLists ==
    ASSUME NEW row \in Row, DisjointRow(row), NEW status
    PROVE  DisjointRow([row EXCEPT !.status = status])
BY DEF DisjointRow, Row

\* One step per action.
LEMMA ListsStep ==
    ASSUME TypeOK, ListsInv, Next
    PROVE  ListsInv'
<1>1. ASSUME NEW s \in Sub, Submit(s)
      PROVE  ListsInv'
  <2>1. Caller(s) \in Worker
    BY Workers
  <2>2. CASE UNCHANGED <<found, copy>>
    BY <1>1, <2>2 DEF Submit, ListsInv
  <2>3. CASE \E o \in {"done", "failed"} : Leave(Caller(s), o)
    BY <1>1, <2>1, <2>3, LeaveLists DEF Submit, ListsInv
  <2> QED BY <1>1, <2>2, <2>3 DEF Submit
<1>2. ASSUME NEW s \in Sub, Create(s)
      PROVE  ListsInv'
  <2>1. Caller(s) \in Worker
    BY Workers
  <2>2. \A r \in Sub : DisjointRow(rec'[r])
    <3>1. DisjointRow([NoRow EXCEPT !.status = "pending", !.original = job[Caller(s)].raw,
                                    !.pending = job[Caller(s)].links])
      BY DEF NoRow, DisjointRow, Disjoint
    <3> QED BY <1>2, <3>1, WriteLists DEF Create, ListsInv
  <2>3. CASE UNCHANGED <<found, copy>>
    BY <1>2, <2>2, <2>3 DEF Create, ListsInv
  <2>4. CASE \E o \in {"done", "failed"} : Leave(Caller(s), o)
    BY <1>2, <2>1, <2>2, <2>4, LeaveLists DEF Create, ListsInv
  <2> QED BY <1>2, <2>3, <2>4 DEF Create
<1>3. ASSUME NEW w \in Worker, Claim(w)
      PROVE  ListsInv'
  <2>1. Target(w) \in Sub
    BY Workers
  <2>2. \A r \in Sub : DisjointRow(rec'[r])
    <3>1. rec[Target(w)] \in Row /\ DisjointRow(rec[Target(w)])
      BY <2>1 DEF TypeOK, ListsInv
    <3>2. DisjointRow([rec[Target(w)] EXCEPT !.status = "checking"])
      BY <3>1, StatusLists
    <3> QED BY <1>3, <2>1, <3>2, WriteLists DEF Claim, ListsInv
  <2>3. CASE UNCHANGED <<found, copy>>
    BY <1>3, <2>2, <2>3 DEF Claim, ListsInv
  <2>4. CASE Leave(w, "failed")
    BY <1>3, <2>2, <2>4, LeaveLists DEF Claim, ListsInv
  <2> QED BY <1>3, <2>3, <2>4 DEF Claim
<1>4. ASSUME NEW w \in Worker, Check(w)
      PROVE  ListsInv'
  <2>1. \E done \in SUBSET Covered(job[w]) : \E v \in [done -> Verdict] :
            found' = [found EXCEPT ![w] = Collected(job[w], done, v)]
    BY <1>4, Zenon DEF Check
  <2>2. job[w] \in Job
    BY DEF TypeOK
  <2>3. PICK f : /\ found' = [found EXCEPT ![w] = f]
                 /\ Disjoint(f.kept, f.valid, f.locked)
    BY <2>1, <2>2, CollectedDisjoint
  <2>4. \A u \in Worker : found'[u] = found[u] \/ found'[u] = f
    BY <2>3 DEF TypeOK
  <2>5. UNCHANGED <<rec, copy, loop>>
    BY <1>4, Zenon DEF Check
  <2> QED BY <2>3, <2>4, <2>5 DEF ListsInv
<1>5. ASSUME NEW w \in Worker, Get(w)
      PROVE  ListsInv'
  BY <1>5, LeaveLists DEF Get, ListsInv
<1>6. ASSUME NEW w \in Worker, Save(w)
      PROVE  ListsInv'
  <2>1. Target(w) \in Sub
    BY Workers
  <2>2. \A r \in Sub : DisjointRow(rec'[r])
    BY <1>6, <2>1, ResultRowLists, WriteLists DEF Save, ListsInv
  <2>3. loop' = loop
    BY <1>6 DEF Save
  <2>4. CASE UNCHANGED <<found, copy>>
    BY <2>2, <2>3, <2>4 DEF ListsInv
  <2>5. CASE \E o \in {"done", "failed"} : Leave(w, o)
    BY <2>2, <2>3, <2>5, LeaveLists DEF ListsInv
  <2> QED BY <1>6, <2>4, <2>5 DEF Save
<1>7. ASSUME NEW w \in Worker, Restore(w)
      PROVE  ListsInv'
  <2>1. Target(w) \in Sub
    BY Workers
  <2>2. \A r \in Sub : DisjointRow(rec'[r])
    BY <1>7, <2>1, ResultRowLists, WriteLists DEF Restore, ListsInv
  <2> QED BY <1>7, <2>2, LeaveLists DEF Restore, ListsInv
<1>8. ASSUME NEW w \in Worker, Upsert(w)
      PROVE  ListsInv'
  BY <1>8, LeaveLists DEF Upsert, ListsInv
<1>9. ASSUME NEW w \in Worker, Panic(w)
      PROVE  ListsInv'
  BY <1>9, LeaveLists DEF Panic, ListsInv
<1>10. ASSUME NEW w \in Worker, Recover(w)
       PROVE  ListsInv'
  <2>1. Target(w) \in Sub
    BY Workers
  <2>2. UNCHANGED <<rec, loop>>
    BY <1>10 DEF Recover
  <2>3. CASE copy' = [copy EXCEPT ![w] = rec[Target(w)]] /\ UNCHANGED found
    <3>1. \A u \in Worker : copy'[u] = copy[u] \/ copy'[u] = rec[Target(w)]
      BY <2>3 DEF TypeOK
    <3> QED BY <2>1, <2>2, <2>3, <3>1 DEF ListsInv
  <2>4. CASE Leave(w, "failed")
    BY <2>2, <2>4, LeaveLists DEF ListsInv
  <2> QED BY <1>10, <2>3, <2>4 DEF Recover
<1>11. ASSUME NEW w \in Worker, PutBack(w)
       PROVE  ListsInv'
  <2>1. Target(w) \in Sub
    BY Workers
  <2>2. \A r \in Sub : DisjointRow(rec'[r])
    <3>1. copy[w] \in Row /\ DisjointRow(copy[w])
      BY DEF TypeOK, ListsInv
    <3>2. DisjointRow([copy[w] EXCEPT !.status = "pending"])
      BY <3>1, StatusLists
    <3> QED BY <1>11, <2>1, <3>2, WriteLists DEF PutBack, ListsInv
  <2> QED BY <1>11, <2>2, LeaveLists DEF PutBack, ListsInv
<1>12. ASSUME Scan
       PROVE  ListsInv'
  BY <1>12 DEF Scan, ListsInv, TypeOK
<1>13. ASSUME Spawn
       PROVE  ListsInv'
  BY <1>13 DEF Spawn, ListsInv, TypeOK
<1>14. ASSUME FinishRead
       PROVE  ListsInv'
  <2>1. /\ UNCHANGED <<rec, found, copy>>
        /\ loop'.row = loop.row \/ \E s \in Sub : loop'.row = rec[s]
    BY <1>14 DEF FinishRead, TypeOK, Entry
  <2> QED BY <2>1 DEF ListsInv
<1>15. ASSUME FinishSave
       PROVE  ListsInv'
  <2>1. loop.row \in Row /\ DisjointRow(loop.row)
    BY DEF TypeOK, ListsInv
  <2>2. DisjointRow([loop.row EXCEPT !.status = "checked", !.pending = {}])
    BY <2>1 DEF DisjointRow, Disjoint, Row
  <2>3. \A r \in Sub : DisjointRow(rec'[r])
    BY <1>15, <2>2, WriteLists DEF FinishSave, TypeOK, ListsInv
  <2>4. loop'.row = NoRow /\ UNCHANGED <<found, copy>>
    BY <1>15 DEF FinishSave, TypeOK
  <2> QED BY <2>3, <2>4, EmptyLists DEF ListsInv
<1>16. ASSUME ClearRateLimited
       PROVE  ListsInv'
  BY <1>16 DEF ClearRateLimited, ListsInv
<1>17. ASSUME Crash
       PROVE  ListsInv'
  BY <1>17, EmptyLists DEF Crash, ListsInv
<1>18. ASSUME NEW s \in Sub, Settle(s)
       PROVE  ListsInv'
  BY <1>18 DEF Settle, ListsInv
<1> QED BY <1>1, <1>2, <1>3, <1>4, <1>5, <1>6, <1>7, <1>8, <1>9, <1>10, <1>11, <1>12,
          <1>13, <1>14, <1>15, <1>16, <1>17, <1>18 DEF Next, Pass, Background

LEMMA ListsHold == Spec => []ListsInv
<1>1. Init => ListsInv
  BY EmptyLists DEF Init, ListsInv
<1>2. TypeOK /\ ListsInv /\ [Next]_vars => ListsInv'
  BY ListsStep DEF vars, ListsInv
<1> QED BY <1>1, <1>2, TypeCorrect, PTL DEF Spec

\* No link is in two of the lists of a row: for any number of requests, scans,
\* goroutines and faults, the lists a pass writes over a row are those of one
\* detection (checker_service.go:255-263).
THEOREM DisjointLists == Spec => []ListsDisjoint
<1>1. ListsInv => ListsDisjoint
  BY DEF ListsInv, ListsDisjoint, DisjointRow, Disjoint
<1> QED BY <1>1, ListsHold, PTL

-------------------------------------------------------------------------------
(***************************************************************************)
(* A checked row has no pending links.  The status and pending_links are   *)
(* written together, so the property is inductive.                         *)
(***************************************************************************)
LEMMA WriteChecked ==
    ASSUME TypeOK, CheckedHasNothingPending, NEW s \in Sub, NEW row, Write(s, row),
           row.status = "checked" => row.pending = {}
    PROVE  CheckedHasNothingPending'
<1>1. \A r \in Sub : rec'[r] = rec[r] \/ rec'[r] = row
  BY DEF Write, TypeOK
<1> QED BY <1>1 DEF CheckedHasNothingPending

\* The row a pass saves is in order, also when it is put back.
LEMMA SavedRow ==
    ASSUME TypeOK, NEW s \in Sub, NEW w \in Worker, NEW status \in Status,
           status = "checked" => found[w].kept = {}
    PROVE  LET row == ResultRow(s, found[w], status)
           IN row.status = "checked" => row.pending = {}
<1>1. rec[s] \in Row
  BY DEF TypeOK
<1> QED BY <1>1 DEF ResultRow, Row

LEMMA CheckedStep ==
    ASSUME TypeOK, CheckedHasNothingPending, Next
    PROVE  CheckedHasNothingPending'
<1>1. CASE UNCHANGED rec
  BY <1>1 DEF CheckedHasNothingPending
<1>2. ASSUME NEW s \in Sub, Create(s)
      PROVE  CheckedHasNothingPending'
  <2>1. CASE Write(s, [NoRow EXCEPT !.status = "pending", !.original = job[Caller(s)].raw,
                                    !.pending = job[Caller(s)].links])
    BY <2>1, WriteChecked DEF NoRow
  <2> QED BY <1>1, <1>2, <2>1 DEF Create
<1>3. ASSUME NEW w \in Worker, Claim(w)
      PROVE  CheckedHasNothingPending'
  <2>1. Target(w) \in Sub /\ rec[Target(w)] \in Row
    BY Workers DEF TypeOK
  <2>2. [rec[Target(w)] EXCEPT !.status = "checking"].status = "checking"
    BY <2>1 DEF Row
  <2> QED BY <1>1, <1>3, <2>1, <2>2, WriteChecked DEF Claim
<1>4. ASSUME NEW w \in Worker, Save(w)
      PROVE  CheckedHasNothingPending'
  <2>1. Target(w) \in Sub
    BY Workers
  <2>2. /\ StatusAfter(found[w]) \in Status
        /\ StatusAfter(found[w]) = "checked" => found[w].kept = {}
    BY DEF StatusAfter, Status
  <2> QED BY <1>1, <1>4, <2>1, <2>2, SavedRow, WriteChecked DEF Save
<1>5. ASSUME NEW w \in Worker, Restore(w)
      PROVE  CheckedHasNothingPending'
  <2>1. Target(w) \in Sub
    BY Workers
  <2> QED BY <1>1, <1>5, <2>1, SavedRow, WriteChecked DEF Restore, Status
<1>6. ASSUME NEW w \in Worker, PutBack(w)
      PROVE  CheckedHasNothingPending'
  <2>1. Target(w) \in Sub /\ copy[w] \in Row
    BY Workers DEF TypeOK
  <2>2. [copy[w] EXCEPT !.status = "pending"].status = "pending"
    BY <2>1 DEF Row
  <2> QED BY <1>1, <1>6, <2>1, <2>2, WriteChecked DEF PutBack
<1>7. ASSUME FinishSave
      PROVE  CheckedHasNothingPending'
  <2>1. loop.sub \in SUBSET Sub /\ loop.row \in Row
    BY DEF TypeOK
  <2>2. [loop.row EXCEPT !.status = "checked", !.pending = {}].pending = {}
    BY <2>1 DEF Row
  <2> QED BY <1>1, <1>7, <2>1, <2>2, WriteChecked DEF FinishSave
<1>8. CASE \/ \E s \in Sub : Submit(s) \/ Settle(s)
           \/ \E w \in Worker : Get(w) \/ Upsert(w) \/ Recover(w) \/ Panic(w)
           \/ Scan \/ Spawn \/ FinishRead \/ ClearRateLimited \/ Crash
  BY <1>1, <1>8 DEF Submit, Settle, Get, Upsert, Recover, Panic, Scan, Spawn, FinishRead,
                    ClearRateLimited, Crash
<1>9. ASSUME NEW w \in Worker, Check(w)
      PROVE  CheckedHasNothingPending'
  <2>1. UNCHANGED rec
    BY <1>9, Zenon DEF Check
  <2> QED BY <1>1, <2>1
<1> QED BY <1>2, <1>3, <1>4, <1>5, <1>6, <1>7, <1>8, <1>9 DEF Next, Pass, Background

\* No link is left behind in a checked row, which no scan reads: whatever the
\* requests select and whatever fails (checker_service.go:454-462, 790-801).
THEOREM CheckedIsComplete == Spec => []CheckedHasNothingPending
<1>1. Init => CheckedHasNothingPending
  BY DEF Init, NoRow, CheckedHasNothingPending
<1>2. TypeOK /\ CheckedHasNothingPending /\ [Next]_vars => CheckedHasNothingPending'
  BY CheckedStep DEF vars, CheckedHasNothingPending
<1> QED BY <1>1, <1>2, TypeCorrect, PTL DEF Spec

-------------------------------------------------------------------------------
(***************************************************************************)
(* Runs.  A run covers every platform, so the pass that ends well has      *)
(* saved its row as checked and holds it to the end: nobody takes it back. *)
(***************************************************************************)

\* A run whose pass has ended well, or is about to.
Reported(s) ==
    execution[s] \in {"running", "success"} /\ pc[Caller(s)] \in {"upsert", "done"}

\* Its row is checked, or there is none, and no other pass writes it.
Good(s) ==
    /\ rec[s].status \in {"checked", "absent"}
    /\ \A w \in Worker : Holds(w) /\ Target(w) = s => w = Caller(s)

RunOf(s) ==
    /\ pc[Caller(s)] = "idle" => execution[s] = "none"
    /\ execution[s] = "success" => pc[Caller(s)] = "done"
    /\ execution[s] # "none" => Unfiltered(Caller(s))
    /\ execution[s] # "none" /\ pc[Caller(s)] = "create" => job[Caller(s)].task
    /\ Reported(s) => Good(s)

RunInv == \A s \in Sub : RunOf(s)

\* A step that moves one worker, seen by the runs: a pass takes a row that is
\* pending, writes a row it holds, and the caller's pass ends well only with a
\* row it has saved as checked.
RunMove(u) ==
    LET t == Target(u) IN
    /\ \A w \in Worker \ {u} : pc'[w] = pc[w] /\ job'[w] = job[w]
    /\ \A s \in Sub \ {t} : rec'[s] = rec[s]
    /\ rec'[t] = rec[t] \/ Holds(u) \/ rec[t].status = "pending"
    /\ Holds(u)' => Holds(u) \/ rec[t].status = "pending"
    /\ pc[u] \notin {"idle", "done"} \/ ~ IsCaller(u)
    /\ IsCaller(u) => pc'[u] \notin {"idle", "create"}
    /\ Unfiltered(u) => Unfiltered(u)'
    /\ Unfiltered(u) /\ IsCaller(u) /\ pc'[u] \in {"upsert", "done"} =>
          Holds(u) /\ rec'[t].status = "checked"

LEMMA RunStep ==
    ASSUME TypeOK, LockInv, RunInv, UNCHANGED execution, NEW u \in Worker, RunMove(u)
    PROVE  RunInv'
<1> DEFINE t == Target(u)
<1>1. t \in Sub /\ (IsCaller(u) => u = Caller(t))
  BY Workers
<1>2. \A w \in Worker \ {u} : Holds(w)' <=> Holds(w)
  BY DEF Holds, Unfiltered, RunMove
<1>3. ASSUME NEW s \in Sub, Caller(s) # u
      PROVE  RunOf(s)'
  <2>1. Caller(s) \in Worker /\ pc'[Caller(s)] = pc[Caller(s)] /\ job'[Caller(s)] = job[Caller(s)]
    BY <1>3, Workers DEF RunMove
  <2>2. ASSUME Good(s), Holds(u) => Target(u) # s, rec[s].status # "pending"
        PROVE  Good(s)'
    <3>1. rec'[s] = rec[s]
      BY <1>1, <2>2 DEF RunMove
    <3>2. ASSUME NEW w \in Worker, Holds(w)', Target(w) = s
          PROVE  w = Caller(s)
      <4>1. CASE w = u
        BY <2>2, <3>2, <4>1 DEF RunMove
      <4>2. CASE w # u
        BY <1>2, <2>2, <3>2, <4>2 DEF Good
      <4> QED BY <4>1, <4>2
    <3> QED BY <2>2, <3>1, <3>2 DEF Good, Holds, Unfiltered
  <2>3. Good(s) => (Holds(u) => Target(u) # s) /\ rec[s].status # "pending"
    BY <1>3 DEF Good
  <2>4. RunOf(s)
    BY DEF RunInv
  <2> QED BY <2>1, <2>2, <2>3, <2>4 DEF RunOf, Reported, Unfiltered
<1>4. ASSUME Caller(t) = u
      PROVE  RunOf(t)'
  <2>1. IsCaller(u) /\ RunOf(t)
    BY <1>1, <1>4, Workers DEF RunInv
  <2>2. execution[t] # "success"
    BY <1>4, <2>1 DEF RunOf, RunMove
  <2>3. ASSUME Reported(t)'
        PROVE  Good(t)'
    <3>1. Holds(u) /\ rec'[t].status = "checked"
      BY <1>4, <2>1, <2>3 DEF RunOf, RunMove, Reported
    <3>2. ASSUME NEW w \in Worker, Holds(w)', Target(w) = t
          PROVE  w = u
      BY <1>2, <3>1, <3>2 DEF LockInv, OnePassAtATime
    <3> QED BY <1>4, <3>1, <3>2 DEF Good, Holds, Unfiltered
  <2> QED BY <1>4, <2>1, <2>2, <2>3 DEF RunOf, RunMove
<1> QED BY <1>1, <1>3, <1>4, Workers DEF RunInv

\* A worker that ends takes NoJob, which covers every platform.
LEMMA LeaveMove ==
    ASSUME TypeOK, NEW u \in Worker, NEW o \in {"done", "failed"}, Leave(u, o)
    PROVE  /\ \A w \in Worker \ {u} : pc'[w] = pc[w] /\ job'[w] = job[w]
           /\ Unfiltered(u)' /\ ~ Holds(u)'
           /\ pc'[u] = (IF IsCaller(u) THEN o ELSE "idle")
BY DEF TypeOK, Leave, GoTo, Unfiltered, NoJob, Holds, Working

LEMMA GoToMove ==
    ASSUME TypeOK, NEW u \in Worker, NEW o, GoTo(u, o), UNCHANGED job
    PROVE  /\ \A w \in Worker \ {u} : pc'[w] = pc[w] /\ job'[w] = job[w]
           /\ Unfiltered(u)' <=> Unfiltered(u)
           /\ pc'[u] = o
BY DEF TypeOK, GoTo, Unfiltered

\* The pass that fails, and the one that goes on with its row.
LEMMA FailMove ==
    ASSUME TypeOK, NEW u \in Worker, pc[u] \notin {"idle", "done"}, Leave(u, "failed"),
           \/ UNCHANGED rec
           \/ Holds(u) /\ \E row : Write(Target(u), row)
    PROVE  RunMove(u)
BY Workers, WriteOthers, LeaveMove DEF RunMove

LEMMA GoOnMove ==
    ASSUME TypeOK, NEW u \in Worker, Holds(u), UNCHANGED <<rec, job>>,
           NEW o \in Working, GoTo(u, o)
    PROVE  RunMove(u)
BY GoToMove DEF RunMove, Holds, Working

LEMMA SaveMove ==
    ASSUME TypeOK, LockInv, NEW u \in Worker, Save(u)
    PROVE  RunMove(u)
<1> DEFINE t == Target(u)
           row == ResultRow(t, found[u], StatusAfter(found[u]))
<1>1. t \in Sub /\ Holds(u) /\ pc[u] = "save"
  BY Workers DEF Save, Holds, Working
<1>2. CASE UNCHANGED rec /\ Leave(u, "failed")
  BY <1>1, <1>2, FailMove
<1>3. CASE UNCHANGED <<rec, job>> /\ GoTo(u, "restore")
  BY <1>1, <1>3, GoOnMove DEF Working
<1>4. ASSUME Write(t, row), \/ Leave(u, "done")
                            \/ GoTo(u, "upsert") /\ UNCHANGED job
      PROVE  RunMove(u)
  <2>1. rec'[t] = row /\ \A s \in Sub \ {t} : rec'[s] = rec[s]
    BY <1>1, <1>4, WriteOthers
  <2>2. Unfiltered(u) => rec'[t].status = "checked"
    <3>1. Unfiltered(u) => StatusAfter(found[u]) = "checked"
      BY <1>1 DEF LockInv, HeldRows, StatusAfter
    <3>2. row.status = StatusAfter(found[u])
      BY <1>1 DEF ResultRow, TypeOK, Row
    <3> QED BY <2>1, <3>1, <3>2
  <2>3. /\ \A w \in Worker \ {u} : pc'[w] = pc[w] /\ job'[w] = job[w]
        /\ Unfiltered(u) => Unfiltered(u)'
        /\ IsCaller(u) => pc'[u] \in {"done", "upsert"}
    BY <1>4, LeaveMove, GoToMove
  <2> HIDE DEF row
  <2> QED BY <1>1, <2>1, <2>2, <2>3 DEF RunMove
<1> HIDE DEF row
<1> QED BY <1>2, <1>3, <1>4 DEF Save, row

\* Every other step of a pass.
LEMMA PassMove ==
    ASSUME TypeOK, LockInv, NEW u \in Worker, Pass(u) \/ Panic(u)
    PROVE  RunMove(u) /\ UNCHANGED execution
<1>1. Target(u) \in Sub
  BY Workers
<1>2. CASE Claim(u)
  <2>1. CASE UNCHANGED rec /\ Leave(u, "failed")
    BY <1>2, <2>1, FailMove DEF Claim
  <2>2. CASE /\ rec[Target(u)].status = "pending" /\ UNCHANGED job
             /\ \E row : Write(Target(u), row)
             /\ GoTo(u, "check")
    BY <1>1, <1>2, <2>2, WriteOthers, GoToMove DEF RunMove, Claim
  <2> QED BY <1>2, <2>1, <2>2 DEF Claim, Claimable
<1>3. CASE Check(u)
  <2>1. UNCHANGED <<rec, job, execution>> /\ GoTo(u, "get") /\ pc[u] = "check"
    BY <1>3, Zenon DEF Check
  <2> QED BY <2>1, GoOnMove DEF Holds, Working
<1>4. CASE Get(u)
  BY <1>4, FailMove, GoOnMove DEF Get, Holds, Working
<1>5. CASE Save(u)
  BY <1>5, SaveMove DEF Save
<1>6. CASE Restore(u)
  BY <1>6, FailMove DEF Restore, Holds, Working
<1>7. CASE Upsert(u)
  <2>1. /\ UNCHANGED <<rec, execution>> /\ Leave(u, "done") /\ pc[u] = "upsert"
        /\ Unfiltered(u) => Holds(u) /\ rec[Target(u)].status = "checked"
    BY <1>7 DEF Upsert, Holds, LockInv, HeldRows
  <2> QED BY <2>1, LeaveMove DEF RunMove
<1>8. CASE Panic(u)
  BY <1>8, FailMove, GoOnMove DEF Panic, Holds, Working
<1>9. CASE Recover(u)
  BY <1>9, FailMove, GoOnMove DEF Recover, Holds, Working
<1>10. CASE PutBack(u)
  BY <1>10, FailMove DEF PutBack, Holds, Working
<1> QED BY <1>2, <1>3, <1>4, <1>5, <1>6, <1>7, <1>8, <1>9, <1>10 DEF Pass

\* A step of one request or run leaves the others alone.
LEMMA RunsApart ==
    ASSUME TypeOK, RunInv, NEW s \in Sub, RunOf(s)',
           \A w \in Worker \ {Caller(s)} : pc'[w] = pc[w] /\ job'[w] = job[w],
           \A r \in Sub \ {s} : rec'[r] = rec[r] /\ execution'[r] = execution[r]
    PROVE  RunInv'
<1>1. ASSUME NEW r \in Sub, r # s
      PROVE  RunOf(r)'
  <2>1. \A w \in Worker : Target(w) = r =>
           (Holds(w)' <=> Holds(w)) /\ (Unfiltered(w)' <=> Unfiltered(w))
    BY <1>1, Workers DEF Holds, Unfiltered
  <2>2. /\ pc'[Caller(r)] = pc[Caller(r)] /\ job'[Caller(r)] = job[Caller(r)]
        /\ Caller(r) \in Worker /\ Target(Caller(r)) = r
    BY <1>1, Workers
  <2>3. Good(r) => Good(r)'
    BY <1>1, <2>1 DEF Good, Holds, Unfiltered
  <2> QED BY <1>1, <2>1, <2>2, <2>3 DEF RunInv, RunOf, Reported, Unfiltered
<1> QED BY <1>1 DEF RunInv

LEMMA SubmitRun ==
    ASSUME TypeOK, LockInv, RunInv, NEW s \in Sub, Submit(s)
    PROVE  RunInv'
<1> DEFINE u == Caller(s)
<1>1. /\ u \in Worker /\ Target(u) = s /\ IsCaller(u)
      /\ pc[u] = "idle" /\ rec' = rec
  BY Workers DEF Submit
<1>2. execution[s] = "none" /\ rec[s].status = "absent"
  BY <1>1 DEF RunInv, RunOf, LockInv, RowsExist
<1>3. \A w \in Worker : Target(w) = s => ~ Holds(w)
  BY <1>2 DEF LockInv, HeldRows
<1> HIDE DEF u
<1>4. PICK r \in Request : UNCHANGED execution \/ Execute(s, r)
  BY DEF Submit
<1>5. /\ \A t \in Sub \ {s} : execution'[t] = execution[t]
      /\ execution'[s] \in {"none", "running"}
  BY <1>2, <1>4 DEF Execute, TypeOK
<1>6. CASE \E o \in {"done", "failed"} : Leave(u, o)
  <2>1. /\ \A w \in Worker \ {u} : pc'[w] = pc[w] /\ job'[w] = job[w]
        /\ Unfiltered(u)' /\ ~ Holds(u)' /\ pc'[u] \in {"done", "failed"}
    BY <1>1, <1>6, LeaveMove
  <2>2. \A w \in Worker : Target(w) = s => ~ Holds(w)'
    BY <1>3, <2>1 DEF Holds, Unfiltered
  <2>3. RunOf(s)'
    BY <1>1, <1>2, <1>5, <2>1, <2>2 DEF RunOf, Reported, Good, Holds, Unfiltered, u
  <2> QED BY <1>1, <1>5, <2>1, <2>3, RunsApart DEF u
<1>7. ASSUME NEW raw, NEW links, NEW q \in Request, GoTo(u, "create"), Execute(s, q),
             job' = [job EXCEPT ![u] = [raw |-> raw, links |-> links,
                                        sel |-> IF q.task THEN Platform ELSE q.sel,
                                        task |-> q.task]]
      PROVE  RunInv'
  <2>1. /\ \A w \in Worker \ {u} : pc'[w] = pc[w] /\ job'[w] = job[w]
        /\ pc'[u] = "create" /\ job'[u].task = q.task
        /\ q.task => job'[u].sel = Platform
    BY <1>1, <1>7, GoToOthers DEF TypeOK
  <2>2. execution'[s] # "none" => q.task
    BY <1>2, <1>7 DEF Execute, TypeOK
  <2>3. RunOf(s)'
    BY <1>5, <2>1, <2>2 DEF RunOf, Reported, Unfiltered, u
  <2> QED BY <1>1, <1>5, <2>1, <2>3, RunsApart DEF u
<1> QED BY <1>6, <1>7 DEF Submit, u

LEMMA CreateRun ==
    ASSUME TypeOK, RunInv, NEW s \in Sub, Create(s)
    PROVE  RunInv'
<1> DEFINE u == Caller(s)
<1>1. /\ u \in Worker /\ pc[u] = "create" /\ UNCHANGED execution /\ RunOf(s)
  BY Workers DEF Create, RunInv
<1>2. \A t \in Sub \ {s} : rec'[t] = rec[t]
  BY WriteOthers DEF Create
<1>3. /\ \A w \in Worker \ {u} : pc'[w] = pc[w] /\ job'[w] = job[w]
      /\ Unfiltered(u) => Unfiltered(u)'
      /\ execution[s] # "none" => pc'[u] \in {"claim", "failed"}
      /\ pc'[u] \in {"claim", "failed", "done"}
  BY <1>1, LeaveMove, GoToMove, Workers DEF Create, DetectsAtOnce, RunOf
<1>4. RunOf(s)'
  BY <1>1, <1>3 DEF RunOf, Reported
<1> QED BY <1>1, <1>2, <1>3, <1>4, RunsApart

LEMMA SettleRun ==
    ASSUME TypeOK, RunInv, NEW s \in Sub, Settle(s)
    PROVE  RunInv'
<1>1. UNCHANGED <<rec, pc, job>>
  BY DEF Settle
<1>2. /\ execution[s] = "running"
      /\ \A t \in Sub \ {s} : execution'[t] = execution[t]
      /\ execution'[s] \in {"success", "failed", "left"}
      /\ execution'[s] = "success" => pc[Caller(s)] = "done"
  BY DEF Settle, TypeOK, Outcome
<1>3. RunOf(s)
  BY DEF RunInv
<1>4. Good(s) => Good(s)'
  BY <1>1 DEF Good, Holds, Unfiltered
<1>5. RunOf(s)'
  BY <1>1, <1>2, <1>3, <1>4, Workers DEF RunOf, Reported, Unfiltered
<1> QED BY <1>1, <1>2, <1>5, RunsApart

\* The background scan and the administrator; a row the scan saves is checked.
LEMMA LoopRun ==
    ASSUME TypeOK, LockInv, RunInv, Background \/ ClearRateLimited
    PROVE  RunInv'
<1>1. CASE Spawn
  <2>1. PICK e \in loop.batch, u \in Worker :
           /\ ~ IsCaller(u) /\ pc[u] = "idle" /\ GoTo(u, "claim")
           /\ job' = [job EXCEPT ![u] = [NoJob EXCEPT !.links = e.links]]
    BY <1>1 DEF Spawn
  <2>2. UNCHANGED <<rec, execution>>
    BY <1>1 DEF Spawn
  <2>3. /\ \A w \in Worker \ {u} : pc'[w] = pc[w] /\ job'[w] = job[w]
        /\ pc'[u] = "claim" /\ Unfiltered(u)'
    BY <2>1, GoToOthers DEF TypeOK, NoJob, Unfiltered
  <2>4. RunMove(u)
    BY <2>1, <2>2, <2>3 DEF RunMove, Holds, Working
  <2> QED BY <2>2, <2>4, RunStep
<1>2. ASSUME UNCHANGED <<pc, job, execution>>,
             \A s \in Sub : rec'[s] = rec[s] \/
                (rec[s].status # "absent" /\ rec'[s].status = "checked")
      PROVE  RunInv'
  <2>1. \A w \in Worker : (Holds(w)' <=> Holds(w)) /\ (Unfiltered(w)' <=> Unfiltered(w))
    BY <1>2 DEF Holds, Unfiltered
  <2>2. \A s \in Sub : Good(s) => Good(s)'
    BY <1>2, <2>1 DEF Good, Holds, Unfiltered
  <2> QED BY <1>2, <2>1, <2>2, Workers DEF RunInv, RunOf, Reported, Unfiltered
<1>3. CASE Scan \/ FinishRead \/ ClearRateLimited
  BY <1>2, <1>3 DEF Scan, FinishRead, ClearRateLimited
<1>4. CASE FinishSave
  <2>1. loop.row \in Row /\ loop.sub \subseteq Sub /\ \A s \in loop.sub : rec[s].status # "absent"
    BY DEF TypeOK, LockInv, RowsExist
  <2>2. [loop.row EXCEPT !.status = "checked", !.pending = {}].status = "checked"
    BY <2>1 DEF Row
  <2>3. UNCHANGED rec \/ \E s \in loop.sub :
           rec'[s].status = "checked" /\ \A r \in Sub \ {s} : rec'[r] = rec[r]
    BY <1>4, <2>1, <2>2, WriteOthers DEF FinishSave
  <2> QED BY <1>2, <1>4, <2>1, <2>3 DEF FinishSave
<1> QED BY <1>1, <1>3, <1>4 DEF Background

LEMMA CrashRun ==
    ASSUME TypeOK, RunInv, Crash
    PROVE  RunInv'
<1> SUFFICES ASSUME NEW s \in Sub
             PROVE  RunOf(s)'
  BY DEF RunInv
<1>1. /\ rec' = rec /\ job' = [w \in Worker |-> NoJob]
      /\ \A w \in Worker : pc'[w] \in {"idle", "done", "failed"}
      /\ pc'[Caller(s)] = IF pc[Caller(s)] \in {"idle", "done"} THEN pc[Caller(s)] ELSE "failed"
      /\ execution'[s] = IF execution[s] = "running" THEN "left" ELSE execution[s]
  BY Workers DEF Crash
<1>2. \A w \in Worker : ~ Holds(w)' /\ Unfiltered(w)'
  BY <1>1 DEF Holds, Working, Unfiltered, NoJob
<1>3. RunOf(s) /\ Caller(s) \in Worker
  BY Workers DEF RunInv
<1> QED BY <1>1, <1>2, <1>3 DEF RunOf, Reported, Good, Holds, Unfiltered

LEMMA RunsHold == Spec => []RunInv
<1>1. Init => RunInv
  BY Workers DEF Init, RunInv, RunOf, Reported
<1>2. TypeOK /\ LockInv /\ RunInv /\ [Next]_vars => RunInv'
  <2> SUFFICES ASSUME TypeOK, LockInv, RunInv, [Next]_vars
               PROVE  RunInv'
    OBVIOUS
  <2>1. CASE UNCHANGED vars
    BY <2>1 DEF vars, RunInv, RunOf, Reported, Good, Holds, Unfiltered
  <2> QED BY <2>1, SubmitRun, CreateRun, SettleRun, PassMove, RunStep, LoopRun, CrashRun DEF Next
<1> QED BY <1>1, <1>2, TypeCorrect, LockHolds, PTL DEF Spec

\* A run that is recorded as a success has its submission checked, whatever the
\* requests, scans and goroutines beside it have done and whatever has failed
\* (task_scheduler_service.go:55-86, checker_service.go:252-280).
THEOREM SuccessMeansChecked == Spec => []SuccessIsChecked
<1>1. RunInv => SuccessIsChecked
  BY DEF RunInv, RunOf, Reported, Good, SuccessIsChecked
<1> QED BY <1>1, RunsHold, PTL

-------------------------------------------------------------------------------
(***************************************************************************)
(* What clients have submitted.  Every place a row is written from knows   *)
(* the links of the row's submission, however old it is.                   *)
(***************************************************************************)
Lists(x) == x.valid \cup x.locked
Within(row) == row.pending \cup Lists(row) \subseteq row.original

\* What a worker knows of the links of its row.
OwnLinks(w) ==
    LET row == rec[Target(w)] IN
    /\ pc[w] = "create" => job[w].links \subseteq job[w].raw
    /\ pc[w] \in {"claim", "check", "get", "save", "restore"} => job[w].links \subseteq row.original
    /\ pc[w] \in {"get", "save", "restore"} => found[w].kept \cup Lists(found[w]) \subseteq job[w].links
    /\ pc[w] = "put back" => Within(copy[w]) /\ copy[w].original = row.original

LinksInv ==
    /\ \A w \in Worker : OwnLinks(w)
    /\ \A s \in Sub : Within(rec[s]) /\ (rec[s].status = "absent" => rec[s].original = {})
    /\ \A e \in loop.batch : e.links \subseteq rec[e.sub].original
    /\ \A s \in loop.sub : Within(loop.row) /\ loop.row.original = rec[s].original

\* A row that is there keeps the links of its client.
Stays(s) == rec'[s].original = rec[s].original \/ rec[s].status = "absent"

\* What a worker knows remains true while it does nothing.
LEMMA OwnFrame ==
    ASSUME TypeOK, LockInv, LinksInv, NEW w \in Worker, Stays(Target(w)),
           pc'[w] = pc[w], job'[w] = job[w], found'[w] = found[w], copy'[w] = copy[w]
    PROVE  OwnLinks(w)'
<1>1. Target(w) \in Sub
  BY Workers
<1>2. rec[Target(w)].original \subseteq rec'[Target(w)].original
  BY <1>1 DEF Stays, LinksInv
<1>3. pc[w] = "put back" => rec'[Target(w)].original = rec[Target(w)].original
  BY <1>1 DEF Stays, LockInv, HeldRows, Holds, Working
<1>4. OwnLinks(w)
  BY DEF LinksInv
<1>5. Within(copy[w]) => Within(copy'[w])
  BY DEF Within, Lists
<1>6. Lists(found[w])' = Lists(found[w])
  BY DEF Lists
<1> HIDE DEF Lists, Within
<1> QED BY <1>2, <1>3, <1>4, <1>5, <1>6 DEF OwnLinks

LEMMA LoopFrame ==
    ASSUME TypeOK, LockInv, LinksInv, UNCHANGED loop, \A s \in Sub : Stays(s)
    PROVE  /\ \A e \in loop'.batch : e.links \subseteq rec'[e.sub].original
           /\ \A s \in loop'.sub : Within(loop'.row) /\ loop'.row.original = rec'[s].original
<1>1. \A e \in loop.batch : e.sub \in Sub
  BY DEF TypeOK, Entry
<1>2. \A s \in loop.sub : s \in Sub /\ rec[s].status # "absent"
  BY DEF TypeOK, LockInv, RowsExist
<1>3. \A s \in Sub : rec[s].original \subseteq rec'[s].original
  BY DEF Stays, LinksInv
<1> QED BY <1>1, <1>2, <1>3 DEF LinksInv, Stays

\* A step of worker u writes its row, if at all, from what it knows.
LEMMA OwnStep ==
    ASSUME TypeOK, LockInv, LinksInv, NEW u \in Worker, NEW t \in Sub, t = Target(u),
           \A w \in Worker \ {u} :
              pc'[w] = pc[w] /\ job'[w] = job[w] /\ found'[w] = found[w] /\ copy'[w] = copy[w],
           \A s \in Sub \ {t} : rec'[s] = rec[s],
           Stays(t), Within(rec'[t]), rec'[t].status = "absent" => rec'[t].original = {},
           OwnLinks(u)', UNCHANGED loop
    PROVE  LinksInv' /\ \A s \in Sub : Stays(s)
<1>1. \A s \in Sub : Stays(s)
  BY DEF Stays
<1>2. \A w \in Worker : OwnLinks(w)'
  BY <1>1, OwnFrame, Workers
<1>3. \A s \in Sub : Within(rec'[s]) /\ (rec'[s].status = "absent" => rec'[s].original = {})
  BY DEF LinksInv
<1> QED BY <1>1, <1>2, <1>3, LoopFrame DEF LinksInv, Within, Lists

LEMMA LeftOwn ==
    ASSUME NEW u \in Worker, pc'[u] \in {"idle", "done", "failed", "upsert"}
    PROVE  OwnLinks(u)'
BY DEF OwnLinks, Working

\* A worker that ends, or goes on with what it has, and leaves its row alone.
LEMMA OthersLeft ==
    ASSUME TypeOK, NEW u \in Worker, NEW o, Leave(u, o)
    PROVE  \A w \in Worker \ {u} :
              pc'[w] = pc[w] /\ job'[w] = job[w] /\ found'[w] = found[w] /\ copy'[w] = copy[w]
BY DEF TypeOK, Leave, GoTo

LEMMA EndsOwn ==
    ASSUME TypeOK, LockInv, LinksInv, NEW u \in Worker, NEW o \in {"done", "failed"},
           Leave(u, o), UNCHANGED <<rec, loop>>
    PROVE  LinksInv' /\ \A s \in Sub : Stays(s)
<1>1. pc'[u] \in {"idle", "done", "failed", "upsert"}
  BY LeaveOthers
<1>2. Stays(Target(u)) /\ Within(rec'[Target(u)]) /\ Target(u) \in Sub
      /\ (rec'[Target(u)].status = "absent" => rec'[Target(u)].original = {})
  BY Workers DEF Stays, LinksInv
<1> QED BY <1>1, <1>2, LeftOwn, OthersLeft, OwnStep

\* The new value of a row.
LEMMA WritesRow ==
    ASSUME TypeOK, NEW t \in Sub, NEW row, Write(t, row)
    PROVE  rec'[t] = row /\ \A s \in Sub \ {t} : rec'[s] = rec[s]
BY DEF Write, TypeOK

\* The lists of a detection are made of the links it was told.
LEMMA CollectedLinks ==
    ASSUME NEW j \in Job, NEW done \in SUBSET Covered(j), NEW v \in [done -> Verdict]
    PROVE  LET f == Collected(j, done, v) IN f.kept \cup Lists(f) \subseteq j.links
BY DEF Collected, Lists, Covered, Skipped

LEMMA ResultRowLinks ==
    ASSUME TypeOK, LinksInv, NEW u \in Worker, pc[u] \in {"save", "restore"}, NEW status
    PROVE  LET row == ResultRow(Target(u), found[u], status)
           IN Within(row) /\ row.original = rec[Target(u)].original /\ row.status = status
<1> DEFINE old == rec[Target(u)]
           row == ResultRow(Target(u), found[u], status)
<1>1. old \in Row /\ found[u] \in Found
  BY Workers DEF TypeOK
<1>2. /\ row.original = old.original /\ row.status = status /\ row.pending = found[u].kept
      /\ row.valid = found[u].valid /\ row.locked = found[u].locked
  BY <1>1 DEF ResultRow, Row
<1>3. found[u].kept \cup Lists(found[u]) \subseteq old.original
  BY DEF LinksInv, OwnLinks
<1> HIDE DEF row, old
<1> QED BY <1>2, <1>3 DEF Within, Lists, row, old

\* Steps of a worker that leave its row alone.
LEMMA SameRowLinks ==
    ASSUME TypeOK, LockInv, LinksInv, NEW u \in Worker, UNCHANGED <<rec, loop>>,
           \A w \in Worker \ {u} :
              pc'[w] = pc[w] /\ job'[w] = job[w] /\ found'[w] = found[w] /\ copy'[w] = copy[w],
           OwnLinks(u)'
    PROVE  LinksInv' /\ \A s \in Sub : Stays(s)
<1>1. Target(u) \in Sub
  BY Workers
<1>2. Stays(Target(u)) /\ Within(rec'[Target(u)])
      /\ (rec'[Target(u)].status = "absent" => rec'[Target(u)].original = {})
  BY <1>1 DEF Stays, LinksInv
<1> QED BY <1>1, <1>2, OwnStep

\* ... and those that write it and are through with it.
LEMMA WriteLinks ==
    ASSUME TypeOK, LockInv, LinksInv, NEW u \in Worker, NEW row, Write(Target(u), row),
           Within(row), row.original = rec[Target(u)].original, row.status # "absent",
           \A w \in Worker \ {u} :
              pc'[w] = pc[w] /\ job'[w] = job[w] /\ found'[w] = found[w] /\ copy'[w] = copy[w],
           OwnLinks(u)', UNCHANGED loop
    PROVE  LinksInv' /\ \A s \in Sub : Stays(s)
<1>1. Target(u) \in Sub
  BY Workers
<1>2. rec'[Target(u)] = row /\ \A s \in Sub \ {Target(u)} : rec'[s] = rec[s]
  BY <1>1, WritesRow
<1>3. Stays(Target(u))
  BY <1>2 DEF Stays
<1> QED BY <1>1, <1>2, <1>3, OwnStep

LEMMA MovesAlone ==
    ASSUME TypeOK, NEW u \in Worker, NEW place, GoTo(u, place), UNCHANGED <<job, found, copy>>
    PROVE  /\ pc'[u] = place
           /\ \A w \in Worker \ {u} :
                 pc'[w] = pc[w] /\ job'[w] = job[w] /\ found'[w] = found[w] /\ copy'[w] = copy[w]
BY DEF TypeOK, GoTo

LEMMA SubmitLinks ==
    ASSUME TypeOK, LockInv, LinksInv, NEW s \in Sub, Submit(s)
    PROVE  LinksInv' /\ \A t \in Sub : Stays(t)
<1> DEFINE u == Caller(s)
<1>1. u \in Worker
  BY Workers
<1>2. UNCHANGED <<rec, loop>>
  BY DEF Submit
<1> HIDE DEF u
<1>3. CASE \E o \in {"done", "failed"} : Leave(u, o)
  BY <1>1, <1>2, <1>3, EndsOwn
<1>4. ASSUME NEW raw \in SUBSET Link, NEW links \in SUBSET raw, NEW sel, NEW task,
             GoTo(u, "create"), UNCHANGED <<found, copy>>,
             job' = [job EXCEPT ![u] = [raw |-> raw, links |-> links, sel |-> sel, task |-> task]]
      PROVE  LinksInv' /\ \A t \in Sub : Stays(t)
  <2>1. /\ pc'[u] = "create" /\ job'[u].links \subseteq job'[u].raw
        /\ \A w \in Worker \ {u} :
              pc'[w] = pc[w] /\ job'[w] = job[w] /\ found'[w] = found[w] /\ copy'[w] = copy[w]
    BY <1>1, <1>4 DEF TypeOK, GoTo
  <2>2. OwnLinks(u)'
    BY <2>1 DEF OwnLinks
  <2> QED BY <1>1, <1>2, <2>1, <2>2, SameRowLinks
<1>5. \/ \E o \in {"done", "failed"} : Leave(u, o)
      \/ \E raw \in SUBSET Link : \E links \in SUBSET raw : \E sel, task :
            /\ GoTo(u, "create") /\ UNCHANGED <<found, copy>>
            /\ job' = [job EXCEPT ![u] =
                          [raw |-> raw, links |-> links, sel |-> sel, task |-> task]]
  <2>1. PICK raw \in SUBSET Link, r \in Request :
          \/ \E o \in {"done", "failed"} : Leave(u, o)
          \/ /\ GoTo(u, "create") /\ UNCHANGED <<found, copy>>
             /\ job' = [job EXCEPT ![u] =
                    [raw |-> raw,
                     links |-> (raw \cap Recognised) \ KnownInvalid(raw \cap Recognised),
                     sel |-> IF r.task THEN Platform ELSE r.sel, task |-> r.task]]
    BY DEF Submit, u
  <2>2. (raw \cap Recognised) \ KnownInvalid(raw \cap Recognised) \in SUBSET raw
    OBVIOUS
  <2> QED BY <2>1, <2>2
<1> QED BY <1>3, <1>4, <1>5

LEMMA CreateLinks ==
    ASSUME TypeOK, LockInv, LinksInv, NEW s \in Sub, Create(s)
    PROVE  LinksInv' /\ \A t \in Sub : Stays(t)
<1> DEFINE u == Caller(s)
           row == [NoRow EXCEPT !.status = "pending", !.original = job[u].raw,
                                !.pending = job[u].links]
<1>1. u \in Worker /\ s = Target(u)
  BY Workers
<1>2. pc[u] = "create" /\ loop' = loop
  BY DEF Create
<1>3. CASE Leave(u, "failed") /\ UNCHANGED rec
  BY <1>1, <1>2, <1>3, EndsOwn
<1>4. CASE Write(s, row) /\ (\/ GoTo(u, "claim") /\ UNCHANGED <<job, found, copy>>
                           \/ Leave(u, "done"))
  <2>1. /\ row.original = job[u].raw /\ row.status = "pending" /\ row.pending = job[u].links
        /\ row.valid = {} /\ row.locked = {}
    BY DEF NoRow
  <2>2. job[u].links \subseteq job[u].raw
    BY <1>1, <1>2 DEF LinksInv, OwnLinks
  <2>3. Within(row)
    BY <2>1, <2>2 DEF Within, Lists
  <2> HIDE DEF row
  <2>4. rec'[s] = row /\ \A t \in Sub \ {s} : rec'[t] = rec[t]
    BY <1>4, WritesRow
  <2>5. Stays(s)
    BY <1>2 DEF Stays, LockInv, RowsExist, u
  <2>6. CASE GoTo(u, "claim") /\ UNCHANGED <<job, found, copy>>
    <3>1. /\ pc'[u] = "claim"
          /\ \A w \in Worker \ {u} :
                pc'[w] = pc[w] /\ job'[w] = job[w] /\ found'[w] = found[w] /\ copy'[w] = copy[w]
      BY <1>1, <2>6, MovesAlone
    <3>2. OwnLinks(u)'
      BY <1>1, <2>1, <2>2, <2>4, <2>6, <3>1 DEF OwnLinks
    <3> QED BY <1>1, <1>2, <2>1, <2>3, <2>4, <2>5, <3>1, <3>2, OwnStep
  <2>7. CASE Leave(u, "done")
    <3>1. OwnLinks(u)'
      BY <1>1, <2>7, LeaveOthers, LeftOwn
    <3> QED BY <1>1, <1>2, <2>1, <2>3, <2>4, <2>5, <2>7, <3>1, OthersLeft, OwnStep
  <2> QED BY <1>4, <2>6, <2>7
<1> QED BY <1>3, <1>4 DEF Create

LEMMA PassLinks ==
    ASSUME TypeOK, LockInv, LinksInv, NEW u \in Worker, Pass(u) \/ Panic(u)
    PROVE  LinksInv' /\ \A s \in Sub : Stays(s)
<1> DEFINE t == Target(u)
           Goal == LinksInv' /\ \A s \in Sub : Stays(s)
<1>1. t \in Sub /\ rec[t] \in Row /\ OwnLinks(u) /\ Within(rec[t])
  BY Workers DEF TypeOK, LinksInv
<1>2. \A o \in {"done", "failed"} : Leave(u, o) /\ UNCHANGED <<rec, loop>> => Goal
  BY EndsOwn
<1>3. ASSUME NEW place, GoTo(u, place), UNCHANGED <<rec, loop, job, found, copy>>,
             \/ place \in {"upsert", "recover"}
             \/ pc[u] = "get" /\ place = "save"
             \/ pc[u] = "save" /\ place = "restore"
      PROVE  Goal
  <2>1. /\ pc'[u] = place
        /\ \A w \in Worker \ {u} :
              pc'[w] = pc[w] /\ job'[w] = job[w] /\ found'[w] = found[w] /\ copy'[w] = copy[w]
    BY <1>3, MovesAlone
  <2>2. OwnLinks(u)'
    BY <1>1, <1>3, <2>1 DEF OwnLinks, Lists
  <2> QED BY <1>3, <2>1, <2>2, SameRowLinks
<1>4. ASSUME NEW row, NEW o \in {"done", "failed"}, Write(t, row), Leave(u, o), UNCHANGED loop,
             Within(row), row.original = rec[t].original, row.status # "absent"
      PROVE  Goal
  <2>1. OwnLinks(u)'
    BY <1>4, LeaveOthers, LeftOwn
  <2> QED BY <1>4, <2>1, OthersLeft, WriteLinks
<1>5. CASE Claim(u)
  <2>1. CASE Leave(u, "failed") /\ UNCHANGED <<rec, loop>>
    BY <1>2, <2>1
  <2>2. CASE /\ Write(t, [rec[t] EXCEPT !.status = "checking"])
             /\ GoTo(u, "check") /\ UNCHANGED <<job, found, copy, loop>>
    <3> DEFINE row == [rec[t] EXCEPT !.status = "checking"]
    <3>1. /\ row.status = "checking" /\ row.original = rec[t].original
          /\ row.pending = rec[t].pending /\ row.valid = rec[t].valid /\ row.locked = rec[t].locked
      BY <1>1 DEF Row
    <3>2. Write(t, row)
      BY <2>2
    <3> HIDE DEF row
    <3>3. Within(row)
      BY <1>1, <3>1 DEF Within, Lists
    <3>4. /\ pc'[u] = "check"
          /\ \A w \in Worker \ {u} :
                pc'[w] = pc[w] /\ job'[w] = job[w] /\ found'[w] = found[w] /\ copy'[w] = copy[w]
      BY <2>2, MovesAlone
    <3>5. job[u].links \subseteq rec[t].original
      BY <1>1, <1>5 DEF Claim, OwnLinks
    <3>6. OwnLinks(u)'
      BY <1>1, <2>2, <3>1, <3>2, <3>4, <3>5, WritesRow DEF OwnLinks
    <3> QED BY <2>2, <3>1, <3>2, <3>3, <3>4, <3>6, WriteLinks
  <2> QED BY <1>5, <2>1, <2>2, Zenon DEF Claim
<1>6. CASE Check(u)
  <2>1. \E done \in SUBSET Covered(job[u]) : \E v \in [done -> Verdict] :
            found' = [found EXCEPT ![u] = Collected(job[u], done, v)]
    BY <1>6, Zenon DEF Check
  <2>2. pc[u] = "check" /\ GoTo(u, "get") /\ UNCHANGED <<rec, job, copy, loop>>
    BY <1>6, Zenon DEF Check
  <2>3. job[u] \in Job
    BY DEF TypeOK
  <2>5. PICK f : /\ found' = [found EXCEPT ![u] = f]
                 /\ f.kept \cup Lists(f) \subseteq job[u].links
    BY <2>1, <2>3, CollectedLinks
  <2>6. /\ pc'[u] = "get" /\ found'[u] = f
        /\ \A w \in Worker \ {u} :
              pc'[w] = pc[w] /\ job'[w] = job[w] /\ found'[w] = found[w] /\ copy'[w] = copy[w]
    BY <2>2, <2>5 DEF TypeOK, GoTo
  <2>7. OwnLinks(u)'
    BY <1>1, <2>2, <2>5, <2>6 DEF OwnLinks, Lists
  <2> QED BY <2>2, <2>6, <2>7, SameRowLinks
<1>7. CASE Get(u)
  BY <1>2, <1>3, <1>7, Zenon DEF Get
<1>8. ASSUME pc[u] \in {"save", "restore"}, NEW status, status # "absent"
      PROVE  LET row == ResultRow(t, found[u], status)
             IN Within(row) /\ row.original = rec[t].original /\ row.status # "absent"
  BY <1>8, ResultRowLinks
<1>9. CASE Save(u)
  <2> DEFINE row == ResultRow(t, found[u], StatusAfter(found[u]))
  <2>1. pc[u] = "save" /\ loop' = loop
    BY <1>9 DEF Save
  <2>2. StatusAfter(found[u]) # "absent"
    BY DEF StatusAfter
  <2>3. Within(row) /\ row.original = rec[t].original /\ row.status # "absent"
    BY <1>8, <2>1, <2>2
  <2>4. CASE Write(t, row) /\ Leave(u, "done")
    <3> HIDE DEF row
    <3> QED BY <1>4, <2>1, <2>3, <2>4
  <2>5. CASE Write(t, row) /\ GoTo(u, "upsert") /\ UNCHANGED <<job, found, copy>>
    <3> HIDE DEF row
    <3>1. /\ pc'[u] = "upsert"
          /\ \A w \in Worker \ {u} :
                pc'[w] = pc[w] /\ job'[w] = job[w] /\ found'[w] = found[w] /\ copy'[w] = copy[w]
      BY <2>5, MovesAlone
    <3> QED BY <2>1, <2>3, <2>5, <3>1, LeftOwn, WriteLinks
  <2>6. CASE UNCHANGED rec /\ Leave(u, "failed")
    BY <1>2, <2>1, <2>6
  <2>7. CASE UNCHANGED rec /\ GoTo(u, "restore") /\ UNCHANGED <<job, found, copy>>
    BY <1>3, <2>1, <2>7
  <2> QED BY <1>9, <2>4, <2>5, <2>6, <2>7, Zenon DEF Save
<1>10. CASE Restore(u)
  <2>1. pc[u] = "restore" /\ loop' = loop /\ Leave(u, "failed")
    BY <1>10 DEF Restore
  <2>2. CASE UNCHANGED rec
    BY <1>2, <2>1, <2>2
  <2>3. CASE Write(t, ResultRow(t, found[u], "pending"))
    BY <1>4, <1>8, <2>1, <2>3
  <2> QED BY <1>10, <2>2, <2>3 DEF Restore
<1>11. CASE Upsert(u)
  BY <1>2, <1>11, Zenon DEF Upsert
<1>12. CASE Panic(u)
  BY <1>2, <1>3, <1>12, Zenon DEF Panic
<1>13. CASE Recover(u)
  <2>1. UNCHANGED <<rec, loop>>
    BY <1>13 DEF Recover
  <2>2. CASE Leave(u, "failed")
    BY <1>2, <2>1, <2>2
  <2>3. CASE GoTo(u, "put back") /\ copy' = [copy EXCEPT ![u] = rec[t]] /\ UNCHANGED <<job, found>>
    <3>1. /\ pc'[u] = "put back" /\ copy'[u] = rec[t]
          /\ \A w \in Worker \ {u} :
                pc'[w] = pc[w] /\ job'[w] = job[w] /\ found'[w] = found[w] /\ copy'[w] = copy[w]
      BY <2>3 DEF TypeOK, GoTo
    <3>2. OwnLinks(u)'
      BY <1>1, <2>1, <3>1 DEF OwnLinks, Within, Lists
    <3> QED BY <2>1, <3>1, <3>2, SameRowLinks
  <2> QED BY <1>13, <2>2, <2>3, Zenon DEF Recover
<1>14. CASE PutBack(u)
  <2> DEFINE row == [copy[u] EXCEPT !.status = "pending"]
  <2>1. loop' = loop /\ Leave(u, "failed")
    BY <1>14 DEF PutBack
  <2>2. CASE UNCHANGED rec
    BY <1>2, <2>1, <2>2
  <2>3. CASE Write(t, row)
    <3>1. Within(copy[u]) /\ copy[u].original = rec[t].original /\ copy[u] \in Row
      BY <1>1, <1>14 DEF PutBack, OwnLinks, TypeOK
    <3>2. Within(row) /\ row.original = rec[t].original /\ row.status = "pending"
      BY <3>1 DEF Within, Lists, Row
    <3> HIDE DEF row
    <3> QED BY <1>4, <2>1, <2>3, <3>2
  <2> QED BY <1>14, <2>2, <2>3 DEF PutBack
<1> QED BY <1>5, <1>6, <1>7, <1>9, <1>10, <1>11, <1>12, <1>13, <1>14 DEF Pass

\* The background checker, the administrator and the end of the process.
LEMMA LoopLinks ==
    ASSUME TypeOK, LockInv, LinksInv, Background \/ ClearRateLimited \/ Crash
    PROVE  LinksInv' /\ \A s \in Sub : Stays(s)
<1>1. ASSUME UNCHANGED <<rec, pc, job, found, copy>>,
             \A e \in loop'.batch : e.links \subseteq rec[e.sub].original,
             \A s \in loop'.sub : Within(loop'.row) /\ loop'.row.original = rec[s].original
      PROVE  LinksInv' /\ \A s \in Sub : Stays(s)
  <2>1. \A s \in Sub : Stays(s)
    BY <1>1 DEF Stays
  <2>2. \A w \in Worker : OwnLinks(w)'
    BY <1>1, <2>1, OwnFrame, Workers
  <2> QED BY <1>1, <2>1, <2>2 DEF LinksInv, Within, Lists
<1>2. CASE Scan
  <2>1. UNCHANGED <<rec, pc, job, found, copy>>
    BY <1>2 DEF Scan
  <2>2. loop'.sub = loop.sub /\ loop'.row = loop.row
    BY <1>2 DEF Scan, TypeOK
  <2>3. CASE UNCHANGED loop
    BY <1>1, <2>1, <2>3 DEF LinksInv
  <2>4. ASSUME NEW B \in SUBSET Pending,
               loop' = [loop EXCEPT !.batch = {[sub |-> s, links |-> rec[s].pending] : s \in B}]
        PROVE  LinksInv' /\ \A s \in Sub : Stays(s)
    <3>1. loop'.batch = {[sub |-> s, links |-> rec[s].pending] : s \in B}
      BY <2>4 DEF TypeOK
    <3>2. \A s \in B : rec[s].pending \subseteq rec[s].original
      BY DEF LinksInv, Within, Pending
    <3> QED BY <1>1, <2>1, <2>2, <3>1, <3>2 DEF LinksInv
  <2> QED BY <1>2, <2>3, <2>4 DEF Scan
<1>3. CASE Spawn
  <2>1. PICK e \in loop.batch, u \in Worker :
          /\ Target(u) = e.sub /\ ~ IsCaller(u)
          /\ GoTo(u, "claim")
          /\ job' = [job EXCEPT ![u] = [NoJob EXCEPT !.links = e.links]]
          /\ loop' = [loop EXCEPT !.batch = @ \ {e}]
    BY <1>3 DEF Spawn
  <2>2. UNCHANGED <<rec, found, copy>>
    BY <1>3 DEF Spawn
  <2>3. /\ pc'[u] = "claim" /\ job'[u].links = e.links
        /\ \A w \in Worker \ {u} : pc'[w] = pc[w] /\ job'[w] = job[w]
    BY <2>1 DEF TypeOK, GoTo, NoJob
  <2>4. loop'.batch \subseteq loop.batch /\ loop'.sub = loop.sub /\ loop'.row = loop.row
    BY <2>1 DEF TypeOK
  <2>5. \A s \in Sub : Stays(s)
    BY <2>2 DEF Stays
  <2>6. OwnLinks(u)'
    BY <2>1, <2>2, <2>3 DEF OwnLinks, LinksInv
  <2>7. \A w \in Worker : OwnLinks(w)'
    BY <2>2, <2>3, <2>5, <2>6, OwnFrame, Workers
  <2>8. \A e2 \in loop'.batch : e2.links \subseteq rec'[e2.sub].original
    BY <2>2, <2>4 DEF LinksInv
  <2>9. \A s \in loop'.sub : Within(loop'.row) /\ loop'.row.original = rec'[s].original
    BY <2>2, <2>4 DEF LinksInv
  <2> QED BY <2>2, <2>5, <2>7, <2>8, <2>9 DEF LinksInv, Within, Lists
<1>4. CASE FinishRead
  <2>1. UNCHANGED <<rec, pc, job, found, copy>> /\ loop'.batch \subseteq loop.batch
    BY <1>4 DEF FinishRead, TypeOK
  <2>2. \/ loop'.sub = loop.sub /\ loop'.row = loop.row
        \/ \E s \in Sub : loop'.sub = {s} /\ loop'.row = rec[s]
    BY <1>4 DEF FinishRead, TypeOK, Entry
  <2> QED BY <1>1, <2>1, <2>2 DEF LinksInv
<1>5. CASE FinishSave
  <2>1. /\ loop'.batch = loop.batch /\ loop'.sub = {}
        /\ UNCHANGED <<pc, job, found, copy>>
    BY <1>5 DEF FinishSave, TypeOK
  <2>2. \A s \in Sub : \/ rec'[s] = rec[s]
                       \/ /\ Within(rec'[s]) /\ rec'[s].original = rec[s].original
                          /\ rec'[s].status = "checked"
    <3>1. CASE UNCHANGED rec
      BY <3>1
    <3>2. ASSUME NEW s \in loop.sub,
                 Write(s, [loop.row EXCEPT !.status = "checked", !.pending = {}])
          PROVE  \A r \in Sub : \/ rec'[r] = rec[r]
                                \/ /\ Within(rec'[r]) /\ rec'[r].original = rec[r].original
                                   /\ rec'[r].status = "checked"
      <4> DEFINE row == [loop.row EXCEPT !.status = "checked", !.pending = {}]
      <4>1. s \in Sub /\ loop.row \in Row /\ Within(loop.row)
            /\ loop.row.original = rec[s].original
        BY DEF TypeOK, LinksInv
      <4>2. Within(row) /\ row.original = rec[s].original /\ row.status = "checked"
        BY <4>1 DEF Within, Lists, Row
      <4>3. Write(s, row)
        BY <3>2
      <4> HIDE DEF row
      <4> QED BY <4>1, <4>2, <4>3, WritesRow
    <3> QED BY <1>5, <3>1, <3>2 DEF FinishSave
  <2>3. \A s \in Sub : Stays(s)
    BY <2>2 DEF Stays
  <2>4. \A w \in Worker : OwnLinks(w)'
    BY <2>1, <2>3, OwnFrame, Workers
  <2>5. \A s \in Sub : Within(rec'[s]) /\ (rec'[s].status = "absent" => rec'[s].original = {})
    BY <2>2 DEF LinksInv
  <2>6. \A e \in loop'.batch : e.links \subseteq rec'[e.sub].original
    BY <2>1, <2>2 DEF LinksInv, TypeOK, Entry
  <2> QED BY <2>1, <2>3, <2>4, <2>5, <2>6 DEF LinksInv, Within, Lists
<1>6. CASE ClearRateLimited
  BY <1>1, <1>6 DEF ClearRateLimited, LinksInv
<1>7. CASE Crash
  <2>1. /\ \A w \in Worker : pc'[w] \in {"idle", "done", "failed"}
        /\ loop'.batch = {} /\ loop'.sub = {} /\ rec' = rec
    BY <1>7 DEF Crash
  <2>2. \A w \in Worker : OwnLinks(w)'
    BY <2>1, LeftOwn
  <2> QED BY <2>1, <2>2 DEF LinksInv, Stays, Within, Lists
<1> QED BY <1>2, <1>3, <1>4, <1>5, <1>6, <1>7 DEF Background

\* Steps that have nothing to do with the rows.
LEMMA SameLinks ==
    ASSUME LinksInv, UNCHANGED <<rec, pc, job, found, copy, loop>>
    PROVE  LinksInv' /\ \A s \in Sub : Stays(s)
<1>1. \A w \in Worker : OwnLinks(w)'
  BY DEF LinksInv, OwnLinks, Within, Lists
<1> QED BY <1>1 DEF LinksInv, Within, Lists, Stays

LEMMA NextLinks ==
    ASSUME TypeOK, LockInv, LinksInv, Next
    PROVE  LinksInv' /\ \A s \in Sub : Stays(s)
<1>1. ASSUME NEW s \in Sub, Settle(s)
      PROVE  LinksInv' /\ \A t \in Sub : Stays(t)
  BY <1>1, SameLinks DEF Settle
<1> QED BY <1>1, SubmitLinks, CreateLinks, PassLinks, LoopLinks DEF Next

LEMMA LinksHold == Spec => []LinksInv
<1>1. Init => LinksInv
  BY DEF Init, LinksInv, OwnLinks, Within, Lists, NoRow, Working
<1>2. LinksInv /\ UNCHANGED vars => LinksInv'
  BY SameLinks DEF vars
<1>3. TypeOK /\ LockInv /\ LinksInv /\ [Next]_vars => LinksInv'
  BY <1>2, NextLinks
<1> QED BY <1>1, <1>3, TypeCorrect, LockHolds, PTL DEF Spec

\* A row's lists are made of the links of its submission, whatever fails and
\* however old the copies are that goroutines write (checker_service.go:252-263).
THEOREM RowsOfTheirLinks == Spec => []OnlySubmittedLinks
<1>1. LinksInv => OnlySubmittedLinks
  BY DEF LinksInv, OnlySubmittedLinks, Within, Lists
<1> QED BY <1>1, LinksHold, PTL

\* No writer changes what a client has submitted, also after faults: a row is
\* only ever written from itself or from a copy with the same links.
THEOREM SubmittedLinksKept == Spec => SubmittedLinksStay
<1>1. TypeOK /\ LockInv /\ LinksInv /\ [Next]_vars =>
          \A s \in Sub : rec[s].status # "absent" => rec'[s].original = rec[s].original
  BY NextLinks DEF vars, Stays
<1>2. TypeOK /\ LockInv /\ LinksInv /\ [Next]_vars =>
          [\A s \in Sub : rec[s].status # "absent" => rec'[s].original = rec[s].original]_vars
  BY <1>1
<1> QED BY <1>2, TypeCorrect, LockHolds, LinksHold, PTL DEF Spec, SubmittedLinksStay

===============================================================================
