---------------------------- MODULE SettingsProofs -----------------------------
(***************************************************************************)
(* Theorems about Settings, for any platforms, numbers of requests and     *)
(* passes, values of rows and any default and upper bound.                 *)
(***************************************************************************)
EXTENDS Settings, TLAPS

---------------------------------------------------------------------------
(* Types. *)

LEMMA RowsType ==
    /\ NoRow \in Row
    /\ \A row \in Row : Made(row) \in Checker
    /\ Off \in Checker
  <1>1. NoRow \in Row
    BY DEF NoRow, Row
  <1>2. ASSUME NEW row \in Row PROVE Made(row) \in Checker
    <2>1. RateConfig(row) \in Row /\ RateConfig(row).kind \in {"none", "config"}
      BY <1>1, ConfigAssumption DEF RateConfig, NoRow, Row
    <2>2. RateConfig(row).concurrency \in Int
      BY <2>1 DEF Row
    <2> QED
      BY <2>1, <2>2, ConfigAssumption DEF Made, Checker
  <1> QED
    BY <1>1, <1>2 DEF Off

LEMMA SubmittedType == Submitted \subseteq Row /\ Raw \subseteq Row
  BY ConfigAssumption DEF Config

LEMMA NoRequestType == NoRequest \in Request
  BY RowsType DEF NoRequest, Request, Steps

LEMMA SpoiledType ==
    ASSUME admin \in [Admin -> Request]
    PROVE  Spoiled \in [Admin -> Request]
  BY DEF Spoiled, Request

LEMMA InitType == Init => TypeOK
  <1> SUFFICES ASSUME Init PROVE TypeOK
    OBVIOUS
  <1>1. admin \in [Admin -> Request]
    BY NoRequestType DEF Init
  <1>2. table \in [Platform -> Row] /\ factory \in [Platform -> Checker]
    BY RowsType DEF Init
  <1>3. NoPass \in [step : {"idle", "look", "check"}, at : SUBSET Platform, limit : Int]
    BY DEF NoPass
  <1> HIDE DEF NoPass, NoRequest
  <1> QED
    BY <1>1, <1>2, <1>3 DEF Init, TypeOK

\* A request as Put lets it begin.
LEMMA OpenedType ==
    ASSUME NEW F \in SUBSET Platform, NEW want \in [F -> Submitted]
    PROVE  Opened(F, want) \in Request
  <1>1. [f \in Platform |-> IF f \in F THEN want[f] ELSE NoRow] \in [Platform -> Row]
    BY RowsType, SubmittedType
  <1>2. (Active = {}) \in BOOLEAN
    OBVIOUS
  <1> HIDE DEF Active
  <1> QED
    BY <1>1, <1>2, RowsType DEF Opened, NoRequest, Request, Steps

LEMMA PutType == ASSUME TypeOK, NEW a \in Admin, Put(a) PROVE TypeOK'
  <1>1. PICK F \in SUBSET Platform : \E want \in [F -> Submitted] :
          \/ /\ admin' = [Spoiled EXCEPT ![a] = Opened(F, want)]
             /\ dirty' = (dirty \/ Active # {})
          \/ UNCHANGED <<admin, dirty>>
    BY DEF Put
  <1>2. Spoiled \in [Admin -> Request]
    BY SpoiledType DEF TypeOK
  <1> HIDE DEF Spoiled, Active
  <1>3. admin' \in [Admin -> Request]
    BY <1>1, <1>2, OpenedType DEF TypeOK
  <1>4. dirty' \in BOOLEAN
    BY <1>1 DEF TypeOK
  <1> QED
    BY <1>3, <1>4 DEF Put, TypeOK

LEMMA SaveType == ASSUME TypeOK, NEW a \in Admin, Save(a) PROVE TypeOK'
  <1>1. admin[a] \in Request /\ admin[a].want \in [Platform -> Row] /\ admin[a].todo \subseteq Platform
    BY DEF TypeOK, Request
  <1>2. ASSUME NEW f \in admin[a].todo,
               table' = [table EXCEPT ![f] = admin[a].want[f]],
               Set(a, [admin[a] EXCEPT !.todo = @ \ {f}, !.want[f] = NoRow]),
               UNCHANGED dirty
        PROVE  TypeOK'
    <2>1. [admin[a] EXCEPT !.todo = @ \ {f}, !.want[f] = NoRow] \in Request
      BY <1>1, RowsType DEF Request
    <2>2. table' \in [Platform -> Row]
      BY <1>1, <1>2 DEF TypeOK
    <2> QED
      BY <1>2, <2>1, <2>2 DEF Set, TypeOK, Save
  <1>3. CASE Set(a, NoRequest) /\ dirty' = TRUE /\ UNCHANGED table
    BY <1>3, NoRequestType DEF Set, TypeOK, Save
  <1> QED
    BY <1>2, <1>3 DEF Save

LEMMA ReadType == ASSUME TypeOK, NEW a \in Admin, Read(a) PROVE TypeOK'
  <1>1. PICK f \in admin[a].todo :
          \/ /\ Set(a, [admin[a] EXCEPT !.step = "register", !.at = {f}, !.made = Made(table[f])])
             /\ UNCHANGED dirty
          \/ /\ Set(a, [admin[a] EXCEPT !.step = "register", !.at = {f}, !.made = Off,
                                        !.clean = FALSE])
             /\ dirty' = TRUE
    BY DEF Read
  <1>2. f \in Platform /\ table[f] \in Row /\ admin[a] \in Request
    BY DEF TypeOK, Request
  <1>3. [admin[a] EXCEPT !.step = "register", !.at = {f}, !.made = Made(table[f])] \in Request
    BY <1>2, RowsType DEF Request, Steps
  <1>4. [admin[a] EXCEPT !.step = "register", !.at = {f}, !.made = Off, !.clean = FALSE] \in Request
    BY <1>2, RowsType DEF Request, Steps
  <1> QED
    BY <1>1, <1>3, <1>4 DEF Set, TypeOK, Read

LEMMA RegisterType == ASSUME TypeOK, NEW a \in Admin, Register(a) PROVE TypeOK'
  <1>1. admin[a] \in Request
    BY DEF TypeOK
  <1>2. [admin[a] EXCEPT !.step = "read", !.todo = @ \ admin[a].at, !.at = {}, !.made = Off] \in Request
    BY <1>1, RowsType DEF Request, Steps
  <1>3. factory' \in [Platform -> Checker]
    BY <1>1 DEF Register, Registered, TypeOK, Request
  <1> QED
    BY <1>2, <1>3 DEF Register, Set, TypeOK

LEMMA StartType == ASSUME TypeOK, Start PROVE TypeOK'
  <1>1. PICK F \in SUBSET Platform :
          /\ factory' = [f \in Platform |-> IF f \in F THEN Off ELSE Made(table[f])]
          /\ dirty' = (F # {})
    BY DEF Start
  <1>2. factory' \in [Platform -> Checker] /\ dirty' \in BOOLEAN
    BY <1>1, RowsType DEF TypeOK
  <1> QED
    BY <1>2, NoRequestType DEF Start, TypeOK, NoPass

LEMMA NextType == TypeOK /\ [Next]_vars => TypeOK'
  <1> SUFFICES ASSUME TypeOK, [Next]_vars PROVE TypeOK'
    OBVIOUS
  <1>1. ASSUME NEW a \in Admin, Reload(a) PROVE TypeOK'
    <2>1. [admin[a] EXCEPT !.step = "read", !.todo = Platform] \in Request
      <3>1. admin[a] \in Request
        BY DEF TypeOK
      <3> QED
        BY <3>1 DEF Request, Steps
    <2> QED
      BY <1>1, <2>1 DEF Reload, Set, TypeOK
  <1>2. ASSUME NEW a \in Admin, Answer(a) PROVE TypeOK'
    <2>1. admin[a].clean \in BOOLEAN
      BY DEF TypeOK, Request
    <2> QED
      BY <1>2, <2>1, NoRequestType DEF Answer, Set, TypeOK
  <1>3. CASE UpdateSetting
    BY <1>3, SpoiledType, SubmittedType DEF UpdateSetting, TypeOK
  <1>4. ASSUME NEW p \in Pass, Begin(p) \/ Look(p) \/ End(p) PROVE TypeOK'
    <2>1. CASE Begin(p)
      <3>1. PICK f \in Platform :
               pass' = [pass EXCEPT ![p] = [step |-> "look", at |-> {f}, limit |-> 0]]
        BY <2>1 DEF Begin
      <3>2. {f} \in SUBSET Platform
        OBVIOUS
      <3> QED
        BY <2>1, <3>1, <3>2 DEF Begin, TypeOK
    <2>2. CASE Look(p)
      <3>1. \A i \in Int : Slots(i) \in Int
        BY DEF Slots
      <3>2. PICK f \in pass[p].at : pass' = [pass EXCEPT ![p] =
               [step |-> "check", at |-> {}, limit |-> Slots(factory[f].limit)]]
        BY <2>2 DEF Look
      <3>3. factory[f].limit \in Int
        BY <3>2 DEF TypeOK, Checker
      <3> QED
        BY <2>2, <3>1, <3>2, <3>3 DEF Look, TypeOK
    <2>3. CASE End(p)
      BY <2>3 DEF End, NoPass, TypeOK
    <2> QED
      BY <1>4, <2>1, <2>2, <2>3
  <1>5. CASE UNCHANGED vars
    BY <1>5 DEF vars, TypeOK
  <1> QED
    BY <1>1, <1>2, <1>3, <1>4, <1>5, PutType, SaveType, ReadType, RegisterType, StartType
       DEF Next

\* Whatever is written by either endpoint, the rows, the checkers, the requests
\* and the passes keep their types; a checker is never made of part of a row.
THEOREM TypeCorrect == Spec => []TypeOK
  BY InitType, NextType, PTL DEF Spec

---------------------------------------------------------------------------
(* The checkers and the table. *)

\* A clean request is alone, and whatever it has done with already is in line.
Clean ==
    \A a \in Admin : admin[a].clean =>
        /\ Active = {a}
        /\ admin[a].step \in {"read", "register"} =>
              \A f \in Platform \ admin[a].todo : factory[f] = Made(table[f])
        /\ admin[a].step = "register" =>
              admin[a].at \subseteq admin[a].todo
                /\ \A f \in admin[a].at : admin[a].made = Made(table[f])

LineInv == TypeOK /\ Clean /\ InForce

LEMMA InitLine == Init => Clean /\ InForce
  BY DEF Init, Clean, InForce, NoRequest, Off

\* A clean request that has moved on by a step of its own.
LEMMA OwnStep ==
    ASSUME TypeOK, TypeOK', Clean, NEW a \in Admin, NEW request \in Request,
           admin[a].step # "idle", request.step # "idle", Set(a, request),
           request.clean => admin[a].clean,
           request.clean =>
             /\ request.step \in {"read", "register"} =>
                   \A f \in Platform \ request.todo : factory'[f] = Made(table'[f])
             /\ request.step = "register" =>
                   request.at \subseteq request.todo
                     /\ \A f \in request.at : request.made = Made(table'[f])
    PROVE  Clean' /\ InForce'
  <1>1. /\ admin'[a] = request
        /\ \A b \in Admin : b # a => admin'[b] = admin[b]
    BY DEF Set, TypeOK
  <1>2. Active' = Active /\ a \in Active
    BY <1>1 DEF Active
  <1>3. \A b \in Admin : admin[b].clean => b = a
    BY <1>2 DEF Clean
  <1>4. Clean'
    <2> SUFFICES ASSUME NEW b \in Admin, admin'[b].clean
                 PROVE  /\ Active' = {b}
                        /\ admin'[b].step \in {"read", "register"} =>
                              \A f \in Platform \ admin'[b].todo : factory'[f] = Made(table'[f])
                        /\ admin'[b].step = "register" =>
                              admin'[b].at \subseteq admin'[b].todo
                                /\ \A f \in admin'[b].at : admin'[b].made = Made(table'[f])
      BY DEF Clean
    <2>1. b = a
      BY <1>1, <1>3
    <2>2. Active = {a}
      BY <1>1, <2>1 DEF Clean
    <2> QED
      BY <1>1, <1>2, <2>1, <2>2
  <1>5. InForce'
    BY <1>2 DEF InForce
  <1> QED
    BY <1>4, <1>5

\* Nobody is clean any more.
LEMMA NobodyClean ==
    ASSUME \A a \in Admin : ~ admin'[a].clean, dirty' \/ Active' # {}
    PROVE  Clean' /\ InForce'
  BY DEF Clean, InForce

\* Request a ends; nothing is in line but what it leaves so.
LEMMA LeavesStep ==
    ASSUME TypeOK, Clean, NEW a \in Admin, admin[a].step # "idle", Set(a, NoRequest),
           dirty' \/ \A f \in Platform : factory'[f] = Made(table'[f])
    PROVE  Clean' /\ InForce'
  <1>1. \A b \in Admin : admin[b].clean => b = a
    BY DEF Clean, Active
  <1>2. \A b \in Admin : ~ admin'[b].clean
    BY <1>1 DEF Set, NoRequest, TypeOK
  <1> QED
    BY <1>2 DEF Clean, InForce

LEMMA NextLine == LineInv /\ [Next]_vars => (Clean /\ InForce)'
  <1> SUFFICES ASSUME LineInv, [Next]_vars PROVE (Clean /\ InForce)'
    OBVIOUS
  <1> USE DEF LineInv
  <1>0. TypeOK'
    BY NextType
  <1>1. ASSUME NEW a \in Admin, Put(a) PROVE (Clean /\ InForce)'
    <2>1. PICK F \in SUBSET Platform : \E want \in [F -> Submitted] :
            \/ /\ admin' = [Spoiled EXCEPT ![a] = Opened(F, want)]
               /\ dirty' = (dirty \/ Active # {})
            \/ UNCHANGED <<admin, dirty>>
      BY <1>1 DEF Put
    <2>2. ASSUME NEW want \in [F -> Submitted],
                 admin' = [Spoiled EXCEPT ![a] = Opened(F, want)], dirty' = (dirty \/ Active # {})
          PROVE  (Clean /\ InForce)'
      <3>1. /\ admin'[a].step = "save" /\ admin'[a].clean = (Active = {})
            /\ \A b \in Admin \ {a} : ~ admin'[b].clean /\ admin'[b].step = admin[b].step
        BY <2>2 DEF Spoiled, Opened, NoRequest, TypeOK, Request
      <3>2. a \in Active'
        BY <3>1 DEF Active
      <3>3. CASE Active = {}
        <4>1. Active' = {a}
          BY <3>1, <3>3 DEF Active
        <4> QED
          BY <3>1, <4>1 DEF Clean, InForce
      <3>4. CASE Active # {}
        BY <3>1, <3>2, <3>4, NobodyClean
      <3> QED
        BY <3>3, <3>4
    <2>3. CASE UNCHANGED <<admin, dirty>>
      BY <1>1, <2>3 DEF Put, Clean, InForce, Active
    <2> QED
      BY <2>1, <2>2, <2>3
  <1>2. ASSUME NEW a \in Admin, Save(a) PROVE (Clean /\ InForce)'
    <2>1. ASSUME NEW f \in admin[a].todo, table' = [table EXCEPT ![f] = admin[a].want[f]],
                 Set(a, [admin[a] EXCEPT !.todo = @ \ {f}, !.want[f] = NoRow])
          PROVE  (Clean /\ InForce)'
      <3> DEFINE request == [admin[a] EXCEPT !.todo = @ \ {f}, !.want[f] = NoRow]
      <3>1. admin[a] \in Request /\ admin[a].step = "save"
        BY <1>2 DEF Save, TypeOK
      <3>2. request \in Request /\ request.step = "save" /\ request.clean = admin[a].clean
        BY <3>1, RowsType DEF Request
      <3> HIDE DEF request
      <3> QED
        BY <1>0, <2>1, <3>1, <3>2, OwnStep DEF request
    <2>2. CASE Set(a, NoRequest) /\ dirty' = TRUE
      BY <1>2, <2>2, LeavesStep DEF Save
    <2> QED
      BY <1>2, <2>1, <2>2 DEF Save
  <1>3. ASSUME NEW a \in Admin, Reload(a) PROVE (Clean /\ InForce)'
    <2> DEFINE request == [admin[a] EXCEPT !.step = "read", !.todo = Platform]
    <2>1. admin[a] \in Request /\ admin[a].step = "save" /\ Set(a, request)
      BY <1>3 DEF Reload, TypeOK
    <2>2. /\ request \in Request /\ request.step = "read" /\ request.clean = admin[a].clean
          /\ request.todo = Platform
      BY <2>1 DEF Request, Steps
    <2> HIDE DEF request
    <2> QED
      BY <1>0, <2>1, <2>2, OwnStep
  <1>4. ASSUME NEW a \in Admin, Read(a) PROVE (Clean /\ InForce)'
    <2>0. admin[a] \in Request /\ admin[a].step = "read" /\ UNCHANGED <<table, factory>>
      BY <1>4 DEF Read, TypeOK
    <2>1. ASSUME NEW f \in admin[a].todo,
                 Set(a, [admin[a] EXCEPT !.step = "register", !.at = {f}, !.made = Made(table[f])])
          PROVE  (Clean /\ InForce)'
      <3> DEFINE request == [admin[a] EXCEPT !.step = "register", !.at = {f},
                                             !.made = Made(table[f])]
      <3>1. table[f] \in Row /\ f \in Platform
        BY <2>0 DEF TypeOK, Request
      <3>2. /\ request \in Request /\ request.step = "register" /\ request.at = {f}
            /\ request.made = Made(table[f]) /\ request.todo = admin[a].todo
            /\ request.clean = admin[a].clean
        BY <2>0, <3>1, RowsType DEF Request, Steps
      <3>3. Set(a, request)
        BY <2>1
      <3> HIDE DEF request
      <3>4. request.clean => \A g \in Platform \ request.todo : factory'[g] = Made(table'[g])
        BY <2>0, <3>2 DEF Clean
      <3>5. request.at \subseteq request.todo
              /\ \A g \in request.at : request.made = Made(table'[g])
        BY <2>0, <3>2
      <3> QED
        BY <1>0, <2>0, <3>2, <3>3, <3>4, <3>5, OwnStep
    <2>2. ASSUME NEW f \in admin[a].todo,
                 Set(a, [admin[a] EXCEPT !.step = "register", !.at = {f}, !.made = Off,
                                         !.clean = FALSE])
          PROVE  (Clean /\ InForce)'
      <3> DEFINE request == [admin[a] EXCEPT !.step = "register", !.at = {f}, !.made = Off,
                                             !.clean = FALSE]
      <3>1. f \in Platform
        BY <2>0 DEF Request
      <3>2. request \in Request /\ request.step = "register" /\ ~ request.clean
        BY <2>0, <3>1, RowsType DEF Request, Steps
      <3>3. Set(a, request)
        BY <2>2
      <3> HIDE DEF request
      <3> QED
        BY <1>0, <2>0, <3>2, <3>3, OwnStep
    <2> QED
      BY <1>4, <2>1, <2>2 DEF Read
  <1>5. ASSUME NEW a \in Admin, Register(a) PROVE (Clean /\ InForce)'
    <2> DEFINE request == [admin[a] EXCEPT !.step = "read", !.todo = @ \ admin[a].at, !.at = {},
                                           !.made = Off]
    <2>1. admin[a] \in Request /\ admin[a].step = "register" /\ Set(a, request)
          /\ UNCHANGED table
      BY <1>5 DEF Register, TypeOK
    <2>2. /\ request \in Request /\ request.step = "read" /\ request.clean = admin[a].clean
          /\ request.todo = admin[a].todo \ admin[a].at
      BY <2>1, RowsType DEF Request, Steps
    <2> HIDE DEF request
    <2>3. ASSUME request.clean, NEW f \in Platform \ request.todo
          PROVE  factory'[f] = Made(table'[f])
      <3>1. factory'[f] = IF f \in admin[a].at THEN admin[a].made ELSE factory[f]
        BY <1>5 DEF Register, Registered
      <3>2. CASE f \in admin[a].at
        BY <2>1, <2>2, <2>3, <3>1, <3>2 DEF Clean
      <3>3. CASE f \notin admin[a].at
        <4>1. f \in Platform \ admin[a].todo
          BY <2>2, <3>3
        <4> QED
          BY <2>1, <2>2, <2>3, <3>1, <3>3, <4>1 DEF Clean
      <3> QED
        BY <3>2, <3>3
    <2> QED
      BY <1>0, <2>1, <2>2, <2>3, OwnStep
  <1>6. ASSUME NEW a \in Admin, Answer(a) PROVE (Clean /\ InForce)'
    <2>1. /\ admin[a].step = "read" /\ admin[a].todo = {} /\ Set(a, NoRequest)
          /\ dirty' = ~ admin[a].clean /\ UNCHANGED <<table, factory>>
      BY <1>6 DEF Answer
    <2>2. admin[a].clean => \A f \in Platform : factory'[f] = Made(table'[f])
      BY <2>1 DEF Clean
    <2>3. dirty' \/ \A f \in Platform : factory'[f] = Made(table'[f])
      BY <2>1, <2>2
    <2> QED
      BY <2>1, <2>3, LeavesStep
  <1>7. CASE UpdateSetting
    <2>1. \A a \in Admin : ~ admin'[a].clean
      BY <1>7 DEF UpdateSetting, Spoiled, TypeOK, Request
    <2> QED
      BY <1>7, <2>1, NobodyClean DEF UpdateSetting
  <1>8. ASSUME NEW p \in Pass, Begin(p) \/ Look(p) \/ End(p) PROVE (Clean /\ InForce)'
    BY <1>8 DEF Begin, Look, End, Clean, InForce, Active
  <1>9. CASE Start
    <2>1. PICK F \in SUBSET Platform :
            /\ factory' = [f \in Platform |-> IF f \in F THEN Off ELSE Made(table[f])]
            /\ dirty' = (F # {})
      BY <1>9 DEF Start
    <2>2. \A a \in Admin : ~ admin'[a].clean
      BY <1>9 DEF Start, NoRequest
    <2>3. dirty' \/ \A f \in Platform : factory'[f] = Made(table'[f])
      BY <1>9, <2>1 DEF Start
    <2> QED
      BY <2>2, <2>3 DEF Clean, InForce
  <1>10. CASE UNCHANGED vars
    BY <1>10 DEF vars, Clean, InForce, Active
  <1> QED
    BY <1>1, <1>2, <1>3, <1>4, <1>5, <1>6, <1>7, <1>8, <1>9, <1>10 DEF Next

\* After a save that ran through undisturbed, or a start that could read every
\* row, the checkers are those of the table, whatever had parted them before.
THEOREM InForceAfterSave == Spec => []InForce
  <1>1. Init => LineInv
    BY InitType, InitLine DEF LineInv
  <1>2. LineInv /\ [Next]_vars => LineInv'
    BY NextType, NextLine DEF LineInv
  <1>3. LineInv => InForce
    BY DEF LineInv
  <1> QED
    BY <1>1, <1>2, <1>3, PTL DEF Spec

---------------------------------------------------------------------------
(* Limits and flags. *)

\* What a checker or a pass may have as its limit: more than a save accepts only
\* if it has been written past the validation, or is in the file.
Allowed(n) == n > MaxConcurrency => excess \/ DefaultConcurrency > MaxConcurrency

\* Where a row comes from: nobody has written it, a save has, which validates it,
\* or the other endpoint.
Validated(row) == row = NoRow \/ (row \in Submitted /\ Accepted(row))
Known(row) == Validated(row) \/ (row \in Raw /\ (row.concurrency > MaxConcurrency => excess))

LimitInv ==
    /\ \A f \in Platform : Known(table[f]) /\ Allowed(factory[f].limit)
    /\ \A a \in Admin : /\ Allowed(admin[a].made.limit)
                         /\ \A f \in Platform : Validated(admin[a].want[f])
    /\ SemaphoreUsable

LEMMA MadeAllowed ==
    /\ \A row \in Row : Known(row) => Allowed(Made(row).limit)
    /\ Validated(NoRow) /\ Allowed(Off.limit)
    /\ NoRequest.made = Off /\ \A f \in Platform : NoRequest.want[f] = NoRow
  <1>1. Allowed(DefaultConcurrency)
    BY DEF Allowed
  <1>2. ASSUME NEW row \in Row, Known(row) PROVE Allowed(Made(row).limit)
    <2>1. CASE row.kind = "config" /\ row.concurrency > 0
      <3>1. Made(row).limit = row.concurrency
        BY <2>1 DEF Made, RateConfig
      <3>2. row # NoRow
        BY <2>1 DEF NoRow
      <3>3. Allowed(row.concurrency)
        BY <1>2, <3>2, ConfigAssumption DEF Known, Validated, Accepted, Allowed
      <3> QED
        BY <3>1, <3>3
    <2>2. CASE ~ (row.kind = "config" /\ row.concurrency > 0)
      <3>1. Made(row).limit = DefaultConcurrency
        BY <2>2 DEF Made, RateConfig, NoRow
      <3> QED
        BY <1>1, <3>1
    <2> QED
      BY <2>1, <2>2
  <1>3. Validated(NoRow)
    BY DEF Validated
  <1> QED
    BY <1>2, <1>3, RowsType DEF Off, NoRequest, Known

LEMMA InitLimits == Init => LimitInv
  BY MadeAllowed DEF Init, LimitInv, SemaphoreUsable, NoPass, Known

LEMMA NextLimits == TypeOK /\ LimitInv /\ [Next]_vars => LimitInv'
  <1> SUFFICES ASSUME TypeOK, LimitInv, [Next]_vars PROVE LimitInv'
    OBVIOUS
  <1> DEFINE Requests == \A a \in Admin : /\ Allowed(admin[a].made.limit)
                                          /\ \A f \in Platform : Validated(admin[a].want[f])
             Rows == \A f \in Platform : Known(table[f])
             Factory == \A f \in Platform : Allowed(factory[f].limit)
  <1>0. Requests /\ Rows /\ Factory /\ SemaphoreUsable
    BY DEF LimitInv
  <1>q. Requests' /\ Rows' /\ Factory' /\ SemaphoreUsable' => LimitInv'
    BY DEF LimitInv
  <1>e. excess => excess'
    BY DEF Next, Put, Save, Reload, Read, Register, Answer, UpdateSetting, Begin, Look, End, Start,
           vars
  <1>m. \A n : Allowed(n) => Allowed(n)'
    BY <1>e DEF Allowed
  <1>p. UNCHANGED pass => SemaphoreUsable'
    BY <1>0, <1>e DEF SemaphoreUsable
  <1>r. UNCHANGED table => Rows'
    BY <1>0, <1>e DEF Known
  <1>f. UNCHANGED factory => Factory'
    BY <1>0, <1>m
  <1>v. (\A b \in Admin : /\ Allowed(admin'[b].made.limit)
                          /\ \A f \in Platform : Validated(admin'[b].want[f])) => Requests'
    BY <1>m DEF Validated
  <1>s. ASSUME NEW a \in Admin, NEW request, Set(a, request), Allowed(request.made.limit),
               \A f \in Platform : Validated(request.want[f])
        PROVE  Requests'
    <2>1. \A b \in Admin : admin'[b] = IF b = a THEN request ELSE admin[b]
      BY <1>s DEF Set, TypeOK
    <2>2. ASSUME NEW b \in Admin
          PROVE  /\ Allowed(admin'[b].made.limit)
                 /\ \A f \in Platform : Validated(admin'[b].want[f])
      BY <1>0, <1>s, <2>1
    <2> QED
      BY <1>v, <2>2
  <1>u. UNCHANGED admin => Requests'
    <2>1. ASSUME UNCHANGED admin, NEW b \in Admin
          PROVE  /\ Allowed(admin'[b].made.limit)
                 /\ \A f \in Platform : Validated(admin'[b].want[f])
      BY <1>0, <2>1
    <2> QED
      BY <1>v, <2>1
  <1> HIDE DEF Requests
  <1>1. ASSUME NEW a \in Admin, Put(a) PROVE LimitInv'
    <2>1. Requests'
      <3>1. PICK F \in SUBSET Platform : \E want \in [F -> Submitted] :
               \/ /\ admin' = [Spoiled EXCEPT ![a] = Opened(F, want)]
                  /\ \A f \in F : Accepted(want[f])
               \/ UNCHANGED admin
        BY <1>1 DEF Put
      <3>2. ASSUME NEW want \in [F -> Submitted],
                   admin' = [Spoiled EXCEPT ![a] = Opened(F, want)],
                   \A f \in F : Accepted(want[f])
            PROVE  Requests'
        <4>1. /\ admin'[a].made = Off
              /\ \A f \in Platform : admin'[a].want[f] = IF f \in F THEN want[f] ELSE NoRow
              /\ \A b \in Admin \ {a} : /\ admin'[b].made = admin[b].made
                                       /\ admin'[b].want = admin[b].want
          BY <3>2 DEF Spoiled, Opened, NoRequest, TypeOK, Request
        <4>2. \A f \in Platform : Validated(admin'[a].want[f])
          BY <3>2, <4>1, MadeAllowed DEF Validated
        <4>3. ASSUME NEW b \in Admin
              PROVE  /\ Allowed(admin'[b].made.limit)
                     /\ \A f \in Platform : Validated(admin'[b].want[f])
          BY <1>0, <4>1, <4>2, MadeAllowed DEF Requests
        <4> QED
          BY <1>v, <4>3
      <3> QED
        BY <1>u, <3>1, <3>2
    <2> QED
      BY <1>1, <1>f, <1>p, <1>q, <1>r, <2>1 DEF Put
  <1>2. ASSUME NEW a \in Admin, Save(a) PROVE LimitInv'
    <2>0. admin[a] \in Request /\ UNCHANGED <<factory, pass>>
      BY <1>2 DEF Save, TypeOK
    <2>1. ASSUME NEW f \in admin[a].todo, table' = [table EXCEPT ![f] = admin[a].want[f]],
                 Set(a, [admin[a] EXCEPT !.todo = @ \ {f}, !.want[f] = NoRow])
          PROVE  LimitInv'
      <3> DEFINE request == [admin[a] EXCEPT !.todo = @ \ {f}, !.want[f] = NoRow]
      <3>1. /\ request.made = admin[a].made
            /\ \A g \in Platform : request.want[g] = IF g = f THEN NoRow ELSE admin[a].want[g]
        BY <2>0 DEF Request
      <3>2. Set(a, request)
        BY <2>1
      <3> HIDE DEF request
      <3>3. Requests'
        BY <1>0, <1>s, <3>1, <3>2, MadeAllowed DEF Requests
      <3>4. Rows'
        <4>1. f \in Platform /\ Validated(admin[a].want[f])
          BY <1>0, <2>0 DEF Requests, Request
        <4>2. \A g \in Platform : table'[g] = IF g = f THEN admin[a].want[f] ELSE table[g]
          BY <2>1 DEF TypeOK
        <4> QED
          BY <1>0, <1>e, <4>1, <4>2 DEF Known
      <3> QED
        BY <1>f, <1>p, <1>q, <2>0, <3>3, <3>4
    <2>2. CASE Set(a, NoRequest) /\ UNCHANGED table
      BY <1>f, <1>p, <1>q, <1>r, <1>s, <2>0, <2>2, MadeAllowed
    <2> QED
      BY <1>2, <2>1, <2>2 DEF Save
  <1>3. ASSUME NEW a \in Admin, Reload(a) PROVE LimitInv'
    <2> DEFINE request == [admin[a] EXCEPT !.step = "read", !.todo = Platform]
    <2>1. Set(a, request) /\ request.made = admin[a].made /\ request.want = admin[a].want
      BY <1>3 DEF Reload, TypeOK, Request
    <2> HIDE DEF request
    <2>2. Requests'
      BY <1>0, <1>s, <2>1 DEF Requests
    <2> QED
      BY <1>3, <1>f, <1>p, <1>q, <1>r, <2>2 DEF Reload
  <1>4. ASSUME NEW a \in Admin, Read(a) PROVE LimitInv'
    <2>1. PICK f \in admin[a].todo :
            \/ Set(a, [admin[a] EXCEPT !.step = "register", !.at = {f}, !.made = Made(table[f])])
            \/ Set(a, [admin[a] EXCEPT !.step = "register", !.at = {f}, !.made = Off,
                                       !.clean = FALSE])
      BY <1>4 DEF Read
    <2>2. admin[a] \in Request /\ f \in Platform /\ table[f] \in Row
      BY DEF TypeOK, Request
    <2>3. Allowed(Made(table[f]).limit)
      BY <1>0, <2>2, MadeAllowed
    <2>4. ASSUME NEW made, Allowed(made.limit), NEW clean,
                 Set(a, [admin[a] EXCEPT !.step = "register", !.at = {f}, !.made = made,
                                         !.clean = clean])
          PROVE  Requests'
      <3> DEFINE request == [admin[a] EXCEPT !.step = "register", !.at = {f}, !.made = made,
                                             !.clean = clean]
      <3>1. Set(a, request) /\ request.made = made /\ request.want = admin[a].want
        BY <2>2, <2>4 DEF Request
      <3> HIDE DEF request
      <3> QED
        BY <1>0, <1>s, <2>4, <3>1 DEF Requests
    <2>5. Requests'
      <3>1. [admin[a] EXCEPT !.step = "register", !.at = {f}, !.made = Made(table[f])]
              = [admin[a] EXCEPT !.step = "register", !.at = {f}, !.made = Made(table[f]),
                                 !.clean = admin[a].clean]
        BY <2>2 DEF Request
      <3> QED
        BY <2>1, <2>3, <2>4, <3>1, MadeAllowed
    <2> QED
      BY <1>4, <1>f, <1>p, <1>q, <1>r, <2>5 DEF Read
  <1>5. ASSUME NEW a \in Admin, Register(a) PROVE LimitInv'
    <2> DEFINE request == [admin[a] EXCEPT !.step = "read", !.todo = @ \ admin[a].at, !.at = {},
                                           !.made = Off]
    <2>1. Set(a, request) /\ request.made = Off /\ request.want = admin[a].want
      BY <1>5 DEF Register, TypeOK, Request
    <2> HIDE DEF request
    <2>2. Requests'
      BY <1>0, <1>s, <2>1, MadeAllowed DEF Requests
    <2>3. Factory'
      <3>1. \A f \in Platform : factory'[f] = admin[a].made \/ factory'[f] = factory[f]
        BY <1>5 DEF Register, Registered
      <3>2. \A f \in Platform : Allowed(factory'[f].limit)
        BY <1>0, <3>1 DEF Requests
      <3> QED
        BY <1>m, <3>2
    <2> QED
      BY <1>5, <1>p, <1>q, <1>r, <2>2, <2>3 DEF Register
  <1>6. ASSUME NEW a \in Admin, Answer(a) PROVE LimitInv'
    <2>1. Requests'
      BY <1>6, <1>s, MadeAllowed DEF Answer
    <2> QED
      BY <1>6, <1>f, <1>p, <1>q, <1>r, <2>1 DEF Answer
  <1>7. CASE UpdateSetting
    <2>1. Requests'
      <3>1. \A a \in Admin : admin'[a].made = admin[a].made /\ admin'[a].want = admin[a].want
        BY <1>7 DEF UpdateSetting, Spoiled, TypeOK, Request
      <3>2. ASSUME NEW a \in Admin
            PROVE  /\ Allowed(admin'[a].made.limit)
                   /\ \A f \in Platform : Validated(admin'[a].want[f])
        BY <1>0, <3>1 DEF Requests
      <3> QED
        BY <1>v, <3>2
    <2>2. Rows'
      <3>1. PICK f \in Platform, row \in Raw :
              /\ table' = [table EXCEPT ![f] = row]
              /\ excess' = (excess \/ row.concurrency > MaxConcurrency)
        BY <1>7 DEF UpdateSetting
      <3>2. \A g \in Platform : table'[g] = IF g = f THEN row ELSE table[g]
        BY <3>1 DEF TypeOK
      <3> QED
        BY <1>0, <1>e, <3>1, <3>2 DEF Known
    <2> QED
      BY <1>7, <1>f, <1>p, <1>q, <2>1, <2>2 DEF UpdateSetting
  <1>8. ASSUME NEW p \in Pass, Begin(p) \/ Look(p) \/ End(p) PROVE LimitInv'
    <2>1. UNCHANGED <<table, factory, admin, excess>>
      BY <1>8 DEF Begin, Look, End
    <2>0. SemaphoreUsable' => LimitInv'
      BY <1>f, <1>q, <1>r, <1>u, <2>1
    <2>2. CASE Look(p)
      <3>1. PICK f \in pass[p].at :
              pass' = [pass EXCEPT ![p] =
                         [step |-> "check", at |-> {}, limit |-> Slots(factory[f].limit)]]
        BY <2>2 DEF Look
      <3>2. Allowed(factory[f].limit) /\ factory[f].limit \in Int
        BY <1>0, <3>1 DEF TypeOK, Checker
      <3>3. Slots(factory[f].limit) >= 1 /\ Allowed(Slots(factory[f].limit))
        BY <3>2, ConfigAssumption DEF Slots, Allowed
      <3>4. SemaphoreUsable'
        BY <1>0, <1>e, <3>1, <3>3 DEF SemaphoreUsable, Allowed, TypeOK
      <3> QED
        BY <2>0, <3>4
    <2>3. CASE Begin(p) \/ End(p)
      <3>1. /\ pass'[p].step # "check"
            /\ \A q \in Pass : q # p => pass'[q] = pass[q]
        BY <2>3 DEF Begin, End, NoPass, TypeOK
      <3>2. SemaphoreUsable'
        BY <1>0, <1>e, <3>1 DEF SemaphoreUsable
      <3> QED
        BY <2>0, <3>2
    <2> QED
      BY <1>8, <2>2, <2>3
  <1>9. CASE Start
    <2>1. Requests'
      <3>1. ASSUME NEW a \in Admin
            PROVE  /\ Allowed(admin'[a].made.limit)
                   /\ \A f \in Platform : Validated(admin'[a].want[f])
        BY <1>9, MadeAllowed DEF Start
      <3> QED
        BY <1>v, <3>1
    <2>2. Factory'
      <3>1. \A f \in Platform : factory'[f] = Off \/ factory'[f] = Made(table[f])
        BY <1>9 DEF Start
      <3>2. \A f \in Platform : Allowed(factory'[f].limit)
        BY <1>0, <3>1, MadeAllowed DEF TypeOK
      <3> QED
        BY <1>m, <3>2
    <2>3. SemaphoreUsable'
      BY <1>9 DEF Start, NoPass, SemaphoreUsable
    <2> QED
      BY <1>9, <1>q, <1>r, <2>1, <2>2, <2>3 DEF Start
  <1>10. CASE UNCHANGED vars
    BY <1>10, <1>f, <1>p, <1>q, <1>r, <1>u DEF vars
  <1> QED
    BY <1>1, <1>2, <1>3, <1>4, <1>5, <1>6, <1>7, <1>8, <1>9, <1>10 DEF Next

\* No pass gets a semaphore of no slots, whatever the rows, the default and the
\* time at which it took its checker; and unless the configuration file or a
\* write past the validation says so, none gets more slots than a save accepts.
THEOREM SemaphoreAlwaysUsable == Spec => []SemaphoreUsable
  <1>1. Init => TypeOK /\ LimitInv
    BY InitType, InitLimits
  <1>2. TypeOK /\ LimitInv /\ [Next]_vars => (TypeOK /\ LimitInv)'
    BY NextType, NextLimits
  <1>3. LimitInv => SemaphoreUsable
    BY DEF LimitInv
  <1> QED
    BY <1>1, <1>2, <1>3, PTL DEF Spec

\* Where the page and the passes disagree on a platform, the other endpoint has
\* written its row, and only the flag of it can be read: no save, in whatever
\* order and however it fails, makes them disagree.
THEOREM ShownAlwaysUsed == Spec => []ShownIsUsed
  <1>1. Init => TypeOK /\ LimitInv
    BY InitType, InitLimits
  <1>2. TypeOK /\ LimitInv /\ [Next]_vars => (TypeOK /\ LimitInv)'
    BY NextType, NextLimits
  <1>3. TypeOK /\ LimitInv => ShownIsUsed
    <2> SUFFICES ASSUME TypeOK, LimitInv, NEW f \in Platform,
                        ShownEnabled(table[f]) # Enabled(table[f])
                 PROVE  table[f] \in Raw /\ table[f].kind = "mixed"
      BY DEF ShownIsUsed
    <2>1. table[f].kind = "mixed"
      BY DEF TypeOK, Row, ShownEnabled, Enabled
    <2>2. table[f] # NoRow /\ table[f] \notin Submitted
      BY <2>1, ConfigAssumption DEF NoRow, Config
    <2> QED
      BY <2>1, <2>2 DEF LimitInv, Known, Validated
  <1> QED
    BY <1>1, <1>2, <1>3, PTL DEF Spec
===============================================================================
