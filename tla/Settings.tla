-------------------------------- MODULE Settings ------------------------------
(***************************************************************************)
(* The configuration of the platforms: the rows platform_rate_config_* of  *)
(* the table settings, the requests that save them platform by platform    *)
(* and then reload the checkers, the checkers in the factory, and the      *)
(* passes, which ask the table whether a platform is enabled and take its  *)
(* checker from the factory.                                               *)
(*                                                                         *)
(* Of a configuration the enabled flag and the concurrency are kept, which *)
(* stands for the other limits too.  The lifetime of cached results is read *)
(* from the same rows, but only when the server starts: see LinkCheck.     *)
(***************************************************************************)
EXTENDS Integers, FiniteSets

CONSTANTS
    Platform,
    Admin,              \* bound: PUT /settings/rate-config requests at a time
    Pass,               \* bound: detection passes at a time
    Submitted,          \* configurations requests carry
    Raw,                \* values PUT /settings/:key writes, as they are read
    DefaultConcurrency, \* CheckerConfig.DefaultConcurrency
    MaxConcurrency      \* 100, the most a save accepts

VARIABLES
    table,      \* the row of each platform
    factory,    \* the checker registered for each platform
    admin,      \* the save requests
    pass,       \* the detection passes, each at one platform
    dirty,      \* history: checkers may differ from the table, see below
    excess      \* history: PUT /settings/:key has written more than MaxConcurrency

vars == <<table, factory, admin, pass, dirty, excess>>

\* enabled: "absent" in rows older than the field; kind: no row, not JSON, an
\* object whose enabled can be read although the whole can not, a configuration.
Row == [kind : {"none", "garbled", "mixed", "config"}, enabled : {"yes", "no", "absent"},
        concurrency : Int]
Config == {row \in Row : row.kind = "config"}
NoRow == [kind |-> "none", enabled |-> "absent", concurrency |-> 0]

ASSUME ConfigAssumption ==
    /\ Submitted \subseteq {c \in Config : c.enabled # "absent"}
    /\ Raw \subseteq Row
    /\ DefaultConcurrency \in Int
    /\ MaxConcurrency \in Nat /\ MaxConcurrency >= 5

\* A checker by the row it was made from and its concurrencyLimit.
Checker == [row : {row \in Row : row.kind \in {"none", "config"}}, limit : Int]

Steps == {"idle", "save", "read", "register"}
Request == [step : Steps, want : [Platform -> Row], todo : SUBSET Platform,
            at : SUBSET Platform, made : Checker, clean : BOOLEAN]

(***************************************************************************)
(* Reading a row.                                                          *)
(***************************************************************************)

\* Mutant of RateConfig: what could be decoded of the row is used.
RateConfigInPart(row) ==
    IF row.kind \in {"config", "mixed"} THEN row
    ELSE [NoRow EXCEPT !.enabled = "yes", !.concurrency = DefaultConcurrency]

\* getRateConfig: the row as a PlatformRateConfig, else the default.
RateConfig(row) ==
    IF row.kind = "config" THEN row
    ELSE [NoRow EXCEPT !.enabled = "yes", !.concurrency = DefaultConcurrency]

\* A checker made from a configuration: registerChecker, then SetRateConfig.
Made(row) ==
    LET c == RateConfig(row).concurrency
    IN [row |-> RateConfig(row), limit |-> IF c > 0 THEN c ELSE DefaultConcurrency]

\* Mutant of Enabled: rows older than the field switch the platform off.
EnabledStrict(row) == row.kind \in {"none", "garbled"} \/ row.enabled = "yes"

\* loadPlatformEnabledMap: only a field that says so disables a platform.
Enabled(row) == row.kind \in {"none", "garbled"} \/ row.enabled # "no"

\* GetRateConfigSettings.
ShownEnabled(row) == row.kind # "config" \/ row.enabled # "no"

(***************************************************************************)
(* States.                                                                 *)
(***************************************************************************)
Off == Made(NoRow)
NoRequest == [step |-> "idle", want |-> [f \in Platform |-> NoRow], todo |-> {}, at |-> {},
              made |-> Off, clean |-> FALSE]
NoPass == [step |-> "idle", at |-> {}, limit |-> 0]

TypeOK ==
    /\ table \in [Platform -> Row]
    /\ factory \in [Platform -> Checker]
    /\ admin \in [Admin -> Request]
    /\ pass \in [Pass -> [step : {"idle", "look", "check"}, at : SUBSET Platform, limit : Int]]
    /\ dirty \in BOOLEAN
    /\ excess \in BOOLEAN

Init ==
    /\ table = [f \in Platform |-> NoRow]
    /\ factory = [f \in Platform |-> Off]
    /\ admin = [a \in Admin |-> NoRequest]
    /\ pass = [p \in Pass |-> NoPass]
    /\ dirty = FALSE
    /\ excess = FALSE

(***************************************************************************)
(* The history variable dirty is set by whatever may part the checkers     *)
(* from the table: a save that failed midway, a row written by the other   *)
(* endpoint, a read that failed, requests that overlap.  A request that    *)
(* runs through with none of these (clean) resets it, as does a start.     *)
(***************************************************************************)
Active == {a \in Admin : admin[a].step # "idle"}
Set(a, request) == admin' = [admin EXCEPT ![a] = request]

\* Nobody who is under way ends clean.
Spoiled == [a \in Admin |-> [admin[a] EXCEPT !.clean = FALSE]]

(***************************************************************************)
(* PUT /settings/rate-config.                                              *)
(***************************************************************************)

\* Mutant of Accepted: no upper bound.
AcceptedAny(c) == c.concurrency >= 1

Accepted(c) == c.concurrency \in 1 .. MaxConcurrency

Opened(F, want) ==
    [NoRequest EXCEPT !.step = "save", !.todo = F, !.clean = (Active = {}),
        !.want = [f \in Platform |-> IF f \in F THEN want[f] ELSE NoRow]]

\* All configurations of the request are validated before any is saved.
Put(a) ==
    /\ admin[a].step = "idle"
    /\ \E F \in SUBSET Platform : \E want \in [F -> Submitted] :
          IF \A f \in F : Accepted(want[f])
          THEN /\ admin' = [Spoiled EXCEPT ![a] = Opened(F, want)]
               /\ dirty' = (dirty \/ Active # {})
          ELSE UNCHANGED <<admin, dirty>>
    /\ UNCHANGED <<table, factory, pass, excess>>

\* Save the next platform, in any order (Go's of a map).  A failure answers the
\* request, and leaves what was saved before, without a reload.
Save(a) ==
    /\ admin[a].step = "save" /\ admin[a].todo # {}
    /\ \/ \E f \in admin[a].todo :
            /\ table' = [table EXCEPT ![f] = admin[a].want[f]]
            /\ Set(a, [admin[a] EXCEPT !.todo = @ \ {f}, !.want[f] = NoRow])
            /\ UNCHANGED dirty
       \/ /\ Set(a, NoRequest)
          /\ dirty' = TRUE
          /\ UNCHANGED table
    /\ UNCHANGED <<factory, pass, excess>>

\* initCheckers, for every platform, whatever the request was about.
Reload(a) ==
    /\ admin[a].step = "save" /\ admin[a].todo = {}
    /\ Set(a, [admin[a] EXCEPT !.step = "read", !.todo = Platform])
    /\ UNCHANGED <<table, factory, pass, dirty, excess>>

\* Read a row and make a checker of it; a read that fails is not told from a
\* row that is not there.
Read(a) ==
    /\ admin[a].step = "read" /\ admin[a].todo # {}
    /\ \E f \in admin[a].todo :
         \/ /\ Set(a, [admin[a] EXCEPT !.step = "register", !.at = {f}, !.made = Made(table[f])])
            /\ UNCHANGED dirty
         \/ /\ Set(a, [admin[a] EXCEPT !.step = "register", !.at = {f}, !.made = Off,
                                       !.clean = FALSE])
            /\ dirty' = TRUE
    /\ UNCHANGED <<table, factory, pass, excess>>

\* Mutant of Registered: a platform keeps the checker it has.
RegisteredOnce(f, made, at) == factory[f]

Registered(f, made, at) == IF f \in at THEN made ELSE factory[f]

Register(a) ==
    /\ admin[a].step = "register"
    /\ factory' = [f \in Platform |-> Registered(f, admin[a].made, admin[a].at)]
    /\ Set(a, [admin[a] EXCEPT !.step = "read", !.todo = @ \ admin[a].at, !.at = {}, !.made = Off])
    /\ UNCHANGED <<table, pass, dirty, excess>>

\* "Saved, in force at once."
Answer(a) ==
    /\ admin[a].step = "read" /\ admin[a].todo = {}
    /\ Set(a, NoRequest)
    /\ dirty' = ~ admin[a].clean
    /\ UNCHANGED <<table, factory, pass, excess>>

(***************************************************************************)
(* The other endpoint, the passes, a start.                                *)
(***************************************************************************)

\* PUT /settings/:key: any value, no validation, no reload.
UpdateSetting ==
    /\ \E f \in Platform, row \in Raw :
          /\ table' = [table EXCEPT ![f] = row]
          /\ excess' = (excess \/ row.concurrency > MaxConcurrency)
    /\ admin' = Spoiled
    /\ dirty' = TRUE
    /\ UNCHANGED <<factory, pass>>

\* A pass reads whether the platform of its links is enabled; a read that
\* fails says it is.  Links of a platform that is not it reports valid without
\* a check, which is no step here.
Begin(p) ==
    /\ pass[p].step = "idle"
    /\ \E f \in Platform, failed \in BOOLEAN :
          /\ Enabled(table[f]) \/ failed
          /\ pass' = [pass EXCEPT ![p] = [step |-> "look", at |-> {f}, limit |-> 0]]
    /\ UNCHANGED <<table, factory, admin, dirty, excess>>

\* The capacity of the pass's semaphore.
Slots(limit) == IF limit <= 0 THEN 5 ELSE limit

\* GetChecker.
Look(p) ==
    /\ pass[p].step = "look"
    /\ \E f \in pass[p].at :
          pass' = [pass EXCEPT ![p] =
              [step |-> "check", at |-> {}, limit |-> Slots(factory[f].limit)]]
    /\ UNCHANGED <<table, factory, admin, dirty, excess>>

End(p) ==
    /\ pass[p].step = "check"
    /\ pass' = [pass EXCEPT ![p] = NoPass]
    /\ UNCHANGED <<table, factory, admin, dirty, excess>>

\* The server stops, or the Go runtime ends it because a pass was in the
\* factory's map while a reload registered a checker, and starts again.  It
\* reads every row; F: the reads that fail.
Start ==
    /\ \E F \in SUBSET Platform :
          /\ factory' = [f \in Platform |-> IF f \in F THEN Off ELSE Made(table[f])]
          /\ dirty' = (F # {})
    /\ admin' = [a \in Admin |-> NoRequest]
    /\ pass' = [p \in Pass |-> NoPass]
    /\ UNCHANGED <<table, excess>>

Next ==
    \/ \E a \in Admin : Put(a) \/ Save(a) \/ Reload(a) \/ Read(a) \/ Register(a) \/ Answer(a)
    \/ \E p \in Pass : Begin(p) \/ Look(p) \/ End(p)
    \/ UpdateSetting
    \/ Start

Spec == Init /\ [][Next]_vars

(***************************************************************************)
(* Properties.                                                             *)
(***************************************************************************)

\* A save that runs through undisturbed brings the checkers of all platforms in
\* line with the table, also of those that earlier failures, reads that failed,
\* the other endpoint or overlapping reloads had left behind.
InForce ==
    Active = {} /\ ~ dirty => \A f \in Platform : factory[f] = Made(table[f])

\* The semaphore of a pass always lets somebody in, whatever the rows, the other
\* endpoint and the configuration file hold and whichever checker the pass got.
\* More than a save accepts it lets in only if the configuration file says so or
\* the other endpoint, which does not validate, has ever written so: a row that
\* has been corrected since lives on in the checker until the reload, and in the
\* passes that took it.
SemaphoreUsable ==
    \A p \in Pass : pass[p].step = "check" =>
        /\ pass[p].limit >= 1
        /\ pass[p].limit > MaxConcurrency => excess \/ DefaultConcurrency > MaxConcurrency

\* What the settings page shows of a platform, enabled or not, is what passes
\* act on, also for rows older than the field, unless the row is one that the
\* other endpoint has written and of which only the flag can be read: of that
\* the page shows enabled, and the passes obey the flag.
ShownIsUsed ==
    \A f \in Platform :
        ShownEnabled(table[f]) # Enabled(table[f])
            => table[f] \in Raw /\ table[f].kind = "mixed"

===============================================================================
