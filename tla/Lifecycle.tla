------------------------------- MODULE Lifecycle -------------------------------
(***************************************************************************)
(* What the service promises for a submission, without saying who does it: *)
(* a submission waits with links to do, is worked on, may be handed back   *)
(* with some of them left, and finishes when none is left.                 *)
(***************************************************************************)
CONSTANTS Sub, Link

VARIABLES
    stage,      \* absent, waiting, working or finished
    todo        \* the links still to be checked

vars == <<stage, todo>>

Init ==
    /\ stage = [s \in Sub |-> "absent"]
    /\ todo = [s \in Sub |-> {}]

Move(s, to, links) ==
    /\ stage' = [stage EXCEPT ![s] = to]
    /\ todo' = [todo EXCEPT ![s] = links]

Arrive(s) == stage[s] = "absent" /\ \E links \in SUBSET Link : Move(s, "waiting", links)

Start(s) == stage[s] = "waiting" /\ Move(s, "working", todo[s])

\* Handing back: something is left, and nothing new is added.
HandBack(s) ==
    /\ stage[s] = "working"
    /\ \E left \in SUBSET todo[s] : left # {} /\ Move(s, "waiting", left)

Finish(s) ==
    /\ stage[s] = "working" \/ (stage[s] = "waiting" /\ todo[s] = {})
    /\ Move(s, "finished", {})

Next == \E s \in Sub : Arrive(s) \/ Start(s) \/ HandBack(s) \/ Finish(s)

Spec == Init /\ [][Next]_vars

===============================================================================
