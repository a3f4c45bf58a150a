------------------------------- MODULE Detection ------------------------------
(***************************************************************************)
(* What a detection pass is relied on for: it takes up a set of links,     *)
(* gives each of them one verdict its platform can give, or loses it, and  *)
(* ends when none is left, storing the invalid ones it has itself found    *)
(* (or failing to).  Known invalid links change in no other way, but for   *)
(* the administrator, who deletes the rate limited ones.                   *)
(***************************************************************************)
CONSTANTS
    Link,
    Pass        \* detection passes that may run at a time

VARIABLES
    possible,   \* the verdicts each link can get
    answer,     \* per pass and link: none, asked, a verdict, or lost
    table       \* the rows of invalid_links: none, dead, limited

Verdict == {"valid", "locked", "dead", "limited"}

Init ==
    /\ possible \in [Link -> SUBSET Verdict]
    /\ answer = [p \in Pass |-> [l \in Link |-> "none"]]
    /\ table = [l \in Link |-> "none"]

Idle(p) == \A l \in Link : answer[p][l] = "none"

Take(p) ==
    /\ Idle(p)
    /\ \E S \in SUBSET Link :
          answer' = [answer EXCEPT ![p] = [l \in Link |-> IF l \in S THEN "asked" ELSE "none"]]
    /\ UNCHANGED <<possible, table>>

Settle(p, l) ==
    /\ answer[p][l] = "asked"
    /\ \E v \in possible[l] : answer' = [answer EXCEPT ![p][l] = v]
    /\ UNCHANGED <<possible, table>>

\* Passes that share a check lose its link together.
Lose(l) ==
    /\ \E P \in SUBSET {p \in Pass : answer[p][l] = "asked"} :
          answer' = [p \in Pass |-> IF p \in P THEN [answer[p] EXCEPT ![l] = "lost"]
                                              ELSE answer[p]]
    /\ UNCHANGED <<possible, table>>

End(p) ==
    /\ \A l \in Link : answer[p][l] # "asked"
    /\ answer' = [answer EXCEPT ![p] = [l \in Link |-> "none"]]
    /\ \/ table' = [l \in Link |-> IF answer[p][l] \in {"dead", "limited"}
                                   THEN answer[p][l] ELSE table[l]]
       \/ UNCHANGED table
    /\ UNCHANGED possible

Clear ==
    /\ table' = [l \in Link |-> IF table[l] = "limited" THEN "none" ELSE table[l]]
    /\ UNCHANGED <<possible, answer>>

Crash ==
    /\ answer' = [p \in Pass |-> [l \in Link |-> "none"]]
    /\ UNCHANGED <<possible, table>>

Next ==
    \/ \E p \in Pass : Take(p) \/ End(p) \/ \E l \in Link : Settle(p, l)
    \/ \E l \in Link : Lose(l)
    \/ Clear \/ Crash

Spec == Init /\ [][Next]_<<possible, answer, table>>
===============================================================================
