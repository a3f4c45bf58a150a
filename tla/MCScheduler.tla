----------------------------- MODULE MCScheduler -------------------------------
(***************************************************************************)
(* Scheduler on small instances.                                           *)
(***************************************************************************)
EXTENDS Scheduler

CONSTANTS n, m, every, daily, bad

With(status, name, cron, destroyAt) ==
    [status |-> status, name |-> name, cron |-> cron, destroyAt |-> destroyAt]

\* A task that ends at 1, or one created without a status and with a malformed
\* expression.
OneTask == {With("active", n, every, 1), With(Zero, n, bad, Zero)}

\* A request that gives the task another time and another expression.
Postpone == {With(Zero, Zero, daily, 2)}

\* Two requests with the same name.
SameName == {With("active", n, every, Zero), With(Zero, n, daily, Zero)}

NoChanges == {}
===============================================================================
