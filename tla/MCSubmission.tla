----------------------------- MODULE MCSubmission -----------------------------
(***************************************************************************)
(* Submission on small instances: two platforms, a link of each and one    *)
(* nobody recognises.                                                      *)
(***************************************************************************)
EXTENDS Submission, TLC

CONSTANTS a, b, u, p, q, other

MCPlatformOf == [l \in {a, b, u} |-> IF l = a THEN p ELSE IF l = b THEN q ELSE other]

Web(platforms) == [task |-> FALSE, sel |-> platforms]
Task == [task |-> TRUE, sel |-> {}]

\* Requests that detect all platforms or none ...
NoneOrAll == {Web({}), Web({p, q}), Task}
\* ... those that detect some, and one of each kind.
SelectP == {Web({p})}
AllPlatforms == {Web({p, q})}
Every == NoneOrAll \cup SelectP

SymmetricSubs == Permutations(Sub)
===============================================================================
