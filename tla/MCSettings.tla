------------------------------ MODULE MCSettings -------------------------------
(***************************************************************************)
(* Settings on small instances.                                            *)
(***************************************************************************)
EXTENDS Settings, TLC

Configured(enabled, concurrency) ==
    [kind |-> "config", enabled |-> enabled, concurrency |-> concurrency]

\* One at the limit, which disables, and one above it.
SomeConfigs == {Configured("no", 5), Configured("yes", 6)}

\* Values written past the validation: a row older than the field enabled, with
\* no concurrency, one out of range, and an object that can be read in part.
RawValues == {Configured("absent", 0), Configured("yes", 7),
              [kind |-> "mixed", enabled |-> "no", concurrency |-> 0]}

Admins == Permutations(Admin)

\* default_concurrency of the configuration file is taken as it is unless 0.
Misconfigured == -1
===============================================================================
