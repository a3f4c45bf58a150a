----------------------------- MODULE MCLinkCheck -------------------------------
(***************************************************************************)
(* LinkCheck on small instances: one link, of every shape in turn.         *)
(***************************************************************************)
EXTENDS LinkCheck

\* Short links are Quark's, and stand for its other links without a passcode.
\* A 115 link without a passcode stands for the malformed, but for Baidu's, which
\* is found malformed at another place.
EveryShape ==
    {s \in Shape : /\ ~ s.wellFormed => s.platform = "baidu" /\ ~ s.passcode
                   /\ s.short <=> s.platform = "quark" /\ ~ s.passcode
                   /\ s.passcode => s.platform \in {"quark", "baidu", "tianyi", "pan115"}}

\* Valid results of mobile cloud links are kept for two ticks, those of the
\* others for the default.
TTLs == [f \in Platform |-> IF f = "cmcc" THEN 2 ELSE 0]
===============================================================================
