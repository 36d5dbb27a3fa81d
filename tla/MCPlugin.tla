------------------------------- MODULE MCPlugin -------------------------------
(***************************************************************************)
(* Instances of EmqxPlugin for TLC.                                        *)
(***************************************************************************)
EXTENDS EmqxPlugin

CONSTANTS rule, mine, a1, b1, c0, c1

\* The default plugin of the first EMQX and one that the user makes, for the
\* same EMQX plugin, with a selector that matches every EMQX.
MCNames == [p \in Plugins |-> "emqx_rule_engine"]
MCMatches == [p \in Plugins |-> IF p = rule THEN {1} ELSE Emqxs]

\* Two EMQX resources with a node each, or one with two.
MCTwo == <<{a1}, {b1}>>
MCOne == <<{a1, b1}>>
=============================================================================
