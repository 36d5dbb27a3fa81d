---------------------------- MODULE MCEnterprise ----------------------------
(***************************************************************************)
(* Instances of EmqxEnterprise for TLC.                                    *)
(***************************************************************************)
EXTENDS EmqxEnterprise

CONSTANTS tA, tB

SpecOf(t, n, bg) == [tpl |-> t, n |-> n, bg |-> bg]

SpecA == SpecOf(tA, 2, FALSE)
NewTemplates == {SpecOf(tB, 2, TRUE), SpecOf(tA, 2, TRUE)}

\* Ordinals below ten: the order of the names is the order of the ordinals.
ByOrdinal == [i \in 1..MaxReplicas |-> i]
=============================================================================
