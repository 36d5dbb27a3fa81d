----------------------------- MODULE MCReconcile -----------------------------
(* TLC instances of EMQXReconcile.                                         *)
EXTENDS EMQXReconcile

\* A spec with core nodes only, and one with replicant nodes of the same
\* template.
CoreSpec(t, n) == [tpl |-> [k \in Kinds |-> IF k = "core" THEN t ELSE NoTpl],
                   n |-> [k \in Kinds |-> IF k = "core" THEN n ELSE 0]]
ReplSpec(t, n, m) == [tpl |-> [k \in Kinds |-> t],
                      n |-> [k \in Kinds |-> IF k = "core" THEN n ELSE m]]

\* Two core nodes, then another template or another number of nodes.
MCTemplates == {"A", "B"}
MCDigest == [t \in MCTemplates |-> t]
MCCoreInit == CoreSpec("A", 2)
MCCoreEdits == <<{CoreSpec("A", 1), CoreSpec("B", 2)}>>

\* One core node, edited back and forth.
MCOneInit == CoreSpec("A", 1)
MCOneEdits == [i \in 1..MaxEdits |-> {CoreSpec("A", 1), CoreSpec("B", 1)}]

\* One core and one replicant node.
MCReplInit == ReplSpec("A", 1, 1)

\* Templates that follow each other and are never rolled back.
MCThree == {"A", "B", "C"}
MCThreeDigest == [t \in MCThree |-> t]
MCForward == <<{ReplSpec("B", 1, 1)}, {ReplSpec("C", 1, 1)}>>

\* B is A with another dashboard port: computeHash sees the same template.
MCSameDigest == [t \in MCTemplates |-> "A"]
MCPortEdit == <<{ReplSpec("B", 1, 1)}>>

\* The first edit of a Ready resource, the next one while the nodes of the
\* first are being brought up: the update is rolled back.
MCRollback == <<{CoreSpec("B", 1)}, {CoreSpec("A", 1)}>>
MCRollbackWhen == <<{"Ready"}, {"CoreNodesProgressing"}>>

\* Edits at any time, and edits of a resource that is done with the last one.
AnyCond == [i \in 1..MaxEdits |-> CondTypes \cup {NoCond}]
Calm == [i \in 1..MaxEdits |-> {"Available", "Ready"}]
=============================================================================
