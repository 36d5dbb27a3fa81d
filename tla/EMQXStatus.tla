----------------------------- MODULE EMQXStatus -----------------------------
(***************************************************************************)
(* The conditions of an EMQX resource and the state machine over them      *)
(* (apis/apps/v2beta1/status.go, controllers/apps/v2beta1/                  *)
(* status_machine.go).                                                     *)
(*                                                                         *)
(* The code keeps a list of conditions sorted by the time each was last    *)
(* set, newest first, and sets every condition with status True.  The      *)
(* machine's current state is the type at the head of that list.  A value  *)
(* of Conditions keeps what the code reads of the list: the set of types   *)
(* it holds and the type set last.  No handler removes the condition it    *)
(* set last, so the type set last is the head of the list.                 *)
(***************************************************************************)

CondTypes == {"Initialized", "CoreNodesProgressing", "CoreNodesReady",
              "ReplicantNodesProgressing", "ReplicantNodesReady",
              "Available", "Ready"}

NoCond == "none"

Conditions == [held : SUBSET CondTypes, last : CondTypes \cup {NoCond}]

NoConditions == [held |-> {}, last |-> NoCond]

SetCondition(c, t) == [held |-> c.held \cup {t}, last |-> t]

RemoveConditions(c, T) == [c EXCEPT !.held = @ \ T]

IsConditionTrue(c, t) == t \in c.held

GetLastTrueCondition(c) == c.last

-----------------------------------------------------------------------------
(***************************************************************************)
(* One operator per state of the machine.  o is what the state reads of    *)
(* the rest of the world:                                                  *)
(*   existRepl  the resource asks for replicant nodes                      *)
(*   coreReady  all pods of the update StatefulSet that the spec asks for  *)
(*              are ready, and there is one                                *)
(*   replReady  the same for the update ReplicaSet                         *)
(*   settled    as many nodes run as the status asks for, and no node set  *)
(*              has a current revision other than its update revision      *)
(*   coreLost   the update StatefulSet has other than the asked number of  *)
(*              ready pods; replLost the same for the update ReplicaSet    *)
(***************************************************************************)
Observations == [existRepl : BOOLEAN, coreReady : BOOLEAN, replReady : BOOLEAN,
                 settled : BOOLEAN, coreLost : BOOLEAN, replLost : BOOLEAN]

initialized(c) ==
    SetCondition(
        RemoveConditions(c, {"Ready", "Available", "ReplicantNodesReady",
                             "ReplicantNodesProgressing", "CoreNodesReady",
                             "CoreNodesProgressing"}),
        "CoreNodesProgressing")

coreNodesProgressing(c, o) ==
    IF o.coreReady THEN SetCondition(c, "CoreNodesReady") ELSE c

coreNodesReady(c, o) ==
    SetCondition(c, IF o.existRepl THEN "ReplicantNodesProgressing"
                                   ELSE "Available")

replicantNodesProgressing(c, o) ==
    CASE ~o.existRepl -> initialized(c)
      [] o.existRepl /\ o.replReady -> SetCondition(c, "ReplicantNodesReady")
      [] OTHER -> c

replicantNodesReady(c, o) ==
    IF o.existRepl THEN SetCondition(c, "Available") ELSE initialized(c)

available(c, o) ==
    IF o.settled THEN SetCondition(c, "Ready") ELSE c

ready(c, o) ==
    CASE o.coreLost -> initialized(c)
      [] ~o.coreLost /\ o.existRepl /\ o.replLost ->
            SetCondition(
                RemoveConditions(c, {"Ready", "Available",
                                     "ReplicantNodesReady"}),
                "ReplicantNodesProgressing")
      [] OTHER -> c

\* newEMQXStatusMachine(...).NextStatus: a resource with no condition is
\* first marked Initialized.
NextStatus(c, o) ==
    LET d == IF GetLastTrueCondition(c) = NoCond
             THEN SetCondition(c, "Initialized") ELSE c
    IN  CASE d.last = "CoreNodesProgressing" -> coreNodesProgressing(d, o)
          [] d.last = "CoreNodesReady" -> coreNodesReady(d, o)
          [] d.last = "ReplicantNodesProgressing" ->
                replicantNodesProgressing(d, o)
          [] d.last = "ReplicantNodesReady" -> replicantNodesReady(d, o)
          [] d.last = "Available" -> available(d, o)
          [] d.last = "Ready" -> ready(d, o)
          [] OTHER -> initialized(d)

=============================================================================
