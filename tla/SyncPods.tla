------------------------------ MODULE SyncPods ------------------------------
(***************************************************************************)
(* How syncPods empties the old node set of an EMQX v5 cluster             *)
(* (controllers/apps/v2beta1/sync_pods.go): one pod at a time, an          *)
(* Enterprise node only after its sessions were evacuated.  EMQXReconcile   *)
(* says which set is old and from when on; here the update set is           *)
(* available and the old set is a ReplicaSet of replicants or a             *)
(* StatefulSet of core nodes.                                              *)
(*                                                                         *)
(* The pods of the old set are numbered in the order of their names, and    *)
(* New stands for a node that is not of the old set.  Pods of the old set   *)
(* are out of the Services, so clients do not come to them by themselves.   *)
(***************************************************************************)
EXTENDS Integers, FiniteSets, FiniteSetsExt

CONSTANTS
    N,           \* pods of the old set
    MaxSessions, \* bound on the sessions of a node at the start
    MaxFaults,   \* bound on faults
    Faults,      \* the kinds of fault that may happen
    PromptSets,  \* TRUE: the ReplicaSet controller acts before the next pass
    AnyTarget    \* TRUE: EMQX takes any node when it is told none to move to;
                 \* FALSE: it refuses

\* A pass dies, a call to EMQX fails, a node restarts, or somebody else
\* evacuates a node that is not of the old set.
FaultKinds == {"pass", "call", "node", "foreign"}

ASSUME SyncPodsAssumption ==
    /\ N \in Nat \ {0} /\ MaxSessions \in Nat /\ MaxFaults \in Nat
    /\ Faults \subseteq FaultKinds /\ PromptSets \in BOOLEAN
    /\ AnyTarget \in BOOLEAN

VARIABLES
    kind, enterprise,        \* of the old set: "rs" or "sts"; its edition
    pods, term, cost, want,  \* the set: pods, those being deleted, those with
                             \* a deletion cost; spec.replicas
    up, sess, evac, loose,   \* the nodes: running, their sessions, their
                             \* evacuation; loose: not told where to
    delay,                   \* what the update strategy still waits for
    listed, nodes, first,    \* the status: the call for the nodes succeeded,
                             \* sessions of the nodes, the first evacuation
    pc, victim, seen,        \* the pass: its step, its pod, the set it read
    faults

setVars == <<kind, enterprise, pods, term, cost, want>>
nodeVars == <<up, sess, evac, loose>>
statusVars == <<listed, nodes, first>>
vars == <<setVars, nodeVars, delay, statusVars, pc, victim, seen, faults>>

Pods == 1 .. N
New == 0
Stages == {"none", "evicting", "prohibiting"}

TypeOK ==
    /\ kind \in {"rs", "sts"} /\ enterprise \in BOOLEAN
    /\ pods \subseteq Pods /\ term \subseteq pods /\ cost \subseteq pods
    /\ up \subseteq pods /\ want \in 0 .. N
    /\ sess \in [Pods -> 0 .. N * MaxSessions]
    /\ evac \in [Pods \cup {New} -> Stages] /\ loose \subseteq Pods
    /\ delay \in {"initial", "takeover", "none"}
    /\ listed \in BOOLEAN /\ DOMAIN nodes \subseteq Pods
    /\ first \in (Pods \cup {New}) \X Stages
    /\ pc \in {"nodes", "evacs", "sync", "annotate", "scale"}
    /\ victim \in Pods \cup {New} /\ faults \in 0 .. MaxFaults

Fault(f) == f \in Faults /\ faults < MaxFaults /\ faults' = faults + 1

\* The next pass begins with updateStatus.
EndPass == pc' = "nodes" /\ victim' = New /\ UNCHANGED seen

\* The set as a pass reads it: a write to it is refused when it has changed,
\* in its spec or in its status.
Version == <<want, Cardinality(pods \ term), Cardinality(pods)>>

-----------------------------------------------------------------------------
(* The set controllers.                                                    *)

Surplus == Cardinality(pods \ term) > want

\* The ReplicaSet controller takes a pod that is not running before one with
\* a deletion cost before any other.
RsDelete(p) ==
    /\ kind = "rs" /\ Surplus /\ p \in pods \ term
    /\ \A q \in pods \ term : \/ p \notin up
                              \/ /\ q \in up
                                 /\ p \in cost \/ q \notin cost

StsDelete(p) == kind = "sts" /\ Surplus /\ term = {} /\ p = Max(pods)

Deletable == {p \in pods : RsDelete(p) \/ StsDelete(p)}

-----------------------------------------------------------------------------
(* updateStatus.                                                           *)

\* getEMQXNodes.  When the call fails no nodes are listed.
updateStatusNodes ==
    /\ pc = "nodes" /\ pc' = "evacs"
    /\ (PromptSets /\ kind = "rs") => Deletable = {}
    /\ \/ /\ listed' = TRUE /\ nodes' = [p \in up |-> sess[p]]
          /\ UNCHANGED faults
       \/ Fault("call") /\ listed' = FALSE /\ nodes' = [p \in {} |-> 0]
    /\ UNCHANGED <<setVars, nodeVars, delay, first, victim, seen>>

NoEvacuation == <<New, "none">>
Evacuations == {e \in (DOMAIN evac) \X {"evicting", "prohibiting"} : evac[e[1]] = e[2]}

\* An Enterprise core node of the old set is listed.  While replicants are
\* replaced the core nodes of the old template are all there.
isEnterpriser == enterprise /\ listed /\ (kind = "sts" => DOMAIN nodes # {})

\* The evacuations are only asked for when isEnterpriser: when the nodes could
\* not be listed, the last answer stays.  When the call fails there are none.
updateStatusEvacs ==
    /\ pc = "evacs" /\ pc' = "sync" /\ seen' = Version
    /\ \/ /\ isEnterpriser /\ UNCHANGED faults
          /\ IF Evacuations = {} THEN first' = NoEvacuation
             ELSE first' \in Evacuations
       \/ isEnterpriser /\ Fault("call") /\ first' = NoEvacuation
       \/ ~isEnterpriser /\ UNCHANGED <<first, faults>>
    /\ UNCHANGED <<setVars, nodeVars, delay, listed, nodes, victim>>

-----------------------------------------------------------------------------
(* syncPods.                                                               *)

Wait == EndPass /\ UNCHANGED <<evac, loose, faults>>
Take(p, next) == pc' = next /\ victim' = p /\ UNCHANGED <<seen, evac, loose, faults>>

\* startEvacuationByAPI.  An evacuation that has begun is not an error.  When
\* the nodes could not be listed there are none to move the sessions to.
startEvacuationByAPI(p) ==
    LET begins == evac[p] = "none" /\ (listed \/ AnyTarget)
    IN  /\ EndPass
        /\ \/ /\ evac' = IF begins THEN [evac EXCEPT ![p] = "evicting"] ELSE evac
              /\ loose' = IF begins /\ ~listed THEN loose \cup {p} ELSE loose
              /\ UNCHANGED faults
           \/ Fault("call") /\ UNCHANGED <<evac, loose>>

\* A mutant: the sessions are not looked at.
RetireAtOnce(p, n, next) == IF delay = "takeover" THEN Wait ELSE Take(p, next)

\* What is done about a running node with this many sessions.
Retire(p, n, next) ==
    IF enterprise /\ n > 0 THEN startEvacuationByAPI(p)
    ELSE IF delay = "takeover" THEN Wait
    ELSE Take(p, next)

\* A mutant: a node whose evacuation has begun is passed over.
NextPodIdle ==
    LET idle == {p \in pods : evac[p] = "none"}
    IN  IF idle = {} THEN Max(pods) ELSE Max(idle)

\* PodsByNameOlder puts the greatest name first.
NextPod == Max(pods)

\* The pod of the node that was evacuated.  When the list of nodes, or the
\* old set, does not have it, shouldDeletePodInfo is nil and the process dies.
canBeScaleDownRsEvacuated ==
    IF first[1] \in DOMAIN nodes \cap pods
    THEN Retire(first[1], nodes[first[1]], "annotate")
    ELSE Wait

\* getEMQXNodeInfoByAPI asks for the node of the next pod; a node that is not
\* in the cluster counts as stopped.  A pod that is going already, or was
\* chosen already, is returned before that.
canBeScaleDownRsNext ==
    \/ term \cup cost # {} /\ Take(Max(term \cup cost), "annotate")
    \/ /\ term \cup cost = {}
       /\ IF NextPod \in up THEN Retire(NextPod, sess[NextPod], "annotate")
          ELSE Take(NextPod, "annotate")
    \/ term \cup cost = {} /\ EndPass /\ Fault("call") /\ UNCHANGED <<evac, loose>>

canBeScaleDownRs ==
    /\ pc = "sync" /\ kind = "rs"
    /\ \/ (delay = "initial" \/ pods = {} \/ first[2] = "evicting") /\ Wait
       \/ /\ delay # "initial" /\ pods # {}
          /\ \/ first[2] = "prohibiting" /\ canBeScaleDownRsEvacuated
             \/ first[2] = "none" /\ canBeScaleDownRsNext
    /\ UNCHANGED <<setVars, up, sess, delay, statusVars>>

\* A mutant: the set waits until no evacuation is listed.
MayScaleStsUnlisted == first[2] = "none"

MayScaleSts == first[2] # "evicting"

\* The pod of the greatest ordinal below spec.replicas.
canBeScaleDownSts ==
    /\ pc = "sync" /\ kind = "sts"
    /\ IF delay = "initial" \/ ~MayScaleSts \/ want \notin pods \ term THEN Wait
       ELSE \/ IF want \in up THEN Retire(want, sess[want], "scale")
               ELSE Take(want, "scale")
            \/ EndPass /\ Fault("call") /\ UNCHANGED <<evac, loose>>
    /\ UNCHANGED <<setVars, up, sess, delay, statusVars>>

\* A pod that is being deleted already is left alone.
annotate ==
    /\ pc = "annotate"
    /\ IF victim \in pods \ term
       THEN cost' = cost \cup {victim} /\ pc' = "scale" /\ UNCHANGED <<victim, seen>>
       ELSE EndPass /\ UNCHANGED cost
    /\ UNCHANGED <<kind, enterprise, pods, term, want, nodeVars, delay, statusVars, faults>>

\* One replica less.  The API server refuses less than none, and a write to a
\* set that has changed since it was read.
scaleDown ==
    /\ pc = "scale" /\ EndPass
    /\ want' = IF seen = Version /\ want > 0 THEN want - 1 ELSE want
    /\ UNCHANGED <<kind, enterprise, pods, term, cost, nodeVars, delay, statusVars, faults>>

\* The cache does not show the annotation of the pod yet.
scaleLags ==
    /\ pc = "scale" /\ kind = "rs" /\ EndPass
    /\ UNCHANGED <<setVars, nodeVars, delay, statusVars, faults>>

PassFails ==
    /\ pc # "nodes" /\ Fault("pass") /\ EndPass
    /\ UNCHANGED <<setVars, nodeVars, delay, statusVars>>

Pass == updateStatusNodes \/ updateStatusEvacs \/ canBeScaleDownRs
          \/ canBeScaleDownSts \/ annotate \/ scaleDown

-----------------------------------------------------------------------------
(* The environment: the set controllers, the nodes and their users.        *)

\* Each deletion leaves a SuccessfulDelete event, from which on the update
\* strategy waits.
DeletePod ==
    /\ \E p \in Deletable : term' = term \cup {p}
    /\ delay' = "takeover"
    /\ UNCHANGED <<kind, enterprise, pods, cost, want, nodeVars, statusVars,
                   pc, victim, seen, faults>>

Stopped(p) ==
    /\ up' = up \ {p} /\ sess' = [sess EXCEPT ![p] = 0]
    /\ evac' = [evac EXCEPT ![p] = "none"] /\ loose' = loose \ {p}

PodGone ==
    /\ \E p \in term : /\ Stopped(p) /\ pods' = pods \ {p}
                       /\ term' = term \ {p} /\ cost' = cost \ {p}
    /\ UNCHANGED <<kind, enterprise, want, delay, statusVars, pc, victim, seen, faults>>

NodeDown ==
    /\ Fault("node") /\ \E p \in up \ term : Stopped(p)
    /\ UNCHANGED <<setVars, delay, statusVars, pc, victim, seen>>

NodeUp ==
    /\ \E p \in pods \ (up \cup term) : up' = up \cup {p}
    /\ UNCHANGED <<setVars, sess, evac, loose, delay, statusVars, pc, victim, seen, faults>>

\* One session leaves: to a node of the update set, or, when EMQX was not
\* told where to, perhaps to another node of the old set.
Evict(p) ==
    /\ evac[p] = "evicting" /\ sess[p] > 0
    /\ LET fewer == [sess EXCEPT ![p] = @ - 1]
           others == IF p \in loose THEN {q \in up \ {p} : evac[q] = "none"} ELSE {}
       IN  sess' \in {fewer} \cup {[fewer EXCEPT ![q] = @ + 1] : q \in others}
    /\ UNCHANGED <<setVars, up, evac, loose, delay, statusVars, pc, victim, seen, faults>>

Evicted(p) ==
    /\ evac[p] = "evicting" /\ (p # New => sess[p] = 0)
    /\ evac' = [evac EXCEPT ![p] = "prohibiting"]
    /\ UNCHANGED <<setVars, up, sess, loose, delay, statusVars, pc, victim, seen, faults>>

Evacuation == (\E p \in Pods : Evict(p)) \/ \E p \in Pods \cup {New} : Evicted(p)

ForeignStarts ==
    /\ enterprise /\ evac[New] = "none" /\ Fault("foreign")
    /\ evac' = [evac EXCEPT ![New] = "evicting"]
    /\ UNCHANGED <<setVars, up, sess, loose, delay, statusVars, pc, victim, seen>>

ForeignEnds ==
    /\ evac[New] = "prohibiting" /\ evac' = [evac EXCEPT ![New] = "none"]
    /\ UNCHANGED <<setVars, up, sess, loose, delay, statusVars, pc, victim, seen, faults>>

\* initialDelaySeconds, then waitTakeover after each deletion, have passed.
DelayOver ==
    /\ delay # "none" /\ delay' = "none"
    /\ UNCHANGED <<setVars, nodeVars, statusVars, pc, victim, seen, faults>>

Init ==
    /\ kind \in {"rs", "sts"} /\ enterprise \in BOOLEAN
    /\ pods = Pods /\ term = {} /\ cost = {} /\ want = N
    /\ up = Pods /\ sess \in [Pods -> 0 .. MaxSessions]
    /\ evac = [p \in Pods \cup {New} |-> "none"] /\ loose = {}
    /\ delay = "initial" /\ listed = FALSE /\ nodes = [p \in {} |-> 0]
    /\ first = NoEvacuation /\ pc = "nodes" /\ victim = New /\ seen = Version
    /\ faults = 0

Environment ==
    DeletePod \/ PodGone \/ NodeUp \/ Evacuation \/ ForeignEnds \/ DelayOver

Next == Pass \/ scaleLags \/ PassFails \/ NodeDown \/ ForeignStarts \/ Environment

Spec == Init /\ [][Next]_vars

(***************************************************************************)
(* Fairness.  Failed passes are queued again and each reaches its next      *)
(* step, the cache shows an annotation at some time, set controllers and    *)
(* kubelets act, evacuations go on, delays pass.                            *)
(***************************************************************************)
Fairness ==
    /\ WF_vars(Pass) /\ SF_vars(scaleDown)
    /\ WF_vars(DeletePod) /\ WF_vars(PodGone) /\ WF_vars(NodeUp)
    /\ WF_vars(Evacuation) /\ WF_vars(ForeignEnds) /\ WF_vars(DelayOver)

FairSpec == Spec /\ Fairness

-----------------------------------------------------------------------------
(* Properties.                                                             *)

\* An Enterprise node is only taken away when no session is left on it: not
\* when calls fail, the operator dies, a node restarts, or the session counts
\* of the status are older than the answer about the evacuation.  It rests on
\* scaling down by the pod that was looked at, for ReplicaSets on the
\* deletion cost and on a prompt ReplicaSet controller.
SessionsAreMoved ==
    [][enterprise => \A p \in term' \ term : sess[p] = 0]_vars

\* Sessions leave the nodes of the old set one node after the other, also when the list of
\* evacuations could not be read or the operator has forgotten what it began.
OneByOne ==
    Cardinality({p \in Pods : evac[p] = "evicting" /\ sess[p] > 0}) <= 1

\* All pods of the old set go, though an evacuation of somebody else, or of a
\* node that is gone, may kill passes on the way.
OldPodsGo == <>(pods = {})
=============================================================================
