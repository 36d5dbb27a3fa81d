------------------------------ MODULE Rebalance ------------------------------
(***************************************************************************)
(* The Rebalance controller (controllers/apps/v2beta1/                      *)
(* rebalance_controller.go): Rebalance resources that ask one EMQX cluster *)
(* to move connections between its nodes.  One worker serves all of them.  *)
(* A pass reads a resource, looks at the cluster it names, and either      *)
(* gives up, takes a deletion to its end, or takes one step of the phase   *)
(* machine "" -> Processing -> Completed | Failed, calling the cluster's   *)
(* rebalance API on the way.                                               *)
(*                                                                         *)
(* The cluster itself is external: it runs at most one rebalance job at a  *)
(* time and refuses to start a second one.                                 *)
(***************************************************************************)
EXTENDS Integers

CONSTANTS
    Rebalances,  \* the Rebalance resources of one cluster
    None,        \* no resource
    Clusters,    \* the conditions the cluster may be found in
    MaxChanges,  \* bound on changes of the cluster's condition
    MaxFaults,   \* bound on faults
    Faults,      \* the kinds of fault that may happen
    StaleReads   \* TRUE: the informer cache may lag one version behind

(***************************************************************************)
(* absent      no resource of spec.instanceKind has that name              *)
(* notReady    its condition Ready (EmqxEnterprise: Running) does not hold *)
(* openSource  an EMQX whose first core node is not of the enterprise      *)
(*             edition                                                     *)
(* noTarget    an EMQX that is Ready but lists no core nodes, or an        *)
(*             EmqxEnterprise that is Running but has no ready pod         *)
(* noPods      an EMQX that is Ready, no core pod can be sent a request    *)
(* noNodes     an EmqxEnterprise that is Running, with a ready pod, but    *)
(*             lists no nodes                                              *)
(* ready       it answers requests                                         *)
(***************************************************************************)
ClusterStates ==
    {"absent", "notReady", "openSource", "noTarget", "noPods", "noNodes",
     "ready"}

\* A pass dies; a request that starts or polls a job fails, with or without
\* having had its effect; a request that stops a job fails.
FaultKinds == {"pass", "request", "stop"}

ASSUME RebalanceAssumption ==
    /\ None \notin Rebalances
    /\ Clusters \subseteq ClusterStates /\ "ready" \in Clusters
    /\ MaxChanges \in Nat /\ MaxFaults \in Nat
    /\ Faults \subseteq FaultKinds /\ StaleReads \in BOOLEAN

VARIABLES
    obj,     \* the stored resources
    prev,    \* the version before each, which a lagging cache still returns
    emqx,    \* the condition of the cluster
    job,     \* the resource whose job the cluster is running
    pc,      \* the step of the running pass
    at,      \* the resource the pass is for
    mem,     \* the pass's in-memory copy of it
    base,    \* the version mem was read from (its resourceVersion)
    req,     \* the pass has a requester
    listed,  \* its copy of the cluster lists nodes
    changes, faults,
    done     \* history: the resources whose job ran to its end

memVars == <<at, mem, base, req, listed>>
vars == <<obj, prev, emqx, job, pc, at, mem, base, req, listed, changes,
          faults, done>>

Phases == {"", "Processing", "Completed", "Failed"}

\* states: status.rebalanceStates is not empty.
Resources == [there : BOOLEAN, finalizer : BOOLEAN, deleting : BOOLEAN,
              phase : Phases, states : BOOLEAN]

Steps == {"idle", "target", "act", "handle", "unfinalize", "store"}

TypeOK ==
    /\ obj \in [Rebalances -> Resources] /\ prev \in [Rebalances -> Resources]
    /\ emqx \in ClusterStates /\ job \in Rebalances \cup {None}
    /\ pc \in Steps /\ at \in Rebalances \cup {None}
    /\ pc = "idle" <=> at = None
    /\ mem \in Resources /\ base \in Resources
    /\ req \in BOOLEAN /\ listed \in BOOLEAN
    /\ changes \in 0..MaxChanges /\ faults \in 0..MaxFaults
    /\ done \in SUBSET Rebalances

Created == [there |-> TRUE, finalizer |-> FALSE, deleting |-> FALSE,
            phase |-> "", states |-> FALSE]

-----------------------------------------------------------------------------
(* The API server.                                                         *)

\* A new version is stored; an object being deleted goes with its last
\* finalizer.
Store(r, new) ==
    LET kept == [new EXCEPT !.there = new.finalizer \/ ~new.deleting]
    IN  /\ obj' = [obj EXCEPT ![r] = kept]
        /\ prev' = [prev EXCEPT ![r] = IF kept = obj[r] THEN @ ELSE obj[r]]

Fresh == base = obj[at]

\* Client.Update: spec and metadata, refused when the copy is not fresh.
UpdateFinalizer(new) == Fresh /\ Store(at, [obj[at] EXCEPT !.finalizer = new])

\* Variant: the last writer wins.
StatusUpdateForced(new) ==
    Store(at, [obj[at] EXCEPT !.phase = new.phase, !.states = new.states])

\* Client.Status().Update: the status only, refused when not fresh.
StatusUpdate(new) ==
    IF Fresh THEN Store(at, [obj[at] EXCEPT !.phase = new.phase,
                                            !.states = new.states])
    ELSE UNCHANGED <<obj, prev>>

\* The pass ended: done, failed and requeued, or its process died.
EndPass ==
    /\ pc' = "idle" /\ at' = None
    /\ mem' = Created /\ base' = Created /\ req' = FALSE /\ listed' = FALSE

Fault(f) == f \in Faults /\ faults < MaxFaults /\ faults' = faults + 1

\* A request to the cluster: it is answered, or it fails, as it must when
\* the cluster has been deleted since the pass looked.
RequestSucceeds == emqx # "absent" /\ UNCHANGED faults
RequestFails(f) == IF emqx = "absent" THEN UNCHANGED faults ELSE Fault(f)

-----------------------------------------------------------------------------
(* RebalanceStatus.                                                        *)

\* Variant: the phase is written as the HTTP API spells it.
SetFailedLowerCase(m) == [m EXCEPT !.phase = "failed"]

SetFailed(m) == [m EXCEPT !.phase = "Failed"]

\* Variant: the phase has to be Completed already.
SetCompletedNever(m) == m

SetCompleted(m) ==
    IF m.phase = "Processing" THEN [m EXCEPT !.phase = "Completed"] ELSE m

SetProcessing(m) ==
    IF m.phase \in {"Failed", "Completed"} THEN m
    ELSE [m EXCEPT !.phase = "Processing"]

-----------------------------------------------------------------------------
(* One pass.                                                               *)

\* Reconcile reads the resource.
Read(r) ==
    /\ pc = "idle"
    /\ \E got \in {obj[r]} \cup (IF StaleReads THEN {prev[r]} ELSE {}) :
          got.there /\ mem' = got /\ base' = got
    /\ pc' = "target" /\ at' = r
    /\ UNCHANGED <<obj, prev, emqx, job, req, listed, changes, faults, done>>

\* The named cluster does not exist: a deletion ends here, any other
\* resource has failed.
TargetMissing ==
    /\ pc = "target" /\ emqx = "absent"
    /\ IF mem.deleting
       THEN UpdateFinalizer(FALSE) \/ (~Fresh /\ UNCHANGED <<obj, prev>>)
       ELSE StatusUpdate(SetFailed(mem))
    /\ EndPass
    /\ UNCHANGED <<emqx, job, changes, faults, done>>

\* The cluster is not ready, or not of the enterprise edition: the resource
\* has failed, whatever its phase and whether or not it is being deleted.
TargetUnfit ==
    /\ pc = "target" /\ emqx \in {"notReady", "openSource"}
    /\ StatusUpdate(SetFailed(mem))
    /\ EndPass
    /\ UNCHANGED <<emqx, job, changes, faults, done>>

\* EMQX: Status.CoreNodes[0] of an empty list kills the process.
\* EmqxEnterprise: NewRequesterByPod fails, which ends the pass.
TargetUnusable ==
    /\ pc = "target" /\ emqx = "noTarget"
    /\ EndPass
    /\ UNCHANGED <<obj, prev, emqx, job, changes, faults, done>>

TargetFound ==
    /\ pc = "target" /\ emqx \in {"noPods", "noNodes", "ready"}
    /\ req' = (emqx # "noPods") /\ listed' = (emqx # "noNodes")
    /\ pc' = "act"
    /\ UNCHANGED <<obj, prev, emqx, job, at, mem, base, changes, faults, done>>

\* stopRebalance indexes the first rebalance state, and calls a requester
\* that may be nil: either kills the process.
StopPanics == ~mem.states \/ ~req

\* Variant: the job is left to itself.
StopSkipped ==
    /\ pc = "act" /\ mem.deleting /\ mem.phase = "Processing"
    /\ pc' = "unfinalize"
    /\ UNCHANGED <<obj, prev, emqx, job, memVars, changes, faults, done>>

\* A deleted resource that is Processing stops the job of the coordinator
\* node it last saw, whosever job that is now; errors are ignored.
Stop ==
    /\ pc = "act" /\ mem.deleting /\ mem.phase = "Processing"
    /\ ~StopPanics
    /\ \/ RequestSucceeds /\ job' = None
       \/ RequestFails("stop") /\ UNCHANGED job
    /\ pc' = "unfinalize"
    /\ UNCHANGED <<obj, prev, emqx, memVars, changes, done>>

StopPanic ==
    /\ pc = "act" /\ mem.deleting /\ mem.phase = "Processing"
    /\ StopPanics
    /\ EndPass
    /\ UNCHANGED <<obj, prev, emqx, job, changes, faults, done>>

NoStop ==
    /\ pc = "act" /\ mem.deleting /\ mem.phase # "Processing"
    /\ pc' = "unfinalize"
    /\ UNCHANGED <<obj, prev, emqx, job, memVars, changes, faults, done>>

\* Variant: the finalizer is removed from the copy in memory only.
RemoveFinalizerInMemory ==
    /\ pc = "unfinalize"
    /\ EndPass
    /\ UNCHANGED <<obj, prev, emqx, job, changes, faults, done>>

RemoveFinalizer ==
    /\ pc = "unfinalize"
    /\ UpdateFinalizer(FALSE) \/ (~Fresh /\ UNCHANGED <<obj, prev>>)
    /\ EndPass
    /\ UNCHANGED <<emqx, job, changes, faults, done>>

\* Variant: the finalizer is added to the copy in memory only.
AddFinalizerInMemory ==
    /\ pc = "act" /\ ~mem.deleting
    /\ mem' = [mem EXCEPT !.finalizer = TRUE]
    /\ pc' = "handle"
    /\ UNCHANGED <<obj, prev, emqx, job, at, base, req, listed, changes, faults,
                   done>>

\* The finalizer is stored before the job is started.  A conflict ends the
\* pass.
AddFinalizer ==
    /\ pc = "act" /\ ~mem.deleting
    /\ IF mem.finalizer
       THEN pc' = "handle" /\ UNCHANGED <<obj, prev, memVars>>
       ELSE \/ /\ UpdateFinalizer(TRUE)
               /\ mem' = [obj[at] EXCEPT !.finalizer = TRUE] /\ base' = mem'
               /\ pc' = "handle" /\ UNCHANGED <<at, req, listed>>
            \/ ~Fresh /\ EndPass /\ UNCHANGED <<obj, prev>>
    /\ UNCHANGED <<emqx, job, changes, faults, done>>

\* rebalanceStatusHandler, phase "": startRebalance succeeds, is refused
\* because a job runs, or its request fails before or after its effect.
HandleStart ==
    /\ pc = "handle" /\ mem.phase = "" /\ req /\ listed
    /\ LET failed == SetProcessing([SetFailed(mem) EXCEPT !.states = FALSE])
       IN  \/ /\ RequestSucceeds /\ job = None
              /\ job' = at /\ mem' = SetProcessing(mem)
           \/ /\ RequestSucceeds /\ job # None
              /\ UNCHANGED job /\ mem' = failed
           \/ /\ RequestFails("request") /\ mem' = failed
              /\ job' \in {job} \cup (IF job = None /\ emqx # "absent"
                                      THEN {at} ELSE {})
    /\ pc' = "store"
    /\ UNCHANGED <<obj, prev, emqx, at, base, req, listed, changes, done>>

\* Variant: an error of getRebalanceStatus is taken for an empty list.
HandlePollIgnoringErrors ==
    /\ pc = "handle" /\ mem.phase = "Processing" /\ req
    /\ \/ /\ RequestSucceeds
          /\ mem' = IF job # None THEN [mem EXCEPT !.states = TRUE]
                    ELSE [SetCompleted(mem) EXCEPT !.states = FALSE]
       \/ /\ RequestFails("request")
          /\ mem' = [SetCompleted(mem) EXCEPT !.states = FALSE]
    /\ pc' = "store"
    /\ UNCHANGED <<obj, prev, emqx, job, at, base, req, listed, changes, done>>

\* Phase Processing: getRebalanceStatus lists the jobs of the whole cluster.
HandlePoll ==
    /\ pc = "handle" /\ mem.phase = "Processing" /\ req
    /\ LET running == job # None
           seen == IF running THEN mem ELSE SetCompleted(mem)
       IN  \/ /\ RequestSucceeds
              /\ mem' = [SetProcessing(seen) EXCEPT !.states = running]
           \/ /\ RequestFails("request")
              /\ mem' = [SetProcessing(SetCompleted(SetFailed(mem)))
                            EXCEPT !.states = FALSE]
    /\ pc' = "store"
    /\ UNCHANGED <<obj, prev, emqx, job, at, base, req, listed, changes, done>>

\* The requester is nil, or startRebalance takes nodes[0] of an empty list:
\* the process dies.
HandlePanic ==
    /\ pc = "handle"
    /\ \/ mem.phase \in {"", "Processing"} /\ ~req
       \/ mem.phase = "" /\ ~listed
    /\ EndPass
    /\ UNCHANGED <<obj, prev, emqx, job, changes, faults, done>>

HandleDone ==
    /\ pc = "handle" /\ mem.phase \in {"Completed", "Failed"}
    /\ mem' = [mem EXCEPT !.states = FALSE]
    /\ pc' = "store"
    /\ UNCHANGED <<obj, prev, emqx, job, at, base, req, listed, changes, faults,
                   done>>

\* Reconcile stores the status.  The finalizer it then removes from a failed
\* or completed resource is removed in memory only.
StoreStatus ==
    /\ pc = "store"
    /\ StatusUpdate(mem)
    /\ EndPass
    /\ UNCHANGED <<emqx, job, changes, faults, done>>

\* The operator is killed, loses its leadership, or a call to the API server
\* fails.
PassFails ==
    /\ pc # "idle" /\ Fault("pass")
    /\ EndPass
    /\ UNCHANGED <<obj, prev, emqx, job, changes, done>>

Reconcile(r) ==
    \/ Read(r)
    \/ /\ at = r
       /\ \/ TargetMissing \/ TargetUnfit \/ TargetUnusable \/ TargetFound
          \/ Stop \/ StopPanic \/ NoStop \/ RemoveFinalizer
          \/ AddFinalizer \/ HandleStart \/ HandlePoll \/ HandlePanic
          \/ HandleDone \/ StoreStatus

-----------------------------------------------------------------------------
(* The environment: the user and the cluster.                              *)

Delete(r) ==
    /\ obj[r].there /\ ~obj[r].deleting
    /\ Store(r, [obj[r] EXCEPT !.deleting = TRUE])
    /\ UNCHANGED <<emqx, job, pc, memVars, changes, faults, done>>

JobEnds ==
    /\ job # None /\ job' = None /\ done' = done \cup {job}
    /\ UNCHANGED <<obj, prev, emqx, pc, memVars, changes, faults>>

\* The job goes with the cluster, and survives anything less.
ClusterChanges ==
    /\ changes < MaxChanges /\ changes' = changes + 1
    /\ \E e \in Clusters \ {emqx} :
          emqx' = e /\ job' = IF e = "absent" THEN None ELSE job
    /\ UNCHANGED <<obj, prev, pc, memVars, faults, done>>

\* The EMQX controller lists the nodes again, a core pod is ready again.
ClusterRecovers ==
    /\ emqx \in {"noTarget", "noPods", "noNodes"} /\ emqx' = "ready"
    /\ UNCHANGED <<obj, prev, job, pc, memVars, changes, faults, done>>

Init ==
    /\ obj = [r \in Rebalances |-> Created] /\ prev = obj
    /\ emqx = "ready" /\ job = None
    /\ pc = "idle" /\ at = None
    /\ mem = Created /\ base = Created /\ req = FALSE /\ listed = FALSE
    /\ changes = 0 /\ faults = 0 /\ done = {}

Next ==
    \/ \E r \in Rebalances : Reconcile(r) \/ Delete(r)
    \/ PassFails \/ JobEnds \/ ClusterChanges \/ ClusterRecovers

Spec == Init /\ [][Next]_vars

(***************************************************************************)
(* Fairness.  The work queue serves every resource in turn, the cache does *)
(* not lag for ever, a pass always reaches its next call, jobs end, and a  *)
(* cluster that is Ready lists its nodes and has a core pod again at some  *)
(* time.                                                                   *)
(***************************************************************************)
Fairness ==
    /\ \A r \in Rebalances : SF_vars(Read(r))
    /\ <>[][\A r \in Rebalances : Read(r) => mem' = obj[r]]_vars
    /\ WF_vars(pc # "idle" /\ \E r \in Rebalances : Reconcile(r))
    /\ WF_vars(JobEnds) /\ WF_vars(ClusterRecovers)

FairSpec == Spec /\ Fairness

-----------------------------------------------------------------------------
(* Properties.                                                             *)

\* The resource of a running job, while it exists, is kept by its finalizer:
\* no deletion can bypass the controller.  It rests on the finalizer being
\* stored before startRebalance, also when reads are stale.
JobHeldByFinalizer ==
    job # None /\ obj[job].there => obj[job].finalizer

\* From which phase to which a stored resource may move in one step.
Moves == {<<p, p>> : p \in Phases}
           \cup {<<"", "Processing">>, <<"Processing", "Completed">>}
           \cup {<<p, "Failed">> : p \in Phases}

\* The stored phase only moves forward and Failed is final, whatever stale
\* copies passes work on.
PhaseMovesForward ==
    [][\A r \in Rebalances :
          <<obj[r].phase, obj'[r].phase>> \in Moves]_vars

\* A resource that is removed while its stored phase is Processing leaves no
\* job of its own behind, if requests to stop a job do not fail: crashes of
\* the operator, lost answers to other requests and stale reads included.
DeletionStopsJob ==
    [][\A r \in Rebalances :
          obj[r].there /\ ~obj'[r].there /\ obj[r].phase = "Processing"
            => job' # r]_vars

\* The job of a Completed resource is over.
CompletedJobIsOver ==
    \A r \in Rebalances : obj[r].phase = "Completed" => job # r

\* The documentation's reading of Failed: the job of a Failed resource is not
\* in progress.
FailedJobIsOver == \A r \in Rebalances : obj[r].phase = "Failed" => job # r

\* The documentation's reading of Completed: the job of a Completed resource
\* has run to its end.
CompletedJobRanToEnd ==
    \A r \in Rebalances : obj[r].phase = "Completed" => r \in done

\* Every resource that is not deleted comes to an end.
EventuallySettled ==
    \A r \in Rebalances :
       <>(obj[r].phase \in {"Completed", "Failed"} \/ obj[r].deleting)

\* A resource deleted in any phase but Processing goes away, if the cluster
\* is ready from some time on.
DeletedOutsideProcessingGoes ==
    <>[](emqx = "ready") =>
       \A r \in Rebalances :
          [](obj[r].deleting /\ obj[r].phase # "Processing"
                => <>(~obj[r].there))

\* The tests' reading of deletion: a deleted resource goes away, if the
\* cluster is ready from some time on.
DeletedGoes ==
    <>[](emqx = "ready") =>
       \A r \in Rebalances : [](obj[r].deleting => <>(~obj[r].there))

=============================================================================
