---------------------------- MODULE EmqxEnterprise ----------------------------
(***************************************************************************)
(* The reconcile loop of the 4.x controllers (EmqxReconciler.Do) for an    *)
(* EmqxEnterprise: a new pod template gets a StatefulSet of its own, and   *)
(* once that one is ready the nodes of the origin StatefulSet are          *)
(* evacuated and taken away one by one.                                    *)
(*                                                                         *)
(* One action per sub-reconciler, split where the operator can stop        *)
(* between two writes; the user, the StatefulSet controller, the pods and  *)
(* the clients take steps in between.  An EmqxBroker runs the same loop    *)
(* without the drain step.                                                 *)
(***************************************************************************)
EXTENDS Integers, FiniteSets

CONSTANTS
    Templates,      \* pod templates a spec can ask for
    Plain,          \* the StatefulSet that has the resource's own name
    InitSpec,       \* the spec the resource is created with
    EditSpecs,      \* the specs the user may change it to
    EditAnyTime,    \* FALSE: only while the resource is Running and the
                    \* last edit has been carried out
    MaxReplicas,    \* bound on the replicas of one StatefulSet
    MaxCollision,   \* bound on the collision count of getNewStatefulSet
    InitResources,  \* how many resources addEmqxPlugins creates
    NameRank,       \* the place of each ordinal in the order of pod names
    MaxEdits, MaxFaults, Faults,
    PromptSets      \* TRUE: a removed pod is gone before the next pass

Idx == 1..MaxReplicas
Names == {Plain} \cup (Templates \X (0..MaxCollision))
Pod == Names \X Idx

\* A pass dies or a call to the API server fails; a call to the EMQX API
\* fails; the cache returns the version before the last; a pod goes down.
FaultKinds == {"pass", "emqxAPI", "stale", "pod"}

Specs == [tpl : Templates, n : 1..MaxReplicas, bg : BOOLEAN]

ASSUME EnterpriseAssumption ==
    /\ MaxReplicas \in Nat /\ MaxCollision \in Nat /\ InitResources \in Nat
    /\ MaxEdits \in Nat /\ MaxFaults \in Nat /\ Faults \subseteq FaultKinds
    /\ PromptSets \in BOOLEAN /\ EditAnyTime \in BOOLEAN
    /\ NameRank \in [Idx -> Nat]
    /\ Plain \notin Templates \X (0..MaxCollision)
    /\ InitSpec \in Specs
    /\ EditSpecs \subseteq {s \in Specs : s.bg}

VARIABLES
    cr,         \* the stored resource: [spec, status]
    prev,       \* the version before it
    sts,        \* the StatefulSets
    clock,      \* the creation time of the newest of them
    pods,       \* the existing pods
    up,         \* the pods whose EMQX node runs
    gate,       \* the pods whose readiness gate PodOnServing is True
    evac,       \* the nodes that are being evacuated, or have been
    load,       \* the nodes that hold connections or sessions
    endpoints,  \* the pods in the Endpoints of the listener Service
    made,       \* how many of the init resources exist; -1: not even the
                \* bootstrap user
    pc, mem, base, edits,
    faults,     \* the kinds of fault that have happened
    proven      \* history: the StatefulSets seen with all their pods ready

setVars == <<sts, clock>>
nodeVars == <<pods, up, gate, evac, load>>
crVars == <<cr, prev>>
memVars == <<mem, base>>
vars == <<cr, prev, sts, clock, pods, up, gate, evac, load, endpoints, made,
          pc, mem, base, edits, faults, proven>>

\* EmqxBlueGreenUpdateStatus: evac is the list of evacuations last read, each
\* with whether its node is empty.  known is FALSE when the list is nil: never
\* read, or stored empty (omitempty).  StartedAt is set with the record.
BGStatus == [on : BOOLEAN, cur : Names, org : Names, known : BOOLEAN,
             evac : SUBSET (Pod \X BOOLEAN)]

NoBG == [on |-> FALSE, cur |-> Plain, org |-> Plain, known |-> FALSE,
         evac |-> {}]

Statuses == [nodes : SUBSET Pod, running : {"unset", "True", "False"},
             updating : BOOLEAN, bg : BGStatus]
Resources == [spec : Specs, status : Statuses]

StsRecords == [born : Nat, want : 0..MaxReplicas, tpl : Templates]

Steps == {"idle", "status1", "init", "sts", "drain", "listener", "status2",
          "conds"}

-----------------------------------------------------------------------------
(* Reading the StatefulSets.                                               *)

Exists(x) == sts[x].born > 0

StsPods(x) == {p \in pods : p[1] = x}

ReadyPods(x) == StsPods(x) \cap up \cap gate

\* getAllStatefulSet leaves out those without replicas.
AllSts == {x \in Names : Exists(x) /\ sts[x].want # 0}

\* StatefulSetsBySizeNewer
Before(x, y) ==
    \/ sts[x].want > sts[y].want
    \/ sts[x].want = sts[y].want /\ sts[x].born > sts[y].born

IsFirst(x, S) == x \in S /\ \A y \in S \ {x} : Before(x, y)
IsLast(x, S) == x \in S /\ \A y \in S \ {x} : Before(y, x)

\* getInClusterStatefulSets: every pod the StatefulSet has created is a
\* listed node; one without pods yet counts as well.
InCluster(nodes) == {x \in AllSts : StsPods(x) \subseteq up \cap nodes}

\* The pod that sorts first by PodsByNameNewer.
IsLastPod(p, P) == p \in P /\ \A q \in P : NameRank[q[2]] <= NameRank[p[2]]

-----------------------------------------------------------------------------
(* The stored resource and the pass's copy.                                *)

InitCR == [spec |-> InitSpec,
           status |-> [nodes |-> {}, running |-> "unset", updating |-> FALSE,
                       bg |-> NoBG]]

\* An empty list of evacuations is not stored.
Stored(st) == [st EXCEPT !.bg.known = @ /\ st.bg.evac # {}]

Store(new) == cr' = new /\ prev' = IF new = cr THEN prev ELSE cr

EndPass == pc' = "idle" /\ mem' = InitCR /\ base' = InitCR

\* Status().Update: a conflict ends the pass.  The copy in memory keeps the
\* lists that the answer leaves out.
StatusUpdate(st, next) ==
    IF base = cr
    THEN LET new == [cr EXCEPT !.status = Stored(st)]
         IN  /\ Store(new) /\ base' = new
             /\ mem' = [mem EXCEPT !.status = st] /\ pc' = next
    ELSE EndPass /\ UNCHANGED crVars

Fault(f) == /\ f \in Faults \ faults /\ Cardinality(faults) < MaxFaults
            /\ faults' = faults \cup {f}

-----------------------------------------------------------------------------
(* The sub-reconcilers.                                                    *)

\* Do: the API is reached through the headless Service with the password of
\* the bootstrap user.  Without that Secret the pass creates it and ends.
Do ==
    /\ pc = "idle"
    /\ PromptSets => \A p \in pods : p[2] <= sts[p[1]].want
    /\ \/ /\ made = -1 /\ made' = 0
          /\ UNCHANGED <<memVars, pc, faults>>
       \/ /\ made >= 0 /\ mem' = cr /\ base' = cr /\ pc' = "status1"
          /\ UNCHANGED <<made, faults>>
       \/ /\ made >= 0 /\ Fault("stale")
          /\ mem' = prev /\ base' = prev /\ pc' = "status1"
          /\ UNCHANGED made
    /\ UNCHANGED <<crVars, setVars, nodeVars, endpoints, edits, proven>>

\* updateEmqxStatus when the nodes cannot be listed: the pass goes on with
\* the status it has.
updateStatusFails(at, next) ==
    /\ pc = at
    /\ \/ up = {} /\ UNCHANGED faults
       \/ Fault("emqxAPI")
    /\ pc' = next
    /\ UNCHANGED <<crVars, setVars, nodeVars, endpoints, made, memVars, edits,
                   proven>>

\* No StatefulSet is in the cluster: ErrStsNotReady, nothing is stored.
updateStatusNotReady(at, next) ==
    /\ pc = at /\ up # {} /\ InCluster(up) = {}
    /\ mem' = [mem EXCEPT !.status.nodes = up]
    /\ pc' = next
    /\ UNCHANGED <<crVars, setVars, nodeVars, endpoints, made, base, edits,
                   faults, proven>>

\* Variant: the record of the update stays.
updateStatusOneKeepsBG(at, next) ==
    /\ pc = at /\ up # {} /\ Cardinality(InCluster(up)) = 1
    /\ StatusUpdate([mem.status EXCEPT
                        !.nodes = up,
                        !.running = IF Cardinality(up) = mem.spec.n
                                    THEN "True" ELSE "False"], next)
    /\ UNCHANGED <<setVars, nodeVars, endpoints, made, edits, faults, proven>>

\* One StatefulSet is in the cluster: the update, if any, is over.
updateStatusOne(at, next) ==
    /\ pc = at /\ up # {} /\ Cardinality(InCluster(up)) = 1
    /\ StatusUpdate([mem.status EXCEPT
                        !.nodes = up, !.bg = NoBG,
                        !.running = IF Cardinality(up) = mem.spec.n
                                    THEN "True" ELSE "False"], next)
    /\ UNCHANGED <<setVars, nodeVars, endpoints, made, edits, faults, proven>>

\* Variant: one ready pod is enough for the current StatefulSet.
CurrentReadyAny(x) == ReadyPods(x) # {}

CurrentReady(x) == Cardinality(ReadyPods(x)) = sts[x].want

\* Several are: the smallest and oldest is the origin, the next one the
\* current StatefulSet.  When the evacuations cannot be read the rest of the
\* status stays in memory only.
updateStatusTwo(at, next) ==
    /\ pc = at /\ up # {}
    /\ \E org, cur \in InCluster(up) :
          LET st == [mem.status EXCEPT !.nodes = up, !.updating = TRUE]
              bg == [st.bg EXCEPT !.on = TRUE, !.cur = cur, !.org = org]
              now == {<<p, p \notin load>> : p \in evac}
          IN  /\ IsLast(org, InCluster(up))
              /\ IsLast(cur, InCluster(up) \ {org})
              /\ proven' = IF Cardinality(ReadyPods(cur)) = sts[cur].want
                           THEN proven \cup {cur} ELSE proven
              /\ \/ /\ ~CurrentReady(cur)
                    /\ StatusUpdate(st, next) /\ UNCHANGED faults
                 \/ /\ CurrentReady(cur)
                    /\ StatusUpdate([st EXCEPT !.bg = [bg EXCEPT
                            !.known = TRUE, !.evac = now]], next)
                    /\ UNCHANGED faults
                 \/ /\ CurrentReady(cur) /\ Fault("emqxAPI")
                    /\ pc' = next
                    /\ mem' = [mem EXCEPT !.status = [st EXCEPT !.bg = bg]]
                    /\ UNCHANGED <<crVars, base>>
    /\ UNCHANGED <<setVars, nodeVars, endpoints, made, edits>>

updateEmqxStatus(at, next) ==
    \/ updateStatusFails(at, next) \/ updateStatusNotReady(at, next)
    \/ updateStatusOne(at, next) \/ updateStatusTwo(at, next)

\* addEmqxPlugins: a missing resource is created, and the NotFound that was
\* found first still ends the pass: one resource per pass.  addEmqxResources
\* then writes resources that no other action reads.
addEmqxPlugins ==
    /\ pc = "init"
    /\ IF made < InitResources
       THEN made' = made + 1 /\ EndPass
       ELSE pc' = "sts" /\ UNCHANGED <<made, memVars>>
    /\ UNCHANGED <<crVars, setVars, nodeVars, endpoints, edits, faults,
                   proven>>

\* getNewStatefulSet: the first StatefulSet with replicas that has the
\* template, or else the first hash whose name is free.
NewStatefulSet ==
    LET same == {x \in AllSts : sts[x].tpl = mem.spec.tpl}
        free == {c \in 0..MaxCollision : ~Exists(<<mem.spec.tpl, c>>)}
    IN  IF ~mem.spec.bg THEN {Plain}
        ELSE IF same # {} THEN {x \in same : IsFirst(x, same)}
        ELSE {<<mem.spec.tpl, c>> : c \in {d \in free : \A e \in free : d <= e}}

\* addEmqxStatefulSet.reconcile up to the drain.
addEmqxStatefulSet ==
    /\ pc = "sts"
    /\ \E x \in NewStatefulSet :
          LET fresh == ~Exists(x)
          IN  /\ sts' = [sts EXCEPT ![x] =
                            [born |-> IF fresh THEN clock + 1 ELSE @.born,
                             want |-> mem.spec.n, tpl |-> mem.spec.tpl]]
              /\ clock' = IF fresh THEN clock + 1 ELSE clock
    /\ pc' = "drain"
    /\ UNCHANGED <<crVars, nodeVars, endpoints, made, memVars, edits, faults,
                   proven>>

\* handleBlueGreenUpdate without an update, or within its initial delay,
\* which ends the pass.
drainNothing ==
    /\ pc = "drain"
    /\ IF ~mem.status.bg.on THEN pc' = "listener" /\ UNCHANGED memVars
                               ELSE EndPass
    /\ UNCHANGED <<crVars, setVars, nodeVars, endpoints, made, edits, faults,
                   proven>>

\* The pods syncStatefulSet knows of: only those of StatefulSets in the
\* cluster.
PodMap(x) == IF x \in InCluster(mem.status.nodes) THEN StsPods(x) ELSE {}

\* Variant: the evacuation need not have ended.
canBeScaledDownEarly ==
    LET bg == mem.status.bg
    IN  ~bg.known \/ \E e \in bg.evac : IsLastPod(e[1], PodMap(bg.org))

\* canBeScaledDown: there is no list of evacuations, or it shows that the
\* last pod of the origin is empty.
canBeScaledDown ==
    LET bg == mem.status.bg
    IN  ~bg.known \/ \E e \in bg.evac : e[2] /\ IsLastPod(e[1], PodMap(bg.org))

\* canBeScaledDown takes the first of the origin's pods without looking
\* whether there is one; a pod's name contains the origin's name when it is
\* one of its pods or the origin has the resource's own name.
IndexPanic ==
    LET bg == mem.status.bg
    IN  /\ bg.known /\ PodMap(bg.org) = {}
        /\ \E e \in bg.evac : e[2] /\ (bg.org = Plain \/ e[1][1] = bg.org)

\* syncStatefulSet when it can neither scale down nor evacuate: no
\* StatefulSet is in the cluster, canBeScaledDown panics, or the origin has
\* no replica left to take away and the API server refuses the update.
drainFails ==
    /\ pc = "drain" /\ mem.status.bg.on
    /\ \/ InCluster(mem.status.nodes) = {}
       \/ IndexPanic
       \/ canBeScaledDown /\ sts[mem.status.bg.org].want = 0
    /\ EndPass
    /\ UNCHANGED <<crVars, setVars, nodeVars, endpoints, made, edits, faults,
                   proven>>

\* The scale down of syncStatefulSet, or nothing to scale down.
drainScale ==
    /\ pc = "drain" /\ mem.status.bg.on
    /\ InCluster(mem.status.nodes) # {} /\ ~IndexPanic
    /\ mem.status.bg.evac # {}
    /\ IF canBeScaledDown
       THEN /\ sts[mem.status.bg.org].want > 0
            /\ sts' = [sts EXCEPT ![mem.status.bg.org].want = @ - 1]
       ELSE UNCHANGED sts
    /\ pc' = "listener"
    /\ UNCHANGED <<crVars, clock, nodeVars, endpoints, made, memVars, edits,
                   faults, proven>>

\* No evacuation is listed: the origin's last pod is evacuated, after a scale
\* down if there is no list at all.  A node that is down or is being evacuated
\* already refuses, which startEvacuateNodeByAPI does not look at: only a
\* failure of the transport ends the pass.
drainEvacuate ==
    /\ pc = "drain" /\ mem.status.bg.on
    /\ InCluster(mem.status.nodes) # {}
    /\ mem.status.bg.evac = {}
    /\ LET org == mem.status.bg.org
       IN  /\ IF ~mem.status.bg.known
              THEN sts[org].want > 0 /\ sts' = [sts EXCEPT ![org].want = @ - 1]
              ELSE UNCHANGED sts
           /\ \/ /\ \/ PodMap(org) = {}
                    \/ \E p \in evac \cup (pods \ up) : IsLastPod(p, PodMap(org))
                 /\ pc' = "listener" /\ UNCHANGED <<evac, memVars, faults>>
              \/ \E p \in up \ evac :
                    /\ IsLastPod(p, PodMap(org))
                    /\ \/ /\ evac' = evac \cup {p}
                          /\ pc' = "listener" /\ UNCHANGED <<memVars, faults>>
                       \/ Fault("emqxAPI") /\ EndPass /\ UNCHANGED evac
    /\ UNCHANGED <<crVars, clock, pods, up, gate, load, endpoints, made, edits,
                   proven>>

\* Variant: Endpoints that exist are not renewed.
addListenerOnce ==
    /\ pc = "listener"
    /\ endpoints' = IF endpoints # {} THEN endpoints ELSE up \cap gate
    /\ pc' = "status2"
    /\ UNCHANGED <<crVars, setVars, nodeVars, made, memVars, edits, faults,
                   proven>>

\* addListener: the operator itself keeps the Endpoints, the ready pods of
\* all StatefulSets; with no ready pod it leaves them alone.
addListener ==
    /\ pc = "listener"
    /\ endpoints' = IF up \cap gate = {} THEN endpoints ELSE up \cap gate
    /\ pc' = "status2"
    /\ UNCHANGED <<crVars, setVars, nodeVars, made, memVars, edits, faults,
                   proven>>

\* updatePodConditions: a listed node serves unless it says that it is being
\* evacuated; the first node that does not answer ends the pass.
updatePodConditions ==
    /\ pc = "conds"
    /\ LET asked == mem.status.nodes \cap up
           answer(S) == gate' = (gate \ S) \cup (S \ evac)
       IN  \/ answer(asked) /\ UNCHANGED faults
           \/ \E S \in (SUBSET asked) \ {asked} : answer(S) /\ Fault("emqxAPI")
    /\ EndPass
    /\ UNCHANGED <<crVars, setVars, pods, up, evac, load, endpoints, made,
                   edits, proven>>

PassFails ==
    /\ pc # "idle" /\ Fault("pass")
    /\ EndPass
    /\ UNCHANGED <<crVars, setVars, nodeVars, endpoints, made, edits, proven>>

Drain == drainScale \/ drainEvacuate

SubReconcilers ==
    \/ Do
    \/ updateEmqxStatus("status1", "init")
    \/ addEmqxPlugins
    \/ addEmqxStatefulSet
    \/ drainNothing \/ drainFails \/ Drain
    \/ addListener
    \/ updateEmqxStatus("status2", "conds")
    \/ updatePodConditions

-----------------------------------------------------------------------------
(* The environment.                                                        *)

\* The webhook lets every spec through whose API keys, storage and cluster
\* settings are the old ones.
Edit ==
    /\ edits < MaxEdits
    /\ \/ EditAnyTime
       \/ /\ ~cr.status.bg.on /\ cr.status.running = "True"
          /\ Cardinality(pods) = cr.spec.n
          /\ \E x \in Names : AllSts = {x} /\ sts[x].tpl = cr.spec.tpl
    /\ \E s \in EditSpecs \ {cr.spec} : Store([cr EXCEPT !.spec = s])
    /\ edits' = edits + 1
    /\ UNCHANGED <<setVars, nodeVars, endpoints, made, pc, memVars, faults,
                   proven>>

CreatePod ==
    /\ \E p \in Pod \ pods : /\ Exists(p[1]) /\ p[2] <= sts[p[1]].want
                             /\ pods' = pods \cup {p}
    /\ UNCHANGED <<crVars, setVars, up, gate, evac, load, endpoints, made, pc,
                   memVars, edits, faults, proven>>

\* The pod is gone, and its node with it.
DeletePod ==
    /\ \E p \in pods :
          /\ p[2] > sts[p[1]].want
          /\ pods' = pods \ {p} /\ up' = up \ {p} /\ gate' = gate \ {p}
          /\ evac' = evac \ {p} /\ load' = load \ {p}
    /\ UNCHANGED <<crVars, setVars, endpoints, made, pc, memVars, edits,
                   faults, proven>>

PodUp ==
    /\ \E p \in pods \ up : up' = up \cup {p}
    /\ UNCHANGED <<crVars, setVars, pods, gate, evac, load, endpoints, made,
                   pc, memVars, edits, faults, proven>>

PodDown ==
    /\ Fault("pod")
    /\ \E p \in up : up' = up \ {p} /\ evac' = evac \ {p} /\ load' = load \ {p}
    /\ UNCHANGED <<crVars, setVars, pods, gate, endpoints, made, pc, memVars,
                   edits, proven>>

\* Clients connect through the listener Service.
Connect ==
    /\ \E p \in (endpoints \cap up) \ (evac \cup load) : load' = load \cup {p}
    /\ UNCHANGED <<crVars, setVars, pods, up, gate, evac, endpoints, made, pc,
                   memVars, edits, faults, proven>>

\* An evacuation ends: the node has no connections and sessions left, and
\* takes no new ones.
Evacuated ==
    /\ \E p \in evac \cap load : load' = load \ {p}
    /\ UNCHANGED <<crVars, setVars, pods, up, gate, evac, endpoints, made, pc,
                   memVars, edits, faults, proven>>

Environment == Edit \/ CreatePod \/ DeletePod \/ PodUp \/ PodDown \/ Connect
                 \/ Evacuated

Init ==
    /\ cr = InitCR /\ prev = InitCR
    /\ sts = [x \in Names |-> [born |-> 0, want |-> 0, tpl |-> InitSpec.tpl]]
    /\ clock = 0
    /\ pods = {} /\ up = {} /\ gate = {} /\ evac = {} /\ load = {}
    /\ endpoints = {} /\ made = -1
    /\ pc = "idle" /\ mem = InitCR /\ base = InitCR
    /\ edits = 0 /\ faults = {} /\ proven = {}

Next == SubReconcilers \/ PassFails \/ Environment

Spec == Init /\ [][Next]_vars

(***************************************************************************)
(* Fairness.  Every pass ends with a requeue, so the loop never stops; the *)
(* StatefulSet controller, the kubelet and an evacuation make progress;    *)
(* the initial delay ends.                                                 *)
(***************************************************************************)
FairSpec ==
    /\ Spec
    /\ WF_vars(SubReconcilers) /\ SF_vars(Drain)
    /\ WF_vars(CreatePod) /\ WF_vars(DeletePod) /\ WF_vars(PodUp)
    /\ WF_vars(Evacuated)

-----------------------------------------------------------------------------
(* Properties.                                                             *)

TypeOK ==
    /\ cr \in Resources /\ prev \in Resources
    /\ sts \in [Names -> StsRecords] /\ clock \in Nat
    /\ pods \in SUBSET Pod /\ up \in SUBSET pods /\ gate \in SUBSET pods
    /\ evac \in SUBSET up /\ load \in SUBSET up
    /\ endpoints \in SUBSET Pod /\ made \in -1..InitResources
    /\ pc \in Steps /\ mem \in Resources /\ base \in Resources
    /\ edits \in 0..MaxEdits /\ faults \in SUBSET Faults
    /\ proven \in SUBSET Names

BG == INSTANCE BlueGreen
        WITH Sets <- Names, Sizes <- {s.n : s \in EditSpecs \cup {InitSpec}},
             size <- [x \in Names |-> sts[x].want],
             draining <- {p[1] : p \in evac}

\* The loop is a blue-green update: whatever edits, crashes, stale reads and
\* failed calls come in between, a StatefulSet loses a replica, or has a node
\* evacuated, only after another one was seen with all its pods ready.
ImplementsBlueGreen == BG!Spec

\* The faults that the drain is made for.
Mild == {"pass", "stale"}

\* The pod that the drain takes away holds no connection and no session.
EvacuatedBeforeScaleDown ==
    [][\A x \in Names :
          (pc = "drain" /\ sts'[x].want < sts[x].want /\ faults \subseteq Mild)
             => <<x, sts[x].want>> \notin load]_vars

\* Once ready pods were in the Endpoints, clients reach one in every state,
\* although the pass drains the origin before it renews the Endpoints, also
\* when a pass reads a stale version.  (A pass that dies in between leaves
\* Endpoints of pods that are gone.)
ClientsReachANode ==
    endpoints # {} /\ faults \subseteq {"stale"}
        => endpoints \cap up \cap gate # {}

\* Every update ends: the only StatefulSet with replicas has the template
\* and the size of the spec, the resource is Running and no update is shown.
UpdateCompletes ==
    <>[](\/ "pod" \in faults
         \/ /\ \E x \in Names : /\ AllSts = {x} /\ sts[x].tpl = cr.spec.tpl
                                /\ sts[x].want = cr.spec.n
            /\ ~cr.status.bg.on /\ cr.status.running = "True")

\* The same of every scale down, also when a call to the EMQX API has failed.
AlwaysEvacuated ==
    [][\A x \in Names : (pc = "drain" /\ sts'[x].want < sts[x].want)
          => <<x, sts[x].want>> \notin load]_vars

=============================================================================
