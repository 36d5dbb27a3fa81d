---------------------------- MODULE EMQXReconcile ----------------------------
(***************************************************************************)
(* The reconcile loop of the v2beta1 EMQX controller: how one EMQX         *)
(* resource is driven through a blue-green update of its core nodes (a     *)
(* StatefulSet per revision) and its replicant nodes (a ReplicaSet per     *)
(* revision).                                                              *)
(*                                                                         *)
(* Reconcile runs its sub-reconcilers in a fixed order on one in-memory    *)
(* copy of the resource.  The model gives each sub-reconciler that reads   *)
(* or writes node sets, pods or the resource's status an action of its     *)
(* own, in that order, and splits a sub-reconciler where the operator can  *)
(* stop between two writes.  Between any two actions the user, the         *)
(* StatefulSet and ReplicaSet controllers and the pods take steps.         *)
(***************************************************************************)
EXTENDS Integers, FiniteSets, EMQXStatus

CONSTANTS
    Templates,     \* pod templates a spec can ask for
    BadTemplates,  \* templates whose pods never start
    Digest,        \* what computeHash sees of each template
    NoTpl,         \* no replicantTemplate in the spec
    NoRev,         \* the empty revision
    InitSpec,      \* the spec the resource is created with
    EditSpecs,     \* for each edit, the specs the user may change it to
    MaxReplicas,   \* bound on the replicas of one node set
    MaxCollision,  \* bound on status.collisionCount
    HistoryLimit,  \* spec.revisionHistoryLimit
    MaxEdits,      \* bound on spec edits
    MaxFaults,     \* bound on faults
    Faults,        \* the kinds of fault that may happen
    PromptSets,    \* TRUE: the set controllers have created every pod asked
                   \* for before the next pass starts
    EditWhen,      \* for each edit, the conditions on which the user makes it
    StaleReads     \* TRUE: a read of the resource may return the version
                   \* before the last one (the informer cache lags)

Kinds == {"core", "repl"}
Rev == {Digest[t] : t \in Templates} \X (0..MaxCollision)
Idx == 1..MaxReplicas
Pod == Kinds \X Rev \X Idx

\* A pass dies or one of its calls to the API server fails; a call to the
\* EMQX API fails; the write of updateEMQXStatus is lost; a pod goes down.
FaultKinds == {"pass", "emqxAPI", "statusWrite", "pod"}

Specs == [tpl : [Kinds -> Templates \cup {NoTpl}],
          n : [Kinds -> 0..MaxReplicas]]

ASSUME ConstantsAssumption ==
    /\ MaxReplicas \in Nat /\ MaxCollision \in Nat /\ HistoryLimit \in Nat
    /\ MaxEdits \in Nat /\ MaxFaults \in Nat
    /\ StaleReads \in BOOLEAN /\ PromptSets \in BOOLEAN
    /\ EditWhen \in [1..MaxEdits -> SUBSET (CondTypes \cup {NoCond})]
    /\ Faults \subseteq FaultKinds
    /\ BadTemplates \subseteq Templates
    /\ NoTpl \notin Templates
    /\ NoRev \notin Rev
    /\ \A s \in {InitSpec} \cup UNION {EditSpecs[i] : i \in 1..MaxEdits} :
          s \in Specs /\ s.tpl["core"] # NoTpl /\ s.n["core"] > 0

VARIABLES
    cr,      \* the stored resource: [spec, status]
    prev,    \* the version before it, which a lagging cache still returns
    sets,    \* the StatefulSets ("core") and ReplicaSets ("repl")
    clock,   \* the creation time of the newest of them
    pods,    \* the existing pods
    up,      \* the pods whose containers are ready, their EMQX node running
    gate,    \* the pods whose readiness gate PodOnServing is True
    pc,      \* the sub-reconciler the running pass is at, or "idle"
    mem,     \* the pass's in-memory copy of the resource
    base,    \* the version mem was read from (its resourceVersion)
    req,     \* the pass has a requester, i.e. a core pod to send API calls to
    edits, faults,
    proven,  \* history: the node sets that were seen with all their pods
             \* ready since they last became the stored update set
    served   \* history: "yes" once a set of core nodes was seen fully ready,
             \* "excused" once a pod or a call to the EMQX API has failed

crVars == <<cr, prev>>
podVars == <<pods, up, gate>>
memVars == <<mem, base, req>>
setVars == <<sets, clock>>
vars == <<cr, prev, sets, clock, pods, up, gate, pc, mem, base, req, edits,
          faults, proven, served>>
histVars == <<proven, served>>

Statuses == [conds : Conditions,
             upd : [Kinds -> Rev \cup {NoRev}],
             cur : [Kinds -> Rev \cup {NoRev}],
             coll : [Kinds -> 0..MaxCollision],
             replicas : [Kinds -> 0..MaxReplicas],
             nodes : SUBSET Pod]

Resources == [spec : Specs, status : Statuses]

\* born is the creation time, by which the sets are sorted; 0 is a set that
\* does not exist.
SetRecords == [born : Nat, want : 0..MaxReplicas, tpl : Templates]

Steps == {"idle", "conds1", "status1", "addCore", "coreStatus", "addRepl",
          "replStatus", "conds2", "status2", "syncPods", "syncSets"}

Services == {"no", "yes", "excused"}

TypeOK ==
    /\ cr \in Resources /\ prev \in Resources
    /\ sets \in [Kinds -> [Rev -> SetRecords]]
    /\ clock \in Nat
    /\ pods \in SUBSET Pod /\ up \in SUBSET pods /\ gate \in SUBSET pods
    /\ pc \in Steps
    /\ mem \in Resources /\ base \in Resources /\ req \in BOOLEAN
    /\ edits \in 0..MaxEdits /\ faults \in 0..MaxFaults
    /\ proven \in SUBSET (Kinds \X Rev) /\ served \in Services

-----------------------------------------------------------------------------
(* Reading the node sets.                                                  *)

Exists(k, r) == r \in Rev /\ sets[k][r].born > 0

SetPods(k, r) == {p \in pods : p[1] = k /\ p[2] = r}

ReadyPods(k, r) == SetPods(k, r) \cap up \cap gate

KindPods(k) == {p \in pods : p[1] = k}

\* getStateFulSetList / getReplicaSetList: the sets that are neither the
\* update nor the current one.
Old(k, st) == {r \in Rev : Exists(k, r) /\ r \notin {st.upd[k], st.cur[k]}}

OlderThan(k, r, S) == {q \in S : sets[k][q].born < sets[k][r].born}

IsExistReplicant(sp) == sp.tpl["repl"] # NoTpl /\ sp.n["repl"] > 0

\* getNewStatefulSet / getNewReplicaSet: the hash is taken before the
\* dashboard ports of the config are merged into the template.
PreHash(k) == <<Digest[mem.spec.tpl[k]], mem.status.coll[k]>>

-----------------------------------------------------------------------------
(* The stored resource, its versions, and the pass's copy.                 *)

InitStatus ==
    [conds |-> NoConditions,
     upd |-> [k \in Kinds |-> NoRev], cur |-> [k \in Kinds |-> NoRev],
     coll |-> [k \in Kinds |-> 0], replicas |-> [k \in Kinds |-> 0],
     nodes |-> {}]

InitCR == [spec |-> InitSpec, status |-> InitStatus]

\* A new version of the resource is stored.
Store(new) == cr' = new /\ prev' = IF new = cr THEN prev ELSE cr

\* What a read through the cache may return.
Readable == {cr} \cup (IF StaleReads THEN {prev} ELSE {})

\* The pass is over: finished, failed and requeued, or its process died.
EndPass == pc' = "idle" /\ mem' = InitCR /\ base' = InitCR /\ req' = FALSE

\* history: the sets that become the update set when status st is stored.
Renewed(st) == {kr \in proven : /\ kr[2] = st.upd[kr[1]]
                                /\ kr[2] # cr.status.upd[kr[1]]}

\* Client.Status().Update(ctx, instance): refused with a conflict when
\* instance was read from another version than the stored one.  The conflict
\* is a common error: the pass ends and is requeued.  full: the sets that
\* were just seen with all their pods ready.
StatusUpdate(st, next, full) ==
    IF base = cr
    THEN /\ Store([cr EXCEPT !.status = st])
         /\ proven' = (proven \ Renewed(st)) \cup full
         /\ mem' = [cr EXCEPT !.status = st] /\ base' = mem'
         /\ pc' = next /\ UNCHANGED req
    ELSE EndPass /\ UNCHANGED <<crVars, proven>>

\* A fault happens, within the bound.
Fault(f) == f \in Faults /\ faults < MaxFaults /\ faults' = faults + 1

-----------------------------------------------------------------------------
(* The sub-reconcilers.                                                    *)

\* Reconcile reads the resource; newRequester looks for a core pod to talk
\* to, once for the whole pass.
Start ==
    /\ pc = "idle"
    /\ PromptSets =>
          \A k \in Kinds, r \in Rev :
             Exists(k, r) => Cardinality(SetPods(k, r)) >= sets[k][r].want
    /\ \E got \in Readable : mem' = got /\ base' = got
    /\ req' = (KindPods("core") \cap up # {})
    /\ pc' = "conds1"
    /\ UNCHANGED <<crVars, setVars, podVars, edits, faults, histVars>>

\* checkInCluster: the pod's node is listed in the status.
InCluster(p) ==
    /\ p \in mem.status.nodes
    /\ p[1] = "core" \/ IsExistReplicant(mem.spec)

\* Variant: the current sets' pods stop serving without waiting for Available.
updatePodConditionsTooEarly(at, next) ==
    /\ pc = at
    /\ LET ofUpdate == {p \in up : p[2] = mem.status.upd[p[1]]}
           ofCurrent == {p \in up : p[2] = mem.status.cur[p[1]]}
       IN  gate' = (gate \ (ofUpdate \cup ofCurrent))
                      \cup {p \in ofUpdate : InCluster(p)}
    /\ pc' = next
    /\ UNCHANGED <<crVars, setVars, pods, up, memVars, edits, faults,
                   histVars>>

\* updatePodConditions: pods of the update sets serve once their node is in
\* the cluster; pods of the current sets stop serving once the cluster is
\* Available.  Pods whose containers are not ready keep their gate.  An
\* Enterprise node is also asked whether it is available: without a requester,
\* or when the call fails, the answer is no.
updatePodConditions(at, next) ==
    /\ pc = at
    /\ LET ofUpdate == {p \in up : p[2] = mem.status.upd[p[1]]}
           ofCurrent == {p \in up : p[2] = mem.status.cur[p[1]]} \ ofUpdate
           retired == IF IsConditionTrue(mem.status.conds, "Available")
                      THEN ofCurrent ELSE {}
           serving(S) == gate' = (gate \ (ofUpdate \cup retired)) \cup S
           joined == {p \in ofUpdate : InCluster(p)}
       IN  \/ serving(joined) /\ UNCHANGED <<faults, served>>
           \/ ~req /\ serving({}) /\ UNCHANGED <<faults, served>>
           \/ /\ Fault("emqxAPI") /\ served' = "excused"
              /\ \E p \in joined : serving(joined \ {p})
    /\ pc' = next
    /\ UNCHANGED <<crVars, setVars, pods, up, memVars, edits, proven>>

\* Variant: one ready pod is enough for the set to be ready.
ObserveAnyReady(st, sp) ==
    LET readyIn(k) == Cardinality(ReadyPods(k, st.upd[k]))
        running(k) == Cardinality({p \in st.nodes : p[1] = k})
        same(k) == running(k) = st.replicas[k] /\ st.upd[k] = st.cur[k]
    IN  [existRepl |-> IsExistReplicant(sp),
         coreReady |-> readyIn("core") # 0, replReady |-> readyIn("repl") # 0,
         settled |-> same("core") /\ (IsExistReplicant(sp) => same("repl")),
         coreLost |-> readyIn("core") # st.replicas["core"],
         replLost |-> readyIn("repl") # st.replicas["repl"]]

\* What the status machine reads, for status st and spec sp.
Observe(st, sp) ==
    LET readyIn(k) == Cardinality(ReadyPods(k, st.upd[k]))
        running(k) == Cardinality({p \in st.nodes : p[1] = k})
        full(k) == /\ Exists(k, st.upd[k])
                   /\ readyIn(k) # 0 /\ readyIn(k) = sp.n[k]
        lost(k) == Exists(k, st.upd[k]) /\ readyIn(k) # st.replicas[k]
        same(k) == running(k) = st.replicas[k] /\ st.upd[k] = st.cur[k]
    IN  [existRepl |-> IsExistReplicant(sp),
         coreReady |-> full("core"), replReady |-> full("repl"),
         settled |-> same("core") /\ (IsExistReplicant(sp) => same("repl")),
         coreLost |-> lost("core"), replLost |-> lost("repl")]

\* The replica counts come from the spec, and a kind's first revision is
\* also its current one.
Refreshed(st, sp) ==
    [st EXCEPT
        !.replicas = [k \in Kinds |-> IF sp.tpl[k] = NoTpl
                                      THEN st.replicas[k] ELSE sp.n[k]],
        !.cur = [k \in Kinds |-> IF st.cur[k] = NoRev
                                 THEN st.upd[k] ELSE st.cur[k]]]

\* Variant: a drained current set is kept.
NeedsCurrentIfGone(k, st) == Exists(k, st.upd[k]) /\ ~Exists(k, st.cur[k])

\* The current set is gone or drained: another set takes its place.
NeedsCurrent(k, st) ==
    /\ Exists(k, st.upd[k])
    /\ \/ ~Exists(k, st.cur[k])
       \/ st.upd[k] # st.cur[k] /\ SetPods(k, st.cur[k]) = {}

\* Variant: old sets that still have pods are skipped.
NextCurrentIsUpdate(k, st) == st.upd[k]

\* The oldest old set that still has pods, or else the update set.
NextCurrent(k, st) ==
    LET busy == {r \in Old(k, st) : SetPods(k, r) # {}}
    IN  IF busy = {} THEN st.upd[k]
        ELSE CHOOSE r \in busy : OlderThan(k, r, busy) = {}

\* history: the update sets that have every pod the spec asks for ready
FullNow(st, sp) ==
    LET isFull(k) == /\ Exists(k, st.upd[k]) /\ sp.n[k] > 0
                     /\ Cardinality(ReadyPods(k, st.upd[k])) = sp.n[k]
    IN  {<<k, st.upd[k]>> : k \in {k \in Kinds : isFull(k)}}

Record(full) ==
    served' = IF served = "no" /\ \E kr \in full : kr[1] = "core"
              THEN "yes" ELSE served

\* updateStatus when it finds a current set to replace: it stores the status
\* and returns at once, without a step of the status machine.
updateStatusCurrent(at, next, k) ==
    /\ pc = at
    /\ LET st == Refreshed(mem.status, mem.spec)
       IN  /\ NeedsCurrent(k, st)
           /\ k = "repl" => ~NeedsCurrent("core", st)
           /\ StatusUpdate([st EXCEPT !.cur[k] = NextCurrent(k, st)], next, {})
    /\ UNCHANGED <<setVars, podVars, edits, faults, served>>

\* updateStatus without a requester: nothing is stored.
updateStatusNoRequester(at, next) ==
    /\ pc = at /\ ~req
    /\ LET st == Refreshed(mem.status, mem.spec)
       IN  /\ \A k \in Kinds : ~NeedsCurrent(k, st)
           /\ mem' = [mem EXCEPT !.status = st]
    /\ pc' = next
    /\ UNCHANGED <<crVars, setVars, podVars, base, req, edits, faults,
                   histVars>>

\* updateStatus: lists the nodes (a failed call leaves an empty list) and
\* takes one step of the status machine.  If nodes are listed while the
\* current StatefulSet is unknown, currentSts.UID is a nil dereference.
updateStatusNodes(at, next) ==
    /\ pc = at /\ req
    /\ LET st == Refreshed(mem.status, mem.spec)
           step(nodes) == LET s == [st EXCEPT !.nodes = nodes]
                          IN  [s EXCEPT !.conds =
                                 NextStatus(@, Observe(s, mem.spec))]
           full == FullNow(st, mem.spec)
           panics(nodes) == /\ ~Exists("core", st.cur["core"])
                            /\ \E p \in nodes : p[1] = "core"
       IN  /\ \A k \in Kinds : ~NeedsCurrent(k, st)
           /\ \/ /\ ~panics(up)
                 /\ StatusUpdate(step(up), next, full)
                 /\ Record(full)
                 /\ UNCHANGED faults
              \/ /\ Fault("emqxAPI")
                 /\ StatusUpdate(step({}), next, full)
                 /\ served' = "excused"
              \/ /\ panics(up)
                 /\ EndPass
                 /\ UNCHANGED <<crVars, faults, histVars>>
    /\ UNCHANGED <<setVars, podVars, edits>>

updateStatus(at, next) ==
    \/ \E k \in Kinds : updateStatusCurrent(at, next, k)
    \/ updateStatusNoRequester(at, next)
    \/ updateStatusNodes(at, next)

AddStep(k) == IF k = "core" THEN "addCore" ELSE "addRepl"
StatusStep(k) == IF k = "core" THEN "coreStatus" ELSE "replStatus"
AfterAdd(k) == IF k = "core" THEN "addRepl" ELSE "conds2"

\* addRepl needs a replicant template and ready core nodes.
MayAdd(k) ==
    k = "repl" => /\ mem.spec.tpl["repl"] # NoTpl
                  /\ IsConditionTrue(mem.status.conds, "CoreNodesReady")

\* There is no update set, or its pod template is not the wanted one.
Differs(k) ==
    Exists(k, mem.status.upd[k]) =>
        sets[k][mem.status.upd[k]].tpl # mem.spec.tpl[k]

\* The set to create exists already while an update is in progress, and it
\* is the current set: the spec was rolled back.
IsRevert(k) ==
    /\ GetLastTrueCondition(mem.status.conds)
          \notin {NoCond, "Available", "Ready"}
    /\ PreHash(k) = mem.status.cur[k]

addNothing(k) ==
    /\ pc = AddStep(k)
    /\ \/ ~MayAdd(k)
       \/ ~Differs(k) /\ sets[k][mem.status.upd[k]].want = mem.spec.n[k]
    /\ pc' = AfterAdd(k)
    /\ UNCHANGED <<crVars, setVars, podVars, memVars, edits, faults, histVars>>

addCreate(k) ==
    /\ pc = AddStep(k) /\ MayAdd(k) /\ Differs(k)
    /\ ~Exists(k, PreHash(k))
    /\ sets' = [sets EXCEPT ![k][PreHash(k)] =
                   [born |-> clock + 1, want |-> mem.spec.n[k],
                    tpl |-> mem.spec.tpl[k]]]
    /\ clock' = clock + 1
    /\ pc' = StatusStep(k)
    /\ UNCHANGED <<crVars, podVars, memVars, edits, faults, histVars>>

addRevert(k) ==
    /\ pc = AddStep(k) /\ MayAdd(k) /\ Differs(k)
    /\ Exists(k, PreHash(k)) /\ IsRevert(k)
    /\ pc' = StatusStep(k)
    /\ UNCHANGED <<crVars, setVars, podVars, memVars, edits, faults, histVars>>

\* AlreadyExists: the collision count changes the next hash.  The error of
\* Status().Update is ignored, the pass ends with a requeue.
addCollide(k) ==
    /\ pc = AddStep(k) /\ MayAdd(k) /\ Differs(k)
    /\ Exists(k, PreHash(k)) /\ ~IsRevert(k)
    /\ mem.status.coll[k] < MaxCollision
    /\ IF base = cr
       THEN Store([cr EXCEPT !.status =
                      [mem.status EXCEPT !.coll[k] = @ + 1]])
       ELSE UNCHANGED crVars
    /\ EndPass
    /\ UNCHANGED <<setVars, podVars, edits, faults, histVars>>

\* Same template, other replicas: the update set is changed in place.
addUpdate(k) ==
    /\ pc = AddStep(k) /\ MayAdd(k) /\ ~Differs(k)
    /\ sets[k][mem.status.upd[k]].want # mem.spec.n[k]
    /\ sets' = [sets EXCEPT ![k][mem.status.upd[k]].want = mem.spec.n[k]]
    /\ pc' = StatusStep(k)
    /\ UNCHANGED <<crVars, clock, podVars, memVars, edits, faults, histVars>>

\* Variant: the conditions of the finished update stay.
ProgressingKeepsReady(k, st, h) ==
    [st EXCEPT !.conds = SetCondition(@, IF k = "core"
                                         THEN "CoreNodesProgressing"
                                         ELSE "ReplicantNodesProgressing"),
               !.upd[k] = h]

\* The status after a set was created, reverted to or updated.
Progressing(k, st, h) ==
    LET first == IF k = "core" THEN "CoreNodesProgressing"
                               ELSE "ReplicantNodesProgressing"
        undone == {"Ready", "Available",
                   IF k = "core" THEN "CoreNodesReady"
                                 ELSE "ReplicantNodesReady"}
    IN  [st EXCEPT !.conds = RemoveConditions(SetCondition(@, first), undone),
                   !.upd[k] = h]

\* updateEMQXStatus: reads the resource again and stores the new revision,
\* retrying on conflict.  When the retries fail the error is ignored and the
\* pass goes on with the copy in memory.
updateEMQXStatus(k) ==
    /\ pc = StatusStep(k)
    /\ LET h == PreHash(k)
           new(v) == [v EXCEPT !.status = Progressing(k, @, h)]
       IN  \/ /\ Store(new(cr)) /\ mem' = new(cr) /\ base' = new(cr)
              /\ proven' = proven \ Renewed(new(cr).status)
              /\ UNCHANGED faults
           \/ /\ Fault("statusWrite")
              /\ \E got \in Readable : mem' = new(got) /\ base' = got
              /\ UNCHANGED <<crVars, proven>>
    /\ pc' = AfterAdd(k)
    /\ UNCHANGED <<setVars, podVars, req, edits, served>>

\* One sub-reconciler for each kind of node.
addNodes(k) == \/ addNothing(k) \/ addCreate(k) \/ addRevert(k)
               \/ addCollide(k) \/ addUpdate(k) \/ updateEMQXStatus(k)

addCore == addNodes("core")
addRepl == addNodes("repl")

\* syncPods may drain the current ReplicaSet.
DrainRs ==
    /\ Exists("repl", mem.status.upd["repl"])
    /\ Exists("repl", mem.status.cur["repl"])
    /\ mem.status.upd["repl"] # mem.status.cur["repl"]

\* syncPods may drain the current StatefulSet.
DrainSts ==
    /\ ~DrainRs
    /\ Exists("core", mem.status.upd["core"])
    /\ Exists("core", mem.status.cur["core"])
    /\ mem.status.upd["core"] # mem.status.cur["core"]
    /\ IsExistReplicant(mem.spec) =>
          mem.status.upd["repl"] = mem.status.cur["repl"]

\* Variant: pods are drained while the update is still in progress.
MaySyncAlways == req

\* syncPods needs a requester and the condition Available.
MaySync == req /\ IsConditionTrue(mem.status.conds, "Available")

\* Variant: any pod of the set will do, the one of the last ordinal is not
\* looked up.
ScaleDownAnyPod(k) ==
    /\ pc = "syncPods" /\ MaySync
    /\ LET r == mem.status.cur[k]
       IN  /\ SetPods(k, r) # {}
           /\ sets' = [sets EXCEPT ![k][r].want = @ - 1]
    /\ pc' = "syncSets"
    /\ UNCHANGED <<crVars, clock, podVars, memVars, edits, faults, histVars>>

\* One replica less of the current set.  A ReplicaSet must still have a pod,
\* a StatefulSet the pod of its last ordinal.
ScaleDown(k) ==
    /\ pc = "syncPods" /\ MaySync
    /\ LET r == mem.status.cur[k]
       IN  /\ sets[k][r].want > 0
           /\ IF k = "repl" THEN SetPods(k, r) # {}
                            ELSE <<k, r, sets[k][r].want>> \in pods
           /\ sets' = [sets EXCEPT ![k][r].want = @ - 1]
    /\ pc' = "syncSets"
    /\ UNCHANGED <<crVars, clock, podVars, memVars, edits, faults, histVars>>

syncPodsScale ==
    \/ DrainRs /\ ScaleDown("repl")
    \/ DrainSts /\ ScaleDown("core")

\* The ReplicaSet asks for no pod and one is left: the code takes one more
\* off, the API server refuses a negative number, and the error ends the pass.
syncPodsRefused ==
    /\ pc = "syncPods" /\ MaySync /\ DrainRs
    /\ LET r == mem.status.cur["repl"]
       IN  SetPods("repl", r) # {} /\ sets["repl"][r].want = 0
    /\ EndPass
    /\ UNCHANGED <<crVars, setVars, podVars, edits, faults, histVars>>

\* Nothing to drain, or not yet: the delays, the evacuation and the takeover
\* wait of canBeScaleDownRs and canBeScaleDownSts.
syncPodsWait ==
    /\ pc = "syncPods"
    /\ pc' = "syncSets"
    /\ UNCHANGED <<crVars, setVars, podVars, memVars, edits, faults, histVars>>

\* Variant: whatever the old sets still run.
ExpiredAny(k) ==
    LET old == Old(k, mem.status)
    IN  {r \in old : Cardinality(OlderThan(k, r, old))
                        < Cardinality(old) - HistoryLimit}

\* syncSets: of the old sets, the oldest beyond the history limit are
\* deleted if they have no pods and ask for none.
Expired(k) ==
    LET old == Old(k, mem.status)
    IN  {r \in old : /\ Cardinality(OlderThan(k, r, old))
                          < Cardinality(old) - HistoryLimit
                     /\ SetPods(k, r) = {} /\ sets[k][r].want = 0}

syncSets ==
    /\ pc = "syncSets"
    /\ sets' = IF IsConditionTrue(mem.status.conds, "Ready")
               THEN [k \in Kinds |-> [r \in Rev |->
                        IF r \in Expired(k)
                        THEN [sets[k][r] EXCEPT !.born = 0]
                        ELSE sets[k][r]]]
               ELSE sets
    /\ EndPass
    /\ UNCHANGED <<crVars, clock, podVars, edits, faults, histVars>>

\* The operator is killed, loses its leadership, or a call it makes fails.
PassFails ==
    /\ pc # "idle" /\ Fault("pass")
    /\ EndPass
    /\ UNCHANGED <<crVars, setVars, podVars, edits, histVars>>

SubReconcilers ==
    \/ Start
    \/ updatePodConditions("conds1", "status1")
    \/ updateStatus("status1", "addCore")
    \/ addCore
    \/ addRepl
    \/ updatePodConditions("conds2", "status2")
    \/ updateStatus("status2", "syncPods")
    \/ syncPodsScale
    \/ syncPodsRefused
    \/ syncPodsWait
    \/ syncSets

-----------------------------------------------------------------------------
(* The environment: the user, the set controllers and the pods.            *)

Edit ==
    /\ edits < MaxEdits
    /\ GetLastTrueCondition(cr.status.conds) \in EditWhen[edits + 1]
    /\ \E s \in EditSpecs[edits + 1] \ {cr.spec} : Store([cr EXCEPT !.spec = s])
    /\ edits' = edits + 1
    /\ UNCHANGED <<setVars, podVars, pc, memVars, faults, histVars>>

\* A StatefulSet creates its pods in ordinal positions, all at once; a
\* ReplicaSet creates and removes any.
CreatePod ==
    /\ \E p \in Pod \ pods :
          /\ Exists(p[1], p[2])
          /\ IF p[1] = "core" THEN p[3] <= sets[p[1]][p[2]].want
             ELSE Cardinality(SetPods(p[1], p[2])) < sets[p[1]][p[2]].want
          /\ pods' = pods \cup {p}
    /\ UNCHANGED <<crVars, setVars, up, gate, pc, memVars, edits, faults,
                   histVars>>

DeletePod ==
    /\ \E p \in pods :
          /\ IF p[1] = "core" THEN p[3] > sets[p[1]][p[2]].want
             ELSE Cardinality(SetPods(p[1], p[2])) > sets[p[1]][p[2]].want
          /\ pods' = pods \ {p} /\ up' = up \ {p} /\ gate' = gate \ {p}
    /\ UNCHANGED <<crVars, setVars, pc, memVars, edits, faults, histVars>>

PodUp ==
    /\ \E p \in pods \ up : /\ sets[p[1]][p[2]].tpl \notin BadTemplates
                            /\ up' = up \cup {p}
    /\ UNCHANGED <<crVars, setVars, pods, gate, pc, memVars, edits, faults,
                   histVars>>

PodDown ==
    /\ Fault("pod") /\ served' = "excused"
    /\ \E p \in up : up' = up \ {p}
    /\ UNCHANGED <<crVars, setVars, pods, gate, pc, memVars, edits, proven>>

Environment == Edit \/ CreatePod \/ DeletePod \/ PodUp \/ PodDown

Init ==
    /\ cr = InitCR /\ prev = InitCR
    /\ sets = [k \in Kinds |-> [r \in Rev |->
                  [born |-> 0, want |-> 0, tpl |-> InitSpec.tpl["core"]]]]
    /\ clock = 0
    /\ pods = {} /\ up = {} /\ gate = {}
    /\ pc = "idle" /\ mem = InitCR /\ base = InitCR /\ req = FALSE
    /\ edits = 0 /\ faults = 0
    /\ proven = {} /\ served = "no"

Next == SubReconcilers \/ PassFails \/ Environment

Spec == Init /\ [][Next]_vars

(***************************************************************************)
(* Fairness.  The work queue runs every requested pass, a pass always      *)
(* reaches its next call, the set controllers and the kubelet keep         *)
(* working.  A drain that is possible again and again is not put off for   *)
(* ever: the delays and the evacuation it waits for end.                   *)
(***************************************************************************)
Fairness ==
    /\ WF_vars(SubReconcilers)
    /\ SF_vars(syncPodsScale)
    /\ WF_vars(CreatePod) /\ WF_vars(DeletePod) /\ WF_vars(PodUp)

FairSpec == Spec /\ Fairness

-----------------------------------------------------------------------------
(* Properties.                                                             *)

\* The node kinds the resource in memory asks for.
Wanted == {"core"} \cup (IF IsExistReplicant(mem.spec) THEN {"repl"} ELSE {})

UpdateProven == \A k \in Wanted : <<k, mem.status.upd[k]>> \in proven

\* syncPods takes a pod away from a set that is not the update set only
\* after the update sets of every wanted kind have had all their pods ready
\* since they became the update sets, whatever crashes, lost status writes
\* and spec edits came before.  (An edit of the replicas alone changes no
\* update set: a set that was ready counts as such at its new size.)
ScaleDownAfterUpdateReady ==
    [][\A k \in Kinds, r \in Rev :
          (sets'[k][r].want < sets[k][r].want /\ r # mem.status.upd[k])
            => UpdateProven]_vars

\* A pod that is not of an update set loses its readiness gate, and with it
\* its place in the Services, only after the update sets were ready.
RetireAfterUpdateReady ==
    [][\A p \in gate \ gate' :
          (p \in pods' /\ p[2] # mem.status.upd[p[1]]) => UpdateProven]_vars

\* A resource that reports Ready has no core update left to do: its current
\* revision is its update revision.  It holds of the stored resource and of
\* every copy a pass works on.
ReadyIsSettled ==
    \A v \in {cr, prev, mem, base} :
       IsConditionTrue(v.status.conds, "Ready")
         => v.status.upd["core"] = v.status.cur["core"]

\* syncSets only ever deletes a node set that has no pods, asks for none and
\* is neither the stored update revision nor the stored current one.  (When
\* reads lag it may be the update set of replicants, if none are asked for.)
DeletedSetsAreRetired ==
    [][\A k \in Kinds, r \in Rev :
          (sets[k][r].born > 0 /\ sets'[k][r].born = 0)
            => /\ SetPods(k, r) = {} /\ sets[k][r].want = 0
               /\ r \notin {cr.status.upd[k], cr.status.cur[k]}]_vars

\* Once core nodes have been ready, a core pod is ready in every state, as
\* long as no pod and no call to the EMQX API fails and no edit changes the
\* number of core nodes: an update, finished or rolled back, over crashes, lost
\* status writes and stale reads, never leaves the Service without an endpoint.
KeepsServing == served = "yes" => \E r \in Rev : ReadyPods("core", r) # {}

\* When the user stops editing the spec, the resource becomes Ready and
\* stays so with the asked templates deployed.
EventuallyReady ==
    <>[](/\ IsConditionTrue(cr.status.conds, "Ready")
         /\ LET st == cr.status IN
            /\ Exists("core", st.upd["core"])
            /\ sets["core"][st.upd["core"]].tpl = cr.spec.tpl["core"])

\* When the user stops editing the spec, every set but the update set loses
\* all its pods.
OldSetsDrained ==
    <>[](\A k \in Kinds, r \in Rev :
            r # cr.status.upd[k] => SetPods(k, r) = {})

\* A resource that is Ready for good retains at most revisionHistoryLimit old
\* sets of each kind ("the number of old ReplicaSets, old StatefulSet ... to
\* retain", emqx_types.go:76): syncSets gets to delete the others in the end.
OldSetsRetained ==
    <>[]IsConditionTrue(cr.status.conds, "Ready")
      => <>[](\A k \in Kinds : Cardinality(Old(k, cr.status)) <= HistoryLimit)

=============================================================================
