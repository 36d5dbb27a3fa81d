# A TLA+ model of the EMQX operator

The EMQX operator is a Kubernetes operator: controllers that watch custom
resources (`EMQX`, `Rebalance`, and the older `EmqxBroker`, `EmqxEnterprise`,
`EmqxPlugin`) and bring the cluster to what the resources ask for. This
directory models the parts whose correctness depends on the order of steps of
several actors: the operator, the user, the API server and its caches, the
StatefulSet and ReplicaSet controllers, the pods, the EMQX nodes and the
sidecars in their pods.

Contents: 1 inventory, 2 modules and how they correspond to the code, 3 runs,
bounds and fairness, 4 proofs, 5 what the code does not promise (the
counterexamples), 6 not modelled, 7 plan.

## 1. Inventory

| Component | Source | State it keeps | Operations |
|---|---|---|---|
| EMQX reconcile loop (v2beta1) | `controllers/apps/v2beta1/emqx_controller.go`, `update_emqx_status.go`, `update_pod_conditions.go`, `add_emqx_core.go`, `add_emqx_repl.go`, `sync_sets.go`, `util.go` | nothing of its own: the resource's status, the node sets, the pods' readiness gates | 13 sub-reconcilers in a fixed order on one in-memory copy of the resource |
| Status machine | `status_machine.go`, `apis/apps/v2beta1/status.go` | the condition list in the status | one `nextStatus` per condition |
| syncPods | `sync_pods.go` | the replicas of the old sets, the deletion cost of a pod; evacuations run in EMQX | choose a pod, evacuate its node, scale down |
| syncConfig | `sync_emqx_config.go` | a ConfigMap, an annotation with the last configuration | PUT to the cluster, ConfigMap, annotation |
| Bootstrap secrets, Services, PDBs | `add_bootstrap_resource.go`, `add_headless_svc.go`, `add_svc.go`, `add_pdb.go` | the objects | create or update |
| Port algorithms | `apis/apps/v2beta1/util.go` | none | ports of listeners, gateways and the dashboard; merge with the user's |
| Handler | `internal/handler/handler.go` | last-applied annotation | create or update with a patch |
| Rebalance controller | `rebalance_controller.go`, `apis/apps/v2beta1/rebalance_types.go` | phase, conditions, rebalance states, a finalizer; the job runs in the EMQX cluster | start, poll, stop through the HTTP API |
| 4.x controllers | `controllers/apps/v1beta4/emqx_controller.go` and its sub-reconcilers | StatefulSets, status with the blue-green update, Endpoints | reconcile chain of their own |
| EmqxPlugin controller | `controllers/apps/v1beta4/emqxplugin_controller.go` | finalizer, the plugins ConfigMap | load, reload, unload through the HTTP API |
| Reloader sidecar | `sidecar/reloader/main.go` | hashes of the files it watches | reload requests |
| Webhooks, conversions | `apis/apps/*` | none | defaulting, validation, conversion |
| Requester | `internal/requester` | none | HTTP; a status code is not an error |

How they interact. The controllers never call each other. They share the API
server: every write that carries the version it was computed from is refused
with a conflict when the object changed since it was read, and every read
through the client's cache may be late. The reconcile loops talk to one EMQX
node over HTTP; the Rebalance controller reads the condition `Ready` and the
node list that the reconcile loop stores; the EmqxPlugin controller writes a
ConfigMap that the kubelet turns into files that the sidecar turns into calls.
Webhooks see every write of a 4.x resource before it is stored.

What is hard here. A pass of a reconcile loop does a dozen writes and can die
between any two of them. The errors of several writes are ignored
(`_ = a.updateEMQXStatus(...)`), so a pass goes on with a copy that is not
stored. The user may edit the spec at any moment, also back to what it was.
The status has two revisions per kind of node, and any number of older node
sets with pods. The Rebalance controller controls a job it can only see
through a global list. An empty list of nodes or of evacuations stands for
"none" and for "the call failed". Nothing tells a sidecar that its reload
request was lost.

What makes each component correct:

* status machine: `Ready` is only said of a resource that has nothing left to
  do;
* reconcile loop: no old pod leaves the Services or is removed before the new
  set was ready; a node set is deleted only when retired; some core pod always
  serves; when edits stop, the resource becomes Ready and old sets are empty;
* syncPods: no Enterprise node goes with sessions on it, nodes are evacuated
  one after the other, and in the end all old pods are gone;
* syncConfig: the annotation never claims a configuration that the cluster or
  the ConfigMap does not have, and every edit arrives;
* bootstrap, Services, handler: the nodes share one cookie and API key; a
  Service has the ports of the running listeners and those of the user, keeps
  its node ports and the annotations of others, and is not rewritten for ever;
* Rebalance: no job without a resource that holds it, no job left after a
  deletion, phases that only move forward, every resource ends;
* 4.x controllers: a blue-green update, one node after the other, evacuated
  first, with clients served all the time, that ends;
* EmqxPlugin and reloader: the last configuration is active on every node; a
  deleted plugin is unloaded everywhere before it goes;
* webhooks and conversions: defaults are idempotent, what a node's data hang
  on never changes, an older client can write back what it read.

The things in this code that a test hardly reaches are listed as hazards, each
at its line, in `PROJECT.json`, with the properties below that are about them.

## 2. Modules

| Module | Models | Instances |
|---|---|---|
| `EMQXStatus` | condition operations and the status machine, as operators | |
| `EMQXReconcile` | one EMQX resource, its node sets and pods, the passes over it | `MCReconcile` |
| `SyncPods` | how an old node set of an EMQX resource is emptied | `MCSyncPods` |
| `ServicePorts` | the port algorithms, as operators | |
| `Handler` | `CreateOrUpdate` and the API server's part of it, as operators | |
| `EMQXConfig` | secrets, configuration, Services and budgets; uses `EMQXStatus`, `ServicePorts`, `Handler` | `MCConfig` |
| `Rebalance` | the Rebalance resources of one cluster and the controller's passes | `MCRebalance` |
| `BlueGreen` | the abstract specification of a blue-green update | |
| `EmqxEnterprise` | the 4.x reconcile loop; implements `BlueGreen` | `MCEnterprise` |
| `EmqxPlugin` | EmqxPlugin controller, kubelet and reloader sidecars | `MCPlugin` |
| `Admission` | defaults, validation and conversions of the 4.x resources; uses `ServicePorts` | `MCAdmission` |
| `EMQXReconcileProofs`, `RebalanceProofs`, `SyncPodsProofs`, `ConfigProofs`, `EnterpriseProofs`, `PluginProofs`, `AdmissionProofs` | proofs about the module of that name (section 4) | |
| `ServicePortsProofs` | proofs about the port lists; used by `ConfigProofs` and `AdmissionProofs` | |

In every module a pass is a program counter `pc` with one action per
sub-reconciler, split where a crash between two writes leaves a state of its
own; `mem` is the pass's copy of the resource and `base` the version it was
read from. A pass ends with `EndPass`: done, requeued or dead, nothing in
memory survives. Definitions that stand before another with a name like
`addListenerOnce` next to `addListener` are variants of it, a plausible slip
each: with the variant in place, TLC finds one of the properties violated.

### EMQXStatus

The code keeps a list of conditions sorted by the time each was set, newest
first, and sets every condition with status True. What the code reads of it is
whether a type is in the list and which one is first. The model keeps the set
of types held and the type set last. No handler removes the condition it set
last, so the two agree as long as clocks do not go back.

### EMQXReconcile

State: `cr` is the stored resource, `prev` the version before it (what a
lagging cache returns; a read lags by one version at most), `sets` the
StatefulSets and ReplicaSets by kind and revision, `pods`, `up` (containers ready) and `gate` (readiness gate
`apps.emqx.io/on-serving`) the pods, and the pass with `req`, whether it has a
requester. `proven` and `served` are history: `proven` has a node set once it
was seen with all the pods the spec asks for ready, until it becomes the
stored update set anew. An edit of the replicas alone changes no update set;
a set that was ready counts as such at its new size.

A template is a value; `Digest` says what `computeHash` sees of it, and a
revision is a digest with a collision count. Two templates with one digest are
the dashboard-port case: the hash is taken before the ports are merged.

| Action | Code |
|---|---|
| `Start` | `Reconcile` reads the resource, `newRequester` |
| `updatePodConditions` | `update_pod_conditions.go`, twice per pass; the availability answer of an Enterprise node may fail |
| `updateStatusCurrent`, `updateStatusNoRequester`, `updateStatusNodes` | the three ways `updateStatus.reconcile` ends, twice per pass; the last one includes the panic on a nil current StatefulSet |
| `addNothing`, `addCreate`, `addRevert`, `addCollide`, `addUpdate` | the branches of `addCore` and `addRepl` |
| `updateEMQXStatus` | a step of its own, since the operator may die between `Create` and it |
| `syncPodsScale`, `syncPodsRefused`, `syncPodsWait` | one replica less of the current set; one less than none, which the API server refuses; not yet |
| `syncSets` | deletion of old sets, end of the pass |
| `PassFails` | the process dies, or a call to the API server fails, anywhere |
| `Edit`, `CreatePod`, `DeletePod`, `PodUp`, `PodDown` | the user, the set controllers, the kubelet |

The sub-reconcilers that are no action here change neither node sets nor
status (`EMQXConfig` has them); a failure of theirs is a `PassFails`.
`syncPodsWait` stands for the initial delay, the evacuation and the takeover
wait: the model may wait as long as it likes, and safety does not depend on
it. `SyncPods` has what happens in that time.

### SyncPods

The update set is available and one old set, a ReplicaSet of replicants or a
StatefulSet of cores, Enterprise or not, is emptied. State: the set (`pods`,
`term`, `cost`, `want`), the nodes (`up`, `sess`, `evac`; `loose` for an
evacuation that was told no target), what the status has stored of them
(`listed`, `nodes`, `first`), the pass with the pod it chose (`victim`) and
the set it read (`seen`).

| Action | Code |
|---|---|
| `updateStatusNodes`, `updateStatusEvacs` | `update_emqx_status.go`: the call for the nodes with their sessions, then the one for the evacuations; each may fail |
| `canBeScaleDownRs` (`...Evacuated`, `...Next`), `canBeScaleDownSts` | `sync_pods.go`, the choice of the pod, the start of an evacuation, the waits, the nil dereference |
| `annotate` | the deletion cost of the chosen pod |
| `scaleDown`, `scaleLags` | one replica less; the cache still shows the pod without its cost |
| `PassFails`, `NodeDown`, `ForeignStarts` | faults |
| `DeletePod`, `PodGone`, `NodeUp`, `Evacuation`, `ForeignEnds`, `DelayOver` | set controllers, kubelet, EMQX, time |

### EMQXConfig, ServicePorts, Handler

A configuration is a function from paths to values, a listener's value its
port. `ServicePorts` has the algorithms of `util.go` on them (it defines
`:>` and `@@` itself, with the meaning they have in the module TLC, which the
modules with proofs do without), `Handler` the
merge of annotations, of node ports and the comparison that decides whether an
object is written. `EMQXConfig` runs them in a pass, against a cache that is
late (`cache`, `seen`), a cluster whose live configuration is `live`, and
nodes that remember the secrets they booted with (`node`).

| Action | Code |
|---|---|
| `Begin` | `Reconcile`, `newRequester` |
| `addCookie`, `addAPIKey`, `CreateRef` | `add_bootstrap_resource.go` |
| `addHeadlessSvc`, `addPdb`, `addSvc` | the sub-reconcilers of these names, through `Handler` |
| `createConfigMap`, `firstAnnotation`, `nothingToSync`, `syncFails`, `putEMQXConfigsByAPI`, `updateConfigMap`, `updateAnnotation` | `sync_emqx_config.go`, one step per write |
| `getEMQXConfigsOfSpec`, `getEMQXConfigsByAPI` | the configuration that the Service's ports come from |
| `updateStatus`, `addCore`, `addRepl` | what of the other sub-reconcilers this pass depends on |
| `Edit`, `DashboardEdit`, `Annotate`, `CacheResource`, `CacheService`, `NodeUp`, `NodeDown`, `PassDies` | users, caches, pods, faults |

### Rebalance

State: `obj` and `prev` the stored resources and their previous versions,
`emqx` the condition the target cluster is found in, `job` the resource whose
job the cluster runs, and the pass (`pc`, `at`, `mem`, `base`, `req`, and
`listed`, whether its copy of the target lists nodes). `done` is history. The
cluster is external: it runs one job at a time.

| Action | Code (`rebalance_controller.go`) |
|---|---|
| `Read` | lines 92-98 |
| `TargetMissing`, `TargetUnfit`, `TargetUnusable`, `TargetFound` | the target, lines 100-183. An `EMQX` that lists no core nodes panics at `CoreNodes[0]`; an `EmqxEnterprise` has no edition check, fails without a ready pod, and may list no nodes, which only `startRebalance` minds (line 287, in `HandlePanic`) |
| `Stop`, `StopPanic`, `NoStop`, `RemoveFinalizer` | deletion, lines 185-191, `stopRebalance` |
| `AddFinalizer` | lines 193-198 |
| `HandleStart`, `HandlePoll`, `HandlePanic`, `HandleDone` | `rebalanceStatusHandler` with `startRebalance` and `getRebalanceStatus` |
| `StoreStatus` | lines 201-219; the finalizer it then removes from a finished resource is removed in memory only, so nothing changes |

### EmqxEnterprise and BlueGreen

State: `cr`/`prev` as above, `sts` the StatefulSets by name (the plain one and
one per template hash and collision), `pods`, `up`, `gate`, `evac` (nodes being
evacuated), `load` (nodes with connections), `endpoints` of the listener
Service, `made` (how many of the default resources exist).

| Action | Code (`controllers/apps/v1beta4`) |
|---|---|
| `Do` | `emqx_controller.go`: read and requester |
| `updateStatusFails`, `updateStatusNotReady`, `updateStatusOne`, `updateStatusTwo` | the ways `update_emqx_status.go` ends, twice per pass |
| `addEmqxPlugins` | the default resources, with a step per creation |
| `addEmqxStatefulSet` | `getNewStatefulSet`, create or update |
| `drainNothing`, `drainFails`, `drainScale`, `drainEvacuate` | `syncStatefulSet` with `canBeScaledDown` and `startEvacuateNodeByAPI`; the index panics |
| `addListener`, `updatePodConditions` | the files of these names |
| `PassFails`, `Edit`, `CreatePod`, `DeletePod`, `PodUp`, `PodDown`, `Connect`, `Evacuated` | faults, user, StatefulSet controller, kubelet, clients, EMQX |

An answer with a status code other than 200 is no error to the 4.x calls: a
refused evacuation goes unnoticed, and the model's `drainEvacuate` goes on.

`BlueGreen` is what such an update promises: a node set loses a replica, or
has a node evacuated, only after another set was seen with all its pods ready,
and one replica at a time. `EmqxEnterprise` instantiates it with `size` the
replicas of the StatefulSets and `draining` the sets with a node in `evac`;
`ImplementsBlueGreen == BG!Spec` is checked as a property.

### EmqxPlugin

`Matches` says which EMQX resources the selector of a plugin matches, any
number for a plugin of the user; a default plugin selects by the labels of its
EMQX, of which the webhook makes one the name, and matches that one only.
State: `plug` the resources, `cmap` the plugins ConfigMap of each EMQX, `file`
what the kubelet has brought into each pod, `removed`, `check` and `due` the
sidecar's file events, the hash it knows and the request it has to make, `run`
the plugins in the nodes, and the pass.

| Action | Code |
|---|---|
| `Reconcile`, `ReconcileDeleted`, `AddFinalizer`, `RemoveFinalizer` | `EmqxPluginReconciler.Reconcile` |
| `checkPluginConfig`, `loadPluginConfig`, `checkPluginStatusByAPI`, `unloadPluginByAPI` | the steps per EMQX, in `emqxplugin_controller.go` |
| `SyncFiles` | the kubelet's update of the volume |
| `HandleEvent` with `updateWatcher`, `requestWebhook` | `sidecar/reloader/main.go` |
| `SidecarRestarts`, `PodRestarts`, `PassFails` | faults |
| `addEmqxPlugins`, `EmqxStarts`, `UserSets`, `UserDeletes` | the 4.x controllers, the user |

### Admission

One resource, stored as v1beta4. `Write3` and `Write4` are the writes of
clients of each version: create from a manifest, update of one field of what
was read, or apply of another manifest. A write of v1beta3 is converted
(`ConvertToBroker`, `ConvertToEnterprise`), defaulted and validated. Fields
that both directions copy alike are one field, `rest`.

## 3. Runs

`tlc -config MCReconcile_core.cfg MCReconcile`, and so on.

| Run | Shows | Bounds |
|---|---|---|
| `reconcile_core` | old pods are drained and taken out of service only after the update set was ready; only retired sets are deleted; Ready means settled | 2 core nodes, 2 templates, 1 edit of template or size at any time, 1 fault of any kind |
| `reconcile_stale` | the same order with stale reads; and some core pod is ready in every state (`KeepsServing`, excused once a pod or an EMQX call has failed) | 1 core node, 2 edits (rollbacks, collisions), 1 fault |
| `reconcile_live` | updates end Ready with the old sets empty, old pods of both roles go last | 1 core, 1 replicant, 2 forward edits when the last one is Available or Ready, 1 pod failure or failed call |
| `syncpods_drain` | no Enterprise pod is deleted with sessions on it (`SessionsAreMoved`), one node is evacuated at a time (`OneByOne`), all old pods go (`OldPodsGo`) | 3 old pods, replicants or cores, 1 session each at most, 1 fault: crash, failed call, node restart, foreign evacuation |
| `config_sync` | the annotation is honest after every step, secrets never change under running nodes, the ports of the listeners Service are always built from the template in hand and the ports read (`ServiceWellFormed`); foreign annotations and node ports stay; configuration and ports arrive; writing ends | 1 core, 1 replicant, 2 events among two successive edits, a dashboard edit, an annotation, and 1 fault: crash, failed call, lost pod; lagging caches; 1 generated password, so that only a replaced cookie shows in the run (`SecretsShared` proves it for both secrets and any passwords) |
| `rebalance_jobs` | jobs are held, Completed is true, phases move forward, a deletion in Processing leaves no job (stop requests do not fail here), every resource ends, a deletion outside Processing ends | 2 resources, every condition the cluster is found in (`ClusterStates`), 1 change of it, 1 fault, stale reads |
| `enterprise_update` | the 4.x loop implements `BlueGreen`; a pod that the drain takes holds no connection, unless a call or a pod failed; clients reach a node; updates end | 2 nodes, 1 edit, 1 fault: crash, failed call, stale read, pod failure |
| `plugin_settles` | the last configuration is active on every node matched (excused when a reload request or its sidecar was lost); a resource with a finalizer goes only when unloaded from all of them, and it goes | 2 EMQX resources of one node, the default plugin of the first and one of the user that matches both, with one plugin name, 2 changes by the user, 1 fault of five kinds |
| `admission_writes` | defaults are idempotent, the identity of a resource never changes, a v1beta3 client can write back what it read | 4 writes through two versions, Broker and Enterprise |

Runs that are expected to fail. Each states what a document or a comment of
the repository says and is refuted by what the code does:

| Run | What happens |
|---|---|
| `reconcile_revert` | an update whose nodes cannot start is rolled back: `updateEMQXStatus` makes the current set the update set, the resource is Ready for good, and the abandoned set keeps its pods and is never deleted, although `revisionHistoryLimit` is zero |
| `config_early` | an edit between the creation of the ConfigMap and the first annotation: the annotation is set to the edited configuration, which never reaches the ConfigMap or the cluster |
| `enterprise_evacuated` | one failed call for the evacuation status leaves a nil list, which `canBeScaledDown` takes for an update that has just begun: a node is removed with its connections |

`OldSetsRetained`, the property of `reconcile_revert`, asks something only of a
resource that is Ready for good. An update whose nodes never start is
never Ready, so its old set rightly keeps its pods: with the edit alone
(`MaxEdits = 1`) TLC finds the property satisfied, in `reconcile_live` too,
and also with the rollback when `updateEMQXStatus` makes the set it abandons
the current one, which is then drained. So it is the rollback, and nothing
else, that refutes it.

### Why the bounds are enough

Where a module has `prev`, a cache that lags by more than one version is
outside it. The interesting cases need two
revisions (a third arises by collision or by a
second edit), a pod that is ready next to one that is not (two core nodes), a
rollback (two edits), and one fault at the worst moment: one fault already
separates every pair of writes of a pass. `MaxCollision` is never the reason a
behaviour stops in the runs that have few edits; where it is reached,
`addCollide` is disabled and the pass can only fail. Three old pods are one
that was drained, one that is being drained and one that is next. Two EMQX
resources are the fewest for which one has been handled by a pass and the
other not. Four writes reach a resource that was created through one version,
changed through the other, and read and written again by the first.

`MaxEvents` of `EMQXConfig` bounds changes and faults together: an edit during
an edit, a fault during an edit, an annotation between read and write.

`rebalance_jobs` and `admission_writes` turn off the deadlock check: when every
resource is gone the controller has nothing left to do, and clients stop
writing at `MaxWrites`. The others keep it, so no pass ever gets stuck.

`TypeOK` is a property of the runs whose module has proofs; `EMQXConfig`,
`EmqxEnterprise`, `EmqxPlugin` and `SyncPods` define it as well, as an aid to
the reader, and it can be added to their configurations.

### Fairness

No fairness is assumed of edits, deletions or faults. Otherwise:

`EMQXReconcile`: the work queue requeues every pass (`RequeueAfter` of one or
thirty seconds), so some step of a pass is always taken (weak fairness of
`SubReconcilers`); the set controllers and the kubelet keep working (weak
fairness of `CreatePod`, `DeletePod`, `PodUp`). `syncPodsScale` is strongly
fair: delays and evacuations end (`SyncPods` shows it), so a drain that is
possible in pass after pass is not put off for ever. `reconcile_live` also
assumes that the set controllers create the pods they are asked for between
two passes (`PromptSets`): `updateStatus` takes a set without pods for a
drained one, and passes are a second apart.

`SyncPods`: weak fairness of passes, controllers, evictions and delays; strong
fairness of `scaleDown`, which the cache delays only now and then. Its
`PromptSets` lets the ReplicaSet controller act before the next pass.

`EMQXConfig`: weak fairness of pass steps, of the caches, of lost pods coming
back, and of the user supplying the Secrets that the API keys refer to.

`Rebalance`: one worker serves the queue in turn, so every resource that can
be read again and again is read (strong fairness of `Read(r)`); a pass reaches
its next call; jobs end; a Ready cluster lists its nodes and has a ready core
pod again after a while; the cache does not show the old version of a resource
for ever.

`EmqxEnterprise`: as `EMQXReconcile`, with strong fairness of `Drain` and weak
fairness of `Evacuated` (an evacuation ends). `EditAnyTime = FALSE` is the
user the documentation speaks of, who starts an update when the last one is
over: the resource is Running, shows no update, has the pods it asks for, and
its one StatefulSet has the template of the last edit.

`EmqxPlugin`: weak fairness of the pass, the kubelet and the sidecars, strong
fairness of `Reconcile(p)`, since one worker serves several resources.
`PromptSidecars`: a sidecar handles its events before the kubelet brings the
next ones, which are about a minute apart.

## 4. Proofs

`tlapm EMQXReconcileProofs.tla`, and so on. A theorem holds for every value of
the constants that the named `ASSUME`s of its module allow: any templates,
sets, sizes, plugins, manifests, and any bounds on edits and faults. A
hypothesis beyond these is part of the theorem's statement, and listed here
with the reason why it is needed. `PROJECT.json` lists the theorems with the
properties they state.

### EMQXReconcileProofs

`IInv` has the types and one fact about all four copies of the resource
(stored, cached, in memory, read): a status that reports `Ready` has no core
update left. It has to be about all of them, since a status computed from a
stale copy is stored and read again. From it:

* `TypeCorrect`. Not only a matter of types: the next current revision is
  chosen as the oldest old set with pods, and `NextCurrentType` shows with
  `LeastNatural` that there is one.
* `ReadyMeansSettled`. The heart is `CurrentReplaced` (updateStatus replaces a
  current revision only when it differs from the update revision, so `Ready`
  cannot hold) and `NextStatusReady`.

`UpdateBeforeScaleDown` and `UpdateBeforeRetire` state the order of an update,
`ScaleDownAfterUpdateReady` and `RetireAfterUpdateReady`. Their invariant,
`EarnedInv`, says what conditions stand for, in every copy: `CoreNodesReady`
is only held while the update set of the core nodes is in `proven`,
`ReplicantNodesReady` likewise, a machine past `CoreNodesProgressing` holds
`CoreNodesReady`, and `Available` holds all that the spec asks for (`Stands`).
Three more conjuncts make it inductive: a copy that names another update set
than the version it was read from does not report it ready (`NewHeld`, for the
write that was lost), a pass that read `CoreNodesReady` finds it stored, and
replicants are added under `CoreNodesReady` only. `NextStatusStands` proves it
of the machine, `ProgressingEarned` of `updateEMQXStatus`, `CopyEarned` and
`PrevEarned` of a write that makes a set the update set anew. A set that does
not exist asks for no pods (`AbsentAskNone`), or its creation could look like
a scale down. Hypothesis `Steady`: either the resource never has replicants,
with reads one version behind, or reads are up to date and no edit turns
replicants on or off. Section 5 has what happens otherwise.

`OnlyRetiredSetsGo` states `DeletedSetsAreRetired`: a pass whose copy reports
`Ready` knows the stored revisions (`ReadyIsFresh`), also after a lost write,
because `updateEMQXStatus` takes `Ready` out of its copy either way.
Hypothesis: reads are up to date. It is needed: section 5 has the late read
that deletes the update set, when that set asks for no replicants.

`CoreKeepsServing` states `KeepsServing`, with the invariant `KeepInv`. At its
centre are keepers: a `Keeper` is a StatefulSet with all its pods asked for
and ready, and listed in the nodes of every status that a pass may act on
(`Live`), so that neither `updatePodConditions` nor `syncPods` touches it
unless it is drained on purpose. `Kept` says that there is one, and that every
version or copy that reports ready core nodes either has a keeper as its
update set or names one set only, so that there is nothing to drain; and that
draining the current set of a copy that is Available takes away no keeper that
another version counts on (`Harmless`). `Asked` is about rollbacks: the only
named set that may have lost replicas is both the update and the current one,
and `updateEMQXStatus` never stores the revision of another (`Passing`,
`HashedSet`). The rest says what the keepers start from: names of sets carry a
digest and a past collision count, and copies that of their version
(`Ground`); a gate is only open on a pod that runs (`Gated`); nothing is
scaled down before a set was ready (`Unserved`); a status with a revision has
left the machine's first states (`Begun`). `FirstKeeper` makes the first
keeper, by counting ready pods (`ReadyIsFull`); `KeeperStep` keeps those that
are not drained, `WithCurrentKept` and `WithNodesKept` follow the two writes
of `updateStatus`, and `NextKept` and `NextPassing` go through the steps.
Hypotheses: `Steady`, and no edit changes the number of core nodes
(`SameSize`; section 5 has what happens otherwise). Stale reads, lost and
refused writes, dying passes, collisions and rollbacks are all included. TLC
has checked `KeepInv` but for `Begun` on every state of instances with one
core node and three edits, and with replicants.

### RebalanceProofs

`TypeCorrect`, `RunningJobIsHeld`, `CompletedIsTrue`, `PhasesMoveForward`, for
any number of resources and stale reads. The invariant adds `PassInv` (what a
pass knows at each step: past `AddFinalizer` the copy has the finalizer and is
of a version that was stored; at `store` a Completed copy means that the job
is over) and `StoreInv` (what two versions of a resource have in common: a
finalizer goes only with a deletion, a phase never returns to "").
`DeletionEndsTheJob` states `DeletionStopsJob` with `StopInv`: a resource that
is Processing has its finalizer, so it goes only through the controller; when
a pass is about to take the finalizer from a version that is Processing, its
job has ended; and an EMQX that is gone runs no job. Hypothesis: stop requests
do not fail; the code ignores their errors.

### SyncPodsProofs

For any number of pods and sessions. `EvacuatesOneByOne` (`OneInv`): of a
ReplicaSet only the pod with the greatest name is ever evacuated, and the
status names no other one that still exists (`RsTop`); of a StatefulSet
sessions only leave the pod that is next to go, and none once a pass has
decided to scale down (`StsWant`). `NoSessionLost` (`MovedInv`): the status
never shows fewer sessions than a node has (`Known`), the pod that a pass has
chosen and those marked or being deleted have none (`Chosen`, `Going`), a
ReplicaSet has at most one pod too many, only between passes, and then one
with a deletion cost (`RsMarked`), which a prompt controller takes
(`SurplusIsDeleted`, by counting), and the pods of a StatefulSet above its
replicas are empty (`StsBelow`). Hypotheses: `PromptSets` and `~AnyTarget`,
both with a counterexample in section 5.

### ServicePortsProofs and ConfigProofs

`MergeApart`, `MergeCovers`, `MergeKeepsFirst` and `MergeIdempotent`: what
`MergeServicePorts` computes for lists of any length. The inductions, here and
for `PlaceExists` (the k-th element in an order), are over natural numbers and
look at the least counterexample, with `NatLessThanWellFounded`.

`SecretsShared`: a node that runs has the stored secrets, and these are set
once (`SecretsInv`). `AnnotationsKept`, `NodePortsKept`: what `CreateOrUpdate`
stores, for any ports (`ObjsInv` and the action `ObjsStay`). `ServiceFormed`
states `ServiceWellFormed`: whenever the ports change they are apart, hold
every port of the template the pass has in hand, and nothing but those and the
ports it has read. `ListenersWanted` shows it of the ports that are asked for
(`MergeKeepsFirst` among others), `SvcBuilt` of those that are stored.
Hypothesis of the three: `NoObj` is not an object.

`AnnotationTruth` states `AnnotationHonest`: when the annotation equals the
spec's configuration, the ConfigMap is made from it and the running cluster has
it. `ConfigMapTruth` states the first half of it alone, which needs less. Both
hold for both
modes of the PUT, for EMQX before and since 5.7.0, with core nodes that keep
their data or not. The invariant of the first, `MapInv`: every copy of the
resource is a version that follows from the stored one (`VersionsInv`); what a
pass with a requester knows of the annotation is stored (`FreshInv`); what the
annotation says of the ConfigMap is true, or will be when it is first written
(`MapTrue`); between the PUT and the annotation the pass carries what its copy
asks for (`MapSync`). The second adds `LiveInv`: there is no configuration in
the cluster before the ConfigMap exists, what the annotation says of it is
true, and from the PUT on it is the one that the pass has put. Hypotheses, each
about what users or pods do, and each needed (section 5 has the
counterexamples):

* both: `Orderly`. An edit of the configuration comes when there is an
  annotation (otherwise run `config_early`), and does not bring back the
  configuration that the annotation still names. An edit back to one that has
  been replaced in the annotation is allowed;
* `AnnotationTruth`: `BootsApart`. No core node boots the cluster anew from the
  ConfigMap between the PUT and the update of the ConfigMap. It says nothing
  of core nodes that keep their data;
* `AnnotationTruth`: `DashboardApart`. Users do not set in the dashboard what a
  spec sets; who does, overrides the spec.

### EnterpriseProofs

`Implementation`: `EmqxEnterprise` implements `BlueGreen`. The pass drains the
origin because of what its copy says, so the invariant `Inv` is about every
version there is: one that shows an update in progress names as current a
StatefulSet that was seen ready and is not the origin. `BlueGreenStep` maps
each action to a step of `BlueGreen` or to a stutter. No hypothesis: the drain
may be unprompt, the reads stale, every call may fail. `TypeCorrect` comes
from the same invariant.

`EvacuatedFirst` states `EvacuatedBeforeScaleDown` and `ClientsServed` states
`ClientsReachANode`. Both rest on `SeqInv`, which says how far an update is:
the first StatefulSet starts (`Fresh`), one runs alone (`Alone`), or an old
one `a` is being replaced by a new one `b` (`Updating(a, b)`), in which case
either `b` serves with all its pods (`Serving`) or nothing of `a` was touched.
The stored resource, its versions and the copy of a pass are tied to the stage:
whoever shows an update shows it of `a`, and once a pass has stored a status
its copy shows what is stored (`Past`), because a pass that has read a stale
version ends with a conflict at its first status update. `Basic` has what
holds of sizes, ages and pods in every stage. Steps: `StageSets` (a pass
deploys the template it has read, under a name that is free), `StatusUpdating`
(the smaller or older StatefulSet in the cluster is the old one; the new one
counts as ready exactly when all its pods are, by counting, `FullSet`) and
`StageLess` (one replica less, or the old one is gone). For `EvacuatedFirst`,
`ReadOf(a)` says that what the pass has read of the evacuations still holds
when it drains: the pod that goes is the last by name (`Ordered`), and was
empty then and takes no new client. For `ClientsServed`, `ServeInv` follows
the Endpoints through an update: nothing was drained yet, or a StatefulSet
that is neither drained nor evacuated has all its pods in them, or the drain
has just happened and the Endpoints are renewed next (`HandingOver`).

Hypotheses. Both: `Sequential`, edits come one after another and leave the
number of replicas alone. `EvacuatedFirst` also: `PromptSets`, and `Ordered`,
pod names sort as their ordinals. Each has its counterexample in section 5 but
`Ordered`, which fails from eleven pods on. The properties themselves excuse
the faults that the code does not survive: `EvacuatedBeforeScaleDown` failed
calls to the EMQX API, `ClientsReachANode` these and passes that die after the
drain; stale reads are included in both.

### PluginProofs

`FinalizerHolds` states `GoneMeansUnloaded`: `Unloading` says that a pass over
the EMQX resources has unloaded the plugin from the nodes of those it has
passed and that the selector matches, that it is past all of them at the
release of the finalizer, and that nobody takes the resource away, or makes it
anew, under the pass. `TypeCorrect` comes from the same invariant.

### AdmissionProofs

`DefaultIs` gives `Default` field by field, `DefaultTwice` shows that it is
idempotent for any labels, annotations, ports and claims, and with it
`DefaultsAreAFixedPoint` and `IdentityIsKept`. `OldClientsAgree` rests on
`RoundTrip`: a resource that came from v1beta3, converted there and back and
defaulted, is the same but for the licence. Hypothesis: no v1beta3 manifest
sets the label `instance` (section 5).

### Only model-checked

Liveness, which needs fairness and `ENABLED`: `EventuallyReady`,
`OldSetsDrained`, `OldPodsGo`, `EventuallySettled`,
`DeletedOutsideProcessingGoes`, `ConfigApplied`, `ServiceFollows`,
`NoEndlessWrites`, `UpdateCompletes`, `PluginSettles`, `DeletionEnds`.

## 5. What the code does not promise

Each of these is a property of a run that fails under other constants, or one
that is defined and belongs to no run. They mark the limits of the results
above.

| Behaviour | Property | How TLC shows it |
|---|---|---|
| the operator dies between `Create` and `updateEMQXStatus` of the first set and the pod starts before the next pass: `currentSts.UID` is a nil dereference in every later pass | `EventuallyReady` | `MCReconcile_revert` with `Faults = {"pass"}`, `MaxFaults = 1`, `MaxEdits = 0`, `EditSpecs <- MCOneEdits`, `EditWhen <- AnyCond`, `BadTemplates = {}` |
| an edit from two core nodes to one while only the second pod is ready: it counts as the one pod asked for, and is then deleted | `KeepsServing` | `MCReconcile_stale` with `InitSpec <- MCCoreInit`, `EditSpecs <- MCCoreEdits`, `MaxReplicas = 2`, `MaxEdits = 1` |
| reads that lag, no replicants asked for: the replicant template is edited to B and back to A while a pass adds the ReplicaSet of B; the pass stores that revision and dies, the core pod goes down, and a pass without a requester over the version before, Ready with A, takes the set of B for an old one and deletes it | `DeletedSetsAreRetired` | `MCReconcile_stale` with one core node of A, `n["repl"] = 0`, edits of the replicant template to B and back to A, `EditWhen` `{"Ready"}` for each edit, `Faults = {"pass", "pod"}`, `MaxFaults = 2`, no deadlock check |
| an edit of the dashboard port only, during an update: same hash, different template, every pass reverts | `EventuallyReady` | `MCReconcile_live` with `Templates <- MCTemplates`, `Digest <- MCSameDigest`, `EditSpecs <- MCPortEdit`, `EditWhen` `<<{"ReplicantNodesProgressing"}>>`, `MaxEdits = 1` |
| an edit before the first pod is ready, when the current revision has not been stored, leaves the first set with its pods | `OldSetsRetained` | `MCReconcile_revert` with `BadTemplates = {"A"}`, `EditSpecs <- MCOneEdits`, `EditWhen <- AnyCond`, `MaxEdits = 1` |
| replicants are added while an update of the cores is Available: `update_pod_conditions.go:77` reads the old `Available` and retires the old core pods | `RetireAfterUpdateReady` | `MCReconcile_stale` with edits to another core template, then to one with replicants |
| replicants and stale reads: a new core template is edited away between its StatefulSet and `updateEMQXStatus`, a pass that reads the version before and has no requester adds replicants to the status without ready core nodes, and the machine goes on to Available | `RetireAfterUpdateReady` | `MCReconcile_stale` with `InitSpec <- MCReplInit`, three edits of the core and the replicant template, to B and A, to A and B, to B and B, `MaxEdits = 3`, `Faults = {"pod"}` |
| the cluster is not Ready for a moment: the resource is Failed, its job goes on | `FailedJobIsOver` | `MCRebalance_jobs` |
| a deletion stops another resource's job, which is then reported Completed | `CompletedJobRanToEnd` | `MCRebalance_jobs` |
| a deletion before the first poll panics at `RebalanceStates[0]` in every pass | `DeletedGoes` | `MCRebalance_jobs` |
| a ReplicaSet controller slower than a pass: one pod is chosen twice, the replicas go down twice | `SessionsAreMoved` | `MCSyncPods_drain` with `PromptSets = FALSE` |
| an evacuation without a target (no node was listed), if EMQX did not refuse it | `SessionsAreMoved` | `MCSyncPods_drain` with `AnyTarget = TRUE` |
| a v1beta3 manifest that sets the label `instance` itself: the conversion copies it to the pod template, where the default never replaces it | `OldClientsReadWhatTheyWrote` | `MCAdmission_writes` with such a manifest in `Manifests3` |
| a stop request that fails, whose error is ignored | `DeletionStopsJob` | `MCRebalance_jobs` with `"stop"` in `Faults` |
| an edit back to the first configuration while the second is being put: the annotation equals the spec, the cluster has the other | `AnnotationHonest` | `MCConfig_sync` with `EditSpecs <- MCBack` |
| core nodes without persistent data restart from the ConfigMap between the PUT and its update | `AnnotationHonest` | `MCConfig_sync` with `Persistent = FALSE` |
| a user changes in the dashboard a listener that the spec sets | `AnnotationHonest` | `MCConfig_sync` with a `DashboardConf` of the default tcp listener and the quic one |
| a 4.x template edited before the origin has all its pods: the evacuated pod is not the last one any more and the update stops | `UpdateCompletes` | `MCEnterprise_update` with `EditAnyTime = TRUE` |
| two 4.x edits before the first one has its StatefulSet: three StatefulSets, and the drain takes the old one's pods out between two renewals of the Endpoints | `ClientsReachANode` | `MCEnterprise_update` with three templates, one replica, `EditAnyTime = TRUE`, `MaxEdits = 2` |
| a 4.x edit from two replicas to one while only the second pod is in the Endpoints | `ClientsReachANode` | `MCEnterprise_update` with `SpecOf(tA, 1, TRUE)` in `EditSpecs`, `Faults = {}` |
| a StatefulSet controller slower than a pass: the next pod goes without evacuation | `EvacuatedBeforeScaleDown` | `MCEnterprise_update` with `PromptSets = FALSE` |
| a plugin's file changes twice between two looks of the sidecar, or while a reload is on its way | `PluginSettles` | `MCPlugin_settles` with `PromptSidecars = FALSE` |

Noticed while reading, without a property:

* `v1beta3/emqxenterprise_conversion.go:153`: `ConvertFrom` does not copy the
  licence, so a write of a v1beta3 client drops it;
  `OldClientsReadWhatTheyWrote` excuses the licence.
* The v1beta3 image is split at colons: without a tag `image[1]` is out of
  range (line 59), with a registry that has a port the parts are wrong.
* `v1beta3/emqxplugin_conversion.go:39-46`: `ConvertFrom` copies in the
  direction of `ConvertTo`.
* `v1beta4/rebalance_conversion.go`: `ConvertTo` always sets the kind of the
  instance to `EMQX`. `v2alpha1` conversions reset the cluster domain and the
  mode of the configuration.
* Adding a label or an annotation to a persistent 4.x resource is refused by
  the webhook, since the claim's metadata come from the resource; a `cluster.*`
  key can be changed by removing it and adding it again.
* EMQX before 5.7.0: the `node`, `cluster`, `dashboard` and `rpc` settings are
  dropped before the PUT, and with it from the ConfigMap that new pods boot
  from, while the annotation names the whole configuration
  (`sync_emqx_config.go:94`); `Mounted` allows it.
* A Service that is switched off is not deleted; an annotation that leaves the
  template stays on the object.
* Two EmqxPlugins with one plugin name flip the ConfigMap for ever; a deleted
  plugin's configuration stays in it; a reload that was lost is not retried.
* Removing `spec.blueGreenUpdate` during an update is a nil dereference at
  `add_emqx_statefulset.go:62`; the condition `BlueGreenUpdating` never becomes
  False.
* Pods are ordered by name: from eleven pods on, pod 10 comes before pod 2.

## 6. Not modelled

Named in `PROJECT.json` with the reason. In short: the transport of the
requester (that a call succeeds, fails, or fails after it took effect is an
input of the actions that make it); the conversions and webhooks of the other
kinds, which copy a few fields; the manager's wiring and generated code.
Abstracted within modelled components: object generation
(`generateStatefulSet`, ...) is a template value; times in the condition list;
the matching of node names by prefix; the handler's options for containers;
the licence file of the reloader; the pass of an EmqxBroker, which is that of
an EmqxEnterprise without the drain step. Deletion of an EMQX resource is
garbage collection.

Coarser than the code, in places where no property tells the difference or
where another module has the detail:

* `updatePodConditions` changes the gates of all pods in one step; the code
  patches pod by pod and ignores the errors of the patches.
* In `EMQXConfig` the status write of `addCore` always succeeds;
  `EMQXReconcile` has the one that is lost and whose error is ignored.
* In `EmqxEnterprise` the ready pods are compared with the pods there are;
  `statefulset.go:130` has the number in the set's status, which may lag.
* In `EmqxPlugin` the restart of a pod is one step, so no node is down while
  the controller unloads; the code unloads only from the nodes that EMQX lists
  (`emqxplugin_controller.go:213-227`), which leaves out one that is down.
* `updateWatcher` looks at the file once; the sidecar takes its hash twice
  (`sidecar/reloader/main.go:161` and `163`).

## 7. Plan

1. Done: all modules of section 2 with their runs; proofs of every safety
   invariant and action property that a run checks; the refinement of
   `BlueGreen`.
2. `StatusConditions`: the timed list of conditions, refining `EMQXStatus`.
3. Node names and prefixes, with eleven nodes, as operators against a
   reference definition.
