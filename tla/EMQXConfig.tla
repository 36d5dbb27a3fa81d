----------------------------- MODULE EMQXConfig -----------------------------
(***************************************************************************)
(* How the EMQX controller (controllers/apps/v2beta1) brings the secrets,   *)
(* the configuration, the Services and the PodDisruptionBudgets of an EMQX  *)
(* resource to its cluster: addBootstrap, addHeadlessSvc, addPdb,           *)
(* syncConfig and addSvc, one step per write, in the order of a pass.       *)
(* addCore, addRepl and updateStatus, which EMQXReconcile models in full    *)
(* for changing pod templates, appear here for a fixed template: they       *)
(* create each node set once and run the condition machine.                 *)
(*                                                                         *)
(* A pass works on copies of the resource and of the owned objects that a   *)
(* cache delivers late.  A write that carries the version read fails when   *)
(* the stored value is another one by then (versions with equal fields are  *)
(* not told apart, see Handler).  The objects that only change when they    *)
(* are created are read as stored.                                         *)
(***************************************************************************)
EXTENDS EMQXStatus, ServicePorts, Handler

CONSTANTS
    Cores, Repls,   \* The pods of the core and of the replicant node set.
    InitSpec,       \* The resource's spec as it is created.
    EditSpecs,      \* For each spec, the ones users may change it to.
    Passwords,      \* The values password.Generate may give.
    Mode,           \* .spec.config.mode: "Merge" or "Replace".
    Persistent,     \* The core nodes keep their data when they restart.
    Before570,      \* The nodes run an EMQX version before 5.7.0.
    DashboardConf,  \* A listener that a user adds in the EMQX dashboard.
    None,           \* No value yet: a Secret, the ConfigMap, the annotation.
    EditEarly,      \* Edits may come before the annotation is first set.
    MaxEvents,      \* The number of users' changes and faults together,
    MaxFaults,      \* and of faults,
    Faults          \* of these kinds: "pass", "emqxAPI", "pod".

Pods == Cores \cup Repls
Specs == DOMAIN EditSpecs
Confs == {s.conf : s \in Specs}

ASSUME PodsAssumption == Cores # {} /\ Cores \cap Repls = {}
ASSUME SpecAssumption == InitSpec \in Specs /\ EditSpecs \in [Specs -> SUBSET Specs]
ASSUME ModeAssumption == Mode \in {"Merge", "Replace"}

ObjKinds == {"headless", "pdb", "replPdb", "dashboard", "listeners"}

VARIABLES
    cr,       \* The EMQX resource: its spec (conf, the configuration, and tpl,
              \* the listeners Service template), the last-emqx-configuration
              \* annotation, and of its status the conditions, whether core
              \* nodes are listed, and whether a replicant node is ready.
    cache,    \* The resource as the operator's cache has it.
    objs,     \* The owned objects in the API server,
    seen,     \* and the listeners Service in the cache.
    secret,   \* The node cookie and the bootstrap API key.
    refOK,    \* The Secrets that spec.bootstrapAPIKeys refers to exist.
    confMap,  \* The configuration in the ConfigMap, mounted by the pods.
    live,     \* The configuration the cluster runs with.
    sets,     \* The node sets that were created.
    node,     \* The secrets each pod has started with; None when it is down.
    pc, mem, base,  \* The pass: its next step, its copy of the resource, and
                    \* the version of it that it has read or last written.
    run,      \* What else the pass carries: whether there is a requester,
              \* the configuration it puts, and the ports of the one it has
              \* read from the cluster.
    changes,  \* The number of changes users have made,
    faults    \* and the number of faults.

resource == <<cr, cache, changes>>
cluster == <<live, sets, node>>
pass == <<pc, mem, base, run>>
vars == <<cr, cache, objs, seen, secret, refOK, confMap, live, sets, node,
          pc, mem, base, run, changes, faults>>

-----------------------------------------------------------------------------
(* Configurations.                                                         *)

ReadOnlyRoots == {"node", "cluster", "dashboard", "rpc"}

\* "Delete readonly configs"
WithoutReadOnly(conf) ==
    [k \in {k \in DOMAIN conf : k[1] \notin ReadOnlyRoots} |-> conf[k]]

DefaultListeners ==
    (<<"listeners", "tcp", "default">> :> 1883)
    @@ (<<"listeners", "ssl", "default">> :> 8883)
    @@ (<<"listeners", "ws", "default">> :> 8083)
    @@ (<<"listeners", "wss", "default">> :> 8084)

\* The four default listeners come first, so the user's values override them.
mergeDefaultConfig(conf) == conf @@ DefaultListeners

\* What is put to the cluster, and to the ConfigMap after that.
confStr(conf) ==
    IF Before570 THEN WithoutReadOnly(mergeDefaultConfig(conf))
                 ELSE mergeDefaultConfig(conf)

\* The paths that configurations set, and those of them that stand for ports.
Paths ==
    (UNION {DOMAIN mergeDefaultConfig(c) : c \in Confs}) \cup DOMAIN DashboardConf
PortPaths == {k \in Paths : k[1] = "listeners" \/ (k[1] = "gateway" /\ Len(k) = 4)}

\* A configuration sets finitely many paths, and None is none; the names of
\* ports are ordered, and different for different paths; a template of the
\* listeners Service repeats no name and no number, and leaves the node ports
\* to Kubernetes.
ASSUME ConfsAssumption ==
    IsFiniteSet(DOMAIN DashboardConf) /\ \A c \in Confs : IsFiniteSet(DOMAIN c)
ASSUME NoneAssumption ==
    /\ None \notin Confs
    /\ \A c \in Confs : None \notin {mergeDefaultConfig(c), confStr(c)}
ASSUME NamesAssumption ==
    /\ \A k \in PortPaths : NameRank[Tail(k)] \in Nat
    /\ \A k, l \in PortPaths : NameRank[Tail(k)] = NameRank[Tail(l)] => k = l
    /\ NameRank[http] \in Nat /\ NameRank[https] \in Nat
    /\ NameRank[http] # NameRank[https]
ASSUME TemplatesAssumption ==
    \A ports \in {s.tpl.ports : s \in Specs} :
        /\ ports \in Seq({ports[i] : i \in DOMAIN ports})
        /\ \A i \in DOMAIN ports :
              ports[i] = ServicePort(ports[i].name, ports[i].port, ports[i].udp)
        /\ \A i, j \in DOMAIN ports : i # j => ~SameNameOrPort(ports[i], ports[j])

\* What EMQX does with a PUT of api/v5/configs?ignore_readonly=true: Merge
\* sets the given paths, Replace the given roots as a whole.  External.
PutConfigs(conf) ==
    LET new == WithoutReadOnly(conf)
        roots == {k[1] : k \in DOMAIN new}
        kept == {k \in DOMAIN live : k[1] \notin roots}
    IN  new @@ (IF Mode = "Merge" THEN live ELSE [k \in kept |-> live[k]])

-----------------------------------------------------------------------------
(* Objects the controller wants.                                           *)

DefaultLabels == [instance |-> "emqx", managedBy |-> "emqx-operator"]
DefaultCoreLabels == DefaultLabels @@ [dbRole |-> "core"]
DefaultReplicantLabels == DefaultLabels @@ [dbRole |-> "replicant"]

Object(type, sel, ports) == [type |-> type, sel |-> sel, ports |-> ports, ann |-> {}]

generateHeadlessService ==
    Object("ClusterIP", DefaultCoreLabels,
           <<ServicePort("erlang-dist", 4370, FALSE),
             ServicePort("gen-rpc", 5369, FALSE)>>)

generatePodDisruptionBudget(k) ==
    Object("PodDisruptionBudget",
           IF k = "pdb" THEN DefaultCoreLabels ELSE DefaultReplicantLabels, <<>>)

\* The Services for the ports of the configuration that was read.
generateDashboardService(ports) ==
    IF ports = <<>> THEN NoObj ELSE Object("ClusterIP", DefaultCoreLabels, ports)

DefaultListenerPorts == GetListenersServicePorts(mergeDefaultConfig(<<>>))

\* A mutant: the ports of the cluster go before those of the template.
generateListenerServiceSwapped(i, ports) ==
    IF ~i.spec.tpl.on THEN NoObj
    ELSE Object("NodePort",
                IF Repls # {} /\ i.repl THEN DefaultReplicantLabels
                                        ELSE DefaultCoreLabels,
                MergeServicePorts(IF ports = <<>> THEN DefaultListenerPorts ELSE ports,
                    i.spec.tpl.ports))

generateListenerService(i, ports) ==
    IF ~i.spec.tpl.on THEN NoObj
    ELSE Object("NodePort",
                IF Repls # {} /\ i.repl THEN DefaultReplicantLabels
                                        ELSE DefaultCoreLabels,
                MergeServicePorts(i.spec.tpl.ports,
                    IF ports = <<>> THEN DefaultListenerPorts ELSE ports))

-----------------------------------------------------------------------------
Faulty(f) == f \in Faults /\ faults < MaxFaults /\ changes + faults < MaxEvents

Up(S) == {p \in S : node[p] # None}

NewResource == [spec |-> InitSpec, last |-> None, conds |-> NoConditions,
                nodes |-> FALSE, repl |-> FALSE]

NoPorts == [dashboard |-> <<>>, listeners |-> <<>>]
PortsOf(conf) == [dashboard |-> GetDashboardServicePort(conf),
                  listeners |-> GetListenersServicePorts(conf)]

NoRun == [req |-> "none", put |-> <<>>, got |-> NoPorts]

Init ==
    /\ cr = NewResource
    /\ cache = cr
    /\ objs = [k \in ObjKinds |-> NoObj]
    /\ seen = NoObj
    /\ secret = [cookie |-> None, key |-> None]
    /\ refOK \in BOOLEAN
    /\ confMap = None
    /\ live = <<>>
    /\ sets = {}
    /\ node = [p \in Pods |-> None]
    /\ pc = "idle" /\ mem = NewResource /\ base = NewResource /\ run = NoRun
    /\ changes = 0
    /\ faults = 0

\* The pass ends here; the next one starts from the cache again.
EndPass == pc' = "idle" /\ mem' = NewResource /\ base' = NewResource /\ run' = NoRun

\* The pass goes on at step p with its copy of the resource unchanged.
Goto(p) == pc' = p /\ UNCHANGED <<mem, base, run>>

\* The pass stores its copy i of the resource and goes on at p, unless
\* another version than the one it has read is stored.
Write(i, p) ==
    \/ /\ cr = base
       /\ cr' = i /\ mem' = i /\ base' = i
       /\ pc' = p /\ run' = [run EXCEPT !.put = <<>>]
       /\ UNCHANGED <<cache, changes>>
    \/ cr # base /\ EndPass /\ UNCHANGED resource

\* Reconcile reads the resource and, with newRequester, the API key and the
\* oldest core pod whose containers are ready; without a key it only runs
\* addBootstrap.
Begin ==
    /\ pc = "idle"
    /\ pc' = "cookie" /\ mem' = cache /\ base' = cache
    /\ run' = [NoRun EXCEPT !.req = CASE secret.key = None -> "noKey"
                                      [] secret.key # None /\ Up(Cores) = {} -> "nil"
                                      [] OTHER -> "ok"]
    /\ UNCHANGED <<resource, objs, seen, secret, refOK, confMap, cluster, faults>>

-----------------------------------------------------------------------------
(* addBootstrap: two Secrets that are created and never written again.      *)

\* The cookie of the spec's configuration, or a random one.
generateNodeCookieSecret(conf) ==
    IF <<"node", "cookie">> \in DOMAIN conf
    THEN {conf[<<"node", "cookie">>]} ELSE Passwords

\* A mutant: an existing Secret is brought up to date.
addCookieAnew ==
    /\ pc = "cookie"
    /\ \/ /\ refOK
          /\ \E c \in generateNodeCookieSecret(mem.spec.conf) :
                secret' = [secret EXCEPT !.cookie = c]
          /\ Goto("key")
       \/ ~refOK /\ EndPass /\ UNCHANGED secret
    /\ UNCHANGED <<resource, objs, seen, refOK, confMap, cluster, faults>>

addCookie ==
    /\ pc = "cookie"
    /\ \/ /\ refOK
          /\ \E c \in generateNodeCookieSecret(mem.spec.conf) :
                secret' = [secret EXCEPT !.cookie = IF @ = None THEN c ELSE @]
          /\ Goto("key")
       \/ ~refOK /\ EndPass /\ UNCHANGED secret
    /\ UNCHANGED <<resource, objs, seen, refOK, confMap, cluster, faults>>

addAPIKey ==
    /\ pc = "key"
    /\ \E c \in Passwords : secret' = [secret EXCEPT !.key = IF @ = None THEN c ELSE @]
    /\ IF run.req = "noKey" THEN EndPass ELSE Goto("status")
    /\ UNCHANGED <<resource, objs, seen, refOK, confMap, cluster, faults>>

-----------------------------------------------------------------------------
(* The status and the node sets.                                           *)

Observed(ok) ==
    [existRepl |-> Repls # {},
     coreReady |-> Up(Cores) = Cores, coreLost |-> Up(Cores) # Cores,
     replReady |-> Up(Repls) = Repls, replLost |-> Up(Repls) # Repls,
     settled |-> ok /\ Up(Pods) = Pods]

\* updateStatus at step p, followed by step q; it runs twice in a pass.  ok
\* says whether the list of nodes was answered; the status is written in any
\* case, with no nodes when it was not.
updateStatus(p, q) ==
    /\ pc = p
    /\ \/ run.req = "nil" /\ UNCHANGED <<resource, faults>>
          /\ IF q = "idle" THEN EndPass ELSE Goto(q)
       \/ /\ run.req = "ok"
          /\ \E ok \in BOOLEAN :
                /\ ok => Up(Cores) # {}
                /\ ~ok /\ Up(Cores) # {} => Faulty("emqxAPI")
                /\ faults' = IF ok \/ Up(Cores) = {} THEN faults ELSE faults + 1
                /\ LET i == [mem EXCEPT !.conds = NextStatus(@, Observed(ok)),
                                        !.nodes = ok,
                                        !.repl = ok /\ Up(Repls) # {}]
                   IN  \/ q # "idle" /\ Write(i, q)
                       \/ /\ q = "idle" /\ EndPass
                          /\ cr' = IF cr = base THEN i ELSE cr
                          /\ UNCHANGED <<cache, changes>>
    /\ UNCHANGED <<objs, seen, secret, refOK, confMap, cluster>>

\* addCore and addRepl create the node set and start its update in the status,
\* which they read again for that.
NewSet(s, drop, cond) ==
    /\ sets' = sets \cup {s}
    /\ cr' = [cr EXCEPT !.conds = SetCondition(RemoveConditions(@, drop), cond)]
    /\ mem' = cr' /\ base' = cr'

addCore ==
    /\ pc = "core" /\ pc' = "repl"
    /\ \/ "core" \in sets /\ UNCHANGED <<sets, cr, mem, base>>
       \/ /\ "core" \notin sets
          /\ NewSet("core", {"Ready", "Available", "CoreNodesReady"},
                    "CoreNodesProgressing")
    /\ UNCHANGED <<cache, changes, objs, seen, secret, refOK, confMap, live, node,
                   run, faults>>

addRepl ==
    /\ pc = "repl" /\ pc' = "pdb"
    /\ \/ /\ \/ "repl" \in sets \/ Repls = {}
             \/ ~IsConditionTrue(mem.conds, "CoreNodesReady")
          /\ UNCHANGED <<sets, cr, mem, base>>
       \/ /\ "repl" \notin sets /\ Repls # {}
          /\ IsConditionTrue(mem.conds, "CoreNodesReady")
          /\ NewSet("repl", {"Ready", "Available", "ReplicantNodesReady"},
                    "ReplicantNodesProgressing")
    /\ UNCHANGED <<cache, changes, objs, seen, secret, refOK, confMap, live, node,
                   run, faults>>

-----------------------------------------------------------------------------
(* Owned objects.                                                          *)

\* CreateOrUpdate of object k, then step q; a failure ends the pass.
Apply(k, obj, q) ==
    /\ \E res \in {CreateOrUpdate(objs[k],
                                  IF k = "listeners" THEN seen ELSE objs[k], obj)} :
           /\ objs' = [objs EXCEPT ![k] = res.obj]
           /\ IF ~res.ok THEN EndPass
              ELSE IF q = "status2"
              THEN pc' = q /\ run' = [run EXCEPT !.got = NoPorts] /\ UNCHANGED <<mem, base>>
              ELSE Goto(q)
    /\ UNCHANGED <<resource, seen, secret, refOK, confMap, cluster, faults>>

addHeadlessSvc == pc = "headless" /\ Apply("headless", generateHeadlessService, "core")

addPdb ==
    \/ /\ pc = "pdb"
       /\ Apply("pdb", generatePodDisruptionBudget("pdb"),
                IF Repls = {} THEN "config" ELSE "replPdb")
    \/ /\ pc = "replPdb"
       /\ Apply("replPdb", generatePodDisruptionBudget("replPdb"), "config")

-----------------------------------------------------------------------------
(* syncConfig.                                                             *)

Changed == mem.last # mem.spec.conf

createConfigMap ==
    /\ pc = "config" /\ confMap = None
    /\ confMap' = mergeDefaultConfig(mem.spec.conf)
    /\ Goto("svc")
    /\ UNCHANGED <<resource, objs, seen, secret, refOK, cluster, faults>>

\* The annotation is set to the spec of now, whatever the ConfigMap was
\* created from.
firstAnnotation ==
    /\ pc = "config" /\ confMap # None /\ mem.last = None
    /\ Write([mem EXCEPT !.last = mem.spec.conf], "svc")
    /\ UNCHANGED <<objs, seen, secret, refOK, confMap, cluster, faults>>

nothingToSync ==
    /\ pc = "config" /\ confMap # None /\ mem.last # None
    /\ ~Changed \/ ~IsConditionTrue(mem.conds, "CoreNodesReady")
    /\ Goto("svc")
    /\ UNCHANGED <<resource, objs, seen, secret, refOK, confMap, cluster, faults>>

Sync ==
    /\ pc = "config" /\ confMap # None /\ mem.last # None
    /\ Changed /\ IsConditionTrue(mem.conds, "CoreNodesReady")

\* CoreNodes[0] of an empty list, a call of a nil requester, or a call no
\* core node answers.
syncFails ==
    /\ Sync
    /\ ~mem.nodes \/ run.req = "nil" \/ Up(Cores) = {}
    /\ EndPass
    /\ UNCHANGED <<resource, objs, seen, secret, refOK, confMap, cluster, faults>>

putEMQXConfigsByAPI ==
    /\ Sync
    /\ mem.nodes /\ run.req = "ok" /\ Up(Cores) # {}
    /\ live' = PutConfigs(confStr(mem.spec.conf))
    /\ run' = [run EXCEPT !.put = confStr(mem.spec.conf)]
    /\ pc' = "map"
    /\ UNCHANGED <<mem, base, resource, objs, seen, secret, refOK, confMap,
                   sets, node, faults>>

\* A mutant: the ConfigMap is left as it was created.
updateConfigMapNot ==
    /\ pc = "map" /\ Goto("annotate")
    /\ UNCHANGED <<resource, objs, seen, secret, refOK, confMap, cluster, faults>>

\* The Update of the ConfigMap carries no version and never conflicts.
updateConfigMap ==
    /\ pc = "map"
    /\ confMap' = run.put
    /\ Goto("annotate")
    /\ UNCHANGED <<resource, objs, seen, secret, refOK, cluster, faults>>

\* A mutant: the annotation is not written back.
updateAnnotationNot ==
    /\ pc = "annotate" /\ Goto("svc")
    /\ UNCHANGED <<resource, objs, seen, secret, refOK, confMap, cluster, faults>>

updateAnnotation ==
    /\ pc = "annotate"
    /\ Write([mem EXCEPT !.last = mem.spec.conf], "svc")
    /\ UNCHANGED <<objs, seen, secret, refOK, confMap, cluster, faults>>

-----------------------------------------------------------------------------
(* addSvc.                                                                 *)

\* A mutant: the ports come from the spec instead of the cluster.
getEMQXConfigsOfSpec ==
    /\ pc = "svc"
    /\ IF run.req = "ok" /\ IsConditionTrue(mem.conds, "CoreNodesReady")
       THEN /\ pc' = "dashboard"
            /\ \E conf \in {mergeDefaultConfig(mem.spec.conf)} :
                  run' = [run EXCEPT !.got = PortsOf(conf)]
            /\ UNCHANGED <<mem, base>>
       ELSE Goto("status2")
    /\ UNCHANGED <<resource, objs, seen, secret, refOK, confMap, cluster, faults>>

\* The Services follow the configuration the cluster runs with.
getEMQXConfigsByAPI ==
    /\ pc = "svc"
    /\ IF run.req = "ok" /\ IsConditionTrue(mem.conds, "CoreNodesReady")
       THEN \/ /\ Up(Cores) # {}
               /\ pc' = "dashboard"
               /\ run' = [run EXCEPT !.got = PortsOf(live)]
               /\ UNCHANGED <<mem, base>>
            \/ Up(Cores) = {} /\ EndPass
       ELSE Goto("status2")
    /\ UNCHANGED <<resource, objs, seen, secret, refOK, confMap, cluster, faults>>

\* A Service that is not wanted (any more) is skipped, not deleted.
addSvc ==
    \E k \in {"dashboard", "listeners"} :
        /\ pc = k
        /\ \E obj \in {IF k = "dashboard"
                       THEN generateDashboardService(run.got.dashboard)
                       ELSE generateListenerService(mem, run.got.listeners)} :
            LET next == IF k = "dashboard" THEN "listeners" ELSE "status2"
            IN  IF obj # NoObj THEN Apply(k, obj, next)
                ELSE /\ Goto(next)
                     /\ UNCHANGED <<resource, objs, seen, secret, refOK, confMap,
                                    cluster, faults>>

-----------------------------------------------------------------------------
(* What happens around the passes.                                         *)

\* The pass dies: the operator is stopped, or a call of it fails.
PassDies ==
    /\ pc # "idle" /\ Faulty("pass")
    /\ faults' = faults + 1
    /\ EndPass
    /\ UNCHANGED <<resource, objs, seen, secret, refOK, confMap, cluster>>

Change == changes + faults < MaxEvents /\ changes' = changes + 1

\* A user applies another spec.
Edit ==
    /\ \E s \in EditSpecs[cr.spec] : cr' = [cr EXCEPT !.spec = s]
    /\ Change
    /\ \/ EditEarly /\ confMap # None
       \/ cr.last # None
    /\ UNCHANGED <<cache, objs, seen, secret, refOK, confMap, cluster, pass, faults>>

\* The cache receives the resource, or the Service, as it is now.
CacheResource ==
    /\ cache # cr /\ cache' = cr
    /\ UNCHANGED <<cr, changes, objs, seen, secret, refOK, confMap, cluster, pass, faults>>

CacheService ==
    /\ seen # objs["listeners"] /\ seen' = objs["listeners"]
    /\ UNCHANGED <<resource, objs, secret, refOK, confMap, cluster, pass, faults>>

\* Somebody annotates the listeners Service.
Annotate ==
    /\ objs["listeners"] # NoObj /\ "user" \notin objs["listeners"].ann
    /\ objs' = [objs EXCEPT !["listeners"].ann = @ \cup {"user"}]
    /\ Change
    /\ UNCHANGED <<cr, cache, seen, secret, refOK, confMap, cluster, pass, faults>>

\* The Secrets that the API keys refer to are created.
CreateRef ==
    /\ ~refOK /\ refOK' = TRUE
    /\ UNCHANGED <<resource, objs, seen, secret, confMap, cluster, pass, faults>>

\* A pod needs the Secrets and the ConfigMap it mounts, and a replicant node a
\* core node to join.  The first core node boots from the ConfigMap, or goes
\* on with the data it has kept; later ones take the cluster's configuration.
\* External.
NodeUp ==
    /\ \E p \in Pods :
        /\ node[p] = None
        /\ IF p \in Cores THEN "core" \in sets
                          ELSE "repl" \in sets /\ Up(Cores) # {}
        /\ secret.cookie # None /\ secret.key # None /\ confMap # None
        /\ node' = [node EXCEPT ![p] = secret]
        /\ live' = IF /\ p \in Cores /\ Up(Cores) = {}
                      /\ live = <<>> \/ ~Persistent
                   THEN confMap ELSE live
    /\ UNCHANGED <<sets, resource, objs, seen, secret, refOK, confMap, pass, faults>>

\* A pod is lost.  External.
NodeDown ==
    /\ Faulty("pod") /\ faults' = faults + 1
    /\ \E p \in Up(Pods) : node' = [node EXCEPT ![p] = None]
    /\ UNCHANGED <<live, sets, resource, objs, seen, secret, refOK, confMap, pass>>

\* A user adds a listener in the EMQX dashboard.  External.
DashboardEdit ==
    /\ Up(Cores) # {} /\ ~ (DOMAIN DashboardConf \subseteq DOMAIN live)
    /\ live' = DashboardConf @@ live
    /\ Change
    /\ UNCHANGED <<sets, node, cr, cache, objs, seen, secret, refOK, confMap, pass, faults>>

PassStep ==
    \/ Begin \/ addCookie \/ addAPIKey
    \/ updateStatus("status", "headless") \/ updateStatus("status2", "idle")
    \/ addHeadlessSvc \/ addCore \/ addRepl \/ addPdb
    \/ createConfigMap \/ firstAnnotation \/ nothingToSync \/ syncFails
    \/ putEMQXConfigsByAPI \/ updateConfigMap \/ updateAnnotation
    \/ getEMQXConfigsByAPI \/ addSvc

Next ==
    \/ PassStep \/ PassDies
    \/ Edit \/ Annotate \/ DashboardEdit
    \/ CacheResource \/ CacheService \/ CreateRef \/ NodeUp \/ NodeDown

Spec == Init /\ [][Next]_vars

\* Passes follow each other (a pass asks to be run again after 1 or 30
\* seconds, or fails and is retried), the caches catch up, lost pods come
\* back, and the user supplies the Secrets.
FairSpec ==
    /\ Spec
    /\ WF_vars(PassStep) /\ WF_vars(NodeUp) /\ WF_vars(CreateRef)
    /\ WF_vars(CacheResource) /\ WF_vars(CacheService)

-----------------------------------------------------------------------------
(* Properties.                                                             *)

\* Every variable has the type of the field it stands for; no port of a
\* stored Service of type NodePort is without a node port.
TypeOK ==
    /\ \A r \in {cr, cache, mem, base} :
        /\ r.spec \in Specs /\ r.last \in Confs \cup {None}
        /\ r.conds \in Conditions /\ r.nodes \in BOOLEAN /\ r.repl \in BOOLEAN
    /\ \A o \in {objs[k] : k \in ObjKinds} \cup {seen} :
        o = NoObj \/ \A i \in DOMAIN o.ports :
                        o.ports[i].node # 0 <=> o.type = "NodePort"
    /\ secret.cookie \in Nat \cup {None} /\ secret.key \in Nat \cup {None}
    /\ sets \subseteq {"core", "repl"}
    /\ faults \in 0 .. MaxFaults

\* The cluster runs with every value of conf it can take without a restart.
Running(conf) ==
    LET want == WithoutReadOnly(mergeDefaultConfig(conf))
    IN  \A k \in DOMAIN want : k \in DOMAIN live /\ live[k] = want[k]

\* The ConfigMap that nodes boot from is made from conf: all of it when it was
\* created, what was put when it was updated.
Mounted(conf) == confMap \in {mergeDefaultConfig(conf), confStr(conf)}

\* The ConfigMap is the one of the configuration that the annotation names,
\* when that is the spec's.
ConfigMapHonest == cr.last = cr.spec.conf => Mounted(cr.spec.conf)

\* The last-emqx-configuration annotation tells the truth: when it equals the
\* spec's configuration, the ConfigMap new pods boot from is that
\* configuration and the running cluster has it, at every step of the passes
\* and after every failure of one (syncConfig's order of PUT, ConfigMap,
\* annotation).
AnnotationHonest ==
    /\ ConfigMapHonest
    /\ cr.last = cr.spec.conf /\ Up(Cores) # {} => Running(cr.spec.conf)

\* All nodes that run share the cookie and the API key that the operator
\* itself uses, whenever they started and whatever the spec's configuration
\* said then (addBootstrap).
SameSecrets == \A p \in Pods : node[p] # None => node[p] = secret

\* A list of ports made from those of the user and those got: no name and no
\* number twice, every port of the user's, and no port of anybody else's.
BuiltFrom(list, user, got) ==
    LET Same(p, q) == p.name = q.name /\ p.port = q.port /\ p.udp = q.udp
    IN  /\ \A i, j \in DOMAIN list : i # j => ~SameNameOrPort(list[i], list[j])
        /\ \A i \in DOMAIN user : \E j \in DOMAIN list : Same(list[j], user[i])
        /\ \A j \in DOMAIN list :
              \/ \E i \in DOMAIN user : Same(list[j], user[i])
              \/ \E i \in DOMAIN got : Same(list[j], got[i])

\* Whenever the ports of the listeners Service change, the new ones are ones
\* the API server accepts, with no name and no number twice; they hold every
\* port of the template that the pass has in hand, as the user gave it, also
\* when a listener of the cluster has its number; and every other one is a
\* port the pass has read from the cluster or a default one, although the
\* Service read, its node ports and the configuration are each of another
\* moment (MergeServicePorts within CreateOrUpdate).
ServiceWellFormed ==
    [][\/ objs'["listeners"] = NoObj
       \/ /\ objs["listeners"] # NoObj
          /\ objs'["listeners"].ports = objs["listeners"].ports
       \/ BuiltFrom(objs'["listeners"].ports, mem.spec.tpl.ports,
                    IF run.got.listeners = <<>> THEN DefaultListenerPorts
                                                ELSE run.got.listeners)]_vars

\* No write of the operator takes away an annotation that somebody else has
\* put on an object, even when it has read the object before that
\* (CreateOrUpdate merges the annotations and sends the version it has read).
ForeignAnnotationsKept ==
    [][\A k \in ObjKinds : objs[k] # NoObj =>
            objs'[k] # NoObj /\ objs[k].ann \subseteq objs'[k].ann]_vars

\* A port of a Service keeps its node port for as long as it is in the list,
\* so that clients outside Kubernetes keep their address (CreateOrUpdate).
NodePortsStay ==
    [][\A k \in ObjKinds : objs[k] # NoObj =>
        \A i \in DOMAIN objs[k].ports, j \in DOMAIN objs'[k].ports :
            objs[k].ports[i].name = objs'[k].ports[j].name
                => objs[k].ports[i].node = objs'[k].ports[j].node]_vars

\* When the edits stop, the configuration of the spec is in the ConfigMap and
\* in the running cluster for good, and the annotation says so (syncConfig,
\* with its panics, conflicts and retries).
ConfigApplied ==
    <>[](/\ cr.last = cr.spec.conf
         /\ Mounted(cr.spec.conf)
         /\ Up(Cores) # {} /\ Running(cr.spec.conf))

\* In the end each listener of the cluster, also one that was added in the
\* dashboard, can be reached through the listeners Service, unless the
\* template names a port of its own for it; and the Service selects a role
\* that has ready nodes (addSvc).
ServiceFollows ==
    <>[](LET svc == objs["listeners"]
         IN  /\ cr.spec.tpl.on => svc # NoObj
             /\ cr.spec.tpl.on =>
                \A k \in ListenerPaths(live) \cup GatewayPaths(live) :
                    \E i \in DOMAIN svc.ports :
                        svc.ports[i].name = Tail(k) \/ svc.ports[i].port = live[k]
             /\ cr.spec.tpl.on =>
                (svc.sel.dbRole = "replicant" <=> Up(Repls) # {}))

\* The operator does not write its objects for ever: a pass over an unchanged
\* cluster changes nothing (CreateOrUpdate's comparison with what the API
\* server has filled in).
NoEndlessWrites == <>[][objs' = objs]_objs
=============================================================================
