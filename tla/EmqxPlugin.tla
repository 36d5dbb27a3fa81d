------------------------------ MODULE EmqxPlugin ------------------------------
(***************************************************************************)
(* How the configuration of an EmqxPlugin resource reaches the plugin in   *)
(* the EMQX 4.x nodes.  The EmqxPlugin controller writes it into the       *)
(* plugins ConfigMap of every EMQX the selector matches and keeps the      *)
(* plugin active; the kubelet brings the ConfigMap into the pods as files; *)
(* the reloader sidecar of each pod watches the files and has the plugin   *)
(* reloaded.  The 4.x controllers create the default plugins.              *)
(*                                                                         *)
(* One worker runs the controller's passes.  The sidecars, the kubelet,    *)
(* the user and faults take steps in between.                              *)
(***************************************************************************)
EXTENDS Integers, FiniteSets

CONSTANTS
    Plugins,     \* the EmqxPlugin resources
    NameOf,      \* the spec.pluginName of each
    Defaults,    \* those that generateInitPluginList makes
    Emqxs,       \* the EMQX resources, 1..n, in the order listed
    Matches,     \* those that the selector of each plugin matches
    NodesOf,     \* the nodes of each
    Configs,     \* the configurations a plugin can have
    Empty,       \* the one a default plugin and the ConfigMap start with
    MaxChanges,  \* bound on what the user does
    MaxFaults, Faults,
    PromptSidecars  \* TRUE: a sidecar has handled its events before the
                    \* kubelet brings the next ones

Names == {NameOf[p] : p \in Plugins}
Node == UNION {NodesOf[e] : e \in Emqxs}
EmqxOf(n) == CHOOSE e \in Emqxs : n \in NodesOf[e]
NodesFor(p) == UNION {NodesOf[e] : e \in Matches[p]}

\* A pass dies; a call to an EMQX API fails; the reload request of a sidecar
\* fails; a sidecar restarts; a pod restarts.
FaultKinds == {"pass", "emqxAPI", "request", "sidecar", "pod"}

ASSUME PluginAssumption ==
    /\ Plugins # {} /\ NameOf \in [Plugins -> Names]
    /\ Matches \in [Plugins -> SUBSET Emqxs]
    /\ Defaults \subseteq Plugins /\ Empty \in Configs
    \* A default plugin selects by all the labels of its EMQX, of which the
    \* webhook makes apps.emqx.io/instance the name of the EMQX.
    /\ \A p \in Defaults : \E e \in Emqxs : Matches[p] = {e}
    /\ IsFiniteSet(Emqxs) /\ Emqxs = 1..Cardinality(Emqxs)
    /\ \A e, f \in Emqxs : e # f => NodesOf[e] \cap NodesOf[f] = {}
    /\ MaxChanges \in Nat /\ MaxFaults \in Nat /\ Faults \subseteq FaultKinds
    /\ PromptSidecars \in BOOLEAN

VARIABLES
    plug,     \* the EmqxPlugin resources
    started,  \* the EMQX resources whose status lists nodes
    cmap,     \* the plugins ConfigMap of each EMQX
    file,     \* the files of that ConfigMap in each pod
    removed,  \* the files whose Remove event the sidecar has not handled
    check,    \* reloaderWatcher.fileCheck of each sidecar
    due,      \* the reload request a sidecar is about to make
    run,      \* the plugins of each node: whether active, and with which
              \* configuration
    pc, cur, mem,  \* the pass: its step, its EMQX, its copy of the plugin
    unloaded, \* history: the nodes a resource was unloaded from since it
              \* is being deleted
    changes, faults

plugVars == <<plug, unloaded>>
podVars == <<file, removed, check, due>>
passVars == <<pc, cur, mem>>
vars == <<plug, started, cmap, file, removed, check, due, run, pc, cur, mem,
          unloaded, changes, faults>>

\* A sidecar makes one request at a time; NoName when it makes none.
NoName == "none"

\* An EmqxPlugin: fin is the finalizer, deleting the deletion timestamp.
Resources == [exists : BOOLEAN, fin : BOOLEAN, deleting : BOOLEAN,
              cfg : Configs]
Absent == [exists |-> FALSE, fin |-> FALSE, deleting |-> FALSE, cfg |-> Empty]
Fresh(c) == [Absent EXCEPT !.exists = TRUE, !.cfg = c]

TypeOK ==
    /\ plug \in [Plugins -> Resources] /\ started \in SUBSET Emqxs
    /\ cmap \in [Emqxs -> [Names -> Configs]]
    /\ file \in [Node -> [Names -> Configs]]
    /\ removed \in [Node -> SUBSET Names]
    /\ check \in [Node -> [Names -> Configs]]
    /\ due \in [Node -> Names \cup {NoName}]
    /\ run \in [Node -> [Names -> [on : BOOLEAN, cfg : Configs]]]
    /\ pc \in {"idle", "finalizer", "check", "load", "status", "unload",
               "release"}
    /\ cur \in Plugins \X (1..(Cardinality(Emqxs) + 1))
    /\ mem \in Resources
    /\ unloaded \in [Plugins -> SUBSET Node]
    /\ changes \in 0..MaxChanges /\ faults \in SUBSET Faults

Fault(f) == /\ f \in Faults \ faults /\ Cardinality(faults) < MaxFaults
            /\ faults' = faults \cup {f}

-----------------------------------------------------------------------------
(* The EmqxPlugin controller.                                              *)

Pn == NameOf[cur[1]]
AtEmqx == cur[2] \in Emqxs

\* The pass has come to an EMQX that the selector matches.
AtMatch == cur[2] \in Matches[cur[1]]

EndPass == pc' = "idle" /\ UNCHANGED <<cur, mem>>
Goto(step) == pc' = step /\ UNCHANGED <<cur, mem>>
NextEmqx(step) == pc' = step /\ cur' = <<cur[1], cur[2] + 1>> /\ UNCHANGED mem

\* Variant: the deletion timestamp is not looked at.
ReconcileDeleted(p) ==
    /\ pc = "idle" /\ plug[p].exists
    /\ plug[p].deleting => plug[p].fin
    /\ cur' = <<p, 1>> /\ mem' = plug[p]
    /\ pc' = "finalizer"
    /\ UNCHANGED <<plugVars, started, cmap, podVars, run, changes, faults>>

\* Reconcile reads the resource.  Every pass ends with a requeue as long as
\* the resource exists.
Reconcile(p) ==
    /\ pc = "idle" /\ plug[p].exists
    /\ plug[p].deleting => plug[p].fin
    /\ cur' = <<p, 1>> /\ mem' = plug[p]
    /\ pc' = IF plug[p].deleting THEN "unload" ELSE "finalizer"
    /\ UNCHANGED <<plugVars, started, cmap, podVars, run, changes, faults>>

\* The finalizer is added, unless the resource has changed since it was read.
AddFinalizer ==
    /\ pc = "finalizer"
    /\ \/ mem.fin /\ Goto("check") /\ UNCHANGED plug
       \/ /\ ~mem.fin /\ plug[cur[1]] = mem
          /\ mem' = [mem EXCEPT !.fin = TRUE]
          /\ plug' = [plug EXCEPT ![cur[1]] = mem']
          /\ pc' = "check" /\ UNCHANGED cur
       \/ ~mem.fin /\ plug[cur[1]] # mem /\ EndPass /\ UNCHANGED plug
    /\ UNCHANGED <<unloaded, started, cmap, podVars, run, changes, faults>>

\* checkPluginConfig, for a matching EMQX whose nodes are known.
checkPluginConfig ==
    /\ pc = "check"
    /\ \/ ~AtEmqx /\ EndPass
       \/ AtEmqx /\ ~(AtMatch /\ cur[2] \in started) /\ NextEmqx("check")
       \/ /\ AtEmqx /\ AtMatch /\ cur[2] \in started
          /\ Goto(IF cmap[cur[2]][Pn] = mem.cfg THEN "status" ELSE "load")
    /\ UNCHANGED <<plugVars, started, cmap, podVars, run, changes, faults>>

\* loadPluginConfig: the ConfigMap gets the configuration and the pass ends.
loadPluginConfig ==
    /\ pc = "load"
    /\ cmap' = [cmap EXCEPT ![cur[2]][Pn] = mem.cfg]
    /\ EndPass
    /\ UNCHANGED <<plugVars, started, podVars, run, changes, faults>>

\* What the node of an EMQX makes of a reload: it reads its own file.
Reloaded(S, x) ==
    run' = [n \in Node |-> IF n \in S
                           THEN [run[n] EXCEPT ![x] = [on |-> TRUE,
                                                       cfg |-> file[n][x]]]
                           ELSE run[n]]

\* checkPluginStatusByAPI: the plugin is reloaded on the nodes where it is
\* not active; the first failing call ends the pass.
checkPluginStatusByAPI ==
    /\ pc = "status"
    /\ LET off == {n \in NodesOf[cur[2]] : ~run[n][Pn].on}
       IN  \/ Reloaded(off, Pn) /\ NextEmqx("check") /\ UNCHANGED faults
           \/ /\ Fault("emqxAPI") /\ EndPass
              /\ \E S \in (SUBSET off) \ {off} : Reloaded(S, Pn)
    /\ UNCHANGED <<plugVars, started, cmap, podVars, changes>>

\* Variant: a failing call does not end the pass.
unloadPluginIgnoresErrors ==
    /\ pc = "unload"
    /\ LET done(S) ==
             /\ run' = [n \in Node |-> IF n \in S
                          THEN [run[n] EXCEPT ![Pn].on = FALSE] ELSE run[n]]
             /\ unloaded' = [unloaded EXCEPT ![cur[1]] = @ \cup S]
       IN  \/ /\ ~AtEmqx /\ Goto("release")
              /\ UNCHANGED <<run, unloaded, faults>>
           \/ /\ AtEmqx /\ ~AtMatch /\ NextEmqx("unload")
              /\ UNCHANGED <<run, unloaded, faults>>
           \/ /\ AtMatch /\ cur[2] \in started /\ done(NodesOf[cur[2]])
              /\ NextEmqx("unload") /\ UNCHANGED faults
           \/ /\ AtMatch /\ Fault("emqxAPI") /\ NextEmqx("unload")
              /\ done({})
    /\ UNCHANGED <<plug, started, cmap, podVars, changes>>

\* unloadPluginByAPI: the first failing call ends the pass; an EMQX that is
\* not started does not answer.
unloadPluginByAPI ==
    /\ pc = "unload"
    /\ LET done(S) ==
             /\ run' = [n \in Node |-> IF n \in S
                          THEN [run[n] EXCEPT ![Pn].on = FALSE] ELSE run[n]]
             /\ unloaded' = [unloaded EXCEPT ![cur[1]] = @ \cup S]
       IN  \/ /\ ~AtEmqx /\ Goto("release")
              /\ UNCHANGED <<run, unloaded, faults>>
           \/ /\ AtEmqx /\ ~AtMatch /\ NextEmqx("unload")
              /\ UNCHANGED <<run, unloaded, faults>>
           \/ /\ AtMatch /\ cur[2] \in started /\ done(NodesOf[cur[2]])
              /\ NextEmqx("unload") /\ UNCHANGED faults
           \/ /\ AtMatch /\ cur[2] \notin started /\ EndPass
              /\ UNCHANGED <<run, unloaded, faults>>
           \/ /\ AtMatch /\ cur[2] \in started /\ Fault("emqxAPI") /\ EndPass
              /\ \E S \in (SUBSET NodesOf[cur[2]]) \ {NodesOf[cur[2]]} : done(S)
    /\ UNCHANGED <<plug, started, cmap, podVars, changes>>

\* The finalizer is removed, and the resource is gone.  Its configuration
\* stays in the ConfigMaps.
RemoveFinalizer ==
    /\ pc = "release"
    /\ plug' = IF plug[cur[1]] = mem
               THEN [plug EXCEPT ![cur[1]] = Absent] ELSE plug
    /\ EndPass
    /\ UNCHANGED <<unloaded, started, cmap, podVars, run, changes, faults>>

PassFails ==
    /\ pc # "idle" /\ Fault("pass") /\ EndPass
    /\ UNCHANGED <<plugVars, started, cmap, podVars, run, changes>>

Controller ==
    \/ \E p \in Plugins : Reconcile(p)
    \/ AddFinalizer \/ checkPluginConfig \/ loadPluginConfig
    \/ checkPluginStatusByAPI \/ unloadPluginByAPI \/ RemoveFinalizer

-----------------------------------------------------------------------------
(* The 4.x controllers, as far as plugins go.                              *)

\* A resource with plugin name x matches e.
Taken(e, x) ==
    \E p \in Plugins : plug[p].exists /\ e \in Matches[p] /\ NameOf[p] = x

\* generateInitPluginList and addEmqxPlugins: a default plugin of an EMQX is
\* made unless some resource that matches the EMQX has its plugin name.
addEmqxPlugins ==
    /\ \E p \in Defaults :
          /\ \A e \in Matches[p] : ~Taken(e, NameOf[p])
          /\ plug' = [plug EXCEPT ![p] = Fresh(Empty)]
          /\ unloaded' = [unloaded EXCEPT ![p] = {}]
    /\ UNCHANGED <<started, cmap, podVars, run, passVars, changes, faults>>

\* The nodes of an EMQX are up, with the default plugins ConfigMap, and
\* updateEmqxStatus lists them.
EmqxStarts ==
    /\ \E e \in Emqxs \ started : started' = started \cup {e}
    /\ UNCHANGED <<plugVars, cmap, podVars, run, passVars, changes, faults>>

-----------------------------------------------------------------------------
(* The pods: the kubelet and the reloader sidecar.                         *)

\* The kubelet puts a new copy of the ConfigMap in place and removes the old
\* one: every watched file has a Remove event.
SyncFiles ==
    /\ \E n \in Node :
          /\ EmqxOf(n) \in started /\ file[n] # cmap[EmqxOf(n)]
          /\ PromptSidecars => removed[n] = {} /\ due[n] = NoName
          /\ file' = [file EXCEPT ![n] = cmap[EmqxOf(n)]]
          /\ removed' = [removed EXCEPT ![n] = Names]
    /\ UNCHANGED <<plugVars, started, cmap, check, due, run, passVars, changes,
                   faults>>

\* Variant: the sum of the file is not kept.
updateWatcherForgets(n, x) ==
    /\ x \in removed[n] /\ due[n] = NoName
    /\ removed' = [removed EXCEPT ![n] = @ \ {x}]
    /\ IF check[n][x] # file[n][x]
       THEN due' = [due EXCEPT ![n] = x]
       ELSE UNCHANGED due
    /\ UNCHANGED check

\* updateWatcher: the file is watched again; its sum is kept before the
\* reload is asked for.
updateWatcher(n, x) ==
    /\ x \in removed[n] /\ due[n] = NoName
    /\ removed' = [removed EXCEPT ![n] = @ \ {x}]
    /\ IF check[n][x] # file[n][x]
       THEN /\ check' = [check EXCEPT ![n][x] = file[n][x]]
            /\ due' = [due EXCEPT ![n] = x]
       ELSE UNCHANGED <<check, due>>

HandleEvent ==
    /\ \E n \in Node, x \in Names : updateWatcher(n, x)
    /\ UNCHANGED <<plugVars, started, cmap, file, run, passVars, changes,
                   faults>>

\* requestWebhook: the request reloads the plugin on every node of the
\* cluster.  A request that fails is logged and forgotten.
requestWebhook ==
    /\ \E n \in Node :
          /\ due[n] # NoName
          /\ due' = [due EXCEPT ![n] = NoName]
          /\ \/ Reloaded(NodesOf[EmqxOf(n)], due[n]) /\ UNCHANGED faults
             \/ Fault("request") /\ UNCHANGED run
    /\ UNCHANGED <<plugVars, started, cmap, file, removed, check, passVars,
                   changes>>

\* generateWatchedFileList, watchFileList: a new sidecar takes the files as
\* they are and reloads nothing.
WatchFiles(n, f) ==
    /\ check' = [check EXCEPT ![n] = f]
    /\ removed' = [removed EXCEPT ![n] = {}]
    /\ due' = [due EXCEPT ![n] = NoName]

SidecarRestarts ==
    /\ Fault("sidecar")
    /\ \E n \in Node : EmqxOf(n) \in started /\ WatchFiles(n, file[n])
    /\ UNCHANGED <<plugVars, started, cmap, file, run, passVars, changes>>

\* A new pod has the files of now, and only the plugins EMQX itself loads.
PodRestarts ==
    /\ Fault("pod")
    /\ \E n \in Node :
          /\ EmqxOf(n) \in started
          /\ file' = [file EXCEPT ![n] = cmap[EmqxOf(n)]]
          /\ WatchFiles(n, cmap[EmqxOf(n)])
          /\ run' = [run EXCEPT ![n] = [x \in Names |->
                        [on |-> FALSE, cfg |-> cmap[EmqxOf(n)][x]]]]
    /\ UNCHANGED <<plugVars, started, cmap, passVars, changes>>

Sidecar == SyncFiles \/ HandleEvent \/ requestWebhook

-----------------------------------------------------------------------------
(* The user.                                                               *)

\* The webhook lets a change through that keeps the plugin name.
UserSets ==
    /\ changes < MaxChanges /\ changes' = changes + 1
    /\ \E p \in Plugins, c \in Configs :
          \/ /\ ~plug[p].exists
             /\ plug' = [plug EXCEPT ![p] = Fresh(c)]
             /\ unloaded' = [unloaded EXCEPT ![p] = {}]
          \/ /\ plug[p].exists /\ ~plug[p].deleting /\ plug[p].cfg # c
             /\ plug' = [plug EXCEPT ![p].cfg = c]
             /\ UNCHANGED unloaded
    /\ UNCHANGED <<started, cmap, podVars, run, passVars, faults>>

\* Without a finalizer the resource is gone at once.
UserDeletes ==
    /\ changes < MaxChanges /\ changes' = changes + 1
    /\ \E p \in Plugins :
          /\ plug[p].exists /\ ~plug[p].deleting
          /\ plug' = [plug EXCEPT ![p] = IF @.fin
                                         THEN [@ EXCEPT !.deleting = TRUE]
                                         ELSE Absent]
    /\ UNCHANGED <<unloaded, started, cmap, podVars, run, passVars, faults>>

Init ==
    /\ plug = [p \in Plugins |-> Absent] /\ started = {}
    /\ cmap = [e \in Emqxs |-> [x \in Names |-> Empty]]
    /\ file = [n \in Node |-> [x \in Names |-> Empty]]
    /\ removed = [n \in Node |-> {}]
    /\ check = [n \in Node |-> [x \in Names |-> Empty]]
    /\ due = [n \in Node |-> NoName]
    /\ run = [n \in Node |-> [x \in Names |-> [on |-> FALSE, cfg |-> Empty]]]
    /\ pc = "idle" /\ cur = <<CHOOSE p \in Plugins : TRUE, 1>> /\ mem = Absent
    /\ unloaded = [p \in Plugins |-> {}]
    /\ changes = 0 /\ faults = {}

Next ==
    \/ Controller \/ PassFails \/ addEmqxPlugins \/ EmqxStarts
    \/ Sidecar \/ SidecarRestarts \/ PodRestarts
    \/ UserSets \/ UserDeletes

Spec == Init /\ [][Next]_vars

(***************************************************************************)
(* Fairness.  The work queue holds every resource and serves each in turn; *)
(* every EMQX starts; the kubelet and the sidecars keep working.           *)
(***************************************************************************)
FairSpec ==
    /\ Spec
    /\ WF_vars(Controller) /\ \A p \in Plugins : SF_vars(Reconcile(p))
    /\ WF_vars(addEmqxPlugins) /\ WF_vars(EmqxStarts)
    /\ WF_vars(SyncFiles) /\ WF_vars(HandleEvent) /\ WF_vars(requestWebhook)

-----------------------------------------------------------------------------
(* Properties.                                                             *)

\* A resource is gone only when its plugin was unloaded from every node of
\* every EMQX it matches, whatever calls failed and passes died before.  Only
\* a resource that never got its finalizer goes without.
GoneMeansUnloaded ==
    [][\A p \in Plugins :
          (plug[p].exists /\ plug[p].fin /\ ~plug'[p].exists)
             => NodesFor(p) \subseteq unloaded[p]]_vars

\* No EMQX has the plugin from another resource too.
Alone(p) ==
    \A q \in Plugins \ {p} :
       plug[q].exists /\ NameOf[q] = NameOf[p] => Matches[q] \cap Matches[p] = {}

\* A plugin that the user stops changing ends up active on every node of the
\* EMQX resources it matches, with its configuration.  (A reload request that
\* is lost, by a failure or with its sidecar, is not made again.)
PluginSettles ==
    <>[](\/ faults \cap {"request", "sidecar"} # {}
         \/ \A p \in Plugins :
               plug[p].exists /\ ~plug[p].deleting /\ Alone(p) =>
                  \A n \in NodesFor(p) :
                     run[n][NameOf[p]] = [on |-> TRUE, cfg |-> plug[p].cfg])

\* A plugin that is being deleted is deleted in the end.
DeletionEnds ==
    \A p \in Plugins : plug[p].deleting ~> ~plug[p].deleting
=============================================================================
