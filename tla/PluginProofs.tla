---------------------------- MODULE PluginProofs ----------------------------
(***************************************************************************)
(* Proofs about EmqxPlugin, for any plugins, EMQX resources, nodes and     *)
(* configurations, and any failures: the variables keep their types, and   *)
(* an EmqxPlugin that has its finalizer goes only when its plugin was      *)
(* unloaded from every node of the EMQX resources it matches.              *)
(*                                                                         *)
(* The finalizer is removed at the end of a pass over all EMQX resources.  *)
(* The invariant says how far such a pass has come, and that nobody takes  *)
(* the resource away, or makes it anew, under the pass.                    *)
(***************************************************************************)
EXTENDS EmqxPlugin, FiniteSetTheorems, TLAPS

\* The resources, the history and the pass.
PassOK ==
    /\ plug \in [Plugins -> Resources]
    /\ pc \in {"idle", "finalizer", "check", "load", "status", "unload",
               "release"}
    /\ cur \in Plugins \X (1..(Cardinality(Emqxs) + 1))
    /\ mem \in Resources
    /\ unloaded \in [Plugins -> SUBSET Node]

\* The ConfigMaps, the pods and the nodes.
PodsOK ==
    /\ started \in SUBSET Emqxs
    /\ cmap \in [Emqxs -> [Names -> Configs]]
    /\ file \in [Node -> [Names -> Configs]]
    /\ removed \in [Node -> SUBSET Names]
    /\ check \in [Node -> [Names -> Configs]]
    /\ due \in [Node -> Names \cup {NoName}]
    /\ run \in [Node -> [Names -> [on : BOOLEAN, cfg : Configs]]]

BoundsOK == changes \in 0..MaxChanges /\ faults \in SUBSET Faults

\* Between these steps the pass is at one of the EMQX resources.
AtOne == pc \in {"load", "status"} => AtEmqx

\* A pass that unloads a plugin has the resource as it is stored: being
\* deleted, it is no longer changed, deleted or made again.  The plugin was
\* unloaded from the nodes of every matching EMQX before the one the pass is
\* at; at the release the pass is past all of them.
Unloading ==
    pc \in {"unload", "release"} =>
       /\ mem = plug[cur[1]] /\ mem.exists /\ mem.deleting
       /\ \A e \in Matches[cur[1]] :
             e < cur[2] => NodesOf[e] \subseteq unloaded[cur[1]]
       /\ pc = "release" => ~AtEmqx

Inv == PassOK /\ PodsOK /\ BoundsOK /\ AtOne /\ Unloading

-----------------------------------------------------------------------------
(* Operators.                                                              *)

\* The EMQX resources are numbered from one.
LEMMA EmqxNumbers ==
  /\ Cardinality(Emqxs) \in Nat
  /\ Emqxs = 1..Cardinality(Emqxs)
  BY PluginAssumption, FS_CardinalityType

\* Every node belongs to an EMQX.
LEMMA EmqxOfNode ==
  ASSUME NEW n \in Node
  PROVE  EmqxOf(n) \in Emqxs
  BY DEF Node, EmqxOf

LEMMA MatchIsEmqx ==
  ASSUME NEW p \in Plugins
  PROVE  Matches[p] \subseteq Emqxs
  BY PluginAssumption

LEMMA NodesOfEmqx ==
  ASSUME NEW e \in Emqxs
  PROVE  NodesOf[e] \subseteq Node
  BY DEF Node

\* The plugin of a pass has a name.
LEMMA PnName == ASSUME PassOK PROVE Pn \in Names
  BY PluginAssumption DEF PassOK, Pn

LEMMA ResourceTypes ==
  Absent \in Resources /\ \A c \in Configs : Fresh(c) \in Resources
  BY PluginAssumption DEF Absent, Fresh, Resources

\* The next EMQX is one more, or the end of the list.
LEMMA NextInList ==
  ASSUME PassOK, AtEmqx
  PROVE  /\ <<cur[1], cur[2] + 1>> \in Plugins \X (1..(Cardinality(Emqxs) + 1))
         /\ \A e \in Emqxs : e < cur[2] + 1 => e < cur[2] \/ e = cur[2]
<1>1. cur[2] \in 1..Cardinality(Emqxs) /\ cur[1] \in Plugins
  BY EmqxNumbers DEF PassOK, AtEmqx
<1>2. QED
  BY <1>1, EmqxNumbers

\* Past the list every EMQX was visited.
LEMMA PastTheList ==
  ASSUME PassOK, ~AtEmqx, NEW e \in Emqxs
  PROVE  e < cur[2]
<1>1. cur[2] \in 1..(Cardinality(Emqxs) + 1)
  BY DEF PassOK
<1>2. QED
  BY <1>1, EmqxNumbers DEF AtEmqx

\* A reload keeps the types of the nodes' plugins.
LEMMA ReloadedType ==
  ASSUME PodsOK, NEW S, NEW x \in Names, Reloaded(S, x)
  PROVE  run' \in [Node -> [Names -> [on : BOOLEAN, cfg : Configs]]]
  BY DEF PodsOK, Reloaded

\* So does an unload.
LEMMA UnloadType ==
  ASSUME PodsOK, NEW S, NEW x \in Names,
         run' = [n \in Node |-> IF n \in S
                   THEN [run[n] EXCEPT ![x].on = FALSE] ELSE run[n]]
  PROVE  run' \in [Node -> [Names -> [on : BOOLEAN, cfg : Configs]]]
<1>1. \A n \in Node : /\ run[n] \in [Names -> [on : BOOLEAN, cfg : Configs]]
                      /\ [run[n][x] EXCEPT !.on = FALSE]
                            \in [on : BOOLEAN, cfg : Configs]
  <2>1. \A n \in Node : /\ run[n] \in [Names -> [on : BOOLEAN, cfg : Configs]]
                        /\ run[n][x] \in [on : BOOLEAN, cfg : Configs]
    BY DEF PodsOK
  <2>2. \A r \in [on : BOOLEAN, cfg : Configs] :
           [r EXCEPT !.on = FALSE] \in [on : BOOLEAN, cfg : Configs]
    OBVIOUS
  <2>3. QED
    BY <2>1, <2>2
<1>2. \A n \in Node : [run[n] EXCEPT ![x].on = FALSE]
                         \in [Names -> [on : BOOLEAN, cfg : Configs]]
  BY <1>1
<1>3. QED
  BY <1>1, <1>2

LEMMA FaultType ==
  ASSUME NEW f, faults \in SUBSET Faults, Fault(f)
  PROVE  faults' \in SUBSET Faults
  BY DEF Fault

-----------------------------------------------------------------------------
(* The steps of the controller.                                            *)

LEMMA InitInv == Init => Inv
<1> SUFFICES ASSUME Init PROVE Inv
  OBVIOUS
<1>1. PassOK
  <2>1. (CHOOSE p \in Plugins : TRUE) \in Plugins
    BY PluginAssumption
  <2>2. 1 \in 1..(Cardinality(Emqxs) + 1)
    BY EmqxNumbers
  <2>3. QED
    BY <2>1, <2>2, ResourceTypes DEF Init, PassOK
<1>2. PodsOK
  BY PluginAssumption DEF Init, PodsOK
<1>3. BoundsOK /\ AtOne /\ Unloading
  BY PluginAssumption DEF Init, BoundsOK, AtOne, Unloading
<1>4. QED
  BY <1>1, <1>2, <1>3 DEF Inv

\* A step that leaves the ConfigMaps, the pods and the bounds alone.
LEMMA PassOnly ==
  ASSUME Inv, UNCHANGED <<started, cmap, podVars, run, changes, faults>>
  PROVE  PodsOK' /\ BoundsOK'
  BY DEF Inv, PodsOK, BoundsOK, podVars

LEMMA ReconcileInv ==
  ASSUME Inv, NEW p \in Plugins, Reconcile(p)
  PROVE  Inv'
<1>1. 1 \in 1..(Cardinality(Emqxs) + 1) /\ \A e \in Matches[p] : ~(e < 1)
  BY EmqxNumbers, MatchIsEmqx
<1>2. PassOK'
  BY <1>1 DEF Inv, PassOK, Reconcile, plugVars
<1>3. PodsOK' /\ BoundsOK'
  BY PassOnly DEF Reconcile
<1>4. AtOne'
  BY DEF Reconcile, AtOne
<1>5. Unloading'
  BY <1>1 DEF Inv, PassOK, Resources, Reconcile, Unloading, plugVars
<1>6. QED
  BY <1>2, <1>3, <1>4, <1>5 DEF Inv

LEMMA AddFinalizerInv == ASSUME Inv, AddFinalizer PROVE Inv'
<1>1. [mem EXCEPT !.fin = TRUE] \in Resources
  BY DEF Inv, PassOK, Resources
<1>2. PassOK'
  <2>1. CASE mem.fin \/ plug[cur[1]] # mem
    BY <2>1 DEF Inv, PassOK, AddFinalizer, Goto, EndPass
  <2>2. CASE ~mem.fin /\ plug[cur[1]] = mem
    <3>1. /\ mem' = [mem EXCEPT !.fin = TRUE] /\ pc' = "check"
          /\ plug' = [plug EXCEPT ![cur[1]] = mem']
          /\ UNCHANGED <<cur, unloaded>>
      BY <2>2 DEF AddFinalizer
    <3>2. QED
      BY <1>1, <3>1 DEF Inv, PassOK
  <2>3. QED
    BY <2>1, <2>2
<1>3. PodsOK' /\ BoundsOK'
  BY PassOnly DEF AddFinalizer
<1>4. AtOne' /\ Unloading'
  BY DEF AddFinalizer, AtOne, Unloading, Goto, EndPass
<1>5. QED
  BY <1>2, <1>3, <1>4 DEF Inv

LEMMA CheckPluginConfigInv == ASSUME Inv, checkPluginConfig PROVE Inv'
<1>1. PassOK'
  BY NextInList DEF Inv, PassOK, checkPluginConfig, Goto, EndPass, NextEmqx,
                    plugVars
<1>2. PodsOK' /\ BoundsOK'
  BY PassOnly DEF checkPluginConfig
<1>3. AtOne' /\ Unloading'
  BY DEF checkPluginConfig, AtOne, AtEmqx, Unloading, Goto, EndPass, NextEmqx
<1>4. QED
  BY <1>1, <1>2, <1>3 DEF Inv

LEMMA LoadPluginConfigInv == ASSUME Inv, loadPluginConfig PROVE Inv'
<1>1. PassOK' /\ AtOne' /\ Unloading' /\ BoundsOK'
  BY DEF Inv, PassOK, AtOne, Unloading, BoundsOK, loadPluginConfig, EndPass,
         plugVars
<1>2. cmap' \in [Emqxs -> [Names -> Configs]]
  <2>1. Pn \in Names /\ cur[2] \in Emqxs /\ mem.cfg \in Configs
    BY PnName DEF Inv, PassOK, AtOne, AtEmqx, Resources, loadPluginConfig
  <2>2. QED
    BY <2>1 DEF Inv, PodsOK, loadPluginConfig
<1>3. PodsOK'
  BY <1>2 DEF Inv, PodsOK, loadPluginConfig, podVars
<1>4. QED
  BY <1>1, <1>3 DEF Inv

LEMMA CheckPluginStatusInv == ASSUME Inv, checkPluginStatusByAPI PROVE Inv'
<1>1. PassOK'
  BY NextInList DEF Inv, PassOK, AtOne, checkPluginStatusByAPI, EndPass,
                    NextEmqx, plugVars
<1>2. run' \in [Node -> [Names -> [on : BOOLEAN, cfg : Configs]]]
  BY PnName, ReloadedType DEF Inv, checkPluginStatusByAPI
<1>3. PodsOK'
  BY <1>2 DEF Inv, PodsOK, checkPluginStatusByAPI, podVars
<1>4. BoundsOK'
  BY FaultType DEF Inv, BoundsOK, checkPluginStatusByAPI
<1>5. AtOne' /\ Unloading'
  BY DEF checkPluginStatusByAPI, AtOne, Unloading, EndPass, NextEmqx
<1>6. QED
  BY <1>1, <1>3, <1>4, <1>5 DEF Inv

\* One EMQX after the other: the nodes of those that match, before the pass's
\* EMQX, are in the history.
LEMMA UnloadInv == ASSUME Inv, unloadPluginByAPI PROVE Inv'
<1> DEFINE done(S) ==
             /\ run' = [n \in Node |-> IF n \in S
                          THEN [run[n] EXCEPT ![Pn].on = FALSE] ELSE run[n]]
             /\ unloaded' = [unloaded EXCEPT ![cur[1]] = @ \cup S]
<1>1. cur[1] \in Plugins /\ Pn \in Names /\ (AtMatch => AtEmqx)
  <2>1. cur[1] \in Plugins /\ Pn \in Names
    BY PnName DEF Inv, PassOK
  <2>2. QED
    BY <2>1, MatchIsEmqx DEF AtMatch, AtEmqx
<1>2. PodsOK' /\ BoundsOK'
  <2>1. faults' \in SUBSET Faults
    BY FaultType DEF Inv, BoundsOK, unloadPluginByAPI
  <2>2. \/ run' = run
        \/ \E S \in SUBSET Node : run' = [n \in Node |-> IF n \in S
                 THEN [run[n] EXCEPT ![Pn].on = FALSE] ELSE run[n]]
    <3>1. \/ run' = run
          \/ done(NodesOf[cur[2]]) /\ AtEmqx
          \/ AtEmqx /\ \E S \in (SUBSET NodesOf[cur[2]]) \ {NodesOf[cur[2]]} : done(S)
      BY <1>1 DEF unloadPluginByAPI
    <3>2. AtEmqx => NodesOf[cur[2]] \subseteq Node
      BY NodesOfEmqx DEF AtEmqx
    <3>3. QED
      BY <3>1, <3>2
  <2>3. run' \in [Node -> [Names -> [on : BOOLEAN, cfg : Configs]]]
    <3>1. CASE run' = run
      BY <3>1 DEF Inv, PodsOK
    <3>2. CASE run' # run
      <4>1. PICK S \in SUBSET Node : run' = [n \in Node |-> IF n \in S
                 THEN [run[n] EXCEPT ![Pn].on = FALSE] ELSE run[n]]
        BY <2>2, <3>2
      <4>2. QED
        BY <1>1, <4>1, UnloadType DEF Inv
    <3>3. QED
      BY <3>1, <3>2
  <2>4. QED
    BY <2>1, <2>3 DEF Inv, PodsOK, BoundsOK, unloadPluginByAPI, podVars
<1>3. CASE ~AtEmqx
  <2>1. pc' = "release" /\ UNCHANGED <<cur, mem, plug, unloaded>>
    BY <1>1, <1>3 DEF unloadPluginByAPI, Goto
  <2>2. PassOK' /\ AtOne'
    BY <2>1 DEF Inv, PassOK, AtOne
  <2>3. Unloading'
    BY <1>3, <2>1 DEF Inv, Unloading, AtEmqx, unloadPluginByAPI
  <2>4. QED
    BY <1>2, <2>2, <2>3 DEF Inv
<1>4. CASE AtEmqx /\ pc' = "unload"
  <2>1. /\ cur' = <<cur[1], cur[2] + 1>> /\ UNCHANGED <<mem, plug>>
        /\ \/ ~AtMatch /\ unloaded' = unloaded
           \/ unloaded' = [unloaded EXCEPT ![cur[1]] = @ \cup NodesOf[cur[2]]]
    BY <1>4 DEF unloadPluginByAPI, NextEmqx, EndPass
  <2>2. PassOK'
    BY <1>1, <1>4, <2>1, NextInList, NodesOfEmqx DEF Inv, PassOK, AtEmqx
  <2>3. /\ unloaded[cur[1]] \subseteq unloaded'[cur[1]]
        /\ AtMatch => NodesOf[cur[2]] \subseteq unloaded'[cur[1]]
    BY <1>1, <2>1 DEF Inv, PassOK
  <2>4. \A e \in Matches[cur[1]] :
           e < cur[2] + 1 => NodesOf[e] \subseteq unloaded'[cur[1]]
    <3>1. \A e \in Matches[cur[1]] : e < cur[2] + 1 => e < cur[2] \/ e = cur[2]
      BY <1>1, <1>4, NextInList, MatchIsEmqx DEF Inv
    <3>2. QED
      BY <2>3, <3>1 DEF Inv, Unloading, AtMatch, unloadPluginByAPI
  <2>5. AtOne' /\ Unloading'
    BY <1>4, <2>1, <2>4 DEF Inv, Unloading, AtOne, unloadPluginByAPI
  <2>6. QED
    BY <1>2, <2>2, <2>5 DEF Inv
<1>5. CASE AtEmqx /\ pc' # "unload"
  <2>1. pc' = "idle" /\ UNCHANGED <<cur, mem, plug>>
    BY <1>5 DEF unloadPluginByAPI, EndPass, NextEmqx
  <2>2. unloaded' \in [Plugins -> SUBSET Node]
    BY <1>1, <1>5, NodesOfEmqx DEF Inv, PassOK, unloadPluginByAPI, NextEmqx,
                                   AtEmqx
  <2>3. PassOK' /\ AtOne' /\ Unloading'
    BY <2>1, <2>2 DEF Inv, PassOK, AtOne, Unloading
  <2>4. QED
    BY <1>2, <2>3 DEF Inv
<1>6. QED
  BY <1>3, <1>4, <1>5

LEMMA RemoveFinalizerInv == ASSUME Inv, RemoveFinalizer PROVE Inv'
<1>1. PassOK' /\ AtOne' /\ Unloading'
  BY ResourceTypes DEF Inv, PassOK, AtOne, Unloading, RemoveFinalizer, EndPass
<1>2. PodsOK' /\ BoundsOK'
  BY PassOnly DEF RemoveFinalizer
<1>3. QED
  BY <1>1, <1>2 DEF Inv

LEMMA PassFailsInv == ASSUME Inv, PassFails PROVE Inv'
<1>1. PassOK' /\ AtOne' /\ Unloading' /\ PodsOK'
  BY DEF Inv, PassOK, PodsOK, AtOne, Unloading, PassFails, EndPass, plugVars,
         podVars
<1>2. BoundsOK'
  BY FaultType DEF Inv, BoundsOK, PassFails
<1>3. QED
  BY <1>1, <1>2 DEF Inv

-----------------------------------------------------------------------------
(* The steps of the others.                                                *)

\* What the 4.x controllers and the user do to the resources leaves one that
\* is being deleted alone.
LEMMA OthersInv ==
  ASSUME Inv, UNCHANGED <<passVars, started, cmap, podVars, run, faults>>,
         changes' \in 0..MaxChanges,
         plug' \in [Plugins -> Resources],
         unloaded' \in [Plugins -> SUBSET Node],
         \A p \in Plugins : plug[p].exists /\ plug[p].deleting =>
            plug'[p] = plug[p] /\ unloaded'[p] = unloaded[p]
  PROVE  Inv'
<1>1. PassOK' /\ PodsOK' /\ BoundsOK' /\ AtOne'
  BY DEF Inv, PassOK, PodsOK, BoundsOK, AtOne, AtEmqx, passVars, podVars
<1>2. Unloading'
  BY DEF Inv, PassOK, Unloading, AtEmqx, passVars
<1>3. QED
  BY <1>1, <1>2 DEF Inv

LEMMA AddEmqxPluginsInv == ASSUME Inv, addEmqxPlugins PROVE Inv'
<1>1. PICK p \in Defaults :
         /\ \A e \in Matches[p] : ~Taken(e, NameOf[p])
         /\ plug' = [plug EXCEPT ![p] = Fresh(Empty)]
         /\ unloaded' = [unloaded EXCEPT ![p] = {}]
  BY DEF addEmqxPlugins
<1>2. p \in Plugins /\ ~plug[p].exists
  <2>1. p \in Plugins /\ \E e \in Emqxs : Matches[p] = {e}
    BY PluginAssumption
  <2>2. QED
    BY <1>1, <2>1 DEF Taken
<1>3. Fresh(Empty) \in Resources
  BY ResourceTypes, PluginAssumption
<1>4. QED
  BY <1>1, <1>2, <1>3, OthersInv DEF addEmqxPlugins, Inv, PassOK, BoundsOK

LEMMA UserSetsInv == ASSUME Inv, UserSets PROVE Inv'
<1>1. changes' \in 0..MaxChanges
  BY PluginAssumption DEF Inv, BoundsOK, UserSets
<1>2. PICK p \in Plugins, c \in Configs :
         \/ /\ ~plug[p].exists
            /\ plug' = [plug EXCEPT ![p] = Fresh(c)]
            /\ unloaded' = [unloaded EXCEPT ![p] = {}]
         \/ /\ plug[p].exists /\ ~plug[p].deleting /\ plug[p].cfg # c
            /\ plug' = [plug EXCEPT ![p].cfg = c]
            /\ UNCHANGED unloaded
  BY DEF UserSets
<1>3. plug' \in [Plugins -> Resources]
  <2>1. [plug[p] EXCEPT !.cfg = c] \in Resources
    BY DEF Inv, PassOK, Resources
  <2>2. QED
    BY <1>2, <2>1, ResourceTypes DEF Inv, PassOK
<1>4. QED
  BY <1>1, <1>2, <1>3, OthersInv DEF UserSets, Inv, PassOK

LEMMA UserDeletesInv == ASSUME Inv, UserDeletes PROVE Inv'
<1>1. changes' \in 0..MaxChanges
  BY PluginAssumption DEF Inv, BoundsOK, UserDeletes
<1>2. PICK p \in Plugins :
         /\ plug[p].exists /\ ~plug[p].deleting
         /\ plug' = [plug EXCEPT ![p] = IF @.fin
                                        THEN [@ EXCEPT !.deleting = TRUE]
                                        ELSE Absent]
  BY DEF UserDeletes
<1>3. plug' \in [Plugins -> Resources]
  <2>1. [plug[p] EXCEPT !.deleting = TRUE] \in Resources
    BY DEF Inv, PassOK, Resources
  <2>2. QED
    BY <1>2, <2>1, ResourceTypes DEF Inv, PassOK
<1>4. QED
  BY <1>1, <1>2, <1>3, OthersInv DEF UserDeletes, Inv, PassOK

\* The pods and the sidecars write no resource and nothing of the pass.
LEMMA PodStepInv ==
  ASSUME Inv, EmqxStarts \/ Sidecar \/ SidecarRestarts \/ PodRestarts
  PROVE  Inv'
<1>1. UNCHANGED <<plugVars, passVars, changes>>
  BY DEF EmqxStarts, Sidecar, SyncFiles, HandleEvent, requestWebhook,
         SidecarRestarts, PodRestarts
<1>2. PassOK' /\ AtOne' /\ Unloading'
  BY <1>1 DEF Inv, PassOK, AtOne, AtEmqx, Unloading, plugVars, passVars
<1>3. BoundsOK'
  BY <1>1, FaultType DEF Inv, BoundsOK, EmqxStarts, Sidecar, SyncFiles,
           HandleEvent, requestWebhook, SidecarRestarts, PodRestarts
<1>4. PodsOK'
  <2>1. CASE EmqxStarts
    BY <2>1 DEF Inv, PodsOK, EmqxStarts, podVars
  <2>2. CASE SyncFiles
    BY <2>2, EmqxOfNode DEF Inv, PodsOK, SyncFiles
  <2>3. CASE HandleEvent
    <3>1. PICK n \in Node, x \in Names : updateWatcher(n, x)
      BY <2>3 DEF HandleEvent
    <3>2. removed' \in [Node -> SUBSET Names]
      BY <3>1 DEF Inv, PodsOK, updateWatcher
    <3>3. check' \in [Node -> [Names -> Configs]]
      <4>1. file[n][x] \in Configs /\ check[n] \in [Names -> Configs]
        BY DEF Inv, PodsOK
      <4>2. [check[n] EXCEPT ![x] = file[n][x]] \in [Names -> Configs]
        BY <4>1
      <4>3. QED
        BY <3>1, <4>2 DEF Inv, PodsOK, updateWatcher
    <3>4. due' \in [Node -> Names \cup {NoName}]
      BY <3>1 DEF Inv, PodsOK, updateWatcher
    <3>5. QED
      BY <2>3, <3>2, <3>3, <3>4 DEF Inv, PodsOK, HandleEvent
  <2>4. CASE requestWebhook
    <3>1. run' \in [Node -> [Names -> [on : BOOLEAN, cfg : Configs]]]
      BY <2>4, ReloadedType DEF Inv, PodsOK, requestWebhook
    <3>2. QED
      BY <2>4, <3>1 DEF Inv, PodsOK, requestWebhook
  <2>5. CASE SidecarRestarts
    BY <2>5 DEF Inv, PodsOK, SidecarRestarts, WatchFiles
  <2>6. CASE PodRestarts
    BY <2>6, EmqxOfNode DEF Inv, PodsOK, PodRestarts, WatchFiles
  <2>7. QED
    BY <2>1, <2>2, <2>3, <2>4, <2>5, <2>6 DEF Sidecar
<1>5. QED
  BY <1>2, <1>3, <1>4 DEF Inv

LEMMA StutterInv == ASSUME Inv, UNCHANGED vars PROVE Inv'
  BY DEF Inv, PassOK, PodsOK, BoundsOK, AtOne, AtEmqx, Unloading, vars

LEMMA NextInv == Inv /\ [Next]_vars => Inv'
<1> SUFFICES ASSUME Inv, [Next]_vars PROVE Inv'
  OBVIOUS
<1>1. CASE Controller
  BY <1>1, ReconcileInv, AddFinalizerInv, CheckPluginConfigInv,
     LoadPluginConfigInv, CheckPluginStatusInv, UnloadInv, RemoveFinalizerInv
  DEF Controller
<1>2. QED
  BY <1>1, PassFailsInv, AddEmqxPluginsInv, UserSetsInv, UserDeletesInv,
     PodStepInv, StutterInv DEF Next

LEMMA AlwaysInv == Spec => []Inv
  BY InitInv, NextInv, PTL DEF Spec

-----------------------------------------------------------------------------
(* Theorems.                                                               *)

\* The variables keep their types: no pass runs past the end of the list of
\* EMQX resources.
THEOREM TypeCorrect == Spec => []TypeOK
<1>1. Inv => TypeOK
  BY DEF Inv, PassOK, PodsOK, BoundsOK, TypeOK
<1>2. QED
  BY <1>1, AlwaysInv, PTL

\* Only the pass that has unloaded the plugin everywhere takes away a
\* resource with a finalizer.
LEMMA GoneStep ==
  ASSUME Inv, [Next]_vars, NEW p \in Plugins,
         plug[p].exists, plug[p].fin, ~plug'[p].exists
  PROVE  NodesFor(p) \subseteq unloaded[p]
<1>1. CASE RemoveFinalizer
  <2>1. p = cur[1] /\ ~AtEmqx
    BY <1>1 DEF Inv, PassOK, Unloading, RemoveFinalizer
  <2>2. \A e \in Matches[p] : NodesOf[e] \subseteq unloaded[p]
    BY <1>1, <2>1, PastTheList, MatchIsEmqx DEF Inv, Unloading, RemoveFinalizer
  <2>3. QED
    BY <2>2 DEF NodesFor
<1>2. CASE AddFinalizer \/ addEmqxPlugins \/ UserSets \/ UserDeletes
  <2>1. plug'[p].exists
    <3>1. CASE AddFinalizer
      BY <3>1 DEF Inv, PassOK, Resources, AddFinalizer
    <3>2. CASE addEmqxPlugins
      BY <3>2 DEF Inv, PassOK, Resources, addEmqxPlugins, Fresh, Absent
    <3>3. CASE UserSets
      BY <3>3 DEF Inv, PassOK, Resources, UserSets, Fresh, Absent
    <3>4. CASE UserDeletes
      BY <3>4 DEF Inv, PassOK, Resources, UserDeletes
    <3>5. QED
      BY <1>2, <3>1, <3>2, <3>3, <3>4
  <2>2. QED
    BY <2>1
<1>3. CASE UNCHANGED plug
  BY <1>3
<1>4. QED
  <2>1. \/ RemoveFinalizer \/ AddFinalizer \/ addEmqxPlugins \/ UserSets
        \/ UserDeletes \/ UNCHANGED plug
    BY DEF Next, Controller, Reconcile, checkPluginConfig, loadPluginConfig,
           checkPluginStatusByAPI, unloadPluginByAPI, PassFails, EmqxStarts,
           Sidecar, SyncFiles, HandleEvent, requestWebhook, SidecarRestarts,
           PodRestarts, plugVars, vars
  <2>2. QED
    BY <2>1, <1>1, <1>2, <1>3

\* An EmqxPlugin that has its finalizer is gone only when its plugin was
\* unloaded from every node of every EMQX it matches since the deletion began,
\* whatever calls failed, passes died and pods restarted before.
THEOREM FinalizerHolds == Spec => GoneMeansUnloaded
<1>1. Inv /\ [Next]_vars
        => [\A p \in Plugins :
              (plug[p].exists /\ plug[p].fin /\ ~plug'[p].exists)
                 => NodesFor(p) \subseteq unloaded[p]]_vars
  BY GoneStep
<1>2. QED
  BY <1>1, AlwaysInv, PTL DEF Spec, GoneMeansUnloaded

=============================================================================
