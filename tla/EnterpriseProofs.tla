--------------------------- MODULE EnterpriseProofs ---------------------------
(***************************************************************************)
(* Proofs about EmqxEnterprise, for every set of templates, every size,    *)
(* every order of the pod names, any number of edits and any faults: the   *)
(* variables keep their types, and the loop implements BlueGreen.  For     *)
(* edits that are made one after another: a pod is taken away only when it *)
(* was evacuated, and clients reach a node in every state.                 *)
(*                                                                         *)
(* A pass drains the origin because of what its copy of the resource says, *)
(* and the copy can be a version that the cache has kept, or that a fault  *)
(* left in memory.  The invariant is therefore about every version there   *)
(* is: one that shows an update in progress names as current a StatefulSet *)
(* that was seen ready and is not the origin.                              *)
(***************************************************************************)
EXTENDS EmqxEnterprise, FiniteSetTheorems, TLAPS

\* The specs that the user can have asked for.
Asked == EditSpecs \cup {InitSpec}

\* A status that shows an update names a proven current StatefulSet.
Replaces(st, S) == st.bg.on => st.bg.cur \in S /\ st.bg.cur # st.bg.org

Good(v, S) == /\ v \in Resources /\ v.spec \in Asked
              /\ Replaces(v.status, S)

\* The stored resource, the version before it, and the two that a pass holds.
CopiesOK == /\ Good(cr, proven) /\ Good(prev, proven)
            /\ Good(mem, proven) /\ Good(base, proven)

SetsOK == sts \in [Names -> StsRecords] /\ clock \in Nat

NodesOK == /\ pods \in SUBSET Pod /\ up \in SUBSET pods
           /\ gate \in SUBSET pods /\ evac \in SUBSET up /\ load \in SUBSET up

RestOK == /\ endpoints \in SUBSET Pod /\ made \in -1..InitResources
          /\ pc \in Steps /\ edits \in 0..MaxEdits
          /\ faults \in SUBSET Faults /\ proven \in SUBSET Names

Inv == CopiesOK /\ SetsOK /\ NodesOK /\ RestOK

-----------------------------------------------------------------------------
(* Operators.                                                              *)

\* Every spec that is asked for is a spec.
LEMMA AskedSpecs == Asked \subseteq Specs
  BY EnterpriseAssumption DEF Asked

\* A StatefulSet that was seen ready stays so: what a version says is kept
\* when more of them are known.
LEMMA GoodGrows ==
  ASSUME NEW v, NEW S, NEW T, S \subseteq T, Good(v, S)
  PROVE  Good(v, T)
  BY DEF Good, Replaces

\* The resource as it is created shows no update.
LEMMA InitGood == ASSUME NEW S PROVE Good(InitCR, S)
<1>1. NoBG \in BGStatus
  BY DEF NoBG, BGStatus, Names
<1>2. InitCR \in Resources
  BY <1>1, AskedSpecs DEF InitCR, Resources, Statuses, Asked
<1>3. QED
  BY <1>2 DEF Good, Replaces, InitCR, NoBG, Asked

\* Storing a status loses an empty list, and nothing of the update.
LEMMA StoredStatus ==
  ASSUME NEW st \in Statuses
  PROVE  /\ Stored(st) \in Statuses
         /\ Stored(st).bg.on <=> st.bg.on
         /\ Stored(st).bg.cur = st.bg.cur
         /\ Stored(st).bg.org = st.bg.org
<1>1. st.bg \in BGStatus
  BY DEF Statuses
<1>2. Stored(st) = [st EXCEPT !.bg = [st.bg EXCEPT !.known =
                                 st.bg.known /\ st.bg.evac # {}]]
  BY <1>1 DEF Stored, Statuses, BGStatus
<1>3. [st.bg EXCEPT !.known = st.bg.known /\ st.bg.evac # {}] \in BGStatus
  BY <1>1 DEF BGStatus
<1>4. QED
  BY <1>1, <1>2, <1>3 DEF Statuses, BGStatus

\* A version with a new good status is good.
LEMMA NewStatusGood ==
  ASSUME NEW v, NEW S, NEW st \in Statuses, Good(v, S), Replaces(st, S)
  PROVE  Good([v EXCEPT !.status = st], S)
  BY DEF Good, Resources, Replaces

\* The end of a pass forgets its copies.
LEMMA EndPassGood ==
  ASSUME NEW S, EndPass
  PROVE  Good(mem', S) /\ Good(base', S) /\ pc' \in Steps
  BY InitGood DEF EndPass, Steps

\* A status update, also one that ends in a conflict, leaves good versions.
LEMMA StatusUpdateGood ==
  ASSUME NEW S, NEW st \in Statuses, NEW next \in Steps,
         Good(cr, S), Good(prev, S), Good(mem, S), Good(base, S),
         Replaces(st, S), StatusUpdate(st, next)
  PROVE  /\ Good(cr', S) /\ Good(prev', S)
         /\ Good(mem', S) /\ Good(base', S)
         /\ pc' \in Steps
<1>1. CASE base = cr
  <2>1. Good([cr EXCEPT !.status = Stored(st)], S)
    BY StoredStatus, NewStatusGood DEF Replaces
  <2>2. Good([mem EXCEPT !.status = st], S)
    BY NewStatusGood
  <2>3. QED
    BY <1>1, <2>1, <2>2 DEF StatusUpdate, Store
<1>2. CASE base # cr
  BY <1>2, EndPassGood DEF StatusUpdate, crVars
<1>3. QED
  BY <1>1, <1>2

\* The StatefulSet that a pass deploys is one of the possible ones.
LEMMA NewStatefulSetNames ==
  ASSUME mem \in Resources
  PROVE  NewStatefulSet \subseteq Names
<1>1. mem.spec.tpl \in Templates
  BY DEF Resources, Specs
<1> DEFINE same == {x \in AllSts : sts[x].tpl = mem.spec.tpl}
           free == {c \in 0..MaxCollision : ~Exists(<<mem.spec.tpl, c>>)}
           next == {<<mem.spec.tpl, c>> :
                       c \in {d \in free : \A e \in free : d <= e}}
<1>2. same \subseteq Names /\ Plain \in Names
  BY DEF AllSts, Names
<1>3. next \subseteq Names
  <2>1. \A c \in 0..MaxCollision : <<mem.spec.tpl, c>> \in Names
    BY <1>1 DEF Names
  <2>2. QED
    BY <2>1
<1>4. NewStatefulSet = IF ~mem.spec.bg THEN {Plain}
                       ELSE IF same # {} THEN {x \in same : IsFirst(x, same)}
                       ELSE next
  BY DEF NewStatefulSet
<1> HIDE DEF same, free, next
<1>5. QED
  BY <1>2, <1>3, <1>4

\* What a pass takes for the pods of a StatefulSet are pods of it.
LEMMA PodMapPods ==
  ASSUME NEW x, NEW p \in PodMap(x)
  PROVE  p \in pods /\ p[1] = x
  BY DEF PodMap, StsPods

-----------------------------------------------------------------------------
(* Every step keeps the invariant.                                         *)

\* A fault is one that the instance has.
LEMMA FaultType ==
  ASSUME NEW f, faults \in SUBSET Faults, Fault(f)
  PROVE  faults' \in SUBSET Faults
  BY DEF Fault

LEMMA DoInv == ASSUME Inv, Do PROVE Inv'
<1>1. CopiesOK'
  BY DEF Inv, CopiesOK, Do, crVars, memVars
<1>2. SetsOK' /\ NodesOK'
  BY DEF Inv, SetsOK, NodesOK, Do, setVars, nodeVars
<1>3. RestOK'
  <2>1. faults' \in SUBSET Faults
    BY FaultType DEF Inv, RestOK, Do
  <2>2. made' \in -1..InitResources
    BY EnterpriseAssumption DEF Inv, RestOK, Do
  <2>3. QED
    BY <2>1, <2>2 DEF Inv, RestOK, Do, Steps
<1>4. QED
  BY <1>1, <1>2, <1>3 DEF Inv

\* A step that only moves the pass on, or ends it, and may count a fault.
LEMMA MoveOnInv ==
  ASSUME Inv, UNCHANGED <<crVars, setVars, nodeVars, endpoints, edits, proven>>,
         made' \in -1..InitResources, faults' \in SUBSET Faults,
         \/ UNCHANGED memVars /\ pc' \in Steps
         \/ EndPass
  PROVE  Inv'
<1>1. Good(mem', proven) /\ Good(base', proven) /\ pc' \in Steps
  BY EndPassGood DEF Inv, CopiesOK, memVars
<1>2. CopiesOK'
  BY <1>1 DEF Inv, CopiesOK, crVars
<1>3. SetsOK' /\ NodesOK' /\ RestOK'
  BY <1>1 DEF Inv, SetsOK, NodesOK, RestOK, setVars, nodeVars
<1>4. QED
  BY <1>2, <1>3 DEF Inv

LEMMA UpdateStatusFailsInv ==
  ASSUME Inv, NEW at, NEW next \in Steps, updateStatusFails(at, next)
  PROVE  Inv'
<1>1. faults' \in SUBSET Faults
  BY FaultType DEF Inv, RestOK, updateStatusFails
<1>2. QED
  BY <1>1, MoveOnInv DEF updateStatusFails, Inv, RestOK

\* A status that only lists other nodes shows the same update.
LEMMA NodesOnly ==
  ASSUME NEW v, NEW S, NEW P \in SUBSET Pod, Good(v, S)
  PROVE  Good([v EXCEPT !.status.nodes = P], S)
<1>1. [v EXCEPT !.status.nodes = P]
        = [v EXCEPT !.status = [v.status EXCEPT !.nodes = P]]
  BY DEF Good, Resources
<1>2. [v.status EXCEPT !.nodes = P] \in Statuses
  BY DEF Good, Resources, Statuses
<1>3. Replaces([v.status EXCEPT !.nodes = P], S)
  BY DEF Good, Replaces, Resources, Statuses
<1>4. QED
  BY <1>1, <1>2, <1>3, NewStatusGood

LEMMA UpdateStatusNotReadyInv ==
  ASSUME Inv, NEW at, NEW next \in Steps, updateStatusNotReady(at, next)
  PROVE  Inv'
<1>1. up \in SUBSET Pod
  BY DEF Inv, NodesOK
<1>2. Good([mem EXCEPT !.status.nodes = up], proven)
  BY <1>1, NodesOnly DEF Inv, CopiesOK
<1>3. CopiesOK'
  BY <1>2 DEF Inv, CopiesOK, updateStatusNotReady, crVars
<1>4. SetsOK' /\ NodesOK' /\ RestOK'
  BY DEF Inv, SetsOK, NodesOK, RestOK, updateStatusNotReady, setVars,
         nodeVars
<1>5. QED
  BY <1>3, <1>4 DEF Inv

LEMMA UpdateStatusOneInv ==
  ASSUME Inv, NEW at, NEW next \in Steps, updateStatusOne(at, next)
  PROVE  Inv'
<1> DEFINE run == IF Cardinality(up) = mem.spec.n THEN "True" ELSE "False"
           st == [mem.status EXCEPT !.nodes = up, !.bg = NoBG,
                                    !.running = run]
<1>1. NoBG \in BGStatus /\ ~NoBG.on
  BY DEF NoBG, BGStatus, Names
<1>2. mem.status \in Statuses /\ up \in SUBSET Pod
  BY DEF Inv, CopiesOK, NodesOK, Good, Resources
<1>3. run \in {"unset", "True", "False"}
  OBVIOUS
<1>4. StatusUpdate(st, next)
  BY DEF updateStatusOne
<1> HIDE DEF run
<1>5. st \in Statuses
  BY <1>1, <1>2, <1>3 DEF Statuses
<1>6. Replaces(st, proven)
  BY <1>1, <1>2 DEF Replaces, Statuses
<1> HIDE DEF st
<1>7. /\ Good(cr', proven) /\ Good(prev', proven)
      /\ Good(mem', proven) /\ Good(base', proven) /\ pc' \in Steps
  BY <1>4, <1>5, <1>6, StatusUpdateGood DEF Inv, CopiesOK
<1>8. CopiesOK'
  BY <1>7 DEF CopiesOK, updateStatusOne
<1>9. SetsOK' /\ NodesOK' /\ RestOK'
  BY <1>7 DEF Inv, SetsOK, NodesOK, RestOK, updateStatusOne, setVars,
              nodeVars
<1>10. QED
  BY <1>8, <1>9 DEF Inv

\* The record of an update names as current the StatefulSet whose readiness
\* it was made from.
LEMMA UpdateStatusTwoInv ==
  ASSUME Inv, NEW at, NEW next \in Steps, updateStatusTwo(at, next)
  PROVE  Inv'
<1> DEFINE st == [mem.status EXCEPT !.nodes = up, !.updating = TRUE]
           now == {<<p, p \notin load>> : p \in evac}
           bg(o, c) == [st.bg EXCEPT !.on = TRUE, !.cur = c, !.org = o]
           read(o, c) == [bg(o, c) EXCEPT !.known = TRUE, !.evac = now]
<1>1. PICK org, cur \in InCluster(up) :
         /\ IsLast(org, InCluster(up))
         /\ IsLast(cur, InCluster(up) \ {org})
         /\ proven' = IF Cardinality(ReadyPods(cur)) = sts[cur].want
                      THEN proven \cup {cur} ELSE proven
         /\ \/ /\ ~CurrentReady(cur)
               /\ StatusUpdate(st, next) /\ UNCHANGED faults
            \/ /\ CurrentReady(cur)
               /\ StatusUpdate([st EXCEPT !.bg = read(org, cur)], next)
               /\ UNCHANGED faults
            \/ /\ CurrentReady(cur) /\ Fault("emqxAPI") /\ pc' = next
               /\ mem' = [mem EXCEPT !.status =
                                       [st EXCEPT !.bg = bg(org, cur)]]
               /\ UNCHANGED <<crVars, base>>
  BY DEF updateStatusTwo
<1>2. org \in Names /\ cur \in Names /\ cur # org
  BY <1>1 DEF InCluster, AllSts, IsLast
<1>3. proven \subseteq proven' /\ proven' \in SUBSET Names
  BY <1>1, <1>2 DEF Inv, RestOK
<1>4. /\ Good(cr, proven') /\ Good(prev, proven')
      /\ Good(mem, proven') /\ Good(base, proven')
  BY <1>3, GoodGrows DEF Inv, CopiesOK
<1>5. /\ mem.status \in Statuses /\ up \in SUBSET Pod
      /\ now \in SUBSET (Pod \X BOOLEAN)
  <2>1. mem.status \in Statuses /\ up \in SUBSET Pod
    BY DEF Inv, CopiesOK, NodesOK, Good, Resources
  <2>2. \A p \in evac : p \in Pod /\ (p \notin load) \in BOOLEAN
    BY DEF Inv, NodesOK
  <2>3. \A p \in evac : <<p, p \notin load>> \in Pod \X BOOLEAN
    BY <2>2
  <2>4. QED
    BY <2>1, <2>3
<1> HIDE DEF now
<1>6. st \in Statuses /\ st.bg = mem.status.bg /\ st.bg \in BGStatus
  BY <1>5 DEF Statuses
<1>7. Replaces(st, proven')
  BY <1>4, <1>6 DEF Good, Replaces
<1> HIDE DEF st
<1>8. /\ bg(org, cur) \in BGStatus /\ bg(org, cur).cur = cur
      /\ bg(org, cur).org = org
  BY <1>2, <1>6 DEF BGStatus
<1> HIDE DEF bg
<1>9. /\ read(org, cur) \in BGStatus /\ read(org, cur).cur = cur
      /\ read(org, cur).org = org
  BY <1>5, <1>8 DEF BGStatus
<1> HIDE DEF read
<1>10. \A b \in BGStatus : /\ [st EXCEPT !.bg = b] \in Statuses
                           /\ [st EXCEPT !.bg = b].bg = b
  BY <1>6 DEF Statuses
<1>11. /\ Good(cr', proven') /\ Good(prev', proven')
       /\ Good(mem', proven') /\ Good(base', proven')
       /\ pc' \in Steps /\ faults' \in SUBSET Faults
  <2>1. CASE StatusUpdate(st, next) /\ UNCHANGED faults
    BY <2>1, <1>4, <1>6, <1>7, StatusUpdateGood DEF Inv, RestOK
  <2>2. CASE /\ CurrentReady(cur)
             /\ StatusUpdate([st EXCEPT !.bg = read(org, cur)], next)
             /\ UNCHANGED faults
    <3>1. Replaces([st EXCEPT !.bg = read(org, cur)], proven')
      BY <2>2, <1>1, <1>2, <1>9, <1>10 DEF Replaces, CurrentReady
    <3>2. QED
      BY <2>2, <3>1, <1>4, <1>9, <1>10, StatusUpdateGood DEF Inv, RestOK
  <2>3. CASE /\ CurrentReady(cur) /\ Fault("emqxAPI") /\ pc' = next
             /\ mem' = [mem EXCEPT !.status = [st EXCEPT !.bg = bg(org, cur)]]
             /\ UNCHANGED <<crVars, base>>
    <3>1. Replaces([st EXCEPT !.bg = bg(org, cur)], proven')
      BY <2>3, <1>1, <1>2, <1>8, <1>10 DEF Replaces, CurrentReady
    <3>2. Good(mem', proven')
      BY <2>3, <3>1, <1>4, <1>8, <1>10, NewStatusGood
    <3>3. QED
      BY <2>3, <3>2, <1>4, FaultType DEF Inv, RestOK, crVars
  <2>4. QED
    BY <1>1, <2>1, <2>2, <2>3
<1>12. CopiesOK'
  BY <1>11 DEF CopiesOK
<1>13. SetsOK' /\ NodesOK'
  BY DEF Inv, SetsOK, NodesOK, updateStatusTwo, setVars, nodeVars
<1>14. RestOK'
  BY <1>3, <1>11 DEF Inv, RestOK, updateStatusTwo
<1>15. QED
  BY <1>12, <1>13, <1>14 DEF Inv

LEMMA UpdateStatusInv ==
  ASSUME Inv, NEW at, NEW next \in Steps, updateEmqxStatus(at, next)
  PROVE  Inv'
  BY UpdateStatusFailsInv, UpdateStatusNotReadyInv, UpdateStatusOneInv,
     UpdateStatusTwoInv DEF updateEmqxStatus

LEMMA AddStatefulSetInv == ASSUME Inv, addEmqxStatefulSet PROVE Inv'
<1>1. mem \in Resources /\ mem.spec \in Specs
  BY DEF Inv, CopiesOK, Good, Resources
<1>2. SetsOK'
  <2>1. PICK x \in NewStatefulSet :
          LET fresh == ~Exists(x)
          IN  /\ sts' = [sts EXCEPT ![x] =
                            [born |-> IF fresh THEN clock + 1 ELSE @.born,
                             want |-> mem.spec.n, tpl |-> mem.spec.tpl]]
              /\ clock' = IF fresh THEN clock + 1 ELSE clock
    BY DEF addEmqxStatefulSet
  <2>2. x \in Names
    BY <1>1, NewStatefulSetNames
  <2>3. mem.spec.n \in 0..MaxReplicas /\ mem.spec.tpl \in Templates
    BY <1>1, EnterpriseAssumption DEF Specs
  <2>4. QED
    BY <2>1, <2>2, <2>3 DEF Inv, SetsOK, StsRecords
<1>3. CopiesOK' /\ NodesOK' /\ RestOK'
  BY DEF Inv, CopiesOK, NodesOK, RestOK, addEmqxStatefulSet, crVars, memVars,
         nodeVars, Steps
<1>4. QED
  BY <1>2, <1>3 DEF Inv

\* The origin of an update that a copy shows is one of the StatefulSets.
LEMMA OriginType ==
  ASSUME Inv
  PROVE  mem.status.bg \in BGStatus /\ mem.status.bg.org \in Names
  BY DEF Inv, CopiesOK, Good, Resources, Statuses, BGStatus

\* Taking one replica away leaves a number of replicas.
LEMMA OneLess ==
  ASSUME Inv, NEW x \in Names, sts[x].want > 0
  PROVE  [sts EXCEPT ![x].want = @ - 1] \in [Names -> StsRecords]
<1>1. sts[x] \in StsRecords
  BY DEF Inv, SetsOK
<1>2. sts[x].want - 1 \in 0..MaxReplicas
  BY <1>1, EnterpriseAssumption DEF StsRecords
<1>3. [sts[x] EXCEPT !.want = sts[x].want - 1] \in StsRecords
  BY <1>1, <1>2 DEF StsRecords
<1>4. QED
  BY <1>3 DEF Inv, SetsOK

LEMMA DrainScaleInv == ASSUME Inv, drainScale PROVE Inv'
<1>1. SetsOK'
  BY OriginType, OneLess DEF Inv, SetsOK, drainScale
<1>2. CopiesOK' /\ NodesOK' /\ RestOK'
  BY DEF Inv, CopiesOK, NodesOK, RestOK, drainScale, crVars, memVars,
         nodeVars, Steps
<1>3. QED
  BY <1>1, <1>2 DEF Inv

LEMMA DrainEvacuateInv == ASSUME Inv, drainEvacuate PROVE Inv'
<1>1. SetsOK'
  BY OriginType, OneLess DEF Inv, SetsOK, drainEvacuate
<1>2. NodesOK'
  BY DEF Inv, NodesOK, drainEvacuate
<1>3. faults' \in SUBSET Faults
  BY FaultType DEF Inv, RestOK, drainEvacuate
<1>4. Good(mem', proven) /\ Good(base', proven) /\ pc' \in Steps
  <2>1. \/ UNCHANGED memVars /\ pc' \in Steps
        \/ EndPass
    BY DEF drainEvacuate, Steps
  <2>2. QED
    BY <2>1, EndPassGood DEF Inv, CopiesOK, memVars
<1>5. CopiesOK' /\ RestOK'
  BY <1>3, <1>4 DEF Inv, CopiesOK, RestOK, drainEvacuate, crVars
<1>6. QED
  BY <1>1, <1>2, <1>5 DEF Inv

LEMMA AddListenerInv == ASSUME Inv, addListener PROVE Inv'
<1>1. endpoints' \in SUBSET Pod
  BY DEF Inv, NodesOK, RestOK, addListener
<1>2. QED
  BY <1>1 DEF Inv, CopiesOK, SetsOK, NodesOK, RestOK, addListener, crVars,
              memVars, setVars, nodeVars, Steps

LEMMA UpdatePodConditionsInv == ASSUME Inv, updatePodConditions PROVE Inv'
<1>1. PICK S \in SUBSET (mem.status.nodes \cap up) :
         gate' = (gate \ S) \cup (S \ evac)
  <2> DEFINE asked == mem.status.nodes \cap up
  <2>1. \/ gate' = (gate \ asked) \cup (asked \ evac)
        \/ \E S \in (SUBSET asked) \ {asked} :
               gate' = (gate \ S) \cup (S \ evac)
    BY DEF updatePodConditions
  <2>2. QED
    BY <2>1
<1>2. NodesOK'
  BY <1>1 DEF Inv, NodesOK, updatePodConditions
<1>3. faults' \in SUBSET Faults
  BY FaultType DEF Inv, RestOK, updatePodConditions
<1>4. Good(mem', proven) /\ Good(base', proven) /\ pc' \in Steps
  BY EndPassGood DEF updatePodConditions
<1>5. CopiesOK' /\ SetsOK' /\ RestOK'
  BY <1>3, <1>4 DEF Inv, CopiesOK, SetsOK, RestOK, updatePodConditions,
                    crVars, setVars
<1>6. QED
  BY <1>2, <1>5 DEF Inv

\* The steps that only move the pass on or end it.
LEMMA MovesInv ==
  ASSUME Inv, addEmqxPlugins \/ drainNothing \/ drainFails \/ PassFails
  PROVE  Inv'
<1>1. CASE addEmqxPlugins
  <2>1. made' \in -1..InitResources
    BY <1>1, EnterpriseAssumption DEF Inv, RestOK, addEmqxPlugins
  <2>2. QED
    BY <1>1, <2>1, MoveOnInv DEF addEmqxPlugins, Inv, RestOK, Steps
<1>2. CASE drainNothing
  BY <1>2, MoveOnInv DEF drainNothing, Inv, RestOK, Steps
<1>3. CASE drainFails
  BY <1>3, MoveOnInv DEF drainFails, Inv, RestOK
<1>4. CASE PassFails
  BY <1>4, MoveOnInv, FaultType DEF PassFails, Inv, RestOK
<1>5. QED
  BY <1>1, <1>2, <1>3, <1>4

LEMMA EditInv == ASSUME Inv, Edit PROVE Inv'
<1>1. PICK s \in EditSpecs \ {cr.spec} : Store([cr EXCEPT !.spec = s])
  BY DEF Edit
<1>2. Good([cr EXCEPT !.spec = s], proven)
  BY <1>1, EnterpriseAssumption DEF Inv, CopiesOK, Good, Asked, Resources
<1>3. CopiesOK'
  BY <1>1, <1>2 DEF Inv, CopiesOK, Store, Edit, memVars
<1>4. SetsOK' /\ NodesOK'
  BY DEF Inv, SetsOK, NodesOK, Edit, setVars, nodeVars
<1>5. RestOK'
  BY EnterpriseAssumption DEF Inv, RestOK, Edit
<1>6. QED
  BY <1>3, <1>4, <1>5 DEF Inv

\* The pods, their nodes and the clients write nothing else.
LEMMA PodStepInv ==
  ASSUME Inv,
         CreatePod \/ DeletePod \/ PodUp \/ PodDown \/ Connect \/ Evacuated
  PROVE  Inv'
<1>1. NodesOK'
  <2>1. CASE CreatePod
    BY <2>1 DEF Inv, NodesOK, CreatePod
  <2>2. CASE DeletePod
    BY <2>2 DEF Inv, NodesOK, DeletePod
  <2>3. CASE PodUp
    BY <2>3 DEF Inv, NodesOK, PodUp
  <2>4. CASE PodDown
    BY <2>4 DEF Inv, NodesOK, PodDown
  <2>5. CASE Connect
    BY <2>5 DEF Inv, NodesOK, Connect
  <2>6. CASE Evacuated
    BY <2>6 DEF Inv, NodesOK, Evacuated
  <2>7. QED
    BY <2>1, <2>2, <2>3, <2>4, <2>5, <2>6
<1>2. faults' \in SUBSET Faults
  BY FaultType DEF Inv, RestOK, CreatePod, DeletePod, PodUp, PodDown, Connect,
                   Evacuated
<1>3. UNCHANGED <<crVars, setVars, endpoints, made, pc, memVars, edits, proven>>
  BY DEF CreatePod, DeletePod, PodUp, PodDown, Connect, Evacuated
<1>4. CopiesOK' /\ SetsOK' /\ RestOK'
  BY <1>2, <1>3 DEF Inv, CopiesOK, SetsOK, RestOK, crVars, setVars, memVars
<1>5. QED
  BY <1>1, <1>4 DEF Inv

LEMMA StutterInv == ASSUME Inv, UNCHANGED vars PROVE Inv'
  BY DEF Inv, CopiesOK, SetsOK, NodesOK, RestOK, vars

LEMMA NextInv == Inv /\ [Next]_vars => Inv'
<1> SUFFICES ASSUME Inv, [Next]_vars PROVE Inv'
  OBVIOUS
<1>1. "init" \in Steps /\ "conds" \in Steps
  BY DEF Steps
<1>2. CASE SubReconcilers
  BY <1>1, <1>2, DoInv, UpdateStatusInv, MovesInv, AddStatefulSetInv,
     DrainScaleInv, DrainEvacuateInv, AddListenerInv, UpdatePodConditionsInv
  DEF SubReconcilers, Drain
<1>3. CASE PassFails
  BY <1>3, MovesInv
<1>4. CASE Environment
  BY <1>4, EditInv, PodStepInv DEF Environment
<1>5. QED
  BY <1>2, <1>3, <1>4, StutterInv DEF Next

LEMMA InitInv == Init => Inv
<1> SUFFICES ASSUME Init PROVE Inv
  OBVIOUS
<1>1. CopiesOK
  BY InitGood DEF Init, CopiesOK
<1>2. SetsOK
  <2>1. InitSpec.tpl \in Templates /\ 0 \in 0..MaxReplicas
    BY EnterpriseAssumption DEF Specs
  <2>2. QED
    BY <2>1 DEF Init, SetsOK, StsRecords
<1>3. NodesOK /\ RestOK
  BY EnterpriseAssumption DEF Init, NodesOK, RestOK, Steps
<1>4. QED
  BY <1>1, <1>2, <1>3 DEF Inv

\* In every reachable state every version of the resource that shows an
\* update names a current StatefulSet that was seen ready.
LEMMA AlwaysInv == Spec => []Inv
  BY InitInv, NextInv, PTL DEF Spec

\* The variables keep their types: no scale down goes below zero replicas,
\* and only running nodes are evacuated or hold connections.
THEOREM TypeCorrect == Spec => []TypeOK
<1>1. Inv => TypeOK
  BY DEF Inv, CopiesOK, SetsOK, NodesOK, RestOK, TypeOK, Good
<1>2. QED
  BY <1>1, AlwaysInv, PTL

-----------------------------------------------------------------------------
(* Every step is a step of BlueGreen, or changes nothing that it sees.     *)

\* What BlueGreen sees of a state.
Wants == [x \in Names |-> sts[x].want]
Evacuating == {p[1] : p \in evac}

\* A step that leaves the StatefulSets, the evacuations and the history alone
\* is none of BlueGreen's.
LEMMA Unseen ==
  ASSUME UNCHANGED <<sts, evac, proven>>
  PROVE  UNCHANGED BG!bgVars
  BY DEF BG!bgVars

\* Deploying the StatefulSet of the spec brings it to a size that was asked
\* for.
LEMMA DeployStep ==
  ASSUME Inv, addEmqxStatefulSet
  PROVE  \E x \in Names : BG!Deploy(x)
<1>1. mem \in Resources /\ mem.spec \in EditSpecs \cup {InitSpec}
  BY DEF Inv, CopiesOK, Good, Asked
<1>2. PICK x \in NewStatefulSet : \E b :
         sts' = [sts EXCEPT ![x] = [born |-> b, want |-> mem.spec.n,
                                    tpl |-> mem.spec.tpl]]
  BY DEF addEmqxStatefulSet
<1>3. x \in Names
  BY <1>1, NewStatefulSetNames
<1>4. Wants' = [Wants EXCEPT ![x] = mem.spec.n]
  <2>1. PICK b : sts' = [sts EXCEPT ![x] = [born |-> b, want |-> mem.spec.n,
                                            tpl |-> mem.spec.tpl]]
    BY <1>2
  <2>2. QED
    BY <1>3, <2>1 DEF Wants, Inv, SetsOK
<1>5. Evacuating' = Evacuating /\ proven' = proven
  BY DEF addEmqxStatefulSet, nodeVars, Evacuating
<1>6. BG!Deploy(x)
  BY <1>1, <1>4, <1>5 DEF BG!Deploy, Wants, Evacuating
<1>7. QED
  BY <1>3, <1>6

\* A look at the status proves at most the current StatefulSet.
LEMMA ProveStep ==
  ASSUME Inv, NEW at, NEW next, updateStatusTwo(at, next)
  PROVE  \/ \E x \in Names : BG!Prove(x)
         \/ UNCHANGED BG!bgVars
<1>1. PICK cur \in InCluster(up) : proven' \in {proven, proven \cup {cur}}
  BY DEF updateStatusTwo
<1>2. cur \in Names
  BY <1>1 DEF InCluster, AllSts
<1>3. UNCHANGED <<sts, evac>>
  BY DEF updateStatusTwo, setVars, nodeVars
<1>4. QED
  BY <1>1, <1>2, <1>3, Unseen DEF BG!Prove

\* Before the drain touches the origin, another StatefulSet is proven.
LEMMA OriginReplaced ==
  ASSUME Inv, mem.status.bg.on
  PROVE  BG!Replaced(mem.status.bg.org)
  BY DEF Inv, CopiesOK, Good, Replaces, BG!Replaced

\* Taking a replica of the origin away is what BlueGreen allows.
LEMMA TakeOneAway ==
  ASSUME Inv, NEW x \in Names, sts[x].want > 0,
         sts' = [sts EXCEPT ![x].want = @ - 1]
  PROVE  Wants[x] > 0 /\ Wants' = [Wants EXCEPT ![x] = @ - 1]
  BY DEF Inv, SetsOK, StsRecords, Wants

LEMMA DrainScaleStep ==
  ASSUME Inv, drainScale
  PROVE  \E x \in Names : BG!Drain(x)
<1>0. PICK org \in Names : org = mem.status.bg.org
  BY OriginType
<1>1. BG!Replaced(org)
  BY <1>0, OriginReplaced DEF drainScale, BG!Replaced
<1>2. \/ Wants' = Wants
      \/ Wants[org] > 0 /\ Wants' = [Wants EXCEPT ![org] = @ - 1]
  BY <1>0, TakeOneAway DEF drainScale, Wants
<1>3. Evacuating' = Evacuating /\ proven' = proven
  BY DEF drainScale, nodeVars, Evacuating
<1>4. BG!Drain(org)
  BY <1>1, <1>2, <1>3 DEF BG!Drain, Wants, Evacuating
<1>5. QED
  BY <1>4

\* The evacuated node is one of the origin's.
LEMMA DrainEvacuateStep ==
  ASSUME Inv, drainEvacuate
  PROVE  \E x \in Names : BG!Drain(x)
<1>0. PICK org \in Names : org = mem.status.bg.org
  BY OriginType
<1>1. BG!Replaced(org)
  BY <1>0, OriginReplaced DEF drainEvacuate, BG!Replaced
<1>2. \/ Wants' = Wants
      \/ Wants[org] > 0 /\ Wants' = [Wants EXCEPT ![org] = @ - 1]
  BY <1>0, TakeOneAway DEF drainEvacuate, Wants
<1>3. Evacuating' \in {Evacuating, Evacuating \cup {org}}
  <2>1. \/ evac' = evac
        \/ \E p \in PodMap(org) : evac' = evac \cup {p}
    BY <1>0 DEF drainEvacuate, IsLastPod
  <2>2. \A p \in PodMap(org) : p[1] = org
    BY PodMapPods
  <2>3. QED
    BY <2>1, <2>2 DEF Evacuating
<1>4. proven' = proven
  BY DEF drainEvacuate
<1>5. BG!Drain(org)
  BY <1>1, <1>2, <1>3, <1>4 DEF BG!Drain, Wants, Evacuating
<1>6. QED
  BY <1>5

\* With a pod its evacuation goes.
LEMMA DrainedStep ==
  ASSUME DeletePod \/ PodDown
  PROVE  BG!Drained
<1>1. evac' \subseteq evac /\ UNCHANGED <<sts, proven>>
  BY DEF DeletePod, PodDown, setVars
<1>2. QED
  BY <1>1 DEF BG!Drained

LEMMA StatusStep ==
  ASSUME Inv, NEW at, NEW next, updateEmqxStatus(at, next)
  PROVE  [BG!Next]_(BG!bgVars)
<1>1. CASE updateStatusTwo(at, next)
  BY <1>1, ProveStep DEF BG!Next
<1>2. CASE updateStatusFails(at, next) \/ updateStatusNotReady(at, next)
             \/ updateStatusOne(at, next)
  BY <1>2, Unseen DEF updateStatusFails, updateStatusNotReady,
                      updateStatusOne, setVars, nodeVars
<1>3. QED
  BY <1>1, <1>2 DEF updateEmqxStatus

LEMMA BlueGreenStep == Inv /\ [Next]_vars => [BG!Next]_(BG!bgVars)
<1> SUFFICES ASSUME Inv, [Next]_vars PROVE [BG!Next]_(BG!bgVars)
  OBVIOUS
<1>1. CASE updateEmqxStatus("status1", "init")
             \/ updateEmqxStatus("status2", "conds")
  BY <1>1, StatusStep
<1>2. CASE addEmqxStatefulSet
  BY <1>2, DeployStep DEF BG!Next
<1>3. CASE Drain
  BY <1>3, DrainScaleStep, DrainEvacuateStep DEF Drain, BG!Next
<1>4. CASE DeletePod \/ PodDown
  BY <1>4, DrainedStep DEF BG!Next
<1>5. CASE Do \/ addEmqxPlugins \/ drainNothing \/ drainFails \/ addListener
             \/ updatePodConditions \/ PassFails
  BY <1>5, Unseen DEF Do, addEmqxPlugins, drainNothing, drainFails,
     addListener, updatePodConditions, PassFails, setVars, nodeVars
<1>6. CASE Edit \/ CreatePod \/ PodUp \/ Connect \/ Evacuated
  BY <1>6, Unseen DEF Edit, CreatePod, PodUp, Connect, Evacuated, setVars,
     nodeVars
<1>7. CASE UNCHANGED vars
  BY <1>7, Unseen DEF vars
<1>8. QED
  BY <1>1, <1>2, <1>3, <1>4, <1>5, <1>6, <1>7
  DEF Next, SubReconcilers, Environment

\* The loop implements a blue-green update: whatever edits, crashes, stale
\* reads, failed calls and lost pods come in between, a StatefulSet loses a
\* replica to the drain, or has a node evacuated, only after another one was
\* seen with all its pods ready.
THEOREM Implementation == Spec => ImplementsBlueGreen
<1>1. Init => BG!Init
  BY DEF Init, BG!Init
<1>2. QED
  BY <1>1, AlwaysInv, BlueGreenStep, PTL DEF Spec, ImplementsBlueGreen, BG!Spec


-----------------------------------------------------------------------------
(***************************************************************************)
(* One update at a time.  Sequential: the user waits for an update to end  *)
(* before asking for the next one, and never changes the number of         *)
(* replicas.  Then there is a first StatefulSet that starts (Fresh), or    *)
(* one that runs alone (Alone), or an old one and a new one (Updating).    *)
(* The faults of Mild do not change this: a pass that read a stale version *)
(* ends with a conflict at its first status update.                        *)
(***************************************************************************)
Size == InitSpec.n

Sequential == ~EditAnyTime /\ \A s \in EditSpecs : s.n = Size

\* The StatefulSet that the resource is created with.
First == IF InitSpec.bg THEN <<InitSpec.tpl, 0>> ELSE Plain

\* The pods that a StatefulSet of n replicas asks for.
PodsOf(x, n) == {x} \X (1..n)

\* All pods of x are ready, and none is taken away or evacuated.
Serving(x) == /\ sts[x].want = Size /\ PodsOf(x, Size) \subseteq gate
              /\ \A p \in evac : p[1] # x

\* The running pass has stored a status: its copy is of the stored version.
Past == pc \notin {"idle", "status1"}

\* The drain is still ahead of the running pass.
BeforeDrain == pc \in {"init", "sts", "drain"}

\* Both versions show the same update, if any.
SameUpdate(v, w) == /\ v.status.bg.on = w.status.bg.on
                    /\ v.status.bg.org = w.status.bg.org

\* A spec without blue-green updates is the first one, and asks for the
\* StatefulSet that has the resource's name.
Fits(spec, x) == spec.bg \/ (x = Plain /\ spec.tpl = sts[x].tpl)

\* A version of the resource that shows no update, nor all nodes running.
New(v) == /\ v.spec = InitSpec /\ v.status.bg = NoBG
          /\ v.status.running # "True"

Fresh ==
    /\ New(cr) /\ New(prev) /\ New(mem) /\ New(base)
    /\ \A x \in Names : x # First => sts[x].want = 0 /\ ~Exists(x)
    /\ Exists(First) => sts[First].want = Size /\ sts[First].tpl = InitSpec.tpl
    /\ evac = {}

Alone(x) ==
    /\ sts[x].want = Size /\ PodsOf(x, Size) \subseteq up
    /\ \A y \in Names \ {x} : sts[y].want = 0
    /\ \A p \in evac : p[1] # x
    /\ Fits(cr.spec, x)
    /\ cr.status.bg.on => cr.spec.tpl = sts[x].tpl /\ cr.status.bg.org # x
    /\ Past => /\ Fits(mem.spec, x) /\ SameUpdate(mem, cr)
               /\ mem.spec.tpl \in {sts[x].tpl, cr.spec.tpl}

\* What the pass has read of the evacuations of a is still so.
ReadOf(a) ==
    /\ mem.status.bg.known
    /\ \A e \in mem.status.bg.evac :
          (e[1][1] = a /\ e[1][2] <= sts[a].want)
             => e[1] \in evac /\ (e[2] => e[1] \notin load)

Updating(a, b) ==
    /\ a # b /\ sts[b].want = Size /\ sts[a].want > 0
    /\ sts[a].born < sts[b].born
    /\ \A y \in Names \ {a, b} : sts[y].want = 0
    /\ PodsOf(a, sts[a].want) \subseteq up /\ StsPods(a) \subseteq up
    /\ sts[b].tpl = cr.spec.tpl /\ sts[a].tpl # sts[b].tpl /\ cr.spec.bg
    /\ \/ Serving(b)
       \/ /\ sts[a].want = Size /\ \A p \in evac : p[1] \notin {a, b}
          /\ ~cr.status.bg.on
    /\ cr.status.bg.on => cr.status.bg.org = a
    /\ Past => /\ mem.spec.tpl = sts[b].tpl /\ mem.spec.bg
               /\ SameUpdate(mem, cr)
    /\ BeforeDrain /\ mem.status.bg.on => ReadOf(a)

\* Pods start within the size and under a StatefulSet; without a fault a
\* ready pod is running; with prompt StatefulSet controllers a pass that
\* drains finds no pod beyond the replicas.
Basic ==
    /\ gate \subseteq up
    /\ \A x \in Names : /\ sts[x].want <= Size /\ sts[x].born <= clock
                        /\ sts[x].want > 0 => Exists(x)
    /\ \A p \in pods : Exists(p[1]) /\ p[2] <= Size
    /\ pc = "status1" => mem = base
    /\ (PromptSets /\ (pc = "status1" \/ BeforeDrain)) =>
          \A p \in pods : p[2] <= sts[p[1]].want

Stage == \/ Fresh
         \/ \E x \in Names : Alone(x)
         \/ \E a, b \in Names : Updating(a, b)

SeqInv == faults \subseteq Mild => Basic /\ Stage

\* All specs ask for the same number of replicas, at least one.
LEMMA AskedSize ==
  ASSUME Sequential
  PROVE  Size \in 1..MaxReplicas /\ \A s \in Asked : s.n = Size
  BY EnterpriseAssumption DEF Sequential, Asked, Size, Specs

LEMMA FirstName == First \in Names
  BY EnterpriseAssumption DEF First, Names, Specs

\* What Inv says of the types, as the proofs below need it.
LEMMA Types ==
  ASSUME Inv
  PROVE  /\ \A v \in {cr, prev, mem, base} :
               /\ v \in Resources /\ v.spec \in Asked /\ v.spec \in Specs
               /\ v.status \in Statuses /\ v.status.bg \in BGStatus
         /\ \A x \in Names : /\ sts[x] \in StsRecords /\ sts[x].want \in Nat
                             /\ sts[x].born \in Nat
         /\ clock \in Nat /\ up \subseteq pods /\ evac \subseteq up
         /\ \A p \in pods : p \in Pod /\ p[1] \in Names /\ p[2] \in Idx
                            /\ p = <<p[1], p[2]>>
<1>1. \A v \in {cr, prev, mem, base} : v \in Resources /\ v.spec \in Asked
  BY DEF Inv, CopiesOK, Good
<1>2. \A v \in Resources : /\ v.spec \in Specs /\ v.status \in Statuses
                           /\ v.status.bg \in BGStatus
  BY DEF Resources, Statuses
<1>3. \A x \in Names : /\ sts[x] \in StsRecords /\ sts[x].want \in Nat
                       /\ sts[x].born \in Nat
  BY EnterpriseAssumption DEF Inv, SetsOK, StsRecords
<1>4. \A p \in pods : p \in Pod
  BY DEF Inv, NodesOK
<1>5. \A p \in Pod : p[1] \in Names /\ p[2] \in Idx /\ p = <<p[1], p[2]>>
  BY DEF Pod
<1>6. QED
  BY <1>1, <1>2, <1>3, <1>4, <1>5 DEF Inv, SetsOK, NodesOK

\* A fault that is not in Mild has not happened.
LEMMA MildFaults ==
  ASSUME faults' \subseteq Mild
  PROVE  ~Fault("emqxAPI") /\ ~Fault("pod")
  BY DEF Fault, Mild

-----------------------------------------------------------------------------
(* Basic.                                                                  *)

\* A step that leaves the StatefulSets, the pods and the gates alone.
LEMMA BasicMove ==
  ASSUME Basic, UNCHANGED <<setVars, pods, up, gate>>,
         pc' = "status1" => mem' = base',
         PromptSets /\ (pc' = "status1" \/ BeforeDrain') =>
            \/ pc = "status1" \/ BeforeDrain
            \/ \A p \in pods : p[2] <= sts[p[1]].want
  PROVE  Basic'
  BY DEF Basic, setVars, Exists, BeforeDrain

LEMMA BasicStatus ==
  ASSUME Basic, NEW at, NEW next, updateEmqxStatus(at, next),
         <<at, next>> \in {<<"status1", "init">>, <<"status2", "conds">>}
  PROVE  Basic'
<1>1. UNCHANGED <<setVars, pods, up, gate>> /\ pc = at
  BY DEF updateEmqxStatus, updateStatusFails, updateStatusNotReady,
         updateStatusOne, updateStatusTwo, nodeVars
<1>2. pc' \in {next, "idle"}
  BY DEF updateEmqxStatus, updateStatusFails, updateStatusNotReady,
         updateStatusOne, updateStatusTwo, StatusUpdate, EndPass
<1>3. QED
  BY <1>1, <1>2, BasicMove DEF BeforeDrain

LEMMA BasicMoves ==
  ASSUME Basic,
         \/ Do \/ addEmqxPlugins \/ drainNothing \/ drainFails \/ addListener
         \/ PassFails \/ Edit \/ Connect \/ Evacuated
  PROVE  Basic'
<1>1. CASE Do
  <2>1. UNCHANGED <<setVars, pods, up, gate>> /\ pc = "idle"
    BY <1>1 DEF Do, nodeVars
  <2>2. \/ pc' = "idle"
        \/ pc' = "status1" /\ mem' = base'
    BY <1>1, <2>1 DEF Do
  <2>3. PromptSets => \A p \in pods : p[2] <= sts[p[1]].want
    BY <1>1 DEF Do
  <2>4. QED
    BY <2>1, <2>2, <2>3, BasicMove DEF BeforeDrain
<1>2. CASE addEmqxPlugins
  <2>1. UNCHANGED <<setVars, pods, up, gate>> /\ pc = "init"
    BY <1>2 DEF addEmqxPlugins, nodeVars
  <2>2. pc' \in {"sts", "idle"}
    BY <1>2 DEF addEmqxPlugins, EndPass
  <2>3. QED
    BY <2>1, <2>2, BasicMove DEF BeforeDrain
<1>3. CASE drainNothing \/ drainFails \/ addListener \/ PassFails
  <2>1. UNCHANGED <<setVars, pods, up, gate>>
    BY <1>3 DEF drainNothing, drainFails, addListener, PassFails, nodeVars
  <2>2. pc' \in {"listener", "status2", "idle"}
    BY <1>3 DEF drainNothing, drainFails, addListener, PassFails, EndPass
  <2>3. QED
    BY <2>1, <2>2, BasicMove DEF BeforeDrain
<1>4. CASE Edit \/ Connect \/ Evacuated
  <2>1. UNCHANGED <<setVars, pods, up, gate, pc, mem, base>>
    BY <1>4 DEF Edit, Connect, Evacuated, nodeVars, memVars
  <2>2. QED
    BY <2>1, BasicMove DEF BeforeDrain, Basic
<1>5. QED
  BY <1>1, <1>2, <1>3, <1>4

LEMMA BasicConds ==
  ASSUME Basic, updatePodConditions PROVE Basic'
<1>1. gate' \subseteq gate \cup up
  BY DEF updatePodConditions
<1>2. pc' = "idle" /\ UNCHANGED <<sts, clock, pods, up>>
  BY DEF updatePodConditions, EndPass, setVars
<1>3. QED
  BY <1>1, <1>2 DEF Basic, Exists, BeforeDrain

LEMMA BasicSets ==
  ASSUME Sequential, Inv, Basic, addEmqxStatefulSet PROVE Basic'
<1>1. PICK x \in NewStatefulSet :
         LET fresh == ~Exists(x)
         IN  /\ sts' = [sts EXCEPT ![x] =
                           [born |-> IF fresh THEN clock + 1 ELSE @.born,
                            want |-> mem.spec.n, tpl |-> mem.spec.tpl]]
             /\ clock' = IF fresh THEN clock + 1 ELSE clock
  BY DEF addEmqxStatefulSet
<1>2. x \in Names /\ sts \in [Names -> StsRecords]
  BY Types, NewStatefulSetNames DEF Inv, SetsOK
<1>3. mem.spec.n = Size /\ Size \in Nat /\ clock \in Nat
  BY Types, AskedSize, EnterpriseAssumption
<1>4. /\ sts'[x].want = Size /\ sts'[x].born > 0 /\ sts'[x].born <= clock'
      /\ clock <= clock' /\ sts'[x].born \in Nat
      /\ \A y \in Names : y # x => sts'[y] = sts[y]
      /\ Exists(x) => sts'[x].born = sts[x].born
  BY <1>1, <1>2, <1>3, Types DEF Exists, Basic
<1>5. \A y \in Names : /\ sts[y].want <= sts'[y].want /\ sts'[y].want <= Size
                       /\ sts'[y].born <= clock' /\ sts'[y].born \in Nat
                       /\ sts'[y].want > 0 => sts'[y].born > 0
                       /\ sts[y].born > 0 => sts'[y].born > 0
  <2> TAKE y \in Names
  <2>1. CASE y = x
    BY <1>2, <1>3, <1>4, <2>1, Types DEF Basic, Exists
  <2>2. CASE y # x
    <3>1. clock' \in Nat /\ sts'[y] = sts[y]
      BY <1>1, <1>3, <1>4, <2>2
    <3>2. /\ sts[y].want <= Size /\ sts[y].born <= clock
          /\ sts[y].want > 0 => sts[y].born > 0
      BY DEF Basic, Exists
    <3>3. sts[y].want \in Nat /\ sts[y].born \in Nat
      BY Types
    <3>4. QED
      BY <1>3, <1>4, <3>1, <3>2, <3>3
  <2>3. QED
    BY <2>1, <2>2
<1>6. UNCHANGED <<pods, up, gate>> /\ pc = "sts" /\ pc' = "drain"
  BY DEF addEmqxStatefulSet, nodeVars
<1>7. \A p \in pods : /\ p[1] \in Names /\ p[2] \in Nat
                      /\ sts[p[1]].want \in Nat /\ sts'[p[1]].want \in Nat
  <2>1. \A p \in pods : p[1] \in Names /\ p[2] \in Idx
    BY Types
  <2>2. \A y \in Names : sts'[y].want \in Nat
    BY <1>3, <1>4, Types
  <2>3. QED
    BY <2>1, <2>2, Types DEF Idx
<1>8. PromptSets => \A p \in pods : p[2] <= sts'[p[1]].want
  BY <1>5, <1>6, <1>7 DEF Basic, BeforeDrain
<1>9. QED
  BY <1>5, <1>6, <1>7, <1>8 DEF Basic, Exists, BeforeDrain

\* Draining takes replicas away, and the rest of the pass does not ask.
LEMMA BasicDrain ==
  ASSUME Inv, Basic, Drain PROVE Basic'
<1>1. PICK x \in Names : sts' \in {sts, [sts EXCEPT ![x].want = @ - 1]}
                         /\ (sts' # sts => sts[x].want > 0)
  <2>1. PICK o \in Names : o = mem.status.bg.org
    BY OriginType
  <2>2. sts' \in {sts, [sts EXCEPT ![o].want = @ - 1]}
        /\ (sts' # sts => sts[o].want > 0)
    BY <2>1 DEF Drain, drainScale, drainEvacuate
  <2>3. QED
    BY <2>1, <2>2
<1>2. UNCHANGED <<clock, pods, up, gate>> /\ pc' \in {"listener", "idle"}
  BY DEF Drain, drainScale, drainEvacuate, EndPass, nodeVars
<1>3. \A y \in Names : /\ sts'[y].born = sts[y].born
                       /\ sts'[y].want <= sts[y].want
                       /\ sts'[y].want \in Int
  BY <1>1, Types DEF Inv, SetsOK, StsRecords
<1>4. \A p \in pods : p[1] \in Names
  BY Types
<1>5. \A y \in Names : sts'[y].want <= Size /\ sts[y].want \in Nat
  <2>1. \A y \in Names : sts[y].want \in Nat /\ sts[y].want <= Size
    BY Types DEF Basic
  <2>2. Size \in Nat
    BY EnterpriseAssumption DEF Size, Specs
  <2>3. QED
    BY <1>3, <2>1, <2>2
<1>6. \A y \in Names : sts'[y].want > 0 => sts[y].want > 0
  BY <1>3, <1>5
<1>7. QED
  BY <1>2, <1>3, <1>4, <1>5, <1>6 DEF Basic, Exists, BeforeDrain

LEMMA BasicPods ==
  ASSUME Inv, Basic, faults' \subseteq Mild,
         CreatePod \/ DeletePod \/ PodUp \/ PodDown
  PROVE  Basic'
<1>1. UNCHANGED <<setVars, pc, memVars>> /\ ~PodDown
  BY MildFaults DEF CreatePod, DeletePod, PodUp, PodDown
<1>2. gate' \subseteq up'
  BY <1>1 DEF Basic, CreatePod, DeletePod, PodUp
<1>3. \A p \in pods' : p \in pods \/ (Exists(p[1]) /\ p[2] <= sts[p[1]].want
                                      /\ p \in Pod)
  BY <1>1 DEF CreatePod, DeletePod, PodUp
<1>4. \A p \in Pod : p[2] <= sts[p[1]].want => p[2] <= Size
  <2>1. Size \in Nat
    BY EnterpriseAssumption DEF Size, Specs
  <2>2. \A p \in Pod : p[1] \in Names /\ p[2] \in Nat
    BY DEF Pod, Idx
  <2>3. QED
    BY <2>1, <2>2, Types DEF Basic
<1>5. QED
  BY <1>1, <1>2, <1>3, <1>4 DEF Basic, Exists, setVars, memVars, BeforeDrain


-----------------------------------------------------------------------------
(* Stage: the steps that neither start nor end an update.                  *)

LEMMA InitNew == New(InitCR)
  BY DEF New, InitCR

\* A StatefulSet with replicas exists.
LEMMA AloneSet ==
  ASSUME Sequential, Inv, Basic, NEW x \in Names, Alone(x)
  PROVE  AllSts = {x} /\ Exists(x)
<1>1. sts[x].want # 0 /\ Exists(x)
  BY AskedSize DEF Alone, Basic
<1>2. \A y \in Names : y # x => sts[y].want = 0
  BY DEF Alone
<1>3. QED
  BY <1>1, <1>2 DEF AllSts

LEMMA UpdatingSets ==
  ASSUME Sequential, Inv, Basic, NEW a \in Names, NEW b \in Names,
         Updating(a, b)
  PROVE  AllSts = {a, b} /\ a # b /\ Exists(a) /\ Exists(b)
<1>1. /\ sts[a].want # 0 /\ Exists(a) /\ sts[b].want # 0 /\ Exists(b)
      /\ a # b
  BY AskedSize DEF Updating, Basic
<1>2. \A y \in Names : y \notin {a, b} => sts[y].want = 0
  BY DEF Updating
<1>3. QED
  BY <1>1, <1>2 DEF AllSts

\* The pass moves on, or is over, or starts with another copy.
LEMMA StageMove ==
  ASSUME Inv, Stage, UNCHANGED <<cr, prev, sts, evac, pods, up, load>>,
         \A b \in Names : Serving(b) => Serving(b)',
         \/ UNCHANGED memVars /\ (Past' => Past) /\ (BeforeDrain' => BeforeDrain)
         \/ /\ ~Past' /\ mem' \in {InitCR, cr, prev}
            /\ base' \in {InitCR, cr, prev}
  PROVE  Stage'
<1>1. BeforeDrain' => Past'
  BY DEF BeforeDrain, Past
<1>2. CASE Fresh
  <2>1. New(mem') /\ New(base') /\ New(cr') /\ New(prev')
    BY <1>2, InitNew DEF Fresh, memVars
  <2>2. Fresh'
    BY <1>2, <2>1 DEF Fresh, Exists, New
  <2>3. QED
    BY <2>2 DEF Stage
<1>3. ASSUME NEW x \in Names, Alone(x) PROVE Stage'
  <2>1. Alone(x)'
    BY <1>3 DEF Alone, Fits, memVars, SameUpdate
  <2>2. QED
    BY <2>1 DEF Stage
<1>4. ASSUME NEW a \in Names, NEW b \in Names, Updating(a, b) PROVE Stage'
  <2>1. BeforeDrain' /\ mem'.status.bg.on => ReadOf(a)'
    BY <1>1, <1>4 DEF Updating, ReadOf, memVars
  <2>2. Updating(a, b)'
    BY <1>4, <2>1 DEF Updating, StsPods, memVars, SameUpdate
  <2>3. QED
    BY <2>2 DEF Stage
<1>5. QED
  BY <1>2, <1>3, <1>4 DEF Stage

\* The end of a pass, whatever the gates are then.
LEMMA StageEnd ==
  ASSUME Inv, Stage, EndPass, UNCHANGED <<cr, prev, sts, evac, pods, up, load>>,
         \A b \in Names : Serving(b) => Serving(b)'
  PROVE  Stage'
<1>1. ~Past' /\ mem' = InitCR /\ base' = InitCR
  BY DEF EndPass, Past
<1>2. QED
  BY <1>1, StageMove

LEMMA StageMoves ==
  ASSUME Inv, Stage, faults' \subseteq Mild,
         \/ Do \/ addEmqxPlugins \/ drainNothing \/ drainFails \/ addListener
         \/ PassFails
  PROVE  Stage'
<1>1. UNCHANGED <<cr, prev, sts, evac, pods, up, load, gate>>
  BY DEF Do, addEmqxPlugins, drainNothing, drainFails, addListener, PassFails,
         crVars, setVars, nodeVars
<1>2. \A b \in Names : Serving(b) => Serving(b)'
  BY <1>1 DEF Serving
<1>3. CASE EndPass
  BY <1>1, <1>2, <1>3, StageEnd
<1>4. CASE Do
  <2>1. pc = "idle"
    BY <1>4 DEF Do
  <2>2. \/ UNCHANGED memVars /\ pc' = pc
        \/ pc' = "status1" /\ mem' \in {cr, prev} /\ base' \in {cr, prev}
    BY <1>4, <2>1 DEF Do
  <2>3. QED
    BY <1>1, <1>2, <2>1, <2>2, StageMove DEF Past, BeforeDrain
<1>5. CASE UNCHANGED memVars /\ pc = "init" /\ pc' = "sts"
  BY <1>1, <1>2, <1>5, StageMove DEF Past, BeforeDrain
<1>6. CASE /\ UNCHANGED memVars /\ pc \in {"drain", "listener"}
           /\ pc' \in {"listener", "status2"}
  BY <1>1, <1>2, <1>6, StageMove DEF Past, BeforeDrain
<1>7. QED
  BY <1>3, <1>4, <1>5, <1>6
  DEF addEmqxPlugins, drainNothing, drainFails, addListener, PassFails

\* A node that is not evacuated keeps its gate, or gets it.
LEMMA StageConds ==
  ASSUME Inv, Stage, updatePodConditions PROVE Stage'
<1>1. PICK S : gate' = (gate \ S) \cup (S \ evac)
  BY DEF updatePodConditions
<1>2. /\ UNCHANGED <<cr, prev, sts, evac, pods, up, load>> /\ EndPass
  BY DEF updatePodConditions, crVars, setVars
<1>3. ASSUME NEW b \in Names, Serving(b) PROVE Serving(b)'
  <2>1. \A p \in PodsOf(b, Size) : p \notin evac
    BY <1>3 DEF Serving, PodsOf
  <2>2. PodsOf(b, Size) \subseteq gate'
    BY <1>1, <1>3, <2>1 DEF Serving
  <2>3. QED
    BY <1>2, <1>3, <2>2 DEF Serving
<1>4. QED
  BY <1>2, <1>3, StageEnd

\* The pods that a StatefulSet asks for stay, and keep what they had.
LEMMA StagePods ==
  ASSUME Inv, Stage, UNCHANGED <<crVars, sts, memVars, pc>>,
         evac' \subseteq evac,
         \A p \in up : p[2] <= sts[p[1]].want => p \in up',
         \A p \in gate : p[2] <= sts[p[1]].want => p \in gate',
         \A p \in evac : p[2] <= sts[p[1]].want =>
                            p \in evac' /\ (p \notin load => p \notin load'),
         \A p \in pods' : \/ p \in up' \/ p \in pods \ up
                          \/ p \in PodsOf(p[1], sts[p[1]].want) \ up
  PROVE  Stage'
<1>1. \A x \in Names : \A n \in Nat : \A p \in PodsOf(x, n) : p[1] = x /\ p[2] <= n
  BY DEF PodsOf
<1>2. \A x \in Names : sts[x].want \in Nat
  BY Types
<1>3. UNCHANGED <<cr, prev, sts, mem, base, pc>>
  BY DEF crVars, memVars
<1>4. CASE Fresh
  <2>1. Fresh'
    BY <1>3, <1>4 DEF Fresh, Exists, New
  <2>2. QED
    BY <2>1 DEF Stage
<1>5. ASSUME NEW x \in Names, Alone(x) PROVE Stage'
  <2>1. PodsOf(x, Size) \subseteq up'
    BY <1>1, <1>2, <1>5 DEF Alone
  <2>2. Alone(x)'
    BY <1>3, <1>5, <2>1 DEF Alone, Fits, SameUpdate, Past
  <2>3. QED
    BY <2>2 DEF Stage
<1>6. ASSUME NEW a \in Names, NEW b \in Names, Updating(a, b) PROVE Stage'
  <2>1. PodsOf(a, sts[a].want) \subseteq up'
    BY <1>1, <1>2, <1>6 DEF Updating
  <2>2. StsPods(a)' \subseteq up'
    BY <1>6, <1>3 DEF Updating, StsPods
  <2>3. Serving(b) => Serving(b)'
    <3>1. sts[b].want = Size => \A p \in PodsOf(b, Size) : p \in gate => p \in gate'
      BY <1>1, <1>2
    <3>2. QED
      BY <1>3, <3>1 DEF Serving
  <2>4. BeforeDrain /\ mem.status.bg.on => ReadOf(a)'
    BY <1>3, <1>6 DEF Updating, ReadOf
  <2>5. Updating(a, b)'
    BY <1>3, <1>6, <2>1, <2>2, <2>3, <2>4
    DEF Updating, SameUpdate, Past, BeforeDrain
  <2>6. QED
    BY <2>5 DEF Stage
<1>7. QED
  BY <1>4, <1>5, <1>6 DEF Stage

LEMMA StagePodSteps ==
  ASSUME Inv, Stage, faults' \subseteq Mild,
         CreatePod \/ DeletePod \/ PodUp \/ PodDown \/ Connect \/ Evacuated
  PROVE  Stage'
<1>1. ~PodDown
  BY MildFaults DEF PodDown
<1>2. CASE CreatePod
  <2>1. PICK p \in Pod \ pods : /\ p[2] <= sts[p[1]].want
                                /\ pods' = pods \cup {p}
    BY <1>2 DEF CreatePod
  <2>2. p \in PodsOf(p[1], sts[p[1]].want) /\ p \notin up
    <3>1. p[1] \in Names /\ p[2] \in Nat /\ p[2] >= 1 /\ p = <<p[1], p[2]>>
      BY EnterpriseAssumption DEF Pod, Idx
    <3>2. sts[p[1]].want \in Nat
      BY <3>1, Types
    <3>3. QED
      BY <2>1, <3>1, <3>2, Types DEF PodsOf
  <2>3. UNCHANGED <<crVars, sts, memVars, pc, up, gate, evac, load>>
    BY <1>2 DEF CreatePod, setVars
  <2>4. QED
    BY <2>1, <2>2, <2>3, StagePods
<1>3. CASE DeletePod
  <2>1. PICK p \in pods :
          /\ p[2] > sts[p[1]].want
          /\ pods' = pods \ {p} /\ up' = up \ {p} /\ gate' = gate \ {p}
          /\ evac' = evac \ {p} /\ load' = load \ {p}
    BY <1>3 DEF DeletePod
  <2>2. p[2] \in Nat /\ sts[p[1]].want \in Nat
    BY Types DEF Idx
  <2>3. ~(p[2] <= sts[p[1]].want)
    BY <2>1, <2>2
  <2>4. UNCHANGED <<crVars, sts, memVars, pc>>
    BY <1>3 DEF DeletePod, setVars
  <2>5. \A q \in pods' : q \in up' \/ q \in pods \ up
    BY <2>1
  <2>6. QED
    BY <2>1, <2>3, <2>4, <2>5, StagePods
<1>4. CASE PodUp
  <2>1. up \subseteq up' /\ pods' = pods
    BY <1>4 DEF PodUp
  <2>2. UNCHANGED <<crVars, sts, memVars, pc, gate, evac, load>>
    BY <1>4 DEF PodUp, setVars
  <2>3. QED
    BY <2>1, <2>2, StagePods
<1>5. CASE Connect \/ Evacuated
  <2>1. UNCHANGED <<crVars, sts, memVars, pc, pods, up, gate, evac>>
    BY <1>5 DEF Connect, Evacuated, setVars
  <2>2. \A p \in evac : p \notin load => p \notin load'
    BY <1>5 DEF Connect, Evacuated
  <2>3. QED
    BY <2>1, <2>2, StagePods
<1>6. QED
  BY <1>1, <1>2, <1>3, <1>4, <1>5

\* An edit is made of a StatefulSet that runs alone.
LEMMA StageEdit ==
  ASSUME Sequential, Inv, Basic, Stage, Edit PROVE Stage'
<1>1. /\ ~cr.status.bg.on /\ cr.status.running = "True"
      /\ \E x \in Names : AllSts = {x} /\ sts[x].tpl = cr.spec.tpl
  BY DEF Edit, Sequential
<1>2. PICK s \in EditSpecs : cr' = [cr EXCEPT !.spec = s]
  BY DEF Edit, Store
<1>3. /\ cr'.spec = s /\ cr'.status = cr.status /\ s.bg
  BY <1>2, Types, EnterpriseAssumption DEF Resources
<1>4. UNCHANGED <<sts, clock, pods, up, gate, evac, load, pc, mem, base>>
  BY DEF Edit, setVars, nodeVars, memVars
<1>5. ~Fresh
  BY <1>1 DEF Fresh, New
<1>6. ASSUME NEW x \in Names, Alone(x) PROVE Stage'
  <2>1. sts[x].tpl = cr.spec.tpl
    BY <1>1, <1>6, AloneSet
  <2>2. Alone(x)'
    BY <1>1, <1>3, <1>4, <1>6, <2>1 DEF Alone, Fits, SameUpdate, Past
  <2>3. QED
    BY <2>2 DEF Stage
<1>7. ASSUME NEW a \in Names, NEW b \in Names, Updating(a, b) PROVE FALSE
  BY <1>1, <1>7, UpdatingSets
<1>8. QED
  BY <1>5, <1>6, <1>7 DEF Stage


-----------------------------------------------------------------------------
(* Stage: deploying a StatefulSet, and draining one.                       *)

\* The StatefulSet with the template of the spec, if there is one.
LEMMA SameTemplate ==
  ASSUME NEW y \in AllSts, mem.spec.bg, sts[y].tpl = mem.spec.tpl,
         \A z \in AllSts : sts[z].tpl = mem.spec.tpl => z = y,
         NEW x \in NewStatefulSet
  PROVE  x = y
<1> DEFINE same == {z \in AllSts : sts[z].tpl = mem.spec.tpl}
<1>1. same = {y}
  OBVIOUS
<1>2. x \in {z \in same : IsFirst(z, same)}
  BY <1>1 DEF NewStatefulSet
<1>3. QED
  BY <1>1, <1>2

\* Or else the first free name.
LEMMA FreeName ==
  ASSUME mem.spec.bg, \A z \in AllSts : sts[z].tpl # mem.spec.tpl,
         NEW x \in NewStatefulSet
  PROVE  \E c \in 0..MaxCollision :
            /\ x = <<mem.spec.tpl, c>> /\ ~Exists(x)
            /\ \A d \in 0..MaxCollision : ~Exists(<<mem.spec.tpl, d>>) => c <= d
<1> DEFINE same == {z \in AllSts : sts[z].tpl = mem.spec.tpl}
           free == {c \in 0..MaxCollision : ~Exists(<<mem.spec.tpl, c>>)}
<1>1. same = {}
  OBVIOUS
<1>2. x \in {<<mem.spec.tpl, c>> : c \in {d \in free : \A e \in free : d <= e}}
  BY <1>1 DEF NewStatefulSet
<1>3. QED
  BY <1>2

\* The first pass of a resource creates the first StatefulSet.
LEMMA FreshName ==
  ASSUME Sequential, Inv, Basic, Fresh, NEW x \in NewStatefulSet
  PROVE  x = First
<1>1. mem.spec = InitSpec
  BY DEF Fresh, New
<1>2. CASE ~InitSpec.bg
  BY <1>1, <1>2 DEF NewStatefulSet, First
<1>3. CASE InitSpec.bg /\ Exists(First)
  <2>1. First \in AllSts /\ sts[First].tpl = mem.spec.tpl
    BY <1>1, <1>3, FirstName, AskedSize DEF Fresh, AllSts
  <2>2. \A z \in AllSts : z = First
    BY DEF Fresh, AllSts
  <2>3. QED
    BY <1>1, <1>3, <2>1, <2>2, SameTemplate
<1>4. CASE InitSpec.bg /\ ~Exists(First)
  <2>1. AllSts = {}
    BY <1>4 DEF Fresh, AllSts
  <2>2. PICK c \in 0..MaxCollision :
          /\ x = <<mem.spec.tpl, c>> /\ ~Exists(x)
          /\ \A d \in 0..MaxCollision :
                ~Exists(<<mem.spec.tpl, d>>) => c <= d
    BY <1>1, <1>4, <2>1, FreeName
  <2>3. First = <<mem.spec.tpl, 0>> /\ 0 \in 0..MaxCollision
    BY <1>1, <1>4, EnterpriseAssumption DEF First
  <2>4. c = 0
    BY <1>4, <2>2, <2>3
  <2>5. QED
    BY <2>2, <2>3, <2>4
<1>5. QED
  BY <1>2, <1>3, <1>4

LEMMA StageSets ==
  ASSUME Sequential, Inv, Basic, Stage, addEmqxStatefulSet PROVE Stage'
<1>1. PICK x \in NewStatefulSet :
         LET fresh == ~Exists(x)
         IN  /\ sts' = [sts EXCEPT ![x] =
                           [born |-> IF fresh THEN clock + 1 ELSE @.born,
                            want |-> mem.spec.n, tpl |-> mem.spec.tpl]]
             /\ clock' = IF fresh THEN clock + 1 ELSE clock
  BY DEF addEmqxStatefulSet
<1>2. /\ x \in Names /\ sts \in [Names -> StsRecords]
      /\ mem.spec.n = Size /\ Size \in 1..MaxReplicas
  BY Types, NewStatefulSetNames, AskedSize DEF Inv, SetsOK
<1>3. /\ sts'[x].want = Size /\ sts'[x].tpl = mem.spec.tpl
      /\ sts'[x].born = IF ~Exists(x) THEN clock + 1 ELSE sts[x].born
      /\ \A y \in Names : y # x => sts'[y] = sts[y]
  BY <1>1, <1>2
<1>4. ASSUME Exists(x), sts[x].want = Size, sts[x].tpl = mem.spec.tpl
      PROVE  sts' = sts
  <2>1. sts[x] = [born |-> sts[x].born, want |-> Size, tpl |-> mem.spec.tpl]
    BY <1>2, <1>4 DEF StsRecords
  <2>2. sts' = [sts EXCEPT ![x] = sts[x]]
    BY <1>1, <1>2, <1>4, <2>1
  <2>3. QED
    BY <1>2, <2>2
<1>5. /\ UNCHANGED <<cr, prev, mem, base, pods, up, gate, evac, load>>
      /\ pc = "sts" /\ pc' = "drain"
  BY DEF addEmqxStatefulSet, crVars, memVars, nodeVars
<1>6. ASSUME sts' = sts PROVE Stage'
  <2>1. \A b \in Names : Serving(b) => Serving(b)'
    BY <1>5, <1>6 DEF Serving
  <2>2. QED
    BY <1>5, <1>6, <2>1, StageMove DEF Past, BeforeDrain, memVars
<1>7. CASE Fresh
  <2>1. x = First /\ mem.spec.tpl = InitSpec.tpl
    BY <1>7, FreshName DEF Fresh, New
  <2>2. Fresh'
    BY <1>3, <1>5, <1>7, <2>1 DEF Fresh, New, Exists
  <2>3. QED
    BY <2>2 DEF Stage
<1>8. ASSUME NEW y \in Names, Alone(y) PROVE Stage'
  <2>1. AllSts = {y} /\ Exists(y)
    BY <1>8, AloneSet
  <2>2. /\ Fits(mem.spec, y) /\ mem.spec.tpl \in {sts[y].tpl, cr.spec.tpl}
        /\ SameUpdate(mem, cr)
    BY <1>5, <1>8 DEF Alone, Past
  <2>3. CASE mem.spec.tpl = sts[y].tpl
    <3>1. x = y
      BY <2>1, <2>2, <2>3, SameTemplate DEF Fits, NewStatefulSet
    <3>2. QED
      BY <1>4, <1>6, <1>8, <2>1, <2>3, <3>1 DEF Alone
  <2>4. CASE mem.spec.tpl # sts[y].tpl
    <3>1. mem.spec.bg /\ mem.spec.tpl = cr.spec.tpl
      BY <2>2, <2>4 DEF Fits
    <3>2. ~Exists(x) /\ x # y
      BY <2>1, <2>4, <3>1, FreeName
    <3>3. cr.spec.bg /\ ~cr.status.bg.on /\ ~mem.status.bg.on
      BY <1>8, <2>2, <2>4, <3>1, Types DEF Alone, Fits, SameUpdate
    <3>4. \A p \in pods : p[1] # x
      BY <3>2 DEF Basic
    <3>5. \A p \in evac : p[1] \notin {x, y}
      BY <1>8, <3>4, Types DEF Alone
    <3>6. StsPods(y) \subseteq up
      <4>1. \A p \in StsPods(y) : p = <<y, p[2]>> /\ p[2] \in Nat
                                  /\ 1 <= p[2] /\ p[2] <= Size
        BY Types DEF StsPods, Basic, Idx
      <4>2. \A p \in StsPods(y) : p \in PodsOf(y, Size)
        BY <1>2, <4>1 DEF PodsOf
      <4>3. QED
        BY <1>8, <4>2 DEF Alone
    <3>7. sts[y].born < sts'[x].born
      BY <1>3, <3>2, Types DEF Basic
    <3>8. Updating(y, x)'
      BY <1>2, <1>3, <1>5, <1>8, <2>2, <2>4, <3>1, <3>2, <3>3, <3>5, <3>6, <3>7
      DEF Updating, Alone, StsPods, SameUpdate
    <3>9. QED
      BY <1>2, <1>8, <3>8 DEF Stage
  <2>5. QED
    BY <2>3, <2>4
<1>9. ASSUME NEW a \in Names, NEW b \in Names, Updating(a, b) PROVE Stage'
  <2>1. AllSts = {a, b} /\ Exists(b)
    BY <1>9, UpdatingSets
  <2>2. mem.spec.tpl = sts[b].tpl /\ mem.spec.bg /\ sts[a].tpl # sts[b].tpl
    BY <1>5, <1>9 DEF Updating, Past
  <2>3. x = b
    BY <2>1, <2>2, SameTemplate
  <2>4. QED
    BY <1>4, <1>6, <1>9, <2>1, <2>2, <2>3 DEF Updating
<1>10. QED
  BY <1>7, <1>8, <1>9 DEF Stage

\* One replica less of the old StatefulSet, or none left.
LEMMA StageLess ==
  ASSUME Sequential, Inv, Basic, NEW a \in Names, NEW b \in Names,
         Updating(a, b), Serving(b), Past, Past', ~BeforeDrain',
         sts' = [sts EXCEPT ![a].want = @ - 1],
         UNCHANGED <<cr, mem, pods, up, gate, evac, load>>
  PROVE  Stage'
<1>1. /\ a # b /\ sts \in [Names -> StsRecords]
      /\ sts[a].want \in Nat /\ sts[a].want > 0 /\ Size \in Nat
  BY Types, EnterpriseAssumption DEF Updating, Inv, SetsOK, Size, Specs
<1>2. /\ sts'[a].want = sts[a].want - 1 /\ sts'[a].tpl = sts[a].tpl
      /\ sts'[a].born = sts[a].born
      /\ \A y \in Names : y # a => sts'[y] = sts[y]
  BY <1>1 DEF StsRecords
<1>3. CASE sts[a].want = 1
  <2>1. PodsOf(b, Size) \subseteq up
    BY DEF Serving, Basic
  <2>2. \A y \in Names \ {b} : sts'[y].want = 0
    BY <1>1, <1>2, <1>3 DEF Updating
  <2>3. Alone(b)'
    BY <1>1, <1>2, <2>1, <2>2 DEF Updating, Serving, Alone, Fits, SameUpdate
  <2>4. QED
    BY <2>3 DEF Stage
<1>4. CASE sts[a].want # 1
  <2>1. sts'[a].want > 0
    BY <1>1, <1>2, <1>4
  <2>2. PodsOf(a, sts'[a].want) \subseteq PodsOf(a, sts[a].want)
    BY <1>1, <1>2 DEF PodsOf
  <2>3. Serving(b)'
    BY <1>1, <1>2 DEF Serving
  <2>4. Updating(a, b)'
    BY <1>1, <1>2, <2>1, <2>2, <2>3 DEF Updating, StsPods, SameUpdate
  <2>5. QED
    BY <2>4 DEF Stage
<1>5. QED
  BY <1>3, <1>4

\* While a pass drains, the StatefulSet it drains is the old one of an
\* update, and its list of evacuations is known, or has no replicas.
LEMMA Draining ==
  ASSUME Sequential, Inv, Basic, Stage, pc = "drain", mem.status.bg.on
  PROVE  \/ \E x \in Names : /\ Alone(x) /\ mem.status.bg.org # x
                             /\ sts[mem.status.bg.org].want = 0
         \/ \E a, b \in Names : /\ Updating(a, b) /\ mem.status.bg.org = a
                                /\ Serving(b) /\ ReadOf(a)
<1>1. Past /\ BeforeDrain
  BY DEF Past, BeforeDrain
<1>2. ~Fresh
  BY DEF Fresh, New, NoBG
<1>3. ASSUME NEW x \in Names, Alone(x)
      PROVE  mem.status.bg.org # x /\ sts[mem.status.bg.org].want = 0
  BY <1>1, <1>3, OriginType DEF Alone, SameUpdate
<1>4. ASSUME NEW a \in Names, NEW b \in Names, Updating(a, b)
      PROVE  mem.status.bg.org = a /\ Serving(b) /\ ReadOf(a)
  BY <1>1, <1>4 DEF Updating, SameUpdate
<1>5. QED
  BY <1>2, <1>3, <1>4 DEF Stage

LEMMA StageDrain ==
  ASSUME Sequential, Inv, Basic, Stage, faults' \subseteq Mild, Drain
  PROVE  Stage'
<1>1. pc = "drain" /\ mem.status.bg.on
  BY DEF Drain, drainScale, drainEvacuate
<1>2. UNCHANGED <<cr, prev, mem, base, pods, up, gate, load>> /\ pc' = "listener"
  BY MildFaults DEF Drain, drainScale, drainEvacuate, crVars, memVars, nodeVars
<1>3. Past /\ Past' /\ ~BeforeDrain'
  BY <1>1, <1>2 DEF Past, BeforeDrain
<1>4. PICK o \in Names : o = mem.status.bg.org
  BY OriginType
<1>5. \/ sts' = sts
      \/ /\ sts' = [sts EXCEPT ![o].want = @ - 1] /\ sts[o].want > 0
         /\ (~mem.status.bg.known \/ evac' = evac)
  BY <1>4 DEF Drain, drainScale, drainEvacuate, nodeVars
<1>6. evac' = evac \/ \E p : p[1] = o /\ evac' = evac \cup {p}
  <2>1. \A p : IsLastPod(p, PodMap(o)) => p[1] = o
    BY PodMapPods DEF IsLastPod
  <2>2. QED
    BY <1>4, <2>1 DEF Drain, drainScale, drainEvacuate, nodeVars
<1>7. ASSUME NEW x \in Names, Alone(x), o # x, sts[o].want = 0 PROVE Stage'
  <2>1. sts' = sts
    BY <1>5, <1>7
  <2>2. \A p \in evac' : p[1] # x
    BY <1>6, <1>7 DEF Alone
  <2>3. Alone(x)'
    BY <1>2, <1>3, <1>7, <2>1, <2>2 DEF Alone, Fits, SameUpdate
  <2>4. QED
    BY <2>3 DEF Stage
<1>8. ASSUME NEW b \in Names, Updating(o, b), Serving(b), ReadOf(o)
      PROVE  Stage'
  <2>1. CASE sts' = sts
    <3>1. Serving(b)'
      BY <1>2, <1>6, <1>8, <2>1 DEF Serving, Updating
    <3>2. Updating(o, b)'
      BY <1>2, <1>3, <1>8, <2>1, <3>1 DEF Updating, StsPods, SameUpdate
    <3>3. QED
      BY <1>8, <3>2 DEF Stage
  <2>2. CASE sts' # sts
    BY <1>2, <1>3, <1>5, <1>8, <2>2, StageLess DEF ReadOf
  <2>3. QED
    BY <2>1, <2>2
<1>9. QED
  BY <1>1, <1>4, <1>7, <1>8, Draining

-----------------------------------------------------------------------------
(* Stage: the status updates.                                              *)

\* An update that is over, or not recorded, is stored as it is.
LEMMA StoredNone ==
  ASSUME NEW st \in Statuses, st.bg = NoBG
  PROVE  Stored(st).bg = NoBG
<1>1. st.bg \in BGStatus /\ ~NoBG.known /\ NoBG.evac = {}
  BY DEF Statuses, NoBG
<1>2. Stored(st).bg = [st.bg EXCEPT !.known = @ /\ st.bg.evac # {}]
  BY <1>1 DEF Stored, Statuses
<1>3. [st.bg EXCEPT !.known = @ /\ st.bg.evac # {}] = st.bg
  BY <1>1 DEF BGStatus
<1>4. QED
  BY <1>2, <1>3

\* A status update ends the pass, or the pass's copy was of the stored
\* version and both have the new status.
LEMMA StatusStored ==
  ASSUME Inv, Basic, NEW at, NEW next, pc = at,
         <<at, next>> \in {<<"status1", "init">>, <<"status2", "conds">>},
         NEW st \in Statuses, StatusUpdate(st, next)
  PROVE  \/ EndPass /\ UNCHANGED crVars
         \/ /\ pc' = next /\ Past' /\ (BeforeDrain' => at = "status1")
            /\ at = "status1" => mem = cr
            /\ at = "status2" => Past
            /\ cr'.spec = cr.spec /\ cr'.status = Stored(st)
            /\ mem'.spec = mem.spec /\ mem'.status = st
            /\ prev' \in {cr, prev} /\ base' = cr'
<1>1. CASE base # cr
  BY <1>1 DEF StatusUpdate
<1>2. CASE base = cr
  <2>1. /\ cr' = [cr EXCEPT !.status = Stored(st)] /\ base' = cr'
        /\ prev' \in {cr, prev}
        /\ mem' = [mem EXCEPT !.status = st] /\ pc' = next
    BY <1>2 DEF StatusUpdate, Store
  <2>2. cr \in Resources /\ mem \in Resources
    BY Types
  <2>3. /\ cr'.spec = cr.spec /\ cr'.status = Stored(st)
        /\ mem'.spec = mem.spec /\ mem'.status = st
    BY <2>1, <2>2 DEF Resources
  <2>4. at = "status1" => mem = cr
    BY <1>2 DEF Basic
  <2>5. /\ Past' /\ (BeforeDrain' => at = "status1")
        /\ at = "status2" => Past
    BY <2>1 DEF Past, BeforeDrain
  <2>6. QED
    BY <2>1, <2>3, <2>4, <2>5
<1>3. QED
  BY <1>1, <1>2

\* What a status update does when the EMQX API answers.
LEMMA StatusSteps ==
  ASSUME Inv, faults' \subseteq Mild, NEW at, NEW next,
         updateEmqxStatus(at, next)
  PROVE  /\ UNCHANGED <<sts, clock, pods, up, gate, evac, load>> /\ pc = at
         /\ \/ /\ up = {} \/ InCluster(up) = {}
               /\ UNCHANGED <<crVars, base>> /\ pc' = next
               /\ mem' \in {mem, [mem EXCEPT !.status.nodes = up]}
            \/ /\ Cardinality(InCluster(up)) = 1
               /\ \E st \in Statuses :
                     /\ st.bg = NoBG /\ StatusUpdate(st, next)
                     /\ Cardinality(up) # mem.spec.n => st.running # "True"
            \/ \E org, cur \in InCluster(up) :
                  /\ org # cur /\ Before(cur, org)
                  /\ \E st \in Statuses :
                        /\ StatusUpdate(st, next)
                        /\ \/ ~CurrentReady(cur) /\ st.bg = mem.status.bg
                           \/ /\ CurrentReady(cur) /\ st.bg.on
                              /\ st.bg.org = org /\ st.bg.known
                              /\ st.bg.evac = {<<p, p \notin load>> : p \in evac}
<1>1. UNCHANGED <<sts, clock, pods, up, gate, evac, load>> /\ pc = at
  BY DEF updateEmqxStatus, updateStatusFails, updateStatusNotReady,
         updateStatusOne, updateStatusTwo, setVars, nodeVars
<1>2. CASE updateStatusFails(at, next) \/ updateStatusNotReady(at, next)
  <2>1. /\ up = {} \/ InCluster(up) = {}
        /\ UNCHANGED <<crVars, base>> /\ pc' = next
        /\ mem' \in {mem, [mem EXCEPT !.status.nodes = up]}
    BY <1>2, MildFaults
    DEF updateStatusFails, updateStatusNotReady, memVars
  <2>2. QED
    BY <1>1, <2>1
<1>3. mem.status \in Statuses /\ mem.status.bg \in BGStatus /\ up \in SUBSET Pod
  BY Types DEF Inv, NodesOK
<1>4. CASE updateStatusOne(at, next)
  <2> DEFINE run == IF Cardinality(up) = mem.spec.n THEN "True" ELSE "False"
             st == [mem.status EXCEPT !.nodes = up, !.bg = NoBG,
                                      !.running = run]
  <2>1. StatusUpdate(st, next) /\ Cardinality(InCluster(up)) = 1
    BY <1>4 DEF updateStatusOne
  <2>2. /\ run \in {"unset", "True", "False"} /\ NoBG \in BGStatus
        /\ Cardinality(up) # mem.spec.n => run # "True"
    BY DEF NoBG, BGStatus, Names
  <2> HIDE DEF run
  <2>3. st \in Statuses /\ st.bg = NoBG /\ st.running = run
    BY <1>3, <2>2 DEF Statuses
  <2> HIDE DEF st
  <2>4. QED
    BY <1>1, <2>1, <2>2, <2>3
<1>5. CASE updateStatusTwo(at, next)
  <2> DEFINE st == [mem.status EXCEPT !.nodes = up, !.updating = TRUE]
             now == {<<p, p \notin load>> : p \in evac}
             bg(o, c) == [st.bg EXCEPT !.on = TRUE, !.cur = c, !.org = o]
             read(o, c) == [bg(o, c) EXCEPT !.known = TRUE, !.evac = now]
             new(o, c) == [st EXCEPT !.bg = read(o, c)]
  <2>1. PICK org, cur \in InCluster(up) :
           /\ IsLast(org, InCluster(up))
           /\ IsLast(cur, InCluster(up) \ {org})
           /\ \/ ~CurrentReady(cur) /\ StatusUpdate(st, next)
              \/ CurrentReady(cur) /\ StatusUpdate(new(org, cur), next)
              \/ Fault("emqxAPI")
    BY <1>5 DEF updateStatusTwo
  <2>2. org # cur /\ Before(cur, org) /\ org \in Names /\ cur \in Names
    BY <2>1 DEF IsLast, InCluster, AllSts
  <2>3. st \in Statuses /\ st.bg = mem.status.bg
    BY <1>3 DEF Statuses
  <2>4. now \in SUBSET (Pod \X BOOLEAN)
    <3>1. \A p \in evac : p \in Pod
      BY DEF Inv, NodesOK
    <3>2. \A p \in evac : <<p, p \notin load>> \in Pod \X BOOLEAN
      BY <3>1
    <3>3. QED
      BY <3>2
  <2> HIDE DEF now, st
  <2>5. /\ read(org, cur) \in BGStatus /\ read(org, cur).on
        /\ read(org, cur).org = org /\ read(org, cur).known
        /\ read(org, cur).evac = now
    BY <1>3, <2>2, <2>3, <2>4 DEF BGStatus
  <2> HIDE DEF read
  <2>6. new(org, cur) \in Statuses /\ new(org, cur).bg = read(org, cur)
    BY <2>3, <2>5 DEF Statuses
  <2> HIDE DEF new
  <2>7. CASE ~CurrentReady(cur) /\ StatusUpdate(st, next)
    BY <1>1, <2>1, <2>2, <2>3, <2>7
  <2>8. CASE CurrentReady(cur) /\ StatusUpdate(new(org, cur), next)
    BY <1>1, <2>1, <2>2, <2>5, <2>6, <2>8 DEF now
  <2>9. QED
    BY <2>1, <2>7, <2>8, MildFaults
<1>6. QED
  BY <1>2, <1>4, <1>5 DEF updateEmqxStatus

\* The pods a StatefulSet asks for are as many as its replicas.
LEMMA FullSet ==
  ASSUME Sequential, NEW x, NEW S, S \subseteq PodsOf(x, Size)
  PROVE  Cardinality(S) = Size <=> S = PodsOf(x, Size)
<1>1. Size \in Nat /\ Size >= 1
  BY AskedSize, EnterpriseAssumption
<1>2. IsFiniteSet(1..Size) /\ Cardinality(1..Size) = Size
  BY <1>1, FS_Interval
<1>3. IsFiniteSet({x}) /\ Cardinality({x}) = 1
  BY FS_Singleton
<1>4. /\ IsFiniteSet(PodsOf(x, Size))
      /\ Cardinality(PodsOf(x, Size)) = 1 * Size
  BY <1>2, <1>3, FS_Product DEF PodsOf
<1>5. Cardinality(PodsOf(x, Size)) = Size
  BY <1>1, <1>4
<1>6. Cardinality(S) = Cardinality(PodsOf(x, Size)) => S = PodsOf(x, Size)
  BY <1>4, FS_Subset
<1>7. QED
  BY <1>5, <1>6

LEMMA OwnPods ==
  ASSUME Inv, Basic, NEW x \in Names
  PROVE  StsPods(x) \subseteq PodsOf(x, Size)
<1>1. \A p \in StsPods(x) : p = <<x, p[2]>> /\ p[2] \in Nat
                            /\ 1 <= p[2] /\ p[2] <= Size
  BY Types DEF StsPods, Basic, Idx
<1>2. Size \in Nat
  BY EnterpriseAssumption DEF Size, Specs
<1>3. QED
  BY <1>1, <1>2 DEF PodsOf

\* The current StatefulSet is ready when all its pods are.
LEMMA ReadyServes ==
  ASSUME Sequential, Inv, Basic, NEW b \in Names, sts[b].want = Size
  PROVE  CurrentReady(b) <=> PodsOf(b, Size) \subseteq gate
<1>1. StsPods(b) \subseteq PodsOf(b, Size) /\ gate \subseteq up /\ up \subseteq pods
  BY OwnPods, Types DEF Basic
<1>2. CurrentReady(b) <=> ReadyPods(b) = PodsOf(b, Size)
  BY <1>1, FullSet DEF CurrentReady, ReadyPods
<1>3. \A p \in PodsOf(b, Size) : p[1] = b
  BY DEF PodsOf
<1>4. PodsOf(b, Size) \subseteq gate => PodsOf(b, Size) \subseteq ReadyPods(b)
  BY <1>1, <1>3 DEF ReadyPods, StsPods
<1>5. QED
  BY <1>1, <1>2, <1>4 DEF ReadyPods

\* The first pods to run are those of the first StatefulSet.
LEMMA StatusFresh ==
  ASSUME Sequential, Inv, Basic, Fresh, faults' \subseteq Mild,
         NEW at, NEW next, updateEmqxStatus(at, next),
         <<at, next>> \in {<<"status1", "init">>, <<"status2", "conds">>}
  PROVE  Stage'
<1>1. UNCHANGED <<sts, clock, pods, up, gate, evac, load>> /\ pc = at
  BY StatusSteps
<1>2. \A b : Serving(b) => Serving(b)'
  BY <1>1 DEF Serving
<1>3. CASE EndPass /\ UNCHANGED crVars
  BY <1>1, <1>2, <1>3, StageEnd DEF Stage, crVars
<1>4. mem.spec = InitSpec /\ mem.spec.n = Size /\ Size \in Nat /\ Size >= 1
  BY AskedSize DEF Fresh, New, Size
<1>5. CASE /\ UNCHANGED <<crVars, base>>
           /\ mem' \in {mem, [mem EXCEPT !.status.nodes = up]}
  <2>1. New(mem')
    BY <1>5, Types DEF Fresh, New, Resources, Statuses
  <2>2. Fresh'
    BY <1>1, <1>5, <2>1 DEF Fresh, New, Exists, crVars
  <2>3. QED
    BY <2>2 DEF Stage
<1>6. ASSUME NEW st \in Statuses, StatusUpdate(st, next), st.bg = NoBG,
             Cardinality(InCluster(up)) = 1,
             Cardinality(up) # mem.spec.n => st.running # "True",
             ~(EndPass /\ UNCHANGED crVars)
      PROVE  Stage'
  <2>1. /\ Past' /\ cr'.spec = cr.spec /\ cr'.status = Stored(st)
        /\ mem'.spec = mem.spec /\ mem'.status = st
        /\ prev' \in {cr, prev} /\ base' = cr'
    BY <1>1, <1>6, StatusStored
  <2>2. Stored(st).bg = NoBG /\ Stored(st).running = st.running
    BY <1>6, StoredNone DEF Stored, Statuses
  <2>3. CASE Cardinality(up) # mem.spec.n
    <3>1. New(cr') /\ New(mem') /\ New(base') /\ New(prev')
      BY <1>6, <2>1, <2>2, <2>3 DEF Fresh, New
    <3>2. Fresh'
      BY <1>1, <3>1 DEF Fresh, New, Exists
    <3>3. QED
      BY <3>2 DEF Stage
  <2>4. CASE Cardinality(up) = mem.spec.n
    <3>1. \A p \in pods : p[1] = First
      BY Types DEF Basic, Fresh
    <3>2. up \subseteq PodsOf(First, Size)
      BY <3>1, FirstName, OwnPods, Types DEF StsPods
    <3>3. up = PodsOf(First, Size)
      BY <1>4, <2>4, <3>2, FullSet
    <3>4. InCluster(up) # {}
      BY <1>6, FS_EmptySet
    <3>5. Exists(First)
      <4>1. PICK y : y \in InCluster(up)
        BY <3>4
      <4>2. y \in Names /\ Exists(y)
        BY <4>1 DEF InCluster, AllSts
      <4>3. QED
        BY <4>2 DEF Fresh
    <3>6. Fits(InitSpec, First)'
      BY <1>1, <3>5 DEF Fits, First, Fresh
    <3>7. /\ cr'.spec = InitSpec /\ mem'.spec = InitSpec
          /\ cr'.status.bg = NoBG /\ mem'.status.bg = NoBG
      BY <1>6, <2>1, <2>2 DEF Fresh, New
    <3>8. Alone(First)'
      BY <1>1, <3>3, <3>5, <3>6, <3>7
      DEF Alone, Fresh, New, Fits, SameUpdate, NoBG
    <3>9. QED
      BY <3>8, FirstName DEF Stage
  <2>5. QED
    BY <2>3, <2>4
<1>7. ASSUME NEW org \in InCluster(up), NEW cur \in InCluster(up), org # cur
      PROVE  FALSE
  BY <1>7, AskedSize DEF InCluster, AllSts, Fresh
<1>8. QED
  BY <1>3, <1>5, <1>6, <1>7, StatusSteps

\* A StatefulSet that runs alone stays alone: the update is over.
LEMMA StatusAlone ==
  ASSUME Sequential, Inv, Basic, NEW x \in Names, Alone(x),
         faults' \subseteq Mild,
         NEW at, NEW next, updateEmqxStatus(at, next),
         <<at, next>> \in {<<"status1", "init">>, <<"status2", "conds">>}
  PROVE  Stage'
<1>1. UNCHANGED <<sts, clock, pods, up, gate, evac, load>> /\ pc = at
  BY StatusSteps
<1>2. \A b : Serving(b) => Serving(b)'
  BY <1>1 DEF Serving
<1>3. CASE EndPass /\ UNCHANGED crVars
  BY <1>1, <1>2, <1>3, StageEnd DEF Stage, crVars
<1>4. InCluster(up) = {x} /\ up # {}
  <2>1. StsPods(x) \subseteq up
    BY OwnPods DEF Alone
  <2>2. InCluster(up) = {x}
    BY <2>1, AloneSet DEF InCluster
  <2>3. <<x, 1>> \in PodsOf(x, Size)
    BY AskedSize, EnterpriseAssumption DEF PodsOf
  <2>4. QED
    BY <2>2, <2>3 DEF Alone
<1>5. ASSUME NEW st \in Statuses, StatusUpdate(st, next), st.bg = NoBG,
             ~(EndPass /\ UNCHANGED crVars)
      PROVE  Stage'
  <2>1. /\ Past' /\ cr'.spec = cr.spec /\ cr'.status = Stored(st)
        /\ mem'.spec = mem.spec /\ mem'.status = st
        /\ at = "status1" => mem = cr
        /\ at = "status2" => Past
    BY <1>1, <1>5, StatusStored
  <2>2. cr'.status.bg = NoBG /\ mem'.status.bg = NoBG /\ ~NoBG.on
    BY <1>5, <2>1, StoredNone DEF NoBG
  <2>3. Fits(mem.spec, x) /\ mem.spec.tpl \in {sts[x].tpl, cr.spec.tpl}
    BY <2>1 DEF Alone
  <2>4. Alone(x)'
    BY <1>1, <2>1, <2>2, <2>3 DEF Alone, Fits, SameUpdate
  <2>5. QED
    BY <2>4 DEF Stage
<1>6. QED
  BY <1>3, <1>4, <1>5, StatusSteps

\* While an update runs, a status update records it when the new StatefulSet
\* is ready, and never takes the new one for the old one.
LEMMA StatusUpdating ==
  ASSUME Sequential, Inv, Basic, NEW a \in Names, NEW b \in Names,
         Updating(a, b), faults' \subseteq Mild,
         NEW at, NEW next, updateEmqxStatus(at, next),
         <<at, next>> \in {<<"status1", "init">>, <<"status2", "conds">>}
  PROVE  Stage'
<1>1. UNCHANGED <<sts, clock, pods, up, gate, evac, load>> /\ pc = at
  BY StatusSteps
<1>2. Serving(b) => Serving(b)'
  BY <1>1 DEF Serving
<1>3. CASE EndPass /\ UNCHANGED crVars
  <2>1. \A c : Serving(c) => Serving(c)'
    BY <1>1 DEF Serving
  <2>2. QED
    BY <1>1, <1>3, <2>1, StageEnd DEF Stage, crVars
<1>4. AllSts = {a, b} /\ a # b
  BY UpdatingSets
<1>5. a \in InCluster(up) /\ up # {}
  <2>1. a \in InCluster(up)
    BY <1>4 DEF InCluster, Updating
  <2>2. <<a, 1>> \in PodsOf(a, sts[a].want)
    BY Types DEF PodsOf, Updating
  <2>3. QED
    BY <2>1, <2>2 DEF Updating
<1>6. InCluster(up) \subseteq {a, b}
  BY <1>4 DEF InCluster
\* The pass's copy is of this update.
<1>7. ASSUME NEW st \in Statuses, StatusUpdate(st, next),
             ~(EndPass /\ UNCHANGED crVars)
      PROVE  /\ Past' /\ cr'.spec = cr.spec /\ mem'.spec = mem.spec
             /\ mem'.status = st /\ SameUpdate(mem, cr)
             /\ mem.spec.tpl = sts[b].tpl /\ mem.spec.bg
             /\ cr'.status.bg.on = st.bg.on /\ cr'.status.bg.org = st.bg.org
             /\ BeforeDrain' => at = "status1"
  <2>1. /\ Past' /\ cr'.spec = cr.spec /\ cr'.status = Stored(st)
        /\ mem'.spec = mem.spec /\ mem'.status = st
        /\ at = "status1" => mem = cr
        /\ at = "status2" => Past
        /\ BeforeDrain' => at = "status1"
    BY <1>1, <1>7, StatusStored
  <2>2. Stored(st).bg.on = st.bg.on /\ Stored(st).bg.org = st.bg.org
    <3>1. Stored(st).bg.on \in BOOLEAN /\ st.bg.on \in BOOLEAN
      BY StoredStatus DEF Statuses, BGStatus
    <3>2. QED
      BY <3>1, StoredStatus
  <2>3. /\ SameUpdate(mem, cr) /\ mem.spec.tpl = sts[b].tpl /\ mem.spec.bg
    BY <2>1 DEF Updating, SameUpdate
  <2>4. QED
    BY <2>1, <2>2, <2>3
<1>8. ASSUME NEW st \in Statuses, StatusUpdate(st, next), st.bg = NoBG,
             Cardinality(InCluster(up)) = 1,
             ~(EndPass /\ UNCHANGED crVars)
      PROVE  Stage'
  <2>1. ~st.bg.on
    BY <1>8 DEF NoBG
  <2>2. Serving(b) \/ (/\ sts[a].want = Size /\ \A p \in evac : p[1] \notin {a, b}
                       /\ ~cr'.status.bg.on)
    BY <1>7, <1>8, <2>1 DEF Updating
  <2>3. Updating(a, b)'
    BY <1>1, <1>2, <1>7, <1>8, <2>1, <2>2 DEF Updating, StsPods, SameUpdate
  <2>4. QED
    BY <2>3 DEF Stage
<1>9. ASSUME NEW org \in InCluster(up), NEW cur \in InCluster(up), org # cur,
             Before(cur, org), NEW st \in Statuses, StatusUpdate(st, next),
             \/ ~CurrentReady(cur) /\ st.bg = mem.status.bg
             \/ /\ CurrentReady(cur) /\ st.bg.on /\ st.bg.org = org
                /\ st.bg.known
                /\ st.bg.evac = {<<p, p \notin load>> : p \in evac},
             ~(EndPass /\ UNCHANGED crVars)
      PROVE  Stage'
  <2>1. org = a /\ cur = b
    <3>1. ~Before(a, b)
      <4>1. /\ sts[a].want <= sts[b].want /\ sts[a].born < sts[b].born
        BY DEF Updating, Basic
      <4>2. QED
        BY <4>1, Types DEF Before
    <3>2. QED
      BY <1>6, <1>9, <3>1
  <2>2. sts[b].want = Size
    BY DEF Updating
  <2>3. CASE CurrentReady(cur)
    <3>1. /\ st.bg.on /\ st.bg.org = a /\ st.bg.known
          /\ st.bg.evac = {<<p, p \notin load>> : p \in evac}
      BY <1>9, <2>1, <2>3
    <3>2. Serving(b)
      BY <2>1, <2>2, <2>3, ReadyServes DEF Updating, Serving
    <3>3. ReadOf(a)'
      <4>1. mem'.status = st
        BY <1>7, <1>9
      <4>2. ASSUME NEW e \in st.bg.evac
            PROVE  e[1] \in evac /\ (e[2] => e[1] \notin load)
        <5>1. PICK p \in evac : e = <<p, p \notin load>>
          BY <3>1
        <5>2. e[1] = p /\ e[2] = (p \notin load)
          BY <5>1
        <5>3. QED
          BY <5>2
      <4>3. evac' = evac /\ load' = load
        BY <1>1
      <4>4. QED
        BY <3>1, <4>1, <4>2, <4>3 DEF ReadOf
    <3>4. Updating(a, b)'
      BY <1>1, <1>2, <1>7, <1>9, <3>1, <3>2, <3>3
      DEF Updating, StsPods, SameUpdate
    <3>5. QED
      BY <3>4 DEF Stage
  <2>4. CASE ~CurrentReady(cur)
    <3>1. ~Serving(b)
      BY <2>1, <2>2, <2>4, ReadyServes DEF Serving
    <3>2. ~cr.status.bg.on /\ ~mem.status.bg.on /\ st.bg = mem.status.bg
      BY <1>7, <1>9, <2>4, <3>1 DEF Updating, SameUpdate
    <3>3. ~cr'.status.bg.on /\ ~mem'.status.bg.on /\ SameUpdate(mem', cr')
      BY <1>7, <1>9, <3>2 DEF SameUpdate
    <3>4. Updating(a, b)'
      BY <1>1, <1>2, <1>7, <1>9, <3>1, <3>3 DEF Updating, StsPods, SameUpdate
    <3>5. QED
      BY <3>4 DEF Stage
  <2>5. QED
    BY <2>3, <2>4
<1>10. QED
  BY <1>3, <1>5, <1>8, <1>9, StatusSteps

-----------------------------------------------------------------------------
(* The invariant.                                                          *)

LEMMA MildStep ==
  ASSUME Sequential, Inv, Basic, Stage, faults' \subseteq Mild, [Next]_vars
  PROVE  Basic' /\ Stage'
<1>1. CASE UNCHANGED vars
  BY <1>1 DEF vars, Basic, Stage, Fresh, New, Alone, Updating, Exists, Fits,
    SameUpdate, Serving, ReadOf, StsPods, Past, BeforeDrain
<1>2. ASSUME NEW at, NEW next, updateEmqxStatus(at, next),
             <<at, next>> \in {<<"status1", "init">>, <<"status2", "conds">>}
      PROVE  Basic' /\ Stage'
  BY <1>2, BasicStatus, StatusFresh, StatusAlone, StatusUpdating DEF Stage
<1>3. CASE \/ Do \/ addEmqxPlugins \/ drainNothing \/ drainFails
           \/ addListener \/ PassFails
  BY <1>3, BasicMoves, StageMoves
<1>4. CASE addEmqxStatefulSet
  BY <1>4, BasicSets, StageSets
<1>5. CASE Drain
  BY <1>5, BasicDrain, StageDrain
<1>6. CASE updatePodConditions
  BY <1>6, BasicConds, StageConds
<1>7. CASE Edit
  BY <1>7, BasicMoves, StageEdit
<1>8. CASE CreatePod \/ DeletePod \/ PodUp \/ PodDown
  BY <1>8, BasicPods, StagePodSteps
<1>9. CASE Connect \/ Evacuated
  BY <1>9, BasicMoves, StagePodSteps
<1>10. QED
  BY <1>1, <1>2, <1>3, <1>4, <1>5, <1>6, <1>7, <1>8, <1>9
  DEF Next, SubReconcilers, Environment

\* A fault that has happened is not forgotten.
LEMMA FaultsGrow == [Next]_vars => faults \subseteq faults'
<1>1. ASSUME NEW at, NEW next, updateEmqxStatus(at, next)
      PROVE  faults \subseteq faults'
  BY <1>1 DEF updateEmqxStatus, updateStatusFails, updateStatusNotReady,
    updateStatusOne, updateStatusTwo, Fault
<1>2. SubReconcilers => faults \subseteq faults'
  BY <1>1 DEF SubReconcilers, Do, addEmqxPlugins, addEmqxStatefulSet,
    drainNothing, drainFails, Drain, drainScale, drainEvacuate, addListener,
    updatePodConditions, Fault
<1>3. PassFails \/ Environment => faults \subseteq faults'
  BY DEF PassFails, Environment, Edit, CreatePod, DeletePod, PodUp, PodDown,
    Connect, Evacuated, Fault
<1>4. QED
  BY <1>2, <1>3 DEF Next, vars

LEMMA InitSeq == ASSUME Init PROVE Basic /\ Fresh
<1>1. New(cr) /\ New(prev) /\ New(mem) /\ New(base)
  BY InitNew DEF Init
<1>2. \A x \in Names : sts[x].born = 0 /\ sts[x].want = 0
  BY DEF Init
<1>3. Size \in Nat
  BY EnterpriseAssumption DEF Size, Specs
<1>4. Basic
  BY <1>2, <1>3 DEF Init, Basic, BeforeDrain
<1>5. Fresh
  BY <1>1, <1>2, FirstName DEF Init, Fresh, Exists
<1>6. QED
  BY <1>4, <1>5

LEMMA AlwaysSeq == ASSUME Sequential PROVE Spec => []SeqInv
<1>1. Init => SeqInv
  BY InitSeq DEF SeqInv, Stage
<1>2. Inv /\ SeqInv /\ [Next]_vars => SeqInv'
  BY MildStep, FaultsGrow DEF SeqInv
<1>3. QED
  BY <1>1, <1>2, AlwaysInv, PTL DEF Spec

-----------------------------------------------------------------------------
(***************************************************************************)
(* A replica is taken away only after its node was evacuated.              *)
(***************************************************************************)

\* The pods' names sort as their ordinals.
Ordered == \A i, j \in Idx : i < j => NameRank[i] < NameRank[j]

\* Only a scale down takes a replica away, and it knows the evacuations.
LEMMA LessInDrain ==
  ASSUME Sequential, Inv, Basic, Stage, [Next]_vars, pc = "drain",
         NEW x \in Names, sts'[x].want < sts[x].want
  PROVE  /\ \E b \in Names : Updating(x, b)
         /\ ReadOf(x) /\ mem.status.bg.org = x /\ canBeScaledDown
<1>1. \A y \in Names : sts[y].want \in Nat
  BY Types
<1>2. sts' # sts
  BY <1>1
<1>3. ~PassFails /\ ~Environment
  BY <1>2 DEF PassFails, Environment, Edit, CreatePod, DeletePod, PodUp,
    PodDown, Connect, Evacuated, setVars
<1>4. Drain
  BY <1>2, <1>3 DEF Next, vars, SubReconcilers, Do, updateEmqxStatus,
    updateStatusFails, updateStatusNotReady, updateStatusOne, updateStatusTwo,
    addEmqxPlugins, addEmqxStatefulSet, drainNothing, drainFails, addListener,
    updatePodConditions, setVars
<1>5. PICK o \in Names : o = mem.status.bg.org
  BY OriginType
<1>6. /\ mem.status.bg.on /\ sts[o].want > 0
      /\ sts' = [sts EXCEPT ![o].want = @ - 1]
      /\ (drainScale /\ canBeScaledDown) \/ ~mem.status.bg.known
  BY <1>2, <1>4, <1>5 DEF Drain, drainScale, drainEvacuate
<1>7. x = o
  BY <1>1, <1>6 DEF Inv, SetsOK
<1>8. \E b \in Names : Updating(o, b) /\ ReadOf(o)
  BY <1>1, <1>5, <1>6, Draining
<1>9. QED
  BY <1>5, <1>6, <1>7, <1>8 DEF ReadOf

LEMMA EvacuatedStep ==
  ASSUME Sequential, PromptSets, Ordered, Inv, SeqInv, [Next]_vars,
         faults \subseteq Mild, pc = "drain",
         NEW x \in Names, sts'[x].want < sts[x].want
  PROVE  <<x, sts[x].want>> \notin load
<1>1. /\ Basic /\ ReadOf(x) /\ mem.status.bg.org = x /\ canBeScaledDown
      /\ \E b \in Names : Updating(x, b)
  BY LessInDrain DEF SeqInv
<1>2. PICK e \in mem.status.bg.evac : e[2] /\ IsLastPod(e[1], PodMap(x))
  BY <1>1 DEF canBeScaledDown, ReadOf
<1>3. PodMap(x) = StsPods(x) /\ e[1] \in StsPods(x)
  BY <1>2 DEF IsLastPod, PodMap
<1>4. e[1] = <<x, e[1][2]>> /\ e[1][2] \in Idx /\ e[1][2] <= sts[x].want
  BY <1>1, <1>3, Types DEF StsPods, Basic, BeforeDrain
<1>5. sts[x].want \in Idx /\ <<x, sts[x].want>> \in StsPods(x)
  <2>1. /\ sts[x].want \in Nat /\ sts[x].want > 0
        /\ PodsOf(x, sts[x].want) \subseteq up /\ up \subseteq pods
    BY <1>1, Types DEF Updating
  <2>2. <<x, sts[x].want>> \in PodsOf(x, sts[x].want)
    BY <2>1 DEF PodsOf
  <2>3. <<x, sts[x].want>> \in StsPods(x)
    BY <2>1, <2>2 DEF StsPods
  <2>4. sts[x].want \in Idx
    BY <2>3, Types DEF StsPods
  <2>5. QED
    BY <2>3, <2>4
<1>6. NameRank[sts[x].want] <= NameRank[e[1][2]]
  BY <1>2, <1>3, <1>5 DEF IsLastPod
<1>7. e[1][2] = sts[x].want
  <2>1. e[1][2] \in Int /\ sts[x].want \in Int
    BY <1>4, <1>5 DEF Idx
  <2>2. NameRank[sts[x].want] \in Int /\ NameRank[e[1][2]] \in Int
    BY <1>4, <1>5, EnterpriseAssumption
  <2>3. ~(e[1][2] < sts[x].want)
    BY <1>4, <1>5, <1>6, <2>2 DEF Ordered
  <2>4. QED
    BY <1>4, <2>1, <2>3
<1>8. QED
  BY <1>1, <1>2, <1>4, <1>7 DEF ReadOf

\* The pod that the drain takes away holds no connection and no session: the
\* list of evacuations that syncStatefulSet goes by is read in the pass that
\* uses it, of the StatefulSet that the update replaces.  It holds as long as
\* edits are made one after another and leave the size alone, pods that are
\* taken away are gone before the next pass, and pod names sort as their
\* ordinals.
THEOREM EvacuatedFirst ==
  ASSUME Sequential, PromptSets, Ordered
  PROVE  Spec => EvacuatedBeforeScaleDown
<1>1. Inv /\ SeqInv /\ [Next]_vars =>
         [\A x \in Names :
            (pc = "drain" /\ sts'[x].want < sts[x].want /\ faults \subseteq Mild)
               => <<x, sts[x].want>> \notin load]_vars
  BY EvacuatedStep
<1>2. QED
  BY <1>1, AlwaysInv, AlwaysSeq, PTL DEF Spec, EvacuatedBeforeScaleDown

-----------------------------------------------------------------------------
(***************************************************************************)
(* Clients reach a node.  A pass drains before it renews the Endpoints, so *)
(* there is always a StatefulSet whose pods are all in the Endpoints, all  *)
(* ready, and that is neither drained nor evacuated (Covered); or, up to   *)
(* the end of the first update, every endpoint is ready and nothing was    *)
(* drained (Untouched); or the pass has just drained, the new StatefulSet  *)
(* is ready, and the Endpoints are renewed next (HandingOver).             *)
(***************************************************************************)

\* All pods of x are in the Endpoints, and ready.
Covers(x) == PodsOf(x, Size) \subseteq endpoints \cap gate

Covered == \E x \in Names : /\ sts[x].want = Size /\ Covers(x)
                            /\ \A p \in evac : p[1] # x

\* No endpoint has lost its readiness, and none is going to be taken away.
AllReady == /\ endpoints \subseteq gate
            /\ \A p \in pods : p[2] <= sts[p[1]].want

Untouched == AllReady /\ evac = {}

HandingOver ==
    /\ pc = "listener"
    /\ \E b \in Names : Serving(b)
    /\ AllReady \/ \E x \in Names : sts[x].want = Size /\ Covers(x)

Serve == Untouched \/ Covered \/ HandingOver

ServeInv == faults \subseteq {"stale"} => Serve

\* A step that leaves the pods and the Endpoints alone; only the renewal of
\* the Endpoints follows a drain.
LEMMA ServeMove ==
  ASSUME Serve, UNCHANGED <<sts, pods, gate, evac, endpoints>>,
         pc = "listener" => pc' = "listener"
  PROVE  Serve'
  BY DEF Serve, Untouched, AllReady, Covered, HandingOver, Covers, Serving

\* Deploying a StatefulSet takes nothing away.
LEMMA ServeSets ==
  ASSUME Sequential, Inv, Basic, Serve, addEmqxStatefulSet PROVE Serve'
<1>1. PICK x \in NewStatefulSet :
         LET fresh == ~Exists(x)
         IN  sts' = [sts EXCEPT ![x] =
                        [born |-> IF fresh THEN clock + 1 ELSE @.born,
                         want |-> mem.spec.n, tpl |-> mem.spec.tpl]]
  BY DEF addEmqxStatefulSet
<1>2. mem.spec.n = Size /\ sts \in [Names -> StsRecords] /\ Size \in Nat
  BY Types, AskedSize, EnterpriseAssumption DEF Inv, SetsOK
<1>3. \A y \in Names : sts'[y].want \in {sts[y].want, Size}
  BY <1>1, <1>2
<1>4. \A y \in Names : sts[y].want <= sts'[y].want /\ sts'[y].want \in Nat
  BY <1>2, <1>3, Types DEF Basic
<1>5. \A p \in pods : p[2] <= sts[p[1]].want => p[2] <= sts'[p[1]].want
  BY <1>4, Types DEF Idx
<1>6. UNCHANGED <<pods, gate, evac, endpoints>> /\ pc = "sts"
  BY DEF addEmqxStatefulSet, nodeVars
<1>7. QED
  BY <1>3, <1>5, <1>6
  DEF Serve, Untouched, AllReady, Covered, HandingOver, Covers

\* A drain that touches a pod of the Endpoints finds the new StatefulSet
\* ready; the first of them only evacuates.
LEMMA ServeDrain ==
  ASSUME Sequential, Inv, Basic, Stage, Serve, faults' \subseteq Mild, Drain
  PROVE  Serve'
<1>1. pc = "drain" /\ mem.status.bg.on /\ (Untouched \/ Covered)
  BY DEF Drain, drainScale, drainEvacuate, Serve, HandingOver
<1>2. UNCHANGED <<pods, gate, endpoints>> /\ pc' = "listener"
  BY MildFaults DEF Drain, drainScale, drainEvacuate, nodeVars
<1>3. PICK o \in Names : o = mem.status.bg.org
  BY OriginType
<1>4. /\ \/ sts' = sts
         \/ /\ sts' = [sts EXCEPT ![o].want = @ - 1] /\ sts[o].want > 0
            /\ ~mem.status.bg.known \/ (canBeScaledDown /\ evac' = evac)
      /\ \/ evac' = evac
         \/ \E p \in PodMap(o) : evac' = evac \cup {p}
  BY <1>3 DEF Drain, drainScale, drainEvacuate, nodeVars, IsLastPod
<1>5. CASE sts' = sts /\ evac' = evac
  BY <1>1, <1>2, <1>5, ServeMove
<1>6. ASSUME NEW x \in Names, Alone(x), sts[o].want = 0 PROVE Serve'
  <2>1. PodMap(o) = {}
    BY <1>6 DEF PodMap, InCluster, AllSts
  <2>2. QED
    BY <1>4, <1>5, <1>6, <2>1
<1>7. ASSUME NEW b \in Names, Updating(o, b), Serving(b), ReadOf(o)
      PROVE  Serve'
  <2>1. PodMap(o) \subseteq StsPods(o) /\ \A p \in StsPods(o) : p[1] = o
    BY DEF PodMap, StsPods
  <2>2. ASSUME NEW x \in Names, x # o, sts[x].want = Size, Covers(x),
               \A p \in evac : p[1] # x
        PROVE  Serve'
    <3>1. sts'[x].want = Size /\ \A p \in evac' : p[1] # x
      <4>1. sts'[x] = sts[x]
        BY <1>4, <2>2 DEF Inv, SetsOK
      <4>2. \A p \in evac' : p \in evac \/ p[1] = o
        BY <1>4, <2>1
      <4>3. QED
        BY <2>2, <4>1, <4>2
    <3>2. Covered'
      BY <1>2, <2>2, <3>1 DEF Covered, Covers
    <3>3. QED
      BY <3>2 DEF Serve
  <2>3. ASSUME Untouched \/ (sts[o].want = Size /\ \A p \in evac : p[1] # o)
        PROVE  sts' = sts
    <3>1. SUFFICES ASSUME canBeScaledDown PROVE FALSE
      BY <1>4, <1>7 DEF ReadOf
    <3>2. PICK e \in mem.status.bg.evac : e[1] \in PodMap(o)
      BY <1>3, <1>7, <3>1 DEF canBeScaledDown, ReadOf, IsLastPod
    <3>3. e[1][1] = o /\ e[1] \in pods /\ e[1][2] <= sts[o].want
      BY <2>1, <2>3, <3>2 DEF Untouched, AllReady, StsPods, Basic
    <3>4. e[1] \in evac
      BY <1>7, <3>3 DEF ReadOf
    <3>5. QED
      BY <2>3, <3>3, <3>4 DEF Untouched
  <2>4. Serving(b)' \/ sts' # sts
    BY <1>2, <1>4, <1>7, <2>1 DEF Serving, Updating
  <2>5. CASE Untouched
    <3>1. AllReady' /\ Serving(b)'
      BY <1>2, <2>3, <2>4, <2>5 DEF Untouched, AllReady
    <3>2. QED
      BY <1>2, <3>1 DEF Serve, HandingOver
  <2>6. CASE sts[o].want = Size /\ Covers(o) /\ \A p \in evac : p[1] # o
    <3>1. sts'[o].want = Size /\ Covers(o)' /\ Serving(b)'
      BY <1>2, <2>3, <2>4, <2>6 DEF Covers
    <3>2. QED
      BY <1>2, <3>1 DEF Serve, HandingOver
  <2>7. QED
    BY <1>1, <2>2, <2>5, <2>6 DEF Covered
<1>8. QED
  BY <1>1, <1>3, <1>6, <1>7, Draining

\* A StatefulSet that serves has a ready pod.
LEMMA SomePod ==
  ASSUME Sequential, NEW x
  PROVE  <<x, 1>> \in PodsOf(x, Size)
  BY AskedSize, EnterpriseAssumption DEF PodsOf

LEMMA ServeListener ==
  ASSUME Sequential, Inv, Basic, Serve, addListener PROVE Serve'
<1>1. endpoints' = IF gate = {} THEN endpoints ELSE gate
  BY DEF addListener, Basic
<1>2. UNCHANGED <<sts, pods, gate, evac>>
  BY DEF addListener, setVars, nodeVars
<1>3. CASE Untouched
  BY <1>1, <1>2, <1>3 DEF Untouched, AllReady, Serve
<1>4. ASSUME NEW x \in Names, sts[x].want = Size, PodsOf(x, Size) \subseteq gate,
             \A p \in evac : p[1] # x
      PROVE  Serve'
  <2>1. endpoints' = gate
    BY <1>1, <1>4, SomePod
  <2>2. Covered'
    BY <1>2, <1>4, <2>1 DEF Covered, Covers
  <2>3. QED
    BY <2>2 DEF Serve
<1>5. QED
  BY <1>3, <1>4 DEF Serve, Covered, Covers, HandingOver, Serving

\* Only an evacuated node loses its gate.
LEMMA ServeConds ==
  ASSUME Serve, updatePodConditions PROVE Serve'
<1>1. PICK S : gate' = (gate \ S) \cup (S \ evac)
  BY DEF updatePodConditions
<1>2. UNCHANGED <<sts, pods, evac, endpoints>> /\ pc = "conds"
  BY DEF updatePodConditions, setVars
<1>3. CASE Untouched
  BY <1>1, <1>2, <1>3 DEF Untouched, AllReady, Serve
<1>4. ASSUME NEW x \in Names, sts[x].want = Size, Covers(x),
             \A p \in evac : p[1] # x
      PROVE  Serve'
  <2>1. \A p \in PodsOf(x, Size) : p \notin evac
    BY <1>4 DEF PodsOf
  <2>2. PodsOf(x, Size) \subseteq gate'
    BY <1>1, <1>4, <2>1 DEF Covers
  <2>3. Covered'
    BY <1>2, <1>4, <2>2 DEF Covered, Covers
  <2>4. QED
    BY <2>3 DEF Serve
<1>5. QED
  BY <1>2, <1>3, <1>4 DEF Serve, Covered, HandingOver


\* A pod that is taken away is beyond the replicas.
LEMMA ServePods ==
  ASSUME Inv, Serve, faults' \subseteq Mild,
         CreatePod \/ DeletePod \/ PodUp \/ PodDown
  PROVE  Serve'
<1>1. ~PodDown
  BY MildFaults DEF PodDown
<1>2. CASE PodUp
  <2>1. UNCHANGED <<sts, pods, gate, evac, endpoints, pc>>
    BY <1>2 DEF PodUp, setVars
  <2>2. QED
    BY <2>1, ServeMove
<1>3. CASE CreatePod
  <2>1. /\ UNCHANGED <<sts, gate, evac, endpoints, pc>>
        /\ \A p \in pods' : p \in pods \/ p[2] <= sts[p[1]].want
    BY <1>3 DEF CreatePod, setVars
  <2>2. QED
    BY <2>1 DEF Serve, Untouched, AllReady, Covered, HandingOver, Covers, Serving
<1>4. CASE DeletePod
  <2>1. PICK p \in pods :
          /\ p[2] > sts[p[1]].want
          /\ pods' = pods \ {p} /\ gate' = gate \ {p} /\ evac' = evac \ {p}
    BY <1>4 DEF DeletePod
  <2>2. UNCHANGED <<sts, endpoints, pc>>
    BY <1>4 DEF DeletePod, setVars
  <2>3. ~(p[2] <= sts[p[1]].want)
    BY <2>1, Types DEF Idx
  <2>4. ~AllReady
    BY <2>3 DEF AllReady
  <2>5. \A x \in Names : sts[x].want = Size => p \notin PodsOf(x, Size)
    <3>1. \A x : \A q \in PodsOf(x, Size) : q[1] = x /\ q[2] <= Size
      BY EnterpriseAssumption DEF PodsOf, Size, Specs
    <3>2. QED
      BY <2>3, <3>1
  <2>6. \A x \in Names : sts[x].want = Size /\ Covers(x) => Covers(x)'
    BY <2>1, <2>2, <2>5 DEF Covers
  <2>7. \A x \in Names : Serving(x) => Serving(x)'
    BY <2>1, <2>2, <2>5 DEF Serving
  <2>8. QED
    BY <2>1, <2>2, <2>4, <2>6, <2>7
    DEF Serve, Untouched, Covered, HandingOver
<1>5. QED
  BY <1>1, <1>2, <1>3, <1>4

LEMMA ServeStep ==
  ASSUME Sequential, Inv, Basic, Stage, Serve, faults' \subseteq {"stale"},
         [Next]_vars
  PROVE  Serve'
<1>1. faults' \subseteq Mild /\ ~Fault("pass")
  BY DEF Mild, Fault
<1>2. CASE UNCHANGED vars
  BY <1>2, ServeMove DEF vars
<1>3. ASSUME NEW at, NEW next, updateEmqxStatus(at, next),
             at \in {"status1", "status2"}
      PROVE  Serve'
  <2>1. UNCHANGED <<sts, pods, gate, evac, endpoints>> /\ pc = at
    BY <1>3 DEF updateEmqxStatus, updateStatusFails, updateStatusNotReady,
      updateStatusOne, updateStatusTwo, setVars, nodeVars
  <2>2. QED
    BY <1>3, <2>1, ServeMove
<1>4. CASE Do \/ addEmqxPlugins \/ drainNothing \/ drainFails
  <2>1. /\ UNCHANGED <<sts, pods, gate, evac, endpoints>>
        /\ pc \in {"idle", "init", "drain"}
    BY <1>4 DEF Do, addEmqxPlugins, drainNothing, drainFails, setVars, nodeVars
  <2>2. QED
    BY <2>1, ServeMove
<1>5. CASE Edit \/ Connect \/ Evacuated
  <2>1. UNCHANGED <<sts, pods, gate, evac, endpoints, pc>>
    BY <1>5 DEF Edit, Connect, Evacuated, setVars, nodeVars
  <2>2. QED
    BY <2>1, ServeMove
<1>6. CASE addEmqxStatefulSet
  BY <1>6, ServeSets
<1>7. CASE Drain
  BY <1>1, <1>7, ServeDrain
<1>8. CASE addListener
  BY <1>8, ServeListener
<1>9. CASE updatePodConditions
  BY <1>9, ServeConds
<1>10. CASE CreatePod \/ DeletePod \/ PodUp \/ PodDown
  BY <1>1, <1>10, ServePods
<1>11. ~PassFails
  BY <1>1 DEF PassFails
<1>12. QED
  BY <1>2, <1>3, <1>4, <1>5, <1>6, <1>7, <1>8, <1>9, <1>10, <1>11
  DEF Next, SubReconcilers, Environment

LEMMA ServeReaches ==
  ASSUME Sequential, SeqInv, ServeInv PROVE ClientsReachANode
<1>1. SUFFICES ASSUME endpoints # {}, faults \subseteq {"stale"}
               PROVE  endpoints \cap up \cap gate # {}
  BY DEF ClientsReachANode
<1>2. gate \subseteq up /\ Serve
  BY <1>1 DEF SeqInv, Mild, Basic, ServeInv
<1>3. CASE AllReady
  BY <1>1, <1>2, <1>3 DEF AllReady
<1>4. ASSUME NEW x, Covers(x) PROVE endpoints \cap up \cap gate # {}
  BY <1>2, <1>4, SomePod DEF Covers
<1>5. QED
  BY <1>2, <1>3, <1>4 DEF Serve, Untouched, Covered, HandingOver

\* Once the listener Service had ready pods, clients reach one in every state,
\* although a pass drains before it renews the Endpoints.  It holds as long as
\* edits are made one after another and leave the size alone; no order of the
\* pod names and no haste of the StatefulSet controllers is needed for it.
THEOREM ClientsServed ==
  ASSUME Sequential
  PROVE  Spec => []ClientsReachANode
<1>1. Init => ServeInv
  BY DEF Init, ServeInv, Serve, Untouched, AllReady
<1>2. Inv /\ SeqInv /\ ServeInv /\ [Next]_vars => ServeInv'
  BY ServeStep, FaultsGrow DEF SeqInv, ServeInv, Mild
<1>3. SeqInv /\ ServeInv => ClientsReachANode
  BY ServeReaches
<1>4. QED
  BY <1>1, <1>2, <1>3, AlwaysInv, AlwaysSeq, PTL DEF Spec

=============================================================================
