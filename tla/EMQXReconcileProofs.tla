------------------------- MODULE EMQXReconcileProofs -------------------------
(***************************************************************************)
(* Proofs about the reconcile loop, for any templates, any number of       *)
(* replicas, any bounds on edits, collisions and faults: the type          *)
(* invariant; that a resource that reports Ready has no update of its core *)
(* nodes left to do; the order of an update, in which old pods are retired *)
(* and drained only after the new sets were ready; that only retired sets  *)
(* are deleted; and that a core pod stays ready while updates come and go. *)
(***************************************************************************)
EXTENDS EMQXReconcile, FiniteSetTheorems, WellFoundedInduction, TLAPS

\* A status that is settled if it reports Ready.
SettledStatuses ==
    {st \in Statuses : "Ready" \in st.conds.held
                          => st.upd["core"] = st.cur["core"]}

\* The specs the resource can have: coreTemplate is never empty.
CoreSpecs == {sp \in Specs : sp.tpl["core"] # NoTpl}

SettledResources == [spec : CoreSpecs, status : SettledStatuses]

\* The inductive invariant: ReadyIsSettled, with the types, and with what
\* the pass relies on when it hashes the template of the replicant nodes.
CopiesOK ==
    /\ cr \in SettledResources /\ prev \in SettledResources
    /\ mem \in SettledResources /\ base \in SettledResources

SetsOK == sets \in [Kinds -> [Rev -> SetRecords]] /\ clock \in Nat

PodsOK == pods \in SUBSET Pod /\ up \in SUBSET pods /\ gate \in SUBSET pods

PassOK ==
    /\ pc \in Steps /\ req \in BOOLEAN
    /\ pc = "replStatus" => mem.spec.tpl["repl"] # NoTpl

CountsOK == edits \in 0..MaxEdits /\ faults \in 0..MaxFaults

HistOK == proven \in SUBSET (Kinds \X Rev) /\ served \in Services

IInv == CopiesOK /\ SetsOK /\ PodsOK /\ PassOK /\ CountsOK /\ HistOK

-----------------------------------------------------------------------------
(* The conditions and the status machine.                                  *)

\* Setting a condition gives conditions.
LEMMA SetConditionType ==
    ASSUME NEW c \in Conditions, NEW t \in CondTypes
    PROVE  SetCondition(c, t) \in Conditions
BY DEF SetCondition, Conditions

\* Removing conditions gives conditions, without the removed ones.
LEMMA RemoveConditionsType ==
    ASSUME NEW c \in Conditions, NEW T
    PROVE  /\ RemoveConditions(c, T) \in Conditions
           /\ RemoveConditions(c, T).held = c.held \ T
BY DEF RemoveConditions, Conditions

\* The state Initialized leaves no trace of an earlier Ready.
LEMMA InitializedType ==
    ASSUME NEW c \in Conditions
    PROVE  initialized(c) \in Conditions /\ "Ready" \notin initialized(c).held
<1> DEFINE T == {"Ready", "Available", "ReplicantNodesReady",
                 "ReplicantNodesProgressing", "CoreNodesReady",
                 "CoreNodesProgressing"}
<1>1. /\ RemoveConditions(c, T) \in Conditions
      /\ "Ready" \notin RemoveConditions(c, T).held
  BY RemoveConditionsType
<1>2. "CoreNodesProgressing" \in CondTypes
  BY DEF CondTypes
<1>3. initialized(c) = SetCondition(RemoveConditions(c, T),
                                    "CoreNodesProgressing")
  BY DEF initialized
<1> HIDE DEF T
<1> QED
  BY <1>1, <1>2, <1>3, SetConditionType DEF SetCondition

\* A step of the status machine adds Ready only to a settled resource.
LEMMA NextStatusReady ==
    ASSUME NEW c \in Conditions, NEW o
    PROVE  /\ NextStatus(c, o) \in Conditions
           /\ "Ready" \in NextStatus(c, o).held /\ "Ready" \notin c.held
                => o.settled
<1> DEFINE d == IF GetLastTrueCondition(c) = NoCond
                THEN SetCondition(c, "Initialized") ELSE c
<1>a. /\ "Initialized" \in CondTypes /\ "CoreNodesReady" \in CondTypes
      /\ "ReplicantNodesProgressing" \in CondTypes /\ "Ready" \in CondTypes
      /\ "ReplicantNodesReady" \in CondTypes /\ "Available" \in CondTypes
  BY DEF CondTypes
<1>b. d \in Conditions /\ ("Ready" \in d.held => "Ready" \in c.held)
  BY <1>a, SetConditionType DEF SetCondition
<1> HIDE DEF d
<1> DEFINE Good(e) == /\ e \in Conditions
                      /\ "Ready" \in e.held /\ "Ready" \notin d.held
                           => o.settled
<1>1. Good(d) /\ Good(initialized(d))
  BY <1>b, InitializedType
<1>2. \A t \in CondTypes \ {"Ready"} : Good(SetCondition(d, t))
  BY <1>b, SetConditionType DEF SetCondition
<1>3. Good(coreNodesProgressing(d, o)) /\ Good(coreNodesReady(d, o))
  BY <1>a, <1>1, <1>2 DEF coreNodesProgressing, coreNodesReady
<1>4. Good(replicantNodesProgressing(d, o)) /\ Good(replicantNodesReady(d, o))
  BY <1>a, <1>1, <1>2 DEF replicantNodesProgressing, replicantNodesReady
<1>5. Good(available(d, o))
  BY <1>a, <1>b, <1>1, SetConditionType DEF available, SetCondition
<1>6. Good(ready(d, o))
  <2> DEFINE e == RemoveConditions(d, {"Ready", "Available",
                                       "ReplicantNodesReady"})
  <2>1. e \in Conditions /\ "Ready" \notin e.held
    BY <1>b, RemoveConditionsType
  <2>2. Good(SetCondition(e, "ReplicantNodesProgressing"))
    BY <1>a, <2>1, SetConditionType DEF SetCondition
  <2> HIDE DEF Good
  <2> QED
    BY <1>1, <2>2 DEF ready
<1>7. Good(NextStatus(c, o))
  <2> HIDE DEF Good
  <2> QED
    BY <1>1, <1>3, <1>4, <1>5, <1>6 DEF NextStatus, d
<1> QED
  BY <1>b, <1>7

-----------------------------------------------------------------------------
(* The statuses the sub-reconcilers compute.                               *)

\* A new status in a resource.
LEMMA StatusReplaced ==
    ASSUME NEW v \in SettledResources, NEW st \in SettledStatuses
    PROVE  /\ [v EXCEPT !.status = st] \in SettledResources
           /\ [v EXCEPT !.status = st].spec = v.spec
BY DEF SettledResources

\* A settled resource is a resource.
LEMMA SettledAreResources == SettledResources \subseteq Resources
BY DEF SettledResources, Resources, CoreSpecs, SettledStatuses

\* The resource as the user creates it is settled, with nothing to report.
LEMMA InitSettled == InitCR \in SettledResources
<1>1. InitSpec \in CoreSpecs
  BY ConstantsAssumption DEF CoreSpecs
<1>2. InitStatus \in Statuses
  BY ConstantsAssumption
     DEF InitStatus, Statuses, NoConditions, Conditions
<1>3. InitStatus \in SettledStatuses
  BY <1>2 DEF SettledStatuses, InitStatus
<1> QED
  BY <1>1, <1>3 DEF SettledResources, InitCR

\* Refreshing the replica counts and the first current revision keeps a
\* status settled.
LEMMA RefreshedSettled ==
    ASSUME NEW st \in SettledStatuses, NEW sp \in CoreSpecs
    PROVE  Refreshed(st, sp) \in SettledStatuses
<1>1. /\ st \in Statuses /\ sp \in Specs
      /\ "Ready" \in st.conds.held => st.upd["core"] = st.cur["core"]
  BY DEF SettledStatuses, CoreSpecs
<1>2. Refreshed(st, sp) \in Statuses
  BY <1>1 DEF Refreshed, Statuses, Specs
<1>3. /\ Refreshed(st, sp).conds = st.conds
      /\ Refreshed(st, sp).upd = st.upd
      /\ Refreshed(st, sp).cur["core"] = IF st.cur["core"] = NoRev
                                         THEN st.upd["core"]
                                         ELSE st.cur["core"]
  BY <1>1 DEF Refreshed, Statuses, Kinds
<1> QED
  BY <1>1, <1>2, <1>3 DEF SettledStatuses

\* A non-empty set of natural numbers has a least element.
LEMMA LeastNatural ==
    ASSUME NEW S \in SUBSET Nat, S # {}
    PROVE  \E x \in S : \A y \in S : x <= y
<1> DEFINE R == OpToRel(<, Nat)
<1>1. IsWellFoundedOn(R, Nat)
  BY NatLessThanWellFounded, Zenon
<1>2. \A x, y \in Nat : y < x => <<y, x>> \in R
  BY Zenon DEF OpToRel
<1> HIDE DEF R
<1>3. PICK x \in S : \A y \in S : ~(<<y, x>> \in R)
  BY <1>1, WFMin, Zenon
<1>4. \A y \in S : ~(y < x)
  BY <1>2, <1>3, Zenon
<1>5. \A y \in S : x <= y
  BY <1>4
<1> QED
  BY <1>5

\* Of the old sets that still have pods one is the oldest, so the next
\* current revision is one of theirs or the update revision.
LEMMA NextCurrentType ==
    ASSUME TypeOK, NEW k \in Kinds, NEW st \in Statuses
    PROVE  NextCurrent(k, st) \in Rev \cup {NoRev}
<1> DEFINE busy == {r \in Old(k, st) : SetPods(k, r) # {}}
           S == {sets[k][r].born : r \in busy}
<1>1. busy \subseteq Rev
  BY DEF Old
<1>2. \A r \in Rev : sets[k][r].born \in Nat
  BY DEF TypeOK, SetRecords
<1>3. st.upd[k] \in Rev \cup {NoRev}
  BY DEF Statuses
<1>4. NextCurrent(k, st) = IF busy = {} THEN st.upd[k]
                           ELSE CHOOSE r \in busy : OlderThan(k, r, busy) = {}
  BY DEF NextCurrent
<1>5. ASSUME busy # {} PROVE \E r \in busy : OlderThan(k, r, busy) = {}
  <2> HIDE DEF busy
  <2>1. S \in SUBSET Nat /\ S # {}
    BY <1>1, <1>2, <1>5
  <2>2. PICK x \in S : \A y \in S : x <= y
    <3> HIDE DEF S
    <3> QED BY <2>1, LeastNatural
  <2>3. PICK r \in busy : x = sets[k][r].born
    OBVIOUS
  <2>4. \A q \in busy : ~(sets[k][q].born < sets[k][r].born)
    BY <1>1, <1>2, <2>2, <2>3
  <2> QED
    BY <2>4 DEF OlderThan
<1> HIDE DEF busy
<1> QED
  BY <1>1, <1>3, <1>4, <1>5

\* updateStatus gives a node set another current revision only when the old
\* one is not the update revision, and then the resource is not Ready.
LEMMA CurrentReplaced ==
    ASSUME TypeOK, NEW k \in Kinds, NEW st \in SettledStatuses,
           NeedsCurrent(k, st)
    PROVE  [st EXCEPT !.cur[k] = NextCurrent(k, st)] \in SettledStatuses
<1> DEFINE c == NextCurrent(k, st)
<1>1. st \in Statuses
  BY DEF SettledStatuses
<1>2. c \in Rev \cup {NoRev}
  BY <1>1, NextCurrentType
<1> HIDE DEF c
<1>3. [st EXCEPT !.cur[k] = c] \in Statuses
  BY <1>1, <1>2 DEF Statuses
<1>4. st.upd[k] # st.cur[k]
  BY DEF NeedsCurrent
<1>5. /\ [st EXCEPT !.cur[k] = c].conds = st.conds
      /\ [st EXCEPT !.cur[k] = c].upd = st.upd
      /\ k # "core" => [st EXCEPT !.cur[k] = c].cur["core"] = st.cur["core"]
  BY <1>1 DEF Statuses, Kinds
<1>6. [st EXCEPT !.cur[k] = c] \in SettledStatuses
  BY <1>3, <1>4, <1>5 DEF SettledStatuses
<1> QED
  BY <1>6 DEF c

\* A step of the status machine over a list of nodes keeps a status settled.
LEMMA MachineStep ==
    ASSUME NEW st \in SettledStatuses, NEW sp, NEW nodes \in SUBSET Pod
    PROVE  LET s == [st EXCEPT !.nodes = nodes]
           IN  [s EXCEPT !.conds = NextStatus(@, Observe(s, sp))]
                 \in SettledStatuses
<1> DEFINE s == [st EXCEPT !.nodes = nodes]
           o == Observe(s, sp)
<1>1. /\ s \in Statuses /\ s.conds = st.conds /\ s.upd = st.upd
      /\ s.cur = st.cur /\ st.conds \in Conditions
      /\ "Ready" \in st.conds.held => st.upd["core"] = st.cur["core"]
  BY DEF Statuses, SettledStatuses
<1> HIDE DEF s
<1>2. o.settled => s.upd["core"] = s.cur["core"]
  BY DEF Observe
<1> HIDE DEF o
<1>3. /\ NextStatus(s.conds, o) \in Conditions
      /\ "Ready" \in NextStatus(s.conds, o).held /\ "Ready" \notin s.conds.held
           => o.settled
  BY <1>1, NextStatusReady
<1> DEFINE c == NextStatus(s.conds, o)
<1> HIDE DEF c
<1>4. [s EXCEPT !.conds = c] \in SettledStatuses
  BY <1>1, <1>2, <1>3 DEF Statuses, SettledStatuses, c
<1>5. [s EXCEPT !.conds = NextStatus(@, o)] \in SettledStatuses
  BY <1>1, <1>4 DEF c
<1> QED
  BY <1>5 DEF s, o

\* After a set was created, reverted to or updated the resource is not Ready.
LEMMA ProgressingSettled ==
    ASSUME NEW k \in Kinds, NEW st \in SettledStatuses, NEW h \in Rev
    PROVE  /\ Progressing(k, st, h) \in SettledStatuses
           /\ "Ready" \notin Progressing(k, st, h).conds.held
<1> DEFINE t == IF k = "core" THEN "CoreNodesProgressing"
                              ELSE "ReplicantNodesProgressing"
           T == {"Ready", "Available",
                 IF k = "core" THEN "CoreNodesReady"
                               ELSE "ReplicantNodesReady"}
           c == RemoveConditions(SetCondition(st.conds, t), T)
           new == [st EXCEPT !.conds = c, !.upd[k] = h]
<1>1. st \in Statuses /\ st.conds \in Conditions
  BY DEF SettledStatuses, Statuses
<1>2. t \in CondTypes
  BY DEF CondTypes
<1>3. c \in Conditions /\ "Ready" \notin c.held
  <2>1. SetCondition(st.conds, t) \in Conditions
    <3> HIDE DEF t
    <3> QED BY <1>1, <1>2, SetConditionType
  <2>2. "Ready" \in T
    OBVIOUS
  <2> HIDE DEF t, T
  <2> QED
    BY <2>1, <2>2, RemoveConditionsType
<1>4. Progressing(k, st, h) = new
  BY <1>1 DEF Progressing, Statuses
<1> HIDE DEF c
<1>5. new \in Statuses /\ new.conds = c
  BY <1>1, <1>3 DEF Statuses
<1> HIDE DEF new
<1> QED
  BY <1>3, <1>4, <1>5 DEF SettledStatuses

-----------------------------------------------------------------------------
(* The invariant and its parts.                                            *)

\* The inductive invariant has the type invariant in it.
LEMMA IInvTypeOK == IInv => TypeOK
<1>1. IInv => /\ cr \in Resources /\ prev \in Resources
              /\ mem \in Resources /\ base \in Resources
  BY SettledAreResources DEF IInv, CopiesOK
<1> QED
  BY <1>1 DEF IInv, SetsOK, PodsOK, PassOK, CountsOK, HistOK, TypeOK

\* The inductive invariant implies the property.
LEMMA IInvReady == IInv => ReadyIsSettled
<1>1. \A v \in SettledResources :
         "Ready" \in v.status.conds.held
           => v.status.upd["core"] = v.status.cur["core"]
  BY DEF SettledResources, SettledStatuses
<1> QED
  BY <1>1 DEF IInv, CopiesOK, ReadyIsSettled, IsConditionTrue

\* The initial states satisfy the inductive invariant.
LEMMA InitIInv == Init => IInv
<1> SUFFICES ASSUME Init PROVE IInv
  OBVIOUS
<1>1. CopiesOK
  BY InitSettled DEF Init, CopiesOK
<1>2. SetsOK
  <2>1. InitSpec.tpl["core"] \in Templates
    BY ConstantsAssumption DEF Specs, Kinds
  <2>2. [born |-> 0, want |-> 0, tpl |-> InitSpec.tpl["core"]] \in SetRecords
    BY <2>1, ConstantsAssumption DEF SetRecords
  <2> QED
    BY <2>2 DEF Init, SetsOK
<1>3. CountsOK
  BY ConstantsAssumption DEF Init, CountsOK
<1>4. PassOK /\ PodsOK /\ HistOK
  BY DEF Init, PassOK, PodsOK, HistOK, Steps, Services
<1> QED
  BY <1>1, <1>2, <1>3, <1>4 DEF IInv

\* A stored version and the one before it.
LEMMA Stored ==
    ASSUME CopiesOK, NEW new \in SettledResources, Store(new)
    PROVE  cr' \in SettledResources /\ prev' \in SettledResources
BY DEF CopiesOK, Store

\* The end of a pass leaves nothing behind.
LEMMA EndedPass ==
    ASSUME EndPass
    PROVE  /\ mem' \in SettledResources /\ base' \in SettledResources
           /\ PassOK'
BY InitSettled DEF EndPass, PassOK, Steps

\* A status write that succeeds or is refused.
LEMMA StatusUpdated ==
    ASSUME CopiesOK, PassOK, NEW st \in SettledStatuses,
           NEW next \in Steps \ {"replStatus"},
           NEW full \in SUBSET (Kinds \X Rev), StatusUpdate(st, next, full),
           proven \in SUBSET (Kinds \X Rev)
    PROVE  CopiesOK' /\ PassOK' /\ proven' \in SUBSET (Kinds \X Rev)
<1> DEFINE new == [cr EXCEPT !.status = st]
<1>0. proven' \in SUBSET (Kinds \X Rev)
  BY DEF StatusUpdate
<1>1. new \in SettledResources
  BY StatusReplaced DEF CopiesOK
<1>2. CASE base = cr
  <2>1. /\ Store(new) /\ mem' = new /\ base' = new /\ pc' = next /\ req' = req
    BY <1>2 DEF StatusUpdate
  <2> HIDE DEF new
  <2> QED
    BY <1>0, <1>1, <2>1, Stored DEF CopiesOK, PassOK
<1>3. CASE base # cr
  <2>1. EndPass /\ cr' = cr /\ prev' = prev
    BY <1>3 DEF StatusUpdate, crVars
  <2> QED
    BY <1>0, <2>1, EndedPass DEF CopiesOK
<1> QED
  BY <1>2, <1>3

\* A counted fault stays in its bound.
LEMMA FaultCounted ==
    ASSUME CountsOK, NEW f, Fault(f), edits' = edits
    PROVE  CountsOK'
BY ConstantsAssumption DEF CountsOK, Fault

\* The revision a pass computes for a template is a revision.
LEMMA PreHashType ==
    ASSUME CopiesOK, NEW k \in Kinds, mem.spec.tpl[k] # NoTpl
    PROVE  PreHash(k) \in Rev /\ mem.spec.tpl[k] \in Templates
<1>1. mem.spec \in Specs /\ mem.status \in Statuses
  BY DEF CopiesOK, SettledResources, CoreSpecs, SettledStatuses
<1>2. mem.spec.tpl[k] \in Templates /\ mem.status.coll[k] \in 0..MaxCollision
  BY <1>1 DEF Specs, Statuses
<1> QED
  BY <1>2 DEF PreHash, Rev

\* The core template is never empty, and the pass hashes the replicant
\* template only when there is one.
LEMMA TemplateThere ==
    ASSUME IInv, NEW k \in Kinds, MayAdd(k) \/ pc = StatusStep(k)
    PROVE  mem.spec.tpl[k] # NoTpl
BY DEF IInv, CopiesOK, PassOK, MayAdd, StatusStep, Kinds, SettledResources,
       CoreSpecs

-----------------------------------------------------------------------------
(* Every action preserves the invariant.                                   *)

\* Reading the resource at the start of a pass.
LEMMA StartIInv == IInv /\ Start => IInv'
<1> SUFFICES ASSUME IInv, Start PROVE IInv'
  OBVIOUS
<1>1. /\ cr' = cr /\ prev' = prev /\ sets' = sets /\ clock' = clock
      /\ pods' = pods /\ up' = up /\ gate' = gate /\ edits' = edits
      /\ faults' = faults /\ proven' = proven /\ served' = served
  BY DEF Start, crVars, setVars, podVars, histVars
<1>2. CopiesOK'
  BY <1>1 DEF IInv, CopiesOK, Start, Readable
<1>3. PassOK'
  BY DEF Start, PassOK, Steps
<1> QED
  BY <1>1, <1>2, <1>3 DEF IInv, SetsOK, PodsOK, CountsOK, HistOK

\* Setting the pods' readiness gates.
LEMMA updatePodConditionsIInv ==
    ASSUME IInv, NEW at, NEW next \in Steps \ {"replStatus"},
           updatePodConditions(at, next)
    PROVE  IInv'
<1>1. /\ cr' = cr /\ prev' = prev /\ sets' = sets /\ clock' = clock
      /\ pods' = pods /\ up' = up /\ mem' = mem /\ base' = base
      /\ req' = req /\ edits' = edits /\ proven' = proven
      /\ pc' = next
  BY DEF updatePodConditions, crVars, setVars, memVars
<1>2. PodsOK'
  <2>1. gate' \subseteq gate \cup up
    BY DEF updatePodConditions
  <2> QED
    BY <1>1, <2>1 DEF IInv, PodsOK
<1>3. CountsOK'
  <2>1. faults' = faults \/ Fault("emqxAPI")
    BY DEF updatePodConditions
  <2> QED
    BY <1>1, <2>1, FaultCounted DEF IInv, CountsOK
<1>4. HistOK'
  BY <1>1 DEF IInv, HistOK, Services, updatePodConditions
<1> QED
  BY <1>1, <1>2, <1>3, <1>4 DEF IInv, CopiesOK, SetsOK, PassOK

\* The copy in memory, refreshed, is settled.
LEMMA RefreshedCopy ==
    ASSUME IInv
    PROVE  /\ Refreshed(mem.status, mem.spec) \in SettledStatuses
           /\ mem.spec \in CoreSpecs
BY RefreshedSettled DEF IInv, CopiesOK, SettledResources

\* updateStatus replaces a current revision.
LEMMA updateStatusCurrentIInv ==
    ASSUME IInv, NEW at, NEW next \in Steps \ {"replStatus"}, NEW k \in Kinds,
           updateStatusCurrent(at, next, k)
    PROVE  IInv'
<1> DEFINE st == Refreshed(mem.status, mem.spec)
           new == [st EXCEPT !.cur[k] = NextCurrent(k, st)]
<1>1. /\ sets' = sets /\ clock' = clock /\ pods' = pods /\ up' = up
      /\ gate' = gate /\ edits' = edits /\ faults' = faults
      /\ served' = served
  BY DEF updateStatusCurrent, setVars, podVars
<1>2. NeedsCurrent(k, st) /\ StatusUpdate(new, next, {})
  BY DEF updateStatusCurrent
<1>3. st \in SettledStatuses
  BY RefreshedCopy
<1>4. new \in SettledStatuses
  <2> HIDE DEF st
  <2> QED BY <1>2, <1>3, IInvTypeOK, CurrentReplaced
<1> HIDE DEF new
<1>5. CopiesOK' /\ PassOK' /\ HistOK'
  BY <1>1, <1>2, <1>4, StatusUpdated DEF IInv, HistOK
<1> QED
  BY <1>1, <1>5 DEF IInv, SetsOK, PodsOK, CountsOK, HistOK

\* updateStatus without a requester.
LEMMA updateStatusNoRequesterIInv ==
    ASSUME IInv, NEW at, NEW next \in Steps \ {"replStatus"},
           updateStatusNoRequester(at, next)
    PROVE  IInv'
<1> DEFINE st == Refreshed(mem.status, mem.spec)
<1>1. /\ cr' = cr /\ prev' = prev /\ sets' = sets /\ clock' = clock
      /\ pods' = pods /\ up' = up /\ gate' = gate /\ base' = base
      /\ req' = req /\ edits' = edits /\ faults' = faults
      /\ proven' = proven /\ served' = served /\ pc' = next
      /\ mem' = [mem EXCEPT !.status = st]
  BY DEF updateStatusNoRequester, crVars, setVars, podVars, histVars
<1>2. mem' \in SettledResources
  <2>1. st \in SettledStatuses
    BY RefreshedCopy
  <2> HIDE DEF st
  <2> QED BY <1>1, <2>1, StatusReplaced DEF IInv, CopiesOK
<1> HIDE DEF st
<1> QED
  BY <1>1, <1>2 DEF IInv, CopiesOK, SetsOK, PodsOK, PassOK, CountsOK, HistOK

\* updateStatus with the list of nodes.
LEMMA updateStatusNodesIInv ==
    ASSUME IInv, NEW at, NEW next \in Steps \ {"replStatus"},
           updateStatusNodes(at, next)
    PROVE  IInv'
<1> DEFINE st == Refreshed(mem.status, mem.spec)
           step(nodes) == LET s == [st EXCEPT !.nodes = nodes]
                          IN  [s EXCEPT !.conds =
                                 NextStatus(@, Observe(s, mem.spec))]
<1>1. /\ sets' = sets /\ clock' = clock /\ pods' = pods /\ up' = up
      /\ gate' = gate /\ edits' = edits
  BY DEF updateStatusNodes, setVars, podVars
<1>2. \/ /\ StatusUpdate(step(up), next, FullNow(st, mem.spec))
         /\ Record(FullNow(st, mem.spec)) /\ faults' = faults
      \/ /\ StatusUpdate(step({}), next, FullNow(st, mem.spec))
         /\ Fault("emqxAPI") /\ served' = "excused"
      \/ /\ EndPass
         /\ cr' = cr /\ prev' = prev /\ faults' = faults
         /\ proven' = proven /\ served' = served
  BY DEF updateStatusNodes, crVars, histVars
<1>3. st \in SettledStatuses
  BY RefreshedCopy
<1> HIDE DEF st
<1>4. step(up) \in SettledStatuses /\ step({}) \in SettledStatuses
  <2>1. up \in SUBSET Pod /\ {} \in SUBSET Pod
    BY DEF IInv, PodsOK
  <2> QED BY <1>3, <2>1, MachineStep
<1> HIDE DEF step
<1>5. CopiesOK' /\ PassOK' /\ proven' \in SUBSET (Kinds \X Rev)
  <2>0. FullNow(st, mem.spec) \in SUBSET (Kinds \X Rev)
    BY DEF FullNow, Exists
  <2>1. CASE StatusUpdate(step(up), next, FullNow(st, mem.spec))
    BY <1>4, <2>0, <2>1, StatusUpdated DEF IInv, HistOK
  <2>2. CASE StatusUpdate(step({}), next, FullNow(st, mem.spec))
    BY <1>4, <2>0, <2>2, StatusUpdated DEF IInv, HistOK
  <2>3. CASE EndPass /\ cr' = cr /\ prev' = prev /\ proven' = proven
    BY <2>3, EndedPass DEF IInv, CopiesOK, HistOK
  <2> QED
    BY <1>2, <2>1, <2>2, <2>3
<1>6. HistOK'
  <2>1. served' \in Services
    BY <1>2 DEF IInv, HistOK, Record, Services
  <2> QED
    BY <1>5, <2>1 DEF HistOK
<1>7. CountsOK'
  BY <1>1, <1>2, FaultCounted DEF IInv, CountsOK
<1> QED
  BY <1>1, <1>5, <1>6, <1>7 DEF IInv, SetsOK, PodsOK

\* The three ways updateStatus ends.
LEMMA updateStatusIInv ==
    ASSUME IInv, NEW at, NEW next \in Steps \ {"replStatus"},
           updateStatus(at, next)
    PROVE  IInv'
BY updateStatusCurrentIInv, updateStatusNoRequesterIInv, updateStatusNodesIInv
   DEF updateStatus

\* Neither addCore nor addRepl has anything to do.
LEMMA addNothingIInv ==
    ASSUME IInv, NEW k \in Kinds, addNothing(k)
    PROVE  IInv'
<1>1. /\ cr' = cr /\ prev' = prev /\ sets' = sets /\ clock' = clock
      /\ pods' = pods /\ up' = up /\ gate' = gate /\ mem' = mem
      /\ base' = base /\ req' = req /\ edits' = edits /\ faults' = faults
      /\ proven' = proven /\ served' = served /\ pc' = AfterAdd(k)
  BY DEF addNothing, crVars, setVars, podVars, memVars, histVars
<1>2. PassOK'
  BY <1>1 DEF IInv, PassOK, AfterAdd, Steps
<1> QED
  BY <1>1, <1>2 DEF IInv, CopiesOK, SetsOK, PodsOK, CountsOK, HistOK

\* A step that ends before updateEMQXStatus with the node sets in order.
LEMMA SetWritten ==
    ASSUME IInv, NEW k \in Kinds, MayAdd(k), pc' = StatusStep(k), SetsOK',
           UNCHANGED <<crVars, podVars, memVars, edits, faults, histVars>>
    PROVE  IInv'
<1>1. /\ cr' = cr /\ prev' = prev
      /\ pods' = pods /\ up' = up /\ gate' = gate /\ mem' = mem
      /\ base' = base /\ req' = req /\ edits' = edits /\ faults' = faults
      /\ proven' = proven /\ served' = served
  BY DEF crVars, podVars, memVars, histVars
<1>2. PassOK'
  BY <1>1 DEF IInv, PassOK, StatusStep, Steps, MayAdd, Kinds
<1> QED
  BY <1>1, <1>2 DEF IInv, CopiesOK, PodsOK, CountsOK, HistOK

\* A new node set.
LEMMA addCreateIInv ==
    ASSUME IInv, NEW k \in Kinds, addCreate(k)
    PROVE  IInv'
<1> DEFINE new == [born |-> clock + 1, want |-> mem.spec.n[k],
                   tpl |-> mem.spec.tpl[k]]
<1>1. PreHash(k) \in Rev /\ mem.spec.tpl[k] \in Templates
  BY PreHashType, TemplateThere DEF addCreate, IInv
<1>2. new \in SetRecords
  BY <1>1 DEF SetRecords, IInv, SetsOK, CopiesOK, SettledResources, CoreSpecs,
              Specs
<1> HIDE DEF new
<1>3. /\ sets' = [sets EXCEPT ![k][PreHash(k)] = new] /\ clock' = clock + 1
  BY DEF addCreate, new
<1>4. SetsOK'
  BY <1>1, <1>2, <1>3 DEF IInv, SetsOK
<1> QED
  BY <1>4, SetWritten DEF addCreate

\* A rollback to the current set.
LEMMA addRevertIInv ==
    ASSUME IInv, NEW k \in Kinds, addRevert(k)
    PROVE  IInv'
<1>1. SetsOK'
  BY DEF IInv, SetsOK, addRevert, setVars
<1> QED
  BY <1>1, SetWritten DEF addRevert

\* A changed number of replicas.
LEMMA addUpdateIInv ==
    ASSUME IInv, NEW k \in Kinds, addUpdate(k)
    PROVE  IInv'
<1> DEFINE u == mem.status.upd[k]
<1>1. u \in Rev
  BY DEF addUpdate, Differs, Exists
<1>2. mem.spec.n[k] \in 0..MaxReplicas
  BY DEF IInv, CopiesOK, SettledResources, CoreSpecs, Specs
<1> HIDE DEF u
<1>3. sets' = [sets EXCEPT ![k][u].want = mem.spec.n[k]] /\ clock' = clock
  BY DEF addUpdate, u
<1>4. SetsOK'
  BY <1>1, <1>2, <1>3 DEF IInv, SetsOK, SetRecords
<1> QED
  BY <1>4, SetWritten DEF addUpdate

\* A collision of revisions.
LEMMA addCollideIInv ==
    ASSUME IInv, NEW k \in Kinds, addCollide(k)
    PROVE  IInv'
<1> DEFINE st == [mem.status EXCEPT !.coll[k] = @ + 1]
<1>1. /\ sets' = sets /\ clock' = clock /\ pods' = pods /\ up' = up
      /\ gate' = gate /\ edits' = edits /\ faults' = faults
      /\ proven' = proven /\ served' = served /\ EndPass
  BY DEF addCollide, setVars, podVars, histVars
<1>2. st \in SettledStatuses
  <2>1. mem.status \in SettledStatuses /\ mem.status \in Statuses
    BY DEF IInv, CopiesOK, SettledResources, SettledStatuses
  <2>2. mem.status.coll[k] + 1 \in 0..MaxCollision
    BY <2>1, ConstantsAssumption DEF addCollide, Statuses
  <2>3. st \in Statuses
    BY <2>1, <2>2 DEF Statuses
  <2>4. st.conds = mem.status.conds /\ st.upd = mem.status.upd
        /\ st.cur = mem.status.cur
    BY <2>1 DEF Statuses
  <2> HIDE DEF st
  <2> QED
    BY <2>1, <2>3, <2>4 DEF SettledStatuses
<1>3. \/ Store([cr EXCEPT !.status = st])
      \/ cr' = cr /\ prev' = prev
  BY DEF addCollide, crVars
<1> HIDE DEF st
<1>4. cr' \in SettledResources /\ prev' \in SettledResources
  <2>1. [cr EXCEPT !.status = st] \in SettledResources
    BY <1>2, StatusReplaced DEF IInv, CopiesOK
  <2> QED
    BY <1>3, <2>1, Stored DEF IInv, CopiesOK
<1> QED
  BY <1>1, <1>4, EndedPass DEF IInv, CopiesOK, SetsOK, PodsOK, CountsOK, HistOK

\* updateEMQXStatus, its write stored or lost.
LEMMA updateEMQXStatusIInv ==
    ASSUME IInv, NEW k \in Kinds, updateEMQXStatus(k)
    PROVE  IInv'
<1> DEFINE h == PreHash(k)
           new(v) == [v EXCEPT !.status = Progressing(k, @, h)]
<1>1. /\ sets' = sets /\ clock' = clock /\ pods' = pods /\ up' = up
      /\ gate' = gate /\ req' = req /\ edits' = edits /\ served' = served
      /\ pc' = AfterAdd(k) /\ proven' \subseteq proven
  BY DEF updateEMQXStatus, setVars, podVars
<1>2. \/ /\ Store(new(cr)) /\ mem' = new(cr) /\ base' = new(cr)
         /\ faults' = faults
      \/ /\ Fault("statusWrite") /\ cr' = cr /\ prev' = prev
         /\ \E got \in {cr, prev} : mem' = new(got) /\ base' = got
  BY DEF updateEMQXStatus, crVars, Readable
<1>3. h \in Rev
  BY PreHashType, TemplateThere DEF updateEMQXStatus, IInv
<1> HIDE DEF h
<1>4. ASSUME NEW v \in SettledResources PROVE new(v) \in SettledResources
  <2>1. v.status \in SettledStatuses
    BY DEF SettledResources
  <2>2. Progressing(k, v.status, h) \in SettledStatuses
    BY <1>3, <2>1, ProgressingSettled
  <2> QED
    BY <2>2, StatusReplaced
<1> HIDE DEF new
<1>5. CopiesOK'
  BY <1>2, <1>4, Stored DEF IInv, CopiesOK
<1>6. CountsOK'
  BY <1>1, <1>2, FaultCounted DEF IInv, CountsOK
<1>7. PassOK'
  BY <1>1 DEF IInv, PassOK, AfterAdd, Steps
<1> QED
  BY <1>1, <1>5, <1>6, <1>7 DEF IInv, SetsOK, PodsOK, HistOK

\* syncPods takes a replica away.
LEMMA ScaleDownIInv ==
    ASSUME IInv, NEW k \in Kinds, ScaleDown(k), Exists(k, mem.status.cur[k])
    PROVE  IInv'
<1> DEFINE r == mem.status.cur[k]
<1>1. /\ cr' = cr /\ prev' = prev /\ clock' = clock
      /\ pods' = pods /\ up' = up /\ gate' = gate /\ mem' = mem
      /\ base' = base /\ req' = req /\ edits' = edits /\ faults' = faults
      /\ proven' = proven /\ served' = served /\ pc' = "syncSets"
  BY DEF ScaleDown, crVars, podVars, memVars, histVars
<1>2. /\ sets' = [sets EXCEPT ![k][r].want = @ - 1]
      /\ sets[k][r].want > 0 /\ r \in Rev
  BY DEF ScaleDown, Exists
<1> HIDE DEF r
<1>3. SetsOK'
  <2>1. sets[k][r].want - 1 \in 0..MaxReplicas
    BY <1>2, ConstantsAssumption DEF IInv, SetsOK, SetRecords
  <2> QED
    BY <1>1, <1>2, <2>1 DEF IInv, SetsOK, SetRecords
<1> QED
  BY <1>1, <1>3 DEF IInv, CopiesOK, PodsOK, PassOK, CountsOK, HistOK, Steps

\* syncPods, draining, refused or waiting.
LEMMA syncPodsIInv ==
    ASSUME IInv, syncPodsScale \/ syncPodsRefused \/ syncPodsWait
    PROVE  IInv'
<1>1. CASE syncPodsScale
  BY <1>1, ScaleDownIInv DEF syncPodsScale, DrainRs, DrainSts, Kinds
<1>2. CASE syncPodsWait
  BY <1>2 DEF syncPodsWait, crVars, setVars, podVars, memVars, histVars, IInv,
     CopiesOK, SetsOK, PodsOK, PassOK, CountsOK, HistOK, Steps
<1>3. CASE syncPodsRefused
  <2>1. /\ cr' = cr /\ prev' = prev /\ sets' = sets /\ clock' = clock
        /\ pods' = pods /\ up' = up /\ gate' = gate /\ edits' = edits
        /\ faults' = faults /\ proven' = proven /\ served' = served /\ EndPass
    BY <1>3 DEF syncPodsRefused, crVars, setVars, podVars, histVars
  <2> QED
    BY <2>1, EndedPass DEF IInv, CopiesOK, SetsOK, PodsOK, CountsOK, HistOK
<1> QED
  BY <1>1, <1>2, <1>3

\* syncSets deletes node sets and ends the pass.
LEMMA syncSetsIInv == IInv /\ syncSets => IInv'
<1> SUFFICES ASSUME IInv, syncSets PROVE IInv'
  OBVIOUS
<1>1. /\ cr' = cr /\ prev' = prev /\ clock' = clock /\ pods' = pods
      /\ up' = up /\ gate' = gate /\ edits' = edits /\ faults' = faults
      /\ proven' = proven /\ served' = served /\ EndPass
  BY DEF syncSets, crVars, podVars, histVars
<1>2. SetsOK'
  <2>1. \A k \in Kinds, r \in Rev :
           [sets[k][r] EXCEPT !.born = 0] \in SetRecords
    BY DEF IInv, SetsOK, SetRecords
  <2> QED
    BY <1>1, <2>1 DEF IInv, SetsOK, syncSets
<1> QED
  BY <1>1, <1>2, EndedPass DEF IInv, CopiesOK, PodsOK, CountsOK, HistOK

\* A pass fails.
LEMMA PassFailsIInv == IInv /\ PassFails => IInv'
<1> SUFFICES ASSUME IInv, PassFails PROVE IInv'
  OBVIOUS
<1>1. /\ cr' = cr /\ prev' = prev /\ sets' = sets /\ clock' = clock
      /\ pods' = pods /\ up' = up /\ gate' = gate /\ edits' = edits
      /\ proven' = proven /\ served' = served /\ EndPass /\ Fault("pass")
  BY DEF PassFails, crVars, setVars, podVars, histVars
<1> QED
  BY <1>1, EndedPass, FaultCounted
     DEF IInv, CopiesOK, SetsOK, PodsOK, HistOK

\* The user edits the spec.
LEMMA EditIInv == IInv /\ Edit => IInv'
<1> SUFFICES ASSUME IInv, Edit PROVE IInv'
  OBVIOUS
<1>1. /\ sets' = sets /\ clock' = clock /\ pods' = pods /\ up' = up
      /\ gate' = gate /\ mem' = mem /\ base' = base /\ req' = req
      /\ pc' = pc /\ faults' = faults /\ proven' = proven
      /\ served' = served /\ edits' = edits + 1 /\ edits < MaxEdits
  BY DEF Edit, setVars, podVars, memVars, histVars
<1>2. PICK s \in EditSpecs[edits + 1] : Store([cr EXCEPT !.spec = s])
  BY DEF Edit
<1>3. s \in CoreSpecs
  <2>1. edits + 1 \in 1..MaxEdits
    BY <1>1, ConstantsAssumption DEF IInv, CountsOK
  <2>2. s \in UNION {EditSpecs[i] : i \in 1..MaxEdits}
    BY <2>1
  <2> QED
    BY <2>2, ConstantsAssumption DEF CoreSpecs
<1>4. [cr EXCEPT !.spec = s] \in SettledResources
  BY <1>3 DEF IInv, CopiesOK, SettledResources
<1>5. CopiesOK'
  BY <1>1, <1>2, <1>4, Stored DEF IInv, CopiesOK
<1>6. CountsOK'
  BY <1>1, ConstantsAssumption DEF IInv, CountsOK
<1> QED
  BY <1>1, <1>5, <1>6 DEF IInv, SetsOK, PodsOK, PassOK, HistOK

\* Pods come, go, start and fail.
LEMMA PodsIInv ==
    ASSUME IInv, CreatePod \/ DeletePod \/ PodUp \/ PodDown
    PROVE  IInv'
<1>1. /\ cr' = cr /\ prev' = prev /\ sets' = sets /\ clock' = clock
      /\ mem' = mem /\ base' = base /\ req' = req /\ pc' = pc
      /\ edits' = edits /\ proven' = proven
  BY DEF CreatePod, DeletePod, PodUp, PodDown, crVars, setVars, memVars,
         histVars
<1>2. CountsOK'
  BY <1>1, FaultCounted
     DEF IInv, CountsOK, CreatePod, DeletePod, PodUp, PodDown
<1>3. PodsOK'
  BY DEF IInv, PodsOK, CreatePod, DeletePod, PodUp, PodDown
<1>4. HistOK'
  BY <1>1 DEF IInv, HistOK, Services, CreatePod, DeletePod, PodUp, PodDown,
             histVars
<1> QED
  BY <1>1, <1>2, <1>3, <1>4 DEF IInv, CopiesOK, SetsOK, PassOK

\* Every step preserves the inductive invariant.
LEMMA NextIInv == IInv /\ [Next]_vars => IInv'
<1> SUFFICES ASSUME IInv, [Next]_vars PROVE IInv'
  OBVIOUS
<1>0. /\ {"status1", "addCore", "status2", "syncPods"}
            \subseteq Steps \ {"replStatus"}
  BY DEF Steps
<1>1. CASE SubReconcilers
  <2>1. CASE Start
    BY <2>1, StartIInv
  <2>2. CASE \/ updatePodConditions("conds1", "status1")
             \/ updatePodConditions("conds2", "status2")
    BY <1>0, <2>2, updatePodConditionsIInv
  <2>3. CASE updateStatus("status1", "addCore")
             \/ updateStatus("status2", "syncPods")
    BY <1>0, <2>3, updateStatusIInv
  <2>4. CASE addCore \/ addRepl
    <3>1. PICK k \in Kinds : addNodes(k)
      BY <2>4 DEF addCore, addRepl, Kinds
    <3> QED
      BY <3>1, addNothingIInv, addCreateIInv, addRevertIInv, addCollideIInv,
         addUpdateIInv, updateEMQXStatusIInv DEF addNodes
  <2>5. CASE syncPodsScale \/ syncPodsRefused \/ syncPodsWait
    BY <2>5, syncPodsIInv
  <2>6. CASE syncSets
    BY <2>6, syncSetsIInv
  <2> QED
    BY <1>1, <2>1, <2>2, <2>3, <2>4, <2>5, <2>6 DEF SubReconcilers
<1>2. CASE PassFails
  BY <1>2, PassFailsIInv
<1>3. CASE Environment
  BY <1>3, EditIInv, PodsIInv DEF Environment
<1>4. CASE UNCHANGED vars
  BY <1>4 DEF vars, IInv, CopiesOK, SetsOK, PodsOK, PassOK, CountsOK, HistOK
<1> QED
  BY <1>1, <1>2, <1>3, <1>4 DEF Next

-----------------------------------------------------------------------------
(* The theorems.                                                           *)

\* The inductive invariant holds in every reachable state.
LEMMA Invariance == Spec => []IInv
BY InitIInv, NextIInv, PTL DEF Spec

\* Every variable keeps its type: no revision outside the ones a template and
\* a collision count give is ever current or asked for, no set is asked for a
\* negative number of pods, whatever the bounds and the sizes are.
THEOREM TypeCorrect == Spec => []TypeOK
BY Invariance, IInvTypeOK, PTL

\* A resource that reports Ready has no core update left to do, in the store,
\* in a lagging cache and in the copy a pass works on.
THEOREM ReadyMeansSettled == Spec => []ReadyIsSettled
BY Invariance, IInvReady, PTL

-----------------------------------------------------------------------------
(* The order of an update: what the conditions stand for.                  *)

\* The specs the resource can have.
AllSpecs == {InitSpec} \cup UNION {EditSpecs[i] : i \in 1..MaxEdits}

WithRepl == IsExistReplicant(InitSpec)

\* Either the resource never has replicant nodes, or an edit neither asks for
\* the first nor takes the last of them, and reads are up to date.
Steady ==
    \/ \A s \in AllSpecs : s.tpl["repl"] = NoTpl
    \/ ~StaleReads /\ \A s \in AllSpecs : IsExistReplicant(s) <=> WithRepl

\* What conditions c stand for, where a and b say that the update sets of the
\* core and the replicant nodes have been ready.
Stands(c, a, b) ==
    /\ "CoreNodesReady" \in c.held => a
    /\ "ReplicantNodesReady" \in c.held => b
    /\ c.last \notin {NoCond, "Initialized", "CoreNodesProgressing"}
         => "CoreNodesReady" \in c.held
    /\ c.last = "ReplicantNodesReady" => "ReplicantNodesReady" \in c.held
    /\ "Available" \in c.held => /\ "CoreNodesReady" \in c.held
                                 /\ WithRepl => "ReplicantNodesReady" \in c.held

\* The same of a status, where P are the sets that have been ready.
Earned(st, P) ==
    Stands(st.conds, <<"core", st.upd["core"]>> \in P,
                     <<"repl", st.upd["repl"]>> \in P)

\* A status that names another update set than the version it came from does
\* not report it ready.
NewHeld(st, was) ==
    /\ st.upd["core"] # was.upd["core"] => "CoreNodesReady" \notin st.conds.held
    /\ st.upd["repl"] # was.upd["repl"]
         => "ReplicantNodesReady" \notin st.conds.held

\* The inductive invariant, beside IInv: every version and copy of the
\* resource has earned its conditions; a status without ready core nodes is
\* not overwritten by a pass that adds replicant nodes.
EarnedInv ==
    /\ \A v \in {cr, prev, mem, base} :
          v.spec \in AllSpecs /\ Earned(v.status, proven)
    /\ NewHeld(mem.status, base.status)
    /\ ~StaleReads /\ pc # "idle" /\ "CoreNodesReady" \in mem.status.conds.held
         => "CoreNodesReady" \in cr.status.conds.held
    /\ pc = "replStatus" => "CoreNodesReady" \in mem.status.conds.held

\* A condition that is set.
LEMMA SetConditionIs ==
    ASSUME NEW c, NEW t
    PROVE  SetCondition(c, t).held = c.held \cup {t} /\ SetCondition(c, t).last = t
BY DEF SetCondition

\* Conditions that are removed.
LEMMA RemoveConditionsIs ==
    ASSUME NEW c \in Conditions, NEW T
    PROVE  /\ RemoveConditions(c, T).held = c.held \ T
           /\ RemoveConditions(c, T).last = c.last
BY DEF RemoveConditions, Conditions

\* The state Initialized stands for nothing.
LEMMA InitializedStands ==
    ASSUME NEW c \in Conditions, NEW a, NEW b
    PROVE  Stands(initialized(c), a, b)
<1> DEFINE T == {"Ready", "Available", "ReplicantNodesReady",
                 "ReplicantNodesProgressing", "CoreNodesReady",
                 "CoreNodesProgressing"}
           d == RemoveConditions(c, T)
           e == SetCondition(d, "CoreNodesProgressing")
<1>1. d.held = c.held \ T
  BY RemoveConditionsIs
<1>2. e.held = d.held \cup {"CoreNodesProgressing"} /\ e.last = "CoreNodesProgressing"
  <2> HIDE DEF d
  <2> QED
    BY SetConditionIs
<1>3. initialized(c) = e
  BY DEF initialized
<1>4. /\ "CoreNodesReady" \notin e.held /\ "ReplicantNodesReady" \notin e.held
      /\ "Available" \notin e.held
  BY <1>1, <1>2
<1> HIDE DEF e
<1> QED
  BY <1>2, <1>3, <1>4 DEF Stands

\* A step of the machine keeps what conditions stand for, if a set it finds
\* ready has been ready.
LEMMA NextStatusStands ==
    ASSUME NEW c \in Conditions, NEW o, NEW a \in BOOLEAN, NEW b \in BOOLEAN,
           Stands(c, a, b), o.existRepl <=> WithRepl,
           o.coreReady => a, o.replReady => b
    PROVE  Stands(NextStatus(c, o), a, b)
<1> DEFINE d == IF GetLastTrueCondition(c) = NoCond
                THEN SetCondition(c, "Initialized") ELSE c
<1>1. d \in Conditions /\ Stands(d, a, b)
  <2>1. CASE GetLastTrueCondition(c) = NoCond
    <3>1. "Initialized" \in CondTypes
      BY DEF CondTypes
    <3>2. d = SetCondition(c, "Initialized")
      BY <2>1
    <3>3. d.held = c.held \cup {"Initialized"} /\ d.last = "Initialized"
      BY <3>2, SetConditionIs
    <3> HIDE DEF d
    <3> QED
      BY <3>1, <3>2, <3>3, SetConditionType DEF Stands
  <2>2. CASE GetLastTrueCondition(c) # NoCond
    BY <2>2
  <2> QED
    BY <2>1, <2>2
<1> HIDE DEF d
<1> DEFINE Good(e) == Stands(e, a, b)
<1>2. Good(d) /\ Good(initialized(d))
  BY <1>1, InitializedStands
<1>3. ASSUME d.last = "CoreNodesProgressing" PROVE Good(coreNodesProgressing(d, o))
  BY <1>1, <1>3, SetConditionIs DEF coreNodesProgressing, Stands
<1>4. ASSUME d.last = "CoreNodesReady" PROVE Good(coreNodesReady(d, o))
  <2>1. "CoreNodesReady" \in d.held
    BY <1>1, <1>4 DEF Stands, NoCond
  <2> QED
    BY <1>1, <2>1, SetConditionIs DEF coreNodesReady, Stands
<1>5. ASSUME d.last = "ReplicantNodesProgressing"
      PROVE  Good(replicantNodesProgressing(d, o))
  <2>1. "CoreNodesReady" \in d.held
    BY <1>1, <1>5 DEF Stands, NoCond
  <2>2. o.replReady => Good(SetCondition(d, "ReplicantNodesReady"))
    BY <1>1, <2>1, SetConditionIs DEF Stands
  <2> HIDE DEF Good
  <2> QED
    BY <1>2, <2>2 DEF replicantNodesProgressing
<1>6. ASSUME d.last = "ReplicantNodesReady" PROVE Good(replicantNodesReady(d, o))
  <2>1. "CoreNodesReady" \in d.held /\ "ReplicantNodesReady" \in d.held
    BY <1>1, <1>6 DEF Stands, NoCond
  <2>2. Good(SetCondition(d, "Available"))
    BY <1>1, <2>1, SetConditionIs DEF Stands
  <2> HIDE DEF Good
  <2> QED
    BY <1>2, <2>2 DEF replicantNodesReady
<1>7. ASSUME d.last = "Available" PROVE Good(available(d, o))
  <2>1. "CoreNodesReady" \in d.held
    BY <1>1, <1>7 DEF Stands, NoCond
  <2> QED
    BY <1>1, <2>1, SetConditionIs DEF available, Stands
<1>8. ASSUME d.last = "Ready" PROVE Good(ready(d, o))
  <2> DEFINE e == RemoveConditions(d, {"Ready", "Available",
                                       "ReplicantNodesReady"})
             f == SetCondition(e, "ReplicantNodesProgressing")
  <2>1. "CoreNodesReady" \in d.held
    BY <1>1, <1>8 DEF Stands, NoCond
  <2>2. e.held = d.held \ {"Ready", "Available", "ReplicantNodesReady"}
    BY <1>1, RemoveConditionsIs
  <2>3. f.held = e.held \cup {"ReplicantNodesProgressing"}
        /\ f.last = "ReplicantNodesProgressing"
    <3> HIDE DEF e
    <3> QED
      BY SetConditionIs
  <2>4. Good(f)
    <3>1. /\ "CoreNodesReady" \in f.held /\ "Available" \notin f.held
          /\ "ReplicantNodesReady" \notin f.held
      BY <2>1, <2>2, <2>3
    <3> HIDE DEF f
    <3> QED
      BY <1>1, <2>1, <2>3, <3>1 DEF Stands
  <2> HIDE DEF Good
  <2> QED
    BY <1>2, <2>4 DEF ready
<1>9. Good(NextStatus(c, o))
  <2> HIDE DEF Good
  <2> QED
    BY <1>2, <1>3, <1>4, <1>5, <1>6, <1>7, <1>8 DEF NextStatus, d
<1> QED
  BY <1>9


\* The more sets have been ready the better.
LEMMA EarnedGrows ==
    ASSUME NEW st, NEW P, NEW Q, Earned(st, P),
           \A k \in Kinds : <<k, st.upd[k]>> \in P => <<k, st.upd[k]>> \in Q
    PROVE  Earned(st, Q)
BY DEF Earned, Stands, Kinds

\* When an update of one kind of node begins, its set has still to be ready.
LEMMA ProgressingEarned ==
    ASSUME NEW k \in Kinds, NEW st \in Statuses, NEW h, NEW P, NEW Q,
           Earned(st, P), k = "repl" => "CoreNodesReady" \in st.conds.held,
           \A j \in Kinds \ {k} : <<j, st.upd[j]>> \in P => <<j, st.upd[j]>> \in Q
    PROVE  LET new == Progressing(k, st, h)
           IN  /\ Earned(new, Q) /\ NewHeld(new, st)
               /\ "CoreNodesReady" \in new.conds.held
                    => "CoreNodesReady" \in st.conds.held
<1> DEFINE t == IF k = "core" THEN "CoreNodesProgressing"
                              ELSE "ReplicantNodesProgressing"
           T == {"Ready", "Available",
                 IF k = "core" THEN "CoreNodesReady"
                               ELSE "ReplicantNodesReady"}
           s == SetCondition(st.conds, t)
           c == RemoveConditions(s, T)
           u == [st.upd EXCEPT ![k] = h]
           new == [st EXCEPT !.conds = c, !.upd = u]
<1>1. st.conds \in Conditions /\ st.upd \in [Kinds -> Rev \cup {NoRev}]
  BY DEF Statuses
<1>2. t \in CondTypes
  BY DEF CondTypes
<1>3. /\ s.held = st.conds.held \cup {t} /\ s.last = t /\ s \in Conditions
  <2> HIDE DEF t
  <2> QED
    BY <1>1, <1>2, SetConditionIs, SetConditionType
<1>4. c.held = s.held \ T /\ c.last = s.last
  <2> HIDE DEF s, T
  <2> QED
    BY <1>3, RemoveConditionsIs
<1>5. Progressing(k, st, h) = new
  BY DEF Progressing, Statuses
<1>6. /\ c.last = t /\ "Available" \notin c.held
      /\ k = "core" => "CoreNodesReady" \notin c.held
      /\ k = "repl" => "ReplicantNodesReady" \notin c.held
      /\ "CoreNodesReady" \in c.held => "CoreNodesReady" \in st.conds.held
      /\ "ReplicantNodesReady" \in c.held => "ReplicantNodesReady" \in st.conds.held
      /\ k = "repl" => "CoreNodesReady" \in c.held
  <2> HIDE DEF c, s
  <2> QED
    BY <1>3, <1>4 DEF Kinds
<1>7. new.conds = c /\ new.upd = u /\ u[k] = h
      /\ \A j \in Kinds \ {k} : u[j] = st.upd[j]
  BY <1>1 DEF Statuses
<1>8. Stands(c, <<"core", u["core"]>> \in Q, <<"repl", u["repl"]>> \in Q)
  <2> HIDE DEF c, u, T
  <2>1. k = "core" => c.last = "CoreNodesProgressing"
    BY <1>6
  <2>2. "ReplicantNodesReady" \in c.held => <<"repl", u["repl"]>> \in Q
    BY <1>6, <1>7 DEF Earned, Stands, Kinds
  <2>3. "CoreNodesReady" \in c.held => <<"core", u["core"]>> \in Q
    BY <1>6, <1>7 DEF Earned, Stands, Kinds
  <2>4. c.last # "ReplicantNodesReady"
    BY <1>6
  <2> QED
    BY <1>6, <2>1, <2>2, <2>3, <2>4 DEF Stands, Kinds
<1>9. NewHeld(new, st)
  <2> HIDE DEF c, u
  <2> QED
    BY <1>6, <1>7 DEF NewHeld, Kinds
<1> HIDE DEF new, c, u
<1>10. Earned(new, Q)
  <2>1. Stands(new.conds, <<"core", new.upd["core"]>> \in Q,
                          <<"repl", new.upd["repl"]>> \in Q)
    BY <1>7, <1>8
  <2> QED
    BY <2>1 DEF Earned
<1>11. "CoreNodesReady" \in new.conds.held
         => "CoreNodesReady" \in st.conds.held
  BY <1>6, <1>7
<1> QED
  BY <1>5, <1>9, <1>10, <1>11, Zenon

\* The status of a resource just created has earned what it reports.
LEMMA InitEarned ==
    ASSUME NEW P
    PROVE  Earned(InitStatus, P) /\ InitCR.status = InitStatus
           /\ InitCR.spec \in AllSpecs
<1>1. InitCR.status = InitStatus /\ InitCR.spec = InitSpec
  BY DEF InitCR
<1>2. InitStatus.conds = NoConditions
  BY DEF InitStatus
<1>3. NoConditions.held = {} /\ NoConditions.last = NoCond
  BY DEF NoConditions
<1>4. \A a, b : Stands(NoConditions, a, b)
  BY <1>3 DEF Stands, NoCond
<1>5. Earned(InitStatus, P)
  BY <1>2, <1>4, Zenon DEF Earned
<1> QED
  BY <1>1, <1>5 DEF AllSpecs

\* Of the sets a stored version names none is renewed, and storing a version
\* of the same update sets renews none.
LEMMA NotRenewed ==
    ASSUME NEW st, NEW k \in Kinds, <<k, cr.status.upd[k]>> \in proven
    PROVE  /\ <<k, cr.status.upd[k]>> \notin Renewed(st)
           /\ st.upd[k] = cr.status.upd[k] => <<k, st.upd[k]>> \notin Renewed(st)
BY DEF Renewed

\* What is known of the version before, once a status is stored.
LEMMA PrevEarned ==
    ASSUME CopiesOK, EarnedInv, NEW st \in Statuses,
           Store([cr EXCEPT !.status = st]),
           proven \ Renewed(st) \subseteq proven'
    PROVE  prev'.spec \in AllSpecs /\ Earned(prev'.status, proven')
<1>1. \A k \in Kinds : <<k, cr.status.upd[k]>> \in proven
                          => <<k, cr.status.upd[k]>> \in proven'
  BY NotRenewed
<1>2. cr.spec \in AllSpecs /\ Earned(cr.status, proven')
  BY <1>1, EarnedGrows DEF EarnedInv
<1>3. CASE [cr EXCEPT !.status = st] = cr
  <2>1. st = cr.status
    BY <1>3 DEF CopiesOK, SettledResources
  <2>2. Renewed(st) = {}
    BY <2>1 DEF Renewed
  <2>3. prev' = prev /\ proven \subseteq proven'
    BY <1>3, <2>2 DEF Store
  <2> QED
    BY <2>3, EarnedGrows DEF EarnedInv
<1>4. CASE [cr EXCEPT !.status = st] # cr
  BY <1>2, <1>4 DEF Store
<1> QED
  BY <1>3, <1>4

\* The end of a pass.
LEMMA EndedEarned ==
    ASSUME EarnedInv, EndPass, cr' = cr, prev' = prev, proven' = proven
    PROVE  EarnedInv'
<1>1. mem' = InitCR /\ base' = InitCR /\ pc' = "idle"
  BY DEF EndPass
<1>2. \A v \in {cr', prev', mem', base'} :
         v.spec \in AllSpecs /\ Earned(v.status, proven')
  BY <1>1, InitEarned DEF EarnedInv
<1> QED
  BY <1>1, <1>2 DEF EarnedInv, NewHeld

\* A status write that succeeds or is refused.
LEMMA StatusUpdatedEarned ==
    ASSUME CopiesOK, EarnedInv, NEW st \in Statuses, NEW full,
           NEW next, next # "replStatus", StatusUpdate(st, next, full),
           base = cr => Earned(st, (proven \ Renewed(st)) \cup full)
    PROVE  EarnedInv'
<1>1. CASE base # cr
  BY <1>1, EndedEarned DEF StatusUpdate, crVars
<1>2. CASE base = cr
  <2> DEFINE new == [cr EXCEPT !.status = st]
  <2>1. /\ Store(new) /\ mem' = new /\ base' = new /\ pc' = next /\ cr' = new
        /\ proven' = (proven \ Renewed(st)) \cup full
    BY <1>2 DEF StatusUpdate, Store
  <2>2. prev'.spec \in AllSpecs /\ Earned(prev'.status, proven')
    BY <2>1, PrevEarned
  <2>3. new.status = st /\ new.spec = cr.spec
    BY DEF CopiesOK, SettledResources
  <2> HIDE DEF new
  <2>4. \A v \in {cr', prev', mem', base'} :
           v.spec \in AllSpecs /\ Earned(v.status, proven')
    BY <1>2, <2>1, <2>2, <2>3 DEF EarnedInv
  <2> QED
    BY <2>1, <2>4 DEF EarnedInv, NewHeld
<1> QED
  BY <1>1, <1>2

\* A step that leaves the copies of the resource as they are.
LEMMA SameCopies ==
    ASSUME EarnedInv, cr' = cr, prev' = prev, mem' = mem, base' = base,
           proven' = proven, pc # "idle" \/ pc' = pc,
           pc' = "replStatus" => "CoreNodesReady" \in mem.status.conds.held
    PROVE  EarnedInv'
BY DEF EarnedInv

\* The start of a pass.
LEMMA StartEarned == IInv /\ EarnedInv /\ Start => EarnedInv'
<1> SUFFICES ASSUME EarnedInv, Start PROVE EarnedInv'
  OBVIOUS
<1>1. PICK got \in Readable : mem' = got /\ base' = got
  BY DEF Start
<1>2. cr' = cr /\ prev' = prev /\ proven' = proven /\ pc' = "conds1"
  BY DEF Start, crVars, histVars
<1>3. got \in {cr, prev} /\ (~StaleReads => got = cr)
  BY DEF Readable
<1>4. \A v \in {cr', prev', mem', base'} :
         v.spec \in AllSpecs /\ Earned(v.status, proven')
  BY <1>1, <1>2, <1>3 DEF EarnedInv
<1>5. NewHeld(mem'.status, base'.status)
  BY <1>1 DEF NewHeld
<1> QED
  BY <1>1, <1>2, <1>3, <1>4, <1>5 DEF EarnedInv

\* Refreshing a status changes neither its conditions nor its update sets.
LEMMA RefreshedKeeps ==
    ASSUME NEW st \in Statuses, NEW sp
    PROVE  Refreshed(st, sp).conds = st.conds /\ Refreshed(st, sp).upd = st.upd
BY DEF Refreshed, Statuses

\* A status with the conditions and the update sets of the copy in memory has
\* earned them also when it is stored.
LEMMA CopyEarned ==
    ASSUME EarnedInv, base = cr, NEW st, st.conds = mem.status.conds,
           st.upd = mem.status.upd, NEW full
    PROVE  Earned(st, (proven \ Renewed(st)) \cup full)
<1>1. Earned(mem.status, proven) /\ NewHeld(mem.status, cr.status)
  BY DEF EarnedInv
<1> DEFINE Q == (proven \ Renewed(st)) \cup full
<1>2. \A k \in Kinds :
         <<k, st.upd[k]>> \in proven /\ st.upd[k] = cr.status.upd[k]
           => <<k, st.upd[k]>> \in Q
  BY NotRenewed
<1> HIDE DEF Q
<1>3. "CoreNodesReady" \in st.conds.held => <<"core", st.upd["core"]>> \in Q
  BY <1>1, <1>2 DEF Earned, Stands, NewHeld, Kinds
<1>4. "ReplicantNodesReady" \in st.conds.held
         => <<"repl", st.upd["repl"]>> \in Q
  BY <1>1, <1>2 DEF Earned, Stands, NewHeld, Kinds
<1>5. Earned(st, Q)
  BY <1>1, <1>3, <1>4 DEF Earned, Stands
<1> QED
  BY <1>5 DEF Q

\* updateStatus replaces a current revision.
LEMMA updateStatusCurrentEarned ==
    ASSUME IInv, EarnedInv, NEW at, NEW next, next # "replStatus",
           NEW k \in Kinds, updateStatusCurrent(at, next, k)
    PROVE  EarnedInv'
<1> DEFINE st == Refreshed(mem.status, mem.spec)
           new == [st EXCEPT !.cur[k] = NextCurrent(k, st)]
<1>1. NeedsCurrent(k, st) /\ StatusUpdate(new, next, {})
  BY DEF updateStatusCurrent
<1>2. mem.status \in Statuses
  BY DEF IInv, CopiesOK, SettledResources, SettledStatuses
<1>3. st \in SettledStatuses /\ st.conds = mem.status.conds
      /\ st.upd = mem.status.upd
  BY <1>2, RefreshedCopy, RefreshedKeeps
<1> HIDE DEF st
<1>4. new \in Statuses
  BY <1>1, <1>3, IInvTypeOK, CurrentReplaced DEF SettledStatuses
<1>5. new.conds = mem.status.conds /\ new.upd = mem.status.upd
  BY <1>3 DEF SettledStatuses, Statuses
<1> HIDE DEF new
<1>6. base = cr => Earned(new, (proven \ Renewed(new)) \cup {})
  BY <1>5, CopyEarned
<1> QED
  BY <1>1, <1>4, <1>6, StatusUpdatedEarned DEF IInv

\* updateStatus without a requester.
LEMMA updateStatusNoRequesterEarned ==
    ASSUME IInv, EarnedInv, NEW at \in Steps \ {"idle"}, NEW next,
           next # "replStatus", updateStatusNoRequester(at, next)
    PROVE  EarnedInv'
<1> DEFINE st == Refreshed(mem.status, mem.spec)
<1>1. /\ cr' = cr /\ prev' = prev /\ base' = base /\ proven' = proven
      /\ pc = at /\ pc' = next /\ mem' = [mem EXCEPT !.status = st]
  BY DEF updateStatusNoRequester, crVars, histVars
<1>2. mem \in SettledResources /\ mem.status \in Statuses
  BY DEF IInv, CopiesOK, SettledResources, SettledStatuses
<1>3. st.conds = mem.status.conds /\ st.upd = mem.status.upd
  BY <1>2, RefreshedKeeps
<1> HIDE DEF st
<1>4. mem'.status = st /\ mem'.spec = mem.spec
  BY <1>1, <1>2 DEF SettledResources
<1>5. Earned(mem'.status, proven') /\ NewHeld(mem'.status, base'.status)
  BY <1>1, <1>3, <1>4 DEF EarnedInv, Earned, NewHeld
<1>6. \A v \in {cr', prev', mem', base'} :
         v.spec \in AllSpecs /\ Earned(v.status, proven')
  BY <1>1, <1>4, <1>5 DEF EarnedInv
<1> QED
  BY <1>1, <1>3, <1>4, <1>5, <1>6 DEF EarnedInv

\* In a steady resource the copy in memory asks for replicant nodes if the
\* resource was created with them.
LEMMA CopyWithRepl ==
    ASSUME Steady, EarnedInv
    PROVE  IsExistReplicant(mem.spec) <=> WithRepl
<1>1. mem.spec \in AllSpecs /\ InitSpec \in AllSpecs
  BY DEF EarnedInv, AllSpecs
<1> QED
  BY <1>1 DEF Steady, WithRepl, IsExistReplicant

\* The set the machine finds ready is one of those with all their pods ready.
LEMMA ObservedFull ==
    ASSUME NEW st \in Statuses, NEW sp \in Specs, NEW s, s.upd = st.upd
    PROVE  /\ Observe(s, sp).coreReady
                => <<"core", st.upd["core"]>> \in FullNow(st, sp)
           /\ Observe(s, sp).replReady
                => <<"repl", st.upd["repl"]>> \in FullNow(st, sp)
           /\ Observe(s, sp).existRepl = IsExistReplicant(sp)
<1> DEFINE full(k) == /\ Exists(k, s.upd[k])
                      /\ Cardinality(ReadyPods(k, s.upd[k])) # 0
                      /\ Cardinality(ReadyPods(k, s.upd[k])) = sp.n[k]
<1>1. /\ Observe(s, sp).coreReady = full("core")
      /\ Observe(s, sp).replReady = full("repl")
      /\ Observe(s, sp).existRepl = IsExistReplicant(sp)
  BY DEF Observe
<1>2. ASSUME NEW k \in Kinds, full(k) PROVE <<k, st.upd[k]>> \in FullNow(st, sp)
  <2>1. sp.n[k] \in 0..MaxReplicas
    BY DEF Specs
  <2>2. sp.n[k] > 0 /\ Cardinality(ReadyPods(k, st.upd[k])) = sp.n[k]
    BY <1>2, <2>1, ConstantsAssumption
  <2>3. Exists(k, st.upd[k]) /\ st.upd[k] \in Rev
    BY <1>2 DEF Exists
  <2> QED
    BY <2>2, <2>3 DEF FullNow
<1> HIDE DEF full
<1> QED
  BY <1>1, <1>2 DEF Kinds

\* What the machine adds for a list of nodes has been earned.
LEMMA MachineEarned ==
    ASSUME Steady, IInv, EarnedInv, base = cr, NEW nodes \in SUBSET Pod
    PROVE  LET st == Refreshed(mem.status, mem.spec)
               s == [st EXCEPT !.nodes = nodes]
               new == [s EXCEPT !.conds = NextStatus(@, Observe(s, mem.spec))]
           IN  Earned(new, (proven \ Renewed(new)) \cup FullNow(st, mem.spec))
<1> DEFINE st == Refreshed(mem.status, mem.spec)
           s == [st EXCEPT !.nodes = nodes]
           o == Observe(s, mem.spec)
           c == NextStatus(s.conds, o)
           new == [s EXCEPT !.conds = NextStatus(@, o)]
           Q == (proven \ Renewed(new)) \cup FullNow(st, mem.spec)
<1>1. mem.status \in Statuses /\ mem.spec \in Specs
  BY DEF IInv, CopiesOK, SettledResources, SettledStatuses, CoreSpecs
<1>2. /\ st \in Statuses /\ st.conds = mem.status.conds
      /\ st.upd = mem.status.upd
  BY <1>1, RefreshedCopy, RefreshedKeeps DEF SettledStatuses
<1> HIDE DEF st
<1>3. s \in Statuses /\ s.conds = st.conds /\ s.upd = st.upd
  BY <1>2 DEF Statuses
<1> HIDE DEF s
<1>4. /\ o.coreReady => <<"core", st.upd["core"]>> \in Q
      /\ o.replReady => <<"repl", st.upd["repl"]>> \in Q
      /\ o.existRepl = IsExistReplicant(mem.spec)
  BY <1>1, <1>2, <1>3, ObservedFull
<1> HIDE DEF o
<1>5. new.conds = c /\ new.upd = st.upd
  BY <1>3 DEF Statuses
<1> HIDE DEF new
<1>6. Renewed(new) = Renewed(st)
  BY <1>5 DEF Renewed
<1>7. Earned(st, Q)
  BY <1>2, <1>6, CopyEarned
<1> HIDE DEF Q
<1>8. Stands(st.conds, <<"core", st.upd["core"]>> \in Q,
                       <<"repl", st.upd["repl"]>> \in Q)
  BY <1>7 DEF Earned
<1>9. st.conds \in Conditions
  BY <1>2 DEF Statuses
<1>10. Stands(c, <<"core", st.upd["core"]>> \in Q,
                 <<"repl", st.upd["repl"]>> \in Q)
  <2>1. o.existRepl <=> WithRepl
    BY <1>4, CopyWithRepl
  <2>2. PICK a \in BOOLEAN : a <=> <<"core", st.upd["core"]>> \in Q
    OBVIOUS
  <2>3. PICK b \in BOOLEAN : b <=> <<"repl", st.upd["repl"]>> \in Q
    OBVIOUS
  <2>4. Stands(st.conds, a, b)
    BY <1>8, <2>2, <2>3 DEF Stands
  <2>5. Stands(NextStatus(st.conds, o), a, b)
    BY <1>4, <1>9, <2>1, <2>2, <2>3, <2>4, NextStatusStands
  <2>6. c = NextStatus(st.conds, o)
    BY <1>3
  <2> HIDE DEF c
  <2> QED
    BY <2>2, <2>3, <2>5, <2>6 DEF Stands
<1> HIDE DEF c
<1>11. Earned(new, Q)
  BY <1>5, <1>10 DEF Earned
<1> QED
  BY <1>11 DEF new, Q, o, s, st

\* updateStatus with the list of nodes.
LEMMA updateStatusNodesEarned ==
    ASSUME Steady, IInv, EarnedInv, NEW at, NEW next, next # "replStatus",
           updateStatusNodes(at, next)
    PROVE  EarnedInv'
<1> DEFINE st == Refreshed(mem.status, mem.spec)
           step(nodes) == LET s == [st EXCEPT !.nodes = nodes]
                          IN  [s EXCEPT !.conds =
                                 NextStatus(@, Observe(s, mem.spec))]
           full == FullNow(st, mem.spec)
<1>1. \/ StatusUpdate(step(up), next, full)
      \/ StatusUpdate(step({}), next, full)
      \/ EndPass /\ cr' = cr /\ prev' = prev /\ proven' = proven
  BY DEF updateStatusNodes, crVars, histVars
<1>2. ASSUME NEW nodes \in SUBSET Pod
      PROVE  /\ step(nodes) \in Statuses
             /\ base = cr => Earned(step(nodes),
                                    (proven \ Renewed(step(nodes))) \cup full)
  <2>1. st \in SettledStatuses
    BY RefreshedCopy
  <2>2. step(nodes) \in SettledStatuses
    <3> HIDE DEF st
    <3> QED
      BY <2>1, MachineStep
  <2>3. base = cr => Earned(step(nodes),
                            (proven \ Renewed(step(nodes))) \cup full)
    BY MachineEarned
  <2> QED
    BY <2>2, <2>3 DEF SettledStatuses
<1>3. up \in SUBSET Pod /\ {} \in SUBSET Pod
  BY DEF IInv, PodsOK
<1> HIDE DEF step, full
<1>4. CASE StatusUpdate(step(up), next, full)
  <2>1. PICK x : x = step(up)
    OBVIOUS
  <2> QED
    BY <1>2, <1>3, <1>4, <2>1, StatusUpdatedEarned DEF IInv
<1>5. CASE StatusUpdate(step({}), next, full)
  <2>1. PICK x : x = step({})
    OBVIOUS
  <2> QED
    BY <1>2, <1>3, <1>5, <2>1, StatusUpdatedEarned DEF IInv
<1> QED
  BY <1>1, <1>4, <1>5, EndedEarned

\* Creating a set, reverting to one, changing one and doing nothing leave the
\* copies as they are; replicant nodes are added to ready core nodes only.
LEMMA addSameEarned ==
    ASSUME EarnedInv, NEW k \in Kinds,
           addNothing(k) \/ addCreate(k) \/ addRevert(k) \/ addUpdate(k)
    PROVE  EarnedInv'
<1>1. /\ cr' = cr /\ prev' = prev /\ mem' = mem /\ base' = base
      /\ proven' = proven /\ pc = AddStep(k)
      /\ pc' = AfterAdd(k) \/ (MayAdd(k) /\ pc' = StatusStep(k))
  BY DEF addNothing, addCreate, addRevert, addUpdate, crVars, memVars, histVars
<1>2. pc # "idle" /\ AfterAdd(k) # "replStatus"
  BY <1>1 DEF AddStep, AfterAdd
<1>3. pc' = "replStatus" => "CoreNodesReady" \in mem.status.conds.held
  BY <1>1, <1>2 DEF StatusStep, MayAdd, IsConditionTrue, Kinds
<1> QED
  BY <1>1, <1>2, <1>3, SameCopies

\* A collision of revisions.
LEMMA addCollideEarned ==
    ASSUME IInv, EarnedInv, NEW k \in Kinds, addCollide(k)
    PROVE  EarnedInv'
<1> DEFINE st == [mem.status EXCEPT !.coll[k] = @ + 1]
<1>1. EndPass /\ proven' = proven
  BY DEF addCollide, histVars
<1>2. CASE base # cr
  BY <1>1, <1>2, EndedEarned DEF addCollide, crVars
<1>3. CASE base = cr
  <2>1. Store([cr EXCEPT !.status = st])
    BY <1>3 DEF addCollide
  <2>2. mem.status \in Statuses
    BY DEF IInv, CopiesOK, SettledResources, SettledStatuses
  <2>3. st \in Statuses /\ st.conds = mem.status.conds
        /\ st.upd = mem.status.upd
    <3>1. mem.status.coll[k] + 1 \in 0..MaxCollision
      BY <2>2, ConstantsAssumption DEF addCollide, Statuses
    <3> QED
      BY <2>2, <3>1 DEF Statuses
  <2> HIDE DEF st
  <2>4. prev'.spec \in AllSpecs /\ Earned(prev'.status, proven')
    BY <1>1, <2>1, <2>3, PrevEarned DEF IInv
  <2>5. cr' = [cr EXCEPT !.status = st]
    BY <2>1 DEF Store
  <2>6. cr'.status = st /\ cr'.spec = cr.spec
    BY <2>5 DEF IInv, CopiesOK, SettledResources
  <2>7. Earned(st, proven')
    <3>1. Earned(mem.status, proven)
      BY DEF EarnedInv
    <3> QED
      BY <1>1, <2>3, <3>1 DEF Earned
  <2>8. mem' = InitCR /\ base' = InitCR /\ pc' = "idle"
    BY <1>1 DEF EndPass
  <2>9. \A v \in {cr', prev', mem', base'} :
           v.spec \in AllSpecs /\ Earned(v.status, proven')
    <3>1. cr.spec \in AllSpecs
      BY DEF EarnedInv
    <3> QED
      BY <2>4, <2>6, <2>7, <2>8, <3>1, InitEarned
  <2> QED
    BY <2>8, <2>9 DEF EarnedInv, NewHeld
<1> QED
  BY <1>2, <1>3

\* When the revision of an added replicant set is to be stored, reads are up
\* to date and the stored resource has ready core nodes.
LEMMA ReplOnReadyCore ==
    ASSUME Steady, IInv, EarnedInv, pc = "replStatus"
    PROVE  /\ ~StaleReads
           /\ "CoreNodesReady" \in cr.status.conds.held
<1>1. mem.spec \in AllSpecs /\ mem.spec.tpl["repl"] # NoTpl
  BY DEF IInv, EarnedInv, PassOK
<1>2. ~StaleReads
  BY <1>1 DEF Steady
<1> QED
  BY <1>2 DEF EarnedInv

\* updateEMQXStatus, its write stored or lost.
LEMMA updateEMQXStatusEarned ==
    ASSUME Steady, IInv, EarnedInv, NEW k \in Kinds, updateEMQXStatus(k)
    PROVE  EarnedInv'
<1> DEFINE h == PreHash(k)
           new(v) == [v EXCEPT !.status = Progressing(k, @, h)]
<1>1. /\ pc = StatusStep(k) /\ pc' = AfterAdd(k)
      /\ pc' # "replStatus" /\ pc # "idle"
  BY DEF updateEMQXStatus, StatusStep, AfterAdd
<1>2. h \in Rev
  BY PreHashType, TemplateThere DEF updateEMQXStatus, IInv
<1>3. \/ /\ Store(new(cr)) /\ mem' = new(cr) /\ base' = new(cr)
         /\ proven' = proven \ Renewed(new(cr).status)
      \/ /\ cr' = cr /\ prev' = prev /\ proven' = proven
         /\ \E got \in Readable : mem' = new(got) /\ base' = got
  BY DEF updateEMQXStatus, crVars
<1> HIDE DEF h
<1>4. /\ k = "repl" => /\ ~StaleReads
                       /\ "CoreNodesReady" \in cr.status.conds.held
  BY <1>1, ReplOnReadyCore DEF StatusStep
<1>5. ASSUME NEW v \in SettledResources
      PROVE  /\ new(v).spec = v.spec /\ new(v).status = Progressing(k, v.status, h)
             /\ new(v) = [v EXCEPT !.status = Progressing(k, v.status, h)]
             /\ new(v).status \in Statuses /\ v.status \in Statuses
  <2>1. v.status \in SettledStatuses
    BY DEF SettledResources
  <2>2. Progressing(k, v.status, h) \in SettledStatuses
    BY <1>2, <2>1, ProgressingSettled
  <2> QED
    BY <2>1, <2>2 DEF SettledResources, SettledStatuses
<1>6. ASSUME NEW v \in SettledResources, NEW Q, Earned(v.status, proven),
             k = "repl" => "CoreNodesReady" \in v.status.conds.held,
             \A j \in Kinds \ {k} : <<j, v.status.upd[j]>> \in proven
                                      => <<j, v.status.upd[j]>> \in Q
      PROVE  /\ Earned(new(v).status, Q) /\ NewHeld(new(v).status, v.status)
             /\ "CoreNodesReady" \in new(v).status.conds.held
                  => "CoreNodesReady" \in v.status.conds.held
  <2>1. v.status \in Statuses /\ new(v).status = Progressing(k, v.status, h)
    BY <1>5
  <2>2. PICK p : p = Progressing(k, v.status, h)
    OBVIOUS
  <2>3. PICK P : P = proven
    OBVIOUS
  <2>4. /\ Earned(p, Q) /\ NewHeld(p, v.status)
        /\ "CoreNodesReady" \in p.conds.held
             => "CoreNodesReady" \in v.status.conds.held
    BY <1>6, <2>1, <2>2, <2>3, ProgressingEarned
  <2> HIDE DEF new
  <2> QED
    BY <2>1, <2>2, <2>4
<1>7. /\ cr \in SettledResources /\ prev \in SettledResources
      /\ Earned(cr.status, proven) /\ cr.spec \in AllSpecs
      /\ Earned(prev.status, proven) /\ prev.spec \in AllSpecs
  BY DEF IInv, CopiesOK, EarnedInv
<1>8. CASE /\ Store(new(cr)) /\ mem' = new(cr) /\ base' = new(cr)
           /\ proven' = proven \ Renewed(new(cr).status)
  <2>1. PICK st : st = Progressing(k, cr.status, h)
    OBVIOUS
  <2>2. /\ new(cr) = [cr EXCEPT !.status = st] /\ st \in Statuses
        /\ new(cr).status = st /\ new(cr).spec = cr.spec
    BY <1>5, <1>7, <2>1
  <2>3. prev'.spec \in AllSpecs /\ Earned(prev'.status, proven')
    <3> HIDE DEF new
    <3> QED
      BY <1>8, <2>2, PrevEarned DEF IInv
  <2>4. \A j \in Kinds \ {k} : <<j, cr.status.upd[j]>> \in proven
                                 => <<j, cr.status.upd[j]>> \in proven'
    <3> HIDE DEF new
    <3> QED
      BY <1>8, <2>2, NotRenewed
  <2>5. Earned(new(cr).status, proven')
    <3>1. PICK Q : Q = proven'
      OBVIOUS
    <3>2. \A j \in Kinds \ {k} : <<j, cr.status.upd[j]>> \in proven
                                   => <<j, cr.status.upd[j]>> \in Q
      BY <2>4, <3>1
    <3> QED
      BY <1>4, <1>6, <1>7, <3>1, <3>2
  <2> HIDE DEF new
  <2>6. cr' = new(cr)
    BY <1>8 DEF Store
  <2>7. \A v \in {cr', prev', mem', base'} :
           v.spec \in AllSpecs /\ Earned(v.status, proven')
    BY <1>7, <1>8, <2>2, <2>3, <2>5, <2>6
  <2> QED
    BY <1>1, <1>8, <2>6, <2>7 DEF EarnedInv, NewHeld
<1>9. CASE /\ cr' = cr /\ prev' = prev /\ proven' = proven
           /\ \E got \in Readable : mem' = new(got) /\ base' = got
  <2>1. PICK got \in Readable : mem' = new(got) /\ base' = got
    BY <1>9
  <2>2. got \in {cr, prev} /\ (~StaleReads => got = cr)
    BY DEF Readable
  <2>3. got \in SettledResources /\ Earned(got.status, proven)
        /\ got.spec \in AllSpecs /\ new(got).spec = got.spec
    BY <1>5, <1>7, <2>2
  <2>4. k = "repl" => "CoreNodesReady" \in got.status.conds.held
    BY <1>4, <2>2
  <2>5. /\ Earned(new(got).status, proven)
        /\ NewHeld(new(got).status, got.status)
        /\ "CoreNodesReady" \in new(got).status.conds.held
             => "CoreNodesReady" \in got.status.conds.held
    <3>1. PICK Q : Q = proven
      OBVIOUS
    <3> QED
      BY <1>6, <2>3, <2>4, <3>1
  <2> HIDE DEF new
  <2>6. \A v \in {cr', prev', mem', base'} :
           v.spec \in AllSpecs /\ Earned(v.status, proven')
    BY <1>7, <1>9, <2>1, <2>3, <2>5
  <2> QED
    BY <1>1, <1>9, <2>1, <2>2, <2>5, <2>6 DEF EarnedInv
<1> HIDE DEF new
<1> QED
  BY <1>3, <1>8, <1>9

\* The user edits the spec.
LEMMA EditEarned == IInv /\ EarnedInv /\ Edit => EarnedInv'
<1> SUFFICES ASSUME IInv, EarnedInv, Edit PROVE EarnedInv'
  OBVIOUS
<1>1. /\ mem' = mem /\ base' = base /\ pc' = pc /\ proven' = proven
      /\ edits < MaxEdits
  BY DEF Edit, memVars, histVars
<1>2. PICK s \in EditSpecs[edits + 1] : Store([cr EXCEPT !.spec = s])
  BY DEF Edit
<1>3. s \in AllSpecs
  <2>1. edits + 1 \in 1..MaxEdits
    BY <1>1, ConstantsAssumption DEF IInv, CountsOK
  <2> QED
    BY <2>1 DEF AllSpecs
<1>4. cr'.status = cr.status /\ cr'.spec = s
  BY <1>2 DEF Store, IInv, CopiesOK, SettledResources
<1>5. prev' \in {cr, prev}
  BY <1>2 DEF Store
<1>6. \A v \in {cr', prev', mem', base'} :
         v.spec \in AllSpecs /\ Earned(v.status, proven')
  BY <1>1, <1>3, <1>4, <1>5 DEF EarnedInv
<1> QED
  BY <1>1, <1>4, <1>6 DEF EarnedInv

\* Every step keeps what the conditions stand for.
LEMMA NextEarned ==
    ASSUME Steady, IInv, EarnedInv, [Next]_vars
    PROVE  EarnedInv'
<1>1. CASE Start
  BY <1>1, StartEarned
<1>2. CASE \/ updatePodConditions("conds1", "status1")
           \/ updatePodConditions("conds2", "status2")
  <2>1. /\ cr' = cr /\ prev' = prev /\ mem' = mem /\ base' = base
        /\ proven' = proven /\ pc # "idle" /\ pc' # "replStatus"
    BY <1>2 DEF updatePodConditions, crVars, memVars
  <2> QED
    BY <2>1, SameCopies
<1>3. ASSUME NEW at \in {"status1", "status2"},
             NEW next \in {"addCore", "syncPods"}, updateStatus(at, next)
      PROVE  EarnedInv'
  <2>1. at \in Steps \ {"idle"} /\ next # "replStatus"
    BY DEF Steps
  <2> QED
    BY <1>3, <2>1, updateStatusCurrentEarned, updateStatusNoRequesterEarned,
       updateStatusNodesEarned DEF updateStatus
<1>4. CASE addCore \/ addRepl
  <2>1. PICK k \in Kinds : addNodes(k)
    BY <1>4 DEF addCore, addRepl, Kinds
  <2> QED
    BY <2>1, addSameEarned, addCollideEarned, updateEMQXStatusEarned
       DEF addNodes
<1>5. CASE syncPodsScale \/ syncPodsWait
  <2>1. /\ cr' = cr /\ prev' = prev /\ mem' = mem /\ base' = base
        /\ proven' = proven /\ pc # "idle" /\ pc' # "replStatus"
    BY <1>5 DEF syncPodsScale, ScaleDown, syncPodsWait, crVars, memVars,
                histVars
  <2> QED
    BY <2>1, SameCopies
<1>6. CASE syncPodsRefused \/ syncSets \/ PassFails
  <2>1. EndPass /\ cr' = cr /\ prev' = prev /\ proven' = proven
    BY <1>6 DEF syncPodsRefused, syncSets, PassFails, crVars, histVars
  <2> QED
    BY <2>1, EndedEarned
<1>7. CASE Edit
  BY <1>7, EditEarned
<1>8. CASE CreatePod \/ DeletePod \/ PodUp \/ PodDown \/ UNCHANGED vars
  <2>1. /\ cr' = cr /\ prev' = prev /\ mem' = mem /\ base' = base
        /\ proven' = proven /\ pc' = pc
    BY <1>8 DEF CreatePod, DeletePod, PodUp, PodDown, vars, crVars, memVars,
                histVars
  <2>2. pc' = "replStatus" => "CoreNodesReady" \in mem.status.conds.held
    BY <2>1 DEF EarnedInv
  <2> QED
    BY <2>1, <2>2, SameCopies
<1> QED
  BY <1>1, <1>2, <1>3, <1>4, <1>5, <1>6, <1>7, <1>8
     DEF Next, SubReconcilers, Environment

\* The initial states.
LEMMA InitEarnedInv == Init => EarnedInv
<1> SUFFICES ASSUME Init PROVE EarnedInv
  OBVIOUS
<1>1. cr = InitCR /\ prev = InitCR /\ mem = InitCR /\ base = InitCR
      /\ pc = "idle"
  BY DEF Init
<1> QED
  BY <1>1, InitEarned DEF EarnedInv, NewHeld

\* The steps that change node sets.
LEMMA SetsChange ==
    ASSUME [Next]_vars
    PROVE  \/ sets' = sets \/ syncSets \/ syncPodsScale
           \/ \E k \in Kinds : addCreate(k) \/ addUpdate(k)
BY DEF Next, SubReconcilers, Environment, Start, updatePodConditions,
       updateStatus, updateStatusCurrent, updateStatusNoRequester,
       updateStatusNodes, addCore, addRepl, addNodes, addNothing, addRevert,
       addCollide, updateEMQXStatus, syncPodsRefused, syncPodsWait,
       PassFails, Edit, CreatePod, DeletePod, PodUp, PodDown, vars, setVars,
       Kinds

\* A set that does not exist asks for no pods.
AbsentAskNone ==
    \A k \in Kinds, r \in Rev : sets[k][r].born = 0 => sets[k][r].want = 0

\* A node set that does not exist is created with the pods it asks for, and
\* one that is deleted asks for none.
LEMMA NextAbsentAskNone ==
    IInv /\ AbsentAskNone /\ [Next]_vars => AbsentAskNone'
<1> SUFFICES ASSUME IInv, AbsentAskNone, [Next]_vars PROVE AbsentAskNone'
  OBVIOUS
<1>1. ASSUME NEW k \in Kinds, addCreate(k) PROVE AbsentAskNone'
  <2> DEFINE h == PreHash(k)
             new == [born |-> clock + 1, want |-> mem.spec.n[k],
                     tpl |-> mem.spec.tpl[k]]
  <2>1. sets' = [sets EXCEPT ![k][h] = new]
    BY <1>1 DEF addCreate
  <2>2. new.born # 0
    BY DEF IInv, SetsOK
  <2> HIDE DEF h, new
  <2>3. \A j \in Kinds, r \in Rev :
           sets'[j][r] = IF j = k /\ r = h THEN new ELSE sets[j][r]
    BY <2>1 DEF IInv, SetsOK
  <2> QED
    BY <2>2, <2>3 DEF AbsentAskNone
<1>2. ASSUME NEW k \in Kinds, NEW q, Exists(k, q), NEW n,
             sets' = [sets EXCEPT ![k][q].want = n]
      PROVE  AbsentAskNone'
  <2>1. /\ sets[k][q].born > 0 /\ q \in Rev
        /\ sets \in [Kinds -> [Rev -> SetRecords]]
    BY <1>2 DEF Exists, IInv, SetsOK
  <2>2. \A j \in Kinds, r \in Rev :
           /\ sets'[j][r].born = sets[j][r].born
           /\ ~(j = k /\ r = q) => sets'[j][r] = sets[j][r]
    BY <1>2, <2>1 DEF SetRecords
  <2>3. sets'[k][q].born # 0
    BY <2>1, <2>2 DEF SetRecords
  <2> QED
    BY <2>2, <2>3 DEF AbsentAskNone
<1>3. ASSUME NEW k \in Kinds, addUpdate(k) PROVE AbsentAskNone'
  BY <1>2, <1>3 DEF addUpdate, Differs
<1>4. CASE syncPodsScale
  <2>1. PICK k \in Kinds : ScaleDown(k) /\ Exists(k, mem.status.cur[k])
    BY <1>4 DEF syncPodsScale, DrainRs, DrainSts, Kinds
  <2>2. PICK q : q = mem.status.cur[k]
    OBVIOUS
  <2>3. sets' = [sets EXCEPT ![k][q].want = sets[k][q].want - 1]
    <3>1. sets' = [sets EXCEPT ![k][q].want = @ - 1]
      BY <2>1, <2>2 DEF ScaleDown
    <3> QED
      BY <2>1, <2>2, <3>1 DEF IInv, SetsOK, SetRecords, Exists
  <2> QED
    BY <1>2, <2>1, <2>2, <2>3
<1>5. CASE syncSets
  <2>1. CASE sets' = sets
    BY <2>1 DEF AbsentAskNone
  <2>2. CASE sets' = [k \in Kinds |-> [r \in Rev |->
                        IF r \in Expired(k)
                        THEN [sets[k][r] EXCEPT !.born = 0]
                        ELSE sets[k][r]]]
    <3>1. \A k \in Kinds, r \in Rev :
             /\ r \notin Expired(k) => sets'[k][r] = sets[k][r]
             /\ sets'[k][r].want = sets[k][r].want
      BY <2>2 DEF IInv, SetsOK, SetRecords
    <3>2. \A k \in Kinds : \A r \in Expired(k) : sets[k][r].want = 0
      BY DEF Expired
    <3> QED
      BY <3>1, <3>2 DEF AbsentAskNone
  <2> QED
    BY <1>5, <2>1, <2>2 DEF syncSets
<1>6. CASE sets' = sets
  BY <1>6 DEF AbsentAskNone
<1>7. \/ sets' = sets \/ syncSets \/ syncPodsScale
      \/ \E k \in Kinds : addCreate(k) \/ addUpdate(k)
  BY SetsChange
<1> QED
  BY <1>1, <1>3, <1>4, <1>5, <1>6, <1>7

\* A resource that reports Available has had all its update sets ready.
LEMMA AvailableIsProven ==
    ASSUME Steady, EarnedInv, "Available" \in mem.status.conds.held
    PROVE  UpdateProven
<1>1. Earned(mem.status, proven)
  BY DEF EarnedInv
<1>2. <<"core", mem.status.upd["core"]>> \in proven
  BY <1>1 DEF Earned, Stands
<1>3. IsExistReplicant(mem.spec) => <<"repl", mem.status.upd["repl"]>> \in proven
  BY <1>1, CopyWithRepl DEF Earned, Stands
<1> QED
  BY <1>2, <1>3 DEF UpdateProven, Wanted

\* Only syncPods asks a set that is not the update set for fewer pods.
LEMMA ScaleDownStep ==
    ASSUME Steady, IInv, EarnedInv, AbsentAskNone, [Next]_vars,
           NEW j \in Kinds, NEW r \in Rev, sets'[j][r].want < sets[j][r].want,
           r # mem.status.upd[j]
    PROVE  UpdateProven
<1>0. /\ sets \in [Kinds -> [Rev -> SetRecords]]
      /\ sets[j][r].want \in 0..MaxReplicas /\ sets[j][r].born \in Nat
      /\ MaxReplicas \in Nat
  BY ConstantsAssumption DEF IInv, SetsOK, SetRecords
<1>1. CASE syncPodsScale
  <2>1. "Available" \in mem.status.conds.held
    BY <1>1 DEF syncPodsScale, ScaleDown, MaySync, IsConditionTrue
  <2> QED
    BY <2>1, AvailableIsProven
<1>2. ASSUME NEW k \in Kinds, addCreate(k) PROVE FALSE
  <2> DEFINE h == PreHash(k)
             new == [born |-> clock + 1, want |-> mem.spec.n[k],
                     tpl |-> mem.spec.tpl[k]]
  <2>1. sets' = [sets EXCEPT ![k][h] = new] /\ ~Exists(k, h)
    BY <1>2 DEF addCreate
  <2>2. new.want \in 0..MaxReplicas
    BY DEF IInv, CopiesOK, SettledResources, CoreSpecs, Specs
  <2> HIDE DEF h, new
  <2>3. sets'[j][r] = IF j = k /\ r = h THEN new ELSE sets[j][r]
    BY <1>0, <2>1
  <2>4. j = k /\ r = h
    BY <1>0, <2>3
  <2>5. sets[j][r].born = 0
    BY <1>0, <2>1, <2>4 DEF Exists
  <2>6. sets[j][r].want = 0
    BY <2>5 DEF AbsentAskNone
  <2> QED
    BY <2>2, <2>3, <2>4, <2>6, <1>0
<1>3. ASSUME NEW k \in Kinds, addUpdate(k) PROVE FALSE
  <2>1. PICK q, n : q = mem.status.upd[k] /\ n = mem.spec.n[k]
    OBVIOUS
  <2>2. sets' = [sets EXCEPT ![k][q].want = n]
    BY <1>3, <2>1 DEF addUpdate
  <2>3. sets'[j][r] = sets[j][r]
    BY <1>0, <2>1, <2>2
  <2> QED
    BY <1>0, <2>3
<1>4. CASE syncSets
  <2>1. sets'[j][r].want = sets[j][r].want
    BY <1>0, <1>4 DEF syncSets, SetRecords
  <2> QED
    BY <1>0, <2>1
<1>5. CASE sets' = sets
  BY <1>0, <1>5
<1> QED
  BY <1>1, <1>2, <1>3, <1>4, <1>5, SetsChange

\* Only updatePodConditions closes the gate of a pod that stays, and of a pod
\* that is not of an update set only once the resource is Available.
LEMMA RetireStep ==
    ASSUME Steady, EarnedInv, [Next]_vars, NEW p \in gate \ gate',
           p \in pods', p[2] # mem.status.upd[p[1]]
    PROVE  UpdateProven
<1>1. ASSUME NEW at, NEW next, updatePodConditions(at, next)
      PROVE  UpdateProven
  <2>1. "Available" \in mem.status.conds.held
    BY <1>1 DEF updatePodConditions, IsConditionTrue
  <2> QED
    BY <2>1, AvailableIsProven
<1>2. CASE DeletePod
  BY <1>2 DEF DeletePod
<1>3. gate' = gate \/ DeletePod
      \/ updatePodConditions("conds1", "status1")
      \/ updatePodConditions("conds2", "status2")
  BY DEF Next, SubReconcilers, Environment, Start, updateStatus,
         updateStatusCurrent, updateStatusNoRequester, updateStatusNodes,
         addCore, addRepl, addNodes, addNothing, addCreate, addRevert,
         addCollide, addUpdate, updateEMQXStatus, syncPodsScale, ScaleDown,
         syncPodsRefused, syncPodsWait, syncSets, PassFails, Edit, CreatePod,
         PodUp, PodDown, vars, podVars
<1> QED
  BY <1>1, <1>2, <1>3

\* What is known of a steady resource in every state.
LEMMA SteadyInvariance ==
    ASSUME Steady
    PROVE  Spec => [](IInv /\ EarnedInv /\ AbsentAskNone)
<1>1. Init => IInv /\ EarnedInv /\ AbsentAskNone
  <2>1. Init => AbsentAskNone
    BY DEF Init, AbsentAskNone
  <2> QED
    BY <2>1, InitIInv, InitEarnedInv
<1>2. /\ IInv /\ EarnedInv /\ AbsentAskNone
      /\ [Next]_vars
      => (IInv /\ EarnedInv /\ AbsentAskNone)'
  BY NextIInv, NextEarned, NextAbsentAskNone
<1> QED
  BY <1>1, <1>2, PTL DEF Spec

\* Whatever crashes, lost status writes, refused writes and edits come
\* before, syncPods takes a pod away from a set that is not the update set
\* only after the update sets of every wanted kind have been ready.
THEOREM UpdateBeforeScaleDown ==
    ASSUME Steady
    PROVE  Spec => ScaleDownAfterUpdateReady
<1> DEFINE Step == \A k \in Kinds, r \in Rev :
                      (sets'[k][r].want < sets[k][r].want
                          /\ r # mem.status.upd[k]) => UpdateProven
<1>1. IInv /\ EarnedInv /\ AbsentAskNone /\ [Next]_vars => Step
  BY ScaleDownStep
<1>2. IInv /\ EarnedInv /\ AbsentAskNone /\ [Next]_vars => [Step]_vars
  BY <1>1
<1>3. [][Step]_vars => ScaleDownAfterUpdateReady
  BY PTL DEF ScaleDownAfterUpdateReady
<1> HIDE DEF Step
<1> QED
  BY <1>2, <1>3, SteadyInvariance, PTL DEF Spec

\* A pod of an earlier set loses its place in the Services only after the
\* update sets of every wanted kind have been ready.
THEOREM UpdateBeforeRetire ==
    ASSUME Steady
    PROVE  Spec => RetireAfterUpdateReady
<1> DEFINE Step == \A p \in gate \ gate' :
                      (p \in pods' /\ p[2] # mem.status.upd[p[1]])
                        => UpdateProven
<1>1. EarnedInv /\ [Next]_vars => [Step]_vars
  BY RetireStep
<1>2. [][Step]_vars => RetireAfterUpdateReady
  BY PTL DEF RetireAfterUpdateReady
<1> HIDE DEF Step
<1> QED
  BY <1>1, <1>2, SteadyInvariance, PTL DEF Spec

-----------------------------------------------------------------------------
(* The deletion of node sets.                                              *)

\* What a pass that finds the resource Ready knows of its sets is what is
\* stored.
ReadyIsFresh ==
    pc # "idle" /\ "Ready" \in mem.status.conds.held
      => \A k \in Kinds : /\ mem.status.upd[k] = cr.status.upd[k]
                          /\ cr.status.cur[k] \in {mem.status.cur[k], NoRev}

\* A step within a pass that changes neither the copy nor the store.
LEMMA SameFresh ==
    ASSUME ReadyIsFresh, mem' = mem, cr'.status = cr.status,
           pc # "idle" \/ pc' = pc
    PROVE  ReadyIsFresh'
BY DEF ReadyIsFresh

\* A pass whose copy is the stored resource, or that is over.
LEMMA NowFresh ==
    ASSUME mem' = cr' \/ pc' = "idle"
    PROVE  ReadyIsFresh'
BY DEF ReadyIsFresh

\* When reads are up to date, every step keeps what a pass knows true.
LEMMA NextFresh ==
    ASSUME ~StaleReads, IInv, ReadyIsFresh, [Next]_vars
    PROVE  ReadyIsFresh'
<1>1. CASE Start
  <2>1. mem' = cr' /\ cr' = cr
    BY <1>1 DEF Start, Readable, crVars
  <2> QED
    BY <2>1, NowFresh
<1>2. ASSUME NEW st, NEW next, NEW full, StatusUpdate(st, next, full)
      PROVE  ReadyIsFresh'
  <2>1. mem' = cr' \/ pc' = "idle"
    BY <1>2 DEF StatusUpdate, Store, EndPass
  <2> QED
    BY <2>1, NowFresh
<1>3. ASSUME NEW at, NEW next, at # "idle", updateStatusNoRequester(at, next)
      PROVE  ReadyIsFresh'
  <2> DEFINE st == Refreshed(mem.status, mem.spec)
  <2>1. /\ cr' = cr /\ pc = at /\ mem' = [mem EXCEPT !.status = st]
    BY <1>3 DEF updateStatusNoRequester, crVars
  <2>2. mem \in SettledResources /\ mem.status \in Statuses
    BY DEF IInv, CopiesOK, SettledResources, SettledStatuses
  <2>3. st.conds = mem.status.conds /\ st.upd = mem.status.upd
    BY <2>2, RefreshedKeeps
  <2>4. \A k \in Kinds : st.cur[k] = IF mem.status.cur[k] = NoRev
                                     THEN mem.status.upd[k]
                                     ELSE mem.status.cur[k]
    BY <2>2 DEF Refreshed, Statuses
  <2> HIDE DEF st
  <2>5. mem'.status = st
    BY <2>1, <2>2 DEF SettledResources
  <2> QED
    BY <1>3, <2>1, <2>3, <2>4, <2>5 DEF ReadyIsFresh
<1>4. ASSUME NEW k \in Kinds, updateEMQXStatus(k) PROVE ReadyIsFresh'
  <2> DEFINE h == PreHash(k)
             new(v) == [v EXCEPT !.status = Progressing(k, @, h)]
  <2>1. PICK got \in {cr, prev} : mem' = new(got)
    BY <1>4 DEF updateEMQXStatus, Readable
  <2>2. h \in Rev
    BY <1>4, PreHashType, TemplateThere DEF updateEMQXStatus, IInv
  <2>3. got \in SettledResources /\ got.status \in SettledStatuses
    BY DEF IInv, CopiesOK, SettledResources
  <2> HIDE DEF h
  <2>4. "Ready" \notin Progressing(k, got.status, h).conds.held
    BY <2>2, <2>3, ProgressingSettled
  <2>5. mem'.status = Progressing(k, got.status, h)
    BY <2>1, <2>3 DEF SettledResources
  <2> QED
    BY <2>4, <2>5 DEF ReadyIsFresh
<1>5. ASSUME NEW k \in Kinds, addNodes(k), ~updateEMQXStatus(k)
      PROVE  ReadyIsFresh'
  <2>1. \/ pc' = "idle"
        \/ mem' = mem /\ cr' = cr /\ pc # "idle"
    BY <1>5 DEF addNodes, addNothing, addCreate, addRevert, addCollide,
                addUpdate, EndPass, memVars, crVars, AddStep
  <2> QED
    BY <2>1, SameFresh, NowFresh
<1>6. ASSUME NEW at, NEW next, at # "idle",
             updateStatus(at, next) \/ updatePodConditions(at, next)
      PROVE  ReadyIsFresh'
  <2>1. CASE updatePodConditions(at, next)
    <3>1. mem' = mem /\ cr' = cr /\ pc # "idle"
      BY <1>6, <2>1 DEF updatePodConditions, memVars, crVars
    <3> QED
      BY <3>1, SameFresh
  <2>2. CASE updateStatus(at, next)
    <3>1. \/ \E st, full : StatusUpdate(st, next, full)
          \/ updateStatusNoRequester(at, next) \/ pc' = "idle"
      BY <2>2 DEF updateStatus, updateStatusCurrent, updateStatusNodes, EndPass
    <3> QED
      BY <1>2, <1>3, <1>6, <3>1, NowFresh
  <2> QED
    BY <1>6, <2>1, <2>2
<1>7. CASE syncPodsScale \/ syncPodsWait
  <2>1. mem' = mem /\ cr' = cr /\ pc # "idle"
    BY <1>7 DEF syncPodsScale, ScaleDown, syncPodsWait, memVars, crVars
  <2> QED
    BY <2>1, SameFresh
<1>8. CASE syncPodsRefused \/ syncSets \/ PassFails
  <2>1. pc' = "idle"
    BY <1>8 DEF syncPodsRefused, syncSets, PassFails, EndPass
  <2> QED
    BY <2>1, NowFresh
<1>9. CASE Environment \/ UNCHANGED vars
  <2>1. mem' = mem /\ pc' = pc /\ cr'.status = cr.status
    BY <1>9 DEF Environment, Edit, CreatePod, DeletePod, PodUp, PodDown, vars,
                memVars, crVars, Store, IInv, CopiesOK, SettledResources
  <2> QED
    BY <2>1, SameFresh
<1> QED
  BY <1>1, <1>4, <1>5, <1>6, <1>7, <1>8, <1>9
     DEF Next, SubReconcilers, addCore, addRepl, Kinds

\* syncSets deletes old sets only, without pods and without any asked for.
LEMMA DeletionStep ==
    ASSUME IInv, ReadyIsFresh, [Next]_vars, NEW j \in Kinds, NEW r \in Rev,
           sets[j][r].born > 0, sets'[j][r].born = 0
    PROVE  /\ SetPods(j, r) = {} /\ sets[j][r].want = 0
           /\ r \notin {cr.status.upd[j], cr.status.cur[j]}
<1>0. sets \in [Kinds -> [Rev -> SetRecords]] /\ sets[j][r].born \in Nat
  BY DEF IInv, SetsOK, SetRecords
<1>1. CASE syncSets
  <2>1. IsConditionTrue(mem.status.conds, "Ready") /\ r \in Expired(j)
    BY <1>0, <1>1 DEF syncSets
  <2>2. /\ SetPods(j, r) = {} /\ sets[j][r].want = 0
        /\ r \notin {mem.status.upd[j], mem.status.cur[j]}
    BY <2>1 DEF Expired, Old
  <2>3. r # NoRev
    BY ConstantsAssumption
  <2>4. pc # "idle"
    BY <1>1 DEF syncSets
  <2> QED
    BY <2>1, <2>2, <2>3, <2>4 DEF ReadyIsFresh, IsConditionTrue
<1>2. ASSUME NEW k \in Kinds, addCreate(k) PROVE FALSE
  <2> DEFINE new == [born |-> clock + 1, want |-> mem.spec.n[k],
                     tpl |-> mem.spec.tpl[k]]
  <2>1. sets' = [sets EXCEPT ![k][PreHash(k)] = new]
    BY <1>2 DEF addCreate
  <2>2. new.born # 0
    BY DEF IInv, SetsOK
  <2> HIDE DEF new
  <2> QED
    BY <1>0, <2>1, <2>2
<1>3. ASSUME NEW k, NEW q, NEW n, sets' = [sets EXCEPT ![k][q].want = n]
      PROVE  FALSE
  <2>1. sets'[j][r].born = sets[j][r].born
    BY <1>0, <1>3 DEF SetRecords
  <2> QED
    BY <1>0, <2>1
<1>4. ASSUME NEW k \in Kinds, addUpdate(k) PROVE FALSE
  BY <1>3, <1>4 DEF addUpdate
<1>5. CASE syncPodsScale
  <2>1. PICK k \in Kinds : ScaleDown(k) /\ Exists(k, mem.status.cur[k])
    BY <1>5 DEF syncPodsScale, DrainRs, DrainSts, Kinds
  <2>2. PICK q : q = mem.status.cur[k]
    OBVIOUS
  <2>3. sets' = [sets EXCEPT ![k][q].want = sets[k][q].want - 1]
    <3>1. sets' = [sets EXCEPT ![k][q].want = @ - 1]
      BY <2>1, <2>2 DEF ScaleDown
    <3> QED
      BY <1>0, <2>1, <2>2, <3>1 DEF SetRecords, Exists
  <2> QED
    BY <1>3, <2>3
<1>6. CASE sets' = sets
  BY <1>0, <1>6
<1> QED
  BY <1>1, <1>2, <1>4, <1>5, <1>6, SetsChange

\* When reads are up to date, no node set is deleted that has pods, asks for
\* any, or is the stored update or current revision, whatever status writes
\* are lost.
THEOREM OnlyRetiredSetsGo ==
    ASSUME ~StaleReads
    PROVE  Spec => DeletedSetsAreRetired
<1> DEFINE Step == \A k \in Kinds, r \in Rev :
                      (sets[k][r].born > 0 /\ sets'[k][r].born = 0)
                        => /\ SetPods(k, r) = {} /\ sets[k][r].want = 0
                           /\ r \notin {cr.status.upd[k], cr.status.cur[k]}
<1>1. Init => IInv /\ ReadyIsFresh
  BY InitIInv DEF Init, ReadyIsFresh
<1>2. IInv /\ ReadyIsFresh /\ [Next]_vars => (IInv /\ ReadyIsFresh)'
  BY NextIInv, NextFresh
<1>3. IInv /\ ReadyIsFresh /\ [Next]_vars => [Step]_vars
  BY DeletionStep
<1>4. [][Step]_vars => DeletedSetsAreRetired
  BY PTL DEF DeletedSetsAreRetired
<1> HIDE DEF Step
<1> QED
  BY <1>1, <1>2, <1>3, <1>4, PTL DEF Spec

-----------------------------------------------------------------------------
(* That some core pod stays ready: the sets that keep serving.             *)

Size == InitSpec.n["core"]

\* No edit changes the number of core nodes.
SameSize == \A s \in AllSpecs : s.n["core"] = Size

CoreUpd(st) == st.upd["core"]
CoreCur(st) == st.cur["core"]
CoreColl(st) == st.coll["core"]
CoreReady(st) == "CoreNodesReady" \in st.conds.held
CoreDone(st) == "Available" \in st.conds.held
CoreNodesIn(st, S) == \A p \in st.nodes : p[1] = "core" => p \in S

CoreSet(r) == Exists("core", r)
Want(r) == sets["core"][r].want

\* The pods of a set of core nodes that has all it can be asked for.
FullSet(r) == {"core"} \X {r} \X (1..Size)

\* The statuses that a pass may read, or works on.
Live == {cr.status, prev.status}
           \cup IF pc = "idle" THEN {} ELSE {mem.status, base.status}

\* A StatefulSet has the digest of its template and a collision count of the
\* past in its name, and no more pods than the resource asks for.
SetsAgree ==
    /\ \A r \in Rev : CoreSet(r) =>
          /\ r[1] = Digest[sets["core"][r].tpl]
          /\ r[2] <= CoreColl(cr.status)
          /\ Want(r) <= Size
    /\ \A p \in pods : p[1] = "core" => CoreSet(p[2]) /\ p[3] <= Size

\* The collision count only grows, and the copy in memory has that of the
\* version it was read from.
CopiesAgree ==
    /\ CoreColl(prev.status) <= CoreColl(cr.status)
    /\ CoreColl(base.status) <= CoreColl(cr.status)
    /\ CoreColl(mem.status) = CoreColl(base.status)
    /\ mem.status.nodes = base.status.nodes

Ground == SetsAgree /\ CopiesAgree

\* Until a pod or a call to the EMQX API fails, a pod that passes its gate
\* runs, and when the status is about to be updated it is one of the nodes
\* that were listed.
Gated ==
    /\ gate \subseteq up
    /\ pc \in {"status1", "status2"} =>
          \A p \in gate : (p[1] = "core" /\ p[2] = CoreUpd(mem.status))
                              => p \in mem.status.nodes

\* Before a set of core nodes has been ready none is scaled down, and the
\* lists of core nodes only grow.
Unserved ==
    /\ \A r \in Rev : CoreSet(r) => Want(r) = Size
    /\ \A r \in Rev : <<"core", r>> \notin proven
    /\ CoreNodesIn(prev.status, cr.status.nodes)
    /\ CoreNodesIn(cr.status, up)
    /\ base = cr \/ CoreNodesIn(base.status, prev.status.nodes)

\* A set that keeps serving: all its pods are ready and listed in every
\* status a pass may act on.
Keeper(r) ==
    /\ r \in Rev /\ CoreSet(r) /\ Want(r) = Size
    /\ FullSet(r) \subseteq gate
    /\ \A st \in Live : FullSet(r) \subseteq st.nodes

\* To drain the current set of a status Available, st, takes no keeper away
\* from status v.
Harmless(st, v) ==
    CoreReady(v) => \/ CoreUpd(v) = CoreUpd(st)
                    \/ CoreCur(v) = CoreCur(st)
                    \/ CoreUpd(v) = CoreCur(v)

\* There is a keeper, and a status with ready core nodes has one for its
\* update set, or no set to drain.
Kept ==
    /\ \E r \in Rev : Keeper(r)
    /\ \A st \in {cr.status, prev.status, mem.status, base.status} :
          CoreReady(st) => CoreUpd(st) = CoreCur(st) \/ Keeper(CoreUpd(st))
    /\ CoreDone(cr.status) => CoreUpd(prev.status) = CoreUpd(cr.status)
    /\ CoreDone(prev.status) => Harmless(prev.status, cr.status)
    /\ CoreDone(mem.status) =>
          \A st \in {cr.status, prev.status, base.status} :
             Harmless(mem.status, st)
    /\ CoreCur(mem.status) = CoreCur(base.status)

\* Only a set that is both the update and the current one may have been asked
\* for fewer pods: an update was rolled back to it.  The set that would be
\* created for its template in its place is not such a set.
Asked(st) ==
    (CoreSet(CoreUpd(st)) /\ Want(CoreUpd(st)) # Size) =>
        /\ CoreUpd(st) = CoreCur(st)
        /\ LET r == <<CoreUpd(st)[1], CoreColl(st)>>
           IN  r # CoreUpd(st) /\ CoreSet(r) => Want(r) = Size

\* A status with an update revision has a condition.
Begun ==
    \A v \in {cr, prev, mem, base} :
       CoreUpd(v.status) # NoRev
         => v.status.conds.last \notin {NoCond, "Initialized"}

\* How far the pass is.
Passing ==
    /\ pc = "idle" \/ req
    /\ Asked(cr.status)
    /\ base.status = cr.status => Asked(mem.status)
    /\ pc \in {"addCore", "coreStatus", "syncPods"} => mem.status = cr.status
    /\ pc = "coreStatus" =>
          (CoreSet(PreHash("core")) =>
             Want(PreHash("core")) = Size \/ PreHash("core") = CoreCur(mem.status))

KeepInv ==
    /\ Ground /\ Begun
    /\ served # "excused" => Gated
    /\ served = "no" => Unserved
    /\ served = "yes" => Kept /\ Passing

-----------------------------------------------------------------------------
(* Counting ready pods, and what the machine makes of them.                *)

\* Every spec asks for one and the same number of core nodes.
LEMMA AskedSize ==
    ASSUME SameSize
    PROVE  /\ Size \in Nat /\ Size > 0 /\ Size \in 0..MaxReplicas
           /\ \A s \in AllSpecs : s.n["core"] = Size
<1>1. InitSpec \in Specs /\ InitSpec.n["core"] > 0 /\ MaxReplicas \in Nat
  BY ConstantsAssumption
<1>2. InitSpec.n["core"] \in 0..MaxReplicas
  BY <1>1 DEF Specs, Kinds
<1> QED
  BY <1>1, <1>2 DEF Size, SameSize

\* A set of as many core pods as can be asked for has them all.
LEMMA FullCounted ==
    ASSUME SameSize, NEW r, NEW S \in SUBSET FullSet(r), Cardinality(S) = Size
    PROVE  S = FullSet(r)
<1> DEFINE f == [i \in 1..Size |-> <<"core", r, i>>]
<1>1. Size \in Nat
  BY AskedSize
<1>2. f \in Bijection(1..Size, FullSet(r))
  <2>1. f \in [1..Size -> FullSet(r)]
    BY DEF FullSet
  <2>2. \A i, j \in 1..Size : f[i] = f[j] => i = j
    OBVIOUS
  <2>3. \A p \in FullSet(r) : \E i \in 1..Size : f[i] = p
    BY DEF FullSet
  <2> QED
    BY <2>1, <2>2, <2>3 DEF Bijection, Injection, Surjection, IsInjective
<1>3. ExistsBijection(1..Size, FullSet(r))
  BY <1>2 DEF ExistsBijection
<1>4. IsFiniteSet(FullSet(r)) /\ Cardinality(FullSet(r)) = Size
  BY <1>1, <1>3, FS_NatBijection, FS_CountingElements
<1> QED
  BY <1>4, FS_Subset

\* A set with as many ready pods has all its pods ready.
LEMMA ReadyIsFull ==
    ASSUME SameSize, IInv, Ground, NEW r,
           Cardinality(ReadyPods("core", r)) = Size
    PROVE  FullSet(r) \subseteq pods \cap up \cap gate
<1>1. ASSUME NEW p \in ReadyPods("core", r) PROVE p \in FullSet(r)
  <2>1. /\ p \in Pod /\ p \in pods /\ p[1] = "core" /\ p[2] = r
    BY DEF ReadyPods, SetPods, IInv, PodsOK
  <2>2. p[3] <= Size /\ Size \in Nat
    BY <2>1, AskedSize DEF Ground, SetsAgree
  <2>3. p = <<"core", r, p[3]>> /\ p[3] \in 1..Size
    BY <2>1, <2>2, ConstantsAssumption DEF Pod, Idx
  <2> QED
    BY <2>3 DEF FullSet
<1>2. ReadyPods("core", r) = FullSet(r)
  BY <1>1, FullCounted
<1> QED
  BY <1>2 DEF ReadyPods, SetPods

\* Core nodes are reported ready if they were or if they are seen to be, and
\* at once when that is waited for; Available only if they were.
LEMMA MachineReports ==
    ASSUME NEW c \in Conditions, NEW a, NEW b, Stands(c, a, b), NEW o
    PROVE  /\ "CoreNodesReady" \in NextStatus(c, o).held
                => "CoreNodesReady" \in c.held \/ o.coreReady
           /\ "Available" \in NextStatus(c, o).held => "CoreNodesReady" \in c.held
           /\ o.coreReady /\ c.last = "CoreNodesProgressing"
                => "CoreNodesReady" \in NextStatus(c, o).held
<1> DEFINE d == IF GetLastTrueCondition(c) = NoCond
                THEN SetCondition(c, "Initialized") ELSE c
<1>1. /\ d \in Conditions
      /\ "CoreNodesReady" \in d.held <=> "CoreNodesReady" \in c.held
      /\ d.last \notin {NoCond, "Initialized", "CoreNodesProgressing"}
           => "CoreNodesReady" \in c.held
      /\ d.last = "CoreNodesProgressing" <=> c.last = "CoreNodesProgressing"
      /\ d.last = "CoreNodesProgressing" => d = c
      /\ "Available" \in c.held => "CoreNodesReady" \in c.held
  <2>1. CASE GetLastTrueCondition(c) = NoCond
    <3>1. "Initialized" \in CondTypes
      BY DEF CondTypes
    <3>2. d = SetCondition(c, "Initialized") /\ c.last = NoCond
      BY <2>1 DEF GetLastTrueCondition
    <3>3. d.held = c.held \cup {"Initialized"} /\ d.last = "Initialized"
      BY <3>2, SetConditionIs
    <3>4. d \in Conditions
      BY <3>1, <3>2, SetConditionType
    <3> HIDE DEF d
    <3> QED
      BY <3>2, <3>3, <3>4 DEF Stands, NoCond
  <2>2. CASE GetLastTrueCondition(c) # NoCond
    <3>1. d = c
      BY <2>2
    <3> HIDE DEF d
    <3> QED
      BY <3>1 DEF Stands
  <2> QED
    BY <2>1, <2>2
<1> HIDE DEF d
<1>2. /\ "CoreNodesReady" \notin initialized(d).held
      /\ "Available" \notin initialized(d).held
  <2> DEFINE T == {"Ready", "Available", "ReplicantNodesReady",
                   "ReplicantNodesProgressing", "CoreNodesReady",
                   "CoreNodesProgressing"}
             e == RemoveConditions(d, T)
  <2>1. e.held = d.held \ T
    BY <1>1, RemoveConditionsIs
  <2>2. initialized(d) = SetCondition(e, "CoreNodesProgressing")
    BY DEF initialized
  <2> HIDE DEF e
  <2>3. initialized(d).held = e.held \cup {"CoreNodesProgressing"}
    BY <2>2, SetConditionIs
  <2> QED
    BY <2>1, <2>3
<1>3. CASE d.last = "CoreNodesProgressing"
  <2>1. NextStatus(c, o) = IF o.coreReady THEN SetCondition(c, "CoreNodesReady")
                                          ELSE c
    BY <1>1, <1>3 DEF NextStatus, coreNodesProgressing, d
  <2>2. SetCondition(c, "CoreNodesReady").held = c.held \cup {"CoreNodesReady"}
    BY SetConditionIs
  <2> QED
    BY <1>1, <2>1, <2>2
<1>4. CASE d.last \in {NoCond, "Initialized"}
  <2>1. NextStatus(c, o) = initialized(d)
    BY <1>4 DEF NextStatus, d, NoCond
  <2> QED
    BY <1>1, <1>2, <1>4, <2>1 DEF NoCond
<1>5. CASE d.last \notin {NoCond, "Initialized", "CoreNodesProgressing"}
  BY <1>1, <1>5
<1> QED
  BY <1>3, <1>4, <1>5

\* The machine leaves its first states at once.
LEMMA MachineStarts ==
    ASSUME NEW c \in Conditions, NEW o
    PROVE  NextStatus(c, o).last \notin {NoCond, "Initialized"}
<1> DEFINE d == IF GetLastTrueCondition(c) = NoCond
                THEN SetCondition(c, "Initialized") ELSE c
           Good(e) == e.last \notin {NoCond, "Initialized"}
<1>1. ASSUME NEW e, NEW t \in CondTypes \ {"Initialized"}
      PROVE  Good(SetCondition(e, t))
  BY <1>1, SetConditionIs DEF CondTypes, NoCond
<1>2. Good(initialized(d))
  <2>1. "CoreNodesProgressing" \in CondTypes \ {"Initialized"}
    BY DEF CondTypes
  <2> HIDE DEF Good
  <2> QED
    BY <1>1, <2>1 DEF initialized
<1>3. {"CoreNodesReady", "ReplicantNodesProgressing", "ReplicantNodesReady",
       "Available", "Ready"} \subseteq CondTypes \ {"Initialized"}
  BY DEF CondTypes
<1>4. d.last \notin {NoCond, "Initialized"} => Good(d)
  OBVIOUS
<1> HIDE DEF Good, d
<1>5. d.last = "CoreNodesProgressing" => Good(coreNodesProgressing(d, o))
  BY <1>1, <1>3, <1>4 DEF coreNodesProgressing, NoCond
<1>6. d.last = "CoreNodesReady" => Good(coreNodesReady(d, o))
  BY <1>1, <1>3 DEF coreNodesReady
<1>7. d.last = "ReplicantNodesProgressing" => Good(replicantNodesProgressing(d, o))
  BY <1>1, <1>2, <1>3, <1>4 DEF replicantNodesProgressing, NoCond
<1>8. d.last = "ReplicantNodesReady" => Good(replicantNodesReady(d, o))
  BY <1>1, <1>2, <1>3 DEF replicantNodesReady
<1>9. d.last = "Available" => Good(available(d, o))
  BY <1>1, <1>3, <1>4 DEF available, NoCond
<1>10. d.last = "Ready" => Good(ready(d, o))
  BY <1>1, <1>2, <1>3, <1>4 DEF ready, NoCond
<1>11. Good(NextStatus(c, o))
  BY <1>2, <1>5, <1>6, <1>7, <1>8, <1>9, <1>10 DEF NextStatus, d
<1> QED
  BY <1>11 DEF Good

-----------------------------------------------------------------------------
(* What the steps do to the StatefulSets, their pods and the copies.       *)

\* The types of the copies.
LEMMA Typed ==
    ASSUME IInv, NEW v \in {cr, prev, mem, base}
    PROVE  /\ v \in SettledResources /\ v.status \in Statuses /\ v.spec \in Specs
           /\ CoreUpd(v.status) \in Rev \cup {NoRev}
           /\ CoreCur(v.status) \in Rev \cup {NoRev}
           /\ CoreColl(v.status) \in Nat /\ NoRev \notin Rev
<1>1. v \in SettledResources /\ v.status \in Statuses /\ v.spec \in Specs
  BY DEF IInv, CopiesOK, SettledResources, SettledStatuses, CoreSpecs
<1> QED
  BY <1>1, ConstantsAssumption
     DEF Statuses, CoreUpd, CoreCur, CoreColl, Kinds

\* A resource with another status.
LEMMA Rewritten ==
    ASSUME NEW v \in SettledResources, NEW st
    PROVE  /\ [v EXCEPT !.status = st].status = st
           /\ [v EXCEPT !.status = st].spec = v.spec
           /\ st = v.status => [v EXCEPT !.status = st] = v
BY DEF SettledResources

\* What may happen to a StatefulSet.
LEMMA CoreStep ==
    ASSUME SameSize, IInv, EarnedInv, [Next]_vars, NEW r \in Rev
    PROVE  /\ CoreSet(r)' /\ ~CoreSet(r) =>
                /\ addCreate("core") /\ r = PreHash("core") /\ Want(r)' = Size
                /\ sets'["core"][r].tpl = mem.spec.tpl["core"]
           /\ CoreSet(r) /\ ~CoreSet(r)' =>
                syncSets /\ SetPods("core", r) = {}
           /\ CoreSet(r) /\ CoreSet(r)' =>
                /\ sets'["core"][r].tpl = sets["core"][r].tpl
                /\ \/ Want(r)' = Want(r)
                   \/ /\ addUpdate("core") /\ r = CoreUpd(mem.status)
                      /\ Want(r)' = Size
                   \/ /\ ScaleDown("core") /\ DrainSts
                      /\ r = CoreCur(mem.status) /\ Want(r)' = Want(r) - 1
<1> DEFINE core == sets["core"][r]
           core2 == sets'["core"][r]
<1>0. /\ sets \in [Kinds -> [Rev -> SetRecords]] /\ core \in SetRecords
      /\ clock \in Nat /\ "core" \in Kinds /\ mem.spec.n["core"] = Size
      /\ CoreSet(r) <=> core.born > 0
      /\ CoreSet(r)' <=> core2.born > 0
      /\ Want(r) = core.want /\ Want(r)' = core2.want
  BY AskedSize DEF IInv, SetsOK, EarnedInv, Kinds, CoreSet, Exists, Want
<1> SUFFICES
      \/ core2 = core
      \/ /\ addCreate("core") /\ r = PreHash("core") /\ ~(core.born > 0)
         /\ core2 = [born |-> clock + 1, want |-> Size,
                     tpl |-> mem.spec.tpl["core"]]
      \/ /\ syncSets /\ SetPods("core", r) = {}
         /\ core2 = [core EXCEPT !.born = 0]
      \/ /\ addUpdate("core") /\ r = CoreUpd(mem.status)
         /\ core2 = [core EXCEPT !.want = Size]
      \/ /\ ScaleDown("core") /\ DrainSts /\ r = CoreCur(mem.status)
         /\ core2 = [core EXCEPT !.want = core.want - 1]
  BY <1>0 DEF SetRecords
<1>1. CASE sets' = sets
  BY <1>1
<1>2. CASE syncSets
  BY <1>0, <1>2 DEF syncSets, Expired, SetRecords
<1>3. CASE syncPodsScale
  <2>1. CASE ScaleDown("repl")
    BY <1>0, <2>1 DEF ScaleDown
  <2>2. CASE ScaleDown("core") /\ DrainSts
    <3>1. PICK q : q = mem.status.cur["core"]
      OBVIOUS
    <3>2. sets' = [sets EXCEPT !["core"][q].want = @ - 1]
      BY <2>2, <3>1 DEF ScaleDown
    <3>3. CASE r = q
      BY <1>0, <2>2, <3>1, <3>2, <3>3 DEF CoreCur
    <3>4. CASE r # q
      BY <1>0, <3>2, <3>4
    <3> QED
      BY <3>3, <3>4
  <2> QED
    BY <1>3, <2>1, <2>2 DEF syncPodsScale
<1>4. CASE addCreate("core")
  <2>1. PICK h : h = PreHash("core")
    OBVIOUS
  <2>2. /\ sets' = [sets EXCEPT !["core"][h] =
                       [born |-> clock + 1, want |-> Size,
                        tpl |-> mem.spec.tpl["core"]]]
        /\ ~Exists("core", h)
    BY <1>0, <1>4, <2>1 DEF addCreate
  <2>3. CASE r = h
    BY <1>0, <1>4, <2>1, <2>2, <2>3 DEF Exists
  <2>4. CASE r # h
    BY <1>0, <2>2, <2>4
  <2> QED
    BY <2>3, <2>4
<1>5. CASE addUpdate("core")
  <2>1. PICK q : q = mem.status.upd["core"]
    OBVIOUS
  <2>2. sets' = [sets EXCEPT !["core"][q].want = Size]
    BY <1>0, <1>5, <2>1 DEF addUpdate
  <2>3. CASE r = q
    BY <1>0, <1>5, <2>1, <2>2, <2>3 DEF CoreUpd
  <2>4. CASE r # q
    BY <1>0, <2>2, <2>4
  <2> QED
    BY <2>3, <2>4
<1>6. CASE addCreate("repl") \/ addUpdate("repl")
  BY <1>0, <1>6 DEF addCreate, addUpdate
<1> QED
  BY <1>1, <1>2, <1>3, <1>4, <1>5, <1>6, SetsChange DEF Kinds

\* What may happen to a pod: it is created for a set that asks for it, and a
\* core pod that runs is not taken away as long as its set asks for it.
LEMMA PodStep ==
    ASSUME IInv, [Next]_vars
    PROVE  /\ \A p \in pods' \ pods :
                 /\ p \in Pod /\ Exists(p[1], p[2])
                 /\ p[1] = "core" => p[3] <= Want(p[2])
           /\ served' # "excused" =>
                 \A p \in up \ up' : p[1] = "core" => p[3] > Want(p[2])
<1>1. CASE CreatePod
  BY <1>1 DEF CreatePod, Want
<1>2. CASE DeletePod
  BY <1>2 DEF DeletePod, Want
<1>3. CASE PodUp \/ PodDown
  BY <1>3 DEF PodUp, PodDown
<1>4. CASE pods' = pods /\ up' = up
  BY <1>4
<1>5. \/ CreatePod \/ DeletePod \/ PodUp \/ PodDown
      \/ pods' = pods /\ up' = up
  BY DEF Next, SubReconcilers, Environment, Start, updatePodConditions,
         updateStatus, updateStatusCurrent, updateStatusNoRequester,
         updateStatusNodes, addCore, addRepl, addNodes, addNothing, addCreate,
         addRevert, addCollide, addUpdate, updateEMQXStatus, syncPodsScale,
         ScaleDown, syncPodsRefused, syncPodsWait, syncSets, PassFails, Edit,
         vars, podVars
<1> QED
  BY <1>1, <1>2, <1>3, <1>4, <1>5

\* The status updateStatus stores when it replaces a current revision, and
\* the one it stores with a list of nodes.
WithCurrent(k) ==
    LET st == Refreshed(mem.status, mem.spec)
    IN  [st EXCEPT !.cur[k] = NextCurrent(k, st)]

WithNodes(nodes) ==
    LET s == [Refreshed(mem.status, mem.spec) EXCEPT !.nodes = nodes]
    IN  [s EXCEPT !.conds = NextStatus(@, Observe(s, mem.spec))]

SeenFull == FullNow(Refreshed(mem.status, mem.spec), mem.spec)

\* The current revision after updateStatus has set a missing one.
FirstCur == IF CoreCur(mem.status) = NoRev THEN CoreUpd(mem.status)
                                           ELSE CoreCur(mem.status)

\* What a refreshed status has of the one it comes from.
LEMMA RefreshedCore ==
    ASSUME IInv
    PROVE  LET st == Refreshed(mem.status, mem.spec)
           IN  /\ st \in Statuses /\ st.conds = mem.status.conds
               /\ st.upd = mem.status.upd /\ st.coll = mem.status.coll
               /\ st.nodes = mem.status.nodes
               /\ CoreUpd(st) = CoreUpd(mem.status) /\ CoreCur(st) = FirstCur
<1>1. mem.status \in Statuses
  BY Typed
<1>2. Refreshed(mem.status, mem.spec) \in Statuses
  BY RefreshedCopy DEF SettledStatuses
<1> QED
  BY <1>1, <1>2 DEF Refreshed, Statuses, FirstCur, CoreCur, CoreUpd, Kinds

LEMMA WithCurrentIs ==
    ASSUME IInv, NEW k \in Kinds
    PROVE  LET st == WithCurrent(k)
           IN  /\ st.conds = mem.status.conds /\ st.nodes = mem.status.nodes
               /\ CoreUpd(st) = CoreUpd(mem.status)
               /\ CoreColl(st) = CoreColl(mem.status)
               /\ k # "core" => CoreCur(st) = FirstCur
<1> DEFINE st == Refreshed(mem.status, mem.spec)
<1>1. /\ st \in Statuses /\ st.conds = mem.status.conds
      /\ st.upd = mem.status.upd /\ st.coll = mem.status.coll
      /\ st.nodes = mem.status.nodes /\ CoreCur(st) = FirstCur
  BY RefreshedCore
<1>2. WithCurrent(k) = [st EXCEPT !.cur[k] = NextCurrent(k, st)]
  BY DEF WithCurrent
<1> HIDE DEF st
<1> QED
  BY <1>1, <1>2 DEF Statuses, CoreUpd, CoreColl, CoreCur, Kinds

LEMMA WithNodesIs ==
    ASSUME IInv, NEW nodes
    PROVE  LET st == WithNodes(nodes)
               s == [Refreshed(mem.status, mem.spec) EXCEPT !.nodes = nodes]
           IN  /\ st.nodes = nodes
               /\ st.conds = NextStatus(mem.status.conds, Observe(s, mem.spec))
               /\ CoreUpd(st) = CoreUpd(mem.status)
               /\ CoreColl(st) = CoreColl(mem.status)
               /\ CoreCur(st) = FirstCur
               /\ s.upd = mem.status.upd
<1> DEFINE st == Refreshed(mem.status, mem.spec)
           s == [st EXCEPT !.nodes = nodes]
           c == NextStatus(s.conds, Observe(s, mem.spec))
<1>1. /\ st \in Statuses /\ st.conds = mem.status.conds
      /\ st.upd = mem.status.upd /\ st.coll = mem.status.coll
      /\ CoreCur(st) = FirstCur
  BY RefreshedCore
<1>2. WithNodes(nodes) = [s EXCEPT !.conds = c]
  BY DEF WithNodes
<1> HIDE DEF st
<1>3. /\ s.nodes = nodes /\ s.conds = st.conds /\ s.upd = st.upd
      /\ s.coll = st.coll /\ s.cur = st.cur
      /\ [s EXCEPT !.conds = c].conds = c
      /\ [s EXCEPT !.conds = c].nodes = nodes
      /\ [s EXCEPT !.conds = c].upd = st.upd
      /\ [s EXCEPT !.conds = c].coll = st.coll
      /\ [s EXCEPT !.conds = c].cur = st.cur
  BY <1>1 DEF Statuses
<1>4. c = NextStatus(mem.status.conds, Observe(s, mem.spec))
  BY <1>1, <1>3
<1> HIDE DEF s, c
<1> QED
  BY <1>1, <1>2, <1>3, <1>4 DEF CoreUpd, CoreColl, CoreCur, s, st

\* The ways updateStatus ends.
LEMMA UpdateForms ==
    ASSUME NEW at, NEW next, updateStatus(at, next)
    PROVE  /\ pc = at
           /\ UNCHANGED <<sets, clock, pods, up, gate, edits>>
           /\ \/ \E k \in Kinds :
                    /\ NeedsCurrent(k, Refreshed(mem.status, mem.spec))
                    /\ StatusUpdate(WithCurrent(k), next, {})
                    /\ served' = served
              \/ /\ ~req /\ pc' = next
                 /\ UNCHANGED <<cr, prev, base, req, proven, served>>
                 /\ mem' = [mem EXCEPT !.status =
                                           Refreshed(mem.status, mem.spec)]
              \/ /\ req /\ StatusUpdate(WithNodes(up), next, SeenFull)
                 /\ Record(SeenFull)
              \/ /\ StatusUpdate(WithNodes({}), next, SeenFull)
                 /\ served' = "excused"
              \/ EndPass /\ UNCHANGED <<cr, prev, proven, served>>
BY DEF updateStatus, updateStatusCurrent, updateStatusNoRequester,
       updateStatusNodes, WithCurrent, WithNodes, SeenFull, setVars, podVars,
       crVars, histVars

\* A status write: stored, or refused because the copy is not of the stored
\* version.
LEMMA Written ==
    ASSUME IInv, NEW st, NEW next, NEW full, StatusUpdate(st, next, full)
    PROVE  \/ /\ base = cr /\ cr'.status = st
              /\ st = cr.status => cr' = cr /\ prev' = prev
              /\ st # cr.status => prev' = cr
              /\ mem' = cr' /\ base' = cr' /\ pc' = next /\ req' = req
              /\ proven' = (proven \ Renewed(st)) \cup full
           \/ base # cr /\ EndPass /\ cr' = cr /\ prev' = prev /\ proven' = proven
<1> DEFINE new == [cr EXCEPT !.status = st]
<1>1. /\ new.status = st /\ st = cr.status => new = cr
      /\ new.status = st
  BY Typed, Rewritten
<1>2. CASE base = cr
  <2>1. /\ Store(new) /\ mem' = new /\ base' = new /\ pc' = next /\ req' = req
        /\ proven' = (proven \ Renewed(st)) \cup full
    BY <1>2 DEF StatusUpdate
  <2>2. new = cr => st = cr.status
    BY <1>1
  <2>3. cr' = new /\ prev' = IF new = cr THEN prev ELSE cr
    BY <2>1 DEF Store
  <2> HIDE DEF new
  <2> QED
    BY <1>1, <1>2, <2>1, <2>2, <2>3
<1>3. CASE base # cr
  BY <1>3 DEF StatusUpdate, crVars
<1> QED
  BY <1>2, <1>3

\* A pass that ends leaves no copy of the resource.
LEMMA Ended ==
    ASSUME EndPass
    PROVE  /\ mem' = InitCR /\ base' = InitCR /\ pc' = "idle" /\ req' = FALSE
           /\ InitCR.status.nodes = {} /\ CoreColl(InitCR.status) = 0
           /\ CoreUpd(InitCR.status) = NoRev /\ CoreCur(InitCR.status) = NoRev
           /\ InitCR.status.conds.held = {}
BY DEF EndPass, InitCR, InitStatus, NoConditions, CoreColl, CoreUpd, CoreCur,
       Kinds

\* A collision of revisions.
LEMMA Collided ==
    ASSUME IInv, NEW k \in Kinds, addCollide(k)
    PROVE  /\ pc = AddStep(k) /\ MayAdd(k) /\ EndPass
           /\ UNCHANGED <<sets, clock, pods, up, gate, proven, served>>
           /\ \/ cr' = cr /\ prev' = prev
              \/ /\ base = cr /\ prev' = cr
                 /\ cr'.status.conds = mem.status.conds
                 /\ cr'.status.nodes = mem.status.nodes
                 /\ CoreUpd(cr'.status) = CoreUpd(mem.status)
                 /\ CoreCur(cr'.status) = CoreCur(mem.status)
                 /\ CoreColl(cr'.status) = IF k = "core"
                                           THEN CoreColl(mem.status) + 1
                                           ELSE CoreColl(mem.status)
<1> DEFINE st == [mem.status EXCEPT !.coll[k] = @ + 1]
           new == [cr EXCEPT !.status = st]
<1>1. /\ pc = AddStep(k) /\ MayAdd(k) /\ EndPass
      /\ UNCHANGED <<sets, clock, pods, up, gate, proven, served>>
      /\ (base = cr /\ Store(new)) \/ UNCHANGED crVars
  BY DEF addCollide, setVars, podVars, histVars
<1>2. mem.status \in Statuses
  BY Typed
<1>3. /\ st.conds = mem.status.conds /\ st.nodes = mem.status.nodes
      /\ CoreUpd(st) = CoreUpd(mem.status) /\ CoreCur(st) = CoreCur(mem.status)
      /\ CoreColl(st) = IF k = "core" THEN CoreColl(mem.status) + 1
                                      ELSE CoreColl(mem.status)
  BY <1>2 DEF Statuses, CoreUpd, CoreCur, CoreColl, Kinds
<1> HIDE DEF st
<1>4. new.status = st
  BY Typed, Rewritten
<1> HIDE DEF new
<1>5. CASE base = cr /\ Store(new)
  BY <1>1, <1>3, <1>4, <1>5 DEF Store
<1>6. CASE UNCHANGED crVars
  BY <1>1, <1>6 DEF crVars
<1> QED
  BY <1>1, <1>5, <1>6

\* What the status of a begun update has of the one it comes from.
LEMMA ProgressingIs ==
    ASSUME NEW k \in Kinds, NEW st \in Statuses, NEW h
    PROVE  LET new == Progressing(k, st, h)
           IN  /\ new.nodes = st.nodes
               /\ CoreColl(new) = CoreColl(st) /\ CoreCur(new) = CoreCur(st)
               /\ CoreUpd(new) = IF k = "core" THEN h ELSE CoreUpd(st)
               /\ ~CoreDone(new)
               /\ CoreReady(new) => k # "core" /\ CoreReady(st)
               /\ new.conds.last \notin {NoCond, "Initialized"}
<1> DEFINE t == IF k = "core" THEN "CoreNodesProgressing"
                              ELSE "ReplicantNodesProgressing"
           T == {"Ready", "Available",
                 IF k = "core" THEN "CoreNodesReady"
                               ELSE "ReplicantNodesReady"}
           d == SetCondition(st.conds, t)
           c == RemoveConditions(d, T)
           new == [st EXCEPT !.conds = c, !.upd[k] = h]
<1>1. st.conds \in Conditions /\ t \in CondTypes
  BY DEF Statuses, CondTypes
<1>2. d \in Conditions /\ d.held = st.conds.held \cup {t} /\ d.last = t
  <2> HIDE DEF t
  <2> QED
    BY <1>1, SetConditionType, SetConditionIs
<1>3. c.held = d.held \ T /\ c.last = d.last
  <2> HIDE DEF d, T
  <2> QED
    BY <1>2, RemoveConditionsIs
<1>4. /\ "Available" \notin c.held
      /\ "CoreNodesReady" \in c.held
           => k # "core" /\ "CoreNodesReady" \in st.conds.held
      /\ c.last \notin {NoCond, "Initialized"}
  BY <1>2, <1>3 DEF NoCond
<1>5. Progressing(k, st, h) = new
  BY DEF Progressing, Statuses
<1> HIDE DEF c
<1>6. /\ new.conds = c /\ new.nodes = st.nodes /\ CoreColl(new) = CoreColl(st)
      /\ CoreCur(new) = CoreCur(st)
      /\ CoreUpd(new) = IF k = "core" THEN h ELSE CoreUpd(st)
  BY DEF Statuses, CoreColl, CoreCur, CoreUpd, Kinds
<1> HIDE DEF new
<1> QED
  BY <1>4, <1>5, <1>6 DEF CoreDone, CoreReady

\* updateEMQXStatus, its write stored or lost.
LEMMA Progressed ==
    ASSUME IInv, NEW k \in Kinds, updateEMQXStatus(k)
    PROVE  /\ pc = StatusStep(k) /\ pc' = AfterAdd(k)
           /\ UNCHANGED <<sets, clock, pods, up, gate, req, served>>
           /\ proven' \subseteq proven
           /\ \E got \in {cr, prev} :
                /\ mem'.status.nodes = got.status.nodes
                /\ CoreColl(mem'.status) = CoreColl(got.status)
                /\ CoreCur(mem'.status) = CoreCur(got.status)
                /\ CoreUpd(mem'.status) = IF k = "core" THEN PreHash("core")
                                          ELSE CoreUpd(got.status)
                /\ ~CoreDone(mem'.status)
                /\ CoreReady(mem'.status) => k # "core" /\ CoreReady(got.status)
                /\ mem'.status.conds.last \notin {NoCond, "Initialized"}
                /\ \/ /\ got = cr /\ cr' = mem' /\ base' = mem'
                      /\ prev' = cr \/ (cr' = cr /\ prev' = prev)
                   \/ base' = got /\ cr' = cr /\ prev' = prev
<1> DEFINE new(v) == [v EXCEPT !.status = Progressing(k, @, PreHash(k))]
<1>1. /\ pc = StatusStep(k) /\ pc' = AfterAdd(k)
      /\ UNCHANGED <<sets, clock, pods, up, gate, req, served>>
      /\ \/ /\ Store(new(cr)) /\ mem' = new(cr) /\ base' = new(cr)
            /\ proven' = proven \ Renewed(new(cr).status)
         \/ /\ cr' = cr /\ prev' = prev /\ proven' = proven
            /\ \E got \in Readable : mem' = new(got) /\ base' = got
  BY DEF updateEMQXStatus, setVars, podVars, crVars
<1>2. ASSUME NEW got \in {cr, prev}, mem' = new(got)
      PROVE  /\ mem'.status.nodes = got.status.nodes
             /\ CoreColl(mem'.status) = CoreColl(got.status)
             /\ CoreCur(mem'.status) = CoreCur(got.status)
             /\ CoreUpd(mem'.status) = IF k = "core" THEN PreHash("core")
                                       ELSE CoreUpd(got.status)
             /\ ~CoreDone(mem'.status)
             /\ CoreReady(mem'.status) => k # "core" /\ CoreReady(got.status)
             /\ mem'.status.conds.last \notin {NoCond, "Initialized"}
  <2>1. got \in SettledResources /\ got.status \in Statuses
    BY Typed
  <2>2. mem'.status = Progressing(k, got.status, PreHash(k))
    BY <1>2, <2>1 DEF SettledResources
  <2> QED
    BY <2>1, <2>2, ProgressingIs
<1> HIDE DEF new
<1>3. CASE /\ Store(new(cr)) /\ mem' = new(cr) /\ base' = new(cr)
           /\ proven' = proven \ Renewed(new(cr).status)
  BY <1>1, <1>2, <1>3 DEF Store
<1>4. CASE /\ cr' = cr /\ prev' = prev /\ proven' = proven
           /\ \E got \in Readable : mem' = new(got) /\ base' = got
  <2>1. PICK got \in {cr, prev} : mem' = new(got) /\ base' = got
    BY <1>4 DEF Readable
  <2> QED
    BY <1>1, <1>2, <1>4, <2>1
<1> QED
  BY <1>1, <1>3, <1>4

\* An edit.
LEMMA Edited ==
    ASSUME IInv, Edit
    PROVE  /\ cr'.status = cr.status /\ prev' = cr
           /\ UNCHANGED <<sets, clock, pods, up, gate, pc, mem, base, req,
                          proven, served>>
<1>1. PICK s : s # cr.spec /\ Store([cr EXCEPT !.spec = s])
  BY DEF Edit
<1>2. cr \in SettledResources
  BY Typed
<1>3. [cr EXCEPT !.spec = s].status = cr.status /\ [cr EXCEPT !.spec = s] # cr
  BY <1>1, <1>2 DEF SettledResources
<1> QED
  BY <1>1, <1>3 DEF Store, Edit, setVars, podVars, memVars, histVars

\* A step that leaves the versions and the copies as they are.
QuietStep ==
    /\ UNCHANGED <<cr, prev, mem, base, req>>
    /\ pc' \in {"idle", "addCore", "syncPods"} => pc' = pc
    /\ pc = "idle" => pc' = "idle"
    /\ pc' = "coreStatus" =>
          \/ pc = "coreStatus" /\ sets' = sets
          \/ /\ pc = "addCore"
             /\ addCreate("core") \/ addRevert("core") \/ addUpdate("core")

\* How the versions and the copies of the resource may change.
LEMMA CopyStep ==
    ASSUME [Next]_vars
    PROVE  \/ QuietStep
           \/ EndPass /\ cr' = cr /\ prev' = prev
           \/ Start
           \/ updateStatus("status1", "addCore")
           \/ updateStatus("status2", "syncPods")
           \/ \E k \in Kinds : addCollide(k) \/ updateEMQXStatus(k)
           \/ Edit
<1>1. CASE addCore
  <2>1. \/ addNothing("core") \/ addCreate("core") \/ addRevert("core")
        \/ addUpdate("core") \/ addCollide("core") \/ updateEMQXStatus("core")
    BY <1>1 DEF addCore, addNodes
  <2>2. CASE \/ addNothing("core") \/ addCreate("core") \/ addRevert("core")
             \/ addUpdate("core")
    BY <2>2 DEF addNothing, addCreate, addRevert, addUpdate, QuietStep, crVars,
                memVars, AddStep, StatusStep, AfterAdd
  <2> QED
    BY <2>1, <2>2 DEF Kinds
<1>2. CASE addRepl
  <2>1. \/ addNothing("repl") \/ addCreate("repl") \/ addRevert("repl")
        \/ addUpdate("repl") \/ addCollide("repl") \/ updateEMQXStatus("repl")
    BY <1>2 DEF addRepl, addNodes
  <2>2. CASE \/ addNothing("repl") \/ addCreate("repl") \/ addRevert("repl")
             \/ addUpdate("repl")
    BY <2>2 DEF addNothing, addCreate, addRevert, addUpdate, QuietStep, crVars,
                memVars, AddStep, StatusStep, AfterAdd
  <2> QED
    BY <2>1, <2>2 DEF Kinds
<1>3. CASE \/ updatePodConditions("conds1", "status1")
           \/ updatePodConditions("conds2", "status2")
           \/ syncPodsScale \/ syncPodsWait
  BY <1>3 DEF updatePodConditions, syncPodsScale, ScaleDown, syncPodsWait,
              QuietStep, crVars, memVars
<1>4. CASE \/ CreatePod \/ DeletePod \/ PodUp \/ PodDown \/ UNCHANGED vars
  BY <1>4 DEF CreatePod, DeletePod, PodUp, PodDown, vars, QuietStep, crVars,
              memVars, setVars
<1>5. CASE syncPodsRefused \/ syncSets \/ PassFails
  BY <1>5 DEF syncPodsRefused, syncSets, PassFails, crVars
<1> QED
  BY <1>1, <1>2, <1>3, <1>4, <1>5 DEF Next, SubReconcilers, Environment

\* Copies keep agreeing, and the collision count only grows.
LEMMA NextCopiesAgree ==
    ASSUME IInv, CopiesAgree, [Next]_vars
    PROVE  CopiesAgree' /\ CoreColl(cr.status) <= CoreColl(cr'.status)
<1>0. \A v \in {cr, prev, mem, base} : CoreColl(v.status) \in Nat
  BY Typed
<1>1. CASE QuietStep
  BY <1>0, <1>1 DEF CopiesAgree, QuietStep
<1>2. CASE EndPass /\ cr' = cr /\ prev' = prev
  BY <1>0, <1>2, Ended DEF CopiesAgree
<1>3. CASE Start
  BY <1>0, <1>3 DEF CopiesAgree, Start, Readable, crVars
<1>4. ASSUME NEW at, NEW next, updateStatus(at, next)
      PROVE  CopiesAgree' /\ CoreColl(cr.status) <= CoreColl(cr'.status)
  <2>1. ASSUME NEW st, NEW full, StatusUpdate(st, next, full),
               CoreColl(st) = CoreColl(mem.status)
        PROVE  CopiesAgree' /\ CoreColl(cr.status) <= CoreColl(cr'.status)
    <3>1. CASE base # cr /\ EndPass /\ cr' = cr /\ prev' = prev
      BY <1>2, <3>1
    <3>2. CASE /\ base = cr /\ cr'.status = st /\ mem' = cr' /\ base' = cr'
               /\ st = cr.status => cr' = cr /\ prev' = prev
               /\ st # cr.status => prev' = cr
      BY <1>0, <2>1, <3>2 DEF CopiesAgree
    <3> QED
      BY <2>1, <3>1, <3>2, Written
  <2>2. ASSUME NEW k \in Kinds, StatusUpdate(WithCurrent(k), next, {})
        PROVE  CopiesAgree' /\ CoreColl(cr.status) <= CoreColl(cr'.status)
    BY <2>1, <2>2, WithCurrentIs
  <2>3. ASSUME NEW nodes, StatusUpdate(WithNodes(nodes), next, SeenFull)
        PROVE  CopiesAgree' /\ CoreColl(cr.status) <= CoreColl(cr'.status)
    BY <2>1, <2>3, WithNodesIs
  <2>4. CASE /\ UNCHANGED <<cr, prev, base>>
             /\ mem' = [mem EXCEPT !.status = Refreshed(mem.status, mem.spec)]
    <3>1. mem'.status = Refreshed(mem.status, mem.spec)
      BY <2>4, Typed, Rewritten
    <3>2. /\ CoreColl(mem'.status) = CoreColl(mem.status)
          /\ mem'.status.nodes = mem.status.nodes
      BY <3>1, RefreshedCore DEF CoreColl
    <3> QED
      BY <1>0, <2>4, <3>2 DEF CopiesAgree
  <2> QED
    BY <1>2, <1>4, <2>2, <2>3, <2>4, UpdateForms
<1>5. ASSUME NEW k \in Kinds, addCollide(k)
      PROVE  CopiesAgree' /\ CoreColl(cr.status) <= CoreColl(cr'.status)
  <2>1. /\ EndPass
        /\ \/ cr' = cr /\ prev' = prev
           \/ /\ base = cr /\ prev' = cr
              /\ CoreColl(cr'.status) \in {CoreColl(mem.status),
                                           CoreColl(mem.status) + 1}
    BY <1>5, Collided
  <2>2. CASE base = cr /\ prev' = cr
    <3>1. CoreColl(mem.status) = CoreColl(cr.status)
      BY <2>2 DEF CopiesAgree
    <3> QED
      BY <1>0, <1>2, <2>1, <2>2, <3>1, Ended DEF CopiesAgree
  <2> QED
    BY <1>2, <2>1, <2>2
<1>6. ASSUME NEW k \in Kinds, updateEMQXStatus(k)
      PROVE  CopiesAgree' /\ CoreColl(cr.status) <= CoreColl(cr'.status)
  BY <1>0, <1>6, Progressed DEF CopiesAgree
<1>7. CASE Edit
  BY <1>0, <1>7, Edited DEF CopiesAgree
<1> QED
  BY <1>1, <1>2, <1>3, <1>4, <1>5, <1>6, <1>7, CopyStep

\* StatefulSets keep their names and sizes, and pods have a set.
LEMMA NextSetsAgree ==
    ASSUME SameSize, IInv, EarnedInv, Ground, [Next]_vars,
           CoreColl(cr.status) <= CoreColl(cr'.status)
    PROVE  SetsAgree'
<1>0. /\ CoreColl(cr.status) \in Nat /\ CoreColl(cr'.status) \in Int
      /\ CoreColl(mem.status) \in Nat
      /\ \A r \in Rev : r[2] \in Nat /\ Want(r) \in Nat
      /\ Size \in Nat
  <2>1. \A r \in Rev : r[2] \in Nat /\ Want(r) \in Nat
    BY ConstantsAssumption
       DEF Rev, Want, IInv, SetsOK, SetRecords, Kinds
  <2>2. CoreColl(cr'.status) \in Nat
    <3>1. MaxCollision \in Nat
      BY ConstantsAssumption
    <3>2. cr'.status \in Statuses
      BY NextIInv
         DEF IInv, CopiesOK, SettledResources, SettledStatuses
    <3> QED
      BY <3>1, <3>2 DEF Statuses, CoreColl, Kinds
  <2> QED
    BY <2>1, <2>2, AskedSize, Typed
<1>1. ASSUME NEW r \in Rev, CoreSet(r)'
      PROVE  /\ r[1] = Digest[sets'["core"][r].tpl]
             /\ r[2] <= CoreColl(cr'.status)
             /\ Want(r)' <= Size
  <2>1. CASE ~CoreSet(r)
    <3>1. /\ r = PreHash("core") /\ Want(r)' = Size
          /\ sets'["core"][r].tpl = mem.spec.tpl["core"]
      BY <1>1, <2>1, CoreStep
    <3>2. /\ r[1] = Digest[mem.spec.tpl["core"]]
          /\ r[2] = CoreColl(mem.status)
      BY <3>1 DEF PreHash, CoreColl
    <3>3. CoreColl(mem.status) <= CoreColl(cr.status)
      BY DEF Ground, CopiesAgree
    <3> QED
      BY <1>0, <3>1, <3>2, <3>3
  <2>2. CASE CoreSet(r)
    <3>1. /\ r[1] = Digest[sets["core"][r].tpl]
          /\ r[2] <= CoreColl(cr.status) /\ Want(r) <= Size
      BY <2>2 DEF Ground, SetsAgree
    <3>2. /\ sets'["core"][r].tpl = sets["core"][r].tpl
          /\ \/ Want(r)' = Want(r) \/ Want(r)' = Size
             \/ Want(r)' = Want(r) - 1
      BY <1>1, <2>2, CoreStep
    <3> QED
      BY <1>0, <3>1, <3>2
  <2> QED
    BY <2>1, <2>2
<1>2. ASSUME NEW p \in pods', p[1] = "core"
      PROVE  CoreSet(p[2])' /\ p[3] <= Size
  <2>1. p \in pods \/ p \in pods' \ pods
    OBVIOUS
  <2>2. /\ p \in Pod /\ CoreSet(p[2]) /\ p[3] <= Size
    <3>1. CASE p \in pods
      BY <1>2, <3>1 DEF Ground, SetsAgree, IInv, PodsOK
    <3>2. CASE p \in pods' \ pods
      <4>1. p \in Pod /\ CoreSet(p[2]) /\ p[3] <= Want(p[2])
        BY <1>2, <3>2, PodStep DEF CoreSet
      <4>2. p[2] \in Rev /\ p[3] \in Nat
        BY <4>1, ConstantsAssumption DEF Pod, Idx
      <4>3. Want(p[2]) <= Size
        BY <4>1, <4>2 DEF Ground, SetsAgree
      <4> QED
        BY <1>0, <4>1, <4>2, <4>3
    <3> QED
      BY <2>1, <3>1, <3>2
  <2>3. p[2] \in Rev
    BY <2>2 DEF Pod
  <2>4. ASSUME ~CoreSet(p[2])' PROVE FALSE
    <3>1. syncSets /\ SetPods("core", p[2]) = {}
      BY <2>2, <2>3, <2>4, CoreStep
    <3>2. pods' = pods
      BY <3>1 DEF syncSets, podVars
    <3> QED
      BY <1>2, <3>1, <3>2 DEF SetPods
  <2> QED
    BY <2>2, <2>4
<1> QED
  BY <1>1, <1>2 DEF SetsAgree

-----------------------------------------------------------------------------
(* The gates, and what is known before a set has been ready.               *)

\* How the gates are set when no call to the EMQX API fails.
LEMMA GatesSet ==
    ASSUME NEW at, NEW next, updatePodConditions(at, next),
           served' # "excused"
    PROVE  /\ pc = at /\ pc' = next
           /\ UNCHANGED <<cr, prev, mem, base, req, sets, clock, pods, up,
                          proven, served>>
           /\ gate' \subseteq gate \cup up
           /\ \A p \in gate' :
                 p \in up /\ p[1] = "core" /\ p[2] = CoreUpd(mem.status)
                    => p \in mem.status.nodes
           /\ req => \A p \in gate \ gate' : p[1] = "core" =>
                 \/ p[2] = CoreUpd(mem.status) /\ p \notin mem.status.nodes
                 \/ /\ CoreDone(mem.status) /\ p[2] = CoreCur(mem.status)
                    /\ p[2] # CoreUpd(mem.status)
<1> DEFINE ofUpdate == {p \in up : p[2] = mem.status.upd[p[1]]}
           retired == IF IsConditionTrue(mem.status.conds, "Available")
                      THEN {p \in up : p[2] = mem.status.cur[p[1]]} \ ofUpdate
                      ELSE {}
           joined == {p \in ofUpdate : InCluster(p)}
<1>1. /\ pc = at /\ pc' = next
      /\ UNCHANGED <<cr, prev, mem, base, req, sets, clock, pods, up, proven>>
      /\ served' = served
      /\ \/ gate' = (gate \ (ofUpdate \cup retired)) \cup joined
         \/ ~req /\ gate' = (gate \ (ofUpdate \cup retired)) \cup {}
  BY DEF updatePodConditions, crVars, setVars, memVars
<1>2. \A p \in joined : p \in mem.status.nodes /\ p \in up
  BY DEF InCluster
<1>3. \A p \in ofUpdate \ joined : p[1] = "core" => p \notin mem.status.nodes
  BY DEF InCluster
<1>4. \A p \in retired : p[1] = "core" =>
         CoreDone(mem.status) /\ p[2] = CoreCur(mem.status) /\ p \in up
         /\ p[2] # CoreUpd(mem.status)
  BY DEF IsConditionTrue, CoreDone, CoreCur, CoreUpd
<1>5. \A p \in up : p[1] = "core" =>
         (p \in ofUpdate <=> p[2] = CoreUpd(mem.status))
  BY DEF CoreUpd
<1>6. \A p \in ofUpdate \cup retired : p \in up
  OBVIOUS
<1> HIDE DEF ofUpdate, retired, joined
<1> QED
  BY <1>1, <1>2, <1>3, <1>4, <1>5, <1>6

\* How else the gates, and the pass before it updates the status, may change.
LEMMA GateStep ==
    ASSUME [Next]_vars, served' # "excused"
    PROVE  \/ updatePodConditions("conds1", "status1")
           \/ updatePodConditions("conds2", "status2")
           \/ /\ gate' \subseteq gate /\ (gate \subseteq up => gate' \subseteq up')
              /\ gate \cap up' \subseteq gate'
              /\ pc' \in {"status1", "status2"} => pc' = pc /\ mem' = mem
<1>1. CASE CreatePod \/ DeletePod \/ PodUp \/ PodDown
  BY <1>1 DEF CreatePod, DeletePod, PodUp, PodDown, memVars
<1>2. CASE updateStatus("status1", "addCore") \/ updateStatus("status2", "syncPods")
  <2>1. UNCHANGED <<gate, up>> /\ pc' \in {"addCore", "syncPods", "idle"}
    BY <1>2 DEF updateStatus, updateStatusCurrent, updateStatusNoRequester,
                updateStatusNodes, StatusUpdate, EndPass, podVars
  <2> QED
    BY <2>1
<1>3. CASE addCore \/ addRepl
  <2>1. UNCHANGED <<gate, up>> /\ pc' \notin {"status1", "status2"}
    BY <1>3 DEF addCore, addRepl, addNodes, addNothing, addCreate, addRevert,
                addCollide, addUpdate, updateEMQXStatus, EndPass, StatusStep,
                AfterAdd, podVars
  <2> QED
    BY <2>1
<1>4. CASE \/ Start \/ syncPodsScale \/ syncPodsRefused \/ syncPodsWait
           \/ syncSets \/ PassFails
  <2>1. UNCHANGED <<gate, up>> /\ pc' \notin {"status1", "status2"}
    BY <1>4 DEF Start, syncPodsScale, ScaleDown, syncPodsRefused,
                syncPodsWait, syncSets, PassFails, EndPass, podVars
  <2> QED
    BY <2>1
<1>5. CASE Edit \/ UNCHANGED vars
  BY <1>5 DEF Edit, vars, podVars, memVars
<1> QED
  BY <1>1, <1>2, <1>3, <1>4, <1>5 DEF Next, SubReconcilers, Environment

\* Nothing ends the excuse.
LEMMA ServedStep ==
    ASSUME [Next]_vars, served' # "excused"
    PROVE  /\ served # "excused"
           /\ \/ served' = served /\ proven' \subseteq proven
              \/ \E at \in {"status1", "status2"}, next \in {"addCore", "syncPods"} :
                    /\ updateStatus(at, next) /\ req
                    /\ StatusUpdate(WithNodes(up), next, SeenFull)
                    /\ Record(SeenFull)
<1>1. CASE updateStatus("status1", "addCore") \/ updateStatus("status2", "syncPods")
  <2>1. PICK at \in {"status1", "status2"}, next \in {"addCore", "syncPods"} :
           updateStatus(at, next)
    BY <1>1
  <2>2. ASSUME NEW st, StatusUpdate(st, next, {}) PROVE proven' \subseteq proven
    BY <2>2 DEF StatusUpdate
  <2> QED
    BY <2>1, <2>2, UpdateForms DEF Record
<1>2. CASE addCore \/ addRepl
  BY <1>2 DEF addCore, addRepl, addNodes, addNothing, addCreate, addRevert,
              addCollide, addUpdate, updateEMQXStatus, histVars
<1> QED
  BY <1>1, <1>2 DEF Next, SubReconcilers, Environment, Start,
     updatePodConditions, syncPodsScale, ScaleDown, syncPodsRefused,
     syncPodsWait, syncSets, PassFails, Edit, CreatePod, DeletePod, PodUp,
     PodDown, vars, histVars

LEMMA NextGated ==
    ASSUME Gated, [Next]_vars, served' # "excused"
    PROVE  Gated'
<1>1. ASSUME NEW at, NEW next, updatePodConditions(at, next) PROVE Gated'
  <2>1. /\ UNCHANGED <<mem, up>> /\ gate' \subseteq up
        /\ \A p \in gate' :
              p \in up /\ p[1] = "core" /\ p[2] = CoreUpd(mem.status)
                 => p \in mem.status.nodes
    BY <1>1, GatesSet DEF Gated
  <2> QED
    BY <2>1 DEF Gated
<1>2. CASE /\ gate' \subseteq gate /\ (gate \subseteq up => gate' \subseteq up')
           /\ pc' \in {"status1", "status2"} => pc' = pc /\ mem' = mem
  BY <1>2 DEF Gated
<1> QED
  BY <1>1, <1>2, GateStep

\* A core pod whose set asks for all its pods stays up.
LEMMA StaysUp ==
    ASSUME SameSize, IInv, Ground, [Next]_vars, served' # "excused",
           NEW p \in up, p[1] = "core", Want(p[2]) = Size
    PROVE  p \in up'
<1>1. p \in pods /\ p \in Pod
  BY DEF IInv, PodsOK
<1>2. p[3] <= Size /\ p[3] \in Nat /\ Size \in Nat
  BY <1>1, AskedSize, ConstantsAssumption DEF Ground, SetsAgree, Pod, Idx
<1> QED
  BY <1>2, PodStep

\* A status with ready core nodes names a set that has been ready.
LEMMA ReadyIsProven ==
    ASSUME EarnedInv, NEW v \in {cr, prev, mem, base}
    PROVE  /\ CoreReady(v.status) => <<"core", CoreUpd(v.status)>> \in proven
           /\ CoreDone(v.status) => CoreReady(v.status)
BY DEF EarnedInv, Earned, Stands, CoreReady, CoreDone, CoreUpd

\* Before a set of core nodes has been ready, none is named ready.
LEMMA NoneReady ==
    ASSUME IInv, EarnedInv, Unserved, NEW v \in {cr, prev, mem, base},
           CoreReady(v.status)
    PROVE  FALSE
<1>1. <<"core", CoreUpd(v.status)>> \in proven
  BY ReadyIsProven
<1>2. CoreUpd(v.status) \in Rev
  BY <1>1 DEF IInv, HistOK
<1> QED
  BY <1>1, <1>2 DEF Unserved

LEMMA NextUnserved ==
    ASSUME SameSize, IInv, EarnedInv, Ground, Unserved, [Next]_vars,
           served = "no", served' = "no"
    PROVE  Unserved'
<1>1. ASSUME NEW r \in Rev, CoreSet(r)' PROVE Want(r)' = Size
  <2>1. ~ScaleDown("core")
    BY NoneReady, ReadyIsProven
       DEF ScaleDown, MaySync, IsConditionTrue, CoreDone
  <2> QED
    BY <1>1, <2>1, CoreStep DEF Unserved
<1>2. ASSUME NEW r \in Rev PROVE <<"core", r>> \notin proven'
  <2>1. CASE proven' \subseteq proven
    BY <2>1 DEF Unserved
  <2>2. ASSUME NEW at, NEW next, Record(SeenFull),
               StatusUpdate(WithNodes(up), next, SeenFull)
        PROVE  <<"core", r>> \notin proven'
    <3>1. <<"core", r>> \notin SeenFull
      BY <2>2 DEF Record
    <3>2. proven' \subseteq proven \cup SeenFull
      BY <2>2, Written
    <3> QED
      BY <3>1, <3>2 DEF Unserved
  <2> QED
    BY <2>1, <2>2, ServedStep
<1>3. CoreNodesIn(cr.status, up')
  <2> SUFFICES ASSUME NEW p \in cr.status.nodes, p[1] = "core" PROVE p \in up'
    BY DEF CoreNodesIn
  <2>1. p \in up /\ p[1] = "core"
    BY DEF Unserved, CoreNodesIn
  <2>2. p[2] \in Rev /\ CoreSet(p[2])
    BY <2>1 DEF Ground, SetsAgree, IInv, PodsOK, Pod
  <2>3. Want(p[2]) = Size
    BY <2>2 DEF Unserved
  <2> QED
    BY <2>1, <2>3, StaysUp
<1> DEFINE Lists == /\ CoreNodesIn(prev.status, cr.status.nodes)
                    /\ CoreNodesIn(cr.status, up)
                    /\ base = cr
                       \/ CoreNodesIn(base.status, prev.status.nodes)
<1>4. Lists
  BY DEF Unserved
<1>5. InitCR.status.nodes = {}
  BY DEF InitCR, InitStatus
<1>6. ASSUME QuietStep PROVE Lists'
  BY <1>3, <1>4, <1>6 DEF CoreNodesIn, QuietStep
<1>7. ASSUME EndPass /\ cr' = cr /\ prev' = prev PROVE Lists'
  BY <1>3, <1>4, <1>5, <1>7 DEF EndPass, CoreNodesIn
<1>8. ASSUME Start PROVE Lists'
  BY <1>3, <1>4, <1>8 DEF Start, Readable, crVars, CoreNodesIn
<1>9. ASSUME NEW at, NEW next, updateStatus(at, next) PROVE Lists'
  <2>1. up' = up
    BY <1>9, UpdateForms
  <2>2. ASSUME NEW k \in Kinds, StatusUpdate(WithCurrent(k), next, {})
        PROVE  Lists'
    <3>1. WithCurrent(k).nodes = mem.status.nodes
      BY WithCurrentIs
    <3>2. base = cr => mem.status.nodes = cr.status.nodes
      BY DEF Ground, CopiesAgree
    <3> QED
      BY <1>3, <1>4, <1>7, <2>2, <3>1, <3>2, Written DEF CoreNodesIn
  <2>3. ASSUME StatusUpdate(WithNodes(up), next, SeenFull) PROVE Lists'
    <3>1. WithNodes(up).nodes = up
      BY WithNodesIs
    <3> QED
      BY <1>3, <1>4, <1>7, <2>1, <2>3, <3>1, Written DEF CoreNodesIn
  <2>4. ASSUME UNCHANGED <<cr, prev, base>> PROVE Lists'
    BY <1>3, <1>4, <2>4 DEF CoreNodesIn
  <2> QED
    BY <1>7, <1>9, <2>2, <2>3, <2>4, UpdateForms
<1>10. ASSUME NEW k \in Kinds, addCollide(k) PROVE Lists'
  <2>1. base = cr => mem.status.nodes = cr.status.nodes
    BY DEF Ground, CopiesAgree
  <2> QED
    BY <1>3, <1>4, <1>5, <1>7, <1>10, <2>1, Collided DEF EndPass, CoreNodesIn
<1>11. ASSUME NEW k \in Kinds, updateEMQXStatus(k) PROVE Lists'
  BY <1>3, <1>4, <1>11, Progressed DEF CoreNodesIn
<1>12. ASSUME Edit PROVE Lists'
  BY <1>3, <1>4, <1>12, Edited DEF CoreNodesIn
<1>13. Lists'
  BY <1>6, <1>7, <1>8, <1>9, <1>10, <1>11, <1>12, CopyStep
<1> QED
  BY <1>1, <1>2, <1>13 DEF Unserved

LEMMA NextBegun ==
    ASSUME IInv, Begun, [Next]_vars
    PROVE  Begun'
<1>1. ASSUME QuietStep PROVE Begun'
  BY <1>1 DEF Begun, QuietStep
<1>2. ASSUME EndPass, cr' = cr, prev' = prev PROVE Begun'
  BY <1>2, Ended DEF Begun
<1>3. ASSUME Start PROVE Begun'
  BY <1>3 DEF Begun, Start, Readable, crVars
<1>4. ASSUME NEW at, NEW next, updateStatus(at, next) PROVE Begun'
  <2>1. ASSUME NEW st, NEW full, StatusUpdate(st, next, full),
               CoreUpd(st) = CoreUpd(mem.status),
               st.conds.last \notin {NoCond, "Initialized"}
                 \/ st.conds = mem.status.conds
        PROVE  Begun'
    <3>1. CASE base # cr /\ EndPass /\ cr' = cr /\ prev' = prev
      BY <1>2, <3>1
    <3>2. CASE /\ base = cr /\ cr'.status = st /\ mem' = cr' /\ base' = cr'
               /\ prev' \in {cr, prev}
      BY <2>1, <3>2 DEF Begun
    <3> QED
      BY <2>1, <3>1, <3>2, Written
  <2>2. ASSUME NEW k \in Kinds, StatusUpdate(WithCurrent(k), next, {})
        PROVE  Begun'
    BY <2>1, <2>2, WithCurrentIs
  <2>3. ASSUME NEW nodes, StatusUpdate(WithNodes(nodes), next, SeenFull)
        PROVE  Begun'
    <3>1. mem.status.conds \in Conditions
      BY Typed DEF Statuses
    <3>2. PICK o : WithNodes(nodes).conds = NextStatus(mem.status.conds, o)
      BY WithNodesIs
    <3>3. WithNodes(nodes).conds.last \notin {NoCond, "Initialized"}
      BY <3>1, <3>2, MachineStarts
    <3> QED
      BY <2>1, <2>3, <3>3, WithNodesIs
  <2>4. ASSUME UNCHANGED <<cr, prev, base>>,
               mem' = [mem EXCEPT !.status = Refreshed(mem.status, mem.spec)]
        PROVE  Begun'
    <3>1. mem'.status = Refreshed(mem.status, mem.spec)
      BY <2>4, Typed, Rewritten
    <3>2. /\ CoreUpd(mem'.status) = CoreUpd(mem.status)
          /\ mem'.status.conds = mem.status.conds
      BY <3>1, RefreshedCore
    <3> QED
      BY <2>4, <3>2 DEF Begun
  <2> QED
    BY <1>2, <1>4, <2>2, <2>3, <2>4, UpdateForms
<1>5. ASSUME NEW k \in Kinds, addCollide(k) PROVE Begun'
  BY <1>5, Collided, Ended DEF Begun
<1>6. ASSUME NEW k \in Kinds, updateEMQXStatus(k) PROVE Begun'
  BY <1>6, Progressed DEF Begun
<1>7. ASSUME Edit PROVE Begun'
  BY <1>7, Edited DEF Begun
<1> QED
  BY <1>1, <1>2, <1>3, <1>4, <1>5, <1>6, <1>7, CopyStep

-----------------------------------------------------------------------------
(* The first keeper.                                                       *)

\* What updateStatus sees of a set that has all its core pods ready.
LEMMA SeenCore ==
    ASSUME SameSize, IInv, EarnedInv, NEW kr \in SeenFull, kr[1] = "core"
    PROVE  LET r == CoreUpd(mem.status)
           IN  /\ r \in Rev /\ CoreSet(r)
               /\ Cardinality(ReadyPods("core", r)) = Size
<1> DEFINE st == Refreshed(mem.status, mem.spec)
<1>1. /\ Exists("core", st.upd["core"])
      /\ Cardinality(ReadyPods("core", st.upd["core"])) = mem.spec.n["core"]
  BY DEF SeenFull, FullNow
<1>2. st.upd["core"] = CoreUpd(mem.status)
  BY RefreshedCore DEF CoreUpd
<1>3. mem.spec.n["core"] = Size
  BY AskedSize DEF EarnedInv
<1> HIDE DEF st
<1> QED
  BY <1>1, <1>2, <1>3 DEF CoreSet, Exists

\* A full update set is listed when the status is updated.
LEMMA FullIsListed ==
    ASSUME SameSize, IInv, Ground, Gated, pc \in {"status1", "status2"},
           Cardinality(ReadyPods("core", CoreUpd(mem.status))) = Size
    PROVE  /\ FullSet(CoreUpd(mem.status)) \subseteq up \cap gate
           /\ FullSet(CoreUpd(mem.status)) \subseteq mem.status.nodes
           /\ FullSet(CoreUpd(mem.status)) \subseteq base.status.nodes
<1>1. FullSet(CoreUpd(mem.status)) \subseteq up \cap gate
  BY ReadyIsFull
<1>2. \A p \in FullSet(CoreUpd(mem.status)) :
         p[1] = "core" /\ p[2] = CoreUpd(mem.status)
  BY DEF FullSet
<1>3. FullSet(CoreUpd(mem.status)) \subseteq mem.status.nodes
  BY <1>1, <1>2 DEF Gated
<1> QED
  BY <1>1, <1>3 DEF Ground, CopiesAgree

LEMMA FirstKeeper ==
    ASSUME SameSize, IInv, EarnedInv, Ground, Begun, Gated, Unserved,
           [Next]_vars, served = "no", served' = "yes"
    PROVE  Kept' /\ Passing'
<1> DEFINE st == WithNodes(up)
<1>0. PICK r : r = CoreUpd(mem.status)
  OBVIOUS
<1>1. PICK at \in {"status1", "status2"}, next \in {"addCore", "syncPods"} :
         /\ updateStatus(at, next) /\ req
         /\ StatusUpdate(st, next, SeenFull) /\ Record(SeenFull)
  BY ServedStep
<1>2. pc = at /\ UNCHANGED <<sets, clock, pods, up, gate>>
  BY <1>1, UpdateForms
<1>3. /\ r \in Rev /\ CoreSet(r) /\ Cardinality(ReadyPods("core", r)) = Size
      /\ <<"core", r>> \in SeenFull
  <2>1. PICK kr \in SeenFull : kr[1] = "core"
    BY <1>1 DEF Record
  <2>2. <<"core", r>> = kr
    BY <1>0, <2>1, RefreshedCore DEF SeenFull, FullNow, CoreUpd
  <2> QED
    BY <1>0, <2>1, <2>2, SeenCore
<1>4. /\ FullSet(r) \subseteq gate /\ FullSet(r) \subseteq up
      /\ FullSet(r) \subseteq base.status.nodes
  BY <1>0, <1>1, <1>2, <1>3, FullIsListed
<1>5. /\ \A q \in Rev : CoreSet(q)' => Want(q)' = Size
      /\ CoreSet(r)' /\ Want(r)' = Size /\ FullSet(r)' = FullSet(r)
  BY <1>2, <1>3 DEF Unserved, CoreSet, Exists, Want, FullSet, Size
<1>6. \A s : Asked(s)'
  BY <1>2, <1>5 DEF Asked, CoreSet, Exists
<1>7. \A v \in {cr, prev, mem, base} : ~CoreReady(v.status) /\ ~CoreDone(v.status)
  BY NoneReady, ReadyIsProven
<1>8. CASE base # cr /\ EndPass /\ cr' = cr /\ prev' = prev
  <2>1. \A p \in FullSet(r) : p[1] = "core"
    BY DEF FullSet
  <2>2. FullSet(r) \subseteq prev.status.nodes /\ FullSet(r) \subseteq cr.status.nodes
    BY <1>4, <1>8, <2>1 DEF Unserved, CoreNodesIn
  <2>3. Keeper(r)'
    BY <1>2, <1>3, <1>4, <1>5, <1>8, <2>2 DEF Keeper, Live, EndPass
  <2>4. Kept'
    BY <1>3, <1>7, <1>8, <2>3, Ended DEF Kept, CoreReady, CoreDone
  <2> QED
    BY <1>6, <1>8, <2>4, Ended DEF Passing
<1>9. CASE /\ base = cr /\ cr'.status = st
           /\ st = cr.status => cr' = cr /\ prev' = prev
           /\ st # cr.status => prev' = cr
           /\ mem' = cr' /\ base' = cr' /\ pc' = next /\ req' = req
  <2>1. /\ st.nodes = up /\ CoreUpd(st) = r
    BY <1>0, WithNodesIs
  <2>2. PICK o : /\ st.conds = NextStatus(mem.status.conds, o) /\ o.coreReady
    <3>1. PICK s :
             /\ s = [Refreshed(mem.status, mem.spec) EXCEPT !.nodes = up]
             /\ st.conds = NextStatus(mem.status.conds, Observe(s, mem.spec))
             /\ s.upd = mem.status.upd
      BY WithNodesIs
    <3>2. mem.spec.n["core"] = Size /\ Size # 0
      BY AskedSize DEF EarnedInv
    <3>3. Observe(s, mem.spec).coreReady
      BY <1>0, <1>3, <3>1, <3>2 DEF Observe, CoreSet, CoreUpd
    <3> QED
      BY <3>1, <3>3
  <2>3. /\ mem.status.conds \in Conditions
        /\ Stands(mem.status.conds,
                  <<"core", mem.status.upd["core"]>> \in proven,
                  <<"repl", mem.status.upd["repl"]>> \in proven)
    BY Typed DEF Statuses, EarnedInv, Earned
  <2>4. mem.status.conds.last = "CoreNodesProgressing"
    <3>1. r # NoRev
      BY <1>3, Typed
    <3>2. mem.status.conds.last \notin {NoCond, "Initialized"}
      BY <1>0, <3>1 DEF Begun
    <3> QED
      BY <1>7, <2>3, <3>2 DEF Stands, CoreReady
  <2>5. CoreReady(st) /\ ~CoreDone(st)
    BY <1>7, <2>2, <2>3, <2>4, MachineReports DEF CoreReady, CoreDone
  <2>6. prev' = cr
    BY <1>7, <1>9, <2>5
  <2> HIDE DEF st
  <2>7. Keeper(r)'
    BY <1>2, <1>3, <1>4, <1>5, <1>9, <2>1, <2>6 DEF Keeper, Live
  <2>8. Kept'
    BY <1>3, <1>7, <1>9, <2>1, <2>5, <2>6, <2>7 DEF Kept
  <2> QED
    BY <1>1, <1>6, <1>9, <2>8 DEF Passing
<1> QED
  BY <1>1, <1>8, <1>9, Written

-----------------------------------------------------------------------------
(* Keepers stay until they are drained.                                    *)

\* The set that a pass over an Available resource drains.
Drained(r) ==
    /\ CoreDone(mem.status)
    /\ r = CoreCur(mem.status) /\ r # CoreUpd(mem.status)

\* The pods of a keeper.
LEMMA KeeperPods ==
    ASSUME SameSize, IInv, Gated, NEW r, Keeper(r)
    PROVE  /\ FullSet(r) \subseteq up \cap pods
           /\ <<"core", r, 1>> \in FullSet(r)
           /\ SetPods("core", r) # {}
           /\ \A p \in FullSet(r) : p[1] = "core" /\ p[2] = r
<1>1. <<"core", r, 1>> \in FullSet(r)
  BY AskedSize DEF FullSet
<1>2. FullSet(r) \subseteq up \cap pods
  BY DEF Keeper, Gated, IInv, PodsOK
<1>3. \A p \in FullSet(r) : p[1] = "core" /\ p[2] = r
  BY DEF FullSet
<1> QED
  BY <1>1, <1>2, <1>3 DEF SetPods

\* A keeper is listed in every status that is read or worked on next.
LEMMA NodesStay ==
    ASSUME SameSize, IInv, Ground, Gated, Passing, [Next]_vars,
           served' # "excused", NEW r, Keeper(r), NEW st \in Live'
    PROVE  FullSet(r) \subseteq st.nodes
<1>1. /\ \A s \in Live : FullSet(r) \subseteq s.nodes
      /\ FullSet(r) \subseteq up /\ mem.status.nodes = base.status.nodes
  BY KeeperPods DEF Keeper, Ground, CopiesAgree
<1>2. /\ {cr.status, prev.status} \subseteq Live
      /\ pc # "idle" => {mem.status, base.status} \subseteq Live
  BY DEF Live
<1>3. /\ st \in {cr'.status, prev'.status, mem'.status, base'.status}
      /\ pc' = "idle" => st \in {cr'.status, prev'.status}
  BY DEF Live
<1>4. CASE QuietStep
  BY <1>1, <1>2, <1>3, <1>4 DEF QuietStep
<1>5. CASE EndPass /\ cr' = cr /\ prev' = prev
  BY <1>1, <1>2, <1>3, <1>5 DEF EndPass
<1>6. CASE Start
  BY <1>1, <1>2, <1>3, <1>6 DEF Start, Readable, crVars
<1>7. ASSUME NEW at \in {"status1", "status2"}, NEW next, updateStatus(at, next)
      PROVE  FullSet(r) \subseteq st.nodes
  <2>1. pc # "idle" /\ req
    BY <1>7, UpdateForms DEF Passing
  <2>2. ASSUME NEW k \in Kinds, StatusUpdate(WithCurrent(k), next, {})
        PROVE  FullSet(r) \subseteq st.nodes
    BY <1>1, <1>2, <1>3, <1>5, <2>1, <2>2, WithCurrentIs, Written
  <2>3. CASE StatusUpdate(WithNodes(up), next, SeenFull)
    <3>1. WithNodes(up).nodes = up
      BY WithNodesIs
    <3> QED
      BY <1>1, <1>2, <1>3, <1>5, <2>1, <2>3, <3>1, Written
  <2> QED
    BY <1>5, <1>7, <2>1, <2>2, <2>3, UpdateForms
<1>8. ASSUME NEW k \in Kinds, addCollide(k) PROVE FullSet(r) \subseteq st.nodes
  <2>1. pc # "idle" /\ pc' = "idle"
    BY <1>8, Collided, Ended DEF AddStep
  <2> QED
    BY <1>1, <1>2, <1>3, <1>8, <2>1, Collided
<1>9. ASSUME NEW k \in Kinds, updateEMQXStatus(k)
      PROVE  FullSet(r) \subseteq st.nodes
  BY <1>1, <1>2, <1>3, <1>9, Progressed
<1>10. CASE Edit
  BY <1>1, <1>2, <1>3, <1>10, Edited
<1> QED
  BY <1>4, <1>5, <1>6, <1>7, <1>8, <1>9, <1>10, CopyStep

LEMMA KeeperStep ==
    ASSUME SameSize, IInv, EarnedInv, Ground, Gated, Passing, [Next]_vars,
           served' # "excused", NEW r, Keeper(r), ~Drained(r)
    PROVE  Keeper(r)'
<1>1. r \in Rev /\ CoreSet(r) /\ Want(r) = Size /\ FullSet(r) \subseteq gate
  BY DEF Keeper
<1>2. CoreSet(r)'
  BY <1>1, KeeperPods, CoreStep
<1>3. Want(r)' = Size
  <2>1. ScaleDown("core") /\ DrainSts /\ r = CoreCur(mem.status) => Drained(r)
    BY DEF ScaleDown, MaySync, DrainSts, IsConditionTrue, CoreDone, CoreCur,
           CoreUpd, Drained
  <2> QED
    BY <1>1, <1>2, <2>1, CoreStep
<1>4. FullSet(r) \subseteq up'
  BY <1>1, KeeperPods, StaysUp
<1>5. FullSet(r) \subseteq gate'
  <2>1. ASSUME NEW at, NEW next, at # "idle", updatePodConditions(at, next)
        PROVE  FullSet(r) \subseteq gate'
    <3>1. pc # "idle" /\ req
      BY <2>1, GatesSet DEF Passing
    <3>2. FullSet(r) \subseteq mem.status.nodes
      BY <3>1 DEF Keeper, Live
    <3> QED
      BY <1>1, <2>1, <3>1, <3>2, KeeperPods, GatesSet DEF Drained
  <2> QED
    BY <1>1, <1>4, <2>1, GateStep
<1>6. \A st \in Live' : FullSet(r) \subseteq st.nodes
  BY NodesStay
<1>7. FullSet(r)' = FullSet(r)
  BY DEF FullSet, Size
<1> QED
  BY <1>1, <1>2, <1>3, <1>5, <1>6, <1>7 DEF Keeper

\* There is a keeper after every step, and one for each status with ready
\* core nodes that has a set to drain.
LEMMA ReadyKept ==
    ASSUME SameSize, IInv, EarnedInv, Ground, Gated, Kept, Passing,
           [Next]_vars, served' # "excused"
    PROVE  /\ \E r \in Rev : Keeper(r)'
           /\ \A st \in {cr.status, prev.status, mem.status, base.status} :
                 CoreReady(st) =>
                    CoreUpd(st) = CoreCur(st) \/ Keeper(CoreUpd(st))'
<1>1. ASSUME NEW r, Keeper(r), ~Drained(r) PROVE Keeper(r)'
  BY <1>1, KeeperStep
<1>2. ASSUME NEW st \in {cr.status, prev.status, mem.status, base.status},
             CoreReady(st), CoreUpd(st) # CoreCur(st)
      PROVE  Keeper(CoreUpd(st))'
  <2>1. Keeper(CoreUpd(st))
    BY <1>2 DEF Kept
  <2>2. CoreDone(mem.status) => Harmless(mem.status, st)
    BY DEF Kept, Harmless
  <2>3. ~Drained(CoreUpd(st))
    BY <1>2, <2>2 DEF Drained, Harmless
  <2> QED
    BY <1>1, <2>1, <2>3
<1>3. \E r \in Rev : Keeper(r)'
  <2>1. PICK r \in Rev : Keeper(r)
    BY DEF Kept
  <2>2. CASE ~Drained(r)
    BY <1>1, <2>1, <2>2
  <2>3. CASE Drained(r)
    <3>1. CoreReady(mem.status) /\ CoreUpd(mem.status) # CoreCur(mem.status)
      BY <2>3, ReadyIsProven DEF Drained
    <3>2. PICK u : u = CoreUpd(mem.status)
      OBVIOUS
    <3>3. Keeper(u) /\ ~Drained(u)
      BY <3>1, <3>2 DEF Kept, Drained
    <3>4. u \in Rev
      BY <3>3 DEF Keeper
    <3> QED
      BY <1>1, <3>3, <3>4
  <2> QED
    BY <2>2, <2>3
<1> QED
  BY <1>2, <1>3

\* A new status keeps the keepers known, in a step that goes on with it or
\* ends the pass.
LEMMA StoredKept ==
    ASSUME Kept, NEW st, cr'.status = st,
           prev' = cr \/ (cr' = cr /\ prev' = prev),
           mem' = base', mem' \in {cr', InitCR},
           \E r \in Rev : Keeper(r)',
           \A s \in {cr.status, prev.status} :
              CoreReady(s) => CoreUpd(s) = CoreCur(s) \/ Keeper(CoreUpd(s))',
           CoreReady(st) => CoreUpd(st) = CoreCur(st) \/ Keeper(CoreUpd(st))',
           CoreDone(st) => CoreUpd(st) = CoreUpd(cr.status),
           CoreDone(cr.status) => Harmless(cr.status, st)
    PROVE  Kept'
<1>1. ~CoreReady(InitCR.status) /\ ~CoreDone(InitCR.status)
  BY DEF InitCR, InitStatus, NoConditions, CoreReady, CoreDone
<1>2. \A s \in {cr'.status, prev'.status, mem'.status, base'.status} :
         CoreReady(s) => CoreUpd(s) = CoreCur(s) \/ Keeper(CoreUpd(s))'
  BY <1>1
<1>3. CoreDone(cr'.status) => CoreUpd(prev'.status) = CoreUpd(cr'.status)
  BY DEF Kept
<1>4. CoreDone(prev'.status) => Harmless(prev'.status, cr'.status)
  BY DEF Kept
<1>5. CoreDone(mem'.status) =>
         \A s \in {cr'.status, prev'.status, base'.status} :
            Harmless(mem'.status, s)
  BY <1>1, <1>3 DEF Harmless
<1> QED
  BY <1>2, <1>3, <1>4, <1>5 DEF Kept

\* A copy with ready core nodes names the update set of its version.
LEMMA ReadyIsOfBase ==
    ASSUME IInv, EarnedInv, CoreReady(mem.status)
    PROVE  CoreUpd(mem.status) = CoreUpd(base.status)
BY DEF EarnedInv, NewHeld, CoreReady, CoreUpd

\* To replace the current set, the update set must be another one.
LEMMA CurrentIsReplaced ==
    ASSUME IInv, NEW k \in Kinds,
           NeedsCurrent(k, Refreshed(mem.status, mem.spec)),
           CoreUpd(mem.status) = CoreCur(mem.status)
    PROVE  CoreCur(WithCurrent(k)) = CoreUpd(mem.status)
<1> DEFINE st == Refreshed(mem.status, mem.spec)
<1>1. CoreUpd(st) = CoreUpd(mem.status) /\ CoreCur(st) = CoreUpd(mem.status)
  BY RefreshedCore DEF FirstCur
<1>2. CASE k = "core"
  <2>1. FALSE
    BY <1>1, <1>2 DEF NeedsCurrent, CoreUpd, CoreCur
  <2> QED
    BY <2>1
<1>3. CASE k # "core"
  BY <1>3, WithCurrentIs DEF FirstCur
<1> QED
  BY <1>2, <1>3

\* What updateStatus makes of the keepers.
LEMMA WithCurrentKept ==
    ASSUME SameSize, IInv, EarnedInv, Ground, Gated, Kept, Passing,
           [Next]_vars, served' # "excused", NEW k \in Kinds, NEW next,
           NeedsCurrent(k, Refreshed(mem.status, mem.spec)),
           StatusUpdate(WithCurrent(k), next, {}), base = cr
    PROVE  Kept'
<1> DEFINE st == WithCurrent(k)
<1>1. /\ CoreUpd(st) = CoreUpd(mem.status)
      /\ CoreReady(st) <=> CoreReady(mem.status)
      /\ CoreDone(st) <=> CoreDone(mem.status)
  BY WithCurrentIs DEF CoreReady, CoreDone
<1>2. CoreUpd(mem.status) = CoreCur(mem.status) => CoreUpd(st) = CoreCur(st)
  BY <1>1, CurrentIsReplaced
<1>3. PICK s : s = st
  OBVIOUS
<1>4. PICK u : u = CoreUpd(mem.status)
  OBVIOUS
<1>5. CoreReady(s) => CoreUpd(s) = CoreCur(s) \/ Keeper(CoreUpd(s))'
  <2>1. CoreReady(mem.status) => u = CoreCur(mem.status) \/ Keeper(u)'
    <3>1. PICK m : m = mem.status
      OBVIOUS
    <3> QED
      BY <1>4, <3>1, ReadyKept
  <2> QED
    BY <1>1, <1>2, <1>3, <1>4, <2>1
<1>6. CoreReady(s) => CoreUpd(s) = CoreUpd(cr.status)
  BY <1>1, <1>3, ReadyIsOfBase
<1>7. CoreDone(s) => CoreReady(s)
  BY <1>1, <1>3, ReadyIsProven
<1>8. /\ cr'.status = s /\ mem' = cr' /\ base' = cr'
      /\ prev' = cr \/ (cr' = cr /\ prev' = prev)
  BY <1>3, Written
<1> HIDE DEF st
<1> QED
  BY <1>5, <1>6, <1>7, <1>8, ReadyKept, StoredKept DEF Harmless


LEMMA WithNodesKept ==
    ASSUME SameSize, IInv, EarnedInv, Ground, Gated, Kept, Passing,
           [Next]_vars, served' # "excused", NEW next,
           pc \in {"status1", "status2"},
           UNCHANGED <<sets, clock, pods, up, gate>>,
           StatusUpdate(WithNodes(up), next, SeenFull), base = cr
    PROVE  Kept'
<1>1. PICK st : st = WithNodes(up)
  OBVIOUS
<1>2. PICK u : u = CoreUpd(mem.status)
  OBVIOUS
<1>3. PICK s : /\ st.nodes = up /\ CoreUpd(st) = u /\ CoreCur(st) = FirstCur
               /\ st.conds = NextStatus(mem.status.conds, Observe(s, mem.spec))
               /\ s.upd = mem.status.upd
  <2>1. PICK s : s = [Refreshed(mem.status, mem.spec) EXCEPT !.nodes = up]
    OBVIOUS
  <2>2. /\ WithNodes(up).nodes = up /\ CoreUpd(WithNodes(up)) = u
        /\ CoreCur(WithNodes(up)) = FirstCur
        /\ WithNodes(up).conds
              = NextStatus(mem.status.conds, Observe(s, mem.spec))
        /\ s.upd = mem.status.upd
    BY <1>2, <2>1, WithNodesIs
  <2> QED
    BY <1>1, <2>2
<1>4. /\ cr'.status = st /\ mem' = cr' /\ base' = cr' /\ pc' = next
      /\ st = cr.status => cr' = cr /\ prev' = prev
      /\ st # cr.status => prev' = cr
  BY <1>1, Written
<1>5. /\ CoreReady(st) => CoreReady(mem.status) \/ Observe(s, mem.spec).coreReady
      /\ CoreDone(st) => CoreReady(mem.status)
  <2>1. /\ mem.status.conds \in Conditions
        /\ Stands(mem.status.conds,
                  <<"core", mem.status.upd["core"]>> \in proven,
                  <<"repl", mem.status.upd["repl"]>> \in proven)
    BY Typed DEF Statuses, EarnedInv, Earned
  <2> QED
    BY <1>3, <2>1, MachineReports DEF CoreReady, CoreDone
<1>6. u = CoreCur(mem.status) => u = CoreCur(st)
  BY <1>2, <1>3 DEF FirstCur
<1>7. CoreReady(mem.status) => u = CoreCur(st) \/ Keeper(u)'
  <2>1. PICK m : m = mem.status
    OBVIOUS
  <2> QED
    BY <1>2, <1>6, <2>1, ReadyKept
<1>8. ASSUME Observe(s, mem.spec).coreReady, CoreReady(st)
      PROVE  u = CoreCur(st) \/ Keeper(u)'
  <2>1. CoreSet(u) /\ Cardinality(ReadyPods("core", u)) = Size
    BY <1>2, <1>3, <1>8, AskedSize DEF Observe, CoreUpd, CoreSet, EarnedInv
  <2>2. /\ FullSet(u) \subseteq up \cap gate
        /\ FullSet(u) \subseteq base.status.nodes
    BY <1>2, <2>1, FullIsListed
  <2>3. CASE Want(u) # Size
    BY <1>2, <1>6, <2>1, <2>3 DEF Passing, Asked
  <2>4. CASE st = cr.status
    <3>1. PICK c : c = cr.status
      OBVIOUS
    <3> QED
      BY <1>3, <1>8, <2>4, <3>1, ReadyKept
  <2>5. CASE Want(u) = Size /\ st # cr.status
    <3>1. /\ u \in Rev /\ CoreSet(u)' /\ Want(u)' = Size
          /\ FullSet(u)' = FullSet(u)
      BY <2>1, <2>5 DEF CoreSet, Exists, Want, FullSet, Size
    <3>2. \A v \in Live' : FullSet(u) \subseteq v.nodes
      BY <1>3, <1>4, <2>2, <2>5 DEF Live
    <3> QED
      BY <2>2, <3>1, <3>2 DEF Keeper
  <2> QED
    BY <2>3, <2>4, <2>5
<1>9. CoreReady(st) => CoreUpd(st) = CoreCur(st) \/ Keeper(CoreUpd(st))'
  BY <1>3, <1>5, <1>7, <1>8
<1>10. CoreDone(st) => CoreUpd(st) = CoreUpd(cr.status)
  BY <1>2, <1>3, <1>5, ReadyIsOfBase
<1>11. Harmless(cr.status, st)
  BY <1>2, <1>3 DEF Kept, Harmless, FirstCur
<1> QED
  BY <1>4, <1>9, <1>10, <1>11, ReadyKept, StoredKept


\* Whatever a step does, as long as no pod and no call to the EMQX API fails,
\* the keepers known are enough.
LEMMA NextKept ==
    ASSUME SameSize, IInv, EarnedInv, Ground, Gated, Kept, Passing,
           [Next]_vars, served' # "excused"
    PROVE  Kept'
<1>1. /\ \E r \in Rev : Keeper(r)'
      /\ \A st \in {cr.status, prev.status, mem.status, base.status} :
            CoreReady(st) => CoreUpd(st) = CoreCur(st) \/ Keeper(CoreUpd(st))'
  BY ReadyKept
<1>2. CASE QuietStep
  BY <1>1, <1>2 DEF QuietStep, Kept
<1>3. CASE EndPass /\ cr' = cr /\ prev' = prev
  <2>1. PICK st : st = cr.status
    OBVIOUS
  <2>2. Harmless(cr.status, st)
    BY <2>1 DEF Harmless
  <2> QED
    BY <1>1, <1>3, <2>1, <2>2, StoredKept, Ended
<1>4. CASE Start
  <2>1. PICK got \in {cr, prev} : mem' = got /\ base' = got
    BY <1>4 DEF Start, Readable
  <2>2. cr' = cr /\ prev' = prev
    BY <1>4 DEF Start, crVars
  <2>3. CoreDone(got.status) =>
           \A st \in {cr.status, prev.status, got.status} :
              Harmless(got.status, st)
    <3>1. \A st : Harmless(st, st)
      BY DEF Harmless
    <3>2. CoreDone(cr.status) => Harmless(cr.status, prev.status)
      BY DEF Harmless, Kept
    <3> QED
      BY <3>1, <3>2 DEF Kept
  <2> QED
    BY <1>1, <2>1, <2>2, <2>3 DEF Kept
<1>5. ASSUME NEW at \in {"status1", "status2"}, NEW next, updateStatus(at, next)
      PROVE  Kept'
  <2>1. pc = at /\ req /\ UNCHANGED <<sets, clock, pods, up, gate>>
    BY <1>5, UpdateForms DEF Passing
  <2>2. ASSUME NEW k \in Kinds, StatusUpdate(WithCurrent(k), next, {}),
               NeedsCurrent(k, Refreshed(mem.status, mem.spec))
        PROVE  Kept'
    <3>1. base = cr \/ (EndPass /\ cr' = cr /\ prev' = prev)
      BY <2>2, Written
    <3>2. CASE base = cr
      BY <2>2, <3>2, WithCurrentKept
    <3> QED
      BY <1>3, <3>1, <3>2
  <2>3. CASE StatusUpdate(WithNodes(up), next, SeenFull)
    <3>1. base = cr \/ (EndPass /\ cr' = cr /\ prev' = prev)
      BY <2>3, Written
    <3>2. pc \in {"status1", "status2"}
      BY <2>1
    <3>3. CASE base = cr
      BY <2>1, <2>3, <3>2, <3>3, WithNodesKept
    <3> QED
      BY <1>3, <3>1, <3>3
  <2>4. \/ \E k \in Kinds :
              /\ NeedsCurrent(k, Refreshed(mem.status, mem.spec))
              /\ StatusUpdate(WithCurrent(k), next, {})
        \/ StatusUpdate(WithNodes(up), next, SeenFull)
        \/ EndPass /\ cr' = cr /\ prev' = prev
    BY <1>5, <2>1, UpdateForms
  <2> QED
    BY <1>3, <2>2, <2>3, <2>4
<1>6. ASSUME NEW k \in Kinds, addCollide(k) PROVE Kept'
  <2>1. EndPass
    BY <1>6, Collided
  <2>2. PICK st : st = cr'.status
    OBVIOUS
  <2>3. PICK m : m = mem.status
    OBVIOUS
  <2>4. CASE cr' = cr /\ prev' = prev
    BY <1>3, <2>1, <2>4
  <2>5. CASE /\ base = cr /\ prev' = cr
             /\ st.conds = m.conds
             /\ CoreUpd(st) = CoreUpd(m) /\ CoreCur(st) = CoreCur(m)
    <3>1. CoreReady(st) => CoreUpd(st) = CoreCur(st) \/ Keeper(CoreUpd(st))'
      BY <1>1, <2>3, <2>5 DEF CoreReady
    <3>2. CoreDone(st) => CoreUpd(st) = CoreUpd(cr.status)
      <4>1. CoreDone(st) => CoreReady(mem.status)
        BY <2>3, <2>5, ReadyIsProven DEF CoreDone
      <4> QED
        BY <2>3, <2>5, <4>1, ReadyIsOfBase
    <3>3. Harmless(cr.status, st)
      BY <2>3, <2>5 DEF Harmless, Kept
    <3> QED
      BY <1>1, <2>1, <2>2, <2>5, <3>1, <3>2, <3>3, StoredKept, Ended
  <2> QED
    BY <1>6, <2>2, <2>3, <2>4, <2>5, Collided
<1>7. ASSUME NEW k \in Kinds, updateEMQXStatus(k) PROVE Kept'
  <2>1. PICK st : st = mem'.status
    OBVIOUS
  <2>2. PICK got \in {cr, prev} :
           /\ CoreCur(st) = CoreCur(got.status) /\ ~CoreDone(st)
           /\ CoreReady(st) => /\ CoreReady(got.status)
                               /\ CoreUpd(st) = CoreUpd(got.status)
           /\ \/ /\ got = cr /\ cr' = mem' /\ base' = mem'
                 /\ prev' = cr \/ (cr' = cr /\ prev' = prev)
              \/ base' = got /\ cr' = cr /\ prev' = prev
    BY <1>7, <2>1, Progressed
  <2>3. CoreReady(st) => CoreUpd(st) = CoreCur(st) \/ Keeper(CoreUpd(st))'
    <3>1. PICK g : g = got.status
      OBVIOUS
    <3> QED
      BY <1>1, <2>2, <3>1
  <2>4. CASE /\ got = cr /\ cr' = mem' /\ base' = mem'
             /\ prev' = cr \/ (cr' = cr /\ prev' = prev)
    <3>1. Harmless(cr.status, st)
      BY <2>2, <2>4 DEF Harmless
    <3> QED
      BY <1>1, <2>1, <2>2, <2>3, <2>4, <3>1, StoredKept
  <2>5. CASE base' = got /\ cr' = cr /\ prev' = prev
    BY <1>1, <2>1, <2>2, <2>3, <2>5 DEF Kept
  <2> QED
    BY <2>2, <2>4, <2>5
<1>8. CASE Edit
  <2>1. /\ cr'.status = cr.status /\ prev' = cr /\ mem' = mem /\ base' = base
    BY <1>8, Edited
  <2>2. \A st : Harmless(st, st)
    BY DEF Harmless
  <2> QED
    BY <1>1, <2>1, <2>2 DEF Kept
<1> QED
  BY <1>2, <1>3, <1>4, <1>5, <1>6, <1>7, <1>8, CopyStep


-----------------------------------------------------------------------------
(* How many pods the named sets are asked for.                             *)

\* A status that names the same sets with the same collision count.
LEMMA AskedAlike ==
    ASSUME sets' = sets, NEW m, Asked(m), NEW st, CoreUpd(st) = CoreUpd(m),
           CoreColl(st) = CoreColl(m),
           CoreUpd(m) = CoreCur(m) => CoreUpd(st) = CoreCur(st)
    PROVE  Asked(st)'
BY DEF Asked, CoreSet, Exists, Want, Size

\* What is scaled down is the current set of the copy in memory.
LEMMA AskedStep ==
    ASSUME SameSize, IInv, EarnedInv, [Next]_vars, NEW st, Asked(st),
           ScaleDown("core") => st = mem.status
    PROVE  Asked(st)'
<1>1. PICK r : r = CoreUpd(st)
  OBVIOUS
<1>2. PICK h : h = <<r[1], CoreColl(st)>>
  OBVIOUS
<1>3. DrainSts => CoreUpd(mem.status) # CoreCur(mem.status)
  BY DEF DrainSts, CoreUpd, CoreCur
<1>4. SUFFICES ASSUME CoreSet(r)', Want(r)' # Size
               PROVE  /\ r = CoreCur(st)
                      /\ h # r /\ CoreSet(h)' => Want(h)' = Size
  BY <1>1, <1>2 DEF Asked, Size
<1>5. r \in Rev /\ CoreSet(r) /\ Want(r) # Size
  <2>1. r \in Rev
    BY <1>4 DEF CoreSet, Exists
  <2> QED
    BY <1>1, <1>3, <1>4, <2>1, CoreStep
<1>6. r = CoreCur(st) /\ (h # r /\ CoreSet(h) => Want(h) = Size)
  BY <1>1, <1>2, <1>5 DEF Asked
<1>7. ASSUME h # r, CoreSet(h)' PROVE Want(h)' = Size
  <2>1. h \in Rev
    BY <1>7 DEF CoreSet, Exists
  <2> QED
    BY <1>6, <1>7, <2>1, CoreStep
<1> QED
  BY <1>6, <1>7

\* The stored status, and the copy of it in memory.
LEMMA AskedStays ==
    ASSUME SameSize, IInv, EarnedInv, Passing, [Next]_vars,
           NEW st, st = cr.status \/ (st = mem.status /\ base.status = cr.status)
    PROVE  Asked(st)'
<1>1. Asked(st)
  BY DEF Passing
<1>2. ScaleDown("core") => st = mem.status
  BY DEF ScaleDown, Passing
<1> QED
  BY <1>1, <1>2, AskedStep

\* The set whose revision is about to be stored has all its pods or is the
\* current one.
LEMMA HashedSet ==
    ASSUME SameSize, IInv, EarnedInv, Ground, Passing, [Next]_vars,
           QuietStep, pc' = "coreStatus", CoreSet(PreHash("core"))'
    PROVE  \/ Want(PreHash("core"))' = Size
           \/ PreHash("core")' = CoreCur(mem'.status)
<1>1. PICK h : h = PreHash("core")
  OBVIOUS
<1>2. /\ mem' = mem /\ PreHash("core")' = h /\ h \in Rev
      /\ CoreSet(h)' /\ Want(PreHash("core"))' = Want(h)'
  BY <1>1 DEF QuietStep, PreHash, CoreSet, Exists, Want
<1> SUFFICES Want(h)' = Size \/ h = CoreCur(mem.status)
  BY <1>2
<1>3. CASE pc = "coreStatus" /\ sets' = sets
  BY <1>1, <1>2, <1>3 DEF Passing, CoreSet, Exists, Want
<1>4. CASE addCreate("core")
  <2>1. ~CoreSet(h)
    BY <1>1, <1>4 DEF addCreate, CoreSet
  <2> QED
    BY <1>2, <2>1, CoreStep
<1>5. CASE addRevert("core")
  BY <1>1, <1>5 DEF addRevert, IsRevert, CoreCur
<1>6. CASE pc = "addCore" /\ addUpdate("core")
  <2>1. PICK u : u = CoreUpd(mem.status)
    OBVIOUS
  <2>2. /\ CoreSet(u) /\ sets["core"][u].tpl = mem.spec.tpl["core"]
        /\ Want(u) # Size
        /\ sets' = [sets EXCEPT !["core"][u].want = Size]
    <3>1. mem.spec.n["core"] = Size
      BY AskedSize DEF EarnedInv
    <3>2. /\ Exists("core", u) /\ sets["core"][u].tpl = mem.spec.tpl["core"]
          /\ sets["core"][u].want # mem.spec.n["core"]
          /\ sets' = [sets EXCEPT !["core"][u].want = mem.spec.n["core"]]
      BY <1>6, <2>1 DEF addUpdate, Differs, CoreUpd
    <3> QED
      BY <3>1, <3>2 DEF CoreSet, Want
  <2>3. u[1] = Digest[mem.spec.tpl["core"]] /\ u \in Rev
    BY <2>2 DEF Ground, SetsAgree, CoreSet, Exists
  <2>4. h = <<u[1], CoreColl(mem.status)>>
    BY <1>1, <2>3 DEF PreHash, CoreColl
  <2>5. h # u /\ CoreSet(h) => Want(h) = Size
    BY <1>6, <2>1, <2>2, <2>4 DEF Passing, Asked
  <2>6. sets \in [Kinds -> [Rev -> SetRecords]] /\ "core" \in Kinds
    BY DEF IInv, SetsOK, Kinds
  <2>7. CASE h = u
    BY <2>2, <2>3, <2>6, <2>7 DEF Want, SetRecords
  <2>8. CASE h # u
    <3>1. sets'["core"][h] = sets["core"][h]
      BY <1>2, <2>2, <2>6, <2>8
    <3> QED
      BY <1>2, <2>5, <2>8, <3>1 DEF CoreSet, Exists, Want
  <2> QED
    BY <2>7, <2>8
<1> QED
  BY <1>3, <1>4, <1>5, <1>6 DEF QuietStep


\* How far a pass is, after a step without a failure.
LEMMA NextPassing ==
    ASSUME SameSize, IInv, EarnedInv, Ground, Gated, Kept, Passing,
           [Next]_vars, served' # "excused"
    PROVE  Passing'
<1>1. PICK m : m = mem.status
  OBVIOUS
<1>2. PICK c : c = cr.status
  OBVIOUS
<1>3. Asked(c)' /\ (base.status = c => Asked(m) /\ Asked(m)')
  BY <1>1, <1>2, AskedStays DEF Passing
<1>4. CASE QuietStep
  <2>1. /\ cr' = cr /\ mem' = mem /\ base' = base /\ req' = req
        /\ pc' \in {"addCore", "coreStatus", "syncPods"}
             => pc \in {"addCore", "coreStatus", "syncPods"}
        /\ pc = "idle" => pc' = "idle"
    BY <1>4 DEF QuietStep
  <2> QED
    BY <1>1, <1>2, <1>3, <1>4, <2>1, HashedSet DEF Passing
<1>5. CASE EndPass /\ cr' = cr /\ prev' = prev
  <2>1. PICK i : i = mem'.status
    OBVIOUS
  <2>2. Asked(i)'
    BY <1>5, <2>1, Ended, ConstantsAssumption DEF Asked, CoreSet, Exists
  <2> QED
    BY <1>2, <1>3, <1>5, <2>1, <2>2, Ended DEF Passing
<1>6. CASE Start
  <2>1. /\ cr' = cr /\ mem' = base' /\ pc' = "conds1"
        /\ req' = (KindPods("core") \cap up # {})
    BY <1>6 DEF Start, crVars
  <2>2. req'
    <3>1. PICK r \in Rev : Keeper(r)
      BY DEF Kept
    <3>2. <<"core", r, 1>> \in KindPods("core") \cap up
      BY <3>1, KeeperPods DEF KindPods
    <3> QED
      BY <2>1, <3>2
  <2> QED
    BY <1>2, <1>3, <2>1, <2>2 DEF Passing
<1>7. ASSUME NEW at \in {"status1", "status2"}, NEW next \in {"addCore", "syncPods"},
             updateStatus(at, next)
      PROVE  Passing'
  <2>1. pc = at /\ req /\ sets' = sets
    BY <1>7, UpdateForms DEF Passing
  <2>2. ASSUME NEW st, NEW full, StatusUpdate(st, next, full),
               CoreUpd(st) = CoreUpd(m), CoreColl(st) = CoreColl(m),
               CoreUpd(m) = CoreCur(m) => CoreUpd(st) = CoreCur(st)
        PROVE  Passing'
    <3>1. CASE base # cr
      BY <1>5, <2>2, <3>1, Written
    <3>2. CASE base = cr
      <4>1. /\ cr'.status = st /\ mem' = cr' /\ base' = cr' /\ pc' = next
            /\ req' = req
        BY <2>2, <3>2, Written
      <4>2. Asked(st)'
        BY <1>2, <1>3, <2>1, <2>2, <3>2, AskedAlike
      <4> QED
        BY <2>1, <4>1, <4>2 DEF Passing
    <3> QED
      BY <3>1, <3>2
  <2>3. ASSUME NEW k \in Kinds,
               NeedsCurrent(k, Refreshed(mem.status, mem.spec)),
               StatusUpdate(WithCurrent(k), next, {})
        PROVE  Passing'
    <3>1. /\ CoreUpd(WithCurrent(k)) = CoreUpd(m)
          /\ CoreColl(WithCurrent(k)) = CoreColl(m)
      BY <1>1, WithCurrentIs
    <3>2. CoreUpd(m) = CoreCur(m)
             => CoreUpd(WithCurrent(k)) = CoreCur(WithCurrent(k))
      BY <1>1, <2>3, <3>1, CurrentIsReplaced
    <3> QED
      BY <2>2, <2>3, <3>1, <3>2
  <2>4. CASE StatusUpdate(WithNodes(up), next, SeenFull)
    <3>1. /\ CoreUpd(WithNodes(up)) = CoreUpd(m)
          /\ CoreColl(WithNodes(up)) = CoreColl(m)
          /\ CoreCur(WithNodes(up)) = FirstCur
      BY <1>1, WithNodesIs
    <3>2. CoreUpd(m) = CoreCur(m)
             => CoreUpd(WithNodes(up)) = CoreCur(WithNodes(up))
      BY <1>1, <3>1 DEF FirstCur
    <3> QED
      BY <2>2, <2>4, <3>1, <3>2
  <2>5. \/ \E k \in Kinds :
              /\ NeedsCurrent(k, Refreshed(mem.status, mem.spec))
              /\ StatusUpdate(WithCurrent(k), next, {})
        \/ StatusUpdate(WithNodes(up), next, SeenFull)
        \/ EndPass /\ cr' = cr /\ prev' = prev
    BY <1>7, <2>1, UpdateForms
  <2> QED
    BY <1>5, <2>3, <2>4, <2>5
<1>8. ASSUME NEW k \in Kinds, addCollide(k) PROVE Passing'
  <2>1. PICK st : st = cr'.status
    OBVIOUS
  <2>2. EndPass /\ sets' = sets
    BY <1>8, Collided
  <2>3. CASE cr' = cr /\ prev' = prev
    BY <1>5, <2>2, <2>3
  <2>4. CASE /\ base = cr
             /\ CoreUpd(st) = CoreUpd(m) /\ CoreCur(st) = CoreCur(m)
             /\ CoreColl(st) = IF k = "core" THEN CoreColl(m) + 1
                                             ELSE CoreColl(m)
    <3>1. Asked(m) /\ CoreColl(m) = CoreColl(cr.status) /\ CoreColl(m) \in Nat
      BY <1>1, <1>2, <1>3, <2>4, Typed DEF Ground, CopiesAgree
    <3>2. Asked(st)'
      <4>1. CASE k # "core"
        BY <2>2, <2>4, <3>1, <4>1, AskedAlike
      <4>2. CASE k = "core"
        <5>1. PICK h : h = <<CoreUpd(st)[1], CoreColl(st)>>
          OBVIOUS
        <5>2. ~CoreSet(h)
          BY <2>4, <3>1, <4>2, <5>1
             DEF Ground, SetsAgree, CoreSet, Exists
        <5>3. CoreSet(CoreUpd(st)) /\ Want(CoreUpd(st)) # Size
                => CoreUpd(st) = CoreCur(st)
          BY <2>4, <3>1 DEF Asked
        <5> QED
          BY <2>2, <5>1, <5>2, <5>3 DEF Asked, CoreSet, Exists, Want, Size
      <4> QED
        BY <4>1, <4>2
    <3>3. PICK i : i = mem'.status
      OBVIOUS
    <3>4. Asked(i)'
      BY <2>2, <3>3, Ended, ConstantsAssumption DEF Asked, CoreSet, Exists
    <3> QED
      BY <2>1, <2>2, <3>2, <3>3, <3>4, Ended DEF Passing
  <2> QED
    BY <1>1, <1>8, <2>1, <2>3, <2>4, Collided
<1>9. ASSUME NEW k \in Kinds, updateEMQXStatus(k) PROVE Passing'
  <2>1. PICK st : st = mem'.status
    OBVIOUS
  <2>2. /\ pc = StatusStep(k) /\ pc' = AfterAdd(k)
        /\ sets' = sets /\ req' = req
    BY <1>9, Progressed
  <2>3. PICK got \in {cr, prev} :
           /\ CoreColl(st) = CoreColl(got.status)
           /\ CoreCur(st) = CoreCur(got.status)
           /\ CoreUpd(st) = IF k = "core" THEN PreHash("core")
                                          ELSE CoreUpd(got.status)
           /\ \/ /\ got = cr /\ cr' = mem' /\ base' = mem'
                 /\ prev' = cr \/ (cr' = cr /\ prev' = prev)
              \/ base' = got /\ cr' = cr /\ prev' = prev
    BY <1>9, <2>1, Progressed
  <2>4. got.status = c => Asked(st)'
    <3>1. CASE k # "core"
      BY <1>2, <2>2, <2>3, <3>1, AskedAlike DEF Passing
    <3>2. CASE k = "core" /\ got.status = c
      <4>1. pc = "coreStatus" /\ mem.status = cr.status
        BY <2>2, <3>2 DEF StatusStep, Passing
      <4>2. PICK h : h = PreHash("core")
        OBVIOUS
      <4>3. /\ CoreUpd(st) = h
            /\ h = <<h[1], CoreColl(st)>>
            /\ CoreSet(h) => Want(h) = Size \/ h = CoreCur(st)
        BY <1>2, <2>3, <3>2, <4>1, <4>2 DEF Passing, PreHash, CoreColl
      <4> QED
        BY <2>2, <4>3 DEF Asked, CoreSet, Exists, Want, Size
    <3> QED
      BY <3>1, <3>2
  <2>5. pc # "idle" /\ pc' \notin {"idle", "addCore", "coreStatus", "syncPods"}
    BY <2>2 DEF StatusStep, AfterAdd, Kinds
  <2> QED
    BY <1>2, <1>3, <2>1, <2>2, <2>3, <2>4, <2>5 DEF Passing
<1>10. CASE Edit
  <2>1. /\ cr'.status = cr.status /\ mem' = mem /\ base' = base /\ pc' = pc
        /\ req' = req /\ sets' = sets
    BY <1>10, Edited
  <2>2. pc = "coreStatus" =>
          (CoreSet(PreHash("core"))' =>
             \/ Want(PreHash("core"))' = Size
             \/ PreHash("core")' = CoreCur(mem'.status))
    BY <2>1 DEF Passing, PreHash, CoreSet, Exists, Want, Size
  <2> QED
    BY <1>1, <1>2, <1>3, <2>1, <2>2 DEF Passing
<1> QED
  BY <1>4, <1>5, <1>6, <1>7, <1>8, <1>9, <1>10, CopyStep


-----------------------------------------------------------------------------
(* A core pod stays ready.                                                 *)

LEMMA InitKeepInv == Init => KeepInv
<1> SUFFICES ASSUME Init PROVE KeepInv
  OBVIOUS
<1>1. /\ cr = InitCR /\ prev = InitCR /\ mem = InitCR /\ base = InitCR
      /\ pods = {} /\ up = {} /\ gate = {} /\ pc = "idle"
      /\ proven = {} /\ served = "no"
      /\ \A r \in Rev : ~CoreSet(r)
  BY DEF Init, CoreSet, Exists, Kinds
<1>2. /\ CoreUpd(InitCR.status) = NoRev /\ CoreColl(InitCR.status) = 0
      /\ InitCR.status.nodes = {}
  BY DEF InitCR, InitStatus, CoreUpd, CoreColl, Kinds
<1>3. Ground
  BY <1>1, <1>2 DEF Ground, SetsAgree, CopiesAgree
<1>4. Begun
  BY <1>1, <1>2 DEF Begun
<1>5. Gated
  BY <1>1 DEF Gated
<1>6. Unserved
  BY <1>1, <1>2 DEF Unserved, CoreNodesIn
<1> QED
  BY <1>1, <1>3, <1>4, <1>5, <1>6 DEF KeepInv

LEMMA NextKeepInv ==
    ASSUME SameSize
    PROVE  IInv /\ EarnedInv /\ KeepInv /\ [Next]_vars => KeepInv'
<1> SUFFICES ASSUME IInv, EarnedInv, KeepInv, [Next]_vars PROVE KeepInv'
  OBVIOUS
<1>1. Ground /\ Begun
  BY DEF KeepInv
<1>2. Ground'
  <2>1. CopiesAgree' /\ CoreColl(cr.status) <= CoreColl(cr'.status)
    BY <1>1, NextCopiesAgree DEF Ground
  <2> QED
    BY <1>1, <2>1, NextSetsAgree DEF Ground
<1>3. Begun'
  BY <1>1, NextBegun
<1>4. ASSUME served' # "excused"
      PROVE  /\ Gated /\ Gated'
             /\ served' = "no" => served = "no"
             /\ served' = "yes" => served \in {"no", "yes"}
  <2>1. /\ served # "excused"
        /\ served' = served \/ Record(SeenFull)
    BY <1>4, ServedStep
  <2>2. Gated
    BY <2>1 DEF KeepInv
  <2> QED
    BY <1>4, <2>1, <2>2, NextGated DEF Record
<1>5. ASSUME served' = "no" PROVE Unserved'
  <2>1. served = "no"
    BY <1>4, <1>5
  <2> QED
    BY <1>1, <1>5, <2>1, NextUnserved DEF KeepInv
<1>6. ASSUME served' = "yes" PROVE Kept' /\ Passing'
  <2>1. Gated /\ served \in {"no", "yes"} /\ served' # "excused"
    BY <1>4, <1>6
  <2>2. CASE served = "no"
    <3>1. Unserved
      BY <2>2 DEF KeepInv
    <3> QED
      BY <1>1, <1>6, <2>1, <2>2, <3>1, FirstKeeper
  <2>3. CASE served = "yes"
    <3>1. Kept /\ Passing
      BY <2>3 DEF KeepInv
    <3> QED
      BY <1>1, <2>1, <3>1, NextKept, NextPassing
  <2> QED
    BY <2>1, <2>2, <2>3
<1> QED
  BY <1>2, <1>3, <1>4, <1>5, <1>6 DEF KeepInv

\* A keeper has a ready pod.
LEMMA KeepInvServes ==
    ASSUME SameSize
    PROVE  IInv /\ KeepInv => KeepsServing
<1> SUFFICES ASSUME IInv, KeepInv, served = "yes"
             PROVE  \E r \in Rev : ReadyPods("core", r) # {}
  BY DEF KeepsServing
<1>1. Gated /\ Kept
  BY DEF KeepInv
<1>2. PICK r \in Rev : Keeper(r)
  BY <1>1 DEF Kept
<1>3. <<"core", r, 1>> \in ReadyPods("core", r)
  BY <1>1, <1>2, KeeperPods DEF Keeper, ReadyPods, SetPods
<1> QED
  BY <1>3

\* Once a StatefulSet of core nodes has been seen with all its pods ready, a
\* core pod is ready in every state, as long as no pod and no call to the EMQX
\* API fails and no edit changes the number of core nodes: whatever passes
\* die, status writes are lost or refused, reads are stale and updates are
\* rolled back, updatePodConditions and syncPods never take the last one away.
THEOREM CoreKeepsServing ==
    ASSUME Steady, SameSize
    PROVE  Spec => []KeepsServing
<1>1. Init => KeepInv
  BY InitKeepInv
<1>2. IInv /\ EarnedInv /\ KeepInv /\ [Next]_vars => KeepInv'
  BY NextKeepInv
<1>3. IInv /\ KeepInv => KeepsServing
  BY KeepInvServes
<1> QED
  BY <1>1, <1>2, <1>3, SteadyInvariance, PTL DEF Spec

=============================================================================
