--------------------------- MODULE RebalanceProofs ---------------------------
(***************************************************************************)
(* Proofs about the Rebalance controller, for any number of resources, any *)
(* bound on faults, and caches that may lag.                               *)
(***************************************************************************)
EXTENDS Rebalance, TLAPS

\* What the pass knows of its resource.  The copy differs from the version
\* it was read from only in its status, and that only once the handler ran;
\* a finalizer the copy has is still stored unless the resource is gone.
PassInv ==
    pc # "idle" =>
       /\ base.there
       /\ mem.deleting = base.deleting /\ mem.finalizer = base.finalizer
       /\ base.finalizer /\ obj[at].there => obj[at].finalizer
       /\ pc = "unfinalize" => mem.deleting
       /\ pc \in {"handle", "store"} => mem.finalizer /\ ~mem.deleting
       /\ pc # "store" => mem.phase = base.phase
       /\ pc = "store" => <<base.phase, mem.phase>> \in Moves
       /\ pc = "store" /\ mem.phase = "Completed" /\ Fresh => job # at
       /\ obj[at].phase = "Completed" => base.phase # ""

\* The stored resources: only a finalizer keeps a deleted one, finalizers
\* stay, and the version before a Completed one was not a new one.
StoreInv ==
    \A r \in Rebalances :
       /\ obj[r].there => obj[r].finalizer \/ ~obj[r].deleting
       /\ prev[r].finalizer /\ obj[r].there => obj[r].finalizer
       /\ obj[r].phase = "Completed" => prev[r].phase # ""

\* The inductive invariant.
IInv ==
    /\ TypeOK /\ PassInv /\ StoreInv
    /\ JobHeldByFinalizer /\ CompletedJobIsOver

-----------------------------------------------------------------------------
\* The initial states satisfy the inductive invariant.
LEMMA InitIInv == Init => IInv
<1> SUFFICES ASSUME Init PROVE IInv
  OBVIOUS
<1>1. Created \in Resources
  BY DEF Created, Resources, Phases
<1>2. TypeOK
  <2>1. /\ obj \in [Rebalances -> Resources]
        /\ prev \in [Rebalances -> Resources]
        /\ mem \in Resources /\ base \in Resources
    BY <1>1 DEF Init
  <2>2. emqx \in ClusterStates /\ pc \in Steps
    BY DEF Init, ClusterStates, Steps
  <2>3. changes \in 0..MaxChanges /\ faults \in 0..MaxFaults
    BY RebalanceAssumption DEF Init
  <2>4. req \in BOOLEAN /\ listed \in BOOLEAN /\ done \in SUBSET Rebalances
    BY DEF Init
  <2> QED
    BY <2>1, <2>2, <2>3, <2>4 DEF Init, TypeOK
<1>3. PassInv /\ JobHeldByFinalizer
  BY DEF Init, PassInv, JobHeldByFinalizer
<1>4. StoreInv /\ CompletedJobIsOver
  BY RebalanceAssumption DEF Init, StoreInv, CompletedJobIsOver, Created
<1> QED
  BY <1>2, <1>3, <1>4 DEF IInv

\* A stored version is a resource; no other resource changes.
LEMMA StoreType ==
    ASSUME TypeOK, NEW r \in Rebalances, NEW new \in Resources, Store(r, new)
    PROVE  /\ obj' \in [Rebalances -> Resources]
           /\ prev' \in [Rebalances -> Resources]
BY DEF Store, TypeOK, Resources

\* The fields of a record that is stored.
LEMMA StoredFields ==
    ASSUME TypeOK, NEW r \in Rebalances, NEW new \in Resources, Store(r, new)
    PROVE  /\ obj'[r].there = (new.finalizer \/ ~new.deleting)
           /\ obj'[r].finalizer = new.finalizer
           /\ obj'[r].deleting = new.deleting
           /\ obj'[r].phase = new.phase
           /\ \/ obj'[r] = obj[r] /\ prev'[r] = prev[r]
              \/ prev'[r] = obj[r]
           /\ \A q \in Rebalances \ {r} :
                 obj'[q] = obj[q] /\ prev'[q] = prev[q]
BY DEF Store, TypeOK, Resources

\* A write that drops a finalizer only from a deleted resource, and completes
\* a resource only when its job is over, keeps the invariant of the store.
LEMMA LegalStore ==
    ASSUME IInv, NEW r \in Rebalances, NEW new \in Resources, Store(r, new),
           obj[r].there, job' = job,
           obj[r].finalizer /\ ~new.finalizer => new.deleting,
           new.phase = "Completed" => obj[r].phase # "" /\ job # r
    PROVE  StoreInv' /\ JobHeldByFinalizer' /\ CompletedJobIsOver'
<1>1. TypeOK /\ StoreInv /\ JobHeldByFinalizer /\ CompletedJobIsOver
  BY DEF IInv
<1>2. /\ obj'[r].there = (new.finalizer \/ ~new.deleting)
      /\ obj'[r].finalizer = new.finalizer
      /\ obj'[r].deleting = new.deleting
      /\ obj'[r].phase = new.phase
      /\ \/ obj'[r] = obj[r] /\ prev'[r] = prev[r]
         \/ prev'[r] = obj[r]
      /\ \A q \in Rebalances \ {r} : obj'[q] = obj[q] /\ prev'[q] = prev[q]
  BY <1>1, StoredFields
<1>3. StoreInv'
  BY <1>1, <1>2 DEF StoreInv
<1>4. JobHeldByFinalizer'
  BY <1>1, <1>2 DEF JobHeldByFinalizer, TypeOK
<1>5. CompletedJobIsOver'
  BY <1>1, <1>2 DEF CompletedJobIsOver
<1> QED
  BY <1>3, <1>4, <1>5

\* Nothing is known of a pass that has ended, and nothing need be.
LEMMA EndedPass ==
    ASSUME EndPass
    PROVE  /\ PassInv'
           /\ pc' = "idle" /\ at' = None /\ req' \in BOOLEAN
           /\ listed' \in BOOLEAN /\ mem' \in Resources /\ base' \in Resources
<1>1. Created \in Resources
  BY DEF Created, Resources, Phases
<1> QED
  BY <1>1 DEF EndPass, PassInv

\* A pass that ends without a write.
LEMMA EndedWithoutWrite ==
    ASSUME IInv, EndPass, UNCHANGED <<obj, prev, emqx, job, changes, done>>,
           faults' \in 0..MaxFaults
    PROVE  IInv'
<1>1. TypeOK'
  BY EndedPass, RebalanceAssumption DEF IInv, TypeOK, Steps
<1>2. StoreInv' /\ JobHeldByFinalizer' /\ CompletedJobIsOver'
  BY DEF IInv, StoreInv, JobHeldByFinalizer, CompletedJobIsOver
<1> QED
  BY <1>1, <1>2, EndedPass DEF IInv

\* A pass that ends with a legal write.
LEMMA EndedWithWrite ==
    ASSUME IInv, EndPass, UNCHANGED <<emqx, job, changes, faults, done>>,
           at \in Rebalances, NEW new \in Resources, Store(at, new),
           obj[at].there,
           obj[at].finalizer /\ ~new.finalizer => new.deleting,
           new.phase = "Completed" => obj[at].phase # "" /\ job # at
    PROVE  IInv'
<1>1. obj' \in [Rebalances -> Resources] /\ prev' \in [Rebalances -> Resources]
  BY StoreType DEF IInv
<1>2. TypeOK'
  BY <1>1, EndedPass, RebalanceAssumption DEF IInv, TypeOK, Steps
<1>3. StoreInv' /\ JobHeldByFinalizer' /\ CompletedJobIsOver'
  BY LegalStore
<1> QED
  BY <1>2, <1>3, EndedPass DEF IInv

\* The write of a status: it is legal when the copy is fresh and the phase
\* makes a legal move.
LEMMA EndedWithStatus ==
    ASSUME IInv, EndPass, UNCHANGED <<emqx, job, changes, faults, done>>,
           pc # "idle", NEW m \in Resources, StatusUpdate(m),
           <<base.phase, m.phase>> \in Moves,
           m.phase = "Completed" /\ Fresh => job # at
    PROVE  IInv'
<1>1. at \in Rebalances
  BY DEF IInv, TypeOK
<1>2. CASE ~Fresh
  BY <1>2, EndedWithoutWrite DEF StatusUpdate, IInv, TypeOK
<1>3. CASE Fresh
  <2> DEFINE new == [obj[at] EXCEPT !.phase = m.phase, !.states = m.states]
  <2>1. Store(at, new)
    BY <1>3 DEF StatusUpdate
  <2>2. new \in Resources
    BY <1>1 DEF IInv, TypeOK, Resources
  <2>3. obj[at].there
    BY <1>3 DEF Fresh, IInv, PassInv
  <2>4. new.finalizer = obj[at].finalizer /\ new.phase = m.phase
    BY <1>1 DEF IInv, TypeOK, Resources
  <2>5. m.phase = "Completed" => obj[at].phase # ""
    BY <1>3 DEF Fresh, Moves, Phases
  <2> HIDE DEF new
  <2> QED
    BY <1>1, <1>3, <2>1, <2>2, <2>3, <2>4, <2>5, EndedWithWrite
<1> QED
  BY <1>2, <1>3

\* The write that takes the finalizer from a deleted resource.
LEMMA EndedWithRemoval ==
    ASSUME IInv, EndPass, UNCHANGED <<emqx, job, changes, faults, done>>,
           pc # "idle", mem.deleting,
           UpdateFinalizer(FALSE) \/ (~Fresh /\ UNCHANGED <<obj, prev>>)
    PROVE  IInv'
<1>1. at \in Rebalances
  BY DEF IInv, TypeOK
<1>2. CASE ~Fresh
  BY <1>2, EndedWithoutWrite DEF UpdateFinalizer, IInv, TypeOK
<1>3. CASE Fresh
  <2> DEFINE new == [obj[at] EXCEPT !.finalizer = FALSE]
  <2>1. Store(at, new)
    BY <1>3 DEF UpdateFinalizer
  <2>2. new \in Resources
    BY <1>1 DEF IInv, TypeOK, Resources
  <2>3. obj[at].there /\ obj[at].deleting
    BY <1>3 DEF Fresh, IInv, PassInv
  <2>4. new.deleting = obj[at].deleting /\ new.phase = obj[at].phase
    BY <1>1 DEF IInv, TypeOK, Resources
  <2>5. new.phase = "Completed" => obj[at].phase # "" /\ job # at
    BY <1>1, <2>4 DEF IInv, CompletedJobIsOver
  <2> HIDE DEF new
  <2> QED
    BY <1>1, <2>1, <2>2, <2>3, <2>4, <2>5, EndedWithWrite
<1> QED
  BY <1>2, <1>3

\* A step of a pass that writes nothing: what remains to show is what the
\* pass knows.
LEMMA Continued ==
    ASSUME IInv, UNCHANGED <<obj, prev, emqx, changes, done>>,
           pc' \in Steps, at' \in Rebalances \cup {None},
           pc' = "idle" <=> at' = None,
           mem' \in Resources, base' \in Resources, req' \in BOOLEAN,
           listed' \in BOOLEAN,
           faults' \in 0..MaxFaults, job' \in Rebalances \cup {None},
           \/ job' \in {job, None}
           \/ /\ job' = at
              /\ obj[at].there => obj[at].finalizer
              /\ obj[at].phase # "Completed",
           PassInv'
    PROVE  IInv'
<1>1. TypeOK'
  BY DEF IInv, TypeOK
<1>2. StoreInv' /\ JobHeldByFinalizer' /\ CompletedJobIsOver'
  BY RebalanceAssumption
     DEF IInv, TypeOK, StoreInv, JobHeldByFinalizer, CompletedJobIsOver
<1> QED
  BY <1>1, <1>2 DEF IInv

\* Every step preserves the inductive invariant.
LEMMA NextIInv == IInv /\ [Next]_vars => IInv'
<1> SUFFICES ASSUME IInv, [Next]_vars PROVE IInv'
  OBVIOUS
<1>a. TypeOK /\ PassInv
  BY DEF IInv
<1>b. faults \in 0..MaxFaults /\ (pc # "idle" => at \in Rebalances)
  BY <1>a DEF TypeOK
<1>1. CASE UNCHANGED vars
  BY <1>1 DEF IInv, TypeOK, PassInv, StoreInv, JobHeldByFinalizer,
              CompletedJobIsOver, Fresh, vars
<1>2. ASSUME NEW r \in Rebalances, Read(r) PROVE IInv'
  <2>1. mem' = base' /\ base' \in {obj[r], prev[r]} /\ base'.there
    BY <1>2 DEF Read
  <2>2. mem' \in Resources /\ base' \in Resources
    BY <2>1, <1>a DEF TypeOK
  <2>3. PassInv'
    BY <1>2, <2>1 DEF Read, IInv, PassInv, StoreInv
  <2> QED
    BY <1>2, <1>a, <2>2, <2>3, Continued, RebalanceAssumption
       DEF Read, TypeOK, Steps
<1>3. CASE TargetMissing
  <2>1. CASE mem.deleting
    BY <1>3, <2>1, EndedWithRemoval DEF TargetMissing
  <2>2. CASE ~mem.deleting
    <3>1. SetFailed(mem) \in Resources /\ SetFailed(mem).phase = "Failed"
      BY <1>a DEF SetFailed, TypeOK, Resources, Phases
    <3>2. <<base.phase, "Failed">> \in Moves
      BY <1>a DEF TypeOK, Resources, Moves
    <3> QED
      BY <1>3, <2>2, <3>1, <3>2, EndedWithStatus DEF TargetMissing
  <2> QED
    BY <2>1, <2>2
<1>4. CASE TargetUnfit
  <2>1. SetFailed(mem) \in Resources /\ SetFailed(mem).phase = "Failed"
    BY <1>a DEF SetFailed, TypeOK, Resources, Phases
  <2>2. <<base.phase, "Failed">> \in Moves
    BY <1>a DEF TypeOK, Resources, Moves
  <2> QED
    BY <1>4, <2>1, <2>2, EndedWithStatus DEF TargetUnfit
<1>5. CASE TargetUnusable
  BY <1>5, <1>b, EndedWithoutWrite DEF TargetUnusable
<1>6. CASE TargetFound
  <2>1. PassInv'
    BY <1>6, <1>a DEF TargetFound, PassInv
  <2> QED
    BY <1>6, <1>a, <2>1, Continued DEF TargetFound, TypeOK, Steps
<1>7. CASE Stop
  <2>1. PassInv'
    BY <1>7, <1>a DEF Stop, PassInv, memVars
  <2>2. faults' \in 0..MaxFaults
    BY <1>7, <1>b, RebalanceAssumption
       DEF Stop, RequestSucceeds, RequestFails, Fault
  <2> QED
    BY <1>7, <1>a, <1>b, <2>1, <2>2, Continued DEF Stop, TypeOK, Steps, memVars
<1>8. CASE StopPanic
  BY <1>8, <1>b, EndedWithoutWrite DEF StopPanic
<1>9. CASE NoStop
  <2>1. PassInv'
    BY <1>9, <1>a DEF NoStop, PassInv, memVars
  <2> QED
    BY <1>9, <1>a, <1>b, <2>1, Continued DEF NoStop, TypeOK, Steps, memVars
<1>10. CASE RemoveFinalizer
  <2>1. mem.deleting
    BY <1>10, <1>a DEF RemoveFinalizer, PassInv
  <2> QED
    BY <1>10, <2>1, EndedWithRemoval DEF RemoveFinalizer
<1>11. CASE AddFinalizer
  <2>0. at \in Rebalances /\ pc = "act" /\ ~mem.deleting
    BY <1>11, <1>b DEF AddFinalizer
  <2>1. CASE mem.finalizer
    <3>1. PassInv'
      BY <1>11, <1>a, <2>0, <2>1 DEF AddFinalizer, PassInv, memVars
    <3> QED
      BY <1>11, <1>a, <1>b, <2>0, <2>1, <3>1, Continued
         DEF AddFinalizer, TypeOK, Steps, memVars
  <2>2. CASE ~mem.finalizer /\ ~Fresh
    BY <1>11, <1>b, <2>2, EndedWithoutWrite DEF AddFinalizer, UpdateFinalizer
  <2>3. CASE ~mem.finalizer /\ Fresh
    <3> DEFINE new == [obj[at] EXCEPT !.finalizer = TRUE]
    <3>1. /\ Store(at, new) /\ mem' = new /\ base' = new /\ pc' = "handle"
          /\ UNCHANGED <<at, req, listed, emqx, job, changes, faults, done>>
      BY <1>11, <2>3 DEF AddFinalizer, UpdateFinalizer
    <3>2. obj[at] \in Resources /\ obj[at].there /\ ~obj[at].deleting
      BY <1>a, <2>0, <2>3 DEF TypeOK, Fresh, PassInv
    <3>3. /\ new \in Resources /\ new.finalizer /\ new.there
          /\ new.deleting = obj[at].deleting /\ new.phase = obj[at].phase
      BY <3>2 DEF Resources
    <3> HIDE DEF new
    <3>4. new.phase = "Completed" => obj[at].phase # "" /\ job # at
      BY <2>0, <3>3 DEF IInv, CompletedJobIsOver
    <3>5. StoreInv' /\ JobHeldByFinalizer' /\ CompletedJobIsOver'
      BY <2>0, <3>1, <3>2, <3>3, <3>4, LegalStore
    <3>6. obj' \in [Rebalances -> Resources] /\ prev' \in [Rebalances -> Resources]
      BY <1>a, <2>0, <3>1, <3>3, StoreType
    <3>7. TypeOK'
      BY <1>a, <2>0, <3>1, <3>3, <3>6 DEF TypeOK, Steps
    <3>8. obj'[at].finalizer /\ obj'[at].phase = new.phase
      BY <1>a, <2>0, <3>1, <3>3, StoredFields
    <3>9. PassInv'
      BY <3>1, <3>2, <3>3, <3>8 DEF PassInv
    <3> QED
      BY <3>5, <3>7, <3>9 DEF IInv
  <2> QED
    BY <2>1, <2>2, <2>3
<1>12. CASE HandleStart
  <2>0. at \in Rebalances /\ pc = "handle" /\ mem.phase = "" /\ base.phase = ""
    BY <1>12, <1>a, <1>b DEF HandleStart, PassInv
  <2>1. /\ mem' \in Resources /\ mem'.phase \in {"Processing", "Failed"}
        /\ mem'.deleting = mem.deleting /\ mem'.finalizer = mem.finalizer
    BY <1>12, <1>a, <2>0
       DEF HandleStart, TypeOK, Resources, SetProcessing, SetFailed, Phases
  <2>2. faults' \in 0..MaxFaults
    <3>1. RequestSucceeds \/ RequestFails("request")
      BY <1>12 DEF HandleStart
    <3> QED
      BY <3>1, <1>b, RebalanceAssumption
         DEF RequestSucceeds, RequestFails, Fault
  <2>3. job' \in {job, at}
    BY <1>12 DEF HandleStart
  <2>4. /\ obj[at].there => obj[at].finalizer
        /\ obj[at].phase # "Completed"
    BY <1>a, <2>0 DEF PassInv
  <2>5. /\ pc' = "store"
        /\ UNCHANGED <<obj, prev, emqx, at, base, req, listed, changes, done>>
    BY <1>12 DEF HandleStart
  <2>6. <<base.phase, mem'.phase>> \in Moves
    BY <2>0, <2>1 DEF Moves, Phases
  <2>7. PassInv'
    BY <1>a, <2>0, <2>1, <2>4, <2>5, <2>6 DEF PassInv
  <2> QED
    BY <1>a, <2>0, <2>1, <2>2, <2>3, <2>4, <2>5, <2>7, Continued
       DEF TypeOK, Steps
<1>13. CASE HandlePoll
  <2>0. at \in Rebalances /\ pc = "handle" /\ base.phase = "Processing"
    BY <1>13, <1>a, <1>b DEF HandlePoll, PassInv
  <2>1. /\ mem' \in Resources
        /\ mem'.phase \in {"Processing", "Completed", "Failed"}
        /\ mem'.deleting = mem.deleting /\ mem'.finalizer = mem.finalizer
        /\ mem'.phase = "Completed" => job = None
    BY <1>13, <1>a
       DEF HandlePoll, TypeOK, Resources, SetProcessing, SetCompleted,
           SetFailed, Phases
  <2>2. faults' \in 0..MaxFaults
    BY <1>13, <1>b, RebalanceAssumption
       DEF HandlePoll, RequestSucceeds, RequestFails, Fault
  <2>3. /\ pc' = "store"
        /\ UNCHANGED <<obj, prev, emqx, job, at, base, req, listed, changes, done>>
    BY <1>13 DEF HandlePoll
  <2>4. <<base.phase, mem'.phase>> \in Moves
    BY <2>0, <2>1 DEF Moves, Phases
  <2>5. PassInv'
    BY <1>a, <2>0, <2>1, <2>3, <2>4, RebalanceAssumption DEF PassInv
  <2> QED
    BY <1>a, <2>0, <2>1, <2>2, <2>3, <2>5, Continued DEF TypeOK, Steps
<1>14. CASE HandlePanic
  BY <1>14, <1>b, EndedWithoutWrite DEF HandlePanic
<1>15. CASE HandleDone
  <2>0. /\ at \in Rebalances /\ pc = "handle" /\ base.phase = mem.phase
        /\ pc' = "store"
        /\ UNCHANGED <<obj, prev, emqx, job, at, base, req, listed, changes,
                       faults, done>>
    BY <1>15, <1>a, <1>b DEF HandleDone, PassInv
  <2>1. /\ mem' \in Resources /\ mem'.phase = mem.phase
        /\ mem'.deleting = mem.deleting /\ mem'.finalizer = mem.finalizer
    BY <1>15, <1>a DEF HandleDone, TypeOK, Resources
  <2>2. <<base.phase, mem'.phase>> \in Moves
    BY <1>a, <2>0, <2>1 DEF Moves, TypeOK, Resources
  <2>3. mem'.phase = "Completed" /\ Fresh => job # at
    BY <2>0, <2>1 DEF IInv, CompletedJobIsOver, Fresh
  <2>4. PassInv'
    BY <1>a, <2>0, <2>1, <2>2, <2>3 DEF PassInv, Fresh
  <2> QED
    BY <1>a, <2>0, <2>1, <2>4, Continued DEF TypeOK, Steps
<1>16. CASE StoreStatus
  <2>1. /\ <<base.phase, mem.phase>> \in Moves
        /\ mem.phase = "Completed" /\ Fresh => job # at
    BY <1>16, <1>a DEF StoreStatus, PassInv
  <2> QED
    BY <1>16, <1>a, <2>1, EndedWithStatus DEF StoreStatus, TypeOK
<1>17. ASSUME NEW r \in Rebalances, Delete(r) PROVE IInv'
  <2> DEFINE new == [obj[r] EXCEPT !.deleting = TRUE]
  <2>1. /\ Store(r, new) /\ obj[r].there /\ ~obj[r].deleting
        /\ UNCHANGED <<emqx, job, pc, at, mem, base, req, listed, changes,
                       faults, done>>
    BY <1>17 DEF Delete, memVars
  <2>2. /\ new \in Resources /\ new.deleting
        /\ new.finalizer = obj[r].finalizer /\ new.phase = obj[r].phase
    BY <1>a DEF TypeOK, Resources
  <2> HIDE DEF new
  <2>3. new.phase = "Completed" => obj[r].phase # "" /\ job # r
    BY <2>2 DEF IInv, CompletedJobIsOver
  <2>4. StoreInv' /\ JobHeldByFinalizer' /\ CompletedJobIsOver'
    BY <2>1, <2>2, <2>3, LegalStore
  <2>5. obj' \in [Rebalances -> Resources] /\ prev' \in [Rebalances -> Resources]
    BY <1>a, <2>1, <2>2, StoreType
  <2>6. TypeOK'
    BY <1>a, <2>1, <2>5 DEF TypeOK
  <2>7. /\ obj'[r].deleting /\ obj'[r].finalizer = obj[r].finalizer
        /\ obj'[r].phase = obj[r].phase
        /\ \A q \in Rebalances \ {r} : obj'[q] = obj[q]
    BY <1>a, <2>1, <2>2, StoredFields
  <2>8. PassInv'
    <3>1. CASE at = r
      BY <1>a, <2>1, <2>7, <3>1 DEF PassInv, Fresh
    <3>2. CASE at # r
      BY <1>a, <1>b, <2>1, <2>7, <3>2 DEF PassInv, Fresh
    <3> QED
      BY <3>1, <3>2
  <2> QED
    BY <2>4, <2>6, <2>8 DEF IInv
<1>18. CASE PassFails
  BY <1>18, <1>b, EndedWithoutWrite, RebalanceAssumption DEF PassFails, Fault
<1>19. CASE JobEnds
  <2>1. TypeOK'
    BY <1>19, <1>a DEF JobEnds, TypeOK, memVars
  <2>2. PassInv' /\ StoreInv' /\ JobHeldByFinalizer' /\ CompletedJobIsOver'
    BY <1>19, RebalanceAssumption
       DEF JobEnds, IInv, TypeOK, PassInv, StoreInv, JobHeldByFinalizer,
           CompletedJobIsOver, memVars, Fresh
  <2> QED
    BY <2>1, <2>2 DEF IInv
<1>20. CASE ClusterChanges
  <2>0. /\ job' \in {job, None} /\ emqx' \in ClusterStates
        /\ changes' \in 0..MaxChanges
        /\ UNCHANGED <<obj, prev, pc, at, mem, base, req, listed, faults, done>>
    BY <1>20, <1>a, RebalanceAssumption DEF ClusterChanges, TypeOK, memVars
  <2>1. TypeOK'
    BY <1>a, <2>0 DEF TypeOK
  <2>2. PassInv' /\ StoreInv' /\ JobHeldByFinalizer' /\ CompletedJobIsOver'
    BY <2>0, RebalanceAssumption
       DEF IInv, TypeOK, PassInv, StoreInv, JobHeldByFinalizer,
           CompletedJobIsOver, Fresh
  <2> QED
    BY <2>1, <2>2 DEF IInv
<1>21. CASE ClusterRecovers
  <2>1. TypeOK'
    BY <1>21, <1>a DEF ClusterRecovers, TypeOK, memVars, ClusterStates
  <2>2. PassInv' /\ StoreInv' /\ JobHeldByFinalizer' /\ CompletedJobIsOver'
    BY <1>21 DEF ClusterRecovers, IInv, PassInv, StoreInv, JobHeldByFinalizer,
                 CompletedJobIsOver, memVars, Fresh
  <2> QED
    BY <2>1, <2>2 DEF IInv
<1> QED
  BY <1>1, <1>2, <1>3, <1>4, <1>5, <1>6, <1>7, <1>8, <1>9, <1>10, <1>11,
     <1>12, <1>13, <1>14, <1>15, <1>16, <1>17, <1>18, <1>19, <1>20, <1>21
     DEF Next, Reconcile

\* The inductive invariant holds in every reachable state.
LEMMA Invariance == Spec => []IInv
BY InitIInv, NextIInv, PTL DEF Spec

\* The state is well typed in every reachable state.
THEOREM TypeCorrect == Spec => []TypeOK
<1>1. IInv => TypeOK
  BY DEF IInv
<1> QED
  BY <1>1, Invariance, PTL

\* While the resource of a running job exists, its finalizer is stored: a
\* deletion of it has to go through the controller.
THEOREM RunningJobIsHeld == Spec => []JobHeldByFinalizer
<1>1. IInv => JobHeldByFinalizer
  BY DEF IInv
<1> QED
  BY <1>1, Invariance, PTL

\* A resource that is reported Completed has no job running.
THEOREM CompletedIsTrue == Spec => []CompletedJobIsOver
<1>1. IInv => CompletedJobIsOver
  BY DEF IInv
<1> QED
  BY <1>1, Invariance, PTL

\* One write moves the phase of its resource only, as the write says.
LEMMA WriteMoves ==
    ASSUME TypeOK, NEW r \in Rebalances, NEW new \in Resources, Store(r, new),
           <<obj[r].phase, new.phase>> \in Moves
    PROVE  \A q \in Rebalances : <<obj[q].phase, obj'[q].phase>> \in Moves
<1>1. /\ obj'[r].phase = new.phase
      /\ \A q \in Rebalances \ {r} : obj'[q] = obj[q]
  BY StoredFields
<1>2. \A q \in Rebalances : obj[q].phase \in Phases
  BY DEF TypeOK, Resources
<1> QED
  BY <1>1, <1>2 DEF Moves

\* A write of the status moves the phase the way the copy did.
LEMMA StatusMoves ==
    ASSUME TypeOK, at \in Rebalances, NEW m \in Resources, StatusUpdate(m),
           <<base.phase, m.phase>> \in Moves
    PROVE  \A q \in Rebalances : <<obj[q].phase, obj'[q].phase>> \in Moves
<1>1. CASE ~Fresh
  BY <1>1 DEF StatusUpdate, TypeOK, Resources, Moves
<1>2. CASE Fresh
  <2> DEFINE new == [obj[at] EXCEPT !.phase = m.phase, !.states = m.states]
  <2>1. Store(at, new)
    BY <1>2 DEF StatusUpdate
  <2>2. new \in Resources /\ new.phase = m.phase
    BY DEF TypeOK, Resources
  <2>3. <<obj[at].phase, new.phase>> \in Moves
    BY <1>2, <2>2 DEF Fresh
  <2> HIDE DEF new
  <2> QED
    BY <2>1, <2>2, <2>3, WriteMoves
<1> QED
  BY <1>1, <1>2

\* A write of the finalizer moves no phase.
LEMMA FinalizerMoves ==
    ASSUME TypeOK, at \in Rebalances, NEW f \in BOOLEAN, UpdateFinalizer(f)
    PROVE  \A q \in Rebalances : <<obj[q].phase, obj'[q].phase>> \in Moves
<1> DEFINE new == [obj[at] EXCEPT !.finalizer = f]
<1>1. Store(at, new)
  BY DEF UpdateFinalizer
<1>2. new \in Resources /\ new.phase = obj[at].phase
  BY DEF TypeOK, Resources
<1>3. <<obj[at].phase, new.phase>> \in Moves
  BY <1>2 DEF TypeOK, Resources, Moves
<1> HIDE DEF new
<1> QED
  BY <1>1, <1>2, <1>3, WriteMoves

\* The stored phase of a resource never goes back, and Failed is final.
THEOREM PhasesMoveForward == Spec => PhaseMovesForward
<1> DEFINE Forward ==
       \A r \in Rebalances : <<obj[r].phase, obj'[r].phase>> \in Moves
<1>1. ASSUME IInv, [Next]_vars PROVE Forward
  <2>a. TypeOK /\ PassInv /\ (pc # "idle" => at \in Rebalances)
    BY <1>1 DEF IInv, TypeOK
  <2>b. UNCHANGED obj => Forward
    BY <2>a DEF TypeOK, Resources, Moves
  <2>c. \A m \in Resources : SetFailed(m) \in Resources
                             /\ SetFailed(m).phase = "Failed"
    BY DEF SetFailed, Resources, Phases
  <2>d. <<base.phase, "Failed">> \in Moves
    BY <2>a DEF TypeOK, Resources, Moves
  <2>1. CASE TargetMissing
    <3>1. CASE mem.deleting /\ Fresh
      BY <2>1, <2>a, <3>1, FinalizerMoves DEF TargetMissing
    <3>2. CASE mem.deleting /\ ~Fresh
      BY <2>1, <2>b, <3>2 DEF TargetMissing, UpdateFinalizer
    <3>3. CASE ~mem.deleting
      BY <2>1, <2>a, <2>c, <2>d, <3>3, StatusMoves DEF TargetMissing, TypeOK
    <3> QED
      BY <3>1, <3>2, <3>3
  <2>2. CASE TargetUnfit
    BY <2>2, <2>a, <2>c, <2>d, StatusMoves DEF TargetUnfit, TypeOK
  <2>3. CASE RemoveFinalizer
    <3>1. CASE Fresh
      BY <2>3, <2>a, <3>1, FinalizerMoves DEF RemoveFinalizer
    <3>2. CASE ~Fresh
      BY <2>3, <2>b, <3>2 DEF RemoveFinalizer, UpdateFinalizer
    <3> QED
      BY <3>1, <3>2
  <2>4. CASE AddFinalizer
    <3>1. CASE UpdateFinalizer(TRUE)
      BY <2>4, <2>a, <3>1, FinalizerMoves DEF AddFinalizer
    <3>2. CASE UNCHANGED obj
      BY <2>b, <3>2
    <3> QED
      BY <2>4, <3>1, <3>2 DEF AddFinalizer
  <2>5. CASE StoreStatus
    BY <2>5, <2>a, StatusMoves DEF StoreStatus, PassInv, TypeOK
  <2>6. ASSUME NEW r \in Rebalances, Delete(r) PROVE Forward
    <3> DEFINE new == [obj[r] EXCEPT !.deleting = TRUE]
    <3>1. Store(r, new)
      BY <2>6 DEF Delete
    <3>2. new \in Resources /\ new.phase = obj[r].phase
      BY <2>a DEF TypeOK, Resources
    <3>3. <<obj[r].phase, new.phase>> \in Moves
      BY <2>a, <3>2 DEF TypeOK, Resources, Moves
    <3> HIDE DEF new
    <3> QED
      BY <2>a, <3>1, <3>2, <3>3, WriteMoves
  <2>7. \/ TargetMissing \/ TargetUnfit \/ RemoveFinalizer \/ AddFinalizer
        \/ StoreStatus \/ (\E r \in Rebalances : Delete(r)) \/ UNCHANGED obj
    BY <1>1 DEF Next, Reconcile, vars, Read, TargetUnusable, TargetFound,
                Stop, StopPanic, NoStop, HandleStart, HandlePoll, HandlePanic,
                HandleDone, PassFails, JobEnds, ClusterChanges, ClusterRecovers
  <2> QED
    BY <2>b, <2>1, <2>2, <2>3, <2>4, <2>5, <2>6, <2>7
<1>2. Spec => [][Forward]_vars
  <2>1. IInv /\ [Next]_vars => [Forward]_vars
    BY <1>1
  <2> HIDE DEF Forward
  <2> QED
    BY <2>1, Invariance, PTL DEF Spec
<1> QED
  BY <1>2 DEF PhaseMovesForward

-----------------------------------------------------------------------------
(* The job of a resource that goes away.                                   *)

\* What DeletionStopsJob rests on besides: a job does not outlive its cluster,
\* a resource that is Processing has its finalizer, and a pass that is about
\* to take it away has stopped the job.
StopInv ==
    /\ emqx = "absent" => job = None
    /\ \A r \in Rebalances :
          obj[r].there /\ obj[r].phase = "Processing" => obj[r].finalizer
    /\ pc = "unfinalize" /\ base.phase = "Processing" => job # at

\* A write keeps the finalizers of the resources that are Processing if it
\* keeps that of its own.
LEMMA HeldWrite ==
    ASSUME TypeOK, StopInv, NEW r \in Rebalances, NEW new \in Resources,
           Store(r, new),
           new.phase = "Processing" => new.finalizer \/ new.deleting
    PROVE  \A q \in Rebalances :
              obj'[q].there /\ obj'[q].phase = "Processing" => obj'[q].finalizer
<1>1. /\ obj'[r].there = (new.finalizer \/ ~new.deleting)
      /\ obj'[r].finalizer = new.finalizer /\ obj'[r].phase = new.phase
      /\ \A q \in Rebalances \ {r} : obj'[q] = obj[q]
  BY StoredFields
<1>2. obj'[r].there /\ obj'[r].phase = "Processing" => obj'[r].finalizer
  BY <1>1
<1> QED
  BY <1>1, <1>2 DEF StopInv

\* A write of a status: what is stored of the resource else is what it was.
LEMMA StatusStored ==
    ASSUME TypeOK, at \in Rebalances, NEW m \in Resources, StatusUpdate(m), Fresh
    PROVE  \E new \in Resources : /\ Store(at, new) /\ new.phase = m.phase
                                  /\ new.finalizer = obj[at].finalizer
                                  /\ new.deleting = obj[at].deleting
<1> DEFINE new == [obj[at] EXCEPT !.phase = m.phase, !.states = m.states]
<1>1. Store(at, new)
  BY DEF StatusUpdate
<1>2. /\ new \in Resources /\ new.phase = m.phase
      /\ new.finalizer = obj[at].finalizer /\ new.deleting = obj[at].deleting
  BY DEF TypeOK, Resources
<1> QED
  BY <1>1, <1>2

\* A write of a finalizer.
LEMMA FinalizerStored ==
    ASSUME TypeOK, at \in Rebalances, NEW f \in BOOLEAN, UpdateFinalizer(f)
    PROVE  \E new \in Resources : /\ Store(at, new) /\ new.phase = obj[at].phase
                                  /\ new.finalizer = f
                                  /\ new.deleting = obj[at].deleting
<1> DEFINE new == [obj[at] EXCEPT !.finalizer = f]
<1>1. Store(at, new)
  BY DEF UpdateFinalizer
<1>2. /\ new \in Resources /\ new.phase = obj[at].phase
      /\ new.finalizer = f /\ new.deleting = obj[at].deleting
  BY DEF TypeOK, Resources
<1> QED
  BY <1>1, <1>2

\* A write of a status neither removes a resource nor leaves one Processing
\* without its finalizer.
LEMMA StatusHeld ==
    ASSUME IInv, StopInv, at \in Rebalances, pc # "idle",
           NEW m \in Resources, StatusUpdate(m),
           m.phase = "Processing" => mem.finalizer
    PROVE  /\ \A q \in Rebalances : obj[q].there => obj'[q].there
           /\ \A q \in Rebalances :
                 obj'[q].there /\ obj'[q].phase = "Processing" => obj'[q].finalizer
<1>a. TypeOK /\ PassInv /\ StoreInv
  BY DEF IInv
<1>1. CASE ~Fresh
  BY <1>1 DEF StatusUpdate, StopInv
<1>2. CASE Fresh
  <2>1. PICK new \in Resources : /\ Store(at, new) /\ new.phase = m.phase
                                 /\ new.finalizer = obj[at].finalizer
                                 /\ new.deleting = obj[at].deleting
    BY <1>a, <1>2, StatusStored
  <2>2. obj[at].there /\ (obj[at].finalizer \/ ~obj[at].deleting)
    BY <1>a, <1>2 DEF Fresh, PassInv, StoreInv
  <2>3. m.phase = "Processing" => new.finalizer
    BY <1>a, <1>2, <2>1 DEF Fresh, PassInv
  <2>4. \A q \in Rebalances : obj[q].there => obj'[q].there
    BY <1>a, <2>1, <2>2, StoredFields
  <2> QED
    BY <1>a, <2>1, <2>3, <2>4, HeldWrite
<1> QED
  BY <1>1, <1>2

\* Taking the finalizer from a resource that is being deleted removes it, and
\* no other.
LEMMA RemovalHeld ==
    ASSUME IInv, StopInv, at \in Rebalances, pc # "idle", mem.deleting,
           UpdateFinalizer(FALSE) \/ (~Fresh /\ UNCHANGED <<obj, prev>>)
    PROVE  /\ \A q \in Rebalances :
                 obj[q].there /\ ~obj'[q].there => q = at /\ Fresh
           /\ \A q \in Rebalances :
                 obj'[q].there /\ obj'[q].phase = "Processing" => obj'[q].finalizer
<1>a. TypeOK /\ PassInv
  BY DEF IInv
<1>1. CASE ~Fresh /\ UNCHANGED <<obj, prev>>
  BY <1>1 DEF StopInv
<1>2. CASE UpdateFinalizer(FALSE)
  <2>1. PICK new \in Resources : /\ Store(at, new) /\ new.phase = obj[at].phase
                                 /\ new.finalizer = FALSE
                                 /\ new.deleting = obj[at].deleting
    BY <1>a, <1>2, FinalizerStored
  <2>2. Fresh /\ new.deleting
    BY <1>a, <1>2, <2>1 DEF UpdateFinalizer, Fresh, PassInv
  <2> QED
    BY <1>a, <2>1, <2>2, HeldWrite, StoredFields
<1> QED
  BY <1>1, <1>2

\* Every step keeps StopInv, and one that removes a resource that is
\* Processing leaves it no job, if requests to stop a job do not fail.
LEMMA StopStep ==
    ASSUME "stop" \notin Faults, IInv, StopInv, [Next]_vars
    PROVE  /\ StopInv'
           /\ \A r \in Rebalances :
                 obj[r].there /\ ~obj'[r].there /\ obj[r].phase = "Processing"
                   => job' # r
<1> DEFINE Held == \A q \in Rebalances :
                      obj'[q].there /\ obj'[q].phase = "Processing"
                        => obj'[q].finalizer
           Remain == \A q \in Rebalances :
                        obj[q].there /\ obj[q].phase = "Processing"
                          => obj'[q].there
           Stays == \A q \in Rebalances : obj[q].there => obj'[q].there
<1>a. TypeOK /\ PassInv /\ StoreInv /\ (pc # "idle" => at \in Rebalances)
  BY DEF IInv, TypeOK
<1>b. UNCHANGED obj => Held /\ Stays
  BY DEF StopInv
<1>c. EndPass => pc' = "idle"
  BY DEF EndPass
<1>d. ASSUME NEW m \in Resources PROVE SetFailed(m) \in Resources
                                       /\ SetFailed(m).phase = "Failed"
  BY DEF SetFailed, Resources, Phases
<1>1. CASE TargetMissing
  <2>1. job = None /\ job' = job /\ emqx' = emqx /\ pc' = "idle" /\ pc # "idle"
    BY <1>1, <1>c DEF TargetMissing, StopInv
  <2>2. Held
    BY <1>1, <1>a, <1>d, <2>1, StatusHeld, RemovalHeld DEF TargetMissing, TypeOK
  <2> QED
    BY <2>1, <2>2, RebalanceAssumption DEF StopInv
<1>2. CASE TargetUnfit
  <2>1. job' = job /\ emqx' = emqx /\ pc' = "idle" /\ pc # "idle"
    BY <1>2, <1>c DEF TargetUnfit
  <2>2. Held /\ Stays
    BY <1>2, <1>a, <1>d, <2>1, StatusHeld DEF TargetUnfit, TypeOK
  <2> QED
    BY <2>1, <2>2 DEF StopInv
<1>3. CASE StoreStatus
  <2>1. job' = job /\ emqx' = emqx /\ pc' = "idle" /\ pc = "store"
    BY <1>3, <1>c DEF StoreStatus
  <2>2. Held /\ Stays
    BY <1>3, <1>a, <2>1, StatusHeld DEF StoreStatus, TypeOK, PassInv
  <2> QED
    BY <2>1, <2>2 DEF StopInv
<1>4. CASE RemoveFinalizer
  <2>1. /\ job' = job /\ emqx' = emqx /\ pc' = "idle" /\ pc = "unfinalize"
        /\ mem.deleting
    BY <1>4, <1>a, <1>c DEF RemoveFinalizer, PassInv
  <2>2. /\ Held
        /\ \A q \in Rebalances :
              obj[q].there /\ ~obj'[q].there => q = at /\ Fresh
    BY <1>4, <1>a, <2>1, RemovalHeld DEF RemoveFinalizer
  <2> QED
    BY <2>1, <2>2 DEF StopInv, Fresh
<1>5. CASE AddFinalizer
  <2>1. job' = job /\ emqx' = emqx /\ pc' # "unfinalize" /\ pc # "idle"
    BY <1>5, <1>c DEF AddFinalizer
  <2>2. CASE UNCHANGED obj
    BY <1>b, <2>1, <2>2 DEF StopInv
  <2>3. CASE UpdateFinalizer(TRUE)
    <3>1. PICK new \in Resources : Store(at, new) /\ new.finalizer = TRUE
      BY <1>a, <2>1, <2>3, FinalizerStored
    <3>2. Held /\ Stays
      BY <1>a, <2>1, <3>1, HeldWrite, StoredFields
    <3> QED
      BY <2>1, <3>2 DEF StopInv
  <2> QED
    BY <1>5, <2>2, <2>3 DEF AddFinalizer
<1>6. ASSUME NEW r \in Rebalances, Delete(r) PROVE StopInv' /\ Remain
  <2> DEFINE new == [obj[r] EXCEPT !.deleting = TRUE]
  <2>1. /\ Store(r, new) /\ obj[r].there
        /\ UNCHANGED <<emqx, job, pc, at, base>>
    BY <1>6 DEF Delete, memVars
  <2>2. /\ new \in Resources /\ new.deleting /\ new.phase = obj[r].phase
        /\ new.finalizer = obj[r].finalizer
    BY <1>a DEF TypeOK, Resources
  <2> HIDE DEF new
  <2>3. Held
    BY <1>a, <2>1, <2>2, HeldWrite
  <2>4. Remain
    <3>1. /\ obj'[r].there = (new.finalizer \/ ~new.deleting)
          /\ \A q \in Rebalances \ {r} : obj'[q] = obj[q]
      BY <1>a, <2>1, <2>2, StoredFields
    <3> QED
      BY <2>1, <2>2, <3>1 DEF StopInv
  <2>5. StopInv'
    BY <2>1, <2>3 DEF StopInv
  <2> QED
    BY <2>4, <2>5
<1>7. CASE Stop
  <2>1. /\ UNCHANGED <<obj, emqx, at, base>>
        /\ job' = None \/ (job' = job /\ (emqx = "absent" \/ Fault("stop")))
    BY <1>7 DEF Stop, memVars, RequestSucceeds, RequestFails
  <2>2. job' = None
    BY <2>1 DEF Fault, StopInv
  <2>3. job' # at
    BY <1>7, <1>a, <2>2, RebalanceAssumption DEF Stop
  <2> QED
    BY <1>b, <2>1, <2>2, <2>3 DEF StopInv
<1>8. CASE NoStop
  <2>1. base.phase # "Processing" /\ UNCHANGED <<obj, emqx, job, base>>
    BY <1>8, <1>a DEF NoStop, PassInv, memVars
  <2> QED
    BY <1>b, <2>1 DEF StopInv
<1>9. CASE HandleStart
  <2>1. UNCHANGED <<obj, emqx>> /\ pc' = "store" /\ (emqx = "absent" => job' = job)
    BY <1>9 DEF HandleStart, RequestSucceeds
  <2> QED
    BY <1>b, <2>1 DEF StopInv
<1>10. CASE \/ TargetUnusable \/ TargetFound \/ StopPanic \/ HandlePoll
            \/ HandlePanic \/ HandleDone \/ PassFails
            \/ \E r \in Rebalances : Read(r)
  <2>1. UNCHANGED <<obj, emqx, job>> /\ pc' # "unfinalize"
    BY <1>10, <1>c DEF TargetUnusable, TargetFound, StopPanic, HandlePoll,
                       HandlePanic, HandleDone, PassFails, Read
  <2> QED
    BY <1>b, <2>1 DEF StopInv
<1>11. CASE JobEnds \/ ClusterChanges \/ ClusterRecovers \/ UNCHANGED vars
  <2>1. /\ UNCHANGED <<obj, pc, at, base>> /\ job' \in {job, None}
        /\ emqx' = "absent" => emqx = "absent" \/ job' = None
    BY <1>11 DEF JobEnds, ClusterChanges, ClusterRecovers, vars, memVars
  <2>2. pc # "idle" => None # at
    BY <1>a, RebalanceAssumption
  <2> QED
    BY <1>b, <2>1, <2>2 DEF StopInv
<1> QED
  BY <1>1, <1>2, <1>3, <1>4, <1>5, <1>6, <1>7, <1>8, <1>9, <1>10, <1>11
     DEF Next, Reconcile

\* A resource that is removed while it is Processing leaves no job of its own
\* behind, when requests to stop a job do not fail (errors of them are
\* ignored): whatever else fails, and however stale the reads are.
THEOREM DeletionEndsTheJob ==
    ASSUME "stop" \notin Faults
    PROVE  Spec => DeletionStopsJob
<1> DEFINE Stopped ==
       \A r \in Rebalances :
          obj[r].there /\ ~obj'[r].there /\ obj[r].phase = "Processing"
            => job' # r
<1>1. Init => StopInv
  <2>1. Created.phase # "Processing"
    BY DEF Created
  <2>2. Init => \A r \in Rebalances : obj[r] = Created
    BY DEF Init
  <2>3. Init => pc # "unfinalize" /\ job = None
    BY DEF Init
  <2> QED
    BY <2>1, <2>2, <2>3 DEF StopInv
<1>2. IInv /\ StopInv /\ [Next]_vars => StopInv'
  BY StopStep
<1>3. IInv /\ StopInv /\ [Next]_vars => [Stopped]_vars
  BY StopStep
<1>4. Spec => [][Stopped]_vars
  <2> HIDE DEF Stopped
  <2> QED
    BY <1>1, <1>2, <1>3, Invariance, PTL DEF Spec
<1> QED
  BY <1>4 DEF DeletionStopsJob

=============================================================================
