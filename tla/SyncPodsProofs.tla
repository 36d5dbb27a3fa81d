--------------------------- MODULE SyncPodsProofs ---------------------------
(***************************************************************************)
(* Proofs about SyncPods, for any number of pods and of sessions and any   *)
(* faults: the nodes of the old set are emptied one after the other, and   *)
(* no Enterprise node is taken away with a session on it.                  *)
(***************************************************************************)
EXTENDS SyncPods, FiniteSetTheorems, WellFoundedInduction, TLAPS

(***************************************************************************)
(* The greatest pod.                                                       *)
(***************************************************************************)

\* Every set of numbers that is not empty has a least one.
LEMMA LeastNumber ==
  ASSUME NEW S \in SUBSET Nat, S # {}
  PROVE  \E m \in S : \A n \in S : m <= n
<1>1. OpToRel(<, Nat) = {ss \in Nat \X Nat : ss[1] < ss[2]}
  BY DEF OpToRel
<1>2. PICK m \in S : \A n \in S : ~(<<n, m>> \in OpToRel(<, Nat))
  BY NatLessThanWellFounded, WFMin
<1>3. \A n \in S : ~(n < m)
  BY <1>1, <1>2
<1>4. QED
  BY <1>3

Top(p, P) == p \in P /\ \A q \in P : q <= p

\* A set of pods that is not empty has a greatest one, and Max is that one.
LEMMA MaxIsTop ==
  ASSUME NEW P \in SUBSET Pods, P # {}
  PROVE  Top(Max(P), P)
<1>1. \A p \in P : p \in Nat /\ N - p \in Nat
  BY SyncPodsAssumption DEF Pods
<1> DEFINE D == {d \in Nat : \E p \in P : d = N - p}
<1>2. D \in SUBSET Nat /\ D # {}
  BY <1>1
<1> HIDE DEF D
<1>3. PICK d \in D : \A e \in D : d <= e
  BY <1>2, LeastNumber
<1> USE DEF D
<1>4. PICK p \in P : d = N - p
  BY <1>3
<1>5. \A q \in P : q <= p
  <2> SUFFICES ASSUME NEW q \in P PROVE q <= p
    OBVIOUS
  <2>1. N - q \in D
    BY <1>1
  <2>2. N - p <= N - q
    BY <2>1, <1>3, <1>4
  <2>3. QED
    BY <2>2, <1>1, SyncPodsAssumption
<1>6. \E x \in P : \A y \in P : x >= y
  BY <1>1, <1>5
<1>7. Max(P) \in P /\ \A y \in P : Max(P) >= y
  BY <1>6 DEF Max
<1>8. QED
  BY <1>1, <1>7 DEF Top

\* There is one greatest pod.
LEMMA OneTop ==
  ASSUME NEW P \in SUBSET Pods, NEW p, NEW q, Top(p, P), Top(q, P)
  PROVE  p = q
  BY SyncPodsAssumption DEF Top, Pods

-----------------------------------------------------------------------------
(* Types.                                                                  *)

SetOK ==
    /\ kind \in {"rs", "sts"} /\ enterprise \in BOOLEAN
    /\ pods \in SUBSET Pods /\ term \in SUBSET pods /\ cost \in SUBSET pods
    /\ want \in 0 .. N

NodeOK ==
    /\ up \in SUBSET pods /\ sess \in [Pods -> Nat]
    /\ evac \in [Pods \cup {New} -> Stages] /\ loose \in SUBSET Pods

PassOK ==
    /\ listed \in BOOLEAN
    /\ nodes \in [DOMAIN nodes -> Nat] /\ DOMAIN nodes \in SUBSET Pods
    /\ first \in (Pods \cup {New}) \X Stages
    /\ pc \in {"nodes", "evacs", "sync", "annotate", "scale"}
    /\ victim \in Pods \cup {New}

\* A node that does not run has no sessions.
Quiet == \A p \in Pods \ up : sess[p] = 0

Types == SetOK /\ NodeOK /\ PassOK /\ Quiet

\* New is not a pod of the old set.
LEMMA NewNoPod == New \notin Pods
  BY SyncPodsAssumption DEF New, Pods

LEMMA InitTypes == Init => Types
<1> SUFFICES ASSUME Init PROVE Types
  OBVIOUS
<1>1. SetOK
  BY SyncPodsAssumption DEF Init, SetOK
<1>2. NodeOK
  BY SyncPodsAssumption DEF Init, NodeOK, Stages
<1>3. PassOK
  BY DEF Init, PassOK, NoEvacuation, Stages
<1>4. Quiet
  BY DEF Init, Quiet
<1>5. QED
  BY <1>1, <1>2, <1>3, <1>4 DEF Types

LEMMA EndPassType == ASSUME Types, EndPass
                     PROVE  /\ pc' \in {"nodes", "evacs", "sync", "annotate", "scale"}
                            /\ victim' \in Pods \cup {New}
  BY DEF EndPass, Types, PassOK

LEMMA StatusTypes == ASSUME Types, updateStatusNodes \/ updateStatusEvacs PROVE Types'
<1>1. CASE updateStatusNodes
  <2>1. \A p \in up : sess[p] \in Nat
    BY DEF Types, NodeOK, SetOK
  <2>2. /\ nodes' \in [DOMAIN nodes' -> Nat] /\ DOMAIN nodes' \in SUBSET Pods
        /\ listed' \in BOOLEAN
    BY <1>1, <2>1 DEF updateStatusNodes, Types, NodeOK, SetOK
  <2>3. SetOK' /\ NodeOK' /\ Quiet'
    BY <1>1 DEF updateStatusNodes, Types, SetOK, NodeOK, Quiet, setVars,
                nodeVars
  <2>4. PassOK'
    BY <1>1, <2>2 DEF updateStatusNodes, Types, PassOK
  <2>5. QED
    BY <2>3, <2>4 DEF Types
<1>2. CASE updateStatusEvacs
  <2>1. DOMAIN evac = Pods \cup {New}
    BY DEF Types, NodeOK
  <2>2. first' \in (Pods \cup {New}) \X Stages
    BY <1>2, <2>1 DEF updateStatusEvacs, Types, PassOK, NoEvacuation,
                      Evacuations, Stages
  <2>3. SetOK' /\ NodeOK' /\ Quiet'
    BY <1>2 DEF updateStatusEvacs, Types, SetOK, NodeOK, Quiet, setVars,
                nodeVars
  <2>4. PassOK'
    BY <1>2, <2>2 DEF updateStatusEvacs, Types, PassOK
  <2>5. QED
    BY <2>3, <2>4 DEF Types
<1>3. QED
  BY <1>1, <1>2

-----------------------------------------------------------------------------
(* What syncPods does with a pod: it waits, starts an evacuation, or takes *)
(* the pod.                                                                *)

Waits == EndPass /\ UNCHANGED <<evac, loose>>

Starts(p) ==
    /\ enterprise /\ evac[p] = "none" /\ (listed \/ AnyTarget) /\ EndPass
    /\ evac' = [evac EXCEPT ![p] = "evicting"]
    /\ loose' = IF listed THEN loose ELSE loose \cup {p}

Takes(p, next) == pc' = next /\ victim' = p /\ UNCHANGED <<evac, loose>>

\* A running node with sessions is evacuated if it is an Enterprise one.
LEMMA RetireDoes ==
  ASSUME Types, NEW p, NEW n \in Nat, NEW next, Retire(p, n, next)
  PROVE  Waits \/ Starts(p) \/ (Takes(p, next) /\ (enterprise => n = 0))
<1>1. CASE enterprise /\ n > 0
  BY <1>1 DEF Retire, startEvacuationByAPI, Waits, Starts, Types, PassOK
<1>2. CASE ~(enterprise /\ n > 0)
  BY <1>2 DEF Retire, Wait, Take, Waits, Takes
<1>3. QED
  BY <1>1, <1>2

\* Of a ReplicaSet the evacuated pod, or the last one, is looked at; a pod
\* that goes already, or was chosen already, is taken again.
LEMMA RsDoes ==
  ASSUME Types, canBeScaleDownRs
  PROVE  /\ kind = "rs" /\ pc = "sync"
         /\ UNCHANGED <<setVars, up, sess, delay, statusVars>>
         /\ \/ Waits
            \/ \E p \in pods :
                  /\ p = first[1] \/ p = Max(pods)
                  /\ Starts(p)
            \/ \E p \in pods :
                  /\ Takes(p, "annotate")
                  /\ enterprise => \/ p \in term \cup cost
                                   \/ sess[p] = 0
                                   \/ p \in DOMAIN nodes /\ nodes[p] = 0
<1>1. /\ kind = "rs" /\ pc = "sync"
      /\ UNCHANGED <<setVars, up, sess, delay, statusVars>>
  BY DEF canBeScaleDownRs
<1>2. CASE Wait
  BY <1>1, <1>2 DEF Wait, Waits
<1>3. CASE canBeScaleDownRsEvacuated /\ first[1] \in DOMAIN nodes \cap pods
  <2>1. PICK p \in DOMAIN nodes \cap pods : p = first[1]
    BY <1>3
  <2>2. Retire(p, nodes[p], "annotate")
    BY <1>3, <2>1 DEF canBeScaleDownRsEvacuated, Retire, startEvacuationByAPI,
                      Take
  <2>3. nodes[p] \in Nat
    BY DEF Types, PassOK
  <2>4. Waits \/ Starts(p) \/ (Takes(p, "annotate") /\ (enterprise => nodes[p] = 0))
    BY <2>2, <2>3, RetireDoes
  <2>5. QED
    BY <1>1, <2>1, <2>4
<1>4. CASE canBeScaleDownRsEvacuated /\ first[1] \notin DOMAIN nodes \cap pods
  BY <1>2, <1>4 DEF canBeScaleDownRsEvacuated
<1>5. CASE canBeScaleDownRsNext /\ pods # {}
  <2>1. CASE term \cup cost # {}
    <3>1. term \cup cost \in SUBSET Pods /\ term \cup cost \subseteq pods
      BY DEF Types, SetOK
    <3>2. PICK p \in term \cup cost : p = Max(term \cup cost)
      BY <2>1, <3>1, MaxIsTop DEF Top
    <3>3. Takes(p, "annotate")
      BY <1>5, <2>1, <3>2 DEF canBeScaleDownRsNext, Take, Takes
    <3>4. QED
      BY <1>1, <3>1, <3>3
  <2>2. CASE term \cup cost = {}
    <3>1. PICK p \in pods : p = Max(pods)
      BY <1>5, MaxIsTop DEF Top, Types, SetOK
    <3>2. CASE EndPass /\ UNCHANGED <<evac, loose>>
      BY <1>1, <3>2 DEF Waits
    <3>3. CASE IF NextPod \in up THEN Retire(NextPod, sess[NextPod], "annotate")
               ELSE Take(NextPod, "annotate")
      <4>1. CASE p \in up
        <5>1. Retire(p, sess[p], "annotate")
          BY <3>1, <3>3, <4>1 DEF NextPod, Retire, startEvacuationByAPI, Take
        <5>2. sess[p] \in Nat
          BY DEF Types, SetOK, NodeOK
        <5>3. \/ Waits \/ Starts(p)
              \/ Takes(p, "annotate") /\ (enterprise => sess[p] = 0)
          BY <5>1, <5>2, RetireDoes
        <5>4. QED
          BY <1>1, <3>1, <5>3
      <4>2. CASE p \notin up
        <5>1. sess[p] = 0
          BY <4>2 DEF Types, SetOK, Quiet
        <5>2. Takes(p, "annotate")
          BY <3>1, <3>3, <4>2 DEF NextPod, Take, Takes
        <5>3. QED
          BY <1>1, <5>1, <5>2
      <4>3. QED
        BY <4>1, <4>2
    <3>4. QED
      BY <1>5, <2>2, <3>2, <3>3 DEF canBeScaleDownRsNext
  <2>3. QED
    BY <2>1, <2>2
<1>6. QED
  BY <1>2, <1>3, <1>4, <1>5 DEF canBeScaleDownRs

\* Of a StatefulSet the pod with the greatest ordinal below spec.replicas is
\* looked at.
LEMMA StsDoes ==
  ASSUME Types, canBeScaleDownSts
  PROVE  /\ kind = "sts" /\ pc = "sync"
         /\ UNCHANGED <<setVars, up, sess, delay, statusVars>>
         /\ \/ Waits
            \/ want \in pods /\ Starts(want)
            \/ /\ want \in pods /\ Takes(want, "scale")
               /\ enterprise => sess[want] = 0
<1>1. /\ kind = "sts" /\ pc = "sync"
      /\ UNCHANGED <<setVars, up, sess, delay, statusVars>>
  BY DEF canBeScaleDownSts
<1>2. CASE Waits
  BY <1>1, <1>2
<1>3. CASE want \in pods /\ want \in up /\ Retire(want, sess[want], "scale")
  <2>1. sess[want] \in Nat
    BY <1>3 DEF Types, SetOK, NodeOK
  <2>2. \/ Waits \/ Starts(want)
        \/ Takes(want, "scale") /\ (enterprise => sess[want] = 0)
    BY <1>3, <2>1, RetireDoes
  <2>3. QED
    BY <1>1, <1>3, <2>2
<1>4. CASE want \in pods /\ want \notin up /\ Take(want, "scale")
  <2>1. sess[want] = 0
    BY <1>4 DEF Types, SetOK, Quiet
  <2>2. QED
    BY <1>1, <1>4, <2>1 DEF Take, Takes
<1>5. QED
  BY <1>2, <1>3, <1>4 DEF canBeScaleDownSts, Wait, Waits


-----------------------------------------------------------------------------
(* Types, continued.                                                       *)

LEMMA SyncTypes ==
  ASSUME Types, canBeScaleDownRs \/ canBeScaleDownSts
  PROVE  Types'
<1>1. /\ UNCHANGED <<setVars, up, sess, delay, statusVars>>
      /\ \/ Waits
         \/ \E p \in pods : Starts(p)
         \/ \E p \in pods, next \in {"annotate", "scale"} : Takes(p, next)
  BY RsDoes, StsDoes
<1>2. pods \in SUBSET Pods
  BY DEF Types, SetOK
<1>3. /\ evac' \in [Pods \cup {New} -> Stages] /\ loose' \in SUBSET Pods
      /\ pc' \in {"nodes", "evacs", "sync", "annotate", "scale"}
      /\ victim' \in Pods \cup {New}
  <2>1. CASE Waits
    BY <2>1, EndPassType DEF Waits, Types, NodeOK
  <2>2. CASE \E p \in pods : Starts(p)
    BY <2>2, <1>2, EndPassType DEF Starts, Types, NodeOK, Stages
  <2>3. CASE \E p \in pods, next \in {"annotate", "scale"} : Takes(p, next)
    BY <2>3, <1>2 DEF Takes, Types, NodeOK
  <2>4. QED
    BY <1>1, <2>1, <2>2, <2>3
<1>4. SetOK' /\ NodeOK' /\ PassOK' /\ Quiet'
  BY <1>1, <1>3 DEF Types, SetOK, NodeOK, PassOK, Quiet, setVars, statusVars
<1>5. QED
  BY <1>4 DEF Types

LEMMA AnnotateTypes == ASSUME Types, annotate PROVE Types'
<1>1. cost' \in SUBSET pods
  BY DEF annotate, Types, SetOK
<1>2. SetOK' /\ NodeOK' /\ Quiet'
  BY <1>1 DEF annotate, Types, SetOK, NodeOK, Quiet, nodeVars
<1>3. PassOK'
  BY EndPassType DEF annotate, Types, PassOK, statusVars
<1>4. QED
  BY <1>2, <1>3 DEF Types

LEMMA ScaleTypes ==
  ASSUME Types, scaleDown \/ scaleLags \/ PassFails
  PROVE  Types'
<1>1. want' \in 0 .. N
  BY SyncPodsAssumption
  DEF scaleDown, scaleLags, PassFails, Types, SetOK, setVars
<1>2. UNCHANGED <<kind, enterprise, pods, term, cost, nodeVars, statusVars>>
  BY DEF scaleDown, scaleLags, PassFails, setVars
<1>3. EndPass
  BY DEF scaleDown, scaleLags, PassFails
<1>4. SetOK' /\ NodeOK' /\ Quiet'
  BY <1>1, <1>2 DEF Types, SetOK, NodeOK, Quiet, nodeVars
<1>5. PassOK'
  BY <1>2, <1>3, EndPassType DEF Types, PassOK, statusVars
<1>6. QED
  BY <1>4, <1>5 DEF Types

\* What stops, restarts or loses a node leaves the pass alone.
LEMMA NodeStepTypes ==
  ASSUME Types, DeletePod \/ PodGone \/ NodeDown \/ NodeUp
  PROVE  Types'
<1>1. PassOK'
  BY DEF Types, PassOK, DeletePod, PodGone, NodeDown, NodeUp, statusVars
<1>2. CASE DeletePod
  <2>1. SetOK'
    BY <1>2 DEF Types, SetOK, DeletePod, Deletable
  <2>2. NodeOK' /\ Quiet'
    BY <1>2 DEF Types, NodeOK, Quiet, DeletePod, nodeVars
  <2>3. QED
    BY <1>1, <2>1, <2>2 DEF Types
<1>3. CASE PodGone
  <2>1. PICK p \in term : /\ Stopped(p) /\ pods' = pods \ {p}
                          /\ term' = term \ {p} /\ cost' = cost \ {p}
    BY <1>3 DEF PodGone
  <2>2. SetOK'
    BY <1>3, <2>1 DEF Types, SetOK, PodGone
  <2>3. p \in Pods
    BY DEF Types, SetOK
  <2>4. NodeOK' /\ Quiet'
    BY <2>1, <2>3 DEF Types, SetOK, NodeOK, Quiet, Stopped, Stages
  <2>5. QED
    BY <1>1, <2>2, <2>4 DEF Types
<1>4. CASE NodeDown
  <2>1. PICK p \in up \ term : Stopped(p)
    BY <1>4 DEF NodeDown
  <2>2. SetOK'
    BY <1>4 DEF Types, SetOK, NodeDown, setVars
  <2>3. p \in Pods
    BY DEF Types, SetOK, NodeOK
  <2>4. NodeOK' /\ Quiet'
    BY <1>4, <2>1, <2>3 DEF Types, SetOK, NodeOK, Quiet, Stopped, Stages,
                            NodeDown, setVars
  <2>5. QED
    BY <1>1, <2>2, <2>4 DEF Types
<1>5. CASE NodeUp
  <2>1. SetOK' /\ NodeOK' /\ Quiet'
    BY <1>5 DEF Types, SetOK, NodeOK, Quiet, NodeUp, setVars
  <2>2. QED
    BY <1>1, <2>1 DEF Types
<1>6. QED
  BY <1>2, <1>3, <1>4, <1>5

\* The sessions that leave a node go to a running one that is not evacuated,
\* and only when EMQX was not told where to.
LEMMA EvictDoes ==
  ASSUME Types, NEW p \in Pods, Evict(p)
  PROVE  /\ sess[p] > 0 /\ evac[p] = "evicting"
         /\ \/ sess' = [sess EXCEPT ![p] = @ - 1]
            \/ /\ p \in loose
               /\ \E q \in up \ {p} :
                     /\ evac[q] = "none"
                     /\ sess' = [sess EXCEPT ![p] = @ - 1, ![q] = @ + 1]
<1>1. sess \in [Pods -> Nat] /\ up \subseteq Pods
  BY DEF Types, NodeOK, SetOK
<1>2. CASE sess' = [sess EXCEPT ![p] = @ - 1]
  BY <1>2 DEF Evict
<1>3. ASSUME NEW q \in up \ {p}, evac[q] = "none", p \in loose,
             sess' = [[sess EXCEPT ![p] = @ - 1] EXCEPT ![q] = @ + 1]
      PROVE  sess' = [sess EXCEPT ![p] = @ - 1, ![q] = @ + 1]
  BY <1>3, <1>1
<1>4. QED
  BY <1>2, <1>3 DEF Evict

LEMMA EvacuationTypes ==
  ASSUME Types, Evacuation \/ ForeignStarts \/ ForeignEnds \/ DelayOver
  PROVE  Types'
<1>1. SetOK' /\ PassOK'
  BY DEF Types, SetOK, PassOK, Evacuation, Evict, Evicted, ForeignStarts,
         ForeignEnds, DelayOver, setVars, statusVars
<1>2. CASE \E p \in Pods : Evict(p)
  <2>1. PICK p \in Pods : Evict(p)
    BY <1>2
  <2>2. UNCHANGED <<pods, up, evac, loose>>
    BY <2>1 DEF Evict, setVars
  <2>3. up \subseteq Pods /\ sess \in [Pods -> Nat]
    BY DEF Types, SetOK, NodeOK
  <2>4. sess[p] > 0 /\ p \in up
    BY <2>1, <2>3, EvictDoes DEF Types, Quiet
  <2>5. /\ sess' \in [Pods -> Nat]
        /\ \A q \in Pods \ up : sess'[q] = sess[q]
    <3>1. CASE sess' = [sess EXCEPT ![p] = @ - 1]
      BY <2>3, <2>4, <3>1
    <3>2. CASE \E q \in up \ {p} :
                  sess' = [sess EXCEPT ![p] = @ - 1, ![q] = @ + 1]
      BY <2>3, <2>4, <3>2
    <3>3. QED
      BY <2>1, <3>1, <3>2, EvictDoes
  <2>6. NodeOK' /\ Quiet'
    BY <2>2, <2>5 DEF Types, NodeOK, Quiet
  <2>7. QED
    BY <1>1, <2>6 DEF Types
<1>3. CASE ForeignStarts \/ ForeignEnds \/ \E p \in Pods \cup {New} : Evicted(p)
  <2>1. NodeOK' /\ Quiet'
    BY <1>3 DEF Types, NodeOK, Quiet, ForeignStarts, ForeignEnds, Evicted,
                setVars, Stages
  <2>2. QED
    BY <1>1, <2>1 DEF Types
<1>4. CASE DelayOver
  BY <1>1, <1>4 DEF Types, NodeOK, Quiet, DelayOver, setVars, nodeVars
<1>5. QED
  BY <1>2, <1>3, <1>4 DEF Evacuation

LEMMA NextTypes == Types /\ [Next]_vars => Types'
<1> SUFFICES ASSUME Types, [Next]_vars PROVE Types'
  OBVIOUS
<1>1. CASE UNCHANGED vars
  BY <1>1 DEF Types, SetOK, NodeOK, PassOK, Quiet, vars, setVars, nodeVars,
              statusVars
<1>2. QED
  BY <1>1, StatusTypes, SyncTypes, AnnotateTypes, ScaleTypes, NodeStepTypes,
     EvacuationTypes DEF Next, Pass, Environment


-----------------------------------------------------------------------------
(* One node after the other.                                               *)

\* Sessions are leaving the node.
Active(p) == evac[p] = "evicting" /\ sess[p] > 0

\* Of a ReplicaSet only the greatest pod is ever evacuated, and the status
\* never names another one that still exists.
RsTop == kind = "rs" =>
    /\ \A p \in Pods : evac[p] # "none" => Top(p, pods)
    /\ first[1] \in pods => Top(first[1], pods)

\* Of a StatefulSet sessions only leave the pod that is next to go; once a
\* pass has decided to scale down they leave none.
StsWant == kind = "sts" =>
    /\ \A p \in Pods : Active(p) => p = want
    /\ pc # "annotate"
    /\ pc = "scale" => \A p \in Pods : ~Active(p)

\* Only an Enterprise node is evacuated.
OnlyEnterprise == ~enterprise => \A p \in Pods : evac[p] = "none"

OneInv == Types /\ RsTop /\ StsWant /\ OnlyEnterprise

\* A set with at most one element has at most one.
LEMMA AtMostOne ==
  ASSUME NEW S, \A p, q \in S : p = q
  PROVE  Cardinality(S) <= 1
<1>1. CASE S = {}
  BY <1>1, FS_EmptySet
<1>2. CASE S # {}
  <2>1. PICK p \in S : S = {p}
    BY <1>2
  <2>2. QED
    <3>1. \E x : S = {x}
      BY <2>1
    <3>2. Cardinality(S) = 1
      BY <3>1, FS_Singleton
    <3>3. QED
      BY <3>2
<1>3. QED
  BY <1>1, <1>2

LEMMA OneInvOneByOne == OneInv => OneByOne
<1> SUFFICES ASSUME OneInv PROVE OneByOne
  OBVIOUS
<1> DEFINE A == {p \in Pods : evac[p] = "evicting" /\ sess[p] > 0}
<1>1. ASSUME NEW p \in A, NEW q \in A PROVE p = q
  <2>1. CASE kind = "rs"
    BY <2>1, <1>1, OneTop DEF OneInv, RsTop, Types, SetOK
  <2>2. CASE kind = "sts"
    BY <2>2, <1>1 DEF OneInv, StsWant, Active
  <2>3. QED
    BY <2>1, <2>2 DEF OneInv, Types, SetOK
<1> HIDE DEF A
<1>2. Cardinality(A) <= 1
  BY <1>1, AtMostOne
<1>3. QED
  BY <1>2 DEF OneByOne, A

LEMMA InitOne == Init => OneInv
<1> SUFFICES ASSUME Init PROVE OneInv
  OBVIOUS
<1>1. Types
  BY InitTypes
<1>2. RsTop
  BY NewNoPod DEF Init, RsTop, NoEvacuation
<1>3. StsWant /\ OnlyEnterprise
  BY DEF Init, StsWant, OnlyEnterprise, Active
<1>4. QED
  BY <1>1, <1>2, <1>3 DEF OneInv

\* The step neither starts an evacuation nor adds sessions to a node that is
\* being emptied, takes no pod back, and does not touch the pass or the
\* replicas.
LEMMA CalmStep ==
  ASSUME OneInv, Types', UNCHANGED <<kind, enterprise, want>>,
         pods' \subseteq pods,
         first' = first,
         pc' \in {pc, "nodes"},
         \A p \in Pods : /\ evac'[p] # "none" => /\ evac[p] # "none"
                                                 /\ kind = "rs" => p \in pods'
                         /\ Active(p)' => Active(p)
  PROVE  OneInv'
<1>1. RsTop'
  BY DEF OneInv, RsTop, Top
<1>2. StsWant'
  BY DEF OneInv, StsWant
<1>3. OnlyEnterprise'
  BY DEF OneInv, OnlyEnterprise
<1>4. QED
  BY <1>1, <1>2, <1>3 DEF OneInv

\* An evacuated node of a ReplicaSet is a pod of it.
LEMMA NodesInv == ASSUME OneInv, updateStatusNodes PROVE OneInv'
<1>1. Types'
  BY StatusTypes DEF OneInv
<1>2. RsTop' /\ StsWant' /\ OnlyEnterprise'
  BY DEF updateStatusNodes, OneInv, RsTop, StsWant, OnlyEnterprise, Active,
         setVars, nodeVars
<1>3. QED
  BY <1>1, <1>2 DEF OneInv

LEMMA EvacsInv == ASSUME OneInv, updateStatusEvacs PROVE OneInv'
<1>1. Types'
  BY StatusTypes DEF OneInv
<1>2. DOMAIN evac = Pods \cup {New} /\ New \notin pods
  BY NewNoPod DEF OneInv, Types, SetOK, NodeOK
<1>3. \/ first' = first \/ first'[1] = New
      \/ evac[first'[1]] # "none" /\ first'[1] \in Pods
  <2>1. first' = first \/ first' = NoEvacuation \/ first' \in Evacuations
    BY DEF updateStatusEvacs
  <2>2. NoEvacuation[1] = New
    BY DEF NoEvacuation
  <2>3. \A e \in Evacuations : e[1] \in Pods \cup {New} /\ evac[e[1]] # "none"
    BY <1>2 DEF Evacuations
  <2>4. QED
    BY <2>1, <2>2, <2>3
<1>4. RsTop'
  BY <1>2, <1>3 DEF updateStatusEvacs, OneInv, RsTop, setVars, nodeVars
<1>5. StsWant' /\ OnlyEnterprise'
  BY DEF updateStatusEvacs, OneInv, StsWant, OnlyEnterprise, Active, setVars,
         nodeVars
<1>6. QED
  BY <1>1, <1>4, <1>5 DEF OneInv

LEMMA RsInv == ASSUME OneInv, canBeScaleDownRs PROVE OneInv'
<1>1. Types /\ Types'
  BY SyncTypes DEF OneInv
<1>2. /\ kind = "rs" /\ UNCHANGED <<kind, enterprise, pods, first>>
      /\ \/ UNCHANGED evac
         \/ \E p \in pods : /\ p = first[1] \/ p = Max(pods)
                            /\ enterprise /\ evac' = [evac EXCEPT ![p] = "evicting"]
  BY <1>1, RsDoes DEF setVars, statusVars, Waits, Starts, Takes
<1>3. pods # {} => Top(Max(pods), pods)
  BY <1>1, MaxIsTop DEF Types, SetOK
<1>4. RsTop'
  BY <1>1, <1>2, <1>3 DEF OneInv, RsTop, Types, NodeOK
<1>5. StsWant' /\ OnlyEnterprise'
  BY <1>2 DEF OneInv, StsWant, OnlyEnterprise
<1>6. QED
  BY <1>1, <1>4, <1>5 DEF OneInv

LEMMA StsInv == ASSUME OneInv, canBeScaleDownSts PROVE OneInv'
<1>1. Types /\ Types'
  BY SyncTypes DEF OneInv
<1>2. /\ kind = "sts" /\ UNCHANGED <<kind, enterprise, want, sess>>
      /\ \/ pc' = "nodes" /\ UNCHANGED evac
         \/ /\ pc' = "nodes" /\ enterprise
            /\ evac' = [evac EXCEPT ![want] = "evicting"]
         \/ /\ pc' = "scale" /\ UNCHANGED evac
            /\ enterprise => sess[want] = 0
  BY <1>1, StsDoes DEF setVars, Waits, Starts, Takes, EndPass
<1>3. RsTop'
  BY <1>2 DEF RsTop
<1>4. StsWant'
  <2>1. \A p \in Pods : Active(p)' => p = want
    BY <1>1, <1>2 DEF OneInv, StsWant, Active, Types, NodeOK
  <2>2. pc' = "scale" => \A p \in Pods : ~Active(p)'
    BY <1>1, <1>2, <2>1 DEF OneInv, OnlyEnterprise, Active, Types, NodeOK
  <2>3. QED
    BY <1>2, <2>1, <2>2 DEF StsWant
<1>5. OnlyEnterprise'
  BY <1>2 DEF OneInv, OnlyEnterprise
<1>6. QED
  BY <1>1, <1>3, <1>4, <1>5 DEF OneInv

LEMMA AnnotateInv == ASSUME OneInv, annotate PROVE OneInv'
<1>1. Types'
  BY AnnotateTypes DEF OneInv
<1>2. kind = "rs" /\ UNCHANGED <<kind, enterprise, pods, first, evac>>
  BY DEF annotate, OneInv, StsWant, Types, SetOK, nodeVars, statusVars
<1>3. RsTop' /\ StsWant' /\ OnlyEnterprise'
  BY <1>2 DEF OneInv, RsTop, StsWant, OnlyEnterprise
<1>4. QED
  BY <1>1, <1>3 DEF OneInv

LEMMA ScaleInv == ASSUME OneInv, scaleDown PROVE OneInv'
<1>1. Types'
  BY ScaleTypes DEF OneInv
<1>2. pc = "scale" /\ pc' = "nodes"
  BY DEF scaleDown, EndPass
<1>3. UNCHANGED <<kind, enterprise, pods, first, evac, sess>>
  BY DEF scaleDown, nodeVars, statusVars
<1>4. RsTop' /\ StsWant' /\ OnlyEnterprise'
  BY <1>2, <1>3 DEF OneInv, RsTop, StsWant, OnlyEnterprise, Active
<1>5. QED
  BY <1>1, <1>4 DEF OneInv

\* A pod that is evacuated exists.
LEMMA EvacuatedExists == ASSUME OneInv, NEW p \in Pods, evac[p] # "none", kind = "rs"
                         PROVE  p \in pods
  BY DEF OneInv, RsTop, Top

LEMMA OtherInv ==
  ASSUME OneInv, scaleLags \/ PassFails \/ NodeDown \/ ForeignStarts
                   \/ DeletePod \/ NodeUp \/ Evacuation
                   \/ ForeignEnds \/ DelayOver \/ PodGone
  PROVE  OneInv'
<1>1. Types'
  BY ScaleTypes, NodeStepTypes, EvacuationTypes DEF OneInv
<1>2. UNCHANGED <<kind, enterprise, want, first>> /\ pc' \in {pc, "nodes"}
  BY DEF scaleLags, PassFails, NodeDown, ForeignStarts, DeletePod, NodeUp,
         Evacuation, Evict, Evicted, ForeignEnds, DelayOver, PodGone, EndPass,
         setVars, statusVars
<1>3. CASE scaleLags \/ PassFails \/ ForeignStarts \/ ForeignEnds \/ DelayOver
             \/ DeletePod \/ NodeUp
  <2>1. UNCHANGED <<pods, sess>> /\ \A p \in Pods : evac'[p] = evac[p]
    BY <1>3, NewNoPod DEF scaleLags, PassFails, ForeignStarts, ForeignEnds,
       DelayOver, DeletePod, NodeUp, setVars, nodeVars, OneInv, Types, NodeOK
  <2>2. QED
    BY <1>1, <1>2, <2>1, EvacuatedExists, CalmStep DEF Active
<1>4. CASE NodeDown \/ PodGone
  <2>1. PICK p \in Pods : Stopped(p) /\ (pods' = pods \/ pods' = pods \ {p})
    BY <1>4 DEF NodeDown, PodGone, setVars, OneInv, Types, SetOK, NodeOK
  <2>2. pods' \subseteq pods
    BY <2>1
  <2>3. /\ evac'[p] = "none"
        /\ \A q \in Pods \ {p} : evac'[q] = evac[q] /\ sess'[q] = sess[q]
    BY <2>1 DEF Stopped, OneInv, Types, NodeOK
  <2>4. \A q \in Pods : Active(q)' => Active(q)
    BY <2>3 DEF Active
  <2>5. \A q \in Pods : evac'[q] # "none" =>
           evac[q] # "none" /\ (kind = "rs" => q \in pods')
    BY <2>1, <2>3, EvacuatedExists
  <2>6. QED
    BY <1>1, <1>2, <2>2, <2>4, <2>5, CalmStep
<1>5. CASE Evacuation
  <2>1. ASSUME NEW p \in Pods, Evict(p) PROVE OneInv'
    <3>1. UNCHANGED <<pods, evac>>
      BY <2>1 DEF Evict, setVars
    <3>2. \A q \in Pods : evac[q] = "evicting" /\ sess'[q] > 0 => sess[q] > 0
      <4>1. sess \in [Pods -> Nat]
        BY DEF OneInv, Types, NodeOK
      <4>2. QED
        BY <2>1, <4>1, EvictDoes DEF OneInv
    <3>3. QED
      BY <1>1, <1>2, <3>1, <3>2, EvacuatedExists, CalmStep DEF Active
  <2>2. ASSUME NEW p \in Pods \cup {New}, Evicted(p) PROVE OneInv'
    <3>1. UNCHANGED <<pods, sess>> /\ evac[p] = "evicting"
          /\ evac' = [evac EXCEPT ![p] = "prohibiting"]
      BY <2>2 DEF Evicted, setVars
    <3>2. \A q \in Pods : /\ evac'[q] # "none" => evac[q] # "none"
                          /\ evac'[q] = "evicting" => evac[q] = "evicting"
      BY <3>1 DEF OneInv, Types, NodeOK
    <3>3. QED
      BY <1>1, <1>2, <3>1, <3>2, EvacuatedExists, CalmStep DEF Active
  <2>3. QED
    BY <1>5, <2>1, <2>2 DEF Evacuation
<1>6. QED
  BY <1>3, <1>4, <1>5

LEMMA NextOne == OneInv /\ [Next]_vars => OneInv'
<1> SUFFICES ASSUME OneInv, [Next]_vars PROVE OneInv'
  OBVIOUS
<1>1. CASE UNCHANGED vars
  <2>1. Types'
    BY NextTypes DEF OneInv
  <2>2. QED
    BY <1>1, <2>1 DEF OneInv, RsTop, StsWant, OnlyEnterprise, Active, vars,
                      setVars, nodeVars, statusVars
<1>2. QED
  BY <1>1, NodesInv, EvacsInv, RsInv, StsInv, AnnotateInv, ScaleInv, OtherInv
  DEF Next, Pass, Environment

LEMMA AlwaysOne == Spec => []OneInv
  BY InitOne, NextOne, PTL DEF Spec

\* Sessions leave the nodes of the old set one node after the other, whatever
\* calls fail, passes die and nodes restart, also when EMQX may move sessions
\* to another node of the old set: a ReplicaSet evacuates the pod with the
\* greatest name until it is gone, a StatefulSet the one that is next to go.
THEOREM EvacuatesOneByOne == Spec => []OneByOne
  BY AlwaysOne, OneInvOneByOne, PTL

-----------------------------------------------------------------------------
(* No session is lost.                                                     *)

\* The status never shows fewer sessions on a node than it has.
Known == enterprise => \A p \in DOMAIN nodes : sess[p] <= nodes[p]

\* The pod a pass has taken is empty,
Chosen == enterprise =>
    (pc \in {"annotate", "scale"} => victim \in Pods /\ sess[victim] = 0)

\* and so is every pod that goes or was chosen before.
Going == enterprise => \A p \in cost \cup term : sess[p] = 0

\* A ReplicaSet has one pod too many at the most, only between two passes,
\* and then a pod with a deletion cost to give away.
RsMarked == kind = "rs" =>
    /\ Surplus => /\ pc = "nodes" /\ cost \cap (pods \ term) # {}
                  /\ Cardinality(pods \ term) = want + 1
    /\ pc = "scale" => victim \in cost \cap (pods \ term)

\* The pods of a StatefulSet above spec.replicas are empty.
StsBelow == kind = "sts" =>
    /\ pc # "annotate" /\ (pc = "scale" => victim = want)
    /\ enterprise => \A p \in pods : p > want => sess[p] = 0

MovedInv == Types /\ loose = {} /\ Known /\ Chosen /\ Going /\ RsMarked /\ StsBelow

LEMMA InitMoved == Init => MovedInv
<1> SUFFICES ASSUME Init PROVE MovedInv
  OBVIOUS
<1>1. Types
  BY InitTypes
<1>2. loose = {} /\ Known /\ Chosen /\ Going
  BY DEF Init, Known, Chosen, Going
<1>3. pods \ term = 1 .. N /\ want = N
  BY DEF Init, Pods
<1>4. Cardinality(1 .. N) = N
  BY FS_Interval, SyncPodsAssumption
<1>5. ~Surplus
  <2>1. Cardinality(pods \ term) = N
    BY <1>3, <1>4, Zenon
  <2>2. QED
    BY <1>3, <2>1, SyncPodsAssumption DEF Surplus
<1>6. RsMarked
  BY <1>5 DEF Init, RsMarked
<1>7. StsBelow
  BY SyncPodsAssumption DEF Init, StsBelow, Pods
<1>8. QED
  BY <1>1, <1>2, <1>6, <1>7 DEF MovedInv

\* The pods of the set can be counted.
LEMMA Countable ==
  ASSUME Types
  PROVE  /\ IsFiniteSet(pods) /\ IsFiniteSet(pods \ term)
         /\ Cardinality(pods \ term) \in Nat /\ want \in Nat
<1>1. IsFiniteSet(Pods)
  BY FS_Interval, SyncPodsAssumption DEF Pods
<1>2. IsFiniteSet(pods) /\ IsFiniteSet(pods \ term)
  BY <1>1, FS_Subset DEF Types, SetOK
<1>3. QED
  BY <1>2, FS_CardinalityType, SyncPodsAssumption DEF Types, SetOK

\* A ReplicaSet that has too many pods can delete one: when its controller is
\* prompt it has none too many when the next pass begins.
LEMMA SurplusIsDeleted ==
  ASSUME Types, kind = "rs", Surplus
  PROVE  Deletable # {}
<1>1. pods \ term # {}
  BY Countable, FS_EmptySet DEF Surplus
<1>2. \E p \in pods \ term : RsDelete(p)
  <2>1. CASE \E p \in pods \ term : p \notin up
    BY <2>1 DEF RsDelete
  <2>2. CASE /\ \A p \in pods \ term : p \in up
             /\ \E p \in pods \ term : p \in cost
    BY <2>2 DEF RsDelete
  <2>3. CASE /\ \A p \in pods \ term : p \in up
             /\ \A p \in pods \ term : p \notin cost
    BY <1>1, <2>3 DEF RsDelete
  <2>4. QED
    BY <2>1, <2>2, <2>3
<1>3. QED
  BY <1>2 DEF Deletable

\* The greatest of more than n pods is greater than n.
LEMMA TopIsAbove ==
  ASSUME NEW P \in SUBSET Pods, NEW n \in Nat, Cardinality(P) > n
  PROVE  P # {} /\ Max(P) > n
<1>1. P # {}
  BY FS_EmptySet
<1>2. SUFFICES ASSUME ~(Max(P) > n) PROVE FALSE
  BY <1>1
<1>3. Max(P) \in Pods /\ \A p \in P : p <= Max(P)
  BY <1>1, MaxIsTop DEF Top
<1>4. P \subseteq 1 .. n
  BY <1>2, <1>3, SyncPodsAssumption DEF Pods
<1>5. IsFiniteSet(1 .. n) /\ Cardinality(1 .. n) = n
  BY FS_Interval
<1>6. Cardinality(P) <= n /\ Cardinality(P) \in Nat
  BY <1>4, <1>5, FS_Subset, FS_CardinalityType
<1>7. QED
  BY <1>6

\* A pod that a set controller deletes has no sessions.
LEMMA DeletedIsEmpty ==
  ASSUME MovedInv, enterprise, NEW p \in Deletable
  PROVE  sess[p] = 0
<1>1. p \in Pods /\ Types
  BY DEF MovedInv, Types, SetOK, Deletable
<1>2. CASE RsDelete(p)
  <2>1. kind = "rs" /\ Surplus
    BY <1>2 DEF RsDelete
  <2>2. PICK q \in pods \ term : q \in cost
    BY <2>1 DEF MovedInv, RsMarked
  <2>3. p \notin up \/ p \in cost
    BY <1>2, <2>2 DEF RsDelete
  <2>4. QED
    BY <1>1, <2>3 DEF MovedInv, Types, Quiet, Going
<1>3. CASE StsDelete(p)
  <2>1. kind = "sts" /\ Cardinality(pods) > want /\ p = Max(pods)
    BY <1>3, <1>1 DEF StsDelete, Surplus
  <2>2. p > want
    BY <1>1, <2>1, Countable, TopIsAbove DEF Types, SetOK
  <2>3. QED
    BY <2>1, <2>2 DEF MovedInv, StsBelow, Deletable
<1>4. QED
  BY <1>2, <1>3 DEF Deletable

\* The step takes no pod out of the set but one that goes, adds no session,
\* and leaves the pass where it is or ends it.
LEMMA CalmMoved ==
  ASSUME MovedInv, Types', UNCHANGED <<kind, enterprise, want, nodes>>,
         pods' \subseteq pods, pods' \ term' = pods \ term,
         cost' \subseteq cost, term' \subseteq term,
         cost' \cap (pods' \ term') = cost \cap (pods \ term),
         loose' = {}, \A p \in Pods : sess'[p] <= sess[p],
         pc' = "nodes" \/ UNCHANGED <<pc, victim>>
  PROVE  MovedInv'
<1>1. /\ sess \in [Pods -> Nat] /\ sess' \in [Pods -> Nat]
      /\ DOMAIN nodes \subseteq Pods /\ nodes \in [DOMAIN nodes -> Nat]
      /\ pods \subseteq Pods /\ cost \subseteq Pods /\ term \subseteq Pods
  BY DEF MovedInv, Types, NodeOK, SetOK, PassOK
<1>2. \A p \in Pods : sess[p] = 0 => sess'[p] = 0
  BY <1>1
<1>3. Known'
  BY <1>1 DEF MovedInv, Known
<1>4. Chosen' /\ Going'
  BY <1>1, <1>2 DEF MovedInv, Chosen, Going
<1>5. RsMarked'
  BY DEF MovedInv, RsMarked, Surplus
<1>6. StsBelow'
  BY <1>1, <1>2 DEF MovedInv, StsBelow
<1>7. QED
  BY <1>3, <1>4, <1>5, <1>6 DEF MovedInv

LEMMA StatusMoved ==
  ASSUME PromptSets, MovedInv, updateStatusNodes \/ updateStatusEvacs
  PROVE  MovedInv'
<1>1. Types /\ Types'
  BY StatusTypes DEF MovedInv
<1>2. UNCHANGED <<kind, enterprise, pods, term, cost, want, up, sess, loose, victim>>
  BY DEF updateStatusNodes, updateStatusEvacs, setVars, nodeVars
<1>3. kind = "rs" => ~Surplus
  BY <1>1, SurplusIsDeleted
  DEF updateStatusNodes, updateStatusEvacs, MovedInv, RsMarked
<1>4. pc' \in {"evacs", "sync"}
  BY DEF updateStatusNodes, updateStatusEvacs
<1>5. Known'
  <2>1. CASE nodes' = nodes
    BY <1>2, <2>1 DEF MovedInv, Known
  <2>2. CASE nodes' = [p \in up |-> sess[p]]
    <3>1. \A p \in up : sess[p] \in Nat
      BY <1>1 DEF Types, NodeOK, SetOK
    <3>2. QED
      BY <1>2, <2>2, <3>1 DEF Known
  <2>3. CASE nodes' = [p \in {} |-> 0]
    BY <2>3 DEF Known
  <2>4. QED
    BY <2>1, <2>2, <2>3 DEF updateStatusNodes, updateStatusEvacs
<1>6. Chosen' /\ Going'
  BY <1>2, <1>4 DEF MovedInv, Chosen, Going
<1>7. RsMarked'
  BY <1>2, <1>3, <1>4 DEF RsMarked, Surplus
<1>8. StsBelow'
  BY <1>2, <1>4 DEF MovedInv, StsBelow
<1>9. QED
  BY <1>1, <1>2, <1>5, <1>6, <1>7, <1>8 DEF MovedInv

LEMMA SyncMoved ==
  ASSUME ~AnyTarget, MovedInv, canBeScaleDownRs \/ canBeScaleDownSts
  PROVE  MovedInv'
<1>1. Types /\ Types'
  BY SyncTypes DEF MovedInv
<1>2. /\ UNCHANGED <<kind, enterprise, pods, term, cost, want, sess, nodes>>
      /\ pc = "sync"
  BY <1>1, RsDoes, StsDoes DEF setVars, statusVars
<1>3. CASE Waits \/ \E p : Starts(p)
  <2>1. pc' = "nodes" /\ loose' = {}
    BY <1>3 DEF Waits, Starts, EndPass, MovedInv
  <2>2. \A p \in Pods : sess[p] <= sess[p]
    BY <1>1 DEF Types, NodeOK
  <2>3. QED
    BY <1>1, <1>2, <2>1, <2>2, CalmMoved
<1>4. ASSUME NEW p \in pods, NEW next, Takes(p, next),
             \/ next = "annotate" /\ kind = "rs"
             \/ next = "scale" /\ kind = "sts" /\ p = want,
             enterprise => \/ p \in term \cup cost
                           \/ sess[p] = 0
                           \/ p \in DOMAIN nodes /\ nodes[p] = 0
      PROVE  MovedInv'
  <2>1. loose' = {} /\ pc' = next /\ victim' = p
    BY <1>4 DEF Takes, MovedInv
  <2>2. p \in Pods /\ sess[p] \in Nat
    BY <1>1 DEF Types, SetOK, NodeOK
  <2>3. enterprise => sess[p] = 0
    BY <1>4, <2>2 DEF MovedInv, Known, Going
  <2>4. Known' /\ Chosen' /\ Going'
    BY <1>2, <2>1, <2>2, <2>3 DEF MovedInv, Known, Chosen, Going
  <2>5. RsMarked'
    BY <1>2, <1>4, <2>1 DEF MovedInv, RsMarked, Surplus
  <2>6. StsBelow'
    BY <1>2, <1>4, <2>1 DEF MovedInv, StsBelow
  <2>7. QED
    BY <1>1, <2>1, <2>4, <2>5, <2>6 DEF MovedInv
<1>5. CASE canBeScaleDownRs
  BY <1>1, <1>3, <1>4, <1>5, RsDoes
<1>6. CASE canBeScaleDownSts
  BY <1>1, <1>3, <1>4, <1>6, StsDoes
<1>7. QED
  BY <1>5, <1>6

LEMMA AnnotateMoved == ASSUME MovedInv, annotate PROVE MovedInv'
<1>1. Types /\ Types'
  BY AnnotateTypes DEF MovedInv
<1>2. /\ UNCHANGED <<kind, enterprise, pods, term, want, sess, loose, nodes>>
      /\ pc = "annotate" /\ kind = "rs" /\ ~Surplus
  BY <1>1 DEF annotate, nodeVars, statusVars, MovedInv, RsMarked, StsBelow,
              Types, SetOK
<1>3. CASE victim \in pods \ term
  <2>1. cost' = cost \cup {victim} /\ pc' = "scale" /\ victim' = victim
    BY <1>3 DEF annotate
  <2>2. Known' /\ Chosen' /\ Going'
    BY <1>2, <2>1 DEF MovedInv, Known, Chosen, Going
  <2>3. RsMarked' /\ StsBelow'
    BY <1>2, <1>3, <2>1 DEF RsMarked, StsBelow, Surplus
  <2>4. QED
    BY <1>1, <1>2, <2>2, <2>3 DEF MovedInv
<1>4. CASE victim \notin pods \ term
  <2>1. cost' = cost /\ pc' = "nodes" /\ loose' = {}
    BY <1>2, <1>4 DEF annotate, EndPass, MovedInv
  <2>2. \A p \in Pods : sess[p] <= sess[p]
    BY <1>1 DEF Types, NodeOK
  <2>3. QED
    BY <1>1, <1>2, <2>1, <2>2, CalmMoved
<1>5. QED
  BY <1>3, <1>4

LEMMA ScaleMoved == ASSUME MovedInv, scaleDown PROVE MovedInv'
<1>1. Types /\ Types'
  BY ScaleTypes DEF MovedInv
<1>2. /\ UNCHANGED <<kind, enterprise, pods, term, cost, sess, loose, nodes>>
      /\ pc = "scale" /\ pc' = "nodes" /\ (want' = want \/ want' = want - 1)
  BY DEF scaleDown, nodeVars, statusVars, EndPass
<1>3. want \in Nat /\ want' \in Nat /\ Cardinality(pods \ term) \in Nat
  BY <1>1, Countable, SyncPodsAssumption DEF Types, SetOK
<1>4. Known' /\ Chosen' /\ Going'
  BY <1>2 DEF MovedInv, Known, Chosen, Going
<1>5. RsMarked'
  <2>1. CASE kind = "rs"
    <3>1. /\ victim \in cost \cap (pods \ term)
          /\ ~(Cardinality(pods \ term) > want)
      BY <1>2, <2>1 DEF MovedInv, RsMarked, Surplus
    <3>2. Cardinality(pods \ term) > want' => Cardinality(pods \ term) = want' + 1
      BY <1>2, <1>3, <3>1
    <3>3. QED
      BY <1>2, <3>1, <3>2 DEF RsMarked, Surplus
  <2>2. CASE kind # "rs"
    BY <1>2, <2>2 DEF RsMarked
  <2>3. QED
    BY <2>1, <2>2
<1>6. StsBelow'
  <2>1. \A p \in pods : p > want' => p > want \/ p = want
    BY <1>1, <1>2, <1>3, SyncPodsAssumption DEF Types, SetOK, Pods
  <2>2. QED
    BY <1>2, <2>1 DEF MovedInv, StsBelow, Chosen
<1>7. QED
  BY <1>1, <1>2, <1>4, <1>5, <1>6 DEF MovedInv

LEMMA DeleteMoved == ASSUME MovedInv, DeletePod PROVE MovedInv'
<1>1. Types /\ Types'
  BY NodeStepTypes DEF MovedInv
<1>2. PICK p \in Deletable : term' = term \cup {p}
  BY DEF DeletePod
<1>3. UNCHANGED <<kind, enterprise, pods, cost, want, sess, loose, nodes, pc, victim>>
  BY DEF DeletePod, nodeVars, statusVars
<1>4. Surplus
  BY DEF Deletable, RsDelete, StsDelete
<1>5. Known' /\ Chosen' /\ Going'
  BY <1>2, <1>3, DeletedIsEmpty DEF MovedInv, Known, Chosen, Going
<1>6. RsMarked'
  <2>1. CASE kind = "rs"
    <3>1. p \in pods \ term /\ pc = "nodes" /\ Cardinality(pods \ term) = want + 1
      BY <1>2, <1>4, <2>1 DEF Deletable, RsDelete, StsDelete, MovedInv, RsMarked
    <3>2. pods' \ term' = (pods \ term) \ {p}
      BY <1>2, <1>3
    <3>3. Cardinality((pods \ term) \ {p}) = Cardinality(pods \ term) - 1
      BY <1>1, <3>1, Countable, FS_RemoveElement
    <3>4. ~(Cardinality(pods' \ term') > want')
      <4>1. Cardinality(pods' \ term') = Cardinality(pods \ term) - 1
        BY <3>2, <3>3, Zenon
      <4>2. QED
        BY <1>1, <1>3, <3>1, <4>1, Countable
    <3>5. QED
      BY <1>3, <3>1, <3>4 DEF RsMarked, Surplus
  <2>2. CASE kind # "rs"
    BY <1>3, <2>2 DEF RsMarked
  <2>3. QED
    BY <2>1, <2>2
<1>7. StsBelow'
  BY <1>3 DEF MovedInv, StsBelow
<1>8. QED
  BY <1>1, <1>3, <1>5, <1>6, <1>7 DEF MovedInv

\* Sessions are only ever added to a node by an evacuation that was not told
\* where to move them.
LEMMA OtherMoved ==
  ASSUME MovedInv, scaleLags \/ PassFails \/ NodeDown \/ ForeignStarts
                     \/ NodeUp \/ Evacuation \/ ForeignEnds
                     \/ DelayOver \/ PodGone
  PROVE  MovedInv'
<1>1. Types /\ Types'
  BY ScaleTypes, NodeStepTypes, EvacuationTypes DEF MovedInv
<1>2. /\ UNCHANGED <<kind, enterprise, want, nodes>>
      /\ pc' = "nodes" \/ UNCHANGED <<pc, victim>>
  BY DEF scaleLags, PassFails, NodeDown, ForeignStarts, NodeUp, Evacuation,
         Evict, Evicted, ForeignEnds, DelayOver, PodGone, EndPass, setVars,
         statusVars
<1>3. /\ sess \in [Pods -> Nat] /\ \A p \in Pods : sess[p] <= sess[p]
      /\ loose = {}
  BY <1>1 DEF Types, NodeOK, MovedInv
<1>4. CASE scaleLags \/ PassFails \/ ForeignStarts \/ NodeUp \/ ForeignEnds
             \/ DelayOver \/ \E p \in Pods \cup {New} : Evicted(p)
  <2>1. UNCHANGED <<pods, term, cost, sess, loose>>
    BY <1>4 DEF scaleLags, PassFails, ForeignStarts, NodeUp, ForeignEnds,
                DelayOver, Evicted, setVars, nodeVars
  <2>2. QED
    BY <1>1, <1>2, <1>3, <2>1, CalmMoved
<1>5. CASE \E p \in Pods : Evict(p)
  <2>1. PICK p \in Pods : Evict(p)
    BY <1>5
  <2>2. UNCHANGED <<pods, term, cost, loose>>
    BY <2>1 DEF Evict, setVars
  <2>3. sess[p] > 0 /\ sess' = [sess EXCEPT ![p] = @ - 1]
    BY <1>1, <1>3, <2>1, EvictDoes
  <2>4. \A q \in Pods : sess'[q] <= sess[q]
    BY <1>3, <2>3
  <2>5. QED
    BY <1>1, <1>2, <1>3, <2>2, <2>4, CalmMoved
<1>6. CASE NodeDown \/ PodGone
  <2>1. PICK p \in Pods : /\ Stopped(p)
                          /\ \/ UNCHANGED <<pods, term, cost>>
                             \/ /\ p \in term /\ pods' = pods \ {p}
                                /\ term' = term \ {p} /\ cost' = cost \ {p}
    BY <1>1, <1>6 DEF NodeDown, PodGone, setVars, Types, SetOK, NodeOK
  <2>2. loose' = {}
    BY <1>3, <2>1 DEF Stopped
  <2>3. \A q \in Pods : sess'[q] <= sess[q]
    BY <1>3, <2>1 DEF Stopped
  <2>4. /\ pods' \subseteq pods /\ pods' \ term' = pods \ term
        /\ cost' \subseteq cost /\ term' \subseteq term
        /\ cost' \cap (pods' \ term') = cost \cap (pods \ term)
    BY <1>1, <2>1 DEF Types, SetOK
  <2>5. QED
    BY <1>1, <1>2, <2>2, <2>3, <2>4, CalmMoved
<1>7. QED
  BY <1>4, <1>5, <1>6 DEF Evacuation

LEMMA NextMoved ==
  ASSUME PromptSets, ~AnyTarget
  PROVE  MovedInv /\ [Next]_vars => MovedInv'
<1> SUFFICES ASSUME MovedInv, [Next]_vars PROVE MovedInv'
  OBVIOUS
<1>1. CASE UNCHANGED vars
  <2>1. Types'
    BY NextTypes DEF MovedInv
  <2>2. QED
    BY <1>1, <2>1 DEF MovedInv, Known, Chosen, Going, RsMarked, StsBelow,
                      Surplus, vars, setVars, nodeVars, statusVars
<1>2. QED
  BY <1>1, StatusMoved, SyncMoved, AnnotateMoved, ScaleMoved, DeleteMoved,
     OtherMoved DEF Next, Pass, Environment

\* Only a set controller marks a pod for deletion.
LEMMA OnlyEmptyGo ==
  ASSUME MovedInv, [Next]_vars, enterprise, NEW p \in term' \ term
  PROVE  sess[p] = 0
<1>1. DeletePod
  <2>1. ~(UNCHANGED term)
    OBVIOUS
  <2>2. ~PodGone
    BY DEF PodGone
  <2>3. QED
    BY <2>1, <2>2 DEF Next, Pass, Environment, updateStatusNodes,
       updateStatusEvacs, canBeScaleDownRs, canBeScaleDownSts, annotate,
       scaleDown, scaleLags, PassFails, NodeDown, ForeignStarts, NodeUp,
       Evacuation, Evict, Evicted, ForeignEnds, DelayOver, vars, setVars
<1>2. QED
  BY <1>1, DeletedIsEmpty DEF DeletePod

\* No Enterprise node of the old set is taken away with a session on it,
\* whatever calls fail, passes die and nodes restart, as long as the
\* ReplicaSet controller acts before the next pass and EMQX only moves
\* sessions to the nodes it was told: the pod that was found empty is the one
\* that goes.
THEOREM NoSessionLost ==
  ASSUME PromptSets, ~AnyTarget
  PROVE  Spec => SessionsAreMoved
<1>1. Init => MovedInv
  BY InitMoved
<1>2. MovedInv /\ [Next]_vars => MovedInv'
  BY NextMoved
<1>3. MovedInv /\ [Next]_vars
        => [enterprise => \A p \in term' \ term : sess[p] = 0]_vars
  BY OnlyEmptyGo
<1>4. QED
  BY <1>1, <1>2, <1>3, PTL DEF Spec, SessionsAreMoved

=============================================================================
