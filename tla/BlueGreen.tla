------------------------------ MODULE BlueGreen ------------------------------
(***************************************************************************)
(* What a blue-green update promises, whatever the controller does to keep *)
(* it: a node set is drained only after another one has been seen with all *)
(* its pods ready, and one pod at a time.                                  *)
(***************************************************************************)
EXTENDS Integers

CONSTANTS Sets,   \* the node sets
          Sizes   \* the numbers of replicas a spec can ask for

VARIABLES size,      \* the replicas each set asks for
          proven,    \* the sets seen with all their pods ready
          draining   \* the sets one of whose nodes is being evacuated

bgVars == <<size, proven, draining>>

Init == size = [x \in Sets |-> 0] /\ proven = {} /\ draining = {}

\* A set is brought to the size that a spec asks for.
Deploy(x) ==
    /\ \E n \in Sizes : size' = [size EXCEPT ![x] = n]
    /\ UNCHANGED <<proven, draining>>

Prove(x) ==
    /\ proven' = proven \cup {x}
    /\ UNCHANGED <<size, draining>>

\* A set may be drained: another one is known to work.
Replaced(x) == proven \ {x} # {}

\* A node of the set is evacuated, a pod taken away, or both.
Drain(x) ==
    /\ Replaced(x)
    /\ \/ UNCHANGED size
       \/ size[x] > 0 /\ size' = [size EXCEPT ![x] = @ - 1]
    /\ draining' \in {draining, draining \cup {x}}
    /\ UNCHANGED proven

\* An evacuated node stops or goes away with its pod.
Drained ==
    /\ draining' \in SUBSET draining
    /\ UNCHANGED <<size, proven>>

Next == Drained \/ \E x \in Sets : Deploy(x) \/ Prove(x) \/ Drain(x)

Spec == Init /\ [][Next]_bgVars

=============================================================================
