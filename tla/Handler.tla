------------------------------ MODULE Handler ------------------------------
(***************************************************************************)
(* CreateOrUpdate (internal/handler/handler.go) for the objects the         *)
(* operator owns, and what the API server makes of its writes.              *)
(*                                                                         *)
(* An object is a record                                                   *)
(*   type   "NodePort" for a Service that has node ports                    *)
(*   sel    the labels it selects pods by                                  *)
(*   ports  the list of its ports                                          *)
(*   ann    the keys of its annotations                                     *)
(* The patch is a JSON merge patch (the stored object is read as            *)
(* unstructured data), so a list differs when any of its elements does.     *)
(* Annotations of the stored object are merged into the wanted one before   *)
(* the patch is calculated, so none is ever removed, and the last-applied   *)
(* annotation decides nothing for the fields kept here.                    *)
(*                                                                         *)
(* Two versions of an object with equal fields are one value here.  A read  *)
(* of the older one is then the same as a read of the newer one.            *)
(***************************************************************************)
EXTENDS Naturals, Sequences

CONSTANT NoObj      \* The object does not exist.

\* A mutant: the node ports of UDP ports are not carried over.
KeepNodePortsOfTcp(seen, obj) ==
    [obj EXCEPT !.ports =
        [i \in DOMAIN @ |->
            LET same == {j \in DOMAIN seen.ports : seen.ports[j].name = @[i].name}
            IN  IF obj.type = "NodePort" /\ @[i].node = 0 /\ same # {} /\ ~@[i].udp
                THEN [@[i] EXCEPT !.node = seen.ports[CHOOSE j \in same : TRUE].node]
                ELSE @[i]]]

\* A mutant: they are carried over by the number of the port.
KeepNodePortsByNumber(seen, obj) ==
    [obj EXCEPT !.ports =
        [i \in DOMAIN @ |->
            LET same == {j \in DOMAIN seen.ports : seen.ports[j].port = @[i].port}
            IN  IF /\ obj.type = "NodePort" /\ @[i].node = 0 /\ same # {}
                THEN [@[i] EXCEPT !.node = seen.ports[CHOOSE j \in same : TRUE].node]
                ELSE @[i]]]

\* "If nodePort is not set, will always update service": the node ports of
\* the stored Service, by the name of the port.
KeepNodePorts(seen, obj) ==
    [obj EXCEPT !.ports =
        [i \in DOMAIN @ |->
            LET same == {j \in DOMAIN seen.ports : seen.ports[j].name = @[i].name}
            IN  IF /\ obj.type = "NodePort" /\ @[i].node = 0 /\ same # {}
                THEN [@[i] EXCEPT !.node = seen.ports[CHOOSE j \in same : TRUE].node]
                ELSE @[i]]]

\* The object CreateOrUpdate asks for when seen is stored.
Merged(seen, obj) ==
    KeepNodePorts(seen, [obj EXCEPT !.ann = @ \cup seen.ann])

\* The API server gives a node port to each port that has none; a port that
\* had one gets another.  External.
Allocate(now, obj) ==
    [obj EXCEPT !.ports =
        [i \in DOMAIN @ |->
            IF obj.type = "NodePort" /\ @[i].node = 0
            THEN [@[i] EXCEPT !.node =
                    IF /\ now # NoObj
                       /\ \E j \in DOMAIN now.ports :
                            now.ports[j].name = obj.ports[i].name
                            /\ now.ports[j].node = 1
                    THEN 2 ELSE 1]
            ELSE @[i]]]

\* A mutant: the update is sent without the version that was read.
CreateOrUpdateBlind(now, seen, obj) ==
    CASE now = NoObj \/ seen = NoObj ->
            [ok |-> now = NoObj,
             obj |-> IF now = NoObj THEN Allocate(now, obj) ELSE now]
      [] seen # NoObj /\ Merged(seen, obj) = seen -> [ok |-> TRUE, obj |-> now]
      [] OTHER -> [ok |-> TRUE, obj |-> Allocate(now, Merged(seen, obj))]

\* The outcome of CreateOrUpdate for obj, when the cache has seen and the API
\* server now: whether it succeeds, and what is stored.  Update sends the
\* version it has read, so it conflicts with a change it has not seen.
CreateOrUpdate(now, seen, obj) ==
    CASE seen = NoObj ->
            [ok |-> now = NoObj,
             obj |-> IF now = NoObj THEN Allocate(now, obj) ELSE now]
      [] seen # NoObj /\ Merged(seen, obj) = seen -> [ok |-> TRUE, obj |-> now]
      [] OTHER ->
            [ok |-> now = seen,
             obj |-> IF now = seen THEN Allocate(now, Merged(seen, obj)) ELSE now]
=============================================================================
