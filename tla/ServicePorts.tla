---------------------------- MODULE ServicePorts ----------------------------
(***************************************************************************)
(* The ports of the operator's Services and pods, taken from an EMQX        *)
(* configuration (apis/apps/v2beta1/util.go).                              *)
(*                                                                         *)
(* A configuration is a HOCON object: a function from the paths it sets to  *)
(* their values.  The paths that matter here are                           *)
(*   <<"listeners", type, name>>         the port of a listener             *)
(*   <<"gateway", proto, type, name>>    the port of a gateway's listener   *)
(*   <<"gateway", proto>>                Off when the gateway is disabled   *)
(*   <<"dashboard", "http">>, <<"dashboard", "https">>                      *)
(* and Off stands for enable = false (or, for the dashboard, for bind = 0). *)
(* Every listener of a configuration has a bind with a port.               *)
(***************************************************************************)
EXTENDS Naturals, Sequences, FiniteSets

CONSTANT NameRank   \* The order of the names of ports.

\* Functions as maps: one entry, and the entries of f over those of g (as in
\* the TLC module, which the prover cannot look into).
k :> v == [x \in {k} |-> v]
f @@ g == [x \in DOMAIN f \cup DOMAIN g |-> IF x \in DOMAIN f THEN f[x] ELSE g[x]]

Off == 0
On(conf, path) == path \in DOMAIN conf /\ conf[path] # Off

\* A port of a Service.  The name joins the parts of the path; node is the
\* node port, 0 when it is not set.
ServicePort(name, port, udp) ==
    [name |-> name, port |-> port, udp |-> udp, node |-> 0]

\* The elements of S in the order of their ranks, all different.
InOrder(S, rank(_)) ==
    [i \in 1 .. Cardinality(S) |->
        CHOOSE p \in S : i = Cardinality({q \in S : rank(q) <= rank(p)})]

ByName(S) == InOrder(S, LAMBDA p : NameRank[p.name])

-----------------------------------------------------------------------------
http == <<"dashboard", "http">>
https == <<"dashboard", "https">>

\* The dashboard listens on 18083 unless the configuration says otherwise.
GetDashboardPortMap(conf) ==
    [k \in {k \in {http, https} : \/ On(conf, k)
                                  \/ k = http /\ k \notin DOMAIN conf}
        |-> IF k \in DOMAIN conf THEN conf[k] ELSE 18083]

GetDashboardServicePort(conf) ==
    LET ports == GetDashboardPortMap(conf)
    IN  ByName({ServicePort(k, ports[k], FALSE) : k \in DOMAIN ports})

\* The paths of the listeners that run.
ListenerPaths(conf) ==
    {k \in DOMAIN conf : On(conf, k) /\ k[1] = "listeners"}

GatewayPaths(conf) ==
    {k \in DOMAIN conf : /\ On(conf, k) /\ k[1] = "gateway" /\ Len(k) = 4
                         /\ ~ \E g \in DOMAIN conf : /\ g = <<k[1], k[2]>>
                                                     /\ conf[g] = Off}

GetListenersServicePorts(conf) ==
    ByName({ServicePort(Tail(k), conf[k], k[2] = "quic")
                : k \in ListenerPaths(conf)}
           \cup {ServicePort(Tail(k), conf[k], k[3] \in {"udp", "dtls"})
                : k \in GatewayPaths(conf)})

SameNameOrPort(p, q) == p.name = q.name \/ p.port = q.port

\* The ports of the first list and those of the second, without the ones
\* that repeat the name or the number of an earlier one.
MergeServicePorts(ports1, ports2) ==
    LET ports == ports1 \o ports2
        kept[i \in 1 .. Len(ports)] ==
            \A j \in 1 .. i - 1 : SameNameOrPort(ports[j], ports[i]) => ~kept[j]
        result == InOrder({i \in 1 .. Len(ports) : kept[i]}, LAMBDA i : i)
    IN  [i \in 1 .. Len(result) |-> ports[result[i]]]
=============================================================================
