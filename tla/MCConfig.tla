------------------------------ MODULE MCConfig ------------------------------
(* TLC instances of EMQXConfig.                                            *)
EXTENDS EMQXConfig

\* The resource as it is created: its own port for the tcp listener, a cookie.
\* The template of the Service names a port that a later listener uses too.
MCUserPorts == <<ServicePort(<<"mine">>, 1884, FALSE)>>
MCInit == [conf |-> (<<"listeners", "tcp", "default">> :> 1885)
                    @@ (<<"node", "cookie">> :> 7),
           tpl |-> [on |-> TRUE, ports |-> MCUserPorts]]

\* Another cookie, a listener on the template's port and a gateway; then a
\* listener that is switched off, and no port of the template.
MCEdit1 == [conf |-> (<<"listeners", "tcp", "x">> :> 1884)
                     @@ (<<"gateway", "lwm2m", "udp", "default">> :> 5783)
                     @@ (<<"node", "cookie">> :> 8),
            tpl |-> [on |-> TRUE, ports |-> MCUserPorts]]
MCEdit2 == [conf |-> (<<"listeners", "ws", "default">> :> Off)
                     @@ (<<"listeners", "tcp", "x">> :> 1886),
            tpl |-> [on |-> TRUE, ports |-> <<>>]]
MCEdits == MCInit :> {MCEdit1} @@ MCEdit1 :> {MCEdit2} @@ MCEdit2 :> {}
MCBack == MCInit :> {MCEdit1} @@ MCEdit1 :> {MCInit}

MCDashboard == <<"listeners", "quic", "default">> :> 14567

MCNames == <<<<"dashboard", "http">>, <<"dashboard", "https">>,
             <<"lwm2m", "udp", "default">>, <<"mine">>, <<"quic", "default">>,
             <<"ssl", "default">>, <<"tcp", "default">>, <<"tcp", "x">>,
             <<"ws", "default">>, <<"wss", "default">>>>
MCNameRank == [n \in {MCNames[i] : i \in DOMAIN MCNames} |-> CHOOSE i \in DOMAIN MCNames : MCNames[i] = n]
=============================================================================
