---------------------------- MODULE ConfigProofs ----------------------------
(***************************************************************************)
(* Proofs about EMQXConfig, for any node sets, specs, edits and faults: the *)
(* secrets of the nodes, the owned objects, and syncConfig.                *)
(***************************************************************************)
EXTENDS EMQXConfig, ServicePortsProofs

-----------------------------------------------------------------------------
(* The secrets.                                                            *)

\* A node that runs has the secrets that are stored, which were both set.
SecretsInv ==
    /\ secret = [cookie |-> secret.cookie, key |-> secret.key]
    /\ node = [p \in Pods |-> node[p]]
    /\ \A p \in Pods : node[p] # None =>
          node[p] = secret /\ secret.cookie # None /\ secret.key # None

LEMMA InitSecrets == Init => SecretsInv
  BY DEF Init, SecretsInv

\* A secret that is set is not set again.
LEMMA BootstrapSecrets ==
  ASSUME SecretsInv, addCookie \/ addAPIKey
  PROVE  SecretsInv'
<1>1. node' = node
  BY DEF addCookie, addAPIKey, cluster
<1>2. /\ secret' = [cookie |-> secret'.cookie, key |-> secret'.key]
      /\ secret.cookie # None => secret'.cookie = secret.cookie
      /\ secret.key # None => secret'.key = secret.key
  BY DEF addCookie, addAPIKey, SecretsInv
<1>3. secret.cookie # None /\ secret.key # None => secret' = secret
  BY <1>2 DEF SecretsInv
<1>4. QED
  BY <1>1, <1>2, <1>3 DEF SecretsInv

LEMMA NodeSecrets ==
  ASSUME SecretsInv, NodeUp \/ NodeDown
  PROVE  SecretsInv'
<1>1. secret' = secret
  BY DEF NodeUp, NodeDown
<1>2. CASE NodeUp
  <2>1. PICK p \in Pods : /\ node' = [node EXCEPT ![p] = secret]
                          /\ secret.cookie # None /\ secret.key # None
    BY <1>2 DEF NodeUp
  <2>2. QED
    BY <1>1, <2>1 DEF SecretsInv
<1>3. CASE NodeDown
  <2>1. PICK p \in Pods : node' = [node EXCEPT ![p] = None]
    BY <1>3 DEF NodeDown, Up
  <2>2. QED
    BY <1>1, <2>1 DEF SecretsInv
<1>4. QED
  BY <1>2, <1>3

LEMMA NextSecrets == SecretsInv /\ [Next]_vars => SecretsInv'
<1> SUFFICES ASSUME SecretsInv, [Next]_vars PROVE SecretsInv'
  OBVIOUS
<1>1. CASE UNCHANGED <<secret, node>>
  BY <1>1 DEF SecretsInv
<1>2. CASE UNCHANGED vars
  BY <1>1, <1>2 DEF vars
<1>3. CASE Begin \/ (\E p, q : updateStatus(p, q)) \/ addHeadlessSvc \/ addPdb
  BY <1>1, <1>3
  DEF Begin, updateStatus, addHeadlessSvc, addPdb, Apply, cluster
<1>4. CASE addCore \/ addRepl
  BY <1>1, <1>4 DEF addCore, addRepl
<1>5. CASE createConfigMap \/ firstAnnotation \/ nothingToSync \/ syncFails
             \/ putEMQXConfigsByAPI \/ updateConfigMap \/ updateAnnotation
  BY <1>1, <1>5
  DEF createConfigMap, firstAnnotation, nothingToSync, syncFails,
      putEMQXConfigsByAPI, updateConfigMap, updateAnnotation, cluster
<1>6. CASE getEMQXConfigsByAPI \/ addSvc \/ PassDies
  BY <1>1, <1>6 DEF getEMQXConfigsByAPI, addSvc, Apply, PassDies, cluster
<1>7. CASE Edit \/ Annotate \/ DashboardEdit \/ CacheResource \/ CacheService
             \/ CreateRef
  BY <1>1, <1>7 DEF Edit, Annotate, DashboardEdit, CacheResource,
                    CacheService, CreateRef, cluster
<1>8. QED
  BY <1>2, <1>3, <1>4, <1>5, <1>6, <1>7, BootstrapSecrets, NodeSecrets
  DEF Next, PassStep

\* All nodes that run share the cookie and the API key that the operator
\* itself uses: the Secrets are never written again once they are there,
\* and no node starts before that.
THEOREM SecretsShared == Spec => []SameSecrets
<1>1. SecretsInv => SameSecrets
  BY DEF SecretsInv, SameSecrets
<1>2. QED
  BY <1>1, InitSecrets, NextSecrets, PTL DEF Spec

-----------------------------------------------------------------------------
(* Objects, and what CreateOrUpdate stores.                                *)

IsPort(p) == p = [name |-> p.name, port |-> p.port, udp |-> p.udp, node |-> p.node]

PortList(l) == /\ l \in Seq({l[i] : i \in DOMAIN l})
               /\ \A i \in DOMAIN l : IsPort(l[i])

\* No port of the list has a node port.
Plain(l) == PortList(l) /\ \A i \in DOMAIN l : l[i].node = 0

IsObj(o) == o = [type |-> o.type, sel |-> o.sel, ports |-> o.ports, ann |-> o.ann]

\* The list m has the ports of l, with perhaps other node ports.
SamePorts(m, l) ==
    /\ DOMAIN m = DOMAIN l
    /\ \A i \in DOMAIN l : /\ m[i].name = l[i].name /\ m[i].port = l[i].port
                           /\ m[i].udp = l[i].udp

LEMMA ListDomain ==
  ASSUME NEW l, PortList(l)
  PROVE  Len(l) \in Nat /\ DOMAIN l = 1 .. Len(l)
  BY DEF PortList

\* A list of ports with the places of another one.
LEMMA SameLength ==
  ASSUME NEW l, PortList(l), NEW m, m = [i \in DOMAIN l |-> m[i]],
         \A i \in DOMAIN l : IsPort(m[i])
  PROVE  PortList(m) /\ DOMAIN m = DOMAIN l
<1> DEFINE n == Len(l)
           X == {m[i] : i \in DOMAIN m}
<1>1. n \in Nat /\ DOMAIN l = 1 .. n
  BY ListDomain
<1> HIDE DEF n
<1>2. DOMAIN m = 1 .. n /\ m = [i \in 1 .. n |-> m[i]]
  BY <1>1
<1>3. \A i \in 1 .. n : m[i] \in X
  BY <1>2
<1> HIDE DEF X
<1>4. m \in [1 .. n -> X]
  BY <1>2, <1>3
<1>5. m \in Seq(X)
  BY <1>1, <1>4
<1>6. QED
  BY <1>1, <1>2, <1>5 DEF PortList, X

\* KeepNodePorts takes over the node port of a port with the same name, for
\* a Service that has node ports.
LEMMA KeepDoes ==
  ASSUME NEW o, NEW was, IsObj(o), Plain(o.ports)
  PROVE  LET m == KeepNodePorts(was, o) IN
         /\ IsObj(m) /\ m.type = o.type /\ m.ann = o.ann
         /\ PortList(m.ports) /\ SamePorts(m.ports, o.ports)
         /\ \A i \in DOMAIN o.ports :
               \/ /\ o.type = "NodePort"
                  /\ \E j \in DOMAIN was.ports :
                        /\ was.ports[j].name = o.ports[i].name
                        /\ m.ports[i].node = was.ports[j].node
               \/ /\ \/ o.type # "NodePort"
                     \/ \A j \in DOMAIN was.ports : was.ports[j].name # o.ports[i].name
                  /\ m.ports[i].node = 0
<1> DEFINE m == KeepNodePorts(was, o)
           same(i) == {j \in DOMAIN was.ports : was.ports[j].name = o.ports[i].name}
           take(i) == o.type = "NodePort" /\ o.ports[i].node = 0 /\ same(i) # {}
           port(i) == IF take(i)
                      THEN [o.ports[i] EXCEPT
                              !.node = was.ports[CHOOSE j \in same(i) : TRUE].node]
                      ELSE o.ports[i]
<1>1. \A i \in DOMAIN o.ports : o.ports[i].node = 0 /\ IsPort(o.ports[i])
  BY DEF Plain, PortList
<1>2. m = [o EXCEPT !.ports = [i \in DOMAIN o.ports |-> port(i)]]
  BY DEF KeepNodePorts
<1>3. /\ IsObj(m) /\ m.type = o.type /\ m.ann = o.ann
      /\ m.ports = [i \in DOMAIN o.ports |-> port(i)]
  <2> HIDE DEF m, port
  <2>1. QED
    BY <1>2 DEF IsObj
<1>4. ASSUME NEW i \in DOMAIN o.ports
      PROVE  /\ IsPort(port(i)) /\ port(i).name = o.ports[i].name
             /\ port(i).port = o.ports[i].port /\ port(i).udp = o.ports[i].udp
             /\ take(i) => \E j \in DOMAIN was.ports :
                              /\ was.ports[j].name = o.ports[i].name
                              /\ port(i).node = was.ports[j].node
             /\ ~take(i) => port(i).node = 0
  <2>1. CASE take(i)
    <3>1. PICK j \in same(i) : j = CHOOSE k \in same(i) : TRUE
      BY <2>1
    <3>2. port(i) = [o.ports[i] EXCEPT !.node = was.ports[j].node]
      BY <2>1, <3>1
    <3>3. QED
      BY <1>1, <2>1, <3>2 DEF IsPort
  <2>2. CASE ~take(i)
    BY <1>1, <2>2
  <2>3. QED
    BY <2>1, <2>2
<1>5. ASSUME NEW i \in DOMAIN o.ports
      PROVE  take(i) <=> /\ o.type = "NodePort"
                         /\ \E j \in DOMAIN was.ports : was.ports[j].name = o.ports[i].name
  BY <1>1
<1> HIDE DEF m, same, take, port
<1>6. PortList(m.ports) /\ SamePorts(m.ports, o.ports)
  <2>1. PICK q : q = m.ports
    OBVIOUS
  <2>2. q = [i \in DOMAIN o.ports |-> q[i]] /\ \A i \in DOMAIN o.ports : q[i] = port(i)
    BY <1>3, <2>1
  <2>3. PortList(o.ports)
    BY DEF Plain
  <2>4. \A i \in DOMAIN o.ports : IsPort(q[i])
    BY <1>4, <2>2
  <2>5. PortList(q) /\ DOMAIN q = DOMAIN o.ports
    BY <2>2, <2>3, <2>4, SameLength
  <2>6. QED
    BY <1>4, <2>1, <2>2, <2>5 DEF SamePorts
<1>7. QED
  BY <1>3, <1>4, <1>5, <1>6 DEF m

LEMMA MergedDoes ==
  ASSUME NEW o, NEW was, IsObj(o), Plain(o.ports)
  PROVE  LET m == Merged(was, o) IN
         /\ IsObj(m) /\ m.type = o.type /\ m.ann = o.ann \cup was.ann
         /\ PortList(m.ports) /\ SamePorts(m.ports, o.ports)
         /\ \A i \in DOMAIN o.ports :
               \/ /\ o.type = "NodePort"
                  /\ \E j \in DOMAIN was.ports :
                        /\ was.ports[j].name = o.ports[i].name
                        /\ m.ports[i].node = was.ports[j].node
               \/ /\ \/ o.type # "NodePort"
                     \/ \A j \in DOMAIN was.ports : was.ports[j].name # o.ports[i].name
                  /\ m.ports[i].node = 0
<1>1. PICK b : b = [o EXCEPT !.ann = @ \cup was.ann]
  OBVIOUS
<1>2. IsObj(b) /\ b.type = o.type /\ b.ann = o.ann \cup was.ann /\ b.ports = o.ports
  BY <1>1 DEF IsObj
<1>3. Merged(was, o) = KeepNodePorts(was, b)
  BY <1>1 DEF Merged
<1>4. Plain(b.ports)
  BY <1>2
<1>5. QED
  BY <1>2, <1>3, <1>4, KeepDoes

\* The API server gives the missing node ports, to ports of one name the same
\* one.
LEMMA AllocateDoes ==
  ASSUME NEW now, NEW o, IsObj(o), PortList(o.ports)
  PROVE  LET a == Allocate(now, o) IN
         /\ IsObj(a) /\ a.type = o.type /\ a.ann = o.ann
         /\ PortList(a.ports) /\ SamePorts(a.ports, o.ports)
         /\ \A i \in DOMAIN o.ports :
               IF o.type = "NodePort" /\ o.ports[i].node = 0
               THEN a.ports[i].node # 0 ELSE a.ports[i].node = o.ports[i].node
         /\ \A i, j \in DOMAIN o.ports :
               o.ports[i].name = o.ports[j].name /\ o.ports[i].node = o.ports[j].node
                 => a.ports[i].node = a.ports[j].node
<1> DEFINE a == Allocate(now, o)
           taken(n) == /\ now # NoObj
                       /\ \E j \in DOMAIN now.ports :
                             now.ports[j].name = n /\ now.ports[j].node = 1
           give(i) == o.type = "NodePort" /\ o.ports[i].node = 0
           port(i) == IF give(i)
                      THEN [o.ports[i] EXCEPT
                              !.node = IF taken(o.ports[i].name) THEN 2 ELSE 1]
                      ELSE o.ports[i]
<1>1. \A i \in DOMAIN o.ports : IsPort(o.ports[i])
  BY DEF PortList
<1>2. a = [o EXCEPT !.ports = [i \in DOMAIN o.ports |-> port(i)]]
  BY DEF Allocate, IsObj
<1>3. /\ IsObj(a) /\ a.type = o.type /\ a.ann = o.ann
      /\ a.ports = [i \in DOMAIN o.ports |-> port(i)]
  BY <1>2 DEF IsObj
<1>4. ASSUME NEW i \in DOMAIN o.ports
      PROVE  /\ IsPort(port(i)) /\ port(i).name = o.ports[i].name
             /\ port(i).port = o.ports[i].port /\ port(i).udp = o.ports[i].udp
             /\ give(i) => port(i).node = IF taken(o.ports[i].name) THEN 2 ELSE 1
             /\ ~give(i) => port(i).node = o.ports[i].node
  <2>1. CASE give(i)
    <3>1. PICK n : n = IF taken(o.ports[i].name) THEN 2 ELSE 1
      OBVIOUS
    <3>2. port(i) = [o.ports[i] EXCEPT !.node = n]
      BY <2>1, <3>1
    <3>3. /\ IsPort(port(i)) /\ port(i).name = o.ports[i].name
          /\ port(i).port = o.ports[i].port /\ port(i).udp = o.ports[i].udp
          /\ port(i).node = n
      <4> HIDE DEF port, give, taken
      <4>1. QED
        BY <1>1, <3>2 DEF IsPort
    <3>4. QED
      BY <2>1, <3>1, <3>3
  <2>2. CASE ~give(i)
    <3>1. port(i) = o.ports[i]
      BY <2>2
    <3>2. QED
      BY <1>1, <2>2, <3>1
  <2>3. QED
    BY <2>1, <2>2
<1>5. \A i \in DOMAIN o.ports : give(i) <=> o.type = "NodePort" /\ o.ports[i].node = 0
  OBVIOUS
<1> HIDE DEF a, taken, give, port
<1>6. /\ a.ports = [i \in DOMAIN o.ports |-> a.ports[i]]
      /\ \A i \in DOMAIN o.ports : a.ports[i] = port(i)
  BY <1>3
<1>7. PortList(a.ports) /\ DOMAIN a.ports = DOMAIN o.ports
  <2>1. PICK q : q = a.ports
    OBVIOUS
  <2>2. q = [i \in DOMAIN o.ports |-> q[i]] /\ \A i \in DOMAIN o.ports : IsPort(q[i])
    BY <1>4, <1>6, <2>1
  <2>3. QED
    BY <2>1, <2>2, SameLength
<1>8. SamePorts(a.ports, o.ports)
  BY <1>4, <1>6, <1>7 DEF SamePorts
<1>9. ASSUME NEW i \in DOMAIN o.ports
      PROVE  IF give(i) THEN a.ports[i].node # 0
             ELSE a.ports[i].node = o.ports[i].node
  BY <1>4, <1>6
<1>10. ASSUME NEW i \in DOMAIN o.ports, NEW j \in DOMAIN o.ports,
              o.ports[i].name = o.ports[j].name, o.ports[i].node = o.ports[j].node
       PROVE  a.ports[i].node = a.ports[j].node
  <2>1. give(i) <=> give(j)
    BY <1>5, <1>10
  <2>2. taken(o.ports[i].name) <=> taken(o.ports[j].name)
    BY <1>10
  <2>3. port(i).node = port(j).node
    BY <1>4, <1>10, <2>1, <2>2
  <2>4. QED
    BY <1>6, <2>3
<1>11. QED
  BY <1>3, <1>5, <1>7, <1>8, <1>9, <1>10 DEF a

\* No two ports of the list of object o have one name or one number.
Formed(o) ==
    \A i, j \in DOMAIN o.ports :
        i # j => ~SameNameOrPort(o.ports[i], o.ports[j])

\* What is asked for under the name k, and what is stored there: the ports of
\* the listeners Service have node ports, those of one name the same.
Wanted(k, o) ==
    /\ IsObj(o) /\ Plain(o.ports) /\ (o.type = "NodePort" <=> k = "listeners")
    /\ k = "listeners" => Formed(o)

Fine(k, o) ==
    /\ IsObj(o) /\ PortList(o.ports)
    /\ \A i \in DOMAIN o.ports : o.ports[i].node = 0 <=> k # "listeners"
    /\ \A i, j \in DOMAIN o.ports :
          o.ports[i].name = o.ports[j].name => o.ports[i].node = o.ports[j].node
    /\ k = "listeners" => Formed(o)

LEMMA FormedSame ==
  ASSUME NEW o, NEW m, Formed(o), SamePorts(m.ports, o.ports)
  PROVE  Formed(m)
  BY DEF Formed, SamePorts, SameNameOrPort

LEMMA SamePortsTwice ==
  ASSUME NEW l, NEW m, NEW n, SamePorts(l, m), SamePorts(m, n)
  PROVE  SamePorts(l, n)
  BY DEF SamePorts

LEMMA CreatedFine ==
  ASSUME NEW k, NEW o, NEW now, Wanted(k, o)
  PROVE  Fine(k, Allocate(now, o)) /\ SamePorts(Allocate(now, o).ports, o.ports)
<1> DEFINE a == Allocate(now, o)
<1>1. IsObj(o) /\ PortList(o.ports) /\ \A i \in DOMAIN o.ports : o.ports[i].node = 0
  BY DEF Wanted, Plain
<1>2. /\ IsObj(a) /\ PortList(a.ports) /\ SamePorts(a.ports, o.ports)
      /\ \A i \in DOMAIN o.ports :
            IF o.type = "NodePort" /\ o.ports[i].node = 0
            THEN a.ports[i].node # 0 ELSE a.ports[i].node = o.ports[i].node
      /\ \A i, j \in DOMAIN o.ports :
            o.ports[i].name = o.ports[j].name /\ o.ports[i].node = o.ports[j].node
              => a.ports[i].node = a.ports[j].node
  BY <1>1, AllocateDoes
<1> HIDE DEF a
<1>3. \A i \in DOMAIN a.ports : a.ports[i].node = 0 <=> k # "listeners"
  BY <1>1, <1>2 DEF Wanted, SamePorts
<1>4. \A i, j \in DOMAIN a.ports :
          a.ports[i].name = a.ports[j].name => a.ports[i].node = a.ports[j].node
  BY <1>1, <1>2 DEF SamePorts
<1>5. k = "listeners" => Formed(a)
  BY <1>2, FormedSame DEF Wanted
<1>6. QED
  BY <1>2, <1>3, <1>4, <1>5 DEF Fine, a

\* An update keeps the annotations, and the node port of every name.
LEMMA UpdatedFine ==
  ASSUME NEW k, NEW o, NEW was, Wanted(k, o), Fine(k, was)
  PROVE  LET a == Allocate(was, Merged(was, o)) IN
         /\ Fine(k, a) /\ was.ann \subseteq a.ann /\ SamePorts(a.ports, o.ports)
         /\ \A i \in DOMAIN was.ports, j \in DOMAIN a.ports :
               was.ports[i].name = a.ports[j].name
                 => was.ports[i].node = a.ports[j].node
<1> DEFINE m == Merged(was, o)
           a == Allocate(was, m)
<1>1. /\ IsObj(m) /\ m.type = o.type /\ m.ann = o.ann \cup was.ann
      /\ PortList(m.ports) /\ SamePorts(m.ports, o.ports)
      /\ \A i \in DOMAIN o.ports :
            \/ /\ o.type = "NodePort"
               /\ \E j \in DOMAIN was.ports :
                     /\ was.ports[j].name = o.ports[i].name
                     /\ m.ports[i].node = was.ports[j].node
            \/ /\ \/ o.type # "NodePort"
                  \/ \A j \in DOMAIN was.ports : was.ports[j].name # o.ports[i].name
               /\ m.ports[i].node = 0
  BY MergedDoes DEF Wanted
<1> HIDE DEF m
<1>2. /\ IsObj(a) /\ a.ann = m.ann /\ PortList(a.ports) /\ SamePorts(a.ports, m.ports)
      /\ \A i \in DOMAIN m.ports :
            IF m.type = "NodePort" /\ m.ports[i].node = 0
            THEN a.ports[i].node # 0 ELSE a.ports[i].node = m.ports[i].node
      /\ \A i, j \in DOMAIN m.ports :
            m.ports[i].name = m.ports[j].name /\ m.ports[i].node = m.ports[j].node
              => a.ports[i].node = a.ports[j].node
  BY <1>1, AllocateDoes
<1> HIDE DEF a
<1>3. SamePorts(a.ports, o.ports)
  BY <1>1, <1>2, SamePortsTwice
<1>4. k = "listeners" => Formed(a)
  BY <1>3, FormedSame DEF Wanted
<1>5. CASE k = "listeners"
  <2>1. o.type = "NodePort" /\ m.type = "NodePort"
    BY <1>1, <1>5 DEF Wanted
  <2>2. /\ \A i \in DOMAIN was.ports : was.ports[i].node # 0
        /\ \A i, j \in DOMAIN was.ports :
              was.ports[i].name = was.ports[j].name => was.ports[i].node = was.ports[j].node
    BY <1>5 DEF Fine
  <2>3. \A i \in DOMAIN was.ports, j \in DOMAIN m.ports :
           was.ports[i].name = m.ports[j].name => was.ports[i].node = m.ports[j].node
    BY <1>1, <2>1, <2>2 DEF SamePorts
  <2>4. \A j \in DOMAIN m.ports :
           \/ m.ports[j].node = 0
           \/ \E i \in DOMAIN was.ports : was.ports[i].name = m.ports[j].name
    BY <1>1 DEF SamePorts
  <2>5. \A i, j \in DOMAIN m.ports :
           m.ports[i].name = m.ports[j].name => m.ports[i].node = m.ports[j].node
    BY <2>3, <2>4
  <2>6. \A i \in DOMAIN a.ports : i \in DOMAIN m.ports /\ a.ports[i].name = m.ports[i].name
    BY <1>2 DEF SamePorts
  <2>7. \A i, j \in DOMAIN a.ports :
           a.ports[i].name = a.ports[j].name => a.ports[i].node = a.ports[j].node
    BY <1>2, <2>5, <2>6
  <2>8. \A i \in DOMAIN a.ports : a.ports[i].node # 0
    BY <1>2, <2>1, <2>6
  <2>9. \A i \in DOMAIN was.ports, j \in DOMAIN a.ports :
           was.ports[i].name = a.ports[j].name => was.ports[i].node = a.ports[j].node
    BY <1>2, <2>2, <2>3, <2>6
  <2>10. QED
    BY <1>1, <1>2, <1>3, <1>4, <1>5, <2>7, <2>8, <2>9 DEF Fine, a, m
<1>6. CASE k # "listeners"
  <2>1. o.type # "NodePort" /\ m.type # "NodePort"
    BY <1>1, <1>6 DEF Wanted
  <2>2. \A i \in DOMAIN was.ports : was.ports[i].node = 0
    BY <1>6 DEF Fine
  <2>3. \A i \in DOMAIN a.ports : a.ports[i].node = 0
    BY <1>1, <1>2, <2>1 DEF SamePorts
  <2>4. QED
    BY <1>1, <1>2, <1>3, <1>6, <2>2, <2>3 DEF Fine, a, m
<1>7. QED
  BY <1>5, <1>6

\* What CreateOrUpdate leaves behind, whatever it has read.
LEMMA CreateOrUpdateDoes ==
  ASSUME NEW k, NEW now, NEW read, NEW o, Wanted(k, o), ~IsObj(NoObj),
         now = NoObj \/ Fine(k, now)
  PROVE  LET res == CreateOrUpdate(now, read, o) IN
         /\ res.obj = NoObj \/ Fine(k, res.obj)
         /\ res.obj = now \/ SamePorts(res.obj.ports, o.ports)
         /\ now # NoObj =>
              /\ res.obj # NoObj /\ now.ann \subseteq res.obj.ann
              /\ \A i \in DOMAIN now.ports, j \in DOMAIN res.obj.ports :
                    now.ports[i].name = res.obj.ports[j].name
                      => now.ports[i].node = res.obj.ports[j].node
<1> DEFINE res == CreateOrUpdate(now, read, o)
<1>1. \/ res.obj = now
      \/ now = NoObj /\ res.obj = Allocate(now, o)
      \/ /\ now = read /\ read # NoObj
         /\ res.obj = Allocate(now, Merged(read, o))
  BY DEF CreateOrUpdate
<1> HIDE DEF res
<1>2. CASE res.obj = now
  BY <1>2 DEF Fine, res
<1>3. CASE now = NoObj /\ res.obj = Allocate(now, o)
  BY <1>3, CreatedFine DEF res
<1>4. CASE /\ now = read /\ read # NoObj
           /\ res.obj = Allocate(now, Merged(read, o))
  <2>1. PICK a : a = Allocate(now, Merged(now, o))
    OBVIOUS
  <2>2. /\ Fine(k, a) /\ now.ann \subseteq a.ann /\ SamePorts(a.ports, o.ports)
        /\ \A i \in DOMAIN now.ports, j \in DOMAIN a.ports :
              now.ports[i].name = a.ports[j].name
                => now.ports[i].node = a.ports[j].node
    BY <1>4, <2>1, UpdatedFine
  <2>3. a # NoObj
    BY <2>2 DEF Fine
  <2>4. res.obj = a
    BY <1>4, <2>1
  <2>5. QED
    BY <2>2, <2>3, <2>4 DEF res
<1>5. QED
  BY <1>1, <1>2, <1>3, <1>4

-----------------------------------------------------------------------------
(* Configurations and the ports they stand for.                            *)

ConfOK(c) == IsFiniteSet(DOMAIN c) /\ DOMAIN c \subseteq Paths

LEMMA DefaultListenersDomain ==
  DOMAIN DefaultListeners =
      {<<"listeners", "tcp", "default">>, <<"listeners", "ssl", "default">>,
       <<"listeners", "ws", "default">>, <<"listeners", "wss", "default">>}
  BY DEF DefaultListeners, @@, :>

LEMMA DefaultsOK == ConfOK(DefaultListeners)
<1>1. IsFiniteSet(DOMAIN DefaultListeners)
  <2> DEFINE a == <<"listeners", "tcp", "default">>
             b == <<"listeners", "ssl", "default">>
             c == <<"listeners", "ws", "default">>
             d == <<"listeners", "wss", "default">>
  <2>1. IsFiniteSet({a}) /\ IsFiniteSet({b}) /\ IsFiniteSet({c}) /\ IsFiniteSet({d})
    BY FS_Singleton
  <2>2. IsFiniteSet({a} \cup {b}) /\ IsFiniteSet({c} \cup {d})
    BY <2>1, FS_Union
  <2>3. IsFiniteSet(({a} \cup {b}) \cup ({c} \cup {d}))
    BY <2>2, FS_Union
  <2>4. DOMAIN DefaultListeners = ({a} \cup {b}) \cup ({c} \cup {d})
    BY DefaultListenersDomain
  <2>5. QED
    BY <2>3, <2>4
<1>2. InitSpec.conf \in Confs
  BY SpecAssumption DEF Confs
<1>3. DOMAIN DefaultListeners \subseteq DOMAIN mergeDefaultConfig(InitSpec.conf)
  BY DEF mergeDefaultConfig, @@
<1>4. QED
  BY <1>1, <1>2, <1>3 DEF ConfOK, Paths

LEMMA OverOK ==
  ASSUME NEW c, NEW d, ConfOK(c), ConfOK(d)
  PROVE  ConfOK(c @@ d)
<1>1. DOMAIN (c @@ d) = DOMAIN c \cup DOMAIN d
  BY DEF @@
<1>2. IsFiniteSet(DOMAIN c \cup DOMAIN d)
  BY FS_Union DEF ConfOK
<1>3. QED
  BY <1>1, <1>2 DEF ConfOK

LEMMA SpecConfOK ==
  ASSUME NEW s \in Specs
  PROVE  ConfOK(s.conf) /\ ConfOK(mergeDefaultConfig(s.conf))
<1>1. s.conf \in Confs
  BY DEF Confs
<1>2. DOMAIN s.conf \subseteq DOMAIN mergeDefaultConfig(s.conf)
  BY DEF mergeDefaultConfig, @@
<1>3. ConfOK(s.conf)
  BY <1>1, <1>2, ConfsAssumption DEF ConfOK, Paths
<1>4. QED
  BY <1>3, DefaultsOK, OverOK DEF mergeDefaultConfig

LEMMA PartOK ==
  ASSUME NEW c, NEW d, ConfOK(c), DOMAIN d \subseteq DOMAIN c
  PROVE  ConfOK(d)
  BY FS_Subset DEF ConfOK

LEMMA NothingOK == ConfOK(<<>>)
  BY FS_EmptySet DEF ConfOK

LEMMA PutOK ==
  ASSUME NEW c, ConfOK(c), ConfOK(live)
  PROVE  ConfOK(WithoutReadOnly(c)) /\ ConfOK(PutConfigs(c))
<1> DEFINE new == WithoutReadOnly(c)
           roots == {k[1] : k \in DOMAIN new}
           kept == [k \in {k \in DOMAIN live : k[1] \notin roots} |-> live[k]]
<1>1. ConfOK(new)
  <2>1. DOMAIN new \subseteq DOMAIN c
    BY DEF WithoutReadOnly
  <2>2. QED
    BY <2>1, PartOK
<1>2. ConfOK(kept)
  <2>1. DOMAIN kept \subseteq DOMAIN live
    OBVIOUS
  <2> HIDE DEF kept
  <2>2. QED
    BY <2>1, PartOK
<1>3. PutConfigs(c) = new @@ live \/ PutConfigs(c) = new @@ kept
  BY DEF PutConfigs
<1> HIDE DEF new, kept
<1>4. QED
  BY <1>1, <1>2, <1>3, OverOK DEF new

\* A set of ports that were made from paths, at most one of each.
LEMMA ImageFinite ==
  ASSUME NEW K, IsFiniteSet(K), NEW f, f = [k \in K |-> f[k]]
  PROVE  IsFiniteSet({f[k] : k \in K})
<1> DEFINE T == {f[k] : k \in K}
<1>1. f \in [K -> T]
  OBVIOUS
<1>2. \A t \in T : \E k \in K : f[k] = t
  OBVIOUS
<1>3. f \in Surjection(K, T)
  BY <1>1, <1>2 DEF Surjection
<1>4. QED
  BY <1>3, FS_Surjection

LEMMA PlainList ==
  ASSUME NEW S, NEW l \in Seq(S), \A p \in S : IsPort(p) /\ p.node = 0
  PROVE  Plain(l)
<1> DEFINE n == Len(l)
           X == {l[i] : i \in DOMAIN l}
<1>1. n \in Nat /\ DOMAIN l = 1 .. n /\ l = [i \in 1 .. n |-> l[i]]
  OBVIOUS
<1>2. \A i \in 1 .. n : l[i] \in S
  OBVIOUS
<1>3. \A i \in 1 .. n : l[i] \in X
  BY <1>1
<1> HIDE DEF n, X
<1>4. l \in Seq(X)
  BY <1>1, <1>3
<1>5. QED
  BY <1>1, <1>2, <1>4 DEF Plain, PortList, X

\* The ports of the listeners and gateways of a configuration.
LEMMA ListenersPlain ==
  ASSUME NEW c, ConfOK(c)
  PROVE  Plain(GetListenersServicePorts(c))
<1> DEFINE L == ListenerPaths(c)
           G == GatewayPaths(c)
           f == [k \in L |-> ServicePort(Tail(k), c[k], k[2] = "quic")]
           g == [k \in G |-> ServicePort(Tail(k), c[k], k[3] \in {"udp", "dtls"})]
           A == {f[k] : k \in L}
           B == {g[k] : k \in G}
<1>1. /\ \A k \in L : k \in PortPaths /\ k[1] = "listeners" /\ k \in DOMAIN c
      /\ \A k \in G : k \in PortPaths /\ k[1] = "gateway" /\ k \in DOMAIN c
  BY DEF ListenerPaths, GatewayPaths, PortPaths, ConfOK
<1>2. IsFiniteSet(L) /\ IsFiniteSet(G)
  BY <1>1, FS_Subset DEF ConfOK
<1>3. /\ f = [k \in L |-> f[k]] /\ g = [k \in G |-> g[k]]
      /\ \A k \in L : IsPort(f[k]) /\ f[k].name = Tail(k) /\ f[k].node = 0
      /\ \A k \in G : IsPort(g[k]) /\ g[k].name = Tail(k) /\ g[k].node = 0
  <2>1. ASSUME NEW k \in L
        PROVE  IsPort(f[k]) /\ f[k].name = Tail(k) /\ f[k].node = 0
    <3>1. f[k] = ServicePort(Tail(k), c[k], k[2] = "quic")
      OBVIOUS
    <3> HIDE DEF f
    <3>2. QED
      BY <3>1 DEF ServicePort, IsPort
  <2>2. ASSUME NEW k \in G
        PROVE  IsPort(g[k]) /\ g[k].name = Tail(k) /\ g[k].node = 0
    <3>1. g[k] = ServicePort(Tail(k), c[k], k[3] \in {"udp", "dtls"})
      OBVIOUS
    <3> HIDE DEF g
    <3>2. QED
      BY <3>1 DEF ServicePort, IsPort
  <2>3. f = [k \in L |-> f[k]] /\ g = [k \in G |-> g[k]]
    OBVIOUS
  <2> HIDE DEF f, g
  <2>4. QED
    BY <2>1, <2>2, <2>3
<1>4. GetListenersServicePorts(c) = ByName(A \cup B)
  <2>1. /\ A = {ServicePort(Tail(k), c[k], k[2] = "quic") : k \in ListenerPaths(c)}
        /\ B = {ServicePort(Tail(k), c[k], k[3] \in {"udp", "dtls"})
                  : k \in GatewayPaths(c)}
    OBVIOUS
  <2> HIDE DEF A, B
  <2>2. QED
    BY <2>1 DEF GetListenersServicePorts
<1> HIDE DEF L, G, f, g
<1>5. IsFiniteSet(A) /\ IsFiniteSet(B)
  BY <1>2, <1>3, ImageFinite
<1>6. \A p \in A \cup B : \E k \in PortPaths :
          /\ p.name = Tail(k) /\ IsPort(p) /\ p.node = 0
          /\ \/ k[1] = "listeners" /\ p = f[k]
             \/ k[1] = "gateway" /\ p = g[k]
  BY <1>1, <1>3
<1> HIDE DEF A, B
<1>7. IsFiniteSet(A \cup B)
  BY <1>5, FS_Union
<1>8. Ranked(A \cup B)
  <2>1. \A p \in A \cup B : NameRank[p.name] \in Nat
    BY <1>6, NamesAssumption
  <2>2. ASSUME NEW p \in A \cup B, NEW q \in A \cup B,
               NameRank[p.name] = NameRank[q.name]
        PROVE  p = q
    <3>1. PICK k \in PortPaths : /\ p.name = Tail(k)
                                 /\ \/ k[1] = "listeners" /\ p = f[k]
                                    \/ k[1] = "gateway" /\ p = g[k]
      BY <1>6
    <3>2. PICK m \in PortPaths : /\ q.name = Tail(m)
                                 /\ \/ m[1] = "listeners" /\ q = f[m]
                                    \/ m[1] = "gateway" /\ q = g[m]
      BY <1>6
    <3>3. k = m
      BY <2>2, <3>1, <3>2, NamesAssumption
    <3>4. QED
      BY <3>1, <3>2, <3>3
  <2>3. QED
    BY <2>1, <2>2 DEF Ranked
<1>9. ByName(A \cup B) \in Seq(A \cup B)
  BY <1>7, <1>8, ByNameLists
<1>10. QED
  BY <1>4, <1>6, <1>9, PlainList

LEMMA DashboardPlain ==
  ASSUME NEW c
  PROVE  Plain(GetDashboardServicePort(c))
<1> DEFINE m == GetDashboardPortMap(c)
           D == DOMAIN m
           f == [k \in D |-> ServicePort(k, m[k], FALSE)]
           A == {f[k] : k \in D}
<1>1. D \subseteq {http, https}
  BY DEF GetDashboardPortMap
<1>2. GetDashboardServicePort(c) = ByName(A)
  <2>1. A = {ServicePort(k, m[k], FALSE) : k \in DOMAIN m}
    OBVIOUS
  <2> HIDE DEF A
  <2>2. QED
    BY <2>1 DEF GetDashboardServicePort
<1> HIDE DEF m, D
<1>3. IsFiniteSet(D)
  <2>1. IsFiniteSet({http} \cup {https})
    BY FS_Singleton, FS_Union
  <2>2. D \in SUBSET ({http} \cup {https})
    BY <1>1
  <2>3. QED
    BY <2>1, <2>2, FS_Subset
<1>4. /\ f = [k \in D |-> f[k]]
      /\ \A k \in D : IsPort(f[k]) /\ f[k].name = k /\ f[k].node = 0
  <2>1. ASSUME NEW k \in D
        PROVE  IsPort(f[k]) /\ f[k].name = k /\ f[k].node = 0
    <3>1. f[k] = ServicePort(k, m[k], FALSE)
      OBVIOUS
    <3> HIDE DEF f
    <3>2. QED
      BY <3>1 DEF ServicePort, IsPort
  <2>2. f = [k \in D |-> f[k]]
    OBVIOUS
  <2> HIDE DEF f
  <2>3. QED
    BY <2>1, <2>2
<1> HIDE DEF f
<1>5. IsFiniteSet(A)
  BY <1>3, <1>4, ImageFinite
<1>6. \A p \in A : /\ p.name \in {http, https} /\ p = f[p.name]
                   /\ IsPort(p) /\ p.node = 0
  BY <1>1, <1>4
<1> HIDE DEF A
<1>7. Ranked(A)
  BY <1>6, NamesAssumption DEF Ranked
<1>8. ByName(A) \in Seq(A)
  BY <1>5, <1>7, ByNameLists
<1>9. QED
  BY <1>2, <1>6, <1>8, PlainList

-----------------------------------------------------------------------------
(* The owned objects.                                                      *)

LEMMA HeadlessWanted == Wanted("headless", generateHeadlessService)
<1> DEFINE a == ServicePort("erlang-dist", 4370, FALSE)
           b == ServicePort("gen-rpc", 5369, FALSE)
           o == Object("ClusterIP", DefaultCoreLabels, <<a, b>>)
<1>1. IsPort(a) /\ a.node = 0 /\ IsPort(b) /\ b.node = 0
  BY DEF ServicePort, IsPort
<1>2. generateHeadlessService = o
  BY DEF generateHeadlessService
<1> HIDE DEF a, b
<1>3. <<a, b>> \in Seq({a, b})
  OBVIOUS
<1>4. Plain(<<a, b>>)
  <2>1. PICK l : l = <<a, b>>
    OBVIOUS
  <2>2. PICK S : S = {a, b}
    OBVIOUS
  <2>3. l \in Seq(S) /\ \A p \in S : IsPort(p) /\ p.node = 0
    BY <1>1, <1>3, <2>1, <2>2
  <2>4. Plain(l)
    BY <2>3, PlainList
  <2>5. QED
    BY <2>1, <2>4
<1>5. IsObj(o) /\ o.type = "ClusterIP" /\ o.ports = <<a, b>>
  BY DEF Object, IsObj
<1>6. QED
  BY <1>2, <1>4, <1>5 DEF Wanted

LEMMA NoPortsPlain == Plain(<<>>)
<1>1. PICK l : l = <<>>
  OBVIOUS
<1>2. PICK S : S = {}
  OBVIOUS
<1>3. l \in Seq(S) /\ \A p \in S : IsPort(p) /\ p.node = 0
  BY <1>1, <1>2
<1>4. Plain(l)
  BY <1>3, PlainList
<1>5. QED
  BY <1>1, <1>4

LEMMA BudgetWanted ==
  ASSUME NEW k \in {"pdb", "replPdb"}
  PROVE  Wanted(k, generatePodDisruptionBudget(k))
<1> DEFINE o == generatePodDisruptionBudget(k)
<1>1. IsObj(o) /\ o.type = "PodDisruptionBudget" /\ o.ports = <<>>
  BY DEF generatePodDisruptionBudget, Object, IsObj
<1> HIDE DEF o
<1>2. QED
  BY <1>1, NoPortsPlain DEF Wanted, o

LEMMA DashboardWanted ==
  ASSUME NEW ports, Plain(ports), generateDashboardService(ports) # NoObj
  PROVE  Wanted("dashboard", generateDashboardService(ports))
<1> DEFINE o == generateDashboardService(ports)
<1>1. IsObj(o) /\ o.type = "ClusterIP" /\ o.ports = ports
  BY DEF generateDashboardService, Object, IsObj
<1> HIDE DEF o
<1>2. QED
  BY <1>1 DEF Wanted, o

LEMMA DefaultPortsPlain == Plain(DefaultListenerPorts)
<1>1. PICK c : c = mergeDefaultConfig(<<>>)
  OBVIOUS
<1>2. ConfOK(c)
  BY <1>1, NothingOK, DefaultsOK, OverOK DEF mergeDefaultConfig
<1>3. QED
  BY <1>1, <1>2, ListenersPlain DEF DefaultListenerPorts

\* The listeners Service has the ports of the template, as they are, and of the
\* ports read those that repeat no name and no number.
LEMMA ListenersWanted ==
  ASSUME NEW i, NEW ports, i.spec \in Specs, Plain(ports),
         generateListenerService(i, ports) # NoObj
  PROVE  /\ Wanted("listeners", generateListenerService(i, ports))
         /\ BuiltFrom(generateListenerService(i, ports).ports, i.spec.tpl.ports,
                      IF ports = <<>> THEN DefaultListenerPorts ELSE ports)
<1> DEFINE o == generateListenerService(i, ports)
<1>1. PICK t : t = i.spec.tpl.ports
  OBVIOUS
<1>2. PICK q : q = IF ports = <<>> THEN DefaultListenerPorts ELSE ports
  OBVIOUS
<1>3. PICK l : l = MergeServicePorts(t, q)
  OBVIOUS
<1>4. /\ t \in Seq({t[n] : n \in DOMAIN t})
      /\ \A n \in DOMAIN t : t[n] = ServicePort(t[n].name, t[n].port, t[n].udp)
      /\ \A n, m \in DOMAIN t : n # m => ~SameNameOrPort(t[n], t[m])
  <2>1. t \in {s.tpl.ports : s \in Specs}
    BY <1>1
  <2>2. QED
    BY <2>1, TemplatesAssumption
<1>5. Plain(q)
  BY <1>2, DefaultPortsPlain
<1>6. IsObj(o) /\ o.type = "NodePort" /\ o.ports = l
  <2>1. PICK sel : o = Object("NodePort", sel, l)
    BY <1>1, <1>2, <1>3 DEF generateListenerService
  <2> HIDE DEF o
  <2>2. QED
    BY <2>1 DEF Object, IsObj
<1> HIDE DEF o
<1> DEFINE P == {t[n] : n \in DOMAIN t} \cup {q[n] : n \in DOMAIN q}
<1>7. \A p \in P : IsPort(p) /\ p.node = 0
  <2>1. \A n \in DOMAIN t : IsPort(t[n]) /\ t[n].node = 0
    BY <1>4 DEF ServicePort, IsPort
  <2>2. \A n \in DOMAIN q : IsPort(q[n]) /\ q[n].node = 0
    BY <1>5 DEF Plain, PortList
  <2>3. QED
    BY <2>1, <2>2
<1>8. t \in Seq(P) /\ q \in Seq(P)
  <2> DEFINE A == {t[n] : n \in DOMAIN t}
             B == {q[n] : n \in DOMAIN q}
  <2>1. t \in Seq(A) /\ q \in Seq(B)
    BY <1>4, <1>5 DEF Plain, PortList
  <2>2. P = A \cup B
    OBVIOUS
  <2> HIDE DEF A, B, P
  <2>3. t \in Seq(A \cup B) /\ q \in Seq(A \cup B)
    BY <2>1
  <2>4. QED
    BY <2>2, <2>3
<1> HIDE DEF P
<1>9. l \in Seq(P) /\ Apart(l)
  BY <1>3, <1>8, MergeApart
<1>10. Plain(l)
  BY <1>7, <1>9, PlainList
<1>11. Apart(t) /\ DOMAIN t = 1 .. Len(t) /\ Len(t) \in Nat
  BY <1>4, <1>8 DEF Apart
<1>12. \A n \in 1 .. Len(t) : n \in 1 .. Len(l) /\ l[n] = t[n]
  BY <1>3, <1>8, <1>11, MergeKeepsFirst
<1>13. DOMAIN l = 1 .. Len(l) /\ Len(l) \in Nat
  BY <1>9
<1>14. \A n, m \in DOMAIN l : n # m => ~SameNameOrPort(l[n], l[m])
  <2>1. ASSUME NEW n \in 1 .. Len(l), NEW m \in 1 .. Len(l), n # m
        PROVE  ~SameNameOrPort(l[n], l[m])
    <3>1. n < m \/ m < n
      BY <1>13, <2>1
    <3>2. ~SameNameOrPort(l[n], l[m]) \/ ~SameNameOrPort(l[m], l[n])
      BY <1>9, <3>1 DEF Apart
    <3>3. QED
      BY <3>2 DEF SameNameOrPort
  <2>2. QED
    BY <1>13, <2>1
<1>15. Formed(o)
  BY <1>6, <1>14 DEF Formed
<1>16. \A n \in DOMAIN t : \E m \in DOMAIN l : l[m] = t[n]
  BY <1>11, <1>12, <1>13
<1>17. \A m \in DOMAIN l : \/ \E n \in DOMAIN t : l[m] = t[n]
                          \/ \E n \in DOMAIN q : l[m] = q[n]
  <2>1. \A m \in DOMAIN l : l[m] \in P
    BY <1>9
  <2>2. QED
    BY <2>1 DEF P
<1>18. BuiltFrom(l, t, q)
  BY <1>14, <1>16, <1>17 DEF BuiltFrom
<1>19. QED
  BY <1>1, <1>2, <1>6, <1>10, <1>15, <1>18 DEF Wanted, o

\* A copy of the resource.
IsRes(r) ==
    /\ r = [spec |-> r.spec, last |-> r.last, conds |-> r.conds,
            nodes |-> r.nodes, repl |-> r.repl]
    /\ r.spec \in Specs

ResInv == IsRes(cr) /\ IsRes(cache) /\ IsRes(mem) /\ IsRes(base)

RunOK(r) ==
    /\ r = [req |-> r.req, put |-> r.put, got |-> r.got]
    /\ ConfOK(r.put) /\ Plain(r.got.dashboard) /\ Plain(r.got.listeners)

ConfInv == RunOK(run) /\ ConfOK(live) /\ (confMap # None => ConfOK(confMap))

\* What is stored is always an object CreateOrUpdate may leave behind.
ObjsInv ==
    /\ objs = [k \in ObjKinds |-> objs[k]]
    /\ \A k \in ObjKinds : objs[k] = NoObj \/ Fine(k, objs[k])

\* No object goes away or loses an annotation, and no port its node port.
ObjsStay ==
    \A k \in ObjKinds : objs[k] # NoObj =>
        /\ objs'[k] # NoObj /\ objs[k].ann \subseteq objs'[k].ann
        /\ \A i \in DOMAIN objs[k].ports, j \in DOMAIN objs'[k].ports :
              objs[k].ports[i].name = objs'[k].ports[j].name
                => objs[k].ports[i].node = objs'[k].ports[j].node

LEMMA NewResourceOK == IsRes(NewResource)
  BY SpecAssumption DEF IsRes, NewResource

LEMMA NoRunOK == RunOK(NoRun)
  BY NoPortsPlain, NothingOK DEF RunOK, NoRun, NoPorts

LEMMA InitObjs == Init => ResInv /\ ConfInv /\ ObjsInv
  BY NewResourceOK, NoRunOK, NothingOK DEF Init, ResInv, ConfInv, ObjsInv

LEMMA SameObjs ==
  ASSUME ObjsInv, objs' = objs
  PROVE  ObjsInv' /\ ObjsStay
<1>1. ObjsInv'
  BY DEF ObjsInv
<1>2. ASSUME NEW k \in ObjKinds, objs[k] # NoObj
      PROVE  \A i, j \in DOMAIN objs[k].ports :
                objs[k].ports[i].name = objs[k].ports[j].name
                  => objs[k].ports[i].node = objs[k].ports[j].node
  BY <1>2 DEF ObjsInv, Fine
<1>3. QED
  BY <1>1, <1>2 DEF ObjsStay

LEMMA EndPassOK == EndPass => IsRes(mem)' /\ IsRes(base)' /\ RunOK(run)'
  BY NewResourceOK, NoRunOK DEF EndPass, IsRes, RunOK

LEMMA WriteOK ==
  ASSUME NEW i, IsRes(i), NEW p, Write(i, p), ResInv, RunOK(run)
  PROVE  ResInv' /\ RunOK(run)'
<1>1. CASE cr = base /\ cr' = i /\ mem' = i /\ base' = i /\ UNCHANGED <<cache, changes>>
           /\ run' = [run EXCEPT !.put = <<>>]
  BY <1>1, NothingOK DEF ResInv, IsRes, RunOK
<1>2. CASE EndPass /\ UNCHANGED resource
  BY <1>2, EndPassOK DEF ResInv, IsRes, resource
<1>3. QED
  BY <1>1, <1>2 DEF Write

LEMMA StatusObjs ==
  ASSUME ResInv, ConfInv, NEW p, NEW q, updateStatus(p, q)
  PROVE  ResInv' /\ ConfInv' /\ objs' = objs
<1>1. objs' = objs /\ UNCHANGED <<live, confMap>>
  BY DEF updateStatus, cluster
<1>2. CASE UNCHANGED resource /\ (EndPass \/ Goto(q))
  BY <1>1, <1>2, EndPassOK DEF ResInv, ConfInv, Goto, resource, IsRes, RunOK
<1>3. ASSUME NEW ok \in BOOLEAN,
             LET i == [mem EXCEPT !.conds = NextStatus(@, Observed(ok)),
                                  !.nodes = ok,
                                  !.repl = ok /\ Up(Repls) # {}]
             IN  \/ q # "idle" /\ Write(i, q)
                 \/ /\ q = "idle" /\ EndPass
                    /\ cr' = IF cr = base THEN i ELSE cr
                    /\ UNCHANGED <<cache, changes>>
      PROVE  ResInv' /\ RunOK(run)'
  <2>1. PICK i : i = [mem EXCEPT !.conds = NextStatus(@, Observed(ok)), !.nodes = ok,
                                 !.repl = ok /\ Up(Repls) # {}]
    OBVIOUS
  <2>2. IsRes(i)
    <3>1. PICK c, d : i = [mem EXCEPT !.conds = c, !.nodes = ok, !.repl = d]
      BY <2>1
    <3>2. QED
      BY <3>1 DEF ResInv, IsRes
  <2>3. \/ Write(i, q)
        \/ EndPass /\ cr' = (IF cr = base THEN i ELSE cr) /\ cache' = cache
    BY <1>3, <2>1
  <2>4. CASE Write(i, q)
    BY <2>2, <2>4, WriteOK DEF ConfInv
  <2>5. CASE EndPass /\ cr' = (IF cr = base THEN i ELSE cr) /\ cache' = cache
    BY <2>2, <2>5, EndPassOK DEF ResInv, IsRes
  <2>6. QED
    BY <2>3, <2>4, <2>5
<1>4. QED
  BY <1>1, <1>2, <1>3 DEF updateStatus, ConfInv, ConfOK

LEMMA SetObjs ==
  ASSUME ResInv, ConfInv, addCore \/ addRepl
  PROVE  ResInv' /\ ConfInv' /\ objs' = objs
<1>1. UNCHANGED <<objs, run, live, confMap, cache>>
  BY DEF addCore, addRepl
<1>2. CASE UNCHANGED <<cr, mem, base>>
  BY <1>1, <1>2 DEF ResInv, IsRes, ConfInv, RunOK, ConfOK
<1>3. ASSUME NEW s, NEW d, NEW c, NewSet(s, d, c)
      PROVE  ResInv'
  <2>1. PICK x : cr' = [cr EXCEPT !.conds = x] /\ mem' = cr' /\ base' = cr'
    BY <1>3 DEF NewSet
  <2>2. QED
    BY <1>1, <2>1 DEF ResInv, IsRes
<1>4. QED
  BY <1>1, <1>2, <1>3 DEF addCore, addRepl, ConfInv, RunOK, ConfOK

LEMMA AnnotationObjs ==
  ASSUME ResInv, ConfInv, firstAnnotation \/ updateAnnotation
  PROVE  ResInv' /\ ConfInv' /\ objs' = objs
<1>1. UNCHANGED <<objs, live, confMap>>
  BY DEF firstAnnotation, updateAnnotation, cluster
<1>2. PICK i : i = [mem EXCEPT !.last = mem.spec.conf]
  OBVIOUS
<1>3. IsRes(i)
  BY <1>2 DEF ResInv, IsRes
<1>4. Write(i, "svc")
  BY <1>2 DEF firstAnnotation, updateAnnotation
<1>5. ResInv' /\ RunOK(run)'
  BY <1>3, <1>4, WriteOK DEF ConfInv
<1>6. QED
  BY <1>1, <1>5 DEF ConfInv, ConfOK

\* What the configurations and the ports come from.
LEMMA ConfigObjs ==
  ASSUME ResInv, ConfInv,
         createConfigMap \/ putEMQXConfigsByAPI \/ updateConfigMap
         \/ getEMQXConfigsByAPI \/ NodeUp \/ DashboardEdit
  PROVE  ResInv' /\ ConfInv' /\ objs' = objs
<1>1. CASE createConfigMap
  BY <1>1, SpecConfOK
  DEF createConfigMap, Goto, cluster, resource, ResInv, ConfInv, IsRes, RunOK
<1>2. CASE updateConfigMap
  BY <1>2
  DEF updateConfigMap, Goto, cluster, resource, ResInv, ConfInv, IsRes, RunOK
<1>3. CASE putEMQXConfigsByAPI
  <2>1. PICK conf : conf = mergeDefaultConfig(mem.spec.conf)
    OBVIOUS
  <2>2. PICK str : str = confStr(mem.spec.conf)
    OBVIOUS
  <2>3. ConfOK(conf)
    BY <2>1, SpecConfOK DEF ResInv, IsRes
  <2>4. ConfOK(str)
    BY <2>1, <2>2, <2>3, PutOK DEF ConfInv, confStr
  <2>5. ConfOK(PutConfigs(str))
    BY <2>4, PutOK DEF ConfInv
  <2>6. live' = PutConfigs(str) /\ run' = [run EXCEPT !.put = str]
    BY <1>3, <2>2 DEF putEMQXConfigsByAPI
  <2>7. ConfOK(live)'
    <3>1. PICK x : x = PutConfigs(str)
      OBVIOUS
    <3>2. ConfOK(x) /\ live' = x
      BY <2>5, <2>6, <3>1
    <3>3. QED
      BY <3>2 DEF ConfOK
  <2>8. RunOK(run)'
    BY <2>4, <2>6 DEF ConfInv, RunOK
  <2>9. UNCHANGED <<cr, cache, mem, base, objs, confMap>>
    BY <1>3 DEF putEMQXConfigsByAPI, resource
  <2>10. QED
    BY <2>7, <2>8, <2>9 DEF ResInv, IsRes, ConfInv, ConfOK
<1>4. CASE getEMQXConfigsByAPI
  <2>1. UNCHANGED <<cr, cache, objs, live, confMap>>
    BY <1>4 DEF getEMQXConfigsByAPI, resource, cluster
  <2>2. CASE EndPass
    BY <2>1, <2>2, EndPassOK DEF ResInv, ConfInv, ConfOK, IsRes
  <2>3. CASE Goto("status2")
    BY <2>1, <2>3 DEF Goto, ResInv, ConfInv, ConfOK, IsRes, RunOK
  <2>4. CASE run' = [run EXCEPT !.got = PortsOf(live)] /\ UNCHANGED <<mem, base>>
    <3>1. /\ PortsOf(live) = [dashboard |-> PortsOf(live).dashboard,
                              listeners |-> PortsOf(live).listeners]
          /\ Plain(PortsOf(live).dashboard) /\ Plain(PortsOf(live).listeners)
      BY ListenersPlain, DashboardPlain DEF PortsOf, ConfInv
    <3>2. PICK x : x = PortsOf(live)
      OBVIOUS
    <3>3. RunOK(run)'
      BY <2>4, <3>1, <3>2 DEF ConfInv, RunOK
    <3>4. QED
      BY <2>1, <2>4, <3>3 DEF ResInv, IsRes, ConfInv, ConfOK
  <2>5. QED
    BY <1>4, <2>2, <2>3, <2>4 DEF getEMQXConfigsByAPI
<1>5. CASE NodeUp
  <2>1. UNCHANGED <<cr, cache, mem, base, run, objs, confMap>>
    BY <1>5 DEF NodeUp, resource, pass
  <2>2. live' = live \/ (confMap # None /\ live' = confMap)
    BY <1>5 DEF NodeUp
  <2>3. QED
    BY <2>1, <2>2 DEF ResInv, IsRes, ConfInv, RunOK, ConfOK
<1>6. CASE DashboardEdit
  <2>1. UNCHANGED <<cr, cache, mem, base, run, objs, confMap>>
    BY <1>6 DEF DashboardEdit, resource, pass
  <2>2. ConfOK(DashboardConf)
    <3>1. DOMAIN DashboardConf \subseteq Paths
      BY Zenon DEF Paths
    <3>2. QED
      BY <3>1, ConfsAssumption DEF ConfOK
  <2>3. PICK x : x = DashboardConf @@ live
    OBVIOUS
  <2>4. ConfOK(x) /\ live' = x
    BY <1>6, <2>2, <2>3, OverOK DEF DashboardEdit, ConfInv
  <2>5. QED
    BY <2>1, <2>4 DEF ResInv, IsRes, ConfInv, RunOK, ConfOK
<1>7. QED
  BY <1>1, <1>2, <1>3, <1>4, <1>5, <1>6

LEMMA OtherObjs ==
  ASSUME ResInv, ConfInv,
         Begin \/ addCookie \/ addAPIKey \/ nothingToSync \/ syncFails
         \/ PassDies \/ Edit \/ CacheResource \/ CacheService \/ CreateRef \/ NodeDown
  PROVE  ResInv' /\ ConfInv' /\ objs' = objs
<1>1. UNCHANGED <<objs, live, confMap>>
  BY DEF Begin, addCookie, addAPIKey, nothingToSync, syncFails, PassDies, Edit,
         CacheResource, CacheService, CreateRef, NodeDown, cluster
<1>2. CASE UNCHANGED <<cr, cache, mem, base, run>>
  BY <1>1, <1>2 DEF ResInv, IsRes, ConfInv, RunOK, ConfOK
<1>3. CASE UNCHANGED <<cr, cache>> /\ EndPass
  BY <1>1, <1>3, EndPassOK DEF ResInv, IsRes, ConfInv, RunOK, ConfOK
<1>4. CASE Begin
  <2>1. PICK x : run' = [NoRun EXCEPT !.req = x]
    BY <1>4 DEF Begin
  <2>2. RunOK(run)'
    BY <2>1, NoRunOK DEF RunOK
  <2>3. QED
    BY <1>1, <1>4, <2>2 DEF Begin, resource, ResInv, IsRes, ConfInv, ConfOK
<1>5. CASE addCookie \/ addAPIKey \/ nothingToSync \/ syncFails \/ PassDies
  BY <1>2, <1>3, <1>5
  DEF addCookie, addAPIKey, nothingToSync, syncFails, PassDies, Goto, resource
<1>6. CASE Edit
  <2>1. PICK s \in EditSpecs[cr.spec] : cr' = [cr EXCEPT !.spec = s]
    BY <1>6 DEF Edit
  <2>2. s \in Specs
    <3>1. cr.spec \in Specs
      BY DEF ResInv, IsRes
    <3>2. EditSpecs[cr.spec] \in SUBSET Specs
      BY <3>1, SpecAssumption
    <3>3. QED
      BY <2>1, <3>2
  <2>3. IsRes(cr)'
    BY <2>1, <2>2 DEF ResInv, IsRes
  <2>4. QED
    BY <1>1, <1>6, <2>3 DEF Edit, pass, ResInv, IsRes, ConfInv, RunOK, ConfOK
<1>7. CASE CacheResource
  BY <1>1, <1>7 DEF CacheResource, pass, ResInv, IsRes, ConfInv, RunOK, ConfOK
<1>8. CASE CacheService \/ CreateRef \/ NodeDown
  BY <1>2, <1>8 DEF CacheService, CreateRef, NodeDown, pass, resource
<1>9. QED
  BY <1>4, <1>5, <1>6, <1>7, <1>8

\* A step that applies an object which is wanted.
LEMMA ApplyObjs ==
  ASSUME ResInv, ConfInv, ObjsInv, ~IsObj(NoObj),
         NEW k \in ObjKinds, NEW obj, NEW q, Wanted(k, obj), Apply(k, obj, q)
  PROVE  /\ ResInv' /\ ConfInv' /\ ObjsInv' /\ ObjsStay
         /\ objs'[k] = objs[k] \/ SamePorts(objs'[k].ports, obj.ports)
         /\ \A j \in ObjKinds : j # k => objs'[j] = objs[j]
<1>1. PICK now : now = objs[k]
  OBVIOUS
<1>2. PICK read : read = IF k = "listeners" THEN seen ELSE objs[k]
  OBVIOUS
<1>3. PICK res : res = CreateOrUpdate(now, read, obj)
  OBVIOUS
<1>4. /\ objs' = [objs EXCEPT ![k] = res.obj]
      /\ UNCHANGED <<cr, cache, live, confMap>>
      /\ \/ EndPass \/ Goto(q)
         \/ /\ UNCHANGED <<mem, base>>
            /\ run' = [run EXCEPT !.got = NoPorts]
  BY <1>1, <1>2, <1>3 DEF Apply, resource, cluster
<1>5. ResInv' /\ ConfInv'
  <2>1. CASE EndPass
    BY <1>4, <2>1, EndPassOK DEF ResInv, ConfInv, ConfOK, IsRes
  <2>2. CASE Goto(q)
    BY <1>4, <2>2 DEF Goto, ResInv, ConfInv, ConfOK, IsRes, RunOK
  <2>3. CASE UNCHANGED <<mem, base>> /\ run' = [run EXCEPT !.got = NoPorts]
    <3>1. Plain(NoPorts.dashboard) /\ Plain(NoPorts.listeners)
      BY NoPortsPlain DEF NoPorts
    <3>2. RunOK(run)'
      BY <2>3, <3>1 DEF ConfInv, RunOK
    <3>3. QED
      BY <1>4, <2>3, <3>2 DEF ResInv, IsRes, ConfInv, ConfOK
  <2>4. QED
    BY <1>4, <2>1, <2>2, <2>3
<1>6. /\ res.obj = NoObj \/ Fine(k, res.obj)
      /\ res.obj = now \/ SamePorts(res.obj.ports, obj.ports)
      /\ now # NoObj =>
           /\ res.obj # NoObj /\ now.ann \subseteq res.obj.ann
           /\ \A i \in DOMAIN now.ports, j \in DOMAIN res.obj.ports :
                 now.ports[i].name = res.obj.ports[j].name
                   => now.ports[i].node = res.obj.ports[j].node
  <2>1. now = NoObj \/ Fine(k, now)
    BY <1>1 DEF ObjsInv
  <2>2. QED
    BY <1>3, <2>1, CreateOrUpdateDoes
<1>7. /\ objs' = [j \in ObjKinds |-> objs'[j]] /\ objs'[k] = res.obj
      /\ \A j \in ObjKinds : j # k => objs'[j] = objs[j]
  BY <1>4 DEF ObjsInv
<1>8. ObjsInv'
  BY <1>6, <1>7 DEF ObjsInv
<1>9. ASSUME NEW n \in ObjKinds, objs[n] # NoObj
      PROVE  /\ objs'[n] # NoObj /\ objs[n].ann \subseteq objs'[n].ann
             /\ \A i \in DOMAIN objs[n].ports, j \in DOMAIN objs'[n].ports :
                   objs[n].ports[i].name = objs'[n].ports[j].name
                     => objs[n].ports[i].node = objs'[n].ports[j].node
  <2>1. CASE n = k
    BY <1>1, <1>6, <1>7, <1>9, <2>1
  <2>2. CASE n # k
    <3>1. objs'[n] = objs[n] /\ Fine(n, objs[n])
      BY <1>7, <1>9, <2>2 DEF ObjsInv
    <3>2. QED
      BY <1>9, <3>1 DEF Fine
  <2>3. QED
    BY <2>1, <2>2
<1>10. QED
  BY <1>1, <1>5, <1>6, <1>7, <1>8, <1>9 DEF ObjsStay

LEMMA AnnotateObjs ==
  ASSUME ResInv, ConfInv, ObjsInv, ~IsObj(NoObj), Annotate
  PROVE  ResInv' /\ ConfInv' /\ ObjsInv' /\ ObjsStay
<1>1. UNCHANGED <<cr, cache, mem, base, run, live, confMap>>
  BY DEF Annotate, cluster, pass
<1>2. PICK o : o = objs["listeners"]
  OBVIOUS
<1>3. PICK a : a = [o EXCEPT !.ann = @ \cup {"user"}]
  OBVIOUS
<1>4. Fine("listeners", o)
  BY <1>2 DEF Annotate, ObjsInv, ObjKinds
<1>5. /\ objs' = [j \in ObjKinds |-> objs'[j]] /\ objs'["listeners"] = a
      /\ \A j \in ObjKinds : j # "listeners" => objs'[j] = objs[j]
  BY <1>2, <1>3 DEF Annotate, ObjsInv, ObjKinds
<1>6. IsObj(a) /\ a.ports = o.ports /\ o.ann \subseteq a.ann
  BY <1>3, <1>4 DEF Fine, IsObj
<1>7. Fine("listeners", a) /\ a # NoObj
  BY <1>4, <1>6 DEF Fine, Formed
<1>8. ObjsInv'
  BY <1>5, <1>7 DEF ObjsInv
<1>9. ASSUME NEW n \in ObjKinds, objs[n] # NoObj
      PROVE  /\ objs'[n] # NoObj /\ objs[n].ann \subseteq objs'[n].ann
             /\ \A i \in DOMAIN objs[n].ports, j \in DOMAIN objs'[n].ports :
                   objs[n].ports[i].name = objs'[n].ports[j].name
                     => objs[n].ports[i].node = objs'[n].ports[j].node
  <2>1. Fine(n, objs[n])
    BY <1>9 DEF ObjsInv
  <2>2. /\ objs'[n] # NoObj /\ objs'[n].ports = objs[n].ports
        /\ objs[n].ann \subseteq objs'[n].ann
    BY <1>2, <1>5, <1>6, <1>7, <1>9
  <2>3. QED
    BY <2>1, <2>2 DEF Fine
<1>10. QED
  BY <1>1, <1>8, <1>9 DEF ObjsStay, ResInv, IsRes, ConfInv, RunOK, ConfOK

LEMMA ServiceObjs ==
  ASSUME ResInv, ConfInv, ObjsInv, ~IsObj(NoObj), addHeadlessSvc \/ addPdb \/ addSvc
  PROVE  ResInv' /\ ConfInv' /\ ObjsInv' /\ ObjsStay
<1>1. CASE addHeadlessSvc
  <2>1. PICK o : o = generateHeadlessService
    OBVIOUS
  <2>2. Wanted("headless", o) /\ Apply("headless", o, "core")
    BY <1>1, <2>1, HeadlessWanted DEF addHeadlessSvc
  <2>3. QED
    BY <2>2, ApplyObjs DEF ObjKinds
<1>2. CASE addPdb
  <2>1. PICK k \in {"pdb", "replPdb"} : \E q : Apply(k, generatePodDisruptionBudget(k), q)
    BY <1>2 DEF addPdb
  <2>2. PICK q : Apply(k, generatePodDisruptionBudget(k), q)
    BY <2>1
  <2>3. PICK o : o = generatePodDisruptionBudget(k)
    OBVIOUS
  <2>4. Wanted(k, o) /\ Apply(k, o, q) /\ k \in ObjKinds
    BY <2>1, <2>2, <2>3, BudgetWanted DEF ObjKinds
  <2>5. QED
    BY <2>4, ApplyObjs
<1>3. CASE addSvc
  <2>1. PICK k \in {"dashboard", "listeners"} :
          \E obj \in {IF k = "dashboard"
                      THEN generateDashboardService(run.got.dashboard)
                      ELSE generateListenerService(mem, run.got.listeners)} :
            LET next == IF k = "dashboard" THEN "listeners" ELSE "status2"
            IN  IF obj # NoObj THEN Apply(k, obj, next)
                ELSE /\ Goto(next)
                     /\ UNCHANGED <<resource, objs, seen, secret, refOK, confMap,
                                    cluster, faults>>
    BY <1>3 DEF addSvc
  <2>2. PICK obj : /\ obj = IF k = "dashboard"
                            THEN generateDashboardService(run.got.dashboard)
                            ELSE generateListenerService(mem, run.got.listeners)
                   /\ LET next == IF k = "dashboard" THEN "listeners" ELSE "status2"
                      IN  IF obj # NoObj THEN Apply(k, obj, next)
                          ELSE /\ Goto(next)
                               /\ UNCHANGED <<resource, objs, seen, secret, refOK,
                                              confMap, cluster, faults>>
    BY <2>1
  <2>3. PICK q : q = IF k = "dashboard" THEN "listeners" ELSE "status2"
    OBVIOUS
  <2>4. CASE obj = NoObj
    <3>1. UNCHANGED <<cr, cache, objs, live, confMap, mem, base, run>>
      BY <2>2, <2>4 DEF Goto, resource, cluster
    <3>2. QED
      BY <3>1, SameObjs DEF ResInv, IsRes, ConfInv, RunOK, ConfOK
  <2>5. CASE obj # NoObj
    <3>1. Apply(k, obj, q) /\ k \in ObjKinds
      BY <2>2, <2>3, <2>5 DEF ObjKinds
    <3>2. PICK d, l : d = run.got.dashboard /\ l = run.got.listeners
      OBVIOUS
    <3>3. Plain(d) /\ Plain(l) /\ mem.spec \in Specs
      BY <3>2 DEF ConfInv, RunOK, ResInv, IsRes
    <3>4. CASE k = "dashboard"
      BY <2>2, <2>5, <3>2, <3>3, <3>4, DashboardWanted, <3>1, ApplyObjs
    <3>5. CASE k = "listeners"
      <4>1. obj = generateListenerService(mem, l)
        BY <2>2, <3>2, <3>5
      <4>2. Wanted(k, obj)
        BY <2>5, <3>3, <3>5, <4>1, ListenersWanted
      <4>3. QED
        BY <3>1, <4>2, ApplyObjs
    <3>6. QED
      BY <3>4, <3>5
  <2>6. QED
    BY <2>4, <2>5
<1>4. QED
  BY <1>1, <1>2, <1>3

LEMMA NextObjs ==
  ASSUME ResInv, ConfInv, ObjsInv, ~IsObj(NoObj), [Next]_vars
  PROVE  ResInv' /\ ConfInv' /\ ObjsInv' /\ ObjsStay
<1>1. CASE ResInv' /\ ConfInv' /\ objs' = objs
  BY <1>1, SameObjs
<1>2. CASE UNCHANGED vars
  <2>1. ResInv' /\ ConfInv' /\ objs' = objs
    BY <1>2 DEF vars, ResInv, IsRes, ConfInv, RunOK, ConfOK
  <2>2. QED
    BY <1>1, <2>1
<1>3. CASE Next
  BY <1>1, <1>3, StatusObjs, SetObjs, AnnotationObjs, ConfigObjs, OtherObjs,
     AnnotateObjs, ServiceObjs DEF Next, PassStep
<1>4. QED
  BY <1>2, <1>3

\* Other node ports make no difference.
LEMMA BuiltSame ==
  ASSUME NEW l, NEW m, NEW user, NEW got, BuiltFrom(l, user, got), SamePorts(m, l)
  PROVE  BuiltFrom(m, user, got)
<1>1. \A i, j \in DOMAIN m : i # j => ~SameNameOrPort(m[i], m[j])
  BY DEF BuiltFrom, SamePorts, SameNameOrPort
<1>2. QED
  BY <1>1 DEF BuiltFrom, SamePorts

\* What a step does to the ports of the listeners Service.
ServiceStep ==
    \/ objs'["listeners"] = NoObj
    \/ /\ objs["listeners"] # NoObj
       /\ objs'["listeners"].ports = objs["listeners"].ports
    \/ BuiltFrom(objs'["listeners"].ports, mem.spec.tpl.ports,
                 IF run.got.listeners = <<>> THEN DefaultListenerPorts
                                             ELSE run.got.listeners)

LEMMA SvcBuilt ==
  ASSUME ResInv, ConfInv, ObjsInv, ~IsObj(NoObj), addSvc
  PROVE  ServiceStep
<1>1. PICK k, obj :
        /\ k \in {"dashboard", "listeners"}
        /\ obj = IF k = "dashboard" THEN generateDashboardService(run.got.dashboard)
                 ELSE generateListenerService(mem, run.got.listeners)
        /\ \/ obj = NoObj /\ objs' = objs
           \/ obj # NoObj /\ \E q : Apply(k, obj, q)
  BY DEF addSvc
<1>2. PICK d, l, t : /\ d = run.got.dashboard /\ l = run.got.listeners
                     /\ t = mem.spec.tpl.ports
  OBVIOUS
<1>3. Plain(d) /\ Plain(l) /\ mem.spec \in Specs
  BY <1>2 DEF ConfInv, RunOK, ResInv, IsRes
<1>4. CASE obj = NoObj
  BY <1>1, <1>4 DEF ServiceStep
<1>5. CASE k = "dashboard" /\ obj # NoObj
  <2>1. Wanted(k, obj) /\ k \in ObjKinds
    BY <1>1, <1>2, <1>3, <1>5, DashboardWanted DEF ObjKinds
  <2>2. PICK q : Apply(k, obj, q)
    BY <1>1, <1>5
  <2>3. \A j \in ObjKinds : j # k => objs'[j] = objs[j]
    BY <2>1, <2>2, ApplyObjs
  <2>4. objs'["listeners"] = objs["listeners"]
    BY <1>5, <2>3 DEF ObjKinds
  <2>5. QED
    BY <2>4 DEF ServiceStep
<1>6. CASE k = "listeners" /\ obj # NoObj
  <2>1. obj = generateListenerService(mem, l)
    BY <1>1, <1>2, <1>6
  <2>2. PICK g : g = IF l = <<>> THEN DefaultListenerPorts ELSE l
    OBVIOUS
  <2>3. Wanted("listeners", obj) /\ BuiltFrom(obj.ports, t, g)
    BY <1>2, <1>3, <1>6, <2>1, <2>2, ListenersWanted
  <2>4. PICK q : Apply("listeners", obj, q)
    BY <1>1, <1>6
  <2>5. \/ objs'["listeners"] = objs["listeners"]
        \/ SamePorts(objs'["listeners"].ports, obj.ports)
    BY <2>3, <2>4, ApplyObjs DEF ObjKinds
  <2>6. CASE objs'["listeners"] = objs["listeners"]
    BY <2>6 DEF ServiceStep
  <2>7. CASE SamePorts(objs'["listeners"].ports, obj.ports)
    <3>1. PICK m : m = objs'["listeners"].ports
      OBVIOUS
    <3>2. BuiltFrom(m, t, g)
      BY <2>3, <2>7, <3>1, BuiltSame
    <3>3. QED
      BY <1>2, <2>2, <3>1, <3>2 DEF ServiceStep
  <2>8. QED
    BY <2>5, <2>6, <2>7
<1>7. QED
  BY <1>1, <1>4, <1>5, <1>6

LEMMA NextBuilt ==
  ASSUME ResInv, ConfInv, ObjsInv, ~IsObj(NoObj), [Next]_vars
  PROVE  ServiceStep
<1>1. CASE objs'["listeners"] = objs["listeners"]
  BY <1>1 DEF ServiceStep
<1>2. CASE UNCHANGED vars
  BY <1>1, <1>2 DEF vars
<1>3. CASE Annotate
  <2>1. PICK o : o = objs["listeners"]
    OBVIOUS
  <2>2. Fine("listeners", o) /\ o # NoObj
    BY <1>3, <2>1 DEF Annotate, ObjsInv, ObjKinds
  <2>3. objs'["listeners"] = [o EXCEPT !.ann = @ \cup {"user"}]
    BY <1>3, <2>1 DEF Annotate, ObjsInv, ObjKinds
  <2>4. objs'["listeners"].ports = o.ports
    BY <2>2, <2>3 DEF Fine, IsObj
  <2>5. QED
    BY <2>1, <2>2, <2>4 DEF ServiceStep
<1>4. CASE addHeadlessSvc \/ addPdb
  <2>1. PICK k, obj, q : k \in {"headless", "pdb", "replPdb"} /\ Apply(k, obj, q)
    BY <1>4 DEF addHeadlessSvc, addPdb
  <2>2. PICK x : objs' = [objs EXCEPT ![k] = x]
    BY <2>1 DEF Apply
  <2>3. objs'["listeners"] = objs["listeners"]
    BY <2>1, <2>2 DEF ObjsInv, ObjKinds
  <2>4. QED
    BY <1>1, <2>3
<1>5. CASE Next
  BY <1>1, <1>3, <1>4, <1>5, SvcBuilt, StatusObjs, SetObjs, AnnotationObjs,
     ConfigObjs, OtherObjs DEF Next, PassStep
<1>6. QED
  BY <1>2, <1>5

\* Whenever the ports of the listeners Service change, the new ones are those of
\* the template that the pass has in hand, all of them, and of the ports read
\* those that repeat no name and no number: whatever the configuration of the
\* cluster and whatever the operator has read late.
THEOREM ServiceFormed == ASSUME ~IsObj(NoObj) PROVE Spec => ServiceWellFormed
<1>1. ServiceStep =>
        \/ objs'["listeners"] = NoObj
        \/ /\ objs["listeners"] # NoObj
           /\ objs'["listeners"].ports = objs["listeners"].ports
        \/ BuiltFrom(objs'["listeners"].ports, mem.spec.tpl.ports,
                     IF run.got.listeners = <<>> THEN DefaultListenerPorts
                                                 ELSE run.got.listeners)
  BY DEF ServiceStep
<1>2. QED
  BY <1>1, InitObjs, NextObjs, NextBuilt, PTL DEF Spec, ServiceWellFormed

\* No write of the operator takes away an annotation of somebody else.
THEOREM AnnotationsKept == ASSUME ~IsObj(NoObj) PROVE Spec => ForeignAnnotationsKept
<1>1. ObjsStay => \A k \in ObjKinds : objs[k] # NoObj =>
                     objs'[k] # NoObj /\ objs[k].ann \subseteq objs'[k].ann
  BY DEF ObjsStay
<1>2. QED
  BY <1>1, InitObjs, NextObjs, PTL DEF Spec, ForeignAnnotationsKept

\* A port of a Service keeps its node port for as long as it is in the list.
THEOREM NodePortsKept == ASSUME ~IsObj(NoObj) PROVE Spec => NodePortsStay
<1>1. ObjsStay => \A k \in ObjKinds : objs[k] # NoObj =>
        \A i \in DOMAIN objs[k].ports, j \in DOMAIN objs'[k].ports :
            objs[k].ports[i].name = objs'[k].ports[j].name
                => objs[k].ports[i].node = objs'[k].ports[j].node
  BY DEF ObjsStay
<1>2. QED
  BY <1>1, InitObjs, NextObjs, PTL DEF Spec, NodePortsStay

-----------------------------------------------------------------------------
(* The annotation.                                                         *)

\* What users do to the configuration of the spec, at a step: they leave it as
\* it is until the annotation exists, and bring none back that the annotation
\* still names.
Orderly ==
    cr'.spec.conf # cr.spec.conf => cr.last # None /\ cr'.spec.conf # cr.last

\* No core node boots the cluster with another configuration between the PUT and
\* the update of the ConfigMap; none ever does when they keep their data.
BootsApart ==
    Persistent \/ pc # "map" \/ Up(Cores) # {} \/ live' = live

\* Nobody sets a path in the dashboard that a spec sets.
DashboardApart ==
    \A c \in Confs : DOMAIN DashboardConf \cap DOMAIN mergeDefaultConfig(c) = {}

\* A version r of the resource c: the first one until it has an annotation.
Version(r, c) ==
    /\ r.last = None => r.spec.conf = InitSpec.conf
    /\ r.last \in Confs \cup {None}
    /\ c.last = None => r.last = None

VersionsInv ==
    Version(cr, cr) /\ Version(cache, cr) /\ Version(mem, cr) /\ base = mem

\* A pass that talks to the cluster has written the status at its start, so
\* until it writes the annotation its copy of that is the stored one.  When it
\* has another configuration in hand than the annotation's, so has the spec.
AfterStatus == {"headless", "core", "repl", "pdb", "replPdb", "config", "map", "annotate"}
FreshInv ==
    pc \in AfterStatus /\ run.req = "ok" =>
        /\ cr.last = mem.last
        /\ mem.last # None /\ mem.last # mem.spec.conf => cr.last # cr.spec.conf

TcpDefault == <<"listeners", "tcp", "default">>

MapBoot ==
    /\ confMap = None => cr.last = None
    /\ confMap # None => TcpDefault \in DOMAIN confMap

\* What the annotation says of the ConfigMap is true, or will be when it is
\* first written.
Claimed == confMap # None /\ (cr.last = None \/ cr.last = cr.spec.conf)
MapTrue == Claimed => Mounted(cr.spec.conf)

\* A pass between the PUT and the annotation.
MapSync ==
    pc \in {"map", "annotate"} =>
        /\ run.req = "ok" /\ mem.last # None /\ mem.last # mem.spec.conf
        /\ pc = "map" => run.put = confStr(mem.spec.conf)
        /\ pc = "annotate" => confMap = confStr(mem.spec.conf)

MapInv == VersionsInv /\ FreshInv /\ MapBoot /\ MapTrue /\ MapSync

\* The cluster has no configuration before the ConfigMap exists, and nodes
\* that run have one; what the annotation says of it is true; and from the PUT
\* on it is the one that the pass has put.
LiveInv ==
    /\ confMap = None => live = <<>>
    /\ Up(Cores) # {} => live # <<>>
    /\ Claimed /\ live # <<>> => Running(cr.spec.conf)
    /\ pc \in {"map", "annotate"} => live # <<>> /\ Running(mem.spec.conf)

\* A step keeps the truth about the ConfigMap, and that about the cluster.
Truthful == MapInv' /\ (LiveInv => LiveInv')

\* Two versions that differ in the status or the Service template only.
Alike(r, s) == r.spec.conf = s.spec.conf /\ r.last = s.last

LEMMA MergedConf ==
  ASSUME NEW s \in Specs
  PROVE  /\ s.conf \in Confs /\ s.conf # None
         /\ \A m \in {mergeDefaultConfig(s.conf), confStr(s.conf)} :
               /\ m # None /\ TcpDefault \in DOMAIN m
               /\ WithoutReadOnly(m) = WithoutReadOnly(mergeDefaultConfig(s.conf))
         /\ TcpDefault \in DOMAIN WithoutReadOnly(mergeDefaultConfig(s.conf))
<1>1. s.conf \in Confs
  BY DEF Confs
<1>2. /\ s.conf # None /\ mergeDefaultConfig(s.conf) # None /\ confStr(s.conf) # None
  BY <1>1, NoneAssumption
<1>3. TcpDefault \in DOMAIN mergeDefaultConfig(s.conf)
  BY DefaultListenersDomain DEF mergeDefaultConfig, @@, TcpDefault
<1>4. TcpDefault[1] \notin ReadOnlyRoots
  BY DEF TcpDefault, ReadOnlyRoots
<1>5. PICK m : m = mergeDefaultConfig(s.conf)
  OBVIOUS
<1>6. TcpDefault \in DOMAIN WithoutReadOnly(m)
  BY <1>3, <1>4, <1>5 DEF WithoutReadOnly
<1>7. WithoutReadOnly(WithoutReadOnly(m)) = WithoutReadOnly(m)
  BY DEF WithoutReadOnly
<1>8. confStr(s.conf) = m \/ confStr(s.conf) = WithoutReadOnly(m)
  BY <1>5 DEF confStr
<1>9. QED
  BY <1>1, <1>2, <1>3, <1>5, <1>6, <1>7, <1>8

LEMMA InitTruth ==
  ASSUME Init
  PROVE  MapInv /\ LiveInv
<1>1. VersionsInv
  BY DEF Init, VersionsInv, Version, NewResource
<1>2. FreshInv /\ MapSync
  BY DEF Init, FreshInv, AfterStatus, MapSync
<1>3. MapBoot /\ MapTrue
  BY DEF Init, MapBoot, MapTrue, Claimed, NewResource
<1>4. LiveInv
  BY PodsAssumption DEF Init, LiveInv, Claimed, Up, Pods
<1>5. QED
  BY <1>1, <1>2, <1>3, <1>4 DEF MapInv

\* A step that changes neither the resource's configuration or annotation nor
\* those of the cluster and the ConfigMap, and does not go on with a sync.
LEMMA Settled ==
  ASSUME MapInv, Alike(cr', cr), cache' = cache \/ cache' = cr',
         \/ Alike(mem', NewResource) \/ Alike(mem', mem)
         \/ Alike(mem', cache) \/ Alike(mem', cr),
         base' = mem', UNCHANGED <<confMap, live, node>>, FreshInv',
         \/ pc' \notin {"map", "annotate"}
         \/ pc' = pc /\ run' = run /\ Alike(mem', mem)
  PROVE  Truthful
<1>1. VersionsInv'
  <2>1. Version(NewResource, cr)
    BY DEF Version, NewResource
  <2>2. Version(mem', cr') /\ Version(cache', cr') /\ Version(cr', cr')
    BY <2>1 DEF MapInv, VersionsInv, Version, Alike
  <2>3. QED
    BY <2>2 DEF VersionsInv, Version
<1>2. MapBoot'
  BY DEF MapInv, MapBoot, Alike
<1>3. Claimed' <=> Claimed
  BY DEF Claimed, Alike
<1>4. MapTrue'
  BY <1>3 DEF MapInv, MapTrue, Mounted, Alike
<1>5. MapSync'
  <2>1. CASE pc' \notin {"map", "annotate"}
    BY <2>1 DEF MapSync
  <2>2. CASE pc' = pc /\ run' = run /\ Alike(mem', mem)
    BY <2>2 DEF MapInv, MapSync, Alike
  <2>3. QED
    BY <2>1, <2>2
<1>6. ASSUME LiveInv PROVE LiveInv'
  <2>1. Claimed' /\ live' # <<>> => Running(cr.spec.conf)'
    BY <1>3, <1>6 DEF LiveInv, Running, Alike
  <2>2. pc' \in {"map", "annotate"} => live' # <<>> /\ Running(mem.spec.conf)'
    BY <1>6 DEF LiveInv, Running, Alike
  <2>3. QED
    BY <1>6, <2>1, <2>2 DEF LiveInv, Up
<1>7. QED
  BY <1>1, <1>2, <1>4, <1>5, <1>6 DEF MapInv, Truthful

LEMMA EndsTruthful ==
  ASSUME MapInv, EndPass, Alike(cr', cr), cache' = cache,
         UNCHANGED <<confMap, live, node>>
  PROVE  Truthful
<1>1. FreshInv' /\ pc' \notin {"map", "annotate"}
  BY DEF EndPass, FreshInv, AfterStatus
<1>2. QED
  BY <1>1, Settled DEF EndPass, Alike

LEMMA GoesTruthful ==
  ASSUME MapInv, NEW q, pc' = q, UNCHANGED <<mem, base>>, run'.req = run.req,
         UNCHANGED <<cr, cache, confMap, live, node>>, q \notin {"map", "annotate"},
         q \in AfterStatus => pc \in AfterStatus \/ run.req = "nil"
  PROVE  Truthful
<1>1. FreshInv'
  BY DEF MapInv, FreshInv
<1>2. base' = mem'
  BY DEF MapInv, VersionsInv
<1>3. QED
  BY <1>1, <1>2, Settled DEF Alike

\* Nothing of the pass changes.
LEMMA AroundTruthful ==
  ASSUME MapInv, UNCHANGED <<pc, mem, base, run, cr, confMap, live, node>>,
         cache' = cache \/ cache' = cr
  PROVE  Truthful
<1>1. FreshInv'
  BY DEF MapInv, FreshInv
<1>2. base' = mem'
  BY DEF MapInv, VersionsInv
<1>3. QED
  BY <1>1, <1>2, Settled DEF Alike

LEMMA StatusTruthful ==
  ASSUME MapInv, ResInv, RunOK(run),
         updateStatus("status", "headless") \/ updateStatus("status2", "idle")
  PROVE  Truthful
<1>1. UNCHANGED <<confMap, live, node>>
  BY DEF updateStatus, cluster
<1>2. CASE /\ run.req = "nil" /\ UNCHANGED resource
           /\ EndPass \/ Goto("headless")
  <2>1. CASE EndPass
    BY <1>1, <1>2, <2>1, EndsTruthful DEF resource, Alike
  <2>2. CASE Goto("headless")
    BY <1>1, <1>2, <2>2, GoesTruthful DEF resource, Goto
  <2>3. QED
    BY <1>2, <2>1, <2>2
<1>3. ASSUME NEW i, Alike(i, mem),
             \/ Write(i, "headless")
             \/ EndPass /\ cr' = (IF cr = base THEN i ELSE cr) /\ cache' = cache
      PROVE  Truthful
  <2>1. base = mem
    BY DEF MapInv, VersionsInv
  <2>2. CASE EndPass /\ cr' = (IF cr = base THEN i ELSE cr) /\ cache' = cache
    BY <1>1, <1>3, <2>1, <2>2, EndsTruthful DEF Alike
  <2>3. CASE EndPass /\ UNCHANGED resource
    BY <1>1, <2>3, EndsTruthful DEF Alike, resource
  <2>4. CASE /\ cr = base /\ cr' = i /\ mem' = i /\ base' = i /\ pc' = "headless"
             /\ UNCHANGED <<cache, changes>>
    <3>1. FreshInv'
      BY <2>4 DEF FreshInv
    <3>2. Alike(cr', cr) /\ Alike(mem', mem) /\ base' = mem'
      BY <1>3, <2>1, <2>4 DEF Alike
    <3>3. QED
      BY <1>1, <2>4, <3>1, <3>2, Settled
  <2>5. QED
    BY <1>3, <2>2, <2>3, <2>4 DEF Write
<1>4. ASSUME NEW ok \in BOOLEAN, NEW q,
             LET i == [mem EXCEPT !.conds = NextStatus(@, Observed(ok)),
                                  !.nodes = ok,
                                  !.repl = ok /\ Up(Repls) # {}]
             IN  \/ q # "idle" /\ Write(i, q)
                 \/ /\ q = "idle" /\ EndPass
                    /\ cr' = IF cr = base THEN i ELSE cr
                    /\ UNCHANGED <<cache, changes>>,
             q \in {"headless", "idle"}
      PROVE  Truthful
  <2>1. PICK i : i = [mem EXCEPT !.conds = NextStatus(@, Observed(ok)), !.nodes = ok,
                                 !.repl = ok /\ Up(Repls) # {}]
    OBVIOUS
  <2>2. Alike(i, mem)
    <3>1. PICK c, d : i = [mem EXCEPT !.conds = c, !.nodes = ok, !.repl = d]
      BY <2>1
    <3>2. QED
      BY <3>1 DEF ResInv, IsRes, Alike
  <2>3. \/ Write(i, "headless")
        \/ EndPass /\ cr' = (IF cr = base THEN i ELSE cr) /\ cache' = cache
    BY <1>4, <2>1
  <2>4. QED
    BY <1>3, <2>2, <2>3
<1>5. QED
  BY <1>2, <1>4 DEF updateStatus

LEMMA ApplyTruthful ==
  ASSUME MapInv, RunOK(run), NEW k, NEW obj, NEW q, Apply(k, obj, q),
         q \notin {"map", "annotate"}, q \in AfterStatus => pc \in AfterStatus
  PROVE  Truthful
<1>1. UNCHANGED <<cr, cache, confMap, live, node>>
  BY DEF Apply, resource, cluster
<1>2. CASE EndPass
  BY <1>1, <1>2, EndsTruthful DEF Alike
<1>3. CASE pc' = q /\ UNCHANGED <<mem, base>> /\ run'.req = run.req
  BY <1>1, <1>3, GoesTruthful
<1>4. \/ EndPass
      \/ Goto(q)
      \/ pc' = q /\ run' = [run EXCEPT !.got = NoPorts] /\ UNCHANGED <<mem, base>>
  BY DEF Apply
<1>5. QED
  BY <1>2, <1>3, <1>4 DEF Goto, RunOK

LEMMA OwnedTruthful ==
  ASSUME MapInv, RunOK(run), addHeadlessSvc \/ addPdb \/ addSvc
  PROVE  Truthful
<1>1. CASE addHeadlessSvc
  BY <1>1, ApplyTruthful DEF addHeadlessSvc, AfterStatus
<1>2. CASE addPdb
  <2>1. PICK k, q : /\ Apply(k, generatePodDisruptionBudget(k), q)
                    /\ pc \in AfterStatus /\ q \in {"replPdb", "config"}
    BY <1>2 DEF addPdb, AfterStatus
  <2>2. PICK o : Apply(k, o, q)
    BY <2>1
  <2>3. QED
    BY <2>1, <2>2, ApplyTruthful
<1>3. CASE addSvc
  <2>1. PICK k, obj :
          LET next == IF k = "dashboard" THEN "listeners" ELSE "status2"
          IN  IF obj # NoObj THEN Apply(k, obj, next)
              ELSE /\ Goto(next)
                   /\ UNCHANGED <<resource, objs, seen, secret, refOK, confMap,
                                  cluster, faults>>
    BY <1>3 DEF addSvc
  <2>2. PICK q : q = IF k = "dashboard" THEN "listeners" ELSE "status2"
    OBVIOUS
  <2>3. q \notin {"map", "annotate"} /\ q \notin AfterStatus
    BY <2>2 DEF AfterStatus
  <2>4. CASE Apply(k, obj, q)
    BY <2>3, <2>4, ApplyTruthful
  <2>5. CASE Goto(q) /\ UNCHANGED <<resource, confMap, cluster>>
    BY <2>3, <2>5, GoesTruthful DEF Goto, resource, cluster
  <2>6. QED
    BY <2>1, <2>2, <2>4, <2>5
<1>4. QED
  BY <1>1, <1>2, <1>3

LEMMA SetTruthful ==
  ASSUME MapInv, ResInv, addCore \/ addRepl
  PROVE  Truthful
<1>1. /\ UNCHANGED <<cache, confMap, live, node, run>> /\ pc \in AfterStatus
      /\ pc' \notin {"map", "annotate"}
  BY DEF addCore, addRepl, AfterStatus
<1>2. CASE UNCHANGED <<cr, mem, base>>
  <2>1. PICK q : pc' = q
    OBVIOUS
  <2>2. QED
    BY <1>1, <1>2, <2>1, GoesTruthful
<1>3. ASSUME NEW s, NEW d, NEW c, NewSet(s, d, c)
      PROVE  Truthful
  <2>1. PICK x : cr' = [cr EXCEPT !.conds = x] /\ mem' = cr' /\ base' = cr'
    BY <1>3 DEF NewSet
  <2>2. Alike(cr', cr) /\ Alike(mem', cr) /\ base' = mem' /\ FreshInv'
    BY <2>1 DEF ResInv, IsRes, Alike, FreshInv
  <2>3. QED
    BY <1>1, <2>2, Settled
<1>4. QED
  BY <1>2, <1>3 DEF addCore, addRepl

LEMMA ReadsTruthful ==
  ASSUME MapInv, RunOK(run),
         Begin \/ addCookie \/ addAPIKey \/ nothingToSync \/ syncFails
         \/ getEMQXConfigsByAPI \/ PassDies
  PROVE  Truthful
<1>1. UNCHANGED <<cr, cache, confMap, live, node>>
  BY DEF Begin, addCookie, addAPIKey, nothingToSync, syncFails,
         getEMQXConfigsByAPI, PassDies, resource, cluster
<1>2. CASE EndPass
  BY <1>1, <1>2, EndsTruthful DEF Alike
<1>3. CASE Begin
  <2>1. pc' = "cookie" /\ mem' = cache /\ base' = cache
    BY <1>3 DEF Begin
  <2>2. FreshInv'
    BY <2>1 DEF FreshInv, AfterStatus
  <2>3. QED
    BY <1>1, <2>1, <2>2, Settled DEF Alike
<1>4. ASSUME NEW q, q \notin AfterStatus, pc' = q, UNCHANGED <<mem, base>>,
             run'.req = run.req
      PROVE  Truthful
  BY <1>1, <1>4, GoesTruthful DEF AfterStatus
<1>5. CASE addCookie \/ addAPIKey \/ nothingToSync
  <2>1. EndPass \/ \E q \in {"key", "status", "svc"} : Goto(q)
    BY <1>5 DEF addCookie, addAPIKey, nothingToSync
  <2>2. QED
    BY <1>2, <1>4, <2>1 DEF Goto, AfterStatus
<1>6. CASE getEMQXConfigsByAPI
  <2>1. \/ EndPass \/ Goto("status2")
        \/ /\ pc' = "dashboard" /\ UNCHANGED <<mem, base>>
           /\ run' = [run EXCEPT !.got = PortsOf(live)]
    BY <1>6 DEF getEMQXConfigsByAPI
  <2>2. CASE Goto("status2")
    BY <1>4, <2>2 DEF Goto, AfterStatus
  <2>3. CASE /\ pc' = "dashboard" /\ UNCHANGED <<mem, base>>
             /\ run' = [run EXCEPT !.got = PortsOf(live)]
    <3>1. run'.req = run.req
      BY <2>3 DEF RunOK
    <3>2. QED
      BY <1>4, <2>3, <3>1 DEF AfterStatus
  <2>4. QED
    BY <1>2, <2>1, <2>2, <2>3
<1>7. QED
  BY <1>2, <1>3, <1>5, <1>6 DEF syncFails, PassDies

\* A ConfigMap is created while the configuration is the first one.
LEMMA CreateTruthful ==
  ASSUME MapInv, ResInv, createConfigMap
  PROVE  Truthful
<1>1. /\ confMap = None /\ confMap' = mergeDefaultConfig(mem.spec.conf)
      /\ pc' = "svc" /\ UNCHANGED <<cr, cache, mem, base, run, live, node>>
  BY DEF createConfigMap, Goto, resource, cluster
<1>2. cr.last = None /\ mem.spec.conf = cr.spec.conf
  BY <1>1 DEF MapInv, MapBoot, VersionsInv, Version
<1>3. confMap' # None /\ TcpDefault \in DOMAIN confMap'
  BY <1>1, MergedConf DEF ResInv, IsRes
<1>4. VersionsInv'
  BY <1>1 DEF MapInv, VersionsInv, Version
<1>5. FreshInv' /\ MapSync'
  BY <1>1 DEF FreshInv, MapSync, AfterStatus
<1>6. MapBoot' /\ MapTrue'
  BY <1>1, <1>2, <1>3 DEF MapBoot, MapTrue, Mounted
<1>7. LiveInv => LiveInv'
  BY <1>1, <1>3 DEF LiveInv, Up
<1>8. QED
  BY <1>4, <1>5, <1>6, <1>7 DEF MapInv, Truthful

\* The annotation is set to the spec's configuration, which is in force.
LEMMA AnnotationTruthful ==
  ASSUME MapInv, ResInv, firstAnnotation \/ updateAnnotation
  PROVE  Truthful
<1>1. UNCHANGED <<confMap, live, node>>
  BY DEF firstAnnotation, updateAnnotation, cluster
<1>2. PICK i : i = [mem EXCEPT !.last = mem.spec.conf]
  OBVIOUS
<1>3. Write(i, "svc")
  BY <1>2 DEF firstAnnotation, updateAnnotation
<1>4. CASE EndPass /\ UNCHANGED resource
  BY <1>1, <1>4, EndsTruthful DEF Alike, resource
<1>5. CASE /\ cr = base /\ cr' = i /\ mem' = i /\ base' = i /\ pc' = "svc"
           /\ UNCHANGED <<cache, changes>>
  <2>1. cr = mem
    BY <1>5 DEF MapInv, VersionsInv
  <2>2. i.spec = cr.spec /\ i.last = cr.spec.conf
    BY <1>2, <2>1 DEF ResInv, IsRes
  <2>3. cr.spec.conf \in Confs /\ cr.spec.conf # None
    BY MergedConf DEF ResInv, IsRes
  <2>4. VersionsInv'
    BY <1>5, <2>2, <2>3 DEF MapInv, VersionsInv, Version
  <2>5. FreshInv' /\ MapSync'
    BY <1>5 DEF FreshInv, MapSync, AfterStatus
  <2>6. confMap # None /\ Mounted(cr.spec.conf)
    <3>1. CASE firstAnnotation
      BY <2>1, <3>1 DEF firstAnnotation, MapInv, MapTrue, Claimed
    <3>2. CASE updateAnnotation
      <4>1. confMap = confStr(mem.spec.conf)
        BY <3>2 DEF updateAnnotation, MapInv, MapSync
      <4>2. QED
        BY <2>1, <4>1, MergedConf DEF ResInv, IsRes, Mounted
    <3>3. QED
      BY <3>1, <3>2
  <2>7. MapBoot'
    BY <1>1, <2>6 DEF MapInv, MapBoot
  <2>8. MapTrue'
    BY <1>1, <1>5, <2>2, <2>6 DEF MapTrue, Mounted
  <2>9. ASSUME LiveInv PROVE LiveInv'
    <3>1. live # <<>> => Running(cr.spec.conf)
      BY <2>1, <2>6, <2>9
      DEF firstAnnotation, updateAnnotation, LiveInv, Claimed
    <3>2. live' # <<>> => Running(cr.spec.conf)'
      BY <1>1, <1>5, <2>2, <3>1 DEF Running
    <3>3. QED
      BY <1>1, <1>5, <2>6, <2>9, <3>2 DEF LiveInv, Up
  <2>10. QED
    BY <2>4, <2>5, <2>7, <2>8, <2>9 DEF MapInv, Truthful
<1>6. QED
  BY <1>3, <1>4, <1>5 DEF Write

\* A pass that puts a configuration which is not the annotation's: the
\* annotation says of no configuration of the spec that it is in force.
LEMMA PutTruthful ==
  ASSUME MapInv, ResInv, RunOK(run), putEMQXConfigsByAPI
  PROVE  Truthful
<1>1. PICK str : /\ str = confStr(mem.spec.conf)
                 /\ live' = PutConfigs(str) /\ run' = [run EXCEPT !.put = str]
  BY DEF putEMQXConfigsByAPI
<1>2. /\ pc = "config" /\ confMap # None /\ mem.last # None
      /\ mem.last # mem.spec.conf /\ run.req = "ok"
      /\ pc' = "map" /\ UNCHANGED <<mem, base, cr, cache, confMap, node>>
  BY DEF putEMQXConfigsByAPI, Sync, Changed, resource
<1>3. run'.req = run.req /\ run'.put = str
  BY <1>1 DEF RunOK
<1>4. cr.last = mem.last /\ cr.last # None /\ cr.last # cr.spec.conf
  BY <1>2 DEF MapInv, FreshInv, AfterStatus
<1>5. PICK new : new = WithoutReadOnly(str)
  OBVIOUS
<1>6. \A k \in DOMAIN new : k \in DOMAIN live' /\ live'[k] = new[k]
  <2>1. \E rest : live' = new @@ rest
    BY <1>1, <1>5 DEF PutConfigs
  <2>2. QED
    BY <2>1 DEF @@
<1>7. /\ new = WithoutReadOnly(mergeDefaultConfig(mem.spec.conf))
      /\ TcpDefault \in DOMAIN new
  BY <1>1, <1>5, MergedConf DEF ResInv, IsRes
<1>8. live' # <<>>
  <2>1. TcpDefault \in DOMAIN live'
    BY <1>6, <1>7
  <2>2. QED
    BY <2>1
<1>9. VersionsInv' /\ FreshInv'
  BY <1>2, <1>3, <1>4 DEF MapInv, VersionsInv, Version, FreshInv
<1>10. MapBoot' /\ MapTrue'
  BY <1>2, <1>4 DEF MapInv, MapBoot, MapTrue, Claimed
<1>11. MapSync'
  BY <1>1, <1>2, <1>3 DEF MapSync
<1>12. ASSUME LiveInv PROVE LiveInv'
  <2>1. Running(mem.spec.conf)'
    <3>1. PICK c : c = mem.spec.conf /\ c = mem'.spec.conf
      BY <1>2
    <3>2. Running(c)'
      BY <1>6, <1>7, <3>1 DEF Running
    <3>3. QED
      BY <3>1, <3>2 DEF Running
  <2>2. QED
    BY <1>2, <1>4, <1>8, <2>1 DEF LiveInv, Claimed
<1>13. QED
  BY <1>9, <1>10, <1>11, <1>12 DEF MapInv, Truthful

LEMMA MapTruthful ==
  ASSUME MapInv, ResInv, updateConfigMap
  PROVE  Truthful
<1>1. /\ pc = "map" /\ confMap' = run.put /\ pc' = "annotate"
      /\ UNCHANGED <<cr, cache, mem, base, run, live, node>>
  BY DEF updateConfigMap, Goto, resource, cluster
<1>2. /\ run.req = "ok" /\ mem.last # None /\ mem.last # mem.spec.conf
      /\ run.put = confStr(mem.spec.conf)
  BY <1>1 DEF MapInv, MapSync
<1>3. cr.last = mem.last /\ cr.last # None /\ cr.last # cr.spec.conf
  BY <1>1, <1>2 DEF MapInv, FreshInv, AfterStatus
<1>4. confMap' # None /\ TcpDefault \in DOMAIN confMap'
  BY <1>1, <1>2, MergedConf DEF ResInv, IsRes
<1>5. VersionsInv' /\ FreshInv'
  BY <1>1, <1>3 DEF MapInv, VersionsInv, Version, FreshInv
<1>6. MapBoot' /\ MapTrue'
  BY <1>1, <1>3, <1>4 DEF MapBoot, MapTrue, Claimed
<1>7. MapSync'
  BY <1>1, <1>2 DEF MapSync
<1>8. LiveInv => LiveInv'
  BY <1>1, <1>3, <1>4 DEF LiveInv, Claimed, Up, Running
<1>9. QED
  BY <1>5, <1>6, <1>7, <1>8 DEF MapInv, Truthful

\* An edit leaves the configuration, or brings one that the annotation does
\* not name.
LEMMA EditTruthful ==
  ASSUME MapInv, ResInv, Orderly, Edit
  PROVE  Truthful
<1>1. PICK s : cr' = [cr EXCEPT !.spec = s]
  BY DEF Edit
<1>2. UNCHANGED <<cache, pc, mem, base, run, confMap, live, node>>
  BY DEF Edit, pass, cluster
<1>3. cr'.last = cr.last
  BY <1>1 DEF ResInv, IsRes
<1>4. CASE cr'.spec.conf = cr.spec.conf
  <2>1. FreshInv' /\ base' = mem'
    BY <1>2, <1>3, <1>4 DEF MapInv, VersionsInv, FreshInv
  <2>2. QED
    BY <1>2, <1>3, <1>4, <2>1, Settled DEF Alike
<1>5. CASE cr'.spec.conf # cr.spec.conf
  <2>1. cr.last # None /\ cr'.last # cr'.spec.conf
    BY <1>3, <1>5 DEF Orderly
  <2>2. VersionsInv' /\ FreshInv'
    BY <1>2, <1>3, <2>1 DEF MapInv, VersionsInv, Version, FreshInv
  <2>3. ~Claimed'
    BY <1>3, <2>1 DEF Claimed
  <2>4. MapBoot' /\ MapTrue' /\ MapSync'
    BY <1>2, <1>3, <2>3 DEF MapInv, MapBoot, MapTrue, MapSync
  <2>5. LiveInv => LiveInv'
    BY <1>2, <2>3 DEF LiveInv, Running, Up
  <2>6. QED
    BY <2>2, <2>4, <2>5 DEF MapInv, Truthful
<1>6. QED
  BY <1>4, <1>5

\* A step of the cluster leaves the truth about the ConfigMap.
LEMMA ClusterMap ==
  ASSUME MapInv, UNCHANGED <<cr, cache, pc, mem, base, run, confMap>>
  PROVE  MapInv'
<1>1. VersionsInv' /\ FreshInv'
  BY DEF MapInv, VersionsInv, Version, FreshInv
<1>2. MapBoot' /\ MapTrue' /\ MapSync'
  BY DEF MapInv, MapBoot, MapTrue, MapSync, Claimed, Mounted
<1>3. QED
  BY <1>1, <1>2 DEF MapInv

\* The cluster goes on with what it ran before.
LEMMA ClusterLive ==
  ASSUME LiveInv, ResInv, UNCHANGED <<cr, pc, mem, confMap>>,
         Up(Cores)' # {} => live' # <<>>, confMap = None => live' = <<>>,
         \A c \in Confs : live # <<>> /\ Running(c) => live' # <<>> /\ Running(c)',
         live # <<>> \/ live' = <<>>
  PROVE  LiveInv'
<1>1. mem.spec.conf \in Confs /\ cr.spec.conf \in Confs
  BY MergedConf DEF ResInv, IsRes
<1>2. ASSUME NEW c \in Confs, live # <<>> => Running(c), live' # <<>>
      PROVE  Running(c)'
  BY <1>2
<1>3. Claimed' /\ live' # <<>> => Running(cr.spec.conf)'
  <2> SUFFICES ASSUME Claimed', live' # <<>> PROVE Running(cr.spec.conf)'
    OBVIOUS
  <2>1. PICK c : c = cr.spec.conf /\ c = cr'.spec.conf
    OBVIOUS
  <2>2. live # <<>> => Running(c)
    BY <2>1 DEF LiveInv, Claimed
  <2>3. Running(c)'
    BY <1>1, <1>2, <2>1, <2>2
  <2>4. QED
    BY <2>1, <2>3 DEF Running
<1>4. pc' \in {"map", "annotate"} => live' # <<>> /\ Running(mem.spec.conf)'
  <2> SUFFICES ASSUME pc' \in {"map", "annotate"}
               PROVE  live' # <<>> /\ Running(mem.spec.conf)'
    OBVIOUS
  <2>1. PICK c : c = mem.spec.conf /\ c = mem'.spec.conf
    OBVIOUS
  <2>2. live # <<>> /\ Running(c)
    BY <2>1 DEF LiveInv
  <2>3. live' # <<>> /\ Running(c)'
    BY <1>1, <2>1, <2>2
  <2>4. QED
    BY <2>1, <2>3 DEF Running
<1>5. QED
  BY <1>3, <1>4 DEF LiveInv

\* The cluster boots from the ConfigMap.
LEMMA BootLive ==
  ASSUME MapInv, LiveInv, ResInv, UNCHANGED <<cr, pc, mem, confMap>>,
         confMap # None, live' = confMap, pc # "map"
  PROVE  LiveInv'
<1>1. live' # <<>>
  <2>1. TcpDefault \in DOMAIN confMap
    BY DEF MapInv, MapBoot
  <2>2. QED
    BY <2>1
<1>2. ASSUME NEW s \in Specs, Mounted(s.conf)
      PROVE  Running(s.conf)'
  <2>1. PICK c, m : c = s.conf /\ m = confMap
    OBVIOUS
  <2>2. WithoutReadOnly(m) = WithoutReadOnly(mergeDefaultConfig(c))
    BY <1>2, <2>1, MergedConf DEF Mounted
  <2>3. \A k \in DOMAIN WithoutReadOnly(m) :
            k \in DOMAIN m /\ m[k] = WithoutReadOnly(m)[k]
    BY DEF WithoutReadOnly
  <2>4. live' = m
    BY <2>1
  <2>5. Running(c)'
    BY <2>2, <2>3, <2>4 DEF Running
  <2>6. QED
    BY <2>1, <2>5 DEF Running
<1>3. PICK s, t : s = cr.spec /\ s = cr'.spec /\ t = mem.spec /\ t = mem'.spec
  OBVIOUS
<1>4. s \in Specs /\ t \in Specs
  BY <1>3 DEF ResInv, IsRes
<1>5. Claimed' => Running(cr.spec.conf)'
  <2> SUFFICES ASSUME Claimed' PROVE Running(cr.spec.conf)'
    OBVIOUS
  <2>1. Mounted(s.conf)
    BY <1>3 DEF MapInv, MapTrue, Claimed
  <2>2. Running(s.conf)'
    BY <1>2, <1>4, <2>1
  <2>3. QED
    BY <1>3, <2>2 DEF Running
<1>6. pc' = "annotate" => Running(mem.spec.conf)'
  <2> SUFFICES ASSUME pc' = "annotate" PROVE Running(mem.spec.conf)'
    OBVIOUS
  <2>1. Mounted(t.conf)
    BY <1>3 DEF MapInv, MapSync, Mounted
  <2>2. Running(t.conf)'
    BY <1>2, <1>4, <2>1
  <2>3. QED
    BY <1>3, <2>2 DEF Running
<1>7. QED
  BY <1>1, <1>5, <1>6 DEF LiveInv

LEMMA NodeTruthful ==
  ASSUME MapInv, ResInv, SecretsInv, NodeUp \/ NodeDown
  PROVE  MapInv' /\ (BootsApart /\ LiveInv => LiveInv')
<1>1. UNCHANGED <<cr, cache, pc, mem, base, run, confMap>>
  BY DEF NodeUp, NodeDown, resource, pass
<1>2. node = [p \in Pods |-> node[p]]
  BY DEF SecretsInv
<1>3. MapInv'
  BY <1>1, ClusterMap
<1>4. ASSUME LiveInv, NodeDown PROVE LiveInv'
  <2>1. live' = live /\ \E p \in Pods : node' = [node EXCEPT ![p] = None]
    BY <1>4 DEF NodeDown, Up
  <2>2. Up(Cores)' \subseteq Up(Cores)
    BY <1>2, <2>1 DEF Up, Pods
  <2>3. /\ Up(Cores)' # {} => live' # <<>>
        /\ confMap = None => live' = <<>>
        /\ live # <<>> \/ live' = <<>>
    BY <1>4, <2>1, <2>2 DEF LiveInv
  <2>4. \A c \in Confs : live # <<>> /\ Running(c) => live' # <<>> /\ Running(c)'
    BY <2>1 DEF Running
  <2>5. QED
    BY <1>1, <1>4, <2>3, <2>4, ClusterLive
<1>5. ASSUME LiveInv, BootsApart, NodeUp PROVE LiveInv'
  <2>1. PICK p \in Pods :
          /\ node' = [node EXCEPT ![p] = secret]
          /\ p \notin Cores => Up(Cores) # {}
          /\ secret.cookie # None /\ confMap # None
          /\ live' = IF p \in Cores /\ Up(Cores) = {} /\ (live = <<>> \/ ~Persistent)
                     THEN confMap ELSE live
    BY <1>5 DEF NodeUp
  <2>2. CASE p \in Cores /\ Up(Cores) = {} /\ (live = <<>> \/ ~Persistent)
    <3>1. CASE pc # "map"
      BY <1>1, <1>5, <2>1, <2>2, <3>1, BootLive
    <3>2. CASE pc = "map"
      <4>1. live # <<>> /\ live' = live
        BY <1>5, <2>2, <3>2 DEF BootsApart, LiveInv
      <4>2. \A c \in Confs : live # <<>> /\ Running(c) => live' # <<>> /\ Running(c)'
        BY <4>1 DEF Running
      <4>3. QED
        BY <1>1, <1>5, <2>1, <4>1, <4>2, ClusterLive
    <3>3. QED
      BY <3>1, <3>2
  <2>3. CASE ~(p \in Cores /\ Up(Cores) = {} /\ (live = <<>> \/ ~Persistent))
    <3>1. live' = live /\ live # <<>>
      BY <1>5, <2>1, <2>3 DEF LiveInv
    <3>2. \A c \in Confs : live # <<>> /\ Running(c) => live' # <<>> /\ Running(c)'
      BY <3>1 DEF Running
    <3>3. QED
      BY <1>1, <1>5, <2>1, <3>1, <3>2, ClusterLive
  <2>4. QED
    BY <2>2, <2>3
<1>6. QED
  BY <1>3, <1>4, <1>5

LEMMA DashboardTruthful ==
  ASSUME MapInv, ResInv, DashboardEdit
  PROVE  MapInv' /\ (DashboardApart /\ LiveInv => LiveInv')
<1>1. UNCHANGED <<cr, cache, pc, mem, base, run, confMap, node>>
  BY DEF DashboardEdit, resource, pass
<1>2. live' = DashboardConf @@ live /\ Up(Cores) # {} /\ DOMAIN DashboardConf # {}
  BY DEF DashboardEdit
<1>3. /\ DOMAIN live' = DOMAIN DashboardConf \cup DOMAIN live
      /\ \A k \in DOMAIN live : k \notin DOMAIN DashboardConf => live'[k] = live[k]
  BY <1>2 DEF @@
<1>4. ASSUME LiveInv, DashboardApart PROVE LiveInv'
  <2>1. live' # <<>> /\ live # <<>> /\ confMap # None
    <3>1. live # <<>> /\ confMap # None
      BY <1>2, <1>4 DEF LiveInv
    <3>2. DOMAIN live' # {}
      BY <1>2, <1>3
    <3>3. QED
      BY <3>1, <3>2
  <2>2. ASSUME NEW c \in Confs, Running(c)
        PROVE  Running(c)'
    <3>1. DOMAIN DashboardConf \cap DOMAIN mergeDefaultConfig(c) = {}
      BY <1>4 DEF DashboardApart
    <3>2. DOMAIN WithoutReadOnly(mergeDefaultConfig(c)) \subseteq DOMAIN mergeDefaultConfig(c)
      BY DEF WithoutReadOnly
    <3>3. PICK want : want = WithoutReadOnly(mergeDefaultConfig(c))
      OBVIOUS
    <3>4. \A k \in DOMAIN want : k \in DOMAIN live /\ live[k] = want[k]
      BY <2>2, <3>3 DEF Running
    <3>5. \A k \in DOMAIN want : k \in DOMAIN live' /\ live'[k] = want[k]
      BY <1>3, <3>1, <3>2, <3>3, <3>4
    <3>6. QED
      BY <3>3, <3>5 DEF Running
  <2>3. QED
    BY <1>1, <1>4, <2>1, <2>2, ClusterLive
<1>5. QED
  BY <1>1, <1>4, ClusterMap

LEMMA OthersTruthful ==
  ASSUME MapInv, CacheResource \/ CacheService \/ CreateRef \/ Annotate
  PROVE  Truthful
<1>1. /\ UNCHANGED <<pc, mem, base, run, cr, confMap, live, node>>
      /\ cache' = cache \/ cache' = cr
  BY DEF CacheResource, CacheService, CreateRef, Annotate, pass, cluster, resource
<1>2. QED
  BY <1>1, AroundTruthful

LEMMA NextTruthful ==
  ASSUME MapInv, ResInv, RunOK(run), SecretsInv, [Next]_vars, [Orderly]_vars
  PROVE  MapInv' /\ (DashboardApart /\ [BootsApart]_vars /\ LiveInv => LiveInv')
<1>1. CASE UNCHANGED vars
  <2>1. UNCHANGED <<pc, mem, base, run, cr, cache, confMap, live, node>>
    BY <1>1 DEF vars
  <2>2. QED
    BY <2>1, AroundTruthful DEF Truthful
<1>2. CASE Next /\ ~UNCHANGED vars
  <2>1. Orderly /\ ([BootsApart]_vars => BootsApart)
    BY <1>2
  <2>2. \/ Truthful
        \/ NodeUp \/ NodeDown \/ DashboardEdit
    BY <1>2, <2>1, StatusTruthful, OwnedTruthful, SetTruthful, ReadsTruthful,
       CreateTruthful, AnnotationTruthful, PutTruthful, MapTruthful, EditTruthful,
       OthersTruthful
    DEF Next, PassStep
  <2>3. QED
    BY <2>1, <2>2, NodeTruthful, DashboardTruthful DEF Truthful
<1>3. QED
  BY <1>1, <1>2

\* What holds of every state of a run with orderly edits.
TruthInv == ResInv /\ ConfInv /\ ObjsInv /\ SecretsInv /\ MapInv

LEMMA InitTruthInv == Init => TruthInv
  BY InitObjs, InitSecrets, InitTruth DEF TruthInv

LEMMA NextTruthInv ==
  ASSUME ~IsObj(NoObj), TruthInv, [Next]_vars, [Orderly]_vars
  PROVE  TruthInv' /\ (DashboardApart /\ [BootsApart]_vars /\ LiveInv => LiveInv')
  BY NextObjs, NextSecrets, NextTruthful DEF TruthInv, ConfInv

LEMMA MapIsTrue == TruthInv => ConfigMapHonest
<1> SUFFICES ASSUME TruthInv, cr.last = cr.spec.conf PROVE Mounted(cr.spec.conf)
  BY DEF ConfigMapHonest
<1>1. cr.last # None
  BY MergedConf DEF TruthInv, ResInv, IsRes
<1>2. QED
  BY <1>1 DEF TruthInv, MapInv, MapBoot, MapTrue, Claimed

\* When the annotation equals the spec's configuration, the ConfigMap that nodes
\* boot from is made from that configuration, at every step: for edits that come
\* once there is an annotation and bring back none that it still names, in both
\* modes, for EMQX before and since 5.7.0, with or without persistent nodes, any
\* changes in the dashboard, any delay of the cache and any failures.
THEOREM ConfigMapTruth ==
  ASSUME ~IsObj(NoObj)
  PROVE  Spec /\ [][Orderly]_vars => []ConfigMapHonest
<1>1. TruthInv /\ [Next]_vars /\ [Orderly]_vars => TruthInv'
  BY NextTruthInv
<1>2. QED
  BY <1>1, InitTruthInv, MapIsTrue, PTL DEF Spec

\* And the running cluster has that configuration too, if users leave the paths
\* of the specs alone in the dashboard, and no cluster loses its data and boots
\* again while a pass is between its PUT and its update of the ConfigMap.
THEOREM AnnotationTruth ==
  ASSUME ~IsObj(NoObj), DashboardApart
  PROVE  Spec /\ [][Orderly]_vars /\ [][BootsApart]_vars => []AnnotationHonest
<1> DEFINE I == TruthInv /\ LiveInv
<1>1. Init => I
  BY InitTruthInv, InitTruth
<1>2. I /\ [Next]_vars /\ [Orderly]_vars /\ [BootsApart]_vars => I'
  BY NextTruthInv
<1>3. I => AnnotationHonest
  <2> SUFFICES ASSUME I PROVE AnnotationHonest
    OBVIOUS
  <2>1. ConfigMapHonest
    BY MapIsTrue
  <2>2. ASSUME cr.last = cr.spec.conf, Up(Cores) # {}
        PROVE  Running(cr.spec.conf)
    <3>1. cr.last # None
      BY <2>2, MergedConf DEF TruthInv, ResInv, IsRes
    <3>2. QED
      BY <2>2, <3>1 DEF TruthInv, MapInv, MapBoot, LiveInv, Claimed
  <2>3. QED
    BY <2>1, <2>2 DEF AnnotationHonest
<1>4. QED
  BY <1>1, <1>2, <1>3, PTL DEF Spec

=============================================================================
