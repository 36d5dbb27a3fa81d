--------------------------- MODULE AdmissionProofs ---------------------------
(***************************************************************************)
(* Proofs about Admission, for any manifests, annotations and values: the   *)
(* defaults are a fixed point, the identity of a resource stays, and the    *)
(* two versions read what they wrote.                                      *)
(***************************************************************************)
EXTENDS Admission, ServicePortsProofs

-----------------------------------------------------------------------------
(* What Default makes of each field.                                       *)

\* The labels of the resource, and the fields that follow from them.
Labeled(m) == [m EXCEPT !.labels = ("instance" :> "emqx") @@ @]

Ports == <<Management, Dashboard>>

Imaged(i) ==
    [i EXCEPT !.repo = IF @ # <<>> THEN @
                       ELSE IF edition = "broker" THEN <<"emqx">> ELSE <<"emqx-ee">>]

Configured(cfg, domain) ==
    cfg @@ ("name" :> "emqx") @@ ("log.to" :> "console")
        @@ ("cluster.discovery" :> "dns") @@ ("cluster.dns.name" :> domain)

Served(s, m) == [meta |-> mergeMeta(s.meta, m), sel |-> m.labels,
                 ports |-> MergeServicePorts(s.ports, Ports)]

Claimed(p, m) ==
    IF p = None THEN None
    ELSE [name |-> IF p.name = Zero THEN "emqx-data" ELSE p.name,
          meta |-> mergeMeta(p.meta, m), size |-> p.size]

Listed(a) == IF a = Zero THEN "default" ELSE a

\* A record of v1beta4, field by field.
Flat(r) ==
    r = [meta |-> r.meta, n |-> r.n, domain |-> r.domain, svc |-> r.svc,
         persist |-> r.persist, tpl |-> r.tpl, img |-> r.img, cfg |-> r.cfg,
         acl |-> r.acl, rest |-> r.rest, ports |-> r.ports, keys |-> r.keys,
         license |-> r.license]

LEMMA DefaultIs ==
  ASSUME NEW r, IsV1beta4(r)
  PROVE  Default(r) =
           [meta |-> Labeled(r.meta), n |-> r.n, domain |-> r.domain,
            svc |-> Served(r.svc, Labeled(r.meta)),
            persist |-> Claimed(r.persist, Labeled(r.meta)),
            tpl |-> mergeMeta(r.tpl, Labeled(r.meta)), img |-> Imaged(r.img),
            cfg |-> Configured(r.cfg, r.domain), acl |-> Listed(r.acl),
            rest |-> r.rest, ports |-> MergeServicePorts(r.ports, Ports),
            keys |-> r.keys, license |-> r.license]
<1>0. Flat(r)
  BY DEF IsV1beta4, Flat
<1>1. PICK m : m = Labeled(r.meta)
  OBVIOUS
<1>2. PICK t : t = mergeMeta(r.tpl, m)
  OBVIOUS
<1>3. PICK r1 : r1 = defaultLabelsAndAnnotations(r)
  OBVIOUS
<1>4. r1 = [r EXCEPT !.meta = m, !.tpl = t]
  BY <1>0, <1>1, <1>2, <1>3 DEF defaultLabelsAndAnnotations, Labeled, Flat
<1>5. PICK i : i = Imaged(r.img)
  OBVIOUS
<1>6. PICK r2 : r2 = defaultEmqxImage(r1)
  OBVIOUS
<1>7. r2 = [r1 EXCEPT !.img = i]
  <2>1. r1.img = r.img
    BY <1>0, <1>4 DEF Flat
  <2>2. r1 = [r1 EXCEPT !.img = r.img]
    BY <1>0, <1>4, <2>1 DEF Flat
  <2>3. QED
    BY <1>5, <1>6, <2>1 DEF defaultEmqxImage, Imaged
<1>8. PICK a, c : a = Listed(r.acl) /\ c = Configured(r.cfg, r.domain)
  OBVIOUS
<1>9. PICK r4 : r4 = defaultEmqxConfig(defaultEmqxACL(r2))
  OBVIOUS
<1>10. r2 = [r EXCEPT !.meta = m, !.tpl = t, !.img = i]
  BY <1>0, <1>4, <1>7 DEF Flat
<1>11. r4 = [r2 EXCEPT !.acl = a, !.cfg = c]
  <2>1. r2.acl = r.acl /\ r2.cfg = r.cfg /\ r2.domain = r.domain
    BY <1>0, <1>10 DEF Flat
  <2>2. defaultEmqxACL(r2) = [r2 EXCEPT !.acl = a]
    BY <1>0, <1>8, <1>10, <2>1 DEF defaultEmqxACL, Listed, Flat
  <2>3. PICK r3 : r3 = [r2 EXCEPT !.acl = a]
    OBVIOUS
  <2>4. r3.cfg = r.cfg /\ r3.domain = r.domain
    BY <1>0, <1>10, <2>3 DEF Flat
  <2>5. defaultEmqxConfig(r3) = [r3 EXCEPT !.cfg = c]
    BY <1>0, <1>8, <1>10, <2>3, <2>4 DEF defaultEmqxConfig, Configured, Flat
  <2>6. QED
    BY <1>9, <2>2, <2>3, <2>5
<1>12. r4 = [r EXCEPT !.meta = m, !.tpl = t, !.img = i, !.acl = a, !.cfg = c]
  BY <1>0, <1>10, <1>11 DEF Flat
<1>13. PICK s : s = Served(r.svc, m)
  OBVIOUS
<1>14. PICK r5 : r5 = defaultServiceTemplate(r4)
  OBVIOUS
<1>15. r5 = [r4 EXCEPT !.svc = s]
  <2>1. r4.svc = r.svc /\ r4.meta = m
    BY <1>0, <1>12 DEF Flat
  <2>2. QED
    BY <1>13, <1>14, <2>1 DEF defaultServiceTemplate, Served, Ports
<1>16. r5 = [r EXCEPT !.meta = m, !.tpl = t, !.img = i, !.acl = a, !.cfg = c, !.svc = s]
  BY <1>0, <1>12, <1>15 DEF Flat
<1>17. PICK p, q : p = MergeServicePorts(r.ports, Ports) /\ q = Claimed(r.persist, m)
  OBVIOUS
<1>18. PICK r6 : r6 = defaultContainerPort(r5)
  OBVIOUS
<1>19. r6 = [r5 EXCEPT !.ports = p]
  <2>1. r5.ports = r.ports
    BY <1>0, <1>16 DEF Flat
  <2>2. QED
    BY <1>17, <1>18, <2>1 DEF defaultContainerPort, Ports
<1>20. r6 = [r EXCEPT !.meta = m, !.tpl = t, !.img = i, !.acl = a, !.cfg = c, !.svc = s,
                      !.ports = p]
  BY <1>0, <1>16, <1>19 DEF Flat
<1>21. defaultPersistent(r6) = [r6 EXCEPT !.persist = q]
  <2>1. r6.persist = r.persist /\ r6.meta = m
    BY <1>0, <1>20 DEF Flat
  <2>2. defaultPersistent(r6) = [r6 EXCEPT !.persist = Claimed(r6.persist, r6.meta)]
    BY DEF defaultPersistent, Claimed
  <2>3. QED
    BY <1>17, <2>1, <2>2
<1>22. Default(r) = [r6 EXCEPT !.persist = q]
  BY <1>3, <1>6, <1>9, <1>14, <1>18, <1>21 DEF Default
<1>23. Default(r) = [meta |-> m, n |-> r.n, domain |-> r.domain, svc |-> s,
                     persist |-> q, tpl |-> t, img |-> i, cfg |-> c, acl |-> a,
                     rest |-> r.rest, ports |-> p, keys |-> r.keys,
                     license |-> r.license]
  BY <1>0, <1>20, <1>22 DEF Flat
<1>24. QED
  BY <1>1, <1>2, <1>5, <1>8, <1>13, <1>17, <1>23

-----------------------------------------------------------------------------
(* Each of them is made once.                                              *)

LEMMA OverOver ==
  ASSUME NEW a, NEW b
  PROVE  (a @@ b) @@ b = a @@ b /\ b @@ (b @@ a) = b @@ a
<1>1. DOMAIN (a @@ b) = DOMAIN a \cup DOMAIN b /\ DOMAIN (b @@ a) = DOMAIN a \cup DOMAIN b
  BY DEF @@
<1>2. \A x \in DOMAIN a \cup DOMAIN b :
         /\ (a @@ b)[x] = IF x \in DOMAIN a THEN a[x] ELSE b[x]
         /\ (b @@ a)[x] = IF x \in DOMAIN b THEN b[x] ELSE a[x]
  BY DEF @@
<1>3. PICK f, g : f = a @@ b /\ g = b @@ a
  OBVIOUS
<1>4. f = [x \in DOMAIN a \cup DOMAIN b |-> f[x]] /\ g = [x \in DOMAIN a \cup DOMAIN b |-> g[x]]
  BY <1>3 DEF @@
<1>5. f @@ b = [x \in DOMAIN f \cup DOMAIN b |-> IF x \in DOMAIN f THEN f[x] ELSE b[x]]
  BY DEF @@
<1>6. b @@ g = [x \in DOMAIN b \cup DOMAIN g |-> IF x \in DOMAIN b THEN b[x] ELSE g[x]]
  BY DEF @@
<1>7. f @@ b = f
  BY <1>1, <1>3, <1>4, <1>5
<1>8. b @@ g = g
  BY <1>1, <1>2, <1>3, <1>4, <1>6
<1>9. QED
  BY <1>3, <1>7, <1>8

LEMMA MetaOnce ==
  ASSUME NEW t, NEW m
  PROVE  /\ IsMeta(mergeMeta(t, m))
         /\ mergeMeta(mergeMeta(t, m), m) = mergeMeta(t, m)
<1> DEFINE W(f) == Without(f, "last-applied")
<1>1. PICK l, a : l = t.labels @@ m.labels /\ a = W(t.ann @@ m.ann)
  OBVIOUS
<1>2. PICK u : u = mergeMeta(t, m)
  OBVIOUS
<1>3. u = [labels |-> l, ann |-> a]
  BY <1>1, <1>2 DEF mergeMeta
<1>4. l @@ m.labels = l
  BY <1>1, OverOver
<1>5. W(a @@ m.ann) = a
  <2>1. PICK f : f = t.ann @@ m.ann
    OBVIOUS
  <2>2. DOMAIN m.ann \subseteq DOMAIN f
    BY <2>1 DEF @@
  <2>3. a = [x \in DOMAIN f \ {"last-applied"} |-> f[x]]
    BY <1>1, <2>1 DEF Without
  <2>4. PICK g : g = a @@ m.ann
    OBVIOUS
  <2>5. g = [x \in DOMAIN a \cup DOMAIN m.ann |-> IF x \in DOMAIN a THEN a[x] ELSE m.ann[x]]
    BY <2>4 DEF @@
  <2>6. W(g) = [x \in DOMAIN g \ {"last-applied"} |-> g[x]]
    BY DEF Without
  <2>7. DOMAIN g \ {"last-applied"} = DOMAIN f \ {"last-applied"}
    BY <2>2, <2>3, <2>5
  <2>8. \A x \in DOMAIN f \ {"last-applied"} : g[x] = f[x]
    BY <2>3, <2>5
  <2>9. W(g) = a
    BY <2>3, <2>6, <2>7, <2>8
  <2>10. QED
    BY <2>4, <2>9
<1>6. mergeMeta(u, m) = [labels |-> l @@ m.labels, ann |-> W(a @@ m.ann)]
  BY <1>3 DEF mergeMeta
<1>7. QED
  BY <1>2, <1>3, <1>4, <1>5, <1>6 DEF IsMeta

LEMMA LabelsOnce ==
  ASSUME NEW m, IsMeta(m)
  PROVE  /\ IsMeta(Labeled(m)) /\ Labeled(Labeled(m)) = Labeled(m)
         /\ "instance" \in DOMAIN Labeled(m).labels
         /\ Labeled(m).labels["instance"] = "emqx"
<1>1. PICK i : i = "instance" :> "emqx"
  OBVIOUS
<1>2. PICK l : l = i @@ m.labels
  OBVIOUS
<1>3. PICK n : n = [m EXCEPT !.labels = l]
  OBVIOUS
<1>4. n = [labels |-> l, ann |-> m.ann]
  BY <1>3 DEF IsMeta
<1>5. Labeled(m) = n
  BY <1>1, <1>2, <1>3 DEF Labeled
<1>6. i @@ l = l
  BY <1>2, OverOver
<1>7. Labeled(n) = n
  BY <1>1, <1>4, <1>6 DEF Labeled
<1>8. "instance" \in DOMAIN l /\ l["instance"] = "emqx"
  BY <1>1, <1>2 DEF @@, :>
<1>9. QED
  BY <1>4, <1>5, <1>7, <1>8 DEF IsMeta

LEMMA ConfigOnce ==
  ASSUME NEW cfg, NEW d
  PROVE  /\ Configured(Configured(cfg, d), d) = Configured(cfg, d)
         /\ {"name", "cluster.discovery", "cluster.dns.name"}
              \subseteq DOMAIN Configured(cfg, d)
<1> DEFINE K == {"name", "log.to", "cluster.discovery", "cluster.dns.name"}
<1>1. ASSUME NEW f
      PROVE  /\ DOMAIN Configured(f, d) = DOMAIN f \cup K
             /\ Configured(f, d) = [x \in DOMAIN f \cup K |-> Configured(f, d)[x]]
             /\ \A x \in DOMAIN f : Configured(f, d)[x] = f[x]
  <2>1. PICK f1 : f1 = f @@ ("name" :> "emqx")
    OBVIOUS
  <2>2. PICK f2 : f2 = f1 @@ ("log.to" :> "console")
    OBVIOUS
  <2>3. PICK f3 : f3 = f2 @@ ("cluster.discovery" :> "dns")
    OBVIOUS
  <2>4. PICK f4 : f4 = f3 @@ ("cluster.dns.name" :> d)
    OBVIOUS
  <2>5. Configured(f, d) = f4
    BY <2>1, <2>2, <2>3, <2>4 DEF Configured
  <2>6. /\ DOMAIN f1 = DOMAIN f \cup {"name"}
        /\ \A x \in DOMAIN f : f1[x] = f[x]
    BY <2>1 DEF @@, :>
  <2>7. /\ DOMAIN f2 = DOMAIN f1 \cup {"log.to"}
        /\ \A x \in DOMAIN f1 : f2[x] = f1[x]
    BY <2>2 DEF @@, :>
  <2>8. /\ DOMAIN f3 = DOMAIN f2 \cup {"cluster.discovery"}
        /\ \A x \in DOMAIN f2 : f3[x] = f2[x]
    BY <2>3 DEF @@, :>
  <2>9. /\ DOMAIN f4 = DOMAIN f3 \cup {"cluster.dns.name"}
        /\ \A x \in DOMAIN f3 : f4[x] = f3[x]
        /\ f4 = [x \in DOMAIN f4 |-> f4[x]]
    BY <2>4 DEF @@, :>
  <2>10. QED
    BY <2>5, <2>6, <2>7, <2>8, <2>9
<1>2. PICK g : g = Configured(cfg, d)
  OBVIOUS
<1>3. DOMAIN g = DOMAIN cfg \cup K /\ g = [x \in DOMAIN cfg \cup K |-> g[x]]
  BY <1>1, <1>2
<1>4. PICK h : h = Configured(g, d)
  OBVIOUS
<1>5. /\ DOMAIN h = DOMAIN g \cup K /\ h = [x \in DOMAIN g \cup K |-> h[x]]
      /\ \A x \in DOMAIN g : h[x] = g[x]
  BY <1>1, <1>4
<1>6. h = g
  BY <1>3, <1>5
<1>7. QED
  BY <1>2, <1>3, <1>4, <1>6

LEMMA PortsOnce ==
  ASSUME NEW l, IsList(l)
  PROVE  /\ IsList(MergeServicePorts(l, Ports))
         /\ MergeServicePorts(MergeServicePorts(l, Ports), Ports)
              = MergeServicePorts(l, Ports)
<1> DEFINE A == {l[i] : i \in DOMAIN l}
<1>1. PICK P : P = A \cup {Management, Dashboard}
  OBVIOUS
<1>2. l \in Seq(A)
  BY DEF IsList
<1> HIDE DEF A
<1>3. l \in Seq(P) /\ Ports \in Seq(P)
  BY <1>1, <1>2 DEF Ports
<1>4. PICK m : m = MergeServicePorts(l, Ports)
  OBVIOUS
<1>5. m \in Seq(P)
  BY <1>3, <1>4, MergeApart
<1>6. MergeServicePorts(m, Ports) = m
  BY <1>3, <1>4, MergeIdempotent
<1>7. IsList(m)
  <2> DEFINE n == Len(m)
             X == {m[i] : i \in DOMAIN m}
  <2>1. n \in Nat /\ DOMAIN m = 1 .. n /\ m = [i \in 1 .. n |-> m[i]]
    BY <1>5
  <2>2. \A i \in 1 .. n : m[i] \in X
    BY <2>1
  <2> HIDE DEF n, X
  <2>3. m \in Seq(X)
    BY <2>1, <2>2
  <2>4. QED
    BY <2>3 DEF IsList, X
<1>8. QED
  BY <1>4, <1>6, <1>7

LEMMA ServiceOnce ==
  ASSUME NEW s, NEW m, IsList(s.ports)
  PROVE  /\ IsService(Served(s, m)) /\ Served(Served(s, m), m) = Served(s, m)
<1>1. PICK x, p : x = mergeMeta(s.meta, m) /\ p = MergeServicePorts(s.ports, Ports)
  OBVIOUS
<1>2. PICK q : q = Served(s, m)
  OBVIOUS
<1>3. q = [meta |-> x, sel |-> m.labels, ports |-> p]
  BY <1>1, <1>2 DEF Served
<1>4. IsMeta(x) /\ mergeMeta(x, m) = x /\ IsList(p) /\ MergeServicePorts(p, Ports) = p
  BY <1>1, MetaOnce, PortsOnce
<1>5. Served(q, m) = q
  BY <1>3, <1>4 DEF Served
<1>6. QED
  BY <1>2, <1>3, <1>4, <1>5 DEF IsService

LEMMA ClaimOnce ==
  ASSUME NEW p, NEW m
  PROVE  /\ Claimed(p, m) = None \/ IsClaim(Claimed(p, m))
         /\ Claimed(Claimed(p, m), m) = Claimed(p, m)
<1>1. CASE p = None
  BY <1>1 DEF Claimed
<1>2. CASE p # None
  <2>1. PICK x, n : x = mergeMeta(p.meta, m)
                    /\ n = IF p.name = Zero THEN "emqx-data" ELSE p.name
    OBVIOUS
  <2>2. PICK q : q = Claimed(p, m)
    OBVIOUS
  <2>3. q = [name |-> n, meta |-> x, size |-> p.size]
    BY <1>2, <2>1, <2>2 DEF Claimed
  <2>4. IsMeta(x) /\ mergeMeta(x, m) = x /\ n # Zero
    BY <2>1, MetaOnce DEF Zero
  <2>5. Claimed(q, m) = q
    BY <2>3, <2>4 DEF Claimed
  <2>6. QED
    BY <2>2, <2>3, <2>4, <2>5 DEF IsClaim
<1>3. QED
  BY <1>1, <1>2

LEMMA ImageOnce ==
  ASSUME NEW i, i = [reg |-> i.reg, repo |-> i.repo, ver |-> i.ver]
  PROVE  LET j == Imaged(i) IN
         /\ j = [reg |-> i.reg, repo |-> j.repo, ver |-> i.ver]
         /\ j.repo # <<>> /\ Imaged(j) = j
<1>1. PICK n : n = IF i.repo # <<>> THEN i.repo
                   ELSE IF edition = "broker" THEN <<"emqx">> ELSE <<"emqx-ee">>
  OBVIOUS
<1>2. PICK j : j = [i EXCEPT !.repo = n]
  OBVIOUS
<1>3. Imaged(i) = j
  BY <1>1, <1>2 DEF Imaged
<1>4. j = [reg |-> i.reg, repo |-> n, ver |-> i.ver]
  BY <1>2
<1>5. n # <<>>
  BY <1>1
<1>6. Imaged(j) = j
  BY <1>4, <1>5 DEF Imaged
<1>7. QED
  BY <1>3, <1>4, <1>5, <1>6

\* A resource with its defaults is one, and gets no others.
LEMMA DefaultTwice ==
  ASSUME NEW r, IsV1beta4(r)
  PROVE  IsV1beta4(Default(r)) /\ Default(Default(r)) = Default(r)
<1>1. PICK m : m = Labeled(r.meta)
  OBVIOUS
<1>2. IsMeta(m) /\ Labeled(m) = m
  BY <1>1, LabelsOnce DEF IsV1beta4
<1>3. PICK s : s = Served(r.svc, m)
  OBVIOUS
<1>4. IsService(s) /\ Served(s, m) = s
  BY <1>3, ServiceOnce DEF IsV1beta4, IsService
<1>5. PICK p : p = Claimed(r.persist, m)
  OBVIOUS
<1>6. (p = None \/ IsClaim(p)) /\ Claimed(p, m) = p
  BY <1>5, ClaimOnce
<1>7. PICK t : t = mergeMeta(r.tpl, m)
  OBVIOUS
<1>8. IsMeta(t) /\ mergeMeta(t, m) = t
  BY <1>7, MetaOnce
<1>9. PICK i : i = Imaged(r.img)
  OBVIOUS
<1>10. i = [reg |-> i.reg, repo |-> i.repo, ver |-> i.ver] /\ Imaged(i) = i
  BY <1>9, ImageOnce DEF IsV1beta4
<1>11. PICK c : c = Configured(r.cfg, r.domain)
  OBVIOUS
<1>12. Configured(c, r.domain) = c
  BY <1>11, ConfigOnce
<1>13. PICK a : a = Listed(r.acl)
  OBVIOUS
<1>14. Listed(a) = a
  BY <1>13 DEF Listed, Zero
<1>15. PICK q : q = MergeServicePorts(r.ports, Ports)
  OBVIOUS
<1>16. IsList(q) /\ MergeServicePorts(q, Ports) = q
  BY <1>15, PortsOnce DEF IsV1beta4
<1>17. PICK d : d = Default(r)
  OBVIOUS
<1>18. d = [meta |-> m, n |-> r.n, domain |-> r.domain, svc |-> s, persist |-> p,
            tpl |-> t, img |-> i, cfg |-> c, acl |-> a, rest |-> r.rest, ports |-> q,
            keys |-> r.keys, license |-> r.license]
  BY <1>1, <1>3, <1>5, <1>7, <1>9, <1>11, <1>13, <1>15, <1>17, DefaultIs
<1>19. IsV1beta4(d)
  BY <1>2, <1>4, <1>6, <1>8, <1>10, <1>16, <1>18 DEF IsV1beta4
<1>20. /\ d.meta = m /\ d.domain = r.domain /\ d.svc = s /\ d.persist = p /\ d.tpl = t
       /\ d.img = i /\ d.cfg = c /\ d.acl = a /\ d.ports = q /\ d.n = r.n
       /\ d.rest = r.rest /\ d.keys = r.keys /\ d.license = r.license
  BY <1>18
<1>21. Default(d) = d
  BY <1>2, <1>4, <1>6, <1>8, <1>10, <1>12, <1>14, <1>16, <1>18, <1>19, <1>20, DefaultIs
<1>22. QED
  BY <1>17, <1>19, <1>21

-----------------------------------------------------------------------------
(* The writes of clients.                                                  *)

\* No other value of the label the operator sets.
Unclaimed(m) == "instance" \in DOMAIN m.labels => m.labels["instance"] = "emqx"

LEMMA EditsAre ==
  ASSUME NEW r, IsMeta(r.meta), NEW e \in Edits(r)
  PROVE  \/ \E m : /\ IsMeta(m) /\ (Unclaimed(r.meta) => Unclaimed(m))
                   /\ e = [r EXCEPT !.meta = m]
         \/ \E x : e = [r EXCEPT !.n = x]
         \/ \E x : e = [r EXCEPT !.acl = x]
         \/ \E x : e = [r EXCEPT !.rest = x]
         \/ \E x : e = [r EXCEPT !.cfg = x]
         \/ e = [r EXCEPT !.svc = NoService]
<1>1. ASSUME NEW x, e = [r EXCEPT !.meta.ann = x]
      PROVE  \E m : /\ IsMeta(m) /\ (Unclaimed(r.meta) => Unclaimed(m))
                    /\ e = [r EXCEPT !.meta = m]
  <2>1. PICK m : m = [r.meta EXCEPT !.ann = x]
    OBVIOUS
  <2>2. IsMeta(m) /\ m.labels = r.meta.labels
    BY <2>1 DEF IsMeta
  <2>3. QED
    BY <1>1, <2>1, <2>2 DEF Unclaimed
<1>2. ASSUME NEW v, e = [r EXCEPT !.meta.labels = ("user" :> v) @@ @]
      PROVE  \E m : /\ IsMeta(m) /\ (Unclaimed(r.meta) => Unclaimed(m))
                    /\ e = [r EXCEPT !.meta = m]
  <2>1. PICK l : l = ("user" :> v) @@ r.meta.labels
    OBVIOUS
  <2>2. PICK m : m = [r.meta EXCEPT !.labels = l]
    OBVIOUS
  <2>3. IsMeta(m) /\ m.labels = l
    BY <2>2 DEF IsMeta
  <2>4. Unclaimed(r.meta) => Unclaimed(m)
    BY <2>1, <2>3 DEF Unclaimed, @@, :>
  <2>5. e = [r EXCEPT !.meta = m]
    BY <1>2, <2>1, <2>2
  <2>6. QED
    BY <2>3, <2>4, <2>5
<1>3. \/ \E x : e = [r EXCEPT !.meta.ann = x]
      \/ \E v : e = [r EXCEPT !.meta.labels = ("user" :> v) @@ @]
      \/ \E x : e = [r EXCEPT !.n = x]
      \/ \E x : e = [r EXCEPT !.acl = x]
      \/ \E x : e = [r EXCEPT !.rest = x]
      \/ \E x : e = [r EXCEPT !.cfg = x]
      \/ e = [r EXCEPT !.svc = NoService]
  <2> DEFINE K == {"name", "cluster.discovery", "cluster.k", "log.to"}
             E1 == {[r EXCEPT !.meta.ann = (k :> v) @@ @] : k \in AnnKeys, v \in Values}
             E2 == {[r EXCEPT !.meta.ann = Without(@, k)] : k \in AnnKeys}
             E3 == {[r EXCEPT !.meta.labels = ("user" :> v) @@ @] : v \in Values}
             E4 == {[r EXCEPT !.n = v] : v \in {1, 3}}
             E5 == {[r EXCEPT !.acl = a] : a \in {Zero, "own"}}
             E6 == {[r EXCEPT !.rest = a] : a \in {Zero, "own"}}
             E7 == {[r EXCEPT !.cfg = (k :> v) @@ @] : k \in K, v \in Values}
             E8 == {[r EXCEPT !.cfg = Without(@, k)] : k \in K}
             E9 == {[r EXCEPT !.svc = NoService]}
  <2>1. \/ e \in E1 \/ e \in E2 \/ e \in E3 \/ e \in E4 \/ e \in E5
        \/ e \in E6 \/ e \in E7 \/ e \in E8 \/ e \in E9
    <3>1. Edits(r) = E1 \cup E2 \cup E3 \cup E4 \cup E5 \cup E6 \cup E7 \cup E8 \cup E9
      BY DEF Edits
    <3> HIDE DEF E1, E2, E3, E4, E5, E6, E7, E8, E9
    <3>2. QED
      BY <3>1
  <2>2. (e \in E1 \/ e \in E2) => \E x : e = [r EXCEPT !.meta.ann = x]
    OBVIOUS
  <2>3. (e \in E7 \/ e \in E8) => \E x : e = [r EXCEPT !.cfg = x]
    OBVIOUS
  <2>4. e \in E3 => \E v : e = [r EXCEPT !.meta.labels = ("user" :> v) @@ @]
    OBVIOUS
  <2>5. e \in E4 => \E x : e = [r EXCEPT !.n = x]
    BY Zenon
  <2>6. e \in E5 => \E x : e = [r EXCEPT !.acl = x]
    BY Zenon
  <2>7. e \in E6 => \E x : e = [r EXCEPT !.rest = x]
    BY Zenon
  <2>8. e \in E9 => e = [r EXCEPT !.svc = NoService]
    BY Zenon
  <2> HIDE DEF E1, E2, E3, E4, E5, E6, E7, E8, E9
  <2>9. QED
    BY <2>1, <2>2, <2>3, <2>4, <2>5, <2>6, <2>7, <2>8
<1>4. QED
  BY <1>1, <1>2, <1>3

LEMMA NoServiceIs == IsService(NoService)
<1>1. PICK l : l = <<>>
  OBVIOUS
<1>2. IsList(l)
  BY <1>1 DEF IsList
<1>3. NoService = [meta |-> NoMeta, sel |-> <<>>, ports |-> l]
  BY <1>1 DEF NoService
<1>4. IsMeta(NoMeta)
  BY DEF NoMeta, IsMeta
<1>5. QED
  BY <1>2, <1>3, <1>4 DEF IsService

LEMMA Edits4Are ==
  ASSUME NEW r, IsV1beta4(r), NEW e \in Edits4(r)
  PROVE  IsV1beta4(e)
<1>1. CASE e \in Edits(r)
  <2>1. \/ \E m : IsMeta(m) /\ e = [r EXCEPT !.meta = m]
        \/ \E x : e = [r EXCEPT !.n = x]
        \/ \E x : e = [r EXCEPT !.acl = x]
        \/ \E x : e = [r EXCEPT !.rest = x]
        \/ \E x : e = [r EXCEPT !.cfg = x]
        \/ e = [r EXCEPT !.svc = NoService]
    BY <1>1, EditsAre, Zenon DEF IsV1beta4
  <2>2. QED
    BY <2>1, NoServiceIs DEF IsV1beta4
<1>2. ASSUME NEW i, i = [reg |-> i.reg, repo |-> i.repo, ver |-> i.ver],
             e = [r EXCEPT !.img = i]
      PROVE  IsV1beta4(e)
  BY <1>2 DEF IsV1beta4
<1>3. CASE \E g : e = [r EXCEPT !.img.reg = g]
  <2>1. PICK g : e = [r EXCEPT !.img.reg = g]
    BY <1>3
  <2>2. PICK i : i = [r.img EXCEPT !.reg = g]
    OBVIOUS
  <2>3. i = [reg |-> i.reg, repo |-> i.repo, ver |-> i.ver]
    BY <2>2 DEF IsV1beta4
  <2>4. QED
    BY <1>2, <2>1, <2>2, <2>3
<1>4. CASE \E g : e = [r EXCEPT !.img.ver = g]
  <2>1. PICK g : e = [r EXCEPT !.img.ver = g]
    BY <1>4
  <2>2. PICK i : i = [r.img EXCEPT !.ver = g]
    OBVIOUS
  <2>3. i = [reg |-> i.reg, repo |-> i.repo, ver |-> i.ver]
    BY <2>2 DEF IsV1beta4
  <2>4. QED
    BY <1>2, <2>1, <2>2, <2>3
<1>5. CASE \E g : \/ e = [r EXCEPT !.keys = g] \/ e = [r EXCEPT !.domain = g]
                  \/ e = [r EXCEPT !.license = g]
  BY <1>5 DEF IsV1beta4
<1>6. CASE \E l : e = [r EXCEPT !.tpl.labels = l]
  <2>1. PICK l : e = [r EXCEPT !.tpl.labels = l]
    BY <1>6
  <2>2. PICK t : t = [r.tpl EXCEPT !.labels = l]
    OBVIOUS
  <2>3. IsMeta(t) /\ e = [r EXCEPT !.tpl = t]
    BY <2>1, <2>2 DEF IsV1beta4, IsMeta
  <2>4. QED
    BY <2>3 DEF IsV1beta4
<1>7. \/ e \in Edits(r)
      \/ \E g : e = [r EXCEPT !.img.reg = g]
      \/ \E g : e = [r EXCEPT !.img.ver = g]
      \/ \E g : \/ e = [r EXCEPT !.keys = g] \/ e = [r EXCEPT !.domain = g]
                \/ e = [r EXCEPT !.license = g]
      \/ \E l : e = [r EXCEPT !.tpl.labels = l]
  <2> DEFINE E2 == {[r EXCEPT !.img.reg = g] : g \in {"host", "host:port"}}
             E3 == {[r EXCEPT !.img.ver = v] : v \in {0, 3, 5}}
             E4 == {[r EXCEPT !.keys = k] : k \in Values}
             E5 == {[r EXCEPT !.domain = "other"]}
             E6 == {[r EXCEPT !.tpl.labels = ("user" :> v) @@ @] : v \in Values}
             E7 == {[r EXCEPT !.license = l]
                      : l \in IF edition = "enterprise" THEN Values ELSE {}}
  <2>1. e \in Edits(r) \/ e \in E2 \/ e \in E3 \/ e \in E4 \/ e \in E5 \/ e \in E6 \/ e \in E7
    BY Zenon DEF Edits4
  <2>2. QED
    BY <2>1, Zenon
<1>8. QED
  BY <1>1, <1>3, <1>4, <1>5, <1>6, <1>7

LEMMA Edits3Are ==
  ASSUME NEW o, IsV1beta3(o), NEW e \in Edits3(o)
  PROVE  IsV1beta3(e) /\ (Unclaimed(o.meta) => Unclaimed(e.meta))
<1>1. CASE e \in Edits(o)
  <2>1. \/ \E m : /\ IsMeta(m) /\ (Unclaimed(o.meta) => Unclaimed(m))
                  /\ e = [o EXCEPT !.meta = m]
        \/ \E x : e = [o EXCEPT !.n = x]
        \/ \E x : e = [o EXCEPT !.acl = x]
        \/ \E x : e = [o EXCEPT !.rest = x]
        \/ \E x : e = [o EXCEPT !.cfg = x]
        \/ e = [o EXCEPT !.svc = NoService]
    BY <1>1, EditsAre, Zenon DEF IsV1beta3
  <2>2. CASE \E m : /\ IsMeta(m) /\ (Unclaimed(o.meta) => Unclaimed(m))
                    /\ e = [o EXCEPT !.meta = m]
    BY <2>2 DEF IsV1beta3
  <2>3. CASE \/ \E x : e = [o EXCEPT !.n = x]
             \/ \E x : e = [o EXCEPT !.acl = x]
             \/ \E x : e = [o EXCEPT !.rest = x]
             \/ \E x : e = [o EXCEPT !.cfg = x]
             \/ e = [o EXCEPT !.svc = NoService]
    BY <2>3, NoServiceIs DEF IsV1beta3
  <2>4. QED
    BY <2>1, <2>2, <2>3
<1>2. CASE \/ \E x : e = [o EXCEPT !.img = x]
           \/ \E x : e = [o EXCEPT !.persist = x]
           \/ \E x : e = [o EXCEPT !.license = x]
           \/ e = o
  BY <1>2 DEF IsV1beta3
<1>3. \/ e \in Edits(o)
      \/ \E x : e = [o EXCEPT !.img = x]
      \/ \E x : e = [o EXCEPT !.persist = x]
      \/ \E x : e = [o EXCEPT !.license = x]
      \/ e = o
  BY Zenon DEF Edits3
<1>4. QED
  BY <1>1, <1>2, <1>3

\* A converted resource, field by field.
Converted(o, l) ==
    [meta |-> o.meta, n |-> o.n, domain |-> "cluster.local", svc |-> o.svc,
     persist |-> IF o.persist = None THEN None
                 ELSE [name |-> "emqx-data", meta |-> NoMeta, size |-> o.persist],
     tpl |-> o.meta,
     img |-> [reg |-> Zero, repo |-> o.img.path, ver |-> o.img.parts[1]],
     cfg |-> o.cfg, acl |-> o.acl, rest |-> o.rest, ports |-> <<>>,
     keys |-> Zero, license |-> l]

LEMMA ConvertToIs ==
  ASSUME NEW o, IsV1beta3(o)
  PROVE  /\ IsV1beta4(ConvertTo(o))
         /\ \E l : ConvertTo(o) = Converted(o, l)
<1>1. PICK b : b = ConvertToBroker(o)
  OBVIOUS
<1>2. b = Converted(o, Zero)
  BY <1>1 DEF ConvertToBroker, Converted
<1>3. ConvertTo(o) = b \/ ConvertTo(o) = [b EXCEPT !.license = o.license]
  BY <1>1 DEF ConvertTo, ConvertToEnterprise
<1>4. [b EXCEPT !.license = o.license] = Converted(o, o.license)
  BY <1>2 DEF Converted
<1>5. \E l : ConvertTo(o) = Converted(o, l)
  BY <1>2, <1>3, <1>4
<1>6. ASSUME NEW l
      PROVE  IsV1beta4(Converted(o, l))
  <2>1. PICK p : p = IF o.persist = None THEN None
                     ELSE [name |-> "emqx-data", meta |-> NoMeta, size |-> o.persist]
    OBVIOUS
  <2>2. p = None \/ IsClaim(p)
    <3>1. IsMeta(NoMeta)
      BY DEF NoMeta, IsMeta
    <3>2. QED
      BY <2>1, <3>1 DEF IsClaim
  <2>3. PICK q : q = <<>>
    OBVIOUS
  <2>4. IsList(q)
    BY <2>3 DEF IsList
  <2>5. IsMeta(o.meta) /\ IsService(o.svc)
    BY DEF IsV1beta3
  <2>6. PICK i : i = [reg |-> Zero, repo |-> o.img.path, ver |-> o.img.parts[1]]
    OBVIOUS
  <2>7. i = [reg |-> i.reg, repo |-> i.repo, ver |-> i.ver]
    BY <2>6
  <2>8. Converted(o, l) =
          [meta |-> o.meta, n |-> o.n, domain |-> "cluster.local", svc |-> o.svc,
           persist |-> p, tpl |-> o.meta, img |-> i, cfg |-> o.cfg, acl |-> o.acl,
           rest |-> o.rest, ports |-> q, keys |-> Zero, license |-> l]
    BY <2>1, <2>3, <2>6 DEF Converted
  <2>9. QED
    BY <2>2, <2>4, <2>5, <2>7, <2>8 DEF IsV1beta4
<1>7. QED
  BY <1>5, <1>6

\* What a client of v1beta3 reads.
LEMMA ConvertFromIs ==
  ASSUME NEW r, IsV1beta4(r)
  PROVE  LET o == ConvertFrom(r) IN
         /\ IsV1beta3(o) /\ o.meta = r.meta /\ o.n = r.n /\ o.svc = r.svc
         /\ o.persist = (IF r.persist = None THEN None ELSE r.persist.size)
         /\ o.img = GetEmqxImage(r.img) /\ o.cfg = r.cfg /\ o.acl = r.acl
         /\ o.rest = r.rest
<1>1. PICK p, i : /\ p = IF r.persist = None THEN None ELSE r.persist.size
                  /\ i = GetEmqxImage(r.img)
  OBVIOUS
<1>2. PICK b : b = ConvertFromBroker(r)
  OBVIOUS
<1>3. b = [meta |-> r.meta, n |-> r.n, svc |-> r.svc, persist |-> p, img |-> i,
           cfg |-> r.cfg, acl |-> r.acl, rest |-> r.rest, license |-> Zero]
  BY <1>1, <1>2 DEF ConvertFromBroker
<1>4. ConvertFrom(r) = b
  BY <1>2, <1>3 DEF ConvertFrom, ConvertFromEnterprise
<1>5. IsMeta(r.meta) /\ IsService(r.svc)
  BY DEF IsV1beta4
<1>6. IsV1beta3(b)
  BY <1>3, <1>5 DEF IsV1beta3
<1>7. QED
  BY <1>1, <1>3, <1>4, <1>6

-----------------------------------------------------------------------------
(* Invariants.                                                             *)

Keys == {"name", "cluster.discovery", "cluster.dns.name"}

\* A stored resource has its defaults, the keys of its identity among them, and
\* Default has set its label "instance".
DefaultedInv ==
    stored # None =>
        /\ IsV1beta4(stored) /\ Default(stored) = stored /\ stored.img.ver = 4
        /\ Keys \subseteq DOMAIN stored.cfg
        /\ Unclaimed(stored.meta)

\* What is written has the form of a resource before its defaults.
WrittenBy(r, api) ==
    /\ IsV1beta4(r)
    /\ Written(Default(r), api)
    /\ validateImageVersion(Default(r))

LEMMA NextWrites ==
  ASSUME DefaultedInv, Next
  PROVE  \E r, api : /\ WrittenBy(r, api)
                     /\ stored # None => ValidateUpdate(Default(r), stored)
                     /\ api = "v1beta3" => \E o : /\ IsV1beta3(o) /\ r = ConvertTo(o)
                                                  /\ \/ o \in Manifests3
                                                     \/ Unclaimed(o.meta)
<1>1. ASSUME NEW r, NEW api, IsV1beta4(r), Create(r, api) \/ Update(r, api)
      PROVE  WrittenBy(r, api) /\ (stored # None => ValidateUpdate(Default(r), stored))
  BY <1>1 DEF Create, Update, WrittenBy, ValidateCreate, ValidateUpdate
<1>2. CASE Write3
  <2>1. ASSUME NEW o, IsV1beta3(o), o \in Manifests3 \/ Unclaimed(o.meta),
               \/ Create(ConvertTo(o), "v1beta3")
               \/ Update(ConvertTo(o), "v1beta3")
        PROVE  \E r, api : /\ WrittenBy(r, api)
                           /\ stored # None => ValidateUpdate(Default(r), stored)
                           /\ \E u : /\ IsV1beta3(u) /\ r = ConvertTo(u)
                                     /\ u \in Manifests3 \/ Unclaimed(u.meta)
    <3>1. PICK r : r = ConvertTo(o)
      OBVIOUS
    <3>2. IsV1beta4(r)
      BY <2>1, <3>1, ConvertToIs
    <3>3. Create(r, "v1beta3") \/ Update(r, "v1beta3")
      BY <2>1, <3>1
    <3>4. QED
      BY <1>1, <2>1, <3>1, <3>2, <3>3
  <2>2. CASE \E o \in Manifests3 : \/ Create(ConvertTo(o), "v1beta3")
                                   \/ Update(ConvertTo(o), "v1beta3")
    BY <2>1, <2>2, ManifestsAssumption
  <2>3. CASE /\ stored # None
             /\ \E e \in Edits3(ConvertFrom(stored)) : Update(ConvertTo(e), "v1beta3")
    <3>1. PICK u : u = ConvertFrom(stored)
      OBVIOUS
    <3>2. PICK e \in Edits3(u) : Update(ConvertTo(e), "v1beta3")
      BY <2>3, <3>1
    <3>3. IsV1beta3(u) /\ Unclaimed(u.meta)
      BY <2>3, <3>1, ConvertFromIs DEF DefaultedInv
    <3>4. IsV1beta3(e) /\ Unclaimed(e.meta)
      BY <3>2, <3>3, Edits3Are
    <3>5. QED
      BY <2>1, <3>2, <3>4
  <2>4. QED
    BY <1>2, <2>2, <2>3 DEF Write3
<1>3. CASE Write4
  <2>1. CASE \E r \in Manifests4 : Create(r, "v1beta4") \/ Update(r, "v1beta4")
    BY <1>1, <2>1, ManifestsAssumption
  <2>2. CASE stored # None /\ \E e \in Edits4(stored) : Update(e, "v1beta4")
    <3>1. PICK s : s = stored
      OBVIOUS
    <3>2. PICK e \in Edits4(s) : Update(e, "v1beta4")
      BY <2>2, <3>1
    <3>3. IsV1beta4(e)
      BY <2>2, <3>1, <3>2, Edits4Are DEF DefaultedInv
    <3>4. QED
      BY <1>1, <3>2, <3>3
  <2>3. QED
    BY <1>3, <2>1, <2>2 DEF Write4
<1>4. QED
  BY <1>2, <1>3 DEF Next

\* The edition is chosen once, so defaults and conversions stay what they are.
LEMMA StoredDefault ==
  ASSUME NEW r, stored' = r, edition' = edition
  PROVE  /\ Default(stored)' = Default(r)
         /\ Default(ConvertTo(ConvertFrom(stored)))' = Default(ConvertTo(ConvertFrom(r)))
<1>1. Default(stored)' = Default(r)
  BY DEF Default, defaultEmqxImage
<1>2. PICK o : o = ConvertFrom(r)
  OBVIOUS
<1>3. ConvertFrom(stored)' = o
  BY <1>2 DEF ConvertFrom, ConvertFromEnterprise, ConvertFromBroker
<1>4. PICK c : c = ConvertTo(o)
  OBVIOUS
<1>5. ConvertTo(ConvertFrom(stored))' = c
  BY <1>3, <1>4 DEF ConvertTo, ConvertToEnterprise, ConvertToBroker
<1>6. Default(ConvertTo(ConvertFrom(stored)))' = Default(c)
  BY <1>5 DEF Default, defaultEmqxImage
<1>7. QED
  BY <1>1, <1>2, <1>4, <1>6

LEMMA InitDefaulted == Init => DefaultedInv
  BY DEF Init, DefaultedInv

LEMMA DefaultedHas ==
  ASSUME NEW r, IsV1beta4(r)
  PROVE  LET d == Default(r) IN
         /\ IsV1beta4(d) /\ Default(d) = d /\ Keys \subseteq DOMAIN d.cfg
         /\ Unclaimed(d.meta)
<1>1. PICK d : d = Default(r)
  OBVIOUS
<1>2. d.meta = Labeled(r.meta) /\ d.cfg = Configured(r.cfg, r.domain)
  BY <1>1, DefaultIs
<1>3. Keys \subseteq DOMAIN d.cfg
  BY <1>2, ConfigOnce DEF Keys
<1>4. Unclaimed(d.meta)
  BY <1>2, LabelsOnce DEF Unclaimed, IsV1beta4
<1>5. QED
  BY <1>1, <1>3, <1>4, DefaultTwice

LEMMA NextDefaulted == DefaultedInv /\ [Next]_vars => DefaultedInv'
<1> SUFFICES ASSUME DefaultedInv, [Next]_vars PROVE DefaultedInv'
  OBVIOUS
<1>1. ASSUME NEW d, stored' = d, edition' = edition,
             d # None => /\ IsV1beta4(d) /\ Default(d) = d /\ d.img.ver = 4
                         /\ Keys \subseteq DOMAIN d.cfg /\ Unclaimed(d.meta)
      PROVE  DefaultedInv'
  <2>1. Default(stored)' = Default(d)
    BY <1>1, StoredDefault
  <2>2. QED
    BY <1>1, <2>1 DEF DefaultedInv, IsV1beta4, Unclaimed
<1>2. CASE UNCHANGED vars
  <2>1. PICK d : d = stored
    OBVIOUS
  <2>2. stored' = d /\ edition' = edition
    BY <1>2, <2>1 DEF vars
  <2>3. QED
    BY <1>1, <2>1, <2>2 DEF DefaultedInv
<1>3. CASE Next
  <2>1. PICK r, api : WrittenBy(r, api)
    BY <1>3, NextWrites
  <2>2. PICK d : d = Default(r)
    OBVIOUS
  <2>3. stored' = d /\ edition' = edition /\ d.img.ver = 4
    BY <2>1, <2>2 DEF WrittenBy, Written, validateImageVersion
  <2>4. /\ IsV1beta4(d) /\ Default(d) = d /\ Keys \subseteq DOMAIN d.cfg
        /\ Unclaimed(d.meta)
    BY <2>1, <2>2, DefaultedHas DEF WrittenBy
  <2>5. QED
    BY <1>1, <2>3, <2>4
<1>4. QED
  BY <1>2, <1>3

\* A resource with its defaults is accepted as an update of itself.
LEMMA SelfUpdate ==
  ASSUME NEW r, r.img.ver = 4
  PROVE  ValidateUpdate(r, r)
  BY DEF ValidateUpdate, validateBootstrapAPIKey, validateImageVersion,
         validatePersistent, validateEmqxConfig

\* A write that changes nothing is accepted and changes nothing, after any
\* history of writes through both versions: Default is idempotent.
THEOREM DefaultsAreAFixedPoint == Spec => []StoredIsDefaulted
<1>1. DefaultedInv => StoredIsDefaulted
  BY SelfUpdate DEF DefaultedInv, StoredIsDefaulted
<1>2. QED
  BY <1>1, InitDefaulted, NextDefaulted, PTL DEF Spec

\* No sequence of writes changes the claim of the nodes' storage, the API keys,
\* the name of the nodes or how they find each other: Default puts the keys
\* back that a write leaves out, and ValidateUpdate compares them.
THEOREM IdentityIsKept == Spec => IdentityStays
<1>1. ASSUME DefaultedInv, Next, stored # None
      PROVE  Identity(stored') = Identity(stored)
  <2>1. PICK r, api : WrittenBy(r, api) /\ ValidateUpdate(Default(r), stored)
    BY <1>1, NextWrites
  <2>2. PICK d, s : d = Default(r) /\ s = stored
    OBVIOUS
  <2>3. stored' = d /\ ValidateUpdate(d, s)
    BY <2>1, <2>2 DEF WrittenBy, Written
  <2>4. Keys \subseteq DOMAIN d.cfg /\ Keys \subseteq DOMAIN s.cfg
    BY <1>1, <2>1, <2>2, DefaultedHas DEF WrittenBy, DefaultedInv
  <2>5. \A k \in Keys : d.cfg[k] = s.cfg[k]
    BY <2>3, <2>4 DEF ValidateUpdate, validateEmqxConfig, Keys
  <2>6. {<<k, d.cfg[k]>> : k \in DOMAIN d.cfg \cap Keys}
          = {<<k, s.cfg[k]>> : k \in DOMAIN s.cfg \cap Keys}
    <3>1. DOMAIN d.cfg \cap Keys = Keys /\ DOMAIN s.cfg \cap Keys = Keys
      BY <2>4
    <3>2. {<<k, d.cfg[k]>> : k \in Keys} = {<<k, s.cfg[k]>> : k \in Keys}
      BY <2>5
    <3>3. QED
      BY <3>1, <3>2
  <2>7. d.persist = s.persist /\ d.keys = s.keys
    BY <2>3 DEF ValidateUpdate, validatePersistent, validateBootstrapAPIKey
  <2>8. Identity(d) = Identity(s)
    BY <2>6, <2>7 DEF Identity, Keys
  <2>9. QED
    BY <2>2, <2>3, <2>8
<1>2. DefaultedInv /\ [Next]_vars =>
        [stored # None => Identity(stored') = Identity(stored)]_vars
  BY <1>1
<1>3. QED
  BY <1>2, InitDefaulted, NextDefaulted, PTL DEF Spec, IdentityStays

-----------------------------------------------------------------------------
(* There and back again.                                                   *)

\* What a client of v1beta3 writes, it reads and may write again: only the
\* licence can be another one then.
LEMMA RoundTrip ==
  ASSUME NEW o, IsV1beta3(o), Unclaimed(o.meta)
  PROVE  LET s == Default(ConvertTo(o))
             new == Default(ConvertTo(ConvertFrom(s)))
         IN  /\ new = [s EXCEPT !.license = new.license]
             /\ new.persist = s.persist /\ new.keys = s.keys /\ new.cfg = s.cfg
             /\ new.img = s.img
<1>1. PICK l : ConvertTo(o) = Converted(o, l) /\ IsV1beta4(ConvertTo(o))
  BY ConvertToIs
<1>2. PICK r : r = Converted(o, l)
  OBVIOUS
<1>3. PICK s : s = Default(r)
  OBVIOUS
<1>4. PICK m : m = Labeled(o.meta)
  OBVIOUS
<1>5. PICK x : x = Served(o.svc, m)
  OBVIOUS
<1>6. PICK p0 : p0 = IF o.persist = None THEN None
                     ELSE [name |-> "emqx-data", meta |-> NoMeta, size |-> o.persist]
  OBVIOUS
<1>7. PICK p : p = Claimed(p0, m)
  OBVIOUS
<1>8. PICK t : t = mergeMeta(o.meta, m)
  OBVIOUS
<1>9. PICK i0 : i0 = [reg |-> Zero, repo |-> o.img.path, ver |-> o.img.parts[1]]
  OBVIOUS
<1>10. PICK i : i = Imaged(i0)
  OBVIOUS
<1>11. PICK c, a, q : /\ c = Configured(o.cfg, "cluster.local") /\ a = Listed(o.acl)
                      /\ q = MergeServicePorts(<<>>, Ports)
  OBVIOUS
<1>12. /\ r.meta = o.meta /\ r.n = o.n /\ r.domain = "cluster.local" /\ r.svc = o.svc
       /\ r.persist = p0 /\ r.tpl = o.meta /\ r.img = i0 /\ r.cfg = o.cfg
       /\ r.acl = o.acl /\ r.rest = o.rest /\ r.ports = <<>> /\ r.keys = Zero
  BY <1>2, <1>6, <1>9 DEF Converted
<1>13. s = [meta |-> m, n |-> o.n, domain |-> "cluster.local", svc |-> x, persist |-> p,
            tpl |-> t, img |-> i, cfg |-> c, acl |-> a, rest |-> o.rest, ports |-> q,
            keys |-> Zero, license |-> r.license]
  BY <1>1, <1>2, <1>3, <1>4, <1>5, <1>7, <1>8, <1>10, <1>11, <1>12, DefaultIs
<1>14. IsV1beta4(s)
  BY <1>1, <1>2, <1>3, DefaultTwice
<1>15. PICK u : u = ConvertFrom(s)
  OBVIOUS
<1>16. /\ IsV1beta3(u) /\ u.meta = m /\ u.n = o.n /\ u.svc = x
       /\ u.persist = (IF p = None THEN None ELSE p.size)
       /\ u.img = GetEmqxImage(i) /\ u.cfg = c /\ u.acl = a /\ u.rest = o.rest
  BY <1>13, <1>14, <1>15, ConvertFromIs
<1>17. PICK k : ConvertTo(u) = Converted(u, k) /\ IsV1beta4(ConvertTo(u))
  BY <1>16, ConvertToIs
<1>18. PICK v : v = Converted(u, k)
  OBVIOUS
<1>19. i = [reg |-> Zero, repo |-> i.repo, ver |-> o.img.parts[1]] /\ Imaged(i) = i
  BY <1>9, <1>10, ImageOnce
<1>20. [reg |-> Zero, repo |-> u.img.path, ver |-> u.img.parts[1]] = i
  <2>1. i.reg = Zero
    BY <1>19
  <2>2. u.img = [path |-> i.repo, parts |-> <<i.ver>>]
    BY <1>16, <2>1 DEF GetEmqxImage, Zero
  <2>3. u.img.path = i.repo /\ u.img.parts[1] = i.ver
    BY <2>2
  <2>4. QED
    BY <1>19, <2>3
<1>21. PICK p1 : p1 = IF u.persist = None THEN None
                      ELSE [name |-> "emqx-data", meta |-> NoMeta, size |-> u.persist]
  OBVIOUS
<1>22. /\ v.meta = m /\ v.n = o.n /\ v.domain = "cluster.local" /\ v.svc = x
       /\ v.persist = p1 /\ v.tpl = m /\ v.img = i /\ v.cfg = c
       /\ v.acl = a /\ v.rest = o.rest /\ v.ports = <<>> /\ v.keys = Zero
  BY <1>16, <1>18, <1>20, <1>21 DEF Converted
<1>23. PICK new : new = Default(v)
  OBVIOUS
<1>24. IsMeta(m) /\ Labeled(m) = m
  BY <1>4, LabelsOnce DEF IsV1beta3
<1>25. Served(x, m) = x
  BY <1>5, ServiceOnce DEF IsV1beta3, IsService
<1>26. Claimed(p1, m) = p
  <2>1. CASE p0 = None
    BY <1>7, <1>16, <1>21, <2>1 DEF Claimed
  <2>2. CASE p0 # None
    <3>1. p0 = [name |-> "emqx-data", meta |-> NoMeta, size |-> o.persist] /\ o.persist # None
      BY <1>6, <2>2
    <3>2. PICK y : y = mergeMeta(NoMeta, m)
      OBVIOUS
    <3>3. p = [name |-> "emqx-data", meta |-> y, size |-> o.persist]
      BY <1>7, <2>2, <3>1, <3>2 DEF Claimed, Zero
    <3>4. CASE p = None
      BY <1>16, <1>21, <3>4 DEF Claimed
    <3>5. CASE p # None
      <4>1. u.persist = o.persist
        BY <1>16, <3>3, <3>5
      <4>2. p1 = p0
        BY <1>21, <3>1, <4>1
      <4>3. QED
        BY <1>7, <4>2
    <3>6. QED
      BY <3>4, <3>5
  <2>3. QED
    BY <2>1, <2>2
<1>27. mergeMeta(m, m) = t
  <2>1. PICK j : j = "instance" :> "emqx"
    OBVIOUS
  <2>2. m = [labels |-> j @@ o.meta.labels, ann |-> o.meta.ann]
    BY <1>4, <2>1 DEF Labeled, IsV1beta3, IsMeta
  <2>3. PICK b, e : b = o.meta.labels /\ e = j @@ b
    OBVIOUS
  <2>4. b @@ e = e @@ e
    <3>1. /\ DOMAIN e = {"instance"} \cup DOMAIN b
          /\ e["instance"] = "emqx"
          /\ \A z \in DOMAIN b : z # "instance" => e[z] = b[z]
      BY <2>1, <2>3 DEF @@, :>
    <3>2. \A z \in DOMAIN b : e[z] = b[z]
      BY <2>3, <3>1 DEF Unclaimed
    <3>3. b @@ e = [z \in DOMAIN b \cup DOMAIN e |-> IF z \in DOMAIN b THEN b[z] ELSE e[z]]
      BY DEF @@
    <3>4. e @@ e = [z \in DOMAIN e \cup DOMAIN e |-> IF z \in DOMAIN e THEN e[z] ELSE e[z]]
      BY DEF @@
    <3>5. QED
      BY <3>1, <3>2, <3>3, <3>4
  <2>5. m.labels = e /\ m.ann = o.meta.ann
    BY <2>2, <2>3
  <2>6. QED
    BY <1>8, <2>3, <2>4, <2>5 DEF mergeMeta
<1>28. Configured(c, "cluster.local") = c /\ Listed(a) = a
  BY <1>11, ConfigOnce DEF Listed, Zero
<1>29. new = [meta |-> m, n |-> o.n, domain |-> "cluster.local", svc |-> x, persist |-> p,
              tpl |-> t, img |-> i, cfg |-> c, acl |-> a, rest |-> o.rest, ports |-> q,
              keys |-> Zero, license |-> v.license]
  BY <1>11, <1>17, <1>18, <1>19, <1>22, <1>23, <1>24, <1>25, <1>26, <1>27, <1>28, DefaultIs
<1>30. /\ new = [s EXCEPT !.license = new.license]
       /\ new.persist = s.persist /\ new.keys = s.keys /\ new.cfg = s.cfg
       /\ new.img = s.img
  BY <1>13, <1>29
<1>31. QED
  BY <1>1, <1>2, <1>3, <1>15, <1>17, <1>18, <1>23, <1>30

-----------------------------------------------------------------------------
(* The clients of v1beta3.                                                 *)

\* What OldClientsReadWhatTheyWrote says of a resource.
Back(r) ==
    LET new == Default(ConvertTo(ConvertFrom(r)))
    IN  /\ ValidateUpdate(new, r)
        /\ new = [r EXCEPT !.license = new.license]

OldInv == stored # None /\ old => Back(stored)

\* Every write of a client of v1beta3 leaves a resource that goes there and
\* back.
LEMMA OldWrite ==
  ASSUME \A o \in Manifests3 : Unclaimed(o.meta), DefaultedInv, Next, old'
  PROVE  \E d : stored' = d /\ Back(d) /\ Back(stored)' = Back(d)
<1>1. PICK r, api : /\ WrittenBy(r, api)
                    /\ api = "v1beta3" => \E o : /\ IsV1beta3(o) /\ r = ConvertTo(o)
                                                 /\ \/ o \in Manifests3
                                                    \/ Unclaimed(o.meta)
  BY NextWrites
<1>2. PICK d : d = Default(r)
  OBVIOUS
<1>3. /\ IsV1beta4(r) /\ stored' = d /\ edition' = edition /\ api = "v1beta3"
      /\ validateImageVersion(d)
  BY <1>1, <1>2 DEF WrittenBy, Written
<1>4. PICK o : IsV1beta3(o) /\ r = ConvertTo(o) /\ Unclaimed(o.meta)
  BY <1>1, <1>3
<1>5. PICK new : new = Default(ConvertTo(ConvertFrom(d)))
  OBVIOUS
<1>6. /\ new = [d EXCEPT !.license = new.license]
      /\ new.persist = d.persist /\ new.keys = d.keys /\ new.cfg = d.cfg
      /\ new.img = d.img
  BY <1>2, <1>4, <1>5, RoundTrip
<1>7. Keys \subseteq DOMAIN d.cfg
  BY <1>2, <1>3, DefaultedHas
<1>8. ValidateUpdate(new, d)
  BY <1>3, <1>6, <1>7
     DEF ValidateUpdate, validateImageVersion, validateBootstrapAPIKey,
         validatePersistent, validateEmqxConfig, Keys
<1>9. Back(d)
  BY <1>5, <1>6, <1>8 DEF Back
<1>10. Default(ConvertTo(ConvertFrom(stored)))' = new
  BY <1>3, <1>5, StoredDefault
<1>11. Back(stored)'
  BY <1>3, <1>6, <1>8, <1>10
     DEF Back, ValidateUpdate, validateImageVersion, validateBootstrapAPIKey,
         validatePersistent, validateEmqxConfig
<1>12. QED
  BY <1>3, <1>9, <1>11

\* As long as only clients of v1beta3 have written, one of them may write back
\* what it reads, and only the licence can differ.  Their manifests do not set
\* the label "instance": the conversion copies the labels to the template of
\* the pods before Default sets that one, and Default never replaces it there.
THEOREM OldClientsAgree ==
  ASSUME \A o \in Manifests3 : Unclaimed(o.meta)
  PROVE  Spec => []OldClientsReadWhatTheyWrote
<1>1. Init => OldInv
  BY DEF Init, OldInv
<1>2. DefaultedInv /\ OldInv /\ [Next]_vars => OldInv'
  <2>1. ASSUME DefaultedInv, Next PROVE OldInv'
    BY <2>1, OldWrite DEF OldInv
  <2>2. ASSUME OldInv, UNCHANGED vars PROVE OldInv'
    <3>1. PICK s : s = stored
      OBVIOUS
    <3>2. stored' = s /\ stored = s /\ old' = old /\ edition' = edition
      BY <2>2, <3>1 DEF vars
    <3>3. PICK new : new = Default(ConvertTo(ConvertFrom(s)))
      OBVIOUS
    <3>4. Default(ConvertTo(ConvertFrom(stored)))' = new
      BY <3>2, <3>3, StoredDefault
    <3>5. Default(ConvertTo(ConvertFrom(stored))) = new
      BY <3>2, <3>3
    <3>6. QED
      BY <2>2, <3>2, <3>4, <3>5
         DEF OldInv, Back, ValidateUpdate, validateImageVersion,
             validateBootstrapAPIKey, validatePersistent, validateEmqxConfig
  <2>3. QED
    BY <2>1, <2>2
<1>3. OldInv => OldClientsReadWhatTheyWrote
  BY DEF OldInv, Back, OldClientsReadWhatTheyWrote
<1>4. QED
  BY <1>1, <1>2, <1>3, InitDefaulted, NextDefaulted, PTL DEF Spec

=============================================================================
