------------------------------ MODULE Admission ------------------------------
(***************************************************************************)
(* How a write of an EmqxBroker or EmqxEnterprise is admitted.  Resources   *)
(* are stored as v1beta4.  A client of v1beta3 reads one converted          *)
(* (ConvertFrom) and its writes are converted back (ConvertTo); then the    *)
(* webhook fills in the defaults (Default) and compares the result with the *)
(* stored resource (ValidateUpdate).                                       *)
(*                                                                         *)
(* Maps of strings are functions.  Of an image only what the code takes     *)
(* apart is kept: a v1beta3 image is a path and the parts behind its colons,  *)
(* a version a number of which 4 is allowed.  rest stands for the fields    *)
(* that both conversions copy when they are set: arguments, resources,      *)
(* probes, volumes, containers, environment, scheduling.                    *)
(***************************************************************************)
EXTENDS ServicePorts

CONSTANTS
    None,                     \* a resource, or a claim, that is not there
    Manifests3, Manifests4,   \* what a client may create, in each version
    AnnKeys, Values,          \* annotations and values a client may set
    MaxWrites                 \* bound on the writes of clients

VARIABLES
    edition,  \* "broker" or "enterprise"
    stored,   \* the v1beta4 resource; None before it is created
    old,      \* history: every write so far was one of v1beta3
    writes

vars == <<edition, stored, old, writes>>

Zero == "zero"    \* a field that is not set

-----------------------------------------------------------------------------
(* The two versions.                                                       *)

IsMeta(m) == m = [labels |-> m.labels, ann |-> m.ann]

IsList(l) == l \in Seq({l[i] : i \in DOMAIN l})

IsService(s) == /\ s = [meta |-> s.meta, sel |-> s.sel, ports |-> s.ports]
                /\ IsMeta(s.meta) /\ IsList(s.ports)

IsClaim(p) == p = [name |-> p.name, meta |-> p.meta, size |-> p.size] /\ IsMeta(p.meta)

IsV1beta3(o) ==
    /\ o = [meta |-> o.meta, n |-> o.n, svc |-> o.svc, persist |-> o.persist,
            img |-> o.img, cfg |-> o.cfg, acl |-> o.acl, rest |-> o.rest,
            license |-> o.license]
    /\ IsMeta(o.meta) /\ IsService(o.svc)

IsV1beta4(r) ==
    /\ r = [meta |-> r.meta, n |-> r.n, domain |-> r.domain, svc |-> r.svc,
            persist |-> r.persist, tpl |-> r.tpl, img |-> r.img, cfg |-> r.cfg,
            acl |-> r.acl, rest |-> r.rest, ports |-> r.ports, keys |-> r.keys,
            license |-> r.license]
    /\ IsMeta(r.meta) /\ IsMeta(r.tpl) /\ IsService(r.svc) /\ IsList(r.ports)
    /\ r.img = [reg |-> r.img.reg, repo |-> r.img.repo, ver |-> r.img.ver]
    /\ r.persist = None \/ IsClaim(r.persist)

ASSUME ManifestsAssumption ==
    (\A o \in Manifests3 : IsV1beta3(o)) /\ (\A r \in Manifests4 : IsV1beta4(r))

-----------------------------------------------------------------------------
(* Defaults.                                                               *)

Without(f, k) == [x \in DOMAIN f \ {k} |-> f[x]]

\* The last-applied-configuration annotation is not handed on.
mergeMeta(dst, src) ==
    [labels |-> dst.labels @@ src.labels,
     ann |-> Without(dst.ann @@ src.ann, "last-applied")]

defaultLabelsAndAnnotations(r) ==
    LET meta == [r.meta EXCEPT !.labels = ("instance" :> "emqx") @@ @]
    IN  [r EXCEPT !.meta = meta, !.tpl = mergeMeta(@, meta)]

defaultEmqxImage(r) ==
    [r EXCEPT !.img.repo =
        IF @ # <<>> THEN @
        ELSE IF edition = "broker" THEN <<"emqx">> ELSE <<"emqx-ee">>]

defaultEmqxACL(r) == [r EXCEPT !.acl = IF @ = Zero THEN "default" ELSE @]

\* A mutant: the node name is left to EMQX.
defaultEmqxConfigNoName(r) ==
    [r EXCEPT !.cfg = @ @@ ("log.to" :> "console") @@ ("cluster.discovery" :> "dns")
                        @@ ("cluster.dns.name" :> r.domain)]

defaultEmqxConfig(r) ==
    [r EXCEPT !.cfg = @ @@ ("name" :> "emqx") @@ ("log.to" :> "console")
                        @@ ("cluster.discovery" :> "dns")
                        @@ ("cluster.dns.name" :> r.domain)]

Management == ServicePort("management", 8081, FALSE)
Dashboard == ServicePort("dashboard", 18083, FALSE)

\* A mutant: the ports are put behind the given ones as they are.
defaultServiceTemplateAppends(r) ==
    [r EXCEPT !.svc.meta = mergeMeta(@, r.meta),
              !.svc.sel = r.meta.labels,
              !.svc.ports = @ \o <<Management, Dashboard>>]

defaultServiceTemplate(r) ==
    [r EXCEPT !.svc =
        [meta |-> mergeMeta(@.meta, r.meta), sel |-> r.meta.labels,
         ports |-> MergeServicePorts(@.ports, <<Management, Dashboard>>)]]

defaultContainerPort(r) ==
    [r EXCEPT !.ports = MergeServicePorts(@, <<Management, Dashboard>>)]

defaultPersistent(r) ==
    [r EXCEPT !.persist =
        IF @ = None THEN None
        ELSE [name |-> IF @.name = Zero THEN "emqx-data" ELSE @.name,
              meta |-> mergeMeta(@.meta, r.meta), size |-> @.size]]

Default(r) ==
    defaultPersistent(defaultContainerPort(defaultServiceTemplate(
        defaultEmqxConfig(defaultEmqxACL(defaultEmqxImage(
            defaultLabelsAndAnnotations(r)))))))

-----------------------------------------------------------------------------
(* Validation.                                                             *)

validateImageVersion(new) == new.img.ver = 4

ValidateCreate(new) == validateImageVersion(new)

validatePersistent(new, was) == new.persist = was.persist

\* A key that is taken away, or that is new, is not compared; of the keys of
\* the model all but "log.to" begin with "cluster".
validateEmqxConfig(new, was) ==
    /\ "name" \in DOMAIN new.cfg => /\ "name" \in DOMAIN was.cfg
                                   /\ new.cfg["name"] = was.cfg["name"]
    /\ \A k \in DOMAIN was.cfg \ {"name", "log.to"} :
          k \in DOMAIN new.cfg => new.cfg[k] = was.cfg[k]

validateBootstrapAPIKey(new, was) == new.keys = was.keys

ValidateUpdate(new, was) ==
    /\ validateBootstrapAPIKey(new, was) /\ validateImageVersion(new)
    /\ validatePersistent(new, was) /\ validateEmqxConfig(new, was)

-----------------------------------------------------------------------------
(* Conversion.                                                             *)

NoMeta == [labels |-> <<>>, ann |-> <<>>]
NoService == [meta |-> NoMeta, sel |-> <<>>, ports |-> <<>>]

\* A registry is put before the repository.  Its port is the first part that
\* stands behind a colon.
GetEmqxImage(img) ==
    CASE img.reg = Zero -> [path |-> img.repo, parts |-> <<img.ver>>]
      [] img.reg = "host" -> [path |-> <<"host">> \o img.repo, parts |-> <<img.ver>>]
      [] img.reg = "host:port" -> [path |-> <<"host">>, parts |-> <<5000, img.ver>>]

\* An image without a tag has no second part (image[1]), and the conversion panics.
Convertible(o) == Len(o.img.parts) > 0

ConvertToBroker(o) ==
    [meta |-> o.meta, n |-> o.n, domain |-> "cluster.local", svc |-> o.svc,
     persist |-> IF o.persist = None THEN None
                 ELSE [name |-> "emqx-data", meta |-> NoMeta,
                       size |-> o.persist],
     tpl |-> o.meta,
     img |-> [reg |-> Zero, repo |-> o.img.path, ver |-> o.img.parts[1]],
     cfg |-> o.cfg, acl |-> o.acl, rest |-> o.rest, ports |-> <<>>,
     keys |-> Zero, license |-> Zero]

ConvertToEnterprise(o) == [ConvertToBroker(o) EXCEPT !.license = o.license]

ConvertTo(o) ==
    IF edition = "broker" THEN ConvertToBroker(o) ELSE ConvertToEnterprise(o)

\* A mutant: the storage is forgotten.
ConvertFromNoStorage(r) ==
    [meta |-> r.meta, n |-> r.n, svc |-> r.svc, persist |-> None,
     img |-> GetEmqxImage(r.img),
     cfg |-> r.cfg, acl |-> r.acl, rest |-> r.rest, license |-> Zero]

ConvertFromBroker(r) ==
    [meta |-> r.meta, n |-> r.n, svc |-> r.svc,
     persist |-> IF r.persist = None THEN None ELSE r.persist.size,
     img |-> GetEmqxImage(r.img),
     cfg |-> r.cfg, acl |-> r.acl, rest |-> r.rest, license |-> Zero]

\* The licence is copied if the result has one already: it has none.
ConvertFromEnterprise(r) ==
    LET dst == ConvertFromBroker(r)
    IN  IF dst.license = Zero THEN dst ELSE [dst EXCEPT !.license = r.license]

ConvertFrom(r) ==
    IF edition = "broker" THEN ConvertFromBroker(r) ELSE ConvertFromEnterprise(r)

-----------------------------------------------------------------------------
(* The writes of clients.                                                  *)

\* What a client may change in a resource of either version.
Edits(r) ==
    {[r EXCEPT !.meta.ann = (k :> v) @@ @] : k \in AnnKeys, v \in Values}
    \cup {[r EXCEPT !.meta.ann = Without(@, k)] : k \in AnnKeys}
    \cup {[r EXCEPT !.meta.labels = ("user" :> v) @@ @] : v \in Values}
    \cup {[r EXCEPT !.n = v] : v \in {1, 3}}
    \cup {[r EXCEPT !.acl = a] : a \in {Zero, "own"}}
    \cup {[r EXCEPT !.rest = a] : a \in {Zero, "own"}}
    \cup {[r EXCEPT !.cfg = (k :> v) @@ @]
            : k \in {"name", "cluster.discovery", "cluster.k", "log.to"}, v \in Values}
    \cup {[r EXCEPT !.cfg = Without(@, k)]
            : k \in {"name", "cluster.discovery", "cluster.k", "log.to"}}
    \cup {[r EXCEPT !.svc = NoService]}

Edits3(o) ==
    Edits(o) \cup {[o EXCEPT !.img = i]
                     : i \in [path : {<<"emqx">>, <<"own">>}, parts : {<<>>, <<4>>, <<5>>}]}
             \cup {[o EXCEPT !.persist = p] : p \in {None, 1, 2}}
             \cup {[o EXCEPT !.license = l] : l \in Values}
             \cup {o}

Edits4(r) ==
    Edits(r) \cup {[r EXCEPT !.img.reg = g] : g \in {"host", "host:port"}}
             \cup {[r EXCEPT !.img.ver = v] : v \in {0, 3, 5}}
             \cup {[r EXCEPT !.keys = k] : k \in Values}
             \cup {[r EXCEPT !.domain = "other"]}
             \cup {[r EXCEPT !.tpl.labels = ("user" :> v) @@ @] : v \in Values}
             \cup {[r EXCEPT !.license = l]
                     : l \in IF edition = "enterprise" THEN Values ELSE {}}

Written(new, api) ==
    /\ stored' = new
    /\ old' = (old /\ api = "v1beta3")
    /\ writes' = writes + 1 /\ UNCHANGED edition

Create(r, api) ==
    /\ stored = None /\ ValidateCreate(Default(r))
    /\ Written(Default(r), api)

\* The same webhook serves updates of fields and replacements by a manifest.
Update(r, api) ==
    /\ stored # None /\ writes < MaxWrites
    /\ ValidateUpdate(Default(r), stored)
    /\ Written(Default(r), api)

Write3 ==
    \/ \E o \in Manifests3 :
          Convertible(o) /\ (Create(ConvertTo(o), "v1beta3")
                             \/ Update(ConvertTo(o), "v1beta3"))
    \/ /\ stored # None
       /\ \E e \in Edits3(ConvertFrom(stored)) :
             Convertible(e) /\ Update(ConvertTo(e), "v1beta3")

Write4 ==
    \/ \E r \in Manifests4 : Create(r, "v1beta4") \/ Update(r, "v1beta4")
    \/ /\ stored # None
       /\ \E e \in Edits4(stored) : Update(e, "v1beta4")

Init ==
    /\ edition \in {"broker", "enterprise"} /\ stored = None /\ old = TRUE
    /\ writes = 0

Next == Write3 \/ Write4

Spec == Init /\ [][Next]_vars

-----------------------------------------------------------------------------
(* Properties.                                                             *)

\* What is stored has all its defaults and passes the validation that will
\* be asked of it: a write that changes nothing is accepted and changes
\* nothing, after any history of writes (Default is idempotent, ports and
\* maps do not grow).
StoredIsDefaulted ==
    stored # None => /\ Default(stored) = stored
                     /\ ValidateUpdate(stored, stored)

\* What the data of the nodes hang on: the name of the node, how the nodes
\* find each other, their storage, and the API keys.
Identity(r) ==
    [persist |-> r.persist, keys |-> r.keys,
     cfg |-> {<<k, r.cfg[k]>> : k \in DOMAIN r.cfg
                \cap {"name", "cluster.discovery", "cluster.dns.name"}}]

\* No sequence of writes through both versions, field by field or by whole
\* manifests, changes the identity of a resource (Default puts keys back that
\* a write leaves out, then ValidateUpdate compares).
IdentityStays ==
    [][stored # None => Identity(stored') = Identity(stored)]_vars

\* A client of v1beta3 that writes back what it has read is accepted, as long
\* as the resource was only written by such clients, and only the licence can
\* differ afterwards (ConvertTo undoes ConvertFrom, after Default).
OldClientsReadWhatTheyWrote ==
    stored # None /\ old =>
        LET new == Default(ConvertTo(ConvertFrom(stored)))
        IN  /\ ValidateUpdate(new, stored)
            /\ new = [stored EXCEPT !.license = new.license]
=============================================================================
