----------------------------- MODULE MCAdmission -----------------------------
(* TLC instances of Admission.                                             *)
EXTENDS Admission

Meta(ann) == [labels |-> <<>>, ann |-> ann]

MCBare3 == [meta |-> Meta("last-applied" :> "v1"), n |-> 3, svc |-> NoService,
            persist |-> None, img |-> [path |-> <<"emqx">>, parts |-> <<4>>], cfg |-> <<>>, acl |-> Zero,
            rest |-> Zero, license |-> Zero]
MCFull3 == [MCBare3 EXCEPT !.meta = Meta("note" :> "v1"), !.persist = 1,
                           !.cfg = "cluster.k" :> "v1", !.rest = "own", !.license = "v1",
                           !.svc.ports = <<ServicePort("mqtt", 8081, FALSE)>>]
MCManifests3 == {MCBare3, MCFull3}

MCBare4 == [meta |-> Meta("last-applied" :> "v1"), n |-> 3, domain |-> "cluster.local",
            svc |-> NoService, persist |-> None, tpl |-> NoMeta,
            img |-> [reg |-> Zero, repo |-> <<>>, ver |-> 4],
            cfg |-> <<>>, acl |-> Zero, rest |-> Zero, ports |-> <<>>,
            keys |-> Zero, license |-> Zero]
MCFull4 == [MCBare4 EXCEPT !.domain = "other", !.keys = "v1", !.cfg = "name" :> "v1",
                           !.ports = <<Dashboard>>,
                           !.persist = [name |-> Zero, meta |-> NoMeta, size |-> 1]]
MCManifests4 == {MCBare4, MCFull4, [MCFull4 EXCEPT !.persist.size = 2]}
=============================================================================
