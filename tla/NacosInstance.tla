---------------------------- MODULE NacosInstance ---------------------------
(***************************************************************************)
(* One service instance on its way into the Nacos registry and back:       *)
(* fromInstance and toInstance of pkg/naming/nacos_client.go, the groups   *)
(* and parameters of nacos_naming_cli.go, and the Deregister message of    *)
(* rpc_client.go and server.go.                                            *)
(*                                                                         *)
(* The fields that Nacos has no place for travel as texts in the metadata. *)
(* A text is [s, n]: s names a text that is no number, or is "num" for the *)
(* decimal form of n.  An absent metadata key reads as the empty text.     *)
(* int32 has 2 * Half values and uint64 has Wide values.                   *)
(*                                                                         *)
(* The registry is external.  The model follows the entry of the latest    *)
(* registration; entries do not influence one another.  NameBack is the    *)
(* service name that the registry's client gives in an instance for the    *)
(* one it was registered under (it may put the group in front of it).      *)
(***************************************************************************)
EXTENDS Integers

CONSTANTS
    Half, Wide,     \* bounds: the widths of int32 and uint64
    ServiceName,    \* names of services
    NameBack,       \* name registered under -> name in the answer
    Instance,       \* the instances that are registered through fromInstance
    Foreign,        \* what other programs put into the registry
    Words           \* the names of texts

VARIABLES
    reg,            \* the entry in the registry, Nothing if none
    orig,           \* the gen.Instance it was made from; Nothing if by others
    asked,          \* name and group of the latest query, Nothing if none since
    found           \* what it made of the entry, Nothing if it is not in the answer

nacosVars == <<reg, orig, asked, found>>

Nothing == [kind |-> "nothing"]

Text(x) == [s |-> x, n |-> 0]
Blank == Text("")
DefaultGroupName == Text("DEFAULT_GROUP")

Itoa(k) == [s |-> "num", n |-> k]

\* The keys that fromInstance uses, and one for all others.
MetaKey == {"inner_ip", "inner_port", "public_ip", "public_port", "node", "zone"}
Written == [s : Words, n : Int]
Metadata == [MetaKey -> Written]

\* gen.Instance and model.Instance.
Instances ==
    [name : ServiceName, privateIp : Written, innerIp : Written, publicIp : Written,
     privatePort : -Half..(Half - 1), innerPort : -Half..(Half - 1), publicPort : -Half..(Half - 1),
     node : -Half..(Half - 1), healthy : BOOLEAN, ephemeral : BOOLEAN, extra : Metadata]
Entries ==
    [name : ServiceName, group : Written, ip : Written, port : 0..(Wide - 1), meta : Metadata,
     ephemeral : BOOLEAN]

ASSUME NacosConstants ==
    /\ Half \in Nat \ {0} /\ Wide \in Nat \ {0} /\ Wide % (2 * Half) = 0
    /\ NameBack \in [ServiceName -> ServiceName]
    /\ {Blank, DefaultGroupName, Itoa(0)} \subseteq Written
    /\ Instance \subseteq Instances /\ Foreign \subseteq Entries

\* The int32 and uint64 that a conversion of k gives.
Int32(k) == ((k + Half) % (2 * Half)) - Half
Uint64(k) == k % Wide

\* strconv.Atoi and the conversion to int32, or a default if that fails.
AtoiOr(t, default) == Int32(IF t.s = "num" THEN t.n ELSE default)

\* A fromInstance that copies Extra last.
fromInstanceExtraLast(inst) ==
    [name |-> inst.name, ip |-> inst.privateIp, port |-> Uint64(inst.privatePort),
     meta |-> [key \in DOMAIN inst.extra |->
        IF inst.extra[key] # Blank THEN inst.extra[key] ELSE
        CASE key = "inner_ip" -> inst.innerIp
          [] key = "inner_port" -> Itoa(inst.innerPort)
          [] key = "public_ip" -> inst.publicIp
          [] key = "public_port" -> Itoa(inst.publicPort)
          [] key = "node" -> Itoa(inst.node)
          [] OTHER -> Blank]]

\* Extra with five keys of its own on top.
fromInstance(inst) ==
    [name |-> inst.name, ip |-> inst.privateIp, port |-> Uint64(inst.privatePort),
     meta |-> [inst.extra EXCEPT !["inner_ip"] = inst.innerIp,
                                 !["inner_port"] = Itoa(inst.innerPort),
                                 !["public_ip"] = inst.publicIp,
                                 !["public_port"] = Itoa(inst.publicPort),
                                 !["node"] = Itoa(inst.node)]]

\* What RegisterInstance hands to the registry: the group is the node's number,
\* and every instance is ephemeral, whatever it says itself.  Weight, health
\* and enabling are not handed on either: they are 1 and TRUE in the registry.
RegisterParam(inst) ==
    LET m == fromInstance(inst) IN
    [name |-> m.name, group |-> Itoa(inst.node), ip |-> m.ip, port |-> m.port, meta |-> m.meta,
     ephemeral |-> TRUE]

\* The entry as an answer of the registry has it.
Answer(r) == [r EXCEPT !.name = NameBack[r.name]]

OrElse(t, other) == IF t = Blank THEN other ELSE t

toInstance(r) ==
    [name |-> r.name, privateIp |-> r.ip, privatePort |-> Int32(r.port),
     innerIp |-> OrElse(r.meta["inner_ip"], r.ip),
     innerPort |-> AtoiOr(r.meta["inner_port"], r.port),
     publicIp |-> OrElse(r.meta["public_ip"], r.ip),
     publicPort |-> AtoiOr(r.meta["public_port"], r.port),
     node |-> AtoiOr(r.meta["node"], 0),
     healthy |-> TRUE, ephemeral |-> r.ephemeral, extra |-> r.meta]

NacosInit == reg = Nothing /\ orig = Nothing /\ asked = Nothing /\ found = Nothing

RegisterInstance(inst) ==
    /\ reg' = RegisterParam(inst)
    /\ orig' = inst
    /\ asked' = Nothing /\ found' = Nothing

RegisterForeign(r) ==
    /\ reg' = r
    /\ orig' = Nothing /\ asked' = Nothing /\ found' = Nothing

\* The naming client selects by service name and group.
Selected(query) == reg # Nothing /\ query = [name |-> reg.name, group |-> reg.group]

\* GetServiceInstances, GetService, GetServiceInstance and
\* GetServiceInstanceByGroup ask for a group; the ByName methods ask for the
\* default group, the one explicitly and the other by leaving it out.
GetServiceInstances(name, group) ==
    /\ asked' = [name |-> name, group |-> group]
    /\ found' = IF Selected(asked') THEN toInstance(Answer(reg)) ELSE Nothing
    /\ UNCHANGED <<reg, orig>>

GetServiceInstancesByName(name) == GetServiceInstances(name, DefaultGroupName)

\* What a Deregister of the given instance asks the registry to drop: on the
\* way to the discovery server the port goes through an int32 and the group
\* through a number, and the kind is left at its zero value, not ephemeral.
DeregisterParam(inst) ==
    [name |-> inst.name, group |-> Itoa(AtoiOr(Itoa(inst.node), 0)), ip |-> inst.privateIp,
     port |-> Uint64(Int32(Uint64(inst.privatePort))), ephemeral |-> FALSE]

\* Whether a request is about an entry, its kind left aside.
Names(p, r) == p.name = r.name /\ p.group = r.group /\ p.ip = r.ip /\ p.port = r.port

\* The registry drops an entry that the request names.  It may also ignore a
\* request of another kind than the entry (a step that changes nothing).
DeregisterInstance(inst) ==
    /\ inst # Nothing /\ reg # Nothing /\ Names(DeregisterParam(inst), reg)
    /\ reg' = Nothing /\ orig' = Nothing /\ asked' = Nothing /\ found' = Nothing

NacosNext ==
    \/ \E inst \in Instance : reg = Nothing /\ RegisterInstance(inst)
    \/ \E r \in Foreign : reg = Nothing /\ RegisterForeign(r)
    \/ found # Nothing /\ RegisterInstance(found)
    \/ \E n \in ServiceName :
        \/ \E k \in {0, 1} \cup {inst.node : inst \in Instance} : GetServiceInstances(n, Itoa(k))
        \/ GetServiceInstancesByName(n)
    \/ DeregisterInstance(orig) \/ DeregisterInstance(found)

NacosBehaviour == NacosInit /\ [][NacosNext]_nacosVars

----------------------------------------------------------------------------
(* Properties.                                                             *)

\* What the registry holds has the fields of an instance.
NacosTypeOK ==
    /\ reg = Nothing \/ (/\ reg.port \in 0..(Wide - 1) /\ reg.name \in ServiceName
                        /\ DOMAIN reg = {"name", "group", "ip", "port", "meta", "ephemeral"})
    /\ found = Nothing \/ (\A p \in {"privatePort", "innerPort", "publicPort", "node"} :
                                found[p] \in -Half..(Half - 1))

\* An instance registered here is found under its name in the group of its
\* node and in no other (so never by its name alone); it comes back with every
\* address, port and its node, whatever Extra held, an empty address being
\* replaced by the private one, and as an ephemeral instance, whatever it was
\* (nacos_client.go:175-179 and 208-279, nacos_naming_cli.go:50-120).  What was
\* found can be registered again: but for the name, which is the one that the
\* registry gives, and for the addresses that were filled in, a reader sees
\* the same instance.  A Deregister of the instance reaches the registry with
\* its name, group, address and port, the ports and nodes that are negative
\* included, and with another kind than the entry has (server.go:125,
\* nacos_naming_cli.go:60 and 67-72).
ReadsBack ==
    /\ orig # Nothing /\ asked # Nothing =>
        (found # Nothing <=> asked = [name |-> orig.name, group |-> Itoa(orig.node)])
    /\ orig # Nothing /\ found # Nothing =>
        /\ found.name = NameBack[orig.name]
        /\ \A f \in {"privateIp", "privatePort", "innerPort", "publicPort", "node"} : found[f] = orig[f]
        /\ \A f \in {"innerIp", "publicIp"} : found[f] = OrElse(orig[f], orig.privateIp)
        /\ found.extra["zone"] = orig.extra["zone"]
        /\ toInstance(Answer(RegisterParam(found))) =
                [found EXCEPT !.name = NameBack[found.name],
                              !.extra["inner_ip"] = found.innerIp,
                              !.extra["public_ip"] = found.publicIp]
        /\ Names(DeregisterParam(orig), reg)
        /\ found.ephemeral /\ DeregisterParam(orig).ephemeral # reg.ephemeral

=============================================================================
