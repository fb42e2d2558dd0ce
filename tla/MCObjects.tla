----------------------------- MODULE MCObjects -----------------------------
(***************************************************************************)
(* Small instances of the objects that are checked for safety alone: the   *)
(* LRU cache, the byte streams, the prober, an instance in the Nacos       *)
(* registry, the discovery server and the caches in Redis.  A behaviour is *)
(* one of an object, chosen at the beginning.                              *)
(***************************************************************************)
EXTENDS TLC, LruCache, ByteStream, NetProber, NacosInstance, DiscoServer, SharedCache

VARIABLE object

vars == <<object, lruVars, streamVars, proberVars, nacosVars, discoVars, sharedVars>>

MCTexts == {<<>>, <<1>>, <<0, 1, 1>>}
\* A string too long for a length of two bytes (65536 bytes in the code).
MCLongTexts == {<<0, 1, 1, 1>>}

MCWords == {"", "num", "DEFAULT_GROUP", "private", "inner", "public", "zone"}
\* Extra may hold a key that fromInstance uses itself, and one of its own.
MCExtra == [key \in MetaKey |-> Blank]
\* A name that comes back with its group in front, and one that comes back as it is.
MCServiceName == {"svc", "1@@svc"}
MCNameBack == [n \in MCServiceName |-> "1@@svc"]
MCInstance ==
    {[name |-> n, privateIp |-> Text("private"), privatePort |-> p, innerIp |-> a, innerPort |-> q,
      publicIp |-> b, publicPort |-> 0, node |-> k, healthy |-> h, ephemeral |-> h,
      extra |-> [MCExtra EXCEPT !["node"] = x, !["zone"] = Text("zone")]] :
        n \in MCServiceName, p \in {-2, 1}, a \in {Blank, Text("inner")}, q \in {0, 1}, b \in {Blank, Text("public")},
        k \in {-1, 1}, h \in BOOLEAN, x \in {Blank, Itoa(0)}}
\* Metadata that is missing, no number, or a number too large for an int32.
MCForeign ==
    {[name |-> "svc", group |-> g, ip |-> Text("private"), port |-> 1, ephemeral |-> FALSE,
      meta |-> [MCExtra EXCEPT !["inner_ip"] = a, !["inner_port"] = q, !["node"] = k]] :
        g \in {DefaultGroupName, Itoa(1)}, a \in {Blank, Text("inner")},
        q \in {Blank, Text("zone"), Itoa(5)}, k \in {Blank, Text("zone"), Itoa(1)}}

\* A prefix that ends like a key, and a key that begins like one.
MCPrefix == {<<1>>, <<2, 1>>}
MCConfigPrefix == <<2, 1>>
MCCacheKey == {<<2>>, <<1, 2>>}
MCSharedKeyPrefix == <<1>>

\* Connections are alike, and so are Redis clients.
MCSymmetry == Permutations(ConnId) \cup Permutations(Redis)

Init ==
    /\ object \in {"lru", "stream", "prober", "instance", "disco", "shared"}
    /\ LruInit /\ StreamInit /\ ProbeInit /\ NacosInit /\ DiscoInit /\ SharedInit
    /\ order = "big" \/ object = "stream"

Next ==
    \/ object = "lru" /\ LruNext /\ UNCHANGED <<object, streamVars, proberVars, nacosVars, discoVars, sharedVars>>
    \/ object = "stream" /\ StreamNext /\ UNCHANGED <<object, lruVars, proberVars, nacosVars, discoVars, sharedVars>>
    \/ object = "prober" /\ ProbeNext /\ UNCHANGED <<object, lruVars, streamVars, nacosVars, discoVars, sharedVars>>
    \/ object = "instance" /\ NacosNext /\ UNCHANGED <<object, lruVars, streamVars, proberVars, discoVars, sharedVars>>
    \/ object = "disco" /\ DiscoNext /\ UNCHANGED <<object, lruVars, streamVars, proberVars, nacosVars, sharedVars>>
    \/ object = "shared" /\ SharedNext /\ UNCHANGED <<object, lruVars, streamVars, proberVars, nacosVars, discoVars>>

Spec == Init /\ [][Next]_vars

\* Types, of all objects.
ObjectsTypeOK == LruTypeOK /\ StreamTypeOK /\ ProbeTypeOK /\ NacosTypeOK /\ DiscoTypeOK
                 /\ SharedCacheTypeOK

=============================================================================
