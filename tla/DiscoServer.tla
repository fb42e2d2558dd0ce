----------------------------- MODULE DiscoServer ---------------------------
(***************************************************************************)
(* The discovery commands of examples/disco/server/server.go, over the     *)
(* factory of Nacos clients and the Nacos registry.                        *)
(*                                                                         *)
(* Every connection has one reader goroutine, which handles its commands   *)
(* one after the other; here a goroutine has the name of its connection.   *)
(* A command takes its Nacos client from the factory, step by step as in   *)
(* DiscoFactory, and then talks to the registry.                           *)
(*                                                                         *)
(* The registry is external.  All instances are ephemeral: an instance     *)
(* lives as long as the client that registered it keeps it alive           *)
(* (nacos_naming_cli.go:60).  A deregistration does not say that its       *)
(* instance is ephemeral (67-72), and may come through a client that has   *)
(* not registered it: it may have its effect or not.  What surely ends the *)
(* instance is the closing of its client.                                  *)
(***************************************************************************)
EXTENDS DiscoFactory

CONSTANTS
    Addr,           \* node, address and port of an instance
    MaxCmds         \* bound: commands received

\* The empty name.
Unnamed == ""

ASSUME ServerConstants ==
    /\ ConnId \subseteq Handler
    /\ {Unnamed, "web"} \subseteq SvcName
    /\ MaxCmds \in Nat

VARIABLES
    cmd,            \* cmd[c]: [op, name, addr] of the command that c handles
    online,         \* connections that are not closed
    received,       \* commands received so far
    registry,       \* [name, addr, conn, cli] of every registered instance
    ended           \* ghost: <<conn, name>> of the Deregisters that succeeded

discoVars == <<factoryVars, cmd, online, received, registry, ended>>

NoCmd == [op |-> "none", name |-> Unnamed, addr |-> CHOOSE a \in Addr : TRUE]

\* What RegisterInstance and DeregisterInstance of rpcClient send: a message,
\* and no answer is awaited.
Register == [op : {"register"}, name : SvcName, addr : Addr]
Deregister == [op : {"deregister"}, name : SvcName, addr : Addr]

\* The commands of a client; what a Lookup asks for does not matter here.
Command == Register \cup Deregister \cup [op : {"lookup"}, name : {Unnamed}, addr : {NoCmd.addr}]

DiscoInit ==
    /\ FactoryInit
    /\ cmd = [c \in ConnId |-> NoCmd]
    /\ online = ConnId /\ received = 0 /\ registry = {} /\ ended = {}

\* The name that GetDiscoClient looks for; RemoveDiscoClient takes it as it is.
Named(n) == IF n = Unnamed THEN "web" ELSE n

Finish(c) == cmd' = [cmd EXCEPT ![c] = NoCmd]

\* OnCmdDiscovery, up to the first look into the table: Lookup asks for the
\* client of "".
OnCmdDiscovery(c, m) ==
    /\ c \in online /\ cmd[c] = NoCmd /\ received < MaxCmds
    /\ GetDiscoClient(c, <<c, IF m.op = "lookup" THEN "web" ELSE Named(m.name)>>)
    /\ cmd' = [cmd EXCEPT ![c] = m] /\ received' = received + 1
    /\ UNCHANGED <<online, registry, ended>>

\* The rest of GetDiscoClient.
GetsClient(c) ==
    /\ cmd[c] # NoCmd
    /\ NewClient(c) \/ InsertClient(c)
    /\ UNCHANGED <<cmd, online, received, registry, ended>>

\* "failed to get disco client"
GetsNone(c) ==
    /\ cmd[c] # NoCmd
    /\ NewConfigFails(c) \/ NewNamingFails(c)
    /\ Finish(c)
    /\ UNCHANGED <<online, received, registry, ended>>

\* The command has its client and talks to the registry.
Ready(c, op) == cmd[c].op = op /\ handler[c].pc = "rest"

OnRegister(c) ==
    /\ Ready(c, "register")
    /\ registry' = registry \cup
            {[name |-> cmd[c].name, addr |-> cmd[c].addr, conn |-> c, cli |-> handler[c].cli]}
    /\ Finish(c)
    /\ UNCHANGED <<factoryVars, online, received, ended>>

\* Of the registrations of the instance the registry may drop any.
OnDeregister(c) ==
    /\ Ready(c, "deregister")
    /\ \E gone \in SUBSET {r \in registry : r.name = cmd[c].name /\ r.addr = cmd[c].addr} :
        registry' = registry \ gone
    /\ cmd' = [cmd EXCEPT ![c].op = "remove"]
    /\ ended' = ended \cup {<<c, cmd[c].name>>}
    /\ UNCHANGED <<factoryVars, online, received>>

\* A Deregister that removes all clients of the connection.
RemoveEvery(c) == Ready(c, "remove") /\ RemoveAll(c, c) /\ Finish(c)
                  /\ UNCHANGED <<online, received, registry, ended>>

\* RemoveDiscoClient closes the client, also when it keeps other instances of
\* the same name alive, and finds none for "".
RemoveClient(c) ==
    /\ Ready(c, "remove")
    /\ RemoveDiscoClient(c, <<c, cmd[c].name>>)
    /\ Finish(c)
    /\ UNCHANGED <<online, received, registry, ended>>

\* GetServiceInstances and LOOKUP_ACK (RpcLookup has the answer's way back);
\* or the registry's answer to any command is an error, which is returned.
LookupOrFail(c) ==
    /\ \E op \in {"register", "deregister", "lookup"} : Ready(c, op)
    /\ Finish(c)
    /\ UNCHANGED <<factoryVars, online, received, registry, ended>>

\* OnClose only logs: the clients of the connection stay in the table.
OnClose(c) ==
    /\ c \in online
    /\ online' = online \ {c}
    /\ UNCHANGED <<factoryVars, cmd, received, registry, ended>>

\* Nobody sends heartbeats for the instances of a closed client.
HeartbeatsEnd(r) ==
    /\ r.cli \notin opened
    /\ registry' = registry \ {r}
    /\ UNCHANGED <<factoryVars, cmd, online, received, ended>>

DiscoNext ==
    \/ \E c \in ConnId : \/ GetsClient(c) \/ GetsNone(c) \/ OnRegister(c) \/ OnClose(c)
                         \/ OnDeregister(c) \/ RemoveClient(c) \/ LookupOrFail(c)
    \/ \E c \in ConnId, m \in Command : OnCmdDiscovery(c, m)
    \/ \E r \in registry : HeartbeatsEnd(r)

DiscoBehaviour == DiscoInit /\ [][DiscoNext]_discoVars

----------------------------------------------------------------------------
(* Properties.                                                             *)

\* Types.
DiscoTypeOK ==
    /\ FactoryTypeOK
    /\ cmd \in [ConnId -> Command \cup {NoCmd} \cup [op : {"remove"}, name : SvcName, addr : Addr]]
    /\ online \subseteq ConnId /\ received \in 0..MaxCmds
    /\ registry \subseteq [name : SvcName, addr : Addr, conn : ConnId, cli : 1..clients]
    /\ ended \subseteq ConnId \X SvcName

\* An instance leaves the registry only because somebody deregisters exactly
\* this instance, or because its own connection has deregistered an instance
\* under the name its client is kept under, which closes the client under all
\* instances of the name (server.go:119-131, disco_cli_factory.go:62-71).  No
\* other connection, lookup or failing command costs an instance, and neither
\* does the end of its connection (server.go:86-88).
InstanceLossExplained ==
    [][\A r \in registry \ registry' :
          \/ \E c \in ConnId : cmd[c] = [op |-> "deregister", name |-> r.name, addr |-> r.addr]
          \/ <<r.conn, Named(r.name)>> \in ended]_discoVars

=============================================================================
