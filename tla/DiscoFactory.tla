---------------------------- MODULE DiscoFactory ---------------------------
(***************************************************************************)
(* examples/disco/server/disco_cli_factory.go: the Nacos clients of the    *)
(* discovery server, one for each connection and service name.             *)
(*                                                                         *)
(* GetDiscoClient makes a client without the lock and looks again under    *)
(* the lock whether another goroutine was faster.  A Nacos client is a     *)
(* configuration and a naming client (naming.NewNacosDiscoverClient); when *)
(* the second cannot be made the first is left open and nobody has it.     *)
(***************************************************************************)
EXTENDS Naturals, FiniteSets

CONSTANTS
    Handler,        \* goroutines that call the factory
    ConnId,
    SvcName,
    MaxClients      \* bound: clients made

ASSUME FactoryConstants == MaxClients \in Nat

VARIABLES
    serviceStorage, \* serviceStorage[k]: the client of a connection and name, 0 if none
    opened,         \* clients made and not closed
    halves,         \* clients of which only the first half could be made
    handler,        \* handler[h]: [pc, key, cli] of a GetDiscoClient
    clients         \* clients made so far

factoryVars == <<serviceStorage, opened, halves, handler, clients>>

Keys == ConnId \X SvcName
AtRest == [pc |-> "rest", key |-> CHOOSE k \in Keys : TRUE, cli |-> 0]

FactoryInit ==
    /\ serviceStorage = [k \in Keys |-> 0]
    /\ opened = {} /\ halves = {} /\ clients = 0
    /\ handler = [h \in Handler |-> AtRest]

\* GetDiscoClient under RLock: the client that is there, or none.
GetDiscoClient(h, k) ==
    /\ handler[h].pc = "rest"
    /\ handler' = [handler EXCEPT ![h] =
            IF serviceStorage[k] # 0 THEN [pc |-> "rest", key |-> k, cli |-> serviceStorage[k]]
            ELSE [pc |-> "new", key |-> k, cli |-> 0]]
    /\ UNCHANGED <<serviceStorage, opened, halves, clients>>

\* NewNacosDiscoverClient
NewClient(h) ==
    /\ handler[h].pc = "new" /\ clients < MaxClients
    /\ clients' = clients + 1
    /\ opened' = opened \cup {clients + 1}
    /\ handler' = [handler EXCEPT ![h] = [pc |-> "insert", key |-> @.key, cli |-> clients + 1]]
    /\ UNCHANGED <<serviceStorage, halves>>

NewConfigFails(h) ==
    /\ handler[h].pc = "new"
    /\ handler' = [handler EXCEPT ![h] = AtRest]
    /\ UNCHANGED <<serviceStorage, opened, halves, clients>>

NewNamingFails(h) ==
    /\ handler[h].pc = "new" /\ clients < MaxClients
    /\ clients' = clients + 1
    /\ opened' = opened \cup {clients + 1}
    /\ halves' = halves \cup {clients + 1}
    /\ handler' = [handler EXCEPT ![h] = AtRest]
    /\ UNCHANGED serviceStorage

\* GetDiscoClient under Lock: a client that came too late is closed.
InsertClient(h) ==
    /\ handler[h].pc = "insert"
    /\ LET k == handler[h].key
           existing == serviceStorage[k] IN
        IF existing # 0
        THEN /\ opened' = opened \ {handler[h].cli}
             /\ handler' = [handler EXCEPT ![h].pc = "rest", ![h].cli = existing]
             /\ UNCHANGED serviceStorage
        ELSE /\ serviceStorage' = [serviceStorage EXCEPT ![k] = handler[h].cli]
             /\ handler' = [handler EXCEPT ![h].pc = "rest"]
             /\ UNCHANGED opened
    /\ UNCHANGED <<halves, clients>>

RemoveDiscoClient(h, k) ==
    /\ handler[h].pc = "rest"
    /\ opened' = opened \ {serviceStorage[k]}
    /\ serviceStorage' = [serviceStorage EXCEPT ![k] = 0]
    /\ handler' = [handler EXCEPT ![h] = AtRest]
    /\ UNCHANGED <<halves, clients>>

\* The entries of a connection.
Of(id) == {k \in Keys : k[1] = id}

\* A RemoveAll that closes the clients and keeps the entries.
RemoveAllKeeps(h, id) ==
    /\ handler[h].pc = "rest"
    /\ opened' = opened \ {serviceStorage[k] : k \in Of(id)}
    /\ handler' = [handler EXCEPT ![h] = AtRest]
    /\ UNCHANGED <<serviceStorage, halves, clients>>

RemoveAll(h, id) ==
    /\ handler[h].pc = "rest"
    /\ opened' = opened \ {serviceStorage[k] : k \in Of(id)}
    /\ serviceStorage' = [k \in Keys |-> IF k \in Of(id) THEN 0 ELSE serviceStorage[k]]
    /\ handler' = [handler EXCEPT ![h] = AtRest]
    /\ UNCHANGED <<halves, clients>>

FactoryNext ==
    \/ \E h \in Handler : NewClient(h) \/ NewConfigFails(h) \/ NewNamingFails(h) \/ InsertClient(h)
    \/ \E h \in Handler, k \in Keys : GetDiscoClient(h, k) \/ RemoveDiscoClient(h, k)
    \/ \E h \in Handler, id \in ConnId : RemoveAll(h, id)

FactoryBehaviour == FactoryInit /\ [][FactoryNext]_factoryVars

----------------------------------------------------------------------------
(* Properties.                                                             *)

Held == {handler[h].cli : h \in {g \in Handler : handler[g].pc = "insert"}}
Stored == {serviceStorage[k] : k \in Keys} \ {0}

\* Types; no client is stored under two keys, or stored while its maker has
\* not inserted it yet.
FactoryTypeOK ==
    /\ serviceStorage \in [Keys -> 0..clients] /\ clients \in 0..MaxClients
    /\ opened \subseteq 1..clients /\ halves \subseteq opened
    /\ handler \in [Handler -> [pc : {"rest", "new", "insert"}, key : Keys, cli : 0..clients]]
    /\ \A j, k \in Keys : serviceStorage[j] = serviceStorage[k] /\ j # k => serviceStorage[j] = 0
    /\ Held \cap Stored = {}

\* No client is lost and none is stored closed: the open clients are the
\* stored ones, those on their way into the table and the halves left by
\* nacos_client.go:191-194, whichever goroutines make and remove clients at once.
ClientsAccounted == opened = Stored \cup Held \cup halves

\* A stored client is never replaced by another: the connections that were
\* given it keep using one client until it is removed.
NeverReplaced ==
    [][\A k \in Keys : serviceStorage[k] # 0 => serviceStorage'[k] \in {0, serviceStorage[k]}]_factoryVars

=============================================================================
