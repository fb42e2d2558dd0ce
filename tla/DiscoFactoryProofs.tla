------------------------- MODULE DiscoFactoryProofs -------------------------
(***************************************************************************)
(* ClientsAccounted and NeverReplaced for any number of goroutines,        *)
(* connections, names and clients.                                         *)
(*                                                                         *)
(* ClientsAccounted is not inductive: a client that is inserted or closed  *)
(* must be in one place only, or it would leave another place as well.     *)
(* Apart says so for all pairs of places.                                  *)
(***************************************************************************)
EXTENDS DiscoFactory, TLAPS

Inserting(h) == handler[h].pc = "insert"

Types ==
    /\ serviceStorage \in [Keys -> Nat] /\ clients \in 0..MaxClients
    /\ \A c \in opened : c \in Nat /\ 0 < c /\ c <= clients
    /\ \A c \in halves : c \in Nat
    /\ handler \in [Handler -> [pc : {"rest", "new", "insert"}, key : Keys, cli : Nat]]
    /\ \A k \in Keys : serviceStorage[k] <= clients
    /\ \A h \in Handler : handler[h].cli <= clients

\* A client is in one place at most.
Apart ==
    /\ \A j, k \in Keys : serviceStorage[j] = serviceStorage[k] /\ j # k => serviceStorage[j] = 0
    /\ \A k \in Keys, h \in Handler : Inserting(h) => handler[h].cli # serviceStorage[k]
    /\ \A g, h \in Handler : Inserting(g) /\ Inserting(h) /\ handler[g].cli = handler[h].cli => g = h
    /\ \A k \in Keys : serviceStorage[k] \notin halves
    /\ \A h \in Handler : Inserting(h) => handler[h].cli \notin halves

\* ClientsAccounted, client by client.
Accounted ==
    /\ \A k \in Keys : serviceStorage[k] # 0 => serviceStorage[k] \in opened
    /\ \A h \in Handler : Inserting(h) => handler[h].cli \in opened
    /\ halves \subseteq opened
    /\ \A c \in opened :
        \/ \E k \in Keys : serviceStorage[k] = c
        \/ \E h \in Handler : Inserting(h) /\ handler[h].cli = c
        \/ c \in halves

FactoryInv == Types /\ Apart /\ Accounted

\* A goroutine at rest is in no place.
LEMMA RestType ==
    ASSUME Keys # {}
    PROVE  AtRest \in [pc : {"rest"}, key : Keys, cli : {0}]
BY DEF AtRest

\* An empty factory.
LEMMA FactoryInit_Inv ==
    ASSUME Keys # {}, FactoryInit
    PROVE  FactoryInv
<1>1. AtRest.pc = "rest" /\ AtRest.key \in Keys /\ AtRest.cli = 0
  BY RestType
<1>2. Types
  BY <1>1, RestType, FactoryConstants DEF FactoryInit, Types
<1>3. Apart /\ Accounted
  BY <1>1 DEF FactoryInit, Apart, Accounted, Inserting
<1> QED
  BY <1>2, <1>3 DEF FactoryInv

\* Types are kept.
LEMMA StepTypes ==
    ASSUME Keys # {}, FactoryInv, FactoryNext
    PROVE  Types'
<1> USE DEF FactoryInv, Types
<1>0. AtRest \in [pc : {"rest"}, key : Keys, cli : {0}]
  BY RestType
<1>1. ASSUME NEW h \in Handler, NewClient(h) PROVE Types'
  <2>1. handler' \in [Handler -> [pc : {"rest", "new", "insert"}, key : Keys, cli : Nat]]
    BY <1>1 DEF NewClient
  <2>2. \A c \in opened' : c \in Nat /\ 0 < c /\ c <= clients'
    BY <1>1 DEF NewClient
  <2> QED
    BY <1>1, <2>1, <2>2, FactoryConstants DEF NewClient
<1>2. ASSUME NEW h \in Handler, NewConfigFails(h) PROVE Types'
  BY <1>2, <1>0 DEF NewConfigFails
<1>3. ASSUME NEW h \in Handler, NewNamingFails(h) PROVE Types'
  BY <1>3, <1>0, FactoryConstants DEF NewNamingFails
<1>4. ASSUME NEW h \in Handler, InsertClient(h) PROVE Types'
  BY <1>4 DEF InsertClient
<1>5. ASSUME NEW h \in Handler, NEW k \in Keys, GetDiscoClient(h, k) PROVE Types'
  BY <1>5 DEF GetDiscoClient
<1>6. ASSUME NEW h \in Handler, NEW k \in Keys, RemoveDiscoClient(h, k) PROVE Types'
  BY <1>6, <1>0 DEF RemoveDiscoClient
<1>7. ASSUME NEW h \in Handler, NEW id \in ConnId, RemoveAll(h, id) PROVE Types'
  BY <1>7, <1>0 DEF RemoveAll
<1> QED
  BY <1>1, <1>2, <1>3, <1>4, <1>5, <1>6, <1>7 DEF FactoryNext

\* Each step moves at most one client from one place to another, but for
\* RemoveAll, which empties the places of a connection.
LEMMA StepPlaces ==
    ASSUME Keys # {}, FactoryInv, FactoryNext
    PROVE  Apart' /\ Accounted'
<1> USE DEF FactoryInv, Types, Apart, Accounted, Inserting
<1>0. AtRest.pc = "rest"
  BY RestType
<1>1. ASSUME NEW h \in Handler, NewClient(h) PROVE Apart' /\ Accounted'
  BY <1>1 DEF NewClient
<1>2. ASSUME NEW h \in Handler, NewConfigFails(h) PROVE Apart' /\ Accounted'
  <2>1. /\ UNCHANGED <<serviceStorage, opened, halves>> /\ handler[h].pc = "new"
        /\ handler'[h] = AtRest /\ \A g \in Handler : g # h => handler'[g] = handler[g]
    BY <1>2 DEF NewConfigFails
  <2>2. ~Inserting(h)' /\ ~Inserting(h)
    BY <1>0, <2>1
  <2>3. ASSUME NEW g \in Handler
        PROVE  (Inserting(g)' <=> Inserting(g)) /\ (Inserting(g) => handler'[g] = handler[g])
    <3>1. CASE g = h
      BY <2>2, <3>1
    <3>2. CASE g # h
      BY <2>1, <3>2
    <3> QED
      BY <3>1, <3>2
  <2> HIDE DEF Inserting, Types
  <2>4. Apart'
    BY <2>1, <2>3
  <2>5. Accounted'
    BY <2>1, <2>3
  <2> QED
    BY <2>4, <2>5
<1>3. ASSUME NEW h \in Handler, NewNamingFails(h) PROVE Apart' /\ Accounted'
  BY <1>3, <1>0 DEF NewNamingFails
<1>4. ASSUME NEW h \in Handler, InsertClient(h) PROVE Apart' /\ Accounted'
  <2> DEFINE key == handler[h].key  cli == handler[h].cli
  <2>0. key \in Keys /\ cli \in opened /\ cli # 0 /\ Inserting(h)
    BY <1>4 DEF InsertClient
  <2>1. /\ ~Inserting(h)'
        /\ \A g \in Handler \ {h} : handler'[g] = handler[g]
        /\ halves' = halves
    BY <1>4 DEF InsertClient
  <2>2. CASE serviceStorage[key] # 0
    <3>1. opened' = opened \ {cli} /\ serviceStorage' = serviceStorage
      BY <1>4, <2>2 DEF InsertClient
    <3> QED
      BY <2>0, <2>1, <3>1
  <2>3. CASE serviceStorage[key] = 0
    <3>1. opened' = opened /\ serviceStorage' = [serviceStorage EXCEPT ![key] = cli]
      BY <1>4, <2>3 DEF InsertClient
    <3>2. \A k \in Keys : serviceStorage'[k] = IF k = key THEN cli ELSE serviceStorage[k]
      BY <3>1
    <3> HIDE DEF key, cli
    <3>3. Apart'
      BY <2>0, <2>1, <2>3, <3>2, SMTT(60) DEF cli
    <3>4. \A c \in opened' :
            \/ \E k \in Keys : serviceStorage'[k] = c
            \/ \E g \in Handler : Inserting(g)' /\ handler'[g].cli = c
            \/ c \in halves'
      <4>1. serviceStorage'[key] = cli
        BY <2>0, <3>2
      <4>2. ASSUME NEW c \in opened, c # cli
            PROVE  \/ \E k \in Keys : serviceStorage'[k] = c
                   \/ \E g \in Handler : Inserting(g)' /\ handler'[g].cli = c
                   \/ c \in halves'
        <5>1. CASE \E k \in Keys : serviceStorage[k] = c
          <6>1. c # 0
            OBVIOUS
          <6> QED
            BY <2>3, <3>2, <5>1, <6>1
        <5>2. CASE \E g \in Handler : Inserting(g) /\ handler[g].cli = c
          BY <2>1, <4>2, <5>2 DEF cli
        <5> QED
          BY <2>1, <5>1, <5>2
      <4> QED
        BY <2>0, <3>1, <4>1, <4>2
    <3>5. Accounted'
      BY <2>0, <2>1, <2>3, <3>1, <3>2, <3>4
    <3> QED
      BY <3>3, <3>5
  <2> QED
    BY <2>2, <2>3
<1>5. ASSUME NEW h \in Handler, NEW k \in Keys, GetDiscoClient(h, k) PROVE Apart' /\ Accounted'
  BY <1>5 DEF GetDiscoClient
<1>6. ASSUME NEW h \in Handler, NEW k \in Keys, RemoveDiscoClient(h, k) PROVE Apart' /\ Accounted'
  BY <1>6, <1>0 DEF RemoveDiscoClient
<1>7. ASSUME NEW h \in Handler, NEW id \in ConnId, RemoveAll(h, id) PROVE Apart' /\ Accounted'
  <2> DEFINE mine == {serviceStorage[k] : k \in Of(id)}
  <2>1. /\ ~Inserting(h)' /\ ~Inserting(h)
        /\ \A g \in Handler \ {h} : handler'[g] = handler[g]
        /\ halves' = halves /\ opened' = opened \ mine
    BY <1>7, <1>0 DEF RemoveAll
  <2>2. \A k \in Keys : serviceStorage'[k] = IF k \in Of(id) THEN 0 ELSE serviceStorage[k]
    BY <1>7 DEF RemoveAll
  <2>3. \A k \in Keys : serviceStorage[k] # 0 => (serviceStorage[k] \in mine <=> k \in Of(id))
    BY DEF Of
  <2>4. /\ \A g \in Handler : Inserting(g) => handler[g].cli \notin mine
        /\ \A c \in halves : c \notin mine
    BY DEF Of
  <2> HIDE DEF mine
  <2>5. Apart'
    <3>1. \A k \in Keys : serviceStorage'[k] # 0 => serviceStorage'[k] = serviceStorage[k]
      BY <2>2
    <3>2. \A g \in Handler : Inserting(g) => handler[g].cli # 0
      OBVIOUS
    <3>3. 0 \notin halves
      OBVIOUS
    <3> QED
      BY <2>1, <2>2, <3>1, <3>2, <3>3
  <2>6. Accounted'
    BY <2>1, <2>2, <2>3, <2>4
  <2> QED
    BY <2>5, <2>6
<1> QED
  BY <1>1, <1>2, <1>3, <1>4, <1>5, <1>6, <1>7 DEF FactoryNext

\* The parts of Accounted make up the equation of ClientsAccounted.
LEMMA InvAccounts ==
    ASSUME FactoryInv
    PROVE  ClientsAccounted
<1>1. 0 \notin opened
  BY DEF FactoryInv, Types
<1>2. \A c \in opened : c \in Stored \/ c \in Held \/ c \in halves
  BY <1>1 DEF FactoryInv, Accounted, Stored, Held, Inserting
<1>3. Stored \subseteq opened /\ Held \subseteq opened /\ halves \subseteq opened
  BY DEF FactoryInv, Accounted, Stored, Held, Inserting
<1> QED
  BY <1>2, <1>3 DEF ClientsAccounted

\* The invariant implies the types.
LEMMA InvTypes ==
    ASSUME FactoryInv
    PROVE  FactoryTypeOK
<1> USE DEF FactoryInv, Types, Apart, Accounted
<1>1. serviceStorage \in [Keys -> 0..clients] /\ clients \in 0..MaxClients
  OBVIOUS
<1>2. opened \subseteq 1..clients /\ halves \subseteq opened
  OBVIOUS
<1>3. handler \in [Handler -> [pc : {"rest", "new", "insert"}, key : Keys, cli : 0..clients]]
  OBVIOUS
<1>4. Held \cap Stored = {}
  BY DEF Held, Stored, Inserting
<1> QED
  BY <1>1, <1>2, <1>3, <1>4 DEF FactoryTypeOK

\* The same with stuttering.
LEMMA FactoryKept ==
    ASSUME Keys # {}, FactoryInv, [FactoryNext]_factoryVars
    PROVE  FactoryInv'
<1>1. CASE FactoryNext
  BY <1>1, StepTypes, StepPlaces DEF FactoryInv
<1>2. CASE UNCHANGED factoryVars
  BY <1>2 DEF factoryVars, FactoryInv, Types, Apart, Accounted, Inserting
<1> QED
  BY <1>1, <1>2

\* The invariant, of every behaviour of the factory.
LEMMA FactoryInvAlways ==
    ASSUME Keys # {}
    PROVE  FactoryBehaviour => []FactoryInv
<1>1. FactoryInit => FactoryInv
  BY FactoryInit_Inv
<1>2. FactoryInv /\ [FactoryNext]_factoryVars => FactoryInv'
  BY FactoryKept
<1> QED
  BY <1>1, <1>2, PTL DEF FactoryBehaviour

\* Whatever goroutines make and remove clients at once, no client is lost and
\* none is stored closed (disco_cli_factory.go:26-82).
THEOREM ClientsAccountedAlways ==
    ASSUME Keys # {}
    PROVE  FactoryBehaviour => []ClientsAccounted
<1>1. FactoryInv => ClientsAccounted
  BY InvAccounts
<1> QED
  BY <1>1, FactoryInvAlways, PTL

\* A stored client is never replaced by another one, whichever goroutines
\* come to insert theirs (disco_cli_factory.go:49-59).
THEOREM NeverReplacedAlways ==
    ASSUME Keys # {}
    PROVE  FactoryBehaviour => NeverReplaced
<1>1. FactoryInv /\ [FactoryNext]_factoryVars =>
        [\A k \in Keys : serviceStorage[k] # 0 => serviceStorage'[k] \in {0, serviceStorage[k]}]_factoryVars
  BY DEF FactoryInv, Types, FactoryNext, factoryVars, NewClient, NewConfigFails, NewNamingFails,
     InsertClient, GetDiscoClient, RemoveDiscoClient, RemoveAll
<1> QED
  BY <1>1, FactoryInvAlways, PTL DEF FactoryBehaviour, NeverReplaced

=============================================================================
