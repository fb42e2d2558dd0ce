-------------------------- MODULE RpcLookupProofs --------------------------
(***************************************************************************)
(* Proofs about GetService for any number of callers, services, groups,    *)
(* calls, acks and Closes.                                                 *)
(***************************************************************************)
EXTENDS RpcLookup, WellFoundedInduction, TLAPS


\* The service GetService picks from a non-empty ack is one of the ack, and
\* has the wanted name if any service of the ack has (rpc_client.go:137-144).
LEMMA PickFirst ==
    ASSUME NEW s \in Seq(Svc), s # <<>>, NEW n \in Name
    PROVE  \E i \in DOMAIN s :
             /\ Pick(s, n) = s[i]
             /\ (\E j \in DOMAIN s : s[j].name = n) => s[i].name = n
<1> DEFINE hits == {i \in DOMAIN s : s[i].name = n}
<1>1. DOMAIN s = 1..Len(s) /\ Len(s) \in Nat /\ Len(s) # 0
  OBVIOUS
<1>2. 1 \in DOMAIN s /\ DOMAIN s \subseteq Nat
  BY <1>1
<1>3. CASE hits = {}
  <2>1. Pick(s, n) = s[1]
    BY <1>3, Zenon DEF Pick
  <2> QED
    BY <1>2, <1>3, <2>1
<1>4. CASE hits # {}
  <2>1. hits \subseteq Nat
    BY <1>2
  <2> HIDE DEF hits
  <2>2. \E i \in hits : \A j \in hits : ~ <<j, i>> \in OpToRel(<, Nat)
    BY <1>4, <2>1, NatLessThanWellFounded, WFMin
  <2> DEFINE R == OpToRel(<, Nat)
  <2>3. ASSUME NEW i \in Nat, NEW j \in Nat, ~ <<j, i>> \in R PROVE i <= j
    <3>1. <<j, i>> \in Nat \X Nat /\ <<j, i>>[1] = j /\ <<j, i>>[2] = i
      OBVIOUS
    <3>2. ~ j < i
      BY <2>3, <3>1, Zenon DEF OpToRel
    <3> QED
      BY <3>2
  <2> HIDE DEF R
  <2>4. \E i \in hits : \A j \in hits : i <= j
    BY <2>1, <2>2, <2>3, Zenon DEF R
  <2>5. (CHOOSE i \in hits : \A j \in hits : i <= j) \in hits
    BY <2>4, Zenon
  <2>6. Pick(s, n) = s[CHOOSE i \in hits : \A j \in hits : i <= j]
    BY <1>4, Zenon DEF Pick, hits
  <2> QED
    BY <2>5, <2>6, Zenon DEF hits
<1> QED
  BY <1>3, <1>4

\* Members of the sets the state ranges over.
LEMMA Members ==
    /\ \A n \in Name, g \in Group : [name |-> n, group |-> g] \in Key
    /\ \A k \in Key : k.name \in Name /\ k.group \in Group
    /\ Key = Svc
    /\ Empty \in Result /\ Closed \in Result
    /\ \A a \in Seq(Svc) : Acked(a) \in Result
    /\ \A r \in Result : r.services \in Seq(Svc)
BY DEF Key, Svc, Result, Empty, Closed, Acked

\* The group a lookup uses is one of the groups.
LEMMA EffectiveGroup ==
    ASSUME NEW g \in Group
    PROVE  Effective(g) \in Group
BY LookupConstants DEF Effective

\* The answers of the disco server, and those of another peer.
LEMMA Answers ==
    /\ \A n \in Node : GroupOf[n] \in Group
    /\ PushAcks \subseteq Seq(Svc)
    /\ \A g \in Group : NodeOf[g] \in Node \cup {None}
    /\ None \notin Caller /\ None \notin Svc
    /\ DefaultGroup \in Group /\ "" \in Group
BY LookupConstants

\* A service of the ack matches a key under which c is registered.
Matched(ack, c) ==
    \E i \in DOMAIN ack, k \in Key :
        /\ pending[k] = c /\ k.name = ack[i].name
        /\ k.group \in {ack[i].group, DefaultGroup, ""}

\* The callers an ack is offered to have a key that one of its services
\* matches.
LEMMA WokenBy ==
    ASSUME NEW ack \in Seq(Svc), ack # <<>>, NEW c \in Caller, c \in Woken(ack)
    PROVE  Matched(ack, c)
<1>1. PICK i \in DOMAIN ack : \E k \in KeysOf(ack[i]) : pending[k] = c
  BY Zenon DEF Woken
<1> PICK k \in KeysOf(ack[i]) : pending[k] = c
  BY <1>1
<1>2. ack[i] \in Svc
  BY <1>1
<1>3. PICK g \in {ack[i].group, DefaultGroup, ""} : k = [name |-> ack[i].name, group |-> g]
  BY <1>1 DEF KeysOf
<1>4. g \in Group /\ ack[i].name \in Name
  BY <1>2, <1>3, Answers, Members
<1>5. k \in Key /\ k.name = ack[i].name /\ k.group = g
  BY <1>3, <1>4, Members
<1> QED
  BY <1>1, <1>3, <1>5 DEF Matched

\* Every step keeps the types.
LEMMA TypeStep ==
    ASSUME TypeOK, Next
    PROVE  TypeOK'
<1> USE DEF TypeOK, Busy, clientVars
<1>1. ASSUME NEW c \in Caller, NEW n \in Name, NEW g \in Group, Lookup(c, n, g)
      PROVE  TypeOK'
  <2> DEFINE k == [name |-> n, group |-> Effective(g)]
  <2>1. k \in Key /\ k.group \in Group /\ k # None
    <3>1. Effective(g) \in Group
      BY EffectiveGroup
    <3>2. k \in Key /\ k.group \in Group
      BY <3>1, Members
    <3> QED
      BY <3>2, Members, Answers
  <2> HIDE DEF k
  <2>2. key' = [key EXCEPT ![c] = k] /\ got' = [got EXCEPT ![c] = None] /\ calls' = calls + 1
    BY <1>1 DEF Lookup, k
  <2>3. CASE UNCHANGED <<pending, phase, chan>> /\ out' \in {[out EXCEPT ![c] = "badgroup"], [out EXCEPT ![c] = "busy"]}
    BY <1>1, <2>1, <2>2, <2>3, Members DEF Lookup
  <2>4. CASE /\ NodeOf[k.group] # None
             /\ pending' = [pending EXCEPT ![k] = c]
             /\ chan' = [chan EXCEPT ![c] = Empty]
             /\ out' = [out EXCEPT ![c] = "none"]
             /\ phase' = [phase EXCEPT ![c] = "registered"]
    BY <1>1, <2>1, <2>2, <2>4, Members DEF Lookup
  <2> QED
    BY <1>1, <2>3, <2>4, Zenon DEF Lookup, k
<1>2. ASSUME NEW c \in Caller, Write(c) PROVE TypeOK'
  <2>1. key[c] \in Key /\ NodeOf[key[c].group] \in Node
    BY <1>2, Members, Answers DEF Write
  <2>2. [name |-> key[c].name, node |-> NodeOf[key[c].group]] \in Req
    BY <2>1, Members DEF Req
  <2> QED
    BY <1>2, <2>2 DEF Write
<1>3. ASSUME NEW c \in Caller, WriteFails(c) \/ Timeout(c) PROVE TypeOK'
  BY <1>3 DEF WriteFails, Timeout, Return
<1>4. ASSUME NEW c \in Caller, Receive(c) PROVE TypeOK'
  <2>1. chan' \in [Caller -> Result]
    BY <1>4, Members DEF Receive
  <2>2. chan[c].services \in Seq(Svc) /\ key[c] \in Key /\ key[c].name \in Name
    BY <1>4, Members DEF Receive
  <2>3. chan[c].services # <<>> => Pick(chan[c].services, key[c].name) \in Svc
    BY <2>2, PickFirst
  <2>4. \E how \in {"closed", "notfound", "ok"}, svc \in Svc \cup {None} : Return(c, how, svc)
    BY <1>4, <2>3 DEF Receive
  <2> QED
    BY <1>4, <2>1, <2>4 DEF Receive, Return
<1>5. ASSUME NEW c \in Caller, Leave(c) PROVE TypeOK'
  BY <1>5 DEF Leave
<1>6. CASE HandleLookupAck
  <2>1. Head(acks) \in Seq(Svc) /\ Tail(acks) \in Seq(Seq(Svc))
    BY <1>6 DEF HandleLookupAck
  <2>2. Acked(Head(acks)) \in Result
    BY <2>1, Members
  <2>3. chan' \in [Caller -> Result]
    BY <1>6, <2>2, Zenon DEF HandleLookupAck, Offer
  <2> QED
    BY <1>6, <2>1, <2>3 DEF HandleLookupAck
<1>7. CASE Close
  <2>1. chan' \in [Caller -> Result]
    BY <1>7, Members, Zenon DEF Close, Offer
  <2> QED
    BY <1>7, <2>1 DEF Close
<1>8. CASE Serve
  <2>1. Head(reqs) \in Req /\ Tail(reqs) \in Seq(Req)
    BY <1>8 DEF Serve
  <2>2. [name |-> Head(reqs).name, group |-> GroupOf[Head(reqs).node]] \in Svc
    BY <2>1, Members, Answers DEF Req
  <2> QED
    BY <1>8, <2>1, <2>2 DEF Serve
<1>9. CASE ServeFails
  <2>1. Tail(reqs) \in Seq(Req)
    BY <1>9 DEF ServeFails
  <2> QED
    BY <1>9, <2>1 DEF ServeFails
<1>11. CASE Disconnect
  BY <1>11 DEF Disconnect
<1>10. ASSUME NEW a \in PushAcks, Push(a) PROVE TypeOK'
  <2>1. a \in Seq(Svc)
    BY Answers
  <2> QED
    BY <1>10, <2>1 DEF Push
<1> QED
  BY <1>1, <1>2, <1>3, <1>4, <1>5, <1>6, <1>7, <1>8, <1>9, <1>10, <1>11 DEF Next, CallStep

\* Type correctness of the client.
THEOREM TypeCorrect == Spec => []TypeOK
<1>1. Init => TypeOK
  <2> SUFFICES ASSUME Init PROVE TypeOK
    OBVIOUS
  <2>1. \A c \in Caller : phase[c] = "idle"
    BY DEF Init
  <2>2. /\ chan \in [Caller -> Result]
        /\ pending \in [Key -> Caller \cup {None}]
        /\ key \in [Caller -> Key \cup {None}]
        /\ got \in [Caller -> Svc \cup {None}]
    BY Members DEF Init
  <2> QED
    BY <2>1, <2>2 DEF Init, TypeOK, Busy
<1>2. TypeOK /\ [Next]_vars => TypeOK'
  <2> SUFFICES ASSUME TypeOK, [Next]_vars PROVE TypeOK'
    OBVIOUS
  <2>1. CASE Next
    BY <2>1, TypeStep
  <2>2. CASE UNCHANGED vars
    BY <2>2 DEF vars, TypeOK, Busy
  <2> QED
    BY <2>1, <2>2
<1> QED
  BY <1>1, <1>2, PTL DEF Spec

----------------------------------------------------------------------------
(* NameMatches.                                                            *)

\* A map entry belongs to a call in progress for its key.  (The converse
\* fails after a Close: a call can lose its entry.)
Registered ==
    \A k \in Key, c \in Caller : pending[k] = c => Busy(c) /\ key[c] = k

\* An ack in a channel has a service of the name its owner asked for.
ChanNamed ==
    \A c \in Caller :
        Busy(c) /\ chan[c].services # <<>> =>
            \E i \in DOMAIN chan[c].services : chan[c].services[i].name = key[c].name

NameInv == Registered /\ ChanNamed /\ NameMatches

\* Every step keeps NameInv.
LEMMA NameStep ==
    ASSUME TypeOK, NameInv, Next
    PROVE  NameInv'
<1> USE DEF TypeOK, NameInv, Registered, ChanNamed, NameMatches, Busy, clientVars
<1>1. ASSUME NEW c \in Caller, NEW n \in Name, NEW g \in Group, Lookup(c, n, g)
      PROVE  NameInv'
  <2> DEFINE k == [name |-> n, group |-> Effective(g)]
  <2>1. k \in Key
    BY EffectiveGroup, Members
  <2> HIDE DEF k
  <2>2. /\ key' = [key EXCEPT ![c] = k] /\ got' = [got EXCEPT ![c] = None]
        /\ phase[c] = "idle"
    BY <1>1 DEF Lookup, k
  <2>3. CASE UNCHANGED <<pending, phase, chan>> /\ out' \in {[out EXCEPT ![c] = "badgroup"], [out EXCEPT ![c] = "busy"]}
    BY <2>1, <2>2, <2>3
  <2>4. CASE /\ pending' = [pending EXCEPT ![k] = c]
             /\ chan' = [chan EXCEPT ![c] = Empty]
             /\ out' = [out EXCEPT ![c] = "none"]
             /\ phase' = [phase EXCEPT ![c] = "registered"]
    <3>1. Registered'
      BY <2>1, <2>2, <2>4
    <3>2. ChanNamed'
      BY <2>1, <2>2, <2>4 DEF Empty
    <3>3. NameMatches'
      BY <2>1, <2>2, <2>4
    <3> QED
      BY <3>1, <3>2, <3>3
  <2> QED
    BY <1>1, <2>3, <2>4, Zenon DEF Lookup, k
<1>2. ASSUME NEW c \in Caller, Write(c) PROVE NameInv'
  BY <1>2 DEF Write
<1>3. ASSUME NEW c \in Caller, WriteFails(c) \/ Timeout(c) PROVE NameInv'
  <2>1. /\ UNCHANGED <<pending, key, chan>>
        /\ phase' = [phase EXCEPT ![c] = "leaving"] /\ Busy(c)
        /\ out'[c] # "ok" /\ \A d \in Caller \ {c} : out'[d] = out[d] /\ got'[d] = got[d]
    BY <1>3 DEF WriteFails, Timeout, Return
  <2>2. Registered'
    BY <2>1
  <2>3. ChanNamed'
    BY <2>1
  <2>4. NameMatches'
    BY <2>1
  <2> QED
    BY <2>2, <2>3, <2>4
<1>4. ASSUME NEW c \in Caller, Receive(c) PROVE NameInv'
  <2>1. /\ phase[c] = "waiting" /\ phase' = [phase EXCEPT ![c] = "leaving"]
        /\ chan' = [chan EXCEPT ![c] = Empty] /\ pending' = pending /\ key' = key
    BY <1>4 DEF Receive, Return
  <2>2. Registered'
    BY <2>1
  <2>3. ChanNamed'
    BY <2>1 DEF Empty
  <2>4. chan[c].services \in Seq(Svc) /\ key[c] \in Key /\ key[c].name \in Name
    BY <2>1, Members
  <2>5. chan[c].services # <<>> =>
          LET s == Pick(chan[c].services, key[c].name) IN s \in Svc /\ s.name = key[c].name
    BY <2>1, <2>4, PickFirst
  <2>6. \E how \in {"closed", "notfound", "ok"}, svc \in Svc \cup {None} :
          Return(c, how, svc) /\ (how = "ok" => svc \in Svc /\ svc.name = key[c].name)
    BY <1>4, <2>5 DEF Receive
  <2>7. NameMatches'
    <3>1. PICK how \in {"closed", "notfound", "ok"}, svc \in Svc \cup {None} :
            Return(c, how, svc) /\ (how = "ok" => svc \in Svc /\ svc.name = key[c].name)
      BY <2>6
    <3>2. out' = [out EXCEPT ![c] = how] /\ got' = [got EXCEPT ![c] = svc]
      BY <3>1 DEF Return
    <3>3. svc \in Svc => svc # None
      BY Answers
    <3> QED
      BY <2>1, <3>1, <3>2, <3>3
  <2> QED
    BY <2>2, <2>3, <2>7
<1>5. ASSUME NEW c \in Caller, Leave(c) PROVE NameInv'
  <2>1. /\ pending' = [pending EXCEPT ![key[c]] = None] /\ key' = key
        /\ phase' = [phase EXCEPT ![c] = "idle"] /\ None \notin Caller
    BY <1>5, Answers DEF Leave
  <2>2. ASSUME NEW k \in Key, NEW d \in Caller, pending'[k] = d
        PROVE  Busy(d)' /\ key'[d] = k
    <3>1. pending[k] = d /\ k # key[c]
      BY <2>1, <2>2
    <3> QED
      BY <2>1, <3>1
  <2> QED
    BY <1>5, <2>2 DEF Leave
<1>6. CASE HandleLookupAck
  <2>1. PICK ack \in Seq(Svc) : ack = Head(acks)
    BY <1>6 DEF HandleLookupAck
  <2>2. /\ UNCHANGED <<pending, phase, key, out, got>>
        /\ chan' = [c \in Caller |-> IF c \in Woken(ack) /\ chan[c] = Empty
                                     THEN Acked(ack) ELSE chan[c]]
    BY <1>6, <2>1, Zenon DEF HandleLookupAck, Offer
  <2>3. ASSUME NEW c \in Caller, c \in Woken(ack), ack # <<>>
        PROVE  \E i \in DOMAIN ack : ack[i].name = key[c].name
    <3>1. Matched(ack, c)
      BY <2>3, WokenBy
    <3>2. PICK i \in DOMAIN ack, k \in Key : pending[k] = c /\ k.name = ack[i].name
      BY <3>1, Zenon DEF Matched
    <3>3. key[c] = k
      BY <3>2, Zenon
    <3> QED
      BY <3>2, <3>3, Zenon
  <2>4. ASSUME NEW c \in Caller, Busy(c)', chan'[c].services # <<>>
        PROVE  \E i \in DOMAIN chan'[c].services : chan'[c].services[i].name = key'[c].name
    <3>1. CASE chan'[c] = chan[c]
      BY <2>2, <2>4, <3>1
    <3>2. CASE c \in Woken(ack) /\ chan'[c] = Acked(ack)
      BY <2>2, <2>3, <2>4, <3>2 DEF Acked
    <3> QED
      BY <2>2, <3>1, <3>2, Zenon
  <2> QED
    BY <2>2, <2>4
<1>7. CASE Close
  <2>1. /\ UNCHANGED <<phase, key, out, got>> /\ pending' = [k \in Key |-> None]
        /\ \A c \in Caller : chan'[c] = chan[c] \/ chan'[c] = Closed
    BY <1>7, Zenon DEF Close, Offer
  <2>2. Registered'
    BY <2>1, Answers
  <2>3. ChanNamed'
    BY <2>1 DEF Closed
  <2> QED
    BY <2>1, <2>2, <2>3
<1>8. CASE Serve \/ ServeFails \/ Disconnect
  <2>1. UNCHANGED <<pending, phase, key, chan, out, got>>
    BY <1>8, Zenon DEF Serve, ServeFails, Disconnect
  <2> QED
    BY <2>1
<1>9. ASSUME NEW a \in PushAcks, Push(a) PROVE NameInv'
  BY <1>9 DEF Push
<1> QED
  BY <1>1, <1>2, <1>3, <1>4, <1>5, <1>6, <1>7, <1>8, <1>9 DEF Next, CallStep

\* A GetService that succeeds returns a service of the name it was asked
\* for, whatever acks arrive and whenever Close is called.
THEOREM NameMatchesAlways == Spec => []NameMatches
<1>1. Init => NameInv
  <2> SUFFICES ASSUME Init PROVE NameInv
    OBVIOUS
  <2>1. \A k \in Key, c \in Caller : pending[k] # c
    BY Answers, Zenon DEF Init
  <2>2. \A c \in Caller : phase[c] = "idle" /\ out[c] = "none"
    BY DEF Init
  <2> QED
    BY <2>1, <2>2 DEF NameInv, Registered, ChanNamed, NameMatches, Busy
<1>2. TypeOK /\ NameInv /\ [Next]_vars => NameInv'
  <2> SUFFICES ASSUME TypeOK, NameInv, [Next]_vars PROVE NameInv'
    OBVIOUS
  <2>1. CASE Next
    BY <2>1, NameStep
  <2>2. CASE UNCHANGED vars
    BY <2>2 DEF vars, NameInv, Registered, ChanNamed, NameMatches, Busy
  <2> QED
    BY <2>1, <2>2
<1>3. NameInv => NameMatches
  BY DEF NameInv
<1> QED
  BY <1>1, <1>2, <1>3, TypeCorrect, PTL DEF Spec

----------------------------------------------------------------------------
(* PendingOwned and AckWakes.                                              *)

\* Every step keeps PendingOwned.
LEMMA OwnedStep ==
    ASSUME TypeOK, PendingOwned, Next
    PROVE  PendingOwned'
<1> USE DEF TypeOK, PendingOwned, Busy, clientVars
<1>1. ASSUME NEW c \in Caller, NEW n \in Name, NEW g \in Group, Lookup(c, n, g)
      PROVE  PendingOwned'
  <2> DEFINE k == [name |-> n, group |-> Effective(g)]
  <2>1. k \in Key
    BY EffectiveGroup, Members
  <2> HIDE DEF k
  <2>2. key' = [key EXCEPT ![c] = k] /\ phase[c] = "idle" /\ closes' = closes
    BY <1>1 DEF Lookup, k
  <2>3. CASE UNCHANGED <<pending, phase>>
    BY <2>1, <2>2, <2>3
  <2>4. CASE /\ pending[k] = None
             /\ pending' = [pending EXCEPT ![k] = c]
             /\ phase' = [phase EXCEPT ![c] = "registered"]
    <3> SUFFICES ASSUME closes = 0, NEW j \in Key, NEW d \in Caller
                 PROVE  (pending'[j] = d) <=> (Busy(d)' /\ key'[d] = j)
      BY <2>2
    <3>1. CASE d = c
      BY <2>1, <2>2, <2>4, <3>1
    <3>2. CASE d # c
      <4>1. None \notin Caller
        BY Answers, Zenon
      <4>2. pending[k] # d
        BY <2>4, <4>1
      <4> QED
        BY <2>1, <2>2, <2>4, <3>2, <4>2
    <3> QED
      BY <3>1, <3>2
  <2> QED
    BY <1>1, <2>3, <2>4, Zenon DEF Lookup, k
<1>2. ASSUME NEW c \in Caller, Write(c) \/ WriteFails(c) \/ Receive(c) \/ Timeout(c)
      PROVE  PendingOwned'
  <2>1. /\ UNCHANGED <<pending, key, closes>> /\ Busy(c)
        /\ phase' \in {[phase EXCEPT ![c] = "waiting"], [phase EXCEPT ![c] = "leaving"]}
    BY <1>2 DEF Write, WriteFails, Receive, Timeout, Return
  <2>2. \A d \in Caller : Busy(d)' <=> Busy(d)
    BY <2>1
  <2> HIDE DEF Busy
  <2> QED
    BY <2>1, <2>2
<1>3. ASSUME NEW c \in Caller, Leave(c) PROVE PendingOwned'
  <2>1. /\ pending' = [pending EXCEPT ![key[c]] = None] /\ UNCHANGED <<key, closes>>
        /\ phase' = [phase EXCEPT ![c] = "idle"]
        /\ Busy(c) /\ key[c] \in Key
    BY <1>3 DEF Leave
  <2>5. None \notin Caller
    BY Answers, Zenon
  <2> SUFFICES ASSUME closes = 0, NEW j \in Key, NEW d \in Caller
               PROVE  (pending'[j] = d) <=> (Busy(d)' /\ key'[d] = j)
    BY <2>1
  <2>2. pending[key[c]] = c
    BY <2>1
  <2>3. CASE d = c
    BY <2>1, <2>2, <2>3, <2>5
  <2>4. CASE d # c
    BY <2>1, <2>2, <2>4, <2>5
  <2> QED
    BY <2>3, <2>4
<1>4. CASE Close
  BY <1>4 DEF Close
<1>5. CASE HandleLookupAck \/ Serve \/ ServeFails \/ Disconnect \/ \E a \in PushAcks : Push(a)
  <2>1. UNCHANGED <<pending, phase, key, closes>>
    BY <1>5, Zenon DEF HandleLookupAck, Serve, ServeFails, Disconnect, Push
  <2> QED
    BY <2>1
<1> QED
  BY <1>1, <1>2, <1>3, <1>4, <1>5 DEF Next, CallStep

\* As long as Close has not been called, a key of the map is held by exactly
\* the call that is in progress for it.
THEOREM PendingOwnedAlways == Spec => []PendingOwned
<1>1. Init => PendingOwned
  <2> SUFFICES ASSUME Init PROVE PendingOwned
    OBVIOUS
  <2>1. \A k \in Key, c \in Caller : pending[k] # c
    BY Answers, Zenon DEF Init
  <2>2. \A c \in Caller : phase[c] = "idle"
    BY DEF Init
  <2> QED
    BY <2>1, <2>2 DEF PendingOwned, Busy
<1>2. TypeOK /\ PendingOwned /\ [Next]_vars => PendingOwned'
  <2> SUFFICES ASSUME TypeOK, PendingOwned, [Next]_vars PROVE PendingOwned'
    OBVIOUS
  <2>1. CASE Next
    BY <2>1, OwnedStep
  <2>2. CASE UNCHANGED vars
    BY <2>2 DEF vars, PendingOwned, Busy
  <2> QED
    BY <2>1, <2>2
<1> QED
  BY <1>1, <1>2, TypeCorrect, PTL DEF Spec

\* As long as the client has not been closed, an ack with a service of the
\* name and group a GetService waits for reaches it.
THEOREM AckWakesAlways == Spec => AckWakes
<1>1. ASSUME TypeOK, PendingOwned, closes = 0, NEW c \in Caller,
             HandleLookupAck, phase[c] = "waiting",
             NEW i \in DOMAIN Head(acks), Head(acks)[i] = key[c]
      PROVE  chan'[c] # Empty
  <2>1. PICK ack \in Seq(Svc) : ack = Head(acks)
    BY <1>1 DEF HandleLookupAck, TypeOK
  <2>2. key[c] \in Key /\ pending[key[c]] = c
    BY <1>1 DEF TypeOK, PendingOwned, Busy
  <2>3. key[c] = [name |-> key[c].name, group |-> key[c].group]
    BY <2>2 DEF Key
  <2>4. key[c] \in KeysOf(ack[i]) /\ i \in DOMAIN ack
    BY <1>1, <2>1, <2>3, Zenon DEF KeysOf
  <2>5. c # None
    BY Answers, Zenon
  <2>6. ack # <<>>
    BY <2>4
  <2>7. c \in Woken(ack)
    BY <2>2, <2>4, <2>5, <2>6, Zenon DEF Woken
  <2>8. chan'[c] = IF chan[c] = Empty THEN Acked(ack) ELSE chan[c]
    BY <1>1, <2>1, <2>7, Zenon DEF HandleLookupAck, Offer
  <2>9. Acked(ack) # Empty
    BY DEF Acked, Empty
  <2> QED
    BY <2>8, <2>9
<1>2. TypeOK /\ PendingOwned => (closes = 0 => \A c \in Caller : AckReaches(c))
  BY <1>1, Zenon DEF AckReaches
<1> QED
  BY <1>2, TypeCorrect, PendingOwnedAlways, PTL DEF Spec, AckWakes


----------------------------------------------------------------------------
(* GroupMatches.                                                           *)

\* The services of one name in an ack are of one group.  An ack of the disco
\* server has one service only; a peer that batched several groups of one name
\* would defeat the choice in GetService, which looks at names alone.
OneGroup(ack) ==
    \A i, j \in DOMAIN ack : ack[i].name = ack[j].name => ack[i].group = ack[j].group

AcksUniform == \A m \in DOMAIN acks : OneGroup(acks[m])

\* An ack in the channel of a caller with a group other than the client's own
\* has no service of its name in another group.
ChanGrouped ==
    \A c \in Caller :
        Busy(c) /\ key[c].group # DefaultGroup =>
            \A i \in DOMAIN chan[c].services :
                chan[c].services[i].name = key[c].name => chan[c].services[i].group = key[c].group

GroupInv == AcksUniform /\ ChanGrouped /\ GroupMatches

\* A caller that an ack wakes and whose group is not the client's own finds in
\* it only services of its own group under its name.
LEMMA WokenGroup ==
    ASSUME TypeOK, Registered, NEW ack \in Seq(Svc), OneGroup(ack), ack # <<>>,
           NEW c \in Caller, c \in Woken(ack), key[c].group # DefaultGroup,
           NEW i \in DOMAIN ack, ack[i].name = key[c].name
    PROVE  ack[i].group = key[c].group
<1>0. Matched(ack, c)
  BY WokenBy
<1>1. PICK j \in DOMAIN ack, k \in Key :
         /\ pending[k] = c /\ k.name = ack[j].name
         /\ k.group \in {ack[j].group, DefaultGroup, ""}
  BY <1>0, Zenon DEF Matched
<1>2. Busy(c) /\ key[c] = k
  BY <1>1, Zenon DEF Registered
<1>3. NodeOf[key[c].group] # None
  BY <1>2 DEF TypeOK
<1>4. key[c].group # ""
  BY <1>3, LookupConstants
<1> QED
  BY <1>1, <1>2, <1>4 DEF OneGroup

\* What happens to the streams keeps their acks uniform.
LEMMA AppendUniform ==
    ASSUME acks \in Seq(Seq(Svc)), AcksUniform, NEW a \in Seq(Svc), OneGroup(a), acks' = Append(acks, a)
    PROVE  AcksUniform'
<1>1. /\ DOMAIN acks' = 1..(Len(acks) + 1) /\ DOMAIN acks = 1..Len(acks)
      /\ acks'[Len(acks) + 1] = a /\ \A m \in DOMAIN acks : acks'[m] = acks[m]
  OBVIOUS
<1> QED
  BY <1>1 DEF AcksUniform

LEMMA TailUniform ==
    ASSUME acks \in Seq(Seq(Svc)), AcksUniform, acks # <<>>, acks' = Tail(acks)
    PROVE  AcksUniform' /\ Head(acks) \in Seq(Svc) /\ OneGroup(Head(acks))
<1>1. /\ DOMAIN acks' = 1..(Len(acks) - 1) /\ DOMAIN acks = 1..Len(acks) /\ Len(acks) \in Nat /\ Len(acks) # 0
      /\ Head(acks) = acks[1]
  OBVIOUS
<1>2. \A m \in DOMAIN acks' : m + 1 \in DOMAIN acks /\ acks'[m] = acks[m + 1]
  BY <1>1
<1>3. 1 \in DOMAIN acks
  BY <1>1
<1> QED
  BY <1>1, <1>2, <1>3 DEF AcksUniform

\* Every step keeps GroupInv, if peers send uniform acks.
LEMMA GroupStep ==
    ASSUME TypeOK, NameInv, GroupInv, Next, \A a \in PushAcks : OneGroup(a)
    PROVE  GroupInv'
<1> USE DEF GroupInv, clientVars
<1>1. ASSUME NEW c \in Caller, NEW n \in Name, NEW g \in Group, Lookup(c, n, g)
      PROVE  GroupInv'
  <2> DEFINE k == [name |-> n, group |-> Effective(g)]
  <2> HIDE DEF k
  <2>1. /\ key' = [key EXCEPT ![c] = k] /\ phase[c] = "idle" /\ acks' = acks
        /\ got' = [got EXCEPT ![c] = None]
    BY <1>1 DEF Lookup, k
  <2>2. \/ UNCHANGED <<phase, chan>> /\ out' \in {[out EXCEPT ![c] = "badgroup"], [out EXCEPT ![c] = "busy"]}
        \/ /\ chan' = [chan EXCEPT ![c] = Empty]
           /\ out' = [out EXCEPT ![c] = "none"]
           /\ phase' = [phase EXCEPT ![c] = "registered"]
    BY <1>1, Zenon DEF Lookup
  <2>3. ChanGrouped'
    <3> SUFFICES ASSUME NEW d \in Caller, Busy(d)', key'[d].group # DefaultGroup,
                        NEW i \in DOMAIN chan'[d].services,
                        chan'[d].services[i].name = key'[d].name
                 PROVE  chan'[d].services[i].group = key'[d].group
      BY DEF ChanGrouped
    <3>1. CASE d = c
      <4>1. CASE UNCHANGED <<phase, chan>>
        BY <2>1, <3>1, <4>1 DEF Busy
      <4>2. CASE chan' = [chan EXCEPT ![c] = Empty]
        <5>1. chan'[c] = Empty /\ DOMAIN Empty.services = {}
          BY <4>2 DEF TypeOK, Empty
        <5> QED
          BY <3>1, <5>1
      <4> QED
        BY <2>2, <4>1, <4>2
    <3>2. CASE d # c
      <4>1. key'[d] = key[d] /\ chan'[d] = chan[d] /\ phase'[d] = phase[d]
        BY <2>1, <2>2, <3>2 DEF TypeOK
      <4> QED
        BY <4>1 DEF Busy, ChanGrouped
    <3> QED
      BY <3>1, <3>2
  <2>4. GroupMatches'
    BY <2>1, <2>2 DEF TypeOK, GroupMatches
  <2> QED
    BY <2>1, <2>3, <2>4 DEF AcksUniform
<1>2. ASSUME NEW c \in Caller, Write(c) \/ Leave(c) PROVE GroupInv'
  <2>1. /\ UNCHANGED <<key, chan, out, got, acks>> /\ Busy(c)
        /\ \A d \in Caller : Busy(d)' => Busy(d)
    BY <1>2 DEF Write, Leave, TypeOK, Busy
  <2> QED
    BY <2>1 DEF AcksUniform, ChanGrouped, GroupMatches
<1>3. ASSUME NEW c \in Caller, WriteFails(c) \/ Timeout(c) PROVE GroupInv'
  <2>1. /\ UNCHANGED <<key, chan, acks>>
        /\ \A d \in Caller : Busy(d)' => Busy(d)
        /\ out'[c] # "ok" /\ \A d \in Caller \ {c} : out'[d] = out[d] /\ got'[d] = got[d]
    BY <1>3 DEF WriteFails, Timeout, Return, TypeOK, Busy
  <2> QED
    BY <2>1 DEF AcksUniform, ChanGrouped, GroupMatches
<1>4. ASSUME NEW c \in Caller, Receive(c) PROVE GroupInv'
  <2>1. /\ phase[c] = "waiting" /\ phase' = [phase EXCEPT ![c] = "leaving"]
        /\ chan' = [chan EXCEPT ![c] = Empty] /\ key' = key /\ acks' = acks
    BY <1>4 DEF Receive, Return
  <2>2. ChanGrouped'
    <3>1. \A d \in Caller : Busy(d)' => Busy(d)
      BY <2>1 DEF Busy, TypeOK
    <3>2. DOMAIN Empty.services = {}
      BY DEF Empty
    <3>3. \A d \in Caller : chan'[d] = chan[d] \/ chan'[d] = Empty
      BY <2>1 DEF TypeOK
    <3> QED
      BY <2>1, <3>1, <3>2, <3>3 DEF ChanGrouped
  <2>3. chan[c].services \in Seq(Svc) /\ key[c] \in Key /\ key[c].name \in Name /\ Busy(c)
    BY <2>1, Members DEF TypeOK, Busy
  <2>4. chan[c].services # <<>> =>
          \E i \in DOMAIN chan[c].services :
            Pick(chan[c].services, key[c].name) = chan[c].services[i] /\ chan[c].services[i].name = key[c].name
    BY <2>3, PickFirst DEF NameInv, ChanNamed
  <2>5. chan[c].services # <<>> /\ key[c].group # DefaultGroup =>
          Pick(chan[c].services, key[c].name).group = key[c].group
    BY <2>3, <2>4 DEF ChanGrouped
  <2>6. GroupMatches'
    <3>1. \/ out' = [out EXCEPT ![c] = "closed"]
          \/ out' = [out EXCEPT ![c] = "notfound"]
          \/ /\ chan[c].services # <<>>
             /\ out' = [out EXCEPT ![c] = "ok"]
             /\ got' = [got EXCEPT ![c] = Pick(chan[c].services, key[c].name)]
      BY <1>4, Zenon DEF Receive, Return
    <3>2. \A d \in Caller \ {c} : out'[d] = out[d] /\ got'[d] = got[d]
      BY <1>4 DEF Receive, Return, TypeOK
    <3>3. out'[c] = "ok" => chan[c].services # <<>> /\ got'[c] = Pick(chan[c].services, key[c].name)
      BY <3>1 DEF TypeOK
    <3> QED
      BY <2>1, <2>5, <3>2, <3>3 DEF GroupMatches
  <2> QED
    BY <2>1, <2>2, <2>6 DEF AcksUniform
<1>5. CASE HandleLookupAck
  <2>1. AcksUniform' /\ Head(acks) \in Seq(Svc) /\ OneGroup(Head(acks))
    BY <1>5, TailUniform DEF HandleLookupAck, TypeOK
  <2>2. PICK ack \in Seq(Svc) : ack = Head(acks) /\ OneGroup(ack)
    BY <2>1
  <2>3. /\ UNCHANGED <<pending, phase, key, out, got>>
        /\ \A c \in Caller : chan'[c] = chan[c] \/ (c \in Woken(ack) /\ chan'[c] = Acked(ack))
    BY <1>5, <2>2, Zenon DEF HandleLookupAck, Offer
  <2>4. ChanGrouped'
    <3> SUFFICES ASSUME NEW c \in Caller, Busy(c), key[c].group # DefaultGroup,
                        NEW i \in DOMAIN chan'[c].services,
                        chan'[c].services[i].name = key[c].name
                 PROVE  chan'[c].services[i].group = key[c].group
      BY <2>3 DEF ChanGrouped, Busy
    <3>1. CASE chan'[c] = chan[c]
      BY <3>1 DEF ChanGrouped
    <3>2. CASE c \in Woken(ack) /\ chan'[c] = Acked(ack)
      <4>1. i \in DOMAIN ack /\ ack[i].name = key[c].name /\ ack # <<>> /\ chan'[c].services[i] = ack[i]
        BY <3>2 DEF Acked
      <4> QED
        BY <2>2, <3>2, <4>1, WokenGroup DEF NameInv
    <3> QED
      BY <2>3, <3>1, <3>2
  <2> QED
    BY <2>1, <2>3, <2>4 DEF GroupMatches
<1>6. CASE Close
  <2>1. /\ UNCHANGED <<phase, key, out, got, acks>>
        /\ \A c \in Caller : chan'[c] = chan[c] \/ chan'[c] = Closed
    BY <1>6, Zenon DEF Close, Offer
  <2>2. DOMAIN Closed.services = {}
    BY DEF Closed
  <2> QED
    BY <2>1, <2>2 DEF AcksUniform, ChanGrouped, GroupMatches, Busy
<1>7. CASE Serve \/ ServeFails \/ Disconnect \/ \E a \in PushAcks : Push(a)
  <2>1. UNCHANGED <<pending, phase, key, chan, out, got>>
    BY <1>7, Zenon DEF Serve, ServeFails, Disconnect, Push
  <2>2. AcksUniform'
    <3>1. CASE Serve
      <4> DEFINE a == <<[name |-> Head(reqs).name, group |-> GroupOf[Head(reqs).node]]>>
      <4>1. Head(reqs) \in Req /\ acks' = Append(acks, a)
        BY <3>1 DEF Serve, TypeOK
      <4>a. [name |-> Head(reqs).name, group |-> GroupOf[Head(reqs).node]] \in Svc
        BY <4>1, Answers DEF Req, Svc
      <4>2. a \in Seq(Svc) /\ DOMAIN a = {1}
        BY <4>a
      <4>3. OneGroup(a)
        BY <4>2 DEF OneGroup
      <4> HIDE DEF a
      <4> QED
        BY <4>1, <4>2, <4>3, AppendUniform DEF TypeOK
    <3>2. CASE ServeFails \/ Disconnect
      BY <3>2 DEF ServeFails, Disconnect, AcksUniform
    <3>3. ASSUME NEW a \in PushAcks, Push(a) PROVE AcksUniform'
      BY <3>3, AppendUniform, Answers DEF Push, TypeOK
    <3> QED
      BY <1>7, <3>1, <3>2, <3>3
  <2> QED
    BY <2>1, <2>2 DEF ChanGrouped, GroupMatches, Busy
<1> QED
  BY <1>1, <1>2, <1>3, <1>4, <1>5, <1>6, <1>7 DEF Next, CallStep

\* A GetService for a group other than the client's own that succeeds returns a
\* service of that group, whatever else is answered, pushed or closed meanwhile,
\* as long as no peer mixes groups of one name in an ack (rpc_client.go:131-144,
\* 208-237).
THEOREM GroupMatchesAlways ==
    ASSUME \A a \in PushAcks : OneGroup(a)
    PROVE  Spec => []GroupMatches
<1>1. Init => NameInv /\ GroupInv
  <2> SUFFICES ASSUME Init PROVE NameInv /\ GroupInv
    OBVIOUS
  <2>1. \A k \in Key, c \in Caller : pending[k] # c
    BY Answers, Zenon DEF Init
  <2>2. \A c \in Caller : phase[c] = "idle" /\ out[c] = "none"
    BY DEF Init
  <2>3. DOMAIN acks = {}
    BY DEF Init
  <2> QED
    BY <2>1, <2>2, <2>3 DEF NameInv, Registered, ChanNamed, NameMatches, Busy,
       GroupInv, AcksUniform, ChanGrouped, GroupMatches
<1>2. TypeOK /\ NameInv /\ GroupInv /\ [Next]_vars => NameInv' /\ GroupInv'
  <2> SUFFICES ASSUME TypeOK, NameInv, GroupInv, [Next]_vars PROVE NameInv' /\ GroupInv'
    OBVIOUS
  <2>1. CASE Next
    BY <2>1, NameStep, GroupStep
  <2>2. CASE UNCHANGED vars
    BY <2>2 DEF vars, NameInv, Registered, ChanNamed, NameMatches, Busy,
       GroupInv, AcksUniform, ChanGrouped, GroupMatches
  <2> QED
    BY <2>1, <2>2
<1>3. GroupInv => GroupMatches
  BY DEF GroupInv
<1> QED
  BY <1>1, <1>2, <1>3, TypeCorrect, PTL DEF Spec
=============================================================================
