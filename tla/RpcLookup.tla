----------------------------- MODULE RpcLookup -----------------------------
(***************************************************************************)
(* GetService of the TCP discovery client (pkg/naming/rpc_client.go): a    *)
(* blocking call on top of an asynchronous protocol.  A caller registers a *)
(* channel under the key name@group in r.pending, writes a LOOKUP, and     *)
(* waits for HandleLookupAck (run by the connection's reader goroutine),   *)
(* for Close or for a timeout.  The LOOKUP_ACK carries no request number:  *)
(* it is matched to the waiters by the names and groups of its services.   *)
(*                                                                         *)
(* Every call makes a channel of its own; a channel is named here by its   *)
(* caller, which has one call at a time.  r.mu makes registration, the     *)
(* handling of an ack, the deferred delete and Close atomic; nothing else  *)
(* is.  Between client and server there are two FIFO streams of one TCP    *)
(* connection, both lost when it breaks and reconnects.                    *)
(*                                                                         *)
(* Group names are strings; the protocol carries int32 nodes.  NodeOf is   *)
(* int32(strconv.Atoi(g)) (None where Atoi fails), GroupOf is              *)
(* strconv.Itoa: NodeOf is not injective ("1" and "01" are one node).      *)
(*                                                                         *)
(* A key is the text name + "@" + group in the code and a pair here.  For  *)
(* the keys in r.pending that is the same: their groups are numbers, so    *)
(* that the last "@" of the text is the one between name and group.  The   *)
(* keys that HandleLookupAck looks up have the groups of the ack, which    *)
(* are numbers, too, if the disco server sent it; an ack of another peer   *)
(* with an "@" in the group of a service (name "a", group "b@1" against    *)
(* "a@b" in "1") is left out.                                              *)
(***************************************************************************)
EXTENDS Naturals, Sequences

CONSTANTS
    Caller,         \* goroutines that call GetService
    Name,           \* service names
    Group,          \* group names a caller or a peer may use, "" among them
    Node,           \* int32 node numbers
    None,           \* nil; not a caller, a node, a service or a key
    DefaultGroup,   \* r.groupName
    NodeOf, GroupOf,
    PushAcks,       \* acks that a peer other than the disco server may send
    MaxCalls,       \* bound: calls of GetService in a behaviour
    MaxPush,        \* bound: acks from PushAcks in a behaviour
    MaxCloses       \* bound: calls of Close in a behaviour

Svc == [name : Name, group : Group]     \* gen.Service, as far as it is matched
Key == [name : Name, group : Group]     \* lookupKey(name, group)
Req == [name : Name, node : Node]       \* gen.Lookup

ASSUME LookupConstants ==
    /\ DefaultGroup \in Group /\ "" \in Group
    /\ NodeOf \in [Group -> Node \cup {None}]
    /\ NodeOf[""] = None
    /\ GroupOf \in [Node -> Group]
    /\ \A n \in Node : NodeOf[GroupOf[n]] = n
    /\ None \notin Caller \cup Node \cup Svc
    /\ PushAcks \subseteq Seq(Svc)
    /\ MaxCalls \in Nat /\ MaxPush \in Nat /\ MaxCloses \in Nat

VARIABLES
    pending,        \* r.pending: key -> caller whose channel it holds, or None
    phase,          \* where each caller is in lookup
    key,            \* the key of the caller's present or latest call
    chan,           \* content of the caller's channel (capacity 1)
    out, got,       \* how the latest call returned, and the service if "ok"
    reqs, acks,     \* the two streams of the connection
    calls, pushes, closes       \* what the bounds count

clientVars == <<pending, phase, key, chan, out, got>>
vars == <<pending, phase, key, chan, out, got, reqs, acks, calls, pushes, closes>>

\* lookupResult.  "empty" is the empty channel; err is only set by Close.
Empty == [kind |-> "empty", services |-> <<>>]
Closed == [kind |-> "closed", services |-> <<>>]
Acked(a) == [kind |-> "acked", services |-> a]
Result == [kind : {"empty", "closed", "acked"}, services : Seq(Svc)]

Init ==
    /\ pending = [k \in Key |-> None]
    /\ phase = [c \in Caller |-> "idle"]
    /\ key = [c \in Caller |-> None]
    /\ chan = [c \in Caller |-> Empty]
    /\ out = [c \in Caller |-> "none"]
    /\ got = [c \in Caller |-> None]
    /\ reqs = <<>>
    /\ acks = <<>>
    /\ calls = 0
    /\ pushes = 0
    /\ closes = 0

Effective(g) == IF g = "" THEN DefaultGroup ELSE g

----------------------------------------------------------------------------
(* The caller.                                                             *)

\* lookup up to the unlock after registration, and its two early returns.
Lookup(c, n, g) ==
    LET k == [name |-> n, group |-> Effective(g)] IN
    /\ phase[c] = "idle"
    /\ calls < MaxCalls
    /\ calls' = calls + 1
    /\ key' = [key EXCEPT ![c] = k]
    /\ got' = [got EXCEPT ![c] = None]
    /\ \/ /\ NodeOf[k.group] = None
          /\ out' = [out EXCEPT ![c] = "badgroup"]
          /\ UNCHANGED <<pending, phase, chan>>
       \/ /\ NodeOf[k.group] # None
          /\ pending[k] # None
          /\ out' = [out EXCEPT ![c] = "busy"]
          /\ UNCHANGED <<pending, phase, chan>>
       \/ /\ NodeOf[k.group] # None
          /\ pending[k] = None
          /\ pending' = [pending EXCEPT ![k] = c]
          /\ chan' = [chan EXCEPT ![c] = Empty]
          /\ out' = [out EXCEPT ![c] = "none"]
          /\ phase' = [phase EXCEPT ![c] = "registered"]
    /\ UNCHANGED <<reqs, acks, pushes, closes>>

Write(c) ==
    /\ phase[c] = "registered"
    /\ reqs' = Append(reqs, [name |-> key[c].name, node |-> NodeOf[key[c].group]])
    /\ phase' = [phase EXCEPT ![c] = "waiting"]
    /\ UNCHANGED <<pending, key, chan, out, got, acks, calls, pushes, closes>>

\* The call is over but for the deferred delete.
Return(c, how, svc) ==
    /\ out' = [out EXCEPT ![c] = how]
    /\ got' = [got EXCEPT ![c] = svc]
    /\ phase' = [phase EXCEPT ![c] = "leaving"]

WriteFails(c) ==
    /\ phase[c] = "registered"
    /\ Return(c, "writeerr", None)
    /\ UNCHANGED <<pending, key, chan, reqs, acks, calls, pushes, closes>>

\* GetService on the services of the ack: the first one with the name asked
\* for, else the first one.
Pick(services, n) ==
    LET hits == {i \in DOMAIN services : services[i].name = n} IN
    IF hits # {} THEN services[CHOOSE i \in hits : \A j \in hits : i <= j]
                 ELSE services[1]

\* case res := <-ch
Receive(c) ==
    /\ phase[c] = "waiting"
    /\ chan[c] # Empty
    /\ chan' = [chan EXCEPT ![c] = Empty]
    /\ \/ /\ chan[c] = Closed
          /\ Return(c, "closed", None)
       \/ /\ chan[c] # Closed
          /\ chan[c].services = <<>>
          /\ Return(c, "notfound", None)
       \/ /\ chan[c].services # <<>>
          /\ Return(c, "ok", Pick(chan[c].services, key[c].name))
    /\ UNCHANGED <<pending, key, reqs, acks, calls, pushes, closes>>

\* A select without the timer.
TimeoutMissing(c) ==
    /\ phase[c] = "waiting" /\ chan[c] # Empty
    /\ Return(c, "timeout", None)
    /\ UNCHANGED <<pending, key, chan, reqs, acks, calls, pushes, closes>>

\* case <-time.After(timeout): possible whatever the channel holds.
Timeout(c) ==
    /\ phase[c] = "waiting"
    /\ Return(c, "timeout", None)
    /\ UNCHANGED <<pending, key, chan, reqs, acks, calls, pushes, closes>>

\* A return that does not clean up after itself.
LeaveEntry(c) ==
    /\ phase[c] = "leaving"
    /\ phase' = [phase EXCEPT ![c] = "idle"]
    /\ UNCHANGED <<pending, key, chan, out, got, reqs, acks, calls, pushes, closes>>

\* The deferred function: it deletes the key, whoever's channel is there.
Leave(c) ==
    /\ phase[c] = "leaving"
    /\ pending' = [pending EXCEPT ![key[c]] = None]
    /\ phase' = [phase EXCEPT ![c] = "idle"]
    /\ UNCHANGED <<key, chan, out, got, reqs, acks, calls, pushes, closes>>

----------------------------------------------------------------------------
(* The reader goroutine and Close.                                         *)

\* A non-blocking send to the channels of the callers in S.
Offer(S, r) ==
    chan' = [c \in Caller |-> IF c \in S /\ chan[c] = Empty THEN r ELSE chan[c]]

\* Matching by name only, and matching by the client's own group only.
KeysOfAnyGroup(svc) == {[name |-> svc.name, group |-> g] : g \in Group}
KeysOfOwnGroup(svc) == {[name |-> svc.name, group |-> g] : g \in {DefaultGroup, ""}}

KeysOf(svc) ==
    {[name |-> svc.name, group |-> g] : g \in {svc.group, DefaultGroup, ""}}

\* An ack offered to every waiter.
WokenAll(ack) == {pending[k] : k \in Key} \ {None}

\* The waiters an ack is offered to; all of them if it has no services.
Woken(ack) ==
    IF ack = <<>>
    THEN {pending[k] : k \in Key} \ {None}
    ELSE {pending[k] : k \in UNION {KeysOf(ack[i]) : i \in DOMAIN ack}} \ {None}

HandleLookupAck ==
    /\ acks # <<>>
    /\ acks' = Tail(acks)
    /\ Offer(Woken(Head(acks)), Acked(Head(acks)))
    /\ UNCHANGED <<pending, phase, key, out, got, reqs, calls, pushes, closes>>

Close ==
    /\ closes < MaxCloses
    /\ closes' = closes + 1
    /\ Offer({pending[k] : k \in Key} \ {None}, Closed)
    /\ pending' = [k \in Key |-> None]
    /\ UNCHANGED <<phase, key, out, got, reqs, acks, calls, pushes>>

----------------------------------------------------------------------------
(* The other end and the connection.                                       *)

\* The disco server answers a LOOKUP with exactly one service.
Serve ==
    /\ reqs # <<>>
    /\ reqs' = Tail(reqs)
    /\ acks' = Append(acks, <<[name |-> Head(reqs).name, group |-> GroupOf[Head(reqs).node]]>>)
    /\ UNCHANGED <<clientVars, calls, pushes, closes>>

\* ... or, when its own discovery fails, not at all.
ServeFails ==
    /\ reqs # <<>>
    /\ reqs' = Tail(reqs)
    /\ UNCHANGED <<clientVars, acks, calls, pushes, closes>>

\* Another implementation of the protocol may batch services, or send none.
Push(a) ==
    /\ pushes < MaxPush
    /\ pushes' = pushes + 1
    /\ acks' = Append(acks, a)
    /\ UNCHANGED <<clientVars, reqs, calls, closes>>

\* The connection breaks and reconnects.
Disconnect ==
    /\ reqs \o acks # <<>>
    /\ reqs' = <<>>
    /\ acks' = <<>>
    /\ UNCHANGED <<clientVars, calls, pushes, closes>>

----------------------------------------------------------------------------
CallStep(c) == Write(c) \/ WriteFails(c) \/ Receive(c) \/ Timeout(c) \/ Leave(c)

Next ==
    \/ \E c \in Caller, n \in Name, g \in Group : Lookup(c, n, g)
    \/ \E c \in Caller : CallStep(c)
    \/ HandleLookupAck \/ Close \/ Serve \/ ServeFails \/ Disconnect
    \/ \E a \in PushAcks : Push(a)

Spec == Init /\ [][Next]_vars

\* A caller that has got past its write keeps running and its timer fires.
\* The write itself may block for ever: it comes before the timer and has no
\* deadline (rpc_client.go:291, tcp_con.go:193), so that a peer that stops
\* reading keeps it.  Nothing is assumed of the server, of the connection or
\* of the reader goroutine.
FairSpec == Spec /\ \A c \in Caller : WF_vars(phase[c] # "registered" /\ CallStep(c))

----------------------------------------------------------------------------
(* Properties.                                                             *)

Busy(c) == phase[c] \in {"registered", "waiting", "leaving"}

\* Types; a caller inside lookup always has a key whose group is a number.
TypeOK ==
    /\ pending \in [Key -> Caller \cup {None}]
    /\ phase \in [Caller -> {"idle", "registered", "waiting", "leaving"}]
    /\ key \in [Caller -> Key \cup {None}]
    /\ \A c \in Caller : Busy(c) => key[c] # None /\ NodeOf[key[c].group] # None
    /\ chan \in [Caller -> Result]
    /\ out \in [Caller -> {"none", "ok", "notfound", "closed", "timeout", "busy",
                           "badgroup", "writeerr"}]
    /\ got \in [Caller -> Svc \cup {None}]
    /\ reqs \in Seq(Req)
    /\ acks \in Seq(Seq(Svc))
    /\ calls \in Nat /\ pushes \in Nat /\ closes \in Nat

\* GetService never returns a service of another name, whatever acks arrive
\* late, in batches, or after a Close: the fall-back to services[0] in
\* GetService (rpc_client.go:142) is never taken.
NameMatches ==
    \A c \in Caller : out[c] = "ok" => got[c] # None /\ got[c].name = key[c].name

\* A caller that asks for a group other than the client's own gets a service
\* of the group it asked for, never one that answers another caller's lookup
\* (an ack also wakes the waiter of the DEFAULT group, rpc_client.go:224, so
\* nothing of the kind holds there).
GroupMatches ==
    \A c \in Caller :
        out[c] = "ok" /\ key[c].group # DefaultGroup => got[c].group = key[c].group

\* Without Close, the map entry of a key belongs to the one call that is in
\* progress for it: the call that registered it is there until its own
\* deferred delete, and no two calls share a key.
PendingOwned ==
    closes = 0 =>
        \A k \in Key, c \in Caller : (pending[k] = c) <=> (Busy(c) /\ key[c] = k)

\* After an ack with a service of the name and group a caller waits for, the
\* caller's channel is not empty.
AckReaches(c) ==
    (/\ HandleLookupAck
     /\ phase[c] = "waiting"
     /\ \E i \in DOMAIN Head(acks) : Head(acks)[i] = key[c])
        => chan'[c] # Empty

\* What HandleLookupAck promises (rpc_client.go:208: called on a LOOKUP_ACK,
\* it "wakes the GetService that is waiting"), as long as the client has not
\* been closed: the waiter of the key is still registered when its ack comes.
AckWakes == [][closes = 0 => \A c \in Caller : AckReaches(c)]_vars

\* The same without the proviso: GetService may be called again after Close,
\* which only empties the map (rpc_client.go:49-58).
AckWakesAfterClose == [][\A c \in Caller : AckReaches(c)]_vars

\* The timeout of GetService covers the wait for the answer, whatever is lost,
\* late or closed meanwhile: the only place where a call can stay for ever is
\* its write (rpc_client.go:291), which comes before the timer.
LookupReturns ==
    \A c \in Caller : Busy(c) ~> (phase[c] = "idle" \/ [](phase[c] = "registered"))

=============================================================================
