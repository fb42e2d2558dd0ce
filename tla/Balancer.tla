------------------------------ MODULE Balancer -----------------------------
(***************************************************************************)
(* The balancers of pkg/balancer: composeBalancer.Resolve binds a stream   *)
(* to an instance (compose.go), which it gets for a new stream from        *)
(* roundRobinBalancer.Resolve and Pick (robin.go).  Both keep what they    *)
(* know in the configuration service, which other callers use at the same  *)
(* time; nothing is locked, nextIndex included.                            *)
(*                                                                         *)
(* What is not stored reads as the empty string, as with the Nacos client; *)
(* the TCP client reports an error instead (rpc_client.go:118), and no new *)
(* stream can be resolved with it.  Every call of the client may fail.  A  *)
(* service stands for its list of instances, an instance for its place in  *)
(* the list.  The node is the same in all calls.  The keys of services and *)
(* streams ("service_<name>_<node>", "service_<name>_<stream>_<node>") are *)
(* taken to be all different; names with underscores could make two equal. *)
(***************************************************************************)
EXTENDS Integers

CONSTANTS
    Client,         \* goroutines that call Resolve
    Service,
    Size,           \* Size[s]: number of instances of s
    Stream,
    MaxCalls        \* bound: calls of Resolve

ASSUME BalancerConstants ==
    /\ Size \in [Service -> Nat]
    /\ MaxCalls \in Nat

VARIABLES
    svcConf,        \* the config of a service: "empty", "json" or "text"
    bound,          \* the config of a stream of a service: its instance, Unbound if empty
    nextIndex,
    call,           \* call[c]: the Resolve in progress or the latest one
    calls           \* calls of Resolve so far

balancerVars == <<svcConf, bound, nextIndex, call, calls>>

Unbound == -1
Streams == Service \X Stream

\* pc, arguments, the value of nextIndex that was read, the instance, the
\* result, and whether the stream was bound when the call began (history).
NoCall == [pc |-> "done", svc |-> CHOOSE s \in Service : TRUE, str |-> CHOOSE t \in Stream : TRUE,
           old |-> 0, inst |-> 0, result |-> "none", fresh |-> FALSE]

BalancerInit ==
    /\ svcConf = [s \in Service |-> "empty"]
    /\ bound = [b \in Streams |-> Unbound]
    /\ nextIndex = 0 /\ calls = 0
    /\ call = [c \in Client |-> NoCall]

At(c, pc) == call[c].pc = pc
Goto(c, pc) == call' = [call EXCEPT ![c].pc = pc]
Return(c, result) == call' = [call EXCEPT ![c].pc = "done", ![c].result = result]

\* A call of the discovery client returns an error.
ClientFails(c) ==
    /\ call[c].pc \in {"get", "lookup", "save json", "save text"}
    /\ Return(c, "client error")
    /\ UNCHANGED <<svcConf, bound, nextIndex, calls>>

----------------------------------------------------------------------------
(* composeBalancer.Resolve                                                 *)

\* A Resolve that does not look whether the stream is bound.
ResolveAnew(c, s, t) ==
    /\ At(c, "done") /\ calls < MaxCalls
    /\ calls' = calls + 1
    /\ call' = [call EXCEPT ![c] = [NoCall EXCEPT !.svc = s, !.str = t, !.pc = "get", !.fresh = bound[<<s, t>>] = Unbound]]
    /\ UNCHANGED <<svcConf, bound, nextIndex>>

\* GetConfig: the stream is bound, or it is the inner balancer's turn, or an
\* error.
Resolve(c, s, t) ==
    /\ At(c, "done") /\ calls < MaxCalls
    /\ calls' = calls + 1
    /\ LET new == [NoCall EXCEPT !.svc = s, !.str = t] IN
       \/ /\ bound[<<s, t>>] = Unbound
          /\ call' = [call EXCEPT ![c] = [new EXCEPT !.pc = "get", !.fresh = TRUE]]
       \/ /\ bound[<<s, t>>] # Unbound
          /\ call' = [call EXCEPT ![c] = [new EXCEPT !.inst = bound[<<s, t>>], !.result = "instance"]]
       \/ call' = [call EXCEPT ![c] = [new EXCEPT !.result = "client error"]]
    /\ UNCHANGED <<svcConf, bound, nextIndex>>

\* SetConfig, the error of which is ignored.
Bind(c) ==
    /\ At(c, "bind")
    /\ bound' \in {bound, [bound EXCEPT ![<<call[c].svc, call[c].str>>] = call[c].inst]}
    /\ Return(c, "instance")
    /\ UNCHANGED <<svcConf, nextIndex, calls>>

----------------------------------------------------------------------------
(* roundRobinBalancer.Resolve                                              *)

\* What is found under the key of the service is read as JSON.
GetConfig(c) ==
    /\ At(c, "get")
    /\ CASE svcConf[call[c].svc] = "empty" -> Goto(c, "lookup")
         [] svcConf[call[c].svc] = "json"  -> Goto(c, "save text")
         [] svcConf[call[c].svc] = "text"  -> Return(c, "unmarshal error")
    /\ UNCHANGED <<svcConf, bound, nextIndex, calls>>

\* The service is found; that it is not counts as an error of the client.
GetService(c) ==
    /\ At(c, "lookup")
    /\ Goto(c, "save json")
    /\ UNCHANGED <<svcConf, bound, nextIndex, calls>>

\* SetConfig with what json.Marshal makes of the service ...
SaveJson(c) ==
    /\ At(c, "save json")
    /\ svcConf' = [svcConf EXCEPT ![call[c].svc] = "json"]
    /\ Goto(c, "save text")
    /\ UNCHANGED <<bound, nextIndex, calls>>

\* ... and with what service.String() makes of it.
SaveText(c) ==
    /\ At(c, "save text")
    /\ svcConf' = [svcConf EXCEPT ![call[c].svc] = "text"]
    /\ Goto(c, "load")
    /\ UNCHANGED <<bound, nextIndex, calls>>

\* The configuration is deleted from outside.
DeleteConfig(s) ==
    /\ svcConf[s] # "empty"
    /\ svcConf' = [svcConf EXCEPT ![s] = "empty"]
    /\ UNCHANGED <<bound, nextIndex, call, calls>>

----------------------------------------------------------------------------
(* Pick: nextIndex is read, written and read again.                        *)

PickEmpty(c) ==
    /\ At(c, "load") /\ Size[call[c].svc] = 0
    /\ Return(c, "no hosts")
    /\ UNCHANGED <<svcConf, bound, nextIndex, calls>>

PickLoad(c) ==
    /\ At(c, "load") /\ Size[call[c].svc] > 0
    /\ call' = [call EXCEPT ![c].pc = "store", ![c].old = nextIndex]
    /\ UNCHANGED <<svcConf, bound, nextIndex, calls>>

\* An index that runs on to the end of the list and over it.
SuccessorRunsOn(c) == call[c].old + 1

Successor(c) == (call[c].old + 1) % Size[call[c].svc]

PickStore(c) ==
    /\ At(c, "store")
    /\ nextIndex' = Successor(c)
    /\ Goto(c, "index")
    /\ UNCHANGED <<svcConf, bound, calls>>

\* The second read finds what was stored, by this or by another goroutine; an
\* index out of range panics.
PickIndex(c) ==
    /\ At(c, "index")
    /\ \E i \in {nextIndex, Successor(c)} :
        IF i < Size[call[c].svc]
        THEN call' = [call EXCEPT ![c].pc = "bind", ![c].inst = i]
        ELSE Return(c, "panic")
    /\ UNCHANGED <<svcConf, bound, nextIndex, calls>>

ClientStep(c) ==
    \/ ClientFails(c) \/ GetConfig(c) \/ GetService(c) \/ SaveJson(c) \/ SaveText(c)
    \/ PickEmpty(c) \/ PickLoad(c) \/ PickStore(c) \/ PickIndex(c) \/ Bind(c)

BalancerNext ==
    \/ \E c \in Client : ClientStep(c) \/ \E s \in Service, t \in Stream : Resolve(c, s, t)
    \/ \E s \in Service : DeleteConfig(s)

BalancerBehaviour == BalancerInit /\ [][BalancerNext]_balancerVars

----------------------------------------------------------------------------
(* Properties.                                                             *)

\* Types; a stream is bound to an instance that its service has.
BalancerTypeOK ==
    /\ svcConf \in [Service -> {"empty", "json", "text"}]
    /\ \A s \in Service, t \in Stream : bound[<<s, t>>] \in {Unbound} \cup 0..(Size[s] - 1)
    /\ nextIndex \in Nat /\ calls \in 0..MaxCalls
    /\ \A c \in Client : call[c].result = "instance" => call[c].inst \in 0..(Size[call[c].svc] - 1)

\* A stream that is bound stays with its instance, but for the calls that were
\* on their way already when it was bound: they began when it was not.
StaysBound ==
    [][\A b \in Streams :
        bound[b] # Unbound /\ bound'[b] # bound[b] =>
            \E c \in Client : call[c].fresh /\ <<call[c].svc, call[c].str>> = b /\ At(c, "bind")]_balancerVars

\* One goroutine alone never indexes out of the list, whatever services of
\* whatever length it asks for in turn; a panic takes another that stores its
\* nextIndex in between (robin.go:33-35).
PanicTakesTwo ==
    \A c \in Client : call[c].result = "panic" => \E d \in Client \ {c} : call[d] # NoCall

\* A balancer can read what it has stored itself.
ReadsOwnConfig == \A c \in Client : call[c].result # "unmarshal error"

=============================================================================
