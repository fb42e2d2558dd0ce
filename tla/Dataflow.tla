------------------------------ MODULE Dataflow -----------------------------
(***************************************************************************)
(* The data reports: pkg/dataflow (Initialize, Shutdown, Notify...), its   *)
(* channel and tasks, on top of the scheduler, and the stream goroutine    *)
(* that examples/disco/client starts for every session.                    *)
(*                                                                         *)
(* A step of Dataflow is a step of Scheduler with its effect on the state  *)
(* of the front end, or leaves the scheduler alone.  The package's mutex   *)
(* makes the two assignments of Initialize and of Shutdown one step each,  *)
(* but not Initialize and Shutdown as a whole.  Metrics are left out: what *)
(* counts is which client a task or an event writes to, and which events   *)
(* are sent after the cancellation.  The connection of a client comes and  *)
(* goes by itself (ClientConn), so IsClosed() answers TRUE or FALSE at     *)
(* every call.                                                             *)
(***************************************************************************)
EXTENDS Scheduler

CONSTANTS
    Clients,        \* TcpClients
    None,           \* the nil *TcpClient
    Configs         \* configurations: the IDs of the tasks each asks for

ASSUME DataflowConstants ==
    /\ None \notin Clients
    /\ Configs \subseteq SUBSET TaskID

VARIABLES
    cli,            \* the package's cli
    dpc, arg, rest, \* per controller: where it is in Initialize or Shutdown, its
                    \* tcpClient, the tasks it has still to add
    session,        \* per controller: the Start of its latest successful Initialize
    channel,        \* channel[t]: the client of the channel that t was made with
    spc,            \* per stream goroutine: where it is
    cancelled,      \* streamCancel has been called
    late            \* events written after that

flowVars   == <<cli, dpc, arg, rest, session, channel>>
streamVars == <<spc, late>>
dataVars   == <<flowVars, streamVars, cancelled>>
allVars    == <<vars, dataVars>>

DataInit ==
    /\ Init
    /\ cli = None
    /\ dpc = [c \in Controllers |-> "idle"]
    /\ arg = [c \in Controllers |-> None]
    /\ rest = [c \in Controllers |-> {}]
    /\ session = [c \in Controllers |-> 0]
    /\ channel = [t \in Task |-> None]
    /\ spc = [s \in Run |-> "none"]
    /\ cancelled = {}
    /\ late = [s \in Run |-> 0]

----------------------------------------------------------------------------
(* Initialize.                                                             *)

\* core.NewChannel succeeds, or fails because the client is closed by then.
NewChannel(c, k, cfg) ==
    \/ /\ dpc' = [dpc EXCEPT ![c] = "add"]
       /\ arg' = [arg EXCEPT ![c] = k]
       /\ rest' = [rest EXCEPT ![c] = cfg]
    \/ UNCHANGED <<dpc, arg, rest>>

\* Without a configuration, or with a client that is nil or closed, Initialize
\* returns an error and changes nothing; when NewChannel fails, cli has been
\* replaced.  The bounds: there is a fresh object for every task, and a Start
\* is left.
Initialize(c, k, cfg) ==
    /\ Alive /\ dpc[c] = "idle" /\ pc[c] = "idle"
    /\ started \/ stop < MaxStarts
    /\ \A id \in cfg : \E t \in Task \ added : ID[t] = id
    /\ cli' = k
    /\ NewChannel(c, k, cfg)
    /\ UNCHANGED <<vars, session, channel, streamVars, cancelled>>

\* A new task and AddTask, the machine task before the network task.
InitAddTask(c) ==
    /\ dpc[c] = "add"
    /\ \E t \in Task :
        /\ ID[t] \in rest[c]
        /\ "machine" \in rest[c] => ID[t] = "machine"
        /\ AddTask(t)
        /\ rest' = [rest EXCEPT ![c] = @ \ {ID[t]}]
        /\ channel' = [channel EXCEPT ![t] = arg[c]]
    /\ UNCHANGED <<cli, dpc, arg, session, streamVars, cancelled>>

\* Start, and the stream goroutine of the example, which another caller of
\* the package may not have.
InitStart(c) ==
    /\ dpc[c] = "add" /\ rest[c] = {}
    /\ Start(c)
    /\ dpc' = [dpc EXCEPT ![c] = "idle"]
    /\ session' = [session EXCEPT ![c] = stop']
    /\ spc' \in {spc, [spc EXCEPT ![stop'] = "asleep"]}
    /\ UNCHANGED <<cli, arg, rest, channel, late, cancelled>>

\* "already started" is returned with cli replaced and the tasks added.
InitAlreadyStarted(c) ==
    /\ dpc[c] = "add" /\ rest[c] = {}
    /\ Alive /\ started
    /\ dpc' = [dpc EXCEPT ![c] = "idle"]
    /\ UNCHANGED <<vars, cli, arg, rest, session, channel, streamVars, cancelled>>

----------------------------------------------------------------------------
(* Shutdown, after the streamCancel of the caller's session.               *)

\* The first half of Stop, which does nothing when not started.
Shutdown(c) ==
    /\ dpc[c] = "idle"
    /\ StopLock(c) \/ (Alive /\ pc[c] = "idle" /\ ~started /\ UNCHANGED vars)
    /\ dpc' = [dpc EXCEPT ![c] = "stop"]
    /\ cancelled' = cancelled \cup ({session[c]} \ {0})
    /\ UNCHANGED <<cli, arg, rest, session, channel, streamVars>>

ShutdownStops(c) == StopStep(c) /\ UNCHANGED dataVars

\* A Shutdown that drops the client before the scheduler has stopped.
ShutdownClearsFirst(c) ==
    /\ dpc[c] = "idle" /\ Alive /\ pc[c] = "idle" /\ started
    /\ cli' = None
    /\ UNCHANGED <<vars, dpc, arg, rest, session, channel, streamVars, cancelled>>

\* Stop has returned: the client is dropped.
ShutdownClears(c) ==
    /\ Alive /\ dpc[c] = "stop" /\ pc[c] = "idle"
    /\ cli' = None
    /\ dpc' = [dpc EXCEPT ![c] = "idle"]
    /\ UNCHANGED <<vars, arg, rest, session, channel, streamVars, cancelled>>

----------------------------------------------------------------------------
(* The tasks.                                                              *)

\* Run of a task gathers the metrics or probes the addresses and hands the
\* result to its own channel, which writes it unless the client is closed.
\* Whatever fails, the deferred assignment moves next.
TaskRuns(n) == TaskDone(n) /\ UNCHANGED dataVars

----------------------------------------------------------------------------
(* The stream goroutine of session s: sleep and Notify, again and again.   *)

\* The sleep ends; the timer and the cancellation may both be ready, and the
\* select picks one.  getClient may find no client.
StreamWakes(s) ==
    /\ Alive /\ spc[s] = "asleep"
    /\ \/ cli # None /\ spc' = [spc EXCEPT ![s] = "write"]
       \/ s \in cancelled /\ spc' = [spc EXCEPT ![s] = "done"]
    /\ UNCHANGED <<vars, flowVars, late, cancelled>>

\* A goroutine that goes back to sleep without a look at its context.
StreamWritesOn(s) ==
    /\ Alive /\ spc[s] = "write"
    /\ spc' = [spc EXCEPT ![s] = "asleep"]
    /\ late' = IF s \in cancelled /\ late[s] < 2 THEN [late EXCEPT ![s] = @ + 1] ELSE late
    /\ UNCHANGED <<vars, flowVars, cancelled>>

\* client.Write.  A sleepCtx that is entered after the cancellation returns
\* false, because its timer is new.
StreamWrites(s) ==
    /\ Alive /\ spc[s] = "write"
    /\ spc' = [spc EXCEPT ![s] = IF s \in cancelled THEN "done" ELSE "asleep"]
    /\ late' = IF s \in cancelled THEN [late EXCEPT ![s] = @ + 1] ELSE late
    /\ UNCHANGED <<vars, flowVars, cancelled>>

----------------------------------------------------------------------------
InitStep(c) == InitAddTask(c) \/ InitStart(c) \/ InitAlreadyStarted(c)

StreamStep(s) == StreamWakes(s) \/ StreamWrites(s)

RunLoop(n) == (EnterSelect(n) \/ RunExit(n) \/ Tick(n) \/ Scan(n)) /\ UNCHANGED dataVars

DataNext ==
    \/ \E c \in Controllers, k \in Clients, cfg \in Configs : Initialize(c, k, cfg)
    \/ \E c \in Controllers : InitStep(c) \/ Shutdown(c) \/ ShutdownStops(c) \/ ShutdownClears(c)
    \/ \E n \in Run : RunLoop(n) \/ TaskRuns(n) \/ StreamStep(n)
    \/ \E id \in TaskID : RemoveTask(id) /\ UNCHANGED dataVars
    \/ \E t \in Task : Elapse(t) /\ UNCHANGED dataVars

DataSpec == DataInit /\ [][DataNext]_allVars

\* As in Scheduler; besides, Initialize and Shutdown go on, and so do the
\* stream goroutines, whose select passes over no cancellation for ever.
DataFairness ==
    /\ \A c \in Controllers : WF_allVars(InitStep(c) \/ ShutdownStops(c) \/ ShutdownClears(c))
    /\ \A n \in Run : /\ WF_allVars(RunLoop(n) \/ TaskRuns(n))
                      /\ SF_allVars(RunExit(n) /\ UNCHANGED dataVars)
    /\ \A s \in Run : WF_allVars(StreamStep(s))

FairDataSpec == DataSpec /\ DataFairness

----------------------------------------------------------------------------
(* Properties.                                                             *)

\* Types of the front end's state.
DataTypeOK ==
    /\ TypeOK
    /\ cli \in Clients \cup {None}
    /\ dpc \in [Controllers -> {"idle", "add", "stop"}]
    /\ arg \in [Controllers -> Clients \cup {None}]
    /\ rest \in [Controllers -> SUBSET TaskID]
    /\ session \in [Controllers -> 0..stop]
    /\ channel \in [Task -> Clients \cup {None}]
    /\ spc \in [Run -> {"none", "asleep", "write", "done"}]
    /\ cancelled \subseteq 1..stop
    /\ late \in [Run -> Nat]

\* With one controller, whichever Initialize calls fail half-way: while the
\* scheduler is started the package has a client, so that events can be sent
\* (dataflow.go:18-59), and every task in the list has a client to write to.
StartedHasClient ==
    /\ started => cli # None
    /\ \A t \in Elems(tasks) : channel[t] # None

\* streamCancel ends the stream goroutine: at most one event is still sent,
\* the one that the goroutine had slept for already, and the goroutine
\* returns (client.go:73-83, 207-279), whichever session is running by then.
CancelEndsStream ==
    \A s \in Run : (s \in cancelled) ~> (spc[s] \in {"none", "done"} /\ late[s] <= 1)

=============================================================================
