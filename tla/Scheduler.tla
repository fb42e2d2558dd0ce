----------------------------- MODULE Scheduler -----------------------------
(***************************************************************************)
(* The periodic task scheduler of pkg/dataflow/task/scheduler.go.          *)
(*                                                                         *)
(* Controllers are the goroutines that call Start and Stop on the one      *)
(* scheduler object that Manager() returns.  Every successful Start makes  *)
(* a stop channel and a run goroutine; both are named here by the number   *)
(* of the Start that made them, so that `stop` (the field s.stop) is also  *)
(* the number of Starts so far and 0 is the nil channel.                   *)
(*                                                                         *)
(* mu makes AddTask, RemoveTask, Start, the first half of Stop and the     *)
(* snapshot of a tick atomic.  What is NOT atomic, and is modelled step by *)
(* step: Stop closes the channel and waits after it has released mu, and   *)
(* run() reads the field s.stop again, without mu, on every iteration.     *)
(*                                                                         *)
(* The WaitGroup is external: its counter is the number of run goroutines  *)
(* that have not returned, a Wait that finds it above 0 parks until it     *)
(* reaches 0, and a Wait that wakes up to find it above 0 again panics     *)
(* ("WaitGroup is reused before previous Wait has returned").              *)
(***************************************************************************)
EXTENDS Naturals, Sequences

CONSTANTS
    Controllers,    \* goroutines that call Start and Stop
    Task,           \* task objects; each is given to AddTask at most once
    TaskID,         \* the name space of Task.ID()
    ID,             \* ID[t] is what t.ID() returns
    MaxStarts       \* bound: successful Starts in a behaviour

ASSUME SchedulerConstants ==
    /\ ID \in [Task -> TaskID]
    /\ MaxStarts \in Nat

VARIABLES
    started,        \* s.started
    stop,           \* s.stop
    tasks,          \* s.tasks
    closed,         \* the stop channels that are closed
    pc, held,       \* per controller: where it is in Stop, its local `stop`
    rpc, sel,       \* per run goroutine: where it is, the channel it selects on
    todo, now,      \* per run goroutine: rest of the snapshot; due at its `now`
    added,          \* task objects already given to AddTask
    due             \* tasks whose Next() is not after the present time

vars == <<started, stop, tasks, closed, pc, held, rpc, sel, todo, now, added, due>>

Run == 1..MaxStarts

Elems(s) == {s[i] : i \in DOMAIN s}

\* Run goroutines that have not called wg.Done: the WaitGroup's counter is
\* the size of this set.
Live == {n \in Run : rpc[n] \in {"loop", "select", "scan", "task"}}

Parked == {c \in Controllers : pc[c] = "parked"}

\* A panic in a goroutine that nobody recovers ends the process.
Alive == \A c \in Controllers : pc[c] # "panic"

Init ==
    /\ started = FALSE
    /\ stop = 0
    /\ tasks = <<>>
    /\ closed = {}
    /\ pc = [c \in Controllers |-> "idle"]
    /\ held = [c \in Controllers |-> 0]
    /\ rpc = [n \in Run |-> "none"]
    /\ sel = [n \in Run |-> 0]
    /\ todo = [n \in Run |-> <<>>]
    /\ now = [n \in Run |-> {}]
    /\ added = {}
    /\ due = Task       \* Next() of a new task is the zero time

taskVars == <<tasks, added>>
runVars  == <<sel, todo, now>>

----------------------------------------------------------------------------
(* The task list.                                                          *)

AddTask(t) ==
    /\ Alive
    /\ t \notin added
    /\ tasks' = Append(tasks, t)
    /\ added' = added \cup {t}
    /\ UNCHANGED <<started, stop, closed, pc, held, rpc, sel, todo, now, due>>

\* The first task with the given ID is cut out of the slice.
RemoveTask(id) ==
    /\ Alive
    /\ \E i \in DOMAIN tasks :
        /\ ID[tasks[i]] = id
        /\ \A j \in 1..(i - 1) : ID[tasks[j]] # id
        /\ tasks' = SubSeq(tasks, 1, i - 1) \o SubSeq(tasks, i + 1, Len(tasks))
    /\ UNCHANGED <<started, stop, closed, pc, held, rpc, sel, todo, now, added, due>>

----------------------------------------------------------------------------
(* Start and Stop, as one controller executes them.                        *)

\* Start that forgets the "already started" test.
StartUnchecked(c) ==
    /\ Alive /\ pc[c] = "idle" /\ stop < MaxStarts
    /\ stop' = stop + 1
    /\ rpc' = [rpc EXCEPT ![stop + 1] = "loop"]
    /\ started' = TRUE
    /\ UNCHANGED <<closed, pc, held, runVars, taskVars, due>>

\* A Start on a started scheduler returns an error and changes nothing.
Start(c) ==
    /\ Alive
    /\ pc[c] = "idle"
    /\ ~started
    /\ stop < MaxStarts
    /\ stop' = stop + 1
    /\ rpc' = [rpc EXCEPT ![stop + 1] = "loop"]
    /\ started' = TRUE
    /\ UNCHANGED <<closed, pc, held, runVars, taskVars, due>>

\* The part of Stop under mu; a Stop on a stopped scheduler returns.
StopLock(c) ==
    /\ Alive
    /\ pc[c] = "idle"
    /\ started
    /\ held' = [held EXCEPT ![c] = stop]
    /\ started' = FALSE
    /\ pc' = [pc EXCEPT ![c] = "close"]
    /\ UNCHANGED <<stop, closed, rpc, runVars, taskVars, due>>

\* Stop that waits without having closed the channel.
StopCloseForgotten(c) ==
    /\ Alive /\ pc[c] = "close"
    /\ pc' = [pc EXCEPT ![c] = "wait"]
    /\ UNCHANGED <<started, stop, closed, held, rpc, runVars, taskVars, due>>

StopClose(c) ==
    /\ Alive
    /\ pc[c] = "close"
    /\ closed' = closed \cup {held[c]}
    /\ pc' = [pc EXCEPT ![c] = "wait"]
    /\ UNCHANGED <<started, stop, held, rpc, runVars, taskVars, due>>

\* Stop that returns without waiting for the run goroutine.
StopWaitSkipped(c) ==
    /\ Alive /\ pc[c] = "wait"
    /\ pc' = [pc EXCEPT ![c] = "idle"]
    /\ UNCHANGED <<started, stop, closed, held, rpc, runVars, taskVars, due>>

\* wg.Wait: returns at once when the counter is 0, parks otherwise.
StopWait(c) ==
    /\ Alive
    /\ pc[c] = "wait"
    /\ pc' = [pc EXCEPT ![c] = IF Live = {} THEN "idle" ELSE "parked"]
    /\ UNCHANGED <<started, stop, closed, held, rpc, runVars, taskVars, due>>

\* A woken waiter reads the WaitGroup's state once more.
StopWake(c) ==
    /\ Alive
    /\ pc[c] = "woken"
    /\ pc' = [pc EXCEPT ![c] = IF Live = {} /\ Parked = {} THEN "idle" ELSE "panic"]
    /\ UNCHANGED <<started, stop, closed, held, rpc, runVars, taskVars, due>>

----------------------------------------------------------------------------
(* The run goroutine.                                                      *)

\* Entering the select evaluates the operand s.stop.
EnterSelect(n) ==
    /\ Alive
    /\ rpc[n] = "loop"
    /\ sel' = [sel EXCEPT ![n] = stop]
    /\ rpc' = [rpc EXCEPT ![n] = "select"]
    /\ UNCHANGED <<started, stop, closed, pc, held, todo, now, taskVars, due>>

\* case <-s.stop, and the deferred wg.Done: the one that brings the counter
\* to 0 releases everybody parked in Wait.
RunExit(n) ==
    /\ Alive
    /\ rpc[n] = "select"
    /\ sel[n] \in closed
    /\ rpc' = [rpc EXCEPT ![n] = "done"]
    /\ pc' = IF Live = {n}
             THEN [c \in Controllers |-> IF pc[c] = "parked" THEN "woken" ELSE pc[c]]
             ELSE pc
    /\ UNCHANGED <<started, stop, closed, held, runVars, taskVars, due>>

\* case <-ticker.C: the time is taken and the task list copied.
Tick(n) ==
    /\ Alive
    /\ rpc[n] = "select"
    /\ now' = [now EXCEPT ![n] = due]
    /\ todo' = [todo EXCEPT ![n] = tasks]
    /\ rpc' = [rpc EXCEPT ![n] = "scan"]
    /\ UNCHANGED <<started, stop, closed, pc, held, sel, taskVars, due>>

\* A scan that runs the tasks that are NOT due.
ScanInverted(n) ==
    /\ Alive /\ rpc[n] = "scan"
    /\ IF todo[n] = <<>>
       THEN rpc' = [rpc EXCEPT ![n] = "loop"] /\ UNCHANGED todo
       ELSE IF Head(todo[n]) \notin now[n]
            THEN rpc' = [rpc EXCEPT ![n] = "task"] /\ UNCHANGED todo
            ELSE todo' = [todo EXCEPT ![n] = Tail(@)] /\ UNCHANGED rpc
    /\ UNCHANGED <<started, stop, closed, pc, held, sel, now, taskVars, due>>

\* One turn of the loop over the snapshot: a task whose Next() is after
\* `now` is passed over, another one is run.
Scan(n) ==
    /\ Alive
    /\ rpc[n] = "scan"
    /\ IF todo[n] = <<>>
       THEN rpc' = [rpc EXCEPT ![n] = "loop"] /\ UNCHANGED todo
       ELSE IF Head(todo[n]) \in now[n]
            THEN rpc' = [rpc EXCEPT ![n] = "task"] /\ UNCHANGED todo
            ELSE todo' = [todo EXCEPT ![n] = Tail(@)] /\ UNCHANGED rpc
    /\ UNCHANGED <<started, stop, closed, pc, held, sel, now, taskVars, due>>

\* task.Run() returns.  The two tasks that Initialize makes end with next = now +
\* interval, which is after the `now` of every tick so far.  (netReportTask has
\* an empty Run and would be due for ever; nobody makes one.)
TaskDone(n) ==
    /\ Alive
    /\ rpc[n] = "task"
    /\ due' = due \ {Head(todo[n])}
    /\ now' = [m \in Run |-> now[m] \ {Head(todo[n])}]
    /\ todo' = [todo EXCEPT ![n] = Tail(@)]
    /\ rpc' = [rpc EXCEPT ![n] = "scan"]
    /\ UNCHANGED <<started, stop, closed, pc, held, sel, taskVars>>

\* The interval of a task elapses.
Elapse(t) ==
    /\ Alive
    /\ t \in added \ due
    /\ due' = due \cup {t}
    /\ UNCHANGED <<started, stop, closed, pc, held, rpc, runVars, taskVars>>

----------------------------------------------------------------------------
StopStep(c) == StopClose(c) \/ StopWait(c) \/ StopWake(c)

RunStep(n) == EnterSelect(n) \/ RunExit(n) \/ Tick(n) \/ Scan(n) \/ TaskDone(n)

Next ==
    \/ \E t \in Task : AddTask(t) \/ Elapse(t)
    \/ \E id \in TaskID : RemoveTask(id)
    \/ \E c \in Controllers : Start(c) \/ StopLock(c) \/ StopStep(c)
    \/ \E n \in Run : RunStep(n)

Spec == Init /\ [][Next]_vars

\* A controller inside Stop and a run goroutine keep running, the ticker
\* keeps ticking and task.Run() returns (the probes have timeouts); nobody
\* has to call Start, Stop, AddTask or RemoveTask.  A select with several
\* ready cases picks one at random, so a stop channel that stays closed is
\* not passed over for ever: strong fairness of RunExit.
Fairness ==
    /\ \A c \in Controllers : WF_vars(StopStep(c))
    /\ \A n \in Run : WF_vars(RunStep(n)) /\ SF_vars(RunExit(n))

FairSpec == Spec /\ Fairness

----------------------------------------------------------------------------
(* Properties.                                                             *)

Stopping(c) == pc[c] \in {"close", "wait", "parked"}

\* Types of the state.  A controller between the two halves of Stop holds a
\* real channel to close, and only Starts that happened have a goroutine.
TypeOK ==
    /\ started \in BOOLEAN
    /\ stop \in 0..MaxStarts
    /\ started => stop # 0
    /\ tasks \in Seq(Task)
    /\ closed \subseteq 1..stop
    /\ pc \in [Controllers -> {"idle", "close", "wait", "parked", "woken", "panic"}]
    /\ held \in [Controllers -> 0..stop]
    /\ \A c \in Controllers : pc[c] = "close" => held[c] # 0
    /\ rpc \in [Run -> {"none", "loop", "select", "scan", "task", "done"}]
    /\ \A n \in Run : n > stop => rpc[n] = "none"
    /\ sel \in [Run -> 0..stop]
    /\ todo \in [Run -> Seq(Task)]
    /\ \A n \in Run : rpc[n] = "task" => todo[n] # <<>>
    /\ now \in [Run -> SUBSET Task]
    /\ added \subseteq Task
    /\ due \subseteq Task

\* What Stop promises to its caller: on a stopped scheduler a run goroutine
\* is alive only while somebody is still inside Stop, so when every Stop has
\* returned no task can run any more (scheduler.go:78-90).
StopQuiesces ==
    ~started /\ Live # {} => \E c \in Controllers : Stopping(c)

\* With a single controller at most one run goroutine is alive, it is the
\* one of the latest Start, and it selects on the channel that Start made:
\* no task is ever run by two goroutines at once, and a Stop followed by a
\* Start never leaves the old goroutine listening to the new channel.
OneRunner ==
    \A n \in Live : n = stop /\ (rpc[n] = "select" => sel[n] = n)

\* The same controller never closes a channel twice nor panics in Wait
\* (TestSchedulerStopNoPanic, net_prober_test.go:82-89).
StopNeverPanics ==
    /\ Alive
    /\ \A c \in Controllers : pc[c] = "close" => held[c] \notin closed

\* Every Stop returns: net_prober_test.go:108 fails with "stop did not
\* return in time" otherwise.
StopReturns ==
    \A c \in Controllers : Stopping(c) ~> (pc[c] = "idle")

\* A task that is due while the scheduler is started is run, unless it is
\* removed or the scheduler stopped first, however long the other tasks
\* take and whatever is added and removed meanwhile.
DueTaskRuns ==
    \A t \in Task :
        (started /\ t \in Elems(tasks) \cap due)
            ~> (~started \/ t \notin due \/ t \notin Elems(tasks))

=============================================================================
