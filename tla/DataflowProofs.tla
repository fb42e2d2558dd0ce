-------------------------- MODULE DataflowProofs ---------------------------
(***************************************************************************)
(* Proofs about the scheduler and about the data reports that use it, for  *)
(* any number of controllers, clients, tasks, configurations and Starts.   *)
(***************************************************************************)
EXTENDS Dataflow, TLAPS

----------------------------------------------------------------------------
(* The scheduler.                                                          *)

USE SchedulerConstants

\* Cutting one element out of a sequence leaves a sequence over the same set
\* (the slice expression of RemoveTask, scheduler.go:58).
LEMMA CutType ==
    ASSUME NEW S, NEW s \in Seq(S), NEW i \in DOMAIN s
    PROVE  SubSeq(s, 1, i - 1) \o SubSeq(s, i + 1, Len(s)) \in Seq(S)
<1>1. i \in 1..Len(s)
  OBVIOUS
<1>2. SubSeq(s, 1, i - 1) \in Seq(S)
  BY <1>1
<1>3. SubSeq(s, i + 1, Len(s)) \in Seq(S)
  BY <1>1
<1> QED
  BY <1>2, <1>3

\* Every step keeps the types.
LEMMA TypeStep ==
    ASSUME TypeOK, Next
    PROVE  TypeOK'
<1> USE DEF TypeOK, Run, taskVars, runVars
<1>1. ASSUME NEW t \in Task, AddTask(t) PROVE TypeOK'
  BY <1>1, SMTT(60) DEF AddTask
<1>2. ASSUME NEW t \in Task, Elapse(t) PROVE TypeOK'
  BY <1>2 DEF Elapse
<1>3. ASSUME NEW id \in TaskID, RemoveTask(id) PROVE TypeOK'
  <2>1. tasks' \in Seq(Task)
    BY <1>3, CutType, SMTT(60) DEF RemoveTask
  <2> QED
    BY <1>3, <2>1 DEF RemoveTask
<1>4. ASSUME NEW c \in Controllers, Start(c) PROVE TypeOK'
  <2>1. stop' \in 1..MaxStarts /\ 1..stop \subseteq 1..stop' /\ 0..stop \subseteq 0..stop'
    BY <1>4 DEF Start
  <2>2. /\ rpc' \in [Run -> {"none", "loop", "select", "scan", "task", "done"}]
        /\ \A n \in Run : n > stop' => rpc'[n] = "none"
        /\ \A n \in Run : rpc'[n] = "task" => todo[n] # <<>>
    BY <1>4 DEF Start
  <2>3. held' \in [Controllers -> 0..stop'] /\ sel' \in [Run -> 0..stop']
    BY <1>4, <2>1 DEF Start
  <2> QED
    BY <1>4, <2>1, <2>2, <2>3 DEF Start
<1>5. ASSUME NEW c \in Controllers, StopLock(c) PROVE TypeOK'
  <2>1. held' \in [Controllers -> 0..stop'] /\ pc'[c] = "close" /\ held'[c] # 0
    BY <1>5 DEF StopLock
  <2>2. \A d \in Controllers : pc'[d] = "close" => held'[d] # 0
    BY <1>5, <2>1 DEF StopLock
  <2> QED
    BY <1>5, <2>1, <2>2 DEF StopLock
<1>6. ASSUME NEW c \in Controllers, StopClose(c) PROVE TypeOK'
  <2>1. held[c] \in 1..stop
    BY <1>6 DEF StopClose
  <2>2. \A d \in Controllers : pc'[d] = "close" => held'[d] # 0
    BY <1>6 DEF StopClose
  <2> QED
    BY <1>6, <2>1, <2>2 DEF StopClose
<1>7. ASSUME NEW c \in Controllers, StopWait(c) PROVE TypeOK'
  BY <1>7 DEF StopWait
<1>8. ASSUME NEW c \in Controllers, StopWake(c) PROVE TypeOK'
  BY <1>8 DEF StopWake
<1>9. ASSUME NEW n \in Run, EnterSelect(n) PROVE TypeOK'
  BY <1>9, SMTT(60) DEF EnterSelect
<1>10. ASSUME NEW n \in Run, RunExit(n) PROVE TypeOK'
  BY <1>10 DEF RunExit
<1>11. ASSUME NEW n \in Run, Tick(n) PROVE TypeOK'
  BY <1>11 DEF Tick
<1>12. ASSUME NEW n \in Run, Scan(n) PROVE TypeOK'
  <2>1. CASE todo[n] = <<>>
    BY <1>12, <2>1 DEF Scan
  <2>2. CASE todo[n] # <<>> /\ Head(todo[n]) \in now[n]
    BY <1>12, <2>2 DEF Scan
  <2>3. CASE todo[n] # <<>> /\ Head(todo[n]) \notin now[n]
    <3>1. Tail(todo[n]) \in Seq(Task) /\ rpc[n] # "task"
      BY <1>12, <2>3 DEF Scan
    <3>2. todo' = [todo EXCEPT ![n] = Tail(todo[n])] /\ rpc' = rpc
      BY <1>12, <2>3 DEF Scan
    <3>3. todo' \in [Run -> Seq(Task)]
      BY <3>1, <3>2
    <3>4. \A m \in Run : rpc'[m] = "task" => todo'[m] # <<>>
      BY <3>1, <3>2
    <3> QED
      BY <1>12, <3>2, <3>3, <3>4 DEF Scan
  <2> QED
    BY <2>1, <2>2, <2>3
<1>13. ASSUME NEW n \in Run, TaskDone(n) PROVE TypeOK'
  BY <1>13, SMTT(60) DEF TaskDone
<1> QED
  BY <1>1, <1>2, <1>3, <1>4, <1>5, <1>6, <1>7, <1>8, <1>9, <1>10, <1>11, <1>12, <1>13
     DEF Next, StopStep, RunStep

\* Type correctness of the scheduler.
THEOREM TypeCorrect == Spec => []TypeOK
<1>1. Init => TypeOK
  <2> SUFFICES ASSUME Init PROVE TypeOK
    OBVIOUS
  <2>1. tasks \in Seq(Task) /\ todo \in [Run -> Seq(Task)]
    BY DEF Init
  <2>2. \A n \in Run : rpc[n] = "none"
    BY DEF Init
  <2>3. \A c \in Controllers : pc[c] = "idle"
    BY DEF Init
  <2>4. now \in [Run -> SUBSET Task]
    BY DEF Init
  <2> QED
    <3>1. /\ started = FALSE /\ stop = 0 /\ closed = {} /\ added = {} /\ due = Task
          /\ 0 \in 0..MaxStarts
      BY DEF Init
    <3>2. /\ pc \in [Controllers -> {"idle", "close", "wait", "parked", "woken", "panic"}]
          /\ rpc \in [Run -> {"none", "loop", "select", "scan", "task", "done"}]
      BY DEF Init
    <3>3. held \in [Controllers -> 0..0] /\ sel \in [Run -> 0..0]
      BY DEF Init
    <3> QED
      BY <2>1, <2>2, <2>3, <2>4, <3>1, <3>2, <3>3, Zenon DEF TypeOK
<1>2. TypeOK /\ [Next]_vars => TypeOK'
  <2> SUFFICES ASSUME TypeOK, [Next]_vars PROVE TypeOK'
    OBVIOUS
  <2>1. CASE Next
    BY <2>1, TypeStep
  <2>2. CASE UNCHANGED vars
    BY <2>2 DEF vars, TypeOK, Run
  <2> QED
    BY <2>1, <2>2
<1> QED
  BY <1>1, <1>2, PTL DEF Spec

\* A step in which nobody leaves Stop, no goroutine starts and the started
\* flag stays keeps the promise of Stop.
LEMMA QuiesceStep ==
    ASSUME TypeOK, StopQuiesces, Next
    PROVE  StopQuiesces'
<1> USE DEF TypeOK, StopQuiesces, Stopping, Live, Run, taskVars, runVars
<1>1. ASSUME NEW t \in Task, AddTask(t) \/ Elapse(t) PROVE StopQuiesces'
  BY <1>1 DEF AddTask, Elapse
<1>2. ASSUME NEW id \in TaskID, RemoveTask(id) PROVE StopQuiesces'
  BY <1>2 DEF RemoveTask
<1>3. ASSUME NEW c \in Controllers, Start(c) PROVE StopQuiesces'
  BY <1>3 DEF Start
<1>4. ASSUME NEW c \in Controllers, StopLock(c) PROVE StopQuiesces'
  BY <1>4 DEF StopLock
<1>5. ASSUME NEW c \in Controllers, StopClose(c) PROVE StopQuiesces'
  BY <1>5 DEF StopClose
<1>6. ASSUME NEW c \in Controllers, StopWait(c) PROVE StopQuiesces'
  BY <1>6 DEF StopWait
<1>7. ASSUME NEW c \in Controllers, StopWake(c) PROVE StopQuiesces'
  BY <1>7 DEF StopWake
<1>8. ASSUME NEW n \in Run, EnterSelect(n) \/ Tick(n) \/ Scan(n) \/ TaskDone(n)
      PROVE StopQuiesces'
  <2>1. Live' = Live /\ pc' = pc /\ started' = started
    BY <1>8 DEF EnterSelect, Tick, Scan, TaskDone
  <2> QED
    BY <2>1
<1>9. ASSUME NEW n \in Run, RunExit(n) PROVE StopQuiesces'
  <2>1. Live' = Live \ {n} /\ started' = started
    BY <1>9 DEF RunExit
  <2>2. Live # {n} => pc' = pc
    BY <1>9 DEF RunExit
  <2> QED
    BY <2>1, <2>2
<1> QED
  BY <1>1, <1>2, <1>3, <1>4, <1>5, <1>6, <1>7, <1>8, <1>9
     DEF Next, StopStep, RunStep

\* However many goroutines call Start and Stop, when the scheduler is
\* stopped and every Stop has returned no run goroutine is alive.
THEOREM StopQuiescesAlways == Spec => []StopQuiesces
<1>1. Init => StopQuiesces
  BY DEF Init, StopQuiesces, Live, Run
<1>2. TypeOK /\ StopQuiesces /\ [Next]_vars => StopQuiesces'
  <2> SUFFICES ASSUME TypeOK, StopQuiesces, [Next]_vars PROVE StopQuiesces'
    OBVIOUS
  <2>1. CASE Next
    BY <2>1, QuiesceStep
  <2>2. CASE UNCHANGED vars
    BY <2>2 DEF vars, StopQuiesces, Live, Run, Stopping
  <2> QED
    BY <2>1, <2>2
<1> QED
  BY <1>1, <1>2, TypeCorrect, PTL DEF Spec


----------------------------------------------------------------------------
(* One controller: the program's own use of the scheduler, where Start and *)
(* Stop are called by the one goroutine that initialises and shuts down.   *)

SingleController == \A c, d \in Controllers : c = d

\* The strengthening that makes OneRunner and StopNeverPanics inductive: a
\* started scheduler has an open stop channel, a controller inside Stop has
\* stopped it and holds the latest channel, and a woken one has seen the
\* last goroutine go.
SingleInv ==
    /\ started => stop \notin closed
    /\ \A c \in Controllers : pc[c] # "idle" => ~started
    /\ \A c \in Controllers : pc[c] = "close" => held[c] = stop /\ stop \notin closed
    /\ \A c \in Controllers : pc[c] = "woken" => Live = {}
    /\ Alive

\* Every step of a scheduler with one controller keeps SingleInv and OneRunner.
LEMMA SingleStep ==
    ASSUME SingleController, TypeOK, StopQuiesces, SingleInv, OneRunner, Next
    PROVE  SingleInv' /\ OneRunner'
<1> USE DEF TypeOK, SingleInv, OneRunner, Alive, Live, Run, taskVars, runVars
<1>1. ASSUME NEW t \in Task, AddTask(t) \/ Elapse(t) PROVE SingleInv' /\ OneRunner'
  BY <1>1, SMTT(60) DEF AddTask, Elapse
<1>2. ASSUME NEW id \in TaskID, RemoveTask(id) PROVE SingleInv' /\ OneRunner'
  BY <1>2 DEF RemoveTask
<1>3. ASSUME NEW c \in Controllers, Start(c) PROVE SingleInv' /\ OneRunner'
  <2>1. \A d \in Controllers : pc[d] = "idle"
    BY <1>3 DEF Start, SingleController
  <2>2. Live = {}
    BY <1>3, <2>1 DEF Start, StopQuiesces, Stopping
  <2>3. stop' \notin closed' /\ pc' = pc /\ started'
    BY <1>3 DEF Start
  <2>4. Live' = {stop'}
    BY <1>3, <2>2 DEF Start
  <2>5. rpc'[stop'] = "loop"
    BY <1>3 DEF Start
  <2> QED
    BY <2>1, <2>3, <2>4, <2>5
<1>4. ASSUME NEW c \in Controllers, StopLock(c) PROVE SingleInv' /\ OneRunner'
  <2>1. /\ pc'[c] = "close" /\ held'[c] = stop /\ stop' = stop
        /\ stop \notin closed /\ closed' = closed /\ ~started'
    BY <1>4 DEF StopLock
  <2>2. \A d \in Controllers : d = c
    BY DEF SingleController
  <2>3. Live' = Live /\ rpc' = rpc /\ sel' = sel
    BY <1>4 DEF StopLock
  <2> QED
    BY <2>1, <2>2, <2>3
<1>5. ASSUME NEW c \in Controllers, StopClose(c) PROVE SingleInv' /\ OneRunner'
  <2>1. \A d \in Controllers : d = c
    BY DEF SingleController
  <2>2. pc'[c] = "wait" /\ ~started' /\ stop' = stop /\ rpc' = rpc /\ sel' = sel
    BY <1>5 DEF StopClose
  <2> QED
    BY <2>1, <2>2
<1>6. ASSUME NEW c \in Controllers, StopWait(c) PROVE SingleInv' /\ OneRunner'
  <2>1. \A d \in Controllers : d = c
    BY DEF SingleController
  <2>2. /\ pc'[c] \in {"idle", "parked"} /\ ~started' /\ stop' = stop
        /\ rpc' = rpc /\ sel' = sel
    BY <1>6 DEF StopWait
  <2> QED
    BY <2>1, <2>2
<1>7. ASSUME NEW c \in Controllers, StopWake(c) PROVE SingleInv' /\ OneRunner'
  <2>1. \A d \in Controllers : d = c
    BY DEF SingleController
  <2>2. Live = {} /\ Parked = {}
    BY <1>7, <2>1 DEF StopWake, Parked
  <2>3. pc'[c] = "idle" /\ ~started' /\ stop' = stop /\ rpc' = rpc /\ sel' = sel
    BY <1>7, <2>2 DEF StopWake
  <2> QED
    BY <2>1, <2>3
<1>8. ASSUME NEW n \in Run, EnterSelect(n) PROVE SingleInv' /\ OneRunner'
  BY <1>8 DEF EnterSelect
<1>9. ASSUME NEW n \in Run, Tick(n) \/ Scan(n) \/ TaskDone(n)
      PROVE SingleInv' /\ OneRunner'
  <2>1. /\ pc' = pc /\ started' = started /\ stop' = stop /\ sel' = sel
        /\ closed' = closed /\ held' = held /\ rpc[n] \in {"select", "scan", "task"}
        /\ \A m \in Run : m # n => rpc'[m] = rpc[m]
        /\ rpc'[n] \in {"loop", "scan", "task"}
    BY <1>9 DEF Tick, Scan, TaskDone
  <2>2. Live' = Live
    BY <2>1
  <2>3. SingleInv'
    BY <2>1, <2>2
  <2>4. OneRunner'
    BY <2>1, <2>2
  <2> QED
    BY <2>3, <2>4
<1>10. ASSUME NEW n \in Run, RunExit(n) PROVE SingleInv' /\ OneRunner'
  <2>1. /\ started' = started /\ stop' = stop /\ sel' = sel
        /\ closed' = closed /\ held' = held
        /\ rpc' = [rpc EXCEPT ![n] = "done"]
    BY <1>10 DEF RunExit
  <2>2. Live = {n} /\ Live' = {}
    BY <1>10, <2>1 DEF RunExit
  <2>3. \A c \in Controllers : pc'[c] = IF pc[c] = "parked" THEN "woken" ELSE pc[c]
    BY <1>10, <2>2 DEF RunExit
  <2>4. SingleInv'
    BY <2>1, <2>2, <2>3
  <2> QED
    BY <2>2, <2>4
<1> QED
  BY <1>1, <1>2, <1>3, <1>4, <1>5, <1>6, <1>7, <1>8, <1>9, <1>10
     DEF Next, StopStep, RunStep

\* With one controller there is never a second run goroutine, the one there
\* is listens to the channel that the next Stop will close, and Stop never
\* panics: neither by closing a channel twice nor inside the WaitGroup.
THEOREM OneControllerSafe ==
    ASSUME SingleController
    PROVE  Spec => [](OneRunner /\ StopNeverPanics)
<1>1. Init => SingleInv /\ OneRunner
  BY DEF Init, SingleInv, OneRunner, Alive, Live, Run
<1>2. TypeOK /\ StopQuiesces /\ SingleInv /\ OneRunner /\ [Next]_vars
        => SingleInv' /\ OneRunner'
  <2> SUFFICES ASSUME TypeOK, StopQuiesces, SingleInv, OneRunner, [Next]_vars
               PROVE  SingleInv' /\ OneRunner'
    OBVIOUS
  <2>1. CASE Next
    BY <2>1, SingleStep
  <2>2. CASE UNCHANGED vars
    BY <2>2 DEF vars, SingleInv, OneRunner, Alive, Live, Run
  <2> QED
    BY <2>1, <2>2
<1>3. SingleInv => StopNeverPanics
  BY DEF SingleInv, StopNeverPanics
<1> QED
  BY <1>1, <1>2, <1>3, TypeCorrect, StopQuiescesAlways, PTL DEF Spec

----------------------------------------------------------------------------
(* The front end.                                                          *)

\* Every step of the front end is a step of the scheduler or leaves it alone.
LEMMA SchedulerStep == [DataNext]_allVars => [Next]_vars
<1> SUFFICES ASSUME DataNext \/ UNCHANGED allVars PROVE Next \/ UNCHANGED vars
  OBVIOUS
<1>1. ASSUME NEW c \in Controllers, NEW k \in Clients, NEW cfg \in Configs, Initialize(c, k, cfg)
      PROVE UNCHANGED vars
  BY <1>1 DEF Initialize, NewChannel
<1>2. ASSUME NEW c \in Controllers, InitAddTask(c) PROVE Next
  BY <1>2 DEF InitAddTask, Next
<1>3. ASSUME NEW c \in Controllers, InitStart(c) PROVE Next
  BY <1>3 DEF InitStart, Next
<1>4. ASSUME NEW c \in Controllers, InitAlreadyStarted(c) \/ ShutdownClears(c) PROVE UNCHANGED vars
  BY <1>4 DEF InitAlreadyStarted, ShutdownClears
<1>5. ASSUME NEW c \in Controllers, Shutdown(c) PROVE Next \/ UNCHANGED vars
  BY <1>5 DEF Shutdown, Next
<1>6. ASSUME NEW c \in Controllers, ShutdownStops(c) PROVE Next
  BY <1>6 DEF ShutdownStops, Next
<1>7. ASSUME NEW n \in Run, RunLoop(n) \/ TaskRuns(n) PROVE Next
  BY <1>7 DEF RunLoop, TaskRuns, RunStep, Next
<1>8. ASSUME NEW n \in Run, StreamStep(n) PROVE UNCHANGED vars
  BY <1>8 DEF StreamStep, StreamWakes, StreamWrites
<1>9. ASSUME NEW id \in TaskID, RemoveTask(id) PROVE Next
  BY <1>9 DEF Next
<1>10. ASSUME NEW t \in Task, Elapse(t) PROVE Next
  BY <1>10 DEF Next
<1>11. UNCHANGED allVars => UNCHANGED vars
  BY DEF allVars
<1> QED
  BY <1>1, <1>2, <1>3, <1>4, <1>5, <1>6, <1>7, <1>8, <1>9, <1>10, <1>11, Zenon DEF DataNext, InitStep

\* Under its front end the scheduler behaves as the scheduler specification
\* says (dataflow.go uses it through AddTask, Start and Stop alone), so what
\* is proved of Scheduler holds here.
THEOREM DataflowUsesScheduler == DataSpec => Spec
<1>1. DataInit => Init
  BY DEF DataInit
<1> QED
  BY <1>1, SchedulerStep, PTL DEF DataSpec, Spec

----------------------------------------------------------------------------
(* Types.                                                                  *)

FlowType ==
    /\ cli \in Clients \cup {None}
    /\ dpc \in [Controllers -> {"idle", "add", "stop"}]
    /\ arg \in [Controllers -> Clients \cup {None}]
    /\ rest \in [Controllers -> SUBSET TaskID]
    /\ session \in [Controllers -> 0..stop]
    /\ channel \in [Task -> Clients \cup {None}]
    /\ spc \in [Run -> {"none", "asleep", "write", "done"}]
    /\ cancelled \subseteq 1..stop
    /\ late \in [Run -> Nat]

\* The front end's half of the type invariant, step by step.
LEMMA FlowTypeStep ==
    ASSUME TypeOK, FlowType, [DataNext]_allVars
    PROVE  FlowType'
<1> USE DataflowConstants DEF FlowType, flowVars, streamVars, dataVars
<1>0. stop \in 0..MaxStarts /\ stop \in Nat /\ MaxStarts \in Nat
  BY SchedulerConstants DEF TypeOK
<1>1. ASSUME NEW c \in Controllers, NEW k \in Clients, NEW cfg \in Configs, Initialize(c, k, cfg)
      PROVE FlowType'
  BY <1>1 DEF Initialize, NewChannel, vars
<1>2. ASSUME NEW c \in Controllers, InitAddTask(c) PROVE FlowType'
  <2>1. stop' = stop
    BY <1>2 DEF InitAddTask, AddTask
  <2>2. PICK t \in Task : /\ rest' = [rest EXCEPT ![c] = @ \ {ID[t]}]
                          /\ channel' = [channel EXCEPT ![t] = arg[c]]
    BY <1>2 DEF InitAddTask
  <2>3. rest' \in [Controllers -> SUBSET TaskID] /\ channel' \in [Task -> Clients \cup {None}]
    BY <2>2
  <2> QED
    BY <1>2, <2>1, <2>3 DEF InitAddTask
<1>3. ASSUME NEW c \in Controllers, InitStart(c) PROVE FlowType'
  <2>1. stop' = stop + 1 /\ stop' \in Run
    BY <1>0, <1>3 DEF InitStart, Start, Run
  <2>2. session' \in [Controllers -> 0..stop'] /\ cancelled' \subseteq 1..stop'
    BY <1>0, <1>3, <2>1 DEF InitStart
  <2>3. spc' \in [Run -> {"none", "asleep", "write", "done"}]
    BY <1>3, <2>1 DEF InitStart
  <2>4. dpc' \in [Controllers -> {"idle", "add", "stop"}]
    BY <1>3 DEF InitStart
  <2> QED
    BY <1>3, <2>2, <2>3, <2>4 DEF InitStart
<1>4. ASSUME NEW c \in Controllers, InitAlreadyStarted(c) \/ ShutdownClears(c) PROVE FlowType'
  BY <1>4 DEF InitAlreadyStarted, ShutdownClears, vars
<1>5. ASSUME NEW c \in Controllers, Shutdown(c) PROVE FlowType'
  <2>1. stop' = stop
    BY <1>5 DEF Shutdown, StopLock, vars
  <2>2. {session[c]} \ {0} \subseteq 1..stop
    BY <1>0
  <2> QED
    BY <1>5, <2>1, <2>2 DEF Shutdown
<1>6. ASSUME NEW c \in Controllers, ShutdownStops(c) PROVE FlowType'
  BY <1>6 DEF ShutdownStops, StopStep, StopClose, StopWait, StopWake
<1>7. ASSUME NEW n \in Run, RunLoop(n) PROVE FlowType'
  BY <1>7 DEF RunLoop, EnterSelect, RunExit, Tick, Scan
<1>8. ASSUME NEW n \in Run, TaskRuns(n) PROVE FlowType'
  BY <1>8 DEF TaskRuns, TaskDone
<1>9. ASSUME NEW n \in Run, StreamStep(n) PROVE FlowType'
  <2>1. UNCHANGED <<cli, dpc, arg, rest, session, channel, cancelled, stop>>
    BY <1>9 DEF StreamStep, StreamWakes, StreamWrites, vars
  <2>2. \/ spc' = [spc EXCEPT ![n] = "write"]
        \/ spc' = [spc EXCEPT ![n] = "done"]
        \/ spc' = [spc EXCEPT ![n] = "asleep"]
    BY <1>9 DEF StreamStep, StreamWakes, StreamWrites
  <2>3. late' = [late EXCEPT ![n] = late[n] + 1] \/ late' = late
    BY <1>9 DEF StreamStep, StreamWakes, StreamWrites
  <2>4. spc' \in [Run -> {"none", "asleep", "write", "done"}]
    BY <2>2
  <2>5. late' \in [Run -> Nat]
    BY <2>3
  <2> QED
    BY <2>1, <2>4, <2>5
<1>10. ASSUME NEW id \in TaskID, RemoveTask(id) /\ UNCHANGED dataVars PROVE FlowType'
  BY <1>10 DEF RemoveTask
<1>11. ASSUME NEW t \in Task, Elapse(t) /\ UNCHANGED dataVars PROVE FlowType'
  BY <1>11 DEF Elapse
<1>12. UNCHANGED allVars => FlowType'
  BY DEF allVars, vars
<1> QED
  BY <1>1, <1>2, <1>3, <1>4, <1>5, <1>6, <1>7, <1>8, <1>9, <1>10, <1>11, <1>12 DEF DataNext, InitStep

\* Type correctness of the scheduler under its front end.
THEOREM DataTypeCorrect == DataSpec => []DataTypeOK
<1>1. DataInit => FlowType
  BY DataflowConstants DEF DataInit, Init, FlowType
<1>2. TypeOK /\ FlowType /\ [DataNext]_allVars => FlowType'
  BY FlowTypeStep
<1>3. TypeOK /\ FlowType => DataTypeOK
  BY DEF FlowType, DataTypeOK
<1> QED
  BY <1>1, <1>2, <1>3, DataflowUsesScheduler, TypeCorrect, PTL DEF DataSpec

----------------------------------------------------------------------------
(* The package has a client while the scheduler is started.                *)

\* Cutting one element out of a sequence leaves elements of the sequence
\* (the slice expression of RemoveTask, scheduler.go:58).
LEMMA CutElems ==
    ASSUME NEW S, NEW s \in Seq(S), NEW i \in DOMAIN s
    PROVE  Elems(SubSeq(s, 1, i - 1) \o SubSeq(s, i + 1, Len(s))) \subseteq Elems(s)
<1> DEFINE a == SubSeq(s, 1, i - 1)
           b == SubSeq(s, i + 1, Len(s))
<1>1. i \in 1..Len(s) /\ Len(s) \in Nat
  OBVIOUS
<1>2. a \in Seq(S) /\ \A j \in DOMAIN a : a[j] \in Elems(s)
  BY <1>1 DEF Elems
<1>3. b \in Seq(S) /\ \A j \in DOMAIN b : b[j] \in Elems(s)
  BY <1>1 DEF Elems
<1> HIDE DEF a, b
<1>4. \A j \in DOMAIN (a \o b) : (a \o b)[j] \in Elems(s)
  BY <1>2, <1>3
<1>5. Elems(a \o b) \subseteq Elems(s)
  BY <1>4 DEF Elems
<1> QED
  BY <1>5 DEF a, b

\* With one controller: in Initialize the client is set, in Shutdown the
\* scheduler is stopped already.
FlowInv ==
    /\ StartedHasClient
    /\ \A c \in Controllers : dpc[c] = "add" => cli # None /\ arg[c] # None
    /\ \A c \in Controllers : dpc[c] = "stop" => ~started

LEMMA FlowStep ==
    ASSUME NEW c0, Controllers = {c0}, TypeOK, FlowType, FlowInv, [DataNext]_allVars
    PROVE  FlowInv'
<1> USE DataflowConstants DEF FlowInv, StartedHasClient, FlowType, flowVars, streamVars, dataVars
<1>0. tasks \in Seq(Task)
  BY DEF TypeOK
<1>1. ASSUME NEW c \in Controllers, NEW k \in Clients, NEW cfg \in Configs, Initialize(c, k, cfg)
      PROVE FlowInv'
  BY <1>1 DEF Initialize, NewChannel, vars
<1>2. ASSUME NEW c \in Controllers, InitAddTask(c) PROVE FlowInv'
  <2>1. PICK t \in Task : /\ AddTask(t)
                          /\ channel' = [channel EXCEPT ![t] = arg[c]]
    BY <1>2 DEF InitAddTask
  <2>2. Elems(tasks') \subseteq Elems(tasks) \cup {t}
    BY <1>0, <2>1 DEF AddTask, Elems
  <2>3. \A u \in Elems(tasks) : u \in Task
    BY <1>0 DEF Elems
  <2>4. arg[c] # None
    BY <1>2 DEF InitAddTask
  <2>5. \A u \in Elems(tasks') : channel'[u] # None
    BY <2>1, <2>2, <2>3, <2>4
  <2>6. UNCHANGED <<started, cli, dpc, arg>>
    BY <1>2 DEF InitAddTask, AddTask
  <2> QED
    BY <2>5, <2>6
<1>3. ASSUME NEW c \in Controllers, InitStart(c) PROVE FlowInv'
  <2>1. dpc'[c] = "idle" /\ cli # None /\ c = c0
    BY <1>3 DEF InitStart
  <2>2. UNCHANGED <<tasks, channel, cli, arg>>
    BY <1>3 DEF InitStart, Start, taskVars
  <2> QED
    BY <2>1, <2>2
<1>4. ASSUME NEW c \in Controllers, InitAlreadyStarted(c) \/ ShutdownClears(c) PROVE FlowInv'
  BY <1>4 DEF InitAlreadyStarted, ShutdownClears, vars
<1>5. ASSUME NEW c \in Controllers, Shutdown(c) PROVE FlowInv'
  BY <1>5 DEF Shutdown, StopLock, taskVars, vars
<1>6. ASSUME NEW c \in Controllers, ShutdownStops(c) PROVE FlowInv'
  BY <1>6 DEF ShutdownStops, StopStep, StopClose, StopWait, StopWake, taskVars
<1>7. ASSUME NEW n \in Run, RunLoop(n) PROVE FlowInv'
  BY <1>7 DEF RunLoop, EnterSelect, RunExit, Tick, Scan, taskVars
<1>8. ASSUME NEW n \in Run, TaskRuns(n) PROVE FlowInv'
  BY <1>8 DEF TaskRuns, TaskDone, taskVars
<1>9. ASSUME NEW n \in Run, StreamStep(n) PROVE FlowInv'
  BY <1>9 DEF StreamStep, StreamWakes, StreamWrites, vars
<1>10. ASSUME NEW id \in TaskID, RemoveTask(id) /\ UNCHANGED dataVars PROVE FlowInv'
  <2>1. PICK i \in DOMAIN tasks :
            tasks' = SubSeq(tasks, 1, i - 1) \o SubSeq(tasks, i + 1, Len(tasks))
    BY <1>10 DEF RemoveTask
  <2>2. Elems(tasks') \subseteq Elems(tasks)
    BY <1>0, <2>1, CutElems
  <2>3. UNCHANGED <<started, cli, dpc, arg, channel>>
    BY <1>10 DEF RemoveTask
  <2> QED
    BY <2>2, <2>3
<1>11. ASSUME NEW t \in Task, Elapse(t) /\ UNCHANGED dataVars PROVE FlowInv'
  BY <1>11 DEF Elapse, taskVars
<1>12. UNCHANGED allVars => FlowInv'
  BY DEF allVars, vars
<1> QED
  BY <1>1, <1>2, <1>3, <1>4, <1>5, <1>6, <1>7, <1>8, <1>9, <1>10, <1>11, <1>12 DEF DataNext, InitStep

\* If one goroutine calls Initialize and Shutdown (as the example does), a
\* started scheduler always has a client and its tasks have theirs, however
\* the calls fail half-way.
THEOREM StartedHasClientAlways ==
    ASSUME NEW c0, Controllers = {c0}
    PROVE  DataSpec => []StartedHasClient
<1>1. DataInit => FlowType
  BY DataflowConstants DEF DataInit, Init, FlowType
<1>2. TypeOK /\ FlowType /\ [DataNext]_allVars => FlowType'
  BY FlowTypeStep
<1>3. DataInit => FlowInv
  BY DEF DataInit, Init, FlowInv, StartedHasClient, Elems
<1>4. TypeOK /\ FlowType /\ FlowInv /\ [DataNext]_allVars => FlowInv'
  BY FlowStep
<1>5. FlowInv => StartedHasClient
  BY DEF FlowInv
<1> QED
  BY <1>1, <1>2, <1>3, <1>4, <1>5, DataflowUsesScheduler, TypeCorrect, PTL DEF DataSpec

=============================================================================
