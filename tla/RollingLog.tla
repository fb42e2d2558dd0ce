----------------------------- MODULE RollingLog ----------------------------
(***************************************************************************)
(* pkg/logger/rolling.go: log files that are opened anew, under the date   *)
(* of the day, by one timer goroutine.  A file registers with the timer    *)
(* through a queue of Cap (16 in the code): Open offers itself and gives   *)
(* up when the queue is full.  A tick takes every file off the list and    *)
(* calls its Open, in the goroutine that also empties the queue.           *)
(*                                                                         *)
(* The timer compares the date with the name of the file, which is never   *)
(* the same, so that every tick opens every file on the list again.        *)
(*                                                                         *)
(* Open holds the file's lock, but its handle is nil in between, which a   *)
(* Write sees that tests the handle before it takes the lock (Logger).     *)
(***************************************************************************)
EXTENDS Naturals, Sequences, FiniteSets

CONSTANTS
    File,           \* RollingFiles of the process
    Cap,            \* capacity of filePipeline
    MaxDay,         \* bound: days
    DiskFails       \* os.OpenFile may fail

ASSUME RollingConstants == Cap \in Nat \ {0} /\ MaxDay \in Nat \ {0} /\ DiskFails \in BOOLEAN

VARIABLES
    filePipeline,   \* the queue
    fileList,       \* the map of the timer goroutine
    todo,           \* files the tick in progress has still to visit
    handle,         \* handle[f]: f.fileHandler is not nil
    checkFlag,      \* the day of the file that is open
    opener,         \* opener[f]: who is in Open of f, holding its lock
    failed,         \* ghost: the files whose latest Open has failed
    dropped,        \* ghost: the files whose registration has been given up
    today

rollVars == <<filePipeline, fileList, todo, handle, checkFlag, opener, failed, dropped, today>>

RollInit ==
    /\ filePipeline = <<>> /\ fileList = {} /\ todo = {}
    /\ handle = [f \in File |-> FALSE]
    /\ checkFlag = [f \in File |-> 0]
    /\ opener = [f \in File |-> "none"]
    /\ failed = {} /\ dropped = {} /\ today = 1

\* A send without default.
OfferBlocks(f) ==
    /\ Len(filePipeline) < Cap
    /\ filePipeline' = Append(filePipeline, f)
    /\ UNCHANGED dropped

\* The select with default in Open.
Offer(f) ==
    \/ /\ Len(filePipeline) < Cap
       /\ filePipeline' = Append(filePipeline, f)
       /\ UNCHANGED dropped
    \/ /\ Len(filePipeline) = Cap
       /\ dropped' = dropped \cup {f}
       /\ UNCHANGED filePipeline

\* Open, up to os.OpenFile.  An open in progress has its handle from the
\* success of os.OpenFile on.
OpenBegin(f, who) ==
    /\ opener[f] = "none"
    /\ opener' = [opener EXCEPT ![f] = who]
    /\ handle' = [handle EXCEPT ![f] = FALSE]
    /\ checkFlag' = [checkFlag EXCEPT ![f] = today]
    /\ UNCHANGED <<failed, dropped>>

\* An Open that does not keep the handle it gets.
OpenLosesHandle(f) ==
    /\ opener[f] # "none" /\ ~handle[f]
    /\ opener' = [opener EXCEPT ![f] = "none"]
    /\ failed' = failed \ {f}
    /\ UNCHANGED <<filePipeline, fileList, todo, handle, checkFlag, dropped, today>>

\* os.OpenFile; its error ends Open.
OpenFile(f) ==
    /\ opener[f] # "none" /\ ~handle[f]
    /\ \/ /\ handle' = [handle EXCEPT ![f] = TRUE]
          /\ failed' = failed \ {f}
          /\ UNCHANGED opener
       \/ /\ DiskFails
          /\ failed' = failed \cup {f}
          /\ opener' = [opener EXCEPT ![f] = "none"]
          /\ UNCHANGED handle
    /\ UNCHANGED <<filePipeline, fileList, todo, checkFlag, dropped, today>>

\* The rest of Open: the file registers with the timer.
OpenEnd(f) ==
    /\ opener[f] # "none" /\ handle[f]
    /\ Offer(f)
    /\ opener' = [opener EXCEPT ![f] = "none"]
    /\ UNCHANGED <<fileList, todo, handle, checkFlag, failed, today>>

\* The program opens its log once.
AppOpens(f) ==
    /\ checkFlag[f] = 0
    /\ OpenBegin(f, "app")
    /\ UNCHANGED <<filePipeline, fileList, todo, today>>

TimerIdle == \A f \in File : opener[f] # "timer"

\* The queue is emptied between two ticks only.
Receive ==
    /\ todo = {} /\ TimerIdle
    /\ filePipeline # <<>>
    /\ fileList' = fileList \cup {Head(filePipeline)}
    /\ filePipeline' = Tail(filePipeline)
    /\ UNCHANGED <<todo, handle, checkFlag, opener, failed, dropped, today>>

TimerTick ==
    /\ todo = {} /\ TimerIdle /\ fileList # {}
    /\ todo' = fileList
    /\ UNCHANGED <<filePipeline, fileList, handle, checkFlag, opener, failed, dropped, today>>

\* An iteration of the tick, the files in any order.
Roll(f) ==
    /\ f \in todo /\ TimerIdle
    /\ todo' = todo \ {f}
    /\ fileList' = fileList \ {f}
    /\ OpenBegin(f, "timer")
    /\ UNCHANGED <<filePipeline, today>>

Midnight ==
    /\ today < MaxDay
    /\ today' = today + 1
    /\ UNCHANGED <<filePipeline, fileList, todo, handle, checkFlag, opener, failed, dropped>>

RollNext ==
    \/ \E f \in File : AppOpens(f) \/ Roll(f) \/ OpenFile(f) \/ OpenEnd(f)
    \/ Receive \/ TimerTick \/ Midnight

----------------------------------------------------------------------------
(* Properties.                                                             *)

\* Types; the queue keeps to its capacity, and a tick visits registered files.
RollTypeOK ==
    /\ filePipeline \in Seq(File) /\ Len(filePipeline) <= Cap
    /\ todo \subseteq fileList /\ fileList \subseteq File
    /\ failed \subseteq File /\ dropped \subseteq File
    /\ opener \in [File -> {"none", "app", "timer"}]
    /\ handle \in [File -> BOOLEAN] /\ checkFlag \in [File -> 0..MaxDay] /\ today \in 1..MaxDay

=============================================================================
