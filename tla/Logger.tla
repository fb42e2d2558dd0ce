------------------------------- MODULE Logger ------------------------------
(***************************************************************************)
(* pkg/logger/logger.go writing to the files of rolling.go: the level      *)
(* filter, log.Logger (external), whose mutex lets one goroutine write at  *)
(* a time and which SetOutput takes too, and RollingFile.Write, which      *)
(* tests the handle before it takes the file's lock.  All methods of a     *)
(* level, with or without a format and on std or not, are the one Output.  *)
(***************************************************************************)
EXTENDS RollingLog

CONSTANTS
    Logging,        \* goroutines that write log lines
    LevelName,      \* names of levels that the program sets
    Stderr          \* the output of a new logger

ASSUME LoggerConstants == Stderr \notin File

VARIABLES
    level,          \* Logger.level
    target,         \* where log.Logger writes to: Stderr or a file
    line,           \* line[g]: [at, fatal] of the line that g writes; at is
                    \* "lost" when Output returned the error of the latest one
    exited          \* os.Exit has been called

logVars == <<level, target, line, exited>>

LevelDebug == 1
LevelInfo == 2
LevelWarning == 3
LevelError == 4
LevelFatal == 5
LevelAlert == 6

MappingLevelWithName(name) ==
    CASE name \in {"ALL", "DEBUG"} -> LevelDebug
      [] name \in {"WARN", "WARNING"} -> LevelWarning
      [] name = "ERROR" -> LevelError
      [] name = "FATAL" -> LevelFatal
      [] OTHER -> LevelInfo

Line(at, fatal) == [at |-> at, fatal |-> fatal]

\* New.  A MB_LOG_LEVEL that is no number makes the level 0.
LoggerInit ==
    /\ RollInit
    /\ level \in {0, LevelInfo} /\ target = Stderr
    /\ line = [g \in Logging |-> Line("idle", FALSE)]
    /\ exited = FALSE

SetLevel(name) ==
    /\ level' = MappingLevelWithName(name)
    /\ UNCHANGED <<rollVars, target, line, exited>>

Writing == {g \in Logging : line[g].at = "write"}

SetOutput(f) ==
    /\ Writing = {}
    /\ target' = f
    /\ UNCHANGED <<rollVars, level, line, exited>>

\* Output, Outputf, Outputln and Err up to log.Logger's mutex.  Fatal exits
\* when the line is below the level, too.
Output(g, lvl) ==
    /\ line[g].at \in {"idle", "lost"}
    /\ IF lvl >= level
        THEN line' = [line EXCEPT ![g] = Line("wait", lvl = LevelFatal)] /\ UNCHANGED exited
        ELSE line' = [line EXCEPT ![g] = Line("idle", FALSE)] /\ exited' = (lvl = LevelFatal)
    /\ UNCHANGED <<rollVars, level, target>>

\* Output of g returns; Fatal then exits, whether the line was written or not.
Returned(g, at) ==
    /\ line' = [line EXCEPT ![g] = Line(at, FALSE)]
    /\ exited' = line[g].fatal

\* g has log.Logger's mutex.  Stderr takes the line; the Write of a file tests
\* its handle and fails with ErrClosed when there is none.
BeginWrite(g) ==
    /\ line[g].at = "wait" /\ Writing = {}
    /\ \/ target = Stderr /\ Returned(g, "idle")
       \/ target # Stderr /\ handle[target] /\ line' = [line EXCEPT ![g].at = "write"] /\ UNCHANGED exited
       \/ target # Stderr /\ ~handle[target] /\ Returned(g, "lost")
    /\ UNCHANGED <<rollVars, level, target>>

\* g has the lock of the file, whose handle may be another one by now, or nil.
WriteLine(g) ==
    /\ line[g].at = "write" /\ opener[target] = "none"
    /\ Returned(g, IF handle[target] THEN "idle" ELSE "lost")
    /\ UNCHANGED <<rollVars, level, target>>

\* What the program does, through a Logger or the functions of the package.
LogNext ==
    /\ ~exited
    /\ \/ RollNext /\ UNCHANGED logVars
       \/ \E name \in LevelName : SetLevel(name)
       \/ \E f \in File : SetOutput(f)
       \/ \E g \in Logging : BeginWrite(g) \/ WriteLine(g)
       \/ \E g \in Logging, lvl \in LevelDebug..LevelAlert : Output(g, lvl)

LoggerBehaviour == LoggerInit /\ [][LogNext]_<<rollVars, logVars>>

----------------------------------------------------------------------------
(* Properties.                                                             *)

\* Types.
LogTypeOK ==
    /\ RollTypeOK
    /\ level \in 0..LevelAlert /\ target \in File \cup {Stderr}
    /\ line \in [Logging -> [at : {"idle", "wait", "write", "lost"}, fatal : BOOLEAN]]
    /\ exited \in BOOLEAN

\* An open file is opened under the new date, whoever writes to it meanwhile and
\* although the timer sends to the queue that only it empties (rolling.go:79),
\* unless the file has got lost to the timer: an Open has failed, which takes
\* it off the list for good (rolling.go:124-127), or the queue was full when
\* it registered (rolling.go:81-84), which with more files than Cap may happen
\* to any of them.
RollsOver ==
    \A f \in File, d \in 2..MaxDay :
        (today = d /\ handle[f]) ~>
            ((handle[f] /\ checkFlag[f] >= d) \/ f \in failed \cup dropped \/ exited)

\* A line that passes the filter is lost only while the file is being opened,
\* which every tick does (the unlocked test, rolling.go:89), or because it has
\* never been opened or could not be opened the last time.
LineLossExplained ==
    [][\A g \in Logging : line[g].at # "lost" /\ line'[g].at = "lost"
          => checkFlag[target] = 0 \/ opener[target] # "none" \/ target \in failed]_<<rollVars, logVars>>

=============================================================================
