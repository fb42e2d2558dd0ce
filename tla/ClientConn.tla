----------------------------- MODULE ClientConn ----------------------------
(***************************************************************************)
(* The client side of pkg/network/tcp_con.go: Connect, Close, the reader,  *)
(* the heartbeat, Write, and the reconnect goroutine that a lost           *)
(* connection starts.                                                      *)
(*                                                                         *)
(* All of them share the fields conn, closed, closeOnce and closeChan of   *)
(* one tcpConn, each on its own and mostly without a lock; every field is  *)
(* a variable of its own here, and the steps between two accesses are      *)
(* separate actions.  A socket is named by the number of the dial that     *)
(* made it (0 is nil), and so are the close channel made for it, its       *)
(* reader and its heartbeat.                                               *)
(*                                                                         *)
(* A panic ends the process: the one recover, in the reader's loop, does   *)
(* not cover the places that can panic here.  ReconnectInterval is long    *)
(* against the steps between newReader and the end of reconnect, which     *)
(* are therefore one step.                                                 *)
(***************************************************************************)
EXTENDS Naturals, FiniteSets

CONSTANTS
    Modes,              \* values of ReconnectInterval > 0 that are looked at
    ReconnectMax,       \* attempts of one reconnect (0, "for ever", left out)
    Heartbeat,          \* HeartbeatInterval > 0
    AnyClose,           \* Close may come before Connect and on a client that reconnects
    MaxConnects,        \* bound: calls of Connect that get a socket
    MaxCloses,          \* bound: calls of Close
    MaxWrites,          \* bound: calls of Write
    MaxFaults           \* bound: failures of an open socket

ASSUME ClientConstants ==
    /\ Modes \subseteq BOOLEAN /\ Heartbeat \in BOOLEAN /\ AnyClose \in BOOLEAN
    /\ ReconnectMax \in Nat \ {0}
    /\ MaxConnects \in Nat \ {0} /\ MaxCloses \in Nat /\ MaxWrites \in Nat /\ MaxFaults \in Nat

MaxDials == MaxConnects + MaxFaults * ReconnectMax
Gen == 1..MaxDials

VARIABLES
    auto,               \* c.options.ReconnectInterval > 0
    conn, closed,       \* c.conn, c.closed
    once,               \* c.closeOnce: "free", "busy" (body running), "done"
    chan, chClosed,     \* c.closeChan, and the channels that are closed
    open,               \* the sockets that are open
    dials,              \* dials that succeeded
    body, owner, abort, \* the body of close(): where it is, who runs it, how
    app, want,          \* the caller of Connect and Close; what it asked for last
    rec, fresh, att,    \* the reconnect goroutine, its socket, its attempts
    reader,             \* the reader of each socket
    hb, hbChan,         \* the heartbeat of each socket, the channel it selects on
    writer,             \* a caller of Write
    panic,              \* the process has died
    connects, closes, writes, faults    \* what the bounds count

fields   == <<auto, conn, closed, once, chan, chClosed>>
bodyVars == <<body, owner, abort>>
appVars  == <<app, want>>
recVars  == <<rec, fresh, att>>
hbVars   == <<hb, hbChan>>
counters == <<connects, closes, writes, faults>>
vars == <<fields, open, dials, bodyVars, appVars, recVars, reader, hbVars, writer, panic, counters>>

Init ==
    /\ auto \in Modes
    /\ conn = 0 /\ closed = FALSE /\ once = "free" /\ chan = 0 /\ chClosed = {}
    /\ open = {} /\ dials = 0
    /\ body = "none" /\ owner = "none" /\ abort = FALSE
    /\ app = "idle" /\ want = "none"
    /\ rec = "off" /\ fresh = 0 /\ att = 0
    /\ reader = [g \in Gen |-> "none"]
    /\ hb = [g \in Gen |-> "none"] /\ hbChan = [g \in Gen |-> 0]
    /\ writer = "idle"
    /\ panic = FALSE
    /\ connects = 0 /\ closes = 0 /\ writes = 0 /\ faults = 0

Alive == ~panic

----------------------------------------------------------------------------
(* close(): entered by `who` through closeOnce.Do.                         *)

\* A body that leaves closeChan open.
EnterCloseNoChan(who, how) ==
    /\ once = "free"
    /\ IF conn = 0
       THEN once' = "done" /\ UNCHANGED <<closed, chClosed, bodyVars, panic>>
       ELSE /\ once' = "busy" /\ closed' = TRUE
            /\ body' = "onclose" /\ owner' = who /\ abort' = how
            /\ UNCHANGED <<chClosed, panic>>

\* The body up to OnClose.  Closing a closed channel panics.
EnterClose(who, how) ==
    /\ once = "free"
    /\ IF conn = 0
       THEN once' = "done" /\ UNCHANGED <<closed, chClosed, bodyVars, panic>>
       ELSE /\ once' = "busy" /\ closed' = TRUE
            /\ chClosed' = chClosed \cup {chan}
            /\ panic' = (chan \in chClosed)
            /\ body' = "onclose" /\ owner' = who /\ abort' = how

\* OnClose returns, and the rest of the body: c.conn is read again, set to
\* nil and closed, and reconnect started; every caller blocked in Do goes on.
\* A nil c.conn, or a Once that reconnect has replaced meanwhile, is fatal.
\* With one Connect no reconnect goroutine is running here already, so that
\* rec describes the only one.
FinishClose ==
    /\ Alive
    /\ body = "onclose"
    /\ body' = "none" /\ owner' = "none" /\ abort' = FALSE
    /\ once' = "done"
    /\ panic' = (conn = 0 \/ once # "busy")
    /\ conn' = 0
    /\ open' = open \ {conn}
    /\ IF abort /\ auto
       THEN rec' = "sleep" /\ att' = 0 /\ UNCHANGED fresh
       ELSE UNCHANGED recVars
    /\ reader' = [g \in Gen |-> IF reader[g] \in {"closing", "blocked"} THEN "done" ELSE reader[g]]
    /\ IF app \in {"closing", "blocked"} THEN app' = "idle" /\ want' = "down"
                                         ELSE UNCHANGED appVars
    /\ UNCHANGED <<auto, closed, chan, chClosed, dials, hbVars, writer, counters>>

----------------------------------------------------------------------------
(* The caller of Connect and Close.                                        *)

\* Connect (or ConnectWithTLS) up to initIO; a failed dial changes nothing.
AppDials ==
    /\ Alive
    /\ app = "idle" /\ want # "up"
    /\ connects < MaxConnects /\ dials < MaxDials
    /\ connects' = connects + 1
    /\ dials' = dials + 1
    /\ open' = open \cup {dials + 1}
    /\ conn' = dials + 1
    /\ closed' = FALSE
    /\ app' = "init"
    /\ UNCHANGED <<auto, once, chan, chClosed, bodyVars, want, recVars, reader, hbVars, writer, panic,
                   closes, writes, faults>>

StartIO(g) ==
    /\ reader' = [reader EXCEPT ![g] = "read"]
    /\ hb' = IF Heartbeat THEN [hb EXCEPT ![g] = "loop"] ELSE hb
    /\ UNCHANGED hbChan

\* initIO: closeChan is made only if there is none; OnConnect accepts and the
\* reader starts (newReader refuses a closed connection), or Connect fails.
\* The connection has an EventHandler: without one (tcp_con.go:212) there would
\* be no reader, and a failing socket would be nobody's business.
AppInit ==
    /\ Alive
    /\ app = "init"
    /\ app' = "idle"
    /\ chan' = IF chan = 0 THEN conn ELSE chan
    /\ \/ /\ ~closed
          /\ StartIO(conn)
          /\ want' = "up"
          /\ UNCHANGED <<conn, open>>
       \/ /\ open' = open \ {conn}
          /\ conn' = 0
          /\ want' = "none"
          /\ UNCHANGED <<reader, hbVars>>
    /\ UNCHANGED <<auto, closed, once, chClosed, dials, bodyVars, recVars, writer, panic, counters>>

\* Close that does not wait for a close in progress.
AppClosesNoWait ==
    /\ Alive /\ app = "idle" /\ closes < MaxCloses /\ (AnyClose \/ (connects > 0 /\ ~auto))
    /\ closes' = closes + 1
    /\ \/ /\ EnterClose("app", FALSE)
          /\ IF conn = 0 THEN want' = "down" /\ UNCHANGED app
                         ELSE app' = "closing" /\ UNCHANGED want
       \/ /\ once # "free"
          /\ want' = "down"
          /\ UNCHANGED <<app, once, closed, chClosed, bodyVars, panic>>
    /\ UNCHANGED <<auto, conn, chan, open, dials, recVars, reader, hbVars, writer,
                   connects, writes, faults>>

\* Close: the first caller of Do runs the body, a later one waits for it,
\* one that comes after it returns at once.
AppCloses ==
    /\ Alive
    /\ app = "idle"
    /\ closes < MaxCloses
    /\ AnyClose \/ (connects > 0 /\ ~auto)
    /\ closes' = closes + 1
    /\ \/ /\ EnterClose("app", FALSE)
          /\ IF conn = 0 THEN want' = "down" /\ UNCHANGED app
                         ELSE app' = "closing" /\ UNCHANGED want
       \/ /\ once = "busy"
          /\ app' = "blocked"
          /\ UNCHANGED <<want, once, closed, chClosed, bodyVars, panic>>
       \/ /\ once = "done"
          /\ want' = "down"
          /\ UNCHANGED <<app, once, closed, chClosed, bodyVars, panic>>
    /\ UNCHANGED <<auto, conn, chan, open, dials, recVars, reader, hbVars, writer,
                   connects, writes, faults>>

----------------------------------------------------------------------------
(* The reader of socket g.                                                 *)

\* The read fails: the peer or the network broke it, or it was closed here.
ReadFails(g) ==
    /\ Alive
    /\ reader[g] = "read"
    /\ \/ g \notin open /\ UNCHANGED faults
       \/ g \in open /\ faults < MaxFaults /\ faults' = faults + 1
    /\ reader' = [reader EXCEPT ![g] = "exit"]
    /\ UNCHANGED <<fields, open, dials, bodyVars, appVars, recVars, hbVars, writer, panic,
                   connects, closes, writes>>

\* The deferred function tests IsClosed, and then calls abortClose(false).
ReaderExits(g) ==
    /\ Alive
    /\ reader[g] = "exit"
    /\ reader' = [reader EXCEPT ![g] = IF closed THEN "done" ELSE "abort"]
    /\ UNCHANGED <<fields, open, dials, bodyVars, appVars, recVars, hbVars, writer, panic, counters>>
ReaderAborts(g) ==
    /\ Alive
    /\ reader[g] = "abort"
    /\ \/ /\ EnterClose("reader", TRUE)
          /\ reader' = [reader EXCEPT ![g] = IF conn = 0 THEN "done" ELSE "closing"]
       \/ /\ once = "busy"
          /\ reader' = [reader EXCEPT ![g] = "blocked"]
          /\ UNCHANGED <<once, closed, chClosed, bodyVars, panic>>
       \/ /\ once = "done"
          /\ reader' = [reader EXCEPT ![g] = "done"]
          /\ UNCHANGED <<once, closed, chClosed, bodyVars, panic>>
    /\ UNCHANGED <<auto, conn, chan, open, dials, appVars, recVars, hbVars, writer, counters>>

----------------------------------------------------------------------------
(* The heartbeat of socket g, and Write.                                   *)

HeartbeatStep(g, from, to) ==
    /\ Alive
    /\ hb[g] = from
    /\ hb' = [hb EXCEPT ![g] = to]
    /\ UNCHANGED <<fields, open, dials, bodyVars, appVars, recVars, reader, writer, counters>>

\* The select evaluates c.closeChan anew every time.
HeartbeatSelects(g) ==
    HeartbeatStep(g, "loop", "select") /\ hbChan' = [hbChan EXCEPT ![g] = chan] /\ UNCHANGED panic
HeartbeatStops(g) ==
    HeartbeatStep(g, "select", "off") /\ hbChan[g] \in chClosed /\ UNCHANGED <<hbChan, panic>>
\* A tick: the tests of heartbeat, WritePacket and Write come first.
HeartbeatTicks(g) ==
    HeartbeatStep(g, "select", IF conn = 0 \/ closed THEN "loop" ELSE "write")
        /\ UNCHANGED <<hbChan, panic>>
\* Then, under writeMu, c.conn is read again: nil panics.
HeartbeatWrites(g) ==
    HeartbeatStep(g, "write", "loop") /\ panic' = (conn = 0) /\ UNCHANGED hbChan

WriteChecks ==
    /\ Alive
    /\ writer = "idle" /\ writes < MaxWrites
    /\ app # "init"                     \* nobody writes while Connect runs
    /\ writes' = writes + 1
    /\ writer' = IF conn = 0 \/ closed THEN "idle" ELSE "write"      \* ErrClosed
    /\ UNCHANGED <<fields, open, dials, bodyVars, appVars, recVars, reader, hbVars, panic,
                   connects, closes, faults>>
WriteUses ==
    /\ Alive
    /\ writer = "write"
    /\ writer' = "idle"
    /\ panic' = (conn = 0)
    /\ UNCHANGED <<fields, open, dials, bodyVars, appVars, recVars, reader, hbVars, counters>>

----------------------------------------------------------------------------
(* reconnect().                                                            *)

NextAttempt ==
    /\ att' = att + 1
    /\ rec' = IF att + 1 < ReconnectMax THEN "sleep" ELSE "off"

\* A dial failure that ends the loop.
RedialGivesUp ==
    /\ Alive
    /\ rec = "sleep"
    /\ rec' = "off"
    /\ UNCHANGED <<att, fields, open, dials, bodyVars, appVars, fresh, reader, hbVars, writer, panic,
                   counters>>

RedialFails ==
    /\ Alive
    /\ rec = "sleep"
    /\ NextAttempt
    /\ UNCHANGED <<fields, open, dials, bodyVars, appVars, fresh, reader, hbVars, writer, panic,
                   counters>>

Redial ==
    /\ Alive
    /\ rec = "sleep" /\ dials < MaxDials
    /\ dials' = dials + 1 /\ fresh' = dials + 1 /\ open' = open \cup {dials + 1}
    /\ rec' = "conn"
    /\ UNCHANGED <<fields, att, bodyVars, appVars, reader, hbVars, writer, panic, counters>>

\* The assignments under writeMu, which Close does not take.
SetConn ==
    /\ Alive
    /\ rec = "conn"
    /\ conn' = fresh /\ closed' = FALSE
    /\ rec' = "once"
    /\ UNCHANGED <<auto, once, chan, chClosed, open, dials, bodyVars, appVars, fresh, att, reader, hbVars,
                   writer, panic, counters>>
\* closeOnce is left as it is.
KeepOnce ==
    /\ Alive /\ rec = "once"
    /\ rec' = "chan"
    /\ UNCHANGED <<fields, open, dials, bodyVars, appVars, fresh, att,
                   reader, hbVars, writer, panic, counters>>
ResetOnce ==
    /\ Alive
    /\ rec = "once"
    /\ once' = "free"
    /\ rec' = "chan"
    /\ UNCHANGED <<auto, conn, closed, chan, chClosed, open, dials, bodyVars, appVars, fresh, att,
                   reader, hbVars, writer, panic, counters>>
SetChan ==
    /\ Alive
    /\ rec = "chan"
    /\ chan' = fresh
    /\ rec' = "init"
    /\ UNCHANGED <<auto, conn, closed, once, chClosed, open, dials, bodyVars, appVars, fresh, att,
                   reader, hbVars, writer, panic, counters>>

\* initIO succeeds, with a handler as in AppInit: the reader and the heartbeat
\* run, reconnect is over.
ReinitDone ==
    /\ Alive
    /\ rec = "init" /\ ~closed
    /\ StartIO(fresh)
    /\ rec' = "off"
    /\ UNCHANGED <<fields, open, dials, bodyVars, appVars, fresh, att, writer, panic, counters>>

\* The error path that forgets to close the socket.
ReinitLeaks ==
    /\ Alive /\ rec = "init"
    /\ conn' = 0 /\ closed' = TRUE
    /\ NextAttempt
    /\ UNCHANGED <<auto, once, chan, chClosed, open, dials, bodyVars, appVars, fresh, reader, hbVars,
                   writer, panic, counters>>

\* initIO fails (OnConnect rejects, or the connection is closed already).
ReinitFails ==
    /\ Alive
    /\ rec = "init"
    /\ open' = open \ {fresh}
    /\ conn' = 0 /\ closed' = TRUE
    /\ NextAttempt
    /\ UNCHANGED <<auto, once, chan, chClosed, dials, bodyVars, appVars, fresh, reader, hbVars,
                   writer, panic, counters>>

----------------------------------------------------------------------------
RecStep == RedialFails \/ Redial \/ SetConn \/ ResetOnce \/ SetChan \/ ReinitDone \/ ReinitFails

ReaderStep(g) == ReadFails(g) \/ ReaderExits(g) \/ ReaderAborts(g)

HbStep(g) == HeartbeatSelects(g) \/ HeartbeatStops(g) \/ HeartbeatTicks(g) \/ HeartbeatWrites(g)

Next ==
    \/ AppDials \/ AppInit \/ AppCloses \/ FinishClose
    \/ WriteChecks \/ WriteUses \/ RecStep
    \/ \E g \in Gen : ReaderStep(g) \/ HbStep(g)

Spec == Init /\ [][Next]_vars

\* Goroutines that can go on do: Connect once it has a socket, whoever is in
\* close(), reconnect, a reader whose socket is closed, a heartbeat.  The
\* select of a heartbeat whose channel stays closed takes that case in the
\* end.  No socket has to fail and nobody has to call anything.
Fairness ==
    /\ WF_vars(AppInit) /\ WF_vars(FinishClose) /\ WF_vars(WriteUses) /\ WF_vars(RecStep)
    /\ \A g \in Gen :
        /\ WF_vars(ReaderExits(g)) /\ WF_vars(ReaderAborts(g))
        /\ WF_vars(g \notin open /\ ReadFails(g))
        /\ WF_vars(HbStep(g)) /\ SF_vars(HeartbeatStops(g))

FairSpec == Spec /\ Fairness

----------------------------------------------------------------------------
(* Properties.                                                             *)

Reading == {g \in Gen : reader[g] \in {"read", "exit", "abort", "closing", "blocked"}}
Beating == {g \in Gen : hb[g] \in {"loop", "select", "write"}}

\* Types; a connection that is up has a close channel.
TypeOK ==
    /\ auto \in BOOLEAN
    /\ conn \in 0..dials /\ closed \in BOOLEAN /\ once \in {"free", "busy", "done"}
    /\ chan \in 0..dials /\ chClosed \subseteq 1..dials
    /\ Reading # {} => chan # 0
    /\ open \subseteq 1..dials /\ dials \in 0..MaxDials
    /\ body \in {"none", "onclose"} /\ owner \in {"none", "app", "reader"} /\ abort \in BOOLEAN
    /\ app \in {"idle", "init", "closing", "blocked"} /\ want \in {"none", "up", "down"}
    /\ rec \in {"off", "sleep", "conn", "once", "chan", "init"}
    /\ fresh \in 0..dials /\ att \in 0..ReconnectMax
    /\ reader \in [Gen -> {"none", "read", "exit", "abort", "closing", "blocked", "done"}]
    /\ hb \in [Gen -> {"none", "loop", "select", "write", "off"}] /\ hbChan \in [Gen -> 0..dials]
    /\ writer \in {"idle", "write"} /\ panic \in BOOLEAN

\* "Close closes the connection" (types.go:137): when the latest call of the
\* application was a Close and it has returned, there is no connection and no
\* open socket, whichever goroutine did the closing.
CloseCloses ==
    want = "down" /\ app = "idle" /\ ~panic => conn = 0 /\ open = {}

\* A connection is never left without a reader: the one of the current
\* socket runs, unless that socket is just being set up or closed.  Without
\* it nobody would notice that the peer has gone, and never reconnect.
Supervised ==
    conn # 0 /\ ~panic =>
        \/ conn \in Reading
        \/ app = "init" \/ rec \in {"once", "chan", "init"} \/ body # "none"

\* Sockets are not leaked: an open one is the current one or the one that
\* reconnect has just dialled.
NoSocketLeak ==
    ~panic => open \subseteq {conn} \cup (IF rec \in {"conn", "once", "chan", "init"}
                                           THEN {fresh} ELSE {})

\* "Write ... returns the number of bytes written and any error encountered"
\* (types.go:123-125), Close "returns any error encountered": no use of the
\* connection makes the process panic.
NeverPanics == ~panic

\* After Close the goroutines of the connection end: readers and heartbeats.
CloseReleases ==
    (want = "down") ~> (panic \/ (Reading = {} /\ Beating = {}))

\* A lost connection is replaced, or reconnect has used up its attempts.
ReconnectSettles ==
    (rec # "off") ~> (panic \/ (rec = "off" /\ (conn # 0 \/ att = ReconnectMax)))

=============================================================================
