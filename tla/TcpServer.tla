----------------------------- MODULE TcpServer -----------------------------
(***************************************************************************)
(* The TCP server of pkg/network/tcp_server.go with its connections        *)
(* (server side of tcp_con.go and tcp_reader.go).                          *)
(*                                                                         *)
(* Goroutines: the one inside Run (the only one that touches the table     *)
(* s.conns while the server serves), the acceptor, one reader for each     *)
(* connection, the closer that closeConns starts, and goroutines of the    *)
(* application that call Close on a connection they got from a handler.    *)
(*                                                                         *)
(* close() runs once per connection (sync.Once): a second caller waits     *)
(* until the first has finished.  The steps of its body are executed by    *)
(* whoever entered first and can be interleaved with everything else:      *)
(* closed := true, event.OnClose, the non-blocking send to s.outgoing,     *)
(* and conn := nil with the close of the socket.  The flag closed is       *)
(* set exactly when `once` has left "free".                                *)
(*                                                                         *)
(* Handlers are the application's: OnConnect returns or rejects, OnMessage *)
(* may return, panic or close the connection, OnClose returns.  A handler  *)
(* of a connection in Stuck may also never return (a handler that calls    *)
(* Close inside OnClose waits for itself).  OnConnect runs on the          *)
(* goroutine in Run, the others on a reader, a closer or a caller of Close.*)
(***************************************************************************)
EXTENDS Naturals, Sequences, FiniteSets

CONSTANTS
    Conn,               \* connections that peers open
    None,
    OutgoingCap,        \* capacity of s.outgoing (16 in the code)
    IdSpace,            \* identifiers are counted modulo this (2^32 in the code)
    Stuck               \* connections whose handlers may never return

ASSUME ServerConstants ==
    /\ None \notin Conn \cup Nat
    /\ OutgoingCap \in Nat \ {0}
    /\ IdSpace \in Nat \ {0}
    /\ Stuck \subseteq Conn

VARIABLES
    ctx,                \* s.ctx is done
    listening,          \* the listener is open
    apc, offered,       \* the acceptor, and the connection it offers to Run
    acceptErr,          \* an error is in the acceptErr channel (capacity 1)
    rpc, cur,           \* the goroutine in Run, the connection it works on
    late,               \* a wait of shutdown ended with its timeout
    nextID,             \* s.nextID
    conns,              \* s.conns: identifier -> connection, or None
    outgoing,           \* s.outgoing
    cpc, snap, ccur,    \* the closer, the connections it still has to close
    id,                 \* identifier of a connection, None before registerConn
    sock,               \* the socket: "none", "open", "closed"
    once,               \* progress of close()
    skip,               \* skipOutgoing
    reader,             \* the reader goroutine
    dropped             \* connections for which s.outgoing was full (history)

runVars  == <<rpc, cur, late, nextID, conns>>
accVars  == <<listening, apc, offered, acceptErr>>
closerVars == <<cpc, snap, ccur>>
connVars == <<id, sock, once, skip, reader>>
vars == <<ctx, runVars, accVars, closerVars, connVars, outgoing, dropped>>

Id == 0..(IdSpace - 1)
Table == {conns[i] : i \in Id} \ {None}
Queued == {outgoing[i] : i \in DOMAIN outgoing}
ReaderLive(c) == reader[c] \notin {"none", "done"}
IsClosed(c) == once[c] # "free"

Init ==
    /\ ctx = FALSE
    /\ listening = TRUE
    /\ apc = "accept" /\ offered = None
    /\ acceptErr = FALSE
    /\ rpc = "select" /\ cur = None
    /\ late = FALSE
    /\ nextID = 1 % IdSpace
    /\ conns = [i \in Id |-> None]
    /\ outgoing = <<>>
    /\ cpc = "off" /\ snap = {} /\ ccur = None
    /\ id = [c \in Conn |-> None]
    /\ sock = [c \in Conn |-> "none"]
    /\ once = [c \in Conn |-> "free"]
    /\ skip = [c \in Conn |-> FALSE]
    /\ reader = [c \in Conn |-> "none"]
    /\ dropped = {}

----------------------------------------------------------------------------
(* close(abort): the steps of the body of closeOnce.Do.                    *)

\* Entering the body: the flag is set and closeChan closed.
EnterClose(c) == once' = [once EXCEPT ![c] = "onclose"]

\* event.OnClose returns.
OnCloseReturns(c) ==
    /\ once[c] = "onclose"
    /\ once' = [once EXCEPT ![c] = "push"]
    /\ UNCHANGED <<ctx, runVars, accVars, closerVars, id, sock, skip, reader, outgoing, dropped>>

\* A send that forgets that the channel is bounded; one that tests
\* skipOutgoing the wrong way round.
PushOutgoingUnbounded(c) ==
    /\ once[c] = "push"
    /\ once' = [once EXCEPT ![c] = "nil"]
    /\ outgoing' = IF skip[c] THEN outgoing ELSE Append(outgoing, c)
    /\ UNCHANGED <<ctx, runVars, accVars, closerVars, id, sock, skip, reader, dropped>>
PushOutgoingInverted(c) ==
    /\ once[c] = "push"
    /\ once' = [once EXCEPT ![c] = "nil"]
    /\ outgoing' = IF skip[c] /\ Len(outgoing) < OutgoingCap THEN Append(outgoing, c) ELSE outgoing
    /\ UNCHANGED <<ctx, runVars, accVars, closerVars, id, sock, skip, reader, dropped>>

\* The rest of OnClose: Run is told, unless its channel is full.
PushOutgoing(c) ==
    /\ once[c] = "push"
    /\ once' = [once EXCEPT ![c] = "nil"]
    /\ \/ skip[c] /\ UNCHANGED <<outgoing, dropped>>
       \/ /\ ~skip[c] /\ Len(outgoing) < OutgoingCap
          /\ outgoing' = Append(outgoing, c)
          /\ UNCHANGED dropped
       \/ /\ ~skip[c] /\ Len(outgoing) = OutgoingCap
          /\ dropped' = dropped \cup {c}
          /\ UNCHANGED outgoing
    /\ UNCHANGED <<ctx, runVars, accVars, closerVars, id, sock, skip, reader>>

\* conn = nil and the close of the socket (an abort kills both directions
\* and the deadlines first, so that closing it in the background is enough).
CloseSocket(c) ==
    /\ once[c] = "nil"
    /\ once' = [once EXCEPT ![c] = "done"]
    /\ sock' = [sock EXCEPT ![c] = "closed"]
    /\ UNCHANGED <<ctx, runVars, accVars, closerVars, id, skip, reader, outgoing, dropped>>

CloseStep(c) == OnCloseReturns(c) \/ PushOutgoing(c) \/ CloseSocket(c)

\* A goroutine of the application closes a connection a handler gave it.
AppCloses(c) ==
    /\ id[c] # None /\ sock[c] = "open" /\ ~IsClosed(c)
    /\ EnterClose(c)
    /\ UNCHANGED <<ctx, runVars, accVars, closerVars, id, sock, skip, reader, outgoing, dropped>>

----------------------------------------------------------------------------
(* The reader of a connection.                                             *)

Reads(c, to) ==
    /\ reader' = [reader EXCEPT ![c] = to]
    /\ UNCHANGED <<ctx, runVars, accVars, closerVars, id, sock, skip, outgoing, dropped>>

\* The tests before a read: the context, and IsClosed in ReadPacket.
ReaderTop(c) ==
    /\ reader[c] = "top"
    /\ Reads(c, IF ctx \/ IsClosed(c) THEN "exit" ELSE "read")
    /\ UNCHANGED once

\* A packet arrives (a closed connection may still have one in the buffer).
ReaderPacket(c) ==
    /\ reader[c] = "read"
    /\ Reads(c, IF ctx THEN "exit" ELSE "handle")
    /\ UNCHANGED once

\* The peer closes, the connection breaks, or it is closed on this side.
ReaderError(c) ==
    /\ reader[c] = "read"
    /\ Reads(c, "exit")
    /\ UNCHANGED once

\* OnMessage returns; or panics, which the reader recovers.
HandlerReturns(c) ==
    /\ reader[c] = "handle"
    /\ Reads(c, "top")
    /\ UNCHANGED once
HandlerPanics(c) ==
    /\ reader[c] = "handle"
    /\ Reads(c, "exit")
    /\ UNCHANGED once

\* OnMessage calls Close on its own connection and then returns.
HandlerCloses(c) ==
    /\ reader[c] = "handle"
    /\ \/ /\ ~IsClosed(c)
          /\ EnterClose(c)
       \/ IsClosed(c) /\ UNCHANGED once
    /\ Reads(c, "hclose")
HandlerClosed(c) ==
    /\ reader[c] = "hclose"
    /\ once[c] = "done"
    /\ Reads(c, "top")
    /\ UNCHANGED once

\* The deferred function of the loop, which ends with ReaderWG.Done.
ReaderExit(c) ==
    /\ reader[c] = "exit"
    /\ Reads(c, IF IsClosed(c) THEN "done" ELSE "abort")
    /\ UNCHANGED once
ReaderAborts(c) ==
    /\ reader[c] = "abort"
    /\ ~IsClosed(c)
    /\ EnterClose(c)
    /\ Reads(c, "abort")
ReaderAborted(c) ==
    /\ reader[c] = "abort"
    /\ once[c] = "done"
    /\ Reads(c, "done")
    /\ UNCHANGED once

\* What the reader does by itself, whatever the peer does.
ReaderStep(c) ==
    \/ ReaderTop(c) \/ HandlerClosed(c)
    \/ ReaderExit(c) \/ ReaderAborts(c) \/ ReaderAborted(c)

----------------------------------------------------------------------------
(* The acceptor.                                                           *)

\* Accept returns a connection ...
Accept(c) ==
    /\ apc = "accept" /\ listening
    /\ sock[c] = "none"
    /\ sock' = [sock EXCEPT ![c] = "open"]
    /\ apc' = "offer" /\ offered' = c
    /\ UNCHANGED <<ctx, runVars, closerVars, listening, acceptErr, id, once, skip, reader,
                   outgoing, dropped>>

\* ... or an error, for good once the listener is closed.
AcceptFails ==
    /\ apc = "accept"
    /\ apc' = "dead"
    /\ acceptErr' = TRUE
    /\ UNCHANGED <<ctx, runVars, closerVars, listening, offered, connVars, outgoing, dropped>>

\* An acceptor that gives up without closing what it holds.
OfferLeaked ==
    /\ apc = "offer" /\ ctx
    /\ apc' = "dead" /\ offered' = None
    /\ UNCHANGED <<ctx, runVars, closerVars, listening, acceptErr, connVars, outgoing, dropped>>

\* case <-s.ctx.Done() of the acceptor.
OfferCancelled ==
    /\ apc = "offer" /\ ctx
    /\ apc' = "dead" /\ offered' = None
    /\ sock' = [sock EXCEPT ![offered] = "closed"]
    /\ UNCHANGED <<ctx, runVars, closerVars, listening, acceptErr, id, once, skip, reader,
                   outgoing, dropped>>

----------------------------------------------------------------------------
(* Run: the select loop.                                                   *)

\* case conn := <-acceptCh, up to the call of OnConnect.
SelectAccept ==
    /\ rpc = "select" /\ apc = "offer"
    /\ apc' = "accept" /\ offered' = None
    /\ cur' = offered
    /\ nextID' = (nextID + 1) % IdSpace
    /\ id' = [id EXCEPT ![offered] = (nextID + 1) % IdSpace]
    /\ rpc' = "connect"
    /\ UNCHANGED <<ctx, late, conns, listening, acceptErr, closerVars, sock, once, skip, reader,
                   outgoing, dropped>>

\* OnConnect accepts, or rejects and the connection is closed.
ConnectAccepted ==
    /\ rpc = "connect"
    /\ rpc' = "start"
    /\ UNCHANGED <<ctx, cur, late, nextID, conns, accVars, closerVars, connVars, outgoing, dropped>>
ConnectRejected ==
    /\ rpc = "connect"
    /\ rpc' = "select" /\ cur' = None
    /\ sock' = [sock EXCEPT ![cur] = "closed"]
    /\ UNCHANGED <<ctx, late, nextID, conns, accVars, closerVars, id, once, skip, reader,
                   outgoing, dropped>>

\* newReader: an error if the connection is closed already.
StartReader ==
    /\ rpc = "start"
    /\ \/ /\ IsClosed(cur)
          /\ sock' = [sock EXCEPT ![cur] = "closed"]
          /\ rpc' = "select" /\ cur' = None
          /\ UNCHANGED reader
       \/ /\ ~IsClosed(cur)
          /\ reader' = [reader EXCEPT ![cur] = "top"]
          /\ rpc' = "insert" /\ UNCHANGED cur
          /\ UNCHANGED sock
    /\ UNCHANGED <<ctx, late, nextID, conns, accVars, closerVars, id, once, skip,
                   outgoing, dropped>>

\* s.conns[socket.ID()] = socket, with the reader already running.
InsertConn ==
    /\ rpc = "insert"
    /\ conns' = [conns EXCEPT ![id[cur]] = cur]
    /\ rpc' = "select" /\ cur' = None
    /\ UNCHANGED <<ctx, late, nextID, accVars, closerVars, connVars, outgoing, dropped>>

\* case conn := <-s.outgoing, with removeConn.
SelectOutgoing ==
    /\ rpc = "select" /\ outgoing # <<>>
    /\ cur' = Head(outgoing)
    /\ outgoing' = Tail(outgoing)
    /\ conns' = [conns EXCEPT ![id[Head(outgoing)]] = None]
    /\ rpc' = "closeout"
    /\ UNCHANGED <<ctx, late, nextID, accVars, closerVars, connVars, dropped>>

\* conn.Close() waits until the close in progress is over.
CloseOutgoing ==
    /\ rpc = "closeout"
    /\ once[cur] = "done"
    /\ rpc' = "select" /\ cur' = None
    /\ UNCHANGED <<ctx, late, nextID, conns, accVars, closerVars, connVars, outgoing, dropped>>

\* case err := <-acceptErr: Run returns and leaves its connections alone,
\* unless the context is done.
SelectAcceptErr ==
    /\ rpc = "select" /\ acceptErr
    /\ acceptErr' = FALSE
    /\ IF ctx THEN rpc' = "snapshot" /\ listening' = FALSE
              ELSE rpc' = "failed" /\ UNCHANGED listening
    /\ UNCHANGED <<ctx, cur, late, nextID, conns, apc, offered, closerVars, connVars,
                   outgoing, dropped>>

\* case <-s.ctx.Done(): shutdown begins and closes the listener.
SelectDone ==
    /\ rpc = "select" /\ ctx
    /\ rpc' = "snapshot"
    /\ listening' = FALSE
    /\ UNCHANGED <<ctx, cur, late, nextID, conns, apc, offered, acceptErr, closerVars, connVars,
                   outgoing, dropped>>

----------------------------------------------------------------------------
(* Run: shutdown.  shuttingDown is set from here on; nobody reads it.      *)

\* The table is cleared before it is copied.
SnapshotCleared ==
    /\ rpc = "snapshot"
    /\ conns' = [i \in Id |-> None]
    /\ snap' = {} /\ cpc' = "next" /\ rpc' = "closing"
    /\ UNCHANGED <<ctx, cur, late, nextID, accVars, ccur, connVars, outgoing, dropped>>

\* closeConns: the table is copied and cleared, the closer started.
Snapshot ==
    /\ rpc = "snapshot"
    /\ snap' = Table
    /\ conns' = [i \in Id |-> None]
    /\ cpc' = "next"
    /\ rpc' = "closing"
    /\ UNCHANGED <<ctx, cur, late, nextID, accVars, ccur, connVars, outgoing, dropped>>

WaitEnds(from, to, timeout) ==
    /\ rpc = from
    /\ rpc' = to
    /\ late' = (late \/ timeout)
    /\ UNCHANGED <<ctx, cur, nextID, conns, accVars, closerVars, connVars, outgoing, dropped>>

ClosedAll == cpc = "done" /\ WaitEnds("closing", "waiting", FALSE)

\* A closeConns without its timer.
CloseTimeoutMissing == cpc = "done" /\ WaitEnds("closing", "waiting", TRUE)
CloseTimeout == WaitEnds("closing", "waiting", TRUE)

\* waitConns: the WaitGroup counts the readers that have not exited.
ReadersGone == (\A c \in Conn : ~ReaderLive(c)) /\ WaitEnds("waiting", "drain", FALSE)
WaitTimeout == WaitEnds("waiting", "drain", TRUE)

\* acceptErr and s.outgoing are emptied, and Run returns.
Drain ==
    /\ rpc = "drain"
    /\ acceptErr' = FALSE
    /\ conns' = [i \in Id |-> IF i \in {id[c] : c \in Queued} THEN None ELSE conns[i]]
    /\ outgoing' = <<>>
    /\ rpc' = "returned"
    /\ UNCHANGED <<ctx, cur, late, nextID, listening, apc, offered, closerVars, connVars, dropped>>

----------------------------------------------------------------------------
(* The closer goroutine: abortClose(true) on one connection after another. *)

CloserTakes(c) ==
    /\ cpc = "next" /\ c \in snap
    /\ ccur' = c /\ cpc' = "close"
    /\ skip' = [skip EXCEPT ![c] = TRUE]
    /\ UNCHANGED <<ctx, runVars, accVars, snap, id, sock, once, reader, outgoing, dropped>>

CloserEnters ==
    /\ cpc = "close" /\ ~IsClosed(ccur)
    /\ EnterClose(ccur)
    /\ UNCHANGED <<ctx, runVars, accVars, closerVars, id, sock, skip, reader, outgoing, dropped>>

\* A close that returns at once when another goroutine is closing.
CloserDoesNotWait ==
    /\ cpc = "close" /\ IsClosed(ccur)
    /\ snap' = snap \ {ccur} /\ cpc' = "next" /\ ccur' = None
    /\ UNCHANGED <<ctx, runVars, accVars, connVars, outgoing, dropped>>

CloserContinues ==
    /\ cpc = "close" /\ once[ccur] = "done"
    /\ snap' = snap \ {ccur} /\ cpc' = "next" /\ ccur' = None
    /\ UNCHANGED <<ctx, runVars, accVars, connVars, outgoing, dropped>>

CloserEnds ==
    /\ cpc = "next" /\ snap = {}
    /\ cpc' = "done"
    /\ UNCHANGED <<ctx, runVars, accVars, snap, ccur, connVars, outgoing, dropped>>

\* Stop, or the parent context is cancelled.
Cancel ==
    /\ ~ctx
    /\ ctx' = TRUE
    /\ UNCHANGED <<runVars, accVars, closerVars, connVars, outgoing, dropped>>

----------------------------------------------------------------------------
RunStep ==
    \/ SelectAccept \/ ConnectAccepted \/ ConnectRejected \/ StartReader \/ InsertConn
    \/ SelectOutgoing \/ CloseOutgoing \/ SelectAcceptErr \/ SelectDone
    \/ Snapshot \/ ClosedAll \/ CloseTimeout \/ ReadersGone \/ WaitTimeout \/ Drain

CloserStep ==
    CloserEnters \/ CloserContinues \/ CloserEnds \/ \E c \in Conn : CloserTakes(c)

Next ==
    \/ Cancel \/ RunStep \/ CloserStep \/ AcceptFails \/ OfferCancelled
    \/ \E c \in Conn :
        \/ Accept(c) \/ CloseStep(c) \/ AppCloses(c) \/ ReaderStep(c)
        \/ ReaderPacket(c) \/ ReaderError(c) \/ HandlerPanics(c) \/ HandlerCloses(c)
        \/ HandlerReturns(c)

Spec == Init /\ [][Next]_vars

\* Run is inside an OnConnect that may never return (tcp_server.go:220,
\* tcp_con.go:213).
OnConnectHangs == rpc = "connect" /\ cur \in Stuck

\* Goroutines that can go on do: Run, the closer, the acceptor once the
\* context is done, a reader (whose read returns once the socket is closed)
\* and whoever is inside close().  Nothing is assumed of peers, of Cancel,
\* of the application, or of the handlers of connections in Stuck.
Fairness ==
    /\ WF_vars(~OnConnectHangs /\ RunStep) /\ WF_vars(CloserStep) /\ WF_vars(OfferCancelled)
    /\ \A c \in Conn :
        /\ WF_vars(c \notin Stuck /\ OnCloseReturns(c))
        /\ WF_vars(PushOutgoing(c) \/ CloseSocket(c))
        /\ WF_vars(c \notin Stuck /\ HandlerReturns(c))
        /\ WF_vars(ReaderStep(c)) /\ WF_vars(sock[c] = "closed" /\ ReaderError(c))

FairSpec == Spec /\ Fairness

----------------------------------------------------------------------------
(* Properties.                                                             *)

\* Types; the channel s.outgoing is never over its capacity and holds only
\* connections whose close has got past OnClose, so that Run, which closes
\* what it takes from there, never has to wait for a handler.
TypeOK ==
    /\ ctx \in BOOLEAN /\ listening \in BOOLEAN /\ acceptErr \in BOOLEAN /\ late \in BOOLEAN
    /\ apc \in {"accept", "offer", "dead"} /\ offered \in Conn \cup {None}
    /\ rpc \in {"select", "connect", "start", "insert", "closeout", "snapshot", "closing",
                "waiting", "drain", "returned", "failed"}
    /\ cur \in Conn \cup {None}
    /\ nextID \in Id
    /\ conns \in [Id -> Conn \cup {None}]
    /\ Len(outgoing) <= OutgoingCap
    /\ \A c \in Queued : c \in Conn /\ once[c] \in {"nil", "done"}
    /\ cpc \in {"off", "next", "close", "done"} /\ snap \subseteq Conn
    /\ ccur \in Conn \cup {None}
    /\ id \in [Conn -> Id \cup {None}]
    /\ sock \in [Conn -> {"none", "open", "closed"}]
    /\ once \in [Conn -> {"free", "onclose", "push", "nil", "done"}]
    /\ skip \in [Conn -> BOOLEAN]
    /\ reader \in [Conn -> {"none", "top", "read", "handle", "hclose", "exit", "abort", "done"}]
    /\ dropped \subseteq Conn

\* Run never loses an open connection: one whose reader runs and that nobody
\* is closing is in the table, or about to be inserted, or in the list of the
\* closer, so that shutdown can reach it (tcp_server.go:94-96, 171-178,
\* 225-228).
OpenConnTracked ==
    \A c \in Conn :
        ReaderLive(c) /\ ~IsClosed(c) =>
            c \in Table \cup snap \/ (rpc = "insert" /\ cur = c)

\* A closed connection stays in the table only until Run gets to it: it is
\* in the queue, unless the queue was full when it was closed
\* (tcp_con.go:389-394), in which case it stays until shutdown.
LeakOnlyWhenFull ==
    \A c \in Table : once[c] \in {"nil", "done"} => c \in Queued \cup dropped

\* When shutdown returns without a timeout, every reader has exited and every
\* connection that was ever registered is closed, whoever closed it.
CleanShutdown ==
    rpc = "returned" /\ ~late =>
        \A c \in Conn : ~ReaderLive(c) /\ (id[c] # None => sock[c] = "closed")

\* Stop makes Run return, even when OnMessage and OnClose never return: the
\* two waits of shutdown are bounded, and outside of them Run waits for no
\* handler but OnConnect, which it calls itself (tcp_server.go:220): one that
\* never returns is the only thing that keeps Run.
ShutdownReturns == ctx ~> (rpc \in {"returned", "failed"} \/ []OnConnectHangs)

\* After Stop every connection is eventually closed for good, the ones the
\* acceptor still holds included, unless Run had already given up on an
\* Accept error (tcp_server.go:100-107), an OnConnect never returns, which
\* keeps Run from its shutdown, or an OnClose never returns, which keeps the
\* closer from the connections that are left.  "For good", because a closed
\* listener accepts nothing.
EverythingCloses ==
    (ctx /\ rpc # "failed") ~>
        \/ [](OnConnectHangs \/ \E c \in Stuck : once[c] = "onclose")
        \/ ~listening /\ \A c \in Conn : sock[c] # "open"

=============================================================================
