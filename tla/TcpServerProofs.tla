-------------------------- MODULE TcpServerProofs ---------------------------
(***************************************************************************)
(* Proofs about the TCP server, for any number of connections, any         *)
(* capacity of the queue and any handlers.  The one assumption is that the *)
(* 32-bit identifiers do not wrap: with a reused identifier a new          *)
(* connection would overwrite an open one in the table (tcp_server.go:228) *)
(* and shutdown could not reach it.                                        *)
(***************************************************************************)
EXTENDS TcpServer, FiniteSetTheorems, TLAPS

Setup == {"connect", "start", "insert"}
Stopping == {"snapshot", "closing", "waiting", "drain", "returned"}

Registered == {c \in Conn : id[c] # None}

\* c is in the table, under its identifier.
Listed(c) == id[c] # None /\ conns[id[c]] = c

\* Identifiers are given out one after the other, and a connection is in the
\* table under its own.
IdsApart ==
    /\ IsFiniteSet(Registered) /\ nextID = Cardinality(Registered) + 1
    /\ \A c \in Registered : id[c] <= nextID
    /\ \A c, d \in Registered : id[c] = id[d] => c = d
    /\ \A i \in Id : conns[i] # None => id[conns[i]] = i

\* A connection begins with the acceptor; nobody else knows it before it has
\* an identifier.
Fresh ==
    /\ apc = "offer" <=> offered # None
    /\ offered # None => id[offered] = None /\ sock[offered] = "open"
    /\ \A c \in Conn : id[c] = None =>
            once[c] = "free" /\ reader[c] = "none" /\ ~skip[c] /\ c \notin snap /\ cur # c
    /\ \A c \in Conn : id[c] # None => sock[c] # "none"
    /\ \A c \in Queued : id[c] # None

\* Where Run is.
RunAt ==
    /\ rpc \in Setup \cup {"closeout"} <=> cur # None
    /\ rpc \in Setup => ~Listed(cur)
    /\ rpc \in {"connect", "start"} => reader[cur] = "none"
    /\ rpc = "closeout" => once[cur] \in {"nil", "done"}
    /\ cpc # "off" => rpc \in Stopping \ {"snapshot"} /\ \A i \in Id : conns[i] = None
    /\ cpc = "off" => snap = {} /\ rpc \notin Stopping \ {"snapshot"} /\ \A c \in Conn : ~skip[c]
    /\ cpc = "close" <=> ccur # None
    /\ ccur # None => ccur \in snap
    /\ cpc = "done" => snap = {}

\* A registered connection whose socket is not closed is where shutdown finds
\* it, or in the hands of Run.
Reachable ==
    /\ \A c \in Conn : once[c] = "done" => sock[c] = "closed"
    /\ \A c \in Conn : id[c] # None /\ sock[c] # "closed" => Listed(c) \/ c \in snap \/ c = cur

\* An open connection with a reader is tracked.
Tracked ==
    \A c \in Conn : ReaderLive(c) /\ ~IsClosed(c) =>
        Listed(c) \/ c \in snap \/ (rpc = "insert" /\ cur = c)

\* A connection in the table, or about to get there, that is closed is in the
\* queue, or the queue was full.
Reported ==
    \A c \in Conn : Listed(c) \/ (rpc = "insert" /\ cur = c) =>
        (once[c] \in {"nil", "done"} => c \in Queued \cup dropped)

\* What shutdown has waited for.
Waited ==
    /\ rpc \in {"waiting", "drain", "returned"} /\ ~late => cpc = "done" /\ snap = {}
    /\ rpc \in {"drain", "returned"} /\ ~late => \A c \in Conn : ~ReaderLive(c)

ServerInv ==
    /\ TypeOK /\ outgoing \in Seq(Conn)
    /\ IdsApart /\ Fresh /\ RunAt /\ Reachable /\ Tracked /\ Reported /\ Waited

USE ServerConstants

\* The identifiers and the queue stay the same.
LEMMA SameIds == id' = id => Registered' = Registered
BY DEF Registered
LEMMA SameQueue == outgoing' = outgoing => Queued' = Queued
BY DEF Queued

----------------------------------------------------------------------------
(* One lemma for each group of actions.                                    *)

\* A step of the reader of c: it moves, and may enter close().
LEMMA ReaderMoves ==
    ASSUME ServerInv, NEW c \in Conn, ReaderLive(c),
           NEW to \in {"top", "read", "handle", "hclose", "exit", "abort", "done"}, Reads(c, to),
           once' = once \/ (~IsClosed(c) /\ EnterClose(c)),
           to = "done" => IsClosed(c)
    PROVE  ServerInv'
<1> USE DEF ServerInv, ReaderLive, IsClosed
<1>0. Registered' = Registered /\ Queued' = Queued
  BY SameIds, SameQueue DEF Reads
<1>1. TypeOK' /\ outgoing' \in Seq(Conn)
  <2>1. reader' \in [Conn -> {"none", "top", "read", "handle", "hclose", "exit", "abort", "done"}]
    BY DEF TypeOK, Reads
  <2>2. /\ once' \in [Conn -> {"free", "onclose", "push", "nil", "done"}]
        /\ \A d \in Queued : once'[d] \in {"nil", "done"}
    BY DEF TypeOK, EnterClose
  <2> QED
    BY <1>0, <2>1, <2>2, SMT DEF TypeOK, Reads, runVars, accVars, closerVars
<1>2. IdsApart'
  BY <1>0 DEF IdsApart, Reads, runVars
<1>3. Fresh'
  BY <1>0 DEF Fresh, TypeOK, Reads, EnterClose, runVars, accVars, closerVars
<1>4. RunAt'
  BY <1>3 DEF RunAt, Fresh, TypeOK, Reads, EnterClose, runVars, closerVars, Listed
<1>5. Reachable'
  BY DEF Reachable, TypeOK, Reads, EnterClose, runVars, closerVars, Listed
<1>6. Tracked'
  BY DEF Tracked, TypeOK, Reads, EnterClose, runVars, closerVars, Listed
<1>7. Reported'
  BY <1>0 DEF Reported, TypeOK, Reads, EnterClose, runVars, Listed
<1>8. Waited'
  BY DEF Waited, TypeOK, Reads, runVars, closerVars
<1> QED
  BY <1>1, <1>2, <1>3, <1>4, <1>5, <1>6, <1>7, <1>8

\* All steps of a reader are such moves.
LEMMA ReaderKeeps ==
    ASSUME ServerInv, NEW c \in Conn,
           ReaderStep(c) \/ ReaderPacket(c) \/ ReaderError(c)
             \/ HandlerPanics(c) \/ HandlerCloses(c) \/ HandlerReturns(c)
    PROVE  ServerInv'
<1>1. ReaderLive(c)
  BY DEF ReaderLive, ReaderStep, ReaderTop, HandlerClosed, ReaderExit, ReaderAborts, ReaderAborted,
     ReaderPacket, ReaderError, HandlerPanics, HandlerCloses, HandlerReturns
<1>2. PICK to \in {"top", "read", "handle", "hclose", "exit", "abort", "done"} :
        /\ Reads(c, to)
        /\ once' = once \/ (~IsClosed(c) /\ EnterClose(c))
        /\ to = "done" => IsClosed(c)
  BY DEF IsClosed, ReaderStep, ReaderTop, HandlerClosed, ReaderExit, ReaderAborts, ReaderAborted,
     ReaderPacket, ReaderError, HandlerPanics, HandlerCloses, HandlerReturns
<1> QED
  BY <1>1, <1>2, ReaderMoves

\* Somebody else than the reader enters close(), or OnClose returns.
LEMMA CloseMoves ==
    ASSUME ServerInv, NEW c \in Conn, id[c] # None,
           \/ ~IsClosed(c) /\ EnterClose(c)
           \/ once[c] = "onclose" /\ once' = [once EXCEPT ![c] = "push"],
           UNCHANGED <<ctx, runVars, accVars, closerVars, id, sock, skip, reader, outgoing, dropped>>
    PROVE  ServerInv'
<1> USE DEF ServerInv, ReaderLive, IsClosed
<1>0. Registered' = Registered /\ Queued' = Queued
  BY SameIds, SameQueue
<1>1. TypeOK' /\ outgoing' \in Seq(Conn)
  <2>1. /\ once' \in [Conn -> {"free", "onclose", "push", "nil", "done"}]
        /\ \A d \in Queued : once'[d] \in {"nil", "done"}
    BY DEF TypeOK, EnterClose
  <2> QED
    BY <1>0, <2>1, SMT DEF TypeOK, runVars, accVars, closerVars
<1>2. IdsApart'
  BY <1>0 DEF IdsApart, runVars
<1>3. Fresh'
  BY <1>0 DEF Fresh, TypeOK, EnterClose, runVars, accVars, closerVars
<1>4. RunAt'
  BY DEF RunAt, TypeOK, EnterClose, runVars, closerVars, Listed
<1>5. Reachable'
  BY DEF Reachable, TypeOK, EnterClose, runVars, closerVars, Listed
<1>6. Tracked'
  BY DEF Tracked, TypeOK, EnterClose, runVars, closerVars, Listed
<1>7. Reported'
  BY <1>0 DEF Reported, TypeOK, EnterClose, runVars, Listed
<1>8. Waited'
  BY DEF Waited, runVars, closerVars
<1> QED
  BY <1>1, <1>2, <1>3, <1>4, <1>5, <1>6, <1>7, <1>8

\* What is in the queue after a send.
LEMMA QueueAppend ==
    ASSUME NEW c \in Conn, outgoing \in Seq(Conn), outgoing' = Append(outgoing, c)
    PROVE  outgoing' \in Seq(Conn) /\ Queued' = Queued \cup {c}
<1>1. outgoing' \in Seq(Conn) /\ DOMAIN outgoing' = 1..(Len(outgoing) + 1) /\ DOMAIN outgoing = 1..Len(outgoing)
  OBVIOUS
<1>2. \A i \in DOMAIN outgoing : outgoing'[i] = outgoing[i]
  OBVIOUS
<1>3. outgoing'[Len(outgoing) + 1] = c
  OBVIOUS
<1> QED
  BY <1>1, <1>2, <1>3 DEF Queued

\* The send to s.outgoing.
LEMMA PushKeeps ==
    ASSUME ServerInv, NEW c \in Conn, PushOutgoing(c)
    PROVE  ServerInv'
<1> USE DEF ServerInv, ReaderLive, IsClosed
<1>0. Registered' = Registered
  BY SameIds DEF PushOutgoing
<1>1. /\ outgoing' \in Seq(Conn) /\ Len(outgoing') <= OutgoingCap
      /\ \/ skip[c] /\ Queued' = Queued /\ dropped' = dropped
         \/ Queued' = Queued \cup {c} /\ dropped' = dropped
         \/ Queued' = Queued /\ dropped' = dropped \cup {c}
  BY QueueAppend, SameQueue DEF PushOutgoing, TypeOK
<1>2. once[c] = "push" /\ id[c] # None
  BY DEF PushOutgoing, Fresh, TypeOK
<1>3. TypeOK'
  <2>1. /\ once' \in [Conn -> {"free", "onclose", "push", "nil", "done"}]
        /\ \A d \in Queued' : d \in Conn /\ once'[d] \in {"nil", "done"}
    BY <1>1 DEF TypeOK, PushOutgoing
  <2>2. dropped' \subseteq Conn
    BY <1>1 DEF TypeOK
  <2> QED
    BY <1>1, <2>1, <2>2, SMT DEF TypeOK, PushOutgoing, runVars, accVars, closerVars
<1>4. IdsApart'
  BY <1>0 DEF IdsApart, PushOutgoing, runVars
<1>5. Fresh'
  BY <1>1, <1>2 DEF Fresh, TypeOK, PushOutgoing, runVars, accVars, closerVars
<1>6. RunAt'
  BY DEF RunAt, TypeOK, PushOutgoing, runVars, closerVars, Listed
<1>7. Reachable'
  BY DEF Reachable, TypeOK, PushOutgoing, runVars, closerVars, Listed
<1>8. Tracked'
  BY DEF Tracked, TypeOK, PushOutgoing, runVars, closerVars, Listed
<1>9. Reported'
  BY <1>1 DEF Reported, RunAt, Stopping, TypeOK, PushOutgoing, runVars, Listed
<1>10. Waited'
  BY DEF Waited, PushOutgoing, runVars, closerVars
<1> QED
  BY <1>1, <1>3, <1>4, <1>5, <1>6, <1>7, <1>8, <1>9, <1>10

\* The last step of close().
LEMMA CloseSocketKeeps ==
    ASSUME ServerInv, NEW c \in Conn, CloseSocket(c)
    PROVE  ServerInv'
<1> USE DEF ServerInv, ReaderLive, IsClosed, CloseSocket
<1>0. Registered' = Registered /\ Queued' = Queued
  BY SameIds, SameQueue
<1>1. TypeOK' /\ outgoing' \in Seq(Conn)
  <2>1. /\ once' \in [Conn -> {"free", "onclose", "push", "nil", "done"}]
        /\ \A d \in Queued : once'[d] \in {"nil", "done"}
        /\ sock' \in [Conn -> {"none", "open", "closed"}]
    BY DEF TypeOK
  <2> QED
    BY <1>0, <2>1, SMT DEF TypeOK, runVars, accVars, closerVars
<1>2. IdsApart'
  BY <1>0 DEF IdsApart, runVars
<1>3. Fresh'
  BY <1>0 DEF Fresh, TypeOK, runVars, accVars, closerVars
<1>4. RunAt'
  BY DEF RunAt, TypeOK, runVars, closerVars, Listed
<1>5. Reachable'
  BY DEF Reachable, TypeOK, runVars, closerVars, Listed
<1>6. Tracked'
  BY DEF Tracked, TypeOK, runVars, closerVars, Listed
<1>7. Reported'
  BY <1>0 DEF Reported, TypeOK, runVars, Listed
<1>8. Waited'
  BY DEF Waited, runVars, closerVars
<1> QED
  BY <1>1, <1>2, <1>3, <1>4, <1>5, <1>6, <1>7, <1>8

----------------------------------------------------------------------------
(* The acceptor.                                                           *)

LEMMA AcceptKeeps ==
    ASSUME ServerInv, NEW c \in Conn, Accept(c)
    PROVE  ServerInv'
<1> USE DEF ServerInv, ReaderLive, IsClosed, Accept
<1>0. Registered' = Registered /\ Queued' = Queued
  BY SameIds, SameQueue
<1>1. TypeOK' /\ outgoing' \in Seq(Conn)
  <2>1. sock' \in [Conn -> {"none", "open", "closed"}]
    BY DEF TypeOK
  <2> QED
    BY <1>0, <2>1, SMT DEF TypeOK, runVars, closerVars
<1>2. IdsApart'
  BY <1>0 DEF IdsApart, runVars
<1>3. Fresh'
  BY <1>0 DEF Fresh, TypeOK, runVars, closerVars
<1>4. RunAt'
  BY DEF RunAt, TypeOK, runVars, closerVars, Listed
<1>5. Reachable'
  BY DEF Reachable, Fresh, TypeOK, runVars, closerVars, Listed
<1>6. Tracked'
  BY DEF Tracked, TypeOK, runVars, closerVars, Listed
<1>7. Reported'
  BY <1>0 DEF Reported, TypeOK, runVars, Listed
<1>8. Waited'
  BY DEF Waited, runVars, closerVars
<1> QED
  BY <1>1, <1>2, <1>3, <1>4, <1>5, <1>6, <1>7, <1>8

LEMMA OfferCancelledKeeps ==
    ASSUME ServerInv, OfferCancelled
    PROVE  ServerInv'
<1> USE DEF ServerInv, ReaderLive, IsClosed, OfferCancelled
<1>0. Registered' = Registered /\ Queued' = Queued
  BY SameIds, SameQueue
<1>a. offered \in Conn /\ id[offered] = None
  BY DEF TypeOK, Fresh
<1>1. TypeOK' /\ outgoing' \in Seq(Conn)
  <2>1. sock' \in [Conn -> {"none", "open", "closed"}]
    BY <1>a DEF TypeOK
  <2> QED
    BY <1>0, <2>1, SMT DEF TypeOK, runVars, closerVars
<1>2. IdsApart'
  BY <1>0 DEF IdsApart, runVars
<1>3. Fresh'
  BY <1>0, <1>a DEF Fresh, TypeOK, runVars, closerVars
<1>4. RunAt'
  BY DEF RunAt, TypeOK, runVars, closerVars, Listed
<1>5. Reachable'
  BY <1>a DEF Reachable, TypeOK, runVars, closerVars, Listed
<1>6. Tracked'
  BY DEF Tracked, TypeOK, runVars, closerVars, Listed
<1>7. Reported'
  BY <1>0 DEF Reported, TypeOK, runVars, Listed
<1>8. Waited'
  BY DEF Waited, runVars, closerVars
<1> QED
  BY <1>1, <1>2, <1>3, <1>4, <1>5, <1>6, <1>7, <1>8

\* Cancel, and what only moves the acceptor or the closer along.
LEMMA FlagsMove ==
    ASSUME ServerInv, ctx' \in BOOLEAN, listening' \in BOOLEAN, acceptErr' \in BOOLEAN,
           UNCHANGED <<cur, late, nextID, conns, offered, closerVars, connVars, outgoing, dropped>>,
           \/ UNCHANGED <<apc, rpc>>
           \/ apc = "accept" /\ apc' = "dead" /\ rpc' = rpc
           \/ apc' = apc /\ rpc = "connect" /\ rpc' = "start"
           \/ apc' = apc /\ rpc = "select" /\ rpc' \in {"snapshot", "failed"}
    PROVE  ServerInv'
<1> USE DEF ServerInv, ReaderLive, IsClosed, connVars
<1>0. Registered' = Registered /\ Queued' = Queued
  BY SameIds, SameQueue
<1>1. TypeOK' /\ outgoing' \in Seq(Conn)
  BY <1>0, SMT DEF TypeOK, closerVars
<1>2. IdsApart'
  BY <1>0 DEF IdsApart
<1>3. Fresh'
  BY <1>0 DEF Fresh, TypeOK, closerVars
<1>4. RunAt'
  BY DEF RunAt, Setup, Stopping, TypeOK, closerVars, Listed
<1>5. Reachable'
  BY DEF Reachable, TypeOK, closerVars, Listed
<1>6. Tracked'
  BY DEF Tracked, TypeOK, closerVars, Listed
<1>7. Reported'
  BY <1>0 DEF Reported, TypeOK, Listed
<1>8. Waited'
  BY DEF Waited, closerVars
<1> QED
  BY <1>1, <1>2, <1>3, <1>4, <1>5, <1>6, <1>7, <1>8

----------------------------------------------------------------------------
(* Run: the select loop.                                                   *)

\* Run lets go of the connection it works on: it is rejected, its reader could
\* not be started, or the close it waited for is over.
LEMMA RunLetsGo ==
    ASSUME ServerInv, rpc \in {"connect", "start", "closeout"},
           rpc = "closeout" => sock[cur] = "closed",
           rpc' = "select", cur' = None,
           sock' = [sock EXCEPT ![cur] = "closed"],
           UNCHANGED <<ctx, late, nextID, conns, accVars, closerVars, id, once, skip, reader,
                       outgoing, dropped>>
    PROVE  ServerInv'
<1> USE DEF ServerInv, ReaderLive, IsClosed
<1>0. Registered' = Registered /\ Queued' = Queued
  BY SameIds, SameQueue
<1>a. cur \in Conn /\ id[cur] # None
  BY DEF RunAt, Setup, TypeOK, Fresh
<1>1. TypeOK' /\ outgoing' \in Seq(Conn)
  <2>1. sock' \in [Conn -> {"none", "open", "closed"}]
    BY <1>a DEF TypeOK
  <2> QED
    BY <1>0, <2>1, SMT DEF TypeOK, accVars, closerVars
<1>2. IdsApart'
  BY <1>0 DEF IdsApart
<1>3. Fresh'
  BY <1>0, <1>a DEF Fresh, TypeOK, accVars, closerVars
<1>4. RunAt'
  BY DEF RunAt, Setup, Stopping, TypeOK, closerVars, Listed
<1>5. Reachable'
  BY <1>a DEF Reachable, TypeOK, closerVars, Listed
<1>6. Tracked'
  BY DEF Tracked, TypeOK, closerVars, Listed
<1>7. Reported'
  BY <1>0 DEF Reported, TypeOK, Listed
<1>8. Waited'
  BY DEF Waited, closerVars
<1> QED
  BY <1>1, <1>2, <1>3, <1>4, <1>5, <1>6, <1>7, <1>8

\* The reader is started on a connection that is not closed.
LEMMA ReaderStarts ==
    ASSUME ServerInv, rpc = "start", ~IsClosed(cur),
           reader' = [reader EXCEPT ![cur] = "top"], rpc' = "insert",
           UNCHANGED <<ctx, cur, late, nextID, conns, accVars, closerVars, id, sock, once, skip,
                       outgoing, dropped>>
    PROVE  ServerInv'
<1> USE DEF ServerInv, ReaderLive, IsClosed
<1>0. Registered' = Registered /\ Queued' = Queued
  BY SameIds, SameQueue
<1>a. cur \in Conn /\ id[cur] # None
  BY DEF RunAt, Setup, TypeOK, Fresh
<1>1. TypeOK' /\ outgoing' \in Seq(Conn)
  <2>1. reader' \in [Conn -> {"none", "top", "read", "handle", "hclose", "exit", "abort", "done"}]
    BY <1>a DEF TypeOK
  <2> QED
    BY <1>0, <2>1, SMT DEF TypeOK, accVars, closerVars
<1>2. IdsApart'
  BY <1>0 DEF IdsApart
<1>3. Fresh'
  BY <1>0, <1>a DEF Fresh, TypeOK, accVars, closerVars
<1>4. RunAt'
  BY <1>a DEF RunAt, Setup, Stopping, TypeOK, closerVars, Listed
<1>5. Reachable'
  BY <1>a DEF Reachable, TypeOK, closerVars, Listed
<1>6. Tracked'
  BY <1>a DEF Tracked, TypeOK, closerVars, Listed
<1>7. Reported'
  BY <1>0 DEF Reported, TypeOK, Listed
<1>8. Waited'
  BY DEF Waited, closerVars
<1> QED
  BY <1>1, <1>2, <1>3, <1>4, <1>5, <1>6, <1>7, <1>8

LEMMA InsertKeeps ==
    ASSUME ServerInv, InsertConn
    PROVE  ServerInv'
<1> USE DEF ServerInv, ReaderLive, IsClosed, InsertConn, connVars
<1>0. Registered' = Registered /\ Queued' = Queued
  BY SameIds, SameQueue
<1>a. cur \in Conn /\ id[cur] \in Id /\ id[cur] # None /\ cpc = "off"
  BY DEF RunAt, Setup, Stopping, TypeOK, Fresh
<1>b. /\ conns' \in [Id -> Conn \cup {None}]
      /\ \A i \in Id : i # id[cur] => conns'[i] = conns[i]
      /\ conns'[id[cur]] = cur
  BY <1>a DEF TypeOK
<1>c. \A d \in Conn : Listed(d)' <=> (Listed(d) \/ d = cur)
  BY <1>a, <1>b DEF Listed, TypeOK, IdsApart, Registered
<1>1. TypeOK' /\ outgoing' \in Seq(Conn)
  BY <1>0, <1>b, SMT DEF TypeOK, accVars, closerVars
<1>2. IdsApart'
  BY <1>0, <1>a, <1>b DEF IdsApart
<1>3. Fresh'
  BY <1>0, <1>a DEF Fresh, TypeOK, accVars, closerVars
<1>4. RunAt'
  BY <1>a DEF RunAt, Setup, Stopping, TypeOK, closerVars
<1>5. Reachable'
  BY <1>a, <1>c DEF Reachable, TypeOK, closerVars
<1>6. Tracked'
  BY <1>a, <1>c DEF Tracked, TypeOK, closerVars
<1>7. Reported'
  BY <1>0, <1>c DEF Reported, TypeOK
<1>8. Waited'
  BY DEF Waited, closerVars
<1> QED
  BY <1>1, <1>2, <1>3, <1>4, <1>5, <1>6, <1>7, <1>8

\* No identifier is given out twice: the counter does not wrap.
NoWrap == IsFiniteSet(Conn) /\ Cardinality(Conn) + 1 < IdSpace

LEMMA NextIdFresh ==
    ASSUME NoWrap, TypeOK, IdsApart, NEW c \in Conn, id[c] = None
    PROVE  /\ (nextID + 1) % IdSpace = nextID + 1
           /\ nextID + 1 \in Id
           /\ IsFiniteSet(Registered \cup {c})
           /\ nextID + 1 = Cardinality(Registered \cup {c}) + 1
<1>1. IsFiniteSet(Registered \cup {c}) /\ Cardinality(Registered \cup {c}) = Cardinality(Registered) + 1
  BY FS_AddElement DEF IdsApart, Registered
<1>2. Cardinality(Registered \cup {c}) <= Cardinality(Conn)
  BY FS_Subset DEF NoWrap, Registered
<1>3. Cardinality(Registered) \in Nat /\ Cardinality(Conn) \in Nat
  BY FS_CardinalityType DEF NoWrap, IdsApart
<1>4. nextID + 1 \in Nat /\ nextID + 1 < IdSpace
  BY <1>1, <1>2, <1>3 DEF NoWrap, IdsApart
<1> QED
  BY <1>1, <1>3, <1>4 DEF IdsApart, Id

LEMMA SelectAcceptKeeps ==
    ASSUME NoWrap, ServerInv, SelectAccept
    PROVE  ServerInv'
<1> USE DEF ServerInv, ReaderLive, IsClosed, SelectAccept
<1>a. /\ offered \in Conn /\ id[offered] = None /\ sock[offered] = "open"
      /\ cpc = "off" /\ cur = None /\ once[offered] = "free" /\ reader[offered] = "none"
  BY DEF TypeOK, Fresh, RunAt, Setup, Stopping
<1>b. /\ nextID' = nextID + 1 /\ nextID' \in Id
      /\ IsFiniteSet(Registered \cup {offered}) /\ nextID' = Cardinality(Registered \cup {offered}) + 1
  BY <1>a, NextIdFresh
<1>c. /\ id' \in [Conn -> Id \cup {None}]
      /\ id'[offered] = nextID' /\ id'[offered] # None
      /\ \A c \in Conn : c # offered => id'[c] = id[c]
  BY <1>a, <1>b DEF TypeOK, Id
<1>d. Registered' = Registered \cup {offered} /\ Queued' = Queued /\ offered \notin Registered
  BY <1>a, <1>c, SameQueue DEF Registered
<1>e. \A c \in Registered : id[c] \in Nat /\ id[c] <= nextID /\ id[c] # nextID'
  <2> TAKE c \in Registered
  <2>1. id[c] \in Id /\ id[c] <= nextID /\ nextID \in Id
    BY DEF IdsApart, Registered, TypeOK
  <2> QED
    BY <1>b, <2>1 DEF Id
<1>f. \A i \in Id : conns[i] # None => conns[i] \in Registered /\ id[conns[i]] = i
  <2> TAKE i \in Id
  <2> HAVE conns[i] # None
  <2>1. conns[i] \in Conn /\ id[conns[i]] = i
    BY DEF TypeOK, IdsApart
  <2> QED
    BY <2>1 DEF Registered, Id
<1>g. \A c \in Conn : Listed(c)' <=> Listed(c)
  BY <1>a, <1>b, <1>c, <1>e, <1>f, SMTT(60) DEF Listed, Registered
<1>h. ~Listed(offered)
  BY <1>a DEF Listed
<1>1. TypeOK' /\ outgoing' \in Seq(Conn)
  BY <1>a, <1>b, <1>c, <1>d, SMT DEF TypeOK, closerVars
<1>2. IdsApart'
  <2>1. \A c \in Registered' : id'[c] <= nextID'
    <3> TAKE c \in Registered'
    <3>1. CASE c = offered
      BY <1>b, <1>c, <3>1 DEF Id
    <3>2. CASE c \in Registered
      <4>1. id'[c] = id[c] /\ nextID \in Nat
        BY <1>c, <1>d, <3>2 DEF Registered, TypeOK, Id
      <4> QED
        BY <1>b, <1>e, <3>2, <4>1
    <3> QED
      BY <1>d, <3>1, <3>2
  <2>2. \A c, d \in Registered' : id'[c] = id'[d] => c = d
    BY <1>c, <1>d, <1>e DEF IdsApart, Registered
  <2>3. \A i \in Id : conns'[i] # None => id'[conns'[i]] = i
    BY <1>a, <1>c, <1>d, <1>f DEF Registered
  <2> QED
    BY <1>b, <1>d, <2>1, <2>2, <2>3 DEF IdsApart
<1>3. Fresh'
  BY <1>a, <1>c, <1>d DEF Fresh, TypeOK, closerVars
<1>4. RunAt'
  BY <1>a, <1>g, <1>h DEF RunAt, Setup, Stopping, TypeOK, closerVars
<1>5. Reachable'
  BY <1>a, <1>c, <1>g DEF Reachable, TypeOK, closerVars
<1>6. Tracked'
  BY <1>a, <1>c, <1>g DEF Tracked, TypeOK, closerVars
<1>7. Reported'
  BY <1>d, <1>g DEF Reported, TypeOK
<1>8. Waited'
  BY DEF Waited, closerVars
<1> QED
  BY <1>1, <1>2, <1>3, <1>4, <1>5, <1>6, <1>7, <1>8

\* What is in the queue after a receive.
LEMMA QueueTail ==
    ASSUME outgoing \in Seq(Conn), outgoing # <<>>, outgoing' = Tail(outgoing)
    PROVE  /\ outgoing' \in Seq(Conn) /\ Len(outgoing') < Len(outgoing)
           /\ Head(outgoing) \in Queued
           /\ Queued' \subseteq Queued /\ Queued \subseteq Queued' \cup {Head(outgoing)}
<1>1. /\ outgoing' \in Seq(Conn) /\ Len(outgoing) \in Nat /\ Len(outgoing) # 0
      /\ Len(outgoing') = Len(outgoing) - 1
      /\ DOMAIN outgoing = 1..Len(outgoing) /\ DOMAIN outgoing' = 1..Len(outgoing')
      /\ Head(outgoing) = outgoing[1]
  OBVIOUS
<1>2. \A i \in DOMAIN outgoing' : i + 1 \in DOMAIN outgoing /\ outgoing'[i] = outgoing[i + 1]
  BY <1>1
<1>3. \A i \in DOMAIN outgoing : i = 1 \/ (i - 1 \in DOMAIN outgoing' /\ outgoing[i] = outgoing'[i - 1])
  BY <1>1
<1> QED
  BY <1>1, <1>2, <1>3, SMTT(60) DEF Queued

LEMMA SelectOutgoingKeeps ==
    ASSUME ServerInv, SelectOutgoing
    PROVE  ServerInv'
<1> USE DEF ServerInv, ReaderLive, IsClosed, SelectOutgoing, connVars
<1> DEFINE h == Head(outgoing)
<1>0. Registered' = Registered
  BY SameIds
<1>q. /\ outgoing' \in Seq(Conn) /\ Len(outgoing') < Len(outgoing) /\ h \in Queued
      /\ Queued' \subseteq Queued /\ Queued \subseteq Queued' \cup {h}
  BY QueueTail
<1>a. /\ h \in Conn /\ once[h] \in {"nil", "done"} /\ id[h] \in Id /\ id[h] # None
      /\ cpc = "off" /\ cur = None
  BY <1>q DEF TypeOK, Fresh, RunAt, Setup, Stopping
<1> HIDE DEF h
<1>b. /\ conns' \in [Id -> Conn \cup {None}] /\ conns'[id[h]] = None
      /\ \A i \in Id : i # id[h] => conns'[i] = conns[i]
  BY <1>a DEF TypeOK, h
<1>c. \A c \in Conn : Listed(c)' <=> (Listed(c) /\ c # h)
  <2>1. \A c \in Conn : id[c] # None /\ id[c] = id[h] => c = h
    BY <1>a DEF IdsApart, Registered
  <2>2. \A c \in Conn : id[c] # None => id[c] \in Id
    BY DEF TypeOK
  <2> QED
    BY <1>a, <1>b, <2>1, <2>2 DEF Listed
<1>1. TypeOK'
  <2>1. Len(outgoing') <= OutgoingCap
    BY <1>q DEF TypeOK
  <2>2. \A d \in Queued' : d \in Conn /\ once[d] \in {"nil", "done"}
    BY <1>q DEF TypeOK
  <2> QED
    BY <2>1, <2>2, <1>a, <1>b, SMT DEF TypeOK, accVars, closerVars, h
<1>2. IdsApart'
  BY <1>0, <1>b DEF IdsApart
<1>3. Fresh'
  BY <1>q, <1>a DEF Fresh, TypeOK, accVars, closerVars, h
<1>4. RunAt'
  BY <1>a DEF RunAt, Setup, Stopping, TypeOK, closerVars, h
<1>5. Reachable'
  BY <1>a, <1>c DEF Reachable, TypeOK, closerVars, h
<1>6. Tracked'
  BY <1>a, <1>c DEF Tracked, TypeOK, closerVars
<1>7. Reported'
  BY <1>q, <1>c DEF Reported, TypeOK
<1>8. Waited'
  BY DEF Waited, closerVars
<1> QED
  BY <1>q, <1>1, <1>2, <1>3, <1>4, <1>5, <1>6, <1>7, <1>8

\* All steps of the select loop.
LEMMA SelectKeeps ==
    ASSUME NoWrap, ServerInv,
           \/ SelectAccept \/ ConnectAccepted \/ ConnectRejected \/ StartReader \/ InsertConn
           \/ SelectOutgoing \/ CloseOutgoing \/ SelectAcceptErr \/ SelectDone
    PROVE  ServerInv'
<1>1. CASE SelectAccept
  BY <1>1, SelectAcceptKeeps
<1>2. CASE ConnectAccepted
  BY <1>2, FlagsMove, SMT DEF ConnectAccepted, accVars, ServerInv, TypeOK
<1>3. CASE ConnectRejected
  BY <1>3, RunLetsGo DEF ConnectRejected
<1>4. CASE StartReader
  BY <1>4, RunLetsGo, ReaderStarts DEF StartReader
<1>5. CASE InsertConn
  BY <1>5, InsertKeeps
<1>6. CASE SelectOutgoing
  BY <1>6, SelectOutgoingKeeps
<1>7. CASE CloseOutgoing
  <2>1. cur \in Conn /\ sock[cur] = "closed" /\ sock \in [Conn -> {"none", "open", "closed"}]
    BY <1>7 DEF CloseOutgoing, ServerInv, RunAt, TypeOK, Reachable
  <2>2. sock' = [sock EXCEPT ![cur] = "closed"]
    BY <1>7, <2>1 DEF CloseOutgoing, connVars
  <2> QED
    BY <1>7, <2>1, <2>2, RunLetsGo DEF CloseOutgoing, connVars
<1>8. CASE SelectAcceptErr
  <2>1. ctx' \in BOOLEAN /\ listening' \in BOOLEAN /\ acceptErr' \in BOOLEAN /\ rpc' \in {"snapshot", "failed"}
    BY <1>8 DEF SelectAcceptErr, ServerInv, TypeOK
  <2> QED
    BY <1>8, <2>1, FlagsMove DEF SelectAcceptErr
<1>9. CASE SelectDone
  <2>1. ctx' \in BOOLEAN /\ listening' \in BOOLEAN /\ acceptErr' \in BOOLEAN
    BY <1>9 DEF SelectDone, ServerInv, TypeOK
  <2> QED
    BY <1>9, <2>1, FlagsMove DEF SelectDone
<1> QED
  BY <1>1, <1>2, <1>3, <1>4, <1>5, <1>6, <1>7, <1>8, <1>9

----------------------------------------------------------------------------
(* Run: shutdown, and the closer.                                          *)

LEMMA TableIsListed ==
    ASSUME TypeOK, IdsApart
    PROVE  Table = {c \in Conn : Listed(c)}
<1>1. \A i \in Id : conns[i] # None => conns[i] \in Conn /\ Listed(conns[i])
  <2> TAKE i \in Id
  <2> HAVE conns[i] # None
  <2>1. conns[i] \in Conn /\ id[conns[i]] = i /\ i # None
    BY DEF TypeOK, IdsApart, Id
  <2> QED
    BY <2>1 DEF Listed
<1>2. \A c \in Conn : Listed(c) => id[c] \in Id /\ conns[id[c]] = c /\ c # None
  BY DEF Listed, TypeOK
<1> QED
  BY <1>1, <1>2 DEF Table

LEMMA SnapshotKeeps ==
    ASSUME ServerInv, Snapshot
    PROVE  ServerInv'
<1> USE DEF ServerInv, ReaderLive, IsClosed, Snapshot, connVars
<1>0. Registered' = Registered /\ Queued' = Queued
  BY SameIds, SameQueue
<1>a. cpc = "off" /\ cur = None /\ ccur = None /\ snap = {} /\ ~(rpc = "insert")
  BY DEF RunAt, Setup, Stopping
<1>b. snap' = {c \in Conn : Listed(c)} /\ snap' \subseteq Conn
  BY TableIsListed
<1>c. conns' \in [Id -> Conn \cup {None}] /\ \A i \in Id : conns'[i] = None
  OBVIOUS
<1>d. \A c \in Conn : ~Listed(c)'
  BY <1>c DEF Listed, TypeOK
<1>e. \A c \in Conn : Listed(c) => id[c] # None
  BY DEF Listed
<1>1. TypeOK' /\ outgoing' \in Seq(Conn)
  BY <1>0, <1>b, <1>c, SMT DEF TypeOK, accVars
<1>2. IdsApart'
  BY <1>0, <1>c DEF IdsApart
<1>3. Fresh'
  BY <1>0, <1>b, <1>e DEF Fresh, TypeOK, accVars
<1>4. RunAt'
  BY <1>a, <1>c DEF RunAt, Setup, Stopping, TypeOK
<1>5. Reachable'
  BY <1>a, <1>b DEF Reachable, TypeOK
<1>6. Tracked'
  BY <1>a, <1>b DEF Tracked, TypeOK
<1>7. Reported'
  BY <1>d DEF Reported
<1>8. Waited'
  BY DEF Waited
<1> QED
  BY <1>1, <1>2, <1>3, <1>4, <1>5, <1>6, <1>7, <1>8

\* A wait of shutdown ends, because what it waits for has happened or because
\* of its timer.
LEMMA WaitKeeps ==
    ASSUME ServerInv, ClosedAll \/ CloseTimeout \/ ReadersGone \/ WaitTimeout
    PROVE  ServerInv'
<1> USE DEF ServerInv, ReaderLive, IsClosed, WaitEnds, connVars,
        ClosedAll, CloseTimeout, ReadersGone, WaitTimeout
<1>0. Registered' = Registered /\ Queued' = Queued
  BY SameIds, SameQueue
<1>a. /\ rpc \in {"closing", "waiting"} /\ rpc' \in {"waiting", "drain"}
      /\ cpc # "off" /\ cur = None
  BY DEF RunAt, Setup, Stopping
<1>1. TypeOK' /\ outgoing' \in Seq(Conn)
  <2>1. late' \in BOOLEAN
    BY DEF TypeOK
  <2> QED
    BY <1>0, <1>a, <2>1, SMT DEF TypeOK, accVars, closerVars
<1>2. IdsApart'
  BY <1>0 DEF IdsApart
<1>3. Fresh'
  BY <1>0 DEF Fresh, TypeOK, accVars, closerVars
<1>4. RunAt'
  BY <1>a DEF RunAt, Setup, Stopping, TypeOK, closerVars, Listed
<1>5. Reachable'
  BY DEF Reachable, TypeOK, closerVars, Listed
<1>6. Tracked'
  BY <1>a DEF Tracked, TypeOK, closerVars, Listed
<1>7. Reported'
  BY <1>0, <1>a DEF Reported, TypeOK, Listed
<1>8. Waited'
  <2>1. cpc = "done" => snap = {}
    BY DEF RunAt
  <2> QED
    BY <1>a, <2>1 DEF Waited, TypeOK, closerVars
<1> QED
  BY <1>1, <1>2, <1>3, <1>4, <1>5, <1>6, <1>7, <1>8

LEMMA DrainKeeps ==
    ASSUME ServerInv, Drain
    PROVE  ServerInv'
<1> USE DEF ServerInv, ReaderLive, IsClosed, Drain, connVars
<1>0. Registered' = Registered /\ Queued' = {} /\ outgoing' \in Seq(Conn) /\ Len(outgoing') = 0
  BY SameIds DEF Queued
<1>a. cpc # "off" /\ cur = None /\ \A i \in Id : conns[i] = None
  BY DEF RunAt, Setup, Stopping
<1>c. conns' \in [Id -> Conn \cup {None}] /\ \A i \in Id : conns'[i] = None
  BY <1>a
<1>d. \A c \in Conn : ~Listed(c) /\ ~Listed(c)'
  BY <1>a, <1>c DEF Listed, TypeOK
<1>1. TypeOK'
  <2>0. acceptErr' \in BOOLEAN
    OBVIOUS
  <2>1. Len(outgoing') <= OutgoingCap /\ \A c \in Queued' : c \in Conn /\ once'[c] \in {"nil", "done"}
    BY <1>0
  <2> HIDE DEF Drain
  <2>2. UNCHANGED <<ctx, cur, late, nextID, listening, apc, offered, closerVars, connVars, dropped>>
    BY DEF Drain
  <2>3. rpc' = "returned"
    BY DEF Drain
  <2> QED
    BY <1>c, <2>0, <2>1, <2>2, <2>3, SMT DEF TypeOK, closerVars
<1>2. IdsApart'
  BY <1>0, <1>c DEF IdsApart
<1>3. Fresh'
  BY <1>0 DEF Fresh, TypeOK, closerVars
<1>4. RunAt'
  BY <1>a, <1>c DEF RunAt, Setup, Stopping, TypeOK, closerVars
<1>5. Reachable'
  BY <1>d DEF Reachable, TypeOK, closerVars
<1>6. Tracked'
  BY <1>d DEF Tracked, TypeOK, closerVars
<1>7. Reported'
  BY <1>d DEF Reported
<1>8. Waited'
  BY DEF Waited, closerVars
<1> QED
  BY <1>0, <1>1, <1>2, <1>3, <1>4, <1>5, <1>6, <1>7, <1>8

\* The closer takes a connection, finds it closed, or has closed them all.
LEMMA CloserKeeps ==
    ASSUME ServerInv, CloserContinues \/ CloserEnds \/ \E c \in Conn : CloserTakes(c)
    PROVE  ServerInv'
<1> USE DEF ServerInv, ReaderLive, IsClosed, CloserContinues, CloserEnds, CloserTakes, connVars
<1>0. Registered' = Registered /\ Queued' = Queued
  BY SameIds, SameQueue
<1>a. cpc # "off" /\ cpc' # "off" /\ snap' \subseteq snap
  OBVIOUS
<1>b. /\ skip' \in [Conn -> BOOLEAN]
      /\ \A c \in Conn : skip'[c] => skip[c] \/ c \in snap
  BY DEF TypeOK
<1>c. \A c \in Conn : Listed(c)' <=> Listed(c)
  BY DEF Listed, runVars
<1>d. \A c \in snap : c \in snap' \/ (sock[c] = "closed" /\ IsClosed(c))
  <2>1. CASE CloserContinues
    <3>1. ccur \in Conn /\ once[ccur] = "done" /\ sock[ccur] = "closed"
      BY <2>1 DEF Reachable, RunAt, TypeOK
    <3> QED
      BY <2>1, <3>1
  <2>2. CASE CloserEnds \/ \E c \in Conn : CloserTakes(c)
    <3>1. snap' = snap
      BY <2>2
    <3> QED
      BY <3>1
  <2> QED
    BY <2>1, <2>2
<1>1. TypeOK' /\ outgoing' \in Seq(Conn)
  BY <1>0, <1>a, <1>b, SMT DEF TypeOK, runVars, accVars
<1>2. IdsApart'
  BY <1>0 DEF IdsApart, runVars
<1>3. Fresh'
  BY <1>0, <1>a, <1>b DEF Fresh, TypeOK, runVars, accVars
<1>4. RunAt'
  <2>1. /\ cpc' = "close" <=> ccur' # None
        /\ ccur' # None => ccur' \in snap'
    BY DEF RunAt, TypeOK
  <2> QED
    BY <1>a, <1>c, <2>1 DEF RunAt, Setup, Stopping, TypeOK, runVars
<1>5. Reachable'
  BY <1>c, <1>d DEF Reachable, TypeOK, runVars
<1>6. Tracked'
  BY <1>c, <1>d DEF Tracked, TypeOK, runVars
<1>7. Reported'
  BY <1>0, <1>c DEF Reported, TypeOK, runVars
<1>8. Waited'
  BY DEF Waited, runVars
<1> QED
  BY <1>1, <1>2, <1>3, <1>4, <1>5, <1>6, <1>7, <1>8

----------------------------------------------------------------------------
(* The theorems.                                                           *)

LEMMA InitHolds == NoWrap /\ Init => ServerInv
<1> SUFFICES ASSUME NoWrap, Init PROVE ServerInv
  OBVIOUS
<1> USE DEF Init, ReaderLive, IsClosed
<1>1. Queued = {} /\ outgoing \in Seq(Conn) /\ Len(outgoing) = 0
  BY DEF Queued
<1>2. Registered = {} /\ IsFiniteSet(Registered) /\ Cardinality(Registered) = 0
  BY FS_EmptySet DEF Registered
<1>3. nextID = 1 /\ nextID \in Id
  BY FS_CardinalityType DEF NoWrap, Id
<1>4. TypeOK
  <2>1. Len(outgoing) <= OutgoingCap
    BY <1>1
  <2>2. /\ conns \in [Id -> Conn \cup {None}]
        /\ id \in [Conn -> Id \cup {None}]
        /\ sock \in [Conn -> {"none", "open", "closed"}]
        /\ once \in [Conn -> {"free", "onclose", "push", "nil", "done"}]
        /\ skip \in [Conn -> BOOLEAN]
        /\ reader \in [Conn -> {"none", "top", "read", "handle", "hclose", "exit", "abort", "done"}]
    OBVIOUS
  <2>3. ctx \in BOOLEAN /\ listening \in BOOLEAN /\ acceptErr \in BOOLEAN /\ late \in BOOLEAN
    OBVIOUS
  <2> QED
    BY <1>1, <1>3, <2>1, <2>2, <2>3 DEF TypeOK
<1>5. IdsApart
  BY <1>2, <1>3 DEF IdsApart
<1>6. Fresh /\ Reachable /\ Tracked /\ Reported /\ Waited
  BY <1>1 DEF Fresh, Reachable, Tracked, Reported, Waited, Listed
<1>7. RunAt
  BY DEF RunAt, Setup, Stopping
<1> QED
  BY <1>1, <1>4, <1>5, <1>6, <1>7 DEF ServerInv

LEMMA StepKeeps == NoWrap /\ ServerInv /\ [Next]_vars => ServerInv'
<1> SUFFICES ASSUME NoWrap, ServerInv, [Next]_vars PROVE ServerInv'
  OBVIOUS
<1>1. CASE Cancel
  BY <1>1, FlagsMove, SMT DEF Cancel, runVars, accVars, ServerInv, TypeOK
<1>2. CASE RunStep
  BY <1>2, SelectKeeps, SnapshotKeeps, WaitKeeps, DrainKeeps DEF RunStep
<1>3. CASE CloserStep
  <2>1. CASE CloserEnters
    <3>1. ccur \in Conn /\ id[ccur] # None
      BY <2>1 DEF CloserEnters, ServerInv, RunAt, Fresh, TypeOK
    <3> QED
      BY <2>1, <3>1, CloseMoves DEF CloserEnters
  <2> QED
    BY <1>3, <2>1, CloserKeeps DEF CloserStep
<1>4. CASE AcceptFails
  BY <1>4, FlagsMove, SMT DEF AcceptFails, runVars, ServerInv, TypeOK
<1>5. CASE OfferCancelled
  BY <1>5, OfferCancelledKeeps
<1>6. ASSUME NEW c \in Conn, CloseStep(c) \/ AppCloses(c) PROVE ServerInv'
  <2>1. CASE OnCloseReturns(c)
    <3>1. id[c] # None
      BY <2>1 DEF OnCloseReturns, ServerInv, Fresh
    <3> QED
      BY <2>1, <3>1, CloseMoves DEF OnCloseReturns
  <2>2. CASE AppCloses(c)
    BY <2>2, CloseMoves DEF AppCloses
  <2> QED
    BY <1>6, <2>1, <2>2, PushKeeps, CloseSocketKeeps DEF CloseStep
<1>7. CASE UNCHANGED vars
  BY <1>7, FlagsMove, SMT DEF vars, runVars, accVars, ServerInv, TypeOK
<1> QED
  BY <1>1, <1>2, <1>3, <1>4, <1>5, <1>6, <1>7, AcceptKeeps, ReaderKeeps DEF Next

\* What the server keeps true, in every state it reaches.
LEMMA ServerInvAlways == NoWrap => (Spec => []ServerInv)
<1> SUFFICES ASSUME NoWrap PROVE Spec => []ServerInv
  OBVIOUS
<1>1. Init => ServerInv
  BY InitHolds
<1>2. ServerInv /\ [Next]_vars => ServerInv'
  BY StepKeeps
<1> QED
  BY <1>1, <1>2, PTL DEF Spec

\* The variables keep their types; s.outgoing stays within its capacity and
\* holds only connections whose OnClose has returned, so that the goroutine in
\* Run, which closes what it takes from there, waits for no handler
\* (tcp_server.go:97-99, tcp_con.go:389-394).
THEOREM ServerTypeCorrect == NoWrap => (Spec => []TypeOK)
<1>1. ServerInv => TypeOK
  BY DEF ServerInv
<1> QED
  BY <1>1, ServerInvAlways, PTL

\* An open connection with a running reader is always in the table, about to
\* be inserted, or in the list of the closer, whatever is accepted, closed
\* and read concurrently (tcp_server.go:94-96, 171-178, 225-228).
THEOREM OpenConnTrackedAlways == NoWrap => (Spec => []OpenConnTracked)
<1>1. ServerInv => OpenConnTracked
  BY TableIsListed DEF ServerInv, Tracked, OpenConnTracked
<1> QED
  BY <1>1, ServerInvAlways, PTL

\* A connection that is closed and still in the table is in s.outgoing, or
\* s.outgoing was full when it was closed (tcp_con.go:389-394).
THEOREM LeakOnlyWhenFullAlways == NoWrap => (Spec => []LeakOnlyWhenFull)
<1>1. ServerInv => LeakOnlyWhenFull
  BY TableIsListed DEF ServerInv, Reported, LeakOnlyWhenFull
<1> QED
  BY <1>1, ServerInvAlways, PTL

\* A shutdown that returns without a timeout leaves no reader behind and no
\* registered connection open (tcp_server.go:150-223).
THEOREM CleanShutdownAlways == NoWrap => (Spec => []CleanShutdown)
<1>1. ServerInv => CleanShutdown
  <2> SUFFICES ASSUME ServerInv, rpc = "returned", ~late, NEW c \in Conn
               PROVE  ~ReaderLive(c) /\ (id[c] # None => sock[c] = "closed")
    BY DEF CleanShutdown
  <2>1. ~ReaderLive(c) /\ snap = {} /\ cpc = "done"
    BY DEF ServerInv, Waited
  <2>2. cur = None /\ ~Listed(c)
    BY <2>1 DEF ServerInv, RunAt, Setup, Listed, TypeOK
  <2> QED
    BY <2>1, <2>2 DEF ServerInv, Reachable
<1> QED
  BY <1>1, ServerInvAlways, PTL
=============================================================================
