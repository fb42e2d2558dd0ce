-------------------------- MODULE ClientConnProofs --------------------------
(***************************************************************************)
(* Proofs about the client connection, for any number of failures, of      *)
(* attempts to reconnect, of calls of Close and of Write: one Connect, and *)
(* Close where the code supports it (after Connect, on a client that does  *)
(* not reconnect; the other calls are the subject of the runs that end in  *)
(* a violation).                                                           *)
(***************************************************************************)
EXTENDS ClientConn, TLAPS

\* The use of the connection these proofs are about.
OneConnect == MaxConnects = 1 /\ AnyClose = FALSE

LiveReader(g) == reader[g] \in {"read", "exit", "abort", "closing", "blocked"}

\* Before Connect, and while it runs: nothing else has begun.
Untouched ==
    /\ closed = FALSE /\ once = "free" /\ chan = 0 /\ chClosed = {}
    /\ body = "none" /\ want = "none" /\ rec = "off"
    /\ \A g \in Gen : reader[g] = "none"
Connecting ==
    /\ connects \in {0, 1}
    /\ connects = 0 => Untouched /\ conn = 0 /\ dials = 0 /\ open = {} /\ app = "idle"
    /\ app = "init" => Untouched /\ conn = 1 /\ dials = 1

\* The one open socket is the current one, or the one reconnect dialled last.
Sockets ==
    /\ open = IF rec = "conn" THEN {fresh} ELSE IF conn = 0 THEN {} ELSE {conn}
    /\ rec \in {"sleep", "conn"} => conn = 0
    /\ rec \in {"once", "chan", "init"} => conn = fresh
    /\ rec \in {"conn", "once", "chan", "init"} => fresh = dials /\ fresh # 0 /\ fresh \notin chClosed

\* The body of close() and those who wait for it.
Closing ==
    /\ body = "onclose" <=> once = "busy"
    /\ body = "onclose" => conn # 0 /\ closed /\ rec = "off" /\ want = "up"
    /\ body = "onclose" /\ auto => abort /\ reader[conn] = "closing"
    /\ app \in {"closing", "blocked"} => body = "onclose" /\ ~auto
    /\ \A g \in Gen : reader[g] \in {"closing", "blocked"} => body = "onclose"

\* While reconnect runs it is alone.
Alone ==
    rec # "off" =>
        /\ auto /\ want = "up" /\ app = "idle" /\ body = "none" /\ att < ReconnectMax
        /\ \A g \in Gen : ~LiveReader(g)
        /\ closed <=> rec \in {"sleep", "conn"}
        /\ rec \in {"chan", "init"} => once = "free"
        /\ rec = "init" => chan = fresh

\* A connection that is up.
Up ==
    conn # 0 /\ rec = "off" /\ body = "none" /\ app # "init" =>
        /\ once = "free" /\ ~closed /\ want = "up"
        /\ chan = conn /\ chan \notin chClosed
        /\ reader[conn] \in {"read", "exit", "abort"}

\* A running reader reads the current socket, or has lost it to a Close.
Readers ==
    \A g \in Gen : LiveReader(g) =>
        \/ g = conn
        \/ conn = 0 /\ closed /\ once = "done" /\ ~auto

\* What a Close that has returned left behind.
Closed ==
    want = "down" => conn = 0 /\ once = "done" /\ app = "idle" /\ ~auto

Kept == Connecting /\ Sockets /\ Closing /\ Alone /\ Up /\ Readers /\ Closed
ClientInv == TypeOK /\ (~panic => Kept)

USE ClientConstants

LEMMA Dials == MaxDials \in Nat
BY DEF MaxDials

----------------------------------------------------------------------------
(* One lemma for each group of actions.                                    *)

\* Steps that leave the fields of the connection and its reader alone: Write,
\* the heartbeat, and the failures that a reader has not seen yet.
LEMMA QuietKeeps ==
    ASSUME ClientInv, ~panic,
           WriteChecks \/ WriteUses \/ \E g \in Gen : HbStep(g)
    PROVE  TypeOK' /\ Kept'
<1> USE DEF ClientInv, Kept, LiveReader, WriteChecks, WriteUses, HbStep, HeartbeatSelects,
        HeartbeatStops, HeartbeatTicks, HeartbeatWrites, HeartbeatStep
<1>a. /\ UNCHANGED <<fields, open, dials, bodyVars, appVars, recVars, reader, connects>>
  BY DEF counters
<1>1. TypeOK'
  <2>1. hb' \in [Gen -> {"none", "loop", "select", "write", "off"}]
    BY DEF TypeOK, hbVars
  <2>2. hbChan' \in [Gen -> 0..dials]
    BY DEF TypeOK, hbVars
  <2>3. writer' \in {"idle", "write"} /\ panic' \in BOOLEAN
    BY DEF TypeOK
  <2>4. Reading' = Reading
    BY <1>a DEF Reading
  <2> QED
    BY <1>a, <2>1, <2>2, <2>3, <2>4, SMT DEF TypeOK, fields, bodyVars, appVars, recVars
<1> HIDE DEF WriteChecks, WriteUses, HbStep
<1>2. Connecting'
  BY <1>a DEF Connecting, Untouched, fields, bodyVars, appVars, recVars
<1>3. Sockets'
  BY <1>a DEF Sockets, fields, bodyVars, appVars, recVars
<1>4. Closing'
  BY <1>a DEF Closing, fields, bodyVars, appVars, recVars
<1>5. Alone'
  BY <1>a DEF Alone, fields, bodyVars, appVars, recVars
<1>6. Up'
  BY <1>a DEF Up, fields, bodyVars, appVars, recVars
<1>7. Readers'
  BY <1>a DEF Readers, fields, bodyVars, appVars, recVars
<1>8. Closed'
  BY <1>a DEF Closed, fields, bodyVars, appVars, recVars
<1> QED
  BY <1>1, <1>2, <1>3, <1>4, <1>5, <1>6, <1>7, <1>8

\* Connect up to initIO.
LEMMA DialKeeps ==
    ASSUME ClientInv, ~panic, OneConnect, AppDials
    PROVE  TypeOK' /\ Kept'
<1> USE DEF ClientInv, Kept, LiveReader, AppDials
<1>a. connects = 0
  BY DEF OneConnect, Connecting
<1>b. /\ Untouched /\ conn = 0 /\ dials = 0 /\ open = {} /\ app = "idle" /\ rec = "off"
  BY <1>a DEF Connecting, Untouched
<1>c. dials' = 1 /\ conn' = 1 /\ open' = {1} /\ connects' = 1 /\ 1 <= MaxDials
  BY <1>a, <1>b, Dials
<1>1. TypeOK'
  <2>1. Reading' = {}
    BY <1>b DEF Reading, Untouched
  <2>2. hbChan' \in [Gen -> 0..dials']
    BY <1>b, <1>c DEF TypeOK, hbVars
  <2>0. closed' \in BOOLEAN
    OBVIOUS
  <2>3. fresh' \in 0..dials' /\ chClosed' = {} /\ chan' = 0
    BY <1>b, <1>c DEF TypeOK, recVars, Untouched
  <2>4. open' \subseteq 1..dials' /\ dials' \in 0..MaxDials /\ conn' \in 0..dials'
    BY <1>b, <1>c, Dials
  <2> QED
    BY <1>b, <1>c, <2>0, <2>1, <2>2, <2>3, <2>4, SMT DEF TypeOK, bodyVars, recVars, hbVars, Untouched
<1>2. Connecting'
  BY <1>a, <1>b, <1>c DEF Connecting, Untouched, TypeOK, fields, bodyVars, appVars, recVars, counters
<1>3. Sockets'
  BY <1>a, <1>b, <1>c DEF Sockets, Untouched, TypeOK, fields, bodyVars, appVars, recVars, counters
<1>4. Closing'
  BY <1>a, <1>b, <1>c DEF Closing, Untouched, TypeOK, fields, bodyVars, appVars, recVars, counters
<1>5. Alone'
  BY <1>a, <1>b, <1>c DEF Alone, Untouched, TypeOK, fields, bodyVars, appVars, recVars, counters
<1>6. Up'
  BY <1>a, <1>b, <1>c DEF Up, Untouched, TypeOK, fields, bodyVars, appVars, recVars, counters
<1>7. Readers'
  BY <1>a, <1>b, <1>c DEF Readers, Untouched, TypeOK, fields, bodyVars, appVars, recVars, counters
<1>8. Closed'
  BY <1>a, <1>b, <1>c DEF Closed, Untouched, TypeOK, fields, bodyVars, appVars, recVars, counters
<1> QED
  BY <1>1, <1>2, <1>3, <1>4, <1>5, <1>6, <1>7, <1>8


\* Connect: initIO, and what follows it.
LEMMA ConnectKeeps ==
    ASSUME ClientInv, ~panic, AppInit
    PROVE  TypeOK' /\ Kept'
<1> USE DEF ClientInv, Kept, LiveReader, AppInit
<1>b. Untouched /\ conn = 1 /\ dials = 1 /\ open = {1} /\ 1 \in Gen /\ connects = 1
  BY Dials DEF Connecting, Sockets, Untouched, Gen, TypeOK
<1>c. chan' = 1
  BY <1>b DEF Untouched
<1>d. /\ reader' \in [Gen -> {"none", "read", "exit", "abort", "closing", "blocked", "done"}]
      /\ hb' \in [Gen -> {"none", "loop", "select", "write", "off"}] /\ hbChan' = hbChan
      /\ \/ /\ conn' = 1 /\ open' = {1} /\ want' = "up"
            /\ reader'[1] = "read" /\ \A g \in Gen : g # 1 => reader'[g] = "none"
         \/ conn' = 0 /\ open' = {} /\ want' = "none" /\ \A g \in Gen : reader'[g] = "none"
  BY <1>b DEF StartIO, TypeOK, Untouched, hbVars
<1>1. TypeOK'
  BY <1>b, <1>c, <1>d, Dials, SMT DEF TypeOK, bodyVars, recVars, Untouched
<1>2. Connecting'
  BY <1>b, <1>c, <1>d DEF Connecting, Untouched, TypeOK, fields, bodyVars, appVars, recVars, counters
<1>3. Sockets'
  BY <1>b, <1>c, <1>d DEF Sockets, Untouched, TypeOK, fields, bodyVars, appVars, recVars, counters
<1>4. Closing'
  BY <1>b, <1>c, <1>d DEF Closing, Untouched, TypeOK, fields, bodyVars, appVars, recVars, counters
<1>5. Alone'
  BY <1>b, <1>c, <1>d DEF Alone, Untouched, TypeOK, fields, bodyVars, appVars, recVars, counters
<1>6. Up'
  BY <1>b, <1>c, <1>d DEF Up, Untouched, TypeOK, fields, bodyVars, appVars, recVars, counters
<1>7. Readers'
  BY <1>b, <1>c, <1>d DEF Readers, Untouched, TypeOK, fields, bodyVars, appVars, recVars, counters
<1>8. Closed'
  BY <1>b, <1>c, <1>d DEF Closed, Untouched, TypeOK, fields, bodyVars, appVars, recVars, counters
<1> QED
  BY <1>1, <1>2, <1>3, <1>4, <1>5, <1>6, <1>7, <1>8


\* A read fails, and the reader tests IsClosed.
LEMMA FailKeeps ==
    ASSUME ClientInv, ~panic, NEW g \in Gen, ReadFails(g) \/ ReaderExits(g)
    PROVE  TypeOK' /\ Kept'
<1> USE DEF ClientInv, Kept, LiveReader, ReadFails, ReaderExits
<1>b. /\ UNCHANGED <<fields, open, dials, bodyVars, appVars, recVars, hbVars, connects>>
      /\ LiveReader(g) /\ reader'[g] \in {"exit", "abort", "done"}
      /\ reader' \in [Gen -> {"none", "read", "exit", "abort", "closing", "blocked", "done"}]
      /\ \A f \in Gen : f # g => reader'[f] = reader[f]
      /\ reader'[g] = "done" => closed
      /\ app # "init" /\ connects # 0 /\ reader[g] \notin {"closing", "blocked"}
  BY DEF TypeOK, counters, Connecting, Untouched
<1>c. conn # 0 => conn \in Gen
  BY Dials DEF TypeOK, Gen
<1>1. TypeOK'
  <2>1. g \in Reading
    BY <1>b DEF Reading
  <2> QED
    BY <1>b, <2>1, SMT DEF TypeOK, fields, bodyVars, appVars, recVars, hbVars
<1>2. Connecting'
  BY <1>b, <1>c DEF Connecting, Untouched, TypeOK, fields, bodyVars, appVars, recVars, counters
<1>3. Sockets'
  BY <1>b, <1>c DEF Sockets, TypeOK, fields, bodyVars, appVars, recVars, counters
<1>4. Closing'
  BY <1>b, <1>c DEF Closing, TypeOK, fields, bodyVars, appVars, recVars, counters
<1>5. Alone'
  BY <1>b, <1>c DEF Alone, TypeOK, fields, bodyVars, appVars, recVars, counters
<1>6. Up'
  BY <1>b, <1>c DEF Up, TypeOK, fields, bodyVars, appVars, recVars, counters
<1>7. Readers'
  BY <1>b, <1>c DEF Readers, TypeOK, fields, bodyVars, appVars, recVars, counters
<1>8. Closed'
  BY <1>b, <1>c DEF Closed, TypeOK, fields, bodyVars, appVars, recVars, counters
<1> QED
  BY <1>1, <1>2, <1>3, <1>4, <1>5, <1>6, <1>7, <1>8


\* The reader calls abortClose(false).
LEMMA AbortKeeps ==
    ASSUME ClientInv, ~panic, NEW g \in Gen, ReaderAborts(g)
    PROVE  TypeOK' /\ Kept'
<1> USE DEF ClientInv, Kept, LiveReader, ReaderAborts, EnterClose
<1>b. LiveReader(g) /\ app # "init" /\ connects # 0 /\ rec = "off"
  BY DEF Connecting, Untouched, Alone
<1>c. /\ reader' \in [Gen -> {"none", "read", "exit", "abort", "closing", "blocked", "done"}]
      /\ \A f \in Gen : f # g => reader'[f] = reader[f]
  BY DEF TypeOK
<1>d. UNCHANGED <<auto, conn, chan, open, dials, app, want, rec, fresh, att, hb, hbChan, writer, connects>>
  BY DEF appVars, recVars, hbVars, counters
<1>e. \/ /\ once = "free" /\ once' = "busy" /\ closed' = TRUE /\ conn = g /\ chClosed' = chClosed \cup {chan}
         /\ panic' = FALSE /\ body = "none" /\ body' = "onclose" /\ owner' = "reader" /\ abort' = TRUE
         /\ reader'[g] = "closing" /\ chan = conn
      \/ /\ UNCHANGED <<once, closed, chClosed, body, owner, abort, panic>>
         /\ once = "busy" /\ reader'[g] = "blocked" /\ ~auto
      \/ /\ UNCHANGED <<once, closed, chClosed, body, owner, abort, panic>>
         /\ once = "done" /\ reader'[g] = "done" /\ conn = 0
  <2>1. g # 0 /\ (g = conn \/ (conn = 0 /\ once = "done"))
    BY <1>b DEF Readers, Gen
  <2>2. CASE once = "free"
    <3>1. body = "none" /\ g = conn /\ conn # 0
      BY <2>1, <2>2 DEF Closing, TypeOK
    <3>2. chan = conn /\ chan \notin chClosed
      BY <1>b, <3>1 DEF Up
    <3> QED
      BY <2>2, <3>1, <3>2 DEF TypeOK, bodyVars
  <2>3. CASE once = "busy"
    <3>1. body = "onclose" /\ g = conn /\ reader[g] = "abort"
      BY <2>1, <2>3 DEF Closing
    <3> QED
      BY <2>3, <3>1 DEF TypeOK, bodyVars, Closing
  <2>4. CASE once = "done"
    <3>1. body = "none"
      BY <2>4 DEF Closing, TypeOK
    <3> QED
      BY <1>b, <2>4, <3>1 DEF TypeOK, bodyVars, Up
  <2> QED
    BY <2>2, <2>3, <2>4 DEF TypeOK
<1>1. TypeOK'
  <2>1. g \in Reading
    BY <1>b DEF Reading
  <2>2. once' \in {"free", "busy", "done"} /\ closed' \in BOOLEAN /\ panic' \in BOOLEAN
    BY <1>e DEF TypeOK
  <2>3. chClosed' \subseteq 1..dials
    <3>1. chClosed' = chClosed \/ (chClosed' = chClosed \cup {chan} /\ chan \in 1..dials)
      BY <1>e DEF TypeOK, Gen
    <3> QED
      BY <3>1 DEF TypeOK
  <2>4. body' \in {"none", "onclose"} /\ owner' \in {"none", "app", "reader"} /\ abort' \in BOOLEAN
    BY <1>e DEF TypeOK
  <2> QED
    BY <1>c, <1>d, <2>1, <2>2, <2>3, <2>4, SMT DEF TypeOK
<1>2. Connecting'
  BY <1>b, <1>c, <1>d, <1>e DEF Connecting, Untouched, TypeOK, fields, bodyVars, appVars, recVars, counters
<1>3. Sockets'
  BY <1>b, <1>c, <1>d, <1>e DEF Sockets, TypeOK, fields, bodyVars, appVars, recVars, counters
<1>4. Closing'
  BY <1>b, <1>c, <1>d, <1>e DEF Closing, Up, TypeOK, fields, bodyVars, appVars, recVars, counters
<1>5. Alone'
  BY <1>b, <1>c, <1>d, <1>e DEF Alone, TypeOK, fields, bodyVars, appVars, recVars, counters
<1>6. Up'
  BY <1>b, <1>c, <1>d, <1>e DEF Up, TypeOK, fields, bodyVars, appVars, recVars, counters
<1>7. Readers'
  BY <1>b, <1>c, <1>d, <1>e DEF Readers, TypeOK, fields, bodyVars, appVars, recVars, counters
<1>8. Closed'
  BY <1>b, <1>c, <1>d, <1>e DEF Closed, TypeOK, fields, bodyVars, appVars, recVars, counters
<1> QED
  BY <1>1, <1>2, <1>3, <1>4, <1>5, <1>6, <1>7, <1>8


\* Close.
LEMMA CloseKeeps ==
    ASSUME ClientInv, ~panic, OneConnect, AppCloses
    PROVE  TypeOK' /\ Kept'
<1> USE DEF ClientInv, Kept, LiveReader, AppCloses, EnterClose
<1>b. ~auto /\ connects # 0 /\ app = "idle" /\ rec = "off"
  BY DEF OneConnect, Alone
<1>d. UNCHANGED <<auto, conn, chan, open, dials, rec, fresh, att, reader, hb, hbChan, writer, connects>>
  BY DEF recVars, hbVars
<1>e. \/ /\ once = "free" /\ once' = "busy" /\ closed' = TRUE /\ conn # 0 /\ chClosed' = chClosed \cup {chan}
         /\ panic' = FALSE /\ body = "none" /\ body' = "onclose" /\ owner' = "app" /\ abort' = FALSE
         /\ app' = "closing" /\ want' = want /\ chan = conn
      \/ /\ UNCHANGED <<closed, chClosed, body, owner, abort, panic, app>>
         /\ once \in {"free", "done"} /\ once' = "done" /\ want' = "down" /\ conn = 0
         /\ (once = "free" => \A g \in Gen : ~LiveReader(g))
      \/ /\ UNCHANGED <<once, closed, chClosed, body, owner, abort, panic, want>>
         /\ once = "busy" /\ app' = "blocked"
  BY <1>b DEF TypeOK, bodyVars, Closing, Up, Readers, Gen
<1>1. TypeOK'
  <2>2. once' \in {"free", "busy", "done"} /\ closed' \in BOOLEAN /\ panic' \in BOOLEAN
    BY <1>e DEF TypeOK
  <2>3. chClosed' \subseteq 1..dials
    <3>1. chClosed' = chClosed \/ (chClosed' = chClosed \cup {chan} /\ chan \in 1..dials)
      BY <1>e DEF TypeOK
    <3> QED
      BY <3>1 DEF TypeOK
  <2>4. body' \in {"none", "onclose"} /\ owner' \in {"none", "app", "reader"} /\ abort' \in BOOLEAN
    BY <1>e DEF TypeOK
  <2>5. app' \in {"idle", "init", "closing", "blocked"} /\ want' \in {"none", "up", "down"}
    BY <1>e DEF TypeOK
  <2>6. Reading' = Reading
    BY <1>d DEF Reading
  <2> QED
    BY <1>d, <2>2, <2>3, <2>4, <2>5, <2>6, SMT DEF TypeOK
<1>2. Connecting'
  BY <1>b, <1>d, <1>e DEF Connecting, Untouched, TypeOK, fields, bodyVars, appVars, recVars, counters
<1>3. Sockets'
  BY <1>b, <1>d, <1>e DEF Sockets, TypeOK, fields, bodyVars, appVars, recVars, counters
<1>4. Closing'
  BY <1>b, <1>d, <1>e DEF Closing, Up, TypeOK, fields, bodyVars, appVars, recVars, counters
<1>5. Alone'
  BY <1>b, <1>d, <1>e DEF Alone, TypeOK, fields, bodyVars, appVars, recVars, counters
<1>6. Up'
  BY <1>b, <1>d, <1>e DEF Up, TypeOK, fields, bodyVars, appVars, recVars, counters
<1>7. Readers'
  BY <1>b, <1>d, <1>e DEF Readers, Closing, TypeOK, fields, bodyVars, appVars, recVars, counters
<1>8. Closed'
  BY <1>b, <1>d, <1>e DEF Closed, TypeOK, fields, bodyVars, appVars, recVars, counters
<1> QED
  BY <1>1, <1>2, <1>3, <1>4, <1>5, <1>6, <1>7, <1>8


\* The rest of the body of close().
LEMMA FinishKeeps ==
    ASSUME ClientInv, ~panic, FinishClose
    PROVE  TypeOK' /\ Kept'
<1> USE DEF ClientInv, Kept, LiveReader, FinishClose
<1>a. /\ once = "busy" /\ conn # 0 /\ closed /\ rec = "off" /\ app # "init" /\ connects # 0 /\ want = "up"
      /\ auto => abort /\ reader[conn] = "closing"
  BY DEF Closing, Connecting, Untouched
<1>b. panic' = FALSE /\ open = {conn} /\ open' = {}
  BY <1>a DEF Sockets
<1>c. UNCHANGED <<auto, closed, chan, chClosed, dials, fresh, hb, hbChan, writer, connects>>
  BY DEF recVars, hbVars, counters
<1>d. /\ reader' \in [Gen -> {"none", "read", "exit", "abort", "closing", "blocked", "done"}]
      /\ \A g \in Gen : \/ reader'[g] = reader[g] /\ reader[g] \notin {"closing", "blocked"}
                       \/ reader'[g] = "done"
      /\ auto => \A g \in Gen : ~LiveReader(g)'
  <2>1. \A g \in Gen : LiveReader(g) => g = conn
    BY <1>a DEF Readers
  <2> QED
    BY <1>a, <2>1 DEF TypeOK
<1>e. \/ app' = "idle" /\ want' = "down" /\ ~auto
      \/ app' = app /\ want' = want /\ app = "idle"
  BY <1>a DEF Closing, TypeOK, appVars
<1>f. \/ auto /\ rec' = "sleep" /\ att' = 0
      \/ ~auto /\ rec' = "off" /\ att' = att
  BY <1>a DEF recVars, TypeOK
<1>1. TypeOK'
  <2>1. Reading' # {} => Reading # {}
    BY <1>d DEF Reading
  <2>2. att' \in 0..ReconnectMax /\ rec' \in {"off", "sleep", "conn", "once", "chan", "init"}
    BY <1>f DEF TypeOK
  <2>3. app' \in {"idle", "init", "closing", "blocked"} /\ want' \in {"none", "up", "down"}
    BY <1>e DEF TypeOK
  <2>4. panic' \in BOOLEAN /\ abort' \in BOOLEAN
    BY <1>b
  <2>5. conn' \in 0..dials' /\ once' = "done" /\ body' = "none" /\ owner' = "none" /\ open' = {}
    BY <1>b, <1>c DEF TypeOK
  <2> HIDE DEF FinishClose
  <2> QED
    BY <1>c, <1>d, <2>1, <2>2, <2>3, <2>4, <2>5, SMT DEF TypeOK
<1>2. Connecting'
  BY <1>a, <1>b, <1>c, <1>d, <1>e, <1>f DEF Connecting, Untouched, TypeOK, fields, bodyVars, appVars, recVars, counters
<1>3. Sockets'
  BY <1>a, <1>b, <1>c, <1>d, <1>e, <1>f DEF Sockets, TypeOK, fields, bodyVars, appVars, recVars, counters
<1>4. Closing'
  BY <1>a, <1>b, <1>c, <1>d, <1>e, <1>f DEF Closing, TypeOK, fields, bodyVars, appVars, recVars, counters
<1>5. Alone'
  BY <1>a, <1>b, <1>c, <1>d, <1>e, <1>f DEF Alone, TypeOK, fields, bodyVars, appVars, recVars, counters
<1>6. Up'
  BY <1>a, <1>b, <1>c, <1>d, <1>e, <1>f DEF Up, TypeOK, fields, bodyVars, appVars, recVars, counters
<1>7. Readers'
  BY <1>a, <1>b, <1>c, <1>d, <1>e, <1>f DEF Readers, TypeOK, fields, bodyVars, appVars, recVars, counters
<1>8. Closed'
  BY <1>a, <1>b, <1>c, <1>d, <1>e, <1>f DEF Closed, TypeOK, fields, bodyVars, appVars, recVars, counters
<1> QED
  BY <1>1, <1>2, <1>3, <1>4, <1>5, <1>6, <1>7, <1>8

----------------------------------------------------------------------------
(* reconnect().                                                            *)

\* A dial of reconnect fails or gives a socket.
LEMMA RedialKeeps ==
    ASSUME ClientInv, ~panic, RedialFails \/ Redial
    PROVE  TypeOK' /\ Kept'
<1> USE DEF ClientInv, Kept, LiveReader, RedialFails, Redial, NextAttempt
<1>a. /\ auto /\ want = "up" /\ app = "idle" /\ body = "none" /\ att < ReconnectMax /\ connects # 0
      /\ once # "busy" /\ \A g \in Gen : ~LiveReader(g)
  BY DEF Alone, Connecting, Untouched, Closing
<1>b. UNCHANGED <<auto, conn, closed, once, chan, chClosed, body, owner, abort, app,
                 want, reader, hb, hbChan, writer, panic, connects>>
  BY DEF fields, bodyVars, appVars, hbVars, counters
<1>c. rec = "sleep" /\ conn = 0 /\ open = {} /\ closed
  BY DEF Sockets, Alone
<1>d. \/ /\ att' = att + 1 /\ dials' = dials /\ open' = {} /\ fresh' = fresh
         /\ \/ rec' = "sleep" /\ att + 1 < ReconnectMax
            \/ rec' = "off"
      \/ /\ att' = att /\ dials' = dials + 1 /\ fresh' = dials + 1 /\ open' = {dials + 1}
         /\ rec' = "conn" /\ dials < MaxDials
  BY <1>c
<1> HIDE DEF RedialFails, Redial
<1>1. TypeOK'
  <2>1. Reading' = Reading
    BY <1>b DEF Reading
  <2>2. /\ dials \in Nat /\ dials' \in 0..MaxDials /\ dials <= dials'
        /\ att' \in 0..ReconnectMax /\ fresh' \in 0..dials'
    BY <1>a, <1>d, Dials DEF TypeOK
  <2>3. rec' \in {"off", "sleep", "conn", "once", "chan", "init"}
    BY <1>d
  <2>4. open' \subseteq 1..dials'
    BY <1>d, <2>2
  <2>5. chClosed' \subseteq 1..dials' /\ conn' \in 0..dials' /\ chan' \in 0..dials'
    BY <1>b, <2>2 DEF TypeOK
  <2>6. hbChan' \in [Gen -> 0..dials']
    <3>1. \A g \in Gen : hbChan[g] \in 0..dials'
      BY <2>2 DEF TypeOK
    <3> QED
      BY <1>b, <3>1 DEF TypeOK
  <2> QED
    BY <1>b, <2>1, <2>2, <2>3, <2>4, <2>5, <2>6, SMT DEF TypeOK
<1>2. Connecting'
  BY <1>a, <1>b, <1>c, <1>d DEF Connecting, Untouched, TypeOK, fields, bodyVars, appVars, recVars, counters
<1>3. Sockets'
  BY <1>a, <1>b, <1>c, <1>d DEF Sockets, TypeOK, fields, bodyVars, appVars, recVars, counters
<1>4. Closing'
  BY <1>a, <1>b, <1>c, <1>d DEF Closing, TypeOK, fields, bodyVars, appVars, recVars, counters
<1>5. Alone'
  BY <1>a, <1>b, <1>c, <1>d DEF Alone, TypeOK, fields, bodyVars, appVars, recVars, counters
<1>6. Up'
  BY <1>a, <1>b, <1>c, <1>d DEF Up, TypeOK, fields, bodyVars, appVars, recVars, counters
<1>7. Readers'
  BY <1>a, <1>b, <1>c, <1>d DEF Readers, TypeOK, fields, bodyVars, appVars, recVars, counters
<1>8. Closed'
  BY <1>a, <1>b, <1>c, <1>d DEF Closed, TypeOK, fields, bodyVars, appVars, recVars, counters
<1> QED
  BY <1>1, <1>2, <1>3, <1>4, <1>5, <1>6, <1>7, <1>8


\* The assignments under writeMu.
LEMMA RewriteKeeps ==
    ASSUME ClientInv, ~panic, SetConn \/ ResetOnce \/ SetChan
    PROVE  TypeOK' /\ Kept'
<1> USE DEF ClientInv, Kept, LiveReader, SetConn, ResetOnce, SetChan
<1>a. /\ auto /\ want = "up" /\ app = "idle" /\ body = "none" /\ att < ReconnectMax /\ connects # 0
      /\ once # "busy" /\ \A g \in Gen : ~LiveReader(g)
  BY DEF Alone, Connecting, Untouched, Closing
<1>b. UNCHANGED <<auto, chClosed, open, dials, body, owner, abort, app, want, fresh, att,
                 reader, hb, hbChan, writer, panic, connects>>
  BY DEF bodyVars, appVars, hbVars, counters
<1>c. fresh = dials /\ fresh # 0 /\ fresh \notin chClosed /\ open = {fresh}
  BY DEF Sockets
<1>d. \/ rec = "conn" /\ rec' = "once" /\ conn' = fresh /\ closed' = FALSE /\ once' = once /\ chan' = chan
      \/ rec = "once" /\ rec' = "chan" /\ conn' = conn /\ closed' = closed /\ once' = "free" /\ chan' = chan
      \/ rec = "chan" /\ rec' = "init" /\ conn' = conn /\ closed' = closed /\ once' = once /\ chan' = fresh
  OBVIOUS
<1> HIDE DEF SetConn, ResetOnce, SetChan
<1>1. TypeOK'
  <2>1. Reading' = Reading
    BY <1>b DEF Reading
  <2>2. conn' \in 0..dials' /\ chan' \in 0..dials' /\ (chan = 0 => Reading = {})
    BY <1>a, <1>b, <1>c, <1>d DEF TypeOK
  <2>3. closed' \in BOOLEAN /\ once' \in {"free", "busy", "done"}
    BY <1>d DEF TypeOK
  <2>4. rec' \in {"off", "sleep", "conn", "once", "chan", "init"}
    BY <1>d
  <2>5. chan' = 0 => chan = 0
    BY <1>c, <1>d
  <2> QED
    BY <1>b, <2>1, <2>2, <2>3, <2>4, <2>5, SMT DEF TypeOK
<1>2. Connecting'
  BY <1>a, <1>b, <1>c, <1>d DEF Connecting, Untouched, TypeOK, fields, bodyVars, appVars, recVars, counters
<1>3. Sockets'
  BY <1>a, <1>b, <1>c, <1>d DEF Sockets, TypeOK, fields, bodyVars, appVars, recVars, counters
<1>4. Closing'
  BY <1>a, <1>b, <1>c, <1>d DEF Closing, TypeOK, fields, bodyVars, appVars, recVars, counters
<1>5. Alone'
  BY <1>a, <1>b, <1>c, <1>d DEF Alone, TypeOK, fields, bodyVars, appVars, recVars, counters
<1>6. Up'
  BY <1>a, <1>b, <1>c, <1>d DEF Up, TypeOK, fields, bodyVars, appVars, recVars, counters
<1>7. Readers'
  BY <1>a, <1>b, <1>c, <1>d DEF Readers, TypeOK, fields, bodyVars, appVars, recVars, counters
<1>8. Closed'
  BY <1>a, <1>b, <1>c, <1>d DEF Closed, TypeOK, fields, bodyVars, appVars, recVars, counters
<1> QED
  BY <1>1, <1>2, <1>3, <1>4, <1>5, <1>6, <1>7, <1>8


\* initIO succeeds or fails.
LEMMA ReinitKeeps ==
    ASSUME ClientInv, ~panic, ReinitDone \/ ReinitFails
    PROVE  TypeOK' /\ Kept'
<1> USE DEF ClientInv, Kept, LiveReader, ReinitDone, ReinitFails, NextAttempt, StartIO
<1>a. /\ auto /\ want = "up" /\ app = "idle" /\ body = "none" /\ att < ReconnectMax /\ connects # 0
      /\ once # "busy" /\ \A g \in Gen : ~LiveReader(g)
  BY DEF Alone, Connecting, Untouched, Closing
<1>b. UNCHANGED <<auto, once, chan, chClosed, dials, body, owner, abort, app, want, fresh,
                 hbChan, writer, panic, connects>>
  BY DEF fields, bodyVars, appVars, hbVars, counters
<1>c. /\ fresh = dials /\ fresh # 0 /\ fresh \in Gen /\ fresh \notin chClosed
      /\ open = {fresh} /\ conn = fresh
      /\ chan = fresh /\ once = "free" /\ ~closed /\ rec = "init"
  BY Dials DEF Sockets, Alone, TypeOK, Gen
<1>d. /\ reader' \in [Gen -> {"none", "read", "exit", "abort", "closing", "blocked", "done"}]
      /\ hb' \in [Gen -> {"none", "loop", "select", "write", "off"}]
      /\ \/ /\ rec' = "off" /\ conn' = conn /\ closed' = closed /\ open' = open /\ att' = att
            /\ reader'[fresh] = "read" /\ \A g \in Gen : g # fresh => reader'[g] = reader[g]
         \/ /\ att' = att + 1 /\ conn' = 0 /\ closed' = TRUE /\ open' = {} /\ reader' = reader
            /\ \/ rec' = "sleep" /\ att + 1 < ReconnectMax
               \/ rec' = "off"
  BY <1>c DEF TypeOK, hbVars, fields
<1> HIDE DEF ReinitDone, ReinitFails
<1>1. TypeOK'
  <2>1. conn' \in 0..dials' /\ chan' # 0
    BY <1>b, <1>c, <1>d DEF TypeOK
  <2>3. closed' \in BOOLEAN
    BY <1>d DEF TypeOK
  <2>4. rec' \in {"off", "sleep", "conn", "once", "chan", "init"} /\ att' \in 0..ReconnectMax
    BY <1>a, <1>d DEF TypeOK
  <2>5. open' \subseteq 1..dials'
    BY <1>b, <1>d DEF TypeOK
  <2> QED
    BY <1>b, <1>d, <2>1, <2>3, <2>4, <2>5, SMT DEF TypeOK
<1>2. Connecting'
  BY <1>a, <1>b, <1>c, <1>d DEF Connecting, Untouched, TypeOK, fields, bodyVars, appVars, recVars, counters
<1>3. Sockets'
  BY <1>a, <1>b, <1>c, <1>d DEF Sockets, TypeOK, fields, bodyVars, appVars, recVars, counters
<1>4. Closing'
  BY <1>a, <1>b, <1>c, <1>d DEF Closing, TypeOK, fields, bodyVars, appVars, recVars, counters
<1>5. Alone'
  BY <1>a, <1>b, <1>c, <1>d DEF Alone, TypeOK, fields, bodyVars, appVars, recVars, counters
<1>6. Up'
  BY <1>a, <1>b, <1>c, <1>d DEF Up, TypeOK, fields, bodyVars, appVars, recVars, counters
<1>7. Readers'
  BY <1>a, <1>b, <1>c, <1>d DEF Readers, TypeOK, fields, bodyVars, appVars, recVars, counters
<1>8. Closed'
  BY <1>a, <1>b, <1>c, <1>d DEF Closed, TypeOK, fields, bodyVars, appVars, recVars, counters
<1> QED
  BY <1>1, <1>2, <1>3, <1>4, <1>5, <1>6, <1>7, <1>8


----------------------------------------------------------------------------
(* The theorems.                                                           *)

LEMMA ClientInit == Init => ClientInv
<1> SUFFICES ASSUME Init PROVE ClientInv
  OBVIOUS
<1> USE DEF Init
<1>1. TypeOK
  <2>1. Reading = {}
    BY DEF Reading
  <2>2. closed \in BOOLEAN /\ abort \in BOOLEAN /\ panic \in BOOLEAN /\ auto \in BOOLEAN
    OBVIOUS
  <2>3. reader \in [Gen -> {"none", "read", "exit", "abort", "closing", "blocked", "done"}]
    OBVIOUS
  <2>4. hb \in [Gen -> {"none", "loop", "select", "write", "off"}] /\ hbChan \in [Gen -> 0..dials]
    OBVIOUS
  <2> QED
    BY <2>1, <2>2, <2>3, <2>4, Dials DEF TypeOK
<1>2. Kept
  BY DEF Kept, Connecting, Untouched, Sockets, Closing, Alone, Up, Readers, Closed, LiveReader
<1> QED
  BY <1>1, <1>2 DEF ClientInv

LEMMA ClientStep == OneConnect /\ ClientInv /\ [Next]_vars => ClientInv'
<1> SUFFICES ASSUME OneConnect, ClientInv, [Next]_vars PROVE ClientInv'
  OBVIOUS
<1>1. CASE UNCHANGED vars
  <2>1. TypeOK' = TypeOK /\ Kept' = Kept /\ panic' = panic
    BY <1>1 DEF vars, fields, bodyVars, appVars, recVars, hbVars, counters, TypeOK, Reading, Kept,
       Connecting, Untouched, Sockets, Closing, Alone, Up, Readers, Closed, LiveReader
  <2> QED
    BY <2>1 DEF ClientInv
<1>2. CASE Next
  <2>1. ~panic
    BY <1>2 DEF Next, Alive, AppDials, AppInit, AppCloses, FinishClose, WriteChecks, WriteUses,
       RecStep, RedialFails, Redial, SetConn, ResetOnce, SetChan, ReinitDone, ReinitFails,
       ReaderStep, ReadFails, ReaderExits, ReaderAborts,
       HbStep, HeartbeatSelects, HeartbeatStops, HeartbeatTicks, HeartbeatWrites, HeartbeatStep
  <2>2. TypeOK' /\ Kept'
    BY <1>2, <2>1, QuietKeeps, DialKeeps, ConnectKeeps, FailKeeps, AbortKeeps, CloseKeeps, FinishKeeps,
       RedialKeeps, RewriteKeeps, ReinitKeeps DEF Next, RecStep, ReaderStep
  <2> QED
    BY <2>2 DEF ClientInv
<1> QED
  BY <1>1, <1>2

LEMMA ClientInvAlways == OneConnect => (Spec => []ClientInv)
<1> SUFFICES ASSUME OneConnect PROVE Spec => []ClientInv
  OBVIOUS
<1>1. ClientInv /\ [Next]_vars => ClientInv'
  BY ClientStep
<1> QED
  BY <1>1, ClientInit, PTL DEF Spec

\* The fields keep their types, and a connection that has a reader has a close
\* channel (tcp_con.go:203-239, 331-372).
THEOREM ClientTypeCorrect == OneConnect => (Spec => []TypeOK)
<1>1. ClientInv => TypeOK
  BY DEF ClientInv
<1> QED
  BY <1>1, ClientInvAlways, PTL

\* A Close that has returned leaves no connection and no open socket, whether
\* it did the closing, waited for the reader that did, or came after it, and
\* whatever the readers and heartbeats do meanwhile (tcp_con.go:281-329).
THEOREM CloseClosesAlways == OneConnect => (Spec => []CloseCloses)
<1>1. ClientInv => CloseCloses
  BY DEF ClientInv, Kept, Closed, Sockets, Alone, CloseCloses
<1> QED
  BY <1>1, ClientInvAlways, PTL

\* The current socket has a running reader, or is being set up or closed, through
\* any number of failures and reconnects (tcp_con.go:203-239, 294-372).
THEOREM SupervisedAlways == OneConnect => (Spec => []Supervised)
<1>1. ClientInv => Supervised
  <2> SUFFICES ASSUME ClientInv, conn # 0, ~panic, app # "init", body = "none",
                      rec \notin {"once", "chan", "init"}
               PROVE  conn \in Reading
    BY DEF Supervised, ClientInv, TypeOK
  <2>1. rec = "off"
    BY DEF ClientInv, Kept, Sockets, TypeOK
  <2>2. conn \in Gen /\ reader[conn] \in {"read", "exit", "abort"}
    BY <2>1, Dials DEF ClientInv, Kept, Up, TypeOK, Gen
  <2> QED
    BY <2>2 DEF Reading
<1> QED
  BY <1>1, ClientInvAlways, PTL

\* No socket is leaked: an open one is the current one or the one reconnect has
\* just dialled (tcp_con.go:331-372).
THEOREM NoSocketLeakAlways == OneConnect => (Spec => []NoSocketLeak)
<1>1. ClientInv => NoSocketLeak
  BY DEF ClientInv, Kept, Sockets, NoSocketLeak
<1> QED
  BY <1>1, ClientInvAlways, PTL

\* No close channel is closed twice and no nil connection is closed: the process
\* can die only in a Write (of the application or the heartbeat) that finds the
\* connection gone after its own test (tcp_con.go:187-194).
PanicsOnlyInWrite ==
    [][panic' /\ ~panic => conn = 0 /\ (writer = "write" \/ \E g \in Gen : hb[g] = "write")]_vars

LEMMA CloseNeverPanics ==
    ASSUME OneConnect, ClientInv, ~panic,
           AppCloses \/ FinishClose \/ \E g \in Gen : ReaderAborts(g)
    PROVE  ~panic'
<1> USE DEF ClientInv, Kept, LiveReader
<1>1. CASE FinishClose
  BY <1>1 DEF FinishClose, Closing
<1>2. CASE AppCloses
  <2>1. rec = "off" /\ app # "init"
    BY <1>2 DEF AppCloses, OneConnect, Alone
  <2>2. once = "free" /\ conn # 0 => chan \notin chClosed
    BY <2>1 DEF Closing, Up, TypeOK
  <2> QED
    BY <1>2, <2>2 DEF AppCloses, EnterClose
<1>3. ASSUME NEW g \in Gen, ReaderAborts(g) PROVE ~panic'
  <2>1. rec = "off" /\ app # "init"
    BY <1>3 DEF ReaderAborts, Alone, Connecting, Untouched
  <2>2. once = "free" /\ conn # 0 => chan \notin chClosed
    BY <2>1 DEF Closing, Up, TypeOK
  <2> QED
    BY <1>3, <2>2 DEF ReaderAborts, EnterClose
<1> QED
  BY <1>1, <1>2, <1>3

\* PanicsOnlyInWrite holds: the several paths into close() and the fields that
\* reconnect replaces never make close() itself panic.
THEOREM PanicsOnlyInWriteAlways == OneConnect => (Spec => PanicsOnlyInWrite)
<1> SUFFICES ASSUME OneConnect PROVE Spec => PanicsOnlyInWrite
  OBVIOUS
<1>1. ClientInv /\ [Next]_vars =>
        [panic' /\ ~panic => conn = 0 /\ (writer = "write" \/ \E g \in Gen : hb[g] = "write")]_vars
  <2> SUFFICES ASSUME ClientInv, Next, panic', ~panic
               PROVE  conn = 0 /\ (writer = "write" \/ \E g \in Gen : hb[g] = "write")
    OBVIOUS
  <2>1. ~(AppCloses \/ FinishClose \/ \E g \in Gen : ReaderAborts(g))
    BY CloseNeverPanics
  <2>2. WriteUses \/ \E g \in Gen : HeartbeatWrites(g)
    BY <2>1 DEF Next, AppDials, AppInit, WriteChecks,
       RecStep, RedialFails, Redial, SetConn, ResetOnce, SetChan, ReinitDone, ReinitFails,
       ReaderStep, ReadFails, ReaderExits, HbStep, HeartbeatSelects, HeartbeatStops, HeartbeatTicks
  <2> QED
    BY <2>2 DEF WriteUses, HeartbeatWrites, HeartbeatStep
<1>2. OneConnect => (Spec => []ClientInv)
  BY ClientInvAlways
<1> QED
  BY <1>1, <1>2, PTL DEF Spec, PanicsOnlyInWrite
=============================================================================
