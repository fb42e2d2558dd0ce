------------------------------ MODULE Framing ------------------------------
(***************************************************************************)
(* Packets on a connection: tcpWriter.WritePacket frames them              *)
(* (pkg/network/tcp_writer.go), tcpReader.ReadPacket takes them out of the *)
(* stream again (tcp_reader.go) and OnMessage (tcp_con.go) hands each to   *)
(* the handler of its command, decoded by pkg/network/misc/proto.go.       *)
(*                                                                         *)
(* The stream is a sequence of bytes; io.ReadFull waits for all it wants.  *)
(* A length has two digits of base LenBase (256 in the code).  What        *)
(* proto.Marshal makes of a message is its body, a sequence of bytes.      *)
(***************************************************************************)
EXTENDS Naturals, Sequences

CONSTANTS
    Writer,         \* goroutines that call WritePacket on the connection
    Packet,         \* what they write: records of cmd, sub and body
    LenBase,
    MaxPackets      \* bound: packets written

ASSUME FramingConstants ==
    /\ LenBase \in Nat \ {0, 1} /\ MaxPackets \in Nat /\ 0 \notin Writer
    /\ \A p \in Packet : p.cmd \in Nat /\ p.sub \in Nat /\ p.body \in Seq(Nat)

VARIABLES
    wmu,            \* writer that holds w.mu, 0 if none
    out,            \* what the holder has still to write
    wire,           \* bytes written and not yet read
    down,           \* the connection is closed
    reader,         \* "header", "payload" or "gone"
    head,           \* the header read, as a record
    handled,        \* what OnMessage has made of each packet read (history)
    framed          \* packets in the order in which they got w.mu (history)

frameVars == <<wmu, out, wire, down, reader, head, handled, framed>>

maxPacketSize == LenBase * LenBase - 1
HeaderSize == 8

NoHead == [len |-> 0, cmd |-> 0, sub |-> 0]

FrameInit ==
    /\ wmu = 0 /\ out = <<>> /\ wire = <<>> /\ down = FALSE
    /\ reader = "header" /\ head = NoHead
    /\ handled = <<>> /\ framed = <<>>

----------------------------------------------------------------------------
(* The commands of gen.CMD and, for each, the message of every subcommand. *)

Messages ==
    [c \in {10, 20, 30, 40, 50} |->
        CASE c = 10 -> [s \in {10, 11} |-> IF s = 10 THEN "Ping" ELSE "Pong"]
          [] c = 20 -> [s \in 10..13 |-> <<"Instance", "Deregister", "Lookup", "LookupAck">>[s - 9]]
          [] c = 30 -> [s \in {10, 11} \cup 20..25 \cup 30..33 \cup {40, 41} |->
                            CASE s = 10 -> "MachineMetric" [] s = 11 -> "NetworkMetric"
                              [] s \in 20..25 -> "StreamMetric" [] OTHER -> "SessionMetric"]
          [] c = 40 -> [s \in {10, 20} |-> IF s = 10 THEN "WhiteipChanged" ELSE "LimitChanged"]
          [] c = 50 -> [s \in {10, 20} |-> IF s = 10 THEN "AccessDenied" ELSE "IpBlocked"]]

\* No handler is called.
Ignored == [cmd |-> 0, msg |-> "none", body |-> <<>>]

\* OnMessage: the call of the handler, none for an unknown command or
\* subcommand.  A control packet is not decoded: its handler gets nil.
OnMessage(cmd, sub, body) ==
    IF cmd = 60 THEN [cmd |-> 60, msg |-> "nil", body |-> <<>>]
    ELSE IF cmd \in DOMAIN Messages /\ sub \in DOMAIN Messages[cmd]
         THEN [cmd |-> cmd, msg |-> Messages[cmd][sub], body |-> body]
         ELSE Ignored

----------------------------------------------------------------------------
(* WritePacket.                                                            *)

\* Two digits for the length, then command, subcommand, version, flags and the
\* reserved byte, then the body.
Frame(p) ==
    <<Len(p.body) \div LenBase, Len(p.body) % LenBase, p.cmd, p.sub, 1, 0, 0, 0>> \o p.body

\* A writer that does not wait for w.mu.
WritePacketUnlocked(w, p) ==
    /\ ~down /\ Len(framed) < MaxPackets
    /\ Len(p.body) <= maxPacketSize
    /\ wmu' = w
    /\ out' = Frame(p)
    /\ framed' = Append(framed, p)
    /\ UNCHANGED <<wire, down, reader, head, handled>>

\* The tests, then w.mu and the frame in w.buff.
WritePacket(w, p) ==
    /\ ~down /\ Len(framed) < MaxPackets
    /\ Len(p.body) <= maxPacketSize
    /\ wmu = 0
    /\ wmu' = w
    /\ out' = Frame(p)
    /\ framed' = Append(framed, p)
    /\ UNCHANGED <<wire, down, reader, head, handled>>

\* A round of writeAll: the connection takes some of the bytes, and the last
\* round releases w.mu.
WriteSome(w, n) ==
    /\ wmu = w /\ ~down
    /\ n \in 1..Len(out)
    /\ wire' = wire \o SubSeq(out, 1, n)
    /\ out' = SubSeq(out, n + 1, Len(out))
    /\ wmu' = IF n = Len(out) THEN 0 ELSE w
    /\ UNCHANGED <<down, reader, head, handled, framed>>

\* Write returns ErrClosed.
WriteFails(w) ==
    /\ wmu = w /\ down
    /\ wmu' = 0 /\ out' = <<>>
    /\ UNCHANGED <<wire, down, reader, head, handled, framed>>

\* The connection is closed, by either side.
Shut ==
    /\ ~down
    /\ down' = TRUE
    /\ UNCHANGED <<wmu, out, wire, reader, head, handled, framed>>

----------------------------------------------------------------------------
(* ReadPacket and the loop around it.                                      *)

parseHeader(b) == [len |-> b[1] * LenBase + b[2], cmd |-> b[3], sub |-> b[4]]

\* A packet without a body is handed over at once.
ReadHeader ==
    /\ reader = "header"
    /\ Len(wire) >= HeaderSize
    /\ LET h == parseHeader(wire) IN
        /\ wire' = SubSeq(wire, HeaderSize + 1, Len(wire))
        /\ IF h.len = 0
           THEN /\ handled' = Append(handled, OnMessage(h.cmd, h.sub, <<>>))
                /\ UNCHANGED <<reader, head>>
           ELSE /\ head' = h /\ reader' = "payload"
                /\ UNCHANGED handled
    /\ UNCHANGED <<wmu, out, down, framed>>

\* A reader that leaves when the message is not known.
ReadPayloadStrict ==
    /\ reader = "payload" /\ Len(wire) >= head.len
    /\ LET call == OnMessage(head.cmd, head.sub, SubSeq(wire, 1, head.len)) IN
        /\ handled' = Append(handled, call)
        /\ reader' = IF call = Ignored THEN "gone" ELSE "header"
    /\ head' = NoHead
    /\ wire' = SubSeq(wire, head.len + 1, Len(wire))
    /\ UNCHANGED <<wmu, out, down, framed>>

\* The error of an unknown message is logged and the loop goes on.
ReadPayload ==
    /\ reader = "payload"
    /\ Len(wire) >= head.len
    /\ handled' = Append(handled, OnMessage(head.cmd, head.sub, SubSeq(wire, 1, head.len)))
    /\ head' = NoHead /\ reader' = "header"
    /\ wire' = SubSeq(wire, head.len + 1, Len(wire))
    /\ UNCHANGED <<wmu, out, down, framed>>

\* An error from the socket: the reader leaves, and the connection is closed.
ReadFails ==
    /\ reader # "gone" /\ down
    /\ reader' = "gone"
    /\ UNCHANGED <<wmu, out, wire, down, head, handled, framed>>

FrameStep ==
    \/ \E w \in Writer : (\E n \in 1..Len(out) : WriteSome(w, n)) \/ WriteFails(w)
    \/ ReadHeader \/ ReadPayload \/ ReadFails

FrameNext ==
    \/ \E w \in Writer, p \in Packet : WritePacket(w, p)
    \/ Shut
    \/ FrameStep

FrameBehaviour == FrameInit /\ [][FrameNext]_frameVars /\ WF_frameVars(FrameStep)

----------------------------------------------------------------------------
(* Properties.                                                             *)

\* Types; no more is awaited than a packet can hold.
FrameTypeOK ==
    /\ wmu \in Writer \cup {0} /\ (wmu = 0 <=> out = <<>>)
    /\ out \in Seq(Nat) /\ wire \in Seq(Nat) /\ down \in BOOLEAN
    /\ reader \in {"header", "payload", "gone"}
    /\ head.len \in 0..maxPacketSize

\* However the writers interleave and in whatever pieces the bytes travel, the
\* handlers get the packets in the order in which they were written, each
\* whole, once and by the handler of its command; packets nobody knows are
\* skipped without losing step (tcp_reader.go:109-139, tcp_writer.go:39-58).
InOrder ==
    /\ Len(handled) <= Len(framed)
    /\ \A k \in DOMAIN handled : handled[k] = OnMessage(framed[k].cmd, framed[k].sub, framed[k].body)

\* All that is written is handled, unless the connection is closed.
AllHandled == []<>(down \/ wmu # 0 \/ Len(handled) = Len(framed))

=============================================================================
