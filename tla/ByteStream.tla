----------------------------- MODULE ByteStream ----------------------------
(***************************************************************************)
(* The byte streams of pkg/network/stream/stream.go: a cursor over a       *)
(* buffer, in big-endian or little-endian order.  One side writes values   *)
(* until it has enough or an operation fails, the bytes up to the cursor   *)
(* go to the other side, and that reads values of the same types.          *)
(*                                                                         *)
(* The two implementations are one module: they differ in the byte order,  *)
(* and in that the big-endian WriteBuff refuses a nil slice (stream.go:229)*)
(* where the other writes nothing; the slices here are not nil.  A byte    *)
(* has Base values (256 in the code), so that an unsigned integer of w     *)
(* bytes is below Base^w.  Data() of the writer is the whole buffer; what  *)
(* is passed on is cut at Length(), as a user of it must.                  *)
(***************************************************************************)
EXTENDS Naturals, Sequences

CONSTANTS
    Base,           \* values of a byte
    Capacity,       \* size of the writer's buffer
    Texts,          \* strings and byte slices that are written
    MaxItems        \* bound: values written

Byte == 0..(Base - 1)
Width == {1, 2, 4, 8}

\* How many values w bytes have.
Base2 == Base * Base
Base4 == Base2 * Base2
Values(w) == CASE w = 1 -> Base [] w = 2 -> Base2 [] w = 4 -> Base4 [] w = 8 -> Base4 * Base4

ASSUME StreamConstants ==
    /\ Base \in Nat \ {0, 1}
    /\ Capacity \in Nat /\ MaxItems \in Nat
    /\ Texts \subseteq Seq(Byte)

VARIABLES
    order,          \* "big" or "little"
    buff, pos,      \* the fields of the stream in use
    side,           \* "write", or "read" once the bytes are passed on
    sent, back      \* what was written and what was read (history): an
                    \* integer v as <<v>>, a text as the sequence of its bytes

streamVars == <<order, buff, pos, side, sent, back>>

StreamInit ==
    /\ order \in {"big", "little"}
    /\ buff = [i \in 1..Capacity |-> 0]
    /\ pos = 0
    /\ side = "write"
    /\ sent = <<>> /\ back = <<>>

Left == Len(buff) - pos

\* binary.BigEndian and binary.LittleEndian: an integer of 2 * n bytes is two of
\* n bytes, the high one first or last.
Join(hi, lo) == IF order = "big" THEN hi \o lo ELSE lo \o hi
High(b, n) == IF order = "big" THEN SubSeq(b, 1, n) ELSE SubSeq(b, n + 1, 2 * n)
Low(b, n) == IF order = "big" THEN SubSeq(b, n + 1, 2 * n) ELSE SubSeq(b, 1, n)

Put2(v) == Join(<<v \div Base>>, <<v % Base>>)
Put4(v) == Join(Put2(v \div Base2), Put2(v % Base2))
Put8(v) == Join(Put4(v \div Base4), Put4(v % Base4))
Get2(b) == High(b, 1)[1] * Base + Low(b, 1)[1]
Get4(b) == Get2(High(b, 2)) * Base2 + Get2(Low(b, 2))
Get8(b) == Get4(High(b, 4)) * Base4 + Get4(Low(b, 4))

Encode(w, v) == CASE w = 1 -> <<v>> [] w = 2 -> Put2(v) [] w = 4 -> Put4(v) [] w = 8 -> Put8(v)
Decode(b) == CASE Len(b) = 1 -> b[1] [] Len(b) = 2 -> Get2(b) [] Len(b) = 4 -> Get4(b) [] Len(b) = 8 -> Get8(b)

\* Bytes at the cursor, replaced or looked at.
Patched(bytes) ==
    [i \in DOMAIN buff |-> IF i \in (pos + 1)..(pos + Len(bytes)) THEN bytes[i - pos] ELSE buff[i]]
Ahead(n) == SubSeq(buff, pos + 1, pos + n)

----------------------------------------------------------------------------
(* Writing.                                                                *)

Writes(kind, v, bytes) ==
    /\ buff' = Patched(bytes)
    /\ pos' = pos + Len(bytes)
    /\ sent' = Append(sent, [kind |-> kind, size |-> Len(bytes), value |-> v])
    /\ UNCHANGED <<order, side, back>>

\* WriteByte, WriteUint16, WriteUint32, WriteUint64.
WriteUint(w, v) ==
    /\ side = "write" /\ Len(sent) < MaxItems
    /\ Left >= w
    /\ Writes("uint", <<v>>, Encode(w, v))

WriteBuff(b) ==
    /\ side = "write" /\ Len(sent) < MaxItems
    /\ Left >= Len(b)
    /\ Writes("buff", b, b)

\* A prefix that counts the two bytes of the length as well.
WriteStringLong(s) ==
    /\ side = "write" /\ Len(sent) < MaxItems
    /\ Left >= 2 + Len(s)
    /\ Writes("string", s, Encode(2, (Len(s) + 2) % Base2) \o s)

\* The length as a uint16, then the bytes.
WriteString(s) ==
    /\ side = "write" /\ Len(sent) < MaxItems
    /\ Left >= 2 + Len(s)
    /\ Writes("string", s, Encode(2, Len(s) % Base2) \o s)

\* There is room for the length and not for the bytes: the length stays in
\* the stream, and WriteString returns an error.
WriteStringFails(s) ==
    /\ side = "write" /\ Len(sent) < MaxItems
    /\ Left >= 2 /\ Left < 2 + Len(s)
    /\ Writes("half", <<>>, Encode(2, Len(s) % Base2))

\* The writer has finished, or has got an error and gives up.
PassOn ==
    /\ side = "write"
    /\ side' = "read"
    /\ buff' = SubSeq(buff, 1, pos)
    /\ pos' = 0
    /\ UNCHANGED <<order, sent, back>>

----------------------------------------------------------------------------
(* Reading what comes next, by the type it was written with.               *)

Reads(n, ok, v) ==
    /\ pos' = pos + n
    /\ back' = Append(back, [ok |-> ok, value |-> v])
    /\ UNCHANGED <<order, buff, side, sent>>

Upcoming == sent[Len(back) + 1]

Expects(kinds) ==
    /\ side = "read"
    /\ Len(back) < Len(sent)
    /\ Upcoming.kind \in kinds

\* ReadByte, ReadUint16, ReadUint32, ReadUint64.
ReadUint ==
    /\ Expects({"uint"})
    /\ Left >= Upcoming.size
    /\ Reads(Upcoming.size, TRUE, <<Decode(Ahead(Upcoming.size))>>)

ReadBuff ==
    /\ Expects({"buff"})
    /\ Left >= Upcoming.size
    /\ Reads(Upcoming.size, TRUE, Ahead(Upcoming.size))

\* ReadString; a length that runs over the end is an error, with the two
\* bytes of the length consumed.
ReadString ==
    /\ Expects({"string", "half"})
    /\ Left >= 2
    /\ LET n == Decode(Ahead(2)) IN
        IF Left - 2 >= n
        THEN Reads(2 + n, TRUE, SubSeq(buff, pos + 3, pos + 2 + n))
        ELSE Reads(2, FALSE, <<>>)

\* Values of w bytes in which the order of the bytes shows.
Samples(w) == {0, 1, Base, Values(w) - 1} \cap 0..(Values(w) - 1)

StreamNext ==
    \/ \E w \in Width : \E v \in Samples(w) : WriteUint(w, v)
    \/ \E t \in Texts : WriteBuff(t) \/ WriteString(t) \/ WriteStringFails(t)
    \/ PassOn \/ ReadUint \/ ReadBuff \/ ReadString

StreamBehaviour == StreamInit /\ [][StreamNext]_streamVars

----------------------------------------------------------------------------
(* Properties.                                                             *)

\* Types; the cursor never leaves the buffer.
StreamTypeOK ==
    /\ order \in {"big", "little"}
    /\ buff \in Seq(Byte)
    /\ pos \in 0..Len(buff)
    /\ side \in {"write", "read"}
    /\ Len(back) <= Len(sent)

\* The reader never runs out of bytes for a value that was written, and at
\* the end no byte is left over.
NothingLeftOver ==
    side = "read" =>
        IF Len(back) = Len(sent) THEN Left = 0 ELSE Left >= Upcoming.size

\* What is read is what was written, value by value and whatever mix of types
\* and widths came before, to the last byte; a string whose bytes did not fit
\* is reported by the reader as an error and not as a shorter string.
RoundTrip ==
    /\ \A i \in DOMAIN back :
        /\ back[i].ok = (sent[i].kind # "half")
        /\ back[i].ok => back[i].value = sent[i].value
    /\ NothingLeftOver

=============================================================================
