-------------------------- MODULE SharedPartsProofs -------------------------
(***************************************************************************)
(* The parts that several goroutines share, for any number of goroutines   *)
(* and any bounds: a framed connection, the cache with expiring items, the *)
(* logger and its files, the balancers.  Each has an inductive invariant   *)
(* of its own; the factory of Nacos clients has its proofs in a module of  *)
(* its own, DiscoFactoryProofs.                                            *)
(***************************************************************************)
EXTENDS MCShared, DiscoFactoryProofs, SequenceTheorems, FiniteSetTheorems

----------------------------------------------------------------------------
(* Packets on a connection.                                                *)

\* All bytes of all packets that were framed, one packet after the other, as
\* an endless tape: tape[cut[k] + j] is byte j of packet k.
FrameLen(p) == HeaderSize + Len(p.body)

Taped(ps, tape, cut) ==
    /\ cut[1] = 0 /\ \A k \in Nat : cut[k] \in Nat
    /\ \A k \in 1..Len(ps) : cut[k + 1] = cut[k] + FrameLen(ps[k]) /\ cut[k + 1] <= cut[Len(ps) + 1]
    /\ \A k \in 1..Len(ps) : \A j \in 1..FrameLen(ps[k]) : tape[cut[k] + j] = Frame(ps[k])[j]

\* How many bytes the reader has taken: the packets handled, and the header of
\* the one whose body it waits for.
Taken(cut) == cut[Len(handled) + 1] + IF reader = "payload" THEN HeaderSize ELSE 0

\* What the reader has not taken is on the wire, and then in the hands of the
\* writer that holds w.mu, unless the connection is closed and Write has
\* failed.
Placed(tape, cut) ==
    /\ Taken(cut) + Len(wire) <= cut[Len(framed) + 1]
    /\ \A j \in 1..Len(wire) : wire[j] = tape[Taken(cut) + j]
    /\ ~down \/ wmu # 0 =>
        /\ Taken(cut) + Len(wire) + Len(out) = cut[Len(framed) + 1]
        /\ \A j \in 1..Len(out) : out[j] = tape[Taken(cut) + Len(wire) + j]

\* The bytes are where they belong, as long as somebody reads them.
InPlace == \E tape, cut : Taped(framed, tape, cut) /\ Placed(tape, cut)

\* The header that was read is the one of the packet that is next.
HeadFits ==
    reader = "payload" =>
        /\ Len(handled) < Len(framed)
        /\ LET p == framed[Len(handled) + 1] IN head = [len |-> Len(p.body), cmd |-> p.cmd, sub |-> p.sub]

Answers == {OnMessage(p.cmd, p.sub, p.body) : p \in Packet}

FrameInv ==
    /\ FrameTypeOK
    /\ framed \in Seq(Packet) /\ \A k \in 1..Len(framed) : Len(framed[k].body) <= maxPacketSize
    /\ handled \in Seq(Answers)
    /\ InOrder
    /\ reader = "gone" => down
    /\ reader # "gone" => InPlace /\ HeadFits

\* Division by a positive number.
LEMMA DivMod ==
    ASSUME NEW m \in Nat, NEW n \in Nat \ {0}
    PROVE  m \div n \in Nat /\ m % n \in Nat /\ (m \div n) * n + (m % n) = m
<1>1. m \div n \in Nat
  OBVIOUS
<1>2. m % n \in Nat
  OBVIOUS
<1>3. (m \div n) * n + (m % n) = m
  OBVIOUS
<1> QED
  BY <1>1, <1>2, <1>3

\* The bytes of two sequences put together, and of a part of one.
LEMMA Joined ==
    ASSUME NEW s \in Seq(Nat), NEW t \in Seq(Nat)
    PROVE  /\ s \o t \in Seq(Nat) /\ Len(s \o t) = Len(s) + Len(t)
           /\ \A j \in 1..Len(s) : (s \o t)[j] = s[j]
           /\ \A j \in 1..Len(t) : (s \o t)[Len(s) + j] = t[j]
BY ConcatProperties

LEMMA Sliced ==
    ASSUME NEW s \in Seq(Nat), NEW m \in 0..Len(s)
    PROVE  /\ SubSeq(s, 1, m) \in Seq(Nat) /\ Len(SubSeq(s, 1, m)) = m
           /\ \A j \in 1..m : SubSeq(s, 1, m)[j] = s[j]
           /\ SubSeq(s, m + 1, Len(s)) \in Seq(Nat) /\ Len(SubSeq(s, m + 1, Len(s))) = Len(s) - m
           /\ \A j \in 1..(Len(s) - m) : SubSeq(s, m + 1, Len(s))[j] = s[m + j]
OBVIOUS

\* A frame is a header and the body.
LEMMA FrameBytes ==
    ASSUME NEW p \in Packet
    PROVE  /\ p.body \in Seq(Nat) /\ p.cmd \in Nat /\ p.sub \in Nat /\ Len(p.body) \in Nat
           /\ Frame(p) \in Seq(Nat) /\ Len(Frame(p)) = FrameLen(p) /\ FrameLen(p) = 8 + Len(p.body)
           /\ Frame(p)[1] = Len(p.body) \div LenBase /\ Frame(p)[2] = Len(p.body) % LenBase
           /\ Frame(p)[3] = p.cmd /\ Frame(p)[4] = p.sub
           /\ \A j \in 1..Len(p.body) : Frame(p)[8 + j] = p.body[j]
<1>1. p.body \in Seq(Nat) /\ p.cmd \in Nat /\ p.sub \in Nat /\ Len(p.body) \in Nat
  BY FramingConstants
<1> DEFINE hi == Len(p.body) \div LenBase  lo == Len(p.body) % LenBase
           hd == <<hi, lo, p.cmd, p.sub, 1, 0, 0, 0>>
<1>2. hi \in Nat /\ lo \in Nat
  <2>1. LenBase \in Nat \ {0}
    BY FramingConstants
  <2> QED
    BY <1>1, <2>1, DivMod
<1> HIDE DEF hi, lo
<1>3. hd \in Seq(Nat) /\ Len(hd) = 8 /\ hd[1] = hi /\ hd[2] = lo /\ hd[3] = p.cmd /\ hd[4] = p.sub
  BY <1>1, <1>2
<1>4. Frame(p) = hd \o p.body
  BY DEF Frame, hi, lo
<1> HIDE DEF hd
<1>5. ASSUME NEW h \in Seq(Nat), NEW b \in Seq(Nat), Len(h) = 8, NEW f, f = h \o b
      PROVE  /\ f \in Seq(Nat) /\ Len(f) = 8 + Len(b)
             /\ f[1] = h[1] /\ f[2] = h[2] /\ f[3] = h[3] /\ f[4] = h[4]
             /\ \A j \in 1..Len(b) : f[8 + j] = b[j]
  <2>1. /\ f \in Seq(Nat) /\ Len(f) = Len(h) + Len(b)
        /\ \A j \in 1..Len(h) : f[j] = h[j]
        /\ \A j \in 1..Len(b) : f[Len(h) + j] = b[j]
    BY <1>5, Joined
  <2> QED
    BY ONLY <2>1, Len(h) = 8
<1>6. /\ Frame(p) \in Seq(Nat) /\ Len(Frame(p)) = 8 + Len(p.body)
      /\ Frame(p)[1] = hd[1] /\ Frame(p)[2] = hd[2] /\ Frame(p)[3] = hd[3] /\ Frame(p)[4] = hd[4]
      /\ \A j \in 1..Len(p.body) : Frame(p)[8 + j] = p.body[j]
  BY <1>1, <1>3, <1>4, <1>5, ZenonT(60)
<1> QED
  BY <1>1, <1>3, <1>6 DEF FrameLen, HeaderSize, hi, lo

\* Nothing written.
LEMMA FrameInit_Inv ==
    ASSUME FrameInit
    PROVE  FrameInv
<1> USE DEF FrameInit
<1>1. FrameTypeOK
  <2>1. down \in BOOLEAN
    OBVIOUS
  <2>2. maxPacketSize \in Nat
    <3>1. LenBase \in Nat /\ LenBase * LenBase >= 1
      BY FramingConstants
    <3> QED
      BY <3>1 DEF maxPacketSize
  <2> QED
    BY <2>1, <2>2 DEF FrameTypeOK, NoHead
<1>2. InPlace
  <2> DEFINE tape == [n \in Nat |-> 0]
  <2>1. Taped(framed, tape, tape)
    BY DEF Taped
  <2>2. Placed(tape, tape)
    BY DEF Placed, Taken
  <2> HIDE DEF tape
  <2> QED
    BY <2>1, <2>2 DEF InPlace
<1>3. InOrder /\ HeadFits
  BY DEF InOrder, HeadFits
<1> QED
  BY <1>1, <1>2, <1>3 DEF FrameInv

\* The tape t up to end, and f from there on.
Spliced(u, t, end, f) ==
    /\ \A x \in 0..end : u[x] = t[x]
    /\ \A j \in 1..Len(f) : u[end + j] = f[j]

LEMMA Splice ==
    ASSUME NEW t, NEW end \in Nat, NEW f \in Seq(Nat)
    PROVE  \E u : Spliced(u, t, end, f)
<1> DEFINE u == [x \in Nat |-> IF x <= end THEN t[x] ELSE f[x - end]]
<1>1. \A x \in 0..end : u[x] = t[x]
  OBVIOUS
<1>2. \A j \in 1..Len(f) : u[end + j] = f[j]
  <2>1. \A j \in 1..Len(f) : end + j \in Nat /\ ~(end + j <= end) /\ (end + j) - end = j
    OBVIOUS
  <2> QED
    BY <2>1
<1> HIDE DEF u
<1> QED
  BY <1>1, <1>2 DEF Spliced

\* The tape with a packet more.
Extended(ps, p, tape, cut, tape2, cut2) ==
    /\ Taped(Append(ps, p), tape2, cut2)
    /\ \A k \in 1..(Len(ps) + 1) : cut2[k] = cut[k]
    /\ cut2[Len(ps) + 2] = cut[Len(ps) + 1] + FrameLen(p)
    /\ \A x \in 0..cut[Len(ps) + 1] : tape2[x] = tape[x]
    /\ \A j \in 1..FrameLen(p) : tape2[cut[Len(ps) + 1] + j] = Frame(p)[j]

LEMMA TapeGrows ==
    ASSUME NEW ps \in Seq(Packet), NEW p \in Packet, NEW tape, NEW cut, Taped(ps, tape, cut)
    PROVE  \E tape2, cut2 : Extended(ps, p, tape, cut, tape2, cut2)
<1>2. ASSUME NEW c, \A k \in Nat : c[k] \in Nat, NEW l \in Nat, NEW e \in Nat
      PROVE  \E d : /\ \A k \in Nat : d[k] \in Nat
                    /\ d[l + 2] = e /\ \A k \in 1..(l + 1) : d[k] = c[k]
  <2> DEFINE d == [k \in Nat |-> IF k = l + 2 THEN e ELSE c[k]]
  <2>1. (\A k \in Nat : d[k] \in Nat) /\ d[l + 2] = e /\ \A k \in 1..(l + 1) : d[k] = c[k]
    BY <1>2
  <2> HIDE DEF d
  <2> QED
    BY <2>1
<1>3. Len(ps) \in Nat /\ \A k \in Nat : cut[k] \in Nat
  BY DEF Taped
<1>4. Frame(p) \in Seq(Nat) /\ Len(Frame(p)) = FrameLen(p) /\ FrameLen(p) \in Nat
  BY FrameBytes
<1>5. PICK L \in Nat, end \in Nat : L = Len(ps) /\ end = cut[Len(ps) + 1]
  BY <1>3
<1>6. PICK tape2 : /\ \A x \in 0..end : tape2[x] = tape[x]
                   /\ \A j \in 1..FrameLen(p) : tape2[end + j] = Frame(p)[j]
  <2>1. \E u : Spliced(u, tape, end, Frame(p))
    BY <1>4, Splice
  <2> QED
    BY <1>4, <2>1 DEF Spliced
<1>7. PICK cut2 : /\ \A k \in Nat : cut2[k] \in Nat
                  /\ cut2[L + 2] = end + FrameLen(p)
                  /\ \A k \in 1..(L + 1) : cut2[k] = cut[k]
  <2>1. end + FrameLen(p) \in Nat
    BY <1>4
  <2> QED
    BY <1>2, <1>3, <2>1
<1>8. PICK qs : qs = Append(ps, p)
  OBVIOUS
<1>9. Len(qs) = L + 1 /\ qs[L + 1] = p /\ \A k \in 1..L : qs[k] = ps[k]
  BY <1>5, <1>8
<1>10. \A k \in 1..L : FrameLen(ps[k]) \in Nat
  BY <1>5, FrameBytes
<1>11. /\ cut[1] = 0 /\ \A k \in 1..L : cut[k + 1] = cut[k] + FrameLen(ps[k]) /\ cut[k + 1] <= end
       /\ \A k \in 1..L : \A j \in 1..FrameLen(ps[k]) : tape[cut[k] + j] = Frame(ps[k])[j]
  BY <1>5 DEF Taped
<1>12. \A k \in 1..(L + 1) : cut2[k + 1] = cut2[k] + FrameLen(qs[k]) /\ cut2[k + 1] <= cut2[L + 2]
  <2>1. ASSUME NEW k \in 1..L
        PROVE  cut2[k + 1] = cut2[k] + FrameLen(qs[k]) /\ cut2[k + 1] <= cut2[L + 2]
    <3>1. cut2[k + 1] = cut[k + 1] /\ cut2[k] = cut[k] /\ qs[k] = ps[k] /\ cut[k + 1] \in Nat
      BY <1>3, <1>7, <1>9
    <3>2. cut[k + 1] = cut[k] + FrameLen(ps[k]) /\ cut[k + 1] <= end
      BY <1>11
    <3> QED
      BY <1>4, <1>7, <3>1, <3>2
  <2>2. cut2[L + 2] = cut2[L + 1] + FrameLen(qs[L + 1])
    BY <1>5, <1>7, <1>9
  <2> QED
    BY <2>1, <2>2, <1>7
<1>13. \A k \in 1..(L + 1) : \A j \in 1..FrameLen(qs[k]) : tape2[cut2[k] + j] = Frame(qs[k])[j]
  <2>1. ASSUME NEW k \in 1..L, NEW j \in 1..FrameLen(ps[k])
        PROVE  tape2[cut2[k] + j] = Frame(ps[k])[j]
    <3>1. cut[k] \in Nat /\ FrameLen(ps[k]) \in Nat
      BY <1>3, <1>10
    <3>2. cut2[k] = cut[k] /\ cut[k] + FrameLen(ps[k]) <= end
      <4>1. cut2[k] = cut[k]
        BY <1>7
      <4>2. cut[k + 1] = cut[k] + FrameLen(ps[k]) /\ cut[k + 1] <= end
        BY <1>11
      <4> QED
        BY <4>1, <4>2
    <3>3. cut[k] + j \in 0..end
      BY <3>1, <3>2
    <3> QED
      BY <1>6, <1>11, <3>2, <3>3
  <2>2. ASSUME NEW j \in 1..FrameLen(p)
        PROVE  tape2[cut2[L + 1] + j] = Frame(p)[j]
    <3>1. cut2[L + 1] = end
      BY <1>5, <1>7
    <3> QED
      BY <1>6, <3>1
  <2>3. ASSUME NEW k \in 1..(L + 1), NEW j \in 1..FrameLen(qs[k])
        PROVE  tape2[cut2[k] + j] = Frame(qs[k])[j]
    <3>1. CASE k = L + 1
      BY <1>9, <2>2, <2>3, <3>1
    <3>2. CASE k \in 1..L
      BY <1>9, <2>1, <2>3, <3>2
    <3> QED
      BY <3>1, <3>2
  <2> QED
    BY <2>3
<1>14. Taped(qs, tape2, cut2)
  <2>1. cut2[1] = 0
    BY <1>7, <1>11
  <2> QED
    <3>1. L + 2 = Len(qs) + 1 /\ L + 1 = Len(qs)
      BY <1>9
    <3>2. \A k \in 1..Len(qs) : cut2[k + 1] = cut2[k] + FrameLen(qs[k]) /\ cut2[k + 1] <= cut2[Len(qs) + 1]
      BY <1>12, <3>1
    <3> QED
      BY <1>7, <1>13, <2>1, <3>1, <3>2, Zenon DEF Taped
<1> QED
  BY <1>5, <1>6, <1>7, <1>8, <1>14 DEF Extended

\* What the invariant says of the lengths.
LEMMA FrameLens ==
    ASSUME FrameInv
    PROVE  /\ Len(framed) \in Nat /\ Len(handled) \in Nat /\ Len(handled) <= Len(framed)
           /\ wire \in Seq(Nat) /\ out \in Seq(Nat) /\ Len(wire) \in Nat /\ Len(out) \in Nat
           /\ framed \in Seq(Packet) /\ handled \in Seq(Answers)
           /\ \A k \in 1..Len(framed) : framed[k] \in Packet
<1>1. wire \in Seq(Nat) /\ out \in Seq(Nat) /\ framed \in Seq(Packet) /\ handled \in Seq(Answers)
  BY DEF FrameInv, FrameTypeOK
<1>2. Len(handled) <= Len(framed)
  BY DEF FrameInv, InOrder
<1> QED
  BY <1>1, <1>2

\* Where the reader is on the tape.
LEMMA TakenType ==
    ASSUME FrameInv, NEW tape, NEW cut, Taped(framed, tape, cut)
    PROVE  Taken(cut) \in Nat /\ cut[Len(handled) + 1] \in Nat
           /\ Taken(cut) = cut[Len(handled) + 1] + (IF reader = "payload" THEN 8 ELSE 0)
<1>1. cut[Len(handled) + 1] \in Nat
  BY FrameLens DEF Taped
<1> QED
  BY <1>1 DEF Taken, HeaderSize

\* WritePacket puts a frame at the end of the tape.
LEMMA WritePacketStep ==
    ASSUME FrameInv, NEW w \in Writer, NEW p \in Packet, WritePacket(w, p)
    PROVE  FrameInv'
<1>0. /\ ~down /\ wmu = 0 /\ wmu' = w /\ out' = Frame(p) /\ framed' = Append(framed, p)
      /\ Len(p.body) <= maxPacketSize /\ UNCHANGED <<wire, down, reader, head, handled>>
  BY DEF WritePacket
<1>1. /\ Len(framed) \in Nat /\ Len(handled) \in Nat /\ Len(handled) <= Len(framed)
      /\ wire \in Seq(Nat) /\ Len(wire) \in Nat /\ framed \in Seq(Packet)
  BY FrameLens
<1>2. Frame(p) \in Seq(Nat) /\ Len(Frame(p)) = FrameLen(p) /\ FrameLen(p) \in Nat /\ FrameLen(p) > 0
  BY FrameBytes
<1>3. framed' \in Seq(Packet) /\ Len(framed') = Len(framed) + 1 /\ framed'[Len(framed) + 1] = p
      /\ \A k \in 1..Len(framed) : framed'[k] = framed[k]
  BY <1>0, <1>1
<1>4. FrameTypeOK'
  <2>1. wmu' # 0 /\ out' # <<>> /\ wmu' \in Writer
    BY <1>0, <1>2, FramingConstants
  <2> QED
    BY <1>0, <1>2, <2>1 DEF FrameTypeOK, FrameInv
<1>5. \A k \in 1..Len(framed') : Len(framed'[k].body) <= maxPacketSize
  BY <1>0, <1>1, <1>3 DEF FrameInv
<1>6. InOrder'
  BY <1>0, <1>1, <1>3 DEF FrameInv, InOrder
<1>7. reader # "gone" /\ HeadFits /\ InPlace
  BY <1>0 DEF FrameInv
<1>8. HeadFits'
  BY <1>0, <1>1, <1>3, <1>7 DEF HeadFits
<1>9. InPlace'
  <2>0. PICK tape, cut : Taped(framed, tape, cut) /\ Placed(tape, cut)
    BY <1>7 DEF InPlace
  <2>1. PICK tape2, cut2 : Extended(framed, p, tape, cut, tape2, cut2)
    BY <1>1, <2>0, TapeGrows
  <2>2. Taken(cut) \in Nat /\ Taken(cut2)' = Taken(cut)
    <3>1. cut2[Len(handled) + 1] = cut[Len(handled) + 1]
      BY <1>1, <2>1 DEF Extended
    <3>2. Taken(cut) \in Nat
      BY <2>0, TakenType
    <3> QED
      BY <1>0, <3>1, <3>2 DEF Taken
  <2>3. PICK end \in Nat : end = cut[Len(framed) + 1]
    BY <1>1, <2>0 DEF Taped
  <2>4. out = <<>>
    BY <1>0 DEF FrameInv, FrameTypeOK
  <2>5. Taken(cut) + Len(wire) = end /\ \A j \in 1..Len(wire) : wire[j] = tape[Taken(cut) + j]
    BY <1>0, <1>1, <2>0, <2>2, <2>3, <2>4 DEF Placed
  <2>6. /\ \A x \in 0..end : tape2[x] = tape[x]
        /\ \A j \in 1..FrameLen(p) : tape2[end + j] = Frame(p)[j]
        /\ cut2[Len(framed) + 2] = end + FrameLen(p)
    BY <2>1, <2>3 DEF Extended
  <2>7. \A j \in 1..Len(wire) : wire[j] = tape2[Taken(cut) + j]
    <3>1. \A j \in 1..Len(wire) : Taken(cut) + j \in 0..end
      BY <1>1, <2>2, <2>5
    <3> QED
      BY <2>5, <2>6, <3>1
  <2>8. \A j \in 1..Len(out') : out'[j] = tape2[Taken(cut) + Len(wire) + j]
    BY <1>0, <1>2, <2>5, <2>6
  <2>9. cut2[Len(framed') + 1] = end + FrameLen(p)
    BY <1>1, <1>3, <2>6
  <2>10. Placed(tape2, cut2)'
    <3>1. Taken(cut) + Len(wire) <= end + FrameLen(p)
          /\ Taken(cut) + Len(wire) + Len(out') = end + FrameLen(p)
      BY <1>0, <1>2, <2>5
    <3> QED
      BY <1>0, <2>2, <2>7, <2>8, <2>9, <3>1 DEF Placed
  <2>11. Taped(framed', tape2, cut2)
    BY <1>0, <2>1 DEF Extended
  <2> QED
    BY <2>10, <2>11 DEF InPlace
<1> QED
  BY <1>0, <1>3, <1>4, <1>5, <1>6, <1>7, <1>8, <1>9 DEF FrameInv

\* writeAll moves bytes from the writer to the wire.
LEMMA WriteSomeStep ==
    ASSUME FrameInv, NEW w \in Writer, NEW n \in 1..Len(out), WriteSome(w, n)
    PROVE  FrameInv'
<1>0. /\ ~down /\ wmu = w /\ wire' = wire \o SubSeq(out, 1, n) /\ out' = SubSeq(out, n + 1, Len(out))
      /\ wmu' = IF n = Len(out) THEN 0 ELSE w
      /\ UNCHANGED <<down, reader, head, handled, framed>>
  BY DEF WriteSome
<1>1. wire \in Seq(Nat) /\ out \in Seq(Nat) /\ Len(wire) \in Nat /\ Len(out) \in Nat /\ n \in 0..Len(out)
      /\ Len(framed) \in Nat
  BY FrameLens
<1>2. PICK a : /\ wire' = wire \o a /\ a \in Seq(Nat) /\ Len(a) = n
               /\ \A j \in 1..n : a[j] = out[j]
  <2> DEFINE a == SubSeq(out, 1, n)
  <2>1. a \in Seq(Nat) /\ Len(a) = n /\ \A j \in 1..n : a[j] = out[j]
    BY <1>1, Sliced
  <2>2. wire' = wire \o a
    BY <1>0
  <2> HIDE DEF a
  <2> QED
    BY <2>1, <2>2
<1>b. PICK b : /\ out' = b /\ b \in Seq(Nat) /\ Len(b) = Len(out) - n
               /\ \A j \in 1..(Len(out) - n) : b[j] = out[n + j]
  <2> DEFINE b == SubSeq(out, n + 1, Len(out))
  <2>1. b \in Seq(Nat) /\ Len(b) = Len(out) - n /\ \A j \in 1..(Len(out) - n) : b[j] = out[n + j]
    BY <1>1, Sliced
  <2>2. out' = b
    BY <1>0
  <2> HIDE DEF b
  <2> QED
    BY <2>1, <2>2
<1>3. /\ wire' \in Seq(Nat) /\ Len(wire') = Len(wire) + Len(a)
      /\ \A j \in 1..Len(wire) : wire'[j] = wire[j]
      /\ \A j \in 1..Len(a) : wire'[Len(wire) + j] = a[j]
  BY <1>1, <1>2, Joined, Zenon
<1>4. out' = b /\ Len(out') = Len(out) - n
  BY <1>b
<1>5. FrameTypeOK'
  <2>1. wmu' \in Writer \cup {0} /\ (wmu' = 0 <=> out' = <<>>)
    <3>1. CASE n = Len(out)
      <4>1. Len(out') = 0 /\ wmu' = 0
        BY <1>0, <1>1, <1>4, <3>1
      <4> QED
        BY <1>b, <4>1
    <3>2. CASE n # Len(out)
      <4>1. Len(out') > 0 /\ wmu' = w
        BY <1>0, <1>1, <1>4, <3>2
      <4> QED
        BY <4>1, FramingConstants
    <3> QED
      BY <3>1, <3>2
  <2> QED
    BY <1>0, <1>b, <1>3, <1>4, <2>1 DEF FrameInv, FrameTypeOK
<1>6. reader # "gone" /\ InPlace /\ HeadFits /\ InOrder
  BY <1>0 DEF FrameInv
<1>7. HeadFits' /\ InOrder'
  BY <1>0, <1>6 DEF HeadFits, InOrder
<1>8. InPlace'
  <2>0. PICK tape, cut : Taped(framed, tape, cut) /\ Placed(tape, cut)
    BY <1>6 DEF InPlace
  <2>1. Taken(cut)' = Taken(cut)
    BY <1>0 DEF Taken
  <2>2. PICK at \in Nat : at = Taken(cut)
    BY <2>0, TakenType
  <2>3. /\ \A j \in 1..Len(wire) : wire[j] = tape[at + j]
        /\ at + Len(wire) + Len(out) = cut[Len(framed) + 1]
        /\ \A j \in 1..Len(out) : out[j] = tape[at + Len(wire) + j]
    BY <1>0, <2>0, <2>2 DEF Placed
  <2>4. ASSUME NEW j \in 1..Len(wire') PROVE wire'[j] = tape[at + j]
    <3>1. CASE j \in 1..Len(wire)
      BY <1>3, <2>3, <3>1
    <3>2. CASE ~(j \in 1..Len(wire))
      <4>1. PICK i \in 1..n : j = Len(wire) + i
        <5>1. j - Len(wire) \in 1..n /\ j = Len(wire) + (j - Len(wire))
          BY <1>1, <1>2, <1>3, <3>2
        <5> QED
          BY <5>1
      <4>2. wire'[j] = out[i] /\ out[i] = tape[at + Len(wire) + i]
        <5>1. i \in 1..Len(a) /\ i \in 1..Len(out)
          BY <1>1, <1>2, <4>1
        <5> QED
          BY <1>2, <1>3, <2>3, <4>1, <5>1
      <4>3. at + Len(wire) + i = at + j
        BY <1>1, <4>1
      <4> QED
        BY <4>2, <4>3
    <3> QED
      BY <3>1, <3>2
  <2>5. ASSUME NEW j \in 1..Len(out') PROVE out'[j] = tape[at + Len(wire') + j]
    <3>1. out'[j] = out[n + j] /\ n + j \in 1..Len(out)
      BY <1>1, <1>b, <1>4
    <3>2. out[n + j] = tape[at + Len(wire) + (n + j)]
      BY <2>3, <3>1
    <3>3. at + Len(wire) + (n + j) = at + Len(wire') + j
      BY <1>1, <1>2, <1>3
    <3> QED
      BY <3>1, <3>2, <3>3
  <2>6. at + Len(wire') + Len(out') = cut[Len(framed) + 1] /\ at + Len(wire') <= cut[Len(framed) + 1]
    <3>1. Len(wire') = Len(wire) + n /\ Len(out') = Len(out) - n
      BY <1>2, <1>3, <1>4
    <3>2. at + Len(wire) + Len(out) = cut[Len(framed) + 1]
      BY <2>3
    <3> HIDE <1>2
    <3> QED
      BY <1>1, <3>1, <3>2
  <2>7. Placed(tape, cut)'
    BY <1>0, <2>1, <2>2, <2>4, <2>5, <2>6 DEF Placed
  <2>8. Taped(framed', tape, cut)
    BY <1>0, <2>0
  <2> QED
    BY <2>7, <2>8 DEF InPlace
<1> QED
  BY <1>0, <1>5, <1>6, <1>7, <1>8 DEF FrameInv

\* The reader takes n bytes from the wire.
LEMMA Consumed ==
    ASSUME FrameInv, NEW tape, NEW cut, Taped(framed, tape, cut), Placed(tape, cut), NEW n \in 0..Len(wire),
           wire' = SubSeq(wire, n + 1, Len(wire)), Taken(cut)' = Taken(cut) + n,
           UNCHANGED <<wmu, out, down, framed>>
    PROVE  wire' \in Seq(Nat) /\ Placed(tape, cut)'
<1>1. wire \in Seq(Nat) /\ out \in Seq(Nat) /\ Len(wire) \in Nat /\ Len(out) \in Nat /\ Len(framed) \in Nat
  BY FrameLens
<1>2. /\ wire' \in Seq(Nat) /\ Len(wire') = Len(wire) - n
      /\ \A j \in 1..(Len(wire) - n) : wire'[j] = wire[n + j]
  <2> DEFINE b == SubSeq(wire, n + 1, Len(wire))
  <2>1. b \in Seq(Nat) /\ Len(b) = Len(wire) - n /\ \A j \in 1..(Len(wire) - n) : b[j] = wire[n + j]
    BY <1>1, Sliced
  <2>2. wire' = b
    OBVIOUS
  <2> HIDE DEF b
  <2> QED
    BY <2>1, <2>2
<1>3. PICK at \in Nat : at = Taken(cut)
  BY TakenType
<1>4. PICK end \in Nat : end = cut[Len(framed) + 1]
  BY <1>1 DEF Taped
<1>5. /\ at + Len(wire) <= end
      /\ \A j \in 1..Len(wire) : wire[j] = tape[at + j]
      /\ ~down \/ wmu # 0 => /\ at + Len(wire) + Len(out) = end
                             /\ \A j \in 1..Len(out) : out[j] = tape[at + Len(wire) + j]
  BY <1>3, <1>4 DEF Placed
<1>6. (at + n) + Len(wire') = at + Len(wire)
  BY ONLY <1>1, <1>2, <1>3, n \in 0..Len(wire)
<1>7. ASSUME NEW j \in 1..Len(wire') PROVE wire'[j] = tape[(at + n) + j]
  <2>1. wire'[j] = wire[n + j] /\ n + j \in 1..Len(wire)
    <3>1. j \in 1..(Len(wire) - n)
      BY <1>2
    <3>2. wire'[j] = wire[n + j]
      BY ONLY <1>2, <3>1, Zenon
    <3>3. n + j \in 1..Len(wire)
      BY ONLY <1>1, <3>1, n \in 0..Len(wire)
    <3> QED
      BY <3>2, <3>3
  <2>2. wire[n + j] = tape[at + (n + j)] /\ at + (n + j) = (at + n) + j
    BY <1>5, <2>1
  <2> QED
    BY <2>1, <2>2
<1>8. ~down' \/ wmu' # 0 =>
        /\ (at + n) + Len(wire') + Len(out') = end
        /\ \A j \in 1..Len(out') : out'[j] = tape[(at + n) + Len(wire') + j]
  BY <1>5, <1>6
<1>9. Taken(cut)' = at + n /\ cut[Len(framed') + 1] = end /\ (at + n) + Len(wire') <= end
  BY <1>3, <1>4, <1>5, <1>6
<1> QED
  BY <1>2, <1>7, <1>8, <1>9 DEF Placed

\* The packet that is next to be read, when there are bytes on the wire.
LEMMA NextPacket ==
    ASSUME FrameInv, NEW tape, NEW cut, Taped(framed, tape, cut), Placed(tape, cut),
           reader = "payload" \/ (reader = "header" /\ Len(wire) > 0), HeadFits
    PROVE  LET k == Len(handled) + 1 IN
           /\ k \in 1..Len(framed) /\ framed[k] \in Packet
           /\ cut[k + 1] = cut[k] + FrameLen(framed[k]) /\ cut[k] \in Nat
           /\ \A j \in 1..FrameLen(framed[k]) : tape[cut[k] + j] = Frame(framed[k])[j]
<1>1. /\ Len(framed) \in Nat /\ Len(handled) \in Nat /\ Len(handled) <= Len(framed) /\ Len(wire) \in Nat
      /\ \A k \in 1..Len(framed) : framed[k] \in Packet
  BY FrameLens
<1>2. Len(handled) < Len(framed)
  <2>1. CASE reader = "payload"
    BY <2>1 DEF HeadFits
  <2>2. CASE reader = "header" /\ Len(wire) > 0
    <3>1. cut[Len(handled) + 1] \in Nat /\ cut[Len(handled) + 1] + Len(wire) <= cut[Len(framed) + 1]
      BY <2>2, TakenType DEF Placed
    <3>2. Len(handled) # Len(framed)
      BY <1>1, <2>2, <3>1
    <3> QED
      BY <1>1, <3>2
  <2> QED
    BY <2>1, <2>2
<1>3. PICK k \in Nat : k = Len(handled) + 1 /\ k \in 1..Len(framed)
  BY <1>1, <1>2
<1>4. /\ framed[k] \in Packet /\ cut[k] \in Nat
      /\ cut[k + 1] = cut[k] + FrameLen(framed[k])
      /\ \A j \in 1..FrameLen(framed[k]) : tape[cut[k] + j] = Frame(framed[k])[j]
  BY <1>1, <1>3 DEF Taped
<1> QED
  BY <1>3, <1>4

\* A packet more is handled.
LEMMA HandledOne ==
    ASSUME FrameInv, Len(handled) < Len(framed), framed' = framed,
           LET p == framed[Len(handled) + 1] IN handled' = Append(handled, OnMessage(p.cmd, p.sub, p.body))
    PROVE  InOrder' /\ handled' \in Seq(Answers) /\ Len(handled') = Len(handled) + 1
<1>1. /\ Len(framed) \in Nat /\ Len(handled) \in Nat /\ handled \in Seq(Answers)
      /\ \A k \in 1..Len(framed) : framed[k] \in Packet
  BY FrameLens
<1>2. PICK p \in Packet : p = framed[Len(handled) + 1]
  BY <1>1
<1>3. PICK m \in Answers : m = OnMessage(p.cmd, p.sub, p.body)
  BY <1>2 DEF Answers
<1>4. handled' = Append(handled, m)
  BY <1>2, <1>3
<1>5. /\ handled' \in Seq(Answers) /\ Len(handled') = Len(handled) + 1
      /\ handled'[Len(handled) + 1] = m /\ \A k \in 1..Len(handled) : handled'[k] = handled[k]
      /\ DOMAIN handled' = 1..(Len(handled) + 1) /\ DOMAIN handled = 1..Len(handled)
  BY <1>1, <1>4
<1>6. \A k \in 1..Len(handled) : handled[k] = OnMessage(framed[k].cmd, framed[k].sub, framed[k].body)
  BY <1>5 DEF FrameInv, InOrder
<1>7. ASSUME NEW k \in DOMAIN handled'
      PROVE  handled'[k] = OnMessage(framed[k].cmd, framed[k].sub, framed[k].body)
  <2>1. CASE k = Len(handled) + 1
    BY <1>2, <1>3, <1>5, <2>1
  <2>2. CASE k \in 1..Len(handled)
    BY <1>5, <1>6, <2>2
  <2>3. k = Len(handled) + 1 \/ k \in 1..Len(handled)
    BY <1>1, <1>5
  <2> QED
    BY <2>1, <2>2, <2>3
<1> QED
  BY <1>1, <1>5, <1>7 DEF InOrder

\* ReadPacket up to the body: what is read is the header of the next packet.
LEMMA ReadHeaderStep ==
    ASSUME FrameInv, ReadHeader
    PROVE  FrameInv'
<1>0. /\ reader = "header" /\ Len(wire) >= 8 /\ wire' = SubSeq(wire, 8 + 1, Len(wire))
      /\ UNCHANGED <<wmu, out, down, framed>>
  BY DEF ReadHeader, HeaderSize
<1>1. Len(wire) \in Nat /\ Len(framed) \in Nat /\ Len(handled) \in Nat /\ wire \in Seq(Nat)
      /\ 8 \in 0..Len(wire)
  BY <1>0, FrameLens
<1>2. InPlace /\ HeadFits
  BY <1>0 DEF FrameInv
<1>3. PICK tape, cut : Taped(framed, tape, cut) /\ Placed(tape, cut)
  BY <1>2 DEF InPlace
<1>4. PICK k : /\ k = Len(handled) + 1 /\ k \in 1..Len(framed) /\ framed[k] \in Packet
               /\ cut[k + 1] = cut[k] + FrameLen(framed[k]) /\ cut[k] \in Nat
               /\ \A j \in 1..FrameLen(framed[k]) : tape[cut[k] + j] = Frame(framed[k])[j]
  BY <1>0, <1>1, <1>2, <1>3, NextPacket
<1>5. PICK p \in Packet : p = framed[k]
  BY <1>4
<1>6. PICK len \in Nat : len = Len(p.body) /\ FrameLen(p) = 8 + len /\ p.body \in Seq(Nat)
  BY FrameBytes
<1>7. Taken(cut) = cut[k] /\ Taken(cut) \in Nat
  BY <1>0, <1>3, <1>4, TakenType
<1>8. parseHeader(wire) = [len |-> len, cmd |-> p.cmd, sub |-> p.sub]
  <2>1. \A j \in 1..4 : wire[j] = Frame(p)[j]
    <3>1. \A j \in 1..4 : j \in 1..Len(wire) /\ j \in 1..FrameLen(p)
      BY <1>1, <1>6
    <3>2. \A j \in 1..Len(wire) : wire[j] = tape[cut[k] + j]
      BY <1>3, <1>7 DEF Placed
    <3> QED
      BY <1>4, <1>5, <3>1, <3>2
  <2>2. /\ wire[1] = len \div LenBase /\ wire[2] = len % LenBase /\ wire[3] = p.cmd /\ wire[4] = p.sub
    BY <1>6, <2>1, FrameBytes
  <2>3. LenBase \in Nat \ {0}
    BY FramingConstants
  <2>4. wire[1] * LenBase + wire[2] = len
    BY <2>2, <2>3, DivMod
  <2> QED
    BY <2>2, <2>4 DEF parseHeader
<1>9. len <= maxPacketSize
  BY <1>4, <1>5, <1>6 DEF FrameInv
<1>10. CASE len = 0
  <2>1. handled' = Append(handled, OnMessage(p.cmd, p.sub, <<>>)) /\ UNCHANGED <<reader, head>>
    BY <1>8, <1>10 DEF ReadHeader
  <2>2. p.body = <<>>
    BY <1>6, <1>10, EmptySeq
  <2>3. handled' = Append(handled, OnMessage(p.cmd, p.sub, p.body))
    BY <2>1, <2>2
  <2>4. InOrder' /\ handled' \in Seq(Answers) /\ Len(handled') = Len(handled) + 1
    BY <1>0, <1>1, <1>4, <1>5, <2>3, HandledOne
  <2>5. Taken(cut)' = Taken(cut) + 8
    <3>1. Len(handled') + 1 = k + 1 /\ reader' = "header"
      BY <1>0, <1>1, <1>4, <2>1, <2>4
    <3>2. cut[k + 1] = cut[k] + 8 /\ cut[k + 1] \in Nat
      <4>1. cut[k + 1] = cut[k] + FrameLen(p) /\ FrameLen(p) = 8
        BY <1>4, <1>5, <1>6, <1>10
      <4> QED
        BY <1>4, <4>1
    <3> QED
      BY <1>7, <3>1, <3>2 DEF Taken
  <2>6. wire' \in Seq(Nat) /\ Placed(tape, cut)'
    BY <1>0, <1>1, <1>3, <2>5, Consumed
  <2>7. InPlace' /\ HeadFits'
    <3>1. Taped(framed', tape, cut)
      BY <1>0, <1>3
    <3>2. HeadFits'
      BY <1>0, <2>1 DEF HeadFits
    <3> QED
      BY <2>6, <3>1, <3>2 DEF InPlace
  <2>8. FrameTypeOK'
    BY <1>0, <2>1, <2>6 DEF FrameInv, FrameTypeOK
  <2> QED
    BY <1>0, <2>1, <2>4, <2>7, <2>8 DEF FrameInv
<1>11. CASE len # 0
  <2>1. head' = [len |-> len, cmd |-> p.cmd, sub |-> p.sub] /\ reader' = "payload" /\ handled' = handled
    BY <1>8, <1>11 DEF ReadHeader
  <2>2. Taken(cut)' = Taken(cut) + 8
    BY <1>4, <1>7, <2>1 DEF Taken, HeaderSize
  <2>3. wire' \in Seq(Nat) /\ Placed(tape, cut)'
    BY <1>0, <1>1, <1>3, <2>2, Consumed
  <2>4. InPlace'
    <3>1. Taped(framed', tape, cut)
      BY <1>0, <1>3
    <3> QED
      BY <2>3, <3>1 DEF InPlace
  <2>5. HeadFits'
    <3>1. Len(handled) < Len(framed)
      BY <1>1, <1>4
    <3> QED
      BY <1>0, <1>4, <1>5, <1>6, <2>1, <3>1 DEF HeadFits
  <2>6. FrameTypeOK'
    <3>1. head'.len \in 0..maxPacketSize
      <4>1. maxPacketSize \in Int
        BY FramingConstants DEF maxPacketSize
      <4> QED
        BY <1>9, <2>1, <4>1
    <3> QED
      BY <1>0, <2>1, <2>3, <3>1 DEF FrameInv, FrameTypeOK
  <2>7. InOrder'
    BY <1>0, <2>1 DEF FrameInv, InOrder
  <2> QED
    BY <1>0, <2>1, <2>4, <2>5, <2>6, <2>7 DEF FrameInv
<1> QED
  BY <1>10, <1>11

\* The rest of ReadPacket: what is read is the body that belongs to the header.
LEMMA ReadPayloadStep ==
    ASSUME FrameInv, ReadPayload
    PROVE  FrameInv'
<1>0. /\ reader = "payload" /\ Len(wire) >= head.len
      /\ handled' = Append(handled, OnMessage(head.cmd, head.sub, SubSeq(wire, 1, head.len)))
      /\ head' = NoHead /\ reader' = "header" /\ wire' = SubSeq(wire, head.len + 1, Len(wire))
      /\ UNCHANGED <<wmu, out, down, framed>>
  BY DEF ReadPayload
<1>1. Len(wire) \in Nat /\ Len(framed) \in Nat /\ Len(handled) \in Nat /\ wire \in Seq(Nat)
  BY FrameLens
<1>2. InPlace /\ HeadFits
  BY <1>0 DEF FrameInv
<1>3. PICK tape, cut : Taped(framed, tape, cut) /\ Placed(tape, cut)
  BY <1>2 DEF InPlace
<1>4. PICK k : /\ k = Len(handled) + 1 /\ k \in 1..Len(framed) /\ framed[k] \in Packet
               /\ cut[k + 1] = cut[k] + FrameLen(framed[k]) /\ cut[k] \in Nat
               /\ \A j \in 1..FrameLen(framed[k]) : tape[cut[k] + j] = Frame(framed[k])[j]
  BY <1>0, <1>1, <1>2, <1>3, NextPacket
<1>5. PICK p \in Packet : p = framed[k]
  BY <1>4
<1>6. PICK len \in Nat : /\ len = Len(p.body) /\ FrameLen(p) = 8 + len /\ p.body \in Seq(Nat)
                         /\ \A j \in 1..len : Frame(p)[8 + j] = p.body[j]
  BY FrameBytes
<1>7. Taken(cut) = cut[k] + 8
  BY <1>0, <1>3, <1>4, TakenType
<1>8. head.len = len /\ head.cmd = p.cmd /\ head.sub = p.sub /\ len \in 0..Len(wire)
  <2>1. head = [len |-> len, cmd |-> p.cmd, sub |-> p.sub]
    BY <1>0, <1>2, <1>4, <1>5, <1>6 DEF HeadFits
  <2> QED
    BY <1>0, <1>1, <2>1
<1>9. SubSeq(wire, 1, len) = p.body
  <2>1. PICK b : /\ b = SubSeq(wire, 1, len) /\ b \in Seq(Nat) /\ Len(b) = len
                 /\ \A j \in 1..len : b[j] = wire[j]
    <3> DEFINE b == SubSeq(wire, 1, len)
    <3>1. b \in Seq(Nat) /\ Len(b) = len /\ \A j \in 1..len : b[j] = wire[j]
      BY <1>1, <1>8, Sliced
    <3> HIDE DEF b
    <3>2. \E c : c = b /\ c \in Seq(Nat) /\ Len(c) = len /\ \A j \in 1..len : c[j] = wire[j]
      BY <3>1
    <3> QED
      BY <3>2 DEF b
  <2>2. ASSUME NEW j \in 1..len PROVE b[j] = p.body[j]
    <3>1. wire[j] = tape[(cut[k] + 8) + j]
      <4>1. j \in 1..Len(wire)
        BY <1>1, <1>8
      <4> QED
        BY <1>3, <1>7, <4>1 DEF Placed
    <3>2. (cut[k] + 8) + j = cut[k] + (8 + j) /\ 8 + j \in 1..FrameLen(p)
      <4>1. cut[k] \in Nat /\ FrameLen(p) = 8 + len
        BY <1>4, <1>6
      <4> QED
        BY ONLY <4>1, len \in Nat, j \in 1..len
    <3>3. tape[cut[k] + (8 + j)] = Frame(p)[8 + j]
      BY <1>4, <1>5, <3>2
    <3> QED
      BY <1>6, <2>1, <3>1, <3>2, <3>3
  <2>3. b = p.body
    <3>1. \A j \in 1..Len(b) : b[j] = p.body[j]
      BY <2>1, <2>2
    <3> QED
      BY <1>6, <2>1, <3>1, SeqEqual
  <2> QED
    BY <2>1, <2>3
<1>10. handled' = Append(handled, OnMessage(p.cmd, p.sub, p.body))
  BY <1>0, <1>8, <1>9
<1>11. InOrder' /\ handled' \in Seq(Answers) /\ Len(handled') = Len(handled) + 1
  BY <1>0, <1>1, <1>4, <1>5, <1>10, HandledOne
<1>12. Taken(cut)' = Taken(cut) + len
  <2>1. Len(handled') + 1 = k + 1
    BY <1>1, <1>4, <1>11
  <2>2. cut[k + 1] = (cut[k] + 8) + len /\ cut[k + 1] \in Nat
    BY <1>4, <1>5, <1>6
  <2> QED
    BY <1>0, <1>7, <2>1, <2>2 DEF Taken
<1>13. wire' = SubSeq(wire, len + 1, Len(wire))
  BY <1>0, <1>8
<1>14. wire' \in Seq(Nat) /\ Placed(tape, cut)'
  BY <1>0, <1>3, <1>8, <1>12, <1>13, Consumed
<1>15. InPlace' /\ HeadFits'
  <2>1. Taped(framed', tape, cut)
    BY <1>0, <1>3
  <2>2. HeadFits'
    BY <1>0 DEF HeadFits
  <2> QED
    BY <1>14, <2>1, <2>2 DEF InPlace
<1>16. FrameTypeOK'
  <2>1. head'.len \in 0..maxPacketSize
    <3>1. maxPacketSize \in Nat
      <4>1. LenBase \in Nat /\ LenBase * LenBase >= 1
        BY FramingConstants
      <4> QED
        BY <4>1 DEF maxPacketSize
    <3> QED
      BY <1>0, <3>1 DEF NoHead
  <2> QED
    BY <1>0, <1>14, <2>1 DEF FrameInv, FrameTypeOK
<1> QED
  BY <1>0, <1>11, <1>15, <1>16 DEF FrameInv

\* Close, and the errors that follow from it.
LEMMA ClosingStep ==
    ASSUME FrameInv, Shut \/ ReadFails \/ \E w \in Writer : WriteFails(w)
    PROVE  FrameInv'
<1>0. /\ UNCHANGED <<wire, head, handled, framed>> /\ down'
      /\ \/ UNCHANGED <<wmu, out>>
         \/ wmu' = 0 /\ out' = <<>>
      /\ reader' = reader \/ reader' = "gone"
  BY DEF Shut, ReadFails, WriteFails
<1>1. down' \in BOOLEAN
  BY DEF Shut, ReadFails, WriteFails, FrameInv, FrameTypeOK
<1>2. FrameTypeOK'
  <2>1. wmu' \in Writer \cup {0} /\ (wmu' = 0 <=> out' = <<>>) /\ out' \in Seq(Nat)
    <3>1. CASE UNCHANGED <<wmu, out>>
      BY <3>1 DEF FrameInv, FrameTypeOK
    <3>2. CASE wmu' = 0 /\ out' = <<>>
      BY <3>2
    <3> QED
      BY <1>0, <3>1, <3>2
  <2>2. reader' \in {"header", "payload", "gone"}
    BY <1>0 DEF FrameInv, FrameTypeOK
  <2>3. wire' \in Seq(Nat) /\ head'.len \in 0..maxPacketSize
    BY <1>0 DEF FrameInv, FrameTypeOK
  <2> QED
    BY <1>1, <2>1, <2>2, <2>3, Zenon DEF FrameTypeOK
<1>3. InOrder'
  BY <1>0 DEF FrameInv, InOrder
<1>4. ASSUME reader' # "gone" PROVE InPlace' /\ HeadFits'
  <2>1. reader' = reader /\ InPlace /\ HeadFits
    BY <1>0, <1>4 DEF FrameInv
  <2>2. PICK tape, cut : Taped(framed, tape, cut) /\ Placed(tape, cut)
    BY <2>1 DEF InPlace
  <2>3. Taped(framed', tape, cut) /\ Taken(cut)' = Taken(cut)
    BY <1>0, <2>1, <2>2 DEF Taken
  <2>4. Placed(tape, cut)'
    <3>1. ~down \/ wmu # 0 \/ wmu' = 0
      BY <1>0
    <3> QED
      BY <1>0, <2>2, <2>3, <3>1 DEF Placed
  <2> QED
    BY <1>0, <2>1, <2>3, <2>4 DEF InPlace, HeadFits
<1> QED
  BY <1>0, <1>2, <1>3, <1>4 DEF FrameInv

\* The invariant is kept.
LEMMA FrameKept ==
    ASSUME FrameInv, [FrameNext]_frameVars
    PROVE  FrameInv'
<1>1. CASE FrameNext
  BY <1>1, WritePacketStep, WriteSomeStep, ReadHeaderStep, ReadPayloadStep, ClosingStep
     DEF FrameNext, FrameStep
<1>2. CASE UNCHANGED frameVars
  <2>1. InPlace => InPlace'
    BY <1>2 DEF frameVars, InPlace, Placed, Taken
  <2> QED
    BY <1>2, <2>1 DEF frameVars, FrameInv, FrameTypeOK, InOrder, HeadFits
<1> QED
  BY <1>1, <1>2

\* The invariant, of every behaviour of the connection.
LEMMA FrameInvAlways == FrameBehaviour => []FrameInv
<1>1. FrameInit => FrameInv
  BY FrameInit_Inv
<1>2. FrameInv /\ [FrameNext]_frameVars => FrameInv'
  BY FrameKept
<1> QED
  BY <1>1, <1>2, PTL DEF FrameBehaviour

\* The reader never waits for more than a packet can hold, and what a writer
\* has still to write is there exactly while it holds w.mu, for any packets
\* and any width of the length (tcp_reader.go:109-126, tcp_writer.go:25-73).
THEOREM FrameTypeCorrect == FrameBehaviour => []FrameTypeOK
<1>1. FrameInv => FrameTypeOK
  BY DEF FrameInv
<1> QED
  BY <1>1, FrameInvAlways, PTL

\* However many writers interleave, in whatever pieces the bytes travel and
\* whenever the connection is closed: the handlers get the packets in the
\* order in which they were written, each whole and once
\* (tcp_reader.go:109-139, tcp_writer.go:39-58).
THEOREM InOrderAlways == FrameBehaviour => []InOrder
<1>1. FrameInv => InOrder
  BY DEF FrameInv
<1> QED
  BY <1>1, FrameInvAlways, PTL

----------------------------------------------------------------------------
(* The cache with expiring items.                                          *)

\* A Get that looks at an item has read it from the map; what is under its key
\* by now is this item or a newer one.  An item about to be deleted has
\* expired.
Reading ==
    \A u \in User : user[u].pc # "idle" =>
        /\ user[u].item \in 1..made
        /\ user[u].pc = "delete" => user[u].item \in expired
        /\ store[user[u].key] = 0 \/ user[u].item <= store[user[u].key]

InMemInv == InMemTypeOK /\ Reading

\* A goroutine that is not in Get.
LEMMA IdleType ==
    ASSUME Name # {}
    PROVE  Idle \in [pc : {"idle"}, key : Name, item : {0}]
BY DEF Idle

\* An empty cache.
LEMMA InMemInit_Inv ==
    ASSUME Name # {}, InMemInit
    PROVE  InMemInv
<1>1. Idle.pc = "idle" /\ Idle.key \in Name /\ Idle.item = 0
  BY IdleType
<1>2. made \in 0..MaxItems /\ store \in [Name -> 0..made]
  BY InMemConstants DEF InMemInit
<1>3. user \in [User -> [pc : {"idle", "check", "delete"}, key : Name, item : 0..made]]
  BY IdleType DEF InMemInit
<1>4. {shut, closeCh} \subseteq BOOLEAN
  BY DEF InMemInit
<1>5. Reading
  BY <1>1 DEF InMemInit, Reading
<1> QED
  BY <1>1, <1>2, <1>3, <1>4, <1>5 DEF InMemInit, InMemInv, InMemTypeOK

\* Delete, Get, Close and the cleaner have this in common: each key keeps its
\* item or has none.
LEMMA StoreShrinks ==
    ASSUME InMemInv, made' = made, expired' = expired, store' \in [Name -> 0..made],
           \A k \in Name : store'[k] \in {0, store[k]}
    PROVE  /\ \A j, k \in Name : store'[j] = store'[k] /\ store'[j] # 0 => j = k
           /\ (\A k \in Name : store[k] = 0) => \A k \in Name : store'[k] = 0
           /\ \A k \in Name, x \in Nat : x <= store[k] => store'[k] = 0 \/ x <= store'[k]
BY DEF InMemInv, InMemTypeOK

\* Only Set brings an item into the map, and a newer one than any that a Get
\* has in hand.
LEMMA InMemStep ==
    ASSUME Name # {}, InMemInv, InMemNext
    PROVE  InMemInv'
<1> USE DEF InMemInv, InMemTypeOK, Reading
<1>0. Idle \in [pc : {"idle"}, key : Name, item : {0}]
  BY IdleType
<1>1. ASSUME NEW u \in User, GetCheck(u) PROVE InMemInv'
  BY <1>0, <1>1 DEF GetCheck
<1>2. ASSUME NEW u \in User, GetDelete(u) PROVE InMemInv'
  <2>1. store' \in [Name -> 0..made] /\ \A k \in Name : store'[k] \in {0, store[k]}
    BY <1>2 DEF GetDelete
  <2>2. user' \in [User -> [pc : {"idle", "check", "delete"}, key : Name, item : 0..made]]
    BY <1>0, <1>2 DEF GetDelete
  <2>3. UNCHANGED <<made, expired, shut, closeCh, cleaner, now>>
    BY <1>2 DEF GetDelete
  <2>4. Reading'
    BY <1>0, <1>2, <2>1, <2>3 DEF GetDelete
  <2> QED
    BY <2>1, <2>2, <2>3, <2>4, StoreShrinks
<1>3. ASSUME NEW u \in User, Close(u) PROVE InMemInv'
  <2>1. {shut', closeCh'} \subseteq BOOLEAN
    BY <1>3 DEF Close
  <2>2. \A k \in Name : store'[k] = 0
    BY <1>3 DEF Close
  <2> QED
    BY <1>3, <2>1, <2>2 DEF Close
<1>4. ASSUME NEW u \in User, NEW k \in Name, GetRead(u, k) PROVE InMemInv'
  BY <1>4 DEF GetRead
<1>5. ASSUME NEW u \in User, NEW k \in Name, Set(u, k) PROVE InMemInv'
  <2>1. made' = made + 1 /\ made' \in 0..MaxItems /\ ~shut'
    BY <1>5, InMemConstants DEF Set
  <2>2. store' \in [Name -> 0..made'] /\ \A j \in Name : store'[j] = IF j = k THEN made + 1 ELSE store[j]
    BY <1>5 DEF Set
  <2>3. user' \in [User -> [pc : {"idle", "check", "delete"}, key : Name, item : 0..made']]
    BY <1>5, <2>1 DEF Set
  <2>4. UNCHANGED <<expired, shut, closeCh, user, cleaner, now>>
    BY <1>5 DEF Set
  <2>5. Reading'
    BY <2>1, <2>2, <2>4
  <2>6. \A j, i \in Name : store'[j] = store'[i] /\ store'[j] # 0 => j = i
    BY <2>1, <2>2
  <2> QED
    BY <2>1, <2>2, <2>3, <2>4, <2>5, <2>6
<1>6. ASSUME NEW u \in User, NEW k \in Name, Delete(u, k) PROVE InMemInv'
  <2>1. store' \in [Name -> 0..made] /\ \A j \in Name : store'[j] \in {0, store[j]}
    BY <1>6 DEF Delete
  <2>2. UNCHANGED <<made, expired, shut, closeCh, user, cleaner, now>>
    BY <1>6 DEF Delete
  <2> QED
    BY <2>1, <2>2, StoreShrinks
<1>7. ASSUME NEW x \in Item, Elapse(x) PROVE InMemInv'
  BY <1>7 DEF Elapse, Item
<1>8. CASE CleanTick
  BY <1>8 DEF CleanTick
<1>9. CASE CleanSweep
  <2>1. store' \in [Name -> 0..made] /\ \A j \in Name : store'[j] \in {0, store[j]}
    BY <1>9 DEF CleanSweep
  <2>2. UNCHANGED <<made, expired, shut, closeCh, user>> /\ cleaner' = "select" /\ now' = {}
    BY <1>9 DEF CleanSweep
  <2> QED
    BY <2>1, <2>2, StoreShrinks
<1>10. CASE CleanExit
  BY <1>10 DEF CleanExit
<1> QED
  BY <1>1, <1>2, <1>3, <1>4, <1>5, <1>6, <1>7, <1>8, <1>9, <1>10 DEF InMemNext

\* The same with stuttering.
LEMMA InMemKept ==
    ASSUME Name # {}, InMemInv, [InMemNext]_inmemVars
    PROVE  InMemInv'
<1>1. CASE InMemNext
  BY <1>1, InMemStep
<1>2. CASE UNCHANGED inmemVars
  BY <1>2 DEF inmemVars, InMemInv, InMemTypeOK, Reading
<1> QED
  BY <1>1, <1>2

\* The invariant, of every behaviour of the cache.
LEMMA InMemInvAlways ==
    ASSUME Name # {}
    PROVE  InMemBehaviour => []InMemInv
<1>1. InMemInit => InMemInv
  BY InMemInit_Inv
<1>2. InMemInv /\ [InMemNext]_inmemVars => InMemInv'
  BY InMemKept
<1> QED
  BY <1>1, <1>2, PTL DEF InMemBehaviour

\* In a closed cache there is nothing and nothing comes, and no item is under
\* two keys, however the calls of any number of goroutines and the cleaner
\* interleave (inmem.go:57-59, 93-95).
THEOREM InMemTypeCorrect ==
    ASSUME Name # {}
    PROVE  InMemBehaviour => []InMemTypeOK
<1>1. InMemInv => InMemTypeOK
  BY DEF InMemInv
<1> QED
  BY <1>1, InMemInvAlways, PTL

\* An item that has not expired is lost only by Delete, Close or a Get that
\* deletes what was set over the expired item it had read (inmem.go:36-38),
\* whatever any number of goroutines and the cleaner do at once.
THEOREM LossExplainedAlways ==
    ASSUME Name # {}
    PROVE  InMemBehaviour => LossExplained
<1> DEFINE Explained(k) ==
        store[k] # 0 /\ store'[k] = 0 /\ store[k] \notin expired /\ ~shut' =>
            \E u \in User :
                \/ Delete(u, k)
                \/ /\ user[u].pc = "delete" /\ user'[u].pc = "idle" /\ user[u].key = k
                   /\ user[u].item \in expired /\ user[u].item < store[k]
<1>1. ASSUME InMemInv, InMemNext, NEW k \in Name PROVE Explained(k)
  <2> USE <1>1 DEF InMemInv, InMemTypeOK, Reading
  <2>0. Idle.pc = "idle"
    BY IdleType
  <2>1. ASSUME NEW u \in User, GetCheck(u) PROVE Explained(k)
    BY <2>1 DEF GetCheck
  <2>2. ASSUME NEW u \in User, GetDelete(u) PROVE Explained(k)
    <3>1. user[u].pc = "delete" /\ user'[u].pc = "idle" /\ user[u].item \in expired
      BY <2>0, <2>2 DEF GetDelete
    <3>2. CASE user[u].key = k
      <4>1. store[k] # 0 /\ store[k] \notin expired => user[u].item < store[k]
        BY <3>1, <3>2
      <4> QED
        BY <3>1, <3>2, <4>1
    <3>3. CASE user[u].key # k
      BY <2>2, <3>3 DEF GetDelete
    <3> QED
      BY <3>2, <3>3
  <2>3. ASSUME NEW u \in User, Close(u) PROVE Explained(k)
    BY <2>3 DEF Close
  <2>4. ASSUME NEW u \in User, NEW j \in Name, GetRead(u, j) PROVE Explained(k)
    BY <2>4 DEF GetRead
  <2>5. ASSUME NEW u \in User, NEW j \in Name, Set(u, j) PROVE Explained(k)
    BY <2>5 DEF Set
  <2>6. ASSUME NEW u \in User, NEW j \in Name, Delete(u, j) PROVE Explained(k)
    <3>1. CASE j = k
      BY <2>6, <3>1
    <3>2. CASE j # k
      BY <2>6, <3>2 DEF Delete
    <3> QED
      BY <3>1, <3>2
  <2>7. ASSUME NEW x \in Item, Elapse(x) PROVE Explained(k)
    BY <2>7 DEF Elapse
  <2>8. CASE CleanTick \/ CleanExit
    BY <2>8 DEF CleanTick, CleanExit
  <2>9. CASE CleanSweep
    BY <2>9 DEF CleanSweep
  <2> QED
    BY <2>1, <2>2, <2>3, <2>4, <2>5, <2>6, <2>7, <2>8, <2>9 DEF InMemNext
<1>2. InMemInv /\ [InMemNext]_inmemVars => [\A k \in Name : Explained(k)]_inmemVars
  BY <1>1
<1> QED
  BY <1>2, InMemInvAlways, PTL DEF InMemBehaviour, LossExplained

----------------------------------------------------------------------------
(* The logger and its files.                                               *)

\* A file without a handle that nobody is opening has never been opened, or
\* its latest Open has failed; a line is written to a file only.
Opened ==
    /\ \A f \in File : opener[f] = "none" /\ ~handle[f] => checkFlag[f] = 0 \/ f \in failed
    /\ \A g \in Logging : line[g].at = "write" => target \in File

\* An open file that the timer knows of is in one place only: being opened, once
\* in the queue, or on the list.
InOnePlace ==
    /\ \A i, j \in 1..Len(filePipeline) : filePipeline[i] = filePipeline[j] => i = j
    /\ \A i \in 1..Len(filePipeline) :
        /\ opener[filePipeline[i]] = "none" /\ filePipeline[i] \notin fileList
        /\ checkFlag[filePipeline[i]] # 0
    /\ \A f \in fileList : opener[f] = "none" /\ checkFlag[f] # 0
    /\ \A f \in File : opener[f] # "none" => checkFlag[f] # 0

LogInv == LogTypeOK /\ Opened /\ InOnePlace

\* A new logger, and no file open.
LEMMA LoggerInit_Inv ==
    ASSUME LoggerInit
    PROVE  LogInv
<1> USE DEF LoggerInit, RollInit, LevelInfo, LevelAlert, Line
<1>1. RollTypeOK
  <2>1. handle \in [File -> BOOLEAN] /\ opener \in [File -> {"none", "app", "timer"}]
    OBVIOUS
  <2> QED
    BY <2>1, RollingConstants DEF RollTypeOK
<1>2. line \in [Logging -> [at : {"idle", "wait", "write", "lost"}, fatal : BOOLEAN]]
  OBVIOUS
<1>3. Opened
  BY DEF Opened
<1>4. exited \in BOOLEAN
  OBVIOUS
<1>5. InOnePlace
  BY DEF InOnePlace
<1> QED
  BY <1>1, <1>2, <1>3, <1>4, <1>5, SMT DEF LogInv, LogTypeOK

\* The files of a queue without repetitions, after one more joins at its end.
LEMMA JoinApart ==
    ASSUME NEW q \in Seq(File), NEW f \in File, \A i \in 1..Len(q) : q[i] # f,
           \A i, j \in 1..Len(q) : q[i] = q[j] => i = j, NEW r, r = Append(q, f)
    PROVE  /\ \A i, j \in 1..Len(r) : r[i] = r[j] => i = j
           /\ \A i \in 1..Len(r) : r[i] = f \/ \E j \in 1..Len(q) : r[i] = q[j]
<1>1. Len(r) = Len(q) + 1 /\ r[Len(q) + 1] = f /\ \A i \in 1..Len(q) : r[i] = q[i]
  OBVIOUS
<1>2. \A i \in 1..Len(r) : i \in 1..Len(q) \/ i = Len(q) + 1
  BY <1>1
<1>3. \A i, j \in 1..Len(r) : r[i] = r[j] => i = j
  <2> SUFFICES ASSUME NEW i \in 1..Len(r), NEW j \in 1..Len(r), r[i] = r[j]
               PROVE  i = j
    OBVIOUS
  <2>1. CASE i \in 1..Len(q) /\ j \in 1..Len(q)
    BY <1>1, <2>1
  <2>2. CASE i \in 1..Len(q) /\ j = Len(q) + 1
    BY <1>1, <2>2
  <2>3. CASE i = Len(q) + 1 /\ j \in 1..Len(q)
    BY <1>1, <2>3
  <2> QED
    BY <1>2, <2>1, <2>2, <2>3
<1>4. \A i \in 1..Len(r) : r[i] = f \/ \E j \in 1..Len(q) : r[i] = q[j]
  BY <1>1, <1>2
<1> QED
  BY <1>3, <1>4

\* The same after the first of them leaves.
LEMMA LeaveApart ==
    ASSUME NEW q \in Seq(File), q # <<>>,
           \A i, j \in 1..Len(q) : q[i] = q[j] => i = j, NEW r, r = Tail(q)
    PROVE  /\ \A i, j \in 1..Len(r) : r[i] = r[j] => i = j
           /\ \A i \in 1..Len(r) : r[i] # q[1] /\ \E j \in 1..Len(q) : r[i] = q[j]
<1>1. Len(q) \in Nat /\ Len(r) \in Nat /\ Len(q) = Len(r) + 1
      /\ \A i \in 1..Len(r) : r[i] = q[i + 1]
  OBVIOUS
<1>2. \A i \in 1..Len(r) : i + 1 \in 1..Len(q) /\ i + 1 # 1
  BY <1>1
<1>3. \A i, j \in 1..Len(r) : r[i] = r[j] => i = j
  <2> SUFFICES ASSUME NEW i \in 1..Len(r), NEW j \in 1..Len(r), r[i] = r[j]
               PROVE  i = j
    OBVIOUS
  <2>1. q[i + 1] = q[j + 1]
    BY <1>1
  <2>2. i + 1 = j + 1
    BY <1>2, <2>1
  <2> QED
    BY <2>2
<1>4. 1 \in 1..Len(q)
  BY <1>1
<1>5. \A i \in 1..Len(r) : r[i] # q[1] /\ \E j \in 1..Len(q) : r[i] = q[j]
  BY <1>1, <1>2, <1>4
<1> QED
  BY <1>3, <1>5

\* What Open does to the queue keeps it within its capacity.
LEMMA OfferFits ==
    ASSUME filePipeline \in Seq(File), Len(filePipeline) <= Cap, NEW f \in File, Offer(f)
    PROVE  filePipeline' \in Seq(File) /\ Len(filePipeline') <= Cap
<1>1. CASE Len(filePipeline) < Cap
  BY <1>1, RollingConstants DEF Offer
<1>2. CASE Len(filePipeline) = Cap
  BY <1>2, RollingConstants DEF Offer
<1> QED
  BY <1>1, <1>2, RollingConstants

\* The begin of an Open, by the program or by the timer.
LEMMA BeginOpens ==
    ASSUME RollTypeOK, NEW f \in File, NEW who \in {"app", "timer"}, OpenBegin(f, who)
    PROVE  /\ opener' \in [File -> {"none", "app", "timer"}]
           /\ handle' \in [File -> BOOLEAN] /\ checkFlag' \in [File -> 0..MaxDay]
           /\ failed' = failed /\ dropped' = dropped /\ opener'[f] # "none" /\ checkFlag'[f] # 0
           /\ \A e \in File \ {f} : /\ opener'[e] = opener[e] /\ handle'[e] = handle[e]
                                    /\ checkFlag'[e] = checkFlag[e]
<1>1. handle' \in [File -> BOOLEAN]
  BY DEF OpenBegin, RollTypeOK
<1>2. opener' \in [File -> {"none", "app", "timer"}] /\ opener'[f] # "none"
  BY DEF OpenBegin, RollTypeOK
<1>3. checkFlag' \in [File -> 0..MaxDay] /\ checkFlag'[f] # 0
  BY RollingConstants DEF OpenBegin, RollTypeOK
<1>4. \A e \in File \ {f} : /\ opener'[e] = opener[e] /\ handle'[e] = handle[e]
                             /\ checkFlag'[e] = checkFlag[e]
  BY DEF OpenBegin, RollTypeOK
<1> QED
  BY <1>1, <1>2, <1>3, <1>4 DEF OpenBegin

\* A step of the files.
LEMMA RollStep ==
    ASSUME LogInv, RollNext, UNCHANGED logVars
    PROVE  LogInv'
<1> USE DEF LogInv, LogTypeOK, RollTypeOK, Opened
<1>0. UNCHANGED <<level, target, line, exited>>
  BY DEF logVars
<1>a. filePipeline \in Seq(File) /\ \A i \in 1..Len(filePipeline) : filePipeline[i] \in File
  OBVIOUS
<1>b. ASSUME NEW f \in File, NEW who \in {"app", "timer"}, OpenBegin(f, who),
             UNCHANGED filePipeline, fileList' \subseteq fileList \ {f},
             \A i \in 1..Len(filePipeline) : filePipeline[i] # f
      PROVE  InOnePlace'
  <2>1. /\ checkFlag'[f] # 0
        /\ \A e \in File \ {f} : opener'[e] = opener[e] /\ checkFlag'[e] = checkFlag[e]
    BY <1>b, BeginOpens
  <2>2. \A i \in 1..Len(filePipeline) : filePipeline[i] \in File \ {f}
    BY <1>a, <1>b
  <2>3. fileList' \subseteq File \ {f}
    BY <1>b
  <2> QED
    BY <1>b, <2>1, <2>2, <2>3 DEF InOnePlace
<1>1. ASSUME NEW f \in File, AppOpens(f) PROVE LogInv'
  <2>1. OpenBegin(f, "app") /\ UNCHANGED <<filePipeline, fileList, todo, today>> /\ checkFlag[f] = 0
    BY <1>1 DEF AppOpens
  <2>2. InOnePlace'
    <3>1. f \notin fileList /\ \A i \in 1..Len(filePipeline) : filePipeline[i] # f
      BY <2>1 DEF InOnePlace
    <3> QED
      BY <1>b, <2>1, <3>1
  <2> QED
    BY <1>0, <2>1, <2>2, BeginOpens
<1>2. ASSUME NEW f \in File, Roll(f) PROVE LogInv'
  <2>1. /\ OpenBegin(f, "timer") /\ UNCHANGED <<filePipeline, today>>
        /\ todo' = todo \ {f} /\ fileList' = fileList \ {f} /\ f \in fileList
    BY <1>2 DEF Roll
  <2>2. InOnePlace'
    <3>1. \A i \in 1..Len(filePipeline) : filePipeline[i] # f
      BY <2>1 DEF InOnePlace
    <3> QED
      BY <1>b, <2>1, <3>1
  <2> QED
    BY <1>0, <2>1, <2>2, BeginOpens
<1>3. ASSUME NEW f \in File, OpenFile(f) PROVE LogInv'
  <2>0. UNCHANGED <<filePipeline, fileList, todo, checkFlag, dropped, today>>
    BY <1>3 DEF OpenFile
  <2>1. CASE /\ handle' = [handle EXCEPT ![f] = TRUE] /\ failed' = failed \ {f}
             /\ UNCHANGED opener
    <3>1. handle' \in [File -> BOOLEAN]
      BY <2>1
    <3>2. \A e \in File : opener'[e] = "none" /\ ~handle'[e] => checkFlag'[e] = 0 \/ e \in failed'
      BY <1>3, <2>0, <2>1 DEF OpenFile
    <3> QED
      BY <1>0, <2>0, <2>1, <3>1, <3>2 DEF InOnePlace
  <2>2. CASE /\ failed' = failed \cup {f} /\ opener' = [opener EXCEPT ![f] = "none"]
             /\ UNCHANGED handle
    <3>1. InOnePlace'
      BY <1>a, <2>0, <2>2 DEF InOnePlace
    <3> QED
      BY <1>0, <2>0, <2>2, <3>1
  <2> QED
    BY <1>3, <2>1, <2>2 DEF OpenFile
<1>4. ASSUME NEW f \in File, OpenEnd(f) PROVE LogInv'
  <2>0. /\ UNCHANGED <<fileList, todo, handle, checkFlag, failed, today>> /\ Offer(f)
        /\ opener' = [opener EXCEPT ![f] = "none"] /\ opener[f] # "none" /\ handle[f]
    BY <1>4 DEF OpenEnd
  <2>1. filePipeline' \in Seq(File) /\ Len(filePipeline') <= Cap
    BY <2>0, OfferFits
  <2>2. dropped' \subseteq File
    BY <2>0 DEF Offer
  <2>3. InOnePlace'
    <3>1. f \notin fileList /\ \A i \in 1..Len(filePipeline) : filePipeline[i] # f
      BY <2>0 DEF InOnePlace
    <3>2. checkFlag[f] # 0
      BY <2>0 DEF InOnePlace
    <3>3. CASE filePipeline' = filePipeline
      BY <1>a, <2>0, <3>1, <3>3 DEF InOnePlace
    <3>4. CASE filePipeline' = Append(filePipeline, f)
      <4>1. \A i, j \in 1..Len(filePipeline) : filePipeline[i] = filePipeline[j] => i = j
        BY DEF InOnePlace
      <4>2. /\ \A i, j \in 1..Len(filePipeline') : filePipeline'[i] = filePipeline'[j] => i = j
            /\ \A i \in 1..Len(filePipeline') :
                filePipeline'[i] = f \/ \E j \in 1..Len(filePipeline) : filePipeline'[i] = filePipeline[j]
        BY ONLY <1>a, <1>4, <3>1, <3>4, <4>1, JoinApart
      <4>3. ASSUME NEW i \in 1..Len(filePipeline'), filePipeline'[i] = f
            PROVE  /\ opener'[filePipeline'[i]] = "none" /\ filePipeline'[i] \notin fileList'
                   /\ checkFlag'[filePipeline'[i]] # 0
        BY <2>0, <3>1, <3>2, <4>3
      <4>4. ASSUME NEW i \in 1..Len(filePipeline'), NEW j \in 1..Len(filePipeline),
                   filePipeline'[i] = filePipeline[j]
            PROVE  /\ opener'[filePipeline'[i]] = "none" /\ filePipeline'[i] \notin fileList'
                   /\ checkFlag'[filePipeline'[i]] # 0
        <5>1. /\ filePipeline[j] \in File /\ opener[filePipeline[j]] = "none"
              /\ filePipeline[j] \notin fileList /\ checkFlag[filePipeline[j]] # 0
          BY <1>a DEF InOnePlace
        <5> QED
          BY <2>0, <4>4, <5>1
      <4>5. \A i \in 1..Len(filePipeline') :
                /\ opener'[filePipeline'[i]] = "none" /\ filePipeline'[i] \notin fileList'
                /\ checkFlag'[filePipeline'[i]] # 0
        BY <4>2, <4>3, <4>4, Zenon
      <4>6. \A e \in fileList' : opener'[e] = "none" /\ checkFlag'[e] # 0
        BY <2>0 DEF InOnePlace
      <4>7. \A e \in File : opener'[e] # "none" => checkFlag'[e] # 0
        BY <2>0 DEF InOnePlace
      <4> QED
        BY <4>2, <4>5, <4>6, <4>7, Zenon DEF InOnePlace
    <3> QED
      BY <2>0, <3>3, <3>4 DEF Offer
  <2>4. \A e \in File : opener'[e] = "none" /\ ~handle'[e] => checkFlag'[e] = 0 \/ e \in failed'
    BY <2>0
  <2> QED
    BY <1>0, <2>0, <2>1, <2>2, <2>3, <2>4
<1>5. CASE Receive
  <2>1. /\ filePipeline' \in Seq(File) /\ Len(filePipeline') = Len(filePipeline) - 1
        /\ Len(filePipeline) # 0 /\ filePipeline[1] \in File
        /\ \A i \in 1..Len(filePipeline') : filePipeline'[i] = filePipeline[i + 1]
    BY <1>5, RollingConstants DEF Receive
  <2>2. /\ UNCHANGED <<todo, handle, checkFlag, opener, failed, dropped, today>>
        /\ fileList' = fileList \cup {filePipeline[1]}
    BY <1>5 DEF Receive
  <2>3. InOnePlace'
    <3>1. \A i, j \in 1..Len(filePipeline) : filePipeline[i] = filePipeline[j] => i = j
      BY DEF InOnePlace
    <3>2. 1 \in 1..Len(filePipeline)
      BY <2>1
    <3>3. filePipeline # <<>> /\ filePipeline' = Tail(filePipeline)
      BY <1>5 DEF Receive
    <3>4. /\ \A i, j \in 1..Len(filePipeline') : filePipeline'[i] = filePipeline'[j] => i = j
          /\ \A i \in 1..Len(filePipeline') :
                /\ filePipeline'[i] # filePipeline[1]
                /\ \E j \in 1..Len(filePipeline) : filePipeline'[i] = filePipeline[j]
      BY ONLY <1>a, <3>1, <3>3, LeaveApart
    <3>7. \A i \in 1..Len(filePipeline') :
                /\ opener'[filePipeline'[i]] = "none" /\ filePipeline'[i] \notin fileList'
                /\ checkFlag'[filePipeline'[i]] # 0
      <4> SUFFICES ASSUME NEW i \in 1..Len(filePipeline')
                   PROVE  /\ opener'[filePipeline'[i]] = "none" /\ filePipeline'[i] \notin fileList'
                          /\ checkFlag'[filePipeline'[i]] # 0
        OBVIOUS
      <4>1. PICK j \in 1..Len(filePipeline) : filePipeline'[i] = filePipeline[j]
        BY <3>4, Zenon
      <4>2. /\ opener[filePipeline[j]] = "none"
            /\ filePipeline[j] \notin fileList /\ checkFlag[filePipeline[j]] # 0
        BY DEF InOnePlace
      <4>3. filePipeline'[i] # filePipeline[1]
        BY <3>4, Zenon
      <4> QED
        BY ONLY <2>2, <4>1, <4>2, <4>3
    <3>5. \A e \in fileList' : opener'[e] = "none" /\ checkFlag'[e] # 0
      BY <2>2, <3>2 DEF InOnePlace
    <3>6. \A e \in File : opener'[e] # "none" => checkFlag'[e] # 0
      BY <2>2 DEF InOnePlace
    <3> QED
      BY <3>4, <3>5, <3>6, <3>7, Zenon DEF InOnePlace
  <2> QED
    BY <1>0, <2>1, <2>2, <2>3, RollingConstants
<1>6. CASE TimerTick
  BY <1>0, <1>6 DEF TimerTick, InOnePlace
<1>7. CASE Midnight
  BY <1>0, <1>7, RollingConstants DEF Midnight, InOnePlace
<1> QED
  BY <1>1, <1>2, <1>3, <1>4, <1>5, <1>6, <1>7 DEF RollNext

\* A step of the logger.
LEMMA LogStep ==
    ASSUME LogInv, LogNext
    PROVE  LogInv'
<1> USE DEF LogInv, LogTypeOK, Opened
<1>0. ASSUME UNCHANGED rollVars
      PROVE  RollTypeOK' /\ InOnePlace' /\ UNCHANGED <<opener, handle, checkFlag, failed>>
  BY <1>0 DEF RollTypeOK, InOnePlace, rollVars
<1> DEFINE Lines == [at : {"idle", "wait", "write", "lost"}, fatal : BOOLEAN]
<1>1. CASE RollNext /\ UNCHANGED logVars
  BY <1>1, RollStep
<1>2. ASSUME NEW name \in LevelName, SetLevel(name) PROVE LogInv'
  <2>1. level' \in 0..LevelAlert
    BY <1>2 DEF SetLevel, MappingLevelWithName, LevelDebug, LevelInfo, LevelWarning, LevelError,
       LevelFatal, LevelAlert
  <2> QED
    BY <1>0, <1>2, <2>1 DEF SetLevel
<1>3. ASSUME NEW f \in File, SetOutput(f) PROVE LogInv'
  BY <1>0, <1>3 DEF SetOutput
<1>4. ASSUME NEW g \in Logging, NEW at \in {"idle", "lost"}, Returned(g, at)
      PROVE  line' \in [Logging -> Lines] /\ exited' \in BOOLEAN
             /\ \A h \in Logging : line'[h].at = "write" => line[h].at = "write"
  BY <1>4 DEF Returned, Line
<1>5. ASSUME NEW g \in Logging, BeginWrite(g) PROVE LogInv'
  <2>0. UNCHANGED <<rollVars, level, target>>
    BY <1>5 DEF BeginWrite
  <2>1. CASE \E at \in {"idle", "lost"} : Returned(g, at)
    BY <1>0, <1>4, <2>0, <2>1
  <2>2. CASE target # Stderr /\ line' = [line EXCEPT ![g].at = "write"] /\ UNCHANGED exited
    <3>1. line' \in [Logging -> Lines]
      BY <2>2
    <3> QED
      BY <1>0, <2>0, <2>2, <3>1
  <2> QED
    BY <1>5, <2>1, <2>2 DEF BeginWrite
<1>6. ASSUME NEW g \in Logging, WriteLine(g) PROVE LogInv'
  <2>1. UNCHANGED <<rollVars, level, target>> /\ \E at \in {"idle", "lost"} : Returned(g, at)
    BY <1>6 DEF WriteLine
  <2> QED
    BY <1>0, <1>4, <2>1
<1>7. ASSUME NEW g \in Logging, NEW lvl \in LevelDebug..LevelAlert, Output(g, lvl) PROVE LogInv'
  <2>1. (lvl = LevelFatal) \in BOOLEAN
    OBVIOUS
  <2>2. \E l \in Lines : line' = [line EXCEPT ![g] = l] /\ l.at # "write"
    <3>1. Line("wait", lvl = LevelFatal) \in Lines /\ Line("wait", lvl = LevelFatal).at # "write"
      BY <2>1 DEF Line
    <3>2. Line("idle", FALSE) \in Lines /\ Line("idle", FALSE).at # "write"
      BY DEF Line
    <3> QED
      BY <1>7, <3>1, <3>2 DEF Output
  <2>3. exited' \in BOOLEAN
    BY <1>7, <2>1 DEF Output
  <2>4. line' \in [Logging -> Lines] /\ \A h \in Logging : line'[h].at = "write" => line[h].at = "write"
    BY <2>2
  <2> QED
    BY <1>0, <1>7, <2>3, <2>4 DEF Output
<1> QED
  BY <1>1, <1>2, <1>3, <1>5, <1>6, <1>7 DEF LogNext

\* The same with stuttering.
LEMMA LogKept ==
    ASSUME LogInv, [LogNext]_<<rollVars, logVars>>
    PROVE  LogInv'
<1>1. CASE LogNext
  BY <1>1, LogStep
<1>2. CASE UNCHANGED <<rollVars, logVars>>
  BY <1>2 DEF rollVars, logVars, LogInv, LogTypeOK, RollTypeOK, Opened, InOnePlace
<1> QED
  BY <1>1, <1>2

\* The invariant, of every behaviour of the logger.
LEMMA LogInvAlways == LoggerBehaviour => []LogInv
<1>1. LoggerInit => LogInv
  BY LoggerInit_Inv
<1>2. LogInv /\ [LogNext]_<<rollVars, logVars>> => LogInv'
  BY LogKept
<1> QED
  BY <1>1, <1>2, PTL DEF LoggerBehaviour

\* The queue of the timer keeps to its capacity and a tick visits registered
\* files only, for any number of files and goroutines (rolling.go:33-66).
THEOREM LogTypeCorrect == LoggerBehaviour => []LogTypeOK
<1>1. LogInv => LogTypeOK
  BY DEF LogInv
<1> QED
  BY <1>1, LogInvAlways, PTL

\* No registration is given up when there are no more files than the queue has
\* places (16 in the code, rolling.go:81-84): a file is never in the queue
\* twice, so that the others cannot fill it.
THEOREM NoneDropped ==
    ASSUME IsFiniteSet(File), Cardinality(File) <= Cap
    PROVE  LoggerBehaviour => [](dropped = {})
<1>1. ASSUME LogInv, dropped = {}, NEW f \in File, OpenEnd(f) PROVE dropped' = {}
  <2>1. /\ filePipeline \in Seq(File) /\ Len(filePipeline) <= Cap /\ opener[f] # "none" /\ Offer(f)
        /\ Cap \in Nat \ {0}
    BY <1>1, RollingConstants DEF LogInv, LogTypeOK, RollTypeOK, OpenEnd
  <2>2. ASSUME Len(filePipeline) = Cap PROVE FALSE
    <3>1. filePipeline \in [1..Cap -> File \ {f}]
      BY <1>1, <2>1, <2>2 DEF LogInv, InOnePlace
    <3>2. IsFiniteSet(File \ {f}) /\ Cardinality(File \ {f}) = Cardinality(File) - 1
      BY FS_RemoveElement
    <3>3. IsFiniteSet(1..Cap) /\ Cardinality(1..Cap) = Cap
      BY <2>1, FS_Interval
    <3>4. Cardinality(File) \in Nat
      BY FS_CardinalityType
    <3>5. Cardinality(File \ {f}) < Cardinality(1..Cap)
      BY <2>1, <3>2, <3>3, <3>4
    <3>6. \E i, j \in 1..Cap : i # j /\ filePipeline[i] = filePipeline[j]
      BY <3>1, <3>2, <3>3, <3>5, FS_PigeonHole
    <3> QED
      BY <1>1, <2>2, <3>6 DEF LogInv, InOnePlace
  <2> QED
    BY <1>1, <2>1, <2>2 DEF Offer
<1>2. LogInv /\ dropped = {} /\ [LogNext]_<<rollVars, logVars>> => (dropped = {})'
  BY <1>1 DEF LogNext, RollNext, AppOpens, Roll, OpenBegin, OpenFile, Receive, TimerTick, Midnight,
     SetLevel, SetOutput, BeginWrite, WriteLine, Output, rollVars
<1>3. LoggerInit => dropped = {}
  BY DEF LoggerInit, RollInit
<1> QED
  BY <1>2, <1>3, LogInvAlways, PTL DEF LoggerBehaviour

\* A line that passes the filter is lost only while its file is being opened,
\* or because the file has never been opened or its latest Open has failed
\* (rolling.go:89), for any number of files, goroutines and days.
THEOREM LineLossExplainedAlways == LoggerBehaviour => LineLossExplained
<1> DEFINE Explained(g) ==
        line[g].at # "lost" /\ line'[g].at = "lost"
            => checkFlag[target] = 0 \/ opener[target] # "none" \/ target \in failed
<1>1. ASSUME LogInv, LogNext, NEW g \in Logging PROVE Explained(g)
  <2> USE <1>1 DEF LogInv, LogTypeOK, Opened
  <2>1. CASE UNCHANGED line
    BY <2>1
  <2>2. ASSUME NEW h \in Logging, BeginWrite(h) PROVE Explained(g)
    <3>1. CASE target # Stderr /\ ~handle[target]
      BY <3>1
    <3>2. CASE ~(target # Stderr /\ ~handle[target])
      BY <2>2, <3>2 DEF BeginWrite, Returned, Line
    <3> QED
      BY <3>1, <3>2
  <2>3. ASSUME NEW h \in Logging, WriteLine(h) PROVE Explained(g)
    <3>1. target \in File
      BY <2>3 DEF WriteLine
    <3>2. CASE ~handle[target]
      BY <3>1, <3>2
    <3>3. CASE handle[target]
      BY <2>3, <3>3 DEF WriteLine, Returned, Line
    <3> QED
      BY <3>2, <3>3
  <2>4. ASSUME NEW h \in Logging, NEW lvl \in LevelDebug..LevelAlert, Output(h, lvl) PROVE Explained(g)
    BY <2>4 DEF Output, Line
  <2> QED
    BY <2>1, <2>2, <2>3, <2>4 DEF LogNext, logVars, SetLevel, SetOutput
<1>2. LogInv /\ [LogNext]_<<rollVars, logVars>> => [\A g \in Logging : Explained(g)]_<<rollVars, logVars>>
  BY <1>1
<1> QED
  BY <1>2, LogInvAlways, PTL DEF LoggerBehaviour, LineLossExplained

----------------------------------------------------------------------------
(* The balancers.                                                          *)

PCs == {"done", "get", "lookup", "save json", "save text", "load", "store", "index", "bind"}
Results == {"none", "instance", "client error", "unmarshal error", "no hosts", "panic"}

Calls == [pc : PCs, svc : Service, str : Stream, old : Nat, inst : Int, result : Results, fresh : BOOLEAN]

\* Where a Resolve is, and what it knows there.
InPick ==
    \A c \in Client :
        /\ call[c].pc \in {"store", "index"} => Size[call[c].svc] > 0
        /\ call[c].pc = "bind" \/ call[c].result = "instance" => call[c].inst \in 0..(Size[call[c].svc] - 1)
        /\ call[c].pc # "done" => call[c].fresh /\ call[c].result = "none"

\* Another goroutine than c has called Resolve.
Accompanied(c) == \E d \in Client \ {c} : call[d] # NoCall

\* A goroutine that is alone reads the index that it has stored.
Solo ==
    \A c \in Client :
        /\ call[c].pc = "index" => nextIndex = Successor(c) \/ Accompanied(c)
        /\ call[c].result = "panic" => Accompanied(c)

BalancerInv ==
    /\ svcConf \in [Service -> {"empty", "json", "text"}]
    /\ bound \in [Streams -> Int]
    /\ \A s \in Service, t \in Stream : bound[<<s, t>>] \in {Unbound} \cup 0..(Size[s] - 1)
    /\ nextIndex \in Nat /\ calls \in 0..MaxCalls
    /\ call \in [Client -> Calls]
    /\ InPick /\ Solo

\* A goroutine that has not called Resolve.
LEMMA NoCallType ==
    ASSUME Service # {}, Stream # {}
    PROVE  /\ NoCall \in Calls /\ NoCall.pc = "done" /\ NoCall.result = "none"
           /\ NoCall.old = 0 /\ NoCall.inst = 0
<1>1. NoCall.svc \in Service /\ NoCall.str \in Stream
  BY DEF NoCall
<1>2. NoCall.fresh \in BOOLEAN
  BY DEF NoCall
<1> QED
  BY <1>1, <1>2 DEF NoCall, Calls, PCs, Results

\* The remainder of a division by a positive number is below it.
LEMMA SuccessorInRange ==
    ASSUME NEW c \in Client, call \in [Client -> Calls], Size[call[c].svc] > 0
    PROVE  Successor(c) \in 0..(Size[call[c].svc] - 1)
<1>1. ASSUME NEW m \in Nat, NEW n \in Nat, n > 0
      PROVE  m % n \in 0..(n - 1)
  BY <1>1
<1>2. call[c].old + 1 \in Nat /\ Size[call[c].svc] \in Nat
  BY BalancerConstants DEF Calls
<1> QED
  BY <1>1, <1>2 DEF Successor

\* What the call of c may become in a step that leaves nextIndex alone.
Fits(c, v) ==
    /\ v \in Calls /\ v # NoCall /\ v.pc # "index"
    /\ v.pc = "store" => Size[v.svc] > 0
    /\ v.pc = "bind" \/ v.result = "instance" => v.inst \in 0..(Size[v.svc] - 1)
    /\ v.pc # "done" => v.fresh /\ v.result = "none"
    /\ v.result = "panic" => Accompanied(c)

\* A step of c changes its call and no other; to all others it is company.
LEMMA CallMoves ==
    ASSUME BalancerInv, NEW c \in Client, NEW v \in Calls, v # NoCall, call' = [call EXCEPT ![c] = v]
    PROVE  /\ call' \in [Client -> Calls]
           /\ \A d \in Client : call'[d] = IF d = c THEN v ELSE call[d]
           /\ Accompanied(c) <=> Accompanied(c)'
           /\ \A d \in Client \ {c} : Accompanied(d)'
BY DEF BalancerInv, Accompanied

LEMMA CallStep ==
    ASSUME BalancerInv, NEW c \in Client, NEW v, Fits(c, v), call' = [call EXCEPT ![c] = v],
           nextIndex' = nextIndex
    PROVE  call' \in [Client -> Calls] /\ InPick' /\ Solo'
<1>1. /\ call' \in [Client -> Calls]
      /\ \A d \in Client : call'[d] = IF d = c THEN v ELSE call[d]
      /\ Accompanied(c) <=> Accompanied(c)'
      /\ \A d \in Client \ {c} : Accompanied(d)'
  BY CallMoves DEF Fits
<1>2. InPick'
  BY <1>1 DEF InPick, BalancerInv, Fits
<1>3. Solo'
  BY <1>1 DEF Solo, BalancerInv, Fits
<1> QED
  BY <1>1, <1>2, <1>3

\* An empty configuration, and nobody in Resolve.
LEMMA BalancerInit_Inv ==
    ASSUME Service # {}, Stream # {}, BalancerInit
    PROVE  BalancerInv
<1>1. NoCall \in Calls /\ NoCall.pc = "done" /\ NoCall.result = "none"
  BY NoCallType
<1>2. call = [c \in Client |-> NoCall]
  BY DEF BalancerInit
<1>3. call \in [Client -> Calls] /\ InPick /\ Solo
  BY <1>1, <1>2 DEF InPick, Solo
<1> QED
  BY <1>3, BalancerConstants DEF BalancerInit, BalancerInv, Streams, Unbound

\* Every step of Resolve keeps the invariant.
LEMMA BalancerStep ==
    ASSUME Service # {}, Stream # {}, BalancerInv, BalancerNext
    PROVE  BalancerInv'
<1> USE DEF BalancerInv
<1>0. \A c \in Client : call[c] \in Calls
  OBVIOUS
<1>n. /\ NoCall \in Calls /\ NoCall.pc = "done" /\ NoCall.result = "none"
      /\ NoCall.old = 0 /\ NoCall.inst = 0
  BY NoCallType
<1>g. ASSUME NEW c \in Client, NEW pc \in {"lookup", "save json", "save text", "load"},
             call[c].pc # "done", Goto(c, pc), nextIndex' = nextIndex
      PROVE  call' \in [Client -> Calls] /\ InPick' /\ Solo'
  <2> DEFINE v == [call[c] EXCEPT !.pc = pc]
  <2>1. call' = [call EXCEPT ![c] = v]
    BY <1>g DEF Goto
  <2>2. Fits(c, v)
    BY <1>g, <1>0, <1>n DEF Fits, InPick, Solo, Calls, PCs
  <2> QED
    BY <1>g, <2>1, <2>2, CallStep
<1>r. ASSUME NEW c \in Client, NEW res \in Results \ {"none", "instance", "panic"},
             Return(c, res), nextIndex' = nextIndex
      PROVE  call' \in [Client -> Calls] /\ InPick' /\ Solo'
  <2> DEFINE v == [call[c] EXCEPT !.pc = "done", !.result = res]
  <2>1. call' = [call EXCEPT ![c] = v]
    BY <1>r DEF Return
  <2>2. Fits(c, v)
    BY <1>r, <1>0, <1>n DEF Fits, Calls, PCs, Results
  <2> QED
    BY <1>r, <2>1, <2>2, CallStep
<1>1. ASSUME NEW c \in Client, ClientFails(c) PROVE BalancerInv'
  BY <1>1, <1>r DEF ClientFails, Results
<1>2. ASSUME NEW c \in Client, GetConfig(c) PROVE BalancerInv'
  <2>1. UNCHANGED <<svcConf, bound, nextIndex, calls>> /\ call[c].pc # "done"
        /\ call[c].svc \in Service
    BY <1>2, <1>0 DEF GetConfig, At, Calls
  <2>2. \/ Goto(c, "lookup") \/ Goto(c, "save text") \/ Return(c, "unmarshal error")
    BY <1>2, <2>1 DEF GetConfig
  <2> QED
    BY <2>1, <2>2, <1>g, <1>r DEF Results
<1>3. ASSUME NEW c \in Client, GetService(c) PROVE BalancerInv'
  BY <1>3, <1>g DEF GetService, At
<1>4. ASSUME NEW c \in Client, SaveJson(c) PROVE BalancerInv'
  BY <1>4, <1>g DEF SaveJson, At
<1>5. ASSUME NEW c \in Client, SaveText(c) PROVE BalancerInv'
  BY <1>5, <1>g DEF SaveText, At
<1>6. ASSUME NEW c \in Client, PickEmpty(c) PROVE BalancerInv'
  BY <1>6, <1>r DEF PickEmpty, Results
<1>7. ASSUME NEW c \in Client, PickLoad(c) PROVE BalancerInv'
  <2> DEFINE v == [call[c] EXCEPT !.pc = "store", !.old = nextIndex]
  <2>1. call' = [call EXCEPT ![c] = v] /\ UNCHANGED <<svcConf, bound, nextIndex, calls>>
    BY <1>7 DEF PickLoad
  <2>2. Fits(c, v)
    BY <1>7, <1>0, <1>n DEF PickLoad, At, Fits, InPick, Solo, Calls, PCs
  <2> QED
    BY <2>1, <2>2, CallStep
<1>8. ASSUME NEW c \in Client, PickStore(c) PROVE BalancerInv'
  <2> DEFINE v == [call[c] EXCEPT !.pc = "index"]
  <2>1. /\ call' = [call EXCEPT ![c] = v] /\ nextIndex' = Successor(c) /\ call[c].pc = "store"
        /\ UNCHANGED <<svcConf, bound, calls>>
    BY <1>8 DEF PickStore, Goto, At
  <2>2. v \in Calls /\ v # NoCall /\ v.pc = "index" /\ v.svc = call[c].svc /\ v.old = call[c].old
        /\ v.fresh = call[c].fresh /\ v.result = call[c].result /\ v.inst = call[c].inst
    BY <1>0, <1>n DEF Calls, PCs
  <2>3. /\ call' \in [Client -> Calls]
        /\ \A d \in Client : call'[d] = IF d = c THEN v ELSE call[d]
        /\ Accompanied(c) <=> Accompanied(c)'
        /\ \A d \in Client \ {c} : Accompanied(d)'
    <3> HIDE DEF v
    <3> QED
      BY <2>1, <2>2, CallMoves
  <2>4. nextIndex' \in Nat
    <3>1. Size[call[c].svc] > 0
      BY <2>1 DEF InPick
    <3>2. Size[call[c].svc] \in Nat
      BY <1>0, BalancerConstants DEF Calls
    <3> QED
      BY <2>1, <3>1, <3>2, SuccessorInRange
  <2> HIDE DEF v
  <2>5. InPick'
    BY <2>1, <2>2, <2>3 DEF InPick
  <2>6. Solo'
    <3>1. Successor(c)' = Successor(c)
      BY <2>2, <2>3 DEF Successor
    <3>2. call[c].result = "none"
      BY <2>1 DEF InPick
    <3> QED
      BY <2>1, <2>2, <2>3, <3>1, <3>2 DEF Solo
  <2> QED
    BY <2>1, <2>3, <2>4, <2>5, <2>6
<1>9. ASSUME NEW c \in Client, PickIndex(c) PROVE BalancerInv'
  <2>0. /\ UNCHANGED <<svcConf, bound, nextIndex, calls>> /\ call[c].pc = "index"
        /\ Size[call[c].svc] > 0 /\ Size[call[c].svc] \in Nat /\ call[c].result = "none"
        /\ call[c].fresh
    BY <1>9, <1>0, BalancerConstants DEF PickIndex, At, InPick, Calls
  <2>1. Successor(c) \in 0..(Size[call[c].svc] - 1)
    BY <2>0, SuccessorInRange
  <2>2. PICK x \in {nextIndex, Successor(c)} :
            IF x < Size[call[c].svc]
            THEN call' = [call EXCEPT ![c].pc = "bind", ![c].inst = x]
            ELSE Return(c, "panic")
    BY <1>9 DEF PickIndex
  <2>3. CASE x < Size[call[c].svc]
    <3> DEFINE v == [call[c] EXCEPT !.pc = "bind", !.inst = x]
    <3>1. call' = [call EXCEPT ![c] = v]
      BY <2>2, <2>3
    <3>2. x \in Int /\ x \in 0..(Size[call[c].svc] - 1)
      BY <2>0, <2>1, <2>3
    <3>3. Fits(c, v)
      BY <1>0, <1>n, <2>0, <3>2 DEF Fits, Calls, PCs
    <3> QED
      BY <2>0, <3>1, <3>3, CallStep
  <2>4. CASE ~(x < Size[call[c].svc])
    <3> DEFINE v == [call[c] EXCEPT !.pc = "done", !.result = "panic"]
    <3>1. call' = [call EXCEPT ![c] = v]
      BY <2>2, <2>4 DEF Return
    <3>2. Accompanied(c)
      BY <2>0, <2>1, <2>4 DEF Solo
    <3>3. Fits(c, v)
      BY <1>0, <1>n, <2>0, <3>2 DEF Fits, Calls, PCs, Results
    <3> QED
      BY <2>0, <3>1, <3>3, CallStep
  <2> QED
    BY <2>3, <2>4
<1>10. ASSUME NEW c \in Client, Bind(c) PROVE BalancerInv'
  <2> DEFINE v == [call[c] EXCEPT !.pc = "done", !.result = "instance"]  b == <<call[c].svc, call[c].str>>
  <2>1. /\ call' = [call EXCEPT ![c] = v] /\ UNCHANGED <<svcConf, nextIndex, calls>>
        /\ call[c].inst \in 0..(Size[call[c].svc] - 1) /\ call[c].svc \in Service
        /\ call[c].inst \in Int
    BY <1>10, <1>0 DEF Bind, Return, At, InPick, Calls
  <2>2. Fits(c, v)
    BY <2>1, <1>0, <1>n DEF Fits, Calls, PCs, Results
  <2>3. bound' = bound \/ bound' = [bound EXCEPT ![b] = call[c].inst]
    BY <1>10 DEF Bind
  <2>4. bound' \in [Streams -> Int]
    BY <2>1, <2>3
  <2>5. \A s \in Service, t \in Stream : bound'[<<s, t>>] \in {Unbound} \cup 0..(Size[s] - 1)
    BY <2>1, <2>3 DEF Streams
  <2> QED
    BY <2>1, <2>2, <2>4, <2>5, CallStep
<1>11. ASSUME NEW c \in Client, NEW s \in Service, NEW t \in Stream, Resolve(c, s, t) PROVE BalancerInv'
  <2> DEFINE new == [NoCall EXCEPT !.svc = s, !.str = t]
  <2>0. UNCHANGED <<svcConf, bound, nextIndex>> /\ calls' \in 0..MaxCalls
    <3>1. UNCHANGED <<svcConf, bound, nextIndex>> /\ calls < MaxCalls /\ calls' = calls + 1
      BY <1>11, Zenon DEF Resolve
    <3> QED
      BY <3>1, BalancerConstants
  <2>1. new \in Calls /\ new.svc = s /\ new.pc = "done" /\ new.result = "none"
    BY <1>n DEF Calls
  <2>2. PICK v : /\ call' = [call EXCEPT ![c] = v]
                 /\ \/ v = [new EXCEPT !.pc = "get", !.fresh = TRUE]
                    \/ /\ bound[<<s, t>>] # Unbound
                       /\ v = [new EXCEPT !.inst = bound[<<s, t>>], !.result = "instance"]
                    \/ v = [new EXCEPT !.result = "client error"]
    BY <1>11 DEF Resolve
  <2>3. bound[<<s, t>>] \in Int /\ (bound[<<s, t>>] # Unbound => bound[<<s, t>>] \in 0..(Size[s] - 1))
    BY DEF Streams
  <2>4. Fits(c, v)
    <3> HIDE DEF new
    <3>1. CASE v = [new EXCEPT !.pc = "get", !.fresh = TRUE]
      BY <1>n, <2>1, <3>1 DEF Fits, Calls, PCs, Results
    <3>2. CASE bound[<<s, t>>] # Unbound /\ v = [new EXCEPT !.inst = bound[<<s, t>>], !.result = "instance"]
      BY <1>n, <2>1, <2>3, <3>2 DEF Fits, Calls, PCs, Results
    <3>3. CASE v = [new EXCEPT !.result = "client error"]
      BY <1>n, <2>1, <3>3 DEF Fits, Calls, PCs, Results
    <3> QED
      BY <2>2, <3>1, <3>2, <3>3
  <2> QED
    BY <2>0, <2>2, <2>4, CallStep
<1>12. ASSUME NEW s \in Service, DeleteConfig(s) PROVE BalancerInv'
  BY <1>12 DEF DeleteConfig, InPick, Solo, Accompanied, Successor
<1> QED
  BY <1>1, <1>2, <1>3, <1>4, <1>5, <1>6, <1>7, <1>8, <1>9, <1>10, <1>11, <1>12 DEF BalancerNext, ClientStep

\* The same with stuttering.
LEMMA BalancerKept ==
    ASSUME Service # {}, Stream # {}, BalancerInv, [BalancerNext]_balancerVars
    PROVE  BalancerInv'
<1>1. CASE BalancerNext
  BY <1>1, BalancerStep
<1>2. CASE UNCHANGED balancerVars
  BY <1>2 DEF balancerVars, BalancerInv, InPick, Solo, Accompanied, Successor
<1> QED
  BY <1>1, <1>2

\* The invariant, of every behaviour of the balancers.
LEMMA BalancerInvAlways ==
    ASSUME Service # {}, Stream # {}
    PROVE  BalancerBehaviour => []BalancerInv
<1>1. BalancerInit => BalancerInv
  BY BalancerInit_Inv
<1>2. BalancerInv /\ [BalancerNext]_balancerVars => BalancerInv'
  BY BalancerKept
<1> QED
  BY <1>1, <1>2, PTL DEF BalancerBehaviour

LEMMA BalancerInvTypes ==
    ASSUME BalancerInv
    PROVE  BalancerTypeOK
<1>1. \A s \in Service, t \in Stream : bound[<<s, t>>] \in {Unbound} \cup 0..(Size[s] - 1)
  BY DEF BalancerInv
<1>2. \A c \in Client : call[c].result = "instance" => call[c].inst \in 0..(Size[call[c].svc] - 1)
  BY DEF BalancerInv, InPick
<1> QED
  BY <1>1, <1>2 DEF BalancerInv, BalancerTypeOK

\* For any number of goroutines, services and streams, a stream is bound to
\* an instance that its service has and Resolve returns one
\* (compose.go:28-59, robin.go:23-38).
THEOREM BalancerTypeCorrect ==
    ASSUME Service # {}, Stream # {}
    PROVE  BalancerBehaviour => []BalancerTypeOK
<1>1. BalancerInv => BalancerTypeOK
  BY BalancerInvTypes
<1> QED
  BY <1>1, BalancerInvAlways, PTL

\* A goroutine that is the only one to have called Resolve never panics,
\* however many services of whatever size it asks for (robin.go:33-35).
THEOREM PanicTakesTwoAlways ==
    ASSUME Service # {}, Stream # {}
    PROVE  BalancerBehaviour => []PanicTakesTwo
<1>1. BalancerInv => PanicTakesTwo
  BY DEF BalancerInv, Solo, Accompanied, PanicTakesTwo
<1> QED
  BY <1>1, BalancerInvAlways, PTL

\* Only a call that began when the stream was unbound binds it anew, for any
\* number of goroutines and calls (compose.go:28-59).
THEOREM StaysBoundAlways ==
    ASSUME Service # {}, Stream # {}
    PROVE  BalancerBehaviour => StaysBound
<1> DEFINE Stays(b) ==
        bound[b] # Unbound /\ bound'[b] # bound[b] =>
            \E c \in Client : call[c].fresh /\ <<call[c].svc, call[c].str>> = b /\ At(c, "bind")
<1>1. ASSUME BalancerInv, BalancerNext, NEW b \in Streams PROVE Stays(b)
  <2>1. ASSUME NEW c \in Client, Bind(c) PROVE Stays(b)
    <3>1. At(c, "bind") /\ call[c].fresh
      BY <1>1, <2>1 DEF Bind, At, BalancerInv, InPick
    <3>2. bound' = bound \/ bound' = [bound EXCEPT ![<<call[c].svc, call[c].str>>] = call[c].inst]
      BY <2>1 DEF Bind
    <3>3. bound'[b] # bound[b] => <<call[c].svc, call[c].str>> = b
      BY <1>1, <3>2 DEF BalancerInv
    <3> QED
      BY <3>1, <3>3
  <2>2. CASE UNCHANGED bound
    BY <2>2
  <2>3. ASSUME NEW c \in Client, NEW s \in Service, NEW t \in Stream, Resolve(c, s, t) PROVE UNCHANGED bound
    BY <2>3, Zenon DEF Resolve
  <2> QED
    BY <1>1, <2>1, <2>2, <2>3 DEF BalancerNext, ClientStep, ClientFails, GetConfig, GetService, SaveJson,
       SaveText, DeleteConfig, PickEmpty, PickLoad, PickStore, PickIndex
<1>2. BalancerInv /\ [BalancerNext]_balancerVars => [\A b \in Streams : Stays(b)]_balancerVars
  BY <1>1
<1> QED
  BY <1>2, BalancerInvAlways, PTL DEF BalancerBehaviour, StaysBound

----------------------------------------------------------------------------
(* All parts of MCShared together.                                         *)

SharedInv == FrameInv /\ InMemInv /\ LogInv /\ BalancerInv /\ FactoryInv

\* What the parts promise of their state holds in every behaviour of the
\* composed specification, for every value of its constants.
THEOREM SharedTypeCorrect ==
    ASSUME Name # {}, Service # {}, Stream # {}, Keys # {}
    PROVE  Spec => []SharedTypeOK
<1>1. Init => SharedInv
  BY FrameInit_Inv, InMemInit_Inv, LoggerInit_Inv, BalancerInit_Inv, FactoryInit_Inv DEF Init, SharedInv
<1>2. SharedInv /\ [Next]_vars => SharedInv'
  <2> SUFFICES ASSUME SharedInv, [Next]_vars PROVE SharedInv'
    OBVIOUS
  <2>1. [FrameNext]_frameVars /\ [InMemNext]_inmemVars /\ [BalancerNext]_balancerVars
        /\ [FactoryNext]_factoryVars
    BY DEF Next, vars
  <2>2. [LogNext]_<<rollVars, logVars>>
    BY DEF Next, vars
  <2> QED
    BY <2>1, <2>2, FrameKept, InMemKept, LogKept, BalancerKept, FactoryKept DEF SharedInv
<1>3. SharedInv => SharedTypeOK
  BY BalancerInvTypes, InvTypes DEF SharedInv, SharedTypeOK, FrameInv, InMemInv, LogInv
<1> QED
  BY <1>1, <1>2, <1>3, PTL DEF Spec

=============================================================================
