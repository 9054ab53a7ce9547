----------------------------- MODULE FramesProofs -----------------------------
(***************************************************************************)
(* A connection's frames, for every set of packets and keys and however    *)
(* many frames and pings.  Two invariants:                                 *)
(*   WriteInv   the holder of write_mutex has left to write exactly what   *)
(*              follows the last piece: frames are written whole;          *)
(*   PacketInv  each frame on the wire leads from one place in what the    *)
(*              client sends to the next, and the receive thread has what  *)
(*              is before the first: packets come out as they went in.     *)
(***************************************************************************)
EXTENDS Frames, TLAPS, SequenceTheorems, FiniteSetTheorems

Bits == Seq({0, 1})
Key == [1 .. 4 -> {0, 1}]
Piece == [of : {"pong", "packet"}, i : Nat, n : Nat, bits : Bits]
WireFrame == [opcode : {0, 2, 8, 9}, fin : BOOLEAN, mkey : Key, bytes : Bits]

WriteTyped == /\ uncut \in Bits
              /\ wire \in Seq(WireFrame)
              /\ writing \in [Threads -> Seq(Piece)]
              /\ out \in Seq(Piece)
              /\ mutex \in Threads \cup {Nobody}

\* The last pieces of a frame, in their order.
EndOfFrame(s) == \A k \in 1 .. Len(s) : s[k] = [s[1] EXCEPT !.i = s[1].n - Len(s) + k]
Fresh(s) == s = << >> \/ s[1].i = 1
Complete(s) == s = << >> \/ s[Len(s)].i = s[Len(s)].n
Follows(s, written) ==
  /\ s # << >> /\ written # << >>
  /\ ~Complete(written)
  /\ s[1] = [written[Len(written)] EXCEPT !.i = @ + 1]

WriteOrder ==
  /\ \A t \in Threads : EndOfFrame(writing[t])
  /\ \A t \in Threads : mutex # t => Fresh(writing[t])
  /\ mutex = Nobody => Complete(out)
  /\ mutex # Nobody => Follows(writing[mutex], out)

\* While a packet is read, every pong is written.
ReaderIsFree == reader = "payload" => writing["receiver"] = << >>

WriteInv == WriteTyped /\ WriteOrder /\ FramesAreWhole /\ ReaderIsFree

-----------------------------------------------------------------------------
LEMMA BitsAreSeq ==
  ASSUME NEW b \in Bits
  PROVE  /\ Len(b) \in Nat /\ DOMAIN b = 1 .. Len(b)
         /\ \A i \in 1 .. Len(b) : b[i] \in {0, 1}
         /\ b = << >> <=> Len(b) = 0
BY EmptySeq DEF Bits

LEMMA KeyIndex ==
  ASSUME NEW from \in Nat, NEW i \in Nat \ {0}
  PROVE  ((from + i - 1) % 4) + 1 \in 1 .. 4
OBVIOUS

\* The bits of bytes after the exclusive or.
LEMMA MaskedAt ==
  ASSUME NEW bytes \in Bits, NEW mkey \in Key, NEW from \in Nat
  PROVE  /\ Masked(bytes, mkey, from) \in Bits
         /\ Len(Masked(bytes, mkey, from)) = Len(bytes)
         /\ \A i \in 1 .. Len(bytes) :
              Masked(bytes, mkey, from)[i]
                = (bytes[i] + mkey[((from + i - 1) % 4) + 1]) % 2
<1> DEFINE n == Len(bytes)
           bit(i) == (bytes[i] + mkey[((from + i - 1) % 4) + 1]) % 2
<1>1. n \in Nat /\ DOMAIN bytes = 1 .. n
  BY BitsAreSeq
<1>2. ASSUME NEW i \in 1 .. n PROVE bit(i) \in {0, 1}
  <2>1. ((from + i - 1) % 4) + 1 \in 1 .. 4
    BY <1>1, KeyIndex
  <2>2. bytes[i] \in {0, 1} /\ mkey[((from + i - 1) % 4) + 1] \in {0, 1}
    BY <1>1, <2>1 DEF Bits, Key
  <2> HIDE DEF n
  <2>3. ASSUME NEW a \in {0, 1}, NEW b \in {0, 1} PROVE (a + b) % 2 \in {0, 1}
    OBVIOUS
  <2>4. QED
    BY <2>2, <2>3
<1>3. Masked(bytes, mkey, from) = [i \in 1 .. n |-> bit(i)]
  BY <1>1 DEF Masked
<1> HIDE DEF n, bit
<1>4. Masked(bytes, mkey, from) \in Bits /\ Len(Masked(bytes, mkey, from)) = n
  BY <1>1, <1>2, <1>3 DEF Bits
<1>5. QED
  BY <1>3, <1>4 DEF n, bit

LEMMA MaskedIsBits ==
  ASSUME NEW bytes \in Bits, NEW mkey \in Key
  PROVE  Masked(bytes, mkey, 0) \in Bits
BY MaskedAt

LEMMA PiecesAreAFrame ==
  ASSUME NEW of \in {"pong", "packet"}, NEW n \in {2, 3}, NEW bits \in Bits
  PROVE  LET s == Pieces(of, n, bits) IN s \in Seq(Piece) /\ EndOfFrame(s) /\ Fresh(s)
<1> DEFINE s == Pieces(of, n, bits)
<1>1. s = [i \in 1 .. n |-> [of |-> of, i |-> i, n |-> n, bits |-> bits]]
  BY DEF Pieces
<1>2. \A i \in 1 .. n : s[i] = [of |-> of, i |-> i, n |-> n, bits |-> bits]
  BY <1>1
<1>3. s \in Seq(Piece) /\ Len(s) = n
  BY <1>1 DEF Piece
<1> HIDE DEF s
<1>4. EndOfFrame(s) /\ Fresh(s)
  BY <1>2, <1>3 DEF EndOfFrame, Fresh
<1>5. QED
  BY <1>3, <1>4 DEF s

LEMMA EmptyIsAFrame == /\ << >> \in Seq(Piece)
                       /\ EndOfFrame(<< >>) /\ Fresh(<< >>)
BY DEF EndOfFrame, Fresh

\* What follows the first piece of the end of a frame.
LEMMA TailOfFrame ==
  ASSUME NEW s \in Seq(Piece), s # << >>, EndOfFrame(s)
  PROVE  /\ Tail(s) \in Seq(Piece) /\ EndOfFrame(Tail(s)) /\ Head(s) \in Piece
         /\ Head(s) = s[1]
         /\ Tail(s) = << >> => s[1].i = s[1].n
         /\ Tail(s) # << >> => /\ s[1].i # s[1].n
                               /\ Tail(s)[1] = [s[1] EXCEPT !.i = @ + 1]
<1>1. /\ Len(s) \in Nat /\ Len(s) > 0
      /\ Tail(s) \in Seq(Piece) /\ Len(Tail(s)) = Len(s) - 1
      /\ \A k \in 1 .. Len(s) - 1 : Tail(s)[k] = s[k + 1]
      /\ s[1] \in Piece /\ Head(s) = s[1]
  OBVIOUS
<1>2. s[1].i \in Nat /\ s[1].n \in Nat
  BY <1>1 DEF Piece
<1>3. s[1].i = s[1].n - Len(s) + 1
  <2>1. 1 \in 1 .. Len(s)
    BY <1>1
  <2>2. s[1] = [s[1] EXCEPT !.i = s[1].n - Len(s) + 1]
    BY <2>1 DEF EndOfFrame
  <2>3. [s[1] EXCEPT !.i = s[1].n - Len(s) + 1].i = s[1].n - Len(s) + 1
    BY <1>1 DEF Piece
  <2>4. QED
    BY <2>2, <2>3
<1>4. Tail(s) = << >> <=> Len(s) = 1
  <2>1. Len(Tail(s)) = 0 <=> Len(s) = 1
    BY <1>1
  <2>2. Tail(s) = << >> <=> Len(Tail(s)) = 0
    BY <1>1, EmptySeq
  <2>3. QED
    BY <2>1, <2>2
<1>5. ASSUME NEW k \in 1 .. Len(s) - 1
      PROVE  Tail(s)[k] = [s[1] EXCEPT !.i = s[1].n - Len(s) + k + 1]
  <2>1. k + 1 \in 1 .. Len(s)
    BY <1>1
  <2>2. s[k + 1] = [s[1] EXCEPT !.i = s[1].n - Len(s) + (k + 1)]
    BY <2>1 DEF EndOfFrame
  <2>3. s[1].n - Len(s) + (k + 1) = s[1].n - Len(s) + k + 1
    BY <1>1, <1>2
  <2>4. QED
    BY <1>1, <2>2, <2>3
<1>6. ASSUME Tail(s) # << >>
      PROVE  /\ s[1].i # s[1].n
             /\ Tail(s)[1] = [s[1] EXCEPT !.i = @ + 1]
  <2>1. 1 \in 1 .. Len(s) - 1
    BY <1>1, <1>4, <1>6
  <2>2. Tail(s)[1] = [s[1] EXCEPT !.i = s[1].n - Len(s) + 1 + 1]
    BY <1>5, <2>1
  <2>3. QED
    BY <1>1, <1>2, <1>3, <1>4, <1>6, <2>2
<1>7. EndOfFrame(Tail(s))
  <2>1. SUFFICES ASSUME NEW k \in 1 .. Len(s) - 1
                 PROVE  Tail(s)[k] = [Tail(s)[1] EXCEPT
                                        !.i = Tail(s)[1].n - Len(Tail(s)) + k]
    BY <1>1 DEF EndOfFrame
  <2>2. Tail(s)[1] = [s[1] EXCEPT !.i = s[1].n - Len(s) + 1 + 1]
    <3>1. 1 \in 1 .. Len(s) - 1
      BY <1>1
    <3>2. QED
      BY <1>5, <3>1
  <2>3. Tail(s)[1].n = s[1].n
    BY <1>1, <2>2 DEF Piece
  <2>4. Tail(s)[1].n - Len(Tail(s)) + k = s[1].n - Len(s) + k + 1
    BY <1>1, <1>2, <2>3
  <2>5. [Tail(s)[1] EXCEPT !.i = s[1].n - Len(s) + k + 1]
          = [s[1] EXCEPT !.i = s[1].n - Len(s) + k + 1]
    BY <1>1, <2>2 DEF Piece
  <2>6. QED
    BY <1>5, <2>4, <2>5
<1>8. QED
  BY <1>1, <1>3, <1>4, <1>6, <1>7, <1>2

-----------------------------------------------------------------------------
LEMMA InitWrites == FramesInit => WriteInv
<1> SUFFICES ASSUME FramesInit PROVE WriteInv
  OBVIOUS
<1> USE DEF FramesInit
<1>1. WriteTyped
  BY EmptyIsAFrame DEF WriteTyped, Bits
<1>2. WriteOrder
  BY EmptyIsAFrame DEF WriteOrder, Complete
<1>3. FramesAreWhole
  BY DEF FramesAreWhole
<1>4. ReaderIsFree
  BY DEF ReaderIsFree
<1>5. QED
  BY <1>1, <1>2, <1>3, <1>4 DEF WriteInv

\* A step that writes nothing keeps the order of what is written.
LEMMA OrderKept ==
  ASSUME WriteInv, UNCHANGED <<out, mutex>>,
         \A t \in Threads : \/ writing'[t] = writing[t]
                            \/ writing[t] = << >> /\ EndOfFrame(writing'[t])
                                                 /\ Fresh(writing'[t])
  PROVE  WriteOrder' /\ FramesAreWhole'
<1> USE DEF WriteInv
<1>1. FramesAreWhole'
  BY DEF FramesAreWhole
<1>2. \A t \in Threads : EndOfFrame(writing'[t]) /\ (mutex # t => Fresh(writing'[t]))
  BY DEF WriteOrder
<1>3. mutex = Nobody => Complete(out)
  BY DEF WriteOrder
<1>4. mutex # Nobody => Follows(writing'[mutex], out)
  BY DEF WriteOrder, WriteTyped, Follows
<1>5. QED
  BY <1>1, <1>2, <1>3, <1>4 DEF WriteOrder

LEMMA StartPacketKeeps ==
  ASSUME FramesAssumption, WriteInv, NEW p \in Packets, StartPacket(p)
  PROVE  WriteInv'
<1>1. UNCHANGED <<wire, writing, out, mutex, reader>> /\ uncut' \in Bits
  BY DEF StartPacket, readVars, writeVars, FramesAssumption, Bits
<1>2. WriteTyped'
  BY <1>1 DEF WriteInv, WriteTyped
<1>3. QED
  BY <1>1, <1>2, OrderKept DEF WriteInv, ReaderIsFree

LEMMA FrameIsTyped ==
  ASSUME NEW opcode \in {0, 2, 8, 9}, NEW fin \in BOOLEAN, NEW mkey \in Key,
         NEW bytes \in Bits
  PROVE  Frame(opcode, fin, mkey, bytes) \in WireFrame
BY MaskedIsBits DEF Frame, WireFrame

LEMMA UnmaskedIsKey == Unmasked \in Key
BY DEF Unmasked, Key

LEMMA SendFrameKeeps ==
  ASSUME FramesAssumption, WriteInv, NEW n \in 1 .. Len(uncut),
         NEW mkey \in MaskKeys \cup {Unmasked}, SendFrame(n, mkey)
  PROVE  WriteInv'
<1>1. UNCHANGED <<writing, out, mutex, reader>>
  BY DEF SendFrame, writeVars
<1>2. mkey \in Key /\ uncut \in Bits /\ wire \in Seq(WireFrame) /\ Len(uncut) \in Nat
  BY UnmaskedIsKey DEF FramesAssumption, Key, WriteInv, WriteTyped, Bits
<1>3. SubSeq(uncut, 1, n) \in Bits
  BY <1>2 DEF Bits
<1>4. SubSeq(uncut, n + 1, Len(uncut)) \in Bits
  <2>1. \A i \in n + 1 .. Len(uncut) : uncut[i] \in {0, 1}
    BY <1>2 DEF Bits
  <2>2. QED
    BY <1>2, <2>1, SubSeqProperties DEF Bits
<1>5. wire' \in Seq(WireFrame)
  <2>1. (IF Underway THEN Continuation ELSE Binary) \in {0, 2, 8, 9}
    BY DEF Continuation, Binary
  <2>2. (n = Len(uncut)) \in BOOLEAN
    OBVIOUS
  <2>3. Frame(IF Underway THEN Continuation ELSE Binary, n = Len(uncut), mkey,
              SubSeq(uncut, 1, n)) \in WireFrame
    BY <1>2, <1>3, <2>1, <2>2, FrameIsTyped
  <2>4. QED
    BY <1>2, <2>3 DEF SendFrame
<1>6. WriteTyped'
  BY <1>1, <1>4, <1>5 DEF WriteInv, WriteTyped, SendFrame
<1>7. QED
  BY <1>1, <1>6, OrderKept DEF WriteInv, ReaderIsFree

LEMMA SendPingKeeps ==
  ASSUME FramesAssumption, WriteInv, NEW b \in {0, 1}, NEW mkey \in MaskKeys,
         SendPing(<<b>>, mkey)
  PROVE  WriteInv'
<1>1. UNCHANGED <<uncut, writing, out, mutex, reader>>
  BY DEF SendPing, writeVars
<1>2. Frame(Ping, TRUE, mkey, <<b>>) \in WireFrame
  <2>1. Ping \in {0, 2, 8, 9} /\ mkey \in Key /\ <<b>> \in Bits
    BY DEF Ping, FramesAssumption, Key, Bits
  <2>2. QED
    BY <2>1, FrameIsTyped
<1>3. wire' \in Seq(WireFrame)
  <2>1. wire \in Seq(WireFrame)
    BY DEF WriteInv, WriteTyped
  <2>2. wire' = Append(wire, Frame(Ping, TRUE, mkey, <<b>>))
    BY DEF SendPing
  <2>3. QED
    BY <1>2, <2>1, <2>2, AppendProperties
<1>4. WriteTyped'
  BY <1>1, <1>3 DEF WriteInv, WriteTyped
<1>5. QED
  BY <1>1, <1>4, OrderKept DEF WriteInv, ReaderIsFree

LEMMA SendCloseKeeps ==
  ASSUME WriteInv, SendClose
  PROVE  WriteInv'
<1>1. UNCHANGED <<uncut, writing, out, mutex, reader>>
  BY DEF SendClose, writeVars
<1>2. Frame(Close, TRUE, Unmasked, << >>) \in WireFrame
  <2>1. Close \in {0, 2, 8, 9} /\ << >> \in Bits
    BY DEF Close, Bits
  <2>2. QED
    BY <2>1, UnmaskedIsKey, FrameIsTyped
<1>3. wire' \in Seq(WireFrame)
  <2>1. wire \in Seq(WireFrame)
    BY DEF WriteInv, WriteTyped
  <2>2. wire' = Append(wire, Frame(Close, TRUE, Unmasked, << >>))
    BY DEF SendClose
  <2>3. QED
    BY <1>2, <2>1, <2>2, AppendProperties
<1>4. WriteTyped'
  BY <1>1, <1>3 DEF WriteInv, WriteTyped
<1>5. QED
  BY <1>1, <1>4, OrderKept DEF WriteInv, ReaderIsFree

-----------------------------------------------------------------------------
LEMMA ReadHeaderKeeps ==
  ASSUME WriteInv, ReadHeader
  PROVE  WriteInv'
<1> DEFINE f == Head(wire)
<1>1. /\ UNCHANGED <<uncut, out, mutex>>
      /\ wire # << >> /\ writing["receiver"] = << >>
      /\ wire' = Tail(wire)
      /\ ReadClose(f) \/ ReadPing(f) \/ ReadFirstFragment(f) \/ ReadNextFragment(f)
           \/ ReadWholeMessage(f)
  BY DEF ReadHeader, Reads, clientVars
<1>2. /\ wire \in Seq(WireFrame) /\ writing \in [Threads -> Seq(Piece)]
      /\ "receiver" \in Threads
  BY DEF WriteInv, WriteTyped, Threads
<1>3. wire' \in Seq(WireFrame) /\ f \in WireFrame
  BY <1>1, <1>2, HeadTailProperties
<1> HIDE DEF f
<1>4. CASE UNCHANGED writing
  <2>1. WriteTyped'
    BY <1>1, <1>3, <1>4 DEF WriteInv, WriteTyped
  <2>2. ReaderIsFree'
    BY <1>1, <1>4 DEF ReaderIsFree
  <2>3. QED
    BY <1>1, <1>4, <2>1, <2>2, OrderKept DEF WriteInv
<1>5. CASE ReadPing(f)
  <2> DEFINE pong == Pieces("pong", 2, Masked(f.bytes, f.mkey, 0))
  <2>1. pong \in Seq(Piece) /\ EndOfFrame(pong) /\ Fresh(pong)
    <3>1. Masked(f.bytes, f.mkey, 0) \in Bits
      BY <1>3, MaskedIsBits DEF WireFrame
    <3>2. QED
      BY <3>1, PiecesAreAFrame
  <2>2. writing' = [writing EXCEPT !["receiver"] = pong] /\ reader' = reader
    BY <1>5 DEF ReadPing
  <2> HIDE DEF pong
  <2>3. WriteTyped'
    BY <1>1, <1>2, <1>3, <2>1, <2>2 DEF WriteInv, WriteTyped
  <2>4. ReaderIsFree'
    BY <2>2, ReadHeader DEF ReaderIsFree, ReadHeader, Reads
  <2>5. QED
    BY <1>1, <1>2, <2>1, <2>2, <2>3, <2>4, OrderKept DEF WriteInv
<1>6. QED
  BY <1>1, <1>4, <1>5 DEF ReadClose, ReadFirstFragment, ReadNextFragment,
                          ReadWholeMessage, Disconnect

\* The handler reads a part of its packet, and may answer after the last.
LEMMA HandledKeeps ==
  ASSUME WriteInv, NEW part, reader = "payload", Handled(part),
         UNCHANGED <<uncut, wire, out, mutex>>
  PROVE  WriteInv'
<1> DEFINE pong == Pieces("packet", 2, << >>)
<1>1. /\ writing["receiver"] = << >> /\ writing \in [Threads -> Seq(Piece)]
      /\ "receiver" \in Threads
  BY DEF WriteInv, ReaderIsFree, WriteTyped, Threads
<1>2. pong \in Seq(Piece) /\ EndOfFrame(pong) /\ Fresh(pong)
  <2>1. << >> \in Bits
    BY DEF Bits
  <2>2. QED
    BY <2>1, PiecesAreAFrame
<1>3. \/ UNCHANGED writing
      \/ /\ reader' = "header"
         /\ \E pieces \in {<< >>, pong} :
              writing' = [writing EXCEPT !["receiver"] = pieces]
  BY DEF Handled
<1> HIDE DEF pong
<1>4. CASE UNCHANGED writing
  <2>1. WriteTyped' /\ ReaderIsFree'
    BY <1>1, <1>4 DEF WriteInv, WriteTyped, ReaderIsFree
  <2>2. QED
    BY <1>4, <2>1, OrderKept DEF WriteInv
<1>5. CASE /\ reader' = "header"
           /\ \E pieces \in {<< >>, pong} :
                writing' = [writing EXCEPT !["receiver"] = pieces]
  <2>1. PICK pieces \in {<< >>, pong} : writing' = [writing EXCEPT !["receiver"] = pieces]
    BY <1>5
  <2>2. pieces \in Seq(Piece) /\ EndOfFrame(pieces) /\ Fresh(pieces)
    BY <1>2, EmptyIsAFrame
  <2>3. WriteTyped'
    BY <1>1, <2>1, <2>2 DEF WriteInv, WriteTyped
  <2>4. ReaderIsFree'
    BY <1>5 DEF ReaderIsFree
  <2>5. QED
    BY <1>1, <2>1, <2>2, <2>3, <2>4, OrderKept DEF WriteInv
<1>6. QED
  BY <1>3, <1>4, <1>5

LEMMA StartSendKeeps ==
  ASSUME WriteInv, StartSend
  PROVE  WriteInv'
<1> DEFINE frame == Pieces("packet", 3, << >>)
<1>1. /\ writing["loop"] = << >> /\ writing \in [Threads -> Seq(Piece)]
      /\ "loop" \in Threads /\ "receiver" \in Threads
      /\ UNCHANGED <<uncut, wire, reader, out, mutex>>
      /\ writing' = [writing EXCEPT !["loop"] = frame]
  BY DEF StartSend, clientVars, readVars, WriteInv, WriteTyped, Threads
<1>2. frame \in Seq(Piece) /\ EndOfFrame(frame) /\ Fresh(frame)
  <2>1. << >> \in Bits
    BY DEF Bits
  <2>2. QED
    BY <2>1, PiecesAreAFrame
<1> HIDE DEF frame
<1>3. WriteTyped' /\ ReaderIsFree'
  BY <1>1, <1>2 DEF WriteInv, WriteTyped, ReaderIsFree
<1>4. QED
  BY <1>1, <1>2, <1>3, OrderKept DEF WriteInv

LEMMA WriteKeeps ==
  ASSUME WriteInv, NEW t \in Threads, Write(t)
  PROVE  WriteInv'
<1> DEFINE s == writing[t]
           p == Head(s)
           left == Tail(s)
<1>1. /\ s # << >> /\ mutex \in {Nobody, t}
      /\ UNCHANGED <<uncut, wire, reader>>
      /\ writing' = [writing EXCEPT ![t] = left]
      /\ mutex' = IF left = << >> THEN Nobody ELSE t
      /\ out' = Append(out, p)
  BY DEF Write, MayWrite, clientVars, readVars
<1>2. /\ writing \in [Threads -> Seq(Piece)] /\ s \in Seq(Piece) /\ EndOfFrame(s)
      /\ out \in Seq(Piece) /\ Len(out) \in Nat
      /\ t # Nobody
  BY DEF WriteInv, WriteTyped, WriteOrder, Threads, Nobody
<1>3. /\ left \in Seq(Piece) /\ EndOfFrame(left) /\ p \in Piece /\ p = s[1]
      /\ left = << >> => p.i = p.n
      /\ left # << >> => p.i # p.n /\ left[1] = [p EXCEPT !.i = @ + 1]
  BY <1>1, <1>2, TailOfFrame
<1> HIDE DEF s, p, left
<1>4. /\ out' \in Seq(Piece) /\ Len(out') = Len(out) + 1
      /\ out'[Len(out) + 1] = p /\ out' # << >>
      /\ \A i \in 1 .. Len(out) : out'[i] = out[i]
  <2>1. /\ out' \in Seq(Piece) /\ Len(out') = Len(out) + 1
        /\ out'[Len(out) + 1] = p
        /\ \A i \in 1 .. Len(out) : out'[i] = out[i]
    BY <1>1, <1>2, <1>3
  <2>2. out' # << >>
    BY <1>2, <2>1, EmptySeq
  <2>3. QED
    BY <2>1, <2>2
<1>5. WriteTyped'
  BY <1>1, <1>2, <1>3, <1>4 DEF WriteInv, WriteTyped
<1>6. Complete(out') <=> left = << >>
  BY <1>2, <1>3, <1>4 DEF Complete
<1>7. WriteOrder'
  <2>1. ASSUME NEW u \in Threads
        PROVE  EndOfFrame(writing'[u]) /\ (mutex' # u => Fresh(writing'[u]))
    <3>1. CASE u = t
      BY <1>1, <1>2, <1>3, <3>1 DEF Fresh
    <3>2. CASE u # t
      <4>1. writing'[u] = writing[u] /\ mutex # u
        BY <1>1, <1>2, <3>2 DEF Threads, Nobody
      <4>2. QED
        BY <4>1 DEF WriteInv, WriteOrder
    <3>3. QED
      BY <3>1, <3>2
  <2>2. mutex' = Nobody => Complete(out')
    BY <1>1, <1>2, <1>6
  <2>3. mutex' # Nobody => Follows(writing'[mutex'], out')
    BY <1>1, <1>2, <1>3, <1>4, <1>6 DEF Follows
  <2>4. QED
    BY <2>1, <2>2, <2>3 DEF WriteOrder
<1>8. FramesAreWhole'
  <2>1. SUFFICES ASSUME NEW i \in 2 .. Len(out')
                 PROVE  IF out'[i - 1].i = out'[i - 1].n
                          THEN out'[i].i = 1
                          ELSE out'[i] = [out'[i - 1] EXCEPT !.i = @ + 1]
    BY DEF FramesAreWhole
  <2>2. CASE i \in 2 .. Len(out)
    <3>1. out'[i] = out[i] /\ out'[i - 1] = out[i - 1]
      BY <1>2, <1>4, <2>2
    <3>2. QED
      BY <2>2, <3>1 DEF WriteInv, FramesAreWhole
  <2>3. CASE i \notin 2 .. Len(out)
    <3>1. i = Len(out) + 1 /\ out'[i] = p /\ out'[i - 1] = out[Len(out)] /\ out # << >>
      BY <1>2, <1>4, <2>3, EmptySeq
    <3>2. CASE mutex = Nobody
      <4>1. Complete(out) /\ Fresh(s)
        BY <1>2, <3>2 DEF WriteInv, WriteOrder, s
      <4>2. QED
        BY <1>1, <1>3, <3>1, <4>1 DEF Complete, Fresh
    <3>3. CASE mutex = t
      <4>1. Follows(s, out)
        BY <1>2, <3>3 DEF WriteInv, WriteOrder, s
      <4>2. QED
        BY <1>3, <3>1, <4>1 DEF Follows, Complete
    <3>4. QED
      BY <1>1, <3>2, <3>3
  <2>4. QED
    BY <2>2, <2>3
<1>9. ReaderIsFree'
  BY <1>1, <1>2 DEF WriteInv, ReaderIsFree, s, Threads
<1>10. QED
  BY <1>5, <1>7, <1>8, <1>9 DEF WriteInv

LEMMA StepKeepsWrites ==
  ASSUME FramesAssumption, WriteInv, [FramesNext]_frameVars
  PROVE  WriteInv'
<1>1. CASE ClientStep
  BY <1>1, StartPacketKeeps, SendFrameKeeps, SendPingKeeps, SendCloseKeeps DEF ClientStep
<1>2. CASE ReadHeader
  BY <1>2, ReadHeaderKeeps
<1>3. ASSUME NEW n \in 1 .. Len(ws.buffer), ReadBuffered(n) PROVE WriteInv'
  BY <1>3, HandledKeeps DEF ReadBuffered, clientVars
<1>4. ASSUME NEW n \in 1 .. Len(stream), ReadUnbuffered(n) PROVE WriteInv'
  BY <1>4, HandledKeeps DEF ReadUnbuffered, clientVars
<1>5. CASE StartSend
  BY <1>5, StartSendKeeps
<1>6. ASSUME NEW t \in Threads, Write(t) PROVE WriteInv'
  BY <1>6, WriteKeeps
<1>7. CASE UNCHANGED frameVars
  <2>1. UNCHANGED <<uncut, wire, reader, writing, out, mutex>>
    BY <1>7 DEF frameVars
  <2>2. WriteTyped' /\ ReaderIsFree'
    BY <2>1 DEF WriteInv, WriteTyped, ReaderIsFree
  <2>3. QED
    BY <2>1, <2>2, OrderKept DEF WriteInv
<1>8. QED
  BY <1>1, <1>2, <1>3, <1>4, <1>5, <1>6, <1>7 DEF FramesNext

\* Nothing of another frame is ever written between a frame's header and its
\* last piece, whatever the event loop and the receive thread send and however
\* their steps interleave: both hold write_mutex from the first piece to the
\* last (server.c:530-1575, websocket.c:327-359).
THEOREM WrittenWhole == FramesSpec => []FramesAreWhole
<1>1. FramesInit => WriteInv
  BY InitWrites
<1>2. WriteInv /\ [FramesNext]_frameVars => WriteInv'
  BY StepKeepsWrites, FramesAssumption
<1>3. WriteInv => FramesAreWhole
  BY DEF WriteInv
<1>4. QED
  BY <1>1, <1>2, <1>3, PTL DEF FramesSpec

-----------------------------------------------------------------------------
(***************************************************************************)
(* Packets come out as they went in.  A place in what the client sends is  *)
(* how many messages are before it, how many bits of the next, and how     *)
(* many pings.  Each frame on the wire leads from one place to the next,   *)
(* from the reader's to the client's.                                      *)
(***************************************************************************)
Place == [msgs : Nat, bits : Nat, pings : Nat]

ClientAt ==
  IF uncut = << >> THEN [msgs |-> Len(sent), bits |-> 0, pings |-> Len(pings)]
  ELSE [msgs |-> Len(sent) - 1, bits |-> Len(sent[Len(sent)]) - Len(uncut),
        pings |-> Len(pings)]

\* A pong that is not written completely counts as the ping it answers.
Answering == writing["receiver"] # << >> /\ writing["receiver"][1].of = "pong"

ReaderAt ==
  [msgs |-> Len(received) + (IF reader = "payload" THEN 1 ELSE 0),
   bits |-> IF reader = "header" /\ ws.is_fragmented THEN Len(ws.buffer) ELSE 0,
   pings |-> Answered + (IF Answering THEN 1 ELSE 0)]

\* The frame is the next of the pings ps.
PingLeads(f, a, b, ps) ==
  /\ f.opcode = Ping
  /\ b = [a EXCEPT !.pings = @ + 1]
  /\ b.pings <= Len(ps)
  /\ Masked(f.bytes, f.mkey, 0) = ps[b.pings]

\* The frame has the next bits of the next of the packets s, to its end or not.
DataLeads(f, a, b, s) ==
  /\ a.msgs < Len(s)
  /\ a.bits + Len(f.bytes) <= Len(s[a.msgs + 1])
  /\ Len(f.bytes) > 0
  /\ f.opcode = IF a.bits = 0 THEN Binary ELSE Continuation
  /\ f.fin = (a.bits + Len(f.bytes) = Len(s[a.msgs + 1]))
  /\ \A i \in 1 .. Len(f.bytes) :
       Masked(f.bytes, f.mkey, 0)[i] = s[a.msgs + 1][a.bits + i]
  /\ b = IF f.fin THEN [msgs |-> a.msgs + 1, bits |-> 0, pings |-> a.pings]
         ELSE [msgs |-> a.msgs, bits |-> a.bits + Len(f.bytes), pings |-> a.pings]

CloseLeads(f, a, b, over) == f.opcode = Close /\ over /\ b = a

Leads(f, a, b, s, ps, over) ==
  PingLeads(f, a, b, ps) \/ DataLeads(f, a, b, s) \/ CloseLeads(f, a, b, over)

\* The frames of w lead from place `from` to place `to`.
Route(w, from, to, s, ps, over) ==
  \E at \in [1 .. Len(w) + 1 -> Place] :
    /\ at[1] = from /\ at[Len(w) + 1] = to
    /\ \A j \in 1 .. Len(w) : Leads(w[j], at[j], at[j + 1], s, ps, over)

SentTyped == /\ sent \in Seq(Bits \ {<< >>})
             /\ pings \in Seq(Bits)
             /\ received \in Seq(Bits)
             /\ closed \in BOOLEAN

Websocket == [is_fragmented : BOOLEAN, buffer : Bits, buffer_readed : Nat,
              mkey : Key, mask_i : Nat]
ReadTyped == /\ stream \in Bits /\ packet \in Bits
             /\ ws \in Websocket
             /\ reader \in {"header", "payload", "gone"}

Begins(part, whole) == /\ Len(part) <= Len(whole)
                       /\ \A i \in 1 .. Len(part) : part[i] = whole[i]
Ends(part, whole) == /\ Len(part) <= Len(whole)
                     /\ \A i \in 1 .. Len(part) :
                          part[i] = whole[Len(whole) - Len(part) + i]

\* What is not cut yet is the end of the last packet.
Cutting == uncut # << >> => Len(sent) > 0 /\ Ends(uncut, sent[Len(sent)])

\* What the receive thread has of m, the next message.
InHeader(w, m) == /\ w.buffer_readed = 0 /\ Len(w.buffer) > 0 /\ Begins(w.buffer, m)
InBuffer(w, read, m) == w.buffer = m /\ w.buffer_readed = Len(read)
InStream(w, read, left, m) ==
  /\ w.mask_i = Len(read) /\ Len(left) = Len(m) - Len(read)
  /\ \A i \in 1 .. Len(left) : Unmask(w, left)[i] = m[Len(read) + i]
Reading ==
  /\ reader = "header" => packet = << >>
  /\ reader = "header" /\ ws.is_fragmented =>
       Len(received) < Len(sent) /\ InHeader(ws, sent[Len(received) + 1])
  /\ reader = "payload" =>
       /\ Len(received) < Len(sent)
       /\ Begins(packet, sent[Len(received) + 1])
       /\ Len(packet) < Len(sent[Len(received) + 1])
       /\ IF ws.is_fragmented THEN InBuffer(ws, packet, sent[Len(received) + 1])
          ELSE InStream(ws, packet, stream, sent[Len(received) + 1])

\* The pongs of o answer the first of the pings ps.
Answers(o, ps) ==
  /\ Cardinality(Pongs(o)) <= Len(ps)
  /\ \A i \in Pongs(o) : o[i].bits = ps[Cardinality({j \in Pongs(o) : j <= i})]
Ponging ==
  /\ writing["loop"] # << >> => writing["loop"][1].of = "packet"
  /\ Answers(out, pings)
  /\ Answering => /\ Answered < Len(pings)
                  /\ writing["receiver"][1].bits = pings[Answered + 1]

PacketInv == /\ SentTyped /\ ReadTyped /\ Cutting
             /\ Begins(received, sent)
             /\ Reading
             /\ Ponging
             /\ reader = "gone" => closed
             /\ reader # "gone" => Route(wire, ReaderAt, ClientAt, sent, pings, closed)

-----------------------------------------------------------------------------
LEMMA BitsEqual ==
  ASSUME NEW b \in Bits, NEW c \in Bits, Len(b) = Len(c),
         \A i \in 1 .. Len(b) : b[i] = c[i]
  PROVE  b = c
BY SeqEqual DEF Bits

\* The exclusive or with the same bit, twice.
LEMMA BitTwice ==
  ASSUME NEW a \in {0, 1}, NEW b \in {0, 1}
  PROVE  (((a + b) % 2) + b) % 2 = a
OBVIOUS

LEMMA MaskedTwice ==
  ASSUME NEW bytes \in Bits, NEW mkey \in Key
  PROVE  Masked(Masked(bytes, mkey, 0), mkey, 0) = bytes
<1> DEFINE once == Masked(bytes, mkey, 0)
           twice == Masked(once, mkey, 0)
<1>1. once \in Bits /\ Len(once) = Len(bytes)
  BY MaskedAt
<1>2. twice \in Bits /\ Len(twice) = Len(bytes)
  <2> HIDE DEF once
  <2>1. QED
    BY <1>1, MaskedAt
<1>3. ASSUME NEW i \in 1 .. Len(bytes) PROVE twice[i] = bytes[i]
  <2> DEFINE k == ((0 + i - 1) % 4) + 1
  <2>1. once[i] = (bytes[i] + mkey[k]) % 2
    BY MaskedAt
  <2> HIDE DEF once
  <2>2. twice[i] = (once[i] + mkey[k]) % 2
    BY <1>1, MaskedAt
  <2>3. k \in 1 .. 4
    BY BitsAreSeq, KeyIndex
  <2> HIDE DEF twice, k
  <2>4. bytes[i] \in {0, 1} /\ mkey[k] \in {0, 1}
    BY <2>3, BitsAreSeq DEF Key
  <2>5. QED
    BY <2>1, <2>2, <2>4, BitTwice
<1> HIDE DEF twice
<1>4. twice = bytes
  BY <1>2, <1>3, BitsEqual
<1>5. QED
  BY <1>4 DEF twice

-----------------------------------------------------------------------------
LEMMA RouteExtended ==
  ASSUME NEW w \in Seq(WireFrame), NEW f \in WireFrame, NEW from, NEW mid,
         NEW to \in Place, NEW s, NEW ps, NEW over,
         Route(w, from, mid, s, ps, over), Leads(f, mid, to, s, ps, over)
  PROVE  Route(Append(w, f), from, to, s, ps, over)
<1>1. PICK at \in [1 .. Len(w) + 1 -> Place] :
        /\ at[1] = from /\ at[Len(w) + 1] = mid
        /\ \A j \in 1 .. Len(w) : Leads(w[j], at[j], at[j + 1], s, ps, over)
  BY DEF Route
<1> DEFINE n == Len(w)
           more == [j \in 1 .. n + 2 |-> IF j <= n + 1 THEN at[j] ELSE to]
<1>2. /\ n \in Nat /\ Len(Append(w, f)) = n + 1
      /\ \A j \in 1 .. n : Append(w, f)[j] = w[j]
      /\ Append(w, f)[n + 1] = f
  BY AppendProperties
<1>3. /\ more \in [1 .. n + 1 + 1 -> Place]
      /\ more[1] = from /\ more[n + 1 + 1] = to
  BY <1>1, <1>2
<1>4. ASSUME NEW j \in 1 .. n + 1
      PROVE  Leads(Append(w, f)[j], more[j], more[j + 1], s, ps, over)
  <2>1. CASE j \in 1 .. n
    <3>1. more[j] = at[j] /\ more[j + 1] = at[j + 1] /\ Append(w, f)[j] = w[j]
      BY <1>2, <2>1
    <3>2. QED
      BY <1>1, <2>1, <3>1
  <2>2. CASE j = n + 1
    <3>1. more[j] = mid /\ more[j + 1] = to /\ Append(w, f)[j] = f
      BY <1>1, <1>2, <2>2
    <3>2. QED
      BY <3>1
  <2>3. QED
    BY <1>2, <2>1, <2>2
<1> HIDE DEF more
<1>5. QED
  BY <1>2, <1>3, <1>4 DEF Route

LEMMA RouteShortened ==
  ASSUME NEW w \in Seq(WireFrame), w # << >>, NEW from, NEW to,
         NEW s, NEW ps, NEW over, Route(w, from, to, s, ps, over)
  PROVE  \E mid \in Place : /\ Leads(Head(w), from, mid, s, ps, over)
                            /\ Route(Tail(w), mid, to, s, ps, over)
<1>1. PICK at \in [1 .. Len(w) + 1 -> Place] :
        /\ at[1] = from /\ at[Len(w) + 1] = to
        /\ \A j \in 1 .. Len(w) : Leads(w[j], at[j], at[j + 1], s, ps, over)
  BY DEF Route
<1> DEFINE n == Len(w)
           less == [j \in 1 .. n |-> at[j + 1]]
<1>2. /\ n \in Nat \ {0} /\ Len(Tail(w)) = n - 1 /\ Head(w) = w[1]
      /\ \A j \in 1 .. n - 1 : Tail(w)[j] = w[j + 1]
  BY EmptySeq, HeadTailProperties
<1>3. /\ less \in [1 .. n - 1 + 1 -> Place]
      /\ less[1] = at[2] /\ less[n - 1 + 1] = to
  BY <1>1, <1>2
<1>4. ASSUME NEW j \in 1 .. n - 1
      PROVE  Leads(Tail(w)[j], less[j], less[j + 1], s, ps, over)
  <2>1. /\ less[j] = at[j + 1] /\ less[j + 1] = at[j + 1 + 1]
        /\ Tail(w)[j] = w[j + 1] /\ j + 1 \in 1 .. n
    BY <1>2
  <2>2. QED
    BY <1>1, <2>1
<1>5. Leads(Head(w), from, at[2], s, ps, over) /\ at[2] \in Place
  <2>1. 1 \in 1 .. n /\ 1 + 1 = 2 /\ 2 \in 1 .. n + 1
    BY <1>2
  <2>2. QED
    BY <1>1, <1>2, <2>1
<1> HIDE DEF less
<1>6. Route(Tail(w), at[2], to, s, ps, over)
  BY <1>2, <1>3, <1>4 DEF Route
<1>7. QED
  BY <1>5, <1>6

LEMMA EmptyRoute ==
  ASSUME NEW from, NEW to \in Place, NEW s, NEW ps, NEW over
  PROVE  Route(<< >>, from, to, s, ps, over) <=> from = to
<1>1. ASSUME Route(<< >>, from, to, s, ps, over) PROVE from = to
  BY <1>1 DEF Route
<1>2. ASSUME from = to PROVE Route(<< >>, from, to, s, ps, over)
  <2> DEFINE at == [j \in 1 .. 1 |-> to]
  <2>1. /\ at \in [1 .. Len(<< >>) + 1 -> Place]
        /\ at[1] = from /\ at[Len(<< >>) + 1] = to
        /\ 1 .. Len(<< >>) = {}
    BY <1>2
  <2> HIDE DEF at
  <2>2. QED
    BY <2>1 DEF Route
<1>3. QED
  BY <1>1, <1>2

\* More packets and pings, and an end, take no frame from the route.
LEMMA RouteKept ==
  ASSUME NEW w, NEW from, NEW to, NEW s, NEW ps, NEW over, NEW s2, NEW ps2, NEW over2,
         Begins(s, s2), Begins(ps, ps2), Len(s) \in Nat, Len(s2) \in Nat,
         Len(ps) \in Nat, Len(ps2) \in Nat, Len(w) \in Nat, over => over2,
         Route(w, from, to, s, ps, over)
  PROVE  Route(w, from, to, s2, ps2, over2)
<1>1. ASSUME NEW f, NEW a \in Place, NEW b \in Place, Leads(f, a, b, s, ps, over)
      PROVE  Leads(f, a, b, s2, ps2, over2)
  <2>1. CASE PingLeads(f, a, b, ps)
    <3>1. b.pings \in 1 .. Len(ps)
      BY <2>1 DEF PingLeads, Place
    <3>2. ps[b.pings] = ps2[b.pings] /\ b.pings <= Len(ps2)
      BY <3>1 DEF Begins, Place
    <3>3. PingLeads(f, a, b, ps2)
      BY <2>1, <3>2 DEF PingLeads
    <3>4. QED
      BY <3>3 DEF Leads
  <2>2. CASE DataLeads(f, a, b, s)
    <3>1. a.msgs + 1 \in 1 .. Len(s)
      BY <2>2 DEF DataLeads, Place
    <3>2. s[a.msgs + 1] = s2[a.msgs + 1] /\ a.msgs < Len(s2)
      BY <3>1 DEF Begins, Place
    <3>3. DataLeads(f, a, b, s2)
      BY <2>2, <3>2 DEF DataLeads
    <3>4. QED
      BY <3>3 DEF Leads
  <2>3. CASE CloseLeads(f, a, b, over)
    BY <2>3 DEF Leads, CloseLeads
  <2>4. QED
    BY <1>1, <2>1, <2>2, <2>3 DEF Leads
<1>2. PICK at \in [1 .. Len(w) + 1 -> Place] :
        /\ at[1] = from /\ at[Len(w) + 1] = to
        /\ \A j \in 1 .. Len(w) : Leads(w[j], at[j], at[j + 1], s, ps, over)
  BY DEF Route
<1>3. QED
  <2>1. ASSUME NEW j \in 1 .. Len(w) PROVE Leads(w[j], at[j], at[j + 1], s2, ps2, over2)
    <3>1. at[j] \in Place /\ at[j + 1] \in Place
      OBVIOUS
    <3>2. QED
      BY <1>1, <1>2, <3>1
  <2>2. QED
    BY <1>2, <2>1 DEF Route

-----------------------------------------------------------------------------
\* Bits in two parts.
LEMMA FirstBits ==
  ASSUME NEW b \in Bits, NEW n \in 0 .. Len(b)
  PROVE  /\ SubSeq(b, 1, n) \in Bits /\ Len(SubSeq(b, 1, n)) = n
         /\ \A i \in 1 .. n : SubSeq(b, 1, n)[i] = b[i]
<1>1. /\ Len(b) \in Nat /\ n \in Int /\ 1 \in Int
      /\ \A i \in 1 .. n : b[i] \in {0, 1}
  BY BitsAreSeq
<1>2. /\ SubSeq(b, 1, n) \in Bits
      /\ Len(SubSeq(b, 1, n)) = IF 1 <= n THEN n - 1 + 1 ELSE 0
      /\ \A i \in 1 .. n - 1 + 1 : SubSeq(b, 1, n)[i] = b[1 + i - 1]
  BY <1>1, SubSeqProperties DEF Bits
<1>3. n - 1 + 1 = n /\ n \in Nat
  BY <1>1
<1> HIDE DEF Bits
<1>4. \A i \in 1 .. n : 1 + i - 1 = i
  OBVIOUS
<1>5. QED
  BY <1>2, <1>3, <1>4

LEMMA LastBits ==
  ASSUME NEW b \in Bits, NEW n \in 0 .. Len(b)
  PROVE  /\ SubSeq(b, n + 1, Len(b)) \in Bits
         /\ Len(SubSeq(b, n + 1, Len(b))) = Len(b) - n
         /\ \A i \in 1 .. Len(b) - n : SubSeq(b, n + 1, Len(b))[i] = b[n + i]
<1> DEFINE rest == SubSeq(b, n + 1, Len(b))
<1>1. /\ Len(b) \in Nat /\ n \in Nat /\ n + 1 \in Int /\ Len(b) \in Int
      /\ \A i \in n + 1 .. Len(b) : b[i] \in {0, 1}
  BY BitsAreSeq
<1>2. /\ rest \in Bits
      /\ Len(rest) = IF n + 1 <= Len(b) THEN Len(b) - (n + 1) + 1 ELSE 0
      /\ \A i \in 1 .. Len(b) - (n + 1) + 1 : rest[i] = b[(n + 1) + i - 1]
  BY <1>1, SubSeqProperties DEF Bits
<1> HIDE DEF rest
<1>3. Len(b) - (n + 1) + 1 = Len(b) - n /\ (n + 1 > Len(b) => Len(b) - n = 0)
  BY <1>1
<1>4. \A i \in 1 .. Len(b) - n : (n + 1) + i - 1 = n + i
  BY <1>1
<1>5. Len(rest) = Len(b) - n
  <2>1. CASE n + 1 <= Len(b)
    BY <1>2, <1>3, <2>1
  <2>2. CASE ~(n + 1 <= Len(b))
    <3>1. Len(rest) = 0 /\ n + 1 > Len(b)
      BY <1>1, <1>2, <2>2
    <3>2. QED
      BY <1>3, <3>1
  <2>3. QED
    BY <2>1, <2>2
<1>6. \A i \in 1 .. Len(b) - n : rest[i] = b[n + i]
  <2>1. ASSUME NEW i \in 1 .. Len(b) - n PROVE rest[i] = b[n + i]
    <3>1. i \in 1 .. Len(b) - (n + 1) + 1 /\ (n + 1) + i - 1 = n + i
      BY <1>3, <1>4
    <3>2. rest[i] = b[(n + 1) + i - 1]
      BY <1>2, <3>1
    <3>3. QED
      BY <3>1, <3>2
  <2>2. QED
    BY <2>1
<1>7. QED
  BY <1>2, <1>5, <1>6 DEF rest

-----------------------------------------------------------------------------
LEMMA PongsBounded ==
  ASSUME NEW o \in Seq(Piece)
  PROVE  /\ Pongs(o) \subseteq 1 .. Len(o) /\ IsFiniteSet(Pongs(o))
         /\ Cardinality(Pongs(o)) \in Nat
<1>1. Len(o) \in Nat /\ DOMAIN o = 1 .. Len(o)
  BY LenProperties
<1>2. Pongs(o) \subseteq 1 .. Len(o)
  BY <1>1 DEF Pongs
<1>3. IsFiniteSet(Pongs(o))
  <2>1. 1 \in Int /\ Len(o) \in Int
    BY <1>1
  <2>2. QED
    BY <1>2, <2>1, FS_Interval, FS_Subset
<1>4. QED
  BY <1>2, <1>3, FS_CardinalityType

EndsPong(p) == p.of = "pong" /\ p.i = p.n

LEMMA PongsOfAppend ==
  ASSUME NEW o \in Seq(Piece), NEW p \in Piece
  PROVE  /\ ~EndsPong(p) => Pongs(Append(o, p)) = Pongs(o)
         /\ EndsPong(p) => Pongs(Append(o, p)) = Pongs(o) \cup {Len(o) + 1}
<1>1. /\ DOMAIN Append(o, p) = 1 .. Len(o) + 1 /\ Len(o) \in Nat
      /\ DOMAIN o = 1 .. Len(o)
      /\ \A i \in 1 .. Len(o) : Append(o, p)[i] = o[i]
      /\ Append(o, p)[Len(o) + 1] = p
  BY AppendProperties, LenProperties
<1>2. 1 .. Len(o) + 1 = (1 .. Len(o)) \cup {Len(o) + 1}
  BY <1>1
<1>3. QED
  BY <1>1, <1>2 DEF Pongs, EndsPong

LEMMA AnswersOfAppend ==
  ASSUME NEW o \in Seq(Piece), NEW p \in Piece, NEW ps, Answers(o, ps),
         EndsPong(p) => /\ Cardinality(Pongs(o)) + 1 <= Len(ps)
                        /\ p.bits = ps[Cardinality(Pongs(o)) + 1]
  PROVE  /\ Answers(Append(o, p), ps)
         /\ ~EndsPong(p) => Cardinality(Pongs(Append(o, p))) = Cardinality(Pongs(o))
         /\ EndsPong(p) => Cardinality(Pongs(Append(o, p))) = Cardinality(Pongs(o)) + 1
<1> DEFINE q == Append(o, p)
           n == Len(o)
<1>1. /\ n \in Nat /\ q[n + 1] = p
      /\ \A i \in 1 .. n : q[i] = o[i]
      /\ Pongs(o) \subseteq 1 .. n /\ IsFiniteSet(Pongs(o))
      /\ Cardinality(Pongs(o)) \in Nat
  BY AppendProperties, LenProperties, PongsBounded
<1>2. ASSUME NEW i \in Pongs(o), Pongs(q) = Pongs(o) \/ Pongs(q) = Pongs(o) \cup {n + 1}
      PROVE  q[i].bits = ps[Cardinality({j \in Pongs(q) : j <= i})]
  <2>1. i \in 1 .. n /\ q[i] = o[i]
    BY <1>1
  <2>2. {j \in Pongs(q) : j <= i} = {j \in Pongs(o) : j <= i}
    BY <1>1, <1>2, <2>1
  <2>3. QED
    BY <2>1, <2>2 DEF Answers
<1>3. CASE ~EndsPong(p)
  <2>1. Pongs(q) = Pongs(o)
    BY <1>3, PongsOfAppend
  <2> HIDE DEF q
  <2>2. QED
    BY <1>2, <1>3, <2>1 DEF Answers, q
<1>4. CASE EndsPong(p)
  <2>1. Pongs(q) = Pongs(o) \cup {n + 1}
    BY <1>4, PongsOfAppend
  <2> HIDE DEF q
  <2>2. n + 1 \notin Pongs(o)
    BY <1>1
  <2>3. Cardinality(Pongs(q)) = Cardinality(Pongs(o)) + 1
    BY <1>1, <2>1, <2>2, FS_AddElement
  <2>4. {j \in Pongs(q) : j <= n + 1} = Pongs(q)
    BY <1>1, <2>1
  <2>5. q[n + 1].bits = ps[Cardinality({j \in Pongs(q) : j <= n + 1})]
    BY <1>1, <1>4, <2>3, <2>4
  <2>6. \A i \in Pongs(q) : q[i].bits = ps[Cardinality({j \in Pongs(q) : j <= i})]
    BY <1>2, <2>1, <2>5
  <2>7. QED
    BY <1>4, <2>3, <2>6 DEF Answers, q
<1>5. QED
  BY <1>3, <1>4

LEMMA AnswersKept ==
  ASSUME NEW o \in Seq(Piece), NEW ps, NEW ps2, Len(ps) \in Nat, Len(ps2) \in Nat,
         Answers(o, ps), Begins(ps, ps2)
  PROVE  Answers(o, ps2)
<1>1. /\ Len(o) \in Nat /\ Pongs(o) \subseteq 1 .. Len(o) /\ IsFiniteSet(Pongs(o))
      /\ Cardinality(Pongs(o)) \in Nat
  BY LenProperties, PongsBounded
<1>2. ASSUME NEW i \in Pongs(o)
      PROVE  Cardinality({j \in Pongs(o) : j <= i}) \in 1 .. Len(ps)
  <2> DEFINE S == {j \in Pongs(o) : j <= i}
  <2>1. S \subseteq Pongs(o) /\ i \in S
    BY <1>1
  <2> HIDE DEF S
  <2>2. IsFiniteSet(S) /\ Cardinality(S) <= Cardinality(Pongs(o))
    BY <1>1, <2>1, FS_Subset
  <2>3. Cardinality(S) \in Nat /\ Cardinality(S) # 0
    BY <2>1, <2>2, FS_CardinalityType, FS_EmptySet
  <2>4. QED
    BY <1>1, <2>2, <2>3 DEF Answers, S
<1>3. QED
  BY <1>1, <1>2 DEF Answers, Begins

LEMMA FirstPiece ==
  ASSUME NEW of, NEW n \in {2, 3}, NEW bits
  PROVE  LET s == Pieces(of, n, bits) IN
           s # << >> /\ s[1] = [of |-> of, i |-> 1, n |-> n, bits |-> bits]
<1> DEFINE s == Pieces(of, n, bits)
<1>1. s = [i \in 1 .. n |-> [of |-> of, i |-> i, n |-> n, bits |-> bits]]
  BY DEF Pieces
<1>2. 1 \in 1 .. n
  OBVIOUS
<1> HIDE DEF s
<1>3. 1 \in DOMAIN s /\ s[1] = [of |-> of, i |-> 1, n |-> n, bits |-> bits]
  BY <1>1, <1>2
<1>4. QED
  BY <1>3 DEF s

LEMMA BeginsWhole ==
  ASSUME NEW a \in Bits, NEW m \in Bits, Begins(a, m), Len(a) = Len(m)
  PROVE  a = m
BY BitsAreSeq, BitsEqual DEF Begins

\* The bits of m after a are put to a.
LEMMA BeginsFurther ==
  ASSUME NEW a \in Bits, NEW b \in Bits, NEW m \in Bits,
         Begins(a, m), Len(a) + Len(b) <= Len(m),
         \A i \in 1 .. Len(b) : b[i] = m[Len(a) + i]
  PROVE  /\ a \o b \in Bits /\ Len(a \o b) = Len(a) + Len(b)
         /\ Begins(a \o b, m)
         /\ Len(a) + Len(b) = Len(m) => a \o b = m
<1> DEFINE c == a \o b
<1>1. Len(a) \in Nat /\ Len(b) \in Nat /\ Len(m) \in Nat
  BY BitsAreSeq
<1>2. /\ c \in Bits /\ Len(c) = Len(a) + Len(b)
      /\ \A i \in 1 .. Len(a) + Len(b) : c[i] = IF i <= Len(a) THEN a[i] ELSE b[i - Len(a)]
  BY ConcatProperties DEF Bits
<1> HIDE DEF c
<1>3. ASSUME NEW i \in 1 .. Len(c) PROVE c[i] = m[i]
  <2>1. CASE i <= Len(a)
    BY <1>1, <1>2, <2>1 DEF Begins
  <2>2. CASE i > Len(a)
    <3>1. i - Len(a) \in 1 .. Len(b) /\ Len(a) + (i - Len(a)) = i
      BY <1>1, <1>2, <2>2
    <3>2. c[i] = b[i - Len(a)]
      BY <1>1, <1>2, <2>2
    <3>3. QED
      BY <3>1, <3>2
  <2>3. QED
    BY <1>1, <1>2, <2>1, <2>2
<1>4. Begins(c, m)
  BY <1>2, <1>3 DEF Begins
<1>5. QED
  BY <1>2, <1>4, BeginsWhole DEF c

LEMMA PacketPieces ==
  ASSUME NEW n \in {2, 3}
  PROVE  Pieces("packet", n, << >>) # << >> /\ Pieces("packet", n, << >>)[1].of = "packet"
<1> DEFINE bits == << >>
<1> HIDE DEF bits
<1>1. /\ Pieces("packet", n, bits) # << >>
      /\ Pieces("packet", n, bits)[1] = [of |-> "packet", i |-> 1, n |-> n, bits |-> bits]
  BY FirstPiece
<1>2. QED
  BY <1>1 DEF bits

\* A read of the connection takes the mask on from where it was.
LEMMA UnmaskAt ==
  ASSUME NEW w \in Websocket, NEW bytes \in Bits
  PROVE  /\ Unmask(w, bytes) \in Bits /\ Len(Unmask(w, bytes)) = Len(bytes)
         /\ \A i \in 1 .. Len(bytes) :
              Unmask(w, bytes)[i] = (bytes[i] + w.mkey[((w.mask_i + i - 1) % 4) + 1]) % 2
<1>1. w.mkey \in Key /\ w.mask_i \in Nat
  BY DEF Websocket
<1>2. QED
  BY <1>1, MaskedAt DEF Unmask

-----------------------------------------------------------------------------
LEMMA SentIsTyped ==
  ASSUME SentTyped
  PROVE  /\ Len(sent) \in Nat /\ Len(pings) \in Nat /\ Len(received) \in Nat
         /\ \A i \in 1 .. Len(sent) :
              sent[i] \in Bits /\ Len(sent[i]) \in Nat /\ Len(sent[i]) > 0
         /\ \A i \in 1 .. Len(pings) : pings[i] \in Bits
<1>1. ASSUME NEW i \in 1 .. Len(sent)
      PROVE  sent[i] \in Bits /\ Len(sent[i]) \in Nat /\ Len(sent[i]) > 0
  <2>1. sent[i] \in Bits /\ sent[i] # << >>
    BY ElementOfSeq DEF SentTyped
  <2>2. QED
    BY <2>1, BitsAreSeq
<1>2. QED
  BY <1>1, LenProperties, ElementOfSeq DEF SentTyped

LEMMA ClientIsAPlace ==
  ASSUME SentTyped, Cutting, uncut \in Bits
  PROVE  ClientAt \in Place
<1>1. /\ Len(sent) \in Nat /\ Len(pings) \in Nat /\ Len(uncut) \in Nat
      /\ \A i \in 1 .. Len(sent) : Len(sent[i]) \in Nat
  BY SentIsTyped, BitsAreSeq
<1>2. CASE uncut = << >>
  BY <1>1, <1>2 DEF ClientAt, Place
<1>3. CASE uncut # << >>
  <2>1. Len(sent) > 0 /\ Len(uncut) <= Len(sent[Len(sent)])
    BY <1>3 DEF Cutting, Ends
  <2>2. Len(sent) \in 1 .. Len(sent)
    BY <1>1, <2>1
  <2>3. QED
    BY <1>1, <1>3, <2>1, <2>2 DEF ClientAt, Place
<1>4. QED
  BY <1>2, <1>3

LEMMA InitPackets == FramesInit => PacketInv
<1> SUFFICES ASSUME FramesInit PROVE PacketInv
  OBVIOUS
<1> USE DEF FramesInit
<1>1. SentTyped /\ ReadTyped
  <2>1. << >> \in Bits /\ << >> \in Seq(Bits) /\ << >> \in Seq(Bits \ {<< >>})
    BY EmptySeq DEF Bits
  <2>2. NoWebsocket \in Websocket
    BY <2>1, UnmaskedIsKey DEF NoWebsocket, Websocket
  <2>3. QED
    BY <2>1, <2>2 DEF SentTyped, ReadTyped
<1>2. Cutting /\ Begins(received, sent) /\ Reading
  BY DEF Cutting, Begins, Reading, NoWebsocket
<1>3. Pongs(out) = {} /\ Answered = 0
  BY FS_EmptySet DEF Pongs, Answered
<1>4. Ponging
  BY <1>3, FS_EmptySet DEF Ponging, Answers, Answering, Threads
<1>5. Route(wire, ReaderAt, ClientAt, sent, pings, closed)
  <2>1. ReaderAt = ClientAt
    BY <1>3 DEF ReaderAt, ClientAt, Answering, Threads, NoWebsocket
  <2>2. ClientAt \in Place
    <3>1. uncut \in Bits
      BY DEF Bits
    <3>2. QED
      BY <1>1, <1>2, <3>1, ClientIsAPlace
  <2>3. QED
    BY <2>1, <2>2, EmptyRoute
<1>6. QED
  BY <1>1, <1>2, <1>4, <1>5 DEF PacketInv

-----------------------------------------------------------------------------
\* What the client does keeps what the receive thread has.
LEMMA ClientKeeps ==
  ASSUME WriteInv, PacketInv,
         UNCHANGED <<ws, reader, stream, packet, received, writing, out>>,
         SentTyped', Cutting', Begins(sent, sent'), Begins(pings, pings'),
         closed => closed',
         reader # "gone" => Route(wire', ReaderAt, ClientAt', sent', pings', closed')
  PROVE  PacketInv'
<1>1. /\ Len(sent) \in Nat /\ Len(pings) \in Nat /\ Len(received) \in Nat
      /\ Len(pings') \in Nat /\ Len(sent') \in Nat
      /\ SentTyped /\ ReadTyped /\ Begins(received, sent) /\ Reading /\ Ponging
      /\ out \in Seq(Piece)
  BY SentIsTyped, LenProperties DEF PacketInv, SentTyped, WriteInv, WriteTyped
<1>2. ReadTyped'
  BY <1>1 DEF ReadTyped
<1>3. Begins(received, sent)'
  BY <1>1 DEF Begins
<1>4. Len(received) < Len(sent) => /\ sent'[Len(received) + 1] = sent[Len(received) + 1]
                                   /\ Len(received) < Len(sent')
  BY <1>1 DEF Begins
<1>5. Reading'
  BY <1>1, <1>4 DEF Reading
<1>6. Ponging'
  <2>1. Answers(out, pings')
    BY <1>1, AnswersKept DEF Ponging
  <2>2. Answered' = Answered /\ Answering' = Answering
    BY DEF Answered, Answering
  <2>3. Answering => /\ Answered < Len(pings')
                     /\ writing["receiver"][1].bits = pings'[Answered + 1]
    <3>1. Answered \in Nat
      BY <1>1, PongsBounded DEF Answered
    <3>2. QED
      BY <1>1, <3>1 DEF Ponging, Begins
  <2>4. QED
    BY <1>1, <2>1, <2>2, <2>3 DEF Ponging
<1>7. ReaderAt' = ReaderAt
  BY DEF ReaderAt, Answered, Answering
<1>8. QED
  BY <1>2, <1>3, <1>5, <1>6, <1>7 DEF PacketInv

LEMMA BeginsItself ==
  ASSUME NEW s, Len(s) \in Nat
  PROVE  Begins(s, s)
BY DEF Begins

LEMMA BeginsAppended ==
  ASSUME NEW S, NEW s \in Seq(S), NEW e \in S
  PROVE  Begins(s, Append(s, e))
BY AppendProperties, LenProperties DEF Begins

LEMMA StartPacketComesOut ==
  ASSUME FramesAssumption, WriteInv, PacketInv, NEW p \in Packets, StartPacket(p)
  PROVE  PacketInv'
<1>1. /\ UNCHANGED <<ws, reader, stream, packet, received, writing, out, wire, pings, closed>>
      /\ sent' = Append(sent, p) /\ uncut' = p /\ uncut = << >>
  BY DEF StartPacket, readVars, writeVars
<1>2. /\ p \in Bits \ {<< >>} /\ SentTyped /\ sent \in Seq(Bits \ {<< >>})
      /\ Len(p) \in Nat /\ Len(p) > 0
  <2>1. p \in Bits \ {<< >>}
    BY DEF FramesAssumption, Bits
  <2>2. QED
    BY <2>1, BitsAreSeq DEF PacketInv, SentTyped
<1>3. /\ sent' \in Seq(Bits \ {<< >>}) /\ Len(sent') = Len(sent) + 1
      /\ sent'[Len(sent) + 1] = p /\ Len(sent) \in Nat
      /\ Begins(sent, sent') /\ Begins(pings, pings')
  BY <1>1, <1>2, AppendProperties, LenProperties, BeginsAppended, BeginsItself, SentIsTyped
<1>4. SentTyped'
  BY <1>1, <1>2, <1>3 DEF SentTyped
<1>5. Cutting'
  BY <1>1, <1>2, <1>3 DEF Cutting, Ends
<1>6. ClientAt' = ClientAt
  <2>1. Len(sent') - 1 = Len(sent) /\ Len(sent'[Len(sent')]) - Len(p) = 0
    BY <1>2, <1>3
  <2>2. QED
    BY <1>1, <1>2, <2>1 DEF ClientAt
<1>7. reader # "gone" => Route(wire', ReaderAt, ClientAt', sent', pings', closed')
  <2>1. wire \in Seq(WireFrame) /\ Len(wire) \in Nat
    BY LenProperties DEF WriteInv, WriteTyped
  <2>2. Len(pings) \in Nat
    BY <1>2, SentIsTyped
  <2>3. QED
    BY <1>1, <1>3, <1>6, <2>1, <2>2, RouteKept DEF PacketInv
<1>8. QED
  BY <1>1, <1>3, <1>4, <1>5, <1>7, ClientKeeps

LEMMA SendPingComesOut ==
  ASSUME FramesAssumption, WriteInv, PacketInv, NEW b \in {0, 1}, NEW mkey \in MaskKeys,
         SendPing(<<b>>, mkey)
  PROVE  PacketInv'
<1> DEFINE f == Frame(Ping, TRUE, mkey, <<b>>)
           to == [ClientAt EXCEPT !.pings = @ + 1]
<1>1. /\ UNCHANGED <<ws, reader, stream, packet, received, writing, out, sent, uncut, closed>>
      /\ pings' = Append(pings, <<b>>) /\ wire' = Append(wire, f)
  BY DEF SendPing, writeVars
<1>2. /\ SentTyped /\ Cutting /\ uncut \in Bits /\ pings \in Seq(Bits)
      /\ wire \in Seq(WireFrame) /\ <<b>> \in Bits /\ mkey \in Key
  BY DEF PacketInv, SentTyped, WriteInv, WriteTyped, Bits, FramesAssumption, Key
<1>3. /\ pings' \in Seq(Bits) /\ Len(pings') = Len(pings) + 1
      /\ pings'[Len(pings) + 1] = <<b>> /\ Len(pings) \in Nat
      /\ Begins(sent, sent') /\ Begins(pings, pings')
  BY <1>1, <1>2, AppendProperties, BeginsAppended, BeginsItself, SentIsTyped
<1>4. SentTyped' /\ Cutting'
  BY <1>1, <1>2, <1>3 DEF SentTyped, Cutting
<1>5. ClientAt \in Place /\ ClientAt.pings = Len(pings)
  BY <1>2, ClientIsAPlace DEF ClientAt
<1>6. ClientAt' = to /\ to \in Place /\ to.pings = Len(pings) + 1
  <2>1. ClientAt' = to
    BY <1>1, <1>3 DEF ClientAt
  <2>2. QED
    BY <1>3, <1>5, <2>1 DEF Place
<1>7. /\ f \in WireFrame /\ f.opcode = Ping /\ f.mkey = mkey
      /\ f.bytes = Masked(<<b>>, mkey, 0)
  <2>1. Ping \in {0, 2, 8, 9}
    BY DEF Ping
  <2>2. QED
    BY <1>2, <2>1, FrameIsTyped DEF Frame
<1> HIDE DEF f, to
<1>8. PingLeads(f, ClientAt, to, pings')
  <2>1. Masked(f.bytes, f.mkey, 0) = <<b>>
    BY <1>2, <1>7, MaskedTwice
  <2>2. QED
    BY <1>3, <1>6, <1>7, <2>1 DEF PingLeads, to
<1>9. ASSUME reader # "gone"
      PROVE  Route(wire', ReaderAt, ClientAt', sent', pings', closed')
  <2>1. Route(wire, ReaderAt, ClientAt, sent', pings', closed')
    <3>1. Len(sent) \in Nat /\ Len(pings') \in Nat /\ Len(wire) \in Nat
      BY <1>2, <1>3, SentIsTyped, LenProperties
    <3>2. QED
      BY <1>1, <1>3, <1>9, <3>1, RouteKept DEF PacketInv
  <2>2. Leads(f, ClientAt, to, sent', pings', closed')
    BY <1>8 DEF Leads
  <2>3. QED
    BY <1>1, <1>2, <1>6, <1>7, <2>1, <2>2, RouteExtended
<1>10. QED
  BY <1>1, <1>3, <1>4, <1>9, ClientKeeps

LEMMA SendCloseComesOut ==
  ASSUME WriteInv, PacketInv, SendClose
  PROVE  PacketInv'
<1> DEFINE f == Frame(Close, TRUE, Unmasked, << >>)
<1>1. /\ UNCHANGED <<ws, reader, stream, packet, received, writing, out, sent, uncut, pings>>
      /\ closed' = TRUE /\ wire' = Append(wire, f)
  BY DEF SendClose, writeVars
<1>2. /\ SentTyped /\ Cutting /\ uncut \in Bits /\ wire \in Seq(WireFrame)
      /\ Len(sent) \in Nat /\ Len(pings) \in Nat /\ Len(wire) \in Nat
  BY SentIsTyped, LenProperties DEF PacketInv, WriteInv, WriteTyped
<1>3. /\ f \in WireFrame /\ f.opcode = Close
      /\ Begins(sent, sent') /\ Begins(pings, pings')
  <2>1. Close \in {0, 2, 8, 9} /\ << >> \in Bits
    BY DEF Close, Bits
  <2>2. QED
    BY <1>1, <1>2, <2>1, UnmaskedIsKey, FrameIsTyped, BeginsItself DEF Frame
<1> HIDE DEF f
<1>4. SentTyped' /\ Cutting' /\ ClientAt' = ClientAt /\ ClientAt \in Place
  BY <1>1, <1>2, ClientIsAPlace DEF SentTyped, Cutting, ClientAt
<1>5. ASSUME reader # "gone"
      PROVE  Route(wire', ReaderAt, ClientAt', sent', pings', closed')
  <2>1. Route(wire, ReaderAt, ClientAt, sent', pings', closed')
    BY <1>1, <1>2, <1>3, <1>5, RouteKept DEF PacketInv
  <2>2. Leads(f, ClientAt, ClientAt, sent', pings', closed')
    BY <1>1, <1>3 DEF Leads, CloseLeads
  <2>3. QED
    BY <1>1, <1>2, <1>3, <1>4, <2>1, <2>2, RouteExtended
<1>6. QED
  BY <1>1, <1>3, <1>4, <1>5, ClientKeeps

LEMMA SendFrameComesOut ==
  ASSUME FramesAssumption, WriteInv, PacketInv, NEW n \in 1 .. Len(uncut),
         NEW mkey \in MaskKeys \cup {Unmasked}, SendFrame(n, mkey)
  PROVE  PacketInv'
<1> DEFINE part == SubSeq(uncut, 1, n)
           opcode == IF Underway THEN Continuation ELSE Binary
           f == Frame(opcode, n = Len(uncut), mkey, part)
           m == sent[Len(sent)]
           past == Len(m) - Len(uncut)
<1>1. /\ UNCHANGED <<ws, reader, stream, packet, received, writing, out, sent, pings, closed>>
      /\ uncut # << >> /\ wire' = Append(wire, f)
      /\ uncut' = SubSeq(uncut, n + 1, Len(uncut))
  BY DEF SendFrame, writeVars
<1>2. /\ SentTyped /\ Cutting /\ uncut \in Bits /\ wire \in Seq(WireFrame) /\ mkey \in Key
      /\ Len(sent) \in Nat /\ Len(pings) \in Nat /\ Len(wire) \in Nat
      /\ Len(uncut) \in Nat /\ DOMAIN uncut = 1 .. Len(uncut)
      /\ \A i \in 1 .. Len(uncut) : uncut[i] \in {0, 1}
  BY SentIsTyped, LenProperties, BitsAreSeq, UnmaskedIsKey
  DEF PacketInv, WriteInv, WriteTyped, FramesAssumption, Key
<1>3. /\ Len(sent) > 0 /\ Len(uncut) <= Len(m) /\ m \in Bits /\ Len(m) \in Nat
      /\ Len(sent) \in 1 .. Len(sent)
      /\ \A i \in 1 .. Len(uncut) : uncut[i] = m[past + i]
  <2>1. /\ Len(sent) > 0 /\ Len(uncut) <= Len(m)
        /\ \A i \in 1 .. Len(uncut) : uncut[i] = m[past + i]
    BY <1>1, <1>2 DEF Cutting, Ends
  <2>2. Len(sent) \in 1 .. Len(sent)
    BY <1>2, <2>1
  <2>3. QED
    BY <1>2, <2>1, <2>2, SentIsTyped
<1>4. /\ part \in Bits /\ Len(part) = n /\ \A i \in 1 .. n : part[i] = uncut[i]
      /\ uncut' \in Bits /\ Len(uncut') = Len(uncut) - n
      /\ \A i \in 1 .. Len(uncut) - n : uncut'[i] = uncut[n + i]
  <2>1. n \in 0 .. Len(uncut)
    BY <1>2
  <2>2. QED
    BY <1>1, <1>2, <2>1, FirstBits, LastBits
<1>5. /\ uncut' = << >> <=> n = Len(uncut)
      /\ n \in Nat /\ past \in Nat
  <2>1. n \in Nat /\ past \in Nat
    BY <1>2, <1>3
  <2>2. uncut' = << >> <=> Len(uncut') = 0
    BY <1>4, BitsAreSeq
  <2>3. Len(uncut) - n = 0 <=> n = Len(uncut)
    BY <1>2
  <2>4. QED
    BY <1>4, <2>1, <2>2, <2>3
<1>6. Underway <=> past # 0
  <2>1. Last(sent) = m
    BY DEF Last
  <2>2. past = 0 => uncut = m
    <3>1. ASSUME past = 0 PROVE uncut = m
      <4>1. Len(uncut) = Len(m) /\ \A i \in 1 .. Len(uncut) : uncut[i] = m[i]
        BY <1>2, <1>3, <3>1
      <4>2. QED
        BY <1>2, <1>3, <4>1, BitsEqual
    <3>2. QED
      BY <3>1
  <2>3. past # 0 => uncut # m
    BY <1>2, <1>3
  <2>4. QED
    BY <1>3, <2>1, <2>2, <2>3 DEF Underway
<1>7. /\ f \in WireFrame /\ f.opcode = opcode /\ f.mkey = mkey /\ f.fin = (n = Len(uncut))
      /\ f.bytes = Masked(part, mkey, 0) /\ Len(f.bytes) = n
  <2>1. opcode \in {0, 2, 8, 9} /\ (n = Len(uncut)) \in BOOLEAN
    BY DEF Continuation, Binary
  <2>2. Frame(opcode, n = Len(uncut), mkey, part) \in WireFrame
    BY <1>2, <1>4, <2>1, FrameIsTyped
  <2>3. Len(Masked(part, mkey, 0)) = n
    BY <1>2, <1>4, MaskedAt
  <2>4. QED
    BY <2>2, <2>3 DEF Frame
<1>8. Cutting' /\ SentTyped'
  <2>1. SentTyped'
    BY <1>1, <1>2 DEF SentTyped
  <2>2. \A i \in 1 .. Len(uncut') : uncut'[i] = m[Len(m) - Len(uncut') + i]
    <3>1. ASSUME NEW i \in 1 .. Len(uncut')
          PROVE  uncut'[i] = m[Len(m) - Len(uncut') + i]
      <4>1. uncut'[i] = uncut[n + i] /\ n + i \in 1 .. Len(uncut)
        BY <1>2, <1>4
      <4>2. uncut[n + i] = m[past + (n + i)]
        BY <1>3, <4>1
      <4>3. past + (n + i) = Len(m) - Len(uncut') + i
        <5>1. Len(uncut') = Len(uncut) - n /\ i \in Nat
          BY <1>2, <1>4
        <5>2. ASSUME NEW a \in Nat, NEW u \in Nat
              PROVE  (a - u) + (n + i) = a - (u - n) + i
          BY <1>5, <5>1
        <5>3. (Len(m) - Len(uncut)) + (n + i) = Len(m) - (Len(uncut) - n) + i
          BY <1>2, <1>3, <5>2
        <5>4. QED
          BY <5>1, <5>3
      <4>4. QED
        BY <4>1, <4>2, <4>3
    <3>2. QED
      BY <3>1
  <2>3. QED
    <3>1. Len(uncut') <= Len(m)
      BY <1>2, <1>3, <1>4
    <3>2. Ends(uncut', m)
      BY <2>2, <3>1 DEF Ends
    <3>3. QED
      BY <1>1, <1>3, <2>1, <3>2 DEF Cutting
<1>9. /\ ClientAt = [msgs |-> Len(sent) - 1, bits |-> past, pings |-> Len(pings)]
      /\ ClientAt \in Place /\ ClientAt' \in Place
  <2>1. ClientAt \in Place
    BY <1>2, ClientIsAPlace
  <2>2. ClientAt' \in Place
    <3>1. ClientAt' = IF uncut' = << >>
                        THEN [msgs |-> Len(sent), bits |-> 0, pings |-> Len(pings)]
                        ELSE [msgs |-> Len(sent) - 1, bits |-> Len(m) - Len(uncut'),
                              pings |-> Len(pings)]
      BY <1>1 DEF ClientAt
    <3>2. Len(sent) - 1 \in Nat /\ Len(m) - Len(uncut') \in Nat
      BY <1>2, <1>3, <1>4
    <3> HIDE DEF m
    <3>3. QED
      BY <1>2, <3>1, <3>2 DEF Place
  <2>3. QED
    BY <1>1, <2>1, <2>2 DEF ClientAt
<1> HIDE DEF f, part, opcode
<1>10. DataLeads(f, ClientAt, ClientAt', sent)
  <2>1. ClientAt.msgs + 1 = Len(sent) /\ ClientAt.bits = past /\ ClientAt.pings = Len(pings)
    BY <1>2, <1>9
  <2>2. Masked(f.bytes, f.mkey, 0) = part
    BY <1>2, <1>4, <1>7, MaskedTwice
  <2>3. \A i \in 1 .. n : part[i] = m[past + i]
    BY <1>2, <1>3, <1>4
  <2>4. f.fin = (past + n = Len(m))
    <3>1. (n = Len(uncut)) <=> (past + n = Len(m))
      <4>1. ASSUME NEW a \in Nat, NEW u \in Nat PROVE (n = u) <=> ((a - u) + n = a)
        BY <1>5
      <4>2. QED
        BY <1>2, <1>3, <4>1
    <3>2. QED
      BY <1>7, <3>1, Zenon
  <2>5. ClientAt' = IF f.fin
                      THEN [msgs |-> ClientAt.msgs + 1, bits |-> 0, pings |-> ClientAt.pings]
                      ELSE [msgs |-> ClientAt.msgs, bits |-> past + n, pings |-> ClientAt.pings]
    <3>1. CASE n = Len(uncut)
      BY <1>1, <1>5, <1>7, <2>1, <3>1 DEF ClientAt
    <3>2. CASE n # Len(uncut)
      <4>1. Len(m) - Len(uncut') = past + n
        BY <1>2, <1>3, <1>4
      <4>2. QED
        BY <1>1, <1>5, <1>7, <1>9, <2>1, <3>2, <4>1 DEF ClientAt
    <3>3. QED
      BY <3>1, <3>2
  <2>6. f.opcode = IF past = 0 THEN Binary ELSE Continuation
    BY <1>6, <1>7 DEF opcode
  <2>7. past + n <= Len(m) /\ n > 0
    BY <1>2, <1>3
  <2>8. Len(sent) - 1 < Len(sent)
    BY <1>2
  <2> HIDE DEF past, m
  <2>9. ClientAt.msgs < Len(sent)
    BY <1>9, <2>8
  <2>10. QED
    BY <1>7, <2>1, <2>2, <2>3, <2>4, <2>5, <2>6, <2>7, <2>9 DEF DataLeads, m
<1>11. ASSUME reader # "gone"
       PROVE  Route(wire', ReaderAt, ClientAt', sent', pings', closed')
  <2>1. Route(wire, ReaderAt, ClientAt, sent, pings, closed)
    BY <1>11 DEF PacketInv
  <2>2. Leads(f, ClientAt, ClientAt', sent, pings, closed)
    BY <1>10 DEF Leads
  <2>3. QED
    BY <1>1, <1>2, <1>7, <1>9, <2>1, <2>2, RouteExtended
<1>12. Begins(sent, sent') /\ Begins(pings, pings')
  BY <1>1, <1>2, BeginsItself
<1>13. QED
  BY <1>1, <1>8, <1>11, <1>12, ClientKeeps

-----------------------------------------------------------------------------
\* What the receive thread does leaves what the client did.
LEMMA ReaderKeeps ==
  ASSUME PacketInv, UNCHANGED <<sent, uncut, pings, closed>>,
         ReadTyped', received' \in Seq(Bits), Begins(received', sent), Reading', Ponging',
         reader' = "gone" => closed,
         reader' # "gone" => Route(wire', ReaderAt', ClientAt, sent, pings, closed)
  PROVE  PacketInv'
<1>1. SentTyped' /\ Cutting' /\ ClientAt' = ClientAt
  BY DEF PacketInv, SentTyped, Cutting, ClientAt
<1>2. QED
  BY <1>1 DEF PacketInv

\* What is at the head of the wire, and who reads it.
LEMMA NextFrame ==
  ASSUME WriteInv, PacketInv, ReadHeader
  PROVE  /\ UNCHANGED <<sent, uncut, pings, closed, out>>
         /\ reader = "header" /\ writing["receiver"] = << >> /\ ~Answering /\ packet = << >>
         /\ Head(wire) \in WireFrame
         /\ \E mid \in Place :
              /\ Leads(Head(wire), ReaderAt, mid, sent, pings, closed)
              /\ Route(wire', mid, ClientAt, sent, pings, closed)
<1>1. /\ UNCHANGED <<sent, uncut, pings, closed, out>> /\ wire' = Tail(wire)
      /\ reader = "header" /\ writing["receiver"] = << >> /\ wire # << >>
  BY DEF ReadHeader, Reads, clientVars
<1>2. wire \in Seq(WireFrame) /\ Route(wire, ReaderAt, ClientAt, sent, pings, closed)
  BY <1>1 DEF WriteInv, WriteTyped, PacketInv
<1>3. /\ Head(wire) \in WireFrame
      /\ \E mid \in Place :
           /\ Leads(Head(wire), ReaderAt, mid, sent, pings, closed)
           /\ Route(wire', mid, ClientAt, sent, pings, closed)
  BY <1>1, <1>2, HeadTailProperties, RouteShortened
<1>4. QED
  BY <1>1, <1>3 DEF Answering, PacketInv, Reading

LEMMA ReadCloseComesOut ==
  ASSUME WriteInv, PacketInv, ReadHeader, ReadClose(Head(wire))
  PROVE  PacketInv'
<1>1. /\ UNCHANGED <<sent, uncut, pings, closed, out, stream, packet, received, writing>>
      /\ ws' = Reset(ws) /\ reader' = "gone" /\ Head(wire).opcode = Close
  BY NextFrame DEF ReadClose, Disconnect
<1>2. closed
  <2>1. PICK mid \in Place : Leads(Head(wire), ReaderAt, mid, sent, pings, closed)
    BY NextFrame
  <2>2. QED
    BY <1>1, <2>1 DEF Leads, PingLeads, DataLeads, CloseLeads, Close, Ping, Binary,
                      Continuation
<1>3. ReadTyped' /\ received' \in Seq(Bits) /\ Begins(received', sent)
  <2>1. << >> \in Bits /\ ws \in Websocket
    BY DEF Bits, PacketInv, ReadTyped
  <2>2. Reset(ws) \in Websocket
    BY <2>1 DEF Reset, Websocket
  <2>3. QED
    BY <1>1, <2>2 DEF PacketInv, ReadTyped, SentTyped
<1>4. Reading' /\ Ponging'
  BY <1>1 DEF PacketInv, Reading, Ponging, Answering, Answered
<1>5. QED
  BY <1>1, <1>2, <1>3, <1>4, ReaderKeeps

LEMMA ReadPingComesOut ==
  ASSUME WriteInv, PacketInv, ReadHeader, ReadPing(Head(wire))
  PROVE  PacketInv'
<1> DEFINE f == Head(wire)
           pong == Pieces("pong", 2, Masked(f.bytes, f.mkey, 0))
<1>1. /\ UNCHANGED <<sent, uncut, pings, closed, out, stream, packet, received, ws, reader>>
      /\ writing' = [writing EXCEPT !["receiver"] = pong] /\ f.opcode = Ping
  BY NextFrame DEF ReadPing
<1>2. /\ reader = "header" /\ ~Answering /\ f \in WireFrame
      /\ writing \in [Threads -> Seq(Piece)]
      /\ out \in Seq(Piece) /\ Answered \in Nat
  BY NextFrame, PongsBounded DEF WriteInv, WriteTyped, Answered
<1>3. PICK mid \in Place : /\ Leads(f, ReaderAt, mid, sent, pings, closed)
                           /\ Route(wire', mid, ClientAt, sent, pings, closed)
  BY NextFrame
<1>4. PingLeads(f, ReaderAt, mid, pings)
  BY <1>1, <1>3 DEF Leads, DataLeads, CloseLeads, Close, Ping, Binary, Continuation
<1>5. /\ ReaderAt.pings = Answered
      /\ mid = [ReaderAt EXCEPT !.pings = Answered + 1] /\ mid.pings = Answered + 1
      /\ Answered + 1 <= Len(pings)
      /\ Masked(f.bytes, f.mkey, 0) = pings[Answered + 1]
  <2>1. ReaderAt.pings = Answered
    BY <1>2 DEF ReaderAt
  <2>2. mid = [ReaderAt EXCEPT !.pings = Answered + 1]
    BY <1>4, <2>1 DEF PingLeads
  <2>3. mid.pings = Answered + 1
    BY <2>2 DEF ReaderAt
  <2>4. QED
    BY <1>4, <2>1, <2>2, <2>3 DEF PingLeads
<1>6. /\ pong # << >> /\ pong[1].of = "pong" /\ pong[1].bits = Masked(f.bytes, f.mkey, 0)
  <2> DEFINE bits == Masked(f.bytes, f.mkey, 0)
  <2> HIDE DEF bits
  <2>1. Pieces("pong", 2, bits) # << >>
        /\ Pieces("pong", 2, bits)[1] = [of |-> "pong", i |-> 1, n |-> 2, bits |-> bits]
    BY FirstPiece
  <2>2. QED
    BY <2>1 DEF bits
<1> HIDE DEF pong, f
<1>7. /\ writing'["receiver"] = pong /\ writing'["loop"] = writing["loop"]
      /\ Answering' /\ Answered' = Answered
  BY <1>1, <1>2, <1>6 DEF Answering, Answered, Threads
<1>8. ReadTyped' /\ received' \in Seq(Bits) /\ Begins(received', sent) /\ Reading'
  BY <1>1 DEF PacketInv, ReadTyped, SentTyped, Reading
<1>9. Ponging'
  <2>1. Answered < Len(pings)
    <3>1. Len(pings) \in Nat
      BY SentIsTyped DEF PacketInv
    <3>2. QED
      BY <1>2, <1>5, <3>1
  <2>2. QED
    BY <1>1, <1>5, <1>6, <1>7, <2>1 DEF PacketInv, Ponging
<1>10. ReaderAt' = mid
  BY <1>1, <1>2, <1>5, <1>7 DEF ReaderAt
<1>11. reader' # "gone"
  BY <1>1, <1>2
<1>12. QED
  BY <1>1, <1>3, <1>8, <1>9, <1>10, <1>11, ReaderKeeps

\* A frame of a message: what the read does with it, when it does not answer.
LEMMA ReadDataComesOut ==
  ASSUME WriteInv, PacketInv, ReadHeader, Head(wire).opcode \notin {Close, Ping}
  PROVE  PacketInv'
<1> DEFINE f == Head(wire)
           bits == Masked(f.bytes, f.mkey, 0)
           m == sent[Len(received) + 1]
<1>1. /\ UNCHANGED <<sent, uncut, pings, closed, out>>
      /\ reader = "header" /\ ~Answering /\ packet = << >> /\ f \in WireFrame
      /\ ReadFirstFragment(f) \/ ReadNextFragment(f) \/ ReadWholeMessage(f)
  BY NextFrame DEF ReadHeader, ReadClose, ReadPing
<1>2. PICK mid \in Place : /\ Leads(f, ReaderAt, mid, sent, pings, closed)
                           /\ Route(wire', mid, ClientAt, sent, pings, closed)
  BY NextFrame
<1>3. /\ DataLeads(f, ReaderAt, mid, sent)
      /\ f.opcode = Binary \/ f.opcode = Continuation
      /\ Binary # Continuation
  BY <1>2 DEF Leads, PingLeads, CloseLeads, DataLeads, Binary, Continuation
<1>4. /\ SentTyped /\ ReadTyped /\ ws \in Websocket
      /\ Len(received) \in Nat /\ Len(sent) \in Nat
      /\ ws.is_fragmented \in BOOLEAN /\ ws.buffer \in Bits /\ Len(ws.buffer) \in Nat
      /\ ws.mkey \in Key
  <2>1. SentTyped /\ ReadTyped /\ ws \in Websocket
    BY DEF PacketInv, ReadTyped
  <2>2. ws.buffer \in Bits /\ ws.is_fragmented \in BOOLEAN /\ ws.mkey \in Key
    BY <2>1 DEF Websocket
  <2>3. QED
    BY <2>1, <2>2, SentIsTyped, BitsAreSeq
<1>5. /\ f.bytes \in Bits /\ f.mkey \in Key /\ bits \in Bits
      /\ Len(bits) = Len(f.bytes) /\ Len(bits) \in Nat /\ f.fin \in BOOLEAN
  <2>1. f.bytes \in Bits /\ f.mkey \in Key /\ f.fin \in BOOLEAN
    BY <1>1 DEF WireFrame
  <2>2. QED
    BY <2>1, MaskedAt, BitsAreSeq
<1> DEFINE had == IF ws.is_fragmented THEN Len(ws.buffer) ELSE 0
<1>6. ReaderAt = [msgs |-> Len(received), bits |-> had, pings |-> Answered]
  <2>1. out \in Seq(Piece) /\ Answered \in Nat
    BY PongsBounded DEF WriteInv, WriteTyped, Answered
  <2>2. QED
    BY <1>1, <1>4, <2>1 DEF ReaderAt
<1> HIDE DEF f, bits, had, m
<1>7. /\ Len(received) < Len(sent) /\ m \in Bits /\ Len(m) \in Nat
      /\ had + Len(bits) <= Len(m) /\ Len(bits) > 0
      /\ f.opcode = IF had = 0 THEN Binary ELSE Continuation
      /\ f.fin = (had + Len(bits) = Len(m))
      /\ \A i \in 1 .. Len(bits) : bits[i] = m[had + i]
      /\ mid = IF f.fin THEN [msgs |-> Len(received) + 1, bits |-> 0, pings |-> Answered]
               ELSE [msgs |-> Len(received), bits |-> had + Len(bits), pings |-> Answered]
  <2>1. /\ Len(received) < Len(sent)
        /\ had + Len(bits) <= Len(m) /\ Len(bits) > 0
        /\ f.opcode = IF had = 0 THEN Binary ELSE Continuation
        /\ f.fin = (had + Len(bits) = Len(m))
        /\ \A i \in 1 .. Len(bits) : bits[i] = m[had + i]
        /\ mid = IF f.fin THEN [msgs |-> Len(received) + 1, bits |-> 0, pings |-> Answered]
                 ELSE [msgs |-> Len(received), bits |-> had + Len(bits), pings |-> Answered]
    BY <1>3, <1>5, <1>6 DEF DataLeads, bits, m
  <2>2. Len(received) + 1 \in 1 .. Len(sent)
    BY <1>4, <2>1
  <2>3. QED
    BY <1>4, <2>1, <2>2, SentIsTyped DEF m
<1>8. ws.is_fragmented => InHeader(ws, m)
  BY <1>1 DEF PacketInv, Reading, m
<1>9. ws.is_fragmented <=> f.opcode = Continuation
  <2>1. CASE ws.is_fragmented
    BY <1>3, <1>4, <1>7, <1>8, <2>1 DEF InHeader, had
  <2>2. CASE ~ws.is_fragmented
    BY <1>3, <1>4, <1>7, <2>2 DEF had
  <2>3. QED
    BY <2>1, <2>2
<1> DEFINE buffer == IF ws.is_fragmented THEN ws.buffer \o bits ELSE bits
<1>10. /\ buffer \in Bits /\ Len(buffer) = had + Len(bits) /\ Begins(buffer, m)
       /\ had + Len(bits) = Len(m) => buffer = m
  <2>1. CASE ws.is_fragmented
    <3>1. buffer = ws.buffer \o bits /\ had = Len(ws.buffer) /\ Begins(ws.buffer, m)
      BY <1>8, <2>1 DEF had, InHeader
    <3> HIDE DEF buffer
    <3>2. QED
      BY <1>4, <1>5, <1>7, <3>1, BeginsFurther
  <2>2. CASE ~ws.is_fragmented
    <3>1. buffer = bits /\ had = 0
      BY <2>2 DEF had
    <3> HIDE DEF buffer
    <3>2. \A i \in 1 .. Len(bits) : bits[i] = m[i]
      BY <1>5, <1>7, <3>1
    <3>3. Begins(bits, m)
      BY <1>5, <1>7, <3>1, <3>2 DEF Begins
    <3>4. QED
      BY <1>5, <1>7, <3>1, <3>3, BeginsWhole
  <2>3. QED
    BY <2>1, <2>2
<1>11. /\ UNCHANGED <<packet, received, writing>> /\ ws' \in Websocket /\ stream' \in Bits
       /\ reader' = IF f.fin THEN "payload" ELSE "header"
       /\ \/ /\ ws'.is_fragmented /\ ws'.buffer = buffer /\ ws'.buffer_readed = 0
          \/ /\ ~ws'.is_fragmented /\ ~ws.is_fragmented /\ f.fin /\ stream' = f.bytes
             /\ ws'.mkey = f.mkey /\ ws'.mask_i = 0
  <2>1. CASE ReadFirstFragment(f)
    <3>1. ~f.fin /\ ~ws.is_fragmented /\ f.opcode = Binary
      BY <1>3, <1>9, <2>1 DEF ReadFirstFragment
    <3>2. /\ ws' = [ws EXCEPT !.is_fragmented = TRUE, !.buffer_readed = 0,
                              !.buffer = Buffered([ws EXCEPT !.buffer = << >>], f)]
          /\ UNCHANGED <<reader, stream, packet, received, writing>>
      BY <2>1, <3>1 DEF ReadFirstFragment
    <3>3. Buffered([ws EXCEPT !.buffer = << >>], f) = bits
      <4>1. [ws EXCEPT !.buffer = << >>].buffer = << >>
        BY <1>4 DEF Websocket
      <4>2. Buffered([ws EXCEPT !.buffer = << >>], f) = << >> \o bits
        BY <4>1 DEF Buffered, bits
      <4>3. QED
        BY <1>5, <4>2, ConcatEmptySeq DEF Bits
    <3>4. buffer = bits
      BY <3>1
    <3>5. ws' \in Websocket
      BY <1>4, <1>5, <3>2, <3>3 DEF Websocket
    <3>6. ws'.is_fragmented /\ ws'.buffer = bits /\ ws'.buffer_readed = 0
      BY <1>4, <3>2, <3>3 DEF Websocket
    <3> HIDE DEF buffer
    <3>7. QED
      BY <1>1, <1>4, <3>1, <3>2, <3>4, <3>5, <3>6 DEF ReadTyped
  <2>2. CASE ReadNextFragment(f)
    <3>1. ws.is_fragmented /\ f.opcode = Continuation
      BY <1>9, <2>2 DEF ReadNextFragment
    <3>2. /\ ws' = [ws EXCEPT !.buffer = Buffered(ws, f)]
          /\ reader' = IF f.fin THEN "payload" ELSE "header"
          /\ UNCHANGED <<stream, packet, received, writing>>
      BY <2>2, <3>1 DEF ReadNextFragment
    <3>3. Buffered(ws, f) = buffer
      BY <3>1 DEF Buffered, bits
    <3> HIDE DEF buffer
    <3>4. ws' \in Websocket
      BY <1>4, <1>10, <3>2, <3>3 DEF Websocket
    <3>5. ws'.is_fragmented /\ ws'.buffer = buffer /\ ws'.buffer_readed = 0
      BY <1>4, <1>8, <3>1, <3>2, <3>3 DEF Websocket, InHeader
    <3>6. QED
      BY <1>4, <3>2, <3>4, <3>5 DEF ReadTyped
  <2>3. CASE ReadWholeMessage(f)
    <3>1. /\ f.fin /\ ~ws.is_fragmented
          /\ ws' = [ws EXCEPT !.mkey = f.mkey, !.mask_i = 0]
          /\ stream' = f.bytes /\ reader' = "payload"
          /\ UNCHANGED <<packet, received, writing>>
      BY <2>3 DEF ReadWholeMessage
    <3>2. ws' \in Websocket
      BY <1>4, <1>5, <3>1 DEF Websocket
    <3>3. ~ws'.is_fragmented /\ ws'.mkey = f.mkey /\ ws'.mask_i = 0
      BY <1>4, <3>1 DEF Websocket
    <3>4. QED
      BY <1>5, <3>1, <3>2, <3>3
  <2>4. QED
    BY <1>1, <2>1, <2>2, <2>3
<1> HIDE DEF buffer
<1>12. ReadTyped' /\ received' \in Seq(Bits) /\ Begins(received', sent)
  BY <1>4, <1>11 DEF PacketInv, ReadTyped, SentTyped
<1>13. Ponging'
  BY <1>1, <1>11 DEF PacketInv, Ponging, Answering, Answered
<1>14. Begins(packet, m) /\ Len(packet) = 0 /\ Len(m) > 0
  <2>1. Len(packet) = 0 /\ 1 .. 0 = {}
    BY <1>1
  <2>2. had \in Nat
    BY <1>4 DEF had
  <2>3. Len(m) > 0
    BY <1>5, <1>7, <2>2
  <2>4. QED
    BY <2>1, <2>3 DEF Begins
<1>15. Reading'
  <2>1. m' = m
    BY <1>1, <1>11 DEF m
  <2>2. CASE ~f.fin
    <3>1. ws'.is_fragmented /\ reader' = "header" /\ InHeader(ws', m)
      <4>1. had \in Nat
        BY <1>4 DEF had
      <4>2. QED
        BY <1>5, <1>7, <1>10, <1>11, <2>2, <4>1 DEF InHeader
    <3>2. QED
      BY <1>1, <1>7, <1>11, <2>1, <3>1 DEF Reading, m
  <2>3. CASE f.fin
    <3>1. reader' = "payload" /\ had + Len(bits) = Len(m)
      BY <1>7, <1>11, <2>3
    <3>2. CASE ws'.is_fragmented
      <4>1. InBuffer(ws', packet, m)
        BY <1>10, <1>11, <1>14, <3>1, <3>2 DEF InBuffer
      <4>2. QED
        BY <1>1, <1>7, <1>11, <1>14, <2>1, <3>1, <3>2, <4>1 DEF Reading, m
    <3>3. CASE ~ws'.is_fragmented
      <4>1. /\ had = 0 /\ stream' = f.bytes /\ Unmask(ws', stream') = bits
        BY <1>11, <3>3 DEF had, Unmask, bits
      <4>2. /\ ws'.mask_i = Len(packet) /\ Len(stream') = Len(m) - Len(packet)
        BY <1>5, <1>7, <1>11, <1>14, <3>1, <3>3, <4>1
      <4>3. InStream(ws', packet, stream', m)
        BY <1>5, <1>7, <1>14, <4>1, <4>2 DEF InStream
      <4>4. QED
        BY <1>1, <1>7, <1>11, <1>14, <2>1, <3>1, <3>3, <4>3 DEF Reading, m
    <3>4. QED
      BY <3>2, <3>3
  <2>4. QED
    BY <1>5, <2>2, <2>3
<1>16. ReaderAt' = mid
  <2>1. Answered' = Answered /\ ~Answering' /\ Answered \in Nat
    <3>1. out \in Seq(Piece)
      BY DEF WriteInv, WriteTyped
    <3>2. QED
      BY <1>1, <1>11, <3>1, PongsBounded DEF Answered, Answering
  <2>2. CASE ~f.fin
    <3>1. ws'.is_fragmented /\ reader' = "header" /\ Len(ws'.buffer) = had + Len(bits)
      BY <1>10, <1>11, <2>2
    <3>2. QED
      BY <1>4, <1>7, <1>11, <2>1, <2>2, <3>1 DEF ReaderAt
  <2>3. CASE f.fin
    BY <1>7, <1>11, <2>1, <2>3 DEF ReaderAt
  <2>4. QED
    BY <1>5, <2>2, <2>3
<1>17. reader' # "gone"
  BY <1>11
<1>18. QED
  BY <1>1, <1>2, <1>12, <1>13, <1>15, <1>16, <1>17, ReaderKeeps

LEMMA ReadHeaderComesOut ==
  ASSUME WriteInv, PacketInv, ReadHeader
  PROVE  PacketInv'
<1>1. CASE ReadClose(Head(wire))
  BY <1>1, ReadCloseComesOut
<1>2. CASE ReadPing(Head(wire))
  BY <1>2, ReadPingComesOut
<1>3. CASE Head(wire).opcode \notin {Close, Ping}
  BY <1>3, ReadDataComesOut
<1>4. QED
  BY <1>1, <1>2, <1>3 DEF ReadHeader, ReadFirstFragment, ReadNextFragment, ReadWholeMessage

-----------------------------------------------------------------------------
LEMMA MiddleBits ==
  ASSUME NEW b \in Bits, NEW k \in Nat, NEW n \in Nat, k + n <= Len(b)
  PROVE  /\ SubSeq(b, k + 1, k + n) \in Bits /\ Len(SubSeq(b, k + 1, k + n)) = n
         /\ \A i \in 1 .. n : SubSeq(b, k + 1, k + n)[i] = b[k + i]
<1> DEFINE part == SubSeq(b, k + 1, k + n)
<1>1. /\ Len(b) \in Nat /\ k + 1 \in Int /\ k + n \in Int
      /\ \A i \in k + 1 .. k + n : b[i] \in {0, 1}
  BY BitsAreSeq
<1>2. /\ part \in Bits
      /\ Len(part) = IF k + 1 <= k + n THEN (k + n) - (k + 1) + 1 ELSE 0
      /\ \A i \in 1 .. (k + n) - (k + 1) + 1 : part[i] = b[(k + 1) + i - 1]
  BY <1>1, SubSeqProperties DEF Bits
<1> HIDE DEF part
<1>3. (k + n) - (k + 1) + 1 = n
  OBVIOUS
<1>4. Len(part) = n
  <2>1. CASE n = 0
    BY <1>2, <2>1
  <2>2. CASE n > 0
    BY <1>2, <1>3, <2>2
  <2>3. QED
    BY <2>1, <2>2
<1>5. ASSUME NEW i \in 1 .. n PROVE part[i] = b[k + i]
  <2>1. (k + 1) + i - 1 = k + i
    OBVIOUS
  <2>2. QED
    BY <1>2, <1>3, <2>1
<1>6. QED
  BY <1>2, <1>4, <1>5 DEF part

\* A part more of the message is handled.
LEMMA HandledComesOut ==
  ASSUME WriteInv, PacketInv, NEW part \in Bits, reader = "payload", Handled(part),
         UNCHANGED <<sent, uncut, pings, closed, wire, out>>,
         ws' \in Websocket, stream' \in Bits,
         Len(packet) + Len(part) <= Len(sent[Len(received) + 1]),
         \A i \in 1 .. Len(part) : part[i] = sent[Len(received) + 1][Len(packet) + i],
         Len(packet) + Len(part) = Len(sent[Len(received) + 1]) => ~ws'.is_fragmented,
         Len(packet) + Len(part) < Len(sent[Len(received) + 1]) =>
           IF ws'.is_fragmented
             THEN InBuffer(ws', packet \o part, sent[Len(received) + 1])
             ELSE InStream(ws', packet \o part, stream', sent[Len(received) + 1])
  PROVE  PacketInv'
<1> DEFINE m == sent[Len(received) + 1]
           more == packet \o part
<1>1. /\ SentTyped /\ ReadTyped /\ Begins(received, sent) /\ packet \in Bits
      /\ Len(received) \in Nat /\ Len(sent) \in Nat /\ Len(received) < Len(sent)
      /\ m \in Bits /\ Len(m) \in Nat /\ Begins(packet, m)
      /\ Len(packet) \in Nat /\ Len(part) \in Nat
      /\ Route(wire, ReaderAt, ClientAt, sent, pings, closed)
  <2>1. /\ SentTyped /\ ReadTyped /\ Begins(received, sent) /\ packet \in Bits
        /\ Len(received) < Len(sent) /\ Begins(packet, m)
        /\ Route(wire, ReaderAt, ClientAt, sent, pings, closed)
    BY DEF PacketInv, Reading, ReadTyped
  <2>2. Len(received) + 1 \in 1 .. Len(sent)
    BY <2>1, SentIsTyped
  <2>3. QED
    BY <2>1, <2>2, SentIsTyped, BitsAreSeq
<1>2. /\ more \in Bits /\ Len(more) = Len(packet) + Len(part) /\ Begins(more, m)
      /\ Len(packet) + Len(part) = Len(m) => more = m
  <2> HIDE DEF m
  <2>1. /\ Len(packet) + Len(part) <= Len(m)
        /\ \A i \in 1 .. Len(part) : part[i] = m[Len(packet) + i]
    BY DEF m
  <2>2. QED
    BY <1>1, <2>1, BeginsFurther
<1>3. /\ writing["receiver"] = << >> /\ writing \in [Threads -> Seq(Piece)]
      /\ out \in Seq(Piece) /\ ~Answering /\ Answered \in Nat /\ Answered' = Answered
  <2>1. /\ writing["receiver"] = << >> /\ writing \in [Threads -> Seq(Piece)]
        /\ out \in Seq(Piece)
    BY DEF WriteInv, WriteTyped, ReaderIsFree
  <2>2. QED
    BY <2>1, PongsBounded DEF Answering, Answered
<1>4. CASE Len(packet) + Len(part) < Len(m)
  <2>1. packet' = more /\ UNCHANGED <<received, reader, writing>>
    BY <1>4 DEF Handled
  <2>2. IF ws'.is_fragmented THEN InBuffer(ws', more, m) ELSE InStream(ws', more, stream', m)
    BY <1>4
  <2>3. m' = m
    BY <2>1
  <2> HIDE DEF more, m
  <2>4. ReadTyped' /\ received' \in Seq(Bits) /\ Begins(received', sent)
    BY <1>1, <1>2, <2>1 DEF ReadTyped, SentTyped
  <2>5. Reading'
    BY <1>1, <1>2, <1>4, <2>1, <2>2, <2>3 DEF Reading, m
  <2>6. Ponging'
    BY <2>1 DEF PacketInv, Ponging, Answering, Answered
  <2>7. ReaderAt' = ReaderAt
    BY <2>1 DEF ReaderAt, Answering, Answered
  <2>8. QED
    BY <1>1, <2>1, <2>4, <2>5, <2>6, <2>7, ReaderKeeps
<1>5. CASE ~(Len(packet) + Len(part) < Len(m))
  <2>1. /\ received' = Append(received, more)
        /\ packet' = << >> /\ reader' = "header"
    BY <1>5 DEF Handled
  <2>2. PICK pieces \in {<< >>, Pieces("packet", 2, << >>)} :
          writing' = [writing EXCEPT !["receiver"] = pieces]
    BY <1>5 DEF Handled
  <2>3. more = m /\ ~ws'.is_fragmented
    <3>1. Len(packet) + Len(part) = Len(m)
      BY <1>1, <1>5
    <3>2. QED
      BY <1>2, <3>1
  <2>4. ~Answering'
    <3>1. writing'["receiver"] = pieces
      BY <1>3, <2>2 DEF Threads
    <3>2. pieces # << >> => pieces[1].of = "packet"
      BY PacketPieces
    <3>3. QED
      BY <3>1, <3>2 DEF Answering
  <2>5. Ponging'
    <3>1. writing'["loop"] = writing["loop"]
      BY <1>3, <2>2 DEF Threads
    <3>2. QED
      BY <2>4, <3>1 DEF PacketInv, Ponging
  <2> HIDE DEF more, m
  <2>6. /\ received' \in Seq(Bits) /\ Len(received') = Len(received) + 1
        /\ received'[Len(received) + 1] = m
        /\ \A i \in 1 .. Len(received) : received'[i] = received[i]
    BY <1>1, <2>1, <2>3, AppendProperties DEF SentTyped
  <2>7. Begins(received', sent)
    <3>1. ASSUME NEW i \in 1 .. Len(received') PROVE received'[i] = sent[i]
      <4>1. CASE i = Len(received) + 1
        <5>1. m = sent[i]
          BY <4>1 DEF m
        <5>2. QED
          BY <2>6, <4>1, <5>1
      <4>2. CASE i # Len(received) + 1
        <5>1. i \in 1 .. Len(received)
          BY <1>1, <2>6, <4>2
        <5>2. received'[i] = received[i]
          BY <2>6, <5>1
        <5>3. received[i] = sent[i]
          BY <1>1, <5>1 DEF Begins
        <5>4. QED
          BY <5>2, <5>3
      <4>3. QED
        BY <4>1, <4>2
    <3>2. QED
      BY <1>1, <2>6, <3>1 DEF Begins
  <2>8. ReadTyped'
    <3>1. << >> \in Bits
      BY DEF Bits
    <3>2. QED
      BY <2>1, <3>1 DEF ReadTyped
  <2>9. Reading'
    BY <2>1, <2>3 DEF Reading
  <2>10. ReaderAt' = ReaderAt
    BY <1>1, <1>3, <2>1, <2>3, <2>4, <2>6 DEF ReaderAt
  <2>11. QED
    BY <1>1, <2>1, <2>5, <2>6, <2>7, <2>8, <2>9, <2>10, ReaderKeeps
<1>6. QED
  BY <1>4, <1>5

LEMMA ReadBufferedComesOut ==
  ASSUME WriteInv, PacketInv, NEW n \in 1 .. Len(ws.buffer), ReadBuffered(n)
  PROVE  PacketInv'
<1> DEFINE m == sent[Len(received) + 1]
           k == ws.buffer_readed
           part == SubSeq(ws.buffer, k + 1, k + n)
<1>1. /\ UNCHANGED <<sent, uncut, pings, closed, wire, stream, out>>
      /\ reader = "payload" /\ ws.is_fragmented /\ k + n <= Len(ws.buffer)
      /\ Handled(part)
      /\ ws' = IF k + n = Len(ws.buffer) THEN Reset(ws) ELSE [ws EXCEPT !.buffer_readed = k + n]
  BY DEF ReadBuffered, clientVars
<1>2. /\ ws \in Websocket /\ stream \in Bits /\ packet \in Bits /\ Len(packet) \in Nat
      /\ ws.buffer = m /\ k = Len(packet) /\ m \in Bits /\ n \in Nat /\ k \in Nat
      /\ Begins(packet, m)
  <2>1. /\ ws \in Websocket /\ stream \in Bits /\ packet \in Bits /\ ws.buffer = m
        /\ k = Len(packet) /\ Begins(packet, m)
    BY <1>1 DEF PacketInv, ReadTyped, Reading, InBuffer
  <2>2. ws.buffer \in Bits /\ Len(packet) \in Nat
    BY <2>1, BitsAreSeq DEF Websocket
  <2>3. n \in Nat
    BY <2>2, BitsAreSeq
  <2>4. QED
    BY <2>1, <2>2, <2>3
<1>3. /\ part \in Bits /\ Len(part) = n
      /\ \A i \in 1 .. n : part[i] = m[Len(packet) + i]
  <2>1. ws.buffer \in Bits /\ k + n <= Len(ws.buffer)
    BY <1>1, <1>2
  <2>2. /\ part \in Bits /\ Len(part) = n
        /\ \A i \in 1 .. n : part[i] = ws.buffer[k + i]
    BY <1>2, <2>1, MiddleBits
  <2> HIDE DEF part
  <2>3. QED
    BY <1>2, <2>2
<1>4. CASE k + n = Len(ws.buffer)
  <2>1. ws' \in Websocket /\ ~ws'.is_fragmented
    <3>1. << >> \in Bits
      BY DEF Bits
    <3>2. QED
      BY <1>1, <1>2, <1>4, <3>1 DEF Reset, Websocket
  <2>2. Len(packet) + Len(part) = Len(m)
    BY <1>2, <1>3, <1>4
  <2> HIDE DEF part, m
  <2>3. ~(Len(packet) + Len(part) < Len(m)) /\ Len(packet) + Len(part) <= Len(m)
    BY <1>2, <1>3, <2>2
  <2>4. stream' \in Bits
    BY <1>1, <1>2
  <2>5. QED
    BY <1>1, <1>3, <2>1, <2>2, <2>3, <2>4, HandledComesOut DEF m
<1>5. CASE k + n # Len(ws.buffer)
  <2>1. /\ ws' \in Websocket /\ ws'.is_fragmented /\ ws'.buffer = m
        /\ ws'.buffer_readed = k + n
    BY <1>1, <1>2, <1>5 DEF Websocket
  <2>2. Len(packet \o part) = k + n
    <3> HIDE DEF part, m
    <3>1. packet \in Seq({0, 1}) /\ part \in Seq({0, 1})
      BY <1>2, <1>3 DEF Bits
    <3>2. Len(packet \o part) = Len(packet) + Len(part)
      BY <3>1, ConcatProperties
    <3>3. QED
      BY <1>2, <1>3, <3>2
  <2>3. InBuffer(ws', packet \o part, m)
    BY <2>1, <2>2 DEF InBuffer
  <2>4. Len(packet) + Len(part) <= Len(m) /\ Len(packet) + Len(part) # Len(m)
    BY <1>1, <1>2, <1>3, <1>5
  <2>5. stream' \in Bits
    BY <1>1, <1>2
  <2> HIDE DEF part, m
  <2>6. QED
    BY <1>1, <1>3, <2>1, <2>3, <2>4, <2>5, HandledComesOut DEF m
<1>6. QED
  BY <1>4, <1>5

LEMMA ReadUnbufferedComesOut ==
  ASSUME WriteInv, PacketInv, NEW n \in 1 .. Len(stream), ReadUnbuffered(n)
  PROVE  PacketInv'
<1> DEFINE m == sent[Len(received) + 1]
           k == Len(packet)
           first == SubSeq(stream, 1, n)
           part == Unmask(ws, first)
           bit(j) == (stream[j] + ws.mkey[((k + j - 1) % 4) + 1]) % 2
<1>1. /\ UNCHANGED <<sent, uncut, pings, closed, wire, out>>
      /\ reader = "payload" /\ ~ws.is_fragmented
      /\ Handled(part)
      /\ ws' = [ws EXCEPT !.mask_i = @ + n]
      /\ stream' = SubSeq(stream, n + 1, Len(stream))
  BY DEF ReadUnbuffered, clientVars
<1>2. /\ ws \in Websocket /\ stream \in Bits /\ packet \in Bits /\ k \in Nat
      /\ InStream(ws, packet, stream, m) /\ Len(stream) \in Nat /\ n \in Nat
      /\ ws.mkey \in Key /\ ws.mask_i = k /\ Len(stream) = Len(m) - k
      /\ Len(received) < Len(sent) /\ Begins(packet, m)
  <2>1. /\ ws \in Websocket /\ stream \in Bits /\ packet \in Bits
        /\ InStream(ws, packet, stream, m)
        /\ Len(received) < Len(sent) /\ Begins(packet, m)
    BY <1>1 DEF PacketInv, ReadTyped, Reading
  <2>2. k \in Nat /\ Len(stream) \in Nat /\ ws.mkey \in Key
    BY <2>1, BitsAreSeq DEF Websocket
  <2>3. QED
    BY <2>1, <2>2 DEF InStream
<1>3. m \in Bits /\ Len(m) \in Nat
  <2>1. Len(received) + 1 \in 1 .. Len(sent)
    BY <1>2, SentIsTyped DEF PacketInv
  <2>2. QED
    BY <2>1, SentIsTyped DEF PacketInv
<1>4. \A j \in 1 .. Len(stream) : bit(j) = m[k + j]
  <2>1. \A j \in 1 .. Len(stream) : Unmask(ws, stream)[j] = bit(j)
    BY <1>2, UnmaskAt
  <2>2. \A j \in 1 .. Len(stream) : Unmask(ws, stream)[j] = m[k + j]
    BY <1>2 DEF InStream
  <2>3. QED
    BY <2>1, <2>2
<1>5. /\ first \in Bits /\ Len(first) = n /\ \A i \in 1 .. n : first[i] = stream[i]
      /\ stream' \in Bits /\ Len(stream') = Len(stream) - n
      /\ \A i \in 1 .. Len(stream) - n : stream'[i] = stream[n + i]
  <2>1. n \in 0 .. Len(stream)
    BY <1>2
  <2>2. QED
    BY <1>1, <1>2, <2>1, FirstBits, LastBits
<1>6. /\ part \in Bits /\ Len(part) = n
      /\ \A i \in 1 .. n : part[i] = m[k + i]
  <2>1. /\ part \in Bits /\ Len(part) = n
        /\ \A i \in 1 .. n : part[i] = (first[i] + ws.mkey[((k + i - 1) % 4) + 1]) % 2
    <3> HIDE DEF first, k
    <3>1. /\ part \in Bits /\ Len(part) = Len(first)
          /\ \A i \in 1 .. Len(first) :
               part[i] = (first[i] + ws.mkey[((ws.mask_i + i - 1) % 4) + 1]) % 2
      BY <1>2, <1>5, UnmaskAt
    <3> HIDE DEF part
    <3>2. QED
      BY <1>2, <1>5, <3>1
  <2>2. ASSUME NEW i \in 1 .. n PROVE part[i] = m[k + i]
    <3>1. i \in 1 .. Len(stream)
      BY <1>2
    <3>2. /\ part[i] = (first[i] + ws.mkey[((k + i - 1) % 4) + 1]) % 2
          /\ first[i] = stream[i]
      BY <1>5, <2>1
    <3>3. part[i] = bit(i)
      BY <3>2
    <3>4. QED
      BY <1>4, <3>1, <3>3
  <2>3. QED
    BY <2>1, <2>2
<1>7. /\ ws' \in Websocket /\ ~ws'.is_fragmented /\ ws'.mkey = ws.mkey
      /\ ws'.mask_i = k + n
  <2> HIDE DEF k, m, part
  <2>1. ws' = [ws EXCEPT !.mask_i = k + n] /\ k + n \in Nat
    BY <1>1, <1>2
  <2>2. QED
    BY <1>1, <1>2, <2>1 DEF Websocket
<1>8. k + n <= Len(m)
  BY <1>2, <1>3
<1> HIDE DEF part
<1>9. InStream(ws', packet \o part, stream', m)
  <2>1. Len(packet \o part) = k + n
    BY <1>2, <1>6, ConcatProperties DEF Bits
  <2>2. Len(stream') = Len(m) - (k + n)
    BY <1>2, <1>3, <1>5
  <2>3. ASSUME NEW i \in 1 .. Len(stream')
        PROVE  Unmask(ws', stream')[i] = m[k + n + i]
    <3>1. i \in Nat /\ n + i \in 1 .. Len(stream)
      BY <1>2, <1>5
    <3>2. Unmask(ws', stream')[i] = (stream'[i] + ws.mkey[((k + n + i - 1) % 4) + 1]) % 2
      <4>1. Unmask(ws', stream')[i]
              = (stream'[i] + ws'.mkey[((ws'.mask_i + i - 1) % 4) + 1]) % 2
        BY <1>5, <1>7, UnmaskAt
      <4>2. QED
        BY <1>7, <4>1
    <3>3. k + n + i - 1 = k + (n + i) - 1 /\ k + n + i = k + (n + i)
      BY <1>2, <3>1
    <3>4. Unmask(ws', stream')[i] = bit(n + i)
      BY <1>5, <3>2, <3>3
    <3>5. QED
      BY <1>4, <3>1, <3>3, <3>4
  <2>4. QED
    BY <1>7, <2>1, <2>2, <2>3 DEF InStream
<1> HIDE DEF m
<1>10. QED
  BY <1>1, <1>5, <1>6, <1>7, <1>8, <1>9, HandledComesOut DEF m

-----------------------------------------------------------------------------
LEMMA StartSendComesOut ==
  ASSUME WriteInv, PacketInv, StartSend
  PROVE  PacketInv'
<1> DEFINE frame == Pieces("packet", 3, << >>)
<1>1. /\ UNCHANGED <<sent, uncut, pings, closed, wire, ws, reader, stream, packet, received, out>>
      /\ writing' = [writing EXCEPT !["loop"] = frame]
      /\ writing \in [Threads -> Seq(Piece)]
  BY DEF StartSend, clientVars, readVars, WriteInv, WriteTyped
<1>2. frame # << >> /\ frame[1].of = "packet"
  BY PacketPieces
<1> HIDE DEF frame
<1>3. writing'["loop"] = frame /\ writing'["receiver"] = writing["receiver"]
  BY <1>1 DEF Threads
<1>4. Answering' = Answering /\ Answered' = Answered
  BY <1>1, <1>3 DEF Answering, Answered
<1>5. ReadTyped' /\ received' \in Seq(Bits) /\ Begins(received', sent) /\ Reading'
  BY <1>1 DEF PacketInv, ReadTyped, SentTyped, Reading
<1>6. Ponging'
  BY <1>1, <1>2, <1>3, <1>4 DEF PacketInv, Ponging
<1>7. ReaderAt' = ReaderAt
  BY <1>1, <1>4 DEF ReaderAt
<1>8. QED
  BY <1>1, <1>5, <1>6, <1>7, ReaderKeeps DEF PacketInv

LEMMA WriteComesOut ==
  ASSUME WriteInv, PacketInv, NEW t \in Threads, Write(t)
  PROVE  PacketInv'
<1> DEFINE s == writing[t]
           p == s[1]
           left == Tail(s)
<1>1. /\ UNCHANGED <<sent, uncut, pings, closed, wire, ws, reader, stream, packet, received>>
      /\ s # << >> /\ writing' = [writing EXCEPT ![t] = left]
      /\ out' = Append(out, Head(s))
  BY DEF Write, clientVars, readVars
<1>2. /\ writing \in [Threads -> Seq(Piece)] /\ s \in Seq(Piece) /\ EndOfFrame(s)
      /\ out \in Seq(Piece) /\ Answered \in Nat /\ Len(pings) \in Nat
      /\ Ponging /\ Answers(out, pings)
      /\ "loop" \in Threads /\ "receiver" \in Threads
  <2>1. /\ writing \in [Threads -> Seq(Piece)] /\ s \in Seq(Piece) /\ EndOfFrame(s)
        /\ out \in Seq(Piece) /\ Ponging
    BY DEF WriteInv, WriteTyped, WriteOrder, PacketInv
  <2>2. QED
    BY <2>1, PongsBounded, SentIsTyped DEF Answered, Ponging, PacketInv, Threads
<1>3. /\ left \in Seq(Piece) /\ p \in Piece /\ Head(s) = p
      /\ left = << >> => p.i = p.n
      /\ left # << >> => p.i # p.n /\ left[1] = [p EXCEPT !.i = @ + 1]
  BY <1>1, <1>2, TailOfFrame
<1>4. left # << >> => left[1].of = p.of /\ left[1].bits = p.bits
  BY <1>3 DEF Piece
<1> HIDE DEF s, p, left
<1>5. out' = Append(out, p)
  BY <1>1, <1>3
<1>6. ReadTyped' /\ received' \in Seq(Bits) /\ Begins(received', sent) /\ Reading'
  BY <1>1 DEF PacketInv, ReadTyped, SentTyped, Reading
<1>7. CASE t = "loop"
  <2>1. p.of = "packet"
    BY <1>1, <1>2, <1>7 DEF Ponging, s, p
  <2>2. ~EndsPong(p)
    BY <2>1 DEF EndsPong
  <2>3. Answers(out', pings) /\ Answered' = Answered
    BY <1>2, <1>3, <1>5, <2>2, AnswersOfAppend DEF Answered
  <2>4. writing'["loop"] = left /\ writing'["receiver"] = writing["receiver"]
    BY <1>1, <1>2, <1>7
  <2>5. Answering' = Answering
    BY <2>4 DEF Answering
  <2>6. Ponging'
    BY <1>1, <1>2, <1>4, <2>1, <2>3, <2>4, <2>5 DEF Ponging
  <2>7. ReaderAt' = ReaderAt
    BY <1>1, <2>3, <2>5 DEF ReaderAt
  <2>8. QED
    BY <1>1, <1>6, <2>6, <2>7, ReaderKeeps DEF PacketInv
<1>8. CASE t = "receiver"
  <2>1. writing'["receiver"] = left /\ writing'["loop"] = writing["loop"]
    BY <1>1, <1>2, <1>8
  <2>2. Answering <=> p.of = "pong"
    BY <1>1, <1>8 DEF Answering, s, p
  <2>3. Answering => Answered < Len(pings) /\ p.bits = pings[Answered + 1]
    BY <1>2, <1>8 DEF Ponging, s, p
  <2>4. EndsPong(p) <=> Answering /\ left = << >>
    BY <1>3, <2>2 DEF EndsPong
  <2>5. /\ Answers(out', pings)
        /\ ~EndsPong(p) => Answered' = Answered
        /\ EndsPong(p) => Answered' = Answered + 1
    <3>1. EndsPong(p) => /\ Cardinality(Pongs(out)) + 1 <= Len(pings)
                         /\ p.bits = pings[Cardinality(Pongs(out)) + 1]
      BY <1>2, <2>3, <2>4 DEF Answered
    <3>2. QED
      BY <1>2, <1>3, <1>5, <3>1, AnswersOfAppend DEF Answered
  <2>6. Answering' <=> Answering /\ left # << >>
    BY <1>4, <2>1, <2>2 DEF Answering
  <2>7. Ponging'
    <3>1. Answering' => Answered' < Len(pings) /\ writing'["receiver"][1].bits = pings[Answered' + 1]
      BY <1>4, <2>1, <2>3, <2>4, <2>5, <2>6
    <3>2. QED
      BY <1>1, <1>2, <2>1, <2>5, <3>1 DEF Ponging
  <2>8. Answered' + (IF Answering' THEN 1 ELSE 0) = Answered + (IF Answering THEN 1 ELSE 0)
    <3>1. CASE Answering /\ left = << >>
      BY <1>2, <2>4, <2>5, <2>6, <3>1
    <3>2. CASE ~(Answering /\ left = << >>)
      BY <1>2, <2>4, <2>5, <2>6, <3>2
    <3>3. QED
      BY <3>1, <3>2
  <2>9. ReaderAt' = ReaderAt
    BY <1>1, <2>8 DEF ReaderAt
  <2>10. QED
    BY <1>1, <1>6, <2>7, <2>9, ReaderKeeps DEF PacketInv
<1>9. QED
  BY <1>7, <1>8 DEF Threads

LEMMA StepKeepsPackets ==
  ASSUME FramesAssumption, WriteInv, PacketInv, [FramesNext]_frameVars
  PROVE  PacketInv'
<1>1. CASE ClientStep
  BY <1>1, StartPacketComesOut, SendFrameComesOut, SendPingComesOut, SendCloseComesOut
  DEF ClientStep
<1>2. CASE ReadHeader
  BY <1>2, ReadHeaderComesOut
<1>3. ASSUME NEW n \in 1 .. Len(ws.buffer), ReadBuffered(n) PROVE PacketInv'
  BY <1>3, ReadBufferedComesOut
<1>4. ASSUME NEW n \in 1 .. Len(stream), ReadUnbuffered(n) PROVE PacketInv'
  BY <1>4, ReadUnbufferedComesOut
<1>5. CASE StartSend
  BY <1>5, StartSendComesOut
<1>6. ASSUME NEW t \in Threads, Write(t) PROVE PacketInv'
  BY <1>6, WriteComesOut
<1>7. CASE UNCHANGED frameVars
  <2>1. UNCHANGED <<sent, uncut, pings, closed, wire, ws, reader, stream, packet, received,
                    writing, out>>
    BY <1>7 DEF frameVars
  <2>2. /\ ReadTyped' /\ received' \in Seq(Bits) /\ Begins(received', sent) /\ Reading'
        /\ Ponging' /\ ReaderAt' = ReaderAt
    BY <2>1 DEF PacketInv, ReadTyped, SentTyped, Reading, Ponging, Answering, Answered, ReaderAt
  <2>3. QED
    BY <2>1, <2>2, ReaderKeeps DEF PacketInv
<1>8. QED
  BY <1>1, <1>2, <1>3, <1>4, <1>5, <1>6, <1>7 DEF FramesNext

\* The invariant says what comes out.
LEMMA PacketInvSays ==
  ASSUME WriteInv, PacketInv
  PROVE  PacketsComeOut
<1>1. /\ SentTyped /\ Begins(received, sent) /\ Ponging
      /\ Len(sent) \in Nat /\ Len(received) \in Nat /\ Len(pings) \in Nat
      /\ received \in Seq(Bits) /\ sent \in Seq(Bits)
  <2>1. sent \in Seq(Bits \ {<< >>}) /\ Bits \ {<< >>} \subseteq Bits
    BY DEF PacketInv, SentTyped
  <2>2. sent \in Seq(Bits)
    BY <2>1, SeqMonotonic
  <2>3. QED
    BY <2>2, SentIsTyped DEF PacketInv, SentTyped
<1>2. IsPrefix(received, sent)
  <2>1. /\ SubSeq(received, 1, Len(received)) \in Seq(Bits)
        /\ Len(SubSeq(received, 1, Len(received))) = Len(received)
        /\ \A i \in 1 .. Len(received) : SubSeq(received, 1, Len(received))[i] = received[i]
    BY <1>1, SubSeqFull
  <2>2. /\ SubSeq(sent, 1, Len(received)) \in Seq(Bits)
        /\ Len(SubSeq(sent, 1, Len(received))) = Len(received)
        /\ \A i \in 1 .. Len(received) : SubSeq(sent, 1, Len(received))[i] = sent[i]
    <3>1. \A i \in 1 .. Len(received) : sent[i] \in Bits
      BY <1>1, ElementOfSeq DEF Begins
    <3>2. QED
      BY <1>1, <3>1, SubSeqProperties
  <2>3. SubSeq(received, 1, Len(received)) = SubSeq(sent, 1, Len(received))
    BY <1>1, <2>1, <2>2, SeqEqual DEF Begins
  <2>4. QED
    BY <1>1, <2>3 DEF IsPrefix, Begins
<1>3. /\ Answered <= Len(pings)
      /\ \A i \in Pongs(out) :
           out[i].bits = pings[Cardinality({j \in Pongs(out) : j <= i})]
  BY <1>1 DEF Ponging, Answers, Answered
<1>4. ASSUME wire = << >>, uncut = << >>, reader = "header", writing["receiver"] = << >>
      PROVE  received = sent /\ Answered = Len(pings)
  <2>1. ClientAt \in Place
    <3>1. uncut \in Bits /\ Cutting
      BY DEF WriteInv, WriteTyped, PacketInv
    <3>2. QED
      BY <1>1, <3>1, ClientIsAPlace
  <2>2. ReaderAt = ClientAt
    BY <1>4, <2>1, EmptyRoute DEF PacketInv
  <2>3. Len(received) = Len(sent) /\ Answered = Len(pings)
    <3>1. out \in Seq(Piece) /\ Answered \in Nat
      BY PongsBounded DEF WriteInv, WriteTyped, Answered
    <3>2. ReaderAt.msgs = Len(received) /\ ReaderAt.pings = Answered
      BY <1>1, <1>4, <3>1 DEF ReaderAt, Answering
    <3>3. ClientAt.msgs = Len(sent) /\ ClientAt.pings = Len(pings)
      BY <1>4 DEF ClientAt
    <3>4. QED
      BY <2>2, <3>2, <3>3
  <2>4. received = sent
    BY <1>1, <2>3, SeqEqual DEF Begins
  <2>5. QED
    BY <2>3, <2>4
<1>5. QED
  BY <1>2, <1>3, <1>4 DEF PacketsComeOut, PacketInv

\* The handlers get the packets that the client sent, in their order, and every
\* ping is answered with its own bits: for any packets and keys, however messages
\* are cut, pinged between and read in parts (websocket.c:93-324).
THEOREM ComesOutAsSent == FramesSpec => []PacketsComeOut
<1>1. FramesInit => WriteInv /\ PacketInv
  BY InitWrites, InitPackets
<1>2. WriteInv /\ PacketInv /\ [FramesNext]_frameVars => (WriteInv /\ PacketInv)'
  BY StepKeepsWrites, StepKeepsPackets, FramesAssumption
<1>3. WriteInv /\ PacketInv => PacketsComeOut
  BY PacketInvSays
<1>4. QED
  BY <1>1, <1>2, <1>3, PTL DEF FramesSpec
=============================================================================
