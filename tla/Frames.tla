-------------------------------- MODULE Frames --------------------------------
(***************************************************************************)
(* A connection that speaks WebSocket (websocket.c, and server.c where it  *)
(* reads and sends through it).  The client cuts its packets into masked   *)
(* frames, with pings between them; the receive thread puts the packets    *)
(* together again and answers the pings, while the event loop sends        *)
(* packets of its own on the same connection.                              *)
(***************************************************************************)
EXTENDS Integers, FiniteSets, Sequences, SequencesExt

CONSTANTS Packets,    \* what a client sends: packets, as sequences of bits
          MaskKeys,   \* the masking keys: four bits each
          MaxPackets, \* bound: packets sent by the client
          MaxPings,   \* bound: pings sent by the client
          MaxSends,   \* bound: packets sent by the event loop
          MaxWire     \* bound: frames that wait to be read

\* The client puts one packet in a message (PROTOCOL.md:7: WebSocket "is a
\* message-based protocol") and no frame of it is empty: the read of no bytes
\* returns 0, which disconnects.
ASSUME FramesAssumption ==
  /\ Packets \subseteq Seq({0, 1}) \ {<< >>}
  /\ MaskKeys \subseteq [1 .. 4 -> {0, 1}]

Unmasked == <<0, 0, 0, 0>>   \* is_masked = 0

Continuation == 0
Binary == 2
Close == 8
Ping == 9

VARIABLES sent,     \* the packets the client sends, the last maybe partly
          uncut,    \* what of the last is not in a frame yet
          pings,    \* the bits of the pings it sent
          closed,   \* whether it sent its last frame
          wire,     \* the frames on their way
          ws,       \* the client's pkrsrv_websocket_t
          reader,   \* the receive thread: "header", "payload" or "gone"
          stream,   \* the bytes of an unfragmented message still to be read
          packet,   \* the part of the packet its handler has read
          received, \* the packets handled
          writing,  \* of each thread, the pieces it is about to write
          mutex,    \* the holder of write_mutex
          out,      \* the pieces written
          sends     \* the packets the event loop has begun to send

frameVars == <<sent, uncut, pings, closed, wire, ws, reader, stream, packet,
               received, writing, mutex, out, sends>>
clientVars == <<sent, uncut, pings, closed>>
readVars == <<wire, ws, reader, stream, packet, received>>
writeVars == <<writing, mutex, out, sends>>

\* pkrsrv_websocket_init
NoWebsocket == [is_fragmented |-> FALSE, buffer |-> << >>, buffer_readed |-> 0,
                mkey |-> Unmasked, mask_i |-> 0]

Threads == {"loop", "receiver"}
Nobody == "nobody"

FramesInit ==
  /\ sent = << >> /\ uncut = << >> /\ pings = << >> /\ closed = FALSE
  /\ wire = << >> /\ ws = NoWebsocket /\ reader = "header" /\ stream = << >>
  /\ packet = << >> /\ received = << >>
  /\ writing = [t \in Threads |-> << >>] /\ mutex = Nobody
  /\ out = << >> /\ sends = 0

-----------------------------------------------------------------------------
\* The exclusive or of bytes with a key, of which `from` bits are used up.
Masked(bytes, mkey, from) ==
  [i \in DOMAIN bytes |-> (bytes[i] + mkey[((from + i - 1) % 4) + 1]) % 2]

Frame(opcode, fin, mkey, bytes) ==
  [opcode |-> opcode, fin |-> fin, mkey |-> mkey, bytes |-> Masked(bytes, mkey, 0)]

\* A frame of the server, as the pieces it is written in.
Pieces(of, n, bits) == [i \in 1 .. n |-> [of |-> of, i |-> i, n |-> n, bits |-> bits]]

-----------------------------------------------------------------------------
\* The client
Underway == Len(sent) > 0 /\ uncut # Last(sent)   \* a first frame is sent

StartPacket(p) ==
  /\ ~closed /\ uncut = << >> /\ Len(sent) < MaxPackets
  /\ sent' = Append(sent, p) /\ uncut' = p
  /\ UNCHANGED <<pings, closed, readVars, writeVars>>

SendFrame(n, mkey) ==
  /\ ~closed /\ uncut # << >> /\ n <= Len(uncut) /\ Len(wire) < MaxWire
  /\ wire' = Append(wire, Frame(IF Underway THEN Continuation ELSE Binary,
                                n = Len(uncut), mkey, SubSeq(uncut, 1, n)))
  /\ uncut' = SubSeq(uncut, n + 1, Len(uncut))
  /\ UNCHANGED <<sent, pings, closed, ws, reader, stream, packet, received,
                 writeVars>>

\* A ping may come between the frames of a message.
SendPing(bits, mkey) ==
  /\ ~closed /\ Len(pings) < MaxPings /\ Len(wire) < MaxWire
  /\ pings' = Append(pings, bits)
  /\ wire' = Append(wire, Frame(Ping, TRUE, mkey, bits))
  /\ UNCHANGED <<sent, uncut, closed, ws, reader, stream, packet, received,
                 writeVars>>

SendClose ==
  /\ ~closed /\ Len(wire) < MaxWire
  /\ closed' = TRUE
  /\ wire' = Append(wire, Frame(Close, TRUE, Unmasked, << >>))
  /\ UNCHANGED <<sent, uncut, pings, ws, reader, stream, packet, received,
                 writeVars>>

-----------------------------------------------------------------------------
\* The receive thread reads while it has nothing to write.
Reads == reader = "header" /\ writing["receiver"] = << >> /\ wire # << >>

\* pkrsrv_websocket_reset_fragmentation, and the same lines on its failures
Reset(w) == [w EXCEPT !.is_fragmented = FALSE, !.buffer = << >>, !.buffer_readed = 0]

Disconnect ==
  /\ ws' = Reset(ws) /\ reader' = "gone"
  /\ UNCHANGED <<stream, packet, received, writing>>

\* Where a frame's bytes are appended to the buffer, unmasked from their start.
(* A mutant of Buffered: a frame's bytes are unmasked on from those before. *)
BufferedOn(w, f) == w.buffer \o Masked(f.bytes, f.mkey, Len(w.buffer))
Buffered(w, f) == w.buffer \o Masked(f.bytes, f.mkey, 0)

ReadClose(f) == f.opcode = Close /\ Disconnect

\* A ping is answered with its own payload, before anything else is read.
ReadPing(f) ==
  /\ f.opcode = Ping
  /\ LET bits == Masked(f.bytes, f.mkey, 0) IN
       writing' = [writing EXCEPT !["receiver"] = Pieces("pong", 2, bits)]
  /\ UNCHANGED <<ws, reader, stream, packet, received>>

ReadFirstFragment(f) ==
  /\ f.opcode \notin {Close, Ping} /\ ~f.fin /\ ~ws.is_fragmented
  /\ IF f.opcode = Binary
       THEN /\ ws' = [ws EXCEPT !.is_fragmented = TRUE, !.buffer_readed = 0,
                                !.buffer = Buffered([ws EXCEPT !.buffer = << >>], f)]
            /\ UNCHANGED <<reader, stream, packet, received, writing>>
       ELSE Disconnect

ReadNextFragment(f) ==
  /\ f.opcode \notin {Close, Ping} /\ ws.is_fragmented
  /\ IF f.opcode = Continuation
       THEN /\ ws' = [ws EXCEPT !.buffer = Buffered(ws, f)]
            /\ reader' = IF f.fin THEN "payload" ELSE "header"
            /\ UNCHANGED <<stream, packet, received, writing>>
       ELSE Disconnect

\* The bytes of an unfragmented message are left to the reads of its handler.
ReadWholeMessage(f) ==
  /\ f.opcode \notin {Close, Ping} /\ f.fin /\ ~ws.is_fragmented
  /\ ws' = [ws EXCEPT !.mkey = f.mkey, !.mask_i = 0]
  /\ stream' = f.bytes /\ reader' = "payload"
  /\ UNCHANGED <<packet, received, writing>>

\* pkrsrv_websocket_read_header reads a frame.
ReadHeader ==
  /\ Reads
  /\ LET f == Head(wire) IN
       \/ ReadClose(f) \/ ReadPing(f)
       \/ ReadFirstFragment(f) \/ ReadNextFragment(f) \/ ReadWholeMessage(f)
  /\ wire' = Tail(wire)
  /\ UNCHANGED <<clientVars, mutex, out, sends>>

\* The handler reads n bytes more of its packet, and is done with the last.  It
\* may answer then (pkrsrv_server_send_pong): the other answers are the loop's.
Handled(part) ==
  IF Len(packet) + Len(part) < Len(sent[Len(received) + 1])
    THEN /\ packet' = packet \o part
         /\ UNCHANGED <<received, reader, writing>>
    ELSE /\ received' = Append(received, packet \o part)
         /\ packet' = << >> /\ reader' = "header"
         /\ \E pieces \in {<< >>, Pieces("packet", 2, << >>)} :
              writing' = [writing EXCEPT !["receiver"] = pieces]

\* pkrsrv_websocket_read_payload, from the buffer
ReadBuffered(n) ==
  /\ reader = "payload" /\ ws.is_fragmented
  /\ LET readed == ws.buffer_readed + n IN
       /\ readed <= Len(ws.buffer)
       /\ Handled(SubSeq(ws.buffer, ws.buffer_readed + 1, readed))
       /\ ws' = IF readed = Len(ws.buffer) THEN Reset(ws)
                                           ELSE [ws EXCEPT !.buffer_readed = readed]
  /\ UNCHANGED <<clientVars, wire, stream, mutex, out, sends>>

\* ... and from the connection: the mask goes on where the read before ended.
(* A mutant of Unmask: every read starts the key again. *)
UnmaskAnew(w, bytes) == Masked(bytes, w.mkey, 0)
Unmask(w, bytes) == Masked(bytes, w.mkey, w.mask_i)

ReadUnbuffered(n) ==
  /\ reader = "payload" /\ ~ws.is_fragmented /\ n <= Len(stream)
  /\ Handled(Unmask(ws, SubSeq(stream, 1, n)))
  /\ ws' = [ws EXCEPT !.mask_i = @ + n]
  /\ stream' = SubSeq(stream, n + 1, Len(stream))
  /\ UNCHANGED <<clientVars, wire, mutex, out, sends>>

-----------------------------------------------------------------------------
\* pkrsrv_server_send_...: a frame's header, the packet's, then its fields.
StartSend ==
  /\ writing["loop"] = << >> /\ sends < MaxSends
  /\ sends' = sends + 1
  /\ writing' = [writing EXCEPT !["loop"] = Pieces("packet", 3, << >>)]
  /\ UNCHANGED <<clientVars, readVars, mutex, out>>

\* Both threads hold write_mutex from the first piece of a frame to its last.
(* A mutant of MayWrite: a pong's frame is written outside the mutex. *)
MayWriteAnyway(t) == mutex \in {Nobody, t} \/ t = "receiver"
MayWrite(t) == mutex \in {Nobody, t}

Write(t) ==
  /\ writing[t] # << >> /\ MayWrite(t)
  /\ LET left == Tail(writing[t]) IN
       /\ writing' = [writing EXCEPT ![t] = left]
       /\ mutex' = IF left = << >> THEN Nobody ELSE t
       /\ out' = Append(out, Head(writing[t]))
  /\ UNCHANGED <<clientVars, readVars, sends>>

ClientStep ==
  \/ \E p \in Packets : StartPacket(p)
  \/ \E n \in 1 .. Len(uncut), mkey \in MaskKeys \cup {Unmasked} : SendFrame(n, mkey)
  \/ \E mkey \in MaskKeys, b \in {0, 1} : SendPing(<<b>>, mkey)
  \/ SendClose

FramesNext ==
  \/ ClientStep
  \/ ReadHeader
  \/ \E n \in 1 .. Len(ws.buffer) : ReadBuffered(n)
  \/ \E n \in 1 .. Len(stream) : ReadUnbuffered(n)
  \/ StartSend
  \/ \E t \in Threads : Write(t)

FramesSpec == FramesInit /\ [][FramesNext]_frameVars

-----------------------------------------------------------------------------
(***************************************************************************)
(* Properties                                                              *)
(***************************************************************************)
\* Where the last pieces of pongs are among those written.
Pongs(written) ==
  {i \in DOMAIN written : written[i].of = "pong" /\ written[i].i = written[i].n}
Answered == Cardinality(Pongs(out))

\* However a packet is cut into frames, with whatever keys, pings between them
\* and reads of its parts, the handlers get the packets that were sent, in their
\* order, the k-th pong has the bits of the k-th ping, and nobody is disconnected
\* who did not close.
\* (pkrsrv_websocket_read_header, pkrsrv_websocket_read_payload)
PacketsComeOut ==
  /\ IsPrefix(received, sent)
  /\ Answered <= Len(pings)
  /\ \A i \in Pongs(out) :
       out[i].bits = pings[Cardinality({j \in Pongs(out) : j <= i})]
  /\ reader = "gone" => closed
  /\ (wire = << >> /\ uncut = << >> /\ reader = "header" /\ writing["receiver"] = << >>)
       => (received = sent /\ Answered = Len(pings))

\* What the event loop sends and the pongs of the receive thread come out one
\* after another: between a frame's header and its last piece there is nothing
\* of another frame.  (write_mutex)
FramesAreWhole ==
  \A i \in 2 .. Len(out) :
    IF out[i - 1].i = out[i - 1].n
      THEN out[i].i = 1
      ELSE out[i] = [out[i - 1] EXCEPT !.i = @ + 1]
=============================================================================
