------------------------ MODULE RtpPacketizerProofs ------------------------
(***************************************************************************)
(* Proofs about RtpPacketizer, for all sizes of headers, packets, buffer   *)
(* and frames: positions stay within the buffer, half of it is free when a *)
(* frame is read, and the bytes sent are the bytes read.                   *)
(***************************************************************************)
EXTENDS RtpPacketizer, TLAPS

USE SizesAssumption, FramesAssumption, JunkAssumption
USE DEF bufVars, sinkVars

\* The actions one by one.
LEMMA StepCases ==
    ASSUME [Next]_vars
    PROVE  \/ BuildPacket \/ UseOverflow \/ GetNextFrame
           \/ \E n \in FrameSizes : Deliver(n)
           \/ Postpone \/ Fragment \/ UseFrame \/ UseEmptyFrame
           \/ UNCHANGED vars
BY DEF Next, AfterGettingFrame1

-----------------------------------------------------------------------------
(* Types and positions.                                                    *)

\* Every step keeps the flags Boolean.
LEMMA FlagStep ==
    ASSUME Flags, [Next]_vars
    PROVE  Flags'
<1> USE DEF Flags
<1>1. CASE BuildPacket
  BY <1>1 DEF BuildPacket
<1>2. CASE UseOverflow
  BY <1>2 DEF UseOverflow
<1>3. CASE GetNextFrame
  BY <1>3 DEF GetNextFrame
<1>4. CASE \E n \in FrameSizes : Deliver(n)
  BY <1>4 DEF Deliver, FindsPicture
<1>5. CASE Postpone
  BY <1>5 DEF Postpone, Send
<1>6. CASE Fragment
  BY <1>6 DEF Fragment, Send
<1>7. CASE UseFrame
  BY <1>7 DEF UseFrame, Send
<1>8. CASE UseEmptyFrame
  BY <1>8 DEF UseEmptyFrame, Send
<1>9. CASE UNCHANGED vars
  BY <1>9 DEF vars
<1> QED  BY StepCases, <1>1, <1>2, <1>3, <1>4, <1>5, <1>6, <1>7, <1>8, <1>9

\* The move of the packet start keeps overflow data behind the headers and in the buffer.
LEMMA MoveLayout ==
    ASSUME NEW cur \in Nat, NEW off \in Nat, NEW size \in Nat,
           packetStart \in Nat, Header <= cur,
           size > 0 => cur <= off /\ packetStart + off + size <= Limit,
           MovePacketStart(cur, off, size)
    PROVE  /\ packetStart' \in Nat /\ overflowOffset' \in Nat /\ overflowSize' = size
           /\ packetStart' > 0 => 2 * (Limit - (packetStart' + Header)) > Limit
           /\ size > 0 => /\ packetStart' + overflowOffset' = packetStart + off
                          /\ Header <= overflowOffset'
BY DEF MovePacketStart

\* Every step keeps everything in its place.
LEMMA LayoutStep ==
    ASSUME Flags, Layout, phase \in {"idle", "pack", "reading", "got"}, [Next]_vars
    PROVE  Layout' /\ phase' \in {"idle", "pack", "reading", "got"}
<1> USE DEF Layout, Clip, Available
<1>1. CASE BuildPacket
  BY <1>1 DEF BuildPacket
<1>2. CASE UseOverflow
  BY <1>2 DEF UseOverflow
<1>3. CASE GetNextFrame
  BY <1>3 DEF GetNextFrame
<1>4. CASE \E n \in FrameSizes : Deliver(n)
  <2> PICK n \in FrameSizes : Deliver(n)
    BY <1>4
  <2> QED  BY DEF Deliver, FindsPicture
<1>5. CASE Postpone
  <2>1. phase = "got" /\ frameSize > 0 /\ frameSize' = 0
    BY <1>5 DEF Postpone
  <2>2. MovePacketStart(curOffset, curOffset, frameSize) /\ curOffset' = 0 /\ phase' = "idle"
        /\ started' = FALSE
    BY <1>5 DEF Postpone, Send
  <2> QED  BY <2>1, <2>2, MoveLayout
<1>6. CASE Fragment
  <2> DEFINE left == frameSize - (Max - curOffset)
  <2>1. phase = "got" /\ frameSize' = 0 /\ curOffset + frameSize > Max
    BY <1>6 DEF Fragment, WouldOverflow
  <2>2. MovePacketStart(Max, Max, left) /\ curOffset' = 0 /\ phase' = "idle"
        /\ started' = FALSE
    BY <1>6 DEF Fragment, Send
  <2>3. left \in Nat /\ left > 0 /\ packetStart + Max + left <= Limit
    BY <2>1
  <2> QED  BY <2>1, <2>2, <2>3, MoveLayout
<1>7. CASE UseFrame
  <2> DEFINE cur == curOffset + frameSize
  <2>1. phase = "got" /\ frameSize' = 0 /\ overflowSize = 0
    BY <1>7 DEF UseFrame
  <2>2. CASE MovePacketStart(cur, overflowOffset, overflowSize) /\ curOffset' = 0
             /\ phase' = "idle" /\ started' = FALSE
    BY <2>1, <2>2, MoveLayout
  <2>3. CASE cur < Preferred /\ curOffset' = cur /\ phase' = "pack" /\ started' = TRUE
             /\ UNCHANGED bufVars
    BY <2>1, <2>3
  <2>4. CASE cur >= Preferred \/ cur + frameSize > Max \/ ended' \/ prevSlice'
    <3>1. Send(Marked(0), cur, TRUE, overflowOffset, overflowSize)
      BY <1>7, <2>4 DEF UseFrame
    <3> QED  BY <3>1, <2>2 DEF Send
  <2>5. CASE ~(cur >= Preferred \/ cur + frameSize > Max \/ ended' \/ prevSlice')
    <3>1. curOffset' = cur /\ phase' = "pack" /\ started' = TRUE /\ UNCHANGED bufVars
      BY <1>7, <2>5 DEF UseFrame
    <3> QED  BY <3>1, <2>1, <2>3, <2>5
  <2> QED  BY <2>4, <2>5
<1>8. CASE UseEmptyFrame
  <2>1. phase = "got" /\ frameSize' = 0 /\ frameSize = 0 /\ overflowSize = 0
    BY <1>8 DEF UseEmptyFrame
  <2>2. CASE MovePacketStart(curOffset, overflowOffset, overflowSize) /\ curOffset' = 0
             /\ phase' = "idle" /\ started' = FALSE
    BY <2>1, <2>2, MoveLayout
  <2>3. CASE curOffset' = curOffset /\ phase' = "pack" /\ started' = TRUE /\ UNCHANGED bufVars
    BY <2>1, <2>3
  <2> QED  BY <1>8, <2>1, <2>2, <2>3 DEF UseEmptyFrame, Send
<1>9. CASE UNCHANGED vars
  BY <1>9 DEF vars
<1> QED  BY StepCases, <1>1, <1>2, <1>3, <1>4, <1>5, <1>6, <1>7, <1>8, <1>9

\* What is put into a packet keeps it one.
LEMMA MarkedIsPacket ==
    ASSUME Flags, packet \in Packets, NEW n \in Int
    PROVE  Marked(n) \in Packets
BY DEF Flags, Packets, Marked

\* Sending keeps the types of the contents.
LEMMA SendContents ==
    ASSUME NEW pkt \in Packets, NEW cur \in 0..Max, NEW isStarted \in BOOLEAN,
           NEW off, NEW size,
           buf \in [Positions -> Int \cup {Junk}], sent \in Packets, owed \in Int,
           Send(pkt, cur, isStarted, off, size)
    PROVE  /\ buf' \in [Positions -> Int \cup {Junk}]
           /\ packet' \in Packets /\ sent' \in Packets /\ owed' \in Int
<1> DEFINE payload == IF isStarted THEN cur - Header ELSE 0
<1>1. payload \in Int
  OBVIOUS
<1>2. buf' = [p \in Positions |->
                IF buf[p] # Junk /\ buf[p] >= payload THEN buf[p] - payload ELSE Junk]
  BY DEF Send
<1>3. buf' \in [Positions -> Int \cup {Junk}]
  BY <1>1, <1>2
<1>4. packet' \in Packets /\ sent' \in Packets
  BY DEF Send, Packets, NewPacket
<1>5. owed' \in Int
  BY <1>1 DEF Send
<1> QED  BY <1>3, <1>4, <1>5

\* Every step keeps the types of the contents.
LEMMA ContentsStep ==
    ASSUME TypeInv, [Next]_vars
    PROVE  /\ buf' \in [Positions -> Int \cup {Junk}]
           /\ packet' \in Packets /\ sent' \in Packets /\ owed' \in Int
<1> USE DEF TypeInv
<1>1. CASE BuildPacket
  BY <1>1 DEF BuildPacket, Packets, NewPacket
<1>2. CASE UseOverflow
  <2> DEFINE to == packetStart + curOffset
             from == packetStart + overflowOffset
  <2>1. buf' = [p \in Positions |->
                  IF In(p, to, Clip(overflowSize)) THEN buf[p - to + from] ELSE buf[p]]
    BY <1>2 DEF UseOverflow
  <2>2. ASSUME NEW p \in Positions, In(p, to, Clip(overflowSize))
        PROVE  p - to + from \in Positions
    BY <1>2, <2>2 DEF UseOverflow, Layout, Positions, In, Clip, Available
  <2>3. buf' \in [Positions -> Int \cup {Junk}]
    BY <2>1, <2>2
  <2> QED  BY <1>2, <2>3 DEF UseOverflow
<1>3. CASE GetNextFrame
  BY <1>3 DEF GetNextFrame
<1>4. CASE \E n \in FrameSizes : Deliver(n)
  <2> PICK n \in FrameSizes : Deliver(n)
    BY <1>4
  <2>1. packetStart + curOffset \in Int /\ Clip(n) \in Int
    BY DEF Layout, Clip, Available
  <2>2. buf' \in [Positions -> Int \cup {Junk}]
    BY <2>1 DEF Deliver, FindsPicture, Positions
  <2> QED  BY <2>1, <2>2 DEF Deliver, FindsPicture
<1>5. CASE Postpone
  <2>1. Send(packet, curOffset, started, curOffset, frameSize) /\ curOffset \in 0..Max
    BY <1>5 DEF Postpone, Layout
  <2> QED  BY <2>1, SendContents DEF Flags
<1>6. CASE Fragment
  <2> DEFINE left == frameSize - (Max - curOffset)
  <2>1. Send(Marked(left), Max, TRUE, Max, left)
    BY <1>6 DEF Fragment
  <2>2. left \in Int
    BY DEF Layout
  <2>3. Marked(left) \in Packets
    BY <2>2, MarkedIsPacket
  <2>4. Max \in 0..Max
    OBVIOUS
  <2> HIDE DEF left
  <2> QED  BY <2>1, <2>3, <2>4, SendContents
<1>7. CASE UseFrame
  <2> DEFINE cur == curOffset + frameSize
  <2>1. cur \in 0..Max
    BY <1>7 DEF UseFrame, WouldOverflow, Layout
  <2>2. Marked(0) \in Packets
    BY MarkedIsPacket
  <2>3. CASE cur >= Preferred \/ cur + frameSize > Max \/ ended' \/ prevSlice'
    <3>1. Send(Marked(0), cur, TRUE, overflowOffset, overflowSize)
      BY <1>7, <2>3 DEF UseFrame
    <3> QED  BY <3>1, <2>1, <2>2, SendContents
  <2>4. CASE ~(cur >= Preferred \/ cur + frameSize > Max \/ ended' \/ prevSlice')
    BY <1>7, <2>2, <2>4 DEF UseFrame
  <2> QED  BY <2>3, <2>4
<1>8. CASE UseEmptyFrame
  <2>1. curOffset \in 0..Max
    BY <1>8 DEF UseEmptyFrame, Layout
  <2>2. CASE Send(packet, curOffset, TRUE, overflowOffset, overflowSize)
    BY <2>1, <2>2, SendContents
  <2>3. CASE UNCHANGED <<bufVars, curOffset, packet, sent, owed>>
    BY <2>3
  <2> QED  BY <1>8, <2>2, <2>3 DEF UseEmptyFrame
<1>9. CASE UNCHANGED vars
  BY <1>9 DEF vars
<1> QED  BY StepCases, <1>1, <1>2, <1>3, <1>4, <1>5, <1>6, <1>7, <1>8, <1>9

\* The types and positions of OutPacketBuffer and the sink are right in every state.
THEOREM TypeCorrect == Spec => []TypeInv
<1>1. Init => Flags
  BY DEF Init, Flags
<1>2. Init => Layout /\ phase \in {"idle", "pack", "reading", "got"}
  BY DEF Init, Layout
<1>3. Init => packet \in Packets /\ sent \in Packets
  BY DEF Init, Packets, NewPacket
<1>4. Init => buf \in [Positions -> Int \cup {Junk}] /\ owed \in Int
  BY DEF Init
<1>5. Init => TypeInv
  BY <1>1, <1>2, <1>3, <1>4 DEF TypeInv
<1>6. TypeInv /\ [Next]_vars => TypeInv'
  BY FlagStep, LayoutStep, ContentsStep DEF TypeInv
<1> QED  BY <1>5, <1>6, PTL DEF Spec

\* Whenever a frame is read, half of the buffer is free but for the packet before it.
THEOREM RoomForFrames == Spec => []HalfBufferFree
<1>1. TypeInv => HalfBufferFree
  BY DEF TypeInv, Layout, HalfBufferFree, Available
<1> QED  BY <1>1, TypeCorrect, PTL

-----------------------------------------------------------------------------
(* The bytes.                                                              *)

\* The bytes that sending a packet takes from the stream.
SentBytes(cur, isStarted) == IF isStarted THEN cur - Header ELSE 0

\* A packet of cur bytes is ready to be sent: with it goes the beginning of the stream, and
\* the rest waits at offset off behind it.
Ready(cur, isStarted, off, size) ==
    /\ cur \in Nat /\ off \in Nat /\ size \in Nat /\ Header <= cur
    /\ size > 0 => cur <= off /\ packetStart + off + size <= Limit
    /\ owed = SentBytes(cur, isStarted) + size
    /\ \A k \in 0 .. size - 1 : buf[packetStart + off + k] = SentBytes(cur, isStarted) + k

\* Sending a packet that is ready leaves the rest of the stream intact.
LEMMA SendIntact ==
    ASSUME packetStart \in Nat, buf \in [Positions -> Int \cup {Junk}],
           NEW pkt, NEW cur, NEW isStarted, NEW off, NEW size,
           Ready(cur, isStarted, off, size),
           Send(pkt, cur, isStarted, off, size), frameSize' = 0
    PROVE  StreamIntact'
<1> USE DEF Ready
<1> DEFINE payload == SentBytes(cur, isStarted)
<1>0. payload \in Nat
  BY DEF SentBytes
<1>2. /\ MovePacketStart(cur, off, size) /\ phase' = "idle" /\ owed' = owed - payload
      /\ buf' = [p \in Positions |->
                   IF buf[p] # Junk /\ buf[p] >= payload THEN buf[p] - payload ELSE Junk]
  BY DEF Send, SentBytes
<1> HIDE DEF payload
<1>3. overflowSize' = size /\ (size > 0 => packetStart' + overflowOffset' = packetStart + off)
  BY <1>2, MoveLayout
<1>4. Payload' = 0 /\ PendingSize' = size
  BY <1>2, <1>3 DEF Payload, PendingSize
<1>5. ASSUME NEW k \in 0 .. size - 1
      PROVE  buf'[PendingStart' + k] = k
  <2>1. PendingStart' + k = packetStart + off + k
    BY <1>2, <1>3 DEF PendingStart
  <2>2. packetStart + off + k \in Positions
    BY DEF Positions
  <2>3. buf[packetStart + off + k] = payload + k /\ payload + k # Junk
    BY <1>0 DEF payload
  <2>4. buf'[packetStart + off + k] = (payload + k) - payload
    BY <1>0, <1>2, <2>2, <2>3
  <2> QED  BY <1>0, <2>1, <2>4
<1>6. owed' = size
  BY <1>0, <1>2 DEF payload
<1> QED  BY <1>4, <1>5, <1>6 DEF StreamIntact

\* Every step keeps the stream of bytes intact.
LEMMA IntactStep ==
    ASSUME TypeInv, TypeInv', StreamIntact, [Next]_vars
    PROVE  StreamIntact'
<1> USE DEF TypeInv, Layout
<1>1. CASE BuildPacket
  <2>1. Payload' = 0 /\ Payload = 0 /\ PendingSize' = PendingSize /\ PendingStart' = PendingStart
    BY <1>1 DEF BuildPacket, Payload, PendingSize, PendingStart, Clip, Available
  <2>2. ASSUME NEW k \in 0 .. PendingSize - 1
        PROVE  buf'[PendingStart + k] = buf[PendingStart + k]
    <3>1. PendingStart + k \in Positions /\ PendingStart + k >= packetStart + Header
      BY <1>1 DEF BuildPacket, PendingSize, PendingStart, Positions
    <3>2. ~In(PendingStart + k, packetStart + curOffset, Clip(Header))
      BY <1>1, <3>1 DEF BuildPacket, In, Clip, Available
    <3> QED  BY <1>1, <3>1, <3>2 DEF BuildPacket
  <2> QED  BY <1>1, <2>1, <2>2 DEF BuildPacket, StreamIntact
<1>2. CASE UseOverflow
  <2> DEFINE to == packetStart + curOffset
             from == packetStart + overflowOffset
  <2>1. /\ phase = "pack" /\ phase' = "got" /\ overflowSize > 0 /\ curOffset = Header
        /\ Clip(overflowSize) = overflowSize
    BY <1>2 DEF UseOverflow, Clip, Available
  <2>2. curOffset' = curOffset /\ frameSize' = overflowSize /\ packetStart' = packetStart
    BY <1>2, <2>1 DEF UseOverflow
  <2>3. Payload = 0 /\ Payload' = 0 /\ PendingSize' = PendingSize /\ PendingSize = overflowSize
        /\ PendingStart = from /\ PendingStart' = to
    BY <2>1, <2>2 DEF Payload, PendingSize, PendingStart
  <2>4. ASSUME NEW k \in 0 .. overflowSize - 1
        PROVE  buf'[to + k] = buf[from + k]
    <3>1. to + k \in Positions /\ In(to + k, to, Clip(overflowSize))
      BY <2>1 DEF Positions, In
    <3>2. (to + k) - to + from = from + k
      OBVIOUS
    <3> QED  BY <1>2, <3>1, <3>2 DEF UseOverflow
  <2>5. owed' = owed /\ owed = Payload + PendingSize
    BY <1>2 DEF UseOverflow, StreamIntact
  <2>6. \A k \in 0 .. overflowSize - 1 : buf[from + k] = k
    BY <2>3 DEF StreamIntact
  <2>7. ASSUME NEW k \in 0 .. PendingSize' - 1
        PROVE  buf'[PendingStart' + k] = Payload' + k
    <3>1. k \in 0 .. overflowSize - 1 /\ PendingStart' + k = to + k /\ Payload' + k = k
      BY <2>3
    <3>2. buf'[to + k] = k
      BY <3>1, <2>4, <2>6
    <3> QED  BY <3>1, <3>2
  <2>8. \A k \in 0 .. Payload' - 1 : buf'[packetStart' + Header + k] = k
    BY <2>3
  <2>9. owed' = Payload' + PendingSize'
    BY <2>3, <2>5
  <2> QED  BY <2>7, <2>8, <2>9 DEF StreamIntact
<1>3. CASE GetNextFrame
  BY <1>3 DEF GetNextFrame, StreamIntact, Payload, PendingSize, PendingStart
<1>4. CASE \E n \in FrameSizes : Deliver(n)
  <2> PICK n \in FrameSizes : Deliver(n)
    BY <1>4
  <2> DEFINE to == packetStart + curOffset
  <2>1. /\ phase = "reading" /\ phase' = "got" /\ overflowSize = 0
        /\ Clip(n) \in Nat /\ to + Clip(n) <= Limit
    BY DEF Deliver, FindsPicture, Clip, Available
  <2>2. /\ Payload' = Payload /\ owed = Payload /\ PendingSize' = Clip(n)
        /\ PendingStart' = to /\ packetStart' = packetStart /\ Payload = curOffset - Header
    BY <2>1 DEF Deliver, FindsPicture, StreamIntact, Payload, PendingSize, PendingStart
  <2>3. ASSUME NEW k \in 0 .. Payload - 1
        PROVE  buf'[packetStart + Header + k] = k
    <3>1. packetStart + Header + k \in Positions /\ ~In(packetStart + Header + k, to, Clip(n))
      BY <2>1, <2>2 DEF Positions, In
    <3> QED  BY <3>1 DEF Deliver, FindsPicture, StreamIntact
  <2>4. ASSUME NEW k \in 0 .. Clip(n) - 1
        PROVE  buf'[to + k] = Payload + k
    <3>1. to + k \in Positions /\ In(to + k, to, Clip(n))
      BY <2>1 DEF Positions, In
    <3> QED  BY <2>2, <3>1 DEF Deliver, FindsPicture
  <2>5. owed' = Payload + Clip(n)
    BY <2>2 DEF Deliver, FindsPicture
  <2> QED  BY <2>2, <2>3, <2>4, <2>5 DEF StreamIntact
<1>5. CASE Postpone
  <2>1. /\ Send(packet, curOffset, started, curOffset, frameSize) /\ frameSize' = 0
        /\ phase = "got"
    BY <1>5 DEF Postpone
  <2>2. started = TRUE
    BY <1>5 DEF Postpone, Barred, WouldOverflow, TooBigForAPacket, Flags
  <2>3. owed = SentBytes(curOffset, TRUE) + frameSize
    BY <2>1 DEF StreamIntact, Payload, PendingSize, SentBytes
  <2>4. \A k \in 0 .. frameSize - 1 :
           buf[packetStart + curOffset + k] = SentBytes(curOffset, TRUE) + k
    BY <2>1 DEF StreamIntact, Payload, PendingSize, PendingStart, SentBytes
  <2>5. Send(packet, curOffset, TRUE, curOffset, frameSize)
    BY <2>1, <2>2
  <2>6. frameSize > 0 => curOffset <= curOffset /\ packetStart + curOffset + frameSize <= Limit
    BY <2>1
  <2>7. Ready(curOffset, TRUE, curOffset, frameSize)
    BY <2>1, <2>3, <2>4, <2>6 DEF Ready
  <2> QED  BY <2>1, <2>5, <2>7, SendIntact
<1>6. CASE Fragment
  <2> DEFINE use == Max - curOffset
             left == frameSize - use
             pkt == Marked(left)
  <2>1. Send(pkt, Max, TRUE, Max, left) /\ frameSize' = 0 /\ phase = "got"
    BY <1>6 DEF Fragment
  <2>2. /\ left \in Nat /\ packetStart + Max + left <= Limit
        /\ owed = SentBytes(Max, TRUE) + left
    BY <1>6, <2>1 DEF Fragment, WouldOverflow, StreamIntact, Payload, PendingSize, SentBytes
  <2>3. ASSUME NEW k \in 0 .. left - 1
        PROVE  buf[packetStart + Max + k] = SentBytes(Max, TRUE) + k
    <3>1. use + k \in 0 .. frameSize - 1
      BY <2>1, <2>2
    <3>2. buf[packetStart + curOffset + (use + k)] = (curOffset - Header) + (use + k)
      BY <2>1, <3>1 DEF StreamIntact, Payload, PendingSize, PendingStart
    <3> QED  BY <3>2 DEF SentBytes
  <2>4. Ready(Max, TRUE, Max, left)
    <3> HIDE DEF left
    <3>1. \A k \in 0 .. left - 1 : buf[packetStart + Max + k] = SentBytes(Max, TRUE) + k
      BY <2>3
    <3>2. Max \in Nat /\ Header <= Max /\ packetStart + Max + left <= Limit
      BY <2>2
    <3>3. left \in Nat /\ owed = SentBytes(Max, TRUE) + left
      BY <2>2
    <3>4. left > 0 => Max <= Max /\ packetStart + Max + left <= Limit
      BY <3>2
    <3> QED  BY <3>1, <3>2, <3>3, <3>4, Zenon DEF Ready
  <2> QED  BY <2>1, <2>4, SendIntact
<1>7. CASE UseFrame
  <2> DEFINE cur == curOffset + frameSize
             pkt == Marked(0)
  <2>1. phase = "got" /\ frameSize' = 0 /\ overflowSize = 0
        /\ owed = SentBytes(cur, TRUE) + overflowSize
    BY <1>7 DEF UseFrame, StreamIntact, Payload, PendingSize, SentBytes
  <2>2. CASE cur >= Preferred \/ cur + frameSize > Max \/ ended' \/ prevSlice'
    <3>1. Send(pkt, cur, TRUE, overflowOffset, overflowSize)
      BY <1>7, <2>2 DEF UseFrame
    <3>2. \A k \in 0 .. overflowSize - 1 :
             buf[packetStart + overflowOffset + k] = SentBytes(cur, TRUE) + k
      BY <2>1
    <3>3. cur \in Nat /\ Header <= cur
      BY <2>1
    <3>4. Ready(cur, TRUE, overflowOffset, overflowSize)
      BY <2>1, <3>2, <3>3 DEF Ready
    <3> QED  BY <2>1, <3>1, <3>4, SendIntact
  <2>3. CASE ~(cur >= Preferred \/ cur + frameSize > Max \/ ended' \/ prevSlice')
    <3>1. curOffset' = cur /\ phase' = "pack" /\ UNCHANGED <<bufVars, owed>>
      BY <1>7, <2>3 DEF UseFrame
    <3>2. Payload' = cur - Header /\ PendingSize' = 0
      BY <2>1, <3>1 DEF Payload, PendingSize
    <3>3. ASSUME NEW k \in 0 .. (cur - Header) - 1
          PROVE  buf[packetStart + Header + k] = k
      <4>1. CASE k < curOffset - Header
        BY <2>1, <4>1 DEF StreamIntact, Payload
      <4>2. CASE k >= curOffset - Header
        <5>1. k - (curOffset - Header) \in 0 .. frameSize - 1
          BY <2>1, <4>2
        <5>2. buf[packetStart + curOffset + (k - (curOffset - Header))]
                = (curOffset - Header) + (k - (curOffset - Header))
          BY <2>1, <5>1 DEF StreamIntact, Payload, PendingSize, PendingStart
        <5> QED  BY <2>1, <5>2
      <4> QED  BY <4>1, <4>2
    <3>4. owed' = Payload' + PendingSize'
      BY <2>1, <3>1, <3>2 DEF SentBytes
    <3> QED  BY <3>1, <3>2, <3>3, <3>4 DEF StreamIntact
  <2> QED  BY <2>2, <2>3
<1>8. CASE UseEmptyFrame
  <2>1. /\ phase = "got" /\ frameSize = 0 /\ frameSize' = 0 /\ overflowSize = 0
        /\ owed = SentBytes(curOffset, TRUE) + overflowSize
    BY <1>8 DEF UseEmptyFrame, StreamIntact, Payload, PendingSize, SentBytes
  <2>2. CASE Send(packet, curOffset, TRUE, overflowOffset, overflowSize)
    <3>1. \A k \in 0 .. overflowSize - 1 :
             buf[packetStart + overflowOffset + k] = SentBytes(curOffset, TRUE) + k
      BY <2>1
    <3>2. Ready(curOffset, TRUE, overflowOffset, overflowSize)
      BY <2>1, <3>1 DEF Ready
    <3> QED  BY <2>1, <2>2, <3>2, SendIntact
  <2>3. CASE phase' = "pack" /\ UNCHANGED <<bufVars, curOffset, packet, sent, owed>>
    BY <2>1, <2>3 DEF StreamIntact, Payload, PendingSize, PendingStart, SentBytes
  <2> QED  BY <1>8, <2>2, <2>3 DEF UseEmptyFrame
<1>9. CASE UNCHANGED vars
  BY <1>9 DEF vars, StreamIntact, Payload, PendingSize, PendingStart
<1> QED  BY StepCases, <1>1, <1>2, <1>3, <1>4, <1>5, <1>6, <1>7, <1>8, <1>9

\* Every byte read is sent once and in order, whatever the sizes.
THEOREM BytesIntact == Spec => []StreamIntact
<1>1. Init => StreamIntact
  BY DEF Init, StreamIntact, Payload, PendingSize, PendingStart
<1> QED  BY <1>1, IntactStep, TypeCorrect, PTL DEF Spec

-----------------------------------------------------------------------------
(* The marker bit.                                                         *)

\* The framer's flag is up as long as bytes of a picture wait.
MarkerInv ==
    /\ sent.marker = sent.ends /\ packet.marker = packet.ends
    /\ PendingSize > 0 => endMarker = TRUE

\* A packet that a whole frame, or the end of one, goes into has marker and end alike.
LEMMA MarkedAlike ==
    ASSUME TypeInv, MarkerInv, NEW n \in Nat, n = 0 => endMarker = TRUE
    PROVE  Marked(n).marker = Marked(n).ends
<1>1. packet \in Packets
  BY DEF TypeInv
<1>2. CASE n = 0
  BY <1>1, <1>2 DEF Marked, MarkerInv, Packets
<1>3. CASE n # 0
  BY <1>1, <1>3 DEF Marked, MarkerInv, Packets
<1> QED  BY <1>2, <1>3

\* What is sent, and what the next packet begins with.
LEMMA SendMarker ==
    ASSUME TypeInv, MarkerInv, NEW pkt \in Packets, pkt.marker = pkt.ends,
           NEW cur, NEW isStarted \in BOOLEAN, NEW off, NEW size,
           Send(pkt, cur, isStarted, off, size)
    PROVE  sent'.marker = sent'.ends /\ packet'.marker = packet'.ends
<1>1. sent' = IF isStarted THEN [pkt EXCEPT !.size = cur] ELSE sent
  BY DEF Send
<1>2. packet' = NewPacket
  BY DEF Send
<1>3. sent'.marker = sent'.ends
  BY <1>1 DEF MarkerInv, Packets
<1> QED  BY <1>2, <1>3 DEF NewPacket

\* Every step keeps the marker right.
LEMMA MarkerStep ==
    ASSUME TypeInv, TypeInv', MarkerInv, [Next]_vars
    PROVE  MarkerInv'
<1> USE DEF TypeInv, Layout
<1>1. CASE BuildPacket
  BY <1>1 DEF BuildPacket, MarkerInv, NewPacket, PendingSize
<1>2. CASE UseOverflow
  BY <1>2 DEF UseOverflow, MarkerInv, PendingSize
<1>3. CASE GetNextFrame
  BY <1>3 DEF GetNextFrame, MarkerInv, PendingSize
<1>4. CASE \E n \in FrameSizes : Deliver(n)
  <2> PICK n \in FrameSizes : Deliver(n)
    BY <1>4
  <2>1. sent' = sent /\ packet' = packet /\ PendingSize' = Clip(n) /\ (n > 0 => endMarker' = TRUE)
    BY DEF Deliver, FindsPicture, PendingSize
  <2>2. Clip(n) > 0 => n > 0
    BY DEF Clip, Available, Deliver
  <2> QED  BY <2>1, <2>2 DEF MarkerInv
<1>5. CASE Postpone
  <2>1. Send(packet, curOffset, started, curOffset, frameSize) /\ endMarker' = endMarker
        /\ endMarker = TRUE
    BY <1>5 DEF Postpone, MarkerInv, PendingSize
  <2>2. sent'.marker = sent'.ends /\ packet'.marker = packet'.ends
    BY <2>1, SendMarker DEF MarkerInv, Flags
  <2> QED  BY <2>1, <2>2 DEF MarkerInv
<1>6. CASE Fragment
  <2> DEFINE left == frameSize - (Max - curOffset)
  <2>1. Send(Marked(left), Max, TRUE, Max, left) /\ endMarker' = endMarker
    BY <1>6 DEF Fragment
  <2>2. left \in Nat /\ left > 0 /\ endMarker = TRUE
    BY <1>6 DEF Fragment, WouldOverflow, MarkerInv, PendingSize
  <2>3. Marked(left) \in Packets /\ Marked(left).marker = Marked(left).ends
    BY <2>2, MarkedIsPacket, MarkedAlike
  <2> HIDE DEF left
  <2>4. sent'.marker = sent'.ends /\ packet'.marker = packet'.ends
    BY <2>1, <2>3, SendMarker
  <2> QED  BY <2>1, <2>2, <2>4 DEF MarkerInv
<1>7. CASE UseFrame
  <2> DEFINE cur == curOffset + frameSize
  <2>1. phase = "got" /\ frameSize > 0 /\ frameSize' = 0 /\ overflowSize = 0 /\ endMarker = TRUE
    BY <1>7 DEF UseFrame, MarkerInv, PendingSize
  <2>2. Marked(0) \in Packets /\ Marked(0).marker = Marked(0).ends
    BY <2>1, MarkedIsPacket, MarkedAlike
  <2>3. CASE cur >= Preferred \/ cur + frameSize > Max \/ ended' \/ prevSlice'
    <3>1. Send(Marked(0), cur, TRUE, overflowOffset, overflowSize)
      BY <1>7, <2>3 DEF UseFrame
    <3>2. sent'.marker = sent'.ends /\ packet'.marker = packet'.ends
      BY <2>2, <3>1, SendMarker
    <3>3. PendingSize' = 0
      BY <2>1, <3>1 DEF Send, MovePacketStart, PendingSize
    <3> QED  BY <3>2, <3>3 DEF MarkerInv
  <2>4. CASE ~(cur >= Preferred \/ cur + frameSize > Max \/ ended' \/ prevSlice')
    <3>1. phase' = "pack" /\ packet' = Marked(0) /\ UNCHANGED <<bufVars, sent>>
      BY <1>7, <2>4 DEF UseFrame
    <3> QED  BY <2>1, <2>2, <3>1 DEF MarkerInv, PendingSize
  <2> QED  BY <2>3, <2>4
<1>8. CASE UseEmptyFrame
  <2>1. phase = "got" /\ frameSize = 0 /\ frameSize' = 0 /\ overflowSize = 0
    BY <1>8 DEF UseEmptyFrame
  <2>2. CASE Send(packet, curOffset, TRUE, overflowOffset, overflowSize)
    <3>1. sent'.marker = sent'.ends /\ packet'.marker = packet'.ends
      BY <2>2, SendMarker DEF MarkerInv
    <3>2. PendingSize' = 0
      BY <2>1, <2>2 DEF Send, MovePacketStart, PendingSize
    <3> QED  BY <3>1, <3>2 DEF MarkerInv
  <2>3. CASE phase' = "pack" /\ UNCHANGED <<bufVars, curOffset, packet, sent, owed>>
    BY <2>1, <2>3 DEF MarkerInv, PendingSize
  <2> QED  BY <1>8, <2>2, <2>3 DEF UseEmptyFrame
<1>9. CASE UNCHANGED vars
  BY <1>9 DEF vars, MarkerInv, PendingSize
<1> QED  BY StepCases, <1>1, <1>2, <1>3, <1>4, <1>5, <1>6, <1>7, <1>8, <1>9

\* A packet carries the marker bit if and only if a picture ends in it, whatever the sizes.
THEOREM MarkerCorrect == Spec => []MarkerEndsPicture
<1>1. Init => MarkerInv
  BY DEF Init, MarkerInv, NewPacket, PendingSize
<1>2. MarkerInv => MarkerEndsPicture
  BY DEF MarkerInv, MarkerEndsPicture
<1> QED  BY <1>1, <1>2, MarkerStep, TypeCorrect, PTL DEF Spec
=============================================================================
