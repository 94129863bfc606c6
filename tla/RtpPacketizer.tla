--------------------------- MODULE RtpPacketizer ---------------------------
(***************************************************************************)
(* How MultiFramedRTPSink and MPEG1or2VideoRTPSink cut frames into RTP     *)
(* packets: the arithmetic of OutPacketBuffer, the fragmentation of frames *)
(* too big for a packet, the packing of small ones, and the "efficiency    *)
(* hack" that moves the packet to the data instead of the data to the      *)
(* packet.                                                                 *)
(*                                                                         *)
(* The buffer maps a position to the place its byte has in the stream of   *)
(* bytes read from the source and not sent yet: 0 is the byte that must be *)
(* sent next.  Everything else in the buffer is Junk.                      *)
(*                                                                         *)
(* The encoder delivers whole pictures, which begin with a sequence or     *)
(* picture header: the sink takes none for a slice, but a fragment that is *)
(* not the first.                                                          *)
(***************************************************************************)
EXTENDS Integers

CONSTANTS
    Header,     \* bytes of the RTP header and the video-specific one
    Preferred,  \* fPreferred: a packet this big is sent
    Max,        \* fMax: no packet is bigger
    Limit,      \* fLimit: the size of the buffer
    FrameSizes, \* of the frames the source delivers; 0 when the codec output nothing
    Junk

ASSUME SizesAssumption ==
    /\ Header \in Nat /\ Preferred \in Nat /\ Max \in Nat /\ Limit \in Nat
    /\ 0 < Header /\ Header < Preferred /\ Preferred <= Max /\ 2 * Max <= Limit
ASSUME FramesAssumption == FrameSizes \subseteq Nat
ASSUME JunkAssumption == Junk \notin Int

VARIABLES
    \* --- OutPacketBuffer
    buf,            \* fBuf
    packetStart,    \* fPacketStart
    curOffset,      \* fCurOffset
    overflowOffset, \* fOverflowDataOffset; means nothing while there is no overflow
    overflowSize,   \* fOverflowDataSize
    \* --- the sink
    phase,          \* "idle" until sendNext, "pack", "reading", "got" a frame at curPtr
    frameSize,      \* of that frame
    started,        \* fNumFramesUsedSoFar > 0
    fragmenting,    \* fCurFragmentationOffset > 0
    ended,          \* fPreviousFrameEndedFragmentation
    prevSlice,      \* fPreviousFrameWasSlice
    endMarker,      \* pictureEndMarker() of the framer
    \* --- the packet being built and the one sent last: its size, its marker bit, and whether
    \* --- a picture ends in it
    packet, sent,
    owed            \* bytes read and not sent

bufVars  == <<buf, packetStart, overflowOffset, overflowSize>>
sinkVars == <<fragmenting, ended, prevSlice, endMarker>>
vars == <<bufVars, curOffset, phase, frameSize, started, sinkVars, packet, sent, owed>>

NewPacket == [size |-> 0, marker |-> FALSE, ends |-> FALSE]

Positions == 0 .. Limit - 1
Available == Limit - (packetStart + curOffset)
Clip(n)   == IF n > Available THEN Available ELSE n

\* Does position p lie in the n bytes from "from" on?
In(p, from, n) == from <= p /\ p < from + n

\* fPreviousFrameWasSlice has no initial value.
Init ==
    /\ buf = [p \in Positions |-> Junk]
    /\ packetStart = 0 /\ curOffset = 0 /\ overflowOffset = 0 /\ overflowSize = 0
    /\ phase = "idle" /\ frameSize = 0 /\ started = FALSE
    /\ fragmenting = FALSE /\ ended = FALSE /\ prevSlice \in BOOLEAN /\ endMarker = FALSE
    /\ packet = NewPacket /\ sent = NewPacket /\ owed = 0

-----------------------------------------------------------------------------
(* Building a packet.                                                      *)

\* buildAndSendPacket(): continuePlaying() or sendNext() begins a packet with its headers.
BuildPacket ==
    /\ phase = "idle" /\ phase' = "pack"
    /\ buf' = [p \in Positions |->
                 IF In(p, packetStart + curOffset, Clip(Header)) THEN Junk ELSE buf[p]]
    /\ curOffset' = curOffset + Clip(Header)
    /\ started' = FALSE /\ packet' = NewPacket
    /\ UNCHANGED <<packetStart, overflowOffset, overflowSize, frameSize, sinkVars, sent, owed>>

\* Mutant: the overflow data is not moved.
UseOverflowInPlace ==
    /\ phase = "pack" /\ overflowSize > 0 /\ phase' = "got"
    /\ curOffset' = curOffset + Clip(overflowSize) - overflowSize
    /\ frameSize' = overflowSize /\ overflowOffset' = 0 /\ overflowSize' = 0
    /\ UNCHANGED <<buf, packetStart, started, sinkVars, packet, sent, owed>>

\* packFrame() with overflow data: useOverflowData() moves it to curPtr(), where it is taken
\* for a frame just read.
UseOverflow ==
    /\ phase = "pack" /\ overflowSize > 0 /\ phase' = "got"
    /\ LET to == packetStart + curOffset  from == packetStart + overflowOffset IN
       buf' = [p \in Positions |->
                 IF In(p, to, Clip(overflowSize)) THEN buf[p - to + from] ELSE buf[p]]
    /\ curOffset' = curOffset + Clip(overflowSize) - overflowSize
    /\ frameSize' = overflowSize /\ overflowOffset' = 0 /\ overflowSize' = 0
    /\ UNCHANGED <<packetStart, started, sinkVars, packet, sent, owed>>

\* packFrame() without: a frame is asked for.
GetNextFrame ==
    /\ phase = "pack" /\ overflowSize = 0 /\ phase' = "reading"
    /\ UNCHANGED <<bufVars, curOffset, frameSize, started, sinkVars, packet, sent, owed>>

\* The framer notes that a picture ends with the frame, if there is one in its n bytes.
FindsPicture(n) == endMarker' = (endMarker \/ n > 0)

\* VSource::deliverFrame() writes a frame of n bytes to curPtr(), what there is room for.
Deliver(n) ==
    /\ phase = "reading" /\ phase' = "got"
    /\ frameSize' = Clip(n) /\ owed' = owed + Clip(n)
    /\ LET to == packetStart + curOffset IN
       buf' = [p \in Positions |-> IF In(p, to, Clip(n)) THEN owed + (p - to) ELSE buf[p]]
    /\ FindsPicture(n)
    /\ UNCHANGED <<packetStart, overflowOffset, overflowSize, curOffset, started,
                   fragmenting, ended, prevSlice, packet, sent>>

-----------------------------------------------------------------------------
(* afterGettingFrame1().                                                   *)

\* A frame that is no slice may not follow a slice, or the end of a fragmented frame.
Barred == started /\ (ended \/ prevSlice)

WouldOverflow(n) == curOffset + n > Max
TooBigForAPacket(n) == n + Header > Max

\* Mutant: the start is moved whenever there is overflow data.
MovePacketStartAlways(cur, off, size) ==
    IF size > 0
      THEN /\ packetStart' = packetStart + (cur - Header)
           /\ IF off >= cur - Header
                THEN overflowOffset' = off - (cur - Header) /\ overflowSize' = size
                ELSE overflowOffset' = 0 /\ overflowSize' = 0
      ELSE packetStart' = 0 /\ overflowOffset' = 0 /\ overflowSize' = size

\* The "efficiency hack" of sendPacketIfNecessary(): while more than half of the buffer is
\* free, the next packet starts just before the overflow data (adjustPacketStart()), else at
\* the front again (resetPacketStart()).
MovePacketStart(cur, off, size) ==
    IF size > 0 /\ 2 * (Limit - (packetStart + cur)) > Limit
      THEN /\ packetStart' = packetStart + (cur - Header)
           /\ IF off >= cur - Header
                THEN overflowOffset' = off - (cur - Header) /\ overflowSize' = size
                ELSE overflowOffset' = 0 /\ overflowSize' = 0
      ELSE /\ packetStart' = 0 /\ overflowSize' = size
           /\ overflowOffset' = IF size > 0 THEN off + packetStart ELSE 0

\* sendPacketIfNecessary() with the packet pkt of cur bytes, started or not, and overflow
\* data of the given size at offset off: sendNext is scheduled.
Send(pkt, cur, isStarted, off, size) ==
    LET payload == IF isStarted THEN cur - Header ELSE 0 IN
    /\ sent' = IF isStarted THEN [pkt EXCEPT !.size = cur] ELSE sent
    /\ owed' = owed - payload
    /\ buf' = [p \in Positions |->
                 IF buf[p] # Junk /\ buf[p] >= payload THEN buf[p] - payload ELSE Junk]
    /\ MovePacketStart(cur, off, size)
    /\ curOffset' = 0 /\ started' = FALSE /\ phase' = "idle" /\ packet' = NewPacket

\* Mutant: packFrame() is called where the packet should be sent.
PostponeAndGoOn ==
    /\ phase = "got" /\ frameSize > 0 /\ phase' = "pack"
    /\ Barred \/ (WouldOverflow(frameSize) /\ ~TooBigForAPacket(frameSize))
    /\ overflowOffset' = curOffset /\ overflowSize' = frameSize
    /\ frameSize' = 0 /\ ended' = FALSE
    /\ UNCHANGED <<buf, packetStart, curOffset, started, fragmenting, prevSlice, endMarker,
                   packet, sent, owed>>

\* The frame does not go into this packet: it is kept as overflow data.
Postpone ==
    /\ phase = "got" /\ frameSize > 0
    /\ Barred \/ (WouldOverflow(frameSize) /\ ~TooBigForAPacket(frameSize))
    /\ Send(packet, curOffset, started, curOffset, frameSize)
    /\ frameSize' = 0 /\ ended' = FALSE
    /\ UNCHANGED <<fragmenting, prevSlice, endMarker>>

\* The packet when a frame is put into it, of which n bytes remain.
MarkedEarly(n) ==
    [packet EXCEPT !.marker = @ \/ endMarker,
                   !.ends = @ \/ n = 0]

\* What doSpecialFrameHandling() makes of the packet when a frame is put into it, of which
\* n bytes remain.
Marked(n) ==
    [packet EXCEPT !.marker = @ \/ (endMarker /\ n = 0),
                   !.ends = @ \/ n = 0]

\* A frame too big for a packet: what there is room for goes into this one, which is full.
Fragment ==
    /\ phase = "got" /\ ~Barred /\ WouldOverflow(frameSize) /\ TooBigForAPacket(frameSize)
    /\ LET use == Max - curOffset IN
       Send(Marked(frameSize - use), Max, TRUE, Max, frameSize - use)
    /\ frameSize' = 0
    /\ fragmenting' = TRUE /\ ended' = FALSE /\ prevSlice' = fragmenting
    /\ UNCHANGED endMarker

\* A frame, or the last fragment of one, goes into the packet, which is sent when it has the
\* preferred size, when another frame like this would not fit, and after a last fragment.
UseFrame ==
    /\ phase = "got" /\ frameSize > 0 /\ ~Barred /\ ~WouldOverflow(frameSize)
    /\ frameSize' = 0
    /\ fragmenting' = FALSE /\ ended' = fragmenting /\ prevSlice' = fragmenting
    /\ endMarker' = FALSE
    /\ LET cur == curOffset + frameSize IN
       IF cur >= Preferred \/ cur + frameSize > Max \/ ended' \/ prevSlice'
         THEN Send(Marked(0), cur, TRUE, overflowOffset, overflowSize)
         ELSE /\ curOffset' = cur /\ packet' = Marked(0) /\ started' = TRUE /\ phase' = "pack"
              /\ UNCHANGED <<bufVars, sent, owed>>

\* A frame of no bytes counts as used, but doSpecialFrameHandling() passes it over.
UseEmptyFrame ==
    /\ phase = "got" /\ frameSize = 0
    /\ ended' = FALSE
    /\ IF curOffset >= Preferred \/ prevSlice
         THEN Send(packet, curOffset, TRUE, overflowOffset, overflowSize)
         ELSE /\ started' = TRUE /\ phase' = "pack"
              /\ UNCHANGED <<bufVars, curOffset, packet, sent, owed>>
    /\ UNCHANGED <<frameSize, fragmenting, prevSlice, endMarker>>

AfterGettingFrame1 == Postpone \/ Fragment \/ UseFrame \/ UseEmptyFrame

Next ==
    \/ BuildPacket \/ UseOverflow \/ GetNextFrame \/ AfterGettingFrame1
    \/ \E n \in FrameSizes : Deliver(n)

Spec == Init /\ [][Next]_vars

\* The event loop runs what is scheduled, and the source keeps delivering frames that are not
\* empty (FrameHandoff).
Fairness ==
    /\ WF_vars(BuildPacket) /\ WF_vars(UseOverflow \/ GetNextFrame) /\ WF_vars(AfterGettingFrame1)
    /\ SF_vars(\E n \in FrameSizes \ {0} : Deliver(n))

FairSpec == Spec /\ Fairness

-----------------------------------------------------------------------------
(* Properties.                                                             *)

\* Bytes of frames in the packet being built, and where the bytes after it wait.
Payload      == IF phase = "idle" THEN 0 ELSE curOffset - Header
PendingStart == packetStart + (IF phase = "got" THEN curOffset ELSE overflowOffset)
PendingSize  == IF phase = "got" THEN frameSize ELSE overflowSize

Flags == {started, fragmenting, ended, prevSlice, endMarker} \subseteq BOOLEAN

Packets == [size : 0..Max, marker : BOOLEAN, ends : BOOLEAN]

\* Where things are in the buffer: the packet being built has room, overflow data and frame
\* are behind it, and all lie within the buffer.
Layout ==
    /\ packetStart \in Nat /\ curOffset \in Nat
    /\ overflowOffset \in Nat /\ overflowSize \in Nat /\ frameSize \in Nat
    /\ phase = "idle" => curOffset = 0
    /\ phase # "idle" => Header <= curOffset /\ curOffset < Preferred
    /\ phase # "idle" /\ ~started => curOffset = Header
    /\ packetStart > 0 => 2 * (Limit - (packetStart + Header)) > Limit
    /\ phase \in {"reading", "got"} => overflowSize = 0
    /\ overflowSize > 0 => /\ Header <= overflowOffset
                           /\ packetStart + overflowOffset + overflowSize <= Limit
                           /\ ~started /\ curOffset <= Header
    /\ phase = "got" => packetStart + curOffset + frameSize <= Limit
    /\ phase # "got" => frameSize = 0

\* Every variable has its type and the positions in OutPacketBuffer
\* (src/live/liveMedia/MediaSink.cpp:132-225) stay within the buffer.
TypeInv ==
    /\ Flags /\ Layout
    /\ phase \in {"idle", "pack", "reading", "got"}
    /\ buf \in [Positions -> Int \cup {Junk}]
    /\ packet \in Packets /\ sent \in Packets /\ owed \in Int

\* No byte is lost, repeated, overwritten or sent out of order (src/live/liveMedia/
\* MultiFramedRTPSink.cpp:165-409, src/live/liveMedia/MediaSink.cpp:132-225): through
\* fragmentation, packing and the moves in the buffer, the packet holds the bytes that are to
\* be sent next, in order, and what waits behind it are the bytes that follow, all of them.
StreamIntact ==
    /\ owed = Payload + PendingSize
    /\ \A k \in 0 .. Payload - 1 : buf[packetStart + Header + k] = k
    /\ \A k \in 0 .. PendingSize - 1 : buf[PendingStart + k] = Payload + k

\* The marker bit is set on a packet if and only if a picture ends in it
\* (src/live/liveMedia/MPEG1or2VideoRTPSink.cpp:159-167), although the flag is set by the
\* framer when the picture is read (src/live/liveMedia/MPEG1or2VideoStreamDiscreteFramer.cpp:101),
\* which may be several packets earlier.
MarkerEndsPicture == sent.marker = sent.ends

\* Room for frames (src/live/liveMedia/MultiFramedRTPSink.cpp:215 and 375-387): although the
\* packet may start anywhere in the first half of the buffer, a frame is always read with half
\* of the buffer free, but for the packet before it; a frame that fits there is never truncated.
HalfBufferFree == phase = "reading" => 2 * (Available + Preferred) > Limit

\* Every packet that is begun is sent (src/live/liveMedia/MultiFramedRTPSink.cpp:300-344):
\* what was read does not stay in the buffer.
PacketIsSent == phase # "idle" ~> phase = "idle"
=============================================================================
