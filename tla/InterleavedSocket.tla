-------------------------- MODULE InterleavedSocket --------------------------
(***************************************************************************)
(* RTSP connections that also carry RTP and RTCP: the connection's own     *)
(* reader, the SocketDescriptor that takes the socket over at PLAY and     *)
(* tells frames ("$", channel, size, data) from requests, the two          *)
(* RTPInterfaces of the shared stream with the packet each is to read      *)
(* next, and the RTCP instance's buffer.                                   *)
(*                                                                         *)
(* A connection is its socket; each client has one session, set up on its  *)
(* own connection, and uses channel numbers 0 and 1, which are called      *)
(* "rtp" and "rtcp" here like the interfaces behind them.  A session       *)
(* outlives its connection, and its socket may be that of a new one.  A    *)
(* request is a byte, as RequestBuffer allows; a frame is one for the      *)
(* dollar sign, one for the channel, one for the size and one for each     *)
(* unit of data.                                                           *)
(***************************************************************************)
EXTENDS Integers, Sequences, FiniteSets

CONSTANTS
    Conns,       \* sockets
    NoConn,
    Frames,      \* what each client sends: pairs of a channel and a size
    BufferSize,  \* maxRTCPPacketSize
    MaxUnread,   \* bound: each client sends no more while so many of its bytes are not read
    MaxOld,      \* bound: the sessions of former connections with each socket
    SendMixed    \* bound: whether clients send any more after packets have been mixed

Interfaces == {"rtp", "rtcp"}

ASSUME NoConnAssumption == NoConn \notin Conns
ASSUME FramesAssumption == Frames \in [Conns -> SUBSET (Interfaces \X (Nat \ {0}))]
ASSUME BoundsAssumption ==
    /\ BufferSize \in Nat /\ MaxUnread \in [Conns -> Nat \ {0}]
    /\ MaxOld \in [Conns -> Nat] /\ SendMixed \in BOOLEAN

VARIABLES
    outcome,  \* "running", or "freedConnection"
    \* --- the clients and the network
    link,     \* "away", "open", or "gone" when the client has closed its end
    plays,    \* the clients that have been answered to a PLAY, and not asked for anything since
    asked,    \* the clients with a request that is not answered yet
    in,       \* the bytes on their way to the server, or there and not read yet
    \* --- RTSPClientConnection and RTSPClientSession
    reader,   \* the socket's background handler: "none", "rtsp" or "desc"
    session,  \* of the connection, or of the last one: "none", "ready", "playing"
    old,      \* how many sessions of former connections have the socket as destination
    dirty,    \* connections whose request buffer has bytes of a frame
    \* --- SocketDescriptor
    desc,     \* fTCPReadingState, fStreamChannelId, fSubChannelHashTable
    \* --- the RTPInterfaces and the RTCPInstance of the shared stream
    tcp,      \* fTCPStreams
    nextSize, \* fNextTCPReadSize
    nextSock, \* fNextTCPReadStreamSocketNum of the RTCP instance's; RTP has no handler to use it
    inBuf,    \* fInBuf, as far as it is filled, each byte with its socket
    \* --- history, which the code does not have
    handed,   \* the packet that the last step has given to processIncomingReport(), if any
    dropped,  \* connections that have lost their descriptor since PLAY, but not by a request
    mixed     \* once, what an interface is to read next has been taken from the client it was for

clientVars == <<link, plays, asked>>
rtspVars   == <<reader, session, old>>
streamVars == <<tcp, nextSize, nextSock, inBuf>>
vars == <<outcome, clientVars, in, rtspVars, dirty, desc, streamVars, handed, dropped, mixed>>

NoDescriptor == [state |-> "none", chan |-> "none", subs |-> {}]
NothingNext  == [i \in Interfaces |-> 0]

Init ==
    /\ outcome = "running"
    /\ link = [c \in Conns |-> "away"] /\ plays = {} /\ asked = {}
    /\ in = [c \in Conns |-> <<>>]
    /\ reader = [c \in Conns |-> "none"] /\ session = [c \in Conns |-> "none"]
    /\ old = [c \in Conns |-> 0] /\ dirty = {}
    /\ desc = [c \in Conns |-> NoDescriptor]
    /\ tcp = [i \in Interfaces |-> {}]
    /\ nextSize = NothingNext /\ nextSock = NoConn /\ inBuf = <<>> /\ handed = <<>>
    /\ dropped = {} /\ mixed = FALSE

-----------------------------------------------------------------------------
(* The clients.                                                            *)

FrameBytes(f) ==
    <<<<"dollar">>, <<"channel", f[1]>>, <<"size", f[2]>>>> \o [k \in 1..f[2] |-> <<"data", k, f[2]>>]

\* A client connects.  Its socket may have the number of a former one, whose session is still
\* there.
Connect(c) ==
    /\ link[c] = "away"
    /\ session[c] = "none" \/ old[c] < MaxOld[c]
    /\ link' = [link EXCEPT ![c] = "open"] /\ reader' = [reader EXCEPT ![c] = "rtsp"]
    /\ session' = [session EXCEPT ![c] = "none"]
    /\ old' = [old EXCEPT ![c] = IF session[c] = "none" THEN @ ELSE @ + 1]
    /\ UNCHANGED <<outcome, plays, asked, in, dirty, desc, streamVars, dropped, mixed>>

MaySend(c) == link[c] = "open" /\ Len(in[c]) < MaxUnread[c] /\ (mixed => SendMixed)

\* A client sends a request, one at a time.
Ask(c, r) ==
    /\ c \notin asked /\ MaySend(c)
    /\ asked' = asked \cup {c} /\ in' = [in EXCEPT ![c] = Append(@, <<"request", r>>)]
    /\ plays' = plays \ {c}
    /\ UNCHANGED <<outcome, link, rtspVars, dirty, desc, streamVars, dropped, mixed>>

\* A client that plays sends a frame.
SendFrame(c, f) ==
    /\ c \in plays /\ MaySend(c)
    /\ in' = [in EXCEPT ![c] = @ \o FrameBytes(f)]
    /\ UNCHANGED <<outcome, clientVars, rtspVars, dirty, desc, streamVars, dropped, mixed>>

\* A client closes its connection or is cut off, within a frame or not; not all that it has
\* sent arrives.
Leave(c) ==
    /\ link[c] = "open" /\ link' = [link EXCEPT ![c] = "gone"]
    /\ plays' = plays \ {c} /\ asked' = asked \ {c}
    /\ UNCHANGED <<outcome, in, rtspVars, dirty, desc, streamVars, dropped, mixed>>

-----------------------------------------------------------------------------
(* Parts of the handlers.                                                  *)

\* recv() does not block.
Readable(c) == in[c] # <<>> \/ link[c] = "gone"

Byte(c) == Head(in[c])
Take(c) == in' = [in EXCEPT ![c] = Tail(@)]


\* SocketDescriptor::~SocketDescriptor() without a read error: the connection reads its
\* socket again (0xFE).
DeleteDescriptor(c) ==
    /\ desc' = [desc EXCEPT ![c] = NoDescriptor]
    /\ reader' = [reader EXCEPT ![c] = "rtsp"]

\* deregisterRTPInterface() of the interfaces in is: the last one deletes the descriptor.
Deregister(c, is) ==
    IF desc[c].state # "none" /\ desc[c].subs \subseteq is
      THEN DeleteDescriptor(c)
      ELSE desc' = [desc EXCEPT ![c].subs = @ \ is] /\ UNCHANGED reader

\* c is not the socket of a session besides one of its connection's, or of its former ones.
LastSession(c)    == (\A d \in Conns : old[d] = 0) /\ \A d \in Conns \ {c} : session[d] = "none"
LastOldSession(c) == (\A d \in Conns : session[d] = "none" /\ old[d] = IF d = c THEN 1 ELSE 0)

\* endPlaying() of a session with the socket of c, and the end of the stream with its last one.
LeaveStream(c, last) ==
    /\ tcp' = [i \in Interfaces |-> tcp[i] \ {c}]
    /\ Deregister(c, {i \in Interfaces : c \in tcp[i]})
    /\ mixed' = (mixed \/ (~last /\ nextSock = c))
    /\ IF last
         THEN nextSize' = NothingNext /\ nextSock' = NoConn /\ inBuf' = <<>>
         ELSE UNCHANGED <<nextSize, nextSock, inBuf>>

\* startPlaying(): the socket is added to both interfaces, and its descriptor reads it.
StartPlaying(c) ==
    /\ session' = [session EXCEPT ![c] = "playing"]
    /\ tcp' = [i \in Interfaces |-> tcp[i] \cup {c}]
    /\ desc' = [desc EXCEPT ![c] = [state |-> IF @.state = "none" THEN "dollar" ELSE @.state,
                                    chan |-> @.chan, subs |-> Interfaces]]
    /\ reader' = [reader EXCEPT ![c] = "desc"]
    /\ UNCHANGED <<nextSize, nextSock, inBuf, mixed>>

EndSession(c, s) ==
    /\ session' = [session EXCEPT ![c] = s]
    /\ LeaveStream(c, LastSession(c))

\* Request r is handled and answered.  One that is behind bytes of a frame is refused, and so
\* is a PLAY or TEARDOWN without a session.  With the answer client and server agree again.
HandleRequest(c, r) ==
    /\ asked' = asked \ {c} /\ dirty' = dirty \ {c}
    /\ IF c \in dirty \/ (r # "setup" /\ session[c] = "none")
         THEN UNCHANGED <<plays, reader, session, desc, streamVars, dropped, mixed>>
         ELSE /\ dropped' = dropped \ {c}
              /\ plays' = IF r = "play" THEN plays \cup {c} ELSE plays \ {c}
              /\ CASE r = "setup"    -> EndSession(c, "ready")
                   [] r = "play"     -> StartPlaying(c)
                   [] r = "teardown" -> EndSession(c, "none")
    /\ UNCHANGED <<outcome, link, old>>

\* A byte that is not of a frame, or is not known to be, goes to the request buffer.
RequestByte(c) ==
    IF Byte(c)[1] = "request"
      THEN HandleRequest(c, Byte(c)[2])
      ELSE /\ dirty' = dirty \cup {c}
           /\ UNCHANGED <<outcome, clientVars, rtspVars, desc, streamVars, dropped, mixed>>

\* Reading fails, the descriptor says so (0xFF), or the request buffer is full: the connection
\* is deleted.
CloseConnection(c) ==
    /\ link' = [link EXCEPT ![c] = "away"] /\ reader' = [reader EXCEPT ![c] = "none"]
    /\ plays' = plays \ {c} /\ asked' = asked \ {c}
    /\ in' = [in EXCEPT ![c] = <<>>]
    /\ dirty' = dirty \ {c} /\ dropped' = dropped \ {c}

-----------------------------------------------------------------------------
(* The connection's own reader.                                            *)

\* incomingRequestHandler().
RtspRead(c) ==
    /\ reader[c] = "rtsp" /\ in[c] # <<>>
    /\ Take(c) /\ RequestByte(c)

\* The socket fails; or what has been read fills the buffer, a request that is too long or
\* what is taken for one.
RtspReadError(c) ==
    /\ reader[c] = "rtsp" /\ (in[c] # <<>> \/ link[c] = "gone")
    /\ CloseConnection(c)
    /\ UNCHANGED <<outcome, session, old, desc, streamVars, mixed>>

-----------------------------------------------------------------------------
(* SocketDescriptor::tcpReadHandler(), a call of tcpReadHandler1() a step. *)

\* The handler is called by the event loop, or its loop goes on.
Reads(c) == reader[c] = "desc" /\ Readable(c)

\* One of the states in which tcpReadHandler1() begins by reading a byte, and there is one.
ReadsByte(c, state) == reader[c] = "desc" /\ desc[c].state = state /\ in[c] # <<>> /\ Take(c)

\* A byte of c is to be read, and recv() fails.
ReadsError(c) ==
    /\ reader[c] = "desc" /\ link[c] = "gone"
    /\ \/ desc[c].state \in {"dollar", "channel", "size"}
       \/ desc[c].state = "data" /\ desc[c].chan = "rtp" /\ nextSize["rtp"] > 0

\* Mutant: the connection is deleted, but not the descriptor.
ReadErrorDangling(c) ==
    /\ ReadsError(c)
    /\ CloseConnection(c)
    /\ UNCHANGED <<outcome, session, old, desc, streamVars, mixed>>

\* Mutant: the interfaces keep the socket.
ReadErrorStillListed(c) ==
    /\ ReadsError(c)
    /\ desc' = [desc EXCEPT ![c] = NoDescriptor]
    /\ CloseConnection(c)
    /\ UNCHANGED <<outcome, session, old, streamVars, mixed>>

\* Reading the socket fails: the descriptor is deleted, and with it the connection.
ReadError(c) ==
    /\ ReadsError(c)
    /\ tcp' = [i \in Interfaces |-> IF i \in desc[c].subs THEN tcp[i] \ {c} ELSE tcp[i]]
    /\ desc' = [desc EXCEPT ![c] = NoDescriptor]
    /\ CloseConnection(c)
    /\ UNCHANGED <<outcome, session, old, nextSize, nextSock, inBuf, mixed>>

\* AWAITING_DOLLAR: a frame begins, or the byte is the connection's.
AwaitDollar(c) ==
    /\ ReadsByte(c, "dollar")
    /\ IF Byte(c) = <<"dollar">>
         THEN /\ desc' = [desc EXCEPT ![c].state = "channel"]
              /\ UNCHANGED <<outcome, clientVars, rtspVars, dirty, streamVars, dropped, mixed>>
         ELSE RequestByte(c)

\* The byte fills the request buffer: the connection is deleted under its descriptor, which
\* at the next call fails to read the closed socket, and calls the connection (0xFF).  From
\* there on nothing is known of the process.
AwaitDollarFull(c) ==
    /\ reader[c] = "desc" /\ desc[c].state = "dollar" /\ in[c] # <<>> /\ Byte(c) # <<"dollar">>
    /\ outcome' = "freedConnection"
    /\ UNCHANGED <<clientVars, in, rtspVars, dirty, desc, streamVars, dropped, mixed>>

\* AWAITING_STREAM_CHANNEL_ID: an unknown channel ends the frame.
AwaitChannel(c) ==
    /\ ReadsByte(c, "channel")
    /\ IF Byte(c)[1] = "channel" /\ Byte(c)[2] \in desc[c].subs
         THEN desc' = [desc EXCEPT ![c].state = "size", ![c].chan = Byte(c)[2]]
         ELSE desc' = [desc EXCEPT ![c].state = "dollar"]
    /\ UNCHANGED <<outcome, clientVars, rtspVars, dirty, streamVars, dropped, mixed>>

\* The size that a byte stands for; where it is none, some size.
SizeIn(byte) == IF byte[1] = "size" THEN byte[2] ELSE 1

\* Channel i of c gets a header while a packet of another client is being read there.
Interrupts(c, i) ==
    IF i = "rtcp" THEN nextSock # NoConn
                  ELSE \E d \in Conns \ {c} : desc[d].state = "data" /\ desc[d].chan = i

\* AWAITING_SIZE1 and 2: the interface is told what to read next, and from which socket.
AwaitSize(c) ==
    /\ ReadsByte(c, "size")
    /\ nextSize' = [nextSize EXCEPT ![desc[c].chan] = SizeIn(Byte(c))]
    /\ nextSock' = IF desc[c].chan = "rtcp" THEN c ELSE nextSock
    /\ mixed' = (mixed \/ Interrupts(c, desc[c].chan))
    /\ desc' = [desc EXCEPT ![c] = [state |-> "data", chan |-> @.chan, subs |-> @.subs]]
    /\ UNCHANGED <<outcome, clientVars, rtspVars, dirty, tcp, inBuf, dropped>>

\* AWAITING_PACKET_DATA, and the interface has read the packet.  (fStreamChannelId means
\* nothing until the next frame.)
PacketDone(c) ==
    /\ Reads(c) /\ desc[c].state = "data" /\ nextSize[desc[c].chan] = 0
    /\ desc' = [desc EXCEPT ![c] = [state |-> "dollar", chan |-> "none", subs |-> @.subs]]
    /\ UNCHANGED <<outcome, clientVars, in, rtspVars, dirty, tcp, nextSize, nextSock, inBuf, dropped, mixed>>

\* AWAITING_PACKET_DATA: there is no handler for RTP, and its data is skipped a byte at a time.
SkipData(c) ==
    /\ desc[c].chan = "rtp" /\ nextSize["rtp"] > 0 /\ ReadsByte(c, "data")
    /\ nextSize' = [nextSize EXCEPT !["rtp"] = @ - 1]
    /\ UNCHANGED <<outcome, clientVars, rtspVars, dirty, desc, tcp, nextSock, inBuf, dropped, mixed>>

-----------------------------------------------------------------------------
(* RTCPInstance::incomingReportHandler1() and RTPInterface::handleRead().  *)

\* The socket that is read: that of the last frame header on this channel, whoever calls.
Source == nextSock

Least(a, b) == IF a < b THEN a ELSE b

\* What is asked for, and what there is to be had.
Wanted    == Least(nextSize["rtcp"], BufferSize - Len(inBuf))
Available == IF Source = NoConn THEN 0 ELSE Least(Wanted, Len(in[Source]))

\* n bytes are read, as many as have arrived.
MayGet(n) == n \in 0..Available

\* fInBuf with what has been read.
Filled(n) == inBuf \o [k \in 1..n |-> <<Source, in[Source][k]>>]

Remaining(n) == nextSize["rtcp"] - n

\* What handleRead() returned: the packet read in full, a part of it, or an error; without a
\* socket to read it reads the datagram socket, which has nothing.  A full buffer takes no more.
Outcome(n) ==
    CASE Len(inBuf) >= BufferSize -> "part"
      [] Source = NoConn \/ Remaining(n) = 0 -> "packet"
      [] n < Wanted /\ link[Source] # "open" -> "error"
      [] OTHER -> "part"

\* What is left of what the client has sent: after an error nothing more arrives.
Left(n) == IF Outcome(n) = "error" THEN <<>> ELSE SubSeq(in[Source], n + 1, Len(in[Source]))

\* Mutant: a packet that is read in part is handed on.
IncomingReportInPart(n) ==
    /\ MayGet(n)
    /\ in' = IF Source = NoConn THEN in ELSE [in EXCEPT ![Source] = Left(n)]
    /\ nextSize' = [nextSize EXCEPT !["rtcp"] = Remaining(n)]
    /\ nextSock' = IF Outcome(n) = "part" THEN nextSock ELSE NoConn
    /\ inBuf' = <<>>
    /\ handed' = IF Outcome(n) = "error" THEN <<>> ELSE Filled(n)
    /\ UNCHANGED <<outcome, clientVars, rtspVars, dirty, tcp, dropped, mixed>>

\* incomingReportHandler1() reads the packet, or as much of it as there is.
IncomingReport(n) ==
    /\ MayGet(n)
    /\ in' = IF Source = NoConn THEN in ELSE [in EXCEPT ![Source] = Left(n)]
    /\ nextSize' = [nextSize EXCEPT !["rtcp"] = Remaining(n)]
    /\ nextSock' = IF Outcome(n) = "part" THEN nextSock ELSE NoConn
    /\ inBuf' = IF Outcome(n) = "part" THEN Filled(n) ELSE <<>>
    /\ handed' = IF Outcome(n) = "packet" THEN Filled(n) ELSE <<>>
    /\ UNCHANGED <<outcome, clientVars, rtspVars, dirty, tcp, dropped, mixed>>

\* Mutant: the next byte begins a frame although the packet is not read in full.
ReadReportOnce(c, n) ==
    /\ Reads(c) /\ desc[c].state = "data" /\ desc[c].chan = "rtcp" /\ nextSize["rtcp"] > 0
    /\ IncomingReport(n)
    /\ desc' = [desc EXCEPT ![c].state = "dollar", ![c].chan = "none"]

\* AWAITING_PACKET_DATA: the handler for RTCP is called.
ReadReport(c, n) ==
    /\ Reads(c) /\ desc[c].state = "data" /\ desc[c].chan = "rtcp" /\ nextSize["rtcp"] > 0
    /\ IncomingReport(n) /\ UNCHANGED desc

\* The event loop calls the same handler for the datagram socket, to which clients over UDP
\* send: while a report is coming in over TCP, it reads that and leaves the datagram.
DatagramWaits(n) == nextSock # NoConn /\ IncomingReport(n) /\ UNCHANGED desc

-----------------------------------------------------------------------------
(* Sending and time-outs, which may come at any time between two handlers. *)

\* Mutant: the record's fNext is not reset, so deleting it deletes those behind it.
SendFailsWithRest(c, i) ==
    /\ c \in tcp[i]
    /\ tcp' = [j \in Interfaces |-> IF j = i THEN {} ELSE tcp[j] \ {c}]
    /\ DeleteDescriptor(c) /\ dropped' = dropped \cup {c} /\ mixed' = (mixed \/ nextSock = c)
    /\ UNCHANGED <<outcome, clientVars, in, session, old, dirty, nextSize, nextSock, inBuf>>

\* A packet of interface i cannot be sent to c, whose client has gone or is slow: its header
\* does not fit (EAGAIN), or the rest is not taken in time.  Then removeStreamSocket() of all
\* channels, which deletes the descriptor; the session is not told.
SendFails(c, i) ==
    /\ c \in tcp[i]
    /\ tcp' = [j \in Interfaces |-> IF j \in desc[c].subs \cup {i} THEN tcp[j] \ {c} ELSE tcp[j]]
    /\ DeleteDescriptor(c) /\ dropped' = dropped \cup {c} /\ mixed' = (mixed \/ nextSock = c)
    /\ UNCHANGED <<outcome, clientVars, in, session, old, dirty, nextSize, nextSock, inBuf>>

\* What is lost with a session that times out: the socket's place in the stream, if it has one.
Dropped(c) == dropped' = IF desc[c].state = "none" THEN dropped ELSE dropped \cup {c}

\* livenessTimeoutTask(): the session of a client that is silent, or has gone.
TimeOut(c) ==
    /\ session[c] # "none" /\ EndSession(c, "none") /\ Dropped(c)
    /\ UNCHANGED <<outcome, clientVars, in, old, dirty>>

\* livenessTimeoutTask(): the session of a former connection with the same socket.
TimeOutOld(c) ==
    /\ old[c] > 0 /\ old' = [old EXCEPT ![c] = @ - 1]
    /\ LeaveStream(c, LastOldSession(c)) /\ Dropped(c)
    /\ UNCHANGED <<outcome, clientVars, in, session, dirty>>

\* The numbers of bytes that a call of recv() may return.
Reported == 0..BufferSize

\* What the event loop does when c can be read, from c's own socket.
Handle(c) ==
    \/ /\ \/ RtspRead(c) \/ RtspReadError(c)
          \/ ReadError(c) \/ AwaitDollar(c) \/ AwaitDollarFull(c) \/ AwaitChannel(c)
          \/ AwaitSize(c) \/ PacketDone(c) \/ SkipData(c)
       /\ handed' = <<>>
    \/ nextSock = c /\ \E n \in Reported : ReadReport(c, n)

\* What clients and the clock do.
Meanwhile(c) ==
    /\ \/ Connect(c) \/ Leave(c)
       \/ \E r \in {"setup", "play", "teardown"} : Ask(c, r)
       \/ \E f \in Frames[c] : SendFrame(c, f)
       \/ \E i \in Interfaces : SendFails(c, i)
       \/ TimeOut(c) \/ TimeOutOld(c)
    /\ handed' = <<>>

Next ==
    /\ outcome = "running"
    /\ \/ \E c \in Conns : Handle(c) \/ Meanwhile(c) \/ \E n \in Reported : ReadReport(c, n)
       \/ \E n \in Reported : DatagramWaits(n)

Spec == Init /\ [][Next]_vars

\* The event loop takes the sockets that can be read in turn, so each has its turn between
\* the end of one frame of another and the beginning of the next; what a client has sent
\* arrives; the session of a client that has gone is silent until it times out.
Fairness ==
    \A c \in Conns : /\ SF_vars(outcome = "running" /\ Handle(c))
                     /\ WF_vars(outcome = "running" /\ link[c] = "gone" /\ TimeOut(c) /\ handed' = <<>>)

FairSpec == Spec /\ Fairness

-----------------------------------------------------------------------------
(* Properties.                                                             *)

\* Frames and requests are told apart (src/live/liveMedia/RTPInterface.cpp:508-592): nothing
\* of a frame is taken for a request, whoever reads the socket, in whatever pieces, and
\* although PLAY and TEARDOWN change the reader in mid-stream; unless the socket has lost its
\* descriptor without its client knowing, or an interface its place in a packet.
FramingKept == \A c \in Conns : c \in dirty => c \in dropped \/ mixed

\* What has been handed on is one packet of one client, all of it.
PacketsWhole ==
    handed # <<>> => \E c \in Conns, n \in 1..BufferSize :
        handed = [k \in 1..n |-> <<c, <<"data", k, n>>>>]

\* "We've read all of the data that we asked for" (src/live/liveMedia/RTPInterface.cpp:277) and
\* "We've read the entire packet" (src/live/liveMedia/RTCP.cpp:399): what the RTCP instance
\* that all clients share is given is one packet of one client, in whatever pieces it comes,
\* at least while no client has lost its descriptor.  (The code does not keep this.)
WholeUnlessDropped == dropped = {} => PacketsWhole

\* What holds of this in the code (src/live/liveMedia/RTPInterface.cpp:548-552, 276-295): only
\* a header that comes in the middle of another client's packet, or a descriptor that is
\* deleted in the middle of its own, joins packets; clients that vanish, lose their place
\* in the stream or time out at any other time do not.
WholeUnlessMixed == ~mixed => PacketsWhole

\* A socket has the one background handler it should have (src/live/liveMedia/
\* RTPInterface.cpp:398-470 and src/live/liveMedia/RTSPServer.cpp:807-815): that of its
\* descriptor where there is one, else its connection's; and no descriptor outlives its
\* connection, which it would call back, until one is deleted by a request that its own
\* descriptor hands it and that fills its buffer (outcome).
SomeoneReads ==
    outcome = "running" =>
        \A c \in Conns :
            /\ reader[c] = "none" <=> link[c] = "away"
            /\ reader[c] = "desc" <=> desc[c].state # "none"

\* The interfaces' lists and the descriptors' tables agree (src/live/liveMedia/RTPInterface.cpp:
\* 146-198 and 398-470): nothing is sent to a socket that has been closed, and what arrives
\* on a channel has its interface, through failed sends and time-outs of sessions whose
\* socket has another connection by then.
RecordsMatch ==
    \A c \in Conns : /\ desc[c].subs = {i \in Interfaces : c \in tcp[i]}
                     /\ desc[c].subs # {} => link[c] # "away"

\* A client that plays is sent RTP and RTCP (src/live/liveMedia/
\* OnDemandServerMediaSubsession.cpp:495-509), whatever happens to others: it loses its place
\* on the lists only when it cannot be sent to itself, or when a session times out whose
\* destination is its socket.
PlayersAreSent ==
    \A c \in Conns : c \in plays => c \in dropped \/ \A i \in Interfaces : c \in tcp[i]

\* The packet that is read next is that of a client that has gone.
Orphaned == nextSize["rtcp"] > 0 /\ nextSock = NoConn

\* Something is to be done for c: a request to be answered, or a connection to be deleted.
Waits(c) == c \in asked \/ link[c] = "gone"

=============================================================================
