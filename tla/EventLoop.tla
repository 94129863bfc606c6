------------------------------ MODULE EventLoop ------------------------------
(***************************************************************************)
(* The sockets of the event loop: SingleStep(), which handles one socket   *)
(* per pass and goes on behind the one it handled last, the list of        *)
(* handlers it goes through, and what this program's handlers do to that   *)
(* list while it does: connections come and go, SETUP opens the sockets of *)
(* the stream and the last TEARDOWN closes them, PLAY sets handlers up, and*)
(* a connection takes its socket back from RTP over TCP.                   *)
(*                                                                         *)
(* What the handlers read and answer is in RequestBuffer and               *)
(* InterleavedSocket, who may set up and tear down what in                 *)
(* StreamLifecycle, and the alarms are in DelayQueue; here they happen in  *)
(* any order.  Event triggers, which change no handler, are in             *)
(* FrameHandoff.                                                           *)
(***************************************************************************)
EXTENDS Integers, Sequences, FiniteSets, SequencesExt

CONSTANT MaxFd    \* bound: file descriptors are numbered 1..MaxFd here

ASSUME BoundsAssumption == MaxFd \in Nat /\ MaxFd >= 4

Fds    == 1..MaxFd
NoFd   == 0
Server == 1        \* fRTSPServerSocket, opened first and never closed

VARIABLES
    open,    \* what each descriptor is: "free", "server", "conn", or "rtp", "rtcp" of the stream
    ready,   \* descriptors that have something to read
    list,    \* fHandlers
    max,     \* fMaxNumSockets
    last,    \* fLastHandledSocketNum
    phase,   \* of SingleStep(): "select", "handler" of the connection last, "tasks"
    tcp      \* connections that a SocketDescriptor reads

handlers == <<list, max>>
vars == <<open, ready, handlers, last, phase, tcp>>

Listed(s) == \E i \in DOMAIN list : list[i] = s
Kind(k)   == {s \in Fds : open[s] = k}

Init ==
    /\ open = [s \in Fds |-> IF s = Server THEN "server" ELSE "free"]
    /\ list = <<Server>> /\ max = Server + 1
    /\ ready = {} /\ last = NoFd /\ phase = "select" /\ tcp = {}

-----------------------------------------------------------------------------
(* setBackgroundHandling() and the HandlerSet.                             *)

\* assignHandler(): a new handler goes to the head of the list.
Assign(h, s) ==
    [list |-> IF \E i \in DOMAIN h.list : h.list[i] = s THEN h.list ELSE <<s>> \o h.list,
     max  |-> IF s + 1 > h.max THEN s + 1 ELSE h.max]

\* clearHandler().
Clear(h, s) ==
    [list |-> RemoveFirst(h.list, s), max |-> IF s + 1 = h.max THEN h.max - 1 ELSE h.max]

Handlers == [list |-> list, max |-> max]
Become(h) == list' = h.list /\ max' = h.max

-----------------------------------------------------------------------------
(* SingleStep().                                                           *)

\* The first of sequence q that select() has found ready.
FirstReady(q) ==
    LET found == {i \in DOMAIN q : q[i] \in ready}
    IN IF found = {} THEN NoFd ELSE q[CHOOSE i \in found : \A j \in found : i <= j]

Behind(s) == LET at == CHOOSE i \in DOMAIN list : list[i] = s IN SubSeq(list, at + 1, Len(list))

\* Mutant: the search always begins at the head of the list.
NextSocketFromHead == FirstReady(list)

\* The socket to handle: behind the one handled last, if that still has a handler, else, or
\* when there is none, from the beginning.
NextSocket ==
    IF Listed(last) /\ FirstReady(Behind(last)) # NoFd THEN FirstReady(Behind(last))
    ELSE FirstReady(list)

\* Nothing is ready until the next alarm.
NoSocket ==
    /\ phase = "select" /\ NextSocket = NoFd
    /\ last' = NoFd /\ phase' = "tasks"
    /\ UNCHANGED <<open, ready, handlers, tcp>>

Serve(s) ==
    /\ phase = "select" /\ s = NextSocket
    /\ last' = s /\ ready' = ready \ {s}

Lowest(s, fds) == s \in fds /\ \A t \in fds : s <= t

\* incomingConnectionHandler(): accept() gives the lowest free descriptor.
Accept ==
    /\ Serve(Server) /\ phase' = "tasks"
    /\ \E s \in Fds :
         /\ Lowest(s, Kind("free"))
         /\ open' = [open EXCEPT ![s] = "conn"]
         /\ Become(Assign(Handlers, s))
    /\ UNCHANGED tcp

\* incomingReportHandler() of the stream's RTCP socket.
ReadReport ==
    /\ \E s \in Kind("rtcp") : Serve(s)
    /\ phase' = "tasks"
    /\ UNCHANGED <<open, handlers, tcp>>

\* The handler of a connection is called; it may do several of the steps below.
Request ==
    /\ \E s \in Kind("conn") : Serve(s)
    /\ phase' = "handler"
    /\ UNCHANGED <<open, handlers, tcp>>

Return ==
    /\ phase = "handler" /\ phase' = "tasks"
    /\ UNCHANGED <<open, ready, handlers, last, tcp>>

\* The pass ends.
EndPass ==
    /\ phase = "tasks" /\ phase' = "select"
    /\ UNCHANGED <<open, ready, handlers, last, tcp>>

-----------------------------------------------------------------------------
(* What handlers and alarms do to the sockets.                             *)

\* getStreamParameters() with no stream: two groupsocks.
Setup ==
    /\ phase = "handler" /\ Kind("rtp") = {}
    /\ \E rtp, rtcp \in Fds :
         /\ Lowest(rtp, Kind("free")) /\ Lowest(rtcp, Kind("free") \ {rtp})
         /\ open' = [open EXCEPT ![rtp] = "rtp", ![rtcp] = "rtcp"]
    /\ UNCHANGED <<ready, handlers, last, phase, tcp>>

\* startPlaying(): the first creates the RTCP instance, which reads its socket.
Play ==
    /\ phase = "handler"
    /\ \E s \in Kind("rtcp") : Become(Assign(Handlers, s))
    /\ UNCHANGED <<open, ready, last, phase, tcp>>

\* startPlaying() over TCP: a SocketDescriptor takes the connection's place, and
\* addStreamSocket() turns the reading of RTCP's own socket off and on again.
PlayOverTCP ==
    /\ phase = "handler"
    /\ \E s \in Kind("rtcp") : Become(Assign(Clear(Handlers, s), s))
    /\ tcp' = tcp \cup {last}
    /\ UNCHANGED <<open, ready, last, phase>>

\* ~SocketDescriptor(): by TEARDOWN, SETUP, a time-out, or a packet that cannot be sent.
HandBack(s) ==
    /\ phase \in {"handler", "tasks"} /\ s \in tcp
    /\ Become(Assign(Clear(Handlers, s), s))
    /\ tcp' = tcp \ {s}
    /\ UNCHANGED <<open, ready, last, phase>>

\* reclaim(), when the last session leaves the stream by request or time-out: the RTCP instance
\* and then the sink turn off the reading of their sockets, the RTP one's too, which has none.
Reclaim ==
    /\ phase \in {"handler", "tasks"} /\ tcp = {} /\ Kind("rtp") # {}
    /\ \E rtp \in Kind("rtp"), rtcp \in Kind("rtcp") :
         Become(Clear(Clear(Handlers, rtcp), rtp))
    /\ open' = [s \in Fds |-> IF open[s] \in {"rtp", "rtcp"} THEN "free" ELSE open[s]]
    /\ ready' = ready \ Kind("rtcp")
    /\ UNCHANGED <<last, phase, tcp>>

\* Mutant: the SocketDescriptor outlives its connection.
CloseDangling ==
    /\ phase = "handler" /\ phase' = "tasks"
    /\ Become(Clear(Handlers, last))
    /\ open' = [open EXCEPT ![last] = "free"] /\ ready' = ready \ {last}
    /\ UNCHANGED <<last, tcp>>

\* The connection is deleted, its SocketDescriptor first.
Close ==
    /\ phase = "handler" /\ phase' = "tasks"
    /\ Become(Clear(IF last \in tcp THEN Clear(Handlers, last) ELSE Handlers, last))
    /\ open' = [open EXCEPT ![last] = "free"] /\ ready' = ready \ {last}
    /\ tcp' = tcp \ {last}
    /\ UNCHANGED last

-----------------------------------------------------------------------------
(* The clients.                                                            *)

\* There is something to read.  MaxFd also bounds how many clients connect: two descriptors
\* are left for the stream.
Arrive(s) ==
    /\ open[s] \in {"server", "conn", "rtcp"} /\ s \notin ready
    /\ s = Server => Cardinality(Kind("conn")) < MaxFd - 3
    /\ ready' = ready \cup {s}
    /\ UNCHANGED <<open, handlers, last, phase, tcp>>

Next ==
    \/ NoSocket \/ Accept \/ ReadReport \/ Request \/ Return \/ EndPass
    \/ Setup \/ Play \/ PlayOverTCP \/ Reclaim \/ Close
    \/ \E s \in Fds : HandBack(s) \/ Arrive(s)

Spec == Init /\ [][Next]_vars

\* The loop goes on, and handlers return.
Fairness ==
    /\ WF_vars(NoSocket \/ Accept \/ ReadReport \/ Request)
    /\ WF_vars(Return) /\ WF_vars(EndPass)

FairSpec == Spec /\ Fairness

-----------------------------------------------------------------------------
(* Properties.                                                             *)

\* What select() is given is what it should be (src/live/BasicUsageEnvironment/
\* BasicTaskScheduler.cpp:90-126 and 215-238), although handlers are moved and removed, the
\* number of sockets goes up and down, and descriptors are closed and used again at once: no
\* closed socket, which would be fatal to the server, every connection and the server's own.
SelectsOpenSockets ==
    /\ \A i \in DOMAIN list : open[list[i]] \in {"server", "conn", "rtcp"} /\ list[i] < max
    /\ \A s \in Kind("server") \cup Kind("conn") : Listed(s)

\* "To ensure forward progress through the handlers" (src/live/BasicUsageEnvironment/
\* BasicTaskScheduler.cpp:132): a socket that waits to be read is handled in the end, although
\* handlers are added ahead of it and the one handled last may be gone, so that the search
\* begins anew; unless clients go over to TCP and back for ever, which moves handlers from
\* behind the place the search has come to to the head of the list, and from there behind it.
Waiting(s) == s \in ready /\ Listed(s)
WaitingHandled == <>[][~PlayOverTCP]_vars => \A s \in Fds : Waiting(s) ~> ~Waiting(s)
=============================================================================
