--------------------------- MODULE StreamLifecycle ---------------------------
(***************************************************************************)
(* RTSP sessions and the stream they share: RTSPServer::RTSPClientSession  *)
(* (SETUP, PLAY, TEARDOWN, liveness time-outs), the on-demand subsession   *)
(* with "reuseFirstSource" set, as startServer() sets it, its StreamState  *)
(* objects with their reference counts and destinations, and the table of  *)
(* the RTCP instance that maps a receiver report to a session.             *)
(*                                                                         *)
(* All of it runs in the event-loop thread, one handler at a time.  SETUP  *)
(* takes two steps, deleteStream() and getStreamParameters(), between      *)
(* which nothing else runs.  Streams are addresses: a new StreamState may  *)
(* get the address of a deleted one.  The server has one subsession.       *)
(***************************************************************************)
EXTENDS Naturals, FiniteSets

CONSTANTS
    Sessions,   \* session ids; an id may be drawn again when its session is gone
    Dests,      \* where clients receive RTP and RTCP: an address and a pair of ports
    Streams,    \* addresses of StreamState objects
    NoSession, NoDest, NoStream,
    Timeout,    \* fReclamationTestSeconds, in ticks of the model's clock
    PortReuse   \* whether a client that restarts may receive where its former self did

ASSUME NullAssumption ==
    /\ NoSession \notin Sessions /\ NoDest \notin Dests /\ NoStream \notin Streams
ASSUME TimeoutAssumption == Timeout \in Nat \ {0}
ASSUME ReuseAssumption == PortReuse \in BOOLEAN
ASSUME FiniteAssumption == IsFiniteSet(Sessions)

VARIABLES
    \* --- RTSPServer
    open,       \* fClientSessions
    attached,   \* those with fOurServerMediaSession and fStreamStates
    token,      \* fStreamStates[0].streamToken
    timer,      \* ticks until fLivenessCheckTask is due
    handling,   \* the session whose SETUP has getStreamParameters() still to do
    \* --- OnDemandServerMediaSubsession
    dest,       \* fDestinationsHashTable
    last,       \* fLastStreamToken
    \* --- its StreamState objects
    live,       \* those not deleted
    refs,       \* fReferenceCount
    playing,    \* fAreCurrentlyPlaying; such a stream has its RTCP instance
    sentTo,     \* destinations of fRTPgs and fRTCPgs
    reporter,   \* fSpecificRRHandlerTable: the session a report from there goes to
    \* --- the clients, and how long each has been silent
    abandoned,  \* sessions whose client has gone without TEARDOWN
    played,     \* sessions answered to a PLAY since their last SETUP
    quiet       \* ticks since the client sent a command or a report

rtspVars   == <<open, attached, timer>>
streamVars == <<last, live, refs, playing, sentTo, reporter>>
clientVars == <<abandoned, played, quiet>>
vars == <<rtspVars, token, handling, dest, streamVars, clientVars>>

Init ==
    /\ open = {} /\ attached = {} /\ handling = NoSession
    /\ token = [s \in Sessions |-> NoStream] /\ dest = [s \in Sessions |-> NoDest]
    /\ timer = [s \in Sessions |-> 0] /\ quiet = [s \in Sessions |-> 0]
    /\ last = NoStream /\ live = {} /\ playing = {}
    /\ refs = [i \in Streams |-> 0] /\ sentTo = [i \in Streams |-> {}]
    /\ reporter = [i \in Streams |-> [d \in Dests |-> NoSession]]
    /\ abandoned = {} /\ played = {}

-----------------------------------------------------------------------------
(* Parts of the handlers.                                                  *)

\* A request that names session s: noteLiveness().
Hears(s) ==
    /\ timer' = [timer EXCEPT ![s] = Timeout]
    /\ quiet' = [quiet EXCEPT ![s] = 0]

\* A request handler starts: no other is running.
Request(s) == handling = NoSession /\ s \in open \ abandoned /\ Hears(s)

\* Mutant: the count is not decremented.
LeftUndecremented(s) == refs[token[s]]

\* What a session's stream counts after the session has left it.
Left(s) == IF refs[token[s]] > 0 THEN refs[token[s]] - 1 ELSE 0

\* Mutant: endPlaying() leaves the report handler of the session in the table.
EndPlayingStillReporting(i, d) ==
    /\ sentTo' = [sentTo EXCEPT ![i] = @ \ {d}]
    /\ UNCHANGED <<reporter, live, playing, last>>

\* Mutant: endPlaying() leaves the destination in the groupsocks.
EndPlayingStillSending(i, d) ==
    /\ reporter' = [reporter EXCEPT ![i][d] = NoSession]
    /\ UNCHANGED <<sentTo, live, playing, last>>

\* StreamState::endPlaying(): the destination and its report handler are taken away.
EndPlaying(i, d) ==
    /\ sentTo' = [sentTo EXCEPT ![i] = @ \ {d}]
    /\ reporter' = [reporter EXCEPT ![i][d] = NoSession]
    /\ UNCHANGED <<live, playing, last>>

\* Mutant: reclaim() leaves fLastStreamToken as it is.
ReclaimUnnoticed(i) ==
    /\ live' = live \ {i} /\ playing' = playing \ {i}
    /\ sentTo' = [sentTo EXCEPT ![i] = {}]
    /\ reporter' = [reporter EXCEPT ![i] = [d \in Dests |-> NoSession]]
    /\ UNCHANGED last

\* StreamState::~StreamState() and reclaim().
Reclaim(i) ==
    /\ live' = live \ {i} /\ playing' = playing \ {i}
    /\ last' = IF last = i THEN NoStream ELSE last
    /\ sentTo' = [sentTo EXCEPT ![i] = {}]
    /\ reporter' = [reporter EXCEPT ![i] = [d \in Dests |-> NoSession]]

\* OnDemandServerMediaSubsession::deleteStream(), but for the token: the last session to
\* leave deletes the StreamState.
DeleteStream(s) ==
    /\ dest' = [dest EXCEPT ![s] = NoDest]
    /\ IF token[s] = NoStream
         THEN UNCHANGED streamVars
         ELSE /\ refs' = [refs EXCEPT ![token[s]] = Left(s)]
              /\ IF Left(s) = 0 THEN Reclaim(token[s]) ELSE EndPlaying(token[s], dest[s])

\* Mutant: the destructor keeps the session attached.
CloseSessionAttached(s) ==
    /\ open' = open \ {s}
    /\ DeleteStream(s)
    /\ token' = [token EXCEPT ![s] = NoStream]
    /\ timer' = [timer EXCEPT ![s] = 0] /\ quiet' = [quiet EXCEPT ![s] = 0]
    /\ abandoned' = abandoned \ {s} /\ played' = played \ {s}
    /\ UNCHANGED attached

\* RTSPClientSession::~RTSPClientSession(): the session leaves its stream and is gone.
CloseSession(s) ==
    /\ open' = open \ {s} /\ attached' = attached \ {s}
    /\ DeleteStream(s)
    /\ token' = [token EXCEPT ![s] = NoStream]
    /\ timer' = [timer EXCEPT ![s] = 0] /\ quiet' = [quiet EXCEPT ![s] = 0]
    /\ abandoned' = abandoned \ {s} /\ played' = played \ {s}

-----------------------------------------------------------------------------
(* RTSP requests.                                                          *)

\* SETUP without a session id opens a session.  It attaches it unless the stream's name is
\* unknown, and goes on unless the track is.
SetupNew(s) ==
    /\ handling = NoSession /\ s \notin open
    /\ open' = open \cup {s} /\ Hears(s)
    /\ \/ UNCHANGED <<attached, handling>>
       \/ attached' = attached \cup {s} /\ handling' \in {NoSession, s}
    /\ UNCHANGED <<token, dest, streamVars, abandoned, played>>

\* SETUP of a session: an earlier one is undone first ("pauseStream" does nothing when
\* the source is shared); the token is left as it is unless the stream was deleted.
SetupAgain(s) ==
    /\ Request(s)
    /\ attached' = attached \cup {s} /\ handling' = s
    /\ DeleteStream(s)
    /\ token' = [token EXCEPT ![s] = IF @ # NoStream /\ Left(s) > 0 THEN @ ELSE NoStream]
    /\ played' = played \ {s}
    /\ UNCHANGED <<open, abandoned>>

\* A client has its ports to itself, but for one that has gone.
Available(s, d) == \A t \in open \ {s} : dest[t] = d => PortReuse /\ t \in abandoned

\* Mutant: sharing the stream does not count.
GetStreamParametersUncounted(s) ==
    IF last # NoStream
      THEN token' = [token EXCEPT ![s] = last] /\ UNCHANGED <<refs, last, live>>
      ELSE \E i \in Streams \ live :
           /\ token' = [token EXCEPT ![s] = i] /\ refs' = [refs EXCEPT ![i] = 1]
           /\ last' = i /\ live' = live \cup {i}

\* getStreamParameters(): share the stream there is, or create one.
GetStreamParameters(s) ==
    IF last # NoStream
      THEN /\ token' = [token EXCEPT ![s] = last] /\ refs' = [refs EXCEPT ![last] = @ + 1]
           /\ UNCHANGED <<last, live>>
      ELSE \E i \in Streams \ live :
           /\ token' = [token EXCEPT ![s] = i] /\ refs' = [refs EXCEPT ![i] = 1]
           /\ last' = i /\ live' = live \cup {i}

\* The rest of a SETUP: the destination is what the client asked for.
SetupRest(s, d) ==
    /\ handling = s /\ handling' = NoSession
    /\ Available(s, d) /\ dest' = [dest EXCEPT ![s] = d]
    /\ GetStreamParameters(s)
    /\ UNCHANGED <<rtspVars, playing, sentTo, reporter, clientVars>>

\* Mutant: a stream that plays already takes no further destination.
StartPlayingFirstOnly(i, d, s) ==
    /\ playing' = playing \cup {i}
    /\ IF i \in playing
         THEN UNCHANGED <<sentTo, reporter>>
         ELSE /\ sentTo' = [sentTo EXCEPT ![i] = @ \cup {d}]
              /\ reporter' = [reporter EXCEPT ![i][d] = s]

\* StreamState::startPlaying(): the destination and its report handler are noted, and the
\* sink started unless it runs already.
StartPlaying(i, d, s) ==
    /\ playing' = playing \cup {i}
    /\ sentTo' = [sentTo EXCEPT ![i] = @ \cup {d}]
    /\ reporter' = [reporter EXCEPT ![i][d] = s]

\* PLAY, or a SETUP that asks to play at once: startStream(), where there is a stream.
Play(s) ==
    /\ Request(s) /\ s \in attached
    /\ IF token[s] # NoStream
         THEN StartPlaying(token[s], dest[s], s) /\ played' = played \cup {s}
         ELSE UNCHANGED <<sentTo, reporter, playing, played>>
    /\ UNCHANGED <<open, attached, token, handling, dest, last, live, refs, abandoned>>

\* Any other request that names the session, a PAUSE among them ("pausing isn't allowed"),
\* and one that is refused.
KeepAlive(s) ==
    /\ Request(s)
    /\ attached' \in {attached, attached \cup {s}}
    /\ UNCHANGED <<open, token, handling, dest, streamVars, abandoned, played>>

Teardown(s) ==
    /\ handling = NoSession /\ s \in attached \ abandoned
    /\ CloseSession(s) /\ UNCHANGED handling

-----------------------------------------------------------------------------
(* Receiver reports, time and the clients.                                 *)

\* A report of a client that plays, from its destination: the session that the table
\* names is kept alive.
ReceiverReport(s) ==
    /\ handling = NoSession /\ s \in played \ abandoned
    /\ LET h == reporter[token[s]][dest[s]] IN
       timer' = IF h # NoSession THEN [timer EXCEPT ![h] = Timeout] ELSE timer
    /\ quiet' = [quiet EXCEPT ![s] = 0]
    /\ UNCHANGED <<open, attached, token, handling, dest, streamVars, abandoned, played>>

\* Mutant: a session that never set up a stream has no liveness task.
LivenessTimeoutAttached(s) ==
    /\ handling = NoSession /\ s \in attached /\ timer[s] = 0
    /\ CloseSession(s) /\ UNCHANGED handling

\* livenessTimeoutTask(), in the alarm phase of some pass after it is due.
LivenessTimeout(s) ==
    /\ handling = NoSession /\ s \in open /\ timer[s] = 0
    /\ CloseSession(s) /\ UNCHANGED handling

Tick ==
    /\ timer' = [s \in Sessions |-> IF timer[s] > 0 THEN timer[s] - 1 ELSE 0]
    /\ quiet' = [s \in Sessions |-> IF s \in open /\ quiet[s] < Timeout THEN quiet[s] + 1 ELSE quiet[s]]
    /\ UNCHANGED <<open, attached, token, handling, dest, streamVars, abandoned, played>>

\* The client crashes, or its messages no longer arrive.
Abandon(s) ==
    /\ handling = NoSession /\ s \in open \ abandoned
    /\ abandoned' = abandoned \cup {s}
    /\ UNCHANGED <<rtspVars, token, handling, dest, streamVars, played, quiet>>

Next ==
    \/ \E s \in Sessions :
         \/ SetupNew(s) \/ SetupAgain(s) \/ \E d \in Dests : SetupRest(s, d)
         \/ Play(s) \/ KeepAlive(s) \/ Teardown(s) \/ ReceiverReport(s)
         \/ LivenessTimeout(s) \/ Abandon(s)
    \/ Tick

Spec == Init /\ [][Next]_vars

\* Time passes, and a handler that has begun ends.  A due task is run in the end, although
\* requests keep coming: every pass of the event loop runs the one that has been due longest.
Fairness ==
    /\ WF_vars(Tick)
    /\ \A s \in Sessions : /\ SF_vars(LivenessTimeout(s))
                           /\ WF_vars(\E d \in Dests : SetupRest(s, d))

FairSpec == Spec /\ Fairness

-----------------------------------------------------------------------------
(* Properties.                                                             *)

\* The sessions that hold a stream: the one in the middle of a SETUP has given it up.
Holding(i) == {s \in open \ {handling} : token[s] = i}

\* Every variable (src/live/liveMedia/include/RTSPServer.hh:311-320 and
\* src/live/liveMedia/include/OnDemandServerMediaSubsession.hh) has its type.
TypeInv ==
    /\ open \subseteq Sessions /\ attached \subseteq open
    /\ abandoned \subseteq open /\ played \subseteq attached
    /\ handling \in attached \cup {NoSession}
    /\ token \in [Sessions -> Streams \cup {NoStream}]
    /\ dest \in [Sessions -> Dests \cup {NoDest}]
    /\ timer \in [Sessions -> 0..Timeout] /\ quiet \in [Sessions -> 0..Timeout]
    /\ last \in Streams \cup {NoStream} /\ live \subseteq Streams /\ playing \subseteq live
    /\ refs \in [Streams -> Nat]
    /\ sentTo \in [Streams -> SUBSET Dests]
    /\ reporter \in [Streams -> [Dests -> Sessions \cup {NoSession}]]

\* The shared stream is neither leaked nor freed under a session (src/live/liveMedia/
\* OnDemandServerMediaSubsession.cpp:102-107 and 333-341): through repeated SETUPs, TEARDOWNs
\* and time-outs, the reference count is the number of sessions holding the stream, there
\* is at most one stream and fLastStreamToken is it, and no session keeps a deleted one.
OneSharedStream ==
    /\ live = IF last = NoStream THEN {} ELSE {last}
    /\ \A i \in live : refs[i] = Cardinality(Holding(i)) /\ refs[i] > 0
    /\ \A s \in open \ {handling} : token[s] # NoStream => token[s] \in live

\* The RTCP instance never calls back a session that is gone, nor one that receives
\* elsewhere (src/live/liveMedia/OnDemandServerMediaSubsession.cpp:511 and 569 against
\* src/live/liveMedia/RTSPServer.cpp:1397-1416).
ReportersAreOpen ==
    \A i \in live, d \in Dests :
        LET h == reporter[i][d] IN h # NoSession => h \in Holding(i) /\ dest[h] = d

\* Nothing is sent to a place no session asked for (src/live/liveMedia/
\* OnDemandServerMediaSubsession.cpp:330 and 566-567): every destination of the stream is
\* that of a session that holds it and was answered to a PLAY.
NothingSentAstray ==
    \A i \in live : \A d \in sentTo[i] : \E s \in Holding(i) \cap played : dest[s] = d

\* A client that was answered to a PLAY gets the stream (src/live/liveMedia/
\* OnDemandServerMediaSubsession.cpp:509-514): until it leaves or sets up anew, the stream
\* plays and goes to its destination, whatever other clients do.  (One that has been refused a
\* stream is answered to a PLAY as well, and has nothing to be sent.)
PlayedAreSent ==
    \A s \in played :
        /\ token[s] \in playing
        /\ dest[s] \in sentTo[token[s]] /\ reporter[token[s]][dest[s]] = s

\* src/live/liveMedia/include/RTSPServer.hh:71-74: a session is reclaimed "if no RTSP
\* commands - or RTCP "RR" packets - from the client are received" for the whole period; so
\* while its client is heard of, the task that does it is not due.
ReclaimedOnlyWhenSilent ==
    \A s \in open : timer[s] = 0 => quiet[s] = Timeout

\* The same (src/live/liveMedia/RTSPServer.cpp:2143-2154), whatever client goes: the session
\* of a client that has gone is reclaimed in the end.
AbandonedReclaimed == \A s \in Sessions : s \in abandoned ~> s \notin open

\* A stream none of whose clients is left (src/live/liveMedia/OnDemandServerMediaSubsession.cpp:
\* 333-341) is deleted in the end, unless a new client comes.
UnusedStreamDeleted == (open \subseteq abandoned) ~> (live = {} \/ ~(open \subseteq abandoned))

\* The sessions share one stream as SharedStream promises (src/live/liveMedia/
\* OnDemandServerMediaSubsession.cpp:85-345): it plays on while any session holds it, and
\* only the last one to leave stops it.
Shared == INSTANCE SharedStream WITH
    holders   <- {s \in open \ {handling} : token[s] # NoStream},
    streaming <- playing # {}

SharedStreamSpec == Shared!Spec
=============================================================================
