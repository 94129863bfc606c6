---------------------------- MODULE RequestBuffer ----------------------------
(***************************************************************************)
(* The request buffer of an RTSP connection, RTSPClientConnection::        *)
(* handleRequestBytes(): bytes are added as they are read, in whatever     *)
(* pieces TCP delivers them; the buffer is searched for the blank line     *)
(* that ends a header; a body is waited for; what follows a request is     *)
(* moved to the front and searched in turn.                                *)
(*                                                                         *)
(* The search compares carriage returns and line feeds, so these are bytes *)
(* of their own; a run of other bytes that the search does not tell apart  *)
(* is one byte, which may be that of a "Content-Length:" field.  Every     *)
(* byte knows the request it was sent in.  What a request does is not      *)
(* modelled here, nor is the base-64 decoding of requests that come by     *)
(* HTTP.                                                                   *)
(***************************************************************************)
EXTENDS Integers, Sequences, FiniteSets, FiniteSetsExt, SequencesExt

CONSTANTS
    Shapes,        \* of requests: what the bytes of a request are, header and body
    LengthFields,  \* the bytes that stand for a "Content-Length:" field
    MaxRequests,   \* bound: the requests a client sends
    BufferSize     \* RTSP_BUFFER_SIZE

Symbols == UNION {{shape[k] : k \in DOMAIN shape} : shape \in Shapes}

\* The line breaks of a request; one directly behind another ends the header; the last
\* "Content-Length:" field in it, if it has one, gives the length of the body.
Breaks(shape) == {k \in 1..(Len(shape) - 1) : shape[k] = "cr" /\ shape[k + 1] = "lf"}
Blanks(shape) == {k \in Breaks(shape) : k - 2 \in Breaks(shape)}
BodyLength(shape, fields) == IF fields = {} THEN 0 ELSE LengthFields[shape[Max(fields)]]

\* The header ends with the line break at end, and nothing is behind the body.
Fields(shape, end) == {k \in 1..(end - 2) : shape[k] \in DOMAIN LengthFields}
Header(shape, end) ==
    /\ end \in Blanks(shape) /\ \A k \in Blanks(shape) : end <= k
    /\ Len(shape) = end + 1 + BodyLength(shape, Fields(shape, end))

\* LengthFields gives the value of each field.
ASSUME ShapesAssumption ==
    /\ \A shape \in Shapes : shape \in Seq(Symbols) /\ \E end \in Blanks(shape) : Header(shape, end)
    /\ \A field \in DOMAIN LengthFields : LengthFields[field] \in Nat
ASSUME BufferAssumption == BufferSize \in Nat \ {0} /\ MaxRequests \in Nat

VARIABLES
    script,    \* the requests the client sends in this run, one after the other
    stream,    \* their bytes
    taken,     \* how many of their bytes have been read
    \* --- RTSPClientConnection
    buffer,    \* fRequestBuffer, as far as it has been written
    seen,      \* fRequestBytesAlreadySeen
    left,      \* fRequestBufferBytesLeft
    lastCRLF,  \* fLastCRLF, counting from 1
    fresh,     \* newBytesRead, while bytes are handled
    pc,        \* "idle", "handle", or how the connection ended: "dropped", "died"
    handled    \* the requests that have been handled, with their bodies

bufferVars == <<buffer, seen, left, lastCRLF, fresh>>
vars == <<script, stream, taken, bufferVars, pc, handled>>

\* Request i as it is sent.
Sent(i) == [k \in DOMAIN script[i] |-> <<script[i][k], i>>]

-----------------------------------------------------------------------------
(* resetRequestBuffer().                                                   *)

NoCRLF == -2

Init ==
    /\ script \in UNION {[1..n -> Shapes] : n \in 1..MaxRequests}
    /\ stream = FlattenSeq([i \in DOMAIN script |-> Sent(i)])
    /\ taken = 0 /\ buffer = <<>> /\ seen = 0 /\ left = BufferSize /\ lastCRLF = NoCRLF
    /\ fresh = 0 /\ pc = "idle" /\ handled = <<>>

-----------------------------------------------------------------------------
(* The search for the end of a header.                                     *)

\* Mutant: only what has just been read is searched.
SearchFromFresh == seen + 1

\* Where the search starts: behind the last line break that was found.
SearchFrom == Max({lastCRLF + 2, 1})

\* The line breaks in the part of the buffer that is searched.
LineBreaks ==
    {k \in SearchFrom..(seen + fresh - 1) : buffer[k][1] = "cr" /\ buffer[k + 1][1] = "lf"}

\* Those directly behind another one.
BlankLines == {k \in LineBreaks : k - 2 \in LineBreaks \cup {lastCRLF}}

EndOfMsg  == BlankLines # {}
HeaderEnd == Min(BlankLines)

\* fLastCRLF when the search is over.
Found == IF EndOfMsg THEN HeaderEnd - 2 ELSE Max({lastCRLF} \cup LineBreaks)

\* parseRTSPRequestString(): "Content-Length:", if the header has it.
ContentLength ==
    LET fields == {k \in 1..Found : buffer[k][1] \in DOMAIN LengthFields} IN
    IF fields = {} THEN 0 ELSE LengthFields[buffer[Max(fields)][1]]

\* Has the buffer a whole request?
Complete == EndOfMsg /\ seen + fresh >= HeaderEnd + 1 + ContentLength

\* How much of the buffer the request takes up.
RequestSize == Found + 3 + ContentLength

-----------------------------------------------------------------------------
(* Reading and handling.                                                   *)

\* n bytes are read: from the socket, or one byte at a time while the socket also carries
\* RTP and RTCP (handleAlternativeRequestByte()).
Read(n) ==
    /\ pc = "idle" /\ pc' = "handle"
    /\ n <= left /\ taken + n <= Len(stream)
    /\ taken' = taken + n /\ fresh' = n
    /\ buffer' = SubSeq(buffer, 1, seen) \o SubSeq(stream, taken + 1, taken + n)
    /\ UNCHANGED <<script, stream, seen, left, lastCRLF, handled>>

\* Reading the socket fails: the client has gone.
ReadError ==
    /\ pc = "idle" /\ pc' = "died"
    /\ UNCHANGED <<script, stream, taken, bufferVars, handled>>

\* The buffer is full: the connection is terminated.
TooBig ==
    /\ pc = "handle" /\ fresh >= left
    /\ pc' = "dropped"
    /\ UNCHANGED <<script, stream, taken, bufferVars, handled>>

\* Mutant: the bytes are not counted.
IncompleteUncounted ==
    /\ pc = "handle" /\ fresh < left /\ ~Complete
    /\ pc' = "idle"
    /\ seen' = seen + fresh /\ lastCRLF' = Found /\ fresh' = 0
    /\ UNCHANGED <<script, stream, taken, buffer, left, handled>>

\* Further reads are needed to complete the request.
Incomplete ==
    /\ pc = "handle" /\ fresh < left /\ ~Complete
    /\ pc' = "idle"
    /\ left' = left - fresh /\ seen' = seen + fresh /\ lastCRLF' = Found /\ fresh' = 0
    /\ UNCHANGED <<script, stream, taken, buffer, handled>>

\* Mutant: what follows the request waits for the next read.
HandleRequestAndWait ==
    /\ pc = "handle" /\ fresh < left /\ Complete
    /\ handled' = Append(handled, SubSeq(buffer, 1, RequestSize))
    /\ buffer' = SubSeq(buffer, RequestSize + 1, seen + fresh)
    /\ fresh' = 0 /\ seen' = seen + fresh - RequestSize
    /\ left' = BufferSize - seen' /\ lastCRLF' = NoCRLF
    /\ pc' = "idle"
    /\ UNCHANGED <<script, stream, taken>>

\* Mutant: the room left is not reset.
HandleRequestLeftKept ==
    /\ pc = "handle" /\ fresh < left /\ Complete
    /\ handled' = Append(handled, SubSeq(buffer, 1, RequestSize))
    /\ buffer' = SubSeq(buffer, RequestSize + 1, seen + fresh)
    /\ fresh' = seen + fresh - RequestSize
    /\ seen' = 0 /\ lastCRLF' = NoCRLF
    /\ pc' = IF fresh' > 0 THEN "handle" ELSE "idle"
    /\ UNCHANGED <<script, stream, taken, left>>

\* A request is handled; what follows it is moved to the front, and handled in turn.
HandleRequest ==
    /\ pc = "handle" /\ fresh < left /\ Complete
    /\ handled' = Append(handled, SubSeq(buffer, 1, RequestSize))
    /\ buffer' = SubSeq(buffer, RequestSize + 1, seen + fresh)
    /\ fresh' = seen + fresh - RequestSize
    /\ seen' = 0 /\ left' = BufferSize /\ lastCRLF' = NoCRLF
    /\ pc' = IF fresh' > 0 THEN "handle" ELSE "idle"
    /\ UNCHANGED <<script, stream, taken>>

Next ==
    \/ \E n \in 1..BufferSize : Read(n)
    \/ ReadError \/ TooBig \/ Incomplete \/ HandleRequest

Spec == Init /\ [][Next]_vars

\* What has been read is handled, and what can be read is read.
FairSpec ==
    /\ Spec
    /\ WF_vars(TooBig \/ Incomplete \/ HandleRequest)
    /\ WF_vars(\E n \in 1..BufferSize : Read(n))

-----------------------------------------------------------------------------
(* Properties.                                                             *)

\* The bytes of the first n requests.
BytesOf(n) ==
    LET bytes[k \in 0..n] == IF k = 0 THEN 0 ELSE bytes[k - 1] + Len(script[k]) IN bytes[n]

\* The requests of which every byte has been read.
Whole == {i \in DOMAIN script : BytesOf(i) <= taken}

\* In whatever pieces the requests arrive, between two reads just those that have arrived
\* whole have been handled, once each, in order, and each with its own body
\* (src/live/liveMedia/RTSPServer.cpp:864-1157).
HandledAsSent ==
    /\ \A i \in DOMAIN handled : handled[i] = Sent(i)
    /\ pc = "idle" => Len(handled) = Cardinality(Whole)

\* The buffer's two counters and its contents agree: it holds what has been read of the
\* requests that are still to be handled, there is always room for a read, and for the byte
\* that ends the string (src/live/liveMedia/RTSPServer.cpp:946-952).
BufferKept ==
    /\ seen + left = BufferSize
    /\ pc = "idle" =>
         /\ left > 0
         /\ SubSeq(buffer, 1, seen) = SubSeq(stream, BytesOf(Len(handled)) + 1, taken)

\* A connection is only terminated with as many bytes read since the last request as the
\* buffer holds (src/live/liveMedia/RTSPServer.cpp:871-879): a client that waits for each
\* answer, and whose requests fit, never is.
DroppedWhenFull == pc = "dropped" => taken - BytesOf(Len(handled)) >= BufferSize

\* A request that has arrived is handled, unless the connection ends
\* (src/live/liveMedia/RTSPServer.cpp:864-1157).
ArrivedIsHandled ==
    \A i \in 1..MaxRequests :
        i \in DOMAIN script /\ taken >= BytesOf(i)
          ~> Len(handled) >= i \/ pc \in {"dropped", "died"}
=============================================================================
