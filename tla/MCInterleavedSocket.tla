------------------------ MODULE MCInterleavedSocket ------------------------
(* The clients of the model-checked instances.                             *)
EXTENDS InterleavedSocket

CONSTANTS c1, c2

\* A report that can come in two pieces, and a packet on the RTP channel, which some clients
\* send.
Report == <<"rtcp", 2>>
Rtp    == <<"rtp", 1>>

Reports == [c \in Conns |-> {Report}]
OneSendsRtp == [c \in Conns |-> IF c = c1 THEN {Report} ELSE {Report, Rtp}]

\* The socket of one of them may be used again before its session has timed out.
OneComesBack == [c \in Conns |-> IF c = c1 THEN 1 ELSE 0]
NoneComesBack == [c \in Conns |-> 0]

\* One of them sends its next frame or request before all of the last has been read.
OneGoesOn == [c \in Conns |-> IF c = c1 THEN 2 ELSE 1]
=============================================================================
