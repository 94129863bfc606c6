---------------------------- MODULE SharedStream ----------------------------
(***************************************************************************)
(* What the on-demand subsession promises of the one stream that all RTSP  *)
(* sessions share: it exists while some session holds it, once started it  *)
(* plays until the last holder leaves, and nothing else stops it.          *)
(***************************************************************************)
CONSTANT Sessions

VARIABLES
    holders,   \* sessions that hold the stream
    streaming  \* frames are being sent

svars == <<holders, streaming>>

Init == holders = {} /\ streaming = FALSE

Join(s) ==
    /\ s \notin holders /\ holders' = holders \cup {s}
    /\ UNCHANGED streaming

Start ==
    /\ holders # {} /\ ~streaming
    /\ streaming' = TRUE
    /\ UNCHANGED holders

Leave(s) ==
    /\ s \in holders /\ holders' = holders \ {s}
    /\ streaming' = (streaming /\ holders' # {})

Next == Start \/ \E s \in Sessions : Join(s) \/ Leave(s)

Spec == Init /\ [][Next]_svars
=============================================================================
