--------------------------- MODULE MCRtpPacketizer ---------------------------
(* Instances of RtpPacketizer for TLC.                                     *)
EXTENDS RtpPacketizer

\* No frame, every size near the limits of a packet, and more than the buffer holds.
AllSizes == 0 .. Limit + 1
=============================================================================
