--------------------------- MODULE MCFrameHandoff ---------------------------
(* Instances of FrameHandoff for TLC: the .cfg files give the bounds.      *)
EXTENDS FrameHandoff
=============================================================================
