---------------------------- MODULE FrameMailbox ----------------------------
(***************************************************************************)
(* What the hand-over of encoded frames between the encoder thread and the *)
(* event loop promises: a mailbox with room for one frame.  A frame is put *)
(* only into an empty box, so nothing waiting in it is overwritten; a      *)
(* frame is taken whole, and once.  The event loop may also throw the      *)
(* waiting frame away unread, the effect of the assignment at              *)
(* src/VSource.cpp:74.                                                     *)
(***************************************************************************)
EXTENDS Sequences

CONSTANTS
    Packets,    \* the frames that may be put
    Nothing     \* what was taken last before anything is taken

VARIABLES
    box,        \* <<>> or <<f>>: the waiting frame
    taken       \* the frame taken last

mvars == <<box, taken>>

Init == box = <<>> /\ taken = Nothing

Put == box = <<>> /\ (\E f \in Packets : box' = <<f>>) /\ UNCHANGED taken

Take == box # <<>> /\ taken' = Head(box) /\ box' = <<>>

Discard == box # <<>> /\ box' = <<>> /\ UNCHANGED taken

Next == Put \/ Take \/ Discard

Spec == Init /\ [][Next]_mvars
=============================================================================
