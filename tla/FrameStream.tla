----------------------------- MODULE FrameStream ----------------------------
(***************************************************************************)
(* What the capture pipeline promises to the analyser: a first-in first-   *)
(* out stream of frames that can lose everything waiting in it, and never  *)
(* reorders, repeats or invents a frame, as long as it is in step.         *)
(*                                                                         *)
(* Frames are numbered by their reception.  Those not delivered yet are    *)
(* the one in hand and the numbers from oldest to next-1.                  *)
(***************************************************************************)
EXTENDS Naturals

CONSTANT MaxFrames       \* bound on the frames received

VARIABLES
  next,                  \* number of the next frame received
  oldest,                \* the oldest frame waiting, next when there is none
  hand,                  \* the frame being delivered, 0 when there is none
  out,                   \* the last frame delivered in step
  inStep                 \* FALSE from a slip to the next discard

vars == <<next, oldest, hand, out, inStep>>

Init == next = 1 /\ oldest = 1 /\ hand = 0 /\ out = 0 /\ inStep = TRUE

Receive ==
  /\ next <= MaxFrames
  /\ next' = next + 1
  /\ oldest' = IF inStep THEN oldest ELSE next + 1
  /\ UNCHANGED <<hand, out, inStep>>

Take ==
  /\ inStep /\ hand = 0 /\ oldest < next
  /\ hand' = oldest /\ oldest' = oldest + 1
  /\ UNCHANGED <<next, out, inStep>>

Deliver ==
  /\ hand # 0
  /\ out' = hand /\ hand' = 0
  /\ UNCHANGED <<next, oldest, inStep>>

(* The queue is emptied.  The frame in hand is not in the queue any more.  *)
Discard ==
  /\ oldest' = next
  /\ inStep' = TRUE
  /\ UNCHANGED <<next, hand, out>>

(* The queue is emptied while the oldest frame is being taken out of it:   *)
(* until the next discard nothing is promised of what is delivered.        *)
Slip ==
  /\ oldest' = next /\ hand' = 0
  /\ inStep' = FALSE
  /\ UNCHANGED <<next, out>>

Next == Receive \/ Take \/ Deliver \/ Discard \/ Slip

Spec == Init /\ [][Next]_vars
=============================================================================
