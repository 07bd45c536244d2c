---------------------------- MODULE MCVisionLoop ----------------------------
(***************************************************************************)
(* VisionLoop on a small clock: one unit stands for a second or so, and    *)
(* the order of the tempo bounds, the rate-limit pause and the backoff cap *)
(* is that of vision-loop.cpp:42-56.                                       *)
(***************************************************************************)
EXTENDS VisionLoop

\* Garbage, nothing named, in range; above the range and above the backoff cap.
MCIntervals == {-1, 0, 8, 9}
OneInterval == {3}
=============================================================================
