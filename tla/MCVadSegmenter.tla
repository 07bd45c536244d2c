--------------------------- MODULE MCVadSegmenter ---------------------------
(***************************************************************************)
(* The code's proportions at a smaller scale: the pre-roll is three        *)
(* windows and a bit, a pause closes within a window, a monologue is cut.  *)
(***************************************************************************)
EXTENDS VadSegmenter
=============================================================================
