--------------------------- MODULE MCFrameGrabber ---------------------------
(***************************************************************************)
(* Two captures and a second life of the first; two sizes, so that a       *)
(* surface has to be made anew.                                            *)
(***************************************************************************)
EXTENDS FrameGrabber

CONSTANTS game, again, desktop

MCUuid == [s \in {game, again, desktop} |-> IF s = desktop THEN "desktop" ELSE "game"]
=============================================================================
