--------------------------- MODULE MCSampleRing ---------------------------
(***************************************************************************)
(* A ring of four slots whose counters wrap after eight.  A block of five  *)
(* overfills it, eleven samples take both counters over the wrap and every *)
(* slot through two laps and more.                                         *)
(***************************************************************************)
EXTENDS SampleRing
=============================================================================
