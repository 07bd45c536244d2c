---------------------------- MODULE MCAudioLoop ----------------------------
(***************************************************************************)
(* Two streams, a backlog of two where the code has five: enough for the   *)
(* queue to overflow while a request is on the wire.                       *)
(***************************************************************************)
EXTENDS AudioLoop
=============================================================================
