---------------------------- MODULE MCStatusLoop ----------------------------
(***************************************************************************)
(* One key the server knows and one it rejects.                            *)
(***************************************************************************)
EXTENDS StatusLoop
=============================================================================
