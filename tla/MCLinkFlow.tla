----------------------------- MODULE MCLinkFlow -----------------------------
(***************************************************************************)
(* Two sign-ins, the second with the first's answers possibly behind it.   *)
(***************************************************************************)
EXTENDS LinkFlow
=============================================================================
