--------------------------- MODULE BackendClient ---------------------------
(***************************************************************************)
(* The HTTP client each worker owns (net/backend-client).  A worker blocks *)
(* in at most one request at a time; the cancel flag is an atomic that any *)
(* other thread may raise while the request is in flight.                  *)
(*                                                                         *)
(* A request is three separate steps so that the rest of the system can    *)
(* run between them: the worker issues it, the server handles it (or never *)
(* sees it), and the worker gets an answer.  Statuses are grouped by what  *)
(* the callers tell apart:                                                 *)
(*    ok       2xx              unauthorized 401       forbidden 403       *)
(*    limited  429              failed       everything else, no answer (0)*)
(*                                           included                      *)
(***************************************************************************)

VARIABLES
    cancelled,   \* the atomic flag read on entry and by curl's progress callback
    wire         \* the request the owner is blocked in, or NoRequest

Statuses == {"ok", "unauthorized", "forbidden", "limited", "failed"}
Rejections == {"unauthorized", "forbidden"}
Stages   == {"none", "refused", "sent", "served"}

NoRequest == [path |-> "none", stage |-> "none", status |-> "failed"]

TypeOKClient(Paths) ==
    /\ cancelled \in BOOLEAN
    /\ wire \in [path : Paths \cup {"none"}, stage : Stages, status : Statuses]

\* configure() runs under the request mutex and lifts a cancel left behind.
Configure == cancelled' = FALSE

\* cancel() and clear_cancel() are plain stores, whoever holds the mutex.
Cancel == cancelled' = TRUE
ClearCancel == cancelled' = FALSE

\* perform(): a raised cancel refuses the request before anything is sent.
Issue(path) ==
    wire' = [path   |-> path,
             stage  |-> IF cancelled THEN "refused" ELSE "sent",
             status |-> "failed"]

\* The far end handles the request; its answer is on the way back.
Served(s) ==
    /\ wire.stage = "sent"
    /\ wire' = [wire EXCEPT !.stage = "served", !.status = s]

\* What perform() may hand back now: the answer, or status 0 for a request
\* never sent, aborted by the progress callback, broken or timed out.
Answer(s) == wire.stage = "served" /\ s = wire.status
Refusal(s) == wire.stage = "refused" /\ s = "failed"
Abort(s) == cancelled /\ wire.stage \in {"sent", "served"} /\ s = "failed"
Break(s) == ~cancelled /\ wire.stage \in {"sent", "served"} /\ s = "failed"

Hangup == wire' = NoRequest
=============================================================================
