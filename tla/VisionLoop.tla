----------------------------- MODULE VisionLoop -----------------------------
(***************************************************************************)
(* The eyes (vision/vision-loop): a worker thread that opens the server's  *)
(* session, posts a frame at the tempo the server names, and closes the    *)
(* session when it leaves.  The UI thread starts, stops and joins it; the  *)
(* dock asks it to reopen the session when a status poll says the server   *)
(* lost it.  One action is one stretch between two points where another    *)
(* thread, or the server, can get in between.                              *)
(***************************************************************************)
EXTENDS Integers, BackendClient

CONSTANTS
    kDefaultIntervalMs, kMinIntervalMs, kMaxIntervalMs,
    kMaxBackoffMs, kRateLimitBackoffMs, kFramesBetweenTempoSync,
    NamedIntervals,   \* what a settings answer may name; 0 when it names none
    MaxFaults,        \* bound: answers that are not 2xx, broken requests, server restarts
    MaxRuns           \* bound: how many times the UI starts the worker

ASSUME PaceAssumption ==
    /\ kMinIntervalMs \in Nat \ {0} /\ kMaxIntervalMs \in Nat
    /\ kDefaultIntervalMs \in kMinIntervalMs..kMaxIntervalMs
    /\ kMaxBackoffMs \in Nat /\ kMaxBackoffMs >= kMinIntervalMs
    /\ kRateLimitBackoffMs \in Nat
    /\ kFramesBetweenTempoSync \in Nat \ {0}
    /\ NamedIntervals \subseteq Int
ASSUME BoundAssumption == MaxFaults \in Nat /\ MaxRuns \in Nat

Paths == {"settings", "start", "frame", "stop"}
Healths == {"Idle", "Sending", "Empty", "NoSource", "Retrying", "RateLimited",
            "KeyRejected"}

VARIABLES
    pc,             \* where the worker is; "absent" when worker_ is not joinable
    ui,             \* where the UI thread is inside stop()
    stop_, session_open_, health_,
    interval_ms_,
    failures, frames, wait,
    heard,          \* history: what the server acknowledged to this run
    result,         \* HttpResult of this tick; "unsent" when sent is false
    session,        \* the server's side: is our session open?
    late,           \* requests the client gave up on and the server may still handle
    polled,         \* a status answer on its way to the dock
    faults, runs

client == <<cancelled, wire>>
server == <<session, late, polled, faults>>
tick   == <<interval_ms_, failures, frames, wait, result, heard>>
vars   == <<pc, ui, stop_, session_open_, health_, tick, server, runs, client>>

Least(a, b) == IF a <= b THEN a ELSE b
Greatest(a, b) == IF a >= b THEN a ELSE b

\* interval << min(n - 1, 16): the shift is capped, so it cannot overflow.
Shifts == <<1, 2, 4, 8, 16, 32, 64, 128, 256, 512, 1024, 2048, 4096, 8192, 16384,
            32768, 65536>>
Backoff(interval, n) == Least(interval * Shifts[Least(n, 17)], kMaxBackoffMs)

Init ==
    /\ pc = "absent" /\ ui = "free"
    /\ stop_ = FALSE /\ session_open_ = FALSE /\ health_ = "Idle"
    /\ interval_ms_ = 0 /\ failures = 0 /\ frames = 0 /\ wait = 0
    /\ result = "unsent" /\ heard = {}
    /\ session = FALSE /\ late = {} /\ polled = "none" /\ faults = 0
    /\ runs = 0
    /\ cancelled = FALSE /\ wire = NoRequest

-----------------------------------------------------------------------------
(* UI thread *)

\* Mutant: the flag of the previous run is kept.
StartKeepingSession ==
    /\ ui = "free" /\ pc = "absent" /\ runs < MaxRuns
    /\ Configure
    /\ interval_ms_' = kDefaultIntervalMs
    /\ stop_' = FALSE
    /\ failures' = 0 /\ frames' = 0 /\ heard' = {}
    /\ pc' = "hello"
    /\ runs' = runs + 1
    /\ UNCHANGED <<ui, session_open_, health_, wait, result, server, wire>>

\* start() when configured: the only place that forgets a previous session.
Start ==
    /\ ui = "free" /\ pc = "absent" /\ runs < MaxRuns
    /\ Configure
    /\ interval_ms_' = kDefaultIntervalMs
    /\ stop_' = FALSE /\ session_open_' = FALSE
    /\ failures' = 0 /\ frames' = 0 /\ heard' = {}
    /\ pc' = "hello"
    /\ runs' = runs + 1
    /\ UNCHANGED <<ui, health_, wait, result, server, wire>>

\* Mutant: the worker is cancelled and joined without being told to stop.
StopWithoutFlag ==
    /\ ui = "free" /\ pc # "absent"
    /\ ui' = "cancelling"
    /\ UNCHANGED <<pc, stop_, session_open_, health_, tick, server, runs, client>>

\* stop(), up to the unlock.
StopRaise ==
    /\ ui = "free" /\ pc # "absent"
    /\ stop_' = TRUE
    /\ ui' = "cancelling"
    /\ UNCHANGED <<pc, session_open_, health_, tick, server, runs, client>>

StopCancel ==
    /\ ui = "cancelling"
    /\ Cancel
    /\ ui' = "joining"
    /\ UNCHANGED <<pc, stop_, session_open_, health_, tick, server, runs, wire>>

StopJoin ==
    /\ ui = "joining" /\ pc = "exited"
    /\ pc' = "absent"
    /\ health_' = "Idle"
    /\ ui' = "free"
    /\ UNCHANGED <<stop_, session_open_, tick, server, runs, client>>

\* Mutant: the dock shows the lost session and does nothing about it.
ReopenNothing ==
    /\ ui = "free" /\ polled # "none"
    /\ polled' = "none"
    /\ UNCHANGED <<pc, ui, stop_, session_open_, health_, tick, session, late, faults,
                   runs, client>>

\* applyServerState() on air: the answer may be older than the session.
ReopenSession ==
    /\ ui = "free" /\ polled # "none"
    /\ session_open_' = IF polled = "stopped" THEN FALSE ELSE session_open_
    /\ polled' = "none"
    /\ UNCHANGED <<pc, ui, stop_, health_, tick, session, late, faults, runs, client>>

-----------------------------------------------------------------------------
(* Worker thread *)

Goto(from, to) == pc = from /\ pc' = to

\* The end of any blocking request.  A request given up while the server
\* had not handled it may still be handled there.
Returns(s) ==
    /\ \/ Answer(s) /\ UNCHANGED <<late, faults>>
       \/ Refusal(s) /\ UNCHANGED <<late, faults>>
       \/ /\ Abort(s) /\ UNCHANGED faults
          /\ \/ UNCHANGED late
             \/ wire.stage = "sent" /\ late' = late \cup {wire.path}
       \/ /\ Break(s) /\ faults < MaxFaults /\ faults' = faults + 1
          /\ \/ UNCHANGED late
             \/ wire.stage = "sent" /\ late' = late \cup {wire.path}
    /\ heard' = IF s = "ok" THEN heard \cup {wire.path} ELSE heard
    /\ Hangup

TempoInRange(named) == named >= kMinIntervalMs /\ named <= kMaxIntervalMs

\* sync_tempo(), before the loop and after every kFramesBetweenTempoSync frames.
AskTempo ==
    /\ pc \in {"hello", "resync"} /\ wire = NoRequest
    /\ Issue("settings")
    /\ UNCHANGED <<pc, ui, stop_, session_open_, health_, tick, server, runs, cancelled>>

SyncTempo ==
    /\ \/ Goto("hello", "top")
       \/ Goto("resync", "sleep")
    /\ wire # NoRequest
    /\ \E s \in Statuses :
         /\ Returns(s)
         /\ IF s = "ok"
            THEN \E named \in NamedIntervals :
                   interval_ms_' = IF TempoInRange(named) THEN named ELSE interval_ms_
            ELSE UNCHANGED interval_ms_
    /\ UNCHANGED <<ui, stop_, session_open_, health_, failures, frames, wait, result,
                   session, polled, runs, cancelled>>

\* The top of the loop and open_session()'s check.
OpenSession ==
    /\ pc = "top"
    /\ wait' = interval_ms_
    /\ IF session_open_
       THEN pc' = "grab" /\ UNCHANGED wire
       ELSE pc' = "open" /\ Issue("start")
    /\ UNCHANGED <<ui, stop_, session_open_, health_, interval_ms_, failures, frames,
                   result, heard, server, runs, cancelled>>

SessionOpened ==
    /\ pc = "open"
    /\ \E s \in Statuses :
         /\ Returns(s)
         /\ IF s = "ok"
            THEN pc' = "grab" /\ session_open_' = TRUE /\ UNCHANGED result
            ELSE pc' = "check" /\ result' = s /\ UNCHANGED session_open_
    /\ UNCHANGED <<ui, stop_, health_, interval_ms_, failures, frames, wait,
                   session, polled, runs, cancelled>>

\* grabber_.grab(): no picture, or no source; or an encoder that fails.
NothingToSend ==
    /\ Goto("grab", "check")
    /\ \/ health_' \in {"Empty", "NoSource"}
       \/ UNCHANGED health_
    /\ result' = "unsent"
    /\ UNCHANGED <<ui, stop_, session_open_, interval_ms_, failures, frames, wait,
                   heard, server, runs, client>>

PostFrame ==
    /\ Goto("grab", "upload")
    /\ Issue("frame")
    /\ UNCHANGED <<ui, stop_, session_open_, health_, tick, server, runs, cancelled>>

FramePosted ==
    /\ Goto("upload", "check")
    /\ \E s \in Statuses : Returns(s) /\ result' = s
    /\ UNCHANGED <<ui, stop_, session_open_, health_, interval_ms_, failures, frames,
                   wait, session, polled, runs, cancelled>>

\* stopping(): a result that came after the stop is not reported.
CheckStop ==
    /\ pc = "check"
    /\ pc' = IF stop_ THEN "leave" ELSE IF result = "unsent" THEN "sleep" ELSE "judge"
    /\ UNCHANGED <<ui, stop_, session_open_, health_, tick, server, runs, client>>

Judged(rs) == pc = "judge" /\ result \in rs
JudgeUnchanged == <<ui, stop_, session_open_, interval_ms_, result, heard, server, runs,
                    client>>

FrameSent ==
    /\ Judged({"ok"})
    /\ failures' = 0
    /\ frames' = (frames + 1) % kFramesBetweenTempoSync
    /\ health_' = "Sending"
    /\ pc' = IF frames' = 0 THEN "resync" ELSE "sleep"
    /\ UNCHANGED <<wait, JudgeUnchanged>>

\* Mutant: the key is reported and the loop goes on.
RejectedAndRetried ==
    /\ Judged(Rejections)
    /\ health_' = "KeyRejected"
    /\ pc' = "sleep"
    /\ UNCHANGED <<failures, frames, wait, JudgeUnchanged>>

KeyRejected ==
    /\ Judged(Rejections)
    /\ health_' = "KeyRejected"
    /\ pc' = "leave"
    /\ UNCHANGED <<failures, frames, wait, JudgeUnchanged>>

RateLimited ==
    /\ Judged({"limited"})
    /\ wait' = Greatest(interval_ms_, kRateLimitBackoffMs)
    /\ health_' = "RateLimited"
    /\ pc' = "sleep"
    /\ UNCHANGED <<failures, frames, JudgeUnchanged>>

SendFailed ==
    /\ Judged({"failed"})
    /\ failures' = failures + 1
    /\ wait' = Backoff(interval_ms_, failures')
    /\ health_' = "Retrying"
    /\ pc' = "sleep"
    /\ UNCHANGED <<frames, JudgeUnchanged>>

\* wait_ms(): times out at any moment, or is woken by stop(); the predicate decides.
Sleep ==
    /\ pc = "sleep"
    /\ pc' = IF stop_ THEN "leave" ELSE "top"
    /\ UNCHANGED <<ui, stop_, session_open_, health_, tick, server, runs, client>>

\* "The server still needs to hear that the session ended."
Leave ==
    /\ Goto("leave", "bye")
    /\ ClearCancel
    /\ UNCHANGED <<ui, stop_, session_open_, health_, tick, server, runs, wire>>

Farewell ==
    /\ Goto("bye", "closing")
    /\ Issue("stop")
    /\ UNCHANGED <<ui, stop_, session_open_, health_, tick, server, runs, cancelled>>

Exit ==
    /\ Goto("closing", "exited")
    /\ \E s \in Statuses : Returns(s)
    /\ UNCHANGED <<ui, stop_, session_open_, health_, interval_ms_, failures, frames, wait,
                   result, session, polled, runs, cancelled>>

-----------------------------------------------------------------------------
(* The server and the status poll (external) *)

Effect(path, s) ==
    session' = IF s # "ok" THEN session
               ELSE CASE path = "start" -> TRUE
                      [] path = "stop"  -> FALSE
                      [] OTHER          -> session

Serve ==
    /\ \E s \in Statuses :
         /\ Served(s)
         /\ Effect(wire.path, s)
         /\ IF s = "ok" THEN UNCHANGED faults
                        ELSE faults < MaxFaults /\ faults' = faults + 1
    /\ UNCHANGED <<pc, ui, stop_, session_open_, health_, tick, late, polled, runs, cancelled>>

ServeLate ==
    /\ \E p \in late : late' = late \ {p} /\ Effect(p, "ok")
    /\ UNCHANGED <<pc, ui, stop_, session_open_, health_, tick, polled, faults, runs, client>>

\* The server keeps sessions in memory only.
Restart ==
    /\ faults < MaxFaults /\ faults' = faults + 1
    /\ session' = FALSE
    /\ UNCHANGED <<pc, ui, stop_, session_open_, health_, tick, late, polled, runs, client>>

\* The status worker reads runState; the dock applies it later (ReopenSession).
Poll ==
    /\ polled = "none"
    /\ polled' = IF session THEN "running" ELSE "stopped"
    /\ UNCHANGED <<pc, ui, stop_, session_open_, health_, tick, session, late, faults,
                   runs, client>>

-----------------------------------------------------------------------------
UIThread == Start \/ StopRaise \/ StopCancel \/ StopJoin \/ ReopenSession
Worker == \/ AskTempo \/ SyncTempo \/ OpenSession \/ SessionOpened
          \/ NothingToSend \/ PostFrame \/ FramePosted \/ CheckStop
          \/ FrameSent \/ KeyRejected \/ RateLimited \/ SendFailed
          \/ Sleep \/ Leave \/ Farewell \/ Exit
Server == Serve \/ ServeLate \/ Restart \/ Poll

Next == UIThread \/ Worker \/ Server

Spec == Init /\ [][Next]_vars

\* The threads run, every request ends, the status loop keeps polling and the
\* UI thread finishes a stop() it began.  Nobody has to start or to stop.
Fairness ==
    /\ WF_vars(Worker)
    /\ WF_vars(Serve)
    /\ WF_vars(Poll)
    /\ WF_vars(ReopenSession)
    /\ WF_vars(StopCancel) /\ WF_vars(StopJoin)

FairSpec == Spec /\ Fairness

-----------------------------------------------------------------------------
\* Every variable keeps to the values the code gives it.
TypeOK ==
    /\ pc \in {"absent", "hello", "top", "open", "grab", "upload", "check", "judge",
               "resync", "sleep", "leave", "bye", "closing", "exited"}
    /\ ui \in {"free", "cancelling", "joining"}
    /\ stop_ \in BOOLEAN /\ session_open_ \in BOOLEAN /\ health_ \in Healths
    /\ interval_ms_ \in Nat /\ failures \in Nat /\ wait \in Nat
    /\ frames \in 0..(kFramesBetweenTempoSync - 1)
    /\ heard \subseteq Paths /\ result \in Statuses \cup {"unsent"}
    /\ session \in BOOLEAN /\ late \subseteq Paths
    /\ polled \in {"none", "running", "stopped"}
    /\ faults \in 0..MaxFaults /\ runs \in 0..MaxRuns
    /\ TypeOKClient(Paths)

\* "Until POST /api/session/start succeeds the server drops our frames"
\* (vision-loop.hpp:110): no frame goes out in a run whose own session start
\* was never acknowledged, whatever earlier runs, stale polls and aborted
\* requests left in session_open_.
FramesBehindSession == wire.path = "frame" => "start" \in heard

\* "A rejected key stays rejected; retrying only fills the log"
\* (vision-loop.cpp:249): while the dock shows the rejection, the only thing
\* still asked of the server is to close the session.
RejectedKeyIsNotRetried ==
    health_ = "KeyRejected" => /\ wire.path \in {"none", "stop"}
                               /\ pc \in {"leave", "bye", "closing", "exited"}

\* No mix of tempo answers, rate limits and failures makes the worker spin:
\* every pause is at least as long as the shortest tempo it may be given.
NeverHammers == pc = "sleep" => wait >= kMinIntervalMs

\* Nor does any mix of them put it to sleep for good: no pause is longer than
\* the longest tempo, the backoff cap or the rate-limit pause, whatever tempo
\* the server names and however often a frame failed.
Longest == Greatest(kMaxIntervalMs, Greatest(kMaxBackoffMs, kRateLimitBackoffMs))
NeverDozes == pc = "sleep" => wait <= Longest

\* What every state of the worker is: its variables in range, its pauses long
\* enough and not too long, a rejection of its key final.
VisionInvariant == TypeOK /\ NeverHammers /\ NeverDozes /\ RejectedKeyIsNotRetried

\* stop() always gets the UI thread back: no request, pause or answer can
\* keep the worker in its loop once the stop was raised.
StopReturns == ui = "cancelling" ~> ui = "free"

\* The session heals: in a run that stays in its loop, a server restart, a
\* broken start, a stale poll or the delayed stop of an earlier run can close
\* the server's session only for a while.
InLoop == pc \notin {"absent", "leave", "bye", "closing", "exited"}
SessionHeals == <>[]InLoop => <>[]session

\* vision-loop.cpp:271-272, "The cancel raised by stop() was for the frame in
\* flight; the server still needs to hear that the session ended": the
\* closing request never runs under a raised cancel.
FarewellIsNotCancelled == wire.path = "stop" => ~cancelled
=============================================================================
