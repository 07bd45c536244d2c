-------------------------- MODULE VisionLoop_proofs --------------------------
(***************************************************************************)
(* No frame goes out ahead of its session, a rejected key is not tried     *)
(* again, the worker never spins and never dozes off: for any tempo        *)
(* limits, any answers and any number of runs and faults.                  *)
(***************************************************************************)
EXTENDS VisionLoop, TLAPS

\* The worker is inside a request exactly where the code makes one.
Requests ==
    wire # NoRequest => \/ pc \in {"hello", "resync"} /\ wire.path = "settings"
                        \/ pc = "open" /\ wire.path = "start"
                        \/ pc = "upload" /\ wire.path = "frame"
                        \/ pc = "closing" /\ wire.path = "stop"

\* What the worker takes for an open session was acknowledged to this run.
Opened ==
    session_open_ \/ pc \in {"grab", "upload"} => "start" \in heard

\* The tempo is in range in every run, and so is the pause that a tick ends with.
Tempo ==
    /\ pc # "absent" => interval_ms_ >= kMinIntervalMs /\ interval_ms_ <= kMaxIntervalMs
    /\ pc \in {"open", "grab", "upload", "check", "judge", "resync", "sleep"} =>
         wait >= kMinIntervalMs /\ wait <= Longest

Inv == TypeOK /\ RejectedKeyIsNotRetried /\ Requests /\ Opened /\ Tempo

\* The pace constants as the arithmetic below uses them.
LEMMA Paces ==
  /\ kMinIntervalMs \in Nat /\ kMinIntervalMs >= 1
  /\ kMaxIntervalMs \in Nat /\ kMaxBackoffMs \in Nat /\ kRateLimitBackoffMs \in Nat
  /\ kDefaultIntervalMs \in Nat /\ kDefaultIntervalMs >= kMinIntervalMs
  /\ kFramesBetweenTempoSync \in Nat /\ kFramesBetweenTempoSync >= 1
  /\ kMaxBackoffMs >= kMinIntervalMs /\ kDefaultIntervalMs <= kMaxIntervalMs
  BY PaceAssumption

\* The longest pause bounds each of the three it is made of.
LEMMA LongestBounds ==
  /\ Longest \in Nat
  /\ Longest >= kMaxIntervalMs /\ Longest >= kMaxBackoffMs /\ Longest >= kRateLimitBackoffMs
  BY Paces DEF Longest, Greatest

\* No number of failures makes the pause shorter than the shortest tempo or longer than the cap.
LEMMA BackoffIsBounded ==
  ASSUME NEW interval \in Nat, interval >= kMinIntervalMs, NEW n \in Nat \ {0}
  PROVE  /\ Backoff(interval, n) \in Nat /\ Backoff(interval, n) >= kMinIntervalMs
         /\ Backoff(interval, n) <= kMaxBackoffMs
<1>. DEFINE shift == Shifts[Least(n, 17)]
<1>1. Least(n, 17) \in 1..17
  BY DEF Least
<1>2. \A i \in 1..17 : Shifts[i] \in Nat /\ Shifts[i] >= 1
  BY DEF Shifts
<1>3. shift \in Nat /\ shift >= 1
  BY <1>1, <1>2
<1>. HIDE DEF shift
<1>4. interval * shift \in Nat /\ interval * shift >= interval
  <2>1. PICK k \in Nat : shift = k + 1
    <3>1. shift - 1 \in Nat /\ shift = (shift - 1) + 1
      BY <1>3
    <3>. QED
      BY <3>1
  <2>2. interval * (k + 1) = interval * k + interval /\ interval * k \in Nat
    OBVIOUS
  <2>. QED
    BY <2>1, <2>2
<1>5. Backoff(interval, n) = Least(interval * shift, kMaxBackoffMs)
  BY DEF Backoff, shift
<1>. QED
  BY <1>4, <1>5, Paces DEF Least

LEMMA InitInv == Init => Inv
<1>. SUFFICES ASSUME Init PROVE Inv
  OBVIOUS
<1>1. 0 \in 0..(kFramesBetweenTempoSync - 1) /\ 0 \in 0..MaxFaults /\ 0 \in 0..MaxRuns
  BY Paces, BoundAssumption
<1>2. TypeOKClient(Paths)
  BY DEF Init, TypeOKClient, NoRequest, Stages, Statuses
<1>3. TypeOK
  BY <1>1, <1>2 DEF Init, TypeOK, Healths
<1>4. RejectedKeyIsNotRetried /\ Requests /\ Opened /\ Tempo
  BY DEF Init, RejectedKeyIsNotRetried, Requests, Opened, Tempo
<1>. QED
  BY <1>3, <1>4 DEF Inv

\* The UI thread only lowers what the worker believes of the session, and starts a run with
\* a default tempo and nothing believed.
LEMMA UIInv == Inv /\ UIThread => Inv'
<1>. SUFFICES ASSUME Inv, UIThread PROVE Inv'
  OBVIOUS
<1>. USE DEF Inv
<1>1. CASE Start
  <2>1. TypeOK'
    <3>1. runs' \in 0..MaxRuns
      BY <1>1, BoundAssumption DEF Start, TypeOK
    <3>2. 0 \in 0..(kFramesBetweenTempoSync - 1) /\ kDefaultIntervalMs \in Nat
      BY Paces
    <3>. QED
      BY <1>1, <3>1, <3>2 DEF Start, Configure, TypeOK, TypeOKClient, server
  <2>2. RejectedKeyIsNotRetried' /\ Requests' /\ Opened'
    BY <1>1 DEF Start, RejectedKeyIsNotRetried, Requests, Opened
  <2>3. Tempo'
    BY <1>1, Paces DEF Start, Tempo
  <2>. QED
    BY <2>1, <2>2, <2>3
<1>2. CASE StopRaise \/ StopCancel
  <2>1. TypeOK'
    BY <1>2 DEF StopRaise, StopCancel, Cancel, TypeOK, TypeOKClient, tick, server, client
  <2>2. RejectedKeyIsNotRetried' /\ Requests' /\ Opened' /\ Tempo'
    BY <1>2 DEF StopRaise, StopCancel, RejectedKeyIsNotRetried, Requests, Opened, Tempo, tick, client
  <2>. QED
    BY <2>1, <2>2
<1>3. CASE StopJoin
  <2>1. TypeOK'
    BY <1>3 DEF StopJoin, TypeOK, TypeOKClient, Healths, tick, server, client
  <2>2. RejectedKeyIsNotRetried' /\ Requests' /\ Opened' /\ Tempo'
    BY <1>3 DEF StopJoin, RejectedKeyIsNotRetried, Requests, Opened, Tempo, tick, client
  <2>. QED
    BY <2>1, <2>2
<1>4. CASE ReopenSession
  <2>1. TypeOK'
    BY <1>4 DEF ReopenSession, TypeOK, TypeOKClient, tick, client
  <2>2. RejectedKeyIsNotRetried' /\ Requests' /\ Opened' /\ Tempo'
    BY <1>4 DEF ReopenSession, RejectedKeyIsNotRetried, Requests, Opened, Tempo, tick, client
  <2>. QED
    BY <2>1, <2>2
<1>. QED
  BY <1>1, <1>2, <1>3, <1>4 DEF UIThread

\* The server answers; it has no hand in what the worker believes.
LEMMA ServerInv == Inv /\ Server => Inv'
<1>. SUFFICES ASSUME Inv, Server PROVE Inv'
  OBVIOUS
<1>. USE DEF Inv
<1>1. CASE Serve
  <2>1. PICK s \in Statuses :
          /\ Served(s) /\ Effect(wire.path, s)
          /\ IF s = "ok" THEN UNCHANGED faults ELSE faults < MaxFaults /\ faults' = faults + 1
    BY <1>1 DEF Serve
  <2>2. /\ wire.stage = "sent" /\ wire' = [wire EXCEPT !.stage = "served", !.status = s]
        /\ wire \in [path : Paths \cup {"none"}, stage : Stages, status : Statuses]
    BY <2>1 DEF Served, TypeOK, TypeOKClient
  <2>3. wire' \in [path : Paths \cup {"none"}, stage : Stages, status : Statuses] /\ wire'.path = wire.path
    BY <2>2 DEF Stages
  <2>4. wire # NoRequest
    BY <2>2 DEF NoRequest
  <2>5. session' \in BOOLEAN
    BY <2>1 DEF Effect, TypeOK
  <2>6. faults' \in 0..MaxFaults
    BY <2>1, BoundAssumption DEF TypeOK
  <2>7. TypeOK'
    BY <1>1, <2>3, <2>5, <2>6 DEF Serve, TypeOK, TypeOKClient, tick
  <2>8. RejectedKeyIsNotRetried' /\ Requests' /\ Opened' /\ Tempo'
    BY <1>1, <2>3, <2>4 DEF Serve, RejectedKeyIsNotRetried, Requests, Opened, Tempo, tick
  <2>. QED
    BY <2>7, <2>8
<1>2. CASE ServeLate \/ Restart \/ Poll
  <2>1. /\ session' \in BOOLEAN /\ late' \subseteq Paths /\ polled' \in {"none", "running", "stopped"}
        /\ faults' \in 0..MaxFaults
    <3>1. CASE ServeLate
      BY <3>1 DEF ServeLate, Effect, TypeOK
    <3>2. CASE Restart
      <4>1. faults \in 0..MaxFaults /\ faults < MaxFaults /\ faults' = faults + 1
        BY <3>2 DEF Restart, TypeOK
      <4>2. faults' \in 0..MaxFaults
        BY <4>1, BoundAssumption
      <4>. QED
        BY <3>2, <4>2 DEF Restart, TypeOK
    <3>3. CASE Poll
      BY <3>3 DEF Poll, TypeOK
    <3>. QED
      BY <1>2, <3>1, <3>2, <3>3
  <2>2. UNCHANGED <<pc, ui, stop_, session_open_, health_, tick, runs, client>>
    BY <1>2 DEF ServeLate, Restart, Poll
  <2>3. TypeOK'
    BY <2>1, <2>2 DEF TypeOK, TypeOKClient, tick, client
  <2>4. RejectedKeyIsNotRetried' /\ Requests' /\ Opened' /\ Tempo'
    BY <2>2 DEF RejectedKeyIsNotRetried, Requests, Opened, Tempo, tick, client
  <2>. QED
    BY <2>3, <2>4
<1>. QED
  BY <1>1, <1>2 DEF Server

\* How a request ends: the wire is free again, and a good answer was to what was asked.
LEMMA Returned ==
  ASSUME Inv, NEW s \in Statuses, Returns(s)
  PROVE  /\ wire' = NoRequest /\ faults' \in 0..MaxFaults /\ late' \subseteq Paths
         /\ heard \subseteq heard' /\ heard' \subseteq Paths
         /\ s = "ok" => wire # NoRequest /\ wire.path \in heard'
<1>1. wire' = NoRequest
  BY DEF Returns, Hangup
<1>2. faults' \in 0..MaxFaults
  BY BoundAssumption DEF Returns, Inv, TypeOK
<1>3. wire.stage \in {"sent", "served"} => wire # NoRequest /\ wire.path \in Paths
  BY DEF Inv, Requests, NoRequest, Paths
<1>4. late' \subseteq Paths
  BY <1>3 DEF Returns, Inv, TypeOK
<1>5. s = "ok" => wire.stage = "served"
  BY DEF Returns, Answer, Refusal, Abort, Break
<1>6. /\ heard \subseteq heard' /\ heard' \subseteq Paths
      /\ s = "ok" => wire.path \in heard'
  BY <1>3, <1>5 DEF Returns, Inv, TypeOK
<1>. QED
  BY <1>1, <1>2, <1>3, <1>4, <1>5, <1>6

\* A request that was just begun, or refused by a raised cancel.
LEMMA Issued ==
  ASSUME Inv, NEW p \in Paths, Issue(p)
  PROVE  /\ wire' \in [path : Paths \cup {"none"}, stage : Stages, status : Statuses]
         /\ wire'.path = p
  BY DEF Issue, Stages, Statuses

LEMMA NoRequestTyped == NoRequest \in [path : Paths \cup {"none"}, stage : Stages, status : Statuses]
  BY DEF NoRequest, Stages, Statuses

\* The steps that put a request on its way.
LEMMA IssuingInv == Inv /\ (AskTempo \/ OpenSession \/ PostFrame \/ Farewell) => Inv'
<1>. SUFFICES ASSUME Inv, AskTempo \/ OpenSession \/ PostFrame \/ Farewell PROVE Inv'
  OBVIOUS
<1>. USE DEF Inv
<1>1. {"settings", "start", "frame", "stop"} \subseteq Paths
  BY DEF Paths
<1>2. CASE AskTempo
  <2>1. Issue("settings") /\ pc \in {"hello", "resync"}
    BY <1>2 DEF AskTempo
  <2>2. /\ wire' \in [path : Paths \cup {"none"}, stage : Stages, status : Statuses]
        /\ wire'.path = "settings"
    BY <1>1, <2>1, Issued
  <2>3. TypeOK'
    BY <1>2, <2>2 DEF AskTempo, TypeOK, TypeOKClient, tick, server
  <2>4. RejectedKeyIsNotRetried' /\ Requests' /\ Opened' /\ Tempo'
    BY <1>2, <2>2 DEF AskTempo, RejectedKeyIsNotRetried, Requests, Opened, Tempo, tick
  <2>. QED
    BY <2>3, <2>4
<1>3. CASE OpenSession
  <2>1. /\ pc = "top" /\ wait' = interval_ms_ /\ interval_ms_ \in Nat
        /\ interval_ms_ >= kMinIntervalMs /\ interval_ms_ <= kMaxIntervalMs
    BY <1>3 DEF OpenSession, TypeOK, Tempo
  <2>2. wire = NoRequest
    BY <2>1 DEF Requests
  <2>3. \/ session_open_ /\ pc' = "grab" /\ wire' = wire
        \/ /\ pc' = "open" /\ wire'.path = "start"
           /\ wire' \in [path : Paths \cup {"none"}, stage : Stages, status : Statuses]
    BY <1>1, <1>3, Issued DEF OpenSession
  <2>4. TypeOK'
    BY <1>3, <2>1, <2>3 DEF OpenSession, TypeOK, TypeOKClient, server
  <2>5. health_ # "KeyRejected"
    BY <2>1 DEF RejectedKeyIsNotRetried
  <2>6. RejectedKeyIsNotRetried' /\ Requests' /\ Opened' /\ Tempo'
    BY <1>3, <2>1, <2>2, <2>3, <2>5, Paces, LongestBounds DEF OpenSession, RejectedKeyIsNotRetried, Requests, Opened, Tempo
  <2>. QED
    BY <2>4, <2>6
<1>4. CASE PostFrame
  <2>1. Issue("frame") /\ pc = "grab" /\ pc' = "upload"
    BY <1>4 DEF PostFrame, Goto
  <2>2. /\ wire' \in [path : Paths \cup {"none"}, stage : Stages, status : Statuses]
        /\ wire'.path = "frame"
    BY <1>1, <2>1, Issued
  <2>3. TypeOK'
    BY <1>4, <2>1, <2>2 DEF PostFrame, TypeOK, TypeOKClient, tick, server
  <2>4. RejectedKeyIsNotRetried' /\ Requests' /\ Opened' /\ Tempo'
    BY <1>4, <2>1, <2>2 DEF PostFrame, RejectedKeyIsNotRetried, Requests, Opened, Tempo, tick
  <2>. QED
    BY <2>3, <2>4
<1>5. CASE Farewell
  <2>1. Issue("stop") /\ pc = "bye" /\ pc' = "closing"
    BY <1>5 DEF Farewell, Goto
  <2>2. /\ wire' \in [path : Paths \cup {"none"}, stage : Stages, status : Statuses]
        /\ wire'.path = "stop"
    BY <1>1, <2>1, Issued
  <2>3. TypeOK'
    BY <1>5, <2>1, <2>2 DEF Farewell, TypeOK, TypeOKClient, tick, server
  <2>4. RejectedKeyIsNotRetried' /\ Requests' /\ Opened' /\ Tempo'
    BY <1>5, <2>1, <2>2 DEF Farewell, RejectedKeyIsNotRetried, Requests, Opened, Tempo, tick
  <2>. QED
    BY <2>3, <2>4
<1>. QED
  BY <1>2, <1>3, <1>4, <1>5

\* The steps that take an answer.  Only a good one to a start opens the session.
LEMMA AnsweredInv == Inv /\ (SyncTempo \/ SessionOpened \/ FramePosted \/ Exit) => Inv'
<1>. SUFFICES ASSUME Inv, SyncTempo \/ SessionOpened \/ FramePosted \/ Exit PROVE Inv'
  OBVIOUS
<1>. USE DEF Inv
<1>1. PICK s \in Statuses : Returns(s)
  BY DEF SyncTempo, SessionOpened, FramePosted, Exit
<1>2. /\ wire' = NoRequest /\ faults' \in 0..MaxFaults /\ late' \subseteq Paths
      /\ heard \subseteq heard' /\ heard' \subseteq Paths
  BY <1>1, Returned
<1>3. wire' \in [path : Paths \cup {"none"}, stage : Stages, status : Statuses] /\ wire'.path = "none"
  BY <1>2, NoRequestTyped DEF NoRequest
<1>4. CASE SyncTempo
  <2>1. \/ pc = "hello" /\ pc' = "top"
        \/ pc = "resync" /\ pc' = "sleep"
    BY <1>4 DEF SyncTempo, Goto
  <2>2. interval_ms_ \in Nat /\ interval_ms_ >= kMinIntervalMs /\ interval_ms_ <= kMaxIntervalMs
    BY <2>1 DEF TypeOK, Tempo
  <2>3. interval_ms_' \in Nat /\ interval_ms_' >= kMinIntervalMs /\ interval_ms_' <= kMaxIntervalMs
    <3>1. \/ UNCHANGED interval_ms_
          \/ \E named \in NamedIntervals : TempoInRange(named) /\ interval_ms_' = named
      BY <1>4 DEF SyncTempo
    <3>2. \A named \in NamedIntervals : TempoInRange(named) =>
            named \in Nat /\ named >= kMinIntervalMs /\ named <= kMaxIntervalMs
      <4>1. NamedIntervals \subseteq Int
        BY PaceAssumption
      <4>. QED
        BY <4>1, Paces DEF TempoInRange
    <3>. QED
      BY <2>2, <3>1, <3>2
  <2>4. TypeOK'
    BY <1>2, <1>3, <1>4, <2>1, <2>3 DEF SyncTempo, TypeOK, TypeOKClient
  <2>5. RejectedKeyIsNotRetried' /\ Requests' /\ Opened'
    BY <1>2, <1>3, <1>4, <2>1 DEF SyncTempo, RejectedKeyIsNotRetried, Requests, Opened
  <2>6. Tempo'
    BY <1>4, <2>1, <2>3 DEF SyncTempo, Tempo
  <2>. QED
    BY <2>4, <2>5, <2>6
<1>5. CASE SessionOpened
  <2>1. PICK t \in Statuses :
          /\ Returns(t)
          /\ IF t = "ok" THEN pc' = "grab" /\ session_open_' = TRUE /\ UNCHANGED result
                         ELSE pc' = "check" /\ result' = t /\ UNCHANGED session_open_
    BY <1>5 DEF SessionOpened
  <2>2. pc = "open"
    BY <1>5 DEF SessionOpened
  <2>3. t = "ok" => "start" \in heard'
    BY <2>1, <2>2, Returned DEF Requests
  <2>4. TypeOK'
    BY <1>2, <1>3, <1>5, <2>1 DEF SessionOpened, TypeOK, TypeOKClient
  <2>5. RejectedKeyIsNotRetried' /\ Requests' /\ Opened' /\ Tempo'
    BY <1>2, <1>3, <1>5, <2>1, <2>2, <2>3 DEF SessionOpened, RejectedKeyIsNotRetried, Requests, Opened, Tempo
  <2>. QED
    BY <2>4, <2>5
<1>6. CASE FramePosted
  <2>1. pc = "upload" /\ pc' = "check" /\ result' \in Statuses
    BY <1>6 DEF FramePosted, Goto
  <2>2. TypeOK'
    BY <1>2, <1>3, <1>6, <2>1 DEF FramePosted, TypeOK, TypeOKClient
  <2>3. RejectedKeyIsNotRetried' /\ Requests' /\ Opened' /\ Tempo'
    BY <1>2, <1>3, <1>6, <2>1 DEF FramePosted, RejectedKeyIsNotRetried, Requests, Opened, Tempo
  <2>. QED
    BY <2>2, <2>3
<1>7. CASE Exit
  <2>1. pc = "closing" /\ pc' = "exited"
    BY <1>7 DEF Exit, Goto
  <2>2. TypeOK'
    BY <1>2, <1>3, <1>7, <2>1 DEF Exit, TypeOK, TypeOKClient
  <2>3. RejectedKeyIsNotRetried' /\ Requests' /\ Opened' /\ Tempo'
    BY <1>2, <1>3, <1>7, <2>1 DEF Exit, RejectedKeyIsNotRetried, Requests, Opened, Tempo
  <2>. QED
    BY <2>2, <2>3
<1>. QED
  BY <1>4, <1>5, <1>6, <1>7

\* The verdict on a tick: its pause is long enough and bounded, and a rejection ends the loop.
LEMMA JudgedInv == Inv /\ (FrameSent \/ KeyRejected \/ RateLimited \/ SendFailed) => Inv'
<1>. SUFFICES ASSUME Inv, FrameSent \/ KeyRejected \/ RateLimited \/ SendFailed PROVE Inv'
  OBVIOUS
<1>. USE DEF Inv
<1>1. /\ pc = "judge" /\ pc' \in {"resync", "sleep", "leave"} /\ health_' \in Healths
      /\ (health_' = "KeyRejected" => pc' = "leave")
      /\ UNCHANGED <<ui, stop_, session_open_, interval_ms_, result, heard, server, runs, client>>
  BY DEF FrameSent, KeyRejected, RateLimited, SendFailed, Judged, JudgeUnchanged, Healths
<1>2. /\ interval_ms_ \in Nat /\ interval_ms_ >= kMinIntervalMs /\ interval_ms_ <= kMaxIntervalMs
      /\ wait \in Nat /\ wait >= kMinIntervalMs /\ wait <= Longest
      /\ failures \in Nat /\ frames \in Nat /\ frames \in 0..(kFramesBetweenTempoSync - 1)
      /\ wire = NoRequest
  BY <1>1 DEF TypeOK, Tempo, Requests
<1>3. /\ wait' \in Nat /\ wait' >= kMinIntervalMs /\ wait' <= Longest /\ failures' \in Nat
      /\ frames' \in 0..(kFramesBetweenTempoSync - 1)
  <2>1. CASE FrameSent
    <3>1. (frames + 1) % kFramesBetweenTempoSync \in 0..(kFramesBetweenTempoSync - 1)
      <4>1. \A a \in Nat, d \in Nat \ {0} : a % d \in 0..(d - 1)
        OBVIOUS
      <4>2. frames + 1 \in Nat /\ kFramesBetweenTempoSync \in Nat \ {0}
        BY <1>2, Paces
      <4>. QED
        BY <4>1, <4>2, Zenon
    <3>. QED
      BY <1>2, <2>1, <3>1 DEF FrameSent
  <2>2. CASE KeyRejected
    BY <1>2, <2>2 DEF KeyRejected
  <2>3. CASE RateLimited
    BY <1>2, <2>3, Paces, LongestBounds DEF RateLimited, Greatest
  <2>4. CASE SendFailed
    <3>1. failures' \in Nat \ {0} /\ wait' = Backoff(interval_ms_, failures') /\ frames' = frames
      BY <1>2, <2>4 DEF SendFailed
    <3>. QED
      BY <1>2, <3>1, BackoffIsBounded, Paces, LongestBounds
  <2>. QED
    BY <2>1, <2>2, <2>3, <2>4
<1>4. TypeOK'
  BY <1>1, <1>3 DEF TypeOK, TypeOKClient, server, client
<1>5. RejectedKeyIsNotRetried' /\ Requests' /\ Opened'
  BY <1>1, <1>2 DEF RejectedKeyIsNotRetried, Requests, Opened, NoRequest, client
<1>6. Tempo'
  BY <1>1, <1>2, <1>3 DEF Tempo
<1>. QED
  BY <1>4, <1>5, <1>6

\* The steps that only move the worker on.
LEMMA MovingInv == Inv /\ (NothingToSend \/ CheckStop \/ Sleep \/ Leave) => Inv'
<1>. SUFFICES ASSUME Inv, NothingToSend \/ CheckStop \/ Sleep \/ Leave PROVE Inv'
  OBVIOUS
<1>. USE DEF Inv
<1>1. /\ \/ pc = "grab" /\ pc' = "check"
         \/ pc = "check" /\ pc' \in {"leave", "sleep", "judge"}
         \/ pc = "sleep" /\ pc' \in {"leave", "top"}
         \/ pc = "leave" /\ pc' = "bye"
      /\ health_' \in Healths /\ (health_' = "KeyRejected" => health_ = "KeyRejected")
      /\ result' \in Statuses \cup {"unsent"} /\ cancelled' \in BOOLEAN
      /\ UNCHANGED <<ui, stop_, session_open_, interval_ms_, failures, frames, wait, heard,
                     server, runs, wire>>
  BY DEF NothingToSend, CheckStop, Sleep, Leave, Goto, ClearCancel, Healths, TypeOK, TypeOKClient,
         tick, client
<1>2. wire = NoRequest
  BY <1>1 DEF Requests
<1>3. TypeOK'
  BY <1>1 DEF TypeOK, TypeOKClient, server
<1>4. RejectedKeyIsNotRetried' /\ Requests' /\ Opened' /\ Tempo'
  BY <1>1, <1>2 DEF RejectedKeyIsNotRetried, Requests, Opened, Tempo, NoRequest
<1>. QED
  BY <1>3, <1>4

LEMMA StepInv == Inv /\ [Next]_vars => Inv'
<1>. SUFFICES ASSUME Inv, [Next]_vars PROVE Inv'
  OBVIOUS
<1>1. CASE UNCHANGED vars
  BY <1>1 DEF vars, tick, server, client, Inv, TypeOK, TypeOKClient, RejectedKeyIsNotRetried,
              Requests, Opened, Tempo
<1>. QED
  BY <1>1, UIInv, ServerInv, IssuingInv, AnsweredInv, JudgedInv, MovingInv DEF Next, Worker

LEMMA InvHolds == Spec => []Inv
  BY InitInv, StepInv, PTL DEF Spec

\* In every run the worker's variables keep to their values, its pauses are never shorter than
\* the shortest tempo nor longer than the longest of the tempo, the backoff cap and the
\* rate-limit pause, and after a rejected key it asks for nothing but the end of the session.
THEOREM EyesAreSafe == Spec => []VisionInvariant
<1>1. Inv => VisionInvariant
  BY DEF Inv, Tempo, NeverHammers, NeverDozes, VisionInvariant
<1>. QED
  BY <1>1, InvHolds, PTL

\* No frame leaves in a run whose own session was not acknowledged, whatever earlier runs,
\* stale polls, restarts of the server and aborted requests left behind.
THEOREM FramesFollowTheSession == Spec => []FramesBehindSession
<1>1. Inv => FramesBehindSession
  <2>. SUFFICES ASSUME Inv, wire.path = "frame" PROVE "start" \in heard
    BY DEF FramesBehindSession
  <2>1. pc = "upload"
    BY DEF Inv, Requests, NoRequest
  <2>. QED
    BY <2>1 DEF Inv, Opened
<1>. QED
  BY <1>1, InvHolds, PTL
=============================================================================
