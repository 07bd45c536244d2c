----------------------------- MODULE AudioLoop -----------------------------
(***************************************************************************)
(* The ears (audio/audio-loop): the audio thread fills the tap, the VAD    *)
(* worker cuts what it reads into utterances, the sender posts them.  The  *)
(* UI thread starts and stops everything; either worker may give up on its *)
(* own, and says why in the health the dock shows.                         *)
(*                                                                         *)
(* An utterance is a number, in the order spoken.  The ring is the queue   *)
(* SampleQueue promises, in utterances.  A condition variable is a blocked *)
(* thread and the notification that unblocks it.                           *)
(***************************************************************************)
EXTENDS Integers, Sequences, SequencesExt, BackendClient

CONSTANTS
    kQueueLimit,
    RingSize,    \* utterances the tap's ring holds
    MaxSpeech,   \* bound: utterances ever spoken
    MaxRuns,     \* bound: how many times the UI starts the loop
    MaxFaults    \* bound: answers that are not 2xx, requests broken on the way

ASSUME QueueAssumption == kQueueLimit \in Nat \ {0} /\ RingSize \in Nat \ {0}
ASSUME BoundAssumption == MaxSpeech \in Nat /\ MaxRuns \in Nat /\ MaxFaults \in Nat

Healths == {"Idle", "Listening", "SpeechDisabled", "VadFailed", "Retrying", "KeyRejected"}
GivenUp == {"SpeechDisabled", "VadFailed", "KeyRejected"}

VARIABLES
    ui,        \* the UI thread inside stop()
    vad, sender,   \* where the two workers are; "absent" when not joinable
    running_,  \* the tap's callback is on the audio thread's list
    ring,
    hand,      \* the utterance the VAD worker has cut and not queued yet
    stop_, queue_, health_,
    segment,   \* the sender's
    paused,    \* before paused_until_ns
    result,
    runs, faults,
    spoken,    \* history: utterances so far
    before,    \* history: utterances spoken before this run
    cut        \* history: utterances this run queued

tap  == <<running_, ring, spoken>>
vars == <<ui, vad, sender, tap, hand, stop_, queue_, health_, segment, paused, result,
          runs, faults, before, cut, cancelled, wire>>

Init ==
    /\ ui = "free" /\ vad = "absent" /\ sender = "absent"
    /\ running_ = FALSE /\ ring = << >> /\ hand = 0
    /\ stop_ = FALSE /\ queue_ = << >> /\ health_ = "Idle"
    /\ segment = 0 /\ paused = FALSE /\ result = "ok"
    /\ runs = 0 /\ faults = 0 /\ spoken = 0 /\ before = 0 /\ cut = {}
    /\ cancelled = FALSE /\ wire = NoRequest

\* notify_one / notify_all on queue_cv_; only the sender waits there.
NotifySender == sender' = IF sender = "blocked" THEN "wait" ELSE sender

-----------------------------------------------------------------------------
(* The audio thread *)

Speak ==
    /\ running_ /\ spoken < MaxSpeech
    /\ spoken' = spoken + 1
    /\ ring' = IF Len(ring) < RingSize THEN Append(ring, spoken + 1) ELSE ring
    /\ UNCHANGED <<ui, vad, sender, running_, hand, stop_, queue_, health_, segment, paused,
                   result, runs, faults, before, cut, cancelled, wire>>

-----------------------------------------------------------------------------
(* The UI thread *)

\* Mutant: the backlog of the previous stream is kept.
StartKeepingQueue ==
    /\ ui = "free" /\ vad = "absent" /\ runs < MaxRuns
    /\ Configure
    /\ stop_' = FALSE /\ health_' = "Listening"
    /\ running_' = TRUE /\ ring' = << >>
    /\ vad' = "load" /\ sender' = "wait" /\ paused' = FALSE
    /\ runs' = runs + 1 /\ before' = spoken /\ cut' = {}
    /\ UNCHANGED <<ui, hand, queue_, segment, result, faults, spoken, wire>>

\* start() with a key and a track.  The workers exist only at the end of it.
Start ==
    /\ ui = "free" /\ vad = "absent" /\ runs < MaxRuns
    /\ Configure
    /\ stop_' = FALSE /\ queue_' = << >> /\ health_' = "Listening"
    /\ running_' = TRUE /\ ring' = << >>
    /\ vad' = "load" /\ sender' = "wait" /\ paused' = FALSE
    /\ runs' = runs + 1 /\ before' = spoken /\ cut' = {}
    /\ UNCHANGED <<ui, hand, segment, result, faults, spoken, wire>>

UIStep(from, to) == ui = from /\ ui' = to

StopTap ==
    /\ UIStep("free", "tapped") /\ vad # "absent"
    /\ running_' = FALSE
    /\ UNCHANGED <<vad, sender, ring, hand, stop_, queue_, health_, segment, paused, result,
                   runs, faults, spoken, before, cut, cancelled, wire>>

StopRaise ==
    /\ UIStep("tapped", "raised")
    /\ stop_' = TRUE
    /\ UNCHANGED <<vad, sender, tap, hand, queue_, health_, segment, paused, result,
                   runs, faults, before, cut, cancelled, wire>>

StopCancel ==
    /\ UIStep("raised", "cancelled")
    /\ Cancel
    /\ UNCHANGED <<vad, sender, tap, hand, stop_, queue_, health_, segment, paused, result,
                   runs, faults, before, cut, wire>>

\* Mutant: only the VAD worker is woken.
StopNotifyOne ==
    /\ UIStep("cancelled", "joining")
    /\ UNCHANGED <<vad, sender, tap, hand, stop_, queue_, health_, segment, paused, result,
                   runs, faults, before, cut, cancelled, wire>>

StopNotify ==
    /\ UIStep("cancelled", "joining")
    /\ NotifySender
    /\ UNCHANGED <<vad, tap, hand, stop_, queue_, health_, segment, paused, result,
                   runs, faults, before, cut, cancelled, wire>>

StopJoin ==
    /\ UIStep("joining", "free") /\ vad = "exited" /\ sender = "exited"
    /\ vad' = "absent" /\ sender' = "absent"
    /\ health_' = "Idle"
    /\ UNCHANGED <<tap, hand, stop_, queue_, segment, paused, result, runs, faults,
                   before, cut, cancelled, wire>>

-----------------------------------------------------------------------------
(* The VAD worker *)

VadStep(from, to) == vad = from /\ vad' = to

VadLoaded ==
    /\ VadStep("load", "listen")
    /\ UNCHANGED <<ui, sender, tap, hand, stop_, queue_, health_, segment, paused, result,
                   runs, faults, before, cut, cancelled, wire>>

\* give_up(): the health, then the flag, then the notifications.
VadFails ==
    /\ VadStep("load", "raise")
    /\ health_' = "VadFailed"
    /\ UNCHANGED <<ui, sender, tap, hand, stop_, queue_, segment, paused, result,
                   runs, faults, before, cut, cancelled, wire>>

VadRaises ==
    /\ VadStep("raise", "notify")
    /\ stop_' = TRUE
    /\ UNCHANGED <<ui, sender, tap, hand, queue_, health_, segment, paused, result,
                   runs, faults, before, cut, cancelled, wire>>

VadNotifies ==
    /\ VadStep("notify", "exited")
    /\ NotifySender
    /\ UNCHANGED <<ui, tap, hand, stop_, queue_, health_, segment, paused, result,
                   runs, faults, before, cut, cancelled, wire>>

\* The loop's check of stop_, then a read and a push without the lock.  The
\* segmenter may find nothing to send in what it was given.
VadRead ==
    /\ vad = "listen" /\ ~stop_ /\ ring # << >>
    /\ ring' = Tail(ring)
    /\ \/ vad' = "cut" /\ hand' = Head(ring)
       \/ UNCHANGED <<vad, hand>>
    /\ UNCHANGED <<ui, sender, running_, stop_, queue_, health_, segment, paused, result,
                   runs, faults, spoken, before, cut, cancelled, wire>>

\* Mutant: a full queue refuses the new segment.
PushOldestWins(q, u) == IF Len(q) >= kQueueLimit THEN q ELSE Append(q, u)
Push(q, u) == Append(IF Len(q) >= kQueueLimit THEN Tail(q) ELSE q, u)

Enqueue ==
    /\ VadStep("cut", "queued")
    /\ queue_' = Push(queue_, hand)
    /\ cut' = cut \cup {hand} /\ hand' = 0
    /\ UNCHANGED <<ui, sender, tap, stop_, health_, segment, paused, result,
                   runs, faults, before, cancelled, wire>>

\* Mutant: the sender is left to find the segment on its own.
EnqueueSilently ==
    /\ VadStep("queued", "listen")
    /\ UNCHANGED <<ui, sender, tap, hand, stop_, queue_, health_, segment, paused, result,
                   runs, faults, before, cut, cancelled, wire>>

EnqueueNotify ==
    /\ VadStep("queued", "listen")
    /\ NotifySender
    /\ UNCHANGED <<ui, tap, hand, stop_, queue_, health_, segment, paused, result,
                   runs, faults, before, cut, cancelled, wire>>

VadLeaves ==
    /\ VadStep("listen", "exited") /\ stop_
    /\ UNCHANGED <<ui, sender, tap, hand, stop_, queue_, health_, segment, paused, result,
                   runs, faults, before, cut, cancelled, wire>>

-----------------------------------------------------------------------------
(* The sender *)

SenderStep(from, to) == sender = from /\ sender' = to

\* queue_cv_.wait with its predicate; a stop goes before a segment.
SenderWaits ==
    /\ SenderStep("wait", "blocked") /\ ~stop_ /\ queue_ = << >>
    /\ UNCHANGED <<ui, vad, tap, hand, stop_, queue_, health_, segment, paused, result,
                   runs, faults, before, cut, cancelled, wire>>

SenderLeaves ==
    /\ SenderStep("wait", "exited") /\ stop_
    /\ UNCHANGED <<ui, vad, tap, hand, stop_, queue_, health_, segment, paused, result,
                   runs, faults, before, cut, cancelled, wire>>

SenderTakes ==
    /\ SenderStep("wait", "have") /\ ~stop_ /\ queue_ # << >>
    /\ segment' = Head(queue_) /\ queue_' = Tail(queue_)
    /\ UNCHANGED <<ui, vad, tap, hand, stop_, health_, paused, result,
                   runs, faults, before, cut, cancelled, wire>>

\* "What arrives during a pause is dropped, not kept for later."
SenderDrops ==
    /\ SenderStep("have", "wait") /\ paused
    /\ UNCHANGED <<ui, vad, tap, hand, stop_, queue_, health_, segment, paused, result,
                   runs, faults, before, cut, cancelled, wire>>

SenderPosts ==
    /\ SenderStep("have", "post") /\ ~paused
    /\ Issue("audio")
    /\ UNCHANGED <<ui, vad, tap, hand, stop_, queue_, health_, segment, paused, result,
                   runs, faults, before, cut, cancelled>>

Posted ==
    /\ SenderStep("post", "judge")
    /\ \E s \in Statuses :
         /\ \/ (Answer(s) \/ Refusal(s) \/ Abort(s)) /\ UNCHANGED faults
            \/ Break(s) /\ faults < MaxFaults /\ faults' = faults + 1
         /\ result' = s
    /\ Hangup
    /\ UNCHANGED <<ui, vad, tap, hand, stop_, queue_, health_, segment, paused,
                   runs, before, cut, cancelled>>

SenderHealthy ==
    /\ SenderStep("judge", "wait") /\ result = "ok"
    /\ health_' = "Listening"
    /\ UNCHANGED <<ui, vad, tap, hand, stop_, queue_, segment, paused, result,
                   runs, faults, before, cut, cancelled, wire>>

SenderRateLimited ==
    /\ SenderStep("judge", "wait") /\ result = "limited"
    /\ paused' = TRUE /\ health_' = "Retrying"
    /\ UNCHANGED <<ui, vad, tap, hand, stop_, queue_, segment, result,
                   runs, faults, before, cut, cancelled, wire>>

\* A request the stop aborted is not a failure to report.
SenderFailed ==
    /\ SenderStep("judge", "wait") /\ result = "failed"
    /\ health_' = IF cancelled THEN health_ ELSE "Retrying"
    /\ UNCHANGED <<ui, vad, tap, hand, stop_, queue_, segment, paused, result,
                   runs, faults, before, cut, cancelled, wire>>

SenderGivesUp ==
    /\ SenderStep("judge", "raise") /\ result \in Rejections
    /\ health_' = IF result = "forbidden" THEN "SpeechDisabled" ELSE "KeyRejected"
    /\ UNCHANGED <<ui, vad, tap, hand, stop_, queue_, segment, paused, result,
                   runs, faults, before, cut, cancelled, wire>>

\* give_up() notifies vad_cv_ too, whose wait times out anyway; the sender returns.
SenderRaises ==
    /\ SenderStep("raise", "exited")
    /\ stop_' = TRUE
    /\ UNCHANGED <<ui, vad, tap, hand, queue_, health_, segment, paused, result,
                   runs, faults, before, cut, cancelled, wire>>

-----------------------------------------------------------------------------
\* The server answers; ten seconds pass.
Serve ==
    /\ \E s \in Statuses :
         /\ Served(s)
         /\ IF s = "ok" THEN UNCHANGED faults
                        ELSE faults < MaxFaults /\ faults' = faults + 1
    /\ UNCHANGED <<ui, vad, sender, tap, hand, stop_, queue_, health_, segment, paused, result,
                   runs, before, cut, cancelled>>

PauseOver ==
    /\ paused /\ paused' = FALSE
    /\ UNCHANGED <<ui, vad, sender, tap, hand, stop_, queue_, health_, segment, result,
                   runs, faults, before, cut, cancelled, wire>>

-----------------------------------------------------------------------------
Stopping == StopRaise \/ StopCancel \/ StopNotify \/ StopJoin
VadWorker == \/ VadLoaded \/ VadFails \/ VadRaises \/ VadNotifies \/ VadRead
             \/ Enqueue \/ EnqueueNotify \/ VadLeaves
Sender == \/ SenderWaits \/ SenderLeaves \/ SenderTakes \/ SenderDrops \/ SenderPosts
          \/ Posted \/ SenderHealthy \/ SenderRateLimited \/ SenderFailed
          \/ SenderGivesUp \/ SenderRaises

Next == Speak \/ Start \/ StopTap \/ Stopping \/ VadWorker \/ Sender \/ Serve \/ PauseOver

Spec == Init /\ [][Next]_vars

\* Threads run, requests end, and the UI finishes a stop() it began.
FairSpec ==
    /\ Spec
    /\ WF_vars(Stopping) /\ WF_vars(VadWorker) /\ WF_vars(Sender) /\ WF_vars(Serve)
    /\ WF_vars(PauseOver)

-----------------------------------------------------------------------------
\* Every variable keeps to its range; the backlog never exceeds its limit.
TypeOK ==
    /\ ui \in {"free", "tapped", "raised", "cancelled", "joining"}
    /\ vad \in {"absent", "load", "listen", "cut", "queued", "raise", "notify", "exited"}
    /\ sender \in {"absent", "wait", "blocked", "have", "post", "judge", "raise", "exited"}
    /\ running_ \in BOOLEAN /\ stop_ \in BOOLEAN /\ paused \in BOOLEAN
    /\ ring \in Seq(1..MaxSpeech) /\ Len(ring) <= RingSize
    /\ queue_ \in Seq(1..MaxSpeech) /\ Len(queue_) <= kQueueLimit
    /\ hand \in 0..MaxSpeech /\ segment \in 0..MaxSpeech
    /\ health_ \in Healths /\ result \in Statuses
    /\ runs \in 0..MaxRuns /\ faults \in 0..MaxFaults
    /\ spoken \in 0..MaxSpeech /\ before \in 0..MaxSpeech /\ cut \subseteq 1..MaxSpeech
    /\ TypeOKClient({"audio"})

\* Nothing said during one stream is posted during the next: the ring is
\* cleared before the callback is added (audio-tap.cpp:129) and the queue
\* before the workers exist (audio-loop.cpp:139), whatever state the last run
\* was left in by a stop or by a worker that gave up.
NoStaleSpeech == wire.path = "audio" => segment > before

\* "Newest wins" (audio-loop.cpp:47-48): the backlog is the latest segments,
\* in the order spoken, with no hole in it; and what is being sent is older
\* than all of it.
NewestWins ==
    /\ \A i, j \in 1..Len(queue_) : i < j => queue_[i] < queue_[j]
    /\ \A u \in cut : queue_ # << >> /\ u >= Head(queue_) => Contains(queue_, u)
    /\ sender \in {"have", "post"} => \A i \in 1..Len(queue_) : segment < queue_[i]

\* What every state of the ears is: their variables in range, their backlog the latest.
AudioInvariant == TypeOK /\ NewestWins

\* AudioHealth "stays put after the workers give up, so the panel can say why
\* the co-host stopped listening" (audio-loop.hpp:33-34): only the UI's stop()
\* takes the reason away, no late answer and no other worker does.
StaysPut ==
    [][(health_ \in GivenUp /\ health_' # health_)
          => (ui = "joining" /\ health_' = "Idle")]_vars

\* "Joins both workers": stop() always gets the UI thread back, whichever
\* worker is blocked, posting, or has already given up.
StopReturns == ui = "tapped" ~> ui = "free"

\* The sender never sleeps on a backlog: what is queued is taken, or the loop ends.
QueueMoves == \A u \in 1..MaxSpeech : Contains(queue_, u) ~> (~Contains(queue_, u) \/ stop_)
=============================================================================
