---------------------------- MODULE VadSegmenter ----------------------------
(***************************************************************************)
(* Cutting the stream of samples into utterances (audio/vad-segmenter).    *)
(* A sample is its position in the stream, and lasts a millisecond: one    *)
(* unit serves for the sizes in samples and the times in milliseconds.     *)
(* The model's verdict on a window is one of the three classes the two     *)
(* thresholds make of it, whatever the window holds.                       *)
(***************************************************************************)
EXTENDS Integers, Sequences

CONSTANTS
    kWindow, kPreRollMs, kPostRollMs, kMinSegmentMs, kMaxSegmentMs, kSilenceCloseMs,
    kVoiceEnterWindows, kResetAfterSilentWindows,
    MaxStream    \* bound: samples in the stream

\* How the code's numbers lie to each other: the pre-roll holds the windows
\* it takes to agree there is speech, a pause fits in a segment, and a segment
\* cut for its length is no cough.
ASSUME SizeAssumption ==
    /\ {kWindow, kPreRollMs, kPostRollMs, kMinSegmentMs, kMaxSegmentMs, kSilenceCloseMs,
        kVoiceEnterWindows, kResetAfterSilentWindows, MaxStream} \subseteq Nat \ {0}
    /\ kVoiceEnterWindows * kWindow <= kPreRollMs
    /\ kPreRollMs + kSilenceCloseMs < kMaxSegmentMs
    /\ kMinSegmentMs <= kMaxSegmentMs

Verdicts == {"low", "middle", "high"}   \* below the exit threshold, between, at the enter threshold

VARIABLES
    window_,        \* samples in the window under construction
    pre_roll_, pre_roll_head_, pre_roll_filled_,
    segment_,       \* positions; the silence of the post-roll is left out
    speaking_, consecutive_voice_, silence_ms_, silent_windows_,
    remembers,      \* the LSTM's state holds sound heard since the last reset
    pos,            \* history: samples so far
    voicedFrom,     \* history: where the unbroken run of "high" windows began, 0 if none
    trigger,        \* history: where the run that started this segment began
    saidUpTo,       \* history: the last sample of the segment's speech
    sent,           \* history: the last segment handed over, with its duration and its speech
    sentUpTo        \* history: its last sample, 0 before the first

ring == <<pre_roll_, pre_roll_head_, pre_roll_filled_>>
segmenterVars == <<window_, ring, segment_, speaking_, consecutive_voice_, silence_ms_, silent_windows_,
                   remembers, pos, voicedFrom, trigger, saidUpTo, sent, sentUpTo>>

NoSegment == [samples |-> << >>, duration |-> 0, speech |-> 0]

SegmenterInit ==
    /\ window_ = 0
    /\ pre_roll_ = [i \in 0..kPreRollMs-1 |-> 0] /\ pre_roll_head_ = 0 /\ pre_roll_filled_ = 0
    /\ segment_ = << >> /\ speaking_ = FALSE
    /\ consecutive_voice_ = 0 /\ silence_ms_ = 0 /\ silent_windows_ = 0 /\ remembers = FALSE
    /\ pos = 0 /\ voicedFrom = 0 /\ trigger = 0 /\ saidUpTo = 0
    /\ sent = NoSegment /\ sentUpTo = 0

Lesser(a, b) == IF a < b THEN a ELSE b

\* What push() does with every sample.
Heard ==
    /\ pos < MaxStream /\ pos' = pos + 1
    /\ pre_roll_' = [pre_roll_ EXCEPT ![pre_roll_head_] = pos + 1]
    /\ pre_roll_head_' = (pre_roll_head_ + 1) % kPreRollMs
    /\ pre_roll_filled_' = Lesser(pre_roll_filled_ + 1, kPreRollMs)

Recorded == IF speaking_ THEN Append(segment_, pos + 1) ELSE segment_

\* A sample that does not fill the window.
Sample ==
    /\ window_ + 1 < kWindow
    /\ Heard /\ segment_' = Recorded
    /\ window_' = window_ + 1
    /\ UNCHANGED <<speaking_, consecutive_voice_, silence_ms_, silent_windows_, remembers,
                   voicedFrom, trigger, saidUpTo, sent, sentUpTo>>

-----------------------------------------------------------------------------
(* The sample that does: the window's peak, then predict(), then the        *)
(* verdict.  Every case below begins with this.                             *)

\* Mutant: sound does not start the count again.
CountAllSilence(silent) == IF silent THEN silent_windows_ + 1 ELSE silent_windows_
CountSilence(silent) == IF silent THEN silent_windows_ + 1 ELSE 0

WindowFull(silent) ==
    /\ window_ + 1 = kWindow /\ window_' = 0
    /\ Heard
    /\ silent_windows_' = CountSilence(silent)

\* What the LSTM remembers after the reset of a long silence and predict().
AfterPredict(silent) ==
    IF silent THEN remembers /\ silent_windows_' # kResetAfterSilentWindows ELSE TRUE

RunOfVoice(p) ==
    voicedFrom' = IF p # "high" THEN 0
                  ELSE IF voicedFrom = 0 THEN pos' - kWindow + 1 ELSE voicedFrom

\* Mutant: one window too few.
AgreedEarly == consecutive_voice_ + 2 >= kVoiceEnterWindows
\* So many windows of voice in a row settle it.
Agreed == consecutive_voice_ + 1 >= kVoiceEnterWindows

\* Not speaking, and not yet agreed that somebody does.
Listen(p, silent) ==
    /\ ~speaking_
    /\ p = "high" => ~Agreed
    /\ WindowFull(silent) /\ RunOfVoice(p)
    /\ consecutive_voice_' = IF p = "high" THEN consecutive_voice_ + 1 ELSE 0
    /\ remembers' = AfterPredict(silent)
    /\ UNCHANGED <<segment_, speaking_, silence_ms_, trigger, saidUpTo, sent, sentUpTo>>

\* Mutant: the ring is read from the sample after its oldest.
PreRollLateByOne ==
    LET start == (pre_roll_head_' + kPreRollMs - pre_roll_filled_') % kPreRollMs IN
    [i \in 1..pre_roll_filled_' |-> pre_roll_'[(start + i) % kPreRollMs]]

\* "The pre-roll, oldest first."
PreRoll ==
    LET start == (pre_roll_head_' + kPreRollMs - pre_roll_filled_') % kPreRollMs IN
    [i \in 1..pre_roll_filled_' |-> pre_roll_'[(start + i - 1) % kPreRollMs]]

\* Mutant: the segment starts with the window that settled it.
SegmentFromHere == [i \in 1..kWindow |-> pos' - kWindow + i]
FirstSamples == PreRoll

start_segment(silent) ==
    /\ ~speaking_ /\ Agreed
    /\ WindowFull(silent) /\ RunOfVoice("high")
    /\ speaking_' = TRUE /\ consecutive_voice_' = 0 /\ silence_ms_' = 0
    /\ segment_' = FirstSamples
    /\ remembers' = AfterPredict(silent)
    /\ trigger' = voicedFrom' /\ saidUpTo' = pos'
    /\ UNCHANGED <<sent, sentUpTo>>

Silence(p) == IF p = "low" THEN silence_ms_ + kWindow ELSE 0
Speech(p) == IF p = "low" THEN saidUpTo ELSE pos'

TooLong == Len(segment_') >= kMaxSegmentMs

Speak(p, silent) ==
    /\ speaking_
    /\ WindowFull(silent) /\ RunOfVoice(p)
    /\ Silence(p) < kSilenceCloseMs
    /\ segment_' = Recorded /\ ~TooLong
    /\ silence_ms_' = Silence(p) /\ saidUpTo' = Speech(p)
    /\ remembers' = AfterPredict(silent)
    /\ UNCHANGED <<speaking_, consecutive_voice_, trigger, sent, sentUpTo>>

\* The duration the filter looks at counts the post-roll.
close_segment(p, silent) ==
    /\ speaking_
    /\ WindowFull(silent) /\ RunOfVoice(p)
    /\ segment_' = << >>
    /\ Silence(p) >= kSilenceCloseMs \/ Len(Recorded) >= kMaxSegmentMs
    /\ speaking_' = FALSE /\ consecutive_voice_' = 0 /\ silence_ms_' = 0
    /\ remembers' = FALSE
    /\ LET duration == Len(Recorded) + kPostRollMs IN
       IF duration >= kMinSegmentMs
       THEN /\ sent' = [samples |-> Recorded, duration |-> duration,
                        speech |-> Speech(p) - trigger + 1]
            /\ sentUpTo' = pos'
       ELSE UNCHANGED <<sent, sentUpTo>>
    /\ UNCHANGED <<trigger, saidUpTo>>

SegmenterNext ==
    \/ Sample
    \/ \E silent \in BOOLEAN :
         \/ start_segment(silent)
         \/ \E p \in Verdicts : Listen(p, silent) \/ Speak(p, silent) \/ close_segment(p, silent)

SegmenterSpec == SegmenterInit /\ [][SegmenterNext]_segmenterVars

-----------------------------------------------------------------------------
\* Every variable keeps to its range.  "A monologue still reaches the
\* transcriber in pieces" (vad-segmenter.cpp:165-166): no piece outgrows the
\* limit by as much as a window.
SegmenterTypeOK ==
    /\ window_ \in 0..kWindow-1
    /\ pre_roll_ \in [0..kPreRollMs-1 -> 0..MaxStream]
    /\ pre_roll_head_ \in 0..kPreRollMs-1 /\ pre_roll_filled_ \in 0..kPreRollMs
    /\ segment_ \in Seq(1..MaxStream) /\ Len(segment_) < kMaxSegmentMs + kWindow
    /\ sent.duration < kMaxSegmentMs + kWindow + kPostRollMs
    /\ speaking_ \in BOOLEAN /\ remembers \in BOOLEAN
    /\ consecutive_voice_ \in 0..kVoiceEnterWindows-1
    /\ silence_ms_ \in Nat /\ silence_ms_ < kSilenceCloseMs /\ silent_windows_ \in Nat

\* An utterance is one unbroken stretch of what was heard, no sample twice and
\* none left out, whether it came out of the pre-roll ring or after it.
OneStretch(s) == \A i \in 1..Len(s)-1 : s[i+1] = s[i] + 1
UtterancesAreUnbroken ==
    /\ OneStretch(segment_) /\ OneStretch(sent.samples)
    /\ speaking_ => segment_[Len(segment_)] = pos

\* "The segment starts where it starts, not where the model finally agreed
\* there was speech" (vad-segmenter.cpp:178-179): of the run of voice that
\* started a segment nothing is missing, unless it is in the segment before,
\* as after a forced cut.
Greater(a, b) == IF a < b THEN b ELSE a
AttackIsKept == speaking_ => segment_[1] <= Greater(trigger, sentUpTo + 1)

\* The pre-roll "keeps the attack of the first word" (vad-segmenter.hpp:46), not the last
\* words of the utterance before: the next one begins with a count of its own, also when a
\* cut came in the middle of a word, so that what two utterances share is the pre-roll
\* less the windows it takes to agree on speech.  In the code it is some 100 ms.
RepeatsAreShort ==
    speaking_ => sentUpTo + 1 - segment_[1] <= kPreRollMs - kVoiceEnterWindows * kWindow

\* "A long silence resets the LSTM" (vad-segmenter.hpp:58-59): after one, no
\* window is judged with a state left over from the sound before it.
LongSilenceIsForgotten == silent_windows_ >= kResetAfterSilentWindows => ~remembers

\* What every state of the segmenter is: its variables in range, its model's memory recent.
SegmenterInvariant == SegmenterTypeOK /\ LongSilenceIsForgotten

\* "kMinSegmentMs: shorter than this is a cough" (vad-segmenter.hpp:48): what
\* is handed over has that much speech in it.  Not so: the duration that is compared
\* counts the pre-roll, the silence that closed the segment and the post-roll
\* (README, section 4).
CoughsAreNotSent == sent # NoSegment => sent.speech >= kMinSegmentMs
=============================================================================
