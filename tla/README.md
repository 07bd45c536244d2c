# A TLA+ model of the Sokaster OBS plugin

The plugin lets an AI co-host see and hear a stream: it grabs frames of a source, cuts speech
out of one OBS audio track, sends both to the server, and shows the server's state in a dock with
a panic button. It is small, and nearly all of its difficulty is in time: five worker threads that
the UI thread must be able to stop without waiting out a request, beside OBS's audio, graphics and
hotkey threads; a lock-free ring; two event queues; and a streamer who edits scenes, outputs and
keys behind the plugin's back.

The modules in this directory translate that code; `PROJECT.json` maps every definition to the
lines it stands for. Paths below are relative to the plugin's `src/` directory.

Run a check with `tlc -workers 2 -config X.cfg MCModule`, a proof with `tlapm X_proofs.tla`.

## 1. Inventory

| Component | State | Operations | Thread | Correct when |
|---|---|---|---|---|
| HTTP client `net/backend-client` | request mutex, cancel flag, key | `configure`, `perform`, `cancel`, `clear_cancel` | the worker that owns it; `cancel` from any | an abort is prompt and hits only what it was meant for |
| Vision loop `vision/vision-loop` | `stop_`, `session_open_`, `health_`, `interval_ms_`; the worker's failures and frame count | `start`, `stop`, `reopen_session`, `run` | worker + UI | frames follow the run's own session; a rejected key is final; the pace is bounded; `stop` returns |
| Frame grabber `vision/frame-grabber`, with `select_source` and `restore_selection` of the vision loop | weak selection and its uuid, `active_`, `shown_`, GPU surfaces | `select`, `set_active`, `grab`, `release_gpu` | worker, graphics, UI | the source is held showing exactly while captured; the two passes of a grab agree; what is watched is what the settings remember |
| Source picker `vision/source-picker` | none | search of the current scene | UI | picks only while nothing is selected |
| Audio ring `audio/audio-tap` (`SampleRing`) | slots, two wrapping counters, dropped | `write`, `read`, `clear` | audio + VAD worker | the consumer gets what the producer put, in order, without a lock |
| Audio tracks `audio/audio-tap` (`tracks`), `AudioLoop::resolve_track`, the dock's ticks | remembered track, every source's mixers | `find_free`, `clear_track`, `set_source_heard`, `resolve_track` | UI | only what was ticked is heard; outputs are not touched |
| Audio loop `audio/audio-loop` | `stop_`, `queue_`, `health_`, pause | `start`, `stop`, VAD worker, sender | audio, 2 workers, UI | nothing stale is sent, newest wins, no lost wakeup, `stop` returns |
| VAD segmenter `audio/vad-segmenter` | pre-roll ring, segment, hysteresis, LSTM memory | `push`, `reset` | VAD worker | utterances are whole and of bounded length |
| Silero VAD `audio/silero-vad` | LSTM state | inference | VAD worker | - |
| Status loop `dock/status-loop` | flags, `state_`, client, cool-down | `start`, `reconfigure`, `poke`, `drop_order`, `stop`, `run` | worker, UI, hotkey | no `DELETE` nobody asked for, no mixed accounts, the dock ends up truthful |
| Sign-in `dock/link-flow` | `cancelled_`, `sink_`, worker | `start`, `cancel`, `run` | worker + UI | one outcome per sign-in, none after a cancel |
| Dock `dock/sokaster-dock` | `linking_`, `server_`, last panel, shown drop | clicks, `applyLinkEvent`, `applyServerState`, `reevaluate` | UI | agrees with the workers it started |
| Overlay finder `dock/overlay-finder` | none kept but the last panel | search, `judge_sound`, three fixes | UI | the button solves what the row complains of |
| Readiness `dock/readiness` | none | the rows, the headline, `needs_link` | UI | no silence without a reason on a row; "on air" is not said lightly |
| Settings file `plugin-config`, hotkeys in `plugin-main` | the Config, the bindings; two files, each with a temporary and a backup | `load`, `set`, `save`, `save_hotkeys` | UI | no crash loses the settings; nothing malformed is used |
| Plugin entry `plugin-main` | whether things were shut down | frontend events, hotkey, unload | UI | nothing outlives EXIT |

**How they meet.** Every worker owns one HTTP client and blocks in it; the UI thread raises a flag
under the worker's mutex, cancels the client *after* releasing it, and joins. Workers answer the dock
through Qt's event queue, so an answer may be behind a click that made it obsolete. The Config is
shared under its own lock and clients hold copies of the key. The status loop reports whether the
server has a session, and the dock then makes the vision loop reopen it. OBS edits routing, scenes
and sources with few signals, so what the plugin decided may be stale when it is used.

**What is hard.** Each hazard is in `PROJECT.json` at its line with the properties for it. In short:
the gap between "flag raised" and "request cancelled"; events already queued at a cancel; a key read
in one place and used from another; notify/wait on condition variables; free-running counters;
padding that counts as speech; OBS routing every new source everywhere; a panel older than the scene.

## 2. Modules

| Module | Translates | Uses |
|---|---|---|
| `BackendClient` | one request in the three steps issue, serve, return, with the cancel flag | - |
| `VisionLoop` | the vision worker, the server's session, the dock's reopen | `BackendClient` |
| `AudioLoop` | the tap, two workers, sender queue | `BackendClient` |
| `StatusLoop` | the poller, the panic button, the dock's snapshots | `BackendClient` |
| `LinkFlow` | the sign-in worker, the dock around it, EXIT and unload | `BackendClient` |
| `SampleRing` | the ring, slot by slot | refines `SampleQueue` |
| `SampleQueue` | the abstract bounded queue | - |
| `AudioTracks` | routing, outputs, profiles, collections, crashes | - |
| `VadSegmenter` | the cutting of utterances, sample by sample | - |
| `FrameGrabber` | selection, showing holds, the two passes of a grab, what the settings remember | - |
| `Readiness` | the rows and the headline as operators on the facts | - |
| `OverlayPanel` | the search, the judgement and the fixes | `Readiness` |
| `SettingsFile` | load, save step by step, the hotkeys, crashes and damage | refines `DurableStore` |
| `DurableStore` | the abstract store: a save happens at one instant, or not | - |
| `Ears_proofs` | the theorems about `AudioTracks` and `AudioLoop`: what the ears listen on and what becomes of it | both |
| `Samples_proofs` | the theorems about `SampleRing` and `VadSegmenter`: the two rings a sample passes | both |
| `OverlayPanel_proofs` | the theorems about `Readiness` and `OverlayPanel` | both |
| `VisionLoop_proofs`, `FrameGrabber_proofs`, `StatusLoop_proofs`, `LinkFlow_proofs`, `SettingsFile_proofs` | the theorems about one module each | the module |

`MC<Module>` gives each its instance. Operators under a comment starting "Mutant:" are
deliberately wrong versions of a definition; no specification uses them. Each is named in `PROJECT.json` with
the property it must break.

### BackendClient
`perform()` is one blocking call in C++, but not one step: `Issue` (a raised cancel refuses it
at once), `Served` (the server acted), then an answer: the server's, or a failure if cancelled,
broken or timed out. An abort may come before or after the server acted, so a request that failed
may have had its effect. `configure()` lifts the cancel, `cancel()` and `clear_cancel()` are plain
stores.

### VisionLoop
`pc` is where `run()` is between two points at which others can act; `ui` is where the UI
thread is inside `stop()` (flag, cancel, join are three steps, as in the code). `session` is the
server's half. `late` holds requests the client gave up on and which the server may still handle.
`Poll`/`ReopenSession` are the status answer and the dock's reaction to it, which may be stale.
`Backoff` keeps the code's capped shift; the interval a server names may be garbage, absent, in or out
of range. `heard` is history: what this run saw acknowledged.

### AudioLoop
The audio thread speaks utterances (numbers) into the ring, which is `SampleQueue`'s promise;
`hand` is a cut not yet queued, `segment` what the sender holds. A worker in `queue_cv_.wait` is
`blocked` until notified, so a lost wakeup is a state in which it stays there. Each worker may give up
(model missing, speech disabled, key rejected): it raises `stop_` and notifies in two steps.

### StatusLoop
`worker` walks `run()`: take the flags, reconfigure if asked, drop if asked, poll (name, token,
beta, orders) and hand the snapshot over. `key` is the Config's, `client_key` the one the client was
configured with. Each part of a snapshot records whose data it is. `reconfigure()` and `stop()` take
several UI steps; the hotkey thread presses at any moment outside the cool-down.

### LinkFlow
`ui`/`why`: where and for whom the UI thread is inside `cancel()`. The worker asks for
a code, waits, polls, and posts to `inbox`; `site` is what the streamer decided. `ShutDown` and
`TearDown` are EXIT and unload. A click is handled when the event queue is empty, which is what a slow human
meets; what the worker posts *during* the handler is what the findings are about.

### AudioTracks
`mixers` is OBS's routing, which the plugin, OBS and the streamer all edit. Three variables are
history: `ticked` (the streamer's own routes), `touched` (tracks the plugin's last step edited)
and `behind` (sources OBS routed since our track was cleared). New sources, another scene collection, and a
crash that takes the routing back to the last save may come at any time.

### VadSegmenter
A sample is its position, a millisecond long. The network's verdict on a window is any of the three
classes the two thresholds make. All the rest - pre-roll ring, hysteresis, forced cut, post-roll,
minimum, reset - is deterministic and translated as it is.

### SampleRing
`write()` looks at `read_pos` once, copies slot by slot and publishes at the end; `read()`
mirrors it. `W` is the counter's modulus, 2^64 in the code; `N` the number of slots. `log` and `out` are history:
what entered and what left. Acquire/release is what makes "publish after copy" the order another
thread sees, and is taken as given.

### FrameGrabber
The graphics thread `stage`s and `map`s in two passes; OBS destroys a source whenever nobody holds a
strong reference, and undoing the deletion makes another source with the same uuid. `showing[s]`
counts the holds the plugin has on a source. `select()` is two steps of the UI thread, as the
worker may render in between; `source_uuid` is what `select_source()` writes to the settings. The
default the picker offers once OBS has loaded is any living capture source. `start()` does not ask whether the GPU objects
were released, so a start may come behind a shutdown, as a late sign-in makes it (section 4); `released` is
history: was there a shutdown since the last start?

### Readiness
Operators, no state: each row is a definition on what OBS says (`LocalFacts`) and what the last poll
said (`ServerStates`), in the order of the code's early returns. A text is the name of its message.

### SettingsFile
Per file there are three slots: the file, its backup, its temporary. `at` walks OBS's safe save: open the
temporary, write it, move the old file to the backup, move the temporary into place. Any step may fail
or be the last before a crash; while OBS is down the streamer edits the settings, and a file is damaged.
`Recovered` is what OBS's loader does with a file that does not parse. `kept` and `before` are
history: the version of the last whole save and the one before.

### OverlayPanel
`items` are the scenes in the order they are searched, `settings` the pages. `panel` is the last
`reevaluate()`; the streamer edits the world in between. Only some edits make OBS signal. A page
carries this account's address, an old one, or one of a foreign service.

## 3. What the runs show

State counts are distinct states; a run takes from a second to a minute and a half.

| Run | Bounds | Shows |
|---|---|---|
| `VisionLoop.cfg` (540 k) | 2 runs, 1 fault; named intervals -1, none, in range, too long | `NeverHammers`, `NeverDozes` and `RejectedKeyIsNotRetried` in `VisionInvariant`, `FramesBehindSession`; `StopReturns`, `SessionHeals` |
| `SampleRing.cfg` (32 k) | 4 slots, wrap at 8, blocks up to 5, 11 samples | `RingInvariant`, `NoDataRace`, `DropsAreCounted`, `RefinesQueue`: the ring implements `SampleQueue`, safety and liveness |
| `AudioLoop.cfg` (186 k) | backlog 2, ring 2, 4 utterances, 2 streams, 2 faults | `NewestWins` in `AudioInvariant`, `NoStaleSpeech`, `StaysPut`; `StopReturns`, `QueueMoves` |
| `StatusLoop.cfg` (536 k) | 2 upsets (changes of key, faults), 1 press, any first key | `NoMixedAccounts` and `StopIsNotLifted` in `StatusInvariant`, `NoUnaskedDelete`; `StopReturns`, `PressIsAnswered`, `DockSettles` |
| `LinkFlow.cfg` (86 k) | 2 sign-ins, 1 fault | `ConfirmedOnSite` in `LinkInvariant`, `DockWaitsForSomeone`; `CancelReturns`, `SignInEnds` |
| `AudioTracks.cfg` (169 k) | 1 source, 3 tracks, any number of events | `TapOnSpareTrack` in `TracksInvariant`, `OwnTrackIsNotWiped`, `OnlyTickedIsHeard` |
| `VadSegmenter.cfg` (631 k) | scaled sizes, 44 samples | `LongSilenceIsForgotten` in `SegmenterInvariant`, `UtterancesAreUnbroken`, `AttackIsKept`, `RepeatsAreShort` |
| `FrameGrabber.cfg` (156 k) | 3 sources of 2 uuids, 2 sizes, 3 selections | `SurfaceFitsTask` and `NothingLeftOnGpu` in `GrabberInvariant`, `HookedOnlyWhileActive`, `WatchedIsRemembered` |
| `OverlayPanel.cfg` (315 k) | 2 scenes, 3 pages, 2 edits | `BlocksExactlyWhenSilent` in `PanelInvariant`, `PressesRunOut`, `FreshPressIsHarmless`, `SettledIsHeardOnce`; `PanelIsTrue` over a part of the facts, as an assumption |
| `SettingsFile.cfg` (158 k) | 3 saves, 1 failed step, 2 mishaps | `OneGenerationBack` and `OnlyUsable` in `SettingsInvariant`, `HotkeysOnDisk`, `RestartKeepsSettings`, `RefinesStore`: a save is atomic |

A `...Invariant` is the module's type invariant together with the part named. Behind a semicolon are the liveness
properties. `FrameGrabber.cfg` has no fairness: that `stop()` returns is shown in `VisionLoop`.

**Why these bounds are enough.** The dangers are between an old run and a new one, an old key and a
new one, an old answer and a new question: two of each is the smallest instance that has them. One
fault decides any single request, and in a run that is stopped the cancel makes further requests
fail for nothing. In `StatusLoop` changes of key and faults share one bound of two, which gives two
changes (out and in again), a change with a fault, and a fault after a fault. A backlog of two (five
in the code) already overflows with one segment on the wire. In `VadSegmenter` the order of the
code's numbers is kept (the pre-roll holds the windows it takes to agree on speech, a pause fits in
a segment: `SizeAssumption`) and 44 samples are three utterances, a forced cut and several laps of
the pre-roll. In `SampleRing` four slots and a wrap at eight make both counters wrap with every fill
level; for other sizes there is the proof. In `VisionLoop` time is scaled so that the tempo bounds, the
rate-limit pause and the backoff cap keep their order. Three tracks let the plugin move to another
and find none; six would repeat it, and sources do not interact. Two lives of one uuid and another source are what a deletion and its undoing need.
Three saves are one of each file and a second of one, so that a backup exists; one failure and two
mishaps give a crash in a save, a damage after it, or two of them. Three pages are a good one, an old
one and one the button makes. Every bound is a CONSTANT commented `bound:`.

**Deadlock** is checked for `VisionLoop`, `AudioTracks`, `FrameGrabber`, `OverlayPanel` and `SettingsFile`. In the
others the system really ends: streams, samples or sign-ins are used up, or the plugin is unloaded.
There, a worker that hangs is caught by the liveness properties.

**Fairness.** Each run with liveness properties assumes that threads run (weak fairness of each worker), that a
request ends (curl has a timeout, so an answer or a failure returns) and that the UI thread finishes a
call it began and empties its queue. Nobody owes a click, a key, a stream, or an answer on the
site. `VisionLoop` also assumes that the status loop goes on polling and the dock reacts to an
answer; `SignInEnds` that the clock reaches the code's deadline, which is the hypothesis of the
property. `SampleRing` assumes that the audio callback finishes and that the VAD worker reads every
10 ms.

## 4. Where the code and its words part

Two runs expect a violation. Each checks one sentence the code says of itself; the trace shows
how it comes about. They are the `findings` of `PROJECT.json`.

| Run | Sentence | What happens |
|---|---|---|
| `VisionLoopFarewell.cfg` | "the server still needs to hear that the session ended" (`vision-loop.cpp:271`) | `stop()` raises its flag, the worker leaves its loop and lifts the cancel, and only then does `stop()` cancel: the closing request is aborted |
| `LinkFlowExit.cfg` | "A thread that outlives this is a crash on the way out" (`plugin-main.cpp:175`) | a `Done` posted just before EXIT cancels the sign-in is applied after EXIT stopped the loops, and starts them again |

The late start of the second is allowed for in the modules it reaches: in `FrameGrabber` the vision loop makes its GPU
objects again behind the shutdown, so that `NothingLeftOnGpu` holds from a shutdown until a start and
not for good; in `SettingsFile` the key is written after EXIT.

Others were met on the way. One is the condition of a property that holds, so that a run shows that
nothing else breaks the sentence:

* "Nothing is transcribed that was not ticked" (`audio-tap.hpp:70`): OBS routes a source created, or
  loaded from disk, after our track was cleared to all tracks, ours included. `OnlyTickedIsHeard` holds
  of every other source, and the first click on such a source in the dock settles it.

The others are stated in their modules and refuted by TLC when added to the module's cfg:

* `AudioTracks!OutputsAreNotTouched` ("It never touches tracks your outputs use", `README.md:45`): outputs
  may be edited after the track was chosen, no event tells, and the next tick edits the routing of a
  track that is by then an output's.
* `LinkFlow!CancelIsAWayOut` ("a way out", `sokaster-dock.hpp:92`): the same `Done` in the queue signs
  the streamer in after the Cancel; `applyLinkEvent()` does not look at `linking_`.
* `StatusLoop!NeverWithoutKey` ("never without a key", `status-loop.hpp:90`): the loop asks the Config
  whether there is a key and uses the one in its client. A press between a sign-in writing the Config and
  `reconfigure()` sends a `DELETE` and a poll with no key, and shows the key as rejected.
* `VadSegmenter!CoughsAreNotSent` ("shorter than this is a cough", `vad-segmenter.hpp:48`): the pre-roll, the
  closing silence and the post-roll count towards the minimum, about 900 ms before any speech.
* `FrameGrabber!HookedOnlyWhileCapturing` ("Only while capturing", `frame-grabber.hpp:69`): a worker
  that gave up on a rejected key leaves the source held showing until the stream ends.
* `FrameGrabber!FoundByUuidIsAlive` ("tells a deleted selection from a live one",
  `sokaster-dock.cpp:414`): a selection that was deleted and brought back is found by its uuid, and the
  dock names it; the grabber still holds the dead one, until it is selected again.
* `AudioTracks!PageStaysUnheard` ("so the co-host does not hear itself", `overlay-finder.hpp:87`): a page
  added while every track was an output's is taken off none; when the outputs free the remembered track,
  the ears go back to it without clearing it, and hear the page.
* `SettingsFile!SavedIsOnDisk` ("What is on disk", `plugin-main.cpp:54`): `save_hotkeys()` remembers
  the bindings before it knows whether the save worked; after a failed one the next save of a scene
  collection, with nothing changed, does not try again.
* `OverlayPanel!GreenMeansOnStream` ("unless OBS has no overlay at all", `readiness.cpp:66`): an old
  page in the scene and a browser tab that is the connected overlay give a green row.
* `OverlayPanel!UpdateSparesOthers` ("must never rewrite one of theirs", `overlay-finder.cpp:55`): a
  page pointed at another service after it was seen as stale is rewritten. While the panel is
  fresh it is not: `FreshPressIsHarmless`. Nor does a sound fix on such a panel do all it promises: it
  changes the monitoring only, so a page whose audio was taken out of OBS meanwhile stays off the
  stream. `SettledIsHeardOnce` is therefore about a fresh panel, and of pages whose audio OBS has.
* `Readiness!EyesFollowTheGate` ("frames arriving", `readiness.hpp:52`): with an empty picture, or a
  server that asked for fewer frames, the gate is shut and the row only warns.

Two more that no property states: after a sign-out the backup still has the access key, until the next save;
and when the vision loop has met a rejected key while the poll still says `Ok`, the row of the eyes blocks with
an empty text, since it leaves the words to the account row.

## 5. What is proved

Every theorem is for all values of the constants that satisfy the named assumptions of its module,
which TLC evaluates on the module's run. Together they state every invariant and every action
property of the passing runs. Under each module: what had to be added to make them inductive.

**SampleRing** (`RingAssumption`: `W > N > 0` and `W % N = 0`, which `round_up_pow2` makes true of a counter
that wraps at 2^64; `CallAssumption` types the bounds): `TypeCorrect`, `RingIsInvariant`,
`CopiesAreDisjoint`, `LossesAreCounted`, `RingImplementsQueue`. That the consumer gets what entered, in order, needs to
know what is still in the slots, and one cannot speak of "how many samples are in" with counters that wrap.
`RingInvariant` puts a true counter behind each wrapped one (`Published`, `Consumed`: lengths of the
histories less the copy under way) and says: each counter is the true one modulo `W` (`Positions`); what
was promised to the consumer is published, what was promised to the producer is free (`Bounds`); every
sample not yet consumed is in the slot of its true index (`Contents`); what left is a prefix of what
entered (`Prefix`). The leading case is `CopyIn`: the slot it overwrites is none of those still to be
read, because two true indices less than `N` apart have different slots. That, and that the difference of the
wrapped counters is the difference of the true ones, are the lemmas the module begins with, proved from `DivMod`,
since the SMT backend reasons about `%` by a variable only when told. `LossesAreCounted` adds to it
the samples of a block still to be copied (`Tally`). `RingImplementsQueue` maps the ring to `SampleQueue`: what
is accepted and taken are the fronts of the histories up to the published counters, so the copies are
stutters, the end of a write accepts a block that fits (by `Bounds`) and was offered (`Offered`), the
end of a read and a clear deliver (by `Prefix`).

**VisionLoop** (`PaceAssumption`, `BoundAssumption`): `EyesAreSafe`, `FramesFollowTheSession`, for any tempo
limits, answers, runs and faults. Added: the worker is in a request exactly where the code makes one, and
in which (`Requests`); what it takes for an open session was acknowledged to this run (`Opened`), which holds because
`start()` forgets the last run's and the dock only ever lowers it; and the tempo and the pause a tick ends
with are long enough and not too long from the moment they are set (`Tempo`), whatever the shift in the backoff.

**SettingsFile** (`SettingsAssumption`: a missing file and a torn one are no versions, and the values mean
what their names say): `SettingsAreSafe`, `RestartIsSafe`, `SavesAreAtomic`, `BindingsAreKept`, for any
number of saves, failures, crashes and damages. The invariant ties the disk to the history: `kept` is what a
load would read, `before` what it would read if the file were damaged (`Remembered`); and it says of a
save under way that the old file gives way only to a temporary that is whole, and that no save starts
over a torn file whose backup is still needed (`Safe`). From it every step of `SettingsFile`
is a step of `DurableStore` or a stutter: only the last rename changes what a load would read.

**AudioTracks** (`TrackAssumption`, `ProfileAssumption`): `TapIsOnSpareTrack`, `NothingElseIsHeard`,
`TicksSurvive`, for any number of tracks and sources and any profiles. Added: the tap's track is ours and the
remembered one, even when it is not streaming (`OnOurTrack`); what is routed to the remembered track was ticked
there whether or not it is being heard (`OnlyTicked`); and, because a crash brings the last saved
collection back, the same of what is on the disk (`StoredTicks`).

**AudioLoop** (`QueueAssumption`: a queue and a ring of at least one; `BoundAssumption`): `LatestSpeechIsKept`,
`OldSpeechIsForgotten`, `ReasonStaysPut`, for any speech, and any number of streams and faults. That the backlog
is the latest segments (`NewestWins`) needs to know that what comes next is later: utterances travel in
the order spoken, the ring behind the hand, the hand behind the queue, and all are of this run (`Order`). The ring is
emptied by `start()`, when no worker is left to read it. Each reason to give up belongs to one
worker, and the other then has nothing to say that would overwrite it (`Reasons`): a VAD worker without a model never
cut anything, so the sender never posts. `Asked`: only the sender talks to the backend.

**VadSegmenter** (`SizeAssumption`: the order of the code's numbers, that a segment cut for its length is not
dropped for its shortness included): `SegmenterIsSafe`, `NothingIsCutOut`, `FirstWordIsWhole`, `LittleIsRepeated`, for any such sizes,
any verdicts and a stream of any length. Added: the pre-roll ring holds the latest samples, the one of position
`q` at `q - 1` modulo its size (`PreRollIsLatest`; by the lemmas on `%` that `SampleRing` begins
with); the segment under way is the last so many samples without a hole (`SegmentEndsHere`); and while nobody is
speaking the windows counted are all there is of the run of voice, or what came before them was handed over
(`RunIsCounted`). The last is what makes a word that follows a cut whole,
and, with what was sent being over when the count began (`CountedIsNew`), what bounds the repetition by a pre-roll.

**FrameGrabber** (`SourceAssumption`): `GrabberIsSafe`, `HeldOnce`, `SelectionIsRemembered`, for any sources,
sizes and selections. The properties speak of a UI thread that is outside a call, and of an empty GPU only from a
shutdown until a start; the invariant says what holds
inside one: `select()` runs on an inactive grabber and its target lives (`Inactive`), what is showing
is the living selection or was destroyed with it (`Showing`), and the settings are written
before the call ends (`Remembered`).

**StatusLoop** (`KeyAssumption`, `BoundAssumption`): `AccountsAreNotMixed`, `OnlyPressesDelete`, for any keys and any
number of changes of key, faults and presses. A press is owed exactly one `DELETE`: it is in the flag, in
the worker's hands or begun (`DeletesAreOwed`), and the worker, which takes the flag as it takes the order,
never has it in both. `StopIsNotLifted` needs that `stop_` stays up, because the only `configure()` is behind a
test of it (`StopKept`).

**LinkFlow** (`BoundAssumption`): `KeysAreConfirmed`, `NobodyWaitsForNobody`, for any number of sign-ins and
faults. Added: an answer on its way is to the worker's own request and a yes in it was said on the site (`Wires`,
`Approvals`); the site knows no later sign-in (`Asked`); a worker that has not finished has posted at most its code
(`Posts`); and what whoever is inside `cancel()` found when they called it, above all that a new sign-in
starts with an empty queue and no worker behind it, and that a worker the dock waits for is
not suppressed (`Callers`).

**Readiness**: `RowsTellTheGate`, `OnAirIsNotSaidLightly`, `SilenceIsSaid`, `PanelTellsTheTruth` are about a pure
function, by cases of its early returns, for all of some 900 million combinations of facts. TLC
evaluates a part of them in `OverlayPanel.cfg`.

**OverlayPanel** (`SceneAssumption`: the scenes are a sequence; `PageAssumption`): `PanelIsSafe`, `SettledPanelIsHeard`,
`PressesSettle`, `FreshPressDoesNoHarm`, for any scenes, pages and edits. The invariant is small: the row is
the one that the facts on the panel and the last answer make (`RowIsOfFound`), because an answer is never stored
without a look at OBS, and only finitely many pages exist. The work is in the steps. `SearchIsFirst` says what a
search returns (the first page that names the token, else the first of ours, else none) and `Facts` what
`find_overlay()` then says of the page, both before and after a step. From these each press is followed: an added
page is the only copy, or the one that was elsewhere, and the next search finds a page in the scene; an
updated address is one the search prefers; a sound fix changes no address, so the next search
finds the same page (`SearchKept`) and judges it sound. `SettledPanelIsHeard` goes the other way: from a
row with nothing to press, through the facts it was made of, to the page.

**What stays with TLC.** Liveness and everything under fairness: `StopReturns`, `SessionHeals`, `QueueMoves`,
`PressIsAnswered`, `DockSettles`, `CancelReturns`, `SignInEnds`, and that `SampleQueue` is emptied, which is the liveness half
of `RefinesQueue`. `Search` says by its result what the code computes with a loop; that the two agree is read off the code,
not proved.

## 6. Not modelled

* `silero-vad`: numbers; its verdict is an input. JPEG, WAV and JSON are data.
* Which of several capture sources `source-picker` prefers: it changes which one is selected, not what
  may be.
* Registration of the dock, of the menu and of the hotkey callback: glue. A press before the dock has started
  the status loop, or after it stopped it, sets a flag nobody takes; there is no state in which that
  matters to the parts that are modelled.
* `reload_overlay()`: presses a button of another plugin's source and changes nothing of ours.
* Which desktop captures reach the outputs (one boolean), how `output_tracks()` asks OBS for a profile (an
  input), how long a poll waits (a timeout at any time), widgets, logging, texts, build files.
* A rotation of the overlay's token on the site, which needs `StatusLoop` and `OverlayPanel` together.

## 7. Plan

Done: all components but the network, the picker's preference and the glue of `plugin-main`.

Done too: a theorem for every invariant and action property of a passing run.

What is left, in this order:

1. `StatusLoop` with `OverlayPanel`: a rotated overlay token.
2. `VisionLoop` with `FrameGrabber`: the hold left by a worker that gave up.
3. `OverlayPanel` with `AudioTracks`: a page made while every track is an output's.
