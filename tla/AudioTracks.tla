---------------------------- MODULE AudioTracks ----------------------------
(***************************************************************************)
(* Which OBS track the ears listen on and which sources are mixed onto it  *)
(* (audio/audio-tap's namespace tracks, AudioLoop::resolve_track, and the  *)
(* ticks of the dock).  Everything here runs on the UI thread, one event   *)
(* after another; what can go wrong is the order of events of the plugin,  *)
(* of OBS and of the streamer, each of whom edits the same routing.        *)
(***************************************************************************)
EXTENDS Integers, FiniteSetsExt

CONSTANTS
    Sources,           \* audio sources of the scenes
    MAX_AUDIO_MIXES,
    Profiles           \* the output settings a streamer may have

Tracks == 0..(MAX_AUDIO_MIXES - 1)
None == -1
Routings == [Sources -> SUBSET Tracks]

\* The keys output_tracks() reads, one field for those that no two modes read
\* together; `format` and `enhanced` are what OBS reads besides.
Settings == [mode : {"None", "Simple", "Advanced"}, track : Nat, multi : SUBSET Nat,
             vod_on : BOOLEAN, vod : Nat, rec : {"FFmpeg", "Standard", "Stream"},
             recorded : SUBSET Nat, flv : Nat, format : {"flv", "mkv"}, enhanced : BOOLEAN]

ASSUME TrackAssumption == MAX_AUDIO_MIXES \in Nat \ {0}
ASSUME ProfileAssumption == Profiles \subseteq Settings

VARIABLES
    exists,       \* sources that have been created
    mixers,       \* obs_source_get_audio_mixers
    profile,      \* the current one's output settings
    audio_track,  \* in the settings file
    configured, streaming, loaded,
    track_,       \* AudioLoop's
    mix_index_,   \* the track the tap's callback is on, None when it is off
    ticked,       \* history: the tracks the streamer routed each source to
    stored,       \* a routing on disk: the last save, or the other scene collection
    touched,      \* history: the tracks whose routing the plugin's last step edited
    behind        \* history: sources routed by OBS itself since our track was cleared

plugin == <<audio_track, configured, streaming, loaded, track_, mix_index_>>
history == <<touched, behind>>
tracksVars == <<exists, mixers, ticked, stored, profile, plugin, history>>

\* "OBS routes every new source to all six tracks by default" (audio-tap.hpp:101-102).
Default == [s \in Sources |-> Tracks]
Nowhere == [s \in Sources |-> {}]

TracksInit ==
    /\ exists \in SUBSET Sources
    /\ mixers = Default /\ ticked = Nowhere
    /\ stored = [mixers |-> Default, ticked |-> Nowhere]
    /\ profile \in Profiles
    /\ audio_track = None /\ track_ = None /\ mix_index_ = None
    /\ configured \in BOOLEAN /\ streaming = FALSE /\ loaded = FALSE
    /\ touched = {} /\ behind = exists

-----------------------------------------------------------------------------
(* resolve_track() *)

track_bit(one_based) == {one_based - 1} \cap Tracks

\* What an output of the profile may carry, whichever the recording format.
output_tracks ==
    LET vod(tracks) == IF profile.vod_on THEN tracks ELSE {}
        p == profile
    IN  Tracks \cap
        (CASE p.mode = "None" -> Tracks
           [] p.mode = "Advanced" ->
                track_bit(p.track) \cup p.multi \cup vod(track_bit(p.vod)) \cup p.recorded
                \cup IF p.rec = "FFmpeg" THEN {} ELSE track_bit(p.flv)
           [] OTHER -> {0} \cup vod({1}) \cup IF p.rec = "Stream" THEN {} ELSE p.recorded)

\* From the last track down.
find_free(taken) == IF Tracks \subseteq taken THEN None ELSE Max(Tracks \ taken)

Without(routing, t) == [s \in Sources |-> IF s \in exists THEN routing[s] \ {t} ELSE routing[s]]

OwnTrackIsFree == audio_track # None /\ audio_track \notin output_tracks'

KeepTrack ==
    /\ track_' = audio_track
    /\ touched' = {}
    /\ UNCHANGED <<mixers, ticked, audio_track, behind>>

\* A new track is cleared once, and remembered.
TakeTrack ==
    /\ track_' = find_free(output_tracks')
    /\ IF track_' = None
       THEN touched' = {} /\ UNCHANGED <<mixers, ticked, audio_track, behind>>
       ELSE /\ mixers' = Without(mixers, track_') /\ ticked' = Without(ticked, track_')
            /\ touched' = IF mixers' = mixers THEN {} ELSE {track_'}
            /\ audio_track' = track_' /\ behind' = {}

\* Mutant: what the settings remember is not asked.
ResolveAfresh ==
    IF configured' THEN TakeTrack
    ELSE touched' = {} /\ UNCHANGED <<track_, mixers, ticked, audio_track, behind>>

resolve_track ==
    IF ~configured' THEN touched' = {} /\ UNCHANGED <<track_, mixers, ticked, audio_track, behind>>
    ELSE IF OwnTrackIsFree THEN KeepTrack ELSE TakeTrack

\* Mutant: the track of the last stream is listened on again.
StartOnLastTrack(on) ==
    /\ touched' = {} /\ UNCHANGED <<track_, mixers, ticked, audio_track, behind>>
    /\ mix_index_' = IF on /\ configured' THEN track_' ELSE None

\* AudioLoop::start() and AudioTap::start(), when `on`: without a key or a
\* track nothing starts.
Restart(on) ==
    /\ resolve_track
    /\ mix_index_' = IF on /\ configured' THEN track_' ELSE None

-----------------------------------------------------------------------------
(* Events the plugin handles *)

FinishedLoading ==
    /\ ~loaded /\ loaded' = TRUE
    /\ UNCHANGED <<profile, configured>> /\ resolve_track
    /\ UNCHANGED <<exists, stored, streaming, mix_index_>>

\* OBS does not switch profiles, nor edit the outputs, while one of them runs.
ProfileChanged ==
    /\ loaded /\ ~streaming
    /\ profile' \in Profiles /\ UNCHANGED configured /\ resolve_track
    /\ UNCHANGED <<exists, stored, streaming, loaded, mix_index_>>

StreamingStarted ==
    /\ loaded /\ ~streaming /\ streaming' = TRUE
    /\ UNCHANGED <<profile, configured>> /\ Restart(TRUE)
    /\ UNCHANGED <<exists, stored, loaded>>

StreamingStopped ==
    /\ streaming /\ streaming' = FALSE
    /\ mix_index_' = None /\ touched' = {}
    /\ UNCHANGED <<exists, mixers, ticked, stored, profile, audio_track, configured, loaded, track_,
                   behind>>

\* applyLinkEvent(): the key, the track, and a restart when on air.
SignedIn ==
    /\ loaded /\ configured' = TRUE
    /\ UNCHANGED profile /\ Restart(streaming)
    /\ UNCHANGED <<exists, stored, streaming, loaded>>

SignedOut ==
    /\ configured /\ configured' = FALSE
    /\ mix_index_' = None /\ touched' = {}
    /\ UNCHANGED <<exists, mixers, ticked, stored, profile, audio_track, streaming, loaded, track_,
                   behind>>

set_source_heard(tracks, heard) == IF heard THEN tracks \cup {track_} ELSE tracks \ {track_}

\* onSourceToggled(): a tick in the dock's list.
SourceToggled ==
    /\ loaded /\ track_ # None
    /\ \E s \in exists, heard \in BOOLEAN :
         /\ mixers' = [mixers EXCEPT ![s] = set_source_heard(@, heard)]
         /\ ticked' = [ticked EXCEPT ![s] = set_source_heard(@, heard)]
         /\ behind' = behind \ {s}
    /\ touched' = IF mixers' = mixers THEN {} ELSE {track_}
    /\ UNCHANGED <<exists, stored, profile, plugin>>

\* Mutant: the new page stays where OBS put it.
PageAddedOnly ==
    /\ loaded /\ configured
    /\ \E s \in Sources \ exists : exists' = exists \cup {s}
    /\ touched' = {}
    /\ UNCHANGED <<mixers, ticked, behind, stored, profile, plugin>>

\* add_overlay_to_current_scene(): a page of the co-host is a source OBS routed,
\* then taken off our track, if there is one.
PageAdded ==
    /\ loaded /\ configured
    /\ \E s \in Sources \ exists :
         /\ exists' = exists \cup {s}
         /\ mixers' = [mixers EXCEPT ![s] = set_source_heard(Tracks, FALSE)]
         /\ ticked' = [ticked EXCEPT ![s] = {}]
         /\ behind' = IF track_ = None THEN behind \cup {s} ELSE behind
    /\ touched' = {}
    /\ UNCHANGED <<stored, profile, plugin>>

-----------------------------------------------------------------------------
(* What happens without the plugin being told *)

\* Settings -> Output; Advanced Audio Properties; the save of the collection.
OutputsEdited ==
    /\ ~streaming /\ profile' \in Profiles
    /\ touched' = {}
    /\ UNCHANGED <<exists, mixers, ticked, stored, plugin, behind>>

RoutedByHand ==
    /\ \E s \in exists, t \in Tracks :
         /\ mixers' = [mixers EXCEPT ![s] = IF t \in @ THEN @ \ {t} ELSE @ \cup {t}]
         /\ ticked' = [ticked EXCEPT ![s] = IF t \in mixers[s] THEN @ \ {t} ELSE @ \cup {t}]
    /\ touched' = {}
    /\ UNCHANGED <<exists, stored, profile, plugin, behind>>

Saved ==
    /\ stored' = [mixers |-> mixers, ticked |-> ticked]
    /\ touched' = {}
    /\ UNCHANGED <<exists, mixers, ticked, profile, plugin, behind>>

SourceCreated ==
    /\ \E s \in Sources \ exists : exists' = exists \cup {s} /\ behind' = behind \cup {s}
    /\ touched' = {}
    /\ UNCHANGED <<mixers, ticked, stored, profile, plugin>>

Reload ==
    /\ mixers' = stored.mixers /\ ticked' = stored.ticked
    /\ touched' = {} /\ behind' = exists

CollectionSwitched ==
    /\ loaded
    /\ Reload /\ stored' = [mixers |-> mixers, ticked |-> ticked]
    /\ UNCHANGED <<exists, profile, plugin>>

\* The settings file is written at once, the scenes when OBS saves them.
Crashed ==
    /\ Reload
    /\ loaded' = FALSE /\ streaming' = FALSE /\ track_' = None /\ mix_index_' = None
    /\ UNCHANGED <<exists, stored, profile, audio_track, configured>>

-----------------------------------------------------------------------------
Handled == \/ FinishedLoading \/ ProfileChanged \/ StreamingStarted \/ StreamingStopped
           \/ SignedIn \/ SignedOut \/ SourceToggled \/ PageAdded
Unhandled == \/ OutputsEdited \/ RoutedByHand \/ Saved
             \/ SourceCreated \/ CollectionSwitched \/ Crashed
TracksNext == Handled \/ Unhandled

TracksSpec == TracksInit /\ [][TracksNext]_tracksVars

-----------------------------------------------------------------------------
MaybeTracks == Tracks \cup {None}

\* Every variable keeps to its range; a tick is a route.
TracksTypeOK ==
    /\ exists \subseteq Sources /\ profile \in Profiles
    /\ mixers \in Routings /\ ticked \in Routings
    /\ \A s \in Sources : ticked[s] \subseteq mixers[s]
    /\ stored \in [mixers : Routings, ticked : Routings]
    /\ configured \in BOOLEAN /\ streaming \in BOOLEAN /\ loaded \in BOOLEAN
    /\ {audio_track, track_, mix_index_} \subseteq MaybeTracks
    /\ touched \subseteq Tracks /\ behind \subseteq exists

\* The tracks OBS itself sends anywhere: to the service, to the VOD, to a file.
Carried ==
    LET p == profile
        vod(tracks) == IF p.vod_on THEN tracks ELSE {}
        file == IF p.rec = "Standard" /\ p.format = "flv" THEN track_bit(p.flv) ELSE p.recorded
    IN  CASE p.mode = "None" -> {}
          [] p.mode = "Advanced" ->
               (IF p.enhanced THEN p.multi ELSE track_bit(p.track)) \cup vod(track_bit(p.vod)) \cup file
          [] OTHER -> {0} \cup vod({1}) \cup IF p.rec = "Stream" THEN {} ELSE p.recorded

\* What is being transcribed comes from a track no stream and no recording
\* carries, and it is the track the dock's ticks are about (README.md:43-45).
TapOnSpareTrack == mix_index_ # None => mix_index_ = track_ /\ mix_index_ \notin Carried

\* What every state of the routing is: its variables in range, the tap on a spare track.
TracksInvariant == TracksTypeOK /\ TapOnSpareTrack

\* The track is remembered across restarts, profiles and keys so that the
\* ticks on it survive: it is wiped when it becomes ours and at no other time
\* ("Done once, when the track becomes ours", audio-tap.hpp:116).
OwnTrackIsNotWiped ==
    [][\A t \in Tracks :
          (audio_track = t /\ t \notin output_tracks' /\ configured')
             => (audio_track' = t /\ (touched' = {t} => SourceToggled))]_tracksVars

\* "Nothing is transcribed that was not ticked" (audio-tap.hpp:70-71), as far
\* as the plugin can see to it: what is heard without a tick is a source that
\* OBS routed itself, new or loaded from disk, after our track was cleared,
\* and one click on it in the dock settles it.
OnlyTickedIsHeard ==
    mix_index_ # None =>
        \A s \in exists \ behind : mix_index_ \in mixers[s] => mix_index_ \in ticked[s]

\* A page is "left off listen_track so the co-host does not hear itself"
\* (overlay-finder.hpp:87-88).  Not so for a page added while no track was
\* free (README, section 4).
PageStaysUnheard ==
    [][PageAdded => \E s \in exists' \ exists : s \notin behind']_tracksVars

\* "It never touches tracks your outputs use" (README.md:45).  Not so for a
\* tick after an edit of the outputs (README, section 4).
OutputsAreNotTouched == touched \cap output_tracks = {}
=============================================================================
