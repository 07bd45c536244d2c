----------------------------- MODULE Ears_proofs -----------------------------
(***************************************************************************)
(* What the ears listen on and what becomes of it.                         *)
(*                                                                         *)
(* Of AudioTracks: the ears listen on a track that goes nowhere, hear what *)
(* was ticked, and keep their track, for every number of tracks and        *)
(* sources, any profiles and any order of events.                          *)
(*                                                                         *)
(* Of AudioLoop: the backlog is the latest segments, a stream posts only   *)
(* its own speech, and a worker that gave up leaves its reason on the      *)
(* panel, for queues and rings of any size, any speech, any number of runs *)
(* and faults.                                                             *)
(***************************************************************************)
EXTENDS AudioTracks, AudioLoop, WellFoundedInduction, SequenceTheorems, TLAPS

(***************************************************************************)
(* AudioTracks                                                             *)
(***************************************************************************)


\* A set of naturals that is bounded has a largest one.
LEMMA LargestExists ==
  ASSUME NEW n \in Nat, NEW S \in SUBSET (0..n), S # {}
  PROVE  \E x \in S : \A y \in S : x >= y
<1>. DEFINE T == {n - x : x \in S}
<1>1. T \subseteq Nat /\ T # {}
  <2>1. \A x \in S : n - x \in Nat
    OBVIOUS
  <2>. QED
    BY <2>1
<1>2. PICK m \in T : \A k \in T : ~(<<k, m>> \in OpToRel(<, Nat))
  <2>. HIDE DEF T
  <2>. QED
    BY <1>1, NatLessThanWellFounded, WFMin
<1>3. \A k \in T : ~(k < m)
  BY <1>1, <1>2 DEF OpToRel
<1>4. PICK x \in S : m = n - x
  OBVIOUS
<1>5. \A y \in S : x >= y
  <2>. SUFFICES ASSUME NEW y \in S PROVE x >= y
    OBVIOUS
  <2>1. ~(n - y < n - x)
    BY <1>3, <1>4
  <2>. QED
    BY <2>1
<1>. QED
  BY <1>5

\* The free track is a free track.
LEMMA FindFreeIsFree ==
  ASSUME NEW taken
  PROVE  find_free(taken) = None \/ find_free(taken) \in Tracks \ taken
<1>1. CASE Tracks \subseteq taken
  BY <1>1 DEF find_free
<1>2. CASE ~(Tracks \subseteq taken)
  <2>1. MAX_AUDIO_MIXES - 1 \in Nat
    BY TrackAssumption
  <2>2. \E x \in Tracks \ taken : \A y \in Tracks \ taken : x >= y
    <3>1. Tracks \ taken \in SUBSET (0..(MAX_AUDIO_MIXES - 1)) /\ Tracks \ taken # {}
      BY <1>2 DEF Tracks
    <3>. QED
      BY <2>1, <3>1, LargestExists
  <2>3. Max(Tracks \ taken) \in Tracks \ taken
    BY <2>2 DEF Max
  <2>. QED
    BY <1>2, <2>3 DEF find_free
<1>. QED
  BY <1>1, <1>2

\* Whatever the profile, output_tracks() covers what OBS sends.
LEMMA OutputsCoverWhatIsCarried ==
  ASSUME profile \in Settings
  PROVE  Tracks \cap Carried \subseteq output_tracks
<1>. SUFFICES ASSUME NEW t \in Tracks, t \in Carried PROVE t \in output_tracks
  OBVIOUS
<1>1. CASE profile.mode = "None"
  BY <1>1 DEF Carried
<1>2. CASE profile.mode = "Advanced"
  BY <1>2 DEF Carried, output_tracks
<1>3. CASE profile.mode = "Simple"
  BY <1>3 DEF Carried, output_tracks
<1>. QED
  BY <1>1, <1>2, <1>3 DEF Settings

-----------------------------------------------------------------------------
(* The invariant *)

\* The tap runs on air only, on our track, which no output of the profile uses;
\* our track is the remembered one.
OnOurTrack ==
    /\ ~loaded => ~streaming
    /\ mix_index_ # None => /\ streaming /\ mix_index_ = track_ /\ mix_index_ \notin output_tracks
    /\ track_ # None => track_ = audio_track

\* On the remembered track is what was ticked there, or what OBS put there since.
OnlyTicked ==
    audio_track # None =>
        \A s \in exists \ behind : audio_track \in mixers[s] => audio_track \in ticked[s]

\* On disk, too, a tick is a route.
StoredTicks == \A s \in Sources : stored.ticked[s] \subseteq stored.mixers[s]

TracksInv == TracksTypeOK /\ StoredTicks /\ OnOurTrack /\ OnlyTicked

\* What the routing is between two events, and what an event leaves of it.
Routed ==
    /\ exists \subseteq Sources /\ behind \subseteq exists
    /\ mixers \in Routings /\ ticked \in Routings
    /\ \A s \in Sources : ticked[s] \subseteq mixers[s]
    /\ touched \subseteq Tracks
    /\ audio_track \in MaybeTracks
    /\ OnlyTicked

LEMMA NoneIsNoTrack == None \notin Tracks /\ Tracks \subseteq Nat
<1>1. \A t \in Tracks : t \in Nat
  BY TrackAssumption DEF Tracks
<1>2. None \notin Nat
  BY DEF None
<1>. QED
  BY <1>1, <1>2

\* Clearing a track takes it off every source, and leaves the ticks below the routes.
LEMMA WithoutClears ==
  ASSUME Routed, NEW t \in Tracks
  PROVE  /\ Without(mixers, t) \in Routings /\ Without(ticked, t) \in Routings
         /\ \A s \in Sources : Without(ticked, t)[s] \subseteq Without(mixers, t)[s]
         /\ \A s \in exists : t \notin Without(mixers, t)[s]
<1>. USE DEF Routed, Routings
<1>1. \A s \in Sources : mixers[s] \subseteq Tracks /\ ticked[s] \subseteq Tracks
  OBVIOUS
<1>2. \A s \in exists : Without(mixers, t)[s] = mixers[s] \ {t} /\ Without(ticked, t)[s] = ticked[s] \ {t}
  BY DEF Without
<1>3. \A s \in Sources \ exists : Without(mixers, t)[s] = mixers[s] /\ Without(ticked, t)[s] = ticked[s]
  BY DEF Without
<1>4. /\ Without(mixers, t) \in [Sources -> SUBSET Tracks]
      /\ Without(ticked, t) \in [Sources -> SUBSET Tracks]
  BY <1>1 DEF Without
<1>. QED
  BY <1>1, <1>2, <1>3, <1>4

\* resolve_track() finds a track that is free and on which only the ticked are,
\* unless there is none.
LEMMA ResolveTrackFinds ==
  ASSUME TracksInv, resolve_track, UNCHANGED exists
  PROVE  /\ Routed' /\ track_' \in MaybeTracks
         /\ track_' # None => track_' = audio_track'
         /\ configured' /\ track_' # None => track_' \notin output_tracks'
<1>1. Routed
  BY DEF TracksInv, TracksTypeOK, Routed
<1>2. CASE ~configured'
  <2>1. touched' = {} /\ UNCHANGED <<track_, mixers, ticked, audio_track, behind>>
    BY <1>2 DEF resolve_track
  <2>2. Routed'
    BY <1>1, <2>1 DEF Routed, OnlyTicked
  <2>. QED
    BY <1>2, <2>1, <2>2 DEF TracksInv, TracksTypeOK, OnOurTrack
<1>3. CASE configured' /\ OwnTrackIsFree
  <2>1. /\ track_' = audio_track /\ touched' = {} /\ UNCHANGED <<mixers, ticked, audio_track, behind>>
        /\ audio_track \notin output_tracks'
    BY <1>3 DEF resolve_track, KeepTrack, OwnTrackIsFree
  <2>2. Routed'
    BY <1>1, <2>1 DEF Routed, OnlyTicked
  <2>. QED
    BY <2>1, <2>2 DEF TracksInv, TracksTypeOK
<1>4. CASE configured' /\ ~OwnTrackIsFree
  <2>1. TakeTrack
    BY <1>4 DEF resolve_track
  <2>2. track_' = None \/ track_' \in Tracks \ output_tracks'
    BY <2>1, FindFreeIsFree DEF TakeTrack
  <2>3. CASE track_' = None
    <3>1. touched' = {} /\ UNCHANGED <<mixers, ticked, audio_track, behind>>
      BY <2>1, <2>3 DEF TakeTrack
    <3>2. Routed'
      BY <1>1, <3>1 DEF Routed, OnlyTicked
    <3>. QED
      BY <2>3, <3>2 DEF MaybeTracks
  <2>4. CASE track_' \in Tracks \ output_tracks'
    <3>1. /\ mixers' = Without(mixers, track_') /\ ticked' = Without(ticked, track_')
          /\ touched' \subseteq {track_'}
          /\ audio_track' = track_' /\ behind' = {}
      BY <2>1, <2>4, NoneIsNoTrack DEF TakeTrack
    <3>2. Routed'
      BY <1>1, <2>4, <3>1, WithoutClears DEF Routed, OnlyTicked, MaybeTracks
    <3>. QED
      BY <2>4, <3>1, <3>2 DEF MaybeTracks
  <2>. QED
    BY <2>2, <2>3, <2>4
<1>. QED
  BY <1>2, <1>3, <1>4

LEMMA TracksStart == TracksInit => TracksInv
<1>. SUFFICES ASSUME TracksInit PROVE TracksInv
  OBVIOUS
<1>1. mixers \in Routings /\ ticked \in Routings
  BY DEF TracksInit, Default, Nowhere, Routings
<1>2. \A s \in Sources : ticked[s] \subseteq mixers[s]
  BY DEF TracksInit, Default, Nowhere
<1>3. stored \in [mixers : Routings, ticked : Routings]
  BY DEF TracksInit, Default, Nowhere, Routings
<1>4. StoredTicks
  BY DEF TracksInit, Default, Nowhere, StoredTicks
<1>. QED
  BY <1>1, <1>2, <1>3, <1>4 DEF TracksInit, TracksInv, TracksTypeOK, OnOurTrack, OnlyTicked, MaybeTracks

-----------------------------------------------------------------------------
(* The events *)

\* The types of what resolve_track() leaves alone make up the rest of TracksTypeOK.
LEMMA RoutedIsTyped ==
  ASSUME Routed', profile' \in Profiles, UNCHANGED stored, TracksInv,
         configured' \in BOOLEAN, streaming' \in BOOLEAN, loaded' \in BOOLEAN,
         track_' \in MaybeTracks, mix_index_' \in MaybeTracks
  PROVE  TracksTypeOK' /\ OnlyTicked'
  BY DEF TracksInv, TracksTypeOK, Routed

\* The events that look for a track.
LEMMA ResolvingInv == TracksInv /\ (FinishedLoading \/ ProfileChanged \/ StreamingStarted \/ SignedIn) => TracksInv'
<1>. SUFFICES ASSUME TracksInv, FinishedLoading \/ ProfileChanged \/ StreamingStarted \/ SignedIn PROVE TracksInv'
  OBVIOUS
<1>1. resolve_track /\ UNCHANGED <<exists, stored>> /\ profile' \in Profiles
  BY DEF FinishedLoading, ProfileChanged, StreamingStarted, SignedIn, Restart, TracksInv, TracksTypeOK
<1>2. /\ Routed' /\ track_' \in MaybeTracks
      /\ track_' # None => track_' = audio_track'
      /\ configured' /\ track_' # None => track_' \notin output_tracks'
  BY <1>1, ResolveTrackFinds
<1>3. configured' \in BOOLEAN /\ streaming' \in BOOLEAN /\ loaded' \in BOOLEAN
  BY DEF FinishedLoading, ProfileChanged, StreamingStarted, SignedIn, TracksInv, TracksTypeOK
<1>4. None \in MaybeTracks
  BY DEF MaybeTracks
<1>5. \/ mix_index_' = mix_index_ /\ mix_index_ = None
      \/ mix_index_' = IF streaming' /\ configured' THEN track_' ELSE None
  <2>1. CASE FinishedLoading
    BY <2>1 DEF FinishedLoading, TracksInv, OnOurTrack
  <2>2. CASE ProfileChanged
    BY <2>2 DEF ProfileChanged, TracksInv, OnOurTrack
  <2>3. CASE StreamingStarted
    BY <2>3 DEF StreamingStarted, Restart
  <2>4. CASE SignedIn
    BY <2>4 DEF SignedIn, Restart
  <2>. QED
    BY <2>1, <2>2, <2>3, <2>4
<1>6. loaded'
  <2>1. FinishedLoading => loaded'
    BY DEF FinishedLoading
  <2>2. ProfileChanged => loaded'
    BY DEF ProfileChanged
  <2>3. StreamingStarted => loaded'
    BY DEF StreamingStarted
  <2>4. SignedIn => loaded'
    BY DEF SignedIn
  <2>. QED
    BY <2>1, <2>2, <2>3, <2>4
<1>7. OnOurTrack'
  BY <1>2, <1>5, <1>6 DEF OnOurTrack
<1>8. mix_index_' \in MaybeTracks
  BY <1>2, <1>4, <1>5
<1>. QED
  BY <1>1, <1>2, <1>3, <1>7, <1>8, RoutedIsTyped DEF TracksInv, StoredTicks

\* The end of a stream, and of a sign-in.
LEMMA StreamStoppedInv == TracksInv /\ (StreamingStopped \/ SignedOut) => TracksInv'
<1>. SUFFICES ASSUME TracksInv, StreamingStopped \/ SignedOut PROVE TracksInv'
  OBVIOUS
<1>1. /\ UNCHANGED <<exists, mixers, ticked, stored, profile, audio_track, loaded, track_, behind>>
      /\ mix_index_' = None /\ touched' = {}
      /\ configured' \in BOOLEAN /\ streaming' \in BOOLEAN /\ (streaming' => streaming)
  <2>1. configured \in BOOLEAN /\ streaming \in BOOLEAN
    BY DEF TracksInv, TracksTypeOK
  <2>2. CASE StreamingStopped
    BY <2>1, <2>2 DEF StreamingStopped
  <2>3. CASE SignedOut
    BY <2>1, <2>3 DEF SignedOut
  <2>. QED
    BY <2>2, <2>3
<1>. QED
  BY <1>1 DEF TracksInv, StoredTicks, TracksTypeOK, OnOurTrack, OnlyTicked, MaybeTracks

\* A tick routes a source and ticks it at once, on our track.
LEMMA SourceToggledInv == TracksInv /\ SourceToggled => TracksInv'
<1>. SUFFICES ASSUME TracksInv, SourceToggled PROVE TracksInv'
  OBVIOUS
<1>1. PICK s \in exists, heard \in BOOLEAN :
        /\ mixers' = [mixers EXCEPT ![s] = set_source_heard(@, heard)]
        /\ ticked' = [ticked EXCEPT ![s] = set_source_heard(@, heard)]
        /\ behind' = behind \ {s}
  BY DEF SourceToggled
<1>2. /\ track_ \in Tracks /\ track_ = audio_track /\ touched' \subseteq {track_}
      /\ UNCHANGED <<exists, stored, profile, plugin>>
  BY DEF SourceToggled, TracksInv, TracksTypeOK, OnOurTrack, MaybeTracks
<1>3. /\ s \in Sources /\ mixers \in [Sources -> SUBSET Tracks] /\ ticked \in [Sources -> SUBSET Tracks]
      /\ ticked[s] \subseteq mixers[s]
  BY DEF TracksInv, TracksTypeOK, Routings
<1>4. /\ mixers'[s] \in SUBSET Tracks /\ ticked'[s] \subseteq mixers'[s]
      /\ track_ \in mixers'[s] => track_ \in ticked'[s]
  BY <1>1, <1>2, <1>3 DEF set_source_heard
<1>5. mixers' \in Routings /\ ticked' \in Routings
  BY <1>1, <1>3, <1>4 DEF Routings
<1>6. \A q \in Sources \ {s} : mixers'[q] = mixers[q] /\ ticked'[q] = ticked[q]
  BY <1>1, <1>3
<1>7. \A q \in Sources : ticked'[q] \subseteq mixers'[q]
  BY <1>4, <1>6 DEF TracksInv, TracksTypeOK
<1>8. TracksTypeOK'
  BY <1>1, <1>2, <1>5, <1>7 DEF TracksInv, TracksTypeOK, plugin
<1>9. OnlyTicked'
  BY <1>1, <1>2, <1>4, <1>6 DEF TracksInv, TracksTypeOK, OnlyTicked, plugin
<1>10. OnOurTrack'
  BY <1>2 DEF TracksInv, OnOurTrack, plugin, output_tracks
<1>. QED
  BY <1>2, <1>8, <1>9, <1>10 DEF TracksInv, StoredTicks

\* A page of the co-host is not on our track, or is one more source OBS routed.
LEMMA PageAddedInv == TracksInv /\ PageAdded => TracksInv'
<1>. SUFFICES ASSUME TracksInv, PageAdded PROVE TracksInv'
  OBVIOUS
<1>1. PICK s \in Sources \ exists :
        /\ exists' = exists \cup {s}
        /\ mixers' = [mixers EXCEPT ![s] = set_source_heard(Tracks, FALSE)]
        /\ ticked' = [ticked EXCEPT ![s] = {}]
        /\ behind' = IF track_ = None THEN behind \cup {s} ELSE behind
  BY DEF PageAdded
<1>2. UNCHANGED <<stored, profile, plugin>> /\ touched' = {}
  BY DEF PageAdded
<1>3. mixers \in [Sources -> SUBSET Tracks] /\ ticked \in [Sources -> SUBSET Tracks]
  BY DEF TracksInv, TracksTypeOK, Routings
<1>4. mixers'[s] = Tracks \ {track_} /\ ticked'[s] = {}
  BY <1>1, <1>3 DEF set_source_heard
<1>5. \A q \in Sources \ {s} : mixers'[q] = mixers[q] /\ ticked'[q] = ticked[q]
  BY <1>1, <1>3
<1>6. mixers' \in Routings /\ ticked' \in Routings
  BY <1>1, <1>3 DEF Routings, set_source_heard
<1>7. \A q \in Sources : ticked'[q] \subseteq mixers'[q]
  BY <1>4, <1>5 DEF TracksInv, TracksTypeOK
<1>8. TracksTypeOK'
  BY <1>1, <1>2, <1>6, <1>7 DEF TracksInv, TracksTypeOK, plugin
<1>9. OnlyTicked'
  BY <1>1, <1>2, <1>4, <1>5 DEF TracksInv, TracksTypeOK, OnlyTicked, OnOurTrack, plugin
<1>10. OnOurTrack'
  BY <1>2 DEF TracksInv, OnOurTrack, plugin, output_tracks
<1>. QED
  BY <1>2, <1>8, <1>9, <1>10 DEF TracksInv, StoredTicks

\* What the streamer routes by hand is ticked as it is routed.
LEMMA RoutedByHandInv == TracksInv /\ RoutedByHand => TracksInv'
<1>. SUFFICES ASSUME TracksInv, RoutedByHand PROVE TracksInv'
  OBVIOUS
<1>1. PICK s \in exists, t \in Tracks :
        /\ mixers' = [mixers EXCEPT ![s] = IF t \in @ THEN @ \ {t} ELSE @ \cup {t}]
        /\ ticked' = [ticked EXCEPT ![s] = IF t \in mixers[s] THEN @ \ {t} ELSE @ \cup {t}]
  BY DEF RoutedByHand
<1>2. UNCHANGED <<exists, stored, profile, plugin, behind>> /\ touched' = {}
  BY DEF RoutedByHand
<1>3. /\ s \in Sources /\ mixers \in [Sources -> SUBSET Tracks] /\ ticked \in [Sources -> SUBSET Tracks]
      /\ ticked[s] \subseteq mixers[s]
  BY DEF TracksInv, TracksTypeOK, Routings
<1>4. /\ mixers'[s] = IF t \in mixers[s] THEN mixers[s] \ {t} ELSE mixers[s] \cup {t}
      /\ ticked'[s] = IF t \in mixers[s] THEN ticked[s] \ {t} ELSE ticked[s] \cup {t}
      /\ \A q \in Sources \ {s} : mixers'[q] = mixers[q] /\ ticked'[q] = ticked[q]
  BY <1>1, <1>3
<1>5. mixers' \in Routings /\ ticked' \in Routings
  BY <1>1, <1>3 DEF Routings
<1>6. \A q \in Sources : ticked'[q] \subseteq mixers'[q]
  BY <1>3, <1>4 DEF TracksInv, TracksTypeOK
<1>7. TracksTypeOK'
  BY <1>2, <1>5, <1>6 DEF TracksInv, TracksTypeOK, plugin
<1>8. OnlyTicked'
  BY <1>2, <1>3, <1>4 DEF TracksInv, TracksTypeOK, OnlyTicked, plugin
<1>9. OnOurTrack'
  BY <1>2 DEF TracksInv, OnOurTrack, plugin, output_tracks
<1>. QED
  BY <1>2, <1>7, <1>8, <1>9 DEF TracksInv, StoredTicks

\* What comes from the disk, or is new, was routed by OBS; the outputs are not
\* edited on air.
LEMMA UnhandledInv ==
  TracksInv /\ (OutputsEdited \/ Saved \/ SourceCreated \/ CollectionSwitched \/ Crashed) => TracksInv'
<1>. SUFFICES ASSUME TracksInv, OutputsEdited \/ Saved \/ SourceCreated \/ CollectionSwitched \/ Crashed
              PROVE  TracksInv'
  OBVIOUS
<1>1. CASE OutputsEdited
  BY <1>1 DEF OutputsEdited, TracksInv, StoredTicks, TracksTypeOK, OnOurTrack, OnlyTicked, plugin
<1>2. CASE Saved
  <2>1. stored' \in [mixers : Routings, ticked : Routings] /\ StoredTicks'
    BY <1>2 DEF Saved, TracksInv, TracksTypeOK, StoredTicks
  <2>. QED
    BY <1>2, <2>1 DEF Saved, TracksInv, TracksTypeOK, OnOurTrack, OnlyTicked, plugin, output_tracks
<1>3. CASE SourceCreated
  BY <1>3 DEF SourceCreated, TracksInv, StoredTicks, TracksTypeOK, OnOurTrack, OnlyTicked, plugin, output_tracks
<1>4. CASE CollectionSwitched \/ Crashed
  <2>1. Reload /\ UNCHANGED <<exists, profile, audio_track, configured>>
    BY <1>4 DEF CollectionSwitched, Crashed, plugin
  <2>2. stored' \in [mixers : Routings, ticked : Routings] /\ StoredTicks'
    BY <1>4 DEF CollectionSwitched, Crashed, TracksInv, TracksTypeOK, StoredTicks
  <2>3. /\ {track_', mix_index_'} \subseteq MaybeTracks /\ streaming' \in BOOLEAN /\ loaded' \in BOOLEAN
        /\ OnOurTrack'
    <3>1. CASE CollectionSwitched
      <4>1. UNCHANGED <<profile, plugin>>
        BY <3>1 DEF CollectionSwitched
      <4>. QED
        BY <4>1 DEF TracksInv, TracksTypeOK, OnOurTrack, plugin, output_tracks
    <3>2. CASE Crashed
      <4>1. ~loaded' /\ ~streaming' /\ track_' = None /\ mix_index_' = None
        BY <3>2 DEF Crashed
      <4>2. streaming' \in BOOLEAN /\ loaded' \in BOOLEAN
        BY <3>2 DEF Crashed
      <4>. QED
        BY <4>1, <4>2 DEF OnOurTrack, MaybeTracks
    <3>. QED
      BY <1>4, <3>1, <3>2
  <2>4. TracksTypeOK'
    <3>1. /\ stored.mixers \in Routings /\ stored.ticked \in Routings
          /\ \A s \in Sources : stored.ticked[s] \subseteq stored.mixers[s]
      BY DEF TracksInv, TracksTypeOK, StoredTicks
    <3>. QED
      BY <2>1, <2>2, <2>3, <3>1 DEF Reload, TracksInv, TracksTypeOK
  <2>5. OnlyTicked'
    BY <2>1 DEF Reload, OnlyTicked
  <2>. QED
    BY <2>2, <2>3, <2>4, <2>5 DEF TracksInv
<1>. QED
  BY <1>1, <1>2, <1>3, <1>4

LEMMA TracksInvHolds == TracksSpec => []TracksInv
<1>1. TracksInv /\ UNCHANGED tracksVars => TracksInv'
  BY DEF tracksVars, plugin, history, TracksInv, StoredTicks, TracksTypeOK, OnOurTrack, OnlyTicked, output_tracks
<1>2. TracksInv /\ [TracksNext]_tracksVars => TracksInv'
  BY <1>1, ResolvingInv, StreamStoppedInv, SourceToggledInv, PageAddedInv, RoutedByHandInv, UnhandledInv
     DEF TracksNext, Handled, Unhandled
<1>. QED
  BY <1>2, TracksStart, PTL DEF TracksSpec

-----------------------------------------------------------------------------
(* The theorems *)

\* For any number of tracks and sources and any profiles: the tap is on the track
\* the ticks are about, and nothing OBS sends anywhere carries that track.
THEOREM TapIsOnSpareTrack == TracksSpec => []TracksInvariant
<1>1. TracksInv => TracksInvariant
  <2>. SUFFICES ASSUME TracksInv PROVE TracksInvariant
    OBVIOUS
  <2>1. ASSUME mix_index_ # None PROVE mix_index_ = track_ /\ mix_index_ \notin Carried
    <3>1. mix_index_ = track_ /\ mix_index_ \notin output_tracks /\ mix_index_ \in Tracks
      BY <2>1 DEF TracksInv, TracksTypeOK, OnOurTrack, MaybeTracks
    <3>2. profile \in Settings
      BY ProfileAssumption DEF TracksInv, TracksTypeOK
    <3>. QED
      BY <3>1, <3>2, OutputsCoverWhatIsCarried
  <2>. QED
    BY <2>1 DEF TracksInvariant, TapOnSpareTrack, TracksInv
<1>. QED
  BY <1>1, TracksInvHolds, PTL

\* For any number of tracks and sources: what is heard was ticked, or is what OBS
\* put on the track since it was cleared.
THEOREM NothingElseIsHeard == TracksSpec => []OnlyTickedIsHeard
<1>1. TracksInv => OnlyTickedIsHeard
  BY DEF TracksInv, OnOurTrack, OnlyTicked, OnlyTickedIsHeard
<1>. QED
  BY <1>1, TracksInvHolds, PTL

\* For any number of tracks: a remembered track that no output uses stays ours,
\* and no step but a tick edits it.
THEOREM TicksSurvive == TracksSpec => OwnTrackIsNotWiped
<1>. DEFINE Kept(t) == (audio_track = t /\ t \notin output_tracks' /\ configured')
                         => (audio_track' = t /\ (touched' = {t} => SourceToggled))
<1>1. TracksInv /\ [TracksNext]_tracksVars => [\A t \in Tracks : Kept(t)]_tracksVars
  <2>. SUFFICES ASSUME TracksInv, TracksNext, NEW t \in Tracks, audio_track = t, t \notin output_tracks', configured'
                PROVE  audio_track' = t /\ (touched' = {t} => SourceToggled)
    OBVIOUS
  <2>1. CASE resolve_track
    <3>1. OwnTrackIsFree
      BY NoneIsNoTrack DEF OwnTrackIsFree
    <3>2. touched' = {} /\ audio_track' = audio_track
      BY <2>1, <3>1 DEF resolve_track, KeepTrack
    <3>. QED
      BY <3>2
  <2>2. CASE SourceToggled
    BY <2>2 DEF SourceToggled, plugin
  <2>3. CASE touched' = {} /\ audio_track' = audio_track
    BY <2>3
  <2>4. resolve_track \/ SourceToggled \/ (touched' = {} /\ audio_track' = audio_track)
    BY DEF TracksNext, Handled, Unhandled, FinishedLoading, ProfileChanged, StreamingStarted, StreamingStopped,
           SignedIn, SignedOut, PageAdded, Restart, OutputsEdited, RoutedByHand, Saved,
           SourceCreated, CollectionSwitched, Crashed, Reload, plugin
  <2>. QED
    BY <2>1, <2>2, <2>3, <2>4
<1>. QED
  BY <1>1, TracksInvHolds, PTL DEF TracksSpec, OwnTrackIsNotWiped

(***************************************************************************)
(* AudioLoop                                                               *)
(***************************************************************************)


\* Only the sender talks to the backend.
Asked == wire # NoRequest => sender = "post"

\* Utterances travel in the order spoken: those queued and taken are older than the one in
\* hand, that one is older than those in the ring, and all are of this run.
Order ==
    /\ before <= spoken
    /\ \A i, j \in 1..Len(ring) : i < j => ring[i] < ring[j]
    /\ \A i \in 1..Len(ring) : before < ring[i] /\ ring[i] <= spoken
    /\ \A u \in cut : /\ before < u /\ u <= spoken
                      /\ \A i \in 1..Len(ring) : u < ring[i]
    /\ vad = "cut" => /\ before < hand /\ hand <= spoken
                      /\ \A u \in cut : u < hand
                      /\ \A i \in 1..Len(ring) : hand < ring[i]
    /\ \A i \in 1..Len(queue_) : queue_[i] \in cut
    /\ sender \in {"have", "post"} => segment \in cut

\* A reason to give up belongs to one worker, and the other has nothing left to say: a VAD
\* worker without a model cuts nothing, a sender that was refused is on its way out.
Reasons ==
    /\ vad = "absent" <=> sender = "absent"
    /\ vad = "absent" => health_ = "Idle"
    /\ vad = "load" => health_ = "Listening"
    /\ vad \in {"raise", "notify"} => health_ = "VadFailed"
    /\ health_ = "VadFailed" => vad \in {"raise", "notify", "exited"}
    /\ (vad = "load" \/ health_ = "VadFailed")
          => (cut = {} /\ sender \in {"wait", "blocked", "exited"})
    /\ health_ \in {"SpeechDisabled", "KeyRejected"} => sender \in {"raise", "exited"}

LoopInv == TypeOK /\ NewestWins /\ Asked /\ Order /\ Reasons

-----------------------------------------------------------------------------
(* The queue *)

\* What is left of a queue when its head is taken.
LEMMA TakingHead ==
  ASSUME NEW S, NEW q \in Seq(S), q # << >>
  PROVE  /\ Len(q) \in Nat /\ Len(q) >= 1
         /\ Head(q) \in S /\ Head(q) = q[1]
         /\ Tail(q) \in Seq(S) /\ Len(Tail(q)) = Len(q) - 1
         /\ \A i \in 1..Len(Tail(q)) : Tail(q)[i] = q[i + 1]
<1>1. Len(q) \in Nat \ {0}
  BY EmptySeq, Zenon
<1>2. Head(q) = q[1]
  OBVIOUS
<1>. QED
  BY <1>1, <1>2, HeadTailProperties

\* What a queue is when one more is put last.
LEMMA PuttingLast ==
  ASSUME NEW S, NEW q \in Seq(S), NEW u \in S
  PROVE  /\ Append(q, u) \in Seq(S)
         /\ Len(Append(q, u)) = Len(q) + 1
         /\ \A i \in 1..Len(q) : Append(q, u)[i] = q[i]
         /\ Append(q, u)[Len(q) + 1] = u
  BY AppendProperties

\* A push puts the segment last and costs at most the oldest of a full queue.
LEMMA PushIsNewest ==
  ASSUME NEW q \in Seq(1..MaxSpeech), Len(q) <= kQueueLimit, NEW u \in 1..MaxSpeech
  PROVE  /\ Push(q, u) \in Seq(1..MaxSpeech) /\ Len(Push(q, u)) <= kQueueLimit
         /\ Len(Push(q, u)) \in Nat /\ Len(Push(q, u)) >= 1 /\ Push(q, u)[Len(Push(q, u))] = u
         /\ \E d \in 0..1 : /\ Len(Push(q, u)) = Len(q) - d + 1
                            /\ \A i \in 1..(Len(q) - d) : Push(q, u)[i] = q[i + d]
<1>. DEFINE kept == IF Len(q) >= kQueueLimit THEN Tail(q) ELSE q
<1>1. Len(q) \in Nat /\ kQueueLimit \in Nat /\ kQueueLimit >= 1
  BY QueueAssumption
<1>2. PICK d \in 0..1 : /\ kept \in Seq(1..MaxSpeech) /\ Len(kept) = Len(q) - d
                        /\ Len(kept) < kQueueLimit
                        /\ \A i \in 1..Len(kept) : kept[i] = q[i + d]
  <2>1. CASE Len(q) >= kQueueLimit
    <3>1. q # << >>
      BY <1>1, <2>1
    <3>2. /\ Tail(q) \in Seq(1..MaxSpeech) /\ Len(Tail(q)) = Len(q) - 1
          /\ \A i \in 1..Len(Tail(q)) : Tail(q)[i] = q[i + 1]
      BY <3>1, TakingHead, Zenon
    <3>3. kept = Tail(q)
      BY <2>1
    <3>. HIDE DEF kept
    <3>4. /\ kept \in Seq(1..MaxSpeech) /\ Len(kept) = Len(q) - 1 /\ Len(kept) < kQueueLimit
          /\ \A i \in 1..Len(kept) : kept[i] = q[i + 1]
      BY <1>1, <3>2, <3>3
    <3>. QED
      BY <3>4
  <2>2. CASE ~(Len(q) >= kQueueLimit)
    <3>1. kept = q
      BY <2>2
    <3>. HIDE DEF kept
    <3>. QED
      BY <1>1, <2>2, <3>1
  <2>. QED
    BY <2>1, <2>2
<1>3. Push(q, u) = Append(kept, u)
  BY DEF Push
<1>. HIDE DEF kept
<1>4. /\ Append(kept, u) \in Seq(1..MaxSpeech)
      /\ Len(Append(kept, u)) = Len(kept) + 1
      /\ \A i \in 1..Len(kept) : Append(kept, u)[i] = kept[i]
      /\ Append(kept, u)[Len(kept) + 1] = u
  BY <1>2, PuttingLast
<1>. QED
  BY <1>1, <1>2, <1>3, <1>4

\* A backlog without holes has none after a newer segment is pushed.
LEMMA PushKeepsLatest ==
  ASSUME NEW q \in Seq(1..MaxSpeech), Len(q) <= kQueueLimit, NEW u \in 1..MaxSpeech,
         NEW S \in SUBSET Nat, \A v \in S : v < u,
         \A i \in 1..Len(q) : q[i] \in S,
         \A i, j \in 1..Len(q) : i < j => q[i] < q[j],
         \A v \in S : q # << >> /\ v >= Head(q) => Contains(q, v)
  PROVE  /\ \A i \in 1..Len(Push(q, u)) : Push(q, u)[i] = u \/ Push(q, u)[i] \in {q[k] : k \in 1..Len(q)}
         /\ \A i, j \in 1..Len(Push(q, u)) : i < j => Push(q, u)[i] < Push(q, u)[j]
         /\ \A v \in S \cup {u} :
              Push(q, u) # << >> /\ v >= Head(Push(q, u)) => Contains(Push(q, u), v)
<1>. DEFINE p == Push(q, u)
            n == Len(q)
<1>0. \A i \in 1..n : q[i] \in Nat
  OBVIOUS
<1>1. PICK d \in 0..1 : /\ p \in Seq(1..MaxSpeech) /\ Len(p) = n - d + 1 /\ Len(p) >= 1 /\ p[Len(p)] = u
                        /\ \A i \in 1..(n - d) : p[i] = q[i + d]
  BY PushIsNewest
<1>. HIDE DEF p
<1>2. n \in Nat /\ u \in Nat /\ Head(p) = p[1] /\ p[n - d + 1] = u
  BY <1>1
<1>. DEFINE Same(i) == i \in 1..(n - d) /\ i + d \in 1..n /\ p[i] = q[i + d] /\ q[i + d] \in S
                       /\ q[i + d] \in Nat /\ q[i + d] < u
<1>3. ASSUME NEW i \in 1..Len(p) PROVE (i = n - d + 1 /\ p[i] = u) \/ Same(i)
  <2>1. CASE i = n - d + 1
    BY <1>2, <2>1
  <2>2. CASE i # n - d + 1
    <3>1. i \in 1..(n - d) /\ i + d \in 1..n
      BY <1>1, <1>2, <2>2
    <3>2. p[i] = q[i + d] /\ q[i + d] \in S
      BY <1>1, <3>1
    <3>. QED
      BY <3>1, <3>2
  <2>. QED
    BY <2>1, <2>2
<1>4. \A i \in 1..Len(p) : p[i] = u \/ p[i] \in {q[k] : k \in 1..Len(q)}
  BY <1>3
<1>5. ASSUME NEW i \in 1..Len(p), NEW j \in 1..Len(p), i < j PROVE p[i] < p[j]
  <2>1. Same(i)
    BY <1>1, <1>2, <1>3, <1>5
  <2>2. CASE j = n - d + 1
    BY <1>2, <2>1, <2>2
  <2>3. CASE Same(j)
    <3>1. i + d < j + d
      BY <1>5
    <3>. QED
      BY <2>1, <2>3, <3>1
  <2>. QED
    BY <1>3, <2>2, <2>3
<1>6. ASSUME NEW v \in S, v >= p[1] PROVE \E k \in 1..Len(p) : p[k] = v
  <2>1. v \in Nat /\ v < u /\ 1 \in 1..Len(p)
    BY <1>1
  <2>2. p[1] # u
    BY <1>2, <1>6, <2>1
  <2>3. Same(1)
    BY <1>3, <2>1, <2>2
  <2>4. 1 \in 1..n /\ q # << >> /\ Head(q) = q[1] /\ q[1] \in Nat /\ q[1] <= q[1 + d]
    <3>1. 1 \in 1..n /\ 1 + d \in 1..n
      BY <1>2, <2>3
    <3>2. q # << >> /\ Head(q) = q[1]
      BY <3>1
    <3>3. q[1] \in Nat /\ q[1 + d] \in Nat
      BY <1>0, <3>1
    <3>4. q[1] <= q[1 + d]
      <4>1. CASE d = 0
        BY <3>3, <4>1
      <4>2. CASE d = 1
        BY <3>1, <3>3, <4>2
      <4>. QED
        BY <4>1, <4>2
    <3>. QED
      BY <3>1, <3>2, <3>3, <3>4
  <2>5. v >= Head(q)
    BY <1>6, <2>1, <2>3, <2>4
  <2>6. PICK k \in 1..n : q[k] = v
    BY <2>4, <2>5 DEF Contains
  <2>7. ~(k < 1 + d)
    <3>1. k < 1 + d => q[k] < q[1 + d]
      BY <2>3
    <3>. QED
      BY <1>6, <2>1, <2>3, <2>6, <3>1
  <2>8. k - d \in 1..(n - d) /\ (k - d) + d = k /\ k - d \in 1..Len(p)
    BY <1>1, <1>2, <2>7
  <2>9. p[k - d] = v
    BY <1>1, <2>6, <2>8
  <2>. QED
    BY <2>8, <2>9
<1>7. ASSUME NEW v \in S \cup {u}, v >= Head(p) PROVE Contains(p, v)
  <2>1. CASE v = u
    BY <1>1, <2>1 DEF Contains
  <2>2. CASE v \in S
    BY <1>2, <1>6, <1>7, <2>2 DEF Contains
  <2>. QED
    BY <2>1, <2>2
<1>. QED
  BY <1>4, <1>5, <1>7 DEF p

-----------------------------------------------------------------------------
(* The steps *)

LEMMA LoopStarts == Init => LoopInv
<1>. SUFFICES ASSUME Init PROVE LoopInv
  OBVIOUS
<1>1. /\ 0 \in 0..MaxSpeech /\ 0 \in 0..MaxRuns /\ 0 \in 0..MaxFaults
      /\ kQueueLimit >= 0 /\ RingSize >= 0
  BY BoundAssumption, QueueAssumption
<1>2. TypeOKClient({"audio"})
  BY DEF Init, TypeOKClient, NoRequest, Stages, Statuses
<1>3. ring = << >> /\ queue_ = << >> /\ ring \in Seq(1..MaxSpeech) /\ queue_ \in Seq(1..MaxSpeech)
      /\ Len(ring) = 0 /\ Len(queue_) = 0
  BY EmptySeq DEF Init
<1>4. TypeOK
  BY <1>1, <1>2, <1>3 DEF Init, TypeOK, Healths, Statuses
<1>5. NewestWins /\ Asked /\ Order /\ Reasons
  BY <1>3 DEF Init, NewestWins, Asked, Order, Reasons
<1>. QED
  BY <1>4, <1>5 DEF LoopInv

\* Speech on its way: what Order and NewestWins are about.
speech == <<ring, spoken, before, cut, hand, queue_, segment>>

\* A step that moves no utterance disturbs neither their order nor the backlog.
LEMMA OrderKept ==
  ASSUME LoopInv, UNCHANGED speech, vad' = "cut" => vad = "cut",
         sender' \in {"have", "post"} => sender \in {"have", "post"}
  PROVE  NewestWins' /\ Order'
<1>1. NewestWins'
  BY DEF LoopInv, NewestWins, speech
<1>2. Order'
  BY DEF LoopInv, Order, speech
<1>. QED
  BY <1>1, <1>2

\* The audio thread: the newest utterance goes last, or is lost to a full ring.
LEMMA SpeakInv == LoopInv /\ Speak => LoopInv'
<1>. SUFFICES ASSUME LoopInv, Speak PROVE LoopInv'
  OBVIOUS
<1>. USE DEF LoopInv
<1>1. /\ spoken \in Nat /\ MaxSpeech \in Nat /\ spoken < MaxSpeech /\ spoken' = spoken + 1
      /\ spoken + 1 \in 1..MaxSpeech /\ before \in Nat
      /\ ring \in Seq(1..MaxSpeech) /\ Len(ring) \in Nat /\ Len(ring) <= RingSize /\ RingSize \in Nat
  BY BoundAssumption, QueueAssumption DEF Speak, TypeOK
<1>2. /\ ring' \in Seq(1..MaxSpeech) /\ Len(ring') <= RingSize
      /\ Len(ring') \in {Len(ring), Len(ring) + 1}
      /\ \A i \in 1..Len(ring) : ring'[i] = ring[i] /\ ring[i] \in 1..MaxSpeech
      /\ Len(ring') = Len(ring) + 1 => ring'[Len(ring) + 1] = spoken + 1
  <2>1. CASE Len(ring) < RingSize
    <3>1. ring' = Append(ring, spoken + 1)
      BY <2>1 DEF Speak
    <3>2. /\ ring' \in Seq(1..MaxSpeech) /\ Len(ring') = Len(ring) + 1
          /\ \A i \in 1..Len(ring) : ring'[i] = ring[i]
          /\ ring'[Len(ring) + 1] = spoken + 1
      BY <1>1, <3>1, PuttingLast
    <3>. QED
      BY <1>1, <2>1, <3>2
  <2>2. CASE ~(Len(ring) < RingSize)
    BY <1>1, <2>2 DEF Speak
  <2>. QED
    BY <2>1, <2>2
<1>3. UNCHANGED <<ui, vad, sender, running_, hand, stop_, queue_, health_, segment, paused,
                  result, runs, faults, before, cut, cancelled, wire>>
  BY DEF Speak
<1>4. TypeOK'
  BY <1>1, <1>2, <1>3 DEF TypeOK, TypeOKClient
<1>5. NewestWins' /\ Asked' /\ Reasons'
  BY <1>3 DEF NewestWins, Asked, Reasons
<1>6. Order'
  <2>1. cut \subseteq Nat /\ hand \in Nat
    BY DEF TypeOK
  <2>2. \A i \in 1..Len(ring') : \/ i \in 1..Len(ring) /\ ring'[i] = ring[i] /\ ring[i] \in Nat
                                 \/ i = Len(ring) + 1 /\ ring'[i] = spoken + 1
    <3>1. \A i \in 1..Len(ring') :
            \/ i \in 1..Len(ring)
            \/ i = Len(ring) + 1 /\ Len(ring') = Len(ring) + 1
      BY <1>1, <1>2
    <3>2. \A i \in 1..Len(ring) : ring'[i] = ring[i] /\ ring[i] \in Nat
      BY <1>2
    <3>. QED
      BY <1>2, <3>1, <3>2
  <2>3. \A i, j \in 1..Len(ring') : i < j => ring'[i] < ring'[j]
    <3>1. /\ \A i, j \in 1..Len(ring) : i < j => ring[i] < ring[j]
          /\ \A i \in 1..Len(ring) : ring[i] <= spoken
      BY DEF Order
    <3>2. TAKE i, j \in 1..Len(ring')
    <3>3. HAVE i < j
    <3>4. i \in 1..Len(ring) /\ ring'[i] = ring[i] /\ ring[i] \in Nat
      BY <1>1, <2>2, <3>3
    <3>. QED
      BY <1>1, <2>2, <3>1, <3>3, <3>4
  <2>4. \A i \in 1..Len(ring') : before < ring'[i] /\ ring'[i] <= spoken'
    <3>1. /\ \A i \in 1..Len(ring) : before < ring[i] /\ ring[i] <= spoken
          /\ before <= spoken
      BY DEF Order
    <3>. QED
      BY <1>1, <2>2, <3>1
  <2>5. ASSUME NEW u \in cut
        PROVE  /\ before < u /\ u <= spoken'
               /\ \A i \in 1..Len(ring') : u < ring'[i]
    <3>1. u \in Nat /\ before < u /\ u <= spoken /\ \A i \in 1..Len(ring) : u < ring[i]
      BY <2>1 DEF Order
    <3>. QED
      BY <1>1, <2>2, <3>1
  <2>6. vad = "cut" => /\ before < hand /\ hand <= spoken'
                       /\ \A u \in cut : u < hand
                       /\ \A i \in 1..Len(ring') : hand < ring'[i]
    BY <1>1, <2>1, <2>2 DEF Order
  <2>7. before <= spoken'
    BY <1>1 DEF Order
  <2>. QED
    BY <1>3, <2>3, <2>4, <2>5, <2>6, <2>7 DEF Order
<1>. QED
  BY <1>4, <1>5, <1>6

\* A run begins with nothing on its way, whatever the last one left.
LEMMA StartInv == LoopInv /\ Start => LoopInv'
<1>. SUFFICES ASSUME LoopInv, Start PROVE LoopInv'
  OBVIOUS
<1>. USE DEF LoopInv
<1>1. /\ ring' = << >> /\ queue_' = << >> /\ ring' \in Seq(1..MaxSpeech) /\ queue_' \in Seq(1..MaxSpeech)
      /\ Len(ring') = 0 /\ Len(queue_') = 0 /\ kQueueLimit \in Nat /\ RingSize \in Nat
  BY EmptySeq, QueueAssumption DEF Start
<1>2. runs' \in 0..MaxRuns
  BY BoundAssumption DEF Start, TypeOK
<1>3. /\ vad' = "load" /\ sender' = "wait" /\ health_' = "Listening" /\ cut' = {} /\ before' = spoken
      /\ sender = "absent" /\ UNCHANGED <<ui, hand, segment, result, faults, spoken, wire>>
      /\ running_' = TRUE /\ stop_' = FALSE /\ paused' = FALSE /\ cancelled' = FALSE
  BY DEF Start, Configure, Reasons
<1>4. TypeOK'
  <2>1. /\ Len(ring') <= RingSize /\ Len(queue_') <= kQueueLimit /\ before' \in 0..MaxSpeech
        /\ cut' \subseteq 1..MaxSpeech
    BY <1>1, <1>3 DEF TypeOK
  <2>. QED
    BY <1>1, <1>2, <1>3, <2>1 DEF TypeOK, TypeOKClient, Healths
<1>5. NewestWins'
  BY <1>1, <1>3 DEF NewestWins
<1>6. Asked' /\ Reasons'
  BY <1>3 DEF Asked, Reasons
<1>7. Order'
  <2>1. 1..Len(ring') = {} /\ 1..Len(queue_') = {} /\ before' <= spoken'
    BY <1>1, <1>3 DEF TypeOK
  <2>. QED
    BY <1>3, <2>1 DEF Order
<1>. QED
  BY <1>4, <1>5, <1>6, <1>7

\* The VAD worker takes the oldest utterance of the ring, and cuts it or finds nothing to send.
LEMMA VadReadInv == LoopInv /\ VadRead => LoopInv'
<1>. SUFFICES ASSUME LoopInv, VadRead PROVE LoopInv'
  OBVIOUS
<1>. USE DEF LoopInv
<1>1. /\ ring' = Tail(ring) /\ ring \in Seq(1..MaxSpeech) /\ ring # << >> /\ vad = "listen"
      /\ \/ vad' = "cut" /\ hand' = Head(ring)
         \/ vad' = "listen" /\ hand' = hand
      /\ UNCHANGED <<ui, sender, running_, stop_, queue_, health_, segment, paused, result,
                     runs, faults, spoken, before, cut, cancelled, wire>>
  BY DEF VadRead, TypeOK
<1>2. /\ Len(ring) \in Nat /\ Len(ring) >= 1 /\ Head(ring) = ring[1] /\ Head(ring) \in 1..MaxSpeech
      /\ ring' \in Seq(1..MaxSpeech) /\ Len(ring') = Len(ring) - 1
      /\ \A i \in 1..Len(ring') : ring'[i] = ring[i + 1]
  BY <1>1, TakingHead, Zenon
<1>3. TypeOK'
  <2>1. hand' \in 0..MaxSpeech
    BY <1>1, <1>2 DEF TypeOK
  <2>2. Len(ring') <= RingSize
    BY <1>2, QueueAssumption DEF TypeOK
  <2>. QED
    BY <1>1, <1>2, <2>1, <2>2 DEF TypeOK, TypeOKClient
<1>4. NewestWins' /\ Asked'
  BY <1>1 DEF NewestWins, Asked
<1>5. Reasons'
  BY <1>1 DEF Reasons
<1>6. Order'
  <2>1. \A i \in 1..Len(ring') : i + 1 \in 1..Len(ring) /\ ring'[i] = ring[i + 1]
    BY <1>2
  <2>2. /\ \A i, j \in 1..Len(ring') : i < j => ring'[i] < ring'[j]
        /\ \A i \in 1..Len(ring') : before < ring'[i] /\ ring'[i] <= spoken
        /\ \A u \in cut : /\ before < u /\ u <= spoken
                          /\ \A i \in 1..Len(ring') : u < ring'[i]
    <3>1. \A i, j \in 1..Len(ring') : i < j => i + 1 < j + 1
      BY <1>2
    <3>2. /\ \A i, j \in 1..Len(ring) : i < j => ring[i] < ring[j]
          /\ \A i \in 1..Len(ring) : before < ring[i] /\ ring[i] <= spoken
          /\ \A u \in cut : /\ before < u /\ u <= spoken
                            /\ \A i \in 1..Len(ring) : u < ring[i]
      BY DEF Order
    <3>. QED
      BY <2>1, <3>1, <3>2
  <2>3. ASSUME vad' = "cut"
        PROVE  /\ before < hand' /\ hand' <= spoken
               /\ \A u \in cut : u < hand'
               /\ \A i \in 1..Len(ring') : hand' < ring'[i]
    <3>1. hand' = ring[1] /\ 1 \in 1..Len(ring) /\ \A i \in 1..Len(ring') : 1 < i + 1
      BY <1>1, <1>2, <2>3
    <3>. QED
      BY <2>1, <3>1 DEF Order
  <2>. QED
    BY <1>1, <2>2, <2>3 DEF Order
<1>. QED
  BY <1>3, <1>4, <1>5, <1>6

\* The segment in hand becomes the newest of the backlog; only the oldest may have made room.
LEMMA EnqueueInv == LoopInv /\ Enqueue => LoopInv'
<1>. SUFFICES ASSUME LoopInv, Enqueue PROVE LoopInv'
  OBVIOUS
<1>. USE DEF LoopInv
<1>1. /\ vad = "cut" /\ vad' = "queued" /\ queue_' = Push(queue_, hand)
      /\ cut' = cut \cup {hand} /\ hand' = 0
      /\ UNCHANGED <<ui, sender, running_, ring, spoken, stop_, health_, segment, paused, result,
                     runs, faults, before, cancelled, wire>>
  BY DEF Enqueue, VadStep, tap
<1>2. /\ queue_ \in Seq(1..MaxSpeech) /\ Len(queue_) \in Nat /\ Len(queue_) <= kQueueLimit
      /\ hand \in Nat /\ before \in Nat /\ before < hand /\ hand <= spoken
      /\ spoken \in 0..MaxSpeech /\ cut \subseteq Nat /\ segment \in Nat
      /\ \A u \in cut : u < hand
      /\ \A i \in 1..Len(ring) : hand < ring[i]
  BY <1>1 DEF TypeOK, Order
<1>3. hand \in 1..MaxSpeech
  BY <1>2, BoundAssumption
<1>4. /\ queue_' \in Seq(1..MaxSpeech) /\ Len(queue_') <= kQueueLimit
  BY <1>1, <1>2, <1>3, PushIsNewest
<1>5. /\ \A i \in 1..Len(queue_') : queue_'[i] = hand \/ queue_'[i] \in {queue_[k] : k \in 1..Len(queue_)}
      /\ \A i, j \in 1..Len(queue_') : i < j => queue_'[i] < queue_'[j]
      /\ \A v \in cut' : queue_' # << >> /\ v >= Head(queue_') => Contains(queue_', v)
  <2>1. /\ \A i \in 1..Len(queue_) : queue_[i] \in cut
        /\ \A i, j \in 1..Len(queue_) : i < j => queue_[i] < queue_[j]
        /\ \A v \in cut : queue_ # << >> /\ v >= Head(queue_) => Contains(queue_, v)
    BY DEF NewestWins, Order
  <2>2. cut \in SUBSET Nat /\ \A v \in cut : v < hand
    BY <1>2
  <2>3. /\ \A i \in 1..Len(Push(queue_, hand)) :
              \/ Push(queue_, hand)[i] = hand
              \/ Push(queue_, hand)[i] \in {queue_[k] : k \in 1..Len(queue_)}
        /\ \A i, j \in 1..Len(Push(queue_, hand)) : i < j => Push(queue_, hand)[i] < Push(queue_, hand)[j]
        /\ \A v \in cut \cup {hand} :
              Push(queue_, hand) # << >> /\ v >= Head(Push(queue_, hand)) => Contains(Push(queue_, hand), v)
    BY <1>2, <1>3, <2>1, <2>2, PushKeepsLatest
  <2>. QED
    BY <1>1, <2>3
<1>6. TypeOK'
  <2>1. hand' \in 0..MaxSpeech /\ cut' \subseteq 1..MaxSpeech
    BY <1>1, <1>3, BoundAssumption DEF TypeOK
  <2>. QED
    BY <1>1, <1>4, <2>1 DEF TypeOK, TypeOKClient
<1>7. NewestWins'
  <2>1. ASSUME sender \in {"have", "post"} PROVE \A i \in 1..Len(queue_') : segment < queue_'[i]
    <3>1. segment < hand /\ \A i \in 1..Len(queue_) : segment < queue_[i]
      BY <1>2, <2>1 DEF NewestWins, Order
    <3>. QED
      BY <1>5, <3>1
  <2>. QED
    BY <1>1, <1>5, <2>1 DEF NewestWins
<1>8. Asked' /\ Reasons'
  <2>1. health_ # "VadFailed"
    BY <1>1 DEF Reasons
  <2>. QED
    BY <1>1, <2>1 DEF Asked, Reasons
<1>9. Order'
  <2>1. \A i \in 1..Len(queue_') : queue_'[i] \in cut'
    BY <1>1, <1>5 DEF Order
  <2>2. \A u \in cut' : /\ before < u /\ u <= spoken
                        /\ \A i \in 1..Len(ring) : u < ring[i]
    BY <1>1, <1>2 DEF Order
  <2>. QED
    BY <1>1, <2>1, <2>2 DEF Order
<1>. QED
  BY <1>6, <1>7, <1>8, <1>9

\* What the sender takes is older than all it leaves, and it leaves no hole.
LEMMA SenderTakesInv == LoopInv /\ SenderTakes => LoopInv'
<1>. SUFFICES ASSUME LoopInv, SenderTakes PROVE LoopInv'
  OBVIOUS
<1>. USE DEF LoopInv
<1>1. /\ sender = "wait" /\ sender' = "have" /\ queue_ # << >>
      /\ segment' = Head(queue_) /\ queue_' = Tail(queue_)
      /\ UNCHANGED <<ui, vad, running_, ring, spoken, hand, stop_, health_, paused, result,
                     runs, faults, before, cut, cancelled, wire>>
  BY DEF SenderTakes, SenderStep, tap
<1>2. /\ Len(queue_) \in Nat /\ Len(queue_) >= 1 /\ segment' = queue_[1] /\ segment' \in 1..MaxSpeech
      /\ queue_' \in Seq(1..MaxSpeech) /\ Len(queue_') = Len(queue_) - 1
      /\ \A i \in 1..Len(queue_') : queue_'[i] = queue_[i + 1]
  <2>1. queue_ \in Seq(1..MaxSpeech)
    BY DEF TypeOK
  <2>. QED
    BY <1>1, <2>1, TakingHead, Zenon
<1>3. /\ 1 \in 1..Len(queue_)
      /\ \A i \in 1..Len(queue_') : i + 1 \in 1..Len(queue_) /\ 1 < i + 1 /\ queue_'[i] = queue_[i + 1]
  BY <1>2
<1>4. TypeOK'
  <2>1. Len(queue_') <= kQueueLimit /\ segment' \in 0..MaxSpeech
    BY <1>2, QueueAssumption DEF TypeOK
  <2>. QED
    BY <1>1, <1>2, <2>1 DEF TypeOK, TypeOKClient
<1>5. NewestWins'
  <2>1. \A i, j \in 1..Len(queue_) : i < j => queue_[i] < queue_[j]
    BY DEF NewestWins
  <2>2. \A i, j \in 1..Len(queue_') : i < j => queue_'[i] < queue_'[j]
    BY <1>2, <1>3, <2>1
  <2>3. \A i \in 1..Len(queue_') : segment' < queue_'[i]
    BY <1>2, <1>3, <2>1
  <2>4. ASSUME NEW u \in cut, queue_' # << >>, u >= Head(queue_') PROVE Contains(queue_', u)
    <3>1. Head(queue_') = queue_'[1] /\ 1 \in 1..Len(queue_')
      BY <1>2, <2>4
    <3>2. /\ u >= queue_[2] /\ queue_[1] < queue_[2] /\ u \in Nat
          /\ queue_[1] \in Nat /\ queue_[2] \in Nat
      <4>1. 2 \in 1..Len(queue_) /\ queue_'[1] = queue_[2]
        BY <1>3, <3>1
      <4>2. queue_[1] < queue_[2]
        BY <1>3, <2>1, <4>1
      <4>3. queue_[1] \in Nat /\ queue_[2] \in Nat /\ u \in Nat
        <5>1. queue_[1] \in cut /\ queue_[2] \in cut
          BY <1>3, <4>1 DEF Order
        <5>2. cut \subseteq Nat
          BY DEF TypeOK
        <5>. QED
          BY <5>1, <5>2
      <4>. QED
        BY <2>4, <3>1, <4>1, <4>2, <4>3
    <3>3. PICK k \in 1..Len(queue_) : queue_[k] = u
      <4>1. u >= Head(queue_)
        BY <1>1, <1>2, <3>2
      <4>. QED
        BY <1>1, <4>1 DEF NewestWins, Contains
    <3>4. k # 1
      BY <3>2, <3>3
    <3>5. k - 1 \in 1..Len(queue_') /\ (k - 1) + 1 = k
      BY <1>2, <3>3, <3>4
    <3>6. queue_'[k - 1] = u
      BY <1>2, <3>3, <3>5
    <3>. QED
      BY <3>5, <3>6 DEF Contains
  <2>. QED
    BY <1>1, <2>2, <2>3, <2>4 DEF NewestWins
<1>6. Asked' /\ Reasons'
  BY <1>1 DEF Asked, Reasons, Order
<1>7. Order'
  <2>1. /\ \A i \in 1..Len(queue_') : queue_'[i] \in cut
        /\ segment' \in cut
    BY <1>2, <1>3 DEF Order
  <2>. QED
    BY <1>1, <2>1 DEF Order
<1>. QED
  BY <1>4, <1>5, <1>6, <1>7

\* The UI thread stops the workers and, when both are gone, forgets why.
LEMMA StoppingInv == LoopInv /\ (StopTap \/ Stopping) => LoopInv'
<1>. SUFFICES ASSUME LoopInv, StopTap \/ Stopping PROVE LoopInv'
  OBVIOUS
<1>. USE DEF LoopInv
<1>1. /\ ui' \in {"free", "tapped", "raised", "cancelled", "joining"}
      /\ running_' \in BOOLEAN /\ stop_' \in BOOLEAN /\ cancelled' \in BOOLEAN
      /\ UNCHANGED <<speech, paused, result, runs, faults, wire>>
  BY DEF StopTap, Stopping, StopRaise, StopCancel, StopNotify, StopJoin, UIStep, Cancel, tap, speech,
         TypeOK, TypeOKClient
<1>2. \/ UNCHANGED <<vad, sender, health_>>
      \/ sender = "blocked" /\ sender' = "wait" /\ UNCHANGED <<vad, health_>>
      \/ /\ vad = "exited" /\ sender = "exited"
         /\ vad' = "absent" /\ sender' = "absent" /\ health_' = "Idle"
  BY DEF StopTap, Stopping, StopRaise, StopCancel, StopNotify, StopJoin, NotifySender
<1>3. TypeOK'
  BY <1>1, <1>2 DEF TypeOK, TypeOKClient, Healths, speech
<1>4. NewestWins' /\ Order'
  BY <1>1, <1>2, OrderKept
<1>5. Asked' /\ Reasons'
  BY <1>1, <1>2 DEF Asked, Reasons, speech
<1>. QED
  BY <1>3, <1>4, <1>5

\* The VAD worker's other steps move no utterance.
LEMMA VadInv ==
  LoopInv /\ (VadLoaded \/ VadFails \/ VadRaises \/ VadNotifies \/ EnqueueNotify \/ VadLeaves) => LoopInv'
<1>. SUFFICES ASSUME LoopInv,
                     VadLoaded \/ VadFails \/ VadRaises \/ VadNotifies \/ EnqueueNotify \/ VadLeaves
              PROVE  LoopInv'
  OBVIOUS
<1>. USE DEF LoopInv
<1>1. /\ stop_' \in BOOLEAN
      /\ UNCHANGED <<ui, running_, speech, paused, result, runs, faults, cancelled, wire>>
      /\ sender' = sender \/ (sender = "blocked" /\ sender' = "wait")
  BY DEF VadLoaded, VadFails, VadRaises, VadNotifies, EnqueueNotify, VadLeaves, NotifySender, tap,
         speech, TypeOK
<1>2. \/ vad = "load" /\ vad' = "listen" /\ UNCHANGED health_
      \/ vad = "load" /\ vad' = "raise" /\ health_' = "VadFailed"
      \/ vad = "raise" /\ vad' = "notify" /\ UNCHANGED health_
      \/ vad = "notify" /\ vad' = "exited" /\ UNCHANGED health_
      \/ vad = "queued" /\ vad' = "listen" /\ UNCHANGED health_
      \/ vad = "listen" /\ vad' = "exited" /\ UNCHANGED health_
  BY DEF VadLoaded, VadFails, VadRaises, VadNotifies, EnqueueNotify, VadLeaves, VadStep
<1>3. TypeOK'
  BY <1>1, <1>2 DEF TypeOK, TypeOKClient, Healths, speech
<1>4. NewestWins' /\ Order'
  BY <1>1, <1>2, OrderKept
<1>5. Asked' /\ Reasons'
  BY <1>1, <1>2 DEF Asked, Reasons, speech
<1>. QED
  BY <1>3, <1>4, <1>5

\* The sender's waits and verdicts.
LEMMA SenderInv ==
  LoopInv /\ (\/ SenderWaits \/ SenderLeaves \/ SenderDrops \/ SenderHealthy \/ SenderRateLimited
              \/ SenderFailed \/ SenderGivesUp \/ SenderRaises) => LoopInv'
<1>. SUFFICES ASSUME LoopInv,
                     \/ SenderWaits \/ SenderLeaves \/ SenderDrops \/ SenderHealthy \/ SenderRateLimited
                     \/ SenderFailed \/ SenderGivesUp \/ SenderRaises
              PROVE  LoopInv'
  OBVIOUS
<1>. USE DEF LoopInv
<1>1. /\ stop_' \in BOOLEAN /\ paused' \in BOOLEAN
      /\ UNCHANGED <<ui, vad, running_, speech, result, runs, faults, cancelled, wire>>
  BY DEF SenderWaits, SenderLeaves, SenderDrops, SenderHealthy, SenderRateLimited, SenderFailed,
         SenderGivesUp, SenderRaises, tap, speech, TypeOK
<1>2. \/ sender = "wait" /\ sender' \in {"blocked", "exited"} /\ UNCHANGED health_
      \/ sender = "have" /\ sender' = "wait" /\ UNCHANGED health_
      \/ sender = "judge" /\ sender' = "wait" /\ health_' \in {"Listening", "Retrying", health_}
      \/ sender = "judge" /\ sender' = "raise" /\ health_' \in {"SpeechDisabled", "KeyRejected"}
      \/ sender = "raise" /\ sender' = "exited" /\ UNCHANGED health_
  BY DEF SenderWaits, SenderLeaves, SenderDrops, SenderHealthy, SenderRateLimited, SenderFailed,
         SenderGivesUp, SenderRaises, SenderStep
<1>3. TypeOK'
  BY <1>1, <1>2 DEF TypeOK, TypeOKClient, Healths, speech
<1>4. NewestWins' /\ Order'
  BY <1>1, <1>2, OrderKept
<1>5. Asked'
  BY <1>1, <1>2 DEF Asked
<1>6. Reasons'
  BY <1>1, <1>2 DEF Reasons, speech
<1>. QED
  BY <1>3, <1>4, <1>5, <1>6

\* A segment on the wire.
LEMMA WireInv == LoopInv /\ (SenderPosts \/ Posted \/ Serve \/ PauseOver) => LoopInv'
<1>. SUFFICES ASSUME LoopInv, SenderPosts \/ Posted \/ Serve \/ PauseOver PROVE LoopInv'
  OBVIOUS
<1>. USE DEF LoopInv
<1>. DEFINE Wires == [path : {"audio"} \cup {"none"}, stage : Stages, status : Statuses]
<1>1. UNCHANGED <<ui, vad, running_, stop_, health_, speech, runs, cancelled>> /\ paused' \in BOOLEAN
  BY DEF SenderPosts, Posted, Serve, PauseOver, tap, speech, TypeOK
<1>2. /\ wire' \in Wires /\ (wire' # NoRequest => sender' = "post")
      /\ \/ sender = "have" /\ sender' = "post"
         \/ sender = "post" /\ sender' = "judge"
         \/ sender' = sender
  <2>1. CASE SenderPosts
    <3>1. wire' = [path |-> "audio", stage |-> IF cancelled THEN "refused" ELSE "sent", status |-> "failed"]
      BY <2>1 DEF SenderPosts, Issue
    <3>2. wire' \in Wires
      BY <3>1 DEF Stages, Statuses
    <3>. QED
      BY <2>1, <3>2 DEF SenderPosts, SenderStep
  <2>2. CASE Posted
    BY <2>2 DEF Posted, SenderStep, Hangup, NoRequest, Stages, Statuses
  <2>3. CASE Serve
    <3>1. PICK s \in Statuses : wire.stage = "sent" /\ wire' = [wire EXCEPT !.stage = "served", !.status = s]
      BY <2>3 DEF Serve, Served
    <3>2. wire \in Wires
      BY DEF TypeOK, TypeOKClient
    <3>3. wire' \in Wires
      BY <3>1, <3>2 DEF Stages
    <3>4. wire # NoRequest
      BY <3>1 DEF NoRequest
    <3>. QED
      BY <2>3, <3>3, <3>4 DEF Serve, Asked
  <2>4. CASE PauseOver
    BY <2>4 DEF PauseOver, Asked, TypeOK, TypeOKClient
  <2>. QED
    BY <2>1, <2>2, <2>3, <2>4
<1>3. result' \in Statuses /\ faults' \in 0..MaxFaults
  BY BoundAssumption DEF SenderPosts, Posted, Serve, PauseOver, TypeOK
<1>4. TypeOK'
  BY <1>1, <1>2, <1>3 DEF TypeOK, TypeOKClient, speech
<1>5. NewestWins' /\ Order'
  BY <1>1, <1>2, OrderKept
<1>6. Asked'
  BY <1>2 DEF Asked
<1>7. Reasons'
  BY <1>1, <1>2 DEF Reasons, speech
<1>. QED
  BY <1>4, <1>5, <1>6, <1>7

LEMMA LoopStep == LoopInv /\ [Next]_vars => LoopInv'
<1>. SUFFICES ASSUME LoopInv, [Next]_vars PROVE LoopInv'
  OBVIOUS
<1>1. CASE UNCHANGED vars
  BY <1>1 DEF vars, tap, LoopInv, TypeOK, TypeOKClient, NewestWins, Asked, Order, Reasons
<1>. QED
  BY <1>1, SpeakInv, StartInv, StoppingInv, VadReadInv, EnqueueInv, VadInv, SenderTakesInv, SenderInv,
     WireInv DEF Next, VadWorker, Sender

LEMMA LoopInvHolds == Spec => []LoopInv
  BY LoopStarts, LoopStep, PTL DEF Spec

-----------------------------------------------------------------------------
(* The theorems *)

\* For queues of any limit: the backlog is the latest segments in the order spoken with no
\* hole in it, and what is being sent is older than all of it.
THEOREM LatestSpeechIsKept == Spec => []AudioInvariant
<1>1. LoopInv => AudioInvariant
  BY DEF LoopInv, AudioInvariant
<1>. QED
  BY <1>1, LoopInvHolds, PTL

\* In every run what is posted was said in that run.
THEOREM OldSpeechIsForgotten == Spec => []NoStaleSpeech
<1>1. LoopInv => NoStaleSpeech
  <2>. SUFFICES ASSUME LoopInv, wire.path = "audio" PROVE segment > before
    BY DEF NoStaleSpeech
  <2>1. sender = "post"
    BY DEF LoopInv, Asked, NoRequest
  <2>2. segment \in cut
    BY <2>1 DEF LoopInv, Order
  <2>3. before < segment /\ segment \in Nat /\ before \in Nat
    BY <2>2 DEF LoopInv, Order, TypeOK
  <2>. QED
    BY <2>3
<1>. QED
  BY <1>1, LoopInvHolds, PTL

\* Why the ears gave up stays on the panel until the UI's stop(), whatever the other worker
\* and the answers still on their way do.
THEOREM ReasonStaysPut == Spec => StaysPut
<1>1. LoopInv /\ [Next]_vars => [(health_ \in GivenUp /\ health_' # health_)
                                    => (ui = "joining" /\ health_' = "Idle")]_vars
  <2>. SUFFICES ASSUME LoopInv, Next, health_ \in GivenUp, health_' # health_
                PROVE  ui = "joining" /\ health_' = "Idle"
    OBVIOUS
  <2>1. StopJoin \/ Start \/ VadFails \/ SenderHealthy \/ SenderRateLimited \/ SenderFailed \/ SenderGivesUp
    BY DEF Next, Stopping, VadWorker, Sender, Speak, StopTap, StopRaise, StopCancel, StopNotify,
           VadLoaded, VadRaises, VadNotifies, VadRead, Enqueue, EnqueueNotify, VadLeaves,
           SenderWaits, SenderLeaves, SenderTakes, SenderDrops, SenderPosts, Posted, SenderRaises,
           Serve, PauseOver
  <2>2. vad # "absent" /\ vad # "load" /\ sender # "judge"
    BY DEF LoopInv, Reasons, GivenUp
  <2>3. StopJoin
    BY <2>1, <2>2 DEF Start, VadFails, VadStep, SenderHealthy, SenderRateLimited, SenderFailed,
                      SenderGivesUp, SenderStep
  <2>. QED
    BY <2>3 DEF StopJoin, UIStep
<1>. QED
  BY <1>1, LoopInvHolds, PTL DEF Spec, StaysPut
=============================================================================
