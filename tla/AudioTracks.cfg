SPECIFICATION TracksSpec
CONSTANTS
    Sources = {"mic"}
    MAX_AUDIO_MIXES = 3
    Profiles <- MCProfiles
INVARIANTS
    TracksInvariant
    OnlyTickedIsHeard
PROPERTIES
    OwnTrackIsNotWiped
