SPECIFICATION Spec
CONSTANTS
    Missing = Missing
    Torn = Torn
    Keys = {"key"}
    Uuids = {"game"}
    MAX_AUDIO_MIXES = 1
    Numbers <- MCNumbers
    Bindings = {"F1", "F2"}
    HandWritten <- MCHandWritten
    MaxSaves = 3
    MaxFails = 1
    MaxMishaps = 2
INVARIANTS SettingsInvariant HotkeysOnDisk
PROPERTIES RestartKeepsSettings RefinesStore
