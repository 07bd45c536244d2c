---------------------------- MODULE MCSettingsFile ----------------------------
EXTENDS SettingsFile

\* Written by hand: nothing usable, a track that OBS does not have, and a good key.
MCHandWritten ==
    {[backend_url |-> Malformed, access_key |-> Malformed, source_uuid |-> Unset, audio_track |-> 7],
     [backend_url |-> "usable", access_key |-> "key", source_uuid |-> "game", audio_track |-> 0]}
MCNumbers == {-1, 0, 7}
=============================================================================
