----------------------------- MODULE DurableStore -----------------------------
(***************************************************************************)
(* What plugin-config promises of its files ("a crash mid-write keeps the  *)
(* old file", plugin-config.cpp:91): each holds one version at a time, and *)
(* a save replaces it at one instant or not at all, whatever fails or      *)
(* crashes on the way.  SettingsFile implements this.                      *)
(***************************************************************************)
CONSTANTS
    Files,
    Versions,    \* what a file may hold
    Missing      \* nothing was ever saved

VARIABLES
    stored,      \* what the next load will find
    asked        \* the saves under way, at most one

Requests == [file : Files, data : Versions]

Init == stored = [f \in Files |-> Missing] /\ asked = {}

Ask == asked = {} /\ (\E r \in Requests : asked' = {r}) /\ UNCHANGED stored

Commit == \E r \in asked : stored' = [stored EXCEPT ![r.file] = r.data] /\ asked' = {}

\* A failure, or a crash before the instant.
GiveUp == asked' = {} /\ UNCHANGED stored

\* Someone else's hand, while the program is not running.
Meddle ==
    /\ asked = {} /\ UNCHANGED asked
    /\ \E f \in Files, v \in Versions \cup {Missing} : stored' = [stored EXCEPT ![f] = v]

Next == Ask \/ Commit \/ GiveUp \/ Meddle

Spec == Init /\ [][Next]_<<stored, asked>>
=============================================================================
