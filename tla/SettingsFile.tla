----------------------------- MODULE SettingsFile -----------------------------
(***************************************************************************)
(* The two files of the plugin: the settings (plugin-config) and the       *)
(* hotkey bindings (plugin-main's save_hotkeys).  Both are written by the  *)
(* UI thread through obs_data_save_json_safe: a temporary is written, the  *)
(* old file becomes the backup, the temporary takes its place.  Any step   *)
(* may fail, and OBS may crash between any two.                            *)
(***************************************************************************)
EXTENDS Integers

CONSTANTS
    Missing,         \* there is no such file
    Torn,            \* a file that does not parse
    Keys,            \* access keys is_token() accepts
    Uuids,           \* of sources
    MAX_AUDIO_MIXES,
    Numbers,         \* what may be written as a track
    Bindings,        \* of the hotkey, as obs_hotkey_save() gives them
    HandWritten,     \* settings a streamer may write into the file
    MaxSaves, MaxFails, MaxMishaps   \* bounds: saves begun; steps that fail; crashes, damages and edits of a file

None == -1
Unset == ""
Malformed == "malformed"
NoBindings == "[]"    \* a hotkey nobody bound

\* backend_url is only ever set by hand, so it is as good as one bit.
Config == [backend_url : {Unset, "usable", Malformed}, access_key : Keys \cup {Unset, Malformed},
           source_uuid : Uuids \cup {Unset}, audio_track : Numbers]
Defaults == [backend_url |-> Unset, access_key |-> Unset, source_uuid |-> Unset, audio_track |-> None]

HotkeyFile == [drop_order : Bindings \cup {NoBindings}]
Files == {"settings", "hotkeys"}
Versions == Config \cup HotkeyFile
Slots == Versions \cup {Missing, Torn}

ASSUME SettingsAssumption ==
    /\ Missing # Torn /\ {Missing, Torn} \cap Versions = {}
    /\ {Unset, Malformed} \cap Keys = {} /\ Unset \notin Uuids
    /\ {Unset, NoBindings} \cap Bindings = {}
    /\ MAX_AUDIO_MIXES \in Nat /\ None..(MAX_AUDIO_MIXES - 1) \subseteq Numbers /\ Numbers \subseteq Int
    /\ HandWritten \subseteq Config
ASSUME BoundAssumption == MaxSaves \in Nat /\ MaxFails \in Nat /\ MaxMishaps \in Nat

VARIABLES
    disk,       \* per file: the file, its backup, its temporary
    phase,      \* of the program: "down", "up", "leaving" from EXIT on
    at,         \* where obs_data_save_json_safe() is; "idle" outside
    job,        \* the save under way, at most one
    g_config,
    bindings,   \* OBS's, which the settings dialog edits
    saved_drop_order_bindings,
    kept,       \* history: the last version saved whole, by us or by hand
    before,     \* history: the one before it, while it was not lost
    missed,     \* history: the last save of the hotkeys failed
    saves, fails, mishaps

memory == <<g_config, bindings, saved_drop_order_bindings>>
history == <<kept, before>>
bounds == <<saves, fails, mishaps>>
vars == <<disk, phase, at, job, memory, history, missed, bounds>>

Parses(slot) == slot \notin {Missing, Torn}

\* Mutant: the backup is not asked.
FileOnly(d) == d

\* obs_data_create_from_json_file_safe(): a file that does not parse gives way to its backup.
Recovered(d) ==
    IF Parses(d.file) \/ d.bak = Missing THEN d ELSE [d EXCEPT !.file = d.bak, !.bak = Missing]
Read(d) == IF Parses(Recovered(d).file) THEN Recovered(d).file ELSE Missing

Init ==
    /\ disk = [f \in Files |-> [file |-> Missing, bak |-> Missing, tmp |-> Missing]]
    /\ phase = "down" /\ at = "idle" /\ job = {}
    /\ g_config = Defaults /\ bindings = NoBindings /\ saved_drop_order_bindings = Unset
    /\ kept = [f \in Files |-> Missing] /\ before = [f \in Files |-> Missing]
    /\ missed = FALSE
    /\ saves = 0 /\ fails = 0 /\ mishaps = 0

-----------------------------------------------------------------------------
(* One save *)

\* ensure_config_dir() may fail, and then there is no save to speak of.
Save(f, version) ==
    /\ saves < MaxSaves /\ saves' = saves + 1
    /\ \/ /\ at' = "open" /\ job' = {[file |-> f, data |-> version]}
          /\ missed' = (missed /\ f # "hotkeys") /\ UNCHANGED fails
       \/ /\ fails < MaxFails /\ fails' = fails + 1
          /\ missed' = (missed \/ f = "hotkeys") /\ UNCHANGED <<at, job>>

Step(from, to) ==
    /\ at = from /\ at' = to
    /\ UNCHANGED <<phase, memory, missed, bounds>>

\* os_quick_write_utf8_file(): the temporary is emptied, then written.
OpenTemporary ==
    /\ Step("open", "write")
    /\ \E r \in job : disk' = [disk EXCEPT ![r.file].tmp = Torn]
    /\ UNCHANGED <<job, history>>

WriteTemporary ==
    /\ Step("write", "backup")
    /\ \E r \in job : disk' = [disk EXCEPT ![r.file].tmp = r.data]
    /\ UNCHANGED <<job, history>>

\* Mutant: the old file is deleted.
DeleteOld ==
    /\ Step("backup", "rename")
    /\ \E r \in job : disk' = [disk EXCEPT ![r.file].file = Missing]
    /\ UNCHANGED <<job, history>>

\* os_safe_replace(): two renames, the first only if there is a file.
BackUp ==
    /\ Step("backup", "rename")
    /\ \E r \in job :
         /\ disk' = IF disk[r.file].file = Missing THEN disk
                    ELSE [disk EXCEPT ![r.file].bak = disk[r.file].file, ![r.file].file = Missing]
         /\ before' = [before EXCEPT ![r.file] = Missing]
    /\ UNCHANGED <<job, kept>>

Replace ==
    /\ Step("rename", "idle")
    /\ \E r \in job :
         /\ disk' = [disk EXCEPT ![r.file].file = disk[r.file].tmp, ![r.file].tmp = Missing]
         /\ kept' = [kept EXCEPT ![r.file] = r.data]
         /\ before' = [before EXCEPT ![r.file] = kept[r.file]]
    /\ job' = {}

\* A full disk, a file held by another program: any step, logged and forgotten.
SaveFailed ==
    /\ at # "idle" /\ at' = "idle"
    /\ fails < MaxFails /\ fails' = fails + 1
    /\ missed' = (missed \/ \E r \in job : r.file = "hotkeys")
    /\ job' = {}
    /\ UNCHANGED <<disk, phase, memory, history, saves, mishaps>>

-----------------------------------------------------------------------------
(* The settings: config::get(), one field changed, config::set() *)

Idle == phase = "up" /\ at = "idle"

Set(next) ==
    /\ phase # "down" /\ at = "idle"
    /\ g_config' = next
    /\ Save("settings", next)
    /\ UNCHANGED <<disk, phase, bindings, saved_drop_order_bindings, history, mishaps>>

\* The dock's queue still delivers a sign-in that the worker ended before EXIT
\* stopped it (applyLinkEvent() asks nothing): see LinkFlow.
SignIn == \E k \in Keys : Set([g_config EXCEPT !.access_key = k])
SignOut == Idle /\ Set([g_config EXCEPT !.access_key = Unset])
SelectSource == Idle /\ \E u \in Uuids \cup {Unset} : Set([g_config EXCEPT !.source_uuid = u])
TakeTrack == Idle /\ \E t \in 0..(MAX_AUDIO_MIXES - 1) : Set([g_config EXCEPT !.audio_track = t])

-----------------------------------------------------------------------------
(* The hotkey *)

\* The settings dialog of OBS.
Rebound ==
    /\ Idle
    /\ bindings' \in (Bindings \cup {NoBindings}) \ {bindings}
    /\ UNCHANGED <<disk, phase, at, job, g_config, saved_drop_order_bindings, history, missed,
                   bounds>>

\* config::save_hotkey() reads the file, changes its one key and writes it back.
SaveHotkey ==
    /\ disk' = [disk EXCEPT !["hotkeys"] = Recovered(@)]
    /\ Save("hotkeys", [drop_order |-> bindings])

\* save_hotkeys(): remembered as saved, whatever became of the save.
SaveHotkeys ==
    IF bindings = saved_drop_order_bindings
    THEN UNCHANGED <<disk, at, job, saved_drop_order_bindings, missed, saves, fails>>
    ELSE /\ saved_drop_order_bindings' = bindings
         /\ SaveHotkey

\* OBS saves the scene collection.
FrontendSave ==
    /\ Idle
    /\ SaveHotkeys
    /\ UNCHANGED <<phase, g_config, bindings, history, mishaps>>

\* Mutant: EXIT only stops the workers.
ExitUnsaved ==
    /\ Idle /\ phase' = "leaving"
    /\ UNCHANGED <<disk, at, job, memory, history, missed, bounds>>

\* OBS_FRONTEND_EVENT_EXIT; what shutdown_workers() then stops is in other modules.
Exit ==
    /\ Idle /\ phase' = "leaving"
    /\ SaveHotkeys
    /\ UNCHANGED <<g_config, bindings, history, mishaps>>

Unload ==
    /\ phase = "leaving" /\ at = "idle" /\ phase' = "down"
    /\ UNCHANGED <<disk, at, job, memory, history, missed, bounds>>

-----------------------------------------------------------------------------
(* config::load() of obs_module_load, register_hotkeys() of obs_module_post_load *)

\* Mutant: a track is taken as it is written.
AnyTrack(t) == t
TrackInRange(t) == IF t \in 0..(MAX_AUDIO_MIXES - 1) THEN t ELSE None

\* "Whatever else arrives from ... the settings file is refused".
Refused(field) == IF field = Malformed THEN Unset ELSE field
Usable(version) ==
    IF version = Missing THEN Defaults
    ELSE [version EXCEPT !.backend_url = Refused(@), !.access_key = Refused(@),
                         !.audio_track = TrackInRange(@)]
Bound(version) == IF version = Missing THEN NoBindings ELSE version.drop_order

Load ==
    /\ phase = "down" /\ phase' = "up"
    /\ disk' = [f \in Files |-> Recovered(disk[f])]
    /\ LET found(f) == IF Parses(disk'[f].file) THEN disk'[f].file ELSE Missing IN
       /\ g_config' = Usable(found("settings"))
       /\ bindings' = Bound(found("hotkeys"))
       /\ saved_drop_order_bindings' =
            IF found("hotkeys") = Missing THEN Unset ELSE found("hotkeys").drop_order
    /\ missed' = FALSE
    /\ UNCHANGED <<at, job, history, bounds>>

-----------------------------------------------------------------------------
(* Mishaps *)

Mishap == mishaps < MaxMishaps /\ mishaps' = mishaps + 1

\* Whatever a save has done so far stays on the disk.
Crash ==
    /\ Mishap
    /\ phase # "down" /\ phase' = "down"
    /\ at' = "idle" /\ job' = {}
    /\ UNCHANGED <<disk, memory, history, missed, saves, fails>>

Meddled ==
    /\ Mishap /\ phase = "down"
    /\ UNCHANGED <<phase, at, job, memory, missed, saves, fails>>

\* A file that was whole is found broken.
Damage ==
    /\ Meddled
    /\ \E f \in Files :
         /\ Parses(disk[f].file)
         /\ disk' = [disk EXCEPT ![f].file = Torn]
         /\ kept' = [kept EXCEPT ![f] = before[f]]
         /\ before' = [before EXCEPT ![f] = Missing]

\* "Only ever set by hand, for development."
EditByHand ==
    /\ Meddled
    /\ Parses(disk["settings"].file)
    /\ \E version \in HandWritten :
         /\ disk' = [disk EXCEPT !["settings"].file = version]
         /\ kept' = [kept EXCEPT !["settings"] = version]
    /\ UNCHANGED before

-----------------------------------------------------------------------------
Saving == OpenTemporary \/ WriteTemporary \/ BackUp \/ Replace \/ SaveFailed
Settings == SignIn \/ SignOut \/ SelectSource \/ TakeTrack
Hotkeys == Rebound \/ FrontendSave
Life == Load \/ Exit \/ Unload \/ Crash \/ Damage \/ EditByHand

Next == Saving \/ Settings \/ Hotkeys \/ Life

Spec == Init /\ [][Next]_vars

-----------------------------------------------------------------------------
\* Every variable keeps to its range.
TypeOK ==
    /\ disk \in [Files -> [file : Slots, bak : Slots, tmp : Slots]]
    /\ phase \in {"down", "up", "leaving"}
    /\ at \in {"idle", "open", "write", "backup", "rename"}
    /\ \A r \in job : r.file \in Files /\ r.data \in Versions
    /\ g_config \in Config
    /\ bindings \in Bindings \cup {NoBindings}
    /\ saved_drop_order_bindings \in Bindings \cup {NoBindings, Unset}
    /\ kept \in [Files -> Versions \cup {Missing}] /\ before \in [Files -> Versions \cup {Missing}]
    /\ missed \in BOOLEAN
    /\ saves \in 0..MaxSaves /\ fails \in 0..MaxFails /\ mishaps \in 0..MaxMishaps

\* A whole file has the one before it behind it, if that was not used up
\* already; a step of a save never leaves neither.
OneGenerationBack ==
    \A f \in Files : Parses(disk[f].file) /\ before[f] # Missing => disk[f].bak = before[f]

\* The settings in use are ones the program accepts, whatever the file held.
OnlyUsable ==
    phase # "down" =>
        /\ Malformed \notin {g_config.backend_url, g_config.access_key}
        /\ g_config.audio_track \in None..(MAX_AUDIO_MIXES - 1)

\* SettingsFile's invariant: types, the backup, the settings in use.
SettingsInvariant == TypeOK /\ OneGenerationBack /\ OnlyUsable

\* A run begins with what the last whole save left, or with the one before it
\* when that file is damaged: never with less because a save was cut short.
RestartKeepsSettings ==
    [][Load => /\ g_config' = Usable(kept["settings"])
               /\ bindings' = Bound(kept["hotkeys"])]_vars

\* Unless a save failed, what the program believes is on the disk is there, and
\* after EXIT so is the binding the streamer chose last.
HotkeysOnDisk ==
    phase # "down" /\ at = "idle" /\ ~missed =>
        LET found == Read(disk["hotkeys"]) IN
        /\ saved_drop_order_bindings = IF found = Missing THEN Unset ELSE found.drop_order
        /\ phase = "leaving" => found = [drop_order |-> bindings]

\* Each file changes at one instant, to the version asked for.
Store == INSTANCE DurableStore WITH stored <- [f \in Files |-> Read(disk[f])], asked <- job
RefinesStore == Store!Spec

\* "What is on disk, so a collection save that changed no key writes nothing"
\* (plugin-main.cpp:54).  Refuted: a save that failed is remembered as done.
SavedIsOnDisk ==
    phase = "up" /\ at = "idle" /\ saved_drop_order_bindings # Unset =>
        Read(disk["hotkeys"]) = [drop_order |-> saved_drop_order_bindings]
=============================================================================
