------------------------- MODULE SettingsFile_proofs -------------------------
(***************************************************************************)
(* A restart finds the last whole save, or the one before it when that     *)
(* file is damaged, for any number of saves, failures, crashes and         *)
(* damages; and the three steps of a save implement an atomic store.       *)
(***************************************************************************)
EXTENDS SettingsFile, TLAPS

\* What each file may hold.
Held(f) == IF f = "settings" THEN Config ELSE HotkeyFile
Slot(f) == Held(f) \cup {Missing, Torn}
Disks(f) == [file : Slot(f), bak : Slot(f), tmp : Slot(f)]

\* What is left when the file itself is damaged.
Behind(d) == IF Parses(d.file) /\ Parses(d.bak) THEN d.bak ELSE Missing

\* A file holds its own kind of version.
Kinds ==
    /\ disk \in [Files -> [file : Slots, bak : Slots, tmp : Slots]]
    /\ \A f \in Files : disk[f] \in Disks(f)

\* The program's own variables.
Memory ==
    /\ phase \in {"down", "up", "leaving"}
    /\ at \in {"idle", "open", "write", "backup", "rename"}
    /\ g_config \in Config
    /\ bindings \in Bindings \cup {NoBindings}
    /\ saved_drop_order_bindings \in Bindings \cup {NoBindings, Unset}
    /\ missed \in BOOLEAN
    /\ saves \in 0..MaxSaves /\ fails \in 0..MaxFails /\ mishaps \in 0..MaxMishaps

\* One save at a time, of a version of the right kind, by a program that runs.
OneJob ==
    /\ phase = "down" => at = "idle"
    /\ at = "idle" => job = {}
    /\ at # "idle" =>
         \E f \in Files : \E version \in Held(f) : job = {[file |-> f, data |-> version]}

\* Before the old file gives way, the temporary is whole; and no save starts
\* over a torn file whose backup is needed.
Safe ==
    /\ \A r \in job :
         /\ at \in {"backup", "rename"} => disk[r.file].tmp = r.data
         /\ at = "rename" => disk[r.file].file = Missing
    /\ phase # "down" => \A f \in Files : disk[f].file = Torn => disk[f].bak = Missing

\* The history is what the disk holds.
Remembered ==
    /\ kept = [f \in Files |-> Read(disk[f])]
    /\ before = [f \in Files |-> Behind(disk[f])]

Inv == Kinds /\ Memory /\ OneJob /\ Safe /\ Remembered /\ OnlyUsable

\* What the assumption gives, in the form the proofs want.
LEMMA Distinct ==
  /\ Missing # Torn /\ Missing \notin Versions /\ Torn \notin Versions
  /\ \A f \in Files : Held(f) \subseteq Versions /\ Slot(f) \subseteq Slots
  /\ Held("settings") = Config /\ Held("hotkeys") = HotkeyFile
  /\ Files = {"settings", "hotkeys"}
  BY SettingsAssumption DEF Held, Slot, Versions, Slots, Files

\* A load finds a version of the file's kind, or nothing.
LEMMA ReadKind ==
  ASSUME NEW f \in Files, NEW d \in Disks(f)
  PROVE  /\ Read(d) \in Held(f) \cup {Missing}
         /\ Behind(d) \in Held(f) \cup {Missing}
         /\ Recovered(d) \in Disks(f)
         /\ Recovered(d).file = Torn => Recovered(d).bak = Missing
         /\ Read(Recovered(d)) = Read(d) /\ Behind(Recovered(d)) = Behind(d)
<1>. USE DEF Disks
<1>1. d.file \in Slot(f) /\ d.bak \in Slot(f) /\ d.tmp \in Slot(f)
      /\ Missing \in Slot(f)
  BY DEF Slot
<1>2. Recovered(d) \in Disks(f)
  BY <1>1 DEF Recovered
<1>3. CASE Parses(d.file) \/ d.bak = Missing
  <2>1. Recovered(d) = d
    BY <1>3 DEF Recovered
  <2>. QED
    BY <1>1, <1>2, <1>3, <2>1, Distinct DEF Read, Parses, Behind, Slot
<1>4. CASE ~(Parses(d.file) \/ d.bak = Missing)
  <2>1. Recovered(d) = [d EXCEPT !.file = d.bak, !.bak = Missing]
    BY <1>4 DEF Recovered
  <2>2. Recovered(d).file = d.bak /\ Recovered(d).bak = Missing
    BY <2>1
  <2>3. Recovered(Recovered(d)) = Recovered(d)
    BY <2>2 DEF Recovered
  <2>. QED
    BY <1>1, <1>2, <1>4, <2>2, <2>3, Distinct DEF Read, Parses, Behind, Slot
<1>. QED
  BY <1>3, <1>4

-----------------------------------------------------------------------------
(* One disk changes *)

\* The invariants of the files, when one of them becomes d.
LEMMA OneDisk ==
  ASSUME Kinds, NEW f \in Files, NEW d \in Disks(f), disk' = [disk EXCEPT ![f] = d]
  PROVE  /\ Kinds' /\ disk'[f] = d
         /\ \A g \in Files \ {f} : disk'[g] = disk[g]
         /\ [g \in Files |-> Read(disk'[g])] = [[g \in Files |-> Read(disk[g])] EXCEPT ![f] = Read(d)]
         /\ [g \in Files |-> Behind(disk'[g])] = [[g \in Files |-> Behind(disk[g])] EXCEPT ![f] = Behind(d)]
<1>1. disk'[f] = d /\ \A g \in Files \ {f} : disk'[g] = disk[g]
  BY DEF Kinds
<1>2. \A g \in Files : disk'[g] \in Disks(g)
  BY <1>1 DEF Kinds
<1>3. d \in [file : Slots, bak : Slots, tmp : Slots]
  BY Distinct DEF Disks
<1>4. disk' \in [Files -> [file : Slots, bak : Slots, tmp : Slots]]
  BY <1>3 DEF Kinds
<1>5. [g \in Files |-> Read(disk'[g])] = [[g \in Files |-> Read(disk[g])] EXCEPT ![f] = Read(d)]
  <2>1. /\ Read(disk'[f]) = Read(d)
        /\ \A g \in Files \ {f} : Read(disk'[g]) = Read(disk[g])
    BY <1>1
  <2>. QED
    BY <2>1
<1>6. [g \in Files |-> Behind(disk'[g])] = [[g \in Files |-> Behind(disk[g])] EXCEPT ![f] = Behind(d)]
  <2>1. /\ Behind(disk'[f]) = Behind(d)
        /\ \A g \in Files \ {f} : Behind(disk'[g]) = Behind(disk[g])
    BY <1>1
  <2>. QED
    BY <2>1
<1>. QED
  BY <1>1, <1>2, <1>4, <1>5, <1>6 DEF Kinds

\* What the next load finds does not depend on the temporary.
LEMMA TemporaryIsIgnored ==
  ASSUME NEW f \in Files, NEW d \in Disks(f), NEW t \in Slot(f)
  PROVE  /\ [d EXCEPT !.tmp = t] \in Disks(f)
         /\ Read([d EXCEPT !.tmp = t]) = Read(d) /\ Behind([d EXCEPT !.tmp = t]) = Behind(d)
<1>. DEFINE e == [d EXCEPT !.tmp = t]
<1>1. e \in Disks(f) /\ e.file = d.file /\ e.bak = d.bak
  BY DEF Disks
<1>2. Behind(e) = Behind(d)
  BY <1>1 DEF Behind
<1>3. Recovered(e).file = Recovered(d).file
  <2>1. CASE Parses(d.file) \/ d.bak = Missing
    BY <1>1, <2>1 DEF Recovered
  <2>2. CASE ~(Parses(d.file) \/ d.bak = Missing)
    BY <1>1, <2>2 DEF Recovered, Disks
  <2>. QED
    BY <2>1, <2>2
<1>. QED
  BY <1>1, <1>2, <1>3 DEF Read

\* Nor does it change when the old file becomes the backup.
LEMMA BackUpKeeps ==
  ASSUME NEW f \in Files, NEW d \in Disks(f), d.file # Missing, d.file = Torn => d.bak = Missing
  PROVE  LET e == [d EXCEPT !.bak = d.file, !.file = Missing]
         IN  e \in Disks(f) /\ e.file = Missing /\ e.tmp = d.tmp /\ Read(e) = Read(d) /\ Behind(e) = Missing
<1>. DEFINE e == [d EXCEPT !.bak = d.file, !.file = Missing]
<1>1. Missing \in Slot(f)
  BY DEF Slot
<1>2. e \in Disks(f) /\ e.file = Missing /\ e.bak = d.file /\ e.tmp = d.tmp
  BY <1>1 DEF Disks
<1>3. Recovered(e).file = d.file
  BY <1>2 DEF Recovered, Parses, Disks
<1>4. Recovered(d) = d
  BY Distinct DEF Recovered, Parses
<1>. QED
  BY <1>2, <1>3, <1>4 DEF Read, Behind, Parses

\* With the temporary in its place it is the version asked for, and the old one is behind it.
LEMMA ReplaceCommits ==
  ASSUME NEW f \in Files, NEW d \in Disks(f), NEW version \in Held(f),
         d.file = Missing, d.tmp = version
  PROVE  LET e == [d EXCEPT !.file = d.tmp, !.tmp = Missing]
         IN  e \in Disks(f) /\ e.file = version /\ Read(e) = version /\ Behind(e) = Read(d)
<1>. DEFINE e == [d EXCEPT !.file = d.tmp, !.tmp = Missing]
<1>1. Missing \in Slot(f) /\ Parses(version)
  BY Distinct DEF Slot, Parses
<1>2. e \in Disks(f) /\ e.file = version /\ e.bak = d.bak
  BY <1>1 DEF Disks
<1>3. Read(e) = version
  BY <1>1, <1>2 DEF Recovered, Read
<1>4. Read(d) = IF Parses(d.bak) THEN d.bak ELSE Missing
  <2>1. CASE d.bak = Missing
    BY <2>1 DEF Recovered, Read, Parses
  <2>2. CASE d.bak # Missing
    <3>1. Recovered(d).file = d.bak
      BY <2>2 DEF Recovered, Parses, Disks
    <3>. QED
      BY <3>1, <2>2 DEF Read, Parses
  <2>. QED
    BY <2>1, <2>2
<1>5. Behind(e) = IF Parses(d.bak) THEN d.bak ELSE Missing
  BY <1>1, <1>2 DEF Behind
<1>. QED
  BY <1>2, <1>3, <1>4, <1>5

-----------------------------------------------------------------------------
(* The steps of a save *)

\* A save under way is one, of one file, by a program that runs.
LEMMA TheJob ==
  ASSUME Inv, at # "idle"
  PROVE  /\ phase # "down"
         /\ \E f \in Files : \E version \in Held(f) :
              version \in Versions /\ job = {[file |-> f, data |-> version]} /\ \A r \in job : r.file = f /\ r.data = version
  BY Distinct DEF Inv, OneJob

\* The files start empty.
LEMMA InitInv == Init => Inv
<1>. SUFFICES ASSUME Init PROVE Inv
  OBVIOUS
<1>. USE DEF Init
<1>. DEFINE d == [file |-> Missing, bak |-> Missing, tmp |-> Missing]
<1>1. Recovered(d) = d /\ Read(d) = Missing /\ Behind(d) = Missing
  BY DEF Recovered, Read, Behind, Parses
<1>2. Kinds
  BY DEF Kinds, Disks, Slot, Slots
<1>3. Memory
  <2>1. None \in Numbers
    BY SettingsAssumption DEF None
  <2>2. Defaults \in Config
    BY <2>1 DEF Config, Defaults
  <2>3. 0 \in 0..MaxSaves /\ 0 \in 0..MaxFails /\ 0 \in 0..MaxMishaps
    BY BoundAssumption
  <2>. QED
    BY <2>2, <2>3 DEF Memory
<1>4. \A f \in Files : disk[f] = d
  OBVIOUS
<1>5. Remembered
  BY <1>1, <1>4 DEF Remembered
<1>6. OneJob /\ Safe /\ OnlyUsable
  BY DEF OneJob, Safe, OnlyUsable
<1>. QED
  BY <1>2, <1>3, <1>5, <1>6 DEF Inv

\* Emptying or writing the temporary touches nothing a load looks at.
LEMMA TemporaryInv == Inv /\ (OpenTemporary \/ WriteTemporary) => Inv'
<1>. SUFFICES ASSUME Inv, OpenTemporary \/ WriteTemporary PROVE Inv'
  OBVIOUS
<1>1. PICK f \in Files, version \in Versions :
        version \in Held(f) /\ job = {[file |-> f, data |-> version]} /\ \A r \in job : r.file = f /\ r.data = version
  BY TheJob DEF OpenTemporary, WriteTemporary, Step
<1>2. phase # "down" /\ disk[f] \in Disks(f)
  BY TheJob DEF OpenTemporary, WriteTemporary, Step, Inv, Kinds
<1>3. PICK t \in Slot(f) : /\ disk' = [disk EXCEPT ![f].tmp = t]
                           /\ OpenTemporary \/ t = version
  BY <1>1 DEF OpenTemporary, WriteTemporary, Slot
<1>. DEFINE d == [disk[f] EXCEPT !.tmp = t]
<1>4. d \in Disks(f) /\ Read(d) = Read(disk[f]) /\ Behind(d) = Behind(disk[f])
  BY <1>2, TemporaryIsIgnored
<1>5. d.file = disk[f].file /\ d.bak = disk[f].bak /\ d.tmp = t
  BY <1>2 DEF Disks
<1>6. disk' = [disk EXCEPT ![f] = d]
  BY <1>3
<1>7. /\ Kinds' /\ disk'[f] = d /\ \A g \in Files \ {f} : disk'[g] = disk[g]
  BY <1>4, <1>6, OneDisk DEF Inv
<1>8. Remembered'
  <2>1. \A g \in Files : Read(disk'[g]) = Read(disk[g]) /\ Behind(disk'[g]) = Behind(disk[g])
    BY <1>4, <1>7
  <2>. QED
    BY <2>1 DEF Inv, Remembered, OpenTemporary, WriteTemporary, history
<1>9. Safe'
  <2>1. job' = job /\ phase' = phase /\ at' # "rename" /\ (at' = "backup" => t = version)
    BY <1>3 DEF OpenTemporary, WriteTemporary, Step
  <2>2. \A r \in job' : at' \in {"backup", "rename"} => disk'[r.file].tmp = r.data
    BY <1>1, <1>5, <1>7, <2>1
  <2>3. \A g \in Files : disk'[g].file = Torn => disk'[g].bak = Missing
    BY <1>2, <1>5, <1>7 DEF Inv, Safe
  <2>. QED
    BY <2>1, <2>2, <2>3 DEF Safe
<1>10. Memory' /\ OneJob' /\ OnlyUsable'
  BY <1>1, <1>2 DEF Inv, Memory, OneJob, OnlyUsable, OpenTemporary, WriteTemporary, Step, memory, bounds
<1>. QED
  BY <1>7, <1>8, <1>9, <1>10 DEF Inv

\* The old file becomes the backup: what is found stays, what was behind it is gone.
LEMMA BackUpInv == Inv /\ BackUp => Inv'
<1>. SUFFICES ASSUME Inv, BackUp PROVE Inv'
  OBVIOUS
<1>1. PICK f \in Files, version \in Versions :
        version \in Held(f) /\ job = {[file |-> f, data |-> version]} /\ \A r \in job : r.file = f /\ r.data = version
  BY TheJob DEF BackUp, Step
<1>2. phase # "down" /\ disk[f] \in Disks(f) /\ at = "backup" /\ at' = "rename" /\ job' = job
  BY TheJob DEF BackUp, Step, Inv, Kinds
<1>3. /\ disk' = IF disk[f].file = Missing THEN disk
                  ELSE [disk EXCEPT ![f].bak = disk[f].file, ![f].file = Missing]
      /\ before' = [before EXCEPT ![f] = Missing] /\ kept' = kept
  BY <1>1 DEF BackUp
<1>4. disk[f].tmp = version /\ (disk[f].file = Torn => disk[f].bak = Missing)
  BY <1>1, <1>2 DEF Inv, Safe
<1>5. PICK d \in Disks(f) : /\ disk' = [disk EXCEPT ![f] = d]
                            /\ d.file = Missing /\ d.tmp = version
                            /\ Read(d) = Read(disk[f]) /\ Behind(d) = Missing
  <2>1. CASE disk[f].file = Missing
    <3>1. disk' = [disk EXCEPT ![f] = disk[f]]
      BY <1>3, <2>1 DEF Inv, Kinds
    <3>. QED
      BY <1>2, <1>4, <2>1, <3>1 DEF Behind, Parses
  <2>2. CASE disk[f].file # Missing
    <3>. DEFINE d == [disk[f] EXCEPT !.bak = disk[f].file, !.file = Missing]
    <3>1. disk' = [disk EXCEPT ![f] = d]
      BY <1>3, <2>2 DEF Inv, Kinds
    <3>2. /\ d \in Disks(f) /\ d.file = Missing /\ d.tmp = disk[f].tmp
          /\ Read(d) = Read(disk[f]) /\ Behind(d) = Missing
      BY <1>2, <1>4, <2>2, BackUpKeeps
    <3>. QED
      BY <1>4, <3>1, <3>2
  <2>. QED
    BY <2>1, <2>2
<1>6. /\ Kinds' /\ disk'[f] = d /\ \A g \in Files \ {f} : disk'[g] = disk[g]
      /\ [g \in Files |-> Behind(disk'[g])] = [[g \in Files |-> Behind(disk[g])] EXCEPT ![f] = Behind(d)]
  BY <1>5, OneDisk DEF Inv
<1>7. Remembered'
  <2>1. \A g \in Files : Read(disk'[g]) = Read(disk[g])
    BY <1>5, <1>6
  <2>. QED
    BY <2>1, <1>3, <1>5, <1>6 DEF Inv, Remembered
<1>8. Safe'
  <2>1. \A r \in job' : disk'[r.file].tmp = r.data /\ disk'[r.file].file = Missing
    BY <1>1, <1>2, <1>5, <1>6
  <2>2. \A g \in Files : disk'[g].file = Torn => disk'[g].bak = Missing
    BY <1>2, <1>5, <1>6, Distinct DEF Inv, Safe
  <2>. QED
    BY <2>1, <2>2 DEF Safe
<1>9. Memory' /\ OneJob' /\ OnlyUsable'
  BY <1>1, <1>2 DEF Inv, Memory, OneJob, OnlyUsable, BackUp, Step, memory, bounds
<1>. QED
  BY <1>6, <1>7, <1>8, <1>9 DEF Inv

\* The instant at which a save counts.
LEMMA ReplaceInv == Inv /\ Replace => Inv'
<1>. SUFFICES ASSUME Inv, Replace PROVE Inv'
  OBVIOUS
<1>1. PICK f \in Files, version \in Versions :
        version \in Held(f) /\ job = {[file |-> f, data |-> version]} /\ \A r \in job : r.file = f /\ r.data = version
  BY TheJob DEF Replace, Step
<1>2. /\ phase # "down" /\ disk[f] \in Disks(f) /\ at = "rename" /\ at' = "idle" /\ job' = {}
  BY TheJob DEF Replace, Step, Inv, Kinds
<1>3. /\ disk' = [disk EXCEPT ![f].file = disk[f].tmp, ![f].tmp = Missing]
      /\ kept' = [kept EXCEPT ![f] = version] /\ before' = [before EXCEPT ![f] = kept[f]]
  BY <1>1 DEF Replace
<1>4. disk[f].tmp = version /\ disk[f].file = Missing
  BY <1>1, <1>2 DEF Inv, Safe
<1>. DEFINE d == [disk[f] EXCEPT !.file = disk[f].tmp, !.tmp = Missing]
<1>5. d \in Disks(f) /\ d.file = version /\ Read(d) = version /\ Behind(d) = Read(disk[f])
  <2>1. disk[f] \in Disks(f) /\ version \in Held(f)
    BY <1>1, <1>2, Zenon
  <2>. QED
    BY <1>4, <2>1, ReplaceCommits, Zenon
<1>6. disk' = [disk EXCEPT ![f] = d]
  BY <1>3 DEF Inv, Kinds
<1>. HIDE DEF d
<1>7. /\ Kinds' /\ disk'[f] = d /\ \A g \in Files \ {f} : disk'[g] = disk[g]
      /\ [g \in Files |-> Read(disk'[g])] = [[g \in Files |-> Read(disk[g])] EXCEPT ![f] = Read(d)]
      /\ [g \in Files |-> Behind(disk'[g])] = [[g \in Files |-> Behind(disk[g])] EXCEPT ![f] = Behind(d)]
  BY <1>5, <1>6, OneDisk DEF Inv
<1>8. Remembered'
  <2>1. kept[f] = Read(disk[f])
    BY DEF Inv, Remembered
  <2>. QED
    BY <2>1, <1>3, <1>5, <1>7 DEF Inv, Remembered
<1>9. Safe'
  BY <1>2, <1>5, <1>7, Distinct DEF Inv, Safe
<1>10. Memory' /\ OneJob' /\ OnlyUsable'
  BY <1>2 DEF Inv, Memory, OneJob, OnlyUsable, Replace, Step, memory, bounds
<1>. QED
  BY <1>7, <1>8, <1>9, <1>10 DEF Inv

\* Adding one below a bound.
LEMMA CountUp ==
  ASSUME NEW n \in Nat, NEW i \in 0..n, i < n
  PROVE  i + 1 \in 0..n
  OBVIOUS

\* The bounds leave room for one more, once the guard has looked.
LEMMA Bounds ==
  ASSUME Memory
  PROVE  /\ saves < MaxSaves => saves + 1 \in 0..MaxSaves
         /\ fails < MaxFails => fails + 1 \in 0..MaxFails
         /\ mishaps < MaxMishaps => mishaps + 1 \in 0..MaxMishaps
  BY BoundAssumption, CountUp DEF Memory

\* A save given up leaves the disk between two steps, where it is sound.
LEMMA SaveFailedInv == Inv /\ SaveFailed => Inv'
<1>. SUFFICES ASSUME Inv, SaveFailed PROVE Inv'
  OBVIOUS
<1>. USE DEF SaveFailed, Inv
<1>1. Kinds' /\ Remembered'
  BY DEF Kinds, Remembered, history
<1>2. OneJob' /\ Safe' /\ OnlyUsable'
  BY DEF OneJob, Safe, OnlyUsable, memory
<1>3. missed' \in BOOLEAN
  OBVIOUS
<1>4. Memory'
  BY <1>3, Bounds DEF Memory, memory
<1>. QED
  BY <1>1, <1>2, <1>4

-----------------------------------------------------------------------------
(* The program between two saves *)

\* Whatever is asked for, a save begins with the disk as it is.
LEMMA SaveBegins ==
  ASSUME Inv, at = "idle", phase # "down", NEW f \in Files, NEW version \in Held(f), Save(f, version)
  PROVE  /\ missed' \in BOOLEAN /\ saves' \in 0..MaxSaves /\ fails' \in 0..MaxFails
         /\ \/ at' = "open" /\ job' = {[file |-> f, data |-> version]}
            \/ at' = "idle" /\ job' = {}
<1>1. saves' \in 0..MaxSaves
  BY Bounds DEF Inv, Save
<1>2. fails' \in 0..MaxFails
  BY Bounds DEF Inv, Memory, Save
<1>3. missed' \in BOOLEAN
  BY DEF Inv, Memory, Save
<1>. QED
  BY <1>1, <1>2, <1>3 DEF Inv, OneJob, Save

\* What the checks of a load let through is a usable configuration.
LEMMA UsableIsUsable ==
  ASSUME NEW version \in Config \cup {Missing}
  PROVE  /\ Usable(version) \in Config
         /\ Malformed \notin {Usable(version).backend_url, Usable(version).access_key}
         /\ Usable(version).audio_track \in None..(MAX_AUDIO_MIXES - 1)
<1>1. /\ None \in Numbers /\ None \in None..(MAX_AUDIO_MIXES - 1)
      /\ \A t \in Numbers : /\ TrackInRange(t) \in Numbers
                             /\ TrackInRange(t) \in None..(MAX_AUDIO_MIXES - 1)
  BY SettingsAssumption DEF None, TrackInRange
<1>2. Malformed # Unset /\ Malformed # "usable"
  BY DEF Malformed, Unset
<1>3. CASE version = Missing
  <2>1. Usable(version) = Defaults
    BY <1>3 DEF Usable
  <2>. QED
    BY <1>1, <1>2, <2>1 DEF Defaults, Config
<1>4. CASE version \in Config /\ version # Missing
  <2>. DEFINE u == Usable(version)
  <2>1. u = [version EXCEPT !.backend_url = Refused(@), !.access_key = Refused(@),
                            !.audio_track = TrackInRange(@)]
    BY <1>4 DEF Usable
  <2>2. /\ u.backend_url = Refused(version.backend_url) /\ u.access_key = Refused(version.access_key)
        /\ u.audio_track = TrackInRange(version.audio_track)
    BY <1>4, <2>1 DEF Config
  <2>3. /\ version.audio_track \in Numbers
        /\ version.backend_url \in {Unset, "usable", Malformed}
        /\ version.access_key \in Keys \cup {Unset, Malformed}
    BY <1>4 DEF Config
  <2>4. /\ Refused(version.backend_url) \in {Unset, "usable"}
        /\ Refused(version.access_key) \in Keys \cup {Unset}
    BY <2>3 DEF Refused
  <2>5. Malformed \notin {Unset, "usable"} /\ Malformed \notin Keys \cup {Unset}
    BY <1>2, SettingsAssumption
  <2>6. u \in Config
    BY <1>1, <1>4, <2>1, <2>3, <2>4 DEF Config
  <2>. QED
    BY <1>1, <2>2, <2>3, <2>4, <2>5, <2>6
<1>. QED
  BY <1>3, <1>4

\* A change of the settings in use keeps them usable.
LEMMA SettingsInv == Inv /\ Settings => Inv'
<1>. SUFFICES ASSUME Inv, Settings PROVE Inv'
  OBVIOUS
<1>1. PICK next \in Config : /\ Set(next)
                             /\ Malformed \notin {next.backend_url, next.access_key}
                             /\ next.audio_track \in None..(MAX_AUDIO_MIXES - 1)
  <2>. DEFINE Good(c) == /\ c \in Config /\ Malformed \notin {c.backend_url, c.access_key}
                         /\ c.audio_track \in None..(MAX_AUDIO_MIXES - 1)
  <2>1. Good(g_config)
    <3>1. phase # "down"
      BY DEF Settings, SignIn, SignOut, SelectSource, TakeTrack, Set, Idle
    <3>2. g_config \in Config
      BY DEF Inv, Memory
    <3>3. Malformed \notin {g_config.backend_url, g_config.access_key}
      BY <3>1 DEF Inv, OnlyUsable
    <3>4. g_config.audio_track \in None..(MAX_AUDIO_MIXES - 1)
      BY <3>1 DEF Inv, OnlyUsable
    <3>. QED
      BY <3>2, <3>3, <3>4
  <2>2. /\ Malformed # Unset /\ Malformed \notin Keys
        /\ \A t \in 0..(MAX_AUDIO_MIXES - 1) : t \in Numbers /\ t \in None..(MAX_AUDIO_MIXES - 1)
    <3>1. Malformed # Unset
      BY DEF Malformed, Unset
    <3>2. Malformed \notin Keys
      BY SettingsAssumption
    <3>3. \A t \in 0..(MAX_AUDIO_MIXES - 1) : t \in None..(MAX_AUDIO_MIXES - 1)
      BY SettingsAssumption DEF None
    <3>4. \A t \in None..(MAX_AUDIO_MIXES - 1) : t \in Numbers
      BY SettingsAssumption
    <3>. QED
      BY <3>1, <3>2, <3>3, <3>4
  <2>3. CASE SignIn
    <3>1. PICK k \in Keys : Set([g_config EXCEPT !.access_key = k])
      BY <2>3 DEF SignIn
    <3>2. Good([g_config EXCEPT !.access_key = k])
      BY <2>1, <2>2 DEF Config
    <3>. QED
      BY <3>1, <3>2
  <2>4. CASE SignOut
    <3>1. Good([g_config EXCEPT !.access_key = Unset])
      BY <2>1, <2>2 DEF Config
    <3>. QED
      BY <2>4, <3>1 DEF SignOut
  <2>5. CASE SelectSource
    <3>1. PICK u \in Uuids \cup {Unset} : Set([g_config EXCEPT !.source_uuid = u])
      BY <2>5 DEF SelectSource
    <3>2. Good([g_config EXCEPT !.source_uuid = u])
      BY <2>1 DEF Config
    <3>. QED
      BY <3>1, <3>2
  <2>6. CASE TakeTrack
    <3>1. PICK t \in 0..(MAX_AUDIO_MIXES - 1) : Set([g_config EXCEPT !.audio_track = t])
      BY <2>6 DEF TakeTrack
    <3>2. t \in Numbers /\ t \in None..(MAX_AUDIO_MIXES - 1)
      BY <2>2
    <3>3. Good([g_config EXCEPT !.audio_track = t])
      BY <2>1, <3>2 DEF Config
    <3>. QED
      BY <3>1, <3>3
  <2>. QED
    BY <2>3, <2>4, <2>5, <2>6 DEF Settings
<1>2. "settings" \in Files /\ next \in Held("settings") /\ at = "idle" /\ phase # "down"
  BY <1>1, Distinct DEF Set
<1>3. /\ missed' \in BOOLEAN /\ saves' \in 0..MaxSaves /\ fails' \in 0..MaxFails
      /\ \/ at' = "open" /\ job' = {[file |-> "settings", data |-> next]}
         \/ at' = "idle" /\ job' = {}
  BY <1>1, <1>2, SaveBegins DEF Set
<1>4. Kinds' /\ Remembered' /\ Safe'
  BY <1>1, <1>3 DEF Inv, Set, Kinds, Remembered, Safe, history
<1>5. Memory'
  BY <1>1, <1>3 DEF Inv, Set, Memory
<1>6. OneJob' /\ OnlyUsable'
  BY <1>1, <1>2, <1>3 DEF Set, OneJob, OnlyUsable
<1>. QED
  BY <1>4, <1>5, <1>6 DEF Inv

-----------------------------------------------------------------------------
(* The hotkey *)

\* A load, or the look at the file before the hotkey is written, recovers a file:
\* nothing is lost, and no torn file stays in front of a backup.
LEMMA RecoveryKeeps ==
  ASSUME Inv, NEW f \in Files, disk' = [disk EXCEPT ![f] = Recovered(@)]
  PROVE  /\ Kinds'
         /\ [g \in Files |-> Read(disk'[g])] = kept /\ [g \in Files |-> Behind(disk'[g])] = before
         /\ phase # "down" => \A g \in Files : disk'[g].file = Torn => disk'[g].bak = Missing
<1>. DEFINE d == Recovered(disk[f])
<1>1. disk[f] \in Disks(f)
  BY DEF Inv, Kinds
<1>2. /\ d \in Disks(f) /\ (d.file = Torn => d.bak = Missing)
      /\ Read(d) = Read(disk[f]) /\ Behind(d) = Behind(disk[f])
  BY <1>1, ReadKind
<1>3. disk' = [disk EXCEPT ![f] = d]
  OBVIOUS
<1>. HIDE DEF d
<1>4. Kinds' /\ disk'[f] = d /\ \A g \in Files \ {f} : disk'[g] = disk[g]
  BY <1>2, <1>3, OneDisk DEF Inv
<1>5. \A g \in Files : Read(disk'[g]) = Read(disk[g]) /\ Behind(disk'[g]) = Behind(disk[g])
  BY <1>2, <1>4
<1>. QED
  BY <1>2, <1>4, <1>5 DEF Inv, Remembered, Safe

\* save_hotkeys() begins a save of the bindings, or does nothing.
LEMMA SaveHotkeysBegins ==
  ASSUME Inv, Idle, SaveHotkeys, UNCHANGED history
  PROVE  /\ Kinds' /\ Remembered'
         /\ \A g \in Files : disk'[g].file = Torn => disk'[g].bak = Missing
         /\ missed' \in BOOLEAN /\ saves' \in 0..MaxSaves /\ fails' \in 0..MaxFails
         /\ saved_drop_order_bindings' \in Bindings \cup {NoBindings, Unset}
         /\ \/ /\ at' = "open"
               /\ \E version \in Held("hotkeys") : job' = {[file |-> "hotkeys", data |-> version]}
            \/ at' = "idle" /\ job' = {}
<1>. USE DEF Idle
<1>1. CASE bindings = saved_drop_order_bindings
  <2>1. UNCHANGED <<disk, at, job, saved_drop_order_bindings, missed, saves, fails>>
    BY <1>1 DEF SaveHotkeys
  <2>2. Kinds' /\ Remembered'
    BY <2>1 DEF Inv, Kinds, Remembered, history
  <2>3. \A g \in Files : disk'[g].file = Torn => disk'[g].bak = Missing
    BY <2>1 DEF Inv, Safe
  <2>4. job' = {}
    BY <2>1 DEF Inv, OneJob
  <2>. QED
    BY <2>1, <2>2, <2>3, <2>4 DEF Inv, Memory
<1>2. CASE bindings # saved_drop_order_bindings
  <2>. DEFINE version == [drop_order |-> bindings]
  <2>1. /\ saved_drop_order_bindings' = bindings
        /\ disk' = [disk EXCEPT !["hotkeys"] = Recovered(@)] /\ Save("hotkeys", version)
    BY <1>2 DEF SaveHotkeys, SaveHotkey
  <2>2. "hotkeys" \in Files /\ version \in Held("hotkeys") /\ bindings \in Bindings \cup {NoBindings}
    BY Distinct DEF HotkeyFile, Inv, Memory
  <2>3. /\ Kinds'
        /\ [g \in Files |-> Read(disk'[g])] = kept /\ [g \in Files |-> Behind(disk'[g])] = before
        /\ \A g \in Files : disk'[g].file = Torn => disk'[g].bak = Missing
    BY <2>1, <2>2, RecoveryKeeps
  <2>4. Remembered'
    BY <2>3 DEF Remembered, history
  <2>5. /\ missed' \in BOOLEAN /\ saves' \in 0..MaxSaves /\ fails' \in 0..MaxFails
        /\ \/ at' = "open" /\ job' = {[file |-> "hotkeys", data |-> version]}
           \/ at' = "idle" /\ job' = {}
    BY <2>1, <2>2, SaveBegins
  <2>. QED
    BY <2>1, <2>2, <2>3, <2>4, <2>5
<1>. QED
  BY <1>1, <1>2

\* A save of the collection, or EXIT, begins at most one save.
LEMMA HotkeysInv == Inv /\ (Hotkeys \/ Exit) => Inv'
<1>. SUFFICES ASSUME Inv, Hotkeys \/ Exit PROVE Inv'
  OBVIOUS
<1>1. CASE Rebound
  <2>1. bindings' \in Bindings \cup {NoBindings}
    BY <1>1 DEF Rebound
  <2>. QED
    BY <1>1, <2>1 DEF Rebound, Inv, Kinds, Memory, OneJob, Safe, Remembered, OnlyUsable, history, bounds
<1>2. CASE FrontendSave \/ Exit
  <2>1. /\ Idle /\ SaveHotkeys /\ UNCHANGED history
        /\ phase' \in {"up", "leaving"} /\ UNCHANGED <<g_config, bindings, mishaps>>
    BY <1>2 DEF FrontendSave, Exit, Idle
  <2>2. /\ Kinds' /\ Remembered'
        /\ \A g \in Files : disk'[g].file = Torn => disk'[g].bak = Missing
        /\ missed' \in BOOLEAN /\ saves' \in 0..MaxSaves /\ fails' \in 0..MaxFails
        /\ saved_drop_order_bindings' \in Bindings \cup {NoBindings, Unset}
        /\ \/ /\ at' = "open"
              /\ \E version \in Held("hotkeys") : job' = {[file |-> "hotkeys", data |-> version]}
           \/ at' = "idle" /\ job' = {}
    BY <2>1, SaveHotkeysBegins
  <2>3. Memory'
    BY <2>1, <2>2 DEF Inv, Memory
  <2>4. OneJob' /\ Safe'
    BY <2>1, <2>2, Distinct DEF OneJob, Safe
  <2>5. OnlyUsable'
    BY <2>1 DEF Inv, OnlyUsable, Idle
  <2>. QED
    BY <2>2, <2>3, <2>4, <2>5 DEF Inv
<1>. QED
  BY <1>1, <1>2 DEF Hotkeys

-----------------------------------------------------------------------------
(* Starts, crashes and mishaps *)

\* What a load finds, per file, is what is kept.
LEMMA LoadFindsKept ==
  ASSUME Inv, Load
  PROVE  /\ \A f \in Files : disk'[f] = Recovered(disk[f])
         /\ g_config' = Usable(kept["settings"]) /\ bindings' = Bound(kept["hotkeys"])
         /\ saved_drop_order_bindings' =
              IF kept["hotkeys"] = Missing THEN Unset ELSE kept["hotkeys"].drop_order
<1>1. /\ "settings" \in Files /\ "hotkeys" \in Files
      /\ \A f \in Files : disk'[f] = Recovered(disk[f])
  BY DEF Load, Files
<1>2. \A f \in Files : (IF Parses(disk'[f].file) THEN disk'[f].file ELSE Missing) = kept[f]
  BY <1>1 DEF Inv, Remembered, Read
<1>. DEFINE found(f) == IF Parses(disk'[f].file) THEN disk'[f].file ELSE Missing
<1>3. found("settings") = kept["settings"] /\ found("hotkeys") = kept["hotkeys"]
  BY <1>1, <1>2
<1>4. /\ g_config' = Usable(found("settings")) /\ bindings' = Bound(found("hotkeys"))
      /\ saved_drop_order_bindings' =
           IF found("hotkeys") = Missing THEN Unset ELSE found("hotkeys").drop_order
  BY DEF Load
<1>. HIDE DEF found
<1>. QED
  BY <1>1, <1>3, <1>4

\* What is kept of a file is of its kind.
LEMMA KeptKind ==
  ASSUME Inv
  PROVE  \A f \in Files : kept[f] \in Held(f) \cup {Missing} /\ before[f] \in Held(f) \cup {Missing}
<1>. SUFFICES ASSUME NEW f \in Files
              PROVE  kept[f] \in Held(f) \cup {Missing} /\ before[f] \in Held(f) \cup {Missing}
  OBVIOUS
<1>1. disk[f] \in Disks(f)
  BY DEF Inv, Kinds
<1>. QED
  BY <1>1, ReadKind DEF Inv, Remembered

\* A load uses what is kept, once it is checked.
LEMMA LoadInv == Inv /\ Load => Inv'
<1>. SUFFICES ASSUME Inv, Load PROVE Inv'
  OBVIOUS
<1>1. /\ disk' = [f \in Files |-> Recovered(disk[f])]
      /\ g_config' = Usable(kept["settings"]) /\ bindings' = Bound(kept["hotkeys"])
      /\ saved_drop_order_bindings' =
           IF kept["hotkeys"] = Missing THEN Unset ELSE kept["hotkeys"].drop_order
  BY LoadFindsKept DEF Load
<1>2. \A f \in Files : /\ disk'[f] \in Disks(f)
                       /\ Read(disk'[f]) = Read(disk[f]) /\ Behind(disk'[f]) = Behind(disk[f])
                       /\ disk'[f].file = Torn => disk'[f].bak = Missing
  <2>. SUFFICES ASSUME NEW f \in Files
                PROVE  /\ disk'[f] \in Disks(f)
                       /\ Read(disk'[f]) = Read(disk[f]) /\ Behind(disk'[f]) = Behind(disk[f])
                       /\ disk'[f].file = Torn => disk'[f].bak = Missing
    OBVIOUS
  <2>1. disk[f] \in Disks(f) /\ disk'[f] = Recovered(disk[f])
    BY <1>1 DEF Inv, Kinds
  <2>. QED
    BY <2>1, ReadKind
<1>3. Kinds'
  <2>1. \A f \in Files : disk'[f] \in [file : Slots, bak : Slots, tmp : Slots]
    BY <1>2, Distinct DEF Disks
  <2>. QED
    BY <1>1, <1>2, <2>1 DEF Kinds
<1>4. Remembered'
  BY <1>2 DEF Inv, Remembered, Load, history
<1>5. at = "idle" /\ at' = "idle" /\ job' = job /\ job = {} /\ phase' = "up"
  BY DEF Inv, OneJob, Load
<1>6. OneJob' /\ Safe'
  BY <1>2, <1>5 DEF OneJob, Safe
<1>7. kept["settings"] \in Config \cup {Missing} /\ kept["hotkeys"] \in HotkeyFile \cup {Missing}
  BY KeptKind, Distinct
<1>8. /\ g_config' \in Config
      /\ Malformed \notin {g_config'.backend_url, g_config'.access_key}
      /\ g_config'.audio_track \in None..(MAX_AUDIO_MIXES - 1)
  BY <1>1, <1>7, UsableIsUsable
<1>9. /\ bindings' \in Bindings \cup {NoBindings}
      /\ saved_drop_order_bindings' \in Bindings \cup {NoBindings, Unset}
  BY <1>1, <1>7 DEF Bound, HotkeyFile
<1>10. Memory'
  BY <1>5, <1>8, <1>9 DEF Inv, Memory, Load, bounds
<1>11. OnlyUsable'
  BY <1>8 DEF OnlyUsable
<1>. QED
  BY <1>3, <1>4, <1>6, <1>10, <1>11 DEF Inv

\* A crash stops a save between two steps.
LEMMA CrashInv == Inv /\ (Crash \/ Unload) => Inv'
<1>. SUFFICES ASSUME Inv, Crash \/ Unload PROVE Inv'
  OBVIOUS
<1>1. /\ UNCHANGED <<disk, memory, history, missed, saves, fails>>
      /\ phase' = "down" /\ at' = "idle" /\ job' = {}
      /\ mishaps' = mishaps \/ (mishaps < MaxMishaps /\ mishaps' = mishaps + 1)
  BY DEF Crash, Unload, Mishap, bounds, Inv, OneJob
<1>2. Kinds' /\ Remembered'
  BY <1>1 DEF Inv, Kinds, Remembered, history
<1>3. OneJob' /\ Safe' /\ OnlyUsable'
  BY <1>1 DEF OneJob, Safe, OnlyUsable
<1>4. mishaps' \in 0..MaxMishaps
  BY <1>1, Bounds DEF Inv, Memory
<1>5. Memory'
  BY <1>1, <1>4 DEF Inv, Memory, memory
<1>. QED
  BY <1>2, <1>3, <1>5 DEF Inv

\* A file that breaks leaves the one behind it; a file edited replaces what was kept.
LEMMA MeddledInv == Inv /\ (Damage \/ EditByHand) => Inv'
<1>. SUFFICES ASSUME Inv, Damage \/ EditByHand PROVE Inv'
  OBVIOUS
<1>1. /\ UNCHANGED <<phase, at, job, memory, missed, saves, fails>> /\ phase = "down"
      /\ mishaps < MaxMishaps /\ mishaps' = mishaps + 1
  BY DEF Damage, EditByHand, Meddled, Mishap
<1>2. PICK f \in Files, slot \in Slots :
        /\ slot \in Slot(f) /\ Parses(disk[f].file) /\ disk' = [disk EXCEPT ![f].file = slot]
        /\ \/ /\ slot = Torn
              /\ kept' = [kept EXCEPT ![f] = before[f]] /\ before' = [before EXCEPT ![f] = Missing]
           \/ /\ slot \in Versions
              /\ kept' = [kept EXCEPT ![f] = slot] /\ before' = before
  <2>1. CASE Damage
    BY <2>1 DEF Damage, Slot, Slots
  <2>2. CASE EditByHand
    <3>1. PICK version \in HandWritten :
            /\ Parses(disk["settings"].file)
            /\ disk' = [disk EXCEPT !["settings"].file = version]
            /\ kept' = [kept EXCEPT !["settings"] = version] /\ before' = before
      BY <2>2 DEF EditByHand
    <3>2. version \in Config /\ "settings" \in Files
      BY SettingsAssumption DEF Files
    <3>3. version \in Slot("settings") /\ version \in Slots /\ version \in Versions
      BY <3>2 DEF Slot, Slots, Held, Versions
    <3>. QED
      BY <3>1, <3>2, <3>3
  <2>. QED
    BY <2>1, <2>2
<1>. DEFINE d == [disk[f] EXCEPT !.file = slot]
<1>3. disk[f] \in Disks(f)
  BY DEF Inv, Kinds
<1>4. d \in Disks(f) /\ d.file = slot /\ d.bak = disk[f].bak
  BY <1>2, <1>3 DEF Disks
<1>5. disk' = [disk EXCEPT ![f] = d]
  BY <1>2 DEF Inv, Kinds
<1>. HIDE DEF d
<1>6. /\ Kinds'
      /\ [g \in Files |-> Read(disk'[g])] = [[g \in Files |-> Read(disk[g])] EXCEPT ![f] = Read(d)]
      /\ [g \in Files |-> Behind(disk'[g])] = [[g \in Files |-> Behind(disk[g])] EXCEPT ![f] = Behind(d)]
  BY <1>4, <1>5, OneDisk DEF Inv
<1>7. /\ kept' = [kept EXCEPT ![f] = Read(d)] /\ before' = [before EXCEPT ![f] = Behind(d)]
  <2>1. before[f] = IF Parses(disk[f].bak) THEN disk[f].bak ELSE Missing
    BY <1>2 DEF Inv, Remembered, Behind
  <2>2. CASE slot = Torn
    <3>1. ~Parses(Torn) /\ ~Parses(Missing)
      BY DEF Parses
    <3>2. Read(d) = IF Parses(disk[f].bak) THEN disk[f].bak ELSE Missing
      <4>1. CASE d.bak = Missing
        BY <2>2, <1>4, <3>1, <4>1 DEF Read, Recovered
      <4>2. CASE d.bak # Missing
        <5>1. Recovered(d).file = d.bak
          BY <2>2, <1>4, <3>1, <4>2 DEF Recovered, Disks
        <5>. QED
          BY <5>1, <1>4 DEF Read
      <4>. QED
        BY <4>1, <4>2
    <3>3. Behind(d) = Missing
      BY <2>2, <1>4, <3>1 DEF Behind
    <3>. QED
      BY <1>2, <2>1, <2>2, <3>2, <3>3, Distinct
  <2>3. CASE slot \in Versions
    <3>1. Parses(slot)
      BY <2>3, Distinct DEF Parses
    <3>2. Read(d) = slot
      BY <1>4, <3>1 DEF Read, Recovered
    <3>3. Behind(d) = before[f]
      BY <1>4, <2>1, <3>1 DEF Behind
    <3>4. before = [before EXCEPT ![f] = before[f]]
      BY DEF Inv, Remembered
    <3>. QED
      BY <1>2, <2>3, <3>2, <3>3, <3>4, Distinct
  <2>. QED
    BY <1>2, <2>2, <2>3
<1>8. Remembered'
  BY <1>6, <1>7 DEF Inv, Remembered
<1>9. OneJob' /\ Safe' /\ OnlyUsable'
  BY <1>1 DEF Inv, OneJob, Safe, OnlyUsable
<1>10. Memory'
  <2>1. mishaps' \in 0..MaxMishaps
    BY <1>1, Bounds DEF Inv
  <2>. QED
    BY <1>1, <2>1 DEF Inv, Memory, memory
<1>. QED
  BY <1>6, <1>8, <1>9, <1>10 DEF Inv

-----------------------------------------------------------------------------
(* The theorems *)

\* The inductive invariant is inductive.
LEMMA Induction == Inv /\ [Next]_vars => Inv'
<1>. SUFFICES ASSUME Inv, [Next]_vars PROVE Inv'
  OBVIOUS
<1>1. CASE UNCHANGED vars
  BY <1>1 DEF vars, memory, history, bounds, Inv, Kinds, Memory, OneJob, Safe, Remembered, OnlyUsable
<1>2. CASE Next
  BY <1>2, TemporaryInv, BackUpInv, ReplaceInv, SaveFailedInv, SettingsInv, HotkeysInv, LoadInv,
     CrashInv, MeddledInv DEF Next, Saving, Life
<1>. QED
  BY <1>1, <1>2

LEMMA Always == Spec => []Inv
<1>. QED
  BY InitInv, Induction, PTL DEF Spec

\* The inductive invariant is stronger than the one checked.
LEMMA Stronger == Inv => SettingsInvariant
<1>. SUFFICES ASSUME Inv PROVE SettingsInvariant
  OBVIOUS
<1>1. \A r \in job : r.file \in Files /\ r.data \in Versions
  <2>1. CASE at = "idle"
    BY <2>1 DEF Inv, OneJob
  <2>2. CASE at # "idle"
    BY <2>2, TheJob
  <2>. QED
    BY <2>1, <2>2
<1>2. kept \in [Files -> Versions \cup {Missing}] /\ before \in [Files -> Versions \cup {Missing}]
  <2>1. \A f \in Files : /\ kept[f] \in Versions \cup {Missing}
                         /\ before[f] \in Versions \cup {Missing}
    BY KeptKind, Distinct
  <2>. QED
    BY <2>1 DEF Inv, Remembered
<1>3. TypeOK
  BY <1>1, <1>2 DEF TypeOK, Inv, Kinds, Memory
<1>4. OneGenerationBack
  BY DEF OneGenerationBack, Inv, Remembered, Behind
<1>. QED
  BY <1>3, <1>4 DEF SettingsInvariant, Inv

\* For any number of saves, failures, crashes and damages: the variables keep to
\* their ranges, a whole file has the one before it behind it, and the settings
\* in use are ones the program accepts.
THEOREM SettingsAreSafe == Spec => []SettingsInvariant
<1>. QED
  BY Always, Stronger, PTL

\* A load uses the last version that was saved whole and not damaged since.
THEOREM RestartIsSafe == Spec => RestartKeepsSettings
<1>1. Inv /\ [Next]_vars =>
        [Load => /\ g_config' = Usable(kept["settings"])
                 /\ bindings' = Bound(kept["hotkeys"])]_vars
  BY LoadFindsKept
<1>. QED
  BY <1>1, Always, PTL DEF Spec, RestartKeepsSettings

\* The files, as a load would find them, change at one instant.
LEMMA StoreStep ==
  ASSUME Inv, Inv', [Next]_vars
  PROVE  [Store!Next]_<<[f \in Files |-> Read(disk[f])], job>>
<1>1. /\ [f \in Files |-> Read(disk[f])] = kept
      /\ ([f \in Files |-> Read(disk[f])])' = kept'
  BY DEF Inv, Remembered
<1>2. CASE UNCHANGED <<kept, job>>
  BY <1>1, <1>2
<1>3. CASE kept' = kept /\ job' = {}
  BY <1>1, <1>3 DEF Store!Next, Store!GiveUp
<1>4. CASE kept' = kept /\ job = {} /\ \E f \in Files, version \in Versions :
              job' = {[file |-> f, data |-> version]}
  <2>1. \E r \in Store!Requests : job' = {r}
    BY <1>4 DEF Store!Requests
  <2>2. Store!Ask
    BY <1>1, <1>4, <2>1 DEF Store!Ask
  <2>. QED
    BY <2>2 DEF Store!Next
<1>5. CASE Replace
  <2>1. \E r \in job : kept' = [kept EXCEPT ![r.file] = r.data] /\ job' = {}
    <3>1. \E r \in job : TRUE
      BY <1>5, TheJob DEF Replace, Step
    <3>. QED
      BY <1>5, <3>1 DEF Replace
  <2>2. Store!Commit
    BY <1>1, <2>1 DEF Store!Commit
  <2>. QED
    BY <2>2 DEF Store!Next
<1>6. CASE Damage \/ EditByHand
  <2>1. job = {} /\ job' = job
    BY <1>6 DEF Inv, OneJob, Damage, EditByHand, Meddled
  <2>2. \E f \in Files, v \in Versions \cup {Missing} : kept' = [kept EXCEPT ![f] = v]
    <3>1. CASE Damage
      <4>1. PICK f \in Files : kept' = [kept EXCEPT ![f] = before[f]]
        BY <3>1 DEF Damage
      <4>2. before[f] \in Versions \cup {Missing}
        BY KeptKind, Distinct
      <4>. QED
        BY <4>1, <4>2
    <3>2. CASE EditByHand
      BY <3>2, SettingsAssumption DEF EditByHand, Files, Versions
    <3>. QED
      BY <1>6, <3>1, <3>2
  <2>3. Store!Meddle
    BY <1>1, <2>1, <2>2 DEF Store!Meddle
  <2>. QED
    BY <2>3 DEF Store!Next
<1>7. CASE Settings
  <2>1. PICK next : Set(next)
    BY <1>7 DEF Settings, SignIn, SignOut, SelectSource, TakeTrack
  <2>2. kept' = kept /\ job = {} /\ (job' # {} => at' # "idle")
    BY <2>1 DEF Set, Idle, history, Save, Inv, OneJob
  <2>. QED
    BY <1>2, <1>4, <2>2, Distinct DEF Inv, OneJob
<1>8. CASE FrontendSave \/ Exit
  <2>1. kept' = kept /\ job = {}
    BY <1>8 DEF FrontendSave, Exit, Idle, history, Inv, OneJob
  <2>. QED
    BY <1>2, <1>4, <2>1, Distinct DEF Inv, OneJob
<1>9. CASE OpenTemporary \/ WriteTemporary \/ BackUp \/ Rebound \/ Unload \/ Load
  BY <1>2, <1>9 DEF OpenTemporary, WriteTemporary, BackUp, Rebound, Unload, Load, history
<1>10. CASE SaveFailed \/ Crash
  BY <1>3, <1>10 DEF SaveFailed, Crash, history
<1>11. CASE UNCHANGED vars
  BY <1>2, <1>11 DEF vars, history
<1>. QED
  BY <1>5, <1>6, <1>7, <1>8, <1>9, <1>10, <1>11 DEF Next, Saving, Hotkeys, Life

\* Empty files are an empty store.
LEMMA StoreInit == Init => Store!Init
<1>. SUFFICES ASSUME Init PROVE Store!Init
  OBVIOUS
<1>1. [f \in Files |-> Read(disk[f])] = kept
  BY InitInv DEF Inv, Remembered
<1>. QED
  BY <1>1 DEF Init, Store!Init

\* Three steps of a save that any failure or crash may cut short are, to whoever
\* loads the file, one.
THEOREM SavesAreAtomic == Spec => RefinesStore
<1>1. Inv /\ Inv' /\ [Next]_vars => [Store!Next]_<<[f \in Files |-> Read(disk[f])], job>>
  BY StoreStep
<1>. QED
  BY <1>1, StoreInit, Always, PTL DEF Spec, RefinesStore, Store!Spec

-----------------------------------------------------------------------------
(* The binding that was saved *)

OfHotkeys == \E r \in job : r.file = "hotkeys"
OnDisk == IF kept["hotkeys"] = Missing THEN Unset ELSE kept["hotkeys"].drop_order

\* The program's memory of the file is what is there, or what is on its way.
HInv ==
    phase # "down" /\ ~missed =>
        /\ IF OfHotkeys THEN \A r \in job : r.data = [drop_order |-> saved_drop_order_bindings]
           ELSE saved_drop_order_bindings = OnDisk
        /\ phase = "leaving" => saved_drop_order_bindings = bindings

\* What a save of either file begins with.
LEMMA SaveKeepsMemory ==
  ASSUME Inv, HInv, phase # "down", at = "idle", UNCHANGED kept,
         NEW f \in Files, NEW version, Save(f, version),
         f = "hotkeys" => version = [drop_order |-> saved_drop_order_bindings'],
         f # "hotkeys" => UNCHANGED saved_drop_order_bindings,
         ~missed' /\ phase' = "leaving" => saved_drop_order_bindings' = bindings'
  PROVE  HInv'
<1>1. ~OfHotkeys
  BY DEF Inv, OneJob, OfHotkeys
<1>2. CASE f = "hotkeys"
  <2>1. missed' \/ job' = {[file |-> f, data |-> version]}
    BY <1>2 DEF Save
  <2>2. CASE missed'
    BY <2>2 DEF HInv
  <2>3. CASE job' = {[file |-> f, data |-> version]}
    BY <1>2, <2>3 DEF HInv, OfHotkeys
  <2>. QED
    BY <2>1, <2>2, <2>3
<1>3. CASE f # "hotkeys"
  <2>1. missed' <=> missed
    BY <1>3 DEF Save, Inv, Memory
  <2>2. ~OfHotkeys'
    BY <1>1, <1>3 DEF Save, OfHotkeys
  <2>3. OnDisk' = OnDisk
    BY DEF OnDisk
  <2>. QED
    BY <1>1, <1>3, <2>1, <2>2, <2>3 DEF HInv
<1>. QED
  BY <1>2, <1>3

LEMMA HInduction == Inv /\ HInv /\ [Next]_vars => HInv'
<1>. SUFFICES ASSUME Inv, HInv, [Next]_vars PROVE HInv'
  OBVIOUS
<1>1. CASE UNCHANGED vars
  BY <1>1 DEF vars, memory, history, HInv, OfHotkeys, OnDisk
<1>2. CASE OpenTemporary \/ WriteTemporary \/ BackUp
  <2>1. UNCHANGED <<job, kept, phase, missed, memory>>
    BY <1>2 DEF OpenTemporary, WriteTemporary, BackUp, Step, history
  <2>. QED
    BY <2>1 DEF memory, HInv, OfHotkeys, OnDisk
<1>3. CASE Replace
  <2>1. PICK f \in Files, version \in Versions :
          /\ version \in Held(f) /\ job = {[file |-> f, data |-> version]}
          /\ \A r \in job : r.file = f /\ r.data = version
    BY <1>3, TheJob DEF Replace, Step
  <2>2. /\ kept' = [kept EXCEPT ![f] = version] /\ job' = {}
        /\ UNCHANGED <<phase, missed, memory>>
    <3>1. \E r \in job : kept' = [kept EXCEPT ![r.file] = r.data]
      BY <1>3 DEF Replace
    <3>. QED
      BY <1>3, <2>1, <3>1 DEF Replace, Step
  <2>3. ~OfHotkeys' /\ kept \in [Files -> Versions \cup {Missing}]
    BY <2>2, Stronger DEF OfHotkeys, SettingsInvariant, TypeOK
  <2>4. CASE f = "hotkeys"
    <3>1. kept'["hotkeys"] = version /\ version # Missing
      BY <2>1, <2>2, <2>3, <2>4, Distinct
    <3>2. OfHotkeys
      BY <2>1, <2>4 DEF OfHotkeys
    <3>3. phase # "down" /\ ~missed => version.drop_order = saved_drop_order_bindings
      BY <2>1, <3>2 DEF HInv
    <3>. QED
      BY <2>2, <2>3, <3>1, <3>2, <3>3 DEF HInv, OnDisk, memory
  <2>5. CASE f # "hotkeys"
    <3>1. kept'["hotkeys"] = kept["hotkeys"] /\ ~OfHotkeys
      BY <2>1, <2>2, <2>3, <2>5, Distinct DEF OfHotkeys
    <3>. QED
      BY <2>2, <2>3, <3>1 DEF HInv, OnDisk, memory
  <2>. QED
    BY <2>4, <2>5
<1>4. CASE SaveFailed
  <2>1. CASE OfHotkeys
    BY <1>4, <2>1 DEF SaveFailed, OfHotkeys, HInv
  <2>2. CASE ~OfHotkeys
    <3>1. /\ missed' = (missed \/ \E r \in job : r.file = "hotkeys") /\ job' = {}
          /\ UNCHANGED <<phase, memory, history>>
      BY <1>4 DEF SaveFailed
    <3>2. ~missed' => ~missed
      BY <3>1
    <3>3. ~OfHotkeys' /\ OnDisk' = OnDisk
      BY <3>1 DEF OfHotkeys, OnDisk, history
    <3>. QED
      BY <2>2, <3>1, <3>2, <3>3 DEF HInv, memory
  <2>. QED
    BY <2>1, <2>2
<1>5. CASE Settings
  <2>1. PICK next : Set(next)
    BY <1>5 DEF Settings, SignIn, SignOut, SelectSource, TakeTrack
  <2>2. /\ phase # "down" /\ at = "idle" /\ "settings" \in Files /\ Save("settings", next)
        /\ UNCHANGED <<phase, kept, bindings, saved_drop_order_bindings>>
    BY <2>1, Distinct DEF Set, history
  <2>3. missed' <=> missed
    BY <2>2 DEF Save, Inv, Memory
  <2>4. ~missed' /\ phase' = "leaving" => saved_drop_order_bindings' = bindings'
    BY <2>2, <2>3 DEF HInv
  <2>. QED
    BY <2>2, <2>4, SaveKeepsMemory
<1>6. CASE Rebound
  BY <1>6 DEF Rebound, Idle, HInv, OfHotkeys, OnDisk, history
<1>7. CASE FrontendSave \/ Exit
  <2>1. /\ phase = "up" /\ at = "idle" /\ SaveHotkeys /\ UNCHANGED <<kept, bindings>>
    BY <1>7 DEF FrontendSave, Exit, Idle, history
  <2>2. CASE bindings = saved_drop_order_bindings
    <3>1. UNCHANGED <<job, missed, saved_drop_order_bindings>>
      BY <2>1, <2>2 DEF SaveHotkeys
    <3>. QED
      BY <2>1, <2>2, <3>1 DEF HInv, OfHotkeys, OnDisk
  <2>3. CASE bindings # saved_drop_order_bindings
    <3>1. saved_drop_order_bindings' = bindings /\ Save("hotkeys", [drop_order |-> bindings])
      BY <2>1, <2>3 DEF SaveHotkeys, SaveHotkey
    <3>. QED
      BY <2>1, <3>1, SaveKeepsMemory, Distinct
  <2>. QED
    BY <2>2, <2>3
<1>8. CASE Load
  <2>1. /\ saved_drop_order_bindings' = OnDisk /\ OnDisk' = OnDisk /\ phase' = "up" /\ ~OfHotkeys'
    BY <1>8, LoadFindsKept DEF Load, history, OnDisk, OfHotkeys, Inv, OneJob
  <2>. QED
    BY <2>1 DEF HInv
<1>9. CASE Crash \/ Unload
  BY <1>9 DEF Crash, Unload, HInv
<1>10. CASE Damage \/ EditByHand
  BY <1>10 DEF Damage, EditByHand, Meddled, HInv
<1>. QED
  BY <1>1, <1>2, <1>3, <1>4, <1>5, <1>6, <1>7, <1>8, <1>9, <1>10 DEF Next, Saving, Hotkeys, Life

\* Unless a save failed, what the program remembers as saved is on the disk, and
\* from EXIT on it is the binding chosen last, for any number of saves and crashes.
THEOREM BindingsAreKept == Spec => []HotkeysOnDisk
<1>1. Init => HInv
  BY DEF Init, HInv
<1>2. Inv /\ HInv => HotkeysOnDisk
  <2>. SUFFICES ASSUME Inv, HInv, phase # "down", at = "idle", ~missed
                PROVE  /\ saved_drop_order_bindings = OnDisk
                       /\ phase = "leaving" => kept["hotkeys"] = [drop_order |-> bindings]
    <3>1. Inv => Read(disk["hotkeys"]) = kept["hotkeys"]
      BY Distinct DEF Inv, Remembered
    <3>. QED
      BY <3>1 DEF HotkeysOnDisk, OnDisk
  <2>1. saved_drop_order_bindings = OnDisk
    BY DEF HInv, OfHotkeys, Inv, OneJob
  <2>2. ASSUME phase = "leaving" PROVE kept["hotkeys"] = [drop_order |-> bindings]
    <3>1. bindings = OnDisk /\ bindings \in Bindings \cup {NoBindings}
      BY <2>1, <2>2 DEF HInv, Inv, Memory
    <3>2. Unset \notin Bindings \cup {NoBindings}
      <4>1. Unset # NoBindings
        BY DEF Unset, NoBindings
      <4>2. Unset \notin Bindings
        BY SettingsAssumption
      <4>. QED
        BY <4>1, <4>2
    <3>3. kept["hotkeys"] \in HotkeyFile \cup {Missing}
      BY KeptKind, Distinct
    <3>. QED
      BY <3>1, <3>2, <3>3 DEF OnDisk, HotkeyFile
  <2>. QED
    BY <2>1, <2>2
<1>. QED
  BY <1>1, <1>2, HInduction, Always, PTL DEF Spec
=============================================================================
