---------------------------- MODULE FrameGrabber ----------------------------
(***************************************************************************)
(* Capturing one source on demand (vision/frame-grabber), with the calls   *)
(* VisionLoop makes of it and the selection it remembers.  The UI thread   *)
(* selects and shows, the vision worker grabs, the graphics thread renders *)
(* what the worker waits for, and OBS destroys a source whenever nobody    *)
(* holds a strong reference.  Undoing a deletion, or loading a collection  *)
(* again, makes another source with the uuid of the first.                 *)
(*                                                                         *)
(* A picture is its size; 0 is no size, no surface.                        *)
(***************************************************************************)
EXTENDS Integers

CONSTANTS
    Sources,     \* of the kinds is_capture_source() knows
    Uuid,        \* of each source
    Sizes,       \* pictures' sizes once scaled
    None,        \* no source, no uuid
    MaxSelects   \* bound: selections made

Uuids == {Uuid[s] : s \in Sources}

ASSUME SourceAssumption ==
    /\ Uuid = [s \in Sources |-> Uuid[s]] /\ None \notin Sources \cup Uuids
    /\ Sizes \subseteq Nat \ {0} /\ MaxSelects \in Nat

VARIABLES
    made, alive,     \* sources libobs has made, and those it has not destroyed
    source_uuid,     \* in the settings file
    loaded,          \* OBS has finished loading
    weak_source_, uuid_,   \* the selection, held weakly, and its uuid
    active_, shown_,
    showing,         \* how often the plugin has each source showing
    ui,              \* the UI thread inside select() or stop()
    was_active, target,    \* local and parameter of select()
    remember,        \* select() was called by select_source()
    worker,
    task,            \* RenderTask of the grab under way
    texrender_, stagesurf_, staged_,
    out,             \* the size of the last frame handed to the worker
    released,        \* history: release_gpu() has run, and no worker was started since
    selects

render == <<worker, task, texrender_, stagesurf_, staged_, out>>
choice == <<made, source_uuid, loaded, uuid_, remember>>
vars == <<alive, weak_source_, active_, shown_, showing, ui, was_active, target, render,
          released, selects, choice>>

NoTask == [source |-> None, size |-> 0, staged |-> FALSE]

Init ==
    /\ made \in SUBSET Sources /\ \A s, t \in made : Uuid[s] = Uuid[t] => s = t
    /\ alive = made
    /\ source_uuid \in Uuids \cup {None} /\ loaded = FALSE
    /\ weak_source_ = None /\ uuid_ = None /\ remember = FALSE
    /\ active_ = FALSE /\ shown_ = None /\ showing = [s \in Sources |-> 0]
    /\ ui = "free" /\ was_active = FALSE /\ target = None
    /\ worker = "absent" /\ task = NoTask
    /\ texrender_ = FALSE /\ stagesurf_ = 0 /\ staged_ = 0 /\ out = 0
    /\ released = FALSE /\ selects = 0

-----------------------------------------------------------------------------
(* set_active().  The strong reference each branch takes makes it one step. *)

Live(s) == IF s \in alive THEN s ELSE None
Add(s, n) == IF s = None THEN showing ELSE [showing EXCEPT ![s] = @ + n]

Show ==
    /\ active_' = TRUE
    /\ IF active_ THEN UNCHANGED <<shown_, showing>>
       ELSE shown_' = Live(weak_source_) /\ showing' = Add(Live(weak_source_), 1)

Hide ==
    /\ active_' = FALSE /\ shown_' = None
    /\ showing' = IF active_ THEN Add(Live(shown_), -1) ELSE showing

-----------------------------------------------------------------------------
(* The UI thread *)

\* VisionLoop::start(), also behind a shutdown().  A stream begins once OBS has loaded.
StartLoop ==
    /\ ui = "free" /\ worker = "absent" /\ loaded
    /\ Show /\ worker' = "idle"
    /\ released' = FALSE
    /\ UNCHANGED <<alive, weak_source_, ui, was_active, target, task, texrender_, stagesurf_,
                   staged_, out, selects, choice>>

\* VisionLoop::stop() and shutdown() up to the join
StopLoop(for) ==
    /\ ui = "free" /\ ui' = for
    /\ UNCHANGED <<alive, weak_source_, active_, shown_, showing, was_active, target, render,
                   released, selects, choice>>

Gone == worker \in {"absent", "exited"}

\* set_active(false) belongs to a stop that had a worker to join.
Stopped ==
    /\ ui = "stop" /\ ui' = "free"
    /\ Gone /\ worker' = "absent"
    /\ IF worker = "exited" THEN Hide ELSE UNCHANGED <<active_, shown_, showing>>
    /\ UNCHANGED <<alive, weak_source_, was_active, target, task, texrender_, stagesurf_, staged_,
                   out, released, selects, choice>>

\* shutdown() after its stop(): select(nullptr) and release_gpu().
ReleaseGpu ==
    /\ ui = "shutdown" /\ ui' = "free"
    /\ Gone /\ worker' = "absent"
    /\ IF worker = "exited" THEN Hide ELSE UNCHANGED <<active_, shown_, showing>>
    /\ texrender_' = FALSE /\ stagesurf_' = 0 /\ staged_' = 0
    /\ weak_source_' = None /\ uuid_' = None
    /\ released' = TRUE
    /\ UNCHANGED <<alive, was_active, target, task, out, selects, made, source_uuid, loaded,
                   remember>>

\* Mutant: the old selection is not let go first.
SelectWhileShown(s, remembered) ==
    /\ ui' = "select"
    /\ target' = s /\ remember' = remembered
    /\ was_active' = active_
    /\ UNCHANGED <<alive, weak_source_, active_, shown_, showing, render, released,
                   made, source_uuid, uuid_>>

\* select(): inactive first, then the selection, then active again.
Select(s, remembered) ==
    /\ ui' = "select"
    /\ target' = s /\ remember' = remembered
    /\ was_active' = active_
    /\ Hide
    /\ UNCHANGED <<alive, weak_source_, render, released, made, source_uuid, uuid_>>

\* The living source of a uuid, at most one at a time.
WithUuid(u) == {s \in alive : Uuid[s] = u}

\* onWatchesActivated(): the drop-down names a source by its uuid.
WatchesActivated ==
    /\ ui = "free" /\ loaded /\ selects < MaxSelects
    /\ \E u \in Uuids : \E s \in WithUuid(u) : Select(s, TRUE)
    /\ selects' = selects + 1 /\ UNCHANGED loaded

\* The largest capture in the current scene, which may be any or none.
pick_default_source == alive \cup {None}

\* restore_selection(): the source remembered, or else the default.
FinishedLoading ==
    /\ ui = "free" /\ ~loaded /\ loaded' = TRUE
    /\ UNCHANGED selects
    /\ \/ \E s \in WithUuid(source_uuid) : Select(s, FALSE)
       \/ WithUuid(source_uuid) = {} /\ \E s \in pick_default_source \ {None} : Select(s, TRUE)
       \/ /\ WithUuid(source_uuid) = {}
          /\ UNCHANGED <<alive, weak_source_, active_, shown_, showing, ui, was_active, target,
                         render, released, made, source_uuid, uuid_, remember>>

Selected ==
    /\ ui = "select" /\ ui' = "show"
    /\ weak_source_' = target /\ uuid_' = Uuid[target]
    /\ UNCHANGED <<alive, active_, shown_, showing, was_active, target, render, released, selects,
                   made, source_uuid, loaded, remember>>

\* Mutant: the choice is not remembered.
ShownAgainOnly ==
    /\ ui = "show" /\ ui' = "free"
    /\ IF was_active THEN Show ELSE UNCHANGED <<active_, shown_, showing>>
    /\ UNCHANGED <<alive, weak_source_, was_active, target, render, released, selects, choice>>

\* The end of select(), and what select_source() adds to it.
ShownAgain ==
    /\ ui = "show" /\ ui' = "free"
    /\ IF was_active THEN Show ELSE UNCHANGED <<active_, shown_, showing>>
    /\ source_uuid' = IF remember THEN Uuid[target] ELSE source_uuid
    /\ UNCHANGED <<alive, weak_source_, was_active, target, render, released, selects,
                   made, loaded, uuid_, remember>>

-----------------------------------------------------------------------------
(* The worker and the graphics thread: grab() *)

\* The loop's check of stop_, some way ahead of the grab.
Turn ==
    /\ worker = "idle" /\ ui \notin {"stop", "shutdown"}
    /\ worker' = "turn"
    /\ UNCHANGED <<alive, weak_source_, active_, shown_, showing, ui, was_active, target, task,
                   texrender_, stagesurf_, staged_, out, released, selects, choice>>

\* NoSource, or NotReady for a source without a size.
NoPicture ==
    /\ worker = "turn" /\ worker' = "idle"
    /\ UNCHANGED <<alive, weak_source_, active_, shown_, showing, ui, was_active, target, task,
                   texrender_, stagesurf_, staged_, out, released, selects, choice>>

Grab ==
    /\ worker = "turn" /\ weak_source_ \in alive
    /\ \E size \in Sizes : task' = [source |-> weak_source_, size |-> size, staged |-> FALSE]
    /\ worker' = "stage"
    /\ UNCHANGED <<alive, weak_source_, active_, shown_, showing, ui, was_active, target,
                   texrender_, stagesurf_, staged_, out, released, selects, choice>>

\* Mutant: a surface once made serves every size.
SurfaceMadeOnce(size) == IF stagesurf_ = 0 THEN {0, size} ELSE {stagesurf_}
\* The surface is made anew for another size, and that may fail.
Surface(size) == IF staged_ = size THEN {stagesurf_} ELSE {0, size}

\* The render target is made once; drawing into it may fail.
Stage ==
    /\ worker = "stage"
    /\ texrender_' \in {texrender_, TRUE}
    /\ \/ /\ texrender_'
          /\ stagesurf_' \in Surface(task.size) /\ staged_' = stagesurf_'
          /\ task' = [task EXCEPT !.staged = (stagesurf_' # 0)]
       \/ UNCHANGED <<task, stagesurf_, staged_>>
    /\ worker' = "map"
    /\ UNCHANGED <<alive, weak_source_, active_, shown_, showing, ui, was_active, target, out,
                   released, selects, choice>>

\* The readback may fail; then the source is let go.
Map ==
    /\ worker = "map"
    /\ out' \in (IF task.staged /\ stagesurf_ # 0 THEN {task.size, out} ELSE {out})
    /\ task' = NoTask
    /\ worker' = "idle"
    /\ UNCHANGED <<alive, weak_source_, active_, shown_, showing, ui, was_active, target,
                   texrender_, stagesurf_, staged_, released, selects, choice>>

\* The loop breaks on a rejected key, with the grabber left as it is.
KeyRejected ==
    /\ worker = "idle" /\ worker' = "exited"
    /\ UNCHANGED <<alive, weak_source_, active_, shown_, showing, ui, was_active, target, task,
                   texrender_, stagesurf_, staged_, out, released, selects, choice>>

Leave ==
    /\ worker = "idle" /\ ui \in {"stop", "shutdown"}
    /\ worker' = "exited"
    /\ UNCHANGED <<alive, weak_source_, active_, shown_, showing, ui, was_active, target, task,
                   texrender_, stagesurf_, staged_, out, released, selects, choice>>

-----------------------------------------------------------------------------
\* The strong references of the plugin: the task's, and that of select()'s caller.
Held == {task.source} \cup IF ui \in {"select", "show"} THEN {target} ELSE {}

\* OBS: the last strong reference goes, and with the source what the plugin
\* had showing of it.
Destroy ==
    /\ \E s \in alive \ Held :
         alive' = alive \ {s} /\ showing' = [showing EXCEPT ![s] = 0]
    /\ UNCHANGED <<weak_source_, active_, shown_, ui, was_active, target, render, released, selects,
                   choice>>

\* A source is added, or one that was deleted comes back as another.
Create ==
    /\ \E s \in Sources \ made :
         WithUuid(Uuid[s]) = {} /\ made' = made \cup {s} /\ alive' = alive \cup {s}
    /\ UNCHANGED <<weak_source_, active_, shown_, showing, ui, was_active, target, render, released,
                   selects, source_uuid, loaded, uuid_, remember>>

UIThread == \/ StartLoop \/ StopLoop("stop") \/ StopLoop("shutdown") \/ Stopped \/ ReleaseGpu
            \/ WatchesActivated \/ FinishedLoading \/ Selected \/ ShownAgain
Worker == Turn \/ NoPicture \/ Grab \/ Stage \/ Map \/ Leave

Next == UIThread \/ Worker \/ KeyRejected \/ Destroy \/ Create

Spec == Init /\ [][Next]_vars

-----------------------------------------------------------------------------
\* Every variable keeps to its range.
TypeOK ==
    /\ alive \subseteq made /\ made \subseteq Sources
    /\ {source_uuid, uuid_} \subseteq Uuids \cup {None}
    /\ loaded \in BOOLEAN /\ remember \in BOOLEAN
    /\ {weak_source_, shown_, target} \subseteq Sources \cup {None}
    /\ showing \in [Sources -> Nat]
    /\ active_ \in BOOLEAN /\ was_active \in BOOLEAN
    /\ ui \in {"free", "stop", "shutdown", "select", "show"}
    /\ worker \in {"absent", "idle", "turn", "stage", "map", "exited"}
    /\ task \in [source : Sources \cup {None}, size : Sizes \cup {0}, staged : BOOLEAN]
    /\ texrender_ \in BOOLEAN /\ {stagesurf_, staged_, out} \subseteq Sizes \cup {0}
    /\ released \in BOOLEAN /\ selects \in 0..MaxSelects

\* "While active, the selection is held showing" (frame-grabber.hpp:68): through
\* selections, stops and deletions in any order, exactly the living selection
\* of an active grabber is showing, and once.
HookedOnlyWhileActive ==
    ui = "free" =>
        \A s \in Sources :
            showing[s] = IF active_ /\ s = weak_source_ /\ s \in alive THEN 1 ELSE 0

\* The frame read back is as large as the surface it is read from: two grabs,
\* a resize and a shutdown never get between the two passes of one grab.
SurfaceFitsTask == worker = "map" /\ task.staged => stagesurf_ = task.size

\* "Frees GPU resources. Must run while the graphics subsystem is alive"
\* (frame-grabber.hpp:78): whatever grab the shutdown met, nothing of it is left behind or
\* made again before another start.  After EXIT there may be one (LinkFlowExit).
NothingLeftOnGpu == released => ~texrender_ /\ stagesurf_ = 0

\* What every state of the grabber is: its variables in range, the two passes of a
\* grab about one surface, the GPU empty from a shutdown until a start.
GrabberInvariant == TypeOK /\ SurfaceFitsTask /\ NothingLeftOnGpu

\* What is watched is what the dock names and the next start will look for,
\* through defaults, deletions and sources that come back.
WatchedIsRemembered ==
    ui = "free" /\ weak_source_ # None => Uuid[weak_source_] = uuid_ /\ source_uuid = uuid_

\* "Asking by UUID is what tells a deleted selection from a live one"
\* (sokaster-dock.cpp:414).  Not so for a selection that was deleted and has come
\* back: the dock finds it, the eyes hold the dead one (README, section 4).
FoundByUuidIsAlive ==
    ui = "free" /\ uuid_ # None /\ WithUuid(uuid_) # {} => weak_source_ \in alive

\* "Only while capturing: an idle plugin must not keep a game hooked"
\* (frame-grabber.hpp:69-70): no source is held showing for a worker that has left.
\* Not so for one that left by itself (README, section 4).
HookedOnlyWhileCapturing ==
    ui = "free" /\ Gone => \A s \in Sources : showing[s] = 0
=============================================================================
