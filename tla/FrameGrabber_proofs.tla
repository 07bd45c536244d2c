------------------------- MODULE FrameGrabber_proofs -------------------------
(***************************************************************************)
(* Exactly the living selection of an active grabber is showing, a frame   *)
(* is as large as its surface, and what is watched is remembered: for any  *)
(* sources and sizes, and any order of selections, stops, grabs and        *)
(* deletions.                                                              *)
(***************************************************************************)
EXTENDS FrameGrabber, TLAPS

Selecting == ui \in {"select", "show"}

\* What is showing, and what the grabber has to let go of.
Showing ==
    /\ showing = [s \in Sources |-> IF active_ /\ s = weak_source_ /\ s \in alive THEN 1 ELSE 0]
    /\ ~active_ => shown_ = None
    /\ active_ => shown_ = weak_source_ \/ (shown_ = None /\ weak_source_ \notin alive)
    /\ weak_source_ \in made \cup {None}

\* select() runs inactive, its caller holds the source, and a grabber without a
\* worker is not active.
Inactive ==
    /\ Selecting => ~active_ /\ target \in alive /\ (was_active => worker # "absent")
    /\ worker = "absent" => ~active_

\* A grab stages into a surface of its own size; from the release to a start there is no worker.
Surfaces ==
    /\ staged_ = stagesurf_
    /\ worker = "stage" => ~task.staged
    /\ SurfaceFitsTask
    /\ released => worker = "absent" /\ ~texrender_ /\ stagesurf_ = 0

\* The settings file has the selection, or select_source() is about to write it.
Remembered ==
    /\ ~Selecting /\ weak_source_ # None => Uuid[weak_source_] = uuid_ /\ source_uuid = uuid_
    /\ ui = "show" => weak_source_ = target /\ uuid_ = Uuid[target]
    /\ Selecting => remember \/ source_uuid = Uuid[target]

Inv == TypeOK /\ Showing /\ Inactive /\ Surfaces /\ Remembered

\* What the assumption gives, in the form the proofs want.
LEMMA Given ==
  /\ None \notin Sources /\ None \notin Uuids /\ \A s \in Sources : Uuid[s] \in Uuids
  /\ 0 \notin Sizes /\ Sizes \subseteq Nat /\ MaxSelects \in Nat
  BY SourceAssumption DEF Uuids

LEMMA InitInv == Init => Inv
<1>. SUFFICES ASSUME Init PROVE Inv
  OBVIOUS
<1>1. 0 \in 0..MaxSelects /\ 0 \in Nat
  BY Given
<1>2. TypeOK
  BY <1>1 DEF Init, TypeOK, NoTask
<1>3. Showing
  BY DEF Init, Showing
<1>4. Inactive /\ Remembered
  BY DEF Init, Inactive, Remembered, Selecting
<1>5. Surfaces
  BY DEF Init, Surfaces, SurfaceFitsTask
<1>. QED
  BY <1>2, <1>3, <1>4, <1>5 DEF Inv

\* Letting go leaves nothing showing.
LEMMA HideLetsGo ==
  ASSUME Inv, Hide
  PROVE  ~active_' /\ shown_' = None /\ showing' = [s \in Sources |-> 0]
<1>1. showing = [s \in Sources |-> IF active_ /\ s = weak_source_ /\ s \in alive THEN 1 ELSE 0]
  BY DEF Inv, Showing
<1>2. CASE ~active_
  BY <1>1, <1>2 DEF Hide
<1>3. CASE active_ /\ weak_source_ \notin alive
  <2>1. shown_ \notin alive
    BY <1>3, Given DEF Inv, Showing, TypeOK
  <2>2. showing' = showing
    BY <1>3, <2>1 DEF Hide, Live, Add
  <2>3. showing = [s \in Sources |-> 0]
    BY <1>1, <1>3
  <2>. QED
    BY <2>2, <2>3 DEF Hide
<1>4. CASE active_ /\ weak_source_ \in alive
  <2>1. shown_ = weak_source_ /\ weak_source_ \in Sources /\ weak_source_ # None
    BY <1>4, Given DEF Inv, Showing, TypeOK
  <2>2. showing' = [showing EXCEPT ![weak_source_] = @ + -1]
    BY <1>4, <2>1 DEF Hide, Live, Add
  <2>3. showing[weak_source_] = 1 /\ \A s \in Sources \ {weak_source_} : showing[s] = 0
    BY <1>1, <1>4, <2>1
  <2>4. showing' = [s \in Sources |-> 0]
    <3>1. showing'[weak_source_] = 0
      BY <1>1, <2>1, <2>2, <2>3
    <3>2. \A s \in Sources \ {weak_source_} : showing'[s] = 0
      BY <1>1, <2>1, <2>2, <2>3
    <3>3. showing' = [s \in Sources |-> showing'[s]]
      BY <1>1, <2>2
    <3>. QED
      BY <3>1, <3>2, <3>3
  <2>. QED
    BY <2>4 DEF Hide
<1>. QED
  BY <1>2, <1>3, <1>4

\* Showing again holds the living selection, once.
LEMMA ShowHolds ==
  ASSUME Inv, Show, UNCHANGED <<alive, made, weak_source_>>
  PROVE  active_' /\ Showing'
<1>1. showing = [s \in Sources |-> IF active_ /\ s = weak_source_ /\ s \in alive THEN 1 ELSE 0]
  BY DEF Inv, Showing
<1>2. active_'
  BY DEF Show
<1>3. CASE active_
  BY <1>1, <1>2, <1>3 DEF Show, Inv, Showing
<1>4. CASE ~active_ /\ weak_source_ \in alive
  <2>1. weak_source_ \in Sources /\ weak_source_ # None
    BY <1>4, Given DEF Inv, TypeOK
  <2>2. showing' = [showing EXCEPT ![weak_source_] = @ + 1] /\ shown_' = weak_source_
    BY <1>4, <2>1 DEF Show, Live, Add
  <2>3. showing = [s \in Sources |-> 0]
    BY <1>1, <1>4
  <2>4. showing' = [s \in Sources |-> IF active_' /\ s = weak_source_ /\ s \in alive THEN 1 ELSE 0]
    BY <1>2, <1>4, <2>1, <2>2, <2>3
  <2>. QED
    BY <1>2, <2>2, <2>4 DEF Inv, Showing
<1>5. CASE ~active_ /\ weak_source_ \notin alive
  <2>1. showing' = showing /\ shown_' = None
    BY <1>5 DEF Show, Live, Add
  <2>2. showing' = [s \in Sources |-> IF active_' /\ s = weak_source_ /\ s \in alive THEN 1 ELSE 0]
    BY <1>1, <1>5, <2>1
  <2>. QED
    BY <1>2, <1>5, <2>1, <2>2 DEF Inv, Showing
<1>. QED
  BY <1>2, <1>3, <1>4, <1>5

-----------------------------------------------------------------------------
(* The UI thread *)

\* What is showing is counted in naturals.
LEMMA ShowingIsTyped == Showing => showing \in [Sources -> Nat]
  BY DEF Showing

\* The grabber and the selection, when nothing is let go or shown.
LEMMA Undisturbed ==
  ASSUME Inv, UNCHANGED <<alive, made, weak_source_, active_, shown_, showing>>
  PROVE  Showing'
  BY DEF Inv, Showing

LEMMA StartLoopInv == Inv /\ StartLoop => Inv'
<1>. SUFFICES ASSUME Inv, StartLoop PROVE Inv'
  OBVIOUS
<1>1. Showing' /\ active_'
  BY ShowHolds DEF StartLoop, choice
<1>2. /\ ui = "free" /\ ui' = ui /\ released' = FALSE /\ worker' = "idle"
      /\ UNCHANGED <<alive, weak_source_, was_active, target, task, texrender_, stagesurf_,
                     staged_, out, selects, choice>>
  BY DEF StartLoop
<1>3. shown_' \in Sources \cup {None} /\ active_' \in BOOLEAN
  BY DEF StartLoop, Show, Live, Inv, TypeOK
<1>4. TypeOK'
  BY <1>1, <1>2, <1>3, ShowingIsTyped DEF Inv, TypeOK, choice, Showing
<1>5. Inactive' /\ Remembered'
  BY <1>2 DEF Inv, Inactive, Remembered, Selecting, choice
<1>6. Surfaces'
  BY <1>2 DEF Inv, Surfaces, SurfaceFitsTask
<1>. QED
  BY <1>1, <1>4, <1>5, <1>6 DEF Inv

LEMMA StopLoopInv == Inv /\ (StopLoop("stop") \/ StopLoop("shutdown")) => Inv'
<1>. SUFFICES ASSUME Inv, NEW for \in {"stop", "shutdown"}, StopLoop(for) PROVE Inv'
  OBVIOUS
<1>1. /\ ui = "free" /\ ui' = for
      /\ UNCHANGED <<alive, weak_source_, active_, shown_, showing, was_active, target, render,
                     released, selects, choice>>
  BY DEF StopLoop
<1>2. TypeOK' /\ Showing'
  BY <1>1, Undisturbed DEF Inv, TypeOK, render, choice
<1>3. Inactive' /\ Remembered'
  BY <1>1 DEF Inv, Inactive, Remembered, Selecting, choice, render
<1>4. Surfaces'
  BY <1>1 DEF Inv, Surfaces, SurfaceFitsTask, render
<1>. QED
  BY <1>2, <1>3, <1>4 DEF Inv

\* A stop lets go of what the worker left showing; without a worker there is nothing.
LEMMA LetGo ==
  ASSUME Inv, ~Selecting, Gone,
         IF worker = "exited" THEN Hide ELSE UNCHANGED <<active_, shown_, showing>>
  PROVE  /\ ~active_' /\ showing' = [s \in Sources |-> 0]
         /\ shown_' = None
         /\ active_' \in BOOLEAN
<1>1. CASE worker = "exited"
  <2>1. Hide
    BY <1>1
  <2>2. ~active_' /\ shown_' = None /\ showing' = [s \in Sources |-> 0]
    BY <2>1, HideLetsGo
  <2>. QED
    BY <2>1, <2>2 DEF Hide
<1>2. CASE worker = "absent"
  <2>1. ~active_ /\ UNCHANGED <<active_, shown_, showing>>
    BY <1>2 DEF Inv, Inactive
  <2>2. showing = [s \in Sources |-> 0] /\ shown_ = None
    BY <2>1 DEF Inv, Showing
  <2>. QED
    BY <2>1, <2>2 DEF Inv, TypeOK
<1>. QED
  BY <1>1, <1>2 DEF Gone

LEMMA StoppedInv == Inv /\ Stopped => Inv'
<1>. SUFFICES ASSUME Inv, Stopped PROVE Inv'
  OBVIOUS
<1>1. /\ ui = "stop" /\ ui' = "free" /\ Gone /\ worker' = "absent"
      /\ UNCHANGED <<alive, weak_source_, was_active, target, task, texrender_, stagesurf_, staged_,
                     out, released, selects, choice>>
  BY DEF Stopped
<1>2. /\ ~active_' /\ showing' = [s \in Sources |-> 0]
      /\ shown_' = None
      /\ active_' \in BOOLEAN
  BY <1>1, LetGo DEF Stopped, Selecting
<1>3. Showing'
  BY <1>1, <1>2 DEF Inv, Showing, choice
<1>4. TypeOK'
  BY <1>1, <1>2, <1>3, ShowingIsTyped DEF Inv, TypeOK, choice, Showing
<1>5. Inactive' /\ Remembered'
  BY <1>1, <1>2 DEF Inv, Inactive, Remembered, Selecting, choice
<1>6. Surfaces'
  BY <1>1 DEF Inv, Surfaces, SurfaceFitsTask
<1>. QED
  BY <1>3, <1>4, <1>5, <1>6 DEF Inv

LEMMA ReleaseGpuInv == Inv /\ ReleaseGpu => Inv'
<1>. SUFFICES ASSUME Inv, ReleaseGpu PROVE Inv'
  OBVIOUS
<1>1. /\ ui = "shutdown" /\ ui' = "free" /\ Gone /\ worker' = "absent"
      /\ texrender_' = FALSE /\ stagesurf_' = 0 /\ staged_' = 0
      /\ weak_source_' = None /\ uuid_' = None /\ released' = TRUE
      /\ UNCHANGED <<alive, was_active, target, task, out, selects, made, source_uuid, loaded,
                     remember>>
  BY DEF ReleaseGpu
<1>2. /\ ~active_' /\ showing' = [s \in Sources |-> 0]
      /\ shown_' = None
      /\ active_' \in BOOLEAN
  BY <1>1, LetGo DEF ReleaseGpu, Selecting
<1>3. Showing'
  BY <1>1, <1>2, Given DEF Inv, Showing, TypeOK
<1>4. TypeOK'
  BY <1>1, <1>2, <1>3, ShowingIsTyped DEF Inv, TypeOK
<1>5. Inactive' /\ Remembered'
  BY <1>1, <1>2 DEF Inactive, Remembered, Selecting
<1>6. Surfaces'
  BY <1>1 DEF Surfaces, SurfaceFitsTask
<1>. QED
  BY <1>3, <1>4, <1>5, <1>6 DEF Inv

-----------------------------------------------------------------------------
(* select() *)

LEMMA SelectInv ==
  ASSUME Inv, ui = "free", NEW s \in alive, NEW remembered \in BOOLEAN, Select(s, remembered),
         remembered \/ source_uuid = Uuid[s], loaded' \in BOOLEAN, selects' \in 0..MaxSelects
  PROVE  Inv'
<1>1. /\ ui' = "select" /\ target' = s /\ remember' = remembered /\ was_active' = active_
      /\ UNCHANGED <<alive, weak_source_, render, released, made, source_uuid, uuid_>>
  BY DEF Select
<1>2. ~active_' /\ shown_' = None /\ showing' = [q \in Sources |-> 0]
  BY HideLetsGo DEF Select
<1>3. active_' \in BOOLEAN
  BY DEF Select, Hide
<1>4. Showing'
  BY <1>1, <1>2 DEF Inv, Showing
<1>5. TypeOK'
  BY <1>1, <1>2, <1>3, <1>4, ShowingIsTyped DEF Inv, TypeOK, render
<1>6. Inactive'
  BY <1>1, <1>2 DEF Inv, Inactive, render
<1>7. Remembered'
  BY <1>1 DEF Remembered, Selecting
<1>8. Surfaces'
  BY <1>1 DEF Inv, Surfaces, SurfaceFitsTask, render
<1>. QED
  BY <1>4, <1>5, <1>6, <1>7, <1>8 DEF Inv

\* The drop-down names a living source; restoring names the one remembered.
LEMMA SelectingInv == Inv /\ (WatchesActivated \/ FinishedLoading) => Inv'
<1>. SUFFICES ASSUME Inv, WatchesActivated \/ FinishedLoading PROVE Inv'
  OBVIOUS
<1>1. CASE WatchesActivated
  <2>1. PICK s \in alive : Select(s, TRUE)
    BY <1>1 DEF WatchesActivated, WithUuid
  <2>2. selects' \in 0..MaxSelects
    <3>1. selects \in 0..MaxSelects /\ selects < MaxSelects /\ selects' = selects + 1
      BY <1>1 DEF WatchesActivated, Inv, TypeOK
    <3>. QED
      BY <3>1, Given
  <2>3. ui = "free" /\ loaded' \in BOOLEAN
    BY <1>1 DEF WatchesActivated, Inv, TypeOK
  <2>. QED
    BY <2>1, <2>2, <2>3, SelectInv
<1>2. CASE FinishedLoading
  <2>1. ui = "free" /\ loaded' \in BOOLEAN /\ loaded' = TRUE /\ selects' \in 0..MaxSelects
    BY <1>2 DEF FinishedLoading, Inv, TypeOK
  <2>2. CASE \E s \in WithUuid(source_uuid) : Select(s, FALSE)
    <3>1. PICK s \in alive : Select(s, FALSE) /\ Uuid[s] = source_uuid
      BY <2>2 DEF WithUuid
    <3>. QED
      BY <2>1, <3>1, SelectInv
  <2>3. CASE \E s \in pick_default_source \ {None} : Select(s, TRUE)
    <3>1. PICK s \in alive : Select(s, TRUE)
      BY <2>3 DEF pick_default_source
    <3>. QED
      BY <2>1, <3>1, SelectInv
  <2>4. CASE UNCHANGED <<alive, weak_source_, active_, shown_, showing, ui, was_active, target,
                         render, released, made, source_uuid, uuid_, remember>>
    <3>1. TypeOK' /\ Showing'
      BY <2>1, <2>4, Undisturbed DEF Inv, TypeOK, render
    <3>2. Inactive' /\ Remembered' /\ Surfaces'
      BY <2>4 DEF Inv, Inactive, Remembered, Selecting, Surfaces, SurfaceFitsTask, render
    <3>. QED
      BY <3>1, <3>2 DEF Inv
  <2>. QED
    BY <1>2, <2>2, <2>3, <2>4 DEF FinishedLoading
<1>. QED
  BY <1>1, <1>2

LEMMA SelectedInv == Inv /\ Selected => Inv'
<1>. SUFFICES ASSUME Inv, Selected PROVE Inv'
  OBVIOUS
<1>1. /\ ui = "select" /\ ui' = "show" /\ weak_source_' = target /\ uuid_' = Uuid[target]
      /\ UNCHANGED <<alive, active_, shown_, showing, was_active, target, render, released, selects,
                     made, source_uuid, loaded, remember>>
  BY DEF Selected
<1>2. ~active_ /\ target \in alive /\ target \in made /\ target \in Sources
  BY <1>1 DEF Inv, Inactive, Selecting, TypeOK
<1>3. TypeOK'
  BY <1>1, <1>2, Given DEF Inv, TypeOK, render
<1>4. Showing'
  BY <1>1, <1>2 DEF Inv, Showing
<1>5. Inactive' /\ Remembered'
  BY <1>1, <1>2 DEF Inv, Inactive, Remembered, Selecting, render
<1>6. Surfaces'
  BY <1>1 DEF Inv, Surfaces, SurfaceFitsTask, render
<1>. QED
  BY <1>3, <1>4, <1>5, <1>6 DEF Inv

LEMMA ShownAgainInv == Inv /\ ShownAgain => Inv'
<1>. SUFFICES ASSUME Inv, ShownAgain PROVE Inv'
  OBVIOUS
<1>1. /\ ui = "show" /\ ui' = "free"
      /\ source_uuid' = IF remember THEN Uuid[target] ELSE source_uuid
      /\ UNCHANGED <<alive, weak_source_, was_active, target, render, released, selects,
                     made, loaded, uuid_, remember>>
  BY DEF ShownAgain
<1>2. ~active_ /\ target \in Sources /\ (was_active => worker # "absent")
  BY <1>1 DEF Inv, Inactive, Selecting, TypeOK
<1>3. /\ Showing' /\ (active_' => was_active)
      /\ shown_' \in Sources \cup {None} /\ active_' \in BOOLEAN
  <2>1. CASE was_active
    <3>1. Show
      BY <2>1 DEF ShownAgain
    <3>2. shown_' \in Sources \cup {None} /\ active_' \in BOOLEAN
      BY <3>1 DEF Show, Live, Inv, TypeOK
    <3>. QED
      BY <1>1, <2>1, <3>1, <3>2, ShowHolds
  <2>2. CASE ~was_active
    <3>1. UNCHANGED <<active_, shown_, showing>>
      BY <2>2 DEF ShownAgain
    <3>. QED
      BY <1>1, <1>2, <3>1, Undisturbed DEF Inv, TypeOK
  <2>. QED
    BY <2>1, <2>2
<1>4. TypeOK'
  BY <1>1, <1>2, <1>3, Given, ShowingIsTyped DEF Inv, TypeOK, render, Showing
<1>5. Inactive'
  BY <1>1, <1>2, <1>3 DEF Inactive, Selecting, render
<1>6. Remembered'
  BY <1>1 DEF Inv, Remembered, Selecting
<1>7. Surfaces'
  BY <1>1 DEF Inv, Surfaces, SurfaceFitsTask, render
<1>. QED
  BY <1>3, <1>4, <1>5, <1>6, <1>7 DEF Inv

-----------------------------------------------------------------------------
(* The worker, the graphics thread and OBS *)

\* A step of the worker leaves the selection alone.
LEMMA WorkerLeaves ==
  ASSUME Inv, UNCHANGED <<alive, weak_source_, active_, shown_, showing, ui, was_active, target,
                         released, selects, choice>>, worker # "absent", worker' # "absent"
  PROVE  Showing' /\ Inactive' /\ Remembered' /\ ~released
<1>1. Showing'
  BY Undisturbed DEF choice
<1>2. Inactive' /\ Remembered'
  BY DEF Inv, Inactive, Remembered, Selecting, choice
<1>3. ~released
  BY DEF Inv, Surfaces
<1>. QED
  BY <1>1, <1>2, <1>3

LEMMA TurnInv == Inv /\ (Turn \/ NoPicture \/ KeyRejected \/ Leave) => Inv'
<1>. SUFFICES ASSUME Inv, Turn \/ NoPicture \/ KeyRejected \/ Leave PROVE Inv'
  OBVIOUS
<1>1. /\ worker \in {"idle", "turn"} /\ worker' \in {"idle", "turn", "exited"}
      /\ UNCHANGED <<alive, weak_source_, active_, shown_, showing, ui, was_active, target, task,
                     texrender_, stagesurf_, staged_, out, released, selects, choice>>
  BY DEF Turn, NoPicture, KeyRejected, Leave
<1>2. Showing' /\ Inactive' /\ Remembered' /\ ~released
  BY <1>1, WorkerLeaves
<1>3. TypeOK'
  BY <1>1 DEF Inv, TypeOK, choice
<1>4. Surfaces'
  BY <1>1, <1>2 DEF Inv, Surfaces, SurfaceFitsTask
<1>. QED
  BY <1>2, <1>3, <1>4 DEF Inv

LEMMA GrabInv == Inv /\ Grab => Inv'
<1>. SUFFICES ASSUME Inv, Grab PROVE Inv'
  OBVIOUS
<1>1. PICK size \in Sizes : task' = [source |-> weak_source_, size |-> size, staged |-> FALSE]
  BY DEF Grab
<1>2. /\ worker = "turn" /\ worker' = "stage" /\ weak_source_ \in alive
      /\ UNCHANGED <<alive, weak_source_, active_, shown_, showing, ui, was_active, target,
                     texrender_, stagesurf_, staged_, out, released, selects, choice>>
  BY DEF Grab
<1>3. Showing' /\ Inactive' /\ Remembered' /\ ~released
  BY <1>2, WorkerLeaves
<1>4. task' \in [source : Sources \cup {None}, size : Sizes \cup {0}, staged : BOOLEAN]
  BY <1>1 DEF Inv, TypeOK
<1>5. TypeOK'
  BY <1>2, <1>4 DEF Inv, TypeOK, choice
<1>6. Surfaces'
  BY <1>1, <1>2, <1>3 DEF Inv, Surfaces, SurfaceFitsTask
<1>. QED
  BY <1>3, <1>5, <1>6 DEF Inv

LEMMA StageInv == Inv /\ Stage => Inv'
<1>. SUFFICES ASSUME Inv, Stage PROVE Inv'
  OBVIOUS
<1>1. /\ worker = "stage" /\ worker' = "map" /\ texrender_' \in {texrender_, TRUE}
      /\ UNCHANGED <<alive, weak_source_, active_, shown_, showing, ui, was_active, target, out,
                     released, selects, choice>>
  BY DEF Stage
<1>2. Showing' /\ Inactive' /\ Remembered' /\ ~released
  BY <1>1, WorkerLeaves
<1>3. task \in [source : Sources \cup {None}, size : Sizes \cup {0}, staged : BOOLEAN] /\ ~task.staged
  BY <1>1 DEF Inv, TypeOK, Surfaces
<1>4. \/ /\ stagesurf_' \in {0, task.size} /\ staged_' = stagesurf_'
         /\ task' = [task EXCEPT !.staged = (stagesurf_' # 0)]
      \/ UNCHANGED <<task, stagesurf_, staged_>>
  BY DEF Stage, Surface, Inv, Surfaces
<1>5. /\ stagesurf_' \in Sizes \cup {0} /\ staged_' = stagesurf_'
      /\ task' \in [source : Sources \cup {None}, size : Sizes \cup {0}, staged : BOOLEAN]
      /\ task'.staged => stagesurf_' = task'.size
  <2>1. CASE UNCHANGED <<task, stagesurf_, staged_>>
    BY <1>3, <2>1 DEF Inv, TypeOK, Surfaces
  <2>2. CASE /\ stagesurf_' \in {0, task.size} /\ staged_' = stagesurf_'
             /\ task' = [task EXCEPT !.staged = (stagesurf_' # 0)]
    <3>1. (stagesurf_' # 0) \in BOOLEAN
      BY Zenon
    <3>2. /\ task' \in [source : Sources \cup {None}, size : Sizes \cup {0}, staged : BOOLEAN]
          /\ task'.size = task.size /\ task'.staged = (stagesurf_' # 0)
      BY <1>3, <2>2, <3>1
    <3>. QED
      BY <1>3, <2>2, <3>2
  <2>. QED
    BY <1>4, <2>1, <2>2
<1>6. texrender_' \in BOOLEAN
  BY <1>1 DEF Inv, TypeOK
<1>7. TypeOK'
  BY <1>1, <1>5, <1>6 DEF Inv, TypeOK, choice
<1>8. Surfaces'
  BY <1>1, <1>2, <1>5 DEF Surfaces, SurfaceFitsTask
<1>. QED
  BY <1>2, <1>7, <1>8 DEF Inv

LEMMA MapInv == Inv /\ Map => Inv'
<1>. SUFFICES ASSUME Inv, Map PROVE Inv'
  OBVIOUS
<1>1. /\ worker = "map" /\ worker' = "idle" /\ task' = NoTask /\ out' \in {task.size, out}
      /\ UNCHANGED <<alive, weak_source_, active_, shown_, showing, ui, was_active, target,
                     texrender_, stagesurf_, staged_, released, selects, choice>>
  BY DEF Map
<1>2. Showing' /\ Inactive' /\ Remembered' /\ ~released
  BY <1>1, WorkerLeaves
<1>3. task' \in [source : Sources \cup {None}, size : Sizes \cup {0}, staged : BOOLEAN]
  BY <1>1 DEF NoTask
<1>4. out' \in Sizes \cup {0}
  BY <1>1 DEF Inv, TypeOK
<1>5. TypeOK'
  BY <1>1, <1>3, <1>4 DEF Inv, TypeOK, choice
<1>6. Surfaces'
  BY <1>1, <1>2 DEF Inv, Surfaces, SurfaceFitsTask
<1>. QED
  BY <1>2, <1>5, <1>6 DEF Inv

\* A source that is destroyed is not one that select() is about to show.
LEMMA DestroyInv == Inv /\ Destroy => Inv'
<1>. SUFFICES ASSUME Inv, Destroy PROVE Inv'
  OBVIOUS
<1>1. PICK s \in alive \ Held : alive' = alive \ {s} /\ showing' = [showing EXCEPT ![s] = 0]
  BY DEF Destroy
<1>2. UNCHANGED <<weak_source_, active_, shown_, ui, was_active, target, render, released, selects,
                  choice>>
  BY DEF Destroy
<1>3. Showing'
  BY <1>1, <1>2 DEF Inv, Showing, choice
<1>4. TypeOK'
  BY <1>1, <1>2, <1>3, ShowingIsTyped DEF Inv, TypeOK, render, choice
<1>5. Inactive' /\ Remembered'
  BY <1>1, <1>2 DEF Inv, Inactive, Remembered, Selecting, Held, render, choice
<1>6. Surfaces'
  BY <1>2 DEF Inv, Surfaces, SurfaceFitsTask, render
<1>. QED
  BY <1>3, <1>4, <1>5, <1>6 DEF Inv

\* A source that is made was never selected, whatever its uuid.
LEMMA CreateInv == Inv /\ Create => Inv'
<1>. SUFFICES ASSUME Inv, Create PROVE Inv'
  OBVIOUS
<1>1. PICK s \in Sources \ made : made' = made \cup {s} /\ alive' = alive \cup {s}
  BY DEF Create
<1>2. UNCHANGED <<weak_source_, active_, shown_, showing, ui, was_active, target, render, released,
                  selects, source_uuid, loaded, uuid_, remember>>
  BY DEF Create
<1>3. s # weak_source_
  BY Given DEF Inv, Showing
<1>4. Showing'
  BY <1>1, <1>2, <1>3 DEF Inv, Showing
<1>5. TypeOK'
  BY <1>1, <1>2 DEF Inv, TypeOK, render
<1>6. Inactive' /\ Remembered'
  BY <1>1, <1>2 DEF Inv, Inactive, Remembered, Selecting, render
<1>7. Surfaces'
  BY <1>2 DEF Inv, Surfaces, SurfaceFitsTask, render
<1>. QED
  BY <1>4, <1>5, <1>6, <1>7 DEF Inv

LEMMA Always == Spec => []Inv
<1>1. Inv /\ UNCHANGED vars => Inv'
  <2>. SUFFICES ASSUME Inv, UNCHANGED vars PROVE Inv'
    OBVIOUS
  <2>1. TypeOK' /\ Showing'
    BY DEF vars, render, choice, Inv, TypeOK, Showing
  <2>2. Inactive' /\ Remembered' /\ Surfaces'
    BY DEF vars, render, choice, Inv, Inactive, Remembered, Selecting, Surfaces, SurfaceFitsTask
  <2>. QED
    BY <2>1, <2>2 DEF Inv
<1>2. Inv /\ [Next]_vars => Inv'
  BY <1>1, StartLoopInv, StopLoopInv, StoppedInv, ReleaseGpuInv, SelectingInv, SelectedInv,
     ShownAgainInv, TurnInv, GrabInv, StageInv, MapInv, DestroyInv, CreateInv
     DEF Next, UIThread, Worker
<1>. QED
  BY <1>2, InitInv, PTL DEF Spec

-----------------------------------------------------------------------------
(* The theorems *)

\* For any sources, sizes and selections: the surface read back fits the frame,
\* and from a release until the next start nothing is left on the GPU.
THEOREM GrabberIsSafe == Spec => []GrabberInvariant
<1>1. Inv => GrabberInvariant
  BY DEF Inv, Surfaces, GrabberInvariant, NothingLeftOnGpu
<1>. QED
  BY <1>1, Always, PTL

\* For any sources and selections: the living selection of an active grabber is
\* showing once, and nothing else is.
THEOREM HeldOnce == Spec => []HookedOnlyWhileActive
<1>1. Inv => HookedOnlyWhileActive
  BY DEF Inv, Showing, HookedOnlyWhileActive
<1>. QED
  BY <1>1, Always, PTL

\* For any sources and selections: what is watched is what the settings remember.
THEOREM SelectionIsRemembered == Spec => []WatchedIsRemembered
<1>1. Inv => WatchedIsRemembered
  BY DEF Inv, Remembered, Selecting, WatchedIsRemembered
<1>. QED
  BY <1>1, Always, PTL
=============================================================================
