---------------------------- MODULE OverlayPanel ----------------------------
(***************************************************************************)
(* The overlay row of the dock and its one button: where the co-host's     *)
(* page is among the scenes (dock/overlay-finder), what the row says of it *)
(* and of the server's word (overlay_row() of Readiness), and what         *)
(* the button then edits (SokasterDock::onOverlayFix).  All of it is UI    *)
(* thread, but the panel is only as fresh as the last reevaluate(): OBS    *)
(* signals the creation, the renaming and the destruction of a source and  *)
(* nothing else, so the streamer can edit a scene under the button.        *)
(***************************************************************************)
EXTENDS Readiness, Sequences, SequencesExt

CONSTANTS
    SceneList,   \* obs_frontend_get_scenes()
    Pages,       \* browser sources; a uuid is never used twice
    Page,        \* the settings a streamer may give one, a subset of Settings
    MaxEdits     \* bound: what the streamer does behind the panel's back

Scenes == ToSet(SceneList)
None == "none"
Where == {"Missing", "OtherScene", "CurrentScene"}
Sounds == {"Ok", "Unheard", "Doubled", "OffAir"}
Monitoring == {"none", "both", "only"}
Settings == [url : {"own", "old", "theirs"}, shutdown : BOOLEAN,
             through_obs : BOOLEAN, monitoring : Monitoring]
ASSUME SceneAssumption == SceneList \in Seq(Scenes)
ASSUME PageAssumption == Page \subseteq Settings /\ None \notin Pages

\* The part of ServerState the row needs. `known` stands for have_beta and a
\* link that is Ok; `token` for an overlay_token that is not empty.
Snapshots == [known : BOOLEAN, token : BOOLEAN, count : 0..2]
Blank == [known |-> FALSE, token |-> FALSE, count |-> 0]

VARIABLES
    settings,    \* of the browser sources made so far
    items,       \* what each scene shows, in the order it is searched
    current,     \* the scene viewers are looking at
    reaches,     \* monitoring_reaches_outputs()
    server,      \* SokasterDock::server_
    panel,       \* the last reevaluate(): overlayFound_, the row, overlayFix_
    edits

world == <<settings, items, current, reaches>>
vars == <<settings, items, current, reaches, server, panel, edits>>

Made == DOMAIN settings
Shown(s) == \E scene \in Scenes : s \in ToSet(items[scene])

-----------------------------------------------------------------------------
(* find_overlay() *)

\* The prefix is our server's.
IsOurPage(s) == s # None /\ settings[s].url # "theirs"

names_token(s) == ~server.token \/ settings[s].url = "own"

\* The first that matches the token, else the first of our pages.
Search(list) ==
    LET Ours(i) == IsOurPage(list[i])
        Good(i) == Ours(i) /\ names_token(list[i])
    IN  IF \E i \in DOMAIN list : Good(i)
        THEN list[CHOOSE i \in DOMAIN list : Good(i) /\ \A j \in 1..(i - 1) : ~Good(j)]
        ELSE IF \E i \in DOMAIN list : Ours(i)
        THEN list[CHOOSE i \in DOMAIN list : Ours(i) /\ \A j \in 1..(i - 1) : ~Ours(j)]
        ELSE None

\* Mutant: monitored and sent out, whatever else is on the stream.
AlwaysBoth == "both"

wanted_monitoring == IF reaches THEN "only" ELSE "both"

\* Mutant: the desktop audio captures are not looked at.
JudgeWithoutCapture(s) ==
    IF settings[s].through_obs /\ settings[s].monitoring = "none" THEN "Unheard" ELSE "Ok"

judge_sound(s) ==
    LET through(how) == settings[s].through_obs /\ settings[s].monitoring = how IN
    CASE through("none")             -> "Unheard"
      [] through("both") /\ reaches  -> "Doubled"
      [] through("only") /\ ~reaches -> "OffAir"
      [] OTHER                       -> "Ok"

Presence(where, s) ==
    [where |-> where, stale |-> ~names_token(s), shutdown |-> settings[s].shutdown,
     sound |-> judge_sound(s), source_uuid |-> s]

Nothing == [where |-> "Missing", stale |-> FALSE, shutdown |-> FALSE,
            sound |-> "Ok", source_uuid |-> None]

Here == Search(items[current])
Anywhere == Search([i \in DOMAIN SceneList |-> Search(items[SceneList[i]])])

\* A good page elsewhere is worth more than a stale one here.
find_overlay(here, anywhere) ==
    IF anywhere = None THEN Nothing
    ELSE IF here # None /\ (names_token(here) \/ ~names_token(anywhere))
    THEN Presence("CurrentScene", here)
    ELSE Presence("OtherScene", anywhere)

-----------------------------------------------------------------------------
(* reevaluate(): overlay_row() is Readiness's *)

Panels == {[found |-> o, row |-> overlay_row(o, server.known, server.count)] :
              o \in {find_overlay(here, anywhere) : here \in {Here}, anywhere \in {Anywhere}}}
Evaluated == CHOOSE p \in Panels : TRUE
reevaluate == panel' = Evaluated'

Init ==
    /\ settings = <<>> /\ items = [scene \in Scenes |-> <<>>]
    /\ current \in Scenes /\ reaches \in BOOLEAN
    /\ server = Blank /\ panel = Evaluated /\ edits = 0

-----------------------------------------------------------------------------
(* onOverlayFix() *)

\* An address needs the token; a sound fix needs no address.
ButtonEnabled == panel.row.fix \in {"Listen", "Sound"} \/ (panel.row.fix # "None" /\ server.token)

\* The uuid still names a source.
Alive(s) == s # None /\ Shown(s)

\* Ours, elsewhere: the same source once more.
IsReused == panel.found.where = "OtherScene" /\ ~panel.found.stale /\ Alive(panel.found.source_uuid)

Place(s) == items' = [items EXCEPT ![current] = Append(@, s)]
Make(s, page) == settings' = [p \in Made \cup {s} |-> IF p = s THEN page ELSE settings[p]]

AddExisting ==
    /\ IsReused
    /\ Place(panel.found.source_uuid) /\ UNCHANGED settings

AddNew ==
    /\ ~IsReused
    /\ \E s \in Pages \ Made :
         /\ Make(s, [url |-> "own", shutdown |-> FALSE, through_obs |-> TRUE,
                     monitoring |-> wanted_monitoring])
         /\ Place(s)

\* Mutant: a new source whatever was found.
AddAfresh ==
    \E s \in Pages \ Made :
      /\ Make(s, [url |-> "own", shutdown |-> FALSE, through_obs |-> TRUE,
                  monitoring |-> wanted_monitoring])
      /\ Place(s)

\* add_overlay_to_current_scene()
AddOverlay == AddExisting \/ AddNew

set_overlay_url ==
    /\ Alive(panel.found.source_uuid)
    /\ settings' = [settings EXCEPT ![panel.found.source_uuid].url = "own"]
    /\ UNCHANGED items

fix_overlay_sound ==
    /\ Alive(panel.found.source_uuid)
    /\ settings' = [settings EXCEPT ![panel.found.source_uuid].monitoring = wanted_monitoring]
    /\ UNCHANGED items

\* Where the source is gone the button only says that it did not work.
OverlayFix ==
    /\ ButtonEnabled
    /\ \/ panel.row.fix = "Add" /\ AddOverlay
       \/ panel.row.fix = "Update" /\ set_overlay_url
       \/ panel.row.fix \in {"Listen", "Sound"} /\ fix_overlay_sound
    /\ UNCHANGED <<current, reaches, server, edits>>
    /\ reevaluate

\* refreshNow() of a signal, of a scene switch, of the ticks on air.
Refresh == panel' = Evaluated /\ UNCHANGED <<world, server, edits>>

\* Mutant: the answer is stored, and the panel left to the next refresh.
StoreServerState ==
    /\ server' \in {s \in Snapshots : (server.token => s.token)} \cup {Blank}
    /\ UNCHANGED <<world, edits, panel>>

\* A token once fetched is kept until the key changes.
ApplyServerState ==
    /\ server' \in {s \in Snapshots : (server.token => s.token)} \cup {Blank}
    /\ UNCHANGED <<world, edits>>
    /\ reevaluate

-----------------------------------------------------------------------------
(* The streamer *)

Edit == edits < MaxEdits /\ edits' = edits + 1 /\ UNCHANGED <<server, panel>>

SceneSwitched == Edit /\ current' \in Scenes \ {current} /\ UNCHANGED <<settings, items, reaches>>

\* A desktop audio capture, its device, its track.
CaptureChanged == Edit /\ reaches' = ~reaches /\ UNCHANGED <<settings, items, current>>

PageAdded ==
    /\ Edit
    /\ \E s \in Pages \ Made, page \in Page, scene \in Scenes :
         Make(s, page) /\ items' = [items EXCEPT ![scene] = Append(@, s)]
    /\ UNCHANGED <<current, reaches>>

\* Paste as a reference.
PageReused ==
    /\ Edit
    /\ \E s \in Made, scene \in Scenes :
         /\ Shown(s) /\ s \notin ToSet(items[scene])
         /\ items' = [items EXCEPT ![scene] = Append(@, s)]
    /\ UNCHANGED <<settings, current, reaches>>

PageRemoved ==
    /\ Edit
    /\ \E scene \in Scenes : \E i \in DOMAIN items[scene] :
         items' = [items EXCEPT ![scene] = RemoveAt(@, i)]
    /\ UNCHANGED <<settings, current, reaches>>

PageEdited ==
    /\ Edit
    /\ \E s \in Made, page \in Page :
         Shown(s) /\ settings[s] # page /\ settings' = [settings EXCEPT ![s] = page]
    /\ UNCHANGED <<items, current, reaches>>

Next == \/ OverlayFix \/ Refresh \/ ApplyServerState
        \/ SceneSwitched \/ CaptureChanged
        \/ PageAdded \/ PageReused \/ PageRemoved \/ PageEdited

Spec == Init /\ [][Next]_vars

-----------------------------------------------------------------------------
\* The panel speaks of a page that was made, and of one exactly when it says so.
TypeOK ==
    /\ Made \subseteq Pages /\ settings \in [Made -> Settings]
    /\ items \in [Scenes -> Seq(Made)]
    /\ current \in Scenes /\ reaches \in BOOLEAN /\ server \in Snapshots
    /\ panel.found.where \in Where /\ panel.found.sound \in Sounds
    /\ panel.found.source_uuid \in Made \cup {None}
    /\ panel.found.where = "Missing" <=> panel.found.source_uuid = None
    /\ panel.row.fix \in Fixes

\* "A row blocks exactly when the server's gate would keep the co-host silent:
\* ... a connected overlay" (readiness.hpp:51-52), whatever OBS looks like.
BlocksExactlyWhenSilent ==
    server.known => (panel.row.level = "Block" <=> server.count = 0)

\* What every state of the panel is: its variables in range, its row no milder than the gate.
PanelInvariant == TypeOK /\ BlocksExactlyWhenSilent

\* The one step that edits the scenes and is not the streamer's.
Pressed == world' # world /\ edits' = edits

Fresh == panel = Evaluated

Rank(fix) == IF fix = "None" THEN 0 ELSE IF fix \in {"Add", "Update"} THEN 1 ELSE 2

\* "The one fix the overlay row offers" (readiness.hpp:71) is one: what it was
\* offered for is over once it is pressed, and two presses leave nothing to press.
PressesRunOut ==
    [][Pressed /\ Fresh => Rank(panel'.row.fix) < Rank(panel.row.fix)]_vars

Copies == {s \in Made : Shown(s) /\ settings[s].url = "own"}

Spared(s) == settings[s].url = "theirs" => settings'[s].url = "theirs"

\* While the panel is fresh, a press does no harm. "Two connected copies would
\* play the voice twice" (overlay-finder.hpp:69-70): it never adds a page of this
\* account to one that is there. And "Update address must never rewrite one of
\* theirs" (overlay-finder.cpp:55-57).
FreshPressIsHarmless ==
    [][Pressed /\ Fresh =>
          /\ Copies # {} => Cardinality(Copies') <= Cardinality(Copies)
          /\ \A s \in Made : Spared(s)]_vars

\* How often OBS puts a page on the stream: its own audio unless it is monitored
\* only, and what OBS monitors, when a desktop audio capture carries it.  Of a page
\* that keeps its audio from OBS there is nothing: it "plays straight to the speakers
\* like any other app" (overlay-finder.hpp:48-49).
TimesOnStream(page) ==
    IF ~page.through_obs THEN 0
    ELSE (IF page.monitoring # "only" THEN 1 ELSE 0)
         + (IF page.monitoring # "none" /\ reaches THEN 1 ELSE 0)

\* "Whether the voice reaches both the streamer and the stream, judged only for an
\* overlay whose audio OBS controls" (overlay-finder.hpp:47-48): when the server hears of
\* a page and the button has nothing left to offer, some page of ours is in the scenes,
\* this account's if there is any; the streamer hears it and the stream does once; and unless
\* the row warns of another copy or of the flag, it is in the scene viewers look at.
SettledIsHeardOnce ==
    Fresh /\ server.known /\ server.count > 0 /\ panel.row.fix = "None" =>
        LET s == panel.found.source_uuid IN
        /\ IsOurPage(s) /\ Shown(s)
        /\ server.token /\ Copies # {} => s \in Copies
        /\ settings[s].through_obs => settings[s].monitoring # "none" /\ TimesOnStream(settings[s]) = 1
        /\ server.count = 1 /\ ~settings[s].shutdown => s \in ToSet(items[current])

\* Sparing theirs as the comment has it: at any time.  Not so (README, section 4).
UpdateSparesOthers == [][Pressed => \A s \in Made : Spared(s)]_vars

\* "Connected wins ... unless OBS has no overlay at all, since then the stream
\* gets nothing of it" (readiness.cpp:66-68): a row that is green speaks of
\* this account's page in the scene viewers look at.  Not so when a browser tab is what is
\* connected (README, section 4).
GreenMeansOnStream ==
    panel.row.level = "Ok" => panel.found.where = "CurrentScene" /\ ~panel.found.stale
=============================================================================
