------------------------------ MODULE Readiness ------------------------------
(***************************************************************************)
(* The readiness panel (dock/readiness), "worked out from scratch on every *)
(* refresh" out of what OBS and what the server's last poll say: a pure    *)
(* function of both.  A text is the name of its message, "" for none; the  *)
(* numbers put into a message are left out.                                *)
(***************************************************************************)
EXTENDS Integers, FiniteSets

Levels == {"Neutral", "Ok", "Warn", "Block"}
Fixes == {"None", "Add", "Update", "Listen", "Sound"}
Row(level, text) == [level |-> level, text |-> text]
Fixable(level, text, fix) == [level |-> level, text |-> text, fix |-> fix]

\* OverlayPresence, but for whose source it is.
Presences == [where : {"Missing", "OtherScene", "CurrentScene"}, stale : BOOLEAN, shutdown : BOOLEAN,
              sound : {"Ok", "Unheard", "Doubled", "OffAir"}]
\* eyes_named: the panel has seen a selection alive, and remembers its name.
LocalFacts == [configured : BOOLEAN, streaming : BOOLEAN,
               eyes_selected : BOOLEAN, eyes_named : BOOLEAN, no_capture_sources : BOOLEAN,
               vision : {"Idle", "Sending", "Empty", "NoSource", "Retrying", "RateLimited", "KeyRejected"},
               has_track : BOOLEAN, hearing_anything : BOOLEAN,
               audio : {"Idle", "Listening", "SpeechDisabled", "VadFailed", "Retrying", "KeyRejected"},
               overlay : Presences]
RunStates == {"", "NotApproved", "NoOverlay", "DesktopOffline", "SessionStopped",
              "BudgetExhausted", "NoCredit", "NoOrder", "Ok"}
ServerStates == [link : {"Unknown", "Ok", "Offline", "KeyRejected"}, have_beta : BOOLEAN,
                 admitted : BOOLEAN, beta_status : {"None", "Pending", "Approved", "Rejected"},
                 run_state : RunStates, overlay_count : 0..2, pending : BOOLEAN]

-----------------------------------------------------------------------------
(* The rows *)

account_row(local, server) ==
    IF ~local.configured THEN Row("Block", "SignIn")
    ELSE IF server.link = "KeyRejected" THEN Row("Block", "Expired")
    ELSE IF ~server.have_beta THEN Row("Neutral", "")
    ELSE IF server.admitted THEN Row("Ok", "Ok")
    ELSE Row("Block", IF server.beta_status \in {"Pending", "Rejected"} THEN server.beta_status
                                                                          ELSE "NoApplication")

\* A copy of the voice is being played somewhere: the rest is advice.
ConnectedRow(o, count) ==
    IF o.where = "Missing" THEN Fixable("Warn", "Elsewhere", "Add")
    ELSE IF o.sound # "Ok" THEN Fixable("Warn", o.sound, IF o.sound = "Unheard" THEN "Listen" ELSE "Sound")
    ELSE IF count > 1 THEN Fixable("Warn", "Duplicate", "None")
    ELSE IF o.shutdown THEN Fixable("Warn", "Shutdown", "None")
    ELSE IF o.where = "OtherScene" THEN Fixable("Warn", "OtherScene", "Add")
    ELSE Fixable("Ok", "Ok", "None")

SilentRow(o, known) ==
    IF o.where = "Missing" THEN Fixable("Block", "Missing", "Add")
    ELSE IF o.stale THEN Fixable("Block", "Stale", "Update")
    ELSE IF ~known THEN Fixable("Neutral", "", "None")
    ELSE IF o.shutdown /\ o.where = "OtherScene" THEN Fixable("Block", "Shutdown", "None")
    ELSE Fixable("Block", "Disconnected", "None")

\* Connected is a count that is not zero.
overlay_row(o, known, count) ==
    IF known /\ count > 0 THEN ConnectedRow(o, count) ELSE SilentRow(o, known)

\* What the worker says of itself, when it has something to say.
VisionRow(state) ==
    CASE state \in {"NoSource", "Retrying"}   -> Row("Block", state)
      [] state \in {"Empty", "RateLimited"}   -> Row("Warn", state)
      [] state = "KeyRejected"                -> Row("Block", "")
      [] OTHER                                -> Row("Ok", "Ok")

eyes_row(local, server) ==
    IF ~local.eyes_selected
    THEN Row("Block", IF local.no_capture_sources \/ ~local.eyes_named THEN "None" ELSE "Gone")
    ELSE IF ~local.streaming THEN Row("Ok", "Ready")
    ELSE IF VisionRow(local.vision).level = "Ok" /\ server.link = "Ok" /\ server.run_state = "DesktopOffline"
    THEN Row("Block", "NotArriving")
    ELSE VisionRow(local.vision)

ears_row(local) ==
    IF ~local.configured THEN Row("Neutral", "")
    ELSE IF ~local.has_track THEN Row("Warn", "NoTrack")
    ELSE IF local.audio \in {"SpeechDisabled", "VadFailed", "Retrying"} THEN Row("Warn", local.audio)
    ELSE IF ~local.hearing_anything THEN Row("Warn", "Nothing")
    ELSE Row("Ok", "Track")

air_row(local, server) ==
    IF ~server.have_beta \/ server.link # "Ok" THEN Row("Neutral", "")
    ELSE IF server.run_state = "BudgetExhausted" THEN Row("Block", "Budget")
    ELSE IF server.pending THEN Row("Warn", "Pending")
    ELSE IF ~local.streaming THEN Row("Neutral", "NotStreaming")
    ELSE CASE server.run_state = "SessionStopped"         -> Row("Warn", "Reconnecting")
           [] server.run_state \in {"NoCredit", "NoOrder"} -> Row("Neutral", server.run_state)
           [] server.run_state = "Ok"                     -> Row("Ok", "Talking")
           [] OTHER                                       -> Row("Neutral", "")

-----------------------------------------------------------------------------
(* evaluate_readiness() *)

Known(server) == server.have_beta /\ server.link = "Ok"
OverlayRow(local, server) == overlay_row(local.overlay, Known(server), server.overlay_count)

Blocked(local, server) ==
    "Block" \in {account_row(local, server).level, OverlayRow(local, server).level,
                 eyes_row(local, server).level}

headline(local, server) ==
    IF server.link = "Offline" THEN "Offline"
    ELSE IF Blocked(local, server) THEN "Setup"
    ELSE IF air_row(local, server).level = "Block" THEN "Stopped"
    ELSE IF server.run_state = "Ok" /\ local.streaming THEN "OnAir"
    ELSE IF server.have_beta THEN "Idle"
    ELSE ""

ask_to_sign_in(local, server) == ~local.configured \/ server.link = "KeyRejected"

-----------------------------------------------------------------------------
\* What the status loop can have polled: all or nothing is known of the account
\* (StatusLoop::poll), and an answer that is Ok is a whole one.
Polled(server) ==
    /\ server.link = "Unknown" => ~server.have_beta
    /\ server.link = "Ok" => server.have_beta
    /\ ~server.have_beta => server.run_state = ""

\* The server's word for why the co-host is silent agrees with the rest of its answer.
Gated(server) ==
    /\ server.run_state # "" /\ (server.run_state = "NotApproved" => ~server.admitted)
    /\ server.run_state = "NoOverlay" => server.overlay_count = 0

\* "On air" on top of the panel is true: nothing that keeps the co-host silent
\* is wrong with the key, the account, the page or the eyes.
OnAirIsTrue(local, server) ==
    Polled(server) /\ headline(local, server) = "OnAir" =>
        /\ server.link = "Ok" /\ local.configured /\ server.admitted
        /\ server.overlay_count > 0
        /\ local.streaming /\ local.eyes_selected
        /\ local.vision \notin {"NoSource", "Retrying", "KeyRejected"}

\* "A row blocks exactly when the server's gate would keep the co-host silent:
\* sign-in and beta admission, a connected overlay" (readiness.hpp:51-52).
RowsFollowTheGate(local, server) ==
    Polled(server) /\ server.link = "Ok" /\ local.configured =>
        /\ account_row(local, server).level = "Block" <=> ~server.admitted
        /\ OverlayRow(local, server).level = "Block" <=> server.overlay_count = 0

\* The air row says nothing of NotApproved, NoOverlay and DesktopOffline, "said
\* on their own rows" (readiness.cpp:208): on air, whatever keeps the co-host
\* silent shows on some row.
SilenceIsShown(local, server) ==
    Polled(server) /\ Gated(server) /\ server.link = "Ok" /\ local.streaming /\ server.run_state # "Ok" =>
        \/ account_row(local, server).level = "Block"
        \/ OverlayRow(local, server).level = "Block"
        \/ eyes_row(local, server).level \in {"Warn", "Block"}
        \/ air_row(local, server).text # ""

\* "... frames arriving" (readiness.hpp:52): not exactly, with a picture that is
\* empty or a server that asked for fewer frames (README, section 4).
EyesFollowTheGate(local, server) ==
    Polled(server) /\ server.link = "Ok" /\ local.streaming /\ server.run_state = "DesktopOffline" =>
        eyes_row(local, server).level = "Block"

PanelIsTrue(local, server) ==
    OnAirIsTrue(local, server) /\ RowsFollowTheGate(local, server) /\ SilenceIsShown(local, server)
=============================================================================
