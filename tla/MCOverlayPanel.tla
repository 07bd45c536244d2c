--------------------------- MODULE MCOverlayPanel ---------------------------
(***************************************************************************)
(* Two scenes and three pages. The streamer's own pages differ in one      *)
(* setting at a time from the page the plugin makes.                       *)
(***************************************************************************)
EXTENDS OverlayPanel

MCScenes == <<"game", "chat">>

Plain == [url |-> "own", shutdown |-> FALSE, through_obs |-> TRUE, monitoring |-> "both"]
MCPage == {[Plain EXCEPT !.url = u] : u \in {"own", "old", "theirs"}}
          \cup {[Plain EXCEPT !.monitoring = w] : w \in Monitoring}
          \cup {[Plain EXCEPT !.shutdown = TRUE], [Plain EXCEPT !.through_obs = FALSE, !.monitoring = "none"]}

\* The whole panel, over some of the facts: OverlayPanel_proofs has it for all of them.
Facts == {l \in LocalFacts :
            /\ ~l.no_capture_sources /\ l.eyes_named /\ l.has_track /\ l.hearing_anything
            /\ l.audio = "Idle" /\ ~l.overlay.shutdown
            /\ l.overlay.sound \in {"Ok", "Unheard"} /\ l.vision \in {"Sending", "Empty", "KeyRejected"}}
Answers == {s \in ServerStates : s.beta_status = "Pending" /\ Polled(s)}
ASSUME PanelAssumption == \A local \in Facts, server_ \in Answers : PanelIsTrue(local, server_)
=============================================================================
