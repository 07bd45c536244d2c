--------------------------- MODULE MCAudioTracks ---------------------------
(***************************************************************************)
(* One source on three tracks: enough for the plugin to move to another    *)
(* track, to come back, and to find none at all. One profile per mode and  *)
(* recorder, the one before it with another choice somewhere.              *)
(***************************************************************************)
EXTENDS AudioTracks

Simple == [mode |-> "Simple", track |-> 1, multi |-> {}, vod_on |-> FALSE, vod |-> 2, rec |-> "Stream",
           recorded |-> {1}, flv |-> 0, format |-> "mkv", enhanced |-> FALSE]
Advanced == [Simple EXCEPT !.mode = "Advanced", !.rec = "Standard", !.recorded = {0}]
MCProfiles ==
    {Simple, [Simple EXCEPT !.vod_on = TRUE, !.rec = "Standard"],
     [Advanced EXCEPT !.vod_on = TRUE, !.vod = 3],
     [Advanced EXCEPT !.rec = "FFmpeg", !.recorded = {0, 1, 2}],
     [Advanced EXCEPT !.flv = 3, !.format = "flv"],
     [Advanced EXCEPT !.enhanced = TRUE, !.multi = {1, 7}, !.track = 9],
     [Simple EXCEPT !.mode = "None"]}
=============================================================================
