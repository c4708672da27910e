---------------------------- MODULE MCRunRecording ----------------------------
(***************************************************************************)
(* Four events, of which two are copied to one stream and one to another,  *)
(* in up to two runs of one directory.                                     *)
(***************************************************************************)
EXTENDS RunRecording

MCEvent == {"transition", "started", "completed", "waypoint"}
MCMirrored == [e \in MCEvent |-> CASE e = "transition" -> "-"
                                  [] e \in {"started", "completed"} -> "mission_state"
                                  [] e = "waypoint" -> "waypoint_events"]
MCStreamFiles == <<"mission_state", "waypoint_events">>
MCDigest == [e \in MCEvent |-> "#" \o e]

=============================================================================
