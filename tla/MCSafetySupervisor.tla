------------------------ MODULE MCSafetySupervisor ------------------------
(***************************************************************************)
(* Small instance: two required streams (so that the IMU and the encoder   *)
(* can disagree), short deadlines, and frames chosen so that every level   *)
(* of every stream and every score band occurs.                            *)
(***************************************************************************)
EXTENDS SafetySupervisor

MCStreams == {"imu", "encoder"}
MCWeight == [imu |-> 9, encoder |-> 9, contact |-> 2]
MCLinearMax ==
  [ACTIVE_NORMAL |-> 3, ACTIVE_RESTRICTED |-> 2, ACTIVE_DEGRADED |-> 1]
MCAngularMax ==
  [ACTIVE_NORMAL |-> 3, ACTIVE_RESTRICTED |-> 2, ACTIVE_DEGRADED |-> 1]
MCDeadline == [imu |-> 1, encoder |-> 2, gateway |-> 1]

FrameWith(imu, encoder, contact, imuConf, encoderConf) ==
  [level |-> [imu |-> imu, encoder |-> encoder, contact |-> contact],
   confidence |-> [imu |-> imuConf, encoder |-> encoderConf, contact |-> 20],
   contact |-> FALSE, biased |-> FALSE, disagrees |-> FALSE]

GoodFrame == FrameWith("fresh", "fresh", "fresh", 20, 20)

\* Every mix of levels of the required streams, and of the optional one.
LevelFrames ==
  {FrameWith(i, e, "fresh", 20, 20) : i, e \in {"fresh", "warn", "stale"}}
    \cup {FrameWith("missing", "fresh", "fresh", 20, 20)}
    \cup {FrameWith("fresh", "fresh", c, 20, 20) : c \in {"missing", "warn", "stale"}}

\* Scores of 0.685, 0.37 and 0.19 on fresh inputs: below the normal, the
\* recovery and the arbitration threshold.
ScoreFrames ==
  {FrameWith("fresh", "fresh", "fresh", 20, 6),
   FrameWith("fresh", "fresh", "fresh", 6, 6),
   FrameWith("fresh", "fresh", "fresh", 2, 2)}

FlagFrames ==
  {[GoodFrame EXCEPT !.contact = TRUE], [GoodFrame EXCEPT !.biased = TRUE],
   [GoodFrame EXCEPT !.disagrees = TRUE]}

MCFrames == LevelFrames \cup ScoreFrames \cup FlagFrames

\* No pulse, each pulse alone, and the pairs whose order in evaluate matters.
MCPulseSets ==
  {{}} \cup {{p} : p \in Pulse}
       \cup {{"estop", "reset"}, {"estop", "reset_armed"}, {"reset_armed", "reset"},
             {"recovery", "activate"}}

Fast == [kind |-> "live", linear |-> 9, angular |-> -9]
Slow == [kind |-> "live", linear |-> -1, angular |-> 1]
MCRequests == {Fast}
MCAllRequests ==
  {Fast, Slow} \cup {[kind |-> k, linear |-> 1, angular |-> 0] :
                       k \in {"absent", "invalid", "expired"}}

MCTickGaps == {1}
=============================================================================
