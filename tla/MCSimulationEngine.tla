------------------------- MODULE MCSimulationEngine -------------------------
(***************************************************************************)
(* Scenarios of the kind kept under backend/scenarios, in units of 50 ms   *)
(* with the code's own thresholds, deadlines and warm-up: every type of    *)
(* fault at several times and for several durations, pairs of faults, the  *)
(* operator's pulses in every order that matters, zones, contacts, and     *)
(* steps shorter and longer than the gateway's timeout.                    *)
(***************************************************************************)
EXTENDS SimulationEngine

MCStreams == {"lidar", "imu", "encoder"}
MCWeight == [lidar |-> 7, imu |-> 5, encoder |-> 6, contact |-> 2]
MCLinearMax ==
  [ACTIVE_NORMAL |-> 50, ACTIVE_RESTRICTED |-> 25, ACTIVE_DEGRADED |-> 15]
MCDeadline == [lidar |-> 15, imu |-> 12, encoder |-> 12, gateway |-> 10]
MCPeriod == [lidar |-> 2, imu |-> 1, encoder |-> 1, contact |-> 4]
MCWarnAfter == [lidar |-> 5, imu |-> 4, encoder |-> 4, contact |-> 10]
MCStaleAfter == [lidar |-> 15, imu |-> 12, encoder |-> 12, contact |-> 30]
MCConfidence ==
  [lidar |-> {12, 18}, imu |-> {6, 12, 17}, encoder |-> {15, 18}, contact |-> {20}]
MCMinScore == FullScore \div 2

MCWaypoints == {"w1", "w2"}
MCPlan == <<"w1", "w2">>
MCTimeout == [w1 |-> 40, w2 |-> 40]
MCPosition == [w1 |-> 600, w2 |-> 1200]
MCTolerance == [w1 |-> 200, w2 |-> 200]

Base ==
  [faults |-> <<>>, contacts |-> {}, planned |-> TRUE, clearance |-> 250,
   pulseAt |-> [p \in Pulse |-> IF p = "activate" THEN 4 ELSE None],
   keepouts |-> {}, slow |-> [from |-> 1, to |-> 0, limit |-> 0],
   script |-> [speed |-> 40, starts |-> 0, ends |-> None],
   step |-> 2, duration |-> 110]

Fault(type, amount, from, lasts) ==
  [type |-> type, from |-> from, lasts |-> lasts, amount |-> amount]

With(faults, planned, recovery) ==
  [Base EXCEPT !.faults = faults, !.planned = planned, !.pulseAt["recovery"] = recovery]

OneFault ==
  {With(<<Fault(t[1], t[2], from, lasts)>>, planned, recovery) :
     t \in {<<"drop_lidar", 0>>, <<"delay_lidar", 6>>, <<"delay_lidar", 16>>,
            <<"encoder_drift", 1>>, <<"imu_bias", 5>>, <<"bridge_disconnect", 0>>,
            <<"command_timeout", 0>>, <<"watchdog_expiration", 0>>,
            <<"sensor_disagreement", 12>>, <<"wheel_slip", 5>>},
     from \in {0, 21}, lasts \in {0, 1, 18, Forever},
     planned \in BOOLEAN, recovery \in {None, 46}}

\* A bias hides a disagreement; a delay outlasts a drop; a heartbeat is lost
\* while a recovery is under way or just validated.
TwoFaults ==
  {With(<<Fault("imu_bias", 12, 10, 20), Fault("sensor_disagreement", 12, from, 10)>>,
        planned, 46) : from \in {10, 14, 30}, planned \in BOOLEAN}
  \cup {With(<<Fault("drop_lidar", 0, 10, 20), Fault("delay_lidar", 16, from, 10)>>,
             planned, 46) : from \in {10, 24, 30}, planned \in BOOLEAN}
  \cup {With(<<Fault("bridge_disconnect", 0, 10, 20),
               Fault("command_timeout", 0, from, Forever)>>, planned, 40) :
             from \in 40 .. 62, planned \in BOOLEAN}

Operators ==
  {[Base EXCEPT !.pulseAt = [activate |-> 4, estop |-> estop, recovery |-> recovery,
                             reset_armed |-> armed, reset |-> armed + gap]] :
     estop \in {None, 0, 20, 41}, recovery \in {None, 40}, armed \in {21, 44},
     gap \in {0, 2, 4}}

Zones ==
  {[Base EXCEPT !.keepouts = {[from |-> from, to |-> from + 300, margin |-> 150]},
                !.slow = slow, !.pulseAt["recovery"] = recovery] :
     from \in {-20, 390, 700}, recovery \in {None, 46},
     slow \in {Base.slow, [from |-> 100, to |-> 500, limit |-> 20]}}

Contacts ==
  {[Base EXCEPT !.contacts = contacts, !.pulseAt["recovery"] = 46, !.planned = planned] :
     contacts \in {{20}, {21}, {20, 50}}, planned \in BOOLEAN}

\* Fine and coarse steps, and a rover that stops for its own speed.
Steps ==
  {[Base EXCEPT !.step = step, !.planned = FALSE, !.pulseAt["activate"] = 20] :
     step \in {1, 15, 16}}
  \cup {[Base EXCEPT !.clearance = 300, !.duration = 160],
        [Base EXCEPT !.pulseAt["activate"] = None],
        [Base EXCEPT !.planned = FALSE, !.script.ends = 30, !.pulseAt["activate"] = 0]}

MCScenarios == OneFault \cup TwoFaults \cup Operators \cup Zones \cup Contacts \cup Steps

MCPulseSets == SUBSET Pulse
MCTickGaps == {0} \cup {s.step : s \in MCScenarios}
=============================================================================
