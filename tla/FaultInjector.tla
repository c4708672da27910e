---------------------------- MODULE FaultInjector ----------------------------
(***************************************************************************)
(* faults/injector.py: the lifecycle of a scenario's faults and their      *)
(* joint effect on a tick.  Faults are armed when the run is loaded, fire  *)
(* at their activation and clear when their duration is over; the effect   *)
(* of a tick is composed from those that are in force on it.               *)
(*                                                                         *)
(* Rates are in twentieths of rad/s, the slip is in tenths.                *)
(***************************************************************************)
EXTENDS Integers, Sequences, FiniteSets, Functions

\* STALE_LIDAR is a drop or a delay by its mode, and PACKET_DELAY a delay.
FaultType ==
  {"drop_lidar", "delay_lidar", "encoder_drift", "imu_bias", "bridge_disconnect",
   "command_timeout", "watchdog_expiration", "sensor_disagreement", "wheel_slip"}

Forever == -1

\* FaultProfile, with the one parameter its type reads.
FaultProfile == [type: FaultType, from: Nat, lasts: Nat \cup {Forever}, amount: Int]

VARIABLE faultStatus   \* per fault, the status of its runtime state

FaultStatus == {"ARMED", "FIRED", "CLEARED"}

\* emit_arming.
Armed(faults) == [i \in DOMAIN faults |-> "ARMED"]

ActiveAt(f, now) == now >= f.from
OverAt(f, now) == f.lasts # Forever /\ now >= f.from + f.lasts

FaultyStatusAt(f, status, now) ==
  IF status = "FIRED" /\ OverAt(f, now) THEN "CLEARED"
  ELSE IF status = "ARMED" /\ ActiveAt(f, now) THEN "FIRED"
  ELSE status

\* The loop that fires comes before the one that clears: a fault whose window
\* holds no tick does both on one tick and is never in force.
StatusAt(f, status, now) ==
  LET fired == IF status = "ARMED" /\ ActiveAt(f, now) THEN "FIRED" ELSE status
  IN  IF fired = "FIRED" /\ OverAt(f, now) THEN "CLEARED" ELSE fired

StatusesAt(faults, now) ==
  [i \in DOMAIN faults |-> StatusAt(faults[i], faultStatus[i], now)]

-----------------------------------------------------------------------------
(***************************************************************************)
(* FaultEffect.merge over the faults in force: offsets add up, delays and  *)
(* slips take the largest, losses are a disjunction.  A watchdog           *)
(* expiration is part of the effect, but nothing reads it.                 *)
(***************************************************************************)
InForce(faults, statuses, type) ==
  {i \in DOMAIN faults : statuses[i] = "FIRED" /\ faults[i].type = type}

Total(faults, statuses, type) ==
  SumFunction([i \in InForce(faults, statuses, type) |-> faults[i].amount])

\* The larger of 0 and the amounts in force.
Largest(faults, statuses, type) ==
  LET amounts == {0} \cup {faults[i].amount : i \in InForce(faults, statuses, type)}
  IN  CHOOSE a \in amounts : \A b \in amounts : b <= a

\* What the effect of a tick ranges over.
Effects ==
  [drop: BOOLEAN, delay: Nat, drift: Int, bias: Int, disconnected: BOOLEAN,
   silent: BOOLEAN, offset: Int, slip: Nat]

FaultEffect(faults, statuses) ==
  [drop         |-> InForce(faults, statuses, "drop_lidar") # {},
   delay        |-> Largest(faults, statuses, "delay_lidar"),
   drift        |-> Total(faults, statuses, "encoder_drift"),
   bias         |-> Total(faults, statuses, "imu_bias"),
   disconnected |-> InForce(faults, statuses, "bridge_disconnect") # {},
   silent       |-> InForce(faults, statuses, "command_timeout") # {},
   offset       |-> Total(faults, statuses, "sensor_disagreement"),
   slip         |-> Largest(faults, statuses, "wheel_slip")]
=============================================================================
