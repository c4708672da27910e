--------------------------- MODULE SensorSimulator ---------------------------
(***************************************************************************)
(* simulation/sensor_simulator.py: the readings a simulated rover takes.   *)
(* Each stream is read again when its period is over and otherwise         *)
(* repeated from the cache; faults perturb what is read, or keep it from   *)
(* being read at all.                                                      *)
(*                                                                         *)
(* A reading keeps when it was taken, the time it claims, whether its      *)
(* status is HEALTHY, its confidence in twentieths, and the one value the  *)
(* rest of the system looks at: the clearance in mm (speeds are in cm/s),  *)
(* the angular rate in twentieths of rad/s, or the bumper.  The rover      *)
(* drives straight: its own angular rate is zero.                          *)
(***************************************************************************)
EXTENDS Integers

CONSTANT Period   \* per stream, the time between two readings

VARIABLE cached   \* per stream, the cached reading, or NoReading

NeverMade == -1
Reading == [made: {NeverMade} \cup Nat, stamp: Int, healthy: BOOLEAN,
            confidence: 0 .. 20, value: Int]

NoReading == [made |-> NeverMade, stamp |-> 0, healthy |-> FALSE,
              confidence |-> 0, value |-> 0]

Taken(r) == r.made # NeverMade

Size(n) == IF n < 0 THEN -n ELSE n
Larger(a, b) == IF a > b THEN a ELSE b
Smaller(a, b) == IF a < b THEN a ELSE b

DueAgain(s, now) == ~Taken(cached[s]) \/ now - cached[s].made >= Period[s]

\* The simulated range shrinks as the rover speeds up.
ReadLidar(effect, now, speed) ==
  [made |-> now, stamp |-> now - effect.delay, healthy |-> effect.delay = 0,
   confidence |-> IF effect.delay = 0 THEN 18 ELSE 12,
   value |-> Larger(50, 300 - Size(speed))]

ImuConfidence(effect) ==
  IF effect.bias = 0 THEN 17 ELSE Larger(6, 17 - Size(effect.bias))

ReadImu(effect, now) ==
  [made |-> now, stamp |-> now, healthy |-> effect.bias = 0,
   confidence |-> ImuConfidence(effect),
   value |-> effect.bias]

Slipped(effect) == Smaller(10, effect.slip)

EncoderConfidence(effect) == 18 - (6 * Slipped(effect)) \div 10

ReadEncoder(effect, now) ==
  [made |-> now, stamp |-> now,
   healthy |-> effect.drift = 0 /\ Slipped(effect) = 0,
   confidence |-> EncoderConfidence(effect),
   value |-> effect.offset]

ReadContact(now, asserted) ==
  [made |-> now, stamp |-> now, healthy |-> TRUE, confidence |-> 20,
   value |-> IF asserted THEN 1 ELSE 0]

FaultySensed(effect, now, speed, asserted) ==
  [lidar |->
     IF effect.disconnected \/ ~DueAgain("lidar", now) THEN cached["lidar"]
     ELSE IF effect.drop THEN [cached["lidar"] EXCEPT !.stamp = now, !.made = now]
     ELSE ReadLidar(effect, now, speed),
   imu |->
     IF effect.disconnected \/ ~DueAgain("imu", now) THEN cached["imu"]
     ELSE ReadImu(effect, now),
   encoder |->
     IF effect.disconnected \/ ~DueAgain("encoder", now) THEN cached["encoder"]
     ELSE ReadEncoder(effect, now),
   contact |->
     IF ~asserted /\ ~DueAgain("contact", now) THEN cached["contact"]
     ELSE ReadContact(now, asserted)]

\* generate.  The bumper does not go through the bridge, and an asserted one
\* is read at once.
Sensed(effect, now, speed, asserted) ==
  [lidar |->
     IF effect.disconnected \/ effect.drop \/ ~DueAgain("lidar", now)
     THEN cached["lidar"] ELSE ReadLidar(effect, now, speed),
   imu |->
     IF effect.disconnected \/ ~DueAgain("imu", now)
     THEN cached["imu"] ELSE ReadImu(effect, now),
   encoder |->
     IF effect.disconnected \/ ~DueAgain("encoder", now)
     THEN cached["encoder"] ELSE ReadEncoder(effect, now),
   contact |->
     IF ~asserted /\ ~DueAgain("contact", now)
     THEN cached["contact"] ELSE ReadContact(now, asserted)]
=============================================================================
