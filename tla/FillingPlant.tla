---------------------------- MODULE FillingPlant -----------------------------
(***************************************************************************)
(* The bottle-filling plant: simulation/bottle-filling-system.cc with the  *)
(* update loop of model/physical-system.cc.  A pump fills a tank, a valve  *)
(* pours from the tank into the bottle under the filler, and a belt brings *)
(* the next bottle.                                                        *)
(*                                                                         *)
(* One Update is one plant cycle of 25 ms, the unit of time.  The tank's   *)
(* water is counted in what the pump delivers in that time.  What the      *)
(* valve pours depends on the root of the tank's level; the model only     *)
(* knows that it costs the tank a unit or less, and that an empty tank     *)
(* gives nothing.  The belt's direction is never set.                      *)
(***************************************************************************)
EXTENDS Integers, Sequences

CONSTANTS
  TankCapacity,    \* water_tank_capacity_ml
  Drains,          \* what pouring for a cycle may cost the tank
  Outflow,         \* what the valve pours in a cycle
  BottleBrim,      \* water_bottle_capacity_ml * 1.1
  Variation,       \* conveyor_bottle_acceptable_distance_variation_mm
  AfterFiller,     \* conveyor_max_bottle_distance_after_filler_mm
  Spacing,         \* conveyor_bottle_distance_in_between_mm
  MaxSpeed,        \* what the belt moves in a cycle at its highest speed
  LeakTime,        \* water_leak_duration_ms
  Orders           \* the orders in which the update functions may be called

ASSUME WaterAssumption ==
  /\ {TankCapacity, Outflow, BottleBrim} \subseteq Nat \ {0}
  /\ Drains \subseteq {0, 1}
ASSUME BeltAssumption ==
  /\ {Variation, AfterFiller, Spacing, MaxSpeed} \subseteq Nat \ {0}
  /\ Variation + 2 * MaxSpeed <= AfterFiller
  /\ AfterFiller + Variation + MaxSpeed < Spacing
ASSUME LeakAssumption == LeakTime \in Nat \ {0}

Keys == {"tankWaterLevel", "bottlePosition", "waterSpillRemaining"}
AllOrders == {o \in Keys \X Keys \X Keys : o[1] # o[2] /\ o[2] # o[3] /\ o[1] # o[3]}
ASSUME OrderAssumption == Orders \subseteq AllOrders

VARIABLES
  values,   \* m_values and m_previousBottleFillLevel
  order,    \* in which the hash table m_values is walked
  inputs    \* m_inputs

plantVars == <<values, order, inputs>>

\* m_previousBottleFillLevel when there is nothing to restore
None == -1

PlantInit ==
  /\ values = [tank |-> 0, bottle |-> 0, stored |-> None, position |-> Spacing,
               speed |-> 0, spill |-> 0, leak |-> FALSE]
  /\ order \in Orders
  /\ inputs = [flowIn |-> FALSE, flowOut |-> FALSE, start |-> FALSE, speed |-> MaxSpeed]

Within(x, low, high) == IF x < low THEN low ELSE IF x > high THEN high ELSE x

UnderFiller(w) == -Variation <= w.position /\ w.position <= Variation

\* A bottle that comes back under the filler has kept its water; the sensor
\* reads nothing while it is away.
Restored(w) == IF w.stored # None /\ w.bottle = 0 THEN w.stored ELSE w.bottle

\* The update function of "tankWaterLevel": tank, bottle and spills.
TankWaterLevel(w, drain) ==
  LET pours == inputs.flowOut /\ w.tank > 0
      tank == w.tank + (IF inputs.flowIn THEN 1 ELSE 0) - (IF pours THEN drain ELSE 0)
      bottle == Restored(w) + (IF pours THEN Outflow ELSE 0)
      spills == \/ tank > TankCapacity
                \/ UnderFiller(w) /\ bottle > BottleBrim
                \/ ~UnderFiller(w) /\ pours
  IN [w EXCEPT !.tank = Within(tank, 0, TankCapacity),
               !.bottle = IF UnderFiller(w) THEN Within(bottle, 0, BottleBrim) ELSE 0,
               !.stored = IF UnderFiller(w) THEN @ ELSE Restored(w),
               !.spill = IF spills THEN LeakTime ELSE @]

\* The engine makes up a quarter of the difference to its target in a cycle,
\* at least one unit: a motor that is stopped rolls on for a few cycles.
Ramp(speed, target) ==
  IF speed < target
  THEN speed + Within((target - speed) \div 4, 1, MaxSpeed)
  ELSE IF speed > target
       THEN speed - Within((speed - target) \div 4, 1, MaxSpeed)
       ELSE speed

\* The update function of "bottlePosition".  Behind the filler the bottle is
\* taken off and the position is that of the next one.
BottlePosition(w) ==
  LET speed == Ramp(w.speed, IF inputs.start THEN inputs.speed ELSE 0)
      leaves == w.position - speed < -AfterFiller
  IN [w EXCEPT !.speed = speed,
               !.position = IF leaves THEN @ - speed + Spacing ELSE @ - speed,
               !.stored = IF leaves THEN None ELSE @]

\* The update function of "waterSpillRemaining".
WaterSpillRemaining(w) ==
  [w EXCEPT !.spill = IF @ > 1 THEN @ - 1 ELSE 0,
            !.leak = w.spill > 1]

UpdateFunction(key, w, drain) ==
  CASE key = "tankWaterLevel" -> TankWaterLevel(w, drain)
    [] key = "bottlePosition" -> BottlePosition(w)
    [] key = "waterSpillRemaining" -> WaterSpillRemaining(w)

\* PhysicalSystem::Update.
Update ==
  /\ \E drain \in Drains :
       values' = UpdateFunction(order[3],
                   UpdateFunction(order[2],
                     UpdateFunction(order[1], values, drain), drain), drain)
  /\ UNCHANGED <<order, inputs>>

\* The bottle that is behind the filler is taken off the belt in this step.
BottleLeaves == values'.position > values.position

=============================================================================
