--------------------------- MODULE FillingLine_proofs ---------------------------
(***************************************************************************)
(* The pump is turned off in time: whatever requests are lost, however the *)
(* cycles of the two PLCs and of the plant interleave, in whatever order   *)
(* the plant's values are updated, the tank never fills to its brim.       *)
(***************************************************************************)
EXTENDS FillingMargins, TLAPS

Values ==
  [tank : 0 .. TankCapacity, bottle : 0 .. BottleBrim, stored : -1 .. BottleBrim,
   position : -AfterFiller .. Spacing, speed : 0 .. MaxSpeed,
   spill : 0 .. LeakTime, leak : BOOLEAN]

Inputs == [flowIn : BOOLEAN, flowOut : BOOLEAN, start : BOOLEAN, speed : 0 .. MaxSpeed]

Controls == [flowIn : BOOLEAN, flowOut : BOOLEAN, moving : BOOLEAN,
             wasFull : BOOLEAN, speed : 0 .. MaxSpeed]

Readings == {"low", "between", "high", "empty", "partly", "full",
             "before", "inPlace", "edge", "behind", "wet", "dry"}

LineTypeOK ==
  /\ values \in Values
  /\ order \in AllOrders
  /\ inputs \in Inputs
  /\ register \in [Links -> Readings]
  /\ timedOut \in SUBSET Links
  /\ lost \in SUBSET [link : Links, age : 0 .. Timeout]
  /\ asked \in SUBSET PLCs
  /\ age \in [PLCs -> 0 .. MaxAge]
  /\ control \in Controls
  /\ operator \in [halt : BOOLEAN, speed : 0 .. MaxSpeed, step : 0 .. 4]
  /\ silent \in SUBSET Links
  /\ outages \in Nat

-----------------------------------------------------------------------------
(* The plant *)

\* A value that is kept within two bounds is within them.
LEMMA WithinBounds ==
  ASSUME NEW x \in Int, NEW low \in Int, NEW high \in Int, low <= high
  PROVE  Within(x, low, high) \in low .. high
BY DEF Within

\* The engine stays between standstill and its highest speed.
LEMMA RampBounds ==
  ASSUME NEW s \in 0 .. MaxSpeed, NEW t \in 0 .. MaxSpeed
  PROVE  Ramp(s, t) \in 0 .. MaxSpeed
<1>1. MaxSpeed \in Nat \ {0}
  BY BeltAssumption
<1>2. CASE s < t
  <2>1. (t - s) \div 4 \in Int /\ (t - s) \div 4 <= t - s /\ (t - s) \div 4 >= 0
    BY <1>1, <1>2
  <2> QED
    BY <1>1, <1>2, <2>1 DEF Ramp, Within
<1>3. CASE s > t
  <2>1. (s - t) \div 4 \in Int /\ (s - t) \div 4 <= s - t /\ (s - t) \div 4 >= 0
    BY <1>1, <1>3
  <2> QED
    BY <1>1, <1>3, <2>1 DEF Ramp, Within
<1>4. CASE s = t
  BY <1>4 DEF Ramp
<1> QED
  BY <1>1, <1>2, <1>3, <1>4

\* Pouring keeps the types, and only the pump adds to the tank.
LEMMA TankStep ==
  ASSUME NEW w \in Values, NEW drain \in Drains, inputs \in Inputs
  PROVE  /\ TankWaterLevel(w, drain) \in Values
         /\ TankWaterLevel(w, drain).tank <= w.tank + (IF inputs.flowIn THEN 1 ELSE 0)
<1> USE WaterAssumption, BeltAssumption, LeakAssumption
<1> DEFINE pours == inputs.flowOut /\ w.tank > 0
           tank == w.tank + (IF inputs.flowIn THEN 1 ELSE 0) - (IF pours THEN drain ELSE 0)
           bottle == Restored(w) + (IF pours THEN Outflow ELSE 0)
           result == TankWaterLevel(w, drain)
<1>1. drain \in {0, 1} /\ w.tank \in 0 .. TankCapacity /\ tank \in Int
  BY DEF Values
<1>2. 0 <= tank /\ tank <= w.tank + (IF inputs.flowIn THEN 1 ELSE 0)
  BY <1>1 DEF Inputs
<1>3. Restored(w) \in 0 .. BottleBrim /\ bottle \in Nat
  BY DEF Restored, Values, None
<1>4. /\ Within(tank, 0, TankCapacity) \in 0 .. TankCapacity
      /\ Within(tank, 0, TankCapacity) <= tank
  BY <1>1, <1>2 DEF Within
<1>5. Within(bottle, 0, BottleBrim) \in 0 .. BottleBrim
  BY <1>3 DEF Within
<1> DEFINE spills == \/ tank > TankCapacity
                     \/ UnderFiller(w) /\ bottle > BottleBrim
                     \/ ~UnderFiller(w) /\ pours
           b == IF UnderFiller(w) THEN Within(bottle, 0, BottleBrim) ELSE 0
           st == IF UnderFiller(w) THEN w.stored ELSE Restored(w)
           sp == IF spills THEN LeakTime ELSE w.spill
<1>6. /\ b \in 0 .. BottleBrim
      /\ st \in -1 .. BottleBrim
      /\ sp \in 0 .. LeakTime
  BY <1>3, <1>5 DEF Values
<1>7. result = [w EXCEPT !.tank = Within(tank, 0, TankCapacity),
                         !.bottle = b, !.stored = st, !.spill = sp]
  BY Zenon DEF TankWaterLevel
<1>8. result \in Values /\ result.tank = Within(tank, 0, TankCapacity)
  <2> HIDE DEF result, tank, b, st, sp
  <2> QED
    BY <1>4, <1>6, <1>7 DEF Values
<1> HIDE DEF result, tank
<1>9. result.tank <= w.tank + (IF inputs.flowIn THEN 1 ELSE 0)
  BY <1>1, <1>2, <1>4, <1>8
<1> QED
  BY <1>8, <1>9 DEF result

\* Moving the belt keeps the types and the water in the tank.  One step back by
\* the spacing is enough, so the loop of bottle-filling-system.cc:139 is an IF.
LEMMA BeltStep ==
  ASSUME NEW w \in Values, inputs \in Inputs
  PROVE  BottlePosition(w) \in Values /\ BottlePosition(w).tank = w.tank
<1> USE WaterAssumption, BeltAssumption, LeakAssumption
<1> DEFINE target == IF inputs.start THEN inputs.speed ELSE 0
           speed == Ramp(w.speed, target)
           leaves == w.position - speed < -AfterFiller
           po == IF leaves THEN w.position - speed + Spacing ELSE w.position - speed
           st == IF leaves THEN None ELSE w.stored
           result == BottlePosition(w)
<1>1. target \in 0 .. MaxSpeed /\ w.speed \in 0 .. MaxSpeed
  BY DEF Inputs, Values
<1>2. speed \in 0 .. MaxSpeed
  <2> HIDE DEF target
  <2> QED  BY <1>1, RampBounds
<1>3. po \in -AfterFiller .. Spacing /\ st \in -1 .. BottleBrim
  <2> HIDE DEF speed
  <2> QED  BY <1>2 DEF Values, None
<1>4. result = [w EXCEPT !.speed = speed, !.position = po, !.stored = st]
  BY Zenon DEF BottlePosition
<1> HIDE DEF result, speed, po, st
<1>5. result \in Values /\ result.tank = w.tank
  BY <1>2, <1>3, <1>4 DEF Values
<1> QED
  BY <1>5 DEF result

\* The spill's countdown keeps the types and the water in the tank.
LEMMA SpillStep ==
  ASSUME NEW w \in Values
  PROVE  WaterSpillRemaining(w) \in Values /\ WaterSpillRemaining(w).tank = w.tank
<1> DEFINE sp == IF w.spill > 1 THEN w.spill - 1 ELSE 0
           wet == w.spill > 1
<1>1. sp \in 0 .. LeakTime
  BY LeakAssumption DEF Values
<1>2. wet \in BOOLEAN
  OBVIOUS
<1>3. WaterSpillRemaining(w) = [w EXCEPT !.spill = sp, !.leak = wet]
  BY Zenon DEF WaterSpillRemaining
<1> HIDE DEF sp, wet
<1> QED
  BY <1>1, <1>2, <1>3 DEF Values

\* No update function adds more to the tank than the pump delivers, and only
\* one of them adds anything.
LEMMA FunctionStep ==
  ASSUME NEW key \in Keys, NEW w \in Values, NEW drain \in Drains, inputs \in Inputs
  PROVE  /\ UpdateFunction(key, w, drain) \in Values
         /\ UpdateFunction(key, w, drain).tank
              <= w.tank + (IF key = "tankWaterLevel" /\ inputs.flowIn THEN 1 ELSE 0)
<1>1. w.tank \in Int
  BY DEF Values
<1>2. CASE key = "tankWaterLevel"
  <2>1. UpdateFunction(key, w, drain) = TankWaterLevel(w, drain)
    BY <1>2 DEF UpdateFunction
  <2> QED  BY <1>2, <2>1, TankStep
<1>3. CASE key = "bottlePosition"
  <2>1. UpdateFunction(key, w, drain) = BottlePosition(w)
    BY <1>3 DEF UpdateFunction
  <2> QED  BY <1>1, <1>3, <2>1, BeltStep
<1>4. CASE key = "waterSpillRemaining"
  <2>1. UpdateFunction(key, w, drain) = WaterSpillRemaining(w)
    BY <1>4 DEF UpdateFunction
  <2> QED  BY <1>1, <1>4, <2>1, SpillStep
<1> QED
  BY <1>2, <1>3, <1>4 DEF Keys

\* A plant cycle adds at most what the pump delivers, in every order of the
\* update functions.
LEMMA UpdateStep ==
  ASSUME LineTypeOK, Update
  PROVE  /\ values' \in Values
         /\ values'.tank <= values.tank + (IF inputs.flowIn THEN 1 ELSE 0)
<1>1. PICK drain \in Drains :
        values' = UpdateFunction(order[3],
                    UpdateFunction(order[2],
                      UpdateFunction(order[1], values, drain), drain), drain)
  BY DEF Update
<1> DEFINE first == UpdateFunction(order[1], values, drain)
           second == UpdateFunction(order[2], first, drain)
           third == UpdateFunction(order[3], second, drain)
           gain(key) == IF key = "tankWaterLevel" /\ inputs.flowIn THEN 1 ELSE 0
<1>2. /\ order[1] \in Keys /\ order[2] \in Keys /\ order[3] \in Keys
      /\ order[1] # order[2] /\ order[2] # order[3] /\ order[1] # order[3]
  BY DEF LineTypeOK, AllOrders
<1>3. first \in Values /\ first.tank <= values.tank + gain(order[1])
  BY <1>2, FunctionStep DEF LineTypeOK
<1>4. second \in Values /\ second.tank <= first.tank + gain(order[2])
  <2> HIDE DEF first
  <2> QED  BY <1>2, <1>3, FunctionStep DEF LineTypeOK
<1>5. third \in Values /\ third.tank <= second.tank + gain(order[3])
  <2> HIDE DEF second
  <2> QED  BY <1>2, <1>4, FunctionStep DEF LineTypeOK
<1>6. values' = third
  BY <1>1
<1>7. /\ values.tank \in Int /\ first.tank \in Int /\ second.tank \in Int
      /\ third.tank \in Int
  BY <1>3, <1>4, <1>5 DEF LineTypeOK, Values
<1> HIDE DEF first, second, third
<1> QED
  BY <1>2, <1>3, <1>4, <1>5, <1>6, <1>7

-----------------------------------------------------------------------------
(* Types *)

TankLink == Link("A", "tankWaterLevel")

LEMMA LinkFacts ==
  /\ TankLink \in LinksOf("A")
  /\ TankLink \notin LinksOf("B")
  /\ TankLink.sensor = "tankWaterLevel"
  /\ \A p \in PLCs : LinksOf(p) \in SUBSET Links
  /\ \A l \in Links : l.sensor \in {"tankWaterLevel", "bottleFillLevel",
                                    "bottlePosition", "waterLeak"}
BY DEF TankLink, Link, LinksOf, Links, PLCs

LEMMA ReadingTypes ==
  /\ \A s \in {"tankWaterLevel", "bottleFillLevel", "bottlePosition", "waterLeak"} :
       NoReading(s) \in Readings
  /\ \A s \in {"tankWaterLevel", "bottleFillLevel", "bottlePosition", "waterLeak"},
        t \in TankReadings : Reading(s, t) \in Readings
BY DEF Readings, NoReading, Reading, TankReadings, TankZone, BottleZone, BeltZone

LEMMA InitTypes ==
  ASSUME LineInit
  PROVE  LineTypeOK
<1> USE DEF LineInit, PlantInit
<1>1. values \in Values
  BY WaterAssumption, BeltAssumption, LeakAssumption DEF Values, None
<1>2. inputs \in Inputs /\ control \in Controls
  BY BeltAssumption DEF Inputs, Controls
<1>3. register \in [Links -> Readings]
  BY LinkFacts, ReadingTypes
<1>4. order \in AllOrders
  BY OrderAssumption
<1>5. age \in [PLCs -> 0 .. MaxAge]
  BY LineAssumption
<1>6. operator \in [halt : BOOLEAN, speed : 0 .. MaxSpeed, step : 0 .. 4]
  BY BeltAssumption
<1> QED
  BY <1>1, <1>2, <1>3, <1>4, <1>5, <1>6 DEF LineTypeOK

LEMMA CycleTypes ==
  ASSUME LineTypeOK, NEW p \in PLCs, Cycle(p)
  PROVE  LineTypeOK'
<1> USE DEF LineTypeOK
<1>1. control' \in Controls
  <2>1. CASE p = "A"
    <3>1. PumpOn \in BOOLEAN /\ ValveOpen \in BOOLEAN
      BY DEF PumpOn, ValveOpen
    <3>2. control' = [control EXCEPT !.flowIn = PumpOn, !.flowOut = ValveOpen]
      BY <2>1 DEF Cycle, LogicA
    <3> QED
      BY <3>1, <3>2 DEF Controls
  <2>2. CASE p = "B"
    <3> DEFINE moves == BeltMoves
               full == B("bottleFillLevel") = "full"
               speed == IF moves THEN operator.speed ELSE control.speed
    <3>1. moves \in BOOLEAN /\ full \in BOOLEAN
      BY DEF BeltMoves, Controls
    <3>2. speed \in 0 .. MaxSpeed
      BY DEF Controls
    <3>3. \/ control' = [control EXCEPT !.moving = FALSE]
          \/ control' = [control EXCEPT !.moving = moves, !.wasFull = full, !.speed = speed]
      BY <2>2, Zenon DEF Cycle, LogicB
    <3> HIDE DEF moves, full, speed
    <3> QED
      BY <3>1, <3>2, <3>3 DEF Controls
  <2> QED
    BY <2>1, <2>2 DEF PLCs
<1>2. age' \in [PLCs -> 0 .. MaxAge]
  BY LineAssumption DEF Cycle
<1>3. asked' \in SUBSET PLCs
  BY DEF Cycle
<1> QED
  BY <1>1, <1>2, <1>3 DEF Cycle, plantVars, network

LEMMA ExchangeTypes ==
  ASSUME LineTypeOK, NEW p \in PLCs, Exchange(p)
  PROVE  LineTypeOK'
<1> USE DEF LineTypeOK
<1>1. inputs' \in Inputs
  BY DEF Exchange, Commanded, Inputs, Controls
<1>2. register' \in [Links -> Readings]
  <2>1. PICK tank \in TankReadings :
          register' = [l \in Links |-> IF l \in LinksOf(p) \ silent
                                       THEN Reading(l.sensor, tank) ELSE register[l]]
    BY DEF Exchange
  <2>2. \A l \in Links : Reading(l.sensor, tank) \in Readings
    BY LinkFacts, ReadingTypes
  <2> QED
    BY <2>1, <2>2
<1>3. lost' \in SUBSET [link : Links, age : 0 .. Timeout]
  BY LinkFacts, LineAssumption, MarginAssumption DEF Exchange
<1> QED
  BY <1>1, <1>2, <1>3 DEF Exchange, network

LEMMA TickTypes ==
  ASSUME LineTypeOK, Tick
  PROVE  LineTypeOK'
<1> USE DEF LineTypeOK
<1>1. values' \in Values
  BY UpdateStep DEF Tick
<1>2. age' \in [PLCs -> 0 .. MaxAge]
  BY LineAssumption DEF Tick
<1>3. lost' \in SUBSET [link : Links, age : 0 .. Timeout]
  BY LineAssumption DEF Tick
<1> QED
  BY <1>1, <1>2, <1>3 DEF Tick, Update, network

LEMMA OtherTypes ==
  ASSUME LineTypeOK,
         \/ \E l \in Links : HandleTimeout(l)
         \/ Operate \/ LinksFail \/ LinksRecover
         \/ UNCHANGED vars
  PROVE  LineTypeOK'
<1> USE DEF LineTypeOK, plantVars, controlVars, network
<1>1. CASE \E l \in Links : HandleTimeout(l)
  BY <1>1 DEF HandleTimeout
<1>2. CASE Operate
  <2>1. operator' \in [halt : BOOLEAN, speed : 0 .. MaxSpeed, step : 0 .. 4]
    BY <1>2, LineAssumption, BeltAssumption DEF Operate
  <2> QED
    BY <1>2, <2>1 DEF Operate
<1>3. CASE LinksFail
  BY <1>3, SilencesAssumption DEF LinksFail
<1>4. CASE LinksRecover
  BY <1>4 DEF LinksRecover
<1>5. CASE UNCHANGED vars
  BY <1>5 DEF vars
<1> QED
  BY <1>1, <1>2, <1>3, <1>4, <1>5

\* Values, inputs and memory of the controllers keep their types.
THEOREM LineTypes == Spec => []LineTypeOK
<1>1. LineInit => LineTypeOK
  BY InitTypes
<1>2. LineTypeOK /\ [Next]_vars => LineTypeOK'
  BY CycleTypes, ExchangeTypes, TickTypes, OtherTypes DEF Next, Work
<1> QED
  BY <1>1, <1>2, PTL DEF Spec

-----------------------------------------------------------------------------
(* The pump.  The reading that PLC_A trusts is never older than Timeout and a
   cycle; a decision taken on it rules for two cycles more; and meanwhile the
   tank gains one unit a Tick.                                              *)

Trusted == TankLink \notin timedOut /\ register[TankLink] # "high"

FreshEnough ==
  Trusted =>
    \/ "A" \notin asked /\ values.tank <= TankMax + age["A"]
    \/ "A" \in asked /\ values.tank <= TankMax + MaxAge + age["A"]
    \/ \E r \in lost : r.link = TankLink /\ values.tank <= TankMax + MaxAge + r.age

DecidedInTime ==
  control.flowIn => values.tank <= TankMax + Timeout + MaxAge + age["A"]

PumpedInTime ==
  inputs.flowIn =>
    \/ "A" \notin asked /\ control.flowIn
    \/ "A" \in asked /\ values.tank <= TankMax + Timeout + 2 * MaxAge + age["A"]

TankBelow == values.tank <= TankMax + Timeout + 3 * MaxAge

PumpInv == FreshEnough /\ DecidedInTime /\ PumpedInTime /\ TankBelow

LineInv == LineTypeOK /\ PumpInv

\* The numbers in the invariant are integers.
LEMMA Numbers ==
  ASSUME LineTypeOK
  PROVE  /\ values.tank \in Nat /\ age["A"] \in 0 .. MaxAge
         /\ \A r \in lost : r.age \in 0 .. Timeout
         /\ TankMax \in Nat /\ Timeout \in Nat /\ MaxAge \in Nat /\ TankCapacity \in Nat
         /\ MaxAge <= Timeout /\ TankMax + Timeout + 3 * MaxAge < TankCapacity
BY LineAssumption, MarginAssumption, WaterAssumption DEF LineTypeOK, Values, PLCs

\* A pump that is turned on looks at a trusted reading that is not high.
LEMMA PumpOnTrusted == PumpOn => Trusted
BY DEF PumpOn, Trusted, TankLink, A, NoDataA, Emergency

\* A trusted reading is not too old.
LEMMA TrustedBound ==
  ASSUME LineTypeOK, FreshEnough, Trusted
  PROVE  values.tank <= TankMax + Timeout + MaxAge
BY Numbers DEF FreshEnough

LEMMA InitPump ==
  ASSUME LineInit
  PROVE  PumpInv
<1>1. values.tank = 0 /\ ~control.flowIn /\ ~inputs.flowIn /\ TankLink \in timedOut
  BY LinkFacts DEF LineInit, PlantInit, PLCs
<1>2. TankBelow
  BY <1>1, InitTypes, Numbers DEF TankBelow
<1> QED
  BY <1>1, <1>2 DEF PumpInv, FreshEnough, Trusted, DecidedInTime, PumpedInTime

\* A cycle of PLC_A takes its decision; one of PLC_B changes nothing here.
LEMMA CyclePump ==
  ASSUME LineInv, NEW p \in PLCs, Cycle(p)
  PROVE  PumpInv'
<1> USE DEF LineInv, PumpInv
<1>1. /\ UNCHANGED <<values, inputs, register, timedOut, lost>>
      /\ p \notin asked /\ asked' = asked \cup {p}
      /\ age' = [age EXCEPT ![p] = 0]
  BY DEF Cycle, plantVars
<1>2. Trusted' <=> Trusted
  BY <1>1 DEF Trusted
<1>3. CASE p = "A"
  <2>1. "A" \notin asked /\ "A" \in asked' /\ age'["A"] = 0
    BY <1>1, <1>3 DEF LineTypeOK, PLCs
  <2>2. control'.flowIn => PumpOn
    BY <1>3 DEF Cycle, LogicA, LineTypeOK, Controls
  <2>3. FreshEnough'
    BY <1>1, <1>2, <2>1, Numbers DEF FreshEnough
  <2>4. DecidedInTime'
    BY <1>1, <2>1, <2>2, Numbers, PumpOnTrusted, TrustedBound DEF DecidedInTime
  <2>5. PumpedInTime'
    BY <1>1, <2>1, Numbers DEF PumpedInTime, DecidedInTime
  <2> QED
    BY <1>1, <2>3, <2>4, <2>5 DEF TankBelow
<1>4. CASE p = "B"
  <2>1. ("A" \in asked' <=> "A" \in asked) /\ age'["A"] = age["A"]
    BY <1>1, <1>4 DEF LineTypeOK, PLCs
  <2>2. control'.flowIn = control.flowIn
    BY <1>4 DEF Cycle, LogicB, LineTypeOK, Controls
  <2> QED
    BY <1>1, <1>2, <2>1, <2>2
       DEF FreshEnough, DecidedInTime, PumpedInTime, TankBelow
<1> QED
  BY <1>3, <1>4 DEF PLCs

\* An answer is as new as can be; without one the lost request keeps the age.
LEMMA ExchangePump ==
  ASSUME LineInv, NEW p \in PLCs, Exchange(p)
  PROVE  PumpInv'
<1> USE DEF LineInv, PumpInv
<1>1. /\ UNCHANGED <<values, age, control>>
      /\ p \in asked /\ asked' = asked \ {p}
      /\ timedOut' = timedOut \ (LinksOf(p) \ silent)
      /\ lost' = lost \cup {[link |-> l, age |-> age[p]] : l \in LinksOf(p) \cap silent}
      /\ inputs' = Commanded(p)
  BY DEF Exchange
<1>2. PICK tank \in TankReadings :
        register' = [l \in Links |-> IF l \in LinksOf(p) \ silent
                                     THEN Reading(l.sensor, tank) ELSE register[l]]
  BY DEF Exchange
<1>3. TankLink \in Links
  BY LinkFacts DEF PLCs
<1>4. DecidedInTime' /\ TankBelow'
  BY <1>1 DEF DecidedInTime, TankBelow
<1>5. CASE p = "A"
  <2>1. "A" \in asked /\ "A" \notin asked'
    BY <1>1, <1>5
  <2>2. PumpedInTime'
    BY <1>1, <1>5, <2>1 DEF PumpedInTime, Commanded, LineTypeOK, Inputs
  <2>3. CASE TankLink \in silent
    <3>1. Trusted' => Trusted
      BY <1>1, <1>2, <1>3, <2>3 DEF Trusted
    <3>2. [link |-> TankLink, age |-> age["A"]] \in lost'
      BY <1>1, <1>5, <2>3, LinkFacts
    <3> DEFINE r0 == [link |-> TankLink, age |-> age["A"]]
    <3>3. r0.link = TankLink /\ r0.age = age["A"]
      OBVIOUS
    <3>4. lost \in SUBSET lost'
      BY <1>1
    <3> HIDE DEF r0
    <3>5. FreshEnough'
      <4> SUFFICES ASSUME Trusted'
                   PROVE  \E r \in lost' :
                            r.link = TankLink /\ values'.tank <= TankMax + MaxAge + r.age
        BY DEF FreshEnough
      <4>1. CASE values.tank <= TankMax + MaxAge + age["A"]
        BY <1>1, <3>2, <3>3, <4>1 DEF r0
      <4>2. CASE \E r \in lost :
                   r.link = TankLink /\ values.tank <= TankMax + MaxAge + r.age
        BY <1>1, <3>4, <4>2
      <4> QED
        BY <2>1, <3>1, <4>1, <4>2 DEF FreshEnough
    <3> QED
      BY <1>4, <2>2, <3>5
  <2>4. CASE TankLink \notin silent
    <3>1. register'[TankLink] = tank
      BY <1>2, <1>3, <1>5, <2>4, LinkFacts DEF Reading
    <3>2. tank = TankZone(values.tank)
      BY Numbers DEF TankReadings, TankBelow
    <3>3. Trusted' => values.tank <= TankMax
      BY <3>1, <3>2, Numbers, LineAssumption DEF Trusted, TankZone
    <3>4. FreshEnough'
      BY <1>1, <2>1, <3>3, Numbers DEF FreshEnough
    <3> QED
      BY <1>4, <2>2, <3>4
  <2> QED
    BY <2>3, <2>4
<1>6. CASE p = "B"
  <2>1. "A" \in asked' <=> "A" \in asked
    BY <1>1, <1>6
  <2>2. Trusted' <=> Trusted
    BY <1>1, <1>2, <1>3, <1>6, LinkFacts DEF Trusted
  <2>3. inputs'.flowIn = inputs.flowIn
    BY <1>1, <1>6 DEF Commanded, LineTypeOK, Inputs
  <2>4. FreshEnough'
    BY <1>1, <2>1, <2>2 DEF FreshEnough
  <2>5. PumpedInTime'
    BY <1>1, <2>1, <2>3 DEF PumpedInTime
  <2> QED
    BY <1>4, <2>4, <2>5
<1> QED
  BY <1>5, <1>6 DEF PLCs

\* A timeout ends the trust before its request is forgotten.
LEMMA TimeoutPump ==
  ASSUME LineInv, NEW l \in Links, HandleTimeout(l)
  PROVE  PumpInv'
<1> USE DEF LineInv, PumpInv
<1>1. /\ UNCHANGED <<values, inputs, register, asked, age, control>>
      /\ timedOut' = timedOut \cup {l}
      /\ lost' = lost \ {[link |-> l, age |-> Timeout]}
  BY DEF HandleTimeout, plantVars
<1>2. FreshEnough'
  <2>1. CASE l = TankLink
    BY <1>1, <2>1 DEF FreshEnough, Trusted
  <2>2. CASE l # TankLink
    <3>1. Trusted' => Trusted
      BY <1>1, <2>2 DEF Trusted
    <3>2. \A r \in lost : r.link = TankLink => r \in lost'
      BY <1>1, <2>2
    <3> QED
      BY <1>1, <3>1, <3>2 DEF FreshEnough
  <2> QED
    BY <2>1, <2>2
<1> QED
  BY <1>1, <1>2 DEF DecidedInTime, PumpedInTime, TankBelow

\* A Tick makes everything older by one and the tank fuller by one at most.
LEMMA TickPump ==
  ASSUME LineInv, Tick
  PROVE  PumpInv'
<1> USE DEF LineInv, PumpInv
<1>1. /\ UNCHANGED <<inputs, register, timedOut, asked, control>>
      /\ lost' = {[r EXCEPT !.age = @ + 1] : r \in lost}
  BY DEF Tick, Update
<1>2. age'["A"] = age["A"] + 1 /\ age["A"] < MaxAge
  BY DEF Tick, LineTypeOK, PLCs
<1>3. /\ values'.tank \in Nat
      /\ values'.tank <= values.tank + (IF inputs.flowIn THEN 1 ELSE 0)
      /\ values'.tank <= values.tank + 1
  <2>1. values' \in Values
    BY UpdateStep DEF Tick
  <2>2. values'.tank <= values.tank + (IF inputs.flowIn THEN 1 ELSE 0)
    BY UpdateStep DEF Tick
  <2> QED
    BY <2>1, <2>2, Numbers DEF Values
<1>4. Trusted' <=> Trusted
  BY <1>1 DEF Trusted
<1>5. FreshEnough'
  <2>1. CASE ~Trusted
    BY <1>4, <2>1 DEF FreshEnough
  <2>2. CASE \E r \in lost :
               r.link = TankLink /\ values.tank <= TankMax + MaxAge + r.age
    <3>1. PICK r \in lost :
            r.link = TankLink /\ values.tank <= TankMax + MaxAge + r.age
      BY <2>2
    <3> DEFINE older == [r EXCEPT !.age = @ + 1]
    <3>2. older \in lost' /\ older.link = TankLink /\ older.age = r.age + 1
      BY <1>1, <3>1 DEF LineTypeOK
    <3> HIDE DEF older
    <3>3. values'.tank <= TankMax + MaxAge + older.age
      BY <1>3, <3>1, <3>2, Numbers
    <3> QED
      BY <3>2, <3>3 DEF FreshEnough
  <2>3. CASE \/ "A" \notin asked /\ values.tank <= TankMax + age["A"]
             \/ "A" \in asked /\ values.tank <= TankMax + MaxAge + age["A"]
    BY <1>1, <1>2, <1>3, <2>3, Numbers DEF FreshEnough
  <2> QED
    BY <2>1, <2>2, <2>3 DEF FreshEnough
<1>6. DecidedInTime'
  BY <1>1, <1>2, <1>3, Numbers DEF DecidedInTime
<1>7. PumpedInTime'
  BY <1>1, <1>2, <1>3, Numbers DEF PumpedInTime
<1>8. TankBelow'
  <2>1. CASE inputs.flowIn
    BY <1>2, <1>3, <2>1, Numbers DEF TankBelow, PumpedInTime, DecidedInTime
  <2>2. CASE ~inputs.flowIn
    BY <1>3, <2>2, Numbers DEF TankBelow
  <2> QED
    BY <2>1, <2>2
<1> QED
  BY <1>5, <1>6, <1>7, <1>8

LEMMA OtherPump ==
  ASSUME LineInv, Operate \/ LinksFail \/ LinksRecover \/ UNCHANGED vars
  PROVE  PumpInv'
<1>1. UNCHANGED <<values, inputs, register, timedOut, lost, asked, age, control>>
  BY DEF Operate, LinksFail, LinksRecover, vars, plantVars, controlVars
<1> QED
  BY <1>1 DEF LineInv, PumpInv, FreshEnough, Trusted, DecidedInTime, PumpedInTime, TankBelow

\* The tank never fills to its brim, for every number and set of the constants
\* that leaves the margin: with lost requests, late decisions and any order of
\* updates (plc-a.cc:70-97, plc.cc:500, bottle-filling-system.cc:42).
THEOREM PumpTurnsOffInTime == Spec => []TankNeverOverflows
<1>1. LineInit => LineInv
  BY InitTypes, InitPump DEF LineInv
<1>2. LineInv /\ [Next]_vars => LineInv'
  <2> SUFFICES ASSUME LineInv, [Next]_vars
               PROVE  PumpInv' /\ LineTypeOK'
    BY DEF LineInv
  <2>1. PumpInv'
    BY CyclePump, ExchangePump, TimeoutPump, TickPump, OtherPump DEF Next, Work
  <2>2. LineTypeOK'
    BY CycleTypes, ExchangeTypes, TickTypes, OtherTypes DEF Next, Work, LineInv
  <2> QED
    BY <2>1, <2>2
<1>3. LineInv => TankNeverOverflows
  BY Numbers DEF LineInv, PumpInv, TankBelow, TankNeverOverflows
<1> QED
  BY <1>1, <1>2, <1>3, PTL DEF Spec

-----------------------------------------------------------------------------
(* Bottles: the constants *)

Numeric ==
  /\ {Variation, MaxSpeed, AfterFiller, Spacing, Outflow, BottleBrim, MaxAge} \subseteq Nat \ {0}
  /\ {BottleCapacity, Latency, Timeout, DelayA, DelayB, HorizonA, HorizonB} \subseteq Nat
  /\ HorizonA >= 2 /\ HorizonB >= 2
  /\ BottleCapacity < BottleBrim
  /\ Variation + 2 * MaxSpeed <= AfterFiller
  /\ AfterFiller + Variation + MaxSpeed < Spacing

LEMMA ConstantsAreNumeric == Numeric
<1>1. DelayA \in Nat /\ DelayB \in Nat
  BY LineAssumption DEF DelayA, DelayB
<1> QED
  BY <1>1, LineAssumption, WaterAssumption, BeltAssumption DEF Numeric, HorizonA, HorizonB

LEMMA WayFacts ==
  /\ Way(0) = 0
  /\ \A n \in Nat : Way(n) \in Nat /\ Way(n + 1) = Way(n) + MaxSpeed
  /\ \A m, n \in Nat : m <= n => Way(m) <= Way(n)
<1> USE ConstantsAreNumeric DEF Numeric
<1>1. \A n \in Nat : Way(n) \in Nat /\ Way(n + 1) = Way(n) + MaxSpeed
  BY DEF Way
<1>2. ASSUME NEW m \in Nat, NEW n \in Nat, m <= n
      PROVE  Way(m) <= Way(n)
  <2>1. n - m \in Nat /\ MaxSpeed * (n - m) \in Nat
    BY <1>2
  <2>2. MaxSpeed * n = MaxSpeed * m + MaxSpeed * (n - m)
    BY <1>2
  <2>3. MaxSpeed * m \in Nat
    OBVIOUS
  <2> QED
    BY <2>1, <2>2, <2>3 DEF Way
<1> QED
  BY <1>1, <1>2 DEF Way

LEMMA PouredFacts ==
  /\ Poured(0) = 0
  /\ \A n \in Nat : Poured(n) \in Nat /\ Poured(n + 1) = Poured(n) + Outflow
  /\ \A m, n \in Nat : m <= n => Poured(m) <= Poured(n)
<1> USE ConstantsAreNumeric DEF Numeric
<1>1. \A n \in Nat : Poured(n) \in Nat /\ Poured(n + 1) = Poured(n) + Outflow
  BY DEF Poured
<1>2. ASSUME NEW m \in Nat, NEW n \in Nat, m <= n
      PROVE  Poured(m) <= Poured(n)
  <2>1. n - m \in Nat /\ Outflow * (n - m) \in Nat
    BY <1>2
  <2>2. Outflow * n = Outflow * m + Outflow * (n - m)
    BY <1>2
  <2>3. Outflow * m \in Nat
    OBVIOUS
  <2> QED
    BY <2>1, <2>2, <2>3 DEF Poured
<1> QED
  BY <1>1, <1>2 DEF Poured

\* A motor that slows down by one at least rolls no further than before.
LEMMA RollFacts ==
  /\ \A s \in 0 .. MaxSpeed : Roll(s) \in Nat /\ Roll(s) <= Roll(MaxSpeed)
  /\ \A s, t \in Nat : t <= s - 1 => 2 * t + Roll(t) <= Roll(s)
  /\ Roll(0) = 0
<1> USE ConstantsAreNumeric DEF Numeric
<1>1. \A s \in Nat : Roll(s) \in Nat
  <2>1. ASSUME NEW s \in Nat, s # 0
        PROVE  s * (s - 1) \in Nat
    <3>1. s - 1 \in Nat
      BY <2>1
    <3> QED
      BY <3>1
  <2> QED
    BY <2>1 DEF Roll
<1>2. ASSUME NEW s \in Nat, NEW t \in Nat, t <= s - 1
      PROVE  2 * t + Roll(t) <= Roll(s)
  <2> DEFINE d == s - 1 - t
  <2>1. d \in Nat /\ s = t + 1 + d
    BY <1>2
  <2> HIDE DEF d
  <2>2. Roll(s) = t * t + t + d * d + d + 2 * (t * d)
    BY <2>1 DEF Roll
  <2>3. d * d \in Nat /\ t * d \in Nat /\ t * t \in Nat
    BY <2>1
  <2>4. 2 * t + Roll(t) = t * t + t
    BY DEF Roll
  <2> QED
    BY <2>1, <2>2, <2>3, <2>4
<1>3. ASSUME NEW s \in 0 .. MaxSpeed
      PROVE  Roll(s) <= Roll(MaxSpeed)
  <2>1. CASE s = MaxSpeed
    BY <1>1, <2>1
  <2>2. CASE s <= MaxSpeed - 1
    BY <1>1, <1>2, <2>2
  <2> QED
    BY <2>1, <2>2
<1> QED
  BY <1>1, <1>2, <1>3 DEF Roll

-----------------------------------------------------------------------------
(* What a plant cycle does to a bottle *)

\* Water is stored only for a bottle that is behind the filler; the sensor
\* reads none before the filler and none well behind it.
Stored(w) ==
  /\ w.position > Variation => Restored(w) = 0
  /\ w.position >= -Variation => w.stored <= 0
  /\ w.position < -Variation - MaxSpeed => w.bottle = 0

\* No water is poured but into a bottle under the filler with room for it.
PoursWell(w) ==
  inputs.flowOut => UnderFiller(w) /\ Restored(w) + Outflow <= BottleBrim

TankEffect(w, r) ==
  /\ r.position = w.position /\ r.speed = w.speed
  /\ ~UnderFiller(w) => r.bottle = 0 /\ Restored(r) = Restored(w)
  /\ UnderFiller(w) /\ w.stored <= 0 =>
       /\ r.stored = w.stored
       /\ Restored(w) <= Restored(r) /\ Restored(r) <= Restored(w) + Outflow
  /\ w.spill = 0 /\ w.tank < TankCapacity /\ PoursWell(w) => r.spill = 0

BeltEffect(w, r) ==
  /\ r.bottle = w.bottle /\ r.tank = w.tank
  /\ ~inputs.start => (w.speed = 0 /\ r.speed = 0) \/ r.speed <= w.speed - 1
  /\ \/ /\ r.position = w.position - r.speed
        /\ r.position >= -AfterFiller
        /\ r.stored = w.stored
     \/ /\ w.position - r.speed < -AfterFiller
        /\ r.position = w.position - r.speed + Spacing
        /\ r.stored = None
  /\ w.spill = 0 => r.spill = 0

SpillEffect(w, r) ==
  /\ r.bottle = w.bottle /\ r.stored = w.stored /\ r.tank = w.tank
  /\ r.position = w.position /\ r.speed = w.speed
  /\ w.spill = 0 => r.spill = 0

\* The bottle moves on, or the next one takes its place.
Onward(w, r) ==
  /\ r.position = w.position - r.speed
  /\ r.position >= -AfterFiller
  /\ Restored(w) <= Restored(r) /\ Restored(r) <= Restored(w) + Outflow

Replaced(w, r) ==
  /\ w.position - r.speed < -AfterFiller
  /\ r.position = w.position - r.speed + Spacing
  /\ Restored(r) = 0

PlantEffect(w, r) ==
  /\ Stored(r)
  /\ ~inputs.start => (w.speed = 0 /\ r.speed = 0) \/ r.speed <= w.speed - 1
  /\ Onward(w, r) \/ Replaced(w, r)
  /\ /\ w.spill = 0 /\ w.tank < TankCapacity
     /\ inputs.flowOut => UnderFiller(w) /\ UnderFiller(r)
                          /\ Restored(w) + Outflow <= BottleBrim
     => r.spill = 0

LEMMA ValueTypes ==
  ASSUME NEW w \in Values
  PROVE  /\ w.tank \in 0 .. TankCapacity /\ w.bottle \in 0 .. BottleBrim
         /\ w.stored \in -1 .. BottleBrim /\ w.position \in Int
         /\ w.position <= Spacing /\ w.position >= -AfterFiller
         /\ w.speed \in 0 .. MaxSpeed /\ w.spill \in Nat
         /\ Restored(w) \in 0 .. BottleBrim
<1>1. /\ w.tank \in 0 .. TankCapacity /\ w.bottle \in 0 .. BottleBrim
      /\ w.stored \in -1 .. BottleBrim /\ w.position \in -AfterFiller .. Spacing
      /\ w.speed \in 0 .. MaxSpeed /\ w.spill \in 0 .. LeakTime
  BY DEF Values
<1> QED
  BY <1>1, ConstantsAreNumeric, LeakAssumption DEF Numeric, Restored, None

LEMMA TankHasEffect ==
  ASSUME NEW w \in Values, NEW drain \in Drains, inputs \in Inputs
  PROVE  TankEffect(w, TankWaterLevel(w, drain))
<1> USE ConstantsAreNumeric, WaterAssumption DEF Numeric
<1> DEFINE pours == inputs.flowOut /\ w.tank > 0
           tank == w.tank + (IF inputs.flowIn THEN 1 ELSE 0) - (IF pours THEN drain ELSE 0)
           bottle == Restored(w) + (IF pours THEN Outflow ELSE 0)
           spills == \/ tank > TankCapacity
                     \/ UnderFiller(w) /\ bottle > BottleBrim
                     \/ ~UnderFiller(w) /\ pours
           b == IF UnderFiller(w) THEN Within(bottle, 0, BottleBrim) ELSE 0
           st == IF UnderFiller(w) THEN w.stored ELSE Restored(w)
           sp == IF spills THEN LeakTime ELSE w.spill
           result == TankWaterLevel(w, drain)
<1>1. result = [w EXCEPT !.tank = Within(tank, 0, TankCapacity),
                         !.bottle = b, !.stored = st, !.spill = sp]
  BY Zenon DEF TankWaterLevel
<1>2. /\ result.position = w.position /\ result.speed = w.speed
      /\ result.bottle = b /\ result.stored = st /\ result.spill = sp
  <2> HIDE DEF result, tank, b, st, sp
  <2> QED
    BY <1>1 DEF Values
<1>3. /\ Restored(w) \in 0 .. BottleBrim /\ w.stored \in -1 .. BottleBrim
      /\ w.bottle \in 0 .. BottleBrim /\ w.tank \in 0 .. TankCapacity
  BY ValueTypes
<1>4. drain \in {0, 1}
  OBVIOUS
<1>5. bottle \in Nat /\ Restored(w) <= bottle /\ bottle <= Restored(w) + Outflow
  BY <1>3
<1> HIDE DEF result
<1>6. ~UnderFiller(w) => result.bottle = 0 /\ Restored(result) = Restored(w)
  <2>1. ASSUME ~UnderFiller(w)
        PROVE  b = 0 /\ st = Restored(w)
    BY <2>1
  <2> HIDE DEF b, st
  <2> QED
    BY <1>2, <1>3, <2>1 DEF Restored, None
<1>7. ASSUME UnderFiller(w), w.stored <= 0
      PROVE  /\ result.stored = w.stored
             /\ Restored(w) <= Restored(result) /\ Restored(result) <= Restored(w) + Outflow
  <2>1. result.stored = w.stored /\ result.bottle = Within(bottle, 0, BottleBrim)
    BY <1>2, <1>7
  <2> HIDE DEF bottle
  <2>2. /\ Restored(w) <= result.bottle
        /\ result.bottle <= Restored(w) + Outflow
    BY <1>3, <1>5, <2>1 DEF Within
  <2>3. result.bottle \in Nat
    BY <1>3, <1>5, <2>1 DEF Within
  <2>4. Restored(result) = result.bottle
    BY <1>3, <1>7, <2>1, <2>2, <2>3 DEF Restored, None
  <2> QED
    BY <2>1, <2>2, <2>4
<1>8. ASSUME w.spill = 0, w.tank < TankCapacity, PoursWell(w)
      PROVE  result.spill = 0
  <2>1. tank <= TankCapacity
    BY <1>3, <1>4, <1>8
  <2>2. UnderFiller(w) => bottle <= BottleBrim
    BY <1>3, <1>8 DEF PoursWell
  <2>3. pours => UnderFiller(w)
    BY <1>8 DEF PoursWell
  <2>4. tank \in Int /\ bottle \in Int /\ TankCapacity \in Int /\ BottleBrim \in Int
    BY <1>3, <1>4, <1>5
  <2>5. ~spills
    <3> HIDE DEF tank, bottle, pours
    <3> QED  BY <2>1, <2>2, <2>3, <2>4
  <2> HIDE DEF spills
  <2> QED
    BY <1>2, <1>8, <2>5
<1> QED
  BY <1>2, <1>6, <1>7, <1>8 DEF TankEffect, result

\* A motor that is turned off slows down by one at least.
LEMMA RampDown ==
  ASSUME NEW s \in 0 .. MaxSpeed
  PROVE  (s = 0 /\ Ramp(s, 0) = 0) \/ Ramp(s, 0) <= s - 1
<1> USE ConstantsAreNumeric DEF Numeric
<1>1. CASE s = 0
  BY <1>1 DEF Ramp
<1>2. CASE s > 0
  <2>1. (s - 0) \div 4 \in Int /\ (s - 0) \div 4 <= s /\ (s - 0) \div 4 >= 0
    BY <1>2
  <2> QED
    BY <1>2, <2>1 DEF Ramp, Within
<1> QED
  BY <1>1, <1>2

LEMMA BeltHasEffect ==
  ASSUME NEW w \in Values, inputs \in Inputs
  PROVE  BeltEffect(w, BottlePosition(w))
<1> USE ConstantsAreNumeric DEF Numeric
<1> DEFINE target == IF inputs.start THEN inputs.speed ELSE 0
           speed == Ramp(w.speed, target)
           leaves == w.position - speed < -AfterFiller
           po == IF leaves THEN w.position - speed + Spacing ELSE w.position - speed
           st == IF leaves THEN None ELSE w.stored
           result == BottlePosition(w)
<1>1. target \in 0 .. MaxSpeed /\ w.speed \in 0 .. MaxSpeed
  BY DEF Inputs, Values
<1>2. speed \in 0 .. MaxSpeed
  <2> HIDE DEF target
  <2> QED  BY <1>1, RampBounds
<1>3. ~inputs.start => (w.speed = 0 /\ speed = 0) \/ speed <= w.speed - 1
  BY <1>1, RampDown
<1>4. result = [w EXCEPT !.speed = speed, !.position = po, !.stored = st]
  BY Zenon DEF BottlePosition
<1> HIDE DEF result, speed
<1>5. /\ result.bottle = w.bottle /\ result.tank = w.tank /\ result.spill = w.spill
      /\ result.speed = speed /\ result.position = po /\ result.stored = st
  <2> HIDE DEF po, st
  <2> QED  BY <1>4 DEF Values
<1>6. w.position \in Int
  BY ValueTypes
<1>7. \/ /\ po = w.position - speed
         /\ po >= -AfterFiller
         /\ st = w.stored
      \/ /\ w.position - speed < -AfterFiller
         /\ po = w.position - speed + Spacing
         /\ st = None
  BY <1>2, <1>6
<1> HIDE DEF po, st
<1> QED
  BY <1>3, <1>5, <1>7 DEF BeltEffect, result

LEMMA SpillHasEffect ==
  ASSUME NEW w \in Values
  PROVE  SpillEffect(w, WaterSpillRemaining(w))
<1> DEFINE sp == IF w.spill > 1 THEN w.spill - 1 ELSE 0
           wet == w.spill > 1
           result == WaterSpillRemaining(w)
<1>1. w.spill = 0 => sp = 0
  OBVIOUS
<1>2. result = [w EXCEPT !.spill = sp, !.leak = wet]
  BY Zenon DEF WaterSpillRemaining
<1> HIDE DEF result, sp, wet
<1> QED
  BY <1>1, <1>2 DEF SpillEffect, Values, result

\* Pour, then move.
LEMMA TankThenBelt ==
  ASSUME NEW w \in Values, NEW m \in Values, NEW r \in Values, Stored(w),
         TankEffect(w, m), BeltEffect(m, r)
  PROVE  PlantEffect(w, r)
<1> USE ConstantsAreNumeric, ValueTypes DEF Numeric
<1>1. /\ m.position = w.position /\ m.speed = w.speed
      /\ Restored(w) <= Restored(m) /\ Restored(m) <= Restored(w) + Outflow
  <2>1. UnderFiller(w) => w.stored <= 0
    BY DEF Stored, UnderFiller
  <2> QED
    BY <2>1 DEF TankEffect
<1>2. r.bottle = m.bottle /\ r.speed \in 0 .. MaxSpeed
  BY DEF BeltEffect
<1>3. ~UnderFiller(w) => m.bottle = 0 /\ Restored(m) = Restored(w)
  BY DEF TankEffect
<1>4. w.position > Variation => Restored(m) = 0
  BY <1>3 DEF Stored, UnderFiller
<1>5. UnderFiller(w) => m.stored = w.stored
  BY DEF TankEffect, Stored, UnderFiller
<1>6. w.position >= -Variation => m.stored <= 0
  <2>1. CASE UnderFiller(w)
    BY <1>5, <2>1 DEF Stored
  <2>2. CASE ~UnderFiller(w) /\ w.position >= -Variation
    <3>1. Restored(m) = 0 /\ m.bottle = 0
      BY <1>3, <1>4, <2>2 DEF UnderFiller
    <3> QED
      BY <3>1 DEF Restored, None
  <2> QED
    BY <2>1, <2>2
<1>7. CASE /\ r.position = m.position - r.speed
           /\ r.position >= -AfterFiller
           /\ r.stored = m.stored
  <2>1. Restored(r) = Restored(m)
    BY <1>2, <1>7 DEF Restored
  <2>2. Onward(w, r)
    BY <1>1, <1>7, <2>1 DEF Onward
  <2>3. r.position > Variation => Restored(r) = 0
    BY <1>1, <1>2, <1>4, <1>7, <2>1
  <2>4. r.position >= -Variation => r.stored <= 0
    BY <1>1, <1>2, <1>6, <1>7
  <2>5. r.position < -Variation - MaxSpeed => r.bottle = 0
    BY <1>1, <1>2, <1>3, <1>7 DEF UnderFiller
  <2> QED
    <3>1. Stored(r)
      BY <2>3, <2>4, <2>5 DEF Stored
    <3> QED
      BY <1>1, <2>2, <3>1 DEF PlantEffect, BeltEffect, TankEffect, PoursWell
<1>8. CASE /\ m.position - r.speed < -AfterFiller
           /\ r.position = m.position - r.speed + Spacing
           /\ r.stored = None
  <2>1. r.bottle = 0
    BY <1>1, <1>2, <1>3, <1>8 DEF UnderFiller
  <2>2. Restored(r) = 0 /\ r.position > Variation
    BY <1>1, <1>2, <1>8, <2>1 DEF Restored
  <2>3. Stored(r)
    BY <1>8, <2>1, <2>2 DEF Stored, None
  <2>4. Replaced(w, r)
    BY <1>1, <1>8, <2>2 DEF Replaced
  <2> QED
    BY <1>1, <2>3, <2>4 DEF PlantEffect, BeltEffect, TankEffect, PoursWell
<1> QED
  BY <1>7, <1>8 DEF BeltEffect

\* Move, then pour.
LEMMA BeltThenTank ==
  ASSUME NEW w \in Values, NEW m \in Values, NEW r \in Values, Stored(w),
         BeltEffect(w, m), TankEffect(m, r)
  PROVE  PlantEffect(w, r)
<1> USE ConstantsAreNumeric, ValueTypes DEF Numeric
<1>1. /\ r.position = m.position /\ r.speed = m.speed
      /\ m.bottle = w.bottle /\ m.tank = w.tank /\ m.speed \in 0 .. MaxSpeed
      /\ w.spill = 0 => m.spill = 0
  BY DEF TankEffect, BeltEffect
<1>2. ~UnderFiller(m) => r.bottle = 0 /\ Restored(r) = Restored(m)
  BY DEF TankEffect
<1>3. CASE /\ m.position = w.position - m.speed
           /\ m.position >= -AfterFiller
           /\ m.stored = w.stored
  <2>1. Restored(m) = Restored(w)
    BY <1>1, <1>3 DEF Restored
  <2>2. m.position >= -Variation => m.stored <= 0
    BY <1>1, <1>3 DEF Stored
  <2>3. m.position > Variation => Restored(m) = 0
    BY <1>1, <1>3, <2>1 DEF Stored
  <2>4. UnderFiller(m) =>
          /\ r.stored = m.stored
          /\ Restored(m) <= Restored(r) /\ Restored(r) <= Restored(m) + Outflow
    BY <2>2 DEF TankEffect, UnderFiller
  <2>5. Restored(w) <= Restored(r) /\ Restored(r) <= Restored(w) + Outflow
    BY <1>2, <2>1, <2>4
  <2>6. Onward(w, r)
    BY <1>1, <1>3, <2>5 DEF Onward
  <2>7. r.position > Variation => Restored(r) = 0
    BY <1>1, <1>2, <2>3 DEF UnderFiller
  <2>8. r.position >= -Variation => r.stored <= 0
    <3>1. CASE UnderFiller(m)
      BY <1>1, <2>2, <2>4, <3>1
    <3>2. CASE ~UnderFiller(m) /\ r.position >= -Variation
      <4>1. r.bottle = 0 /\ Restored(r) = 0
        BY <1>1, <1>2, <2>7, <3>2 DEF UnderFiller
      <4> QED
        BY <4>1 DEF Restored, None
    <3> QED
      BY <3>1, <3>2
  <2>9. r.position < -Variation - MaxSpeed => r.bottle = 0
    BY <1>1, <1>2 DEF UnderFiller
  <2> QED
    <3>1. Stored(r)
      BY <2>7, <2>8, <2>9 DEF Stored
    <3>2. UnderFiller(r) <=> UnderFiller(m)
      BY <1>1 DEF UnderFiller
    <3> QED
      BY <1>1, <2>1, <2>6, <3>1, <3>2 DEF PlantEffect, BeltEffect, TankEffect, PoursWell
<1>4. CASE /\ w.position - m.speed < -AfterFiller
           /\ m.position = w.position - m.speed + Spacing
           /\ m.stored = None
  <2>1. m.bottle = 0
    BY <1>1, <1>4 DEF Stored
  <2>2. Restored(m) = 0 /\ m.position > Variation
    BY <1>1, <1>4, <2>1 DEF Restored
  <2>3. ~UnderFiller(m) /\ ~UnderFiller(r)
    BY <1>1, <2>2 DEF UnderFiller
  <2>4. r.bottle = 0 /\ Restored(r) = 0
    BY <1>2, <2>2, <2>3
  <2>5. Stored(r)
    <3>1. r.stored <= 0
      BY <2>4 DEF Restored, None
    <3> QED
      BY <2>4, <3>1 DEF Stored
  <2>6. Replaced(w, r)
    BY <1>1, <1>4, <2>4 DEF Replaced
  <2>7. w.spill = 0 /\ w.tank < TankCapacity /\ ~inputs.flowOut => r.spill = 0
    BY <1>1 DEF TankEffect, PoursWell
  <2> QED
    BY <1>1, <2>3, <2>5, <2>6, <2>7 DEF PlantEffect, BeltEffect
<1> QED
  BY <1>3, <1>4 DEF BeltEffect

\* The countdown of the spill commutes with the other two.
LEMMA SpillCommutes ==
  ASSUME NEW a \in Values, NEW b \in Values, NEW c \in Values
  PROVE  /\ SpillEffect(a, b) /\ TankEffect(b, c) => TankEffect(a, c)
         /\ SpillEffect(a, b) /\ BeltEffect(b, c) => BeltEffect(a, c)
         /\ TankEffect(a, b) /\ SpillEffect(b, c) => TankEffect(a, c)
         /\ BeltEffect(a, b) /\ SpillEffect(b, c) => BeltEffect(a, c)
<1>1. SpillEffect(a, b) =>
        (UnderFiller(a) <=> UnderFiller(b)) /\ Restored(a) = Restored(b)
  BY DEF SpillEffect, UnderFiller, Restored
<1>2. SpillEffect(b, c) => Restored(b) = Restored(c)
  BY DEF SpillEffect, Restored
<1>3. SpillEffect(a, b) /\ TankEffect(b, c) => TankEffect(a, c)
  BY <1>1 DEF SpillEffect, TankEffect, PoursWell
<1>4. SpillEffect(a, b) /\ BeltEffect(b, c) => BeltEffect(a, c)
  BY DEF SpillEffect, BeltEffect
<1>5. TankEffect(a, b) /\ SpillEffect(b, c) => TankEffect(a, c)
  BY <1>2 DEF SpillEffect, TankEffect
<1>6. BeltEffect(a, b) /\ SpillEffect(b, c) => BeltEffect(a, c)
  BY DEF SpillEffect, BeltEffect
<1> QED
  BY <1>3, <1>4, <1>5, <1>6

\* A plant cycle, in every order of the update functions.
LEMMA PlantStep ==
  ASSUME LineTypeOK, Stored(values), Update
  PROVE  values' \in Values /\ PlantEffect(values, values')
<1> USE DEF LineTypeOK
<1>1. PICK drain \in Drains :
        values' = UpdateFunction(order[3],
                    UpdateFunction(order[2],
                      UpdateFunction(order[1], values, drain), drain), drain)
  BY DEF Update
<1>2. /\ order[1] \in Keys /\ order[2] \in Keys /\ order[3] \in Keys
      /\ order[1] # order[2] /\ order[2] # order[3] /\ order[1] # order[3]
  BY DEF AllOrders
<1> DEFINE Effect(key, w, r) ==
             /\ key = "tankWaterLevel" => TankEffect(w, r)
             /\ key = "bottlePosition" => BeltEffect(w, r)
             /\ key = "waterSpillRemaining" => SpillEffect(w, r)
           x1 == UpdateFunction(order[1], values, drain)
           x2 == UpdateFunction(order[2], x1, drain)
           x3 == UpdateFunction(order[3], x2, drain)
<1>3. ASSUME NEW key \in Keys, NEW w \in Values
      PROVE  /\ UpdateFunction(key, w, drain) \in Values
             /\ Effect(key, w, UpdateFunction(key, w, drain))
  <2>1. UpdateFunction(key, w, drain) \in Values
    BY FunctionStep
  <2>2. CASE key = "tankWaterLevel"
    BY <2>1, <2>2, TankHasEffect DEF UpdateFunction
  <2>3. CASE key = "bottlePosition"
    BY <2>1, <2>3, BeltHasEffect DEF UpdateFunction
  <2>4. CASE key = "waterSpillRemaining"
    BY <2>1, <2>4, SpillHasEffect DEF UpdateFunction
  <2> QED
    BY <2>2, <2>3, <2>4 DEF Keys
<1> HIDE DEF Effect
<1>4. x1 \in Values /\ Effect(order[1], values, x1)
  BY <1>2, <1>3
<1> HIDE DEF x1
<1>5. x2 \in Values /\ Effect(order[2], x1, x2)
  BY <1>2, <1>3, <1>4
<1> HIDE DEF x2
<1>6. x3 \in Values /\ Effect(order[3], x2, x3)
  BY <1>2, <1>3, <1>5
<1>7. values' = x3
  BY <1>1 DEF x1, x2
<1> HIDE DEF x3
<1>8. PlantEffect(values, x3)
  <2>1. CASE order[1] = "waterSpillRemaining"
    <3>1. SpillEffect(values, x1)
      BY <1>4, <2>1 DEF Effect
    <3>2. \/ TankEffect(x1, x2) /\ BeltEffect(x2, x3)
          \/ BeltEffect(x1, x2) /\ TankEffect(x2, x3)
      BY <1>2, <1>5, <1>6, <2>1 DEF Effect, Keys
    <3>3. \/ TankEffect(values, x2) /\ BeltEffect(x2, x3)
          \/ BeltEffect(values, x2) /\ TankEffect(x2, x3)
      BY <1>4, <1>5, <3>1, <3>2, SpillCommutes
    <3> QED
      BY <1>5, <1>6, <3>3, TankThenBelt, BeltThenTank
  <2>2. CASE order[2] = "waterSpillRemaining"
    <3>1. SpillEffect(x1, x2)
      BY <1>5, <2>2 DEF Effect
    <3>2. \/ TankEffect(values, x1) /\ BeltEffect(x2, x3)
          \/ BeltEffect(values, x1) /\ TankEffect(x2, x3)
      BY <1>2, <1>4, <1>6, <2>2 DEF Effect, Keys
    <3>3. \/ TankEffect(values, x1) /\ BeltEffect(x1, x3)
          \/ BeltEffect(values, x1) /\ TankEffect(x1, x3)
      BY <1>4, <1>5, <1>6, <3>1, <3>2, SpillCommutes
    <3> QED
      BY <1>4, <1>6, <3>3, TankThenBelt, BeltThenTank
  <2>3. CASE order[3] = "waterSpillRemaining"
    <3>1. SpillEffect(x2, x3)
      BY <1>6, <2>3 DEF Effect
    <3>2. \/ TankEffect(values, x1) /\ BeltEffect(x1, x2)
          \/ BeltEffect(values, x1) /\ TankEffect(x1, x2)
      BY <1>2, <1>4, <1>5, <2>3 DEF Effect, Keys
    <3>3. \/ TankEffect(values, x1) /\ BeltEffect(x1, x3)
          \/ BeltEffect(values, x1) /\ TankEffect(x1, x3)
      BY <1>4, <1>5, <1>6, <3>1, <3>2, SpillCommutes
    <3> QED
      BY <1>4, <1>6, <3>3, TankThenBelt, BeltThenTank
  <2> QED
    BY <1>2, <2>1, <2>2, <2>3 DEF Keys
<1> QED
  BY <1>6, <1>7, <1>8

-----------------------------------------------------------------------------
(* How old the data of a link is, in Ticks since the cycle whose request was
   answered, at most: a request that was answered was sent by the last cycle,
   or by the one before if the last one's is still under way, or by the one
   before a request that was lost.                                          *)

Ages(l) ==
  (IF l.plc \in asked THEN {MaxAge + age[l.plc]} ELSE {age[l.plc]})
    \cup {MaxAge + r.age : r \in {x \in lost : x.link = l}}

\* Only the links that may be silent lose requests; answers come in time.
SilentInv ==
  /\ silent \subseteq Silent
  /\ \A r \in lost : r.link \in Silent
  /\ \A p \in asked : age[p] <= Latency

LEMMA FourLinks ==
  /\ AFill \in Links /\ APos \in Links /\ BFill \in Links /\ BPos \in Links
  /\ AFill.plc = "A" /\ APos.plc = "A" /\ BFill.plc = "B" /\ BPos.plc = "B"
  /\ AFill \in LinksOf("A") /\ APos \in LinksOf("A")
  /\ BFill \in LinksOf("B") /\ BPos \in LinksOf("B")
  /\ AFill # APos /\ BFill # BPos
  /\ AFill.sensor = "bottleFillLevel" /\ APos.sensor = "bottlePosition"
  /\ BFill.sensor = "bottleFillLevel" /\ BPos.sensor = "bottlePosition"
  /\ \A l \in Links : l.plc \in PLCs
  /\ \A p \in PLCs, l \in Links : l \in LinksOf(p) <=> l.plc = p
BY DEF AFill, APos, BFill, BPos, Link, LinksOf, Links, PLCs

LEMMA AgesTick ==
  ASSUME LineTypeOK, Tick, NEW l \in Links, NEW n \in Ages(l)
  PROVE  n + 1 \in Ages(l)'
<1> USE DEF LineTypeOK
<1>1. /\ asked' = asked /\ age' = [p \in PLCs |-> age[p] + 1]
      /\ lost' = {[r EXCEPT !.age = @ + 1] : r \in lost}
  BY DEF Tick
<1>2. l.plc \in PLCs /\ age[l.plc] \in Nat /\ MaxAge \in Nat
  BY FourLinks, LineAssumption
<1>3. CASE n \in (IF l.plc \in asked THEN {MaxAge + age[l.plc]} ELSE {age[l.plc]})
  BY <1>1, <1>2, <1>3 DEF Ages
<1>4. CASE \E r \in lost : r.link = l /\ n = MaxAge + r.age
  <2>1. PICK r \in lost : r.link = l /\ n = MaxAge + r.age
    BY <1>4
  <2> DEFINE older == [r EXCEPT !.age = @ + 1]
  <2>2. r \in [link : Links, age : 0 .. Timeout]
    BY <2>1
  <2>3. older \in lost'
    BY <1>1
  <2>4. older.link = l /\ older.age = r.age + 1 /\ r.age \in Nat
    BY <2>1, <2>2, LineAssumption
  <2> HIDE DEF older
  <2>5. n + 1 = MaxAge + older.age
    BY <1>2, <2>1, <2>4
  <2> QED
    BY <2>3, <2>4, <2>5 DEF Ages
<1> QED
  BY <1>3, <1>4 DEF Ages

LEMMA AgesAreNat ==
  ASSUME LineTypeOK, SilentInv, NEW l \in Links, NEW n \in Ages(l)
  PROVE  /\ n \in Nat
         /\ l.plc \notin asked => n <= MaxAge + (IF l \in Silent THEN Timeout ELSE 0)
         /\ n <= MaxAge + Latency + (IF l \in Silent THEN Timeout ELSE 0)
<1> USE DEF LineTypeOK
<1>1. l.plc \in PLCs /\ age[l.plc] \in 0 .. MaxAge /\ MaxAge \in Nat
      /\ Timeout \in Nat /\ Latency \in Nat
  BY FourLinks, LineAssumption
<1>2. CASE n \in (IF l.plc \in asked THEN {MaxAge + age[l.plc]} ELSE {age[l.plc]})
  BY <1>1, <1>2 DEF SilentInv
<1>3. CASE \E r \in lost : r.link = l /\ n = MaxAge + r.age
  BY <1>1, <1>3 DEF SilentInv
<1> QED
  BY <1>2, <1>3 DEF Ages

LEMMA AgesCycle ==
  ASSUME LineTypeOK, NEW p \in PLCs, Cycle(p), NEW l \in Links, NEW n \in Ages(l)
  PROVE  \E m \in Ages(l)' : m >= n
<1> USE DEF LineTypeOK
<1>1. /\ p \notin asked /\ asked' = asked \cup {p} /\ lost' = lost
      /\ age' = [age EXCEPT ![p] = 0]
  BY DEF Cycle
<1>2. l.plc \in PLCs /\ age[l.plc] \in 0 .. MaxAge /\ MaxAge \in Nat
  BY FourLinks, LineAssumption
<1>3. CASE \E r \in lost : r.link = l /\ n = MaxAge + r.age
  <2>1. n \in Ages(l)' /\ n \in Int
    BY <1>1, <1>2, <1>3 DEF Ages
  <2> QED
    BY <2>1
<1>4. CASE n \in (IF l.plc \in asked THEN {MaxAge + age[l.plc]} ELSE {age[l.plc]})
  <2>1. CASE l.plc = p
    <3>1. MaxAge + 0 \in Ages(l)'
      BY <1>1, <1>2, <2>1 DEF Ages
    <3>2. n = age[l.plc]
      BY <1>1, <1>4, <2>1
    <3> QED
      BY <1>2, <3>1, <3>2
  <2>2. CASE l.plc # p
    <3>1. n \in Ages(l)' /\ n \in Int
      BY <1>1, <1>2, <1>4, <2>2 DEF Ages
    <3> QED
      BY <3>1
  <2> QED
    BY <2>1, <2>2
<1> QED
  BY <1>3, <1>4 DEF Ages

\* Without an answer the data keeps its age; an answer belongs to the last cycle.
LEMMA AgesExchange ==
  ASSUME LineTypeOK, NEW p \in PLCs, Exchange(p), NEW l \in Links
  PROVE  /\ l \notin LinksOf(p) \ silent => \A n \in Ages(l) : n \in Ages(l)'
         /\ l \in LinksOf(p) \ silent => age[p] \in Ages(l)'
<1> USE DEF LineTypeOK
<1>1. /\ p \in asked /\ asked' = asked \ {p} /\ age' = age
      /\ lost' = lost \cup {[link |-> k, age |-> age[p]] : k \in LinksOf(p) \cap silent}
  BY DEF Exchange
<1>2. l.plc \in PLCs /\ (l \in LinksOf(p) <=> l.plc = p)
  BY FourLinks
<1>3. ASSUME l \in LinksOf(p) \ silent
      PROVE  age[p] \in Ages(l)'
  BY <1>1, <1>2, <1>3 DEF Ages
<1>4. ASSUME l \notin LinksOf(p) \ silent, NEW n \in Ages(l)
      PROVE  n \in Ages(l)'
  <2>1. CASE \E r \in lost : r.link = l /\ n = MaxAge + r.age
    BY <1>1, <2>1 DEF Ages
  <2>2. CASE n \in (IF l.plc \in asked THEN {MaxAge + age[l.plc]} ELSE {age[l.plc]})
    <3>1. CASE l.plc # p
      BY <1>1, <1>2, <2>2, <3>1 DEF Ages
    <3>2. CASE l.plc = p
      <4> DEFINE r0 == [link |-> l, age |-> age[p]]
      <4>1. r0 \in lost' /\ r0.link = l /\ r0.age = age[p]
        BY <1>1, <1>2, <1>4, <3>2
      <4> HIDE DEF r0
      <4>2. n = MaxAge + r0.age
        BY <1>1, <2>2, <3>2, <4>1
      <4> QED
        BY <4>1, <4>2 DEF Ages
    <3> QED
      BY <3>1, <3>2
  <2> QED
    BY <2>1, <2>2 DEF Ages
<1> QED
  BY <1>3, <1>4

LEMMA AgesTimeout ==
  ASSUME NEW k \in Links, HandleTimeout(k), NEW l \in Links, l # k, NEW n \in Ages(l)
  PROVE  n \in Ages(l)'
<1>1. /\ asked' = asked /\ age' = age
      /\ lost' = lost \ {[link |-> k, age |-> Timeout]}
  BY DEF HandleTimeout
<1>2. ASSUME NEW r \in lost, r.link = l
      PROVE  r \in lost'
  BY <1>1, <1>2
<1> QED
  BY <1>1, <1>2 DEF Ages

-----------------------------------------------------------------------------
(* The invariant *)

Level == Restored(values)
Full == Level > BottleCapacity

\* Twice the position at which the belt stands when it is stopped now.
Rest == 2 * values.position - Roll(values.speed)

\* A bottle that is not full rests where it is filled, or before.
RollInv == Full \/ Rest >= Stop

Away == values.position < -Variation

\* Pouring is safe on a level that was read n Ticks ago as not full.
Bound(n) ==
  /\ Level <= BottleCapacity + Poured(n)
  /\ n > 0 => 2 * values.position >= Stop - 2 * Way(n - 1)

\* Moving is right on data that let the belt move n Ticks ago.
Fine(n) == Full \/ values.position >= Variation + 1 - Way(n)

\* The bottle that was read as full n Ticks ago is on the belt.
Kept(n) == Full /\ values.position >= -Variation - Way(n + 1)

Believed(l, zones) == l \notin timedOut /\ register[l] \in zones
NotFull == AFill \notin timedOut /\ register[AFill] # "full"

\* PLC_A: what it has read, what it has decided, what is in force.
FillA == NotFull => \E n \in Ages(AFill) : Away \/ Bound(n)

PlaceA ==
  NotFull /\ register[APos] = "inPlace"
    => values.position <= Variation /\ \E n \in Ages(AFill) : Bound(n)

ValveA == control.flowOut => values.position <= Variation /\ Bound(DelayA + MaxAge + age["A"])

PourA ==
  inputs.flowOut =>
    \/ "A" \notin asked /\ control.flowOut
    \/ /\ "A" \in asked
       /\ values.position <= Variation
       /\ Bound(DelayA + 2 * MaxAge + age["A"])

FillerInv == FillA /\ PlaceA /\ ValveA /\ PourA

\* PLC_B: the same; what it remembers of a full bottle outlasts a halt.
PlaceB == Believed(BPos, {"before", "behind"}) => \E n \in Ages(BPos) : Fine(n)
FillB == Believed(BFill, {"full"}) => \E n \in Ages(BFill) : Kept(n)
MoveB == control.moving => Fine(DelayB + MaxAge + age["B"])

StartB ==
  inputs.start =>
    \/ "B" \notin asked /\ control.moving
    \/ "B" \in asked /\ Fine(DelayB + 2 * MaxAge + age["B"])

FullB ==
  control.wasFull =>
    /\ Full
    /\ control.moving => Kept(DelayB + MaxAge + age["B"])
    /\ inputs.start /\ ~control.moving => Kept(DelayB + 2 * MaxAge + age["B"])
    /\ ~inputs.start /\ ~control.moving => Rest >= Held

BeltInv == PlaceB /\ FillB /\ MoveB /\ StartB /\ FullB

BottleInv ==
  /\ SilentInv
  /\ Stored(values)
  /\ RollInv
  /\ FillerInv
  /\ BeltInv
  /\ NothingSpilled

BottleLineInv == LineInv /\ BottleInv

\* What the arithmetic below needs of the numbers.
LEMMA BottleNumbers ==
  ASSUME LineTypeOK, SilentInv, LineMargins
  PROVE  /\ age["A"] \in 0 .. MaxAge /\ age["B"] \in 0 .. MaxAge
         /\ Level \in 0 .. BottleBrim
         /\ values.position \in Int /\ values.position >= -AfterFiller
         /\ values.speed \in 0 .. MaxSpeed /\ values.stored \in -1 .. BottleBrim
         /\ Roll(values.speed) \in Nat /\ Roll(values.speed) <= Roll(MaxSpeed)
         /\ Roll(MaxSpeed) \in Nat /\ Rest \in Int /\ Stop \in Int /\ Held \in Int
         /\ Stop = 2 * (Variation + 1 - Way(HorizonB)) - Roll(MaxSpeed)
         /\ Stop <= 2 * (Variation + 1) - Roll(MaxSpeed)
         /\ Held <= Stop
         /\ Stop - 2 * Way(HorizonA - 1) >= -2 * Variation
         /\ Stop >= -2 * Variation
         /\ Held = -2 * (Variation + Way(HorizonB + 1)) - Roll(MaxSpeed)
         /\ Held >= -2 * AfterFiller
         /\ BottleCapacity + Poured(HorizonA) <= BottleBrim
         /\ "A" \in asked => age["A"] <= Latency
         /\ "B" \in asked => age["B"] <= Latency
<1> USE ConstantsAreNumeric DEF Numeric
<1>1. /\ age["A"] \in 0 .. MaxAge /\ age["B"] \in 0 .. MaxAge
      /\ "A" \in asked => age["A"] <= Latency
      /\ "B" \in asked => age["B"] <= Latency
  BY DEF LineTypeOK, PLCs, SilentInv
<1>2. /\ Level \in 0 .. BottleBrim
      /\ values.position \in Int /\ values.position >= -AfterFiller
      /\ values.speed \in 0 .. MaxSpeed /\ values.stored \in -1 .. BottleBrim
  BY ValueTypes DEF LineTypeOK, Level
<1>3. /\ Roll(values.speed) \in Nat /\ Roll(values.speed) <= Roll(MaxSpeed)
      /\ Roll(MaxSpeed) \in Nat
  BY <1>2, RollFacts
<1>4. Rest \in Int
  BY <1>2, <1>3 DEF Rest
<1>5. Way(HorizonB) \in Nat /\ Way(HorizonB + 1) = Way(HorizonB) + MaxSpeed
      /\ Way(HorizonA - 1) \in Nat
  <2>1. HorizonB \in Nat /\ HorizonA - 1 \in Nat
    OBVIOUS
  <2> QED
    BY <2>1, WayFacts
<1>6. Stop \in Int /\ Stop = 2 * (Variation + 1 - Way(HorizonB)) - Roll(MaxSpeed)
  BY <1>3, <1>5 DEF Stop
<1>7. Held \in Int /\ Held = -2 * (Variation + Way(HorizonB + 1)) - Roll(MaxSpeed)
  BY <1>3, <1>5 DEF Held
<1> QED
  BY <1>1, <1>2, <1>3, <1>4, <1>5, <1>6, <1>7 DEF LineMargins

LEMMA InitBottle ==
  ASSUME LineInit, LineMargins
  PROVE  BottleInv
<1> USE ConstantsAreNumeric DEF Numeric
<1>1. /\ values.position = Spacing /\ values.speed = 0 /\ values.bottle = 0
      /\ values.stored = None /\ values.spill = 0
      /\ timedOut = Links /\ lost = {} /\ asked = {} /\ silent = {}
      /\ ~inputs.flowOut /\ ~inputs.start
      /\ ~control.flowOut /\ ~control.moving /\ ~control.wasFull
  BY DEF LineInit, PlantInit
<1>2. SilentInv
  BY <1>1 DEF SilentInv
<1>3. Restored(values) = 0
  BY <1>1 DEF Restored
<1>4. Stored(values)
  BY <1>1, <1>3 DEF Stored, None
<1>5. RollInv
  <2>1. Stop <= 2 * (Variation + 1) - Roll(MaxSpeed) /\ Stop \in Int /\ Roll(MaxSpeed) \in Nat
    BY <1>2, InitTypes, BottleNumbers
  <2>2. Rest = 2 * Spacing
    BY <1>1, RollFacts DEF Rest
  <2> QED
    BY <2>1, <2>2 DEF RollInv
<1>6. FillerInv
  BY <1>1, FourLinks DEF FillerInv, FillA, PlaceA, ValveA, PourA, NotFull
<1>7. BeltInv
  BY <1>1, FourLinks DEF BeltInv, PlaceB, FillB, MoveB, StartB, FullB, Believed
<1> QED
  BY <1>1, <1>2, <1>4, <1>5, <1>6, <1>7 DEF BottleInv, NothingSpilled

-----------------------------------------------------------------------------
(* A Tick *)

\* Where the belt takes a bottle, and where the next one appears.
LEMMA TickMoves ==
  ASSUME BottleLineInv, LineMargins, Tick
  PROVE  /\ values' \in Values /\ values'.position \in Int
         /\ values'.speed \in 0 .. MaxSpeed /\ Level' \in Nat
         /\ Roll(values'.speed) \in Nat /\ Roll(values'.speed) <= Roll(MaxSpeed)
         /\ Stored(values')
         /\ ~inputs.start => \/ values.speed = 0 /\ values'.speed = 0
                             \/ values'.speed <= values.speed - 1
         /\ \/ /\ values'.position = values.position - values'.speed
               /\ Level <= Level' /\ Level' <= Level + Outflow
            \/ /\ values.position < -Variation - MaxSpeed
               /\ values.position - values'.speed < -AfterFiller
               /\ values'.position > Variation
               /\ Level' = 0
<1> USE ConstantsAreNumeric DEF Numeric
<1>1. values' \in Values /\ PlantEffect(values, values')
  BY PlantStep DEF BottleLineInv, BottleInv, LineInv, Tick
<1>2. /\ values'.position \in Int /\ values'.speed \in 0 .. MaxSpeed
      /\ Restored(values') \in Nat
  BY <1>1, ValueTypes
<1>3. Roll(values'.speed) \in Nat /\ Roll(values'.speed) <= Roll(MaxSpeed)
  BY <1>2, RollFacts
<1>4. Level' = Restored(values')
  BY DEF Level, Restored
<1>5. values.position \in Int /\ values.position >= -AfterFiller /\ Level = Restored(values)
  BY BottleNumbers DEF BottleLineInv, BottleInv, LineInv, Level
<1>6. \/ /\ values'.position = values.position - values'.speed
         /\ Level <= Level' /\ Level' <= Level + Outflow
      \/ /\ values.position < -Variation - MaxSpeed
         /\ values.position - values'.speed < -AfterFiller
         /\ values'.position > Variation
         /\ Level' = 0
  BY <1>1, <1>2, <1>4, <1>5 DEF PlantEffect, Onward, Replaced
<1> QED
  BY <1>1, <1>2, <1>3, <1>4, <1>6 DEF PlantEffect

\* While the belt is driven, the data behind it is young enough.
LEMMA DrivenByData ==
  ASSUME BottleLineInv, LineMargins, Tick, inputs.start
  PROVE  \E n \in Nat : n + 1 <= HorizonB /\ Fine(n)
<1> USE ConstantsAreNumeric DEF Numeric, BottleLineInv, BottleInv, LineInv, BeltInv
<1>1. age["B"] \in Nat /\ age["B"] < MaxAge
  BY BottleNumbers DEF Tick, PLCs
<1>2. CASE "B" \notin asked /\ control.moving
  <2>1. Fine(DelayB + MaxAge + age["B"])
    BY <1>2 DEF MoveB
  <2>2. DelayB + MaxAge + age["B"] \in Nat /\ DelayB + MaxAge + age["B"] + 1 <= HorizonB
    BY <1>1 DEF HorizonB
  <2> QED
    BY <2>1, <2>2
<1>3. CASE "B" \in asked /\ Fine(DelayB + 2 * MaxAge + age["B"])
  <2>1. age["B"] < Latency
    BY <1>3 DEF Tick
  <2>2. /\ DelayB + 2 * MaxAge + age["B"] \in Nat
        /\ DelayB + 2 * MaxAge + age["B"] + 1 <= HorizonB
    BY <1>1, <2>1 DEF HorizonB
  <2> QED
    BY <1>3, <2>2
<1> QED
  BY <1>2, <1>3 DEF StartB

\* A bottle that is not full comes to rest where it should.
LEMMA TickRoll ==
  ASSUME BottleLineInv, LineMargins, Tick
  PROVE  RollInv' /\ (~Full => Rest' >= Stop)
<1> USE ConstantsAreNumeric DEF Numeric
<1>1. /\ Level \in Nat /\ values.position \in Int /\ values.speed \in 0 .. MaxSpeed
      /\ Stop = 2 * (Variation + 1 - Way(HorizonB)) - Roll(MaxSpeed)
      /\ Stop <= 2 * (Variation + 1) - Roll(MaxSpeed)
      /\ Stop \in Int /\ Roll(MaxSpeed) \in Nat /\ Roll(values.speed) \in Nat
  BY BottleNumbers DEF BottleLineInv, BottleInv, LineInv
<1>2. Rest' = 2 * values'.position - Roll(values'.speed)
  BY DEF Rest, Roll
<1>3. Full' <=> Level' > BottleCapacity
  BY DEF Full
<1>4. CASE values'.position > Variation /\ Level' = 0
  <2>1. Rest' >= Stop
    BY <1>1, <1>2, <1>4, TickMoves
  <2> QED
    BY <2>1 DEF RollInv
<1>5. CASE values'.position = values.position - values'.speed /\ Level <= Level'
  <2>1. Full => Full'
    BY <1>1, <1>3, <1>5, TickMoves DEF Full
  <2>2. ASSUME ~Full
        PROVE  Rest' >= Stop
    <3>1. CASE inputs.start
      <4>1. PICK n \in Nat : n + 1 <= HorizonB /\ Fine(n)
        BY <3>1, DrivenByData
      <4>2. Way(n) \in Nat /\ Way(n + 1) = Way(n) + MaxSpeed /\ Way(n + 1) <= Way(HorizonB)
            /\ Way(HorizonB) \in Nat
        BY <4>1, WayFacts
      <4>3. values'.position >= Variation + 1 - Way(HorizonB)
        BY <1>1, <1>5, <2>2, <4>1, <4>2, TickMoves DEF Fine
      <4> QED
        BY <1>1, <1>2, <4>2, <4>3, TickMoves
    <3>2. CASE ~inputs.start
      <4>1. Rest >= Stop
        BY <2>2 DEF RollInv, BottleLineInv, BottleInv
      <4>2. \/ values.speed = 0 /\ values'.speed = 0
            \/ 2 * values'.speed + Roll(values'.speed) <= Roll(values.speed)
        BY <1>1, <3>2, TickMoves, RollFacts
      <4> QED
        BY <1>1, <1>2, <1>5, <4>1, <4>2, TickMoves DEF Rest
    <3> QED
      BY <3>1, <3>2
  <2> QED
    BY <2>1, <2>2 DEF RollInv, BottleLineInv, BottleInv
<1> QED
  BY <1>4, <1>5, TickMoves

\* What is safe now is as safe in the next Tick, for data that is older by one.
LEMMA FineTick ==
  ASSUME BottleLineInv, LineMargins, Tick, NEW n \in Nat, Fine(n)
  PROVE  Fine(n + 1)'
<1> USE ConstantsAreNumeric DEF Numeric
<1>1. Way(n) \in Nat /\ Way(n + 1) = Way(n) + MaxSpeed
  BY WayFacts
<1>2. Level \in Nat /\ values.position \in Int
  BY BottleNumbers DEF BottleLineInv, BottleInv, LineInv
<1>3. Fine(n + 1)' <=> Full' \/ values'.position >= Variation + 1 - Way(n + 1)
  BY DEF Fine, Way
<1> QED
  BY <1>1, <1>2, <1>3, TickMoves DEF Fine, Full

LEMMA KeptTick ==
  ASSUME BottleLineInv, LineMargins, Tick, NEW n \in Nat, n + 1 <= HorizonB, Kept(n)
  PROVE  Kept(n + 1)' /\ values'.position = values.position - values'.speed
<1> USE ConstantsAreNumeric DEF Numeric
<1>1. /\ Way(n + 1) \in Nat /\ Way(n + 2) = Way(n + 1) + MaxSpeed
      /\ Way(n + 2) <= Way(HorizonB + 1) /\ Way(HorizonB + 1) \in Nat
  <2>1. n + 1 \in Nat /\ n + 2 \in Nat /\ n + 2 = (n + 1) + 1 /\ HorizonB + 1 \in Nat
        /\ n + 2 <= HorizonB + 1
    OBVIOUS
  <2> QED
    BY <2>1, WayFacts
<1>2. /\ Level \in Nat /\ values.position \in Int /\ Roll(MaxSpeed) \in Nat
      /\ Held = -2 * (Variation + Way(HorizonB + 1)) - Roll(MaxSpeed)
      /\ Held >= -2 * AfterFiller
  BY BottleNumbers DEF BottleLineInv, BottleInv, LineInv
<1>3. values.position >= -Variation - Way(n + 1) /\ Level > BottleCapacity
  BY DEF Kept, Full
<1>4. values.position - values'.speed >= -AfterFiller
  BY <1>1, <1>2, <1>3, TickMoves
<1>5. values'.position = values.position - values'.speed /\ Level <= Level'
  <2>1. ~(values.position - values'.speed < -AfterFiller)
    BY <1>2, <1>4, TickMoves
  <2> QED
    BY <2>1, TickMoves
<1>6. (n + 1) + 1 = n + 2
  OBVIOUS
<1>7. Kept(n + 1)' <=> Level' > BottleCapacity /\ values'.position >= -Variation - Way(n + 2)
  BY <1>6 DEF Kept, Full, Way
<1> QED
  BY <1>1, <1>2, <1>3, <1>5, <1>7, TickMoves

\* A safe bottle is under the filler or before it.
LEMMA BoundPlace ==
  ASSUME BottleLineInv, LineMargins, NEW n \in Nat, n <= HorizonA, Bound(n)
  PROVE  values.position >= -Variation
<1> USE ConstantsAreNumeric DEF Numeric
<1>1. /\ Level \in Nat /\ values.position \in Int /\ Roll(values.speed) \in Nat
      /\ Stop \in Int /\ Stop - 2 * Way(HorizonA - 1) >= -2 * Variation
      /\ Stop >= -2 * Variation
  BY BottleNumbers DEF BottleLineInv, BottleInv, LineInv
<1>2. CASE n = 0
  <2>1. ~Full
    BY <1>1, <1>2, PouredFacts DEF Bound, Full
  <2>2. Rest >= Stop
    BY <2>1 DEF RollInv, BottleLineInv, BottleInv
  <2> QED
    BY <1>1, <2>2 DEF Rest
<1>3. CASE n > 0
  <2>1. n - 1 \in Nat /\ HorizonA - 1 \in Nat /\ n - 1 <= HorizonA - 1
    BY <1>3
  <2>2. Way(n - 1) \in Nat /\ Way(n - 1) <= Way(HorizonA - 1) /\ Way(HorizonA - 1) \in Nat
    BY <2>1, WayFacts
  <2> QED
    BY <1>1, <1>3, <2>2 DEF Bound
<1> QED
  BY <1>2, <1>3

LEMMA BoundTick ==
  ASSUME BottleLineInv, LineMargins, Tick, NEW n \in Nat, Away \/ Bound(n)
  PROVE  /\ (Away \/ Bound(n + 1))'
         /\ n <= HorizonA /\ values.position <= Variation /\ ~Away
              => Bound(n + 1)' /\ values'.position <= Variation
<1> USE ConstantsAreNumeric DEF Numeric
<1>1. /\ Way(n) \in Nat /\ Poured(n) \in Nat
      /\ Poured(n + 1) = Poured(n) + Outflow /\ (n + 1) - 1 = n
  <2>1. (n + 1) - 1 = n
    OBVIOUS
  <2> QED
    BY <2>1, WayFacts, PouredFacts
<1>2. /\ Level \in Nat /\ values.position \in Int /\ Stop \in Int
      /\ Roll(MaxSpeed) \in Nat /\ Stop <= 2 * (Variation + 1) - Roll(MaxSpeed)
  BY BottleNumbers DEF BottleLineInv, BottleInv, LineInv
<1>3. Bound(n + 1)' <=> /\ Level' <= BottleCapacity + Poured(n + 1)
                        /\ 2 * values'.position >= Stop - 2 * Way(n)
  BY <1>1 DEF Bound, Way, Poured, Stop, Roll
<1>4. Away' <=> values'.position < -Variation
  BY DEF Away
<1>5. CASE values'.position > Variation /\ Level' = 0 /\ values.position < -Variation - MaxSpeed
  BY <1>1, <1>2, <1>3, <1>5, TickMoves DEF Away
<1>6. CASE /\ values'.position = values.position - values'.speed
           /\ Level <= Level' /\ Level' <= Level + Outflow
  <2>1. CASE Away
    BY <1>2, <1>4, <1>6, <2>1, TickMoves DEF Away
  <2>2. CASE Bound(n)
    <3>1. Level' <= BottleCapacity + Poured(n + 1)
      BY <1>1, <1>2, <1>6, <2>2, TickMoves DEF Bound
    <3>2. 2 * values'.position >= Stop - 2 * Way(n)
      <4>1. CASE n = 0
        <5>1. ~Full
          BY <1>2, <2>2, <4>1, PouredFacts DEF Bound, Full
        <5>2. Rest' >= Stop
          BY <5>1, TickRoll
        <5>3. Rest' = 2 * values'.position - Roll(values'.speed)
          BY DEF Rest, Roll
        <5> QED
          BY <1>1, <1>2, <5>2, <5>3, TickMoves
      <4>2. CASE n > 0
        <5>1. n - 1 \in Nat /\ (n - 1) + 1 = n
          BY <4>2
        <5>2. Way(n - 1) \in Nat /\ Way(n) = Way(n - 1) + MaxSpeed
          BY <5>1, WayFacts
        <5>3. 2 * values.position >= Stop - 2 * Way(n - 1)
          BY <2>2, <4>2 DEF Bound
        <5> QED
          BY <1>2, <1>6, <5>2, <5>3, TickMoves
      <4> QED
        BY <4>1, <4>2
    <3>3. Bound(n + 1)'
      BY <1>3, <3>1, <3>2
    <3>4. values.position <= Variation => values'.position <= Variation
      BY <1>2, <1>6, TickMoves
    <3> QED
      BY <3>3, <3>4
  <2> QED
    BY <2>1, <2>2
<1> QED
  BY <1>5, <1>6, TickMoves

\* More time only makes Bound, Fine and Kept weaker.
LEMMA Weaker ==
  ASSUME BottleLineInv, LineMargins, NEW m \in Nat, NEW n \in Nat, m <= n
  PROVE  /\ Bound(m) => Bound(n)
         /\ Fine(m) => Fine(n)
         /\ Kept(m) => Kept(n)
<1> USE ConstantsAreNumeric DEF Numeric
<1>1. /\ Level \in Nat /\ values.position \in Int /\ Roll(values.speed) \in Nat
      /\ Stop \in Int
  BY BottleNumbers DEF BottleLineInv, BottleInv, LineInv
<1>2. /\ Way(m) \in Nat /\ Way(n) \in Nat /\ Way(m) <= Way(n)
      /\ Poured(m) \in Nat /\ Poured(n) \in Nat /\ Poured(m) <= Poured(n)
  BY WayFacts, PouredFacts
<1>3. Fine(m) => Fine(n)
  BY <1>1, <1>2 DEF Fine
<1>4. Kept(m) => Kept(n)
  <2>1. m + 1 \in Nat /\ n + 1 \in Nat /\ m + 1 <= n + 1
    OBVIOUS
  <2>2. Way(m + 1) \in Nat /\ Way(n + 1) \in Nat /\ Way(m + 1) <= Way(n + 1)
    BY <2>1, WayFacts
  <2> QED
    BY <1>1, <2>2 DEF Kept
<1>5. ASSUME Bound(m)
      PROVE  Bound(n)
  <2>1. Level <= BottleCapacity + Poured(n)
    BY <1>1, <1>2, <1>5 DEF Bound
  <2>2. ASSUME n > 0
        PROVE  2 * values.position >= Stop - 2 * Way(n - 1)
    <3>1. n - 1 \in Nat /\ Way(n - 1) \in Nat
      <4>1. n - 1 \in Nat
        BY <2>2
      <4> QED
        BY <4>1, WayFacts
    <3>2. CASE m = 0
      <4>1. ~Full
        BY <1>1, <1>5, <3>2, PouredFacts DEF Bound, Full
      <4>2. Rest >= Stop
        BY <4>1 DEF RollInv, BottleLineInv, BottleInv
      <4> QED
        BY <1>1, <3>1, <4>2 DEF Rest
    <3>3. CASE m > 0
      <4>1. m - 1 \in Nat /\ m - 1 <= n - 1
        BY <3>3
      <4>2. Way(m - 1) \in Nat /\ Way(m - 1) <= Way(n - 1)
        BY <3>1, <4>1, WayFacts
      <4> QED
        BY <1>1, <1>5, <3>1, <3>3, <4>2 DEF Bound
    <3> QED
      BY <3>2, <3>3
  <2> QED
    BY <2>1, <2>2 DEF Bound
<1> QED
  BY <1>3, <1>4, <1>5

\* While the valve is open, the data behind it is young enough.
LEMMA PouringByData ==
  ASSUME BottleLineInv, LineMargins, Tick, inputs.flowOut
  PROVE  \E n \in Nat : n + 1 <= HorizonA /\ Bound(n) /\ values.position <= Variation
<1> USE ConstantsAreNumeric DEF Numeric, BottleLineInv, BottleInv, LineInv, FillerInv
<1>1. age["A"] \in Nat /\ age["A"] < MaxAge
  BY BottleNumbers DEF Tick, PLCs
<1>2. CASE "A" \notin asked /\ control.flowOut
  <2>1. Bound(DelayA + MaxAge + age["A"]) /\ values.position <= Variation
    BY <1>2 DEF ValveA
  <2>2. DelayA + MaxAge + age["A"] \in Nat /\ DelayA + MaxAge + age["A"] + 1 <= HorizonA
    BY <1>1 DEF HorizonA
  <2> QED
    BY <2>1, <2>2
<1>3. CASE /\ "A" \in asked
           /\ values.position <= Variation
           /\ Bound(DelayA + 2 * MaxAge + age["A"])
  <2>1. age["A"] < Latency
    BY <1>3 DEF Tick
  <2>2. /\ DelayA + 2 * MaxAge + age["A"] \in Nat
        /\ DelayA + 2 * MaxAge + age["A"] + 1 <= HorizonA
    BY <1>1, <2>1 DEF HorizonA
  <2> QED
    BY <1>3, <2>2
<1> QED
  BY <1>2, <1>3 DEF PourA

LEMMA TickSilent ==
  ASSUME LineTypeOK, SilentInv, Tick
  PROVE  SilentInv'
<1>1. /\ asked' = asked /\ silent' = silent
      /\ age' = [p \in PLCs |-> age[p] + 1]
      /\ lost' = {[r EXCEPT !.age = @ + 1] : r \in lost}
      /\ \A p \in asked : age[p] < Latency
  BY DEF Tick, network
<1>2. \A p \in asked' : age'[p] <= Latency
  <2> SUFFICES ASSUME NEW p \in asked
               PROVE  age'[p] <= Latency
    BY <1>1
  <2>1. age[p] \in Nat /\ Latency \in Nat /\ age[p] < Latency /\ p \in PLCs
    BY <1>1, LineAssumption DEF LineTypeOK
  <2> QED
    BY <1>1, <2>1
<1>3. \A r \in lost' : r.link \in Silent
  BY <1>1 DEF SilentInv, LineTypeOK
<1> QED
  BY <1>1, <1>2, <1>3 DEF SilentInv

LEMMA TickFiller ==
  ASSUME BottleLineInv, LineMargins, Tick
  PROVE  FillerInv'
<1> USE ConstantsAreNumeric DEF Numeric
<1>0. LineTypeOK /\ SilentInv /\ FillerInv
  BY DEF BottleLineInv, BottleInv, LineInv
<1>1. /\ UNCHANGED <<inputs, register, timedOut, asked, control>>
      /\ age["A"] \in Nat /\ age["A"] < MaxAge /\ age'["A"] = age["A"] + 1
  BY <1>0, BottleNumbers DEF Tick, Update, PLCs
<1>2. ASSUME NEW n \in Ages(AFill)
      PROVE  n \in Nat /\ n <= HorizonA /\ n + 1 \in Ages(AFill)'
  <2>1. n \in Nat /\ n <= MaxAge + Latency + DelayA
    BY <1>0, <1>2, AgesAreNat, FourLinks DEF DelayA
  <2> QED
    BY <1>0, <1>2, <2>1, AgesTick, FourLinks DEF HorizonA
<1>3. FillA'
  <2> SUFFICES ASSUME NotFull'
               PROVE  \E n \in Ages(AFill)' : (Away \/ Bound(n))'
    BY DEF FillA
  <2>1. PICK n \in Ages(AFill) : Away \/ Bound(n)
    BY <1>0, <1>1 DEF FillerInv, FillA, NotFull
  <2> QED
    BY <1>2, <2>1, BoundTick
<1>4. PlaceA'
  <2> SUFFICES ASSUME NotFull', (register[APos] = "inPlace")'
               PROVE  values'.position <= Variation /\ \E n \in Ages(AFill)' : Bound(n)'
    BY DEF PlaceA
  <2>1. values.position <= Variation /\ \E n \in Ages(AFill) : Bound(n)
    BY <1>0, <1>1 DEF FillerInv, PlaceA, NotFull
  <2>2. PICK n \in Ages(AFill) : Bound(n)
    BY <2>1
  <2>3. ~Away
    BY <1>0, <1>2, <2>2, BoundPlace, BottleNumbers DEF Away
  <2>4. Bound(n + 1)' /\ values'.position <= Variation
    BY <1>2, <2>1, <2>2, <2>3, BoundTick
  <2> QED
    BY <1>2, <2>4
<1>5. ASSUME NEW n \in Nat, n <= HorizonA, Bound(n), values.position <= Variation
      PROVE  Bound(n + 1)' /\ values'.position <= Variation
  <2>1. ~Away
    BY <1>0, <1>5, BoundPlace, BottleNumbers DEF Away
  <2> QED
    BY <1>5, <2>1, BoundTick
<1>6. ValveA'
  <2> SUFFICES ASSUME control.flowOut
               PROVE  values'.position <= Variation /\ Bound(DelayA + MaxAge + age["A"])'
    BY <1>1 DEF ValveA
  <2> DEFINE n == DelayA + MaxAge + age["A"]
  <2>1. Bound(n) /\ values.position <= Variation
    BY <1>0 DEF FillerInv, ValveA
  <2>2. n \in Nat /\ n <= HorizonA /\ n + 1 = DelayA + MaxAge + age'["A"]
    BY <1>1 DEF HorizonA
  <2>3. PICK k \in Nat : k = n
    BY <2>2
  <2>4. Bound(k + 1)' /\ values'.position <= Variation
    BY <1>5, <2>1, <2>2, <2>3
  <2>5. k + 1 = DelayA + MaxAge + age'["A"]
    BY <2>2, <2>3
  <2> QED
    BY <2>4, <2>5 DEF Bound, Level, Way, Poured, Stop, Roll
<1>7. PourA'
  <2> SUFFICES ASSUME inputs.flowOut, ~("A" \notin asked /\ control.flowOut)
               PROVE  /\ "A" \in asked /\ values'.position <= Variation
                      /\ Bound(DelayA + 2 * MaxAge + age["A"])'
    BY <1>1 DEF PourA
  <2> DEFINE n == DelayA + 2 * MaxAge + age["A"]
  <2>1. "A" \in asked /\ Bound(n) /\ values.position <= Variation
    BY <1>0 DEF FillerInv, PourA
  <2>2. age["A"] < Latency
    BY <2>1 DEF Tick
  <2>3. n \in Nat /\ n <= HorizonA /\ n + 1 = DelayA + 2 * MaxAge + age'["A"]
    BY <1>1, <2>2 DEF HorizonA
  <2>4. PICK k \in Nat : k = n
    BY <2>3
  <2>5. Bound(k + 1)' /\ values'.position <= Variation
    BY <1>5, <2>1, <2>3, <2>4
  <2>6. k + 1 = DelayA + 2 * MaxAge + age'["A"]
    BY <2>3, <2>4
  <2> QED
    BY <2>1, <2>5, <2>6 DEF Bound, Level, Way, Poured, Stop, Roll
<1> QED
  BY <1>3, <1>4, <1>6, <1>7 DEF FillerInv

LEMMA TickSpill ==
  ASSUME BottleLineInv, LineMargins, Tick
  PROVE  NothingSpilled'
<1> USE ConstantsAreNumeric DEF Numeric
<1>0. LineTypeOK /\ SilentInv /\ FillerInv /\ NothingSpilled /\ Stored(values) /\ PumpInv
  BY DEF BottleLineInv, BottleInv, LineInv
<1>1. PlantEffect(values, values')
  BY <1>0, PlantStep DEF Tick
<1>2. values.spill = 0 /\ values.tank < TankCapacity
  BY <1>0, Numbers DEF NothingSpilled, PumpInv, TankBelow
<1>3. ASSUME inputs.flowOut
      PROVE  /\ UnderFiller(values) /\ UnderFiller(values')
             /\ Restored(values) + Outflow <= BottleBrim
  <2>1. PICK n \in Nat : n + 1 <= HorizonA /\ Bound(n) /\ values.position <= Variation
    BY <1>3, PouringByData
  <2>2. values.position >= -Variation /\ values.position \in Int
    BY <1>0, <2>1, BoundPlace, BottleNumbers
  <2>3. Bound(n + 1)' /\ values'.position <= Variation
    BY <2>1, <2>2, BoundTick DEF Away
  <2>4. /\ Poured(n) \in Nat /\ Poured(n + 1) = Poured(n) + Outflow
        /\ Poured(n + 1) <= Poured(HorizonA) /\ Poured(HorizonA) \in Nat
    BY <2>1, PouredFacts
  <2>5. Level + Outflow <= BottleBrim
    BY <1>0, <2>1, <2>4, BottleNumbers DEF Bound
  <2>6. Way(n) \in Nat /\ Way(n) <= Way(HorizonA - 1) /\ Way(HorizonA - 1) \in Nat
    <3>1. HorizonA - 1 \in Nat /\ n <= HorizonA - 1
      BY <2>1
    <3> QED
      BY <3>1, WayFacts
  <2>7. 2 * values'.position >= Stop - 2 * Way(n)
    <3>1. (n + 1) - 1 = n /\ n + 1 > 0
      OBVIOUS
    <3> QED
      BY <2>3, <3>1 DEF Bound, Way, Stop, Roll
  <2>8. values'.position >= -Variation
    BY <1>0, <2>6, <2>7, BottleNumbers, TickMoves
  <2> QED
    BY <2>1, <2>2, <2>3, <2>5, <2>8 DEF UnderFiller, Level
<1> QED
  BY <1>1, <1>2, <1>3 DEF PlantEffect, NothingSpilled

LEMMA TickBelt ==
  ASSUME BottleLineInv, LineMargins, Tick
  PROVE  BeltInv'
<1> USE ConstantsAreNumeric DEF Numeric
<1>0. LineTypeOK /\ SilentInv /\ BeltInv
  BY DEF BottleLineInv, BottleInv, LineInv
<1>1. /\ UNCHANGED <<inputs, register, timedOut, asked, control>>
      /\ age["B"] \in Nat /\ age["B"] < MaxAge /\ age'["B"] = age["B"] + 1
      /\ "B" \in asked => age["B"] < Latency
  BY <1>0, BottleNumbers DEF Tick, Update, PLCs
<1>2. PlaceB'
  <2> SUFFICES ASSUME Believed(BPos, {"before", "behind"})'
               PROVE  \E n \in Ages(BPos)' : Fine(n)'
    BY DEF PlaceB
  <2>1. PICK n \in Ages(BPos) : Fine(n)
    BY <1>0, <1>1 DEF BeltInv, PlaceB, Believed
  <2>2. n \in Nat /\ n + 1 \in Ages(BPos)'
    BY <1>0, AgesAreNat, AgesTick, FourLinks
  <2> QED
    BY <2>1, <2>2, FineTick
<1>3. FillB'
  <2> SUFFICES ASSUME Believed(BFill, {"full"})'
               PROVE  \E n \in Ages(BFill)' : Kept(n)'
    BY DEF FillB
  <2>1. PICK n \in Ages(BFill) : Kept(n)
    BY <1>0, <1>1 DEF BeltInv, FillB, Believed
  <2>2. n \in Nat /\ n + 1 \in Ages(BFill)'
    BY <1>0, AgesAreNat, AgesTick, FourLinks
  <2>3. n <= MaxAge + Latency + DelayB
    <3>1. BFill \in Silent => DelayB = Timeout
      BY FourLinks DEF DelayB
    <3> QED
      BY <1>0, <3>1, AgesAreNat, FourLinks
  <2>4. n + 1 <= HorizonB
    BY <2>2, <2>3 DEF HorizonB
  <2> QED
    BY <2>1, <2>2, <2>4, KeptTick
<1>4. MoveB'
  <2> SUFFICES ASSUME control.moving
               PROVE  Fine(DelayB + MaxAge + age["B"])'
    BY <1>1 DEF MoveB
  <2>1. Fine(DelayB + MaxAge + age["B"])
    BY <1>0 DEF BeltInv, MoveB
  <2>2. PICK k \in Nat : k = DelayB + MaxAge + age["B"]
    BY <1>1
  <2>3. Fine(k + 1)'
    BY <2>1, <2>2, FineTick
  <2>4. k + 1 = DelayB + MaxAge + age'["B"]
    BY <1>1, <2>2
  <2> QED
    BY <2>3, <2>4 DEF Fine, Full, Level, Way
<1>5. StartB'
  <2> SUFFICES ASSUME inputs.start, ~("B" \notin asked /\ control.moving)
               PROVE  "B" \in asked /\ Fine(DelayB + 2 * MaxAge + age["B"])'
    BY <1>1 DEF StartB
  <2>1. "B" \in asked /\ Fine(DelayB + 2 * MaxAge + age["B"])
    BY <1>0 DEF BeltInv, StartB
  <2>2. PICK k \in Nat : k = DelayB + 2 * MaxAge + age["B"]
    BY <1>1
  <2>3. Fine(k + 1)'
    BY <2>1, <2>2, FineTick
  <2>4. k + 1 = DelayB + 2 * MaxAge + age'["B"]
    BY <1>1, <2>2
  <2> QED
    BY <2>1, <2>3, <2>4 DEF Fine, Full, Level, Way
<1>6. FullB'
  <2> SUFFICES ASSUME control.wasFull
               PROVE  /\ Full'
                      /\ control.moving => Kept(DelayB + MaxAge + age["B"])'
                      /\ inputs.start /\ ~control.moving
                           => Kept(DelayB + 2 * MaxAge + age["B"])'
                      /\ ~inputs.start /\ ~control.moving => (Rest >= Held)'
    BY <1>1 DEF FullB
  <2>1. CASE control.moving
    <3>1. Kept(DelayB + MaxAge + age["B"])
      BY <1>0, <2>1 DEF BeltInv, FullB
    <3>2. PICK k \in Nat : k = DelayB + MaxAge + age["B"]
      BY <1>1
    <3>3. k + 1 <= HorizonB
      BY <1>1, <3>2 DEF HorizonB
    <3>4. Kept(k + 1)'
      BY <3>1, <3>2, <3>3, KeptTick
    <3>5. k + 1 = DelayB + MaxAge + age'["B"]
      BY <1>1, <3>2
    <3>6. Kept(DelayB + MaxAge + age["B"])' /\ Full'
      BY <3>4, <3>5 DEF Kept, Full, Level, Way
    <3> QED
      BY <2>1, <3>6
  <2>2. CASE inputs.start /\ ~control.moving
    <3>1. Kept(DelayB + 2 * MaxAge + age["B"])
      BY <1>0, <2>2 DEF BeltInv, FullB
    <3>2. PICK k \in Nat : k = DelayB + 2 * MaxAge + age["B"]
      BY <1>1
    <3>3. age["B"] < Latency
      BY <1>0, <1>1, <2>2 DEF BeltInv, StartB
    <3>4. k + 1 <= HorizonB
      BY <1>1, <3>2, <3>3 DEF HorizonB
    <3>5. Kept(k + 1)'
      BY <3>1, <3>2, <3>4, KeptTick
    <3>6. k + 1 = DelayB + 2 * MaxAge + age'["B"]
      BY <1>1, <3>2
    <3>7. Kept(DelayB + 2 * MaxAge + age["B"])' /\ Full'
      BY <3>5, <3>6 DEF Kept, Full, Level, Way
    <3> QED
      BY <2>2, <3>7
  <2>3. CASE ~inputs.start /\ ~control.moving
    <3>1. Full /\ Rest >= Held
      BY <1>0, <2>3 DEF BeltInv, FullB
    <3>2. /\ Level \in Nat /\ values.position \in Int /\ values.speed \in 0 .. MaxSpeed
          /\ Roll(values.speed) \in Nat /\ Held \in Int /\ Held >= -2 * AfterFiller
      BY <1>0, BottleNumbers
    <3>3. \/ values.speed = 0 /\ values'.speed = 0
          \/ 2 * values'.speed + Roll(values'.speed) <= Roll(values.speed)
      BY <2>3, <3>2, TickMoves, RollFacts
    <3>4. 2 * (values.position - values'.speed) >= Held + Roll(values'.speed)
      BY <3>1, <3>2, <3>3, TickMoves DEF Rest
    <3>5. ~(values.position - values'.speed < -AfterFiller)
      BY <3>2, <3>4, TickMoves
    <3>6. values'.position = values.position - values'.speed /\ Level <= Level'
      BY <3>5, TickMoves
    <3>7. Full'
      BY <3>1, <3>2, <3>6, TickMoves DEF Full
    <3>8. (Rest >= Held)' <=> 2 * values'.position - Roll(values'.speed) >= Held
      BY DEF Rest, Held, Roll, Way
    <3>9. (Rest >= Held)'
      BY <3>2, <3>4, <3>6, <3>8, TickMoves
    <3> QED
      BY <2>3, <3>7, <3>9
  <2> QED
    BY <2>1, <2>2, <2>3
<1> QED
  BY <1>2, <1>3, <1>4, <1>5, <1>6 DEF BeltInv

LEMMA TickBottle ==
  ASSUME BottleLineInv, LineMargins, Tick
  PROVE  BottleInv'
<1>1. SilentInv'
  BY TickSilent DEF BottleLineInv, BottleInv, LineInv
<1>2. Stored(values)'
  BY TickMoves DEF Stored, Restored
<1> QED
  BY <1>1, <1>2, TickRoll, TickFiller, TickBelt, TickSpill DEF BottleInv

-----------------------------------------------------------------------------
(* The other steps *)

LEMMA KeptRests ==
  ASSUME BottleLineInv, LineMargins, NEW n \in Nat, n <= HorizonB, Kept(n)
  PROVE  Rest >= Held
<1> USE ConstantsAreNumeric DEF Numeric
<1>1. Way(n + 1) \in Nat /\ Way(n + 1) <= Way(HorizonB + 1) /\ Way(HorizonB + 1) \in Nat
  <2>1. n + 1 \in Nat /\ HorizonB + 1 \in Nat /\ n + 1 <= HorizonB + 1
    OBVIOUS
  <2> QED
    BY <2>1, WayFacts
<1> QED
  BY <1>1, BottleNumbers DEF Kept, Rest, BottleLineInv, BottleInv, LineInv

LEMMA SameBottle ==
  ASSUME values' = values
  PROVE  /\ \A n \in Nat : /\ Bound(n)' <=> Bound(n)
                           /\ Fine(n)' <=> Fine(n)
                           /\ Kept(n)' <=> Kept(n)
         /\ (Full' <=> Full) /\ (Away' <=> Away)
         /\ ((Rest >= Held)' <=> Rest >= Held)
         /\ (RollInv' <=> RollInv)
         /\ (Stored(values)' <=> Stored(values))
         /\ (NothingSpilled' <=> NothingSpilled)
BY DEF Bound, Fine, Kept, Full, Away, Rest, Held, RollInv, Stored, NothingSpilled,
       Level, Restored, Way, Poured, Stop, Roll

\* What is believed grows no weaker when its age is counted anew.
LEMMA BeliefsCycle ==
  ASSUME BottleLineInv, LineMargins, NEW p \in PLCs, Cycle(p)
  PROVE  FillA' /\ PlaceA' /\ PlaceB' /\ FillB'
<1>0. LineTypeOK /\ SilentInv /\ FillerInv /\ BeltInv
  BY DEF BottleLineInv, BottleInv, LineInv
<1>1. UNCHANGED <<values, register, timedOut>>
  BY DEF Cycle, plantVars
<1>2. ASSUME NEW l \in Links, NEW n \in Ages(l)
      PROVE  n \in Nat /\ \E m \in Ages(l)' : m \in Nat /\ n <= m
  <2>1. n \in Nat
    BY <1>0, AgesAreNat
  <2>2. PICK m \in Ages(l)' : m >= n
    BY <1>0, AgesCycle
  <2>3. m \in Nat
    <3>1. SilentInv' /\ LineTypeOK'
      <4>1. LineTypeOK'
        BY <1>0, CycleTypes
      <4> QED
        BY <4>1, <1>0, LineAssumption DEF Cycle, SilentInv, network, LineTypeOK
    <3>2. l.plc \in PLCs /\ age' \in [PLCs -> 0 .. MaxAge] /\ MaxAge \in Nat /\ Timeout \in Nat
          /\ lost' \in SUBSET [link : Links, age : 0 .. Timeout]
      BY <3>1, FourLinks, LineAssumption DEF LineTypeOK
    <3> QED
      BY <3>2 DEF Ages
  <2> QED
    BY <2>1, <2>2, <2>3
<1>3. FillA'
  <2> SUFFICES ASSUME NotFull'
               PROVE  \E n \in Ages(AFill)' : (Away \/ Bound(n))'
    BY DEF FillA
  <2>1. PICK n \in Ages(AFill) : Away \/ Bound(n)
    BY <1>0, <1>1 DEF FillerInv, FillA, NotFull
  <2>2. PICK m \in Ages(AFill)' : n \in Nat /\ m \in Nat /\ n <= m
    BY <1>2, FourLinks
  <2> QED
    BY <1>1, <2>1, <2>2, Weaker, SameBottle
<1>4. PlaceA'
  <2> SUFFICES ASSUME NotFull', (register[APos] = "inPlace")'
               PROVE  values'.position <= Variation /\ \E n \in Ages(AFill)' : Bound(n)'
    BY DEF PlaceA
  <2>1. values.position <= Variation /\ \E n \in Ages(AFill) : Bound(n)
    BY <1>0, <1>1 DEF FillerInv, PlaceA, NotFull
  <2>2. PICK n \in Ages(AFill) : Bound(n)
    BY <2>1
  <2>3. PICK m \in Ages(AFill)' : n \in Nat /\ m \in Nat /\ n <= m
    BY <1>2, FourLinks
  <2> QED
    BY <1>1, <2>1, <2>2, <2>3, Weaker, SameBottle
<1>5. PlaceB'
  <2> SUFFICES ASSUME Believed(BPos, {"before", "behind"})'
               PROVE  \E n \in Ages(BPos)' : Fine(n)'
    BY DEF PlaceB
  <2>1. PICK n \in Ages(BPos) : Fine(n)
    BY <1>0, <1>1 DEF BeltInv, PlaceB, Believed
  <2>2. PICK m \in Ages(BPos)' : n \in Nat /\ m \in Nat /\ n <= m
    BY <1>2, FourLinks
  <2> QED
    BY <1>1, <2>1, <2>2, Weaker, SameBottle
<1>6. FillB'
  <2> SUFFICES ASSUME Believed(BFill, {"full"})'
               PROVE  \E n \in Ages(BFill)' : Kept(n)'
    BY DEF FillB
  <2>1. PICK n \in Ages(BFill) : Kept(n)
    BY <1>0, <1>1 DEF BeltInv, FillB, Believed
  <2>2. PICK m \in Ages(BFill)' : n \in Nat /\ m \in Nat /\ n <= m
    BY <1>2, FourLinks
  <2> QED
    BY <1>1, <2>1, <2>2, Weaker, SameBottle
<1> QED
  BY <1>3, <1>4, <1>5, <1>6

\* PLC_A decides on data that is young enough.
LEMMA CycleA ==
  ASSUME BottleLineInv, LineMargins, Cycle("A")
  PROVE  ValveA' /\ PourA' /\ MoveB' /\ StartB' /\ FullB'
<1> USE ConstantsAreNumeric DEF Numeric
<1>0. LineTypeOK /\ SilentInv /\ FillerInv /\ BeltInv
  BY DEF BottleLineInv, BottleInv, LineInv
<1>1. /\ UNCHANGED <<values, inputs>>
      /\ "A" \notin asked /\ "A" \in asked' /\ ("B" \in asked' <=> "B" \in asked)
      /\ age'["A"] = 0 /\ age'["B"] = age["B"]
      /\ age["A"] \in 0 .. MaxAge
  BY <1>0 DEF Cycle, plantVars, LineTypeOK, PLCs
<1>2. /\ control'.flowOut <=> ValveOpen
      /\ control'.moving = control.moving /\ control'.wasFull = control.wasFull
  BY <1>0 DEF Cycle, LogicA, LineTypeOK, Controls
<1>3. ValveA'
  <2> SUFFICES ASSUME ValveOpen
               PROVE  values'.position <= Variation /\ Bound(DelayA + MaxAge + age["A"])'
    BY <1>2 DEF ValveA
  <2>1. NotFull /\ register[APos] = "inPlace"
    BY DEF ValveOpen, NotFull, NoDataA, A, AFill, APos
  <2>2. PICK n \in Ages(AFill) : Bound(n)
    BY <1>0, <2>1 DEF FillerInv, PlaceA
  <2>3. values.position <= Variation
    BY <1>0, <2>1 DEF FillerInv, PlaceA
  <2>4. n \in Nat /\ n <= MaxAge + DelayA
    BY <1>0, <1>1, AgesAreNat, FourLinks DEF DelayA
  <2>5. PICK k \in Nat : k = DelayA + MaxAge
    OBVIOUS
  <2>6. Bound(k)'
    BY <1>1, <2>2, <2>4, <2>5, Weaker, SameBottle
  <2>7. k = DelayA + MaxAge + age'["A"]
    BY <1>1, <2>5
  <2> QED
    BY <1>1, <2>3, <2>6, <2>7 DEF Bound, Level, Way, Poured, Stop, Roll
<1>4. PourA'
  <2> SUFFICES ASSUME inputs.flowOut
               PROVE  /\ values'.position <= Variation
                      /\ Bound(DelayA + 2 * MaxAge + age["A"])'
    BY <1>1 DEF PourA
  <2>1. values.position <= Variation /\ Bound(DelayA + MaxAge + age["A"])
    BY <1>0, <1>1 DEF FillerInv, PourA, ValveA
  <2>2. PICK k \in Nat : k = DelayA + 2 * MaxAge
    OBVIOUS
  <2>3. Bound(k)'
    <3>1. DelayA + MaxAge + age["A"] \in Nat /\ DelayA + MaxAge + age["A"] <= k
      BY <1>1, <2>2
    <3> QED
      BY <1>1, <2>1, <3>1, Weaker, SameBottle
  <2>4. k = DelayA + 2 * MaxAge + age'["A"]
    BY <1>1, <2>2
  <2> QED
    BY <1>1, <2>1, <2>3, <2>4 DEF Bound, Level, Way, Poured, Stop, Roll
<1>5. MoveB' /\ StartB' /\ FullB'
  <2>1. MoveB /\ StartB /\ FullB
    BY <1>0 DEF BeltInv
  <2> QED
    BY <1>1, <1>2, <2>1 DEF MoveB, StartB, FullB, Fine, Kept, Full, Level, Way, Rest, Held, Roll
<1> QED
  BY <1>3, <1>4, <1>5

\* PLC_B moves the belt on data that is young enough.
LEMMA MovesOnData ==
  ASSUME BottleLineInv, LineMargins, "B" \notin asked, ~NoDataB, BeltMoves
  PROVE  Fine(DelayB + MaxAge)
<1> USE ConstantsAreNumeric DEF Numeric
<1>0. LineTypeOK /\ SilentInv /\ BeltInv
  BY DEF BottleLineInv, BottleInv, LineInv
<1>1. CASE control.wasFull
  BY <1>0, <1>1 DEF BeltInv, FullB, Fine
<1>2. CASE register[BPos] \in {"before", "behind"}
  <2>1. Believed(BPos, {"before", "behind"})
    BY <1>2, FourLinks DEF Believed, NoDataB
  <2>2. PICK n \in Ages(BPos) : Fine(n)
    BY <1>0, <2>1 DEF BeltInv, PlaceB
  <2>3. BPos \in Silent => DelayB = Timeout
    BY FourLinks DEF DelayB
  <2>4. n \in Nat /\ n <= DelayB + MaxAge
    BY <1>0, <2>3, AgesAreNat, FourLinks
  <2> QED
    BY <2>2, <2>4, Weaker
<1> QED
  BY <1>1, <1>2 DEF BeltMoves, B, BPos

\* A bottle that PLC_B reads as full is full and near.
LEMMA FullOnData ==
  ASSUME BottleLineInv, LineMargins, "B" \notin asked, ~NoDataB,
         B("bottleFillLevel") = "full"
  PROVE  Kept(DelayB + MaxAge)
<1> USE ConstantsAreNumeric DEF Numeric
<1>0. LineTypeOK /\ SilentInv /\ BeltInv
  BY DEF BottleLineInv, BottleInv, LineInv
<1>1. Believed(BFill, {"full"})
  BY FourLinks DEF Believed, NoDataB, B, BFill
<1>2. PICK n \in Ages(BFill) : Kept(n)
  BY <1>0, <1>1 DEF BeltInv, FillB
<1>3. BFill \in Silent => DelayB = Timeout
  BY FourLinks DEF DelayB
<1>4. n \in Nat /\ n <= DelayB + MaxAge
  BY <1>0, <1>3, AgesAreNat, FourLinks
<1> QED
  BY <1>2, <1>4, Weaker

LEMMA CycleB ==
  ASSUME BottleLineInv, LineMargins, Cycle("B")
  PROVE  ValveA' /\ PourA' /\ MoveB' /\ StartB' /\ FullB'
<1> USE ConstantsAreNumeric DEF Numeric
<1>0. LineTypeOK /\ SilentInv /\ FillerInv /\ BeltInv
  BY DEF BottleLineInv, BottleInv, LineInv
<1>1. /\ UNCHANGED <<values, inputs>>
      /\ "B" \notin asked /\ "B" \in asked' /\ ("A" \in asked' <=> "A" \in asked)
      /\ age'["B"] = 0 /\ age'["A"] = age["A"]
      /\ age["B"] \in 0 .. MaxAge
  BY <1>0 DEF Cycle, plantVars, LineTypeOK, PLCs
<1>2. /\ control'.flowOut = control.flowOut
      /\ \/ ~control'.moving /\ control'.wasFull = control.wasFull
         \/ /\ ~NoDataB
            /\ control'.moving <=> BeltMoves
            /\ control'.wasFull <=> B("bottleFillLevel") = "full"
  <2>1. CASE operator.halt \/ NoDataB
    BY <1>0, <2>1 DEF Cycle, LogicB, LineTypeOK, Controls
  <2>2. CASE ~(operator.halt \/ NoDataB)
    <3> DEFINE moves == BeltMoves
               full == B("bottleFillLevel") = "full"
               speed == IF moves THEN operator.speed ELSE control.speed
    <3>1. control' = [control EXCEPT !.moving = moves, !.wasFull = full, !.speed = speed]
      BY <2>2, Zenon DEF Cycle, LogicB
    <3> HIDE DEF moves, full, speed
    <3>2. control'.flowOut = control.flowOut /\ control'.moving = moves /\ control'.wasFull = full
      BY <1>0, <3>1 DEF LineTypeOK, Controls
    <3> QED
      BY <2>2, <3>2 DEF moves, full
  <2> QED
    BY <2>1, <2>2
<1>3. PICK k0 \in Nat : k0 = DelayB + MaxAge
  OBVIOUS
<1>4. PICK k \in Nat : k = DelayB + 2 * MaxAge
  OBVIOUS
<1>5. k0 = DelayB + MaxAge + age'["B"] /\ k = DelayB + 2 * MaxAge + age'["B"]
      /\ k0 <= k /\ k <= HorizonB
  BY <1>1, <1>3, <1>4 DEF HorizonB
<1>6. DelayB + MaxAge + age["B"] \in Nat /\ DelayB + MaxAge + age["B"] <= k
  BY <1>1, <1>4
<1>7. MoveB'
  <2> SUFFICES ASSUME control'.moving
               PROVE  Fine(DelayB + MaxAge + age["B"])'
    BY DEF MoveB
  <2>1. Fine(k0)
    BY <1>1, <1>2, <1>3, MovesOnData
  <2> QED
    BY <1>1, <1>5, <2>1 DEF Fine, Full, Level, Way
<1>8. StartB'
  <2> SUFFICES ASSUME inputs.start
               PROVE  Fine(DelayB + 2 * MaxAge + age["B"])'
    BY <1>1 DEF StartB
  <2>1. Fine(DelayB + MaxAge + age["B"])
    BY <1>0, <1>1 DEF BeltInv, StartB, MoveB
  <2>2. Fine(k)
    BY <1>6, <2>1, Weaker
  <2> QED
    BY <1>1, <1>5, <2>2 DEF Fine, Full, Level, Way
<1>9. FullB'
  <2> SUFFICES ASSUME control'.wasFull
               PROVE  /\ Full'
                      /\ control'.moving => Kept(DelayB + MaxAge + age["B"])'
                      /\ inputs'.start /\ ~control'.moving
                           => Kept(DelayB + 2 * MaxAge + age["B"])'
                      /\ ~inputs'.start /\ ~control'.moving => (Rest >= Held)'
    BY DEF FullB
  <2>1. CASE ~control'.moving /\ control.wasFull
    <3>1. Full
      BY <1>0, <2>1 DEF BeltInv, FullB
    <3>2. CASE inputs.start
      <4>1. Kept(DelayB + MaxAge + age["B"])
        BY <1>0, <1>1, <2>1, <3>2 DEF BeltInv, FullB, StartB
      <4>2. Kept(k)
        BY <1>6, <4>1, Weaker
      <4>3. Kept(DelayB + 2 * MaxAge + age["B"])'
        BY <1>1, <1>5, <4>2 DEF Kept, Full, Level, Way
      <4> QED
        BY <1>1, <2>1, <3>1, <3>2, <4>3, SameBottle
    <3>3. CASE ~inputs.start
      <4>1. Rest >= Held
        <5>1. CASE control.moving
          <6>1. Kept(DelayB + MaxAge + age["B"])
            BY <1>0, <2>1, <5>1 DEF BeltInv, FullB
          <6>2. Kept(k)
            BY <1>6, <6>1, Weaker
          <6> QED
            BY <1>5, <6>2, KeptRests
        <5>2. CASE ~control.moving
          BY <1>0, <2>1, <3>3, <5>2 DEF BeltInv, FullB
        <5> QED
          BY <5>1, <5>2
      <4> QED
        BY <1>1, <2>1, <3>1, <3>3, <4>1, SameBottle
    <3> QED
      BY <3>2, <3>3
  <2>2. CASE ~NoDataB /\ B("bottleFillLevel") = "full"
    <3>1. Kept(k0)
      BY <1>1, <1>3, <2>2, FullOnData
    <3>2. Kept(k) /\ Full
      BY <1>5, <3>1, Weaker DEF Kept
    <3>3. Rest >= Held
      BY <1>5, <3>2, KeptRests
    <3>4. /\ Kept(DelayB + MaxAge + age["B"])'
          /\ Kept(DelayB + 2 * MaxAge + age["B"])'
      BY <1>1, <1>5, <3>1, <3>2 DEF Kept, Full, Level, Way
    <3> QED
      BY <1>1, <3>2, <3>3, <3>4, SameBottle
  <2> QED
    BY <1>2, <2>1, <2>2
<1>10. ValveA' /\ PourA'
  <2>1. ValveA /\ PourA
    BY <1>0 DEF FillerInv
  <2> QED
    BY <1>1, <1>2, <2>1 DEF ValveA, PourA, Bound, Level, Way, Poured, Stop, Roll
<1> QED
  BY <1>7, <1>8, <1>9, <1>10

LEMMA CycleBottle ==
  ASSUME BottleLineInv, LineMargins, NEW p \in PLCs, Cycle(p)
  PROVE  BottleInv'
<1>0. LineTypeOK /\ BottleInv
  BY DEF BottleLineInv, LineInv
<1>1. values' = values
  BY DEF Cycle, plantVars
<1>2. SilentInv'
  <2>1. /\ asked' = asked \cup {p} /\ lost' = lost /\ silent' = silent
        /\ age' = [age EXCEPT ![p] = 0]
    BY DEF Cycle, network
  <2>2. \A q \in asked : age[q] <= Latency
    BY <1>0 DEF BottleInv, SilentInv
  <2> QED
    BY <1>0, <2>1, <2>2, LineAssumption DEF BottleInv, SilentInv, LineTypeOK
<1>3. ValveA' /\ PourA' /\ MoveB' /\ StartB' /\ FullB'
  BY CycleA, CycleB DEF PLCs
<1> QED
  BY <1>0, <1>1, <1>2, <1>3, BeliefsCycle, SameBottle DEF BottleInv, FillerInv, BeltInv

\* What an answer says of the bottle.
LEMMA Answers ==
  ASSUME BottleLineInv, LineMargins
  PROVE  /\ BottleZone(values.bottle) # "full" => Away \/ Bound(0)
         /\ BottleZone(values.bottle) = "full" => Kept(0)
         /\ BeltZone(values.position) = "inPlace" => ~Away /\ values.position <= Variation
         /\ BeltZone(values.position) \in {"before", "behind"} => Fine(0)
<1> USE ConstantsAreNumeric DEF Numeric
<1>0. LineTypeOK /\ SilentInv /\ Stored(values) /\ RollInv
  BY DEF BottleLineInv, BottleInv, LineInv
<1>1. /\ Level \in Nat /\ values.position \in Int /\ values.stored \in -1 .. BottleBrim
      /\ Roll(values.speed) \in Nat /\ Stop \in Int /\ Stop >= -2 * Variation
  BY <1>0, BottleNumbers
<1>2. values.bottle \in Nat
  BY <1>0, ValueTypes DEF LineTypeOK
<1>3. Way(0) = 0 /\ Way(0 + 1) = MaxSpeed /\ Poured(0) = 0
  BY WayFacts, PouredFacts
<1>4. ASSUME BottleZone(values.bottle) # "full"
      PROVE  Away \/ Bound(0)
  <2>1. values.bottle <= BottleCapacity
    BY <1>2, <1>4 DEF BottleZone
  <2>2. ~Away => values.stored <= 0
    BY <1>0, <1>1 DEF Stored, Away
  <2>3. ~Away => Level <= BottleCapacity
    BY <1>1, <1>2, <2>1, <2>2 DEF Level, Restored, None
  <2> QED
    BY <1>1, <1>3, <2>3 DEF Bound
<1>5. ASSUME BottleZone(values.bottle) = "full"
      PROVE  Kept(0)
  <2>1. values.bottle > BottleCapacity
    BY <1>2, <1>5 DEF BottleZone
  <2>2. Full
    BY <1>2, <2>1 DEF Full, Level, Restored
  <2>3. values.position >= -Variation - MaxSpeed
    BY <1>0, <1>1, <1>2, <2>1 DEF Stored
  <2> QED
    BY <1>3, <2>2, <2>3 DEF Kept
<1>6. ASSUME BeltZone(values.position) = "inPlace"
      PROVE  ~Away /\ values.position <= Variation
  <2>1. CASE values.position > Variation
    <3>1. ~(values.position < -Variation) /\ ~(10 * values.position <= 9 * Variation)
      BY <1>1, <2>1
    <3>2. BeltZone(values.position) = "before"
      BY <2>1, <3>1 DEF BeltZone
    <3> QED
      BY <1>6, <3>2
  <2>2. CASE values.position < -Variation
    <3>1. ~(values.position > Variation) /\ ~(-9 * Variation <= 10 * values.position)
      BY <1>1, <2>2
    <3>2. BeltZone(values.position) = "behind"
      BY <2>2, <3>1 DEF BeltZone
    <3> QED
      BY <1>6, <3>2
  <2> QED
    BY <1>1, <2>1, <2>2 DEF Away
<1>7. ASSUME BeltZone(values.position) \in {"before", "behind"}
      PROVE  Fine(0)
  <2>1. values.position > Variation \/ values.position < -Variation
    <3>1. SUFFICES ASSUME ~(values.position > Variation), ~(values.position < -Variation)
                   PROVE  BeltZone(values.position) \in {"inPlace", "edge"}
      BY <1>7
    <3>2. CASE -9 * Variation <= 10 * values.position /\ 10 * values.position <= 9 * Variation
      BY <3>1, <3>2 DEF BeltZone
    <3>3. CASE ~(-9 * Variation <= 10 * values.position /\ 10 * values.position <= 9 * Variation)
      BY <3>1, <3>3 DEF BeltZone
    <3> QED
      BY <3>2, <3>3
  <2>2. CASE values.position > Variation
    BY <1>1, <1>3, <2>2 DEF Fine
  <2>3. CASE values.position < -Variation
    BY <1>0, <1>1, <2>3 DEF Fine, RollInv, Rest
  <2> QED
    BY <2>1, <2>2, <2>3
<1> QED
  BY <1>4, <1>5, <1>6, <1>7

\* The answers that PLC_A gets, or misses.
LEMMA ExchangeFiller ==
  ASSUME BottleLineInv, LineMargins, NEW p \in PLCs, Exchange(p)
  PROVE  FillerInv'
<1> USE ConstantsAreNumeric DEF Numeric
<1>0. LineTypeOK /\ SilentInv /\ FillerInv
  BY DEF BottleLineInv, BottleInv, LineInv
<1>1. /\ UNCHANGED <<values, age, control>>
      /\ p \in asked /\ asked' = asked \ {p}
      /\ timedOut' = timedOut \ (LinksOf(p) \ silent)
      /\ inputs' = Commanded(p)
      /\ age["A"] \in Nat /\ age["B"] \in Nat
  BY <1>0, BottleNumbers DEF Exchange
<1>2. PICK tank \in TankReadings :
        register' = [l \in Links |-> IF l \in LinksOf(p) \ silent
                                     THEN Reading(l.sensor, tank) ELSE register[l]]
  BY DEF Exchange
<1>3. FillA'
  <2> SUFFICES ASSUME NotFull'
               PROVE  \E n \in Ages(AFill)' : (Away \/ Bound(n))'
    BY DEF FillA
  <2>1. CASE AFill \in LinksOf(p) \ silent
    <3>1. p = "A" /\ age["A"] \in Ages(AFill)'
      BY <1>0, <2>1, AgesExchange, FourLinks
    <3>2. register'[AFill] = BottleZone(values.bottle)
      BY <1>2, <2>1, FourLinks DEF Reading
    <3>3. Away \/ Bound(0)
      BY <3>2, Answers DEF NotFull
    <3>4. PICK k \in Nat : k = age["A"]
      BY <1>1
    <3>5. Away \/ Bound(k)
      BY <3>3, Weaker
    <3>6. k \in Ages(AFill)' /\ (Away \/ Bound(k))'
      BY <1>1, <3>1, <3>4, <3>5, SameBottle
    <3> QED
      BY <3>6
  <2>2. CASE AFill \notin LinksOf(p) \ silent
    <3>1. NotFull
      BY <1>1, <1>2, <2>2, FourLinks DEF NotFull
    <3>2. PICK n \in Ages(AFill) : Away \/ Bound(n)
      BY <1>0, <3>1 DEF FillerInv, FillA
    <3>3. n \in Nat /\ n \in Ages(AFill)'
      BY <1>0, <2>2, AgesExchange, AgesAreNat, FourLinks
    <3> QED
      BY <1>1, <3>2, <3>3, SameBottle
  <2> QED
    BY <2>1, <2>2
<1>4. PlaceA'
  <2> SUFFICES ASSUME NotFull', (register[APos] = "inPlace")'
               PROVE  values'.position <= Variation /\ \E n \in Ages(AFill)' : Bound(n)'
    BY DEF PlaceA
  <2>1. CASE p = "A"
    <3>1. APos \in LinksOf(p) \ silent
      BY <1>0, <2>1, FourLinks DEF SilentInv, LineMargins
    <3>2. register'[APos] = BeltZone(values.position)
      BY <1>2, <3>1, FourLinks DEF Reading
    <3>3. ~Away /\ values.position <= Variation
      BY <3>2, Answers
    <3>4. PICK n \in Ages(AFill)' : (Away \/ Bound(n))'
      BY <1>3 DEF FillA
    <3> QED
      BY <1>1, <3>3, <3>4, SameBottle
  <2>2. CASE p = "B"
    <3>1. AFill \notin LinksOf(p) \ silent /\ APos \notin LinksOf(p) \ silent
      BY <2>2, FourLinks
    <3>2. NotFull /\ register[APos] = "inPlace"
      BY <1>1, <1>2, <3>1, FourLinks DEF NotFull
    <3>3. values.position <= Variation /\ \E n \in Ages(AFill) : Bound(n)
      BY <1>0, <3>2 DEF FillerInv, PlaceA
    <3>4. PICK n \in Ages(AFill) : Bound(n)
      BY <3>3
    <3>5. n \in Nat /\ n \in Ages(AFill)'
      BY <1>0, <3>1, AgesExchange, AgesAreNat, FourLinks
    <3> QED
      BY <1>1, <3>3, <3>4, <3>5, SameBottle
  <2> QED
    BY <2>1, <2>2 DEF PLCs
<1>5. ValveA'
  BY <1>0, <1>1 DEF FillerInv, ValveA, Bound, Level, Way, Poured, Stop, Roll
<1>6. PourA'
  <2>1. CASE p = "A"
    <3>1. "A" \notin asked' /\ inputs'.flowOut = control'.flowOut
      BY <1>0, <1>1, <2>1 DEF Commanded, LineTypeOK, Inputs
    <3> QED
      BY <3>1 DEF PourA
  <2>2. CASE p = "B"
    <3>1. ("A" \in asked' <=> "A" \in asked) /\ inputs'.flowOut = inputs.flowOut
      BY <1>0, <1>1, <2>2 DEF Commanded, LineTypeOK, Inputs
    <3> QED
      BY <1>0, <1>1, <3>1 DEF FillerInv, PourA, Bound, Level, Way, Poured, Stop, Roll
  <2> QED
    BY <2>1, <2>2 DEF PLCs
<1> QED
  BY <1>3, <1>4, <1>5, <1>6 DEF FillerInv

\* The answers that PLC_B gets, or misses.
LEMMA ExchangeBelt ==
  ASSUME BottleLineInv, LineMargins, NEW p \in PLCs, Exchange(p)
  PROVE  BeltInv'
<1> USE ConstantsAreNumeric DEF Numeric
<1>0. LineTypeOK /\ SilentInv /\ BeltInv
  BY DEF BottleLineInv, BottleInv, LineInv
<1>1. /\ UNCHANGED <<values, age, control>>
      /\ p \in asked /\ asked' = asked \ {p}
      /\ timedOut' = timedOut \ (LinksOf(p) \ silent)
      /\ inputs' = Commanded(p)
      /\ age["A"] \in Nat /\ age["B"] \in Nat
  BY <1>0, BottleNumbers DEF Exchange
<1>2. PICK tank \in TankReadings :
        register' = [l \in Links |-> IF l \in LinksOf(p) \ silent
                                     THEN Reading(l.sensor, tank) ELSE register[l]]
  BY DEF Exchange
<1>3. PICK k \in Nat : k = age["B"]
  BY <1>1
<1>4. PlaceB'
  <2> SUFFICES ASSUME Believed(BPos, {"before", "behind"})'
               PROVE  \E n \in Ages(BPos)' : Fine(n)'
    BY DEF PlaceB
  <2>1. CASE BPos \in LinksOf(p) \ silent
    <3>1. k \in Ages(BPos)'
      BY <1>0, <1>3, <2>1, AgesExchange, FourLinks
    <3>2. register'[BPos] = BeltZone(values.position)
      BY <1>2, <2>1, FourLinks DEF Reading
    <3>3. Fine(k)
      BY <3>2, Answers, Weaker DEF Believed
    <3> QED
      BY <1>1, <3>1, <3>3, SameBottle
  <2>2. CASE BPos \notin LinksOf(p) \ silent
    <3>1. Believed(BPos, {"before", "behind"})
      BY <1>1, <1>2, <2>2, FourLinks DEF Believed
    <3>2. PICK n \in Ages(BPos) : Fine(n)
      BY <1>0, <3>1 DEF BeltInv, PlaceB
    <3>3. n \in Nat /\ n \in Ages(BPos)'
      BY <1>0, <2>2, AgesExchange, AgesAreNat, FourLinks
    <3> QED
      BY <1>1, <3>2, <3>3, SameBottle
  <2> QED
    BY <2>1, <2>2
<1>5. FillB'
  <2> SUFFICES ASSUME Believed(BFill, {"full"})'
               PROVE  \E n \in Ages(BFill)' : Kept(n)'
    BY DEF FillB
  <2>1. CASE BFill \in LinksOf(p) \ silent
    <3>1. k \in Ages(BFill)'
      BY <1>0, <1>3, <2>1, AgesExchange, FourLinks
    <3>2. register'[BFill] = BottleZone(values.bottle)
      BY <1>2, <2>1, FourLinks DEF Reading
    <3>3. Kept(k)
      BY <3>2, Answers, Weaker DEF Believed
    <3> QED
      BY <1>1, <3>1, <3>3, SameBottle
  <2>2. CASE BFill \notin LinksOf(p) \ silent
    <3>1. Believed(BFill, {"full"})
      BY <1>1, <1>2, <2>2, FourLinks DEF Believed
    <3>2. PICK n \in Ages(BFill) : Kept(n)
      BY <1>0, <3>1 DEF BeltInv, FillB
    <3>3. n \in Nat /\ n \in Ages(BFill)'
      BY <1>0, <2>2, AgesExchange, AgesAreNat, FourLinks
    <3> QED
      BY <1>1, <3>2, <3>3, SameBottle
  <2> QED
    BY <2>1, <2>2
<1>6. MoveB'
  BY <1>0, <1>1 DEF BeltInv, MoveB, Fine, Full, Level, Way
<1>7. CASE p = "A"
  <2>1. ("B" \in asked' <=> "B" \in asked) /\ inputs'.start = inputs.start
    BY <1>0, <1>1, <1>7 DEF Commanded, LineTypeOK, Inputs
  <2>2. StartB' /\ FullB'
    BY <1>0, <1>1, <2>1
       DEF BeltInv, StartB, FullB, Fine, Kept, Full, Level, Way, Rest, Held, Roll
  <2> QED
    BY <1>4, <1>5, <1>6, <2>2 DEF BeltInv
<1>8. CASE p = "B"
  <2>1. "B" \notin asked' /\ (inputs'.start <=> control.moving)
    BY <1>0, <1>1, <1>8 DEF Commanded, LineTypeOK, Inputs, Controls
  <2>2. StartB'
    BY <1>1, <2>1 DEF StartB
  <2>3. ASSUME control.wasFull, ~control.moving
        PROVE  Rest >= Held
    <3>1. CASE inputs.start
      <4>1. PICK n \in Nat : n = DelayB + 2 * MaxAge + age["B"]
        BY <1>1
      <4>2. Kept(n)
        BY <1>0, <2>3, <3>1, <4>1 DEF BeltInv, FullB
      <4>3. n <= HorizonB
        BY <1>0, <1>1, <1>8, <4>1, BottleNumbers DEF HorizonB
      <4> QED
        BY <4>2, <4>3, KeptRests
    <3>2. CASE ~inputs.start
      BY <1>0, <2>3, <3>2 DEF BeltInv, FullB
    <3> QED
      BY <3>1, <3>2
  <2>4. FullB'
    <3> SUFFICES ASSUME control.wasFull
                 PROVE  /\ Full'
                        /\ control.moving => Kept(DelayB + MaxAge + age["B"])'
                        /\ ~control.moving => (Rest >= Held)'
      BY <1>1, <2>1 DEF FullB
    <3>1. Full /\ (control.moving => Kept(DelayB + MaxAge + age["B"]))
      BY <1>0 DEF BeltInv, FullB
    <3>2. control.moving => Kept(DelayB + MaxAge + age["B"])'
      BY <1>1, <3>1 DEF Kept, Full, Level, Way
    <3> QED
      BY <1>1, <2>3, <3>1, <3>2, SameBottle
  <2> QED
    BY <1>4, <1>5, <1>6, <2>2, <2>4 DEF BeltInv
<1> QED
  BY <1>7, <1>8 DEF PLCs

LEMMA ExchangeBottle ==
  ASSUME BottleLineInv, LineMargins, NEW p \in PLCs, Exchange(p)
  PROVE  BottleInv'
<1>0. LineTypeOK /\ BottleInv
  BY DEF BottleLineInv, LineInv
<1>1. values' = values
  BY DEF Exchange
<1>2. SilentInv'
  BY <1>0 DEF BottleInv, SilentInv, Exchange, network
<1> QED
  BY <1>0, <1>1, <1>2, ExchangeFiller, ExchangeBelt, SameBottle DEF BottleInv

\* A timeout only ends what is believed.
LEMMA TimeoutBottle ==
  ASSUME BottleLineInv, LineMargins, NEW l \in Links, HandleTimeout(l)
  PROVE  BottleInv'
<1>0. LineTypeOK /\ SilentInv /\ BottleInv /\ FillerInv /\ BeltInv
  BY DEF BottleLineInv, BottleInv, LineInv
<1>1. /\ UNCHANGED <<values, inputs, register, asked, age, control, silent>>
      /\ timedOut' = timedOut \cup {l}
      /\ lost' \in SUBSET lost
  BY DEF HandleTimeout, plantVars, network
<1>2. SilentInv'
  BY <1>0, <1>1 DEF SilentInv
<1>3. ASSUME NEW k \in Links, k \notin timedOut', NEW n \in Ages(k)
      PROVE  k \notin timedOut /\ n \in Nat /\ n \in Ages(k)'
  BY <1>0, <1>1, <1>3, AgesTimeout, AgesAreNat
<1>4. FillA' /\ PlaceA'
  <2> SUFFICES ASSUME NotFull'
               PROVE  /\ \E n \in Ages(AFill)' : (Away \/ Bound(n))'
                      /\ register[APos] = "inPlace" =>
                           values'.position <= Variation /\ \E n \in Ages(AFill)' : Bound(n)'
    BY <1>1 DEF FillA, PlaceA
  <2>1. NotFull /\ AFill \notin timedOut'
    BY <1>1 DEF NotFull
  <2>2. \E n \in Ages(AFill)' : (Away \/ Bound(n))'
    <3>1. PICK n \in Ages(AFill) : Away \/ Bound(n)
      BY <1>0, <2>1 DEF FillerInv, FillA
    <3> QED
      BY <1>1, <1>3, <2>1, <3>1, FourLinks, SameBottle
  <2>3. ASSUME register[APos] = "inPlace"
        PROVE  values'.position <= Variation /\ \E n \in Ages(AFill)' : Bound(n)'
    <3>1. values.position <= Variation /\ \E n \in Ages(AFill) : Bound(n)
      BY <1>0, <2>1, <2>3 DEF FillerInv, PlaceA
    <3>2. PICK n \in Ages(AFill) : Bound(n)
      BY <3>1
    <3> QED
      BY <1>1, <1>3, <2>1, <3>1, <3>2, FourLinks, SameBottle
  <2> QED
    BY <2>2, <2>3
<1>5. PlaceB'
  <2> SUFFICES ASSUME Believed(BPos, {"before", "behind"})'
               PROVE  \E n \in Ages(BPos)' : Fine(n)'
    BY DEF PlaceB
  <2>1. Believed(BPos, {"before", "behind"}) /\ BPos \notin timedOut'
    BY <1>1 DEF Believed
  <2>2. PICK n \in Ages(BPos) : Fine(n)
    BY <1>0, <2>1 DEF BeltInv, PlaceB
  <2> QED
    BY <1>1, <1>3, <2>1, <2>2, FourLinks, SameBottle
<1>6. FillB'
  <2> SUFFICES ASSUME Believed(BFill, {"full"})'
               PROVE  \E n \in Ages(BFill)' : Kept(n)'
    BY DEF FillB
  <2>1. Believed(BFill, {"full"}) /\ BFill \notin timedOut'
    BY <1>1 DEF Believed
  <2>2. PICK n \in Ages(BFill) : Kept(n)
    BY <1>0, <2>1 DEF BeltInv, FillB
  <2> QED
    BY <1>1, <1>3, <2>1, <2>2, FourLinks, SameBottle
<1>7. ValveA' /\ PourA'
  BY <1>0, <1>1 DEF FillerInv, ValveA, PourA, Bound, Level, Way, Poured, Stop, Roll
<1>8. MoveB' /\ StartB' /\ FullB'
  BY <1>0, <1>1
     DEF BeltInv, MoveB, StartB, FullB, Fine, Kept, Full, Level, Way, Rest, Held, Roll
<1> QED
  BY <1>0, <1>1, <1>2, <1>4, <1>5, <1>6, <1>7, <1>8, SameBottle
     DEF BottleInv, FillerInv, BeltInv

LEMMA OtherBottle ==
  ASSUME BottleLineInv, LineMargins, Operate \/ LinksFail \/ LinksRecover \/ UNCHANGED vars
  PROVE  BottleInv'
<1>1. UNCHANGED <<values, inputs, register, timedOut, lost, asked, age, control>>
  BY DEF Operate, LinksFail, LinksRecover, vars, plantVars, controlVars
<1>2. silent' \subseteq Silent
  BY DEF Operate, LinksFail, LinksRecover, vars, network, Silent, BottleLineInv, BottleInv,
         SilentInv
<1>3. SilentInv'
  BY <1>1, <1>2 DEF BottleLineInv, BottleInv, SilentInv
<1>4. FillerInv'
  BY <1>1 DEF BottleLineInv, BottleInv, FillerInv, FillA, PlaceA, ValveA, PourA, NotFull,
              Ages, Away, Bound, Level, Way, Poured, Stop, Roll
<1>5. BeltInv'
  BY <1>1 DEF BottleLineInv, BottleInv, BeltInv, PlaceB, FillB, MoveB, StartB, FullB,
              Believed, Ages, Fine, Kept, Full, Level, Way, Rest, Held, Roll
<1> QED
  BY <1>1, <1>3, <1>4, <1>5, SameBottle DEF BottleLineInv, BottleInv

LEMMA BottleLineStep ==
  ASSUME BottleLineInv, LineMargins, [Next]_vars
  PROVE  BottleLineInv'
<1>1. LineInv
  BY DEF BottleLineInv
<1>2. LineTypeOK'
  BY <1>1, CycleTypes, ExchangeTypes, TickTypes, OtherTypes DEF Next, Work, LineInv
<1>3. PumpInv'
  BY <1>1, CyclePump, ExchangePump, TimeoutPump, TickPump, OtherPump DEF Next, Work
<1>4. BottleInv'
  BY CycleBottle, ExchangeBottle, TimeoutBottle, TickBottle, OtherBottle DEF Next, Work
<1> QED
  BY <1>2, <1>3, <1>4 DEF BottleLineInv, LineInv

\* A bottle that is taken off has come past the filler, so it is full.
LEMMA FullLeaves ==
  ASSUME BottleLineInv, LineMargins, [Next]_vars, BottleLeaves
  PROVE  values.stored > BottleCapacity
<1> USE ConstantsAreNumeric DEF Numeric
<1>0. LineTypeOK /\ SilentInv /\ Stored(values) /\ RollInv
  BY DEF BottleLineInv, BottleInv, LineInv
<1>1. /\ Level \in Nat /\ values.position \in Int /\ values.stored \in -1 .. BottleBrim
      /\ Roll(values.speed) \in Nat /\ Stop \in Int /\ Stop >= -2 * Variation
  BY <1>0, BottleNumbers
<1>2. Tick
  <2>1. values' # values
    BY <1>1 DEF BottleLeaves
  <2> QED
    BY <2>1 DEF Next, Work, Cycle, Exchange, HandleTimeout, Operate, LinksFail, LinksRecover,
                vars, plantVars
<1>3. values.position < -Variation - MaxSpeed
  BY <1>1, <1>2, TickMoves DEF BottleLeaves
<1>4. Full
  BY <1>0, <1>1, <1>3 DEF RollInv, Rest
<1>5. values.bottle = 0
  BY <1>0, <1>3 DEF Stored
<1> QED
  BY <1>1, <1>4, <1>5 DEF Full, Level, Restored

\* The line's invariant: with the margins, what each controller has read, has
\* decided and has in force fits the bottle it works on.
THEOREM BottlesAreHandledWell ==
  ASSUME LineMargins
  PROVE  Spec => []BottleLineInv
<1>1. LineInit => BottleLineInv
  BY InitTypes, InitPump, InitBottle DEF BottleLineInv, LineInv
<1>2. BottleLineInv /\ [Next]_vars => BottleLineInv'
  BY BottleLineStep
<1> QED
  BY <1>1, <1>2, PTL DEF Spec

\* Nothing is ever spilled: not over the brim of the tank or of a bottle, nor
\* beside a bottle (bottle-filling-system.cc:42, :64, :76).
THEOREM NoSpill ==
  ASSUME LineMargins
  PROVE  Spec => []NothingSpilled
<1>1. BottleLineInv => NothingSpilled
  BY DEF BottleLineInv, BottleInv
<1> QED
  BY <1>1, BottlesAreHandledWell, PTL

\* Every bottle that is taken off the belt is full, whatever the operator halts
\* and resumes and whatever requests are lost (plc-b.cc:73-113,
\* bottle-filling-system.cc:139).
THEOREM BottlesLeaveFull ==
  ASSUME LineMargins
  PROVE  Spec => OnlyFullBottlesLeave
<1>1. BottleLineInv /\ [Next]_vars => [BottleLeaves => values.stored > BottleCapacity]_vars
  BY FullLeaves
<1> QED
  BY <1>1, BottlesAreHandledWell, PTL DEF Spec, OnlyFullBottlesLeave

===============================================================================
