----------------------------- MODULE FillingLine ------------------------------
(***************************************************************************)
(* The bottle-filling line: PLC_A (pump and valve) and PLC_B (belt), each   *)
(* in a cycle of its own, with the plant between them and the operator's    *)
(* script of testbed.cc.  The two controllers exchange nothing: that a      *)
(* bottle is only moved when it is full and only filled when it stands      *)
(* still follows from what each of them sees of the plant, and when.        *)
(*                                                                         *)
(* A Tick is one plant cycle.  A PLC's cycle takes 33 to 50 ms, so one or   *)
(* two Ticks.  What a cycle asks for arrives before the next one; PLC and   *)
(* ModbusDevice look at single messages.  The links in silent may lose any  *)
(* request; the flag of a sensor then rises Timeout Ticks after it.         *)
(***************************************************************************)
EXTENDS FillingPlant

CONSTANTS
  TankMin, TankMax,     \* water_tank_threshold_min_ml, .._max_ml
  BottleCapacity,       \* water_bottle_capacity_ml
  LowSpeed,             \* the speed the operator asks for after a halt
  MaxAge,               \* Ticks between two cycles of a PLC, at most
  Latency,              \* Ticks a request is under way, at most
  Timeout,              \* timeout_time_ms, in Ticks
  Silences,             \* the sets of links that may be silent together
  MaxOutages,           \* bound: how often links fall silent
  ScriptSteps           \* bound: how much of the operator's script is run

ASSUME LineAssumption ==
  /\ TankMin \in Nat /\ TankMax \in Nat /\ TankMin <= TankMax /\ TankMax < TankCapacity
  /\ BottleCapacity \in Nat /\ BottleCapacity < BottleBrim
  /\ LowSpeed \in 1 .. MaxSpeed
  /\ MaxAge \in Nat \ {0} /\ Timeout \in Nat /\ Latency \in Nat
  /\ MaxOutages \in Nat /\ ScriptSteps \in 0 .. 4

\* Between its upper threshold and its brim the tank takes what the pump
\* delivers while a decision on old data lasts (config.h and config-helper.h:
\* 14 cycles against 12).
ASSUME MarginAssumption ==
  /\ MaxAge <= Timeout
  /\ TankMax + Timeout + 3 * MaxAge < TankCapacity

Link(p, s) == [plc |-> p, sensor |-> s]
LinksOf(p) ==
  IF p = "A"
  THEN {Link("A", s) : s \in {"tankWaterLevel", "bottleFillLevel", "bottlePosition", "waterLeak"}}
  ELSE {Link("B", s) : s \in {"bottleFillLevel", "bottlePosition"}}
PLCs == {"A", "B"}
Links == LinksOf("A") \cup LinksOf("B")

ASSUME SilencesAssumption == Silences \subseteq SUBSET Links

VARIABLES
  register,   \* the sensor data of both PLCs
  timedOut,   \* the links whose timeout input is set
  lost,       \* requests without an answer and the Ticks since each was sent
  asked,      \* the PLCs whose requests are under way
  age,        \* Ticks since the last cycle of each PLC
  control,    \* m_flowIn, m_flowOut, m_moving, m_previousBottleLevel
              \* (above the capacity or not), speed asked for
  operator,   \* hmiHaltProcess, engineSpeed, steps of the script that are done
  silent,     \* the links on which requests are lost now
  outages     \* how often links fell silent

controlVars == <<register, timedOut, lost, asked, age, control>>
network == <<silent, outages>>
vars == <<plantVars, controlVars, operator, network>>

-----------------------------------------------------------------------------
(* What the control logic tells apart in a reading.  The faults of the
   sensors are smaller than the units of the model, and no reading of the
   fill level is 1000 ml exactly, so below and above its capacity are all.  *)

TankZone(level) ==
  IF level < TankMin THEN "low" ELSE IF level > TankMax THEN "high" ELSE "between"

BottleZone(level) ==
  IF level = 0 THEN "empty" ELSE IF level <= BottleCapacity THEN "partly" ELSE "full"

BeltZone(position) ==
  CASE position > Variation -> "before"
    [] position < -Variation -> "behind"
    [] -9 * Variation <= 10 * position /\ 10 * position <= 9 * Variation -> "inPlace"
    [] OTHER -> "edge"

\* Above the top of its scale the conversion of a reading to sixteen bits
\* overflows, which is undefined (zero on common machines): a full tank may
\* read as an empty one.
TankReadings == {TankZone(values.tank)} \cup (IF values.tank = TankCapacity THEN {"low"} ELSE {})

Reading(sensor, tank) ==
  CASE sensor = "tankWaterLevel" -> tank
    [] sensor = "bottleFillLevel" -> BottleZone(values.bottle)
    [] sensor = "bottlePosition" -> BeltZone(values.position)
    [] sensor = "waterLeak" -> IF values.leak THEN "wet" ELSE "dry"

\* Zero in every register: an empty tank and bottle, and the position at the
\* lower end of the scale.
NoReading(sensor) ==
  CASE sensor = "tankWaterLevel" -> "low"
    [] sensor = "bottleFillLevel" -> "empty"
    [] sensor = "bottlePosition" -> "behind"
    [] sensor = "waterLeak" -> "dry"

LineInit ==
  /\ PlantInit
  /\ register = [l \in Links |-> NoReading(l.sensor)]
  /\ timedOut = Links
  /\ lost = {}
  /\ asked = {}
  /\ age = [p \in PLCs |-> 1]
  /\ control = [flowIn |-> FALSE, flowOut |-> FALSE, moving |-> FALSE,
                wasFull |-> FALSE, speed |-> MaxSpeed]
  /\ operator = [halt |-> FALSE, speed |-> MaxSpeed, step |-> 0]
  /\ silent = {}
  /\ outages = 0

-----------------------------------------------------------------------------
(* PLC_A: the pump has two thresholds, the valve follows the bottle.  Data
   without an answer behind it closes what depends on it.                   *)

A(s) == register[Link("A", s)]
NoDataA(s) == Link("A", s) \in timedOut

\* Without the data of the leak sensor, or with a leak, everything is closed.
Emergency == NoDataA("waterLeak") \/ A("waterLeak") = "wet"

\* (Mutant: the upper threshold is not looked at.)
PumpNeverOff ==
  /\ ~Emergency
  /\ ~NoDataA("tankWaterLevel")
  /\ A("tankWaterLevel") = "low" \/ control.flowIn

PumpOn ==
  /\ ~Emergency
  /\ ~NoDataA("tankWaterLevel")
  /\ \/ A("tankWaterLevel") = "low"
     \/ control.flowIn /\ A("tankWaterLevel") = "between"

\* (Mutant: where the bottle stands is not looked at.)
ValveAnywhere == ~Emergency /\ ~NoDataA("bottleFillLevel") /\ A("bottleFillLevel") # "full"

\* The valve opens over a bottle that stands well in place.
ValveOpen ==
  /\ ~Emergency
  /\ ~NoDataA("bottleFillLevel")
  /\ ~NoDataA("bottlePosition")
  /\ A("bottleFillLevel") # "full"
  /\ A("bottlePosition") = "inPlace"

LogicA == control' = [control EXCEPT !.flowIn = PumpOn, !.flowOut = ValveOpen]

-----------------------------------------------------------------------------
(* PLC_B: the belt moves while no bottle is in place, and when the bottle
   was full one cycle ago.                                                  *)

B(s) == register[Link("B", s)]
\* (Mutant: the belt stops only when nothing is known.)
NothingKnownB == LinksOf("B") \ timedOut = {}
NoDataB == LinksOf("B") \cap timedOut # {}

\* (Mutant: the bottle behind the filler is left to itself.)
BeltForgets == B("bottlePosition") = "before" \/ control.wasFull

BeltMoves ==
  \/ B("bottlePosition") = "before"
  \/ control.wasFull
  \/ B("bottleFillLevel") = "empty" /\ B("bottlePosition") = "behind"

LogicB ==
  control' =
    IF operator.halt \/ NoDataB
    THEN [control EXCEPT !.moving = FALSE]
    ELSE [control EXCEPT !.moving = BeltMoves,
                         !.wasFull = B("bottleFillLevel") = "full",
                         !.speed = IF BeltMoves THEN operator.speed ELSE @]

-----------------------------------------------------------------------------
\* PLC::Cycle: decide on the data that is there, send commands and requests.
Cycle(p) ==
  /\ p \notin asked
  /\ age[p] >= 1
  /\ IF p = "A" THEN LogicA ELSE LogicB
  /\ asked' = asked \cup {p}
  /\ age' = [age EXCEPT ![p] = 0]
  /\ UNCHANGED <<plantVars, register, timedOut, lost, operator, network>>

\* What a PLC's commands of a cycle make of the inputs.
Commanded(p) ==
  IF p = "A"
  THEN [inputs EXCEPT !.flowIn = control.flowIn, !.flowOut = control.flowOut]
  ELSE IF control.moving
       THEN [inputs EXCEPT !.start = TRUE, !.speed = control.speed]
       ELSE [inputs EXCEPT !.start = FALSE]

\* The commands arrive, and the sensors answer every request but the lost.
Exchange(p) ==
  /\ p \in asked
  /\ inputs' = Commanded(p)
  /\ \E tank \in TankReadings :
       register' = [l \in Links |-> IF l \in LinksOf(p) \ silent
                                    THEN Reading(l.sensor, tank) ELSE register[l]]
  /\ timedOut' = timedOut \ (LinksOf(p) \ silent)
  /\ lost' = lost \cup {[link |-> l, age |-> age[p]] : l \in LinksOf(p) \cap silent}
  /\ asked' = asked \ {p}
  /\ UNCHANGED <<values, order, age, control, operator, network>>

\* PLC::HandleTimeout for a request that was lost.
HandleTimeout(l) ==
  /\ [link |-> l, age |-> Timeout] \in lost
  /\ timedOut' = timedOut \cup {l}
  /\ lost' = lost \ {[link |-> l, age |-> Timeout]}
  /\ UNCHANGED <<plantVars, register, asked, age, control, operator, network>>

\* PhysicalSystem::Cycle.  Time passes only up to the next event that is due.
Tick ==
  /\ \A p \in PLCs : age[p] < MaxAge
  /\ \A p \in asked : age[p] < Latency
  /\ \A r \in lost : r.age < Timeout
  /\ Update
  /\ age' = [p \in PLCs |-> age[p] + 1]
  /\ lost' = {[r EXCEPT !.age = @ + 1] : r \in lost}
  /\ UNCHANGED <<register, timedOut, asked, control, operator, network>>

\* The operator's script: halt, lower the speed, resume, raise the speed.
Operate ==
  /\ operator.step < ScriptSteps
  /\ operator' =
       [halt |-> operator.step < 2,
        speed |-> IF operator.step \in {1, 2} THEN LowSpeed ELSE MaxSpeed,
        step |-> operator.step + 1]
  /\ UNCHANGED <<plantVars, controlVars, network>>

\* Links fall silent and work again at any moment.
LinksFail ==
  /\ silent = {}
  /\ outages < MaxOutages
  /\ silent' \in Silences
  /\ outages' = outages + 1
  /\ UNCHANGED <<plantVars, controlVars, operator>>

LinksRecover ==
  /\ silent # {}
  /\ silent' = {}
  /\ UNCHANGED <<plantVars, controlVars, operator, outages>>

\* Events of the devices and of the plant, whose time always comes.
Work ==
  \/ \E p \in PLCs : Cycle(p) \/ Exchange(p)
  \/ \E l \in Links : HandleTimeout(l)
  \/ Tick

Next == Work \/ Operate \/ LinksFail \/ LinksRecover

Spec == LineInit /\ [][Next]_vars

\* The scheduler always runs the next event: Work cannot go on for ever
\* without Ticks, as each of its other actions uses up what a Tick gives.
FairSpec == Spec /\ WF_vars(Work)

-----------------------------------------------------------------------------
(* PROPERTIES *)

\* Nothing is spilled: the tank does not overflow (bottle-filling-system.cc:42),
\* no bottle does (:64), and nothing is poured beside a bottle (:76).
NothingSpilled == values.spill = 0

\* The tank does not even fill to its brim: PLC_A turns off the pump in time
\* whatever messages it misses (plc-a.cc:70-97, bottle-filling-system.cc:42).
TankNeverOverflows == values.tank < TankCapacity

\* A bottle that is taken off behind the filler is full: PLC_B moves no bottle
\* that PLC_A has not finished, whatever stops and starts in between.
OnlyFullBottlesLeave == [][BottleLeaves => values.stored > BottleCapacity]_vars

\* A bottle stands where PLC_A does not fill (plc-a.cc:111 wants nine tenths of
\* the variation) and PLC_B does not move it on (plc-b.cc:73 wants all of it).
Stranded ==
  /\ BeltZone(values.position) = "edge"
  /\ values.speed = 0
  /\ ~control.moving
  /\ ~operator.halt
  /\ values.bottle < BottleCapacity

\* The line goes on producing after every script of the operator, unless a
\* bottle is stranded or the operator never lifts the halt.
Productive ==
  \/ <>Stranded
  \/ <>[](operator.halt)
  \/ []<>(BottleZone(values.bottle) = "full") /\ []<>(BeltZone(values.position) = "before")
=============================================================================
