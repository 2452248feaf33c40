-------------------------------- MODULE MCPLC --------------------------------
(* PLC with one sensor, or with one actuator of two targets. *)
EXTENDS PLC

CONSTANTS sensor, actuator, speed, running, hmi

JustSensor == {sensor}
JustActuator == {actuator}
Nobody == {}
JustHMI == {hmi}

\* The part of a cycle that concerns a sensor, and the part of PLC_B's that
\* concerns the motor: its speed and its start, or its stop.
AskSensor == {<<sensor>>}
CommandMotor == {<<speed, running>>, <<running>>}
SpeedAndRunning == {speed, running}
JustRunning == {running}
OfMotor == [c \in {speed, running} |-> actuator]
NoTarget == [c \in {} |-> actuator]

NoHooks == {"pass"}
DropHook == {"pass", "drop"}
AllHooks == {"pass", "delay", "drop"}
=============================================================================
