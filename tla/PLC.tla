--------------------------------- MODULE PLC ---------------------------------
(***************************************************************************)
(* The PLC base class (model/plc.cc) on top of IndustrialDevice: a cyclic  *)
(* controller that snapshots what its sensors last said, decides, commands *)
(* its actuators and asks its sensors again, while a timeout flag per      *)
(* remote device says whether its data may be trusted.                     *)
(*                                                                         *)
(* The servers of the device are the sensors and the actuators.  A value   *)
(* is a number: 0 is the initial content of a register, and a sensor's     *)
(* values count up in the order in which they were measured, so that       *)
(* comparing two of them compares their age; as an answer, 0 is an error   *)
(* response.  An actuator has a target for each of its coils and registers *)
(* that commands are about.  The control logic is left open here: any      *)
(* decision may come out of any cycle.                                     *)
(***************************************************************************)
EXTENDS ModbusDevice, Sequences

CONSTANTS
  Sensors,        \* the servers that are sensors, the others are actuators
  Refusing,       \* the sensors that may answer with an error response
  Targets,        \* the coils and registers of the actuators
  Actuator,       \* [Targets -> the actuator it belongs to]
  Closing,        \* the target that a cycle commands last on its actuator
  CycleRequests,  \* the requests of one cycle: sequences of sensors and targets
  MaxSample,      \* bound on the number of different values of a sensor
  Commands        \* the values a target may be commanded to take

Actuators == Servers \ Sensors

ASSUME SensorsAssumption == Sensors \subseteq Servers /\ Refusing \subseteq Sensors
ASSUME TargetAssumption ==
  /\ Targets \cap Sensors = {}
  /\ Actuator \in [Targets -> Actuators]
  /\ Closing \subseteq Targets
ASSUME CycleAssumption == CycleRequests \subseteq Seq(Sensors \cup Targets)
ASSUME ValueAssumption == MaxSample \in Nat \ {0} /\ Commands \subseteq Nat

\* The device that a request of a cycle goes to.
ServerOf(p) == IF p \in Targets THEN Actuator[p] ELSE p

VARIABLES
  timeoutFlag,    \* m_discreteInputs, the "<name>timeout" part
  register,       \* m_inputRegisters and the sensor part of m_discreteInputs
  flagCache,      \* m_discreteInputsCache
  registerCache,  \* m_inputRegistersCache
  toSend,         \* what is left of the running cycle's requests
  commanded,      \* the control logic's latest decision, per target
  applied,        \* what each coil or register holds
  sample,         \* the present value at each sensor
  about,          \* per transaction: the sensor or target of its request
  payload,        \* per transaction: the value in its request or response
  early           \* targets whose latest command found no connection (history)

memory == <<timeoutFlag, register, flagCache, registerCache>>
field == <<commanded, applied, sample, about, payload, early>>
plcVars == <<memory, toSend, field>>
allVars == <<vars, plcVars>>

PLCTypeOK ==
  /\ timeoutFlag \in [Servers -> BOOLEAN]
  /\ flagCache \in [Servers -> BOOLEAN]
  /\ register \in [Sensors -> Nat]
  /\ registerCache \in [Sensors -> Nat]
  /\ toSend \in Seq(Sensors \cup Targets)
  /\ commanded \in [Targets -> Nat]
  /\ applied \in [Targets -> Nat]
  /\ sample \in [Sensors -> Nat \ {0}]
  /\ about \in [Tids -> Sensors \cup Targets \cup {"nothing"}]
  /\ payload \in [Tids -> Nat]
  /\ early \subseteq Targets

\* The constructor: every device counts as timed out until it has answered.
EverybodyTimedOut == [s \in Servers |-> TRUE]

PLCInit ==
  /\ Init
  /\ timeoutFlag = EverybodyTimedOut
  /\ flagCache = [s \in Servers |-> TRUE]
  /\ register = [s \in Sensors |-> 0]
  /\ registerCache = [s \in Sensors |-> 0]
  /\ toSend = <<>>
  /\ commanded = [c \in Targets |-> 0]
  /\ applied = [c \in Targets |-> 0]
  /\ sample = [s \in Sensors |-> 1]
  /\ about = [t \in Tids |-> "nothing"]
  /\ payload = [t \in Tids |-> 0]
  /\ early = {}

-----------------------------------------------------------------------------
(* The PLC's handlers; a cycle is one event, nothing runs in its middle. *)

\* SetInputRegisterValue, for the register of sensor s.
SetRegister(s, value) == register' = [r \in Sensors |-> IF r = s THEN value ELSE register[r]]

\* As an answer, an error response.
Refusal == 0

\* ReceiveModbusData for a response: the timeout flag of the sender is cleared,
\* also by an error response, and the data is stored, if there is any.  "Newer
\* than the current value" compares the times of two contexts that were both
\* stored before SetTime, so it always holds.
ReceiveModbusData(m) ==
  /\ timeoutFlag' = [timeoutFlag EXCEPT ![m[2]] = FALSE]
  /\ IF payload[m[1]] = Refusal THEN UNCHANGED register ELSE SetRegister(m[2], payload[m[1]])
  /\ UNCHANGED <<flagCache, registerCache>>

\* Cycle, up to its requests: snapshot, then control logic, which decides on the
\* targets that the cycle commands.  There is room for the requests: the ids of
\* outstanding messages are not reused.
Cycle ==
  /\ toSend = <<>>
  /\ flagCache' = timeoutFlag
  /\ registerCache' = register
  /\ \E q \in CycleRequests, decision \in [Targets -> Commands] :
       /\ \A i \in 1 .. Len(q) : (transactionId + i - 1) % TidMod \notin Busy
       /\ toSend' = q
       /\ commanded' = [c \in Targets |-> IF \E i \in DOMAIN q : q[i] = c THEN decision[c]
                                          ELSE commanded[c]]
  /\ UNCHANGED <<vars, timeoutFlag, register, applied, sample, about, payload, early>>

\* The rest of Cycle, ControlActuators and RequestSensorData: one request.
SendNext(v) ==
  LET p == Head(toSend)
  IN /\ toSend # <<>>
     /\ SendModbusRequest(ServerOf(p), v)
     /\ toSend' = Tail(toSend)
     /\ about' = [about EXCEPT ![transactionId] = p]
     /\ IF p \in Targets
        THEN /\ payload' = [payload EXCEPT ![transactionId] = commanded[p]]
             /\ early' = IF isConnectedServer[Actuator[p]] THEN early \ {p} ELSE early \cup {p}
        ELSE UNCHANGED <<payload, early>>
     /\ UNCHANGED <<memory, commanded, applied, sample>>

PLCReceiveResponse(m, v) ==
  /\ ReceiveResponse(m, v)
  /\ IF connectionContext[m] = "request" /\ v = "pass"
     THEN ReceiveModbusData(m) ELSE UNCHANGED memory
  /\ UNCHANGED field

PLCRunDelayedCallback(m) ==
  /\ RunDelayedCallback(m)
  /\ ReceiveModbusData(m)
  /\ UNCHANGED field

\* The discrete input "<name>timeout" of server s.  (Mutants: it is never set
\* again; it is cleared.)
KeepFlag(s) == timeoutFlag' = timeoutFlag
ClearFlag(s) == timeoutFlag' = [timeoutFlag EXCEPT ![s] = FALSE]
SetFlag(s) == timeoutFlag' = [timeoutFlag EXCEPT ![s] = TRUE]

\* PLC::HandleTimeout.
PLCHandleTimeout(m) ==
  /\ HandleTimeout(m)
  /\ SetFlag(m[2])
  /\ UNCHANGED <<register, flagCache, registerCache, field>>

-----------------------------------------------------------------------------
(* The field devices *)

\* Sensor::ReceiveModbusData: the response carries the present value, or is an
\* error response.
Answers(s) == IF s \in Refusing THEN {sample[s], Refusal} ELSE {sample[s]}
SensorAnswers(m) ==
  IF m[2] \in Sensors THEN {[payload EXCEPT ![m[1]] = x] : x \in Answers(m[2])} ELSE {payload}

\* Actuator::ReceiveModbusData: the coil or register that the command is about
\* takes the value, the others of the actuator keep theirs.
ActuatorObeys(m) ==
  [c \in Targets |-> IF c = about[m[1]] THEN payload[m[1]] ELSE applied[c]]

FieldDeviceHandles(m, v) ==
  /\ ServerHandles(m, v)
  /\ payload' \in SensorAnswers(m)
  /\ applied' = ActuatorObeys(m)
  /\ UNCHANGED <<memory, commanded, sample, about, early>>

\* The physical process moves on.
Measure(s) ==
  /\ sample[s] < MaxSample
  /\ sample' = [sample EXCEPT ![s] = @ + 1]
  /\ UNCHANGED <<vars, memory, commanded, applied, about, payload, early>>

-----------------------------------------------------------------------------

\* An event that touches neither the PLC's memory nor the field devices.
DeviceEvent ==
  /\ \/ \E s \in Servers : \/ ConnectionSucceeded(s)
                           \/ HandleConnectionFailed(s)
                           \/ HandleSocketClose(s)
                           \/ HandleSocketError(s)
     \/ \E m \in Messages : SendDelayed(m) \/ ServerSendsDelayed(m)
     \/ \E c \in Clients : HandleAccept(c)
     \/ \E c \in Clients, t \in Tids : ReceiveRequest(c, t)
  /\ UNCHANGED <<memory, field>>

Event ==
  \/ DeviceEvent
  \/ \E m \in Messages, v \in Hooks : PLCReceiveResponse(m, v) \/ FieldDeviceHandles(m, v)
  \/ \E m \in Messages : PLCRunDelayedCallback(m) \/ PLCHandleTimeout(m)
  \/ \E s \in Sensors : Measure(s)

PLCNext ==
  \/ Cycle
  \/ \E v \in Hooks : SendNext(v)
  \/ toSend = <<>> /\ UNCHANGED toSend /\ Event

\* The cycle event is always scheduled, and so are the events of the device.
PLCFairness ==
  /\ WF_allVars(Cycle)
  /\ WF_allVars(\E v \in Hooks : SendNext(v))
  /\ \A m \in Messages :
       /\ WF_allVars(toSend = <<>> /\ UNCHANGED toSend /\ PLCHandleTimeout(m))
       /\ WF_allVars(toSend = <<>> /\ UNCHANGED toSend /\ PLCRunDelayedCallback(m))

PLCSpec == PLCInit /\ [][PLCNext]_allVars
PLCFairSpec == PLCSpec /\ PLCFairness

-----------------------------------------------------------------------------
(* Why the trusted data is measured data: the inductive invariant *)

\* What may come from a sensor: what it has measured, or an error response.
From(s) == (IF s \in Refusing THEN Refusal ELSE 1) .. sample[s]

\* What a response on its way carries is a measured value, and so is what the
\* register holds while the sensor's timeout flag is clear, whether the flag is
\* the present one or the one the control logic sees.  Of a sensor that refuses
\* a request this cannot be said: the flag is cleared and nothing is stored, so
\* that the register may still hold its initial 0.
MeasuredInv ==
  /\ \A m \in delayedReply \cup toDevice \cup delayedCall :
       m[2] \in Sensors => payload[m[1]] \in From(m[2])
  /\ \A s \in Sensors : /\ register[s] \in 0 .. sample[s]
                        /\ ~timeoutFlag[s] => register[s] \in From(s)
  /\ \A s \in Sensors : ~flagCache[s] => registerCache[s] \in From(s)

PLCInv == DeviceInv /\ PLCTypeOK /\ MeasuredInv

-----------------------------------------------------------------------------
(* Properties *)

\* Sensor data never goes back in time: a response overwrites the register
\* only with a value measured later than the one it holds ("Update data only
\* if response is newer than current value").
NewestDataStays ==
  [][\A s \in Sensors : register'[s] >= register[s]]_allVars

\* No cycle is running and nothing is on its way to target c's actuator, over a
\* connection that stands.
Settled(c) ==
  /\ toSend = <<>>
  /\ isConnectedServer[Actuator[c]]
  /\ To(Captured \cup InTransit, Actuator[c]) = {}

\* Once nothing is on its way to an actuator any more, each of its targets holds
\* the control logic's latest decision about it and no older one: if that
\* decision was sent over the connection, or if its cycle commands the actuator
\* nothing after it.  Of the commands that wait for a connection the callback
\* keeps the last one; an earlier one of the same cycle is lost.
LastCommandWins ==
  \A c \in Targets :
    Settled(c) /\ (c \in Closing \/ c \notin early) => applied[c] = commanded[c]

\* A sensor whose responses stop for good ends up flagged as timed out, and
\* stays flagged.
SilenceIsDetected ==
  \A s \in Sensors :
    <>[](To(toDevice \cup delayedCall, s) = {}) => <>[]timeoutFlag[s]
=============================================================================
