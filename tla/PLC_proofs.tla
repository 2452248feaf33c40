----------------------------- MODULE PLC_proofs ------------------------------
(* Proofs about PLC, for all its constants. *)
EXTENDS PLC, ModbusDevice_proofs

\* The head of the pending requests is about a sensor or a target, which has a
\* server; the rest are requests too.
LEMMA HeadTail ==
  ASSUME PLCTypeOK, toSend # <<>>
  PROVE  /\ Head(toSend) \in Sensors \cup Targets
         /\ ServerOf(Head(toSend)) \in Servers
         /\ Tail(toSend) \in Seq(Sensors \cup Targets)
<1>1. Head(toSend) \in Sensors \cup Targets /\ Tail(toSend) \in Seq(Sensors \cup Targets)
  BY DEF PLCTypeOK
<1>2. \A c \in Targets : Actuator[c] \in Servers
  BY TargetAssumption DEF Actuators
<1>. QED
  BY <1>1, <1>2, SensorsAssumption DEF ServerOf

\* What a sensor may send is a number between 0 and its present value.
LEMMA FromIs ==
  ASSUME PLCTypeOK, NEW s \in Sensors
  PROVE  /\ sample[s] \in Nat \ {0} /\ From(s) \subseteq 0 .. sample[s]
         /\ sample[s] \in From(s)
         /\ s \in Refusing => Refusal \in From(s) /\ From(s) = 0 .. sample[s]
         /\ Refusal \in From(s) => s \in Refusing
         /\ \A x \in From(s) : x \in Nat
BY DEF PLCTypeOK, From, Refusal

\* Every step of the PLC is a step of the device underneath, or none of its own.
LEMMA PLCStepIsDeviceStep ==
  ASSUME PLCTypeOK, [PLCNext]_allVars
  PROVE  [Next]_vars
<1>1. CASE Cycle
  BY <1>1 DEF Cycle
<1>2. CASE \E v \in Hooks : SendNext(v)
  BY <1>2, HeadTail DEF SendNext, Next
<1>3. CASE Event
  <2>1. CASE DeviceEvent
    BY <2>1 DEF DeviceEvent, Next
  <2>2. CASE \E m \in Messages, v \in Hooks : PLCReceiveResponse(m, v) \/ FieldDeviceHandles(m, v)
    BY <2>2 DEF PLCReceiveResponse, FieldDeviceHandles, Next
  <2>3. CASE \E m \in Messages : PLCRunDelayedCallback(m) \/ PLCHandleTimeout(m)
    BY <2>3 DEF PLCRunDelayedCallback, PLCHandleTimeout, Next
  <2>4. CASE \E s \in Sensors : Measure(s)
    BY <2>4 DEF Measure
  <2>. QED
    BY <1>3, <2>1, <2>2, <2>3, <2>4 DEF Event
<1>4. CASE UNCHANGED allVars
  BY <1>4 DEF allVars
<1>. QED
  BY <1>1, <1>2, <1>3, <1>4 DEF PLCNext

LEMMA PLCInitInv == PLCInit => PLCInv
<1> SUFFICES ASSUME PLCInit PROVE PLCInv
  OBVIOUS
<1>1. DeviceInv
  BY InitInv DEF PLCInit
<1>2. PLCTypeOK
  BY DEF PLCInit, PLCTypeOK, EverybodyTimedOut
<1>3. MeasuredInv
  BY SensorsAssumption DEF PLCInit, Init, MeasuredInv, From, EverybodyTimedOut
<1>. QED
  BY <1>1, <1>2, <1>3 DEF PLCInv

-----------------------------------------------------------------------------
(* Each action keeps the types and the invariant. *)

LEMMA CycleInv ==
  ASSUME PLCInv, Cycle
  PROVE  PLCTypeOK' /\ MeasuredInv'
<1>1. /\ flagCache' = timeoutFlag /\ registerCache' = register
      /\ \E q \in CycleRequests : toSend' = q
      /\ UNCHANGED <<delayedReply, toDevice, delayedCall>>
      /\ UNCHANGED <<timeoutFlag, register, applied, sample, about, payload, early>>
  BY DEF Cycle, vars
<1>2. toSend' \in Seq(Sensors \cup Targets)
  BY <1>1, CycleAssumption
<1>3. commanded' \in [Targets -> Nat]
  <2>1. PICK q \in CycleRequests, d \in [Targets -> Commands] :
          commanded' = [c \in Targets |-> IF \E i \in DOMAIN q : q[i] = c THEN d[c]
                                          ELSE commanded[c]]
    BY DEF Cycle
  <2>2. \A c \in Targets : d[c] \in Nat /\ commanded[c] \in Nat
    BY ValueAssumption DEF PLCInv, PLCTypeOK
  <2>. QED
    BY <2>1, <2>2
<1>4. PLCTypeOK'
  BY <1>1, <1>2, <1>3 DEF PLCInv, PLCTypeOK
<1>5. MeasuredInv'
  BY <1>1 DEF PLCInv, MeasuredInv, From
<1>. QED
  BY <1>4, <1>5

LEMMA SendNextInv ==
  ASSUME PLCInv, NEW v \in Hooks, SendNext(v)
  PROVE  PLCTypeOK' /\ MeasuredInv'
<1> DEFINE p == Head(toSend)
<1>0. transactionId \in Tids
  BY DEF PLCInv, DeviceInv, TypeOK
<1>1. /\ toSend' = Tail(toSend)
      /\ p \in Sensors \cup Targets /\ Tail(toSend) \in Seq(Sensors \cup Targets)
      /\ about' = [about EXCEPT ![transactionId] = p]
      /\ payload' = IF p \in Targets
                    THEN [payload EXCEPT ![transactionId] = commanded[p]] ELSE payload
      /\ early' = IF p \in Targets
                  THEN IF isConnectedServer[Actuator[p]] THEN early \ {p} ELSE early \cup {p}
                  ELSE early
      /\ UNCHANGED <<timeoutFlag, register, flagCache, registerCache>>
      /\ UNCHANGED <<commanded, applied, sample>>
  BY HeadTail DEF SendNext, PLCInv, memory
<1>2. /\ UNCHANGED <<delayedReply, toDevice, delayedCall>>
      /\ \A n \in Alive : n[1] # transactionId
  BY DEF SendNext, SendModbusRequest, Busy
<1>3. /\ payload' \in [Tids -> Nat]
      /\ about' \in [Tids -> Sensors \cup Targets \cup {"nothing"}]
      /\ early' \subseteq Targets
  BY <1>0, <1>1 DEF PLCInv, PLCTypeOK
<1>4. PLCTypeOK'
  BY <1>1, <1>3 DEF PLCInv, PLCTypeOK
<1>5. \A n \in delayedReply \cup toDevice \cup delayedCall : payload'[n[1]] = payload[n[1]]
  BY <1>1, <1>2 DEF PLCInv, PLCTypeOK, Alive, InTransit
<1>6. MeasuredInv'
  BY <1>1, <1>2, <1>5 DEF PLCInv, MeasuredInv, From
<1>. QED
  BY <1>4, <1>6

\* What a message that has been answered carries fits its sensor's register.
LEMMA StoreInv ==
  ASSUME PLCInv, NEW m \in Messages, m \in toDevice \cup delayedCall, ReceiveModbusData(m),
         toDevice' \cup delayedCall' \subseteq toDevice \cup delayedCall,
         UNCHANGED <<delayedReply, toSend>>, UNCHANGED field
  PROVE  PLCTypeOK' /\ MeasuredInv'
<1>0. m[1] \in Tids /\ m[2] \in Servers
  BY DEF Messages
<1>1. /\ timeoutFlag' = [timeoutFlag EXCEPT ![m[2]] = FALSE]
      /\ register' = IF payload[m[1]] = Refusal THEN register
                     ELSE [r \in Sensors |-> IF r = m[2] THEN payload[m[1]] ELSE register[r]]
      /\ UNCHANGED <<flagCache, registerCache>>
  BY DEF ReceiveModbusData, SetRegister
<1>2. PLCTypeOK'
  BY <1>0, <1>1 DEF PLCInv, PLCTypeOK, field
<1>3. m[2] \in Sensors => payload[m[1]] \in From(m[2])
  BY DEF PLCInv, MeasuredInv
<1>4. ASSUME NEW r \in Sensors
      PROVE  /\ register'[r] \in 0 .. sample[r]
             /\ ~timeoutFlag'[r] => register'[r] \in From(r)
  <2>1. CASE r # m[2]
    <3>1. register'[r] = register[r] /\ timeoutFlag'[r] = timeoutFlag[r]
      BY <1>0, <1>1, <2>1, SensorsAssumption DEF PLCInv, PLCTypeOK
    <3>. QED
      BY <3>1 DEF PLCInv, MeasuredInv
  <2>2. CASE r = m[2] /\ payload[m[1]] = Refusal
    <3>1. register'[r] = register[r] /\ register[r] \in 0 .. sample[r]
      BY <1>1, <2>2 DEF PLCInv, MeasuredInv
    <3>2. From(r) = 0 .. sample[r]
      BY <1>3, <2>2, FromIs DEF PLCInv
    <3>. QED
      BY <3>1, <3>2
  <2>3. CASE r = m[2] /\ payload[m[1]] # Refusal
    <3>1. register'[r] = payload[m[1]]
      BY <1>1, <2>3
    <3>. QED
      BY <1>3, <2>3, <3>1, FromIs DEF PLCInv
  <2>. QED
    BY <2>1, <2>2, <2>3
<1>5. MeasuredInv'
  BY <1>1, <1>4 DEF PLCInv, MeasuredInv, From, field
<1>. QED
  BY <1>2, <1>5

LEMMA ResponseInv ==
  ASSUME PLCInv, NEW m \in Messages, toSend' = toSend,
         PLCRunDelayedCallback(m) \/ \E v \in Hooks : PLCReceiveResponse(m, v)
  PROVE  PLCTypeOK' /\ MeasuredInv'
<1>1. /\ m \in toDevice \cup delayedCall
      /\ toDevice' \cup delayedCall' \subseteq toDevice \cup delayedCall
      /\ UNCHANGED delayedReply /\ UNCHANGED field
      /\ ReceiveModbusData(m) \/ UNCHANGED memory
  BY DEF PLCRunDelayedCallback, PLCReceiveResponse, RunDelayedCallback, ReceiveResponse,
         netVars
<1>2. CASE ReceiveModbusData(m)
  BY <1>1, <1>2, StoreInv
<1>3. CASE UNCHANGED memory
  BY <1>1, <1>3 DEF PLCInv, PLCTypeOK, MeasuredInv, From, memory, field
<1>. QED
  BY <1>1, <1>2, <1>3

LEMMA TimeoutInv ==
  ASSUME PLCInv, NEW m \in Messages, toSend' = toSend, PLCHandleTimeout(m)
  PROVE  PLCTypeOK' /\ MeasuredInv'
<1>1. /\ timeoutFlag' = [timeoutFlag EXCEPT ![m[2]] = TRUE]
      /\ UNCHANGED <<register, flagCache, registerCache, field>>
      /\ UNCHANGED <<delayedReply, toDevice, delayedCall>>
  BY DEF PLCHandleTimeout, HandleTimeout, SetFlag, netVars
<1>2. PLCTypeOK'
  BY <1>1 DEF PLCInv, PLCTypeOK, field
<1>3. \A s \in Sensors : ~timeoutFlag'[s] => ~timeoutFlag[s]
  BY <1>1, SensorsAssumption DEF PLCInv, PLCTypeOK
<1>. QED
  BY <1>1, <1>2, <1>3 DEF PLCInv, MeasuredInv, From, field

LEMMA FieldInv ==
  ASSUME PLCInv, NEW m \in Messages, NEW v \in Hooks, toSend' = toSend,
         FieldDeviceHandles(m, v)
  PROVE  PLCTypeOK' /\ MeasuredInv'
<1>0. m[1] \in Tids /\ m[2] \in Servers
  BY DEF Messages
<1>1. /\ IF m[2] \in Sensors
         THEN \E x \in Answers(m[2]) : payload' = [payload EXCEPT ![m[1]] = x]
         ELSE payload' = payload
      /\ applied' = [c \in Targets |-> IF c = about[m[1]] THEN payload[m[1]] ELSE applied[c]]
      /\ UNCHANGED memory /\ UNCHANGED <<commanded, sample, about, early>>
  BY DEF FieldDeviceHandles, SensorAnswers, ActuatorObeys
<1>a. \A s \in Sensors : Answers(s) \subseteq From(s) /\ \A x \in Answers(s) : x \in Nat
  BY FromIs DEF Answers, PLCInv
<1>2. /\ m \in toServer
      /\ toDevice' \subseteq toDevice \cup {m}
      /\ delayedReply' \subseteq delayedReply \cup {m}
      /\ delayedCall' = delayedCall
  BY DEF FieldDeviceHandles, ServerHandles, deviceVars
<1>3. PLCTypeOK'
  <2>1. payload' \in [Tids -> Nat] /\ applied' \in [Targets -> Nat]
    BY <1>0, <1>1, <1>a DEF PLCInv, PLCTypeOK
  <2>. QED
    BY <1>1, <2>1 DEF PLCInv, PLCTypeOK, memory
<1>4. ASSUME NEW n \in delayedReply' \cup toDevice' \cup delayedCall', n[2] \in Sensors
      PROVE  payload'[n[1]] \in From(n[2])
  <2>1. CASE n = m
    <3>1. payload'[m[1]] \in Answers(m[2])
      BY <1>0, <1>1, <1>4, <2>1 DEF PLCInv, PLCTypeOK
    <3>. QED
      BY <1>4, <1>a, <2>1, <3>1
  <2>2. CASE n # m
    <3>1. n \in delayedReply \cup toDevice \cup delayedCall
      BY <1>2, <2>2
    <3>2. n[1] # m[1]
      BY <1>2, <2>2, <3>1 DEF PLCInv, DeviceInv, OneMessage, Alive, InTransit
    <3>0. n[1] \in Tids /\ payload \in [Tids -> Nat]
      BY <3>1 DEF PLCInv, PLCTypeOK, DeviceInv, TypeOK, Messages
    <3>3. payload'[n[1]] = payload[n[1]]
      <4>1. CASE payload' = payload
        BY <4>1
      <4>2. CASE \E x \in Answers(m[2]) : payload' = [payload EXCEPT ![m[1]] = x]
        BY <3>0, <3>2, <4>2
      <4>. QED
        BY <1>1, <4>1, <4>2
    <3>. QED
      BY <1>4, <3>1, <3>3 DEF PLCInv, MeasuredInv
  <2>. QED
    BY <2>1, <2>2
<1>5. MeasuredInv'
  BY <1>1, <1>4 DEF PLCInv, MeasuredInv, From, memory
<1>. QED
  BY <1>3, <1>5

LEMMA MeasureInv ==
  ASSUME PLCInv, NEW s \in Sensors, toSend' = toSend, Measure(s)
  PROVE  PLCTypeOK' /\ MeasuredInv'
<1>1. /\ sample' = [sample EXCEPT ![s] = @ + 1]
      /\ UNCHANGED <<delayedReply, toDevice, delayedCall>>
      /\ UNCHANGED <<memory, commanded, applied, about, payload, early>>
  BY DEF Measure, vars
<1>2. /\ sample' \in [Sensors -> Nat \ {0}]
      /\ \A r \in Sensors : sample[r] \in Nat /\ sample'[r] \in Nat /\ sample[r] <= sample'[r]
  BY <1>1 DEF PLCInv, PLCTypeOK
<1>3. PLCTypeOK'
  BY <1>1, <1>2 DEF PLCInv, PLCTypeOK, memory
<1>4. \A r \in Sensors : From(r) \subseteq From(r)' /\ 0 .. sample[r] \subseteq 0 .. sample'[r]
  BY <1>2 DEF From, Refusal
<1>5. MeasuredInv'
  BY <1>1, <1>4 DEF PLCInv, MeasuredInv, memory
<1>. QED
  BY <1>3, <1>5

\* An event of the network or of a client moves responses, it makes none.
LEMMA DeviceEventInv ==
  ASSUME PLCInv, toSend' = toSend, DeviceEvent
  PROVE  PLCTypeOK' /\ MeasuredInv'
<1>1. UNCHANGED memory /\ UNCHANGED field
  BY DEF DeviceEvent
<1>2. delayedReply' \cup toDevice' \cup delayedCall' \subseteq
        delayedReply \cup toDevice \cup delayedCall
  BY DEF DeviceEvent, ConnectionSucceeded, HandleConnectionFailed, HandleSocketClose,
         HandleSocketError, SendDelayed, ServerSendsDelayed, HandleAccept, ReceiveRequest,
         deviceVars, netVars
<1>3. PLCTypeOK'
  BY <1>1 DEF PLCInv, PLCTypeOK, memory, field
<1>4. MeasuredInv'
  BY <1>1, <1>2 DEF PLCInv, MeasuredInv, From, memory, field
<1>. QED
  BY <1>3, <1>4

LEMMA PLCNextInv == PLCInv /\ [PLCNext]_allVars => PLCInv'
<1> SUFFICES ASSUME PLCInv, [PLCNext]_allVars PROVE PLCInv'
  OBVIOUS
<1>1. DeviceInv'
  BY PLCStepIsDeviceStep, NextInv DEF PLCInv
<1>2. CASE Cycle
  BY <1>1, <1>2, CycleInv DEF PLCInv
<1>3. CASE \E v \in Hooks : SendNext(v)
  BY <1>1, <1>3, SendNextInv DEF PLCInv
<1>4. CASE toSend' = toSend /\ Event
  <2>1. CASE DeviceEvent
    BY <1>1, <1>4, <2>1, DeviceEventInv DEF PLCInv
  <2>2. CASE \E m \in Messages, v \in Hooks : FieldDeviceHandles(m, v)
    BY <1>1, <1>4, <2>2, FieldInv DEF PLCInv
  <2>3. CASE \E m \in Messages : \/ PLCRunDelayedCallback(m)
                                 \/ \E v \in Hooks : PLCReceiveResponse(m, v)
    BY <1>1, <1>4, <2>3, ResponseInv DEF PLCInv
  <2>4. CASE \E m \in Messages : PLCHandleTimeout(m)
    BY <1>1, <1>4, <2>4, TimeoutInv DEF PLCInv
  <2>5. CASE \E s \in Sensors : Measure(s)
    BY <1>1, <1>4, <2>5, MeasureInv DEF PLCInv
  <2>. QED
    BY <1>4, <2>1, <2>2, <2>3, <2>4, <2>5 DEF Event
<1>5. CASE UNCHANGED allVars
  <2>1. PLCTypeOK'
    BY <1>5 DEF PLCInv, PLCTypeOK, allVars, plcVars, memory, field
  <2>2. MeasuredInv'
    BY <1>5 DEF PLCInv, MeasuredInv, From, allVars, vars, plcVars, memory, field
  <2>. QED
    BY <1>1, <2>1, <2>2 DEF PLCInv
<1>. QED
  BY <1>2, <1>3, <1>4, <1>5 DEF PLCNext

-----------------------------------------------------------------------------

\* The inductive invariant of the PLC, whatever its sensors and actuators, the
\* requests of its cycles, the hooks, the clients and the link faults.
THEOREM PLCCorrect == PLCSpec => []PLCInv
<1>. QED
  BY PLCInitInv, PLCNextInv, PTL DEF PLCSpec

\* A PLC is an IndustrialDevice: all that is proved of the device's requests
\* holds of the PLC's, in particular that each of them ends once.
THEOREM PLCIsADevice == PLCSpec => Spec /\ EndsOnce
<1>1. PLCInit => Init
  BY DEF PLCInit
<1>2. PLCInv /\ [PLCNext]_allVars => [Next]_vars
  BY PLCStepIsDeviceStep DEF PLCInv
<1>3. PLCSpec => Spec
  BY <1>1, <1>2, PLCCorrect, PTL DEF PLCSpec, Spec
<1>. QED
  BY <1>3, DeviceEndsOnce
=============================================================================
