--------------------------- MODULE PLCOrder_proofs ---------------------------
(***************************************************************************)
(* Proofs about the order of the PLC's messages: as long as no hook delays *)
(* one, a connection carries them in the order of their transaction ids,   *)
(* although the ids are reused.                                            *)
(***************************************************************************)
EXTENDS PLC_proofs

-----------------------------------------------------------------------------
(* The age of a transaction id, counted back from the latest one sent.  It is
   written with % in ModbusDevice; the provers do better without. *)

LEMMA NextIdIs ==
  ASSUME transactionId \in Tids
  PROVE  NextId = IF transactionId = TidMod - 1 THEN 0 ELSE transactionId + 1
BY TidModAssumption, SMT DEF Tids, NextId

LEMMA AgeIs ==
  ASSUME transactionId \in Tids, NEW t \in Tids
  PROVE  Age(t) = IF t < transactionId THEN transactionId - 1 - t
                  ELSE transactionId - 1 - t + TidMod
<1> DEFINE k == transactionId
           x == k + TidMod - 1 - t
<1>0. /\ TidMod \in Nat /\ TidMod > 0
      /\ k \in Nat /\ k < TidMod /\ t \in Nat /\ t < TidMod
  BY TidModAssumption DEF Tids
<1>1. Age(t) = x % TidMod
  BY DEF Age
<1>2. CASE t < k
  <2>1. x - TidMod \in Nat /\ x - TidMod < TidMod
    BY <1>0, <1>2
  <2>2. x % TidMod = x - TidMod
    BY <1>0, <2>1, SMT
  <2>. QED
    BY <1>0, <1>1, <1>2, <2>2
<1>3. CASE ~(t < k)
  <2>1. x \in Nat /\ x < TidMod
    BY <1>0, <1>3
  <2>2. x % TidMod = x
    BY <1>0, <2>1, SMT
  <2>. QED
    BY <1>0, <1>1, <1>3, <2>2
<1>. QED
  BY <1>2, <1>3

\* Different ids have different ages.
LEMMA AgesDiffer ==
  ASSUME transactionId \in Tids, NEW t \in Tids, NEW u \in Tids, Age(t) = Age(u)
  PROVE  t = u
<1>0. TidMod \in Nat /\ transactionId \in 0 .. TidMod - 1 /\ t \in 0 .. TidMod - 1
      /\ u \in 0 .. TidMod - 1
  BY TidModAssumption DEF Tids
<1>. QED
  BY <1>0, AgeIs

LEMMA AgeType ==
  ASSUME transactionId \in Tids, NEW t \in Tids
  PROVE  Age(t) \in Nat /\ Age(t) < TidMod
<1>0. TidMod \in Nat /\ transactionId \in 0 .. TidMod - 1 /\ t \in 0 .. TidMod - 1
  BY TidModAssumption DEF Tids
<1>. QED
  BY <1>0, AgeIs

\* The id just sent is the youngest, every other one has grown older by one.
LEMMA AgesGrow ==
  ASSUME transactionId \in Tids, transactionId' = NextId
  PROVE  \A t \in Tids : Age(t)' = IF t = transactionId THEN 0 ELSE Age(t) + 1
<1> TAKE t \in Tids
<1>0. TidMod \in Nat /\ TidMod > 0 /\ transactionId \in 0 .. TidMod - 1
      /\ t \in 0 .. TidMod - 1
  BY TidModAssumption DEF Tids
<1>1. transactionId' \in Tids
  BY NextTid
<1>2. Age(t)' = IF t < transactionId' THEN transactionId' - 1 - t
                ELSE transactionId' - 1 - t + TidMod
  <2>1. \A k \in Tids : (k + TidMod - 1 - t) % TidMod
                        = IF t < k THEN k - 1 - t ELSE k - 1 - t + TidMod
    <3> TAKE k \in Tids
    <3>1. k \in Nat /\ k < TidMod /\ t \in Nat /\ t < TidMod
      BY <1>0 DEF Tids
    <3>. QED
      BY <1>0, <3>1, SMT
  <2>. QED
    BY <1>1, <2>1 DEF Age
<1>. QED
  BY <1>0, <1>2, AgeIs, NextIdIs

LEMMA AgesStay ==
  ASSUME transactionId' = transactionId
  PROVE  \A t \in Tids : Age(t)' = Age(t)
BY DEF Age

-----------------------------------------------------------------------------
(* The inductive invariants *)

\* No event of a delay is pending.
NothingDelayed ==
  /\ delayedSend = {} /\ delayedReply = {} /\ delayedCall = {}
  /\ \A s \in Servers : \A c \in connectCallback[s] : c[2] \in Hooks

\* What the flag of a connection, its socket and its callback say agree, and
\* so do they with what the connection carries.
LinksAgree ==
  \A s \in Servers :
    /\ connectCallback[s] # {} => ~isConnectedServer[s]
    /\ link[s] = "open" => isConnectedServer[s]
    /\ link[s] = "connecting" => isConnectedServer[s] \/ connectCallback[s] # {}
    /\ To(toServer, s) # {} => isConnectedServer[s]
    /\ To(toDevice, s) # {} => link[s] = "open"

\* Every request in a connection was sent after those that have been answered.
RequestsAreNewer ==
  \A m \in toServer, n \in toDevice : m[2] = n[2] => Age(m[1]) <= Age(n[1])

\* A sensor's answer to a later request carries a later value, if it carries one.
AnswersInOrder ==
  \A m, n \in toDevice :
    m[2] = n[2] /\ m[2] \in Sensors /\ Age(n[1]) <= Age(m[1]) /\ payload[n[1]] # Refusal
      => payload[m[1]] <= payload[n[1]]

\* The register holds no value later than one that is still to come.
RegisterIsOlder ==
  \A s \in Sensors : \A m \in To(toDevice, s) :
    payload[m[1]] # Refusal => register[s] <= payload[m[1]]

OrderInv ==
  NothingDelayed /\ LinksAgree /\ RequestsAreNewer /\ AnswersInOrder /\ RegisterIsOlder

\* The requests that have not reached device a, and those of them that are
\* commands about target c.
Waiting(a) == To(Captured \cup toServer, a)
WaitingFor(c) == {m \in Waiting(Actuator[c]) : about[m[1]] = c}

\* Where no connection breaks, one that is taken to stand does.
ConnectedIsOpen == \A s \in Servers : isConnectedServer[s] => link[s] = "open"

\* A request goes to the device that it is about.
AboutFits == \A m \in Captured \cup toServer : ServerOf(about[m[1]]) = m[2]

\* Of what is left of a cycle, the closing command of an actuator comes last.
ClosesLast(q) ==
  \A i \in DOMAIN q, k \in Closing :
    q[i] \in Targets /\ Actuator[q[i]] = Actuator[k]
      => \E j \in DOMAIN q : j >= i /\ q[j] = k

\* Of the commands under way about target c the latest is the control logic's
\* decision, and so is what the target holds if there are none, unless the
\* decision was lost where it found no connection.  A target that was never
\* commanded early has no command waiting for the connection; of one that was,
\* and that is the closing one, nothing but its command waits.
Latest(c) ==
  /\ \A m \in WaitingFor(c) :
       (\A n \in WaitingFor(c) : Age(m[1]) <= Age(n[1])) => payload[m[1]] = commanded[c]
  /\ WaitingFor(c) = {} /\ (isConnectedServer[Actuator[c]] \/ c \notin early)
       => applied[c] = commanded[c]
  /\ ~isConnectedServer[Actuator[c]] =>
       IF c \in early THEN Waiting(Actuator[c]) = WaitingFor(c) ELSE WaitingFor(c) = {}

LatestIsCommanded ==
  \A c \in Targets :
    (\A i \in DOMAIN toSend : toSend[i] # c) /\ (c \in Closing \/ c \notin early) => Latest(c)

CommandInv ==
  OrderInv /\ ConnectedIsOpen /\ AboutFits /\ ClosesLast(toSend) /\ LatestIsCommanded

-----------------------------------------------------------------------------
(* Delays and connections: steps of the device *)

LEMMA NotDelayed ==
  ASSUME "delay" \notin Hooks, DeviceInv, NothingDelayed, [Next]_vars
  PROVE  NothingDelayed'
<1> USE DEF NothingDelayed
<1>1. ASSUME NEW s \in Servers, NEW v \in Hooks, SendModbusRequest(s, v)
      PROVE  NothingDelayed'
  <2>1. /\ delayedSend' = {} /\ delayedReply' = {} /\ delayedCall' = {}
        /\ connectCallback' \in {connectCallback, InstallCallback(s, transactionId, v)}
    BY <1>1 DEF SendModbusRequest
  <2>2. \A r \in Servers : \A c \in connectCallback'[r] :
          c \in connectCallback[r] \/ c = <<transactionId, v>>
    BY <2>1 DEF InstallCallback, DeviceInv, TypeOK
  <2>. QED
    BY <2>1, <2>2
<1>2. ASSUME NEW s \in Servers, ConnectionSucceeded(s)
      PROVE  NothingDelayed'
  <2>1. \A m \in Messages : m[2] = s => <<m[1], "delay">> \notin connectCallback[s]
    OBVIOUS
  <2>2. delayedSend' = {} /\ delayedReply' = {} /\ delayedCall' = {}
    BY <1>2, <2>1 DEF ConnectionSucceeded
  <2>3. \A r \in Servers : connectCallback'[r] \subseteq connectCallback[r]
    BY <1>2 DEF ConnectionSucceeded, DeviceInv, TypeOK
  <2>. QED
    BY <2>2, <2>3
<1>3. ASSUME NEW s \in Servers,
             HandleConnectionFailed(s) \/ HandleSocketClose(s) \/ HandleSocketError(s)
      PROVE  NothingDelayed'
  <2>1. delayedSend' = {} /\ delayedReply' = {} /\ delayedCall' = {}
    BY <1>3 DEF HandleConnectionFailed, HandleSocketClose, HandleSocketError
  <2>2. \A r \in Servers : connectCallback'[r] \subseteq connectCallback[r]
    BY <1>3 DEF HandleConnectionFailed, HandleSocketClose, HandleSocketError,
                DeviceInv, TypeOK
  <2>. QED
    BY <2>1, <2>2
<1>4. ASSUME NEW m \in Messages, SendDelayed(m) \/ RunDelayedCallback(m) \/ ServerSendsDelayed(m)
      PROVE  FALSE
  BY <1>4 DEF SendDelayed, RunDelayedCallback, ServerSendsDelayed
<1>5. ASSUME NEW m \in Messages, HandleTimeout(m)
      PROVE  NothingDelayed'
  BY <1>5 DEF HandleTimeout, netVars
<1>6. ASSUME NEW m \in Messages, NEW v \in Hooks, ReceiveResponse(m, v) \/ ServerHandles(m, v)
      PROVE  NothingDelayed'
  BY <1>6 DEF ReceiveResponse, ServerHandles, deviceVars
<1>7. ASSUME NEW c \in Clients, HandleAccept(c) \/ \E t \in Tids : ReceiveRequest(c, t)
      PROVE  NothingDelayed'
  BY <1>7 DEF HandleAccept, ReceiveRequest, netVars
<1>8. CASE UNCHANGED vars
  BY <1>8 DEF vars
<1>. QED
  BY <1>1, <1>2, <1>3, <1>4, <1>5, <1>6, <1>7, <1>8 DEF Next

LEMMA LinksStay ==
  ASSUME DeviceInv, NothingDelayed, LinksAgree, [Next]_vars
  PROVE  LinksAgree'
<1> USE DEF LinksAgree, To, DeviceInv, TypeOK
<1>1. ASSUME NEW s \in Servers, NEW v \in Hooks, SendModbusRequest(s, v)
      PROVE  LinksAgree'
  <2>0. toDevice' = toDevice /\ isConnectedServer' = isConnectedServer
    BY <1>1 DEF SendModbusRequest
  <2>1. CASE isConnectedServer[s]
    BY <1>1, <2>0, <2>1 DEF SendModbusRequest, SendData
  <2>2. CASE ~isConnectedServer[s]
    <3>1. /\ link' = [link EXCEPT ![s] = "connecting"]
          /\ connectCallback' = [connectCallback EXCEPT ![s] = {<<transactionId, v>>}]
          /\ toServer' = toServer
      BY <1>1, <2>2 DEF SendModbusRequest, InstallCallback
    <3>. QED
      BY <2>0, <2>2, <3>1, ZenonT(40)
  <2>. QED
    BY <2>1, <2>2
<1>2. ASSUME NEW s \in Servers, ConnectionSucceeded(s)
      PROVE  LinksAgree'
  <2>1. /\ link[s] = "connecting" /\ link' = [link EXCEPT ![s] = "open"]
        /\ isConnectedServer' = [isConnectedServer EXCEPT ![s] = @ \/ connectCallback[s] # {}]
        /\ connectCallback' = [connectCallback EXCEPT ![s] = {}]
        /\ toDevice' = toDevice
        /\ \A m \in toServer' : m \in toServer \/ m[2] = s
    BY <1>2 DEF ConnectionSucceeded
  <2>2. isConnectedServer'[s] /\ link'[s] = "open" /\ connectCallback'[s] = {}
    BY <2>1, ZenonT(40)
  <2>3. \A r \in Servers \ {s} : /\ isConnectedServer'[r] = isConnectedServer[r]
                                 /\ link'[r] = link[r]
                                 /\ connectCallback'[r] = connectCallback[r]
    BY <2>1
  <2>. QED
    BY <2>1, <2>2, <2>3
<1>3. ASSUME NEW s \in Servers, HandleConnectionFailed(s)
      PROVE  LinksAgree'
  <2>1. /\ link[s] = "connecting" /\ link' = [link EXCEPT ![s] = "closed"]
        /\ isConnectedServer' = [isConnectedServer EXCEPT ![s] = @ /\ connectCallback[s] = {}]
        /\ connectCallback' = [connectCallback EXCEPT ![s] = {}]
        /\ toDevice' = toDevice
        /\ toServer' = {m \in toServer : m[2] # s}
    BY <1>3 DEF HandleConnectionFailed
  <2>2. link'[s] = "closed" /\ connectCallback'[s] = {}
    BY <2>1
  <2>3. \A r \in Servers \ {s} : /\ isConnectedServer'[r] = isConnectedServer[r]
                                 /\ link'[r] = link[r]
                                 /\ connectCallback'[r] = connectCallback[r]
    BY <2>1
  <2>. QED
    BY <2>1, <2>2, <2>3
<1>4. ASSUME NEW s \in Servers, HandleSocketClose(s) \/ HandleSocketError(s)
      PROVE  LinksAgree'
  <2>1. /\ toServer' = {m \in toServer : m[2] # s}
        /\ toDevice' = {m \in toDevice : m[2] # s}
        /\ link[s] = "open"
        /\ \/ /\ link' = [link EXCEPT ![s] = "closed"]
              /\ isConnectedServer' = [isConnectedServer EXCEPT ![s] = FALSE]
              /\ connectCallback' = connectCallback
           \/ /\ link' = [link EXCEPT ![s] = "connecting"]
              /\ isConnectedServer' = [isConnectedServer EXCEPT ![s] = TRUE]
              /\ connectCallback' = [connectCallback EXCEPT ![s] = {}]
    BY <1>4 DEF HandleSocketClose, HandleSocketError
  <2>3. \A r \in Servers \ {s} : /\ isConnectedServer'[r] = isConnectedServer[r]
                                 /\ link'[r] = link[r]
                                 /\ connectCallback'[r] = connectCallback[r]
    BY <2>1
  <2>4. \/ link'[s] = "closed" /\ connectCallback'[s] = {}
        \/ link'[s] = "connecting" /\ isConnectedServer'[s] /\ connectCallback'[s] = {}
    BY <2>1
  <2>. QED
    BY <2>1, <2>3, <2>4
<1>5. ASSUME NEW m \in Messages, SendDelayed(m) \/ RunDelayedCallback(m) \/ ServerSendsDelayed(m)
      PROVE  FALSE
  BY <1>5 DEF SendDelayed, RunDelayedCallback, ServerSendsDelayed, NothingDelayed
<1>6. ASSUME NEW m \in Messages, NEW v \in Hooks, ReceiveResponse(m, v) \/ ServerHandles(m, v)
      PROVE  LinksAgree'
  <2>1. /\ UNCHANGED <<link, isConnectedServer, connectCallback>>
        /\ toServer' \subseteq toServer
        /\ \/ toDevice' \subseteq toDevice
           \/ link[m[2]] = "open" /\ toDevice' = toDevice \cup {m}
    <3>1. CASE ReceiveResponse(m, v)
      BY <3>1 DEF ReceiveResponse
    <3>2. CASE ServerHandles(m, v)
      BY <3>2 DEF ServerHandles, deviceVars
    <3>. QED
      BY <1>6, <3>1, <3>2
  <2>. QED
    BY <2>1
<1>7. CASE UNCHANGED <<link, isConnectedServer, connectCallback, toServer, toDevice>>
  BY <1>7
<1>8. ASSUME \/ \E m \in Messages : HandleTimeout(m)
             \/ \E c \in Clients : HandleAccept(c) \/ \E t \in Tids : ReceiveRequest(c, t)
             \/ UNCHANGED vars
      PROVE  UNCHANGED <<link, isConnectedServer, connectCallback, toServer, toDevice>>
  BY <1>8 DEF HandleTimeout, HandleAccept, ReceiveRequest, netVars, vars
<1>. QED
  BY <1>1, <1>2, <1>3, <1>4, <1>5, <1>6, <1>7, <1>8 DEF Next

-----------------------------------------------------------------------------
(* The order of the messages: steps of the PLC *)

\* What a message is, and that a value in it is no later than the sensor's.
LEMMA OnTheWay ==
  ASSUME PLCInv
  PROVE  /\ \A m \in toServer \cup toDevice : m[1] \in Tids /\ m[2] \in Servers
         /\ \A m \in toDevice : m[2] \in Sensors =>
              payload[m[1]] \in Nat /\ payload[m[1]] <= sample[m[2]]
         /\ \A s \in Sensors : /\ sample[s] \in Nat /\ register[s] \in Nat
                               /\ register[s] <= sample[s]
<1>1. \A m \in toServer \cup toDevice : m[1] \in Tids /\ m[2] \in Servers
  BY DEF PLCInv, DeviceInv, TypeOK, Messages
<1>2. \A s \in Sensors : /\ sample[s] \in Nat /\ register[s] \in Nat
                         /\ register[s] <= sample[s]
  BY DEF PLCInv, PLCTypeOK, MeasuredInv
<1>3. ASSUME NEW m \in toDevice, m[2] \in Sensors
      PROVE  payload[m[1]] \in Nat /\ payload[m[1]] <= sample[m[2]]
  <2>1. payload[m[1]] \in From(m[2])
    BY <1>3 DEF PLCInv, MeasuredInv
  <2>2. From(m[2]) \subseteq 0 .. sample[m[2]]
    BY <1>3, FromIs DEF PLCInv
  <2>. QED
    BY <1>2, <1>3, <2>1, <2>2
<1>. QED
  BY <1>1, <1>2, <1>3

\* Taking messages away keeps the order, and so does a sensor that measures.
LEMMA FewerInOrder ==
  ASSUME PLCInv, OrderInv,
         UNCHANGED <<transactionId, register, payload>>,
         toServer' \subseteq toServer, toDevice' \subseteq toDevice,
         \A s \in Sensors : sample'[s] \in Nat /\ sample[s] <= sample'[s]
  PROVE  RequestsAreNewer' /\ AnswersInOrder' /\ RegisterIsOlder'
<1>1. RequestsAreNewer'
  BY OnTheWay, AgesStay DEF OrderInv, RequestsAreNewer
<1>2. AnswersInOrder'
  <2> SUFFICES ASSUME NEW m \in toDevice', NEW n \in toDevice', m[2] = n[2], m[2] \in Sensors,
                      Age(n[1])' <= Age(m[1])', payload[n[1]] # Refusal
               PROVE  payload[m[1]] <= payload[n[1]]
    BY DEF AnswersInOrder
  <2>1. Age(n[1]) <= Age(m[1])
    BY OnTheWay, AgesStay
  <2>. QED
    BY <2>1 DEF OrderInv, AnswersInOrder
<1>3. RegisterIsOlder'
  BY DEF OrderInv, RegisterIsOlder, To
<1>. QED
  BY <1>1, <1>2, <1>3

\* A new request is younger than all there is, and carries no answer.
LEMMA SendInOrder ==
  ASSUME PLCInv, OrderInv, NEW v \in Hooks, SendNext(v)
  PROVE  RequestsAreNewer' /\ AnswersInOrder' /\ RegisterIsOlder'
<1> DEFINE m0 == <<transactionId, ServerOf(Head(toSend))>>
<1>1. /\ transactionId \in Tids /\ transactionId' = NextId
      /\ toServer' \subseteq toServer \cup {m0} /\ toDevice' = toDevice
      /\ \A n \in Alive : n[1] # transactionId
  BY DEF SendNext, SendModbusRequest, SendData, Busy, PLCInv, DeviceInv, TypeOK
<1>2. \A n \in toServer \cup toDevice : n[1] \in Tids /\ n[1] # transactionId
  BY <1>1, OnTheWay DEF Alive, InTransit
<1>3. \A n \in toServer \cup toDevice : Age(n[1]) \in Nat /\ Age(n[1])' = Age(n[1]) + 1
  BY <1>1, <1>2, AgesGrow, AgeType
<1>5. \A n \in toDevice : payload'[n[1]] = payload[n[1]]
  BY <1>2 DEF SendNext, PLCInv, PLCTypeOK
<1>6. RequestsAreNewer'
  <2> SUFFICES ASSUME NEW m \in toServer', NEW n \in toDevice, m[2] = n[2]
               PROVE  Age(m[1])' <= Age(n[1])'
    BY <1>1 DEF RequestsAreNewer
  <2>1. CASE m \in toServer
    <3>1. Age(m[1]) <= Age(n[1])
      BY <2>1 DEF OrderInv, RequestsAreNewer
    <3>. QED
      BY <1>3, <2>1, <3>1
  <2>2. CASE m = m0
    <3>1. Age(m[1])' = 0
      BY <1>1, <2>2, AgesGrow
    <3>. QED
      BY <1>3, <3>1
  <2>. QED
    BY <1>1, <2>1, <2>2
<1>7. AnswersInOrder'
  <2> SUFFICES ASSUME NEW m \in toDevice, NEW n \in toDevice, m[2] = n[2], m[2] \in Sensors,
                      Age(n[1])' <= Age(m[1])', payload[n[1]] # Refusal
               PROVE  payload[m[1]] <= payload[n[1]]
    BY <1>1, <1>5 DEF AnswersInOrder
  <2>1. Age(n[1]) <= Age(m[1])
    BY <1>3
  <2>. QED
    BY <2>1 DEF OrderInv, AnswersInOrder
<1>8. RegisterIsOlder'
  BY <1>1, <1>5 DEF SendNext, memory, OrderInv, RegisterIsOlder, To
<1>. QED
  BY <1>6, <1>7, <1>8

\* A request that waited for its connection meets no answer on it.
LEMMA ConnectInOrder ==
  ASSUME PLCInv, OrderInv, NEW s \in Servers, ConnectionSucceeded(s),
         UNCHANGED memory, UNCHANGED field
  PROVE  RequestsAreNewer' /\ AnswersInOrder' /\ RegisterIsOlder'
<1>1. /\ UNCHANGED <<transactionId, register, payload, sample, toDevice>>
      /\ link[s] = "connecting"
      /\ \A m \in toServer' : m \in toServer \/ m[2] = s
  BY DEF ConnectionSucceeded, memory, field
<1>2. \A n \in toDevice : n[2] # s
  BY <1>1 DEF OrderInv, LinksAgree, To
<1>3. \A m \in toServer', n \in toDevice' : m[2] = n[2] => m \in toServer /\ n \in toDevice
  BY <1>1, <1>2
<1>4. RequestsAreNewer'
  BY <1>1, <1>3, OnTheWay, AgesStay DEF OrderInv, RequestsAreNewer
<1>5. AnswersInOrder'
  <2> SUFFICES ASSUME NEW m \in toDevice, NEW n \in toDevice, m[2] = n[2], m[2] \in Sensors,
                      Age(n[1])' <= Age(m[1])', payload[n[1]] # Refusal
               PROVE  payload[m[1]] <= payload[n[1]]
    BY <1>1 DEF AnswersInOrder
  <2>1. Age(n[1]) <= Age(m[1])
    BY <1>1, OnTheWay, AgesStay
  <2>. QED
    BY <2>1 DEF OrderInv, AnswersInOrder
<1>6. RegisterIsOlder'
  BY <1>1 DEF OrderInv, RegisterIsOlder, To
<1>. QED
  BY <1>4, <1>5, <1>6

\* A sensor that answers the oldest request answers with its latest value.
LEMMA AnswerInOrder ==
  ASSUME PLCInv, OrderInv, "delay" \notin Hooks,
         NEW m0 \in Messages, NEW v \in Hooks, FieldDeviceHandles(m0, v)
  PROVE  RequestsAreNewer' /\ AnswersInOrder' /\ RegisterIsOlder'
<1>0. m0[1] \in Tids /\ m0[2] \in Servers
  BY DEF Messages
<1>1. /\ m0 \in toServer /\ toServer' = toServer \ {m0}
      /\ \A m \in toDevice' : m \in toDevice \/ m = m0
      /\ \A n \in toServer : n[2] = m0[2] => Age(n[1]) <= Age(m0[1])
      /\ transactionId' = transactionId
  BY DEF FieldDeviceHandles, ServerHandles, InOrder, To, deviceVars
<1>2. /\ UNCHANGED <<register, sample>>
      /\ IF m0[2] \in Sensors
         THEN \E x \in Answers(m0[2]) : payload' = [payload EXCEPT ![m0[1]] = x]
         ELSE payload' = payload
  BY DEF FieldDeviceHandles, SensorAnswers, memory
<1>3. \A n \in toDevice : n[1] # m0[1]
  BY <1>1 DEF PLCInv, DeviceInv, OneMessage, OnePlace, Alive, InTransit
<1>4. /\ \A n \in toDevice : payload'[n[1]] = payload[n[1]]
      /\ m0[2] \in Sensors => payload'[m0[1]] \in {sample[m0[2]], Refusal}
  <2>1. payload \in [Tids -> Nat] /\ \A n \in toDevice : n[1] \in Tids
    BY OnTheWay DEF PLCInv, PLCTypeOK
  <2>2. CASE m0[2] \in Sensors
    <3>1. PICK x \in Answers(m0[2]) : payload' = [payload EXCEPT ![m0[1]] = x]
      BY <1>2, <2>2
    <3>2. x \in {sample[m0[2]], Refusal}
      BY DEF Answers
    <3>. QED
      BY <1>0, <1>3, <2>1, <3>1, <3>2
  <2>3. CASE m0[2] \notin Sensors
    BY <1>2, <2>3
  <2>. QED
    BY <2>2, <2>3
<1>5. \A n \in toServer \cup toDevice \cup {m0} :
        n[1] \in Tids /\ Age(n[1])' = Age(n[1]) /\ Age(n[1]) \in Nat
  BY <1>0, <1>1, OnTheWay, AgesStay, AgeType DEF PLCInv, DeviceInv, TypeOK
<1>6. \A n \in toDevice : n[2] = m0[2] => Age(m0[1]) < Age(n[1])
  <2> TAKE n \in toDevice
  <2> HAVE n[2] = m0[2]
  <2>1. Age(m0[1]) <= Age(n[1])
    BY <1>1 DEF OrderInv, RequestsAreNewer
  <2>2. Age(m0[1]) # Age(n[1])
    BY <1>3, <1>5, AgesDiffer DEF PLCInv, DeviceInv, TypeOK
  <2>. QED
    BY <1>5, <2>1, <2>2
<1>7. RequestsAreNewer'
  <2> SUFFICES ASSUME NEW m \in toServer', NEW n \in toDevice', m[2] = n[2]
               PROVE  Age(m[1]) <= Age(n[1])
    BY <1>1, <1>5 DEF RequestsAreNewer
  <2>. QED
    BY <1>1 DEF OrderInv, RequestsAreNewer
<1>8. AnswersInOrder'
  <2> SUFFICES ASSUME NEW m \in toDevice', NEW n \in toDevice', m[2] = n[2], m[2] \in Sensors,
                      Age(n[1])' <= Age(m[1])', payload'[n[1]] # Refusal
               PROVE  payload'[m[1]] <= payload'[n[1]]
    BY DEF AnswersInOrder
  <2>1. Age(n[1]) <= Age(m[1])
    BY <1>1, <1>5
  <2>2. CASE m \in toDevice /\ n \in toDevice
    BY <1>4, <2>1, <2>2 DEF OrderInv, AnswersInOrder
  <2>3. CASE m \in toDevice /\ n = m0
    <3>1. payload[m[1]] <= sample[m0[2]] /\ payload'[n[1]] = sample[m0[2]]
      BY <1>4, <2>3, OnTheWay
    <3>. QED
      BY <1>4, <2>3, <3>1
  <2>4. CASE m = m0 /\ n \in toDevice
    <3>1. Age(m[1]) < Age(n[1])
      BY <1>6, <2>4
    <3>2. Age(m[1]) \in Nat /\ Age(n[1]) \in Nat
      BY <1>5, <2>4
    <3>. QED
      BY <2>1, <3>1, <3>2
  <2>5. CASE m = m0 /\ n = m0
    <3>1. payload'[m0[1]] \in Nat
      BY <1>4, <2>5, OnTheWay DEF Refusal
    <3>. QED
      BY <2>5, <3>1
  <2>. QED
    BY <1>1, <2>2, <2>3, <2>4, <2>5
<1>9. RegisterIsOlder'
  <2> SUFFICES ASSUME NEW s \in Sensors, NEW m \in toDevice', m[2] = s,
                      payload'[m[1]] # Refusal
               PROVE  register[s] <= payload'[m[1]]
    BY <1>2 DEF RegisterIsOlder, To
  <2>1. CASE m \in toDevice
    BY <1>4, <2>1 DEF OrderInv, RegisterIsOlder, To
  <2>2. CASE m = m0
    <3>1. payload'[m[1]] = sample[s]
      BY <1>4, <2>2
    <3>. QED
      BY <3>1, OnTheWay
  <2>. QED
    BY <1>1, <2>1, <2>2
<1>. QED
  BY <1>7, <1>8, <1>9

\* The oldest answer carries no value later than those behind it.
LEMMA StoreInOrder ==
  ASSUME PLCInv, OrderInv, "delay" \notin Hooks,
         NEW m0 \in Messages, NEW v \in Hooks, PLCReceiveResponse(m0, v)
  PROVE  /\ RequestsAreNewer' /\ AnswersInOrder' /\ RegisterIsOlder'
         /\ \A s \in Sensors : register'[s] >= register[s]
<1>1. /\ m0 \in toDevice /\ toDevice' = toDevice \ {m0} /\ toServer' = toServer
      /\ \A n \in toDevice : n[2] = m0[2] => Age(n[1]) <= Age(m0[1])
      /\ transactionId' = transactionId
      /\ UNCHANGED <<payload, sample>>
      /\ ReceiveModbusData(m0) \/ UNCHANGED memory
  BY DEF PLCReceiveResponse, ReceiveResponse, InOrder, To, field
<1>2. CASE register' = register
  <2>1. \A s \in Sensors : register'[s] >= register[s]
    BY <1>2, OnTheWay
  <2>3. \A s \in Sensors : sample'[s] \in Nat /\ sample[s] <= sample'[s]
    BY <1>1, OnTheWay
  <2>. QED
    BY <1>1, <1>2, <2>1, <2>3, FewerInOrder
<1>3. CASE ReceiveModbusData(m0) /\ payload[m0[1]] # Refusal
  <2>1. register' = [r \in Sensors |-> IF r = m0[2] THEN payload[m0[1]] ELSE register[r]]
    BY <1>3 DEF ReceiveModbusData, SetRegister
  <2>2. m0[2] \in Sensors =>
          /\ register[m0[2]] <= payload[m0[1]]
          /\ \A n \in To(toDevice, m0[2]) :
               payload[n[1]] # Refusal => payload[m0[1]] <= payload[n[1]]
    BY <1>1, <1>3 DEF OrderInv, RegisterIsOlder, AnswersInOrder, To
  <2>3. \A s \in Sensors : register'[s] >= register[s]
    BY <2>1, <2>2, <1>1, OnTheWay
  <2>4. RegisterIsOlder'
    BY <1>1, <2>1, <2>2 DEF OrderInv, RegisterIsOlder, To
  <2>5. RequestsAreNewer'
    BY <1>1, OnTheWay, AgesStay DEF OrderInv, RequestsAreNewer
  <2>6. AnswersInOrder'
    <3> SUFFICES ASSUME NEW m \in toDevice', NEW n \in toDevice', m[2] = n[2],
                        m[2] \in Sensors, Age(n[1])' <= Age(m[1])', payload[n[1]] # Refusal
                 PROVE  payload[m[1]] <= payload[n[1]]
      BY <1>1 DEF AnswersInOrder
    <3>1. Age(n[1]) <= Age(m[1])
      BY <1>1, OnTheWay, AgesStay
    <3>. QED
      BY <1>1, <3>1 DEF OrderInv, AnswersInOrder
  <2>. QED
    BY <2>3, <2>4, <2>5, <2>6
<1>. QED
  BY <1>1, <1>2, <1>3 DEF ReceiveModbusData, memory

LEMMA OrderInit == PLCInit => OrderInv
<1> SUFFICES ASSUME PLCInit PROVE OrderInv
  OBVIOUS
<1>1. NothingDelayed
  BY DEF PLCInit, Init, NothingDelayed
<1>2. LinksAgree
  BY DEF PLCInit, Init, LinksAgree, To
<1>3. RequestsAreNewer /\ AnswersInOrder
  BY DEF PLCInit, Init, RequestsAreNewer, AnswersInOrder
<1>4. RegisterIsOlder
  BY DEF PLCInit, Init, RegisterIsOlder, To
<1>. QED
  BY <1>1, <1>2, <1>3, <1>4 DEF OrderInv

\* An event that touches neither the values nor the counter, other than a
\* connection that is established, only takes messages away.
LEMMA OtherInOrder ==
  ASSUME PLCInv, OrderInv,
         \/ /\ UNCHANGED memory /\ UNCHANGED field
            /\ \E s \in Servers : \/ HandleConnectionFailed(s) \/ HandleSocketClose(s)
                                  \/ HandleSocketError(s)
         \/ /\ UNCHANGED memory /\ UNCHANGED field
            /\ \E c \in Clients : HandleAccept(c) \/ \E t \in Tids : ReceiveRequest(c, t)
         \/ \E m \in Messages : PLCHandleTimeout(m)
         \/ Cycle
         \/ \E s \in Sensors : Measure(s)
         \/ UNCHANGED allVars
  PROVE  RequestsAreNewer' /\ AnswersInOrder' /\ RegisterIsOlder'
<1>1. /\ UNCHANGED <<transactionId, register, payload>>
      /\ toServer' \subseteq toServer /\ toDevice' \subseteq toDevice
  BY DEF HandleConnectionFailed, HandleSocketClose, HandleSocketError, HandleAccept,
         ReceiveRequest, PLCHandleTimeout, HandleTimeout, Cycle, Measure, memory, field,
         netVars, vars, plcVars, allVars
<1>2. \A s \in Sensors : sample'[s] \in Nat /\ sample[s] <= sample'[s]
  <2>1. CASE \E s \in Sensors : Measure(s)
    BY <2>1, OnTheWay DEF Measure, PLCInv, PLCTypeOK
  <2>2. CASE sample' = sample
    BY <2>2, OnTheWay
  <2>. QED
    BY <2>1, <2>2 DEF PLCHandleTimeout, Cycle, field, plcVars, allVars
<1>. QED
  BY <1>1, <1>2, FewerInOrder

\* One step of the PLC: the order is kept, and no register goes back.
LEMMA StepInOrder ==
  ASSUME "delay" \notin Hooks, PLCInv, OrderInv, [PLCNext]_allVars
  PROVE  OrderInv' /\ \A s \in Sensors : register'[s] >= register[s]
<1> DEFINE Kept == RequestsAreNewer' /\ AnswersInOrder' /\ RegisterIsOlder'
           Rises == \A s \in Sensors : register'[s] >= register[s]
<1> HIDE DEF Kept, Rises
<1>1. NothingDelayed' /\ LinksAgree'
  BY PLCStepIsDeviceStep, NotDelayed, LinksStay DEF PLCInv, OrderInv
<1> SUFFICES Kept /\ Rises
  BY <1>1 DEF OrderInv, Kept, Rises
<1>2. register' = register => Rises
  BY OnTheWay DEF Rises
<1>3. CASE Cycle
  BY <1>2, <1>3, OtherInOrder DEF Cycle, Kept
<1>4. CASE \E v \in Hooks : SendNext(v)
  <2>1. register' = register
    BY <1>4 DEF SendNext, memory
  <2>. QED
    BY <1>2, <1>4, <2>1, SendInOrder DEF Kept
<1>5. CASE Event
  <2>1. CASE DeviceEvent
    <3>1. UNCHANGED memory /\ UNCHANGED field /\ register' = register
      BY <2>1 DEF DeviceEvent, memory
    <3>2. ASSUME NEW s \in Servers, ConnectionSucceeded(s) PROVE Kept
      BY <3>1, <3>2, ConnectInOrder DEF Kept
    <3>3. ASSUME NEW m \in Messages, SendDelayed(m) \/ ServerSendsDelayed(m) PROVE FALSE
      BY <3>3 DEF SendDelayed, ServerSendsDelayed, OrderInv, NothingDelayed
    <3>. QED
      BY <1>2, <2>1, <3>1, <3>2, <3>3, OtherInOrder DEF DeviceEvent, Kept
  <2>2. CASE \E m \in Messages, v \in Hooks : PLCReceiveResponse(m, v)
    BY <2>2, StoreInOrder DEF Kept, Rises
  <2>3. CASE \E m \in Messages, v \in Hooks : FieldDeviceHandles(m, v)
    <3>1. register' = register
      BY <2>3 DEF FieldDeviceHandles, memory
    <3>. QED
      BY <1>2, <2>3, <3>1, AnswerInOrder DEF Kept
  <2>4. CASE \E m \in Messages : PLCRunDelayedCallback(m)
    BY <2>4 DEF PLCRunDelayedCallback, RunDelayedCallback, OrderInv, NothingDelayed
  <2>5. CASE (\E m \in Messages : PLCHandleTimeout(m)) \/ \E s \in Sensors : Measure(s)
    <3>1. register' = register
      BY <2>5 DEF PLCHandleTimeout, Measure, memory
    <3>. QED
      BY <1>2, <2>5, <3>1, OtherInOrder DEF Kept
  <2>. QED
    BY <1>5, <2>1, <2>2, <2>3, <2>4, <2>5 DEF Event
<1>6. CASE UNCHANGED allVars
  <2>1. register' = register
    BY <1>6 DEF allVars, plcVars, memory
  <2>. QED
    BY <1>2, <1>6, <2>1, OtherInOrder DEF Kept
<1>. QED
  BY <1>3, <1>4, <1>5, <1>6 DEF PLCNext

\* Unless a hook delays messages, the data of a sensor never goes back in time:
\* a response that arrives later was measured later ("Update data only if
\* response is newer than current value", plc.cc:86, where the comparison always holds).
\* Requests may be dropped, connections may break, ids are used again.
THEOREM DataStaysNewest ==
  ASSUME "delay" \notin Hooks
  PROVE  PLCSpec => NewestDataStays
<1>1. PLCInit => OrderInv
  BY OrderInit
<1>2. PLCInv /\ OrderInv /\ [PLCNext]_allVars => OrderInv'
  BY StepInOrder
<1>3. PLCInv /\ OrderInv /\ [PLCNext]_allVars
        => [\A s \in Sensors : register'[s] >= register[s]]_allVars
  BY StepInOrder
<1>4. PLCSpec => []OrderInv
  BY <1>1, <1>2, PLCCorrect, PTL DEF PLCSpec
<1>. QED
  BY <1>3, <1>4, PLCCorrect, PTL DEF PLCSpec, NewestDataStays

-----------------------------------------------------------------------------
(* The latest command *)

\* Where no connection breaks, none that is taken to stand does not.
LEMMA ConnectedStaysOpen ==
  ASSUME LinkFaults = FALSE, PLCInv, LinksAgree, ConnectedIsOpen, [PLCNext]_allVars
  PROVE  ConnectedIsOpen'
<1> USE DEF ConnectedIsOpen
<1>0. [Next]_vars /\ TypeOK
  BY PLCStepIsDeviceStep DEF PLCInv, DeviceInv
<1>1. ASSUME NEW s \in Servers, NEW v \in Hooks, SendModbusRequest(s, v)
      PROVE  ConnectedIsOpen'
  BY <1>0, <1>1 DEF SendModbusRequest, TypeOK
<1>2. ASSUME NEW s \in Servers, ConnectionSucceeded(s)
      PROVE  ConnectedIsOpen'
  BY <1>0, <1>2 DEF ConnectionSucceeded, TypeOK
<1>3. ASSUME NEW s \in Servers, HandleConnectionFailed(s)
      PROVE  ConnectedIsOpen'
  BY <1>0, <1>3 DEF HandleConnectionFailed, TypeOK
<1>4. CASE UNCHANGED <<link, isConnectedServer>>
  BY <1>4
<1>. QED
  BY <1>0, <1>1, <1>2, <1>3, <1>4
  DEF Next, HandleSocketClose, HandleSocketError, SendDelayed, RunDelayedCallback,
      HandleTimeout, ServerSendsDelayed, ReceiveResponse, ServerHandles, HandleAccept,
      ReceiveRequest, netVars, deviceVars, vars

LEMMA WaitingIsAlive ==
  ASSUME PLCInv, NEW a
  PROVE  \A m \in Waiting(a) : m \in Alive /\ m \in Messages /\ m[1] \in Tids /\ m[2] = a
BY DEF PLCInv, DeviceInv, TypeOK, Waiting, Captured, To, Alive, InTransit, Messages

\* What waits stays, and what the commands are: so does the latest of them.
LEMMA LatestStays ==
  ASSUME PLCInv, NEW c \in Targets, Latest(c), NEW a, a = Actuator[c],
         transactionId' = transactionId, Waiting(a)' = Waiting(a),
         \A m \in Waiting(a) : payload'[m[1]] = payload[m[1]] /\ about'[m[1]] = about[m[1]],
         commanded'[c] = commanded[c], applied'[c] = applied[c],
         c \in early' <=> c \in early,
         isConnectedServer[a] => isConnectedServer'[a],
         isConnectedServer'[a] => isConnectedServer[a] \/ Waiting(a) # {}
  PROVE  Latest(c)'
<1>1. \A m \in Waiting(a) : Age(m[1])' = Age(m[1])
  BY WaitingIsAlive, AgesStay
<1>2. WaitingFor(c) \subseteq Waiting(a) /\ WaitingFor(c)' = WaitingFor(c)
  BY DEF WaitingFor
<1>3. \A m \in WaitingFor(c)' :
        (\A n \in WaitingFor(c)' : Age(m[1])' <= Age(n[1])') => payload'[m[1]] = commanded'[c]
  BY <1>1, <1>2 DEF Latest
<1>4. ASSUME WaitingFor(c)' = {}, isConnectedServer'[a] \/ c \notin early'
      PROVE  applied'[c] = commanded'[c]
  <2>1. CASE isConnectedServer[a] \/ c \notin early
    BY <1>2, <1>4, <2>1 DEF Latest
  <2>2. CASE ~isConnectedServer[a] /\ c \in early
    BY <1>2, <1>4, <2>2 DEF Latest
  <2>. QED
    BY <2>1, <2>2
<1>5. ~isConnectedServer'[a] =>
        IF c \in early' THEN Waiting(a)' = WaitingFor(c)' ELSE WaitingFor(c)' = {}
  BY <1>2 DEF Latest
<1>. QED
  BY <1>3, <1>4, <1>5 DEF Latest

\* Where nothing new waits and what waits is about the same, it fits.
LEMMA AboutStays ==
  ASSUME AboutFits, Captured' \cup toServer' \subseteq Captured \cup toServer, about' = about
  PROVE  AboutFits'
<1> SUFFICES ASSUME NEW m \in Captured' \cup toServer'
             PROVE  (ServerOf(about[m[1]]) = m[2])'
  BY DEF AboutFits
<1>1. ServerOf(about[m[1]]) = m[2]
  BY DEF AboutFits
<1>. QED
  BY <1>1 DEF ServerOf

\* The request of a cycle waits for its server, whether there is a connection or
\* one has to be established first; then it is all that waits.
LEMMA SentWaits ==
  ASSUME Hooks = {"pass"}, PLCInv, OrderInv, ConnectedIsOpen, NEW v \in Hooks, SendNext(v),
         NEW s, s = ServerOf(Head(toSend)), NEW t, t = transactionId
  PROVE  /\ <<t, s>> \in Waiting(s)'
         /\ \A n \in Waiting(s)' : n = <<t, s>> \/ n \in Waiting(s)
         /\ isConnectedServer[s] => Waiting(s) \subseteq Waiting(s)'
         /\ ~isConnectedServer[s] => Waiting(s)' = {<<t, s>>}
         /\ \A a \in Servers \ {s} : Waiting(a)' = Waiting(a)
         /\ \A n \in Captured' \cup toServer' : n = <<t, s>> \/ n \in Captured \cup toServer
<1> DEFINE m0 == <<t, s>>
<1>0. /\ s \in Servers /\ t \in Tids /\ m0 \in Messages /\ TypeOK
      /\ v = "pass" /\ SendModbusRequest(s, v)
  BY HeadTail DEF PLCInv, DeviceInv, TypeOK, Messages, SendNext
<1>1. /\ m0 \in Captured' \cup toServer'
      /\ \A n \in Captured' \cup toServer' : n = m0 \/ n \in Captured \cup toServer
      /\ \A n \in Captured \cup toServer : n[2] # s => n \in Captured' \cup toServer'
      /\ isConnectedServer[s] => Captured \cup toServer \subseteq Captured' \cup toServer'
      /\ ~isConnectedServer[s] => \A n \in Captured' \cup toServer' : n[2] = s => n = m0
  <2>1. CASE isConnectedServer[s]
    <3>1. toServer' = toServer \cup {m0} /\ connectCallback' = connectCallback
      BY <1>0, <2>1 DEF SendModbusRequest, SendData, ConnectedIsOpen
    <3>2. Captured' = Captured
      BY <3>1 DEF Captured
    <3>. QED
      BY <2>1, <3>1, <3>2
  <2>2. CASE ~isConnectedServer[s]
    <3>1. /\ connectCallback' = [connectCallback EXCEPT ![s] = {<<t, v>>}]
          /\ toServer' = toServer
      BY <1>0, <2>2 DEF SendModbusRequest, InstallCallback
    <3>2. /\ connectCallback'[s] = {<<t, v>>}
          /\ \A r \in Servers \ {s} : connectCallback'[r] = connectCallback[r]
      BY <1>0, <3>1 DEF TypeOK
    <3>3. m0 \in Captured'
      BY <1>0, <3>2 DEF Captured, Verdicts
    <3>4. ASSUME NEW n \in Messages
          PROVE  /\ n[2] # s => (n \in Captured' <=> n \in Captured)
                 /\ n[2] = s /\ n \in Captured' => n = m0
      <4>1. n = <<n[1], n[2]>> /\ n[2] \in Servers
        BY DEF Messages
      <4>2. CASE n[2] # s
        <5>1. connectCallback'[n[2]] = connectCallback[n[2]]
          BY <3>2, <4>1, <4>2
        <5>. QED
          BY <4>2, <5>1 DEF Captured
      <4>3. CASE n[2] = s
        <5>1. ASSUME n \in Captured' PROVE n[1] = t
          <6>1. PICK w \in Verdicts : <<n[1], w>> \in connectCallback'[n[2]]
            BY <5>1 DEF Captured
          <6>2. <<n[1], w>> = <<t, v>>
            BY <3>2, <4>3, <6>1
          <6>. QED
            BY <6>2
        <5>. QED
          BY <4>1, <4>3, <5>1
      <4>. QED
        BY <4>2, <4>3
    <3>5. Captured' \subseteq Messages /\ Captured \subseteq Messages
      BY DEF Captured
    <3>6. \A n \in toServer : n[2] # s
      BY <1>0, <2>2 DEF OrderInv, LinksAgree, To
    <3>. QED
      BY <2>2, <3>1, <3>3, <3>4, <3>5, <3>6
  <2>. QED
    BY <2>1, <2>2
<1>2. m0[2] = s
  OBVIOUS
<1> HIDE DEF m0
<1>3. \A n \in Waiting(s)' : n = m0 \/ n \in Waiting(s)
  BY <1>1 DEF Waiting, To
<1>4. m0 \in Waiting(s)'
  BY <1>1, <1>2 DEF Waiting, To
<1>5. \A a \in Servers \ {s} : Waiting(a)' = Waiting(a)
  BY <1>1, <1>2 DEF Waiting, To
<1>6. isConnectedServer[s] => Waiting(s) \subseteq Waiting(s)'
  BY <1>1 DEF Waiting, To
<1>7. ~isConnectedServer[s] => Waiting(s)' = {m0}
  <2>1. ASSUME ~isConnectedServer[s], NEW n \in Waiting(s)' PROVE n = m0
    BY <1>1, <2>1 DEF Waiting, To
  <2>. QED
    BY <1>4, <2>1
<1>. QED
  BY <1>1, <1>3, <1>4, <1>5, <1>6, <1>7 DEF m0

\* A cycle that closes last still does when its first request is sent.
LEMMA RestClosesLast ==
  ASSUME NEW q \in Seq(Sensors \cup Targets), q # <<>>, ClosesLast(q)
  PROVE  /\ ClosesLast(Tail(q))
         /\ \A x : x # Head(q) /\ (\A j \in DOMAIN Tail(q) : Tail(q)[j] # x)
                    => \A i \in DOMAIN q : q[i] # x
         /\ \A k \in Closing : Head(q) \in Targets /\ Actuator[Head(q)] = Actuator[k]
              => k = Head(q) \/ \E j \in DOMAIN Tail(q) : Tail(q)[j] = k
<1>1. \A i \in DOMAIN q : i = 1 \/ (i - 1 \in DOMAIN Tail(q) /\ Tail(q)[i - 1] = q[i])
  OBVIOUS
<1>2. \A i \in DOMAIN Tail(q) : i \in Nat /\ i + 1 \in DOMAIN q /\ Tail(q)[i] = q[i + 1]
  OBVIOUS
<1>3. Head(q) = q[1] /\ 1 \in DOMAIN q /\ \A i \in DOMAIN q : i \in Nat /\ i >= 1
  OBVIOUS
<1>4. ASSUME NEW i \in DOMAIN Tail(q), NEW k \in Closing,
             Tail(q)[i] \in Targets, Actuator[Tail(q)[i]] = Actuator[k]
      PROVE  \E j \in DOMAIN Tail(q) : j >= i /\ Tail(q)[j] = k
  <2>1. PICK j \in DOMAIN q : j >= i + 1 /\ q[j] = k
    BY <1>2, <1>4 DEF ClosesLast
  <2>2. j - 1 \in DOMAIN Tail(q) /\ Tail(q)[j - 1] = k /\ j - 1 >= i
    BY <1>1, <1>2, <1>3, <2>1
  <2>. QED
    BY <2>2
<1>5. ASSUME NEW k \in Closing, Head(q) \in Targets, Actuator[Head(q)] = Actuator[k], k # Head(q)
      PROVE  \E j \in DOMAIN Tail(q) : Tail(q)[j] = k
  <2>1. PICK j \in DOMAIN q : q[j] = k
    BY <1>3, <1>5 DEF ClosesLast
  <2>. QED
    BY <1>1, <1>3, <1>5, <2>1
<1>6. ASSUME NEW x, x # Head(q), \A j \in DOMAIN Tail(q) : Tail(q)[j] # x
      PROVE  \A i \in DOMAIN q : q[i] # x
  BY <1>1, <1>3, <1>6
<1>7. ClosesLast(Tail(q))
  BY <1>4 DEF ClosesLast
<1>. QED
  BY <1>5, <1>6, <1>7

\* A command that is sent becomes the latest one about its target; where it has
\* to wait for a connection, it replaces those about the others.
LEMMA SendCommands ==
  ASSUME Hooks = {"pass"}, PLCInv, CommandInv, NEW v \in Hooks, SendNext(v)
  PROVE  LatestIsCommanded' /\ AboutFits' /\ ClosesLast(toSend)'
<1> SUFFICES ASSUME NEW p, p = Head(toSend), NEW s, s = ServerOf(p), NEW t, t = transactionId
             PROVE  LatestIsCommanded' /\ AboutFits' /\ ClosesLast(toSend)'
  OBVIOUS
<1>0. /\ toSend # <<>> /\ toSend \in Seq(Sensors \cup Targets) /\ toSend' = Tail(toSend)
      /\ t \in Tids /\ s \in Servers /\ p \in Sensors \cup Targets /\ transactionId' = NextId
      /\ \A n \in Alive : n[1] # t
      /\ UNCHANGED <<commanded, applied, isConnectedServer>>
      /\ payload \in [Tids -> Nat] /\ about \in [Tids -> Sensors \cup Targets \cup {"nothing"}]
  BY HeadTail DEF SendNext, SendModbusRequest, Busy, PLCInv, PLCTypeOK, DeviceInv, TypeOK
<1>1. /\ <<t, s>> \in Waiting(s)'
      /\ \A n \in Waiting(s)' : n = <<t, s>> \/ n \in Waiting(s)
      /\ isConnectedServer[s] => Waiting(s) \subseteq Waiting(s)'
      /\ ~isConnectedServer[s] => Waiting(s)' = {<<t, s>>}
      /\ \A a \in Servers \ {s} : Waiting(a)' = Waiting(a)
      /\ \A n \in Captured' \cup toServer' : n = <<t, s>> \/ n \in Captured \cup toServer
  BY SentWaits DEF CommandInv
<1>2. /\ \A u \in Tids : Age(u)' = IF u = t THEN 0 ELSE Age(u) + 1
      /\ \A u \in Tids : Age(u) \in Nat
  BY <1>0, AgesGrow, AgeType
<1>3. /\ about'[t] = p /\ \A u \in Tids \ {t} : about'[u] = about[u]
      /\ p \in Targets => payload'[t] = commanded[p]
      /\ \A u \in Tids \ {t} : payload'[u] = payload[u]
      /\ \A c \in Targets \ {p} : c \in early' <=> c \in early
      /\ p \in Targets /\ ~isConnectedServer[s] => p \in early'
  BY <1>0 DEF SendNext, ServerOf
<1>4. /\ ClosesLast(toSend)'
      /\ \A c \in Targets \ {p} : (\A i \in DOMAIN toSend' : toSend'[i] # c)
                                    => \A i \in DOMAIN toSend : toSend[i] # c
      /\ \A k \in Closing \ {p} : p \in Targets /\ Actuator[p] = Actuator[k]
              => \E j \in DOMAIN toSend' : toSend'[j] = k
  <2>1. ClosesLast(toSend)
    BY DEF CommandInv
  <2>2. /\ ClosesLast(Tail(toSend))
        /\ \A x : x # Head(toSend) /\ (\A j \in DOMAIN Tail(toSend) : Tail(toSend)[j] # x)
                    => \A i \in DOMAIN toSend : toSend[i] # x
        /\ \A k \in Closing : Head(toSend) \in Targets /\ Actuator[Head(toSend)] = Actuator[k]
             => k = Head(toSend) \/ \E j \in DOMAIN Tail(toSend) : Tail(toSend)[j] = k
    BY <1>0, <2>1, RestClosesLast
  <2>3. ClosesLast(toSend)'
    BY <1>0, <2>2 DEF ClosesLast
  <2>. QED
    BY <1>0, <2>2, <2>3
<1>5. AboutFits'
  <2> SUFFICES ASSUME NEW n \in Captured' \cup toServer'
               PROVE  (ServerOf(about[n[1]]) = n[2])'
    BY DEF AboutFits
  <2>1. CASE n = <<t, s>>
    BY <1>3, <2>1 DEF ServerOf
  <2>2. CASE n \in Captured \cup toServer
    <3>1. n[1] \in Tids \ {t}
      BY <1>0, <2>2 DEF Alive, InTransit, Captured, Messages, PLCInv, DeviceInv, TypeOK
    <3>2. ServerOf(about[n[1]]) = n[2]
      BY <2>2 DEF CommandInv, AboutFits
    <3>. QED
      BY <1>3, <3>1, <3>2 DEF ServerOf
  <2>. QED
    BY <1>1, <2>1, <2>2
<1> SUFFICES ASSUME NEW c \in Targets, \A i \in DOMAIN toSend' : toSend'[i] # c,
                    c \in Closing \/ c \notin early', NEW a, a = Actuator[c]
             PROVE  Latest(c)'
  BY <1>4, <1>5 DEF LatestIsCommanded
<1>6. CASE c = p
  <2>0. s = a
    BY <1>6 DEF ServerOf
  <2>1. <<t, s>> \in WaitingFor(c)' /\ WaitingFor(c)' \subseteq Waiting(a)'
    BY <1>1, <1>3, <1>6, <2>0 DEF WaitingFor
  <2>2. ASSUME NEW m \in WaitingFor(c)', \A n \in WaitingFor(c)' : Age(m[1])' <= Age(n[1])'
        PROVE  payload'[m[1]] = commanded'[c]
    <3>1. m[1] \in Tids
      BY <1>0, <1>1, <2>0, <2>1, <2>2, WaitingIsAlive
    <3>2. Age(m[1])' <= Age(t)'
      <4>1. Age(m[1])' <= Age(<<t, s>>[1])'
        BY <2>1, <2>2
      <4>. QED
        BY <4>1
    <3>3. Age(t)' = 0
      BY <1>0, <1>2
    <3>4. m[1] = t
      BY <1>2, <3>1, <3>2, <3>3
    <3>. QED
      BY <1>0, <1>3, <1>6, <3>4
  <2>3. ~isConnectedServer'[a] => c \in early' /\ Waiting(a)' = WaitingFor(c)'
    BY <1>0, <1>1, <1>3, <1>6, <2>0, <2>1, ZenonT(40)
  <2>. QED
    BY <2>1, <2>2, <2>3 DEF Latest
<1>7. CASE c # p
  <2>1. Latest(c) /\ (c \in early' <=> c \in early)
    BY <1>3, <1>4, <1>7 DEF CommandInv, LatestIsCommanded
  <2>2. \A m \in Waiting(a) : /\ m[1] \in Tids \ {t} /\ Age(m[1])' = Age(m[1]) + 1
                              /\ Age(m[1]) \in Nat
                              /\ payload'[m[1]] = payload[m[1]] /\ about'[m[1]] = about[m[1]]
    BY <1>0, <1>2, <1>3, WaitingIsAlive
  <2>3. a \in Servers
    BY TargetAssumption DEF Actuators
  <2>4. CASE s = a /\ ~isConnectedServer[a]
    <3>1. p \in Targets /\ Actuator[p] = Actuator[c]
      BY <1>0, <2>4, TargetAssumption DEF ServerOf, Actuators
    <3>2. c \notin Closing /\ c \notin early
      BY <1>4, <1>7, <2>1, <3>1
    <3>3. WaitingFor(c)' = {}
      BY <1>1, <1>3, <1>7, <2>4 DEF WaitingFor
    <3>4. applied[c] = commanded[c]
      BY <2>1, <2>4, <3>2 DEF Latest
    <3>. QED
      BY <1>0, <2>1, <2>4, <3>2, <3>3, <3>4 DEF Latest
  <2>5. CASE s # a \/ isConnectedServer[a]
    <3>1. \A m : m \in WaitingFor(c)' <=> m \in WaitingFor(c)
      <4>1. CASE s # a
        BY <1>1, <2>2, <2>3, <4>1 DEF WaitingFor
      <4>2. CASE s = a /\ isConnectedServer[a]
        <5>1. ASSUME NEW m, m \in WaitingFor(c)' PROVE m \in WaitingFor(c)
          <6>1. m \in Waiting(a)' /\ about'[m[1]] = c
            BY <5>1 DEF WaitingFor
          <6>2. m # <<t, s>>
            BY <1>3, <1>7, <6>1
          <6>. QED
            BY <1>1, <2>2, <4>2, <6>1, <6>2 DEF WaitingFor
        <5>2. ASSUME NEW m, m \in WaitingFor(c) PROVE m \in WaitingFor(c)'
          BY <1>1, <2>2, <4>2, <5>2 DEF WaitingFor
        <5>. QED
          BY <5>1, <5>2
      <4>. QED
        BY <2>5, <4>1, <4>2
    <3>2. WaitingFor(c)' = WaitingFor(c) /\ WaitingFor(c) \subseteq Waiting(a)
      BY <3>1 DEF WaitingFor
    <3>3. \A m, n \in WaitingFor(c) : Age(m[1])' <= Age(n[1])' => Age(m[1]) <= Age(n[1])
      BY <2>2, <3>2
    <3>4. ASSUME NEW m \in WaitingFor(c)', \A n \in WaitingFor(c)' : Age(m[1])' <= Age(n[1])'
          PROVE  payload'[m[1]] = commanded'[c]
      <4>1. payload[m[1]] = commanded[c]
        BY <2>1, <3>2, <3>3, <3>4 DEF Latest
      <4>. QED
        BY <1>0, <2>2, <3>2, <4>1
    <3>5. ~isConnectedServer[a] => Waiting(a)' = Waiting(a)
      BY <1>1, <2>3, <2>5
    <3>. QED
      BY <1>0, <2>1, <3>2, <3>4, <3>5 DEF Latest
  <2>. QED
    BY <2>4, <2>5
<1>. QED
  BY <1>6, <1>7

\* A field device handles the oldest request: a command was the latest one about
\* its target if it was the last, and no other target is touched.
LEMMA ObeysOldest ==
  ASSUME Hooks = {"pass"}, PLCInv, CommandInv, UNCHANGED toSend,
         NEW m0 \in Messages, NEW v \in Hooks, FieldDeviceHandles(m0, v)
  PROVE  LatestIsCommanded' /\ AboutFits'
<1>0. m0[1] \in Tids /\ m0[2] \in Servers
  BY DEF Messages
<1>1. /\ m0 \in toServer /\ toServer' = toServer \ {m0}
      /\ \A n \in toServer : n[2] = m0[2] => Age(n[1]) <= Age(m0[1])
      /\ UNCHANGED <<transactionId, connectCallback, isConnectedServer>>
      /\ UNCHANGED <<commanded, about, early>>
      /\ payload' \in SensorAnswers(m0) /\ applied' = ActuatorObeys(m0)
  BY DEF FieldDeviceHandles, ServerHandles, InOrder, To, deviceVars
<1>2. Captured' = Captured /\ \A m \in Captured : m[2] # m0[2]
  <2>1. connectCallback[m0[2]] = {}
    BY <1>0, <1>1 DEF CommandInv, OrderInv, LinksAgree, To
  <2>. QED
    BY <1>1, <2>1 DEF Captured
<1>3. isConnectedServer[m0[2]] /\ ServerOf(about[m0[1]]) = m0[2]
  BY <1>0, <1>1 DEF CommandInv, OrderInv, LinksAgree, AboutFits, To
<1>4. AboutFits'
  BY <1>1, <1>2, AboutStays DEF CommandInv
<1>5. /\ \A n \in Messages : n[1] # m0[1] => payload'[n[1]] = payload[n[1]]
      /\ m0[2] \notin Sensors => payload' = payload
  <2>1. payload' = payload \/ \E x : payload' = [payload EXCEPT ![m0[1]] = x]
    BY <1>1 DEF SensorAnswers
  <2>2. payload \in [Tids -> Nat] /\ \A n \in Messages : n[1] \in Tids
    BY DEF PLCInv, PLCTypeOK, Messages
  <2>. QED
    BY <1>1, <2>1, <2>2 DEF SensorAnswers
<1> SUFFICES ASSUME NEW c \in Targets, \A i \in DOMAIN toSend : toSend[i] # c,
                    c \in Closing \/ c \notin early, NEW a, a = Actuator[c]
             PROVE  Latest(c)'
  BY <1>1, <1>4 DEF LatestIsCommanded
<1>6. Latest(c) /\ a \in Actuators
  BY TargetAssumption DEF CommandInv, LatestIsCommanded
<1>7. applied'[c] = IF c = about[m0[1]] THEN payload[m0[1]] ELSE applied[c]
  BY <1>1 DEF ActuatorObeys
<1>8. CASE a # m0[2]
  <2>1. Waiting(a)' = Waiting(a)
    BY <1>1, <1>2, <1>8 DEF Waiting, To
  <2>2. applied'[c] = applied[c]
    BY <1>3, <1>7, <1>8 DEF ServerOf
  <2>3. \A m \in Waiting(a) : payload'[m[1]] = payload[m[1]] /\ about'[m[1]] = about[m[1]]
    <3> TAKE m \in Waiting(a)
    <3>1. m \in Messages /\ m[1] # m0[1]
      BY <1>1, <1>8, WaitingIsAlive DEF PLCInv, DeviceInv, OneMessage, Alive, InTransit
    <3>. QED
      BY <1>1, <1>5, <3>1
  <2>. QED
    BY <1>1, <1>6, <2>1, <2>2, <2>3, LatestStays
<1>9. CASE a = m0[2]
  <2>1. payload' = payload
    BY <1>5, <1>6, <1>9 DEF Actuators
  <2>2. /\ WaitingFor(c)' = WaitingFor(c) \ {m0}
        /\ \A n \in WaitingFor(c) : Age(n[1]) <= Age(m0[1])
        /\ m0 \in WaitingFor(c) <=> about[m0[1]] = c
    BY <1>1, <1>2, <1>9 DEF WaitingFor, Waiting, To
  <2>3. \A n \in WaitingFor(c) \cup {m0} : Age(n[1])' = Age(n[1]) /\ Age(n[1]) \in Nat
    <3>1. \A n \in WaitingFor(c) \cup {m0} : n[1] \in Tids
      BY <1>0, WaitingIsAlive DEF WaitingFor
    <3>. QED
      BY <1>1, <3>1, AgesStay, AgeType DEF PLCInv, DeviceInv, TypeOK
  <2>4. ASSUME NEW m \in WaitingFor(c)', \A n \in WaitingFor(c)' : Age(m[1])' <= Age(n[1])'
        PROVE  payload[m[1]] = commanded[c]
    <3>1. m \in WaitingFor(c)
      BY <2>2, <2>4
    <3>2. \A n \in WaitingFor(c) : Age(m[1]) <= Age(n[1])
      BY <2>2, <2>3, <2>4, <3>1
    <3>. QED
      BY <1>6, <3>1, <3>2 DEF Latest
  <2>5. ASSUME WaitingFor(c)' = {}
        PROVE  applied'[c] = commanded[c]
    <3>1. CASE about[m0[1]] = c
      <4>1. m0 \in WaitingFor(c) /\ \A n \in WaitingFor(c) : n = m0
        BY <2>2, <2>5, <3>1
      <4>2. \A n \in WaitingFor(c) : Age(m0[1]) <= Age(n[1])
        BY <2>3, <4>1
      <4>. QED
        BY <1>6, <1>7, <3>1, <4>1, <4>2 DEF Latest
    <3>2. CASE about[m0[1]] # c
      <4>1. WaitingFor(c) = {}
        BY <2>2, <2>5, <3>2
      <4>. QED
        BY <1>3, <1>6, <1>7, <1>9, <3>2, <4>1 DEF Latest
    <3>. QED
      BY <3>1, <3>2
  <2>6. isConnectedServer'[a]
    BY <1>1, <1>3, <1>9
  <2>. QED
    BY <1>1, <2>1, <2>4, <2>5, <2>6 DEF Latest
<1>. QED
  BY <1>8, <1>9

\* A connection that is established sends what waited for it.
LEMMA ConnectCommands ==
  ASSUME Hooks = {"pass"}, PLCInv, CommandInv, NEW s \in Servers, ConnectionSucceeded(s),
         UNCHANGED <<toSend, payload, about, early, commanded, applied>>
  PROVE  LatestIsCommanded' /\ AboutFits'
<1> DEFINE now(v) == {m \in Messages : m[2] = s /\ <<m[1], v>> \in connectCallback[s]}
<1>0. TypeOK /\ NothingDelayed
  BY DEF PLCInv, DeviceInv, CommandInv, OrderInv
<1>1. /\ transactionId' = transactionId
      /\ isConnectedServer' = [isConnectedServer EXCEPT ![s] = @ \/ connectCallback[s] # {}]
      /\ connectCallback' = [connectCallback EXCEPT ![s] = {}]
      /\ toServer' = toServer \cup now("pass")
  BY DEF ConnectionSucceeded
<1>2. /\ connectCallback'[s] = {}
      /\ \A r \in Servers \ {s} : /\ connectCallback'[r] = connectCallback[r]
                                  /\ isConnectedServer'[r] = isConnectedServer[r]
      /\ isConnectedServer'[s] => isConnectedServer[s] \/ connectCallback[s] # {}
      /\ isConnectedServer[s] => isConnectedServer'[s]
  BY <1>0, <1>1 DEF TypeOK
<1>3. ASSUME NEW m \in Messages
      PROVE  /\ m[2] = s => (m \in Captured <=> m \in now("pass")) /\ m \notin Captured'
             /\ m[2] # s => (m \in Captured' <=> m \in Captured) /\ m \notin now("pass")
  <2>1. CASE m[2] = s
    <3>1. m \notin Captured'
      BY <1>2, <2>1 DEF Captured
    <3>2. m \in now("pass") => m \in Captured
      BY <2>1 DEF Captured, Verdicts
    <3>3. ASSUME m \in Captured PROVE m \in now("pass")
      <4>1. PICK w \in Verdicts : <<m[1], w>> \in connectCallback[m[2]]
        BY <3>3 DEF Captured
      <4>2. w = "pass"
        BY <1>0, <2>1, <4>1 DEF NothingDelayed
      <4>. QED
        BY <2>1, <4>1, <4>2
    <3>. QED
      BY <2>1, <3>1, <3>2, <3>3
  <2>2. CASE m[2] # s
    <3>1. connectCallback'[m[2]] = connectCallback[m[2]]
      BY <1>2, <2>2 DEF Messages
    <3>. QED
      BY <2>2, <3>1 DEF Captured
  <2>. QED
    BY <2>1, <2>2
<1>4. Captured' \subseteq Messages /\ Captured \subseteq Messages /\ now("pass") \subseteq Messages
  BY DEF Captured
<1> HIDE DEF now
<1>5. Captured' \cup toServer' = Captured \cup toServer
  BY <1>1, <1>3, <1>4
<1>6. \A a : Waiting(a)' = Waiting(a)
  BY <1>5 DEF Waiting, To
<1>7. connectCallback[s] # {} => Waiting(s) # {}
  <2> SUFFICES ASSUME NEW c \in connectCallback[s] PROVE Waiting(s) # {}
    OBVIOUS
  <2>1. c[1] \in Tids /\ c[2] \in Verdicts /\ c = <<c[1], c[2]>>
    BY <1>0 DEF TypeOK
  <2>2. <<c[1], s>> \in Captured
    BY <2>1 DEF Captured, Messages
  <2>. QED
    BY <2>2 DEF Waiting, To
<1>8. AboutFits'
  BY <1>5, AboutStays DEF CommandInv
<1> SUFFICES ASSUME NEW c \in Targets, \A i \in DOMAIN toSend : toSend[i] # c,
                    c \in Closing \/ c \notin early, NEW a, a = Actuator[c]
             PROVE  Latest(c)'
  BY <1>8 DEF LatestIsCommanded
<1>9. Latest(c) /\ a \in Servers
  BY TargetAssumption DEF CommandInv, LatestIsCommanded, Actuators
<1>10. /\ isConnectedServer'[a] => isConnectedServer[a] \/ Waiting(a) # {}
       /\ isConnectedServer[a] => isConnectedServer'[a]
  BY <1>2, <1>7, <1>9
<1>. QED
  BY <1>1, <1>6, <1>9, <1>10, LatestStays

\* A connection that is not established loses the command that waited for it,
\* and does not stand.
LEMMA FailCommands ==
  ASSUME PLCInv, CommandInv, NEW s \in Servers, HandleConnectionFailed(s),
         UNCHANGED <<toSend, payload, about, early, commanded, applied>>
  PROVE  LatestIsCommanded' /\ AboutFits'
<1>0. TypeOK
  BY DEF PLCInv, DeviceInv
<1>1. /\ transactionId' = transactionId /\ link[s] = "connecting"
      /\ isConnectedServer' = [isConnectedServer EXCEPT ![s] = @ /\ connectCallback[s] = {}]
      /\ connectCallback' = [connectCallback EXCEPT ![s] = {}]
      /\ toServer' = {m \in toServer : m[2] # s}
  BY DEF HandleConnectionFailed, To
<1>2. ~isConnectedServer[s]
  BY <1>1 DEF CommandInv, ConnectedIsOpen
<1>3. /\ connectCallback'[s] = {} /\ ~isConnectedServer'[s]
      /\ \A r \in Servers \ {s} : /\ connectCallback'[r] = connectCallback[r]
                                  /\ isConnectedServer'[r] = isConnectedServer[r]
  BY <1>0, <1>1, <1>2 DEF TypeOK
<1>4. \A m \in Messages : /\ m[2] = s => m \notin Captured'
                          /\ m[2] # s => (m \in Captured' <=> m \in Captured)
  <2> TAKE m \in Messages
  <2>1. CASE m[2] = s
    BY <1>3, <2>1 DEF Captured
  <2>2. CASE m[2] # s
    <3>1. connectCallback'[m[2]] = connectCallback[m[2]]
      BY <1>3, <2>2 DEF Messages
    <3>. QED
      BY <2>2, <3>1 DEF Captured
  <2>. QED
    BY <2>1, <2>2
<1>5. Captured' \subseteq Messages /\ Captured \subseteq Messages
  BY DEF Captured
<1>6. AboutFits'
  BY <1>1, <1>4, <1>5, AboutStays DEF CommandInv
<1> SUFFICES ASSUME NEW c \in Targets, \A i \in DOMAIN toSend : toSend[i] # c,
                    c \in Closing \/ c \notin early, NEW a, a = Actuator[c]
             PROVE  Latest(c)'
  BY <1>6 DEF LatestIsCommanded
<1>7. Latest(c) /\ a \in Servers
  BY TargetAssumption DEF CommandInv, LatestIsCommanded, Actuators
<1>8. CASE a = s
  <2>1. Waiting(a)' = {} /\ WaitingFor(c)' = {}
    BY <1>1, <1>4, <1>5, <1>8 DEF WaitingFor, Waiting, To
  <2>2. c \notin early => applied[c] = commanded[c]
    BY <1>2, <1>7, <1>8 DEF Latest
  <2>. QED
    BY <1>3, <1>8, <2>1, <2>2 DEF Latest
<1>9. CASE a # s
  <2>1. Waiting(a)' = Waiting(a)
    BY <1>1, <1>4, <1>5, <1>9 DEF Waiting, To
  <2>2. isConnectedServer'[a] = isConnectedServer[a]
    BY <1>3, <1>7, <1>9
  <2>. QED
    BY <1>1, <1>7, <2>1, <2>2, LatestStays
<1>. QED
  BY <1>8, <1>9

\* The cycles of both PLCs command an actuator one target, or one of them last:
\* each valve its coil (plc-a.cc:143-157), the motor its coils, after the register
\* with its speed or alone (plc-b.cc:104-112).
ClosingComesLast == \A q \in CycleRequests : ClosesLast(q)

LEMMA StepCommands ==
  ASSUME Hooks = {"pass"}, LinkFaults = FALSE, ClosingComesLast,
         PLCInv, CommandInv, [PLCNext]_allVars
  PROVE  AboutFits' /\ ClosesLast(toSend)' /\ LatestIsCommanded'
<1>0. toSend' = toSend => ClosesLast(toSend)'
  BY DEF CommandInv, ClosesLast
<1>1. ASSUME UNCHANGED <<transactionId, connectCallback, toServer, isConnectedServer,
                         payload, about, early, applied>>,
             NEW c \in Targets, \A i \in DOMAIN toSend : toSend[i] # c,
             c \in Closing \/ c \notin early, commanded'[c] = commanded[c]
      PROVE  Latest(c)'
  <2>1. Latest(c)
    BY <1>1 DEF CommandInv, LatestIsCommanded
  <2>2. Waiting(Actuator[c])' = Waiting(Actuator[c])
    BY <1>1 DEF Waiting, Captured
  <2>. QED
    BY <1>1, <2>1, <2>2, LatestStays
<1>2. ASSUME UNCHANGED <<connectCallback, toServer, about>>
      PROVE  AboutFits'
  <2>1. Captured' = Captured
    BY <1>2 DEF Captured
  <2>. QED
    BY <1>2, <2>1, AboutStays DEF CommandInv
<1>3. ASSUME UNCHANGED <<toSend, transactionId, connectCallback, toServer, isConnectedServer,
                         payload, about, early, commanded, applied>>
      PROVE  LatestIsCommanded' /\ AboutFits'
  <2>1. LatestIsCommanded'
    BY <1>1, <1>3 DEF LatestIsCommanded
  <2>. QED
    BY <1>2, <1>3, <2>1
<1>4. CASE Cycle
  <2>1. PICK q \in CycleRequests, d \in [Targets -> Commands] :
          /\ toSend' = q
          /\ commanded' = [c \in Targets |-> IF \E i \in DOMAIN q : q[i] = c THEN d[c]
                                             ELSE commanded[c]]
    BY <1>4 DEF Cycle
  <2>2. /\ UNCHANGED <<transactionId, connectCallback, toServer, isConnectedServer>>
        /\ UNCHANGED <<payload, about, early, applied>> /\ toSend = <<>>
    BY <1>4 DEF Cycle, vars
  <2>3. ClosesLast(toSend)'
    BY <2>1 DEF ClosingComesLast, ClosesLast
  <2>4. LatestIsCommanded'
    <3> SUFFICES ASSUME NEW c \in Targets, \A i \in DOMAIN q : q[i] # c,
                        c \in Closing \/ c \notin early
                 PROVE  Latest(c)'
      BY <2>1, <2>2 DEF LatestIsCommanded
    <3>1. commanded'[c] = commanded[c]
      BY <2>1
    <3>. QED
      BY <1>1, <2>2, <3>1
  <2>. QED
    BY <1>2, <2>2, <2>3, <2>4
<1>5. CASE \E v \in Hooks : SendNext(v)
  BY <1>5, SendCommands
<1>6. CASE toSend' = toSend /\ Event
  <2>1. CASE DeviceEvent
    <3>1. UNCHANGED <<payload, about, early, commanded, applied>>
      BY <2>1 DEF DeviceEvent, field
    <3>2. ASSUME NEW s \in Servers, ConnectionSucceeded(s)
          PROVE  LatestIsCommanded' /\ AboutFits'
      BY <1>6, <3>1, <3>2, ConnectCommands
    <3>3. ASSUME NEW s \in Servers, HandleConnectionFailed(s)
          PROVE  LatestIsCommanded' /\ AboutFits'
      BY <1>6, <3>1, <3>3, FailCommands
    <3>4. ASSUME NEW s \in Servers, HandleSocketClose(s) \/ HandleSocketError(s) PROVE FALSE
      BY <3>4 DEF HandleSocketClose, HandleSocketError
    <3>5. ASSUME NEW m \in Messages, SendDelayed(m) \/ ServerSendsDelayed(m) PROVE FALSE
      BY <3>5 DEF SendDelayed, ServerSendsDelayed, CommandInv, OrderInv, NothingDelayed
    <3>6. ASSUME NEW c \in Clients, HandleAccept(c) \/ \E t \in Tids : ReceiveRequest(c, t)
          PROVE  LatestIsCommanded' /\ AboutFits'
      <4>1. UNCHANGED <<transactionId, connectCallback, toServer, isConnectedServer>>
        BY <3>6 DEF HandleAccept, ReceiveRequest, netVars
      <4>. QED
        BY <1>3, <1>6, <3>1, <4>1
    <3>. QED
      BY <1>0, <1>6, <2>1, <3>2, <3>3, <3>4, <3>5, <3>6 DEF DeviceEvent
  <2>2. CASE \E m \in Messages, v \in Hooks : FieldDeviceHandles(m, v)
    BY <1>0, <1>6, <2>2, ObeysOldest
  <2>3. CASE \/ \E m \in Messages, v \in Hooks : PLCReceiveResponse(m, v)
             \/ \E m \in Messages : PLCRunDelayedCallback(m) \/ PLCHandleTimeout(m)
             \/ \E s \in Sensors : Measure(s)
    <3>1. UNCHANGED <<transactionId, connectCallback, toServer, isConnectedServer,
                      payload, about, early, commanded, applied>>
      BY <2>3 DEF PLCReceiveResponse, ReceiveResponse, PLCRunDelayedCallback,
         RunDelayedCallback, PLCHandleTimeout, HandleTimeout, Measure, netVars, field, vars
    <3>. QED
      BY <1>0, <1>3, <1>6, <3>1
  <2>. QED
    BY <1>6, <2>1, <2>2, <2>3 DEF Event
<1>7. CASE UNCHANGED allVars
  BY <1>0, <1>3, <1>7 DEF allVars, vars, plcVars, field
<1>. QED
  BY <1>4, <1>5, <1>6, <1>7 DEF PLCNext

LEMMA CommandInit == PLCInit => CommandInv
<1> SUFFICES ASSUME PLCInit PROVE CommandInv
  OBVIOUS
<1>1. ConnectedIsOpen
  BY DEF PLCInit, Init, ConnectedIsOpen
<1>2. Captured = {} /\ toServer = {}
  BY DEF PLCInit, Init, Captured, Messages
<1>3. AboutFits
  BY <1>2 DEF AboutFits
<1>4. ClosesLast(toSend)
  BY DEF PLCInit, ClosesLast
<1>5. \A c \in Targets : Latest(c)
  BY <1>2 DEF PLCInit, Latest, WaitingFor, Waiting, To
<1>. QED
  BY <1>1, <1>3, <1>4, <1>5, OrderInit DEF CommandInv, LatestIsCommanded

\* Where the network is sound (no hook interferes, no established connection
\* breaks), a target of an actuator with no command on its way holds the latest
\* decision about it, however slowly connections are established, however many
\* attempts fail and however often the same id has been used: unless that decision
\* found no connection and the cycle commanded the actuator something after it.
THEOREM ActuatorsObeyLatest ==
  ASSUME Hooks = {"pass"}, LinkFaults = FALSE, ClosingComesLast
  PROVE  PLCSpec => []LastCommandWins
<1>1. PLCInit => CommandInv
  BY CommandInit
<1>2. PLCInv /\ CommandInv /\ [PLCNext]_allVars => CommandInv'
  BY StepInOrder, ConnectedStaysOpen, StepCommands DEF CommandInv, OrderInv
<1>3. CommandInv => LastCommandWins
  <2> SUFFICES ASSUME CommandInv, NEW c \in Targets, Settled(c), c \in Closing \/ c \notin early
               PROVE  applied[c] = commanded[c]
    BY DEF LastCommandWins
  <2>1. WaitingFor(c) = {} /\ toSend = <<>> /\ isConnectedServer[Actuator[c]]
    BY DEF Settled, WaitingFor, Waiting, InTransit, To
  <2>. QED
    BY <2>1 DEF CommandInv, LatestIsCommanded, Latest
<1>. QED
  BY <1>1, <1>2, <1>3, PLCCorrect, PTL DEF PLCSpec
=============================================================================
