------------------------- MODULE ModbusDevice_proofs -------------------------
(* Proofs about ModbusDevice, for all its constants. *)
EXTENDS ModbusDevice, TLAPS

\* The transaction counter stays within the 16-bit range.
LEMMA NextTid ==
  ASSUME transactionId \in Tids
  PROVE  NextId \in Tids
BY TidModAssumption, SMT DEF Tids, NextId

LEMMA InitInv == Init => DeviceInv
<1> SUFFICES ASSUME Init PROVE DeviceInv
  OBVIOUS
<1>0. 0 \in Tids
  BY TidModAssumption DEF Tids
<1>1. TypeOK
  BY <1>0 DEF Init, TypeOK, Requests!Init, Requests!TypeOK, Requests!Outcomes
<1>2. Captured = {}
  BY DEF Init, Captured, Messages
<1>. QED
  BY <1>1, <1>2 DEF Init, DeviceInv, OneMessage, OnePlace, ContextTellsOutcome,
                    InTransit, Alive

LEMMA SendInv ==
  ASSUME DeviceInv, NEW s \in Servers, NEW v \in Hooks, SendModbusRequest(s, v)
  PROVE  DeviceInv'
<1> DEFINE t == transactionId
           m0 == <<t, s>>
<1> USE DEF DeviceInv
<1>0. t \in Tids /\ m0 \in Messages /\ v \in Verdicts
  BY HooksAssumption DEF TypeOK, Messages, Verdicts
<1>1. TypeOK'
  BY <1>0, NextTid DEF SendModbusRequest, InstallCallback, Messages, SendData, TypeOK, Verdicts,
                  Requests!TypeOK, Requests!Outcomes
<1>2. \A n \in Alive : n[1] # t
  BY DEF SendModbusRequest, Busy
<1>3. /\ openRequests' = openRequests \cup {m0}
      /\ delayedCall' = delayedCall
      /\ delayedReply' = delayedReply
      /\ toDevice' = toDevice
  BY DEF SendModbusRequest
<1>4. \/ /\ Captured' = Captured
         /\ \/ toServer' = toServer /\ delayedSend' = delayedSend
            \/ toServer' = toServer \cup {m0} /\ delayedSend' = delayedSend
            \/ toServer' = toServer /\ delayedSend' = delayedSend \cup {m0}
      \/ /\ Captured' \subseteq Captured \cup {m0}
         /\ toServer' = toServer /\ delayedSend' = delayedSend
  <2>1. CASE isConnectedServer[s]
    BY <2>1 DEF SendModbusRequest, SendData, Captured
  <2>2. CASE ~isConnectedServer[s]
    <3>1. connectCallback' = [connectCallback EXCEPT ![s] = {<<t, v>>}]
      BY <2>2 DEF SendModbusRequest, InstallCallback
    <3>2. ASSUME NEW n \in Captured' PROVE n \in Captured \cup {m0}
      <4>1. n \in Messages /\ n = <<n[1], n[2]>> /\ n[2] \in Servers
        BY DEF Captured, Messages
      <4>2. PICK w \in Verdicts : <<n[1], w>> \in connectCallback'[n[2]]
        BY DEF Captured
      <4>3. CASE n[2] = s
        <5>1. connectCallback'[s] = {<<t, v>>}
          BY <3>1 DEF TypeOK
        <5>2. n[1] = t
          BY <4>2, <4>3, <5>1
        <5>. QED
          BY <4>1, <4>3, <5>2
      <4>4. CASE n[2] # s
        BY <3>1, <4>1, <4>2, <4>4 DEF TypeOK, Captured
      <4>. QED
        BY <4>3, <4>4
    <3>. QED
      BY <2>2, <3>2 DEF SendModbusRequest
  <2>. QED
    BY <2>1, <2>2
<1>5. Alive' \subseteq Alive \cup {m0}
  BY <1>3, <1>4 DEF Alive, InTransit
<1>6. OneMessage'
  BY <1>2, <1>5 DEF OneMessage
<1>7. m0 \notin Alive
  BY <1>2
<1>8. OnePlace'
  <2>1. \A r \in Servers : \A c, d \in connectCallback'[r] : c = d
    BY DEF SendModbusRequest, InstallCallback, OnePlace, TypeOK
  <2>. QED
    BY <1>3, <1>4, <1>7, <2>1 DEF OnePlace, Alive, InTransit
<1>9. ContextTellsOutcome'
  <2>1. /\ connectionContext' = [connectionContext EXCEPT ![m0] = "request"]
        /\ outcome' = [outcome EXCEPT ![t] = "open"]
    BY DEF SendModbusRequest
  <2>2. connectionContext'[m0] = "request" /\ outcome'[t] = "open"
    BY <2>1, <1>0 DEF TypeOK, Requests!TypeOK
  <2>3. ASSUME NEW n \in Alive
        PROVE  connectionContext'[n] = connectionContext[n] /\ outcome'[n[1]] = outcome[n[1]]
    BY <2>1, <1>2 DEF TypeOK, Requests!TypeOK
  <2>. QED
    BY <1>3, <1>4, <2>2, <2>3 DEF ContextTellsOutcome, Alive, InTransit
<1>. QED
  BY <1>1, <1>6, <1>8, <1>9

(* A handler that only takes messages away keeps the sets apart. *)
LEMMA FewerInv ==
  ASSUME DeviceInv, TypeOK',
         Captured' \subseteq Captured, delayedSend' \subseteq delayedSend,
         toServer' \subseteq toServer, delayedReply' \subseteq delayedReply,
         toDevice' \subseteq toDevice, delayedCall' \subseteq delayedCall,
         openRequests' \subseteq openRequests,
         \A s \in Servers : connectCallback'[s] \subseteq connectCallback[s],
         UNCHANGED <<connectionContext, outcome>>
  PROVE  DeviceInv'
BY DEF DeviceInv, OneMessage, OnePlace, ContextTellsOutcome, Alive, InTransit

LEMMA ConnectInv ==
  ASSUME DeviceInv, NEW s \in Servers, ConnectionSucceeded(s)
  PROVE  DeviceInv'
<1> USE DEF DeviceInv
<1> DEFINE now(v) == {m \in Messages : m[2] = s /\ <<m[1], v>> \in connectCallback[s]}
<1>0. /\ connectCallback' = [connectCallback EXCEPT ![s] = {}]
      /\ toServer' = toServer \cup now("pass")
      /\ delayedSend' = delayedSend \cup now("delay")
      /\ UNCHANGED <<delayedReply, toDevice, delayedCall, openRequests,
                     connectionContext, outcome>>
  BY DEF ConnectionSucceeded
<1>1. TypeOK'
  <2>1. isConnectedServer' \in [Servers -> BOOLEAN]
    BY DEF ConnectionSucceeded, TypeOK
  <2>2. link' \in [Servers -> {"closed", "connecting", "open"}]
    BY DEF ConnectionSucceeded, TypeOK
  <2>3. connectCallback' \in [Servers -> SUBSET (Tids \X Verdicts)]
    BY <1>0 DEF TypeOK
  <2>4. toServer' \subseteq Messages /\ delayedSend' \subseteq Messages
    BY <1>0 DEF TypeOK
  <2>. QED
    BY <2>1, <2>2, <2>3, <2>4 DEF ConnectionSucceeded, TypeOK, Requests!TypeOK
<1>2. ASSUME NEW n \in Captured' PROVE n \in Captured /\ n[2] # s
  BY <1>0 DEF Captured, TypeOK, Messages
<1>3. now("pass") \subseteq Captured /\ now("delay") \subseteq Captured
  BY DEF Captured, Verdicts
<1>4. \A n \in now("pass") \cup now("delay") : n[2] = s
  OBVIOUS
<1>5. now("pass") \cap now("delay") = {}
  BY DEF OnePlace
<1>6. OneMessage'
  BY <1>0, <1>2, <1>3 DEF OneMessage, Alive, InTransit
<1>7. OnePlace'
  <2>1. \A r \in Servers : \A c, d \in connectCallback'[r] : c = d
    BY <1>0 DEF OnePlace, TypeOK
  <2> HIDE DEF now
  <2>. QED
    BY <1>0, <1>2, <1>3, <1>4, <1>5, <2>1 DEF OnePlace, InTransit
<1>8. ContextTellsOutcome'
  BY <1>0, <1>2, <1>3 DEF ContextTellsOutcome, InTransit
<1>. QED
  BY <1>1, <1>6, <1>7, <1>8

\* Losing a connection takes messages and the connect callback away.
LEMMA LinkDownInv ==
  ASSUME DeviceInv, NEW s \in Servers,
         HandleConnectionFailed(s) \/ HandleSocketClose(s) \/ HandleSocketError(s)
  PROVE  DeviceInv'
<1>1. /\ connectCallback' = connectCallback
         \/ connectCallback' = [connectCallback EXCEPT ![s] = {}]
      /\ delayedSend' \subseteq delayedSend /\ toServer' \subseteq toServer
      /\ delayedReply' \subseteq delayedReply /\ toDevice' \subseteq toDevice
      /\ UNCHANGED <<delayedCall, openRequests, connectionContext, outcome>>
  BY DEF HandleConnectionFailed, HandleSocketClose, HandleSocketError
<1>2. /\ connectCallback' \in [Servers -> SUBSET (Tids \X Verdicts)]
      /\ \A r \in Servers : connectCallback'[r] \subseteq connectCallback[r]
  BY <1>1 DEF DeviceInv, TypeOK
<1>3. Captured' \subseteq Captured
  BY <1>2 DEF Captured, Messages
<1>4. /\ isConnectedServer' \in [Servers -> BOOLEAN]
      /\ link' \in [Servers -> {"closed", "connecting", "open"}]
      /\ UNCHANGED <<transactionId, connectedClients>>
  BY DEF DeviceInv, TypeOK, HandleConnectionFailed, HandleSocketClose, HandleSocketError
<1>5. TypeOK'
  BY <1>1, <1>2, <1>4 DEF DeviceInv, TypeOK, Requests!TypeOK
<1>. QED
  BY <1>1, <1>2, <1>3, <1>5, FewerInv

\* A message moves on from one place to the next.
LEMMA MoveInv ==
  ASSUME DeviceInv, NEW m \in Messages,
         \/ SendDelayed(m)
         \/ ServerSendsDelayed(m)
         \/ \E v \in Hooks : ServerHandles(m, v)
  PROVE  DeviceInv'
<1>1. /\ UNCHANGED <<deviceVars, link, outcome>> \/ SendDelayed(m)
      /\ UNCHANGED <<transactionId, isConnectedServer, connectCallback,
                     connectionContext, openRequests, connectedClients,
                     delayedCall, link, outcome>>
  BY DEF SendDelayed, ServerSendsDelayed, ServerHandles, deviceVars
<1>2. \/ /\ m \in delayedSend /\ delayedSend' = delayedSend \ {m}
         /\ toServer' \in {toServer, toServer \cup {m}}
         /\ UNCHANGED <<delayedReply, toDevice>>
      \/ /\ m \in delayedReply /\ delayedReply' = delayedReply \ {m}
         /\ toDevice' = toDevice \cup {m}
         /\ UNCHANGED <<delayedSend, toServer>>
      \/ /\ m \in toServer /\ toServer' = toServer \ {m}
         /\ UNCHANGED delayedSend
         /\ \/ toDevice' = toDevice \cup {m} /\ UNCHANGED delayedReply
            \/ delayedReply' = delayedReply \cup {m} /\ UNCHANGED toDevice
            \/ UNCHANGED <<delayedReply, toDevice>>
  BY HooksAssumption DEF SendDelayed, ServerSendsDelayed, ServerHandles, deviceVars, SendData
<1>3. TypeOK'
  BY <1>1, <1>2 DEF DeviceInv, TypeOK, Requests!TypeOK
<1>4. Captured' = Captured
  BY <1>1 DEF Captured
<1>5. InTransit' \subseteq InTransit /\ m \in InTransit
  BY <1>2 DEF InTransit
<1>6. OneMessage'
  BY <1>1, <1>4, <1>5 DEF DeviceInv, OneMessage, Alive
<1>7. OnePlace'
  BY <1>1, <1>2, <1>4 DEF DeviceInv, OnePlace, InTransit
<1>8. ContextTellsOutcome'
  BY <1>1, <1>4, <1>5 DEF DeviceInv, ContextTellsOutcome
<1>. QED
  BY <1>3, <1>6, <1>7, <1>8 DEF DeviceInv

\* Cancelling by transaction id removes every pending timeout of the id.
LEMMA CancelByTid ==
  ASSUME NEW t
  PROVE  /\ CancelTimeout(t) \subseteq openRequests
         /\ \A n \in CancelTimeout(t) : n[1] # t
         /\ \A n \in openRequests : n[1] # t => n \in CancelTimeout(t)
BY DEF CancelTimeout, Of

LEMMA ReceiveInv ==
  ASSUME DeviceInv, NEW m \in Messages, NEW v \in Hooks, ReceiveResponse(m, v)
  PROVE  DeviceInv'
<1> DEFINE t == m[1]
           wanted == Expected(m)
<1>0. /\ m \in toDevice /\ m \in Alive
      /\ toDevice' = toDevice \ {m}
      /\ delayedCall' = IF wanted /\ v = "delay" THEN delayedCall \cup {m} ELSE delayedCall
      /\ openRequests' = CancelTimeout(t)
      /\ connectionContext' = [connectionContext EXCEPT ![m] = "none"]
      /\ UNCHANGED <<transactionId, isConnectedServer, connectCallback,
                     connectedClients, delayedSend, link, toServer, delayedReply>>
  BY DEF ReceiveResponse, Alive, InTransit
<1>1. outcome' = [outcome EXCEPT ![t] = CASE wanted /\ v = "pass" -> "answered"
                                          [] wanted /\ v = "drop" -> "suppressed"
                                          [] OTHER -> @]
  BY DEF ReceiveResponse
<1>2. t \in Tids
  BY DEF Messages
<1>3. outcome' \in [Tids -> Requests!Outcomes] /\ \A u \in Tids \ {t} : outcome'[u] = outcome[u]
  BY <1>1, <1>2 DEF DeviceInv, TypeOK, Requests!TypeOK, Requests!Outcomes
<1>4. TypeOK'
  BY <1>0, <1>3, CancelByTid DEF DeviceInv, TypeOK, Requests!TypeOK
<1>5. Captured' = Captured
  BY <1>0 DEF Captured
<1>6. Alive' \subseteq Alive
  BY <1>0, <1>5, CancelByTid DEF Alive, InTransit
<1>7. \A n \in Alive : n[1] = t => n = m
  BY <1>0 DEF DeviceInv, OneMessage
<1>8. OneMessage'
  BY <1>6 DEF DeviceInv, OneMessage
<1>9. OnePlace'
  <2>1. \A n \in openRequests' : n # m
    BY <1>0, CancelByTid
  <2>2. openRequests' \subseteq openRequests
    BY <1>0, CancelByTid
  <2>. QED
    BY <1>0, <1>5, <2>1, <2>2 DEF DeviceInv, OnePlace, InTransit
<1>10. ContextTellsOutcome'
  <2>1. ASSUME NEW n \in Alive', n # m
        PROVE  /\ n \in Messages /\ n[1] \in Tids \ {t}
               /\ connectionContext'[n] = connectionContext[n]
               /\ outcome'[n[1]] = outcome[n[1]]
    <3>1. n \in Messages
      BY <1>6 DEF DeviceInv, TypeOK, Alive, InTransit, Captured
    <3>2. n[1] \in Tids \ {t}
      BY <1>6, <1>7, <2>1, <3>1 DEF Messages
    <3>. QED
      BY <1>0, <1>3, <2>1, <3>1, <3>2 DEF DeviceInv, TypeOK
  <2>2. m \notin Captured' \cup InTransit' \cup openRequests'
    BY <1>0, <1>5, CancelByTid DEF DeviceInv, OnePlace, InTransit
  <2>3. m \in delayedCall' => outcome'[t] = "open"
    <3> SUFFICES ASSUME m \in delayedCall' PROVE outcome'[t] = "open"
      OBVIOUS
    <3>1. wanted /\ v = "delay"
      BY <1>0 DEF DeviceInv, OnePlace, InTransit
    <3>2. outcome[t] = "open"
      BY <1>0, <3>1 DEF DeviceInv, ContextTellsOutcome, InTransit, Expected
    <3>. QED
      BY <1>1, <1>2, <3>1, <3>2 DEF DeviceInv, TypeOK, Requests!TypeOK
  <2>3a. \A n \in delayedCall' : n = m \/ n \in delayedCall
    BY <1>0
  <2>4. InTransit' \subseteq InTransit /\ openRequests' \subseteq openRequests
    BY <1>0, CancelByTid DEF InTransit
  <2>. QED
    BY <1>5, <2>1, <2>2, <2>3, <2>3a, <2>4 DEF DeviceInv, ContextTellsOutcome, Alive
<1>. QED
  BY <1>4, <1>8, <1>9, <1>10 DEF DeviceInv

\* An event of the device itself: a delayed callback or a timeout.
LEMMA EventInv ==
  ASSUME DeviceInv, NEW m \in Messages, RunDelayedCallback(m) \/ HandleTimeout(m)
  PROVE  DeviceInv'
<1> DEFINE t == m[1]
<1>0. t \in Tids
  BY DEF Messages
<1>1. /\ UNCHANGED <<transactionId, isConnectedServer, connectCallback,
                     connectedClients, delayedSend, netVars>>
      /\ \/ /\ m \in delayedCall /\ delayedCall' = delayedCall \ {m}
            /\ UNCHANGED <<openRequests, connectionContext>>
            /\ outcome' = [outcome EXCEPT ![t] = "answered"]
         \/ /\ m \in openRequests /\ openRequests' = openRequests \ {m}
            /\ UNCHANGED delayedCall
            /\ connectionContext' = [connectionContext EXCEPT ![m] = "timeout"]
            /\ outcome' = [outcome EXCEPT ![t] = "timedOut"]
  BY DEF RunDelayedCallback, HandleTimeout
<1>2. TypeOK'
  BY <1>0, <1>1 DEF DeviceInv, TypeOK, netVars, Requests!TypeOK, Requests!Outcomes
<1>3. Captured' = Captured /\ InTransit' = InTransit
  BY <1>1 DEF Captured, InTransit, netVars
<1>4. Alive' \subseteq Alive /\ m \in Alive
  BY <1>1, <1>3 DEF Alive
<1>5. OneMessage'
  BY <1>4 DEF DeviceInv, OneMessage
<1>6. OnePlace'
  BY <1>1, <1>3 DEF DeviceInv, OnePlace, netVars
<1>7. ContextTellsOutcome'
  <2>1. ASSUME NEW n \in Alive, n # m
        PROVE  /\ connectionContext'[n] = connectionContext[n]
               /\ outcome'[n[1]] = outcome[n[1]]
    <3>1. n \in Messages /\ n[1] \in Tids
      BY DEF DeviceInv, TypeOK, Alive, InTransit, Captured, Messages
    <3>2. n[1] # t
      BY <1>4, <2>1 DEF DeviceInv, OneMessage
    <3>. QED
      BY <1>1, <2>1, <3>1, <3>2 DEF DeviceInv, TypeOK, Requests!TypeOK
  <2>2. CASE m \in delayedCall /\ delayedCall' = delayedCall \ {m}
    <3>1. m \notin Captured \cup InTransit \cup openRequests
      BY <2>2 DEF DeviceInv, OnePlace
    <3>2. openRequests' = openRequests
      BY <1>1, <2>2 DEF DeviceInv, OnePlace
    <3>. QED
      BY <1>3, <2>1, <2>2, <3>1, <3>2 DEF DeviceInv, ContextTellsOutcome, Alive
  <2>3. CASE m \in openRequests /\ openRequests' = openRequests \ {m} /\ m \notin delayedCall
    <3>1. /\ connectionContext'[m] = "timeout" /\ outcome'[t] = "timedOut"
          /\ delayedCall' = delayedCall
      BY <1>0, <1>1, <2>3 DEF DeviceInv, TypeOK, Requests!TypeOK
    <3>. QED
      BY <1>3, <2>1, <2>3, <3>1 DEF DeviceInv, ContextTellsOutcome, Alive
  <2>. QED
    BY <1>1, <2>2, <2>3 DEF DeviceInv, OnePlace
<1>. QED
  BY <1>2, <1>5, <1>6, <1>7 DEF DeviceInv

\* Serving clients takes timeouts away, and nothing else.
LEMMA ServeInv ==
  ASSUME DeviceInv,
         \/ \E c \in Clients : HandleAccept(c)
         \/ \E c \in Clients, t \in Tids : ReceiveRequest(c, t)
  PROVE  DeviceInv'
<1>1. /\ openRequests' \subseteq openRequests
      /\ connectedClients' \subseteq Clients
      /\ UNCHANGED <<transactionId, isConnectedServer, connectCallback,
                     connectionContext, delayedSend, delayedCall, netVars, outcome>>
  BY CancelByTid DEF HandleAccept, ReceiveRequest, DeviceInv, TypeOK
<1>2. TypeOK'
  BY <1>1 DEF DeviceInv, TypeOK, netVars, Requests!TypeOK
<1>3. Captured' = Captured
  BY <1>1 DEF Captured
<1>. QED
  BY <1>1, <1>2, <1>3, FewerInv DEF netVars

LEMMA StutterInv == DeviceInv /\ UNCHANGED vars => DeviceInv'
<1> SUFFICES ASSUME DeviceInv, UNCHANGED vars PROVE DeviceInv'
  OBVIOUS
<1>1. TypeOK'
  BY DEF DeviceInv, vars, TypeOK, Requests!TypeOK
<1>2. Captured' = Captured
  BY DEF vars, Captured
<1>. QED
  BY <1>1, <1>2, FewerInv DEF vars

LEMMA NextInv == DeviceInv /\ [Next]_vars => DeviceInv'
<1> SUFFICES ASSUME DeviceInv, [Next]_vars PROVE DeviceInv'
  OBVIOUS
<1>1. CASE \E s \in Servers, v \in Hooks : SendModbusRequest(s, v)
  BY <1>1, SendInv
<1>2. CASE \E s \in Servers : ConnectionSucceeded(s)
  BY <1>2, ConnectInv
<1>3. CASE \E s \in Servers : \/ HandleConnectionFailed(s)
                              \/ HandleSocketClose(s)
                              \/ HandleSocketError(s)
  BY <1>3, LinkDownInv
<1>4. CASE \E m \in Messages : \/ SendDelayed(m)
                               \/ ServerSendsDelayed(m)
                               \/ \E v \in Hooks : ServerHandles(m, v)
  BY <1>4, MoveInv
<1>5. CASE \E m \in Messages, v \in Hooks : ReceiveResponse(m, v)
  BY <1>5, ReceiveInv
<1>6. CASE \E m \in Messages : RunDelayedCallback(m) \/ HandleTimeout(m)
  BY <1>6, EventInv
<1>7. CASE \/ \E c \in Clients : HandleAccept(c)
           \/ \E c \in Clients, t \in Tids : ReceiveRequest(c, t)
  BY <1>7, ServeInv
<1>8. CASE UNCHANGED vars
  BY <1>8, StutterInv
<1>. QED
  BY <1>1, <1>2, <1>3, <1>4, <1>5, <1>6, <1>7, <1>8 DEF Next

LEMMA Inductive == Spec => []DeviceInv
<1>. QED
  BY InitInv, NextInv, PTL DEF Spec

-----------------------------------------------------------------------------

\* Type correctness of the device, whatever the addresses, the number of
\* transaction ids, the hooks and the link faults.
THEOREM TypeCorrect == Spec => []TypeOK
<1>1. DeviceInv => TypeOK
  BY DEF DeviceInv
<1>. QED
  BY Inductive, <1>1, PTL

\* A response always finds the context of its request (possibly marked as
\* timed out): it is never taken for a request of the remote.
THEOREM ResponsesAreExpected == Spec => []NoOrphanResponse
<1>1. DeviceInv => NoOrphanResponse
  BY DEF DeviceInv, NoOrphanResponse, ContextTellsOutcome
<1>. QED
  BY Inductive, <1>1, PTL

\* The device implements the safety part of ModbusRequest: each request ends
\* at most once and in one way; in particular no receive callback runs for a
\* request whose timeout handler ran, and no timeout is raised for a request
\* whose callback ran.
THEOREM DeviceEndsOnce == Spec => EndsOnce
<1>1. Init => Requests!Init
  BY DEF Init
<1>2. ASSUME DeviceInv, [Next]_vars
      PROVE  [Requests!Next]_outcome
  <2> USE DEF Requests!Next, Requests!Issue, Requests!End
  <2>1. ASSUME NEW s \in Servers, NEW v \in Hooks, SendModbusRequest(s, v)
        PROVE  [Requests!Next]_outcome
    <3>1. transactionId \in Tids /\ outcome \in [Tids -> Requests!Outcomes]
      BY <1>2 DEF DeviceInv, TypeOK, Requests!TypeOK
    <3>2. outcome' = [outcome EXCEPT ![transactionId] = "open"]
      BY <2>1 DEF SendModbusRequest
    <3>. QED
      BY <3>1, <3>2
  <2>2. ASSUME NEW m \in Messages, NEW v \in Hooks, ReceiveResponse(m, v)
        PROVE  [Requests!Next]_outcome
    <3>1. m[1] \in Tids /\ outcome \in [Tids -> Requests!Outcomes]
      BY <1>2 DEF DeviceInv, TypeOK, Requests!TypeOK, Messages
    <3>2. connectionContext[m] = "request" => outcome[m[1]] = "open"
      BY <1>2, <2>2 DEF ReceiveResponse, DeviceInv, ContextTellsOutcome, InTransit, Expected
    <3>3. outcome' = [outcome EXCEPT ![m[1]] =
                        CASE connectionContext[m] = "request" /\ v = "pass" -> "answered"
                          [] connectionContext[m] = "request" /\ v = "drop" -> "suppressed"
                          [] OTHER -> @]
      BY <2>2 DEF ReceiveResponse, Expected
    <3>. QED
      BY <3>1, <3>2, <3>3
  <2>3. ASSUME NEW m \in Messages, RunDelayedCallback(m) \/ HandleTimeout(m)
        PROVE  [Requests!Next]_outcome
    <3>1. m[1] \in Tids
      BY DEF Messages
    <3>2. outcome[m[1]] = "open"
      BY <1>2, <2>3 DEF RunDelayedCallback, HandleTimeout, DeviceInv, ContextTellsOutcome
    <3>3. \E o \in {"answered", "timedOut"} : outcome' = [outcome EXCEPT ![m[1]] = o]
      BY <2>3 DEF RunDelayedCallback, HandleTimeout
    <3>. QED
      BY <3>1, <3>2, <3>3
  <2>4. ASSUME NEW s \in Servers,
               \/ ConnectionSucceeded(s) \/ HandleConnectionFailed(s)
               \/ HandleSocketClose(s) \/ HandleSocketError(s)
        PROVE  UNCHANGED outcome
    BY <2>4 DEF ConnectionSucceeded, HandleConnectionFailed, HandleSocketClose,
                HandleSocketError
  <2>5. ASSUME NEW m \in Messages,
               \/ SendDelayed(m) \/ ServerSendsDelayed(m)
               \/ \E v \in Hooks : ServerHandles(m, v)
        PROVE  UNCHANGED outcome
    BY <2>5 DEF SendDelayed, ServerSendsDelayed, ServerHandles
  <2>6. ASSUME NEW c \in Clients,
               HandleAccept(c) \/ \E t \in Tids : ReceiveRequest(c, t)
        PROVE  UNCHANGED outcome
    BY <2>6 DEF HandleAccept, ReceiveRequest
  <2>7. CASE UNCHANGED vars
    BY <2>7 DEF vars
  <2> USE DEF Next
  <2>. QED
    BY <1>2, <2>1, <2>2, <2>3, <2>4, <2>5, <2>6, <2>7
<1>. QED
  BY <1>1, <1>2, Inductive, PTL DEF Spec, EndsOnce, Requests!SafeSpec

\* On a device that nobody sends requests to (every sensor, actuator and the
\* HMI as clients of the others), an open request always has its timeout
\* pending or its answer in hand: no request is silently forgotten.
THEOREM ClientNeverForgets ==
  ASSUME Clients = {}
  PROVE  Spec => []OpenHasTimeout
<1> DEFINE I == DeviceInv /\ OpenHasTimeout
<1>1. Init => I
  BY InitInv DEF Init, OpenHasTimeout, Requests!Init
<1>2. I /\ [Next]_vars => I'
  <2> SUFFICES ASSUME DeviceInv, OpenHasTimeout, [Next]_vars
               PROVE  OpenHasTimeout'
    BY NextInv
  <2> SUFFICES ASSUME NEW u \in Tids, outcome'[u] = "open"
               PROVE  \E n \in openRequests' \cup delayedCall' : n[1] = u
    BY DEF OpenHasTimeout, Of
  <2>0. outcome[u] = "open" => \E n \in openRequests \cup delayedCall : n[1] = u
    BY DEF OpenHasTimeout, Of
  <2>1. CASE \E s \in Servers, v \in Hooks : SendModbusRequest(s, v)
    <3> PICK s \in Servers, v \in Hooks : SendModbusRequest(s, v)
      BY <2>1
    <3>1. /\ openRequests' = openRequests \cup {<<transactionId, s>>}
          /\ delayedCall' = delayedCall
          /\ outcome' = [outcome EXCEPT ![transactionId] = "open"]
      BY DEF SendModbusRequest
    <3>2. CASE u = transactionId
      <4> DEFINE m == <<transactionId, s>>
      <4>1. m \in openRequests' \cup delayedCall' /\ m[1] = u
        BY <3>1, <3>2
      <4> HIDE DEF m
      <4>. QED
        BY <4>1
    <3>3. CASE u # transactionId
      <4>1. outcome[u] = "open"
        BY <3>1, <3>3 DEF DeviceInv, TypeOK, Requests!TypeOK
      <4>. QED
        BY <2>0, <3>1, <4>1
    <3>. QED
      BY <3>2, <3>3
  <2>2. CASE \E m \in Messages, v \in Hooks : ReceiveResponse(m, v)
    <3> PICK m \in Messages, v \in Hooks : ReceiveResponse(m, v)
      BY <2>2
    <3>1. m[1] \in Tids /\ m \in toDevice
      BY DEF Messages, ReceiveResponse
    <3>2. /\ openRequests' = CancelTimeout(m[1])
          /\ delayedCall' = IF connectionContext[m] = "request" /\ v = "delay"
                              THEN delayedCall \cup {m} ELSE delayedCall
          /\ outcome' = [outcome EXCEPT ![m[1]] =
                        CASE connectionContext[m] = "request" /\ v = "pass" -> "answered"
                          [] connectionContext[m] = "request" /\ v = "drop" -> "suppressed"
                          [] OTHER -> @]
      BY DEF ReceiveResponse, Expected
    <3>3. CASE u # m[1]
      BY <2>0, <3>1, <3>2, <3>3, CancelByTid DEF DeviceInv, TypeOK, Requests!TypeOK
    <3>4. CASE u = m[1]
      <4>1. \/ connectionContext[m] = "request"
            \/ outcome[u] = "timedOut" /\ connectionContext[m] = "timeout"
        BY <3>1, <3>4 DEF DeviceInv, ContextTellsOutcome, InTransit
      <4>2. outcome \in [Tids -> Requests!Outcomes]
        BY DEF DeviceInv, TypeOK, Requests!TypeOK
      <4>3. connectionContext[m] = "request" /\ v = "delay"
        BY <3>2, <3>4, <4>1, <4>2, HooksAssumption
      <4>. QED
        BY <3>2, <3>4, <4>3
    <3>. QED
      BY <3>3, <3>4
  <2>3. CASE \E m \in Messages : RunDelayedCallback(m) \/ HandleTimeout(m)
    <3> PICK m \in Messages : RunDelayedCallback(m) \/ HandleTimeout(m)
      BY <2>3
    <3>1. m[1] \in Tids
      BY DEF Messages
    <3>2. /\ \E o \in {"answered", "timedOut"} : outcome' = [outcome EXCEPT ![m[1]] = o]
          /\ openRequests \ {m} \subseteq openRequests'
          /\ delayedCall \ {m} \subseteq delayedCall'
      BY DEF RunDelayedCallback, HandleTimeout
    <3>3. u # m[1] /\ outcome[u] = "open"
      BY <3>1, <3>2 DEF DeviceInv, TypeOK, Requests!TypeOK
    <3>. QED
      BY <2>0, <3>2, <3>3
  <2>4. CASE UNCHANGED <<openRequests, delayedCall, outcome>>
    BY <2>0, <2>4
  <2>5. CASE \/ \E s \in Servers : \/ ConnectionSucceeded(s) \/ HandleConnectionFailed(s)
                                   \/ HandleSocketClose(s) \/ HandleSocketError(s)
             \/ \E m \in Messages : \/ SendDelayed(m) \/ ServerSendsDelayed(m)
                                    \/ \E v \in Hooks : ServerHandles(m, v)
             \/ UNCHANGED vars
    BY <2>4, <2>5 DEF ConnectionSucceeded, HandleConnectionFailed, HandleSocketClose,
         HandleSocketError, SendDelayed, ServerSendsDelayed, ServerHandles, deviceVars, vars
  <2>. QED
    BY <2>1, <2>2, <2>3, <2>5 DEF Next
<1>. QED
  BY <1>1, <1>2, PTL DEF Spec
=============================================================================
