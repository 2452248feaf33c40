---------------------------- MODULE ModbusDevice -----------------------------
(***************************************************************************)
(* The request side of IndustrialDevice (model/industrial-device.cc): one  *)
(* device that sends Modbus/TCP requests to Servers and is itself asked by *)
(* Clients.  One action per handler; every handler is one event of the     *)
(* simulator and runs to completion.                                       *)
(*                                                                         *)
(* A message is the pair <<transaction id, server>> of the request that    *)
(* caused it.  The verdict of a message hook (m_attackRequestHook,         *)
(* m_attackMessageHook) is "pass" (delay 0, or no hook), "delay" (> 0) or  *)
(* "drop" (< 0).  Durations are left out: every pending event may be the   *)
(* next one.                                                               *)
(***************************************************************************)
EXTENDS Integers, FiniteSets

CONSTANTS
  Servers,     \* remote addresses the device sends requests to (ip, 502)
  Clients,     \* remote addresses that connect to the device (ip, ephemeral)
  TidMod,      \* number of transaction ids (2^16 in the code)
  Hooks,       \* the verdicts the installed hooks may return
  LinkFaults   \* whether established connections may break

ASSUME TidModAssumption == TidMod \in Nat \ {0}
ASSUME HooksAssumption == "pass" \in Hooks /\ Hooks \subseteq {"pass", "delay", "drop"}
ASSUME AddressAssumption == Servers \cap Clients = {}

Tids == 0 .. TidMod - 1
Messages == Tids \X Servers
Verdicts == {"pass", "delay", "drop"}

VARIABLES
  transactionId,      \* m_transactionId
  isConnectedServer,  \* m_isConnectedServer
  connectCallback,    \* per server: the request captured by the connect callback
  connectionContext,  \* m_connectionContext: no entry, a request, or "timeout"
  openRequests,       \* m_openRequests: the HandleTimeout events still pending
  connectedClients,   \* keys of m_connectedClients
  delayedSend,        \* SendData events scheduled by the request hook
  delayedCall,        \* m_recvCallback events scheduled by the message hook
  link,               \* TCP state of each server socket
  toServer,           \* requests in the TCP connection
  delayedReply,       \* responses held back by the server's response hook
  toDevice,           \* responses in the TCP connection
  outcome             \* how each transaction ended (history)

deviceVars == <<transactionId, isConnectedServer, connectCallback,
                connectionContext, openRequests, connectedClients,
                delayedSend, delayedCall>>
netVars == <<link, toServer, delayedReply, toDevice>>
vars == <<transactionId, isConnectedServer, connectCallback,
          connectionContext, openRequests, connectedClients,
          delayedSend, delayedCall, link, toServer, delayedReply, toDevice,
          outcome>>

Requests == INSTANCE ModbusRequest WITH Transactions <- Tids

TypeOK ==
  /\ transactionId \in Tids
  /\ isConnectedServer \in [Servers -> BOOLEAN]
  /\ connectCallback \in [Servers -> SUBSET (Tids \X Verdicts)]
  /\ connectionContext \in [Messages -> {"none", "request", "timeout"}]
  /\ openRequests \subseteq Messages
  /\ connectedClients \subseteq Clients
  /\ delayedSend \subseteq Messages
  /\ delayedCall \subseteq Messages
  /\ link \in [Servers -> {"closed", "connecting", "open"}]
  /\ toServer \subseteq Messages
  /\ delayedReply \subseteq Messages
  /\ toDevice \subseteq Messages
  /\ Requests!TypeOK

Init ==
  /\ transactionId = 0
  /\ isConnectedServer = [s \in Servers |-> FALSE]
  /\ connectCallback = [s \in Servers |-> {}]
  /\ connectionContext = [m \in Messages |-> "none"]
  /\ openRequests = {}
  /\ connectedClients = {}
  /\ delayedSend = {}
  /\ delayedCall = {}
  /\ link = [s \in Servers |-> "closed"]
  /\ toServer = {}
  /\ delayedReply = {}
  /\ toDevice = {}
  /\ Requests!Init

-----------------------------------------------------------------------------
(* Helpers *)

Of(S, t) == {m \in S : m[1] = t}
To(S, s) == {m \in S : m[2] = s}

\* The requests that wait for their connection, the messages that are on their
\* way, and the transactions of which any message, callback or timer is left.
Captured == {m \in Messages : \E v \in Verdicts : <<m[1], v>> \in connectCallback[m[2]]}
InTransit == delayedSend \cup toServer \cup delayedReply \cup toDevice
Alive == Captured \cup InTransit \cup delayedCall \cup openRequests
Busy == {m[1] : m \in Alive}

\* Mutants: the counter is wider than 16 bits; the timeout of the latest
\* request is cancelled, or none; a response is accepted after its timeout;
\* the connect callback installed first is kept.
NextIdWide == transactionId + 1
CancelLatest(t) == openRequests \ Of(openRequests, (transactionId + TidMod - 1) % TidMod)
CancelNothing(t) == openRequests
ExpectedEvenLate(m) == connectionContext[m] # "none"
KeepFirstCallback(s, t, v) ==
  IF connectCallback[s] = {} THEN [connectCallback EXCEPT ![s] = {<<t, v>>}]
  ELSE connectCallback

\* m_transactionId++ on sixteen bits.
NextId == (transactionId + 1) % TidMod

\* The response belongs to a request that has not timed out.
Expected(m) == connectionContext[m] = "request"

\* SetConnectCallback replaces the callback that was installed before.
InstallCallback(s, t, v) == [connectCallback EXCEPT ![s] = {<<t, v>>}]

\* Simulator::Cancel(m_openRequests[tid]): the map is keyed by the id alone.
CancelTimeout(t) == openRequests \ Of(openRequests, t)

\* Without hook delays the ids of a connection travel in the order they were
\* issued (TCP), and messages combined in one segment are handled in that order;
\* a hook delays each message by an amount of its own.  (Mutant: the combined
\* messages are handled last to first.)
Age(t) == (transactionId + TidMod - 1 - t) % TidMod
LastFirst(S, m) == "delay" \in Hooks \/ \A n \in To(S, m[2]) : Age(n[1]) >= Age(m[1])
InOrder(S, m) == "delay" \in Hooks \/ \A n \in To(S, m[2]) : Age(n[1]) <= Age(m[1])

\* socket->Send: nothing is sent on a closed socket; before the connection is
\* established the data waits in the transmit buffer.
SendData(m) == IF link[m[2]] = "closed" THEN toServer ELSE toServer \cup {m}

-----------------------------------------------------------------------------
(* The device as a client *)

\* SendModbusRequest.  The ids of outstanding messages are not reused: the
\* code's counter wraps only after 2^16 requests.
SendModbusRequest(s, v) ==
  LET t == transactionId
      m == <<t, s>>
  IN /\ t \notin Busy
     /\ transactionId' = NextId
     /\ connectionContext' = [connectionContext EXCEPT ![m] = "request"]
     /\ openRequests' = openRequests \cup {m}
     /\ outcome' = [outcome EXCEPT ![t] = "open"]
     /\ \/ /\ isConnectedServer[s]
           /\ toServer' = IF v = "pass" THEN SendData(m) ELSE toServer
           /\ delayedSend' = IF v = "delay" THEN delayedSend \cup {m} ELSE delayedSend
           /\ UNCHANGED <<link, connectCallback>>
        \/ /\ ~isConnectedServer[s]
           /\ link' = [link EXCEPT ![s] = "connecting"]
           /\ connectCallback' = InstallCallback(s, t, v)
           /\ UNCHANGED <<toServer, delayedSend>>
     /\ UNCHANGED <<isConnectedServer, connectedClients, delayedCall,
                    delayedReply, toDevice>>

\* The TCP handshake succeeds and the connect callback installed last runs
\* (none is installed on a socket that HandleSocketError created).
ConnectionSucceeded(s) ==
  LET now(v) == {m \in Messages : m[2] = s /\ <<m[1], v>> \in connectCallback[s]}
  IN /\ link[s] = "connecting"
     /\ link' = [link EXCEPT ![s] = "open"]
     /\ isConnectedServer' =
          [isConnectedServer EXCEPT ![s] = @ \/ connectCallback[s] # {}]
     /\ toServer' = toServer \cup now("pass")
     /\ delayedSend' = delayedSend \cup now("delay")
     /\ connectCallback' = [connectCallback EXCEPT ![s] = {}]
     /\ UNCHANGED <<transactionId, connectionContext, openRequests,
                    connectedClients, delayedCall, delayedReply, toDevice, outcome>>

\* The TCP handshake is given up: HandleConnectionFailed, if it is installed.
HandleConnectionFailed(s) ==
  /\ link[s] = "connecting"
  /\ link' = [link EXCEPT ![s] = "closed"]
  /\ isConnectedServer' =
       [isConnectedServer EXCEPT ![s] = @ /\ connectCallback[s] = {}]
  /\ connectCallback' = [connectCallback EXCEPT ![s] = {}]
  /\ toServer' = toServer \ To(toServer, s)
  /\ UNCHANGED <<transactionId, connectionContext, openRequests, connectedClients,
                 delayedSend, delayedCall, delayedReply, toDevice, outcome>>

\* The peer closes the connection.
HandleSocketClose(s) ==
  /\ LinkFaults
  /\ link[s] = "open"
  /\ link' = [link EXCEPT ![s] = "closed"]
  /\ isConnectedServer' = [isConnectedServer EXCEPT ![s] = FALSE]
  /\ toServer' = toServer \ To(toServer, s)
  /\ delayedReply' = delayedReply \ To(delayedReply, s)
  /\ toDevice' = toDevice \ To(toDevice, s)
  /\ UNCHANGED <<transactionId, connectCallback, connectionContext, openRequests,
                 connectedClients, delayedSend, delayedCall, outcome>>

\* The connection breaks: the socket is replaced by a new one, which is
\* connected without a connect callback and taken to be connected at once.
\* Delayed sends keep the old, closed socket.
HandleSocketError(s) ==
  /\ LinkFaults
  /\ link[s] = "open"
  /\ link' = [link EXCEPT ![s] = "connecting"]
  /\ isConnectedServer' = [isConnectedServer EXCEPT ![s] = TRUE]
  /\ connectCallback' = [connectCallback EXCEPT ![s] = {}]
  /\ delayedSend' = delayedSend \ To(delayedSend, s)
  /\ toServer' = toServer \ To(toServer, s)
  /\ delayedReply' = delayedReply \ To(delayedReply, s)
  /\ toDevice' = toDevice \ To(toDevice, s)
  /\ UNCHANGED <<transactionId, connectionContext, openRequests,
                 connectedClients, delayedCall, outcome>>

\* The SendData event that a request hook's delay scheduled.
SendDelayed(m) ==
  /\ m \in delayedSend
  /\ delayedSend' = delayedSend \ {m}
  /\ toServer' = SendData(m)
  /\ UNCHANGED <<transactionId, isConnectedServer, connectCallback,
                 connectionContext, openRequests, connectedClients, delayedCall,
                 link, delayedReply, toDevice, outcome>>

\* ReceiveModbusMessage, for one response of a server.
ReceiveResponse(m, v) ==
  LET t == m[1]
      wanted == Expected(m)
  IN /\ m \in toDevice
     /\ link[m[2]] = "open"
     /\ InOrder(toDevice, m)
     /\ toDevice' = toDevice \ {m}
     /\ delayedCall' = IF wanted /\ v = "delay" THEN delayedCall \cup {m} ELSE delayedCall
     /\ outcome' =
          [outcome EXCEPT ![t] = CASE wanted /\ v = "pass" -> "answered"
                                   [] wanted /\ v = "drop" -> "suppressed"
                                   [] OTHER -> @]
     /\ openRequests' = CancelTimeout(t)
     /\ connectionContext' = [connectionContext EXCEPT ![m] = "none"]
     /\ UNCHANGED <<transactionId, isConnectedServer, connectCallback,
                    connectedClients, delayedSend, link, toServer, delayedReply>>

\* The receive callback that the message hook's delay scheduled.
RunDelayedCallback(m) ==
  /\ m \in delayedCall
  /\ delayedCall' = delayedCall \ {m}
  /\ outcome' = [outcome EXCEPT ![m[1]] = "answered"]
  /\ UNCHANGED <<transactionId, isConnectedServer, connectCallback,
                 connectionContext, openRequests, connectedClients, delayedSend,
                 netVars>>

\* Mutant: the context of a request that timed out is erased, not marked.
TimeoutErasesContext(m) ==
  /\ m \in openRequests
  /\ openRequests' = openRequests \ {m}
  /\ connectionContext' = [connectionContext EXCEPT ![m] = "none"]
  /\ outcome' = [outcome EXCEPT ![m[1]] = "timedOut"]
  /\ UNCHANGED <<transactionId, isConnectedServer, connectCallback,
                 connectedClients, delayedSend, delayedCall, netVars>>

\* HandleTimeout.
HandleTimeout(m) ==
  /\ m \in openRequests
  /\ openRequests' = openRequests \ {m}
  /\ connectionContext' = [connectionContext EXCEPT ![m] = "timeout"]
  /\ outcome' = [outcome EXCEPT ![m[1]] = "timedOut"]
  /\ UNCHANGED <<transactionId, isConnectedServer, connectCallback,
                 connectedClients, delayedSend, delayedCall, netVars>>

-----------------------------------------------------------------------------
(* The device as a server *)

HandleAccept(c) ==
  /\ c \notin connectedClients
  /\ connectedClients' = connectedClients \cup {c}
  /\ UNCHANGED <<transactionId, isConnectedServer, connectCallback,
                 connectionContext, openRequests, delayedSend, delayedCall,
                 netVars, outcome>>

\* ReceiveModbusMessage, for a request of a client that carries the client's
\* transaction id t: the empty context found for it is erased again, but the
\* timeout of the device's own transaction t is cancelled.
ReceiveRequest(c, t) ==
  /\ c \in connectedClients
  /\ openRequests' = CancelTimeout(t)
  /\ UNCHANGED <<transactionId, isConnectedServer, connectCallback,
                 connectionContext, connectedClients, delayedSend, delayedCall,
                 netVars, outcome>>

-----------------------------------------------------------------------------
(* The other end of each connection *)

\* The server handles a request; SendModbusResponse sends the response now,
\* later or never.
ServerHandles(m, v) ==
  /\ m \in toServer
  /\ link[m[2]] = "open"
  /\ InOrder(toServer, m)
  /\ toServer' = toServer \ {m}
  /\ toDevice' = IF v = "pass" THEN toDevice \cup {m} ELSE toDevice
  /\ delayedReply' = IF v = "delay" THEN delayedReply \cup {m} ELSE delayedReply
  /\ UNCHANGED <<deviceVars, link, outcome>>

ServerSendsDelayed(m) ==
  /\ m \in delayedReply
  /\ delayedReply' = delayedReply \ {m}
  /\ toDevice' = toDevice \cup {m}
  /\ UNCHANGED <<deviceVars, link, toServer, outcome>>

-----------------------------------------------------------------------------

Next ==
  \/ \E s \in Servers, v \in Hooks : SendModbusRequest(s, v)
  \/ \E s \in Servers : \/ ConnectionSucceeded(s)
                        \/ HandleConnectionFailed(s)
                        \/ HandleSocketClose(s)
                        \/ HandleSocketError(s)
  \/ \E m \in Messages : \/ SendDelayed(m)
                         \/ RunDelayedCallback(m)
                         \/ HandleTimeout(m)
                         \/ ServerSendsDelayed(m)
  \/ \E m \in Messages, v \in Hooks : ReceiveResponse(m, v) \/ ServerHandles(m, v)
  \/ \E c \in Clients : HandleAccept(c)
  \/ \E c \in Clients, t \in Tids : ReceiveRequest(c, t)

\* A scheduled event of the simulator runs: the timeouts and the delayed
\* callbacks.  Nothing is assumed of the network, the servers or the clients.
Fairness ==
  \A m \in Messages : WF_vars(HandleTimeout(m)) /\ WF_vars(RunDelayedCallback(m))

Spec == Init /\ [][Next]_vars
FairSpec == Spec /\ Fairness

-----------------------------------------------------------------------------
(* Properties *)

\* Whatever is on its way to a server, at it, or on its way back, the device
\* still knows that it asked: a response is never mistaken for a request of
\* the remote (an empty context means "initiated by remote").
NoOrphanResponse ==
  \A m \in Captured \cup InTransit : connectionContext[m] # "none"

\* A request that has not ended has its HandleTimeout event pending, unless
\* its answer has arrived and only the receive callback is being delayed.
OpenHasTimeout ==
  \A t \in Tids : outcome[t] = "open" => Of(openRequests \cup delayedCall, t) # {}

\* m_isConnectedServer is only set for a socket that is connected or connecting:
\* requests are never handed to a closed socket while the device believes that
\* the connection stands.
ConnectedMeansOpen ==
  \A s \in Servers : isConnectedServer[s] => link[s] # "closed"

\* The device keeps the promise of ModbusRequest: each request ends once, in
\* one way, no callback runs after the timeout handler (safety) ...
EndsOnce == Requests!SafeSpec
\* ... and every request ends (with liveness).
EveryRequestEnds == Requests!Spec

-----------------------------------------------------------------------------
(* Why they hold: the inductive invariant of the device *)

\* A transaction has one server, and its message is in one place.
OneMessage == \A m, n \in Alive : m[1] = n[1] => m = n
OnePlace ==
  /\ \A s \in Servers : \A c, d \in connectCallback[s] : c = d
  /\ delayedCall \cap (Captured \cup InTransit \cup openRequests) = {}
  /\ Captured \cap InTransit = {}
  /\ delayedSend \cap (toServer \cup delayedReply \cup toDevice) = {}
  /\ toServer \cap (delayedReply \cup toDevice) = {}
  /\ delayedReply \cap toDevice = {}

\* The stored context agrees with how the transaction stands.
ContextTellsOutcome ==
  /\ \A m \in Captured \cup InTransit :
       \/ connectionContext[m] = "request" /\ outcome[m[1]] = "open"
       \/ connectionContext[m] = "timeout" /\ outcome[m[1]] = "timedOut"
  /\ \A m \in openRequests :
       connectionContext[m] = "request" /\ outcome[m[1]] = "open"
  /\ \A m \in delayedCall : outcome[m[1]] = "open"

DeviceInv == TypeOK /\ OneMessage /\ OnePlace /\ ContextTellsOutcome
=============================================================================
