---------------------------- MODULE ModbusRequest ----------------------------
(***************************************************************************)
(* What a device promises about the Modbus requests it sends, without      *)
(* sockets, timers or a network: a transaction that has been issued ends   *)
(* in exactly one way (its receive callback ran, its timeout handler ran,  *)
(* or the installed message hook discarded the answer) and stays ended     *)
(* until its transaction id is used again.                                 *)
(***************************************************************************)
CONSTANT Transactions  \* the transaction ids

VARIABLE outcome       \* how the latest request with each id has ended

Outcomes == {"idle", "open", "answered", "timedOut", "suppressed"}

TypeOK == outcome \in [Transactions -> Outcomes]

Init == outcome = [t \in Transactions |-> "idle"]

Issue(t) ==
  /\ outcome[t] # "open"
  /\ outcome' = [outcome EXCEPT ![t] = "open"]

End(t) ==
  /\ outcome[t] = "open"
  /\ \E o \in {"answered", "timedOut", "suppressed"} :
       outcome' = [outcome EXCEPT ![t] = o]

Next == \E t \in Transactions : Issue(t) \/ End(t)

\* The safety half of the promise, and the promise with its liveness half:
\* no issued request stays open for ever.
SafeSpec == Init /\ [][Next]_outcome
Spec == SafeSpec /\ \A t \in Transactions : WF_outcome(End(t))
=============================================================================
