---------------------------- MODULE ModbusMemory -----------------------------
(***************************************************************************)
(* What the Modbus tables of a device promise to a client, without bytes,  *)
(* bounds checks in an order or loops: a request inside a table reads or   *)
(* writes exactly the items it names, all of them at once; any other       *)
(* request is refused and changes nothing.  The tables that clients cannot *)
(* write may change and grow, but never shrink.                            *)
(***************************************************************************)
EXTENDS Naturals, Sequences

CONSTANT Absent  \* no request, or no answer

VARIABLES table, request, answer

Refused == [ok |-> FALSE, values |-> <<>>]
Done(values) == [ok |-> TRUE, values |-> values]

\* A request names count items from address on, and gives as many values if it
\* writes them.
Inside(r) == r.count >= 1 /\ r.address + r.count <= Len(table[r.kind])
Valid(r) == Inside(r) /\ (r.write => Len(r.values) = r.count)

Items(r) == SubSeq(table[r.kind], r.address + 1, r.address + r.count)
Replaced(r) ==
  [i \in DOMAIN table[r.kind] |->
     IF i \in r.address + 1 .. r.address + r.count THEN r.values[i - r.address]
     ELSE table[r.kind][i]]

Init == request = Absent /\ answer = Absent

Ask == request = Absent /\ request' # Absent /\ UNCHANGED <<table, answer>>

Serve ==
  /\ request # Absent
  /\ request' = Absent
  /\ IF ~Valid(request) THEN answer' = Refused /\ UNCHANGED table
     ELSE IF request.write
          THEN answer' = Done(<<>>) /\ table' = [table EXCEPT ![request.kind] = Replaced(request)]
          ELSE answer' = Done(Items(request)) /\ UNCHANGED table

Receive == answer # Absent /\ answer' = Absent /\ UNCHANGED <<table, request>>

Update ==
  /\ \A k \in {"coil", "holding"} : table'[k] = table[k]
  /\ \A k \in {"discrete", "input"} : Len(table'[k]) >= Len(table[k])
  /\ UNCHANGED <<request, answer>>

Next == Ask \/ Serve \/ Receive \/ Update

Spec == Init /\ [][Next]_<<table, request, answer>>
=============================================================================
