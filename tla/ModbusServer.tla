---------------------------- MODULE ModbusServer -----------------------------
(***************************************************************************)
(* A PLC as a Modbus server (the request branch of PLC::ReceiveModbusData, *)
(* model/plc.cc): its four tables, how names get their addresses, how a    *)
(* request is checked, served and answered byte by byte, and how a client  *)
(* takes the answer apart.  Sensors and actuators repeat the same handlers *)
(* over the values of the physical process.                                *)
(*                                                                         *)
(* A request is handled in one event, so one at a time is enough: requests *)
(* of other clients only change the tables between two of them.            *)
(***************************************************************************)
EXTENDS Integers, Sequences, FiniteSets

CONSTANTS
  Devices,         \* sensors and actuators, as a sequence without repetition
  DiscreteNames,   \* further discrete inputs, addressed when they are first set
  InputNames,      \* input registers, addressed when they are first set
  CoilCount,       \* number of coils
  RegisterCount,   \* number of holding registers
  Readings,        \* the values an input register may take
  ClientRequests,  \* the requests a client may send, beside the HMI's reads
  StrayBytes,      \* what may be read behind the end of a request
  Absent

\* The loops over the items of a table count in eight bits.
ASSUME SizeAssumption ==
  /\ CoilCount \in 0 .. 255 /\ RegisterCount \in 0 .. 127
  /\ IsFiniteSet(DiscreteNames) /\ Len(Devices) + Cardinality(DiscreteNames) <= 255
  /\ IsFiniteSet(InputNames) /\ Cardinality(InputNames) <= 127
ASSUME NameAssumption ==
  /\ Devices \in Seq({Devices[i] : i \in DOMAIN Devices})
  /\ \A i, j \in 1 .. Len(Devices) : Devices[i] = Devices[j] => i = j
  /\ DiscreteNames \cap {Devices[i] : i \in DOMAIN Devices} = {}
ASSUME ValueAssumption ==
  /\ Readings \subseteq Nat /\ \A w \in Readings : w < 2^16
  /\ StrayBytes \subseteq 0 .. 255 /\ StrayBytes # {}

Kinds == {"coil", "discrete", "holding", "input"}

\* What a client may send: the fields the function code reads, and the values.
Byte == 0 .. 255
Word == 0 .. 2^16 - 1
Requests == [fc : Byte, address : Word, count : Word, byteCount : Byte, data : Seq(Byte)]

\* The loop that stores coils counts bits in eight bits, up to the end of the
\* request: with more bytes than the largest table needs it would start over.
\* The two bytes of a single coil are read without a look at the length; fewer
\* are not sent, since what is then read behind the request decides.
ASSUME RequestAssumption ==
  \A r \in ClientRequests :
    /\ r \in Requests
    /\ r.fc = 15 => Len(r.data) <= 32
    /\ r.fc = 5 => Len(r.data) >= 2

VARIABLES
  table,            \* m_coils, m_discreteInputs, m_holdingRegisters, m_inputRegisters
  discreteAddress,  \* m_sensorDiscreteInputsMap
  inputAddress,     \* m_sensorInputRegisterMap
  request,          \* the request on its way to the PLC
  context,          \* the client's RequestContext of it
  response          \* the response on its way back

vars == <<table, discreteAddress, inputAddress, request, context, response>>

\* m_customDiscreteInputStart
CustomDiscreteInputStart == Len(Devices)
DeviceNames == {Devices[i] : i \in 1 .. Len(Devices)}

\* The constructors: a timeout flag per device, set, then the PLC's own names.
Init ==
  /\ table = [coil |-> [i \in 1 .. CoilCount |-> FALSE],
              discrete |-> [i \in 1 .. Len(Devices) |-> TRUE],
              holding |-> [i \in 1 .. RegisterCount |-> 0],
              input |-> <<>>]
  /\ discreteAddress = [d \in DeviceNames |-> (CHOOSE i \in 1 .. Len(Devices) : Devices[i] = d) - 1]
  /\ inputAddress = [n \in {} |-> 0]
  /\ request = Absent
  /\ context = Absent
  /\ response = Absent

-----------------------------------------------------------------------------
(* Bits and words on the wire *)

Bit(byte, j) == (byte \div 2^j) % 2 = 1
PackByte(bits) ==
  LET bit(i) == IF i <= Len(bits) /\ bits[i] THEN 2^(i - 1) ELSE 0
  IN bit(1) + bit(2) + bit(3) + bit(4) + bit(5) + bit(6) + bit(7) + bit(8)

\* 1 + (n-1) / 8, which is 1 for n = 0 as well (the division truncates).
ByteCount(n) == IF n = 0 THEN 1 ELSE 1 + (n - 1) \div 8

\* A byte is pushed after every eighth bit, and the rest if one byte is still
\* missing.
BytesPushed(n) == IF 1 + n \div 8 = ByteCount(n) THEN n \div 8 + 1 ELSE n \div 8

PackBits(bits) ==
  LET n == Len(bits)
      upTo(k) == IF 8 * k < n THEN 8 * k ELSE n
  IN <<ByteCount(n)>> \o
     [k \in 1 .. BytesPushed(n) |-> PackByte(SubSeq(bits, 8 * k - 7, upTo(k)))]

PackWords(words) ==
  <<(2 * Len(words)) % 256>> \o
  [k \in 1 .. 2 * Len(words) |-> IF k % 2 = 1 THEN words[(k + 1) \div 2] \div 256
                                 ELSE words[k \div 2] % 256]

\* The client's side: data[(i+8)/8] >> (i%8), and data[2*i+2] | data[2*i+1] << 8.
UnpackBits(data, n) == [i \in 1 .. n |-> Bit(data[(i + 7) \div 8 + 1], (i - 1) % 8)]
UnpackWords(data) ==
  [i \in 1 .. data[1] \div 2 |-> data[2 * i] * 256 + data[2 * i + 1]]

-----------------------------------------------------------------------------
(* The tables *)

\* SetDiscreteInputValue and SetInputRegisterValue: an unknown name gets the
\* next free address.  (Mutant: the address behind it.)
BehindFree(k) == Len(table[k]) + 1
NextFree(k) == Len(table[k])

SetDiscreteInputValue(name, value) ==
  /\ IF name \in DOMAIN discreteAddress
     THEN /\ table' = [table EXCEPT !.discrete[discreteAddress[name] + 1] = value]
          /\ UNCHANGED discreteAddress
     ELSE /\ table' = [table EXCEPT !.discrete = Append(@, value)]
          /\ discreteAddress' = [n \in DOMAIN discreteAddress \cup {name} |->
                                   IF n = name THEN NextFree("discrete") ELSE discreteAddress[n]]
  /\ UNCHANGED <<inputAddress, request, context, response>>

SetInputRegisterValue(name, value) ==
  /\ IF name \in DOMAIN inputAddress
     THEN /\ table' = [table EXCEPT !.input[inputAddress[name] + 1] = value]
          /\ UNCHANGED inputAddress
     ELSE /\ table' = [table EXCEPT !.input = Append(@, value)]
          /\ inputAddress' = [n \in DOMAIN inputAddress \cup {name} |->
                                IF n = name THEN NextFree("input") ELSE inputAddress[n]]
  /\ UNCHANGED <<discreteAddress, request, context, response>>

-----------------------------------------------------------------------------
(* The client *)

\* RequestCoils, RequestDiscreteInputs, RequestHoldingRegisters and
\* RequestInputRegisters: the HMI asks for as many items as the PLC has now.
ReadCode == [coil |-> 1, discrete |-> 2, holding |-> 3, input |-> 4]
HMIRead(k) == [fc |-> ReadCode[k], address |-> 0, count |-> Len(table[k]),
               byteCount |-> 0, data |-> <<>>]

Send(r) ==
  /\ request = Absent /\ response = Absent
  /\ request' = r
  /\ context' = r
  /\ UNCHANGED <<table, discreteAddress, inputAddress, response>>

HMIRequest == \E k \in Kinds : table[k] # <<>> /\ Send(HMIRead(k))

Receive ==
  /\ response # Absent
  /\ response' = Absent
  /\ context' = Absent
  /\ UNCHANGED <<table, discreteAddress, inputAddress, request>>

-----------------------------------------------------------------------------
(* The handlers, by function code.  Each gives the possible outcomes: an     *)
(* answer and the tables after it.                                             *)

Outcome(code, data, after) ==
  {[response |-> [code |-> code, data |-> data], table |-> after]}
Refuse(code) == Outcome(code, <<>>, table)
Answer(data) == Outcome(0, data, table)
Written(k, items) == Outcome(0, <<>>, [table EXCEPT ![k] = items])

Asked(r, k) == SubSeq(table[k], r.address + 1, r.address + r.count)

\* (Mutant: the last item may not be read.)
AtEnd(r, k) == r.address + r.count >= Len(table[k])
BeyondEnd(r, k) == r.address + r.count > Len(table[k])

ReadBits(r, k) ==
  IF r.data # <<>> \/ r.count \notin 1 .. 2000 THEN Refuse(3)
  ELSE IF BeyondEnd(r, k) THEN Refuse(2)
  ELSE Answer(PackBits(Asked(r, k)))

ReadWords(r, k) ==
  IF r.data # <<>> \/ r.count \notin 1 .. 293 THEN Refuse(3)
  ELSE IF BeyondEnd(r, k) THEN Refuse(2)
  ELSE Answer(PackWords(Asked(r, k)))

\* Bytes behind the first two do not matter.
IsOn(data) == data[1] = 255
IsSwitch(data) == data[1] \in {0, 255} /\ data[2] = 0

WriteSingleCoil(r) ==
  IF r.address >= Len(table["coil"]) THEN Refuse(2)
  ELSE IF IsSwitch(r.data)
       THEN Written("coil", [table["coil"] EXCEPT ![r.address + 1] = IsOn(r.data)])
       ELSE Refuse(3)

WriteSingleRegister(r) ==
  IF r.address >= Len(table["holding"]) THEN Refuse(2)
  ELSE IF Len(r.data) # 2 THEN Refuse(3)
  ELSE Written("holding",
               [table["holding"] EXCEPT ![r.address + 1] = r.data[1] * 256 + r.data[2]])

\* Bit j of byte i goes to the coil i*8 + j behind the address, up to the count.
WriteMultipleCoils(r) ==
  IF r.count \notin 1 .. 2000 \/ r.byteCount # ByteCount(r.count) THEN Refuse(3)
  ELSE IF BeyondEnd(r, "coil") THEN Refuse(2)
  ELSE IF Len(r.data) < r.byteCount THEN Refuse(4)
  ELSE Written("coil",
         [i \in DOMAIN table["coil"] |->
            LET offset == i - 1 - r.address
            IN IF offset \in 0 .. r.count - 1 THEN Bit(r.data[offset \div 8 + 1], offset % 8)
               ELSE table["coil"][i]])

\* Every iteration writes the first register: the high byte is data[5+2*i], the
\* low byte data[5+5*i+1], behind the end of the request from i = 1 on.
WriteMultipleRegisters(r) ==
  LET last == r.count - 1
      low == IF 5 * last + 2 <= Len(r.data) THEN {r.data[5 * last + 2]} ELSE StrayBytes
  IN IF r.count \notin 1 .. 123 \/ r.byteCount # 2 * r.count THEN Refuse(3)
     ELSE IF Len(r.data) < r.byteCount THEN Refuse(4)
     ELSE IF BeyondEnd(r, "holding") THEN Refuse(2)
     ELSE UNION {Written("holding", [table["holding"] EXCEPT
                                       ![r.address + 1] = r.data[2 * last + 1] * 256 + b])
                 : b \in low}

Handled(r) ==
  CASE r.fc = 1 -> ReadBits(r, "coil")
    [] r.fc = 2 -> ReadBits(r, "discrete")
    [] r.fc = 3 -> ReadWords(r, "holding")
    [] r.fc = 4 -> ReadWords(r, "input")
    [] r.fc = 5 -> WriteSingleCoil(r)
    [] r.fc = 6 -> WriteSingleRegister(r)
    [] r.fc = 15 -> WriteMultipleCoils(r)
    [] r.fc = 16 -> WriteMultipleRegisters(r)
    [] OTHER -> Refuse(1)

ReceiveModbusData ==
  /\ request # Absent
  /\ \E o \in Handled(request) : response' = o.response /\ table' = o.table
  /\ request' = Absent
  /\ UNCHANGED <<discreteAddress, inputAddress, context>>

-----------------------------------------------------------------------------

Next ==
  \/ \E n \in DeviceNames \cup DiscreteNames, b \in BOOLEAN : SetDiscreteInputValue(n, b)
  \/ \E n \in InputNames, w \in Readings : SetInputRegisterValue(n, w)
  \/ HMIRequest
  \/ \E r \in ClientRequests : Send(r)
  \/ ReceiveModbusData
  \/ Receive

Spec == Init /\ [][Next]_vars

-----------------------------------------------------------------------------
(* Properties *)

\* What the client meant by a request, and what it makes of the answer.
KindOf(r) == CASE r.fc \in {1, 5, 15} -> "coil"
               [] r.fc = 2 -> "discrete"
               [] r.fc \in {3, 6, 16} -> "holding"
               [] OTHER -> "input"
MeantValues(r) ==
  CASE r.fc = 5 /\ IsSwitch(r.data) -> <<IsOn(r.data)>>
    [] r.fc = 6 /\ Len(r.data) = 2 -> UnpackWords(<<2>> \o r.data)
    [] r.fc = 15 /\ r.byteCount = ByteCount(r.count) /\ Len(r.data) >= r.byteCount
         -> UnpackBits(<<r.byteCount>> \o r.data, r.count)
    [] r.fc = 16 /\ r.byteCount = 2 * r.count /\ Len(r.data) >= r.byteCount
         -> UnpackWords(<<r.byteCount>> \o r.data)
    [] OTHER -> <<>>
Meant(r) ==
  [kind |-> KindOf(r), write |-> r.fc > 4, address |-> r.address,
   count |-> CASE r.fc \in 1 .. 4 -> (IF r.data = <<>> THEN r.count ELSE 0)
               [] r.fc \in {5, 6} -> 1
               [] r.fc \in {15, 16} -> r.count
               [] OTHER -> 0,
   values |-> MeantValues(r)]

CountFits(r, reply) == r.fc \in {1, 2} => reply.data[1] = Len(reply.data) - 1
Understanding(r, reply) ==
  [ok |-> reply.code = 0 /\ CountFits(r, reply),
   values |-> IF reply.data = <<>> THEN <<>>
              ELSE IF r.fc \in {1, 2} THEN UnpackBits(reply.data, r.count)
              ELSE UnpackWords(reply.data)]
Understood == Understanding(context, response)

Replies == [code : Nat, data : Seq(Nat)]
Meanings == [kind : Kinds, write : BOOLEAN, address : Nat, count : Nat,
             values : Seq(BOOLEAN) \cup Seq(Nat)]
Understandings == [ok : BOOLEAN, values : Seq(BOOLEAN) \cup Seq(Nat)]

\* Absent is no request and no answer, neither on the wire nor to the memory.
ASSUME AbsentAssumption == Absent \notin Requests \cup Replies \cup Meanings \cup Understandings

Memory == INSTANCE ModbusMemory WITH
  request <- IF request = Absent THEN Absent ELSE Meant(request),
  answer <- IF response = Absent THEN Absent ELSE Understood

\* Over the wire and back, the PLC keeps the promise of ModbusMemory: an answer
\* holds exactly the items asked for, as they were when the request was handled;
\* a write changes exactly the items it names; a refused request changes nothing.
ServesMemory == Memory!Spec

\* Names never share an address, every address is in its table, and the first
\* m_customDiscreteInputStart discrete inputs are the timeout flags of the devices,
\* which is what the HMI takes them for.
AddressesFit ==
  /\ \A m, n \in DOMAIN discreteAddress :
       m # n => discreteAddress[m] # discreteAddress[n]
  /\ \A m, n \in DOMAIN inputAddress : m # n => inputAddress[m] # inputAddress[n]
  /\ \A n \in DOMAIN discreteAddress :
       /\ discreteAddress[n] < Len(table["discrete"])
       /\ n \in DeviceNames <=> discreteAddress[n] < CustomDiscreteInputStart
  /\ \A n \in DOMAIN inputAddress : inputAddress[n] < Len(table["input"])

-----------------------------------------------------------------------------
(* Why the addresses fit: the inductive invariant *)

\* Beside AddressesFit: what serving a request leaves alone.
ServerInv ==
  /\ AddressesFit
  /\ DOMAIN table = Kinds
  /\ table["discrete"] \in Seq(BOOLEAN) /\ table["input"] \in Seq(Nat)
  /\ \A n \in DOMAIN discreteAddress : discreteAddress[n] \in Nat
  /\ \A n \in DOMAIN inputAddress : inputAddress[n] \in Nat
  /\ DeviceNames \subseteq DOMAIN discreteAddress
  /\ CustomDiscreteInputStart <= Len(table["discrete"])
=============================================================================
