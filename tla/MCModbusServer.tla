--------------------------- MODULE MCModbusServer ----------------------------
(* ModbusServer with coils in two bytes and one name still without an address. *)
EXTENDS ModbusServer

CONSTANTS sensor, actuator, leak, level, position

SensorAndActuator == <<sensor, actuator>>
JustLeak == {leak}
LevelAndPosition == {level, position}

Request(fc, address, count, byteCount, data) ==
  [fc |-> fc, address |-> address, count |-> count, byteCount |-> byteCount, data |-> data]

\* Reads of every table, inside, across the end and of nothing, and one that is
\* too long.
Reads ==
  {Request(fc, a, n, 0, <<>>) : fc \in 1 .. 4, a \in {0, 1}, n \in {0, 1, 9}}
    \cup {Request(1, 0, 1, 0, <<0>>)}

\* Writes of one coil or register, inside and at the end of the table, with too
\* many bytes as well: those of a coil are not counted.
SingleWrites ==
  {Request(5, a, 0, 0, d) : a \in {8, 9}, d \in {<<255, 0>>, <<0, 0>>, <<1, 0>>, <<255, 0, 7>>}}
    \cup {Request(6, a, 0, 0, d) : a \in {1, 2}, d \in {<<1, 2>>, <<1>>, <<1, 2, 3>>}}

\* Writes of several coils: one byte or two, too few bytes, the wrong count.
CoilWrites ==
  {Request(15, a, 8, 1, <<165>>) : a \in {1, 2}}
    \cup {Request(15, 0, 9, 2, d) : d \in {<<0, 1>>, <<255, 0>>, <<255>>}}
    \cup {Request(15, 0, 9, 1, <<255>>), Request(15, 0, 0, 1, <<0>>)}

\* Writes through the handler for several registers: of one, beyond the end, too
\* few bytes or too many, and of two.
RegisterWrites ==
  {Request(16, a, 1, 2, <<3, 4>>) : a \in {0, 2}} \cup {Request(16, 0, 1, n, d) : n \in {2, 3}, d \in {<<3>>, <<3, 4, 5>>}}
TwoRegisters == {Request(16, 0, 2, 4, <<3, 4, 5, 6>>)}

Unsupported == {Request(43, 0, 0, 0, <<>>)}

OneRegisterAtATime == Reads \cup SingleWrites \cup CoilWrites \cup RegisterWrites \cup Unsupported
=============================================================================
