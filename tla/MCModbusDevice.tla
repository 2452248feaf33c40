--------------------------- MODULE MCModbusDevice ----------------------------
(* ModbusDevice on small sets of addresses and transaction ids. *)
EXTENDS ModbusDevice

CONSTANTS s1, s2, c1

OneServer == {s1}
TwoServers == {s1, s2}
OneClient == {c1}
NoClients == {}

NoHooks == {"pass"}
AllHooks == {"pass", "delay", "drop"}
=============================================================================
