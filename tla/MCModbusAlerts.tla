--------------------------- MODULE MCModbusAlerts ---------------------------
EXTENDS ModbusAlerts

CONSTANTS meter, relay, s1, p1, p2

MCSlaveOf == [n \in Points |-> s1]
MCPortOf == [n \in Points |-> p1]
=============================================================================
