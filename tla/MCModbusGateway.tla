-------------------------- MODULE MCModbusGateway --------------------------
EXTENDS ModbusGateway

CONSTANTS a, b, p1, s1, s2, relay, level

\* Two configurations that give the two names each other's register.
MCEmpty == [rev |-> 0, settings |-> [p \in {p1} |-> s1], points |-> [n \in {} |-> None]]

MCDirect ==
    [rev |-> 1, settings |-> [p \in {p1} |-> s1],
     points |-> [n \in {relay, level} |->
                    IF n = relay THEN [port |-> p1, register |-> a, mode |-> "w"]
                                 ELSE [port |-> p1, register |-> b, mode |-> "rw"]]]

MCSwapped ==
    [rev |-> 2, settings |-> [p \in {p1} |-> s2],
     points |-> [n \in {relay, level} |->
                    IF n = relay THEN [port |-> p1, register |-> b, mode |-> "w"]
                                 ELSE [port |-> p1, register |-> a, mode |-> "rw"]]]

MCConfigs == {MCEmpty, MCDirect, MCSwapped}
=============================================================================
