---------------------------- MODULE MCBleSession ----------------------------
EXTENDS BleSession

CONSTANTS t1, t2, home, office

\* A new identity, one the app gets wrong, a network, another one, by its name
\* alone as an old app does, with a static address, and a modem.
MCSets ==
    { [f \in {"blynk"} |-> t2],
      [f \in {"blynk"} |-> Bad],
      [f \in {"if", "ssid"} |-> IF f = "if" THEN "wifi" ELSE home],
      [f \in {"ssid", "ip"} |-> IF f = "ssid" THEN office ELSE TRUE],
      [f \in {"if", "pin"} |-> IF f = "if" THEN "cell" ELSE TRUE] }
=============================================================================
