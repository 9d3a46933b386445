---------------------------- MODULE MCOtaUpdate ----------------------------
EXTENDS OtaUpdate

CONSTANTS old, good, bad, broken, torn

MCFiles == {old, good, bad, broken}
MCValid == MCFiles \ {broken}
MCWorks == {old, good}
MCVersion == [f \in MCFiles \union {torn} |-> f]
=============================================================================
