------------------------ MODULE MCSubDeviceRegistry ------------------------
EXTENDS SubDeviceRegistry

CONSTANTS n1, n2, t1

MCNames == {n1, n2}
MCTokens == {t1}
MCWords == {"a", "b"}
MCRoles == {<<"a">>, <<"b">>}

MCOneEntry == {[token |-> t1, role |-> NoRole]}

\* A datastream never set, and one with a roled sub-device configured.
MCInitialClouds ==
    {Unset, [n \in {n1} |-> [token |-> t1, role |-> <<"a">>]]}
=============================================================================
