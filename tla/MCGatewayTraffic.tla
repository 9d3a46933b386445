------------------------- MODULE MCGatewayTraffic -------------------------
EXTENDS GatewayTraffic, TLC

CONSTANTS n1, n2, n3, t1, t2

MCNames == {n1, n2, n3}
MCTokens == {t1, t2}
MCWords == {"a", "b", "x"}

\* Two roles of which one is the beginning of the other, as bearing and
\* bearing_de are.
MCRoles == {<<"a">>, <<"a", "b">>}
MCDsNames == {<<"x">>, <<"b", "x">>}

MCValues ==
    [token : {t1}, role : MCRoles \union {NoRole, BadRole}]
      \union [token : {t2}, role : {NoRole, <<"a">>}]
      \union {PlaceholderEntry}

MCSymmetry == Permutations(MCNames)
=============================================================================
