-------------------------------- MODULE MCConf --------------------------------
EXTENDS NcConf

Addr(p, fields) == [word |-> "address", path |-> p, f |-> fields]

\* host:port:weight with a colon in the hostname, a port out of range, and a socket
\* with a permission and a weight
MCAddress == {Addr(FALSE, <<Text, 4, 2, 1>>), Addr(FALSE, <<Text, 6>>), Addr(TRUE, <<Text, 3, 1>>)}

ASSUME PlainAssumption == \A v \in Address : Plain(v)
==============================================================================
