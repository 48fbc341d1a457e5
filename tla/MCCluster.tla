----------------------------- MODULE MCCluster ------------------------------
EXTENDS Cluster, TLC

CONSTANTS c1, c2, w1

Conns == {c1, c2}
Nobody == {}
OneConn == {c1}
Workers == {w1}
Fds == 4..5

=============================================================================
