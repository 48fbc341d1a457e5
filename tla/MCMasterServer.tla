--------------------------- MODULE MCMasterServer ---------------------------
EXTENDS MasterServer, TLC

CONSTANTS c1, c2, w1

Conns2 == {c1, c2}
OneWorker == {w1}
OneFd == {4}
TwoFds == 4..5

Symmetry == Permutations(Conn) \cup Permutations(Worker)

=============================================================================
