------------------------- MODULE MCDBConnectionPool -------------------------
EXTENDS DBConnectionPool, TLC

CONSTANTS t1, t2, t3, c1, c2

MCThreads == {t1, t2, t3}
MCConnections == {c1, c2}
=============================================================================
