---------------------------- MODULE MCLogWriter ----------------------------
EXTENDS LogWriter

CONSTANTS r1, r2, r3
=============================================================================
