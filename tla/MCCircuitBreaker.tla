------------------------- MODULE MCCircuitBreaker -------------------------
EXTENDS CircuitBreaker

CONSTANTS r1, r2, r3, r4
===========================================================================
