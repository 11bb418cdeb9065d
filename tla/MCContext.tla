------------------------------ MODULE MCContext ------------------------------
EXTENDS Context
Words == 0 .. 1
=============================================================================
