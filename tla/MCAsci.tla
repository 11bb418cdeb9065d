------------------------------- MODULE MCAsci -------------------------------
EXTENDS Asci
=============================================================================
