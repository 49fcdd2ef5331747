---------------------------- MODULE MCWriteSeat ----------------------------
EXTENDS WriteSeat
=============================================================================
