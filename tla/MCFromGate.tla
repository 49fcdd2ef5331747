----------------------------- MODULE MCFromGate -----------------------------
EXTENDS FromGate
=============================================================================
