---------------------------- MODULE MCRelayStream ----------------------------
EXTENDS RelayStream
=============================================================================
