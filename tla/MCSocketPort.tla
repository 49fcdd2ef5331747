---------------------------- MODULE MCSocketPort ----------------------------
EXTENDS SocketPort
=============================================================================
