---------------------------- MODULE MCPierStream ----------------------------
EXTENDS PierStream
=============================================================================
