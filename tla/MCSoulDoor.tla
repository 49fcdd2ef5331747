----------------------------- MODULE MCSoulDoor -----------------------------
EXTENDS SoulDoor
=============================================================================
