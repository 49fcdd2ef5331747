----------------------------- MODULE MCReplPull -----------------------------
EXTENDS ReplPull
=============================================================================
