----------------------------- MODULE MCBeliefs -----------------------------
EXTENDS Beliefs
=============================================================================
