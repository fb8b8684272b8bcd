----------------------------- MODULE MCPresence -----------------------------
EXTENDS Presence

CONSTANTS a, b

MCCallers == {a, b}
=============================================================================
