---------------------------- MODULE MC_Workshop ----------------------------
EXTENDS Workshop

CONSTANTS skin, map
=============================================================================
