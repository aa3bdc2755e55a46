---------------------------- MODULE MCNextGenGw -----------------------------
EXTENDS NextGenGw
CONSTANTS a, b
MCImages == {a, b}
=============================================================================
