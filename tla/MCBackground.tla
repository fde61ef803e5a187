---------------------------- MODULE MCBackground ----------------------------
EXTENDS Background
==============================================================================
