----------------------------- MODULE MCSessions -----------------------------
EXTENDS Sessions
CONSTANTS u1, u2
=============================================================================
