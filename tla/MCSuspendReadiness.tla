------------------------- MODULE MCSuspendReadiness -------------------------
EXTENDS SuspendReadiness
=============================================================================
