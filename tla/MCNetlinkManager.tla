-------------------------- MODULE MCNetlinkManager --------------------------
EXTENDS NetlinkManager
=============================================================================
