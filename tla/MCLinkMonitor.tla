--------------------------- MODULE MCLinkMonitor ---------------------------
EXTENDS LinkMonitor
=============================================================================
