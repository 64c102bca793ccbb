--------------------------- MODULE MCPortalCheck ----------------------------
EXTENDS PortalCheck
=============================================================================
