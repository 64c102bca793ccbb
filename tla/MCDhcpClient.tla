---------------------------- MODULE MCDhcpClient ----------------------------
EXTENDS DhcpClient
=============================================================================
