----------------------------- MODULE MCOpenVPN -----------------------------
EXTENDS OpenVPN
=============================================================================
