---------------------------- MODULE MCWakeOnWiFi ----------------------------
EXTENDS WakeOnWiFi
=============================================================================
