---------------------------- MODULE MCWiFiLink ----------------------------
EXTENDS WiFiLink

CONSTANTS home, work, b1, b2, b3

\* home has two access points.
MCServiceOf == [b \in Bsses |-> IF b = b3 THEN work ELSE home]
=============================================================================
