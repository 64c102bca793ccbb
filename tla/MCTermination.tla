--------------------------- MODULE MCTermination ---------------------------
\* Two modems, so that the completion of one can race the other, and enough
\* modem events for one of them to change state twice while shill quits.
EXTENDS Termination
=============================================================================
