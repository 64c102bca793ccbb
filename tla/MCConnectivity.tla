--------------------------- MODULE MCConnectivity ---------------------------
EXTENDS Connectivity

CONSTANTS eth1, eth2, vpn, dev1, dev2, ppp

MCRank ==
  [s \in {eth1, eth2, vpn} |->
     [priority |-> 0, technology |-> IF s = vpn THEN 2 ELSE 1, within |-> 0,
      security |-> 0, profile |-> 0, strength |-> 0,
      serial |-> CASE s = eth1 -> 1 [] s = eth2 -> 2 [] s = vpn -> 3]]

MCDeviceOf == [s \in {eth1, eth2, vpn} |->
                 CASE s = eth1 -> dev1 [] s = eth2 -> dev2 [] s = vpn -> ppp]

\* The VPN comes first in the technology order, and no priorities are set.
ASSUME RankAssumption == \A s \in Wired : <<VpnService, s>> \in RankedBefore
=============================================================================
