---------------------------- MODULE Connections -----------------------------
(***************************************************************************)
(* What every network device does with a service, an IP configuration and  *)
(* a connection (device.cc, connection.cc), as operators on the world of   *)
(* module Services, extended with                                          *)
(*   dev    what each device holds                                         *)
(*   lower  the device whose connection the VPN's connection is bound to,  *)
(*          or NoDevice                                                    *)
(*   query  the VPN's connection waits for the answer of a route query     *)
(*                                                                         *)
(* A connection belongs to one device and lives from CreateConnection to   *)
(* DestroyConnection.  Its only binder clients are the VPN's connection    *)
(* and, through it, the VPN driver; L2TPIPSecDriver stands for the driver. *)
(***************************************************************************)
EXTENDS Services

CONSTANTS
  Device,       \* the network devices, the VPN's virtual device included
  VpnDevice,    \* the PPP device of the VPN
  VpnService,   \* the VPN service
  NoDevice, NoService,
  PortalDevice, \* the devices whose technology is in CheckPortalList
  PortalRetry   \* the portal check interval is not zero

ASSUME DeviceAssumption ==
  /\ VpnDevice \in Device /\ NoDevice \notin Device
  /\ VpnService \in Vpn /\ NoService \notin Service
  /\ PortalDevice \subseteq Device \ {VpnDevice}
  /\ PortalRetry \in BOOLEAN

(* portal: no detector, a detector at work, or one that waits for the      *)
(* check interval before it tries again.                                   *)
DeviceRecords ==
  [running : BOOLEAN, link : BOOLEAN, selected : Service \union {NoService},
   ip : {"none", "requested", "bound"}, conn : BOOLEAN, default : BOOLEAN,
   portal : {"none", "trying", "waiting"}]

NewDevice(running) ==
  [running |-> running, link |-> FALSE, selected |-> NoService,
   ip |-> "none", conn |-> FALSE, default |-> FALSE, portal |-> "none"]

(***************************************************************************)
(* Portal detection, seen from the device.                                 *)
(***************************************************************************)
StopPortalDetection(w, d) == [w EXCEPT !.dev[d].portal = "none"]

SetServiceConnectedState(w, d, state) ==
  LET s == w.dev[d].selected
      retry == state = "portal" /\ w.dev[d].default /\ PortalRetry
      v == [w EXCEPT !.dev[d].portal = IF retry THEN "waiting" ELSE "none"]
  IN  IF s = NoService \/ ~IsConnected(w.svc[s]) THEN w
      ELSE SetState(v, s, state)

StartPortalDetection(w, d) ==
  IF d \in PortalDevice THEN [w EXCEPT !.dev[d].portal = "trying"]
  ELSE SetServiceConnectedState(w, d, "online")

(* A detector that only waits for its next round is replaced by one that   *)
(* starts at once; one at work is left alone.                              *)
RequestPortalDetection(w, d) ==
  LET s == w.dev[d].selected
  IN  IF /\ s # NoService /\ w.dev[d].conn
         /\ w.svc[s].state = "portal" /\ w.dev[d].default
         /\ w.dev[d].portal # "trying"
      THEN StartPortalDetection(w, d)
      ELSE w

SetIsDefaultOnly(w, d, default) == [w EXCEPT !.dev[d].default = default]

SetIsDefault(w, d, default) ==
  IF w.dev[d].default = default THEN w
  ELSE LET v == [w EXCEPT !.dev[d].default = default]
       IN  IF default THEN RequestPortalDetection(v, d) ELSE v

(***************************************************************************)
(* Selecting a service, and letting go of a connection.                    *)
(***************************************************************************)
SelectService(w, d, s) ==
  LET old == w.dev[d].selected
      v == IF old = NoService \/ w.svc[old].state = "failure" THEN w
           ELSE SetState(w, old, "idle")
      u == IF old = NoService THEN v
           ELSE StopPortalDetection([v EXCEPT !.svc[old].conn = FALSE], d)
  IN  IF old = s THEN w ELSE [u EXCEPT !.dev[d].selected = s]

(* DestroyConnection without what the connection's destructor causes.      *)
ReleaseConnection(w, d) ==
  LET s == w.dev[d].selected
      v == [StopPortalDetection(w, d) EXCEPT
              !.dev[d] = [@ EXCEPT !.conn = FALSE, !.default = FALSE]]
  IN  IF s = NoService THEN v ELSE [v EXCEPT !.svc[s].conn = FALSE]

(* L2TPIPSecDriver::Cleanup: the virtual device is dropped, its connection *)
(* with it, and the service ends idle or failed.                           *)
CleanupVpn(w, state) ==
  LET v == ReleaseConnection([w EXCEPT !.dev[VpnDevice].ip = "none"],
                             VpnDevice)
      u == [SelectService(v, VpnDevice, NoService) EXCEPT !.lower = NoDevice,
                                                         !.query = FALSE]
  IN  IF ~IsActive(w.svc[VpnService]) THEN u
      ELSE IF state = "failure" THEN SetFailure(u, VpnService)
      ELSE SetState(u, VpnService, "idle")

DestroyConnectionQuietly(w, d) == ReleaseConnection(w, d)

(* The destructor notifies the binders: a VPN over this connection ends.   *)
DestroyConnection(w, d) ==
  LET v == ReleaseConnection(w, d)
  IN  IF w.dev[d].conn /\ w.lower = d THEN CleanupVpn(v, "idle") ELSE v

DestroyIPConfig(w, d) ==
  DestroyConnection([w EXCEPT !.dev[d].ip = "none"], d)

DropConnection(w, d) == SelectService(DestroyIPConfig(w, d), d, NoService)

(***************************************************************************)
(* Bringing a connection up.                                               *)
(***************************************************************************)

(* DHCP is asked for a lease.                                              *)
AcquireIPConfig(w, d) == [DestroyIPConfig(w, d) EXCEPT !.dev[d].ip = "requested"]

SetupConnection(w, d) ==
  LET s == w.dev[d].selected
      v == [w EXCEPT !.dev[d] = [@ EXCEPT !.conn = TRUE, !.ip = "bound"]]
      u == SetState([v EXCEPT !.svc[s].conn = TRUE], s, "connected")
  IN  IF s = NoService THEN v ELSE StartPortalDetection(u, d)
=============================================================================
