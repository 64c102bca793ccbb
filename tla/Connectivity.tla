---------------------------- MODULE Connectivity ----------------------------
(***************************************************************************)
(* Which connection carries the traffic: Manager's list of services with   *)
(* the sort that picks the default service and starts auto-connects        *)
(* (manager.cc), Ethernet devices (ethernet.cc) and an L2TP/IPsec VPN over *)
(* them (vpn_service.cc, l2tp_ipsec_driver.cc).                            *)
(*                                                                         *)
(* Everything runs on one event loop: an action is one handler with all it *)
(* calls, and what it posts is state (sort, query, a timer) that a later   *)
(* action consumes.  The link, the DHCP and VPN clients, the portal check  *)
(* and the user are the environment.                                       *)
(***************************************************************************)
EXTENDS Connections

CONSTANTS
  DeviceOf,     \* [Service -> Device], an injection: one service per device
  Known,        \* the services that were connected before, by their profile
  AutoVpn,      \* the VPN starts with AutoConnect set
  Unreliable,   \* the services whose DHCP or VPN client may not start or fail
  Handled,      \* the services the user connects and disconnects
  Administered  \* the wired services whose device is enabled and disabled

Wired == Service \ Vpn

ASSUME WiredAssumption ==
  /\ Vpn = {VpnService}
  /\ Known \subseteq Service /\ Unreliable \subseteq Service
  /\ AutoVpn \in BOOLEAN /\ Handled \subseteq Service
  /\ Administered \subseteq Wired
  /\ DeviceOf \in [Service -> Device] /\ IsInjective(DeviceOf)
  /\ DeviceOf[VpnService] = VpnDevice /\ IsFiniteSet(Service)

VARIABLES
  svc,          \* the services: state, settings, auto-connect throttle
  dev,          \* the devices: link, IP configuration, connection, portal
  list,         \* Manager::services_
  sort,         \* SortServicesTask is posted
  lower,        \* the device that carries the VPN's connection
  query,        \* the VPN's connection waits for a route query
  suspending,   \* PowerManager::suspending()
  published     \* Manager's connection_state_, and is_connected_state_ as
                \* the upstart jobs know it

vars == <<svc, dev, list, sort, lower, query, suspending, published>>

World == [svc |-> svc, dev |-> dev, list |-> list, sort |-> sort,
          lower |-> lower, query |-> query, suspending |-> suspending,
          published |-> published]

Becomes(w) ==
  \E v \in {w} :
    /\ svc' = v.svc /\ dev' = v.dev /\ list' = v.list /\ sort' = v.sort
    /\ lower' = v.lower /\ query' = v.query /\ suspending' = v.suspending
    /\ published' = v.published

TypeOK ==
  /\ svc \in [Service -> ServiceRecords]
  /\ dev \in [Device -> DeviceRecords]
  /\ list \in Seq(Service) /\ IsInjective(list)
  /\ sort \in BOOLEAN
  /\ lower \in (Device \ {VpnDevice}) \union {NoDevice}
  /\ query \in BOOLEAN
  /\ suspending \in BOOLEAN
  /\ published \in [state : ConnectStates, connected : BOOLEAN]

(* Manager has started and its first sort is posted.  What was connected   *)
(* before is remembered by its profile.  AutoConnect is always set for     *)
(* Ethernet (EthernetService::SetAutoConnectFull).                         *)
Init ==
  /\ svc = [s \in Service |->
              [NewService(s \in Wired \/ AutoVpn) EXCEPT !.ever = s \in Known,
                                             !.retain = s \in Known]]
  /\ dev = [d \in Device |-> NewDevice(TRUE)]
  /\ list \in {l \in SetToSeqs(Service) : l[Len(l)] = VpnService}
  /\ sort = TRUE
  /\ lower = NoDevice
  /\ query = FALSE
  /\ suspending = FALSE
  /\ published = [state |-> "idle", connected |-> FALSE]

(***************************************************************************)
(* Connecting and disconnecting, per technology.  "started" is FALSE when  *)
(* the DHCP client or the VPN process cannot be started.                   *)
(***************************************************************************)
EthernetConnect(w, s, started) ==
  LET d == DeviceOf[s]
      v == BaseConnect(w, s)
      u == AcquireIPConfig(SelectService(v, d, s), d)
  IN  IF ~v.dev[d].link THEN v
      ELSE IF started THEN SetState(u, s, "configuring")
      ELSE DestroyIPConfig(SetState(u, s, "failure"), d)

VpnConnect(w, s, started) ==
  LET v == SetState(BaseConnect(w, s), s, "configuring")
  IN  IF IsConnected(w.svc[s]) \/ IsConnecting(w.svc[s]) THEN w
      ELSE IF started THEN v ELSE CleanupVpn(v, "failure")

Connect(w, s, started) ==
  LET starts == started \/ s \notin Unreliable
  IN  IF s \in Vpn THEN VpnConnect(w, s, starts) ELSE EthernetConnect(w, s, starts)

Disconnect(w, s) ==
  IF s \in Vpn THEN CleanupVpn(w, "idle") ELSE DropConnection(w, DeviceOf[s])

IsVisible(w, s) == s \in Wired => w.dev[DeviceOf[s]].link

IsAutoConnectable(w, s) ==
  /\ BaseIsAutoConnectable(w, s)
  /\ IsVisible(w, s)
  /\ s \in Vpn => w.svc[s].ever

(***************************************************************************)
(* Manager: the sort, the default service and auto-connect.                *)
(***************************************************************************)
IsDependentOn(w, a, b) ==
  /\ a = VpnService /\ w.svc[a].conn /\ w.svc[b].conn
  /\ w.lower = DeviceOf[b]

(* ServiceSorter's operator() in the world it looks at, as a relation.     *)
Precedence(w, compareState) ==
  {p \in Pairs :
     /\ p[1] # p[2]
     /\ Compare(w.svc, p[1], p[2], IsDependentOn(w, p[1], p[2]),
                IsDependentOn(w, p[2], p[1]), compareState)}

(* The default connection moves from the service that was first before the *)
(* sort to the one that is first after it.                                 *)
MoveDefaultToNewHead(w, old) ==
  LET new == Head(w.list)
      v == IF w.svc[old].conn /\ new # old
           THEN SetIsDefault(w, DeviceOf[old], FALSE) ELSE w
  IN  IF v.svc[new].conn /\ new # old
      THEN SetIsDefault(v, DeviceOf[new], TRUE) ELSE v

MoveDefault(w, old) ==
  LET new == Head(w.list)
      v == IF w.svc[old].conn /\ (~w.svc[new].conn \/ new # old)
           THEN SetIsDefault(w, DeviceOf[old], FALSE) ELSE w
  IN  IF v.svc[new].conn THEN SetIsDefault(v, DeviceOf[new], TRUE) ELSE v

DefaultState(w) ==
  IF w.list # << >> /\ w.svc[Head(w.list)].conn
  THEN w.svc[Head(w.list)].state ELSE "idle"

RefreshConnectionState(w) ==
  IF w.published.state = DefaultState(w) THEN w
  ELSE [w EXCEPT !.published = [state |-> DefaultState(w),
                                connected |-> ManagerIsConnected(w)]]

TryAutoConnect(w, s, started) ==
  IF w.svc[s].auto /\ IsAutoConnectable(w, s)
  THEN Connect(ThrottleFutureAutoConnects(w, s), s, started)
  ELSE w

AutoConnect(w, started) ==
  LET after[i \in 0 .. Len(w.list)] ==
        IF i = 0 THEN w
        ELSE TryAutoConnect(after[i - 1], w.list[i], started)
  IN  IF w.suspending THEN w ELSE after[Len(w.list)]

SortServicesTask ==
  /\ sort
  /\ \E sorted \in Sortings(list, Precedence(World, TRUE)), started \in BOOLEAN :
       LET w == [World EXCEPT !.sort = FALSE, !.list = sorted]
           v == IF list = << >> THEN w ELSE MoveDefault(w, Head(list))
       IN  Becomes(AutoConnect(RefreshConnectionState(v), started))

(* ConnectToBestServices: one attempt per technology, in the order that    *)
(* disregards what is connected; it stops at the first service that is not *)
(* connectable.                                                            *)
IsCandidate(w, s, techs) ==
  /\ w.svc[s].auto /\ IsVisible(w, s) /\ ~w.svc[s].explicit
  /\ Rank[s].technology \notin techs
  /\ s \in Vpn => ManagerIsConnected(w)

ConnectCandidate(w, s, started) ==
  IF IsConnected(w.svc[s]) \/ IsConnecting(w.svc[s]) THEN w
  ELSE Connect(w, s, started)

TryBestService(acc, s, started) ==
  IF acc.stop \/ ~acc.w.svc[s].connectable THEN [acc EXCEPT !.stop = TRUE]
  ELSE IF ~IsCandidate(acc.w, s, acc.techs) THEN acc
  ELSE [acc EXCEPT !.techs = @ \union {Rank[s].technology},
                   !.w = ConnectCandidate(@, s, started)]

ConnectToBestServices(w, sorted, started) ==
  LET after[i \in 0 .. Len(sorted)] ==
        IF i = 0 THEN [w |-> w, techs |-> {}, stop |-> FALSE]
        ELSE TryBestService(after[i - 1], sorted[i], started)
  IN  after[Len(sorted)].w

ConnectToBestServicesTask ==
  \E sorted \in Sortings(list, Precedence(World, FALSE)), started \in BOOLEAN :
    Becomes(ConnectToBestServices(World, sorted, started))

ReEnableAutoConnect(s) ==
  /\ svc[s].throttled
  /\ Becomes(ReEnableAutoConnectTask(World, s))

(***************************************************************************)
(* Ethernet: the link, and enabling and disabling the device.              *)
(***************************************************************************)
LinkUp(s) ==
  LET d == DeviceOf[s] IN
  /\ ~dev[d].link /\ dev[d].running
  /\ Becomes(UpdateService([World EXCEPT !.dev[d].link = TRUE], s))

LinkDown(s) ==
  LET d == DeviceOf[s] IN
  /\ dev[d].link
  /\ Becomes(UpdateService(
               DropConnection([World EXCEPT !.dev[d].link = FALSE], d), s))

(* SetEnabledUnchecked and Ethernet::Stop.  Unloading the service also     *)
(* forgets settings that its profile gives back when it is registered      *)
(* again.                                                                  *)
Disable(s) ==
  LET d == DeviceOf[s]
      v == DropConnection([World EXCEPT !.dev[d].running = FALSE], d)
      u == ClearExplicitlyDisconnected(v, s)
  IN  /\ dev[d].running
      /\ Becomes(DeregisterService(u, s))

Enable(s) ==
  LET d == DeviceOf[s] IN
  /\ ~dev[d].running /\ ~dev[d].link
  /\ Becomes(RegisterService([World EXCEPT !.dev[d].running = TRUE], s))

(***************************************************************************)
(* DHCP, and the portal check.                                             *)
(***************************************************************************)
OnIPConfigUpdated(s) ==
  /\ dev[DeviceOf[s]].ip # "none"
  /\ Becomes(SetupConnection(World, DeviceOf[s]))

(* The service is disconnected with a failure, which for Ethernet drops    *)
(* the connection first.                                                   *)
OnIPConfigFailed(s) ==
  LET d == DeviceOf[s]
      v == IF dev[d].selected = NoService THEN World
           ELSE SetFailure(DropConnection(World, d), s)
  IN  /\ dev[d].ip # "none"
      /\ Becomes(DestroyConnection(v, d))

PortalCheckEnds(s, online) ==
  /\ dev[DeviceOf[s]].portal = "trying"
  /\ Becomes(SetServiceConnectedState(World, DeviceOf[s],
                                      IF online THEN "online" ELSE "portal"))

PortalCheckResumes(s) ==
  /\ dev[DeviceOf[s]].portal = "waiting"
  /\ Becomes([World EXCEPT !.dev[DeviceOf[s]].portal = "trying"])

(***************************************************************************)
(* The VPN.                                                                *)
(***************************************************************************)

(* pppd reports its connection; the host route to the server is asked for. *)
VpnUp ==
  LET v == SelectService(World, VpnDevice, VpnService)
  IN  /\ svc[VpnService].state = "configuring"
      /\ Becomes([SetupConnection(v, VpnDevice) EXCEPT !.query = TRUE])

(* The route query is answered: the VPN's connection binds to the one that *)
(* carries it, if that still exists.                                       *)
OnRouteQueryResponse(d) ==
  LET v == [World EXCEPT !.query = FALSE,
                         !.lower = IF dev[d].conn THEN d ELSE NoDevice]
  IN  /\ query
      /\ Becomes(IF dev[d].conn /\ dev[d].selected # NoService
                 THEN UpdateService(v, dev[d].selected) ELSE v)

(* pppd disconnects or the VPN process dies, or the connect timer fires.   *)
VpnFails ==
  /\ IsActive(svc[VpnService])
  /\ Becomes(CleanupVpn(World, "failure"))

(***************************************************************************)
(* The user and the power manager.                                         *)
(***************************************************************************)
UserConnect(s, started) ==
  /\ Contains(list, s)
  /\ Becomes(Connect(World, s, started))

UserDisconnect(s) ==
  /\ Contains(list, s)
  /\ Becomes([Disconnect(World, s) EXCEPT !.svc[s].explicit = TRUE])

(* Ethernet refuses to have AutoConnect turned off.                        *)
UserSetAutoConnect(s, auto) ==
  /\ auto \/ s \in Vpn
  /\ Becomes(SetAutoConnectFull(World, s, auto))

SuspendImminent ==
  /\ ~suspending
  /\ Becomes([World EXCEPT !.suspending = TRUE])

SuspendDone ==
  /\ suspending
  /\ Becomes(SortServices(
       [World EXCEPT !.suspending = FALSE,
                     !.svc = [s \in Service |->
                                IF s \in ToSet(list)
                                THEN OnAfterResume(World, s).svc[s] ELSE @[s]]]))

Network ==
  \/ \E s \in Wired : \/ LinkUp(s) \/ LinkDown(s)
                      \/ OnIPConfigUpdated(s)
                      \/ PortalCheckResumes(s)
                      \/ \E online \in BOOLEAN : PortalCheckEnds(s, online)
  \/ \E s \in Wired \intersect Unreliable : OnIPConfigFailed(s)
  \/ \E s \in Administered : Disable(s) \/ Enable(s)
  \/ VpnUp \/ VpnFails
  \/ \E d \in Device \ {VpnDevice} : OnRouteQueryResponse(d)

User ==
  \/ \E s \in Handled : UserDisconnect(s)
  \/ \E s \in Handled : \E started \in {TRUE, s \notin Unreliable} :
       UserConnect(s, started)
  \/ \E s \in Handled, auto \in BOOLEAN : UserSetAutoConnect(s, auto)
  \/ ConnectToBestServicesTask
  \/ SuspendImminent \/ SuspendDone

Next ==
  \/ SortServicesTask
  \/ \E s \in Service : ReEnableAutoConnect(s)
  \/ Network
  \/ User

Spec == Init /\ [][Next]_vars

(***************************************************************************)
(* Properties.  At rest no sort is posted: every change has been followed  *)
(* by the sort it asked for.                                               *)
(***************************************************************************)
AtRest == ~sort

(* GetDefaultService, IsConnected and CreateConnectivityReport read the    *)
(* head of the list as "the best connected service": at rest, if any       *)
(* listed service is connected then the head is, it holds a connection,    *)
(* and that connection, and no other one, has the default route and DNS.   *)
DefaultIsBest ==
  AtRest =>
    LET connected == {s \in ToSet(list) : IsConnected(svc[s])}
    IN  IF connected = {} THEN \A d \in Device : ~dev[d].default
        ELSE /\ Head(list) \in connected
             /\ svc[Head(list)].conn
             /\ {d \in Device : dev[d].default} = {DeviceOf[Head(list)]}

(* At no time, at rest or not, do two connections claim the default route: *)
(* between a change and its sort the old default is kept or gone, never    *)
(* doubled.                                                                *)
OneDefault == Cardinality({d \in Device : dev[d].default}) <= 1

(* What the ConnectionState property and the upstart jobs were told last   *)
(* is true at rest (RefreshConnectionState skips what it believes to be    *)
(* unchanged).                                                             *)
PublishedIsTrue ==
  AtRest => /\ published.state = DefaultState(World)
            /\ published.connected = ManagerIsConnected(World)

(* A VPN never outlives the connection that carries it: when the lower     *)
(* connection is destroyed its binders bring the VPN down in the same      *)
(* step.                                                                   *)
CarrierOutlivesVpn ==
  lower # NoDevice => dev[lower].conn /\ svc[VpnService].conn

(* At rest a connected VPN is the default service, above its carrier.      *)
VpnCarriesTraffic ==
  AtRest /\ IsConnected(svc[VpnService]) => Head(list) = VpnService

(* No wakeup of auto-connect is lost: a service that could be connected    *)
(* automatically, at rest and not suspending, is only waiting for its      *)
(* throttle timer.                                                         *)
AutoConnectIsAwaited ==
  AtRest /\ ~suspending =>
    \A s \in ToSet(list) : ~(svc[s].auto /\ IsAutoConnectable(World, s))

(* A default service stuck behind a portal is checked again: at rest a     *)
(* detector is at work or waits for its next round.                        *)
PortalIsRechecked ==
  AtRest => \A s \in Wired :
    svc[s].state = "portal" /\ dev[DeviceOf[s]].default /\ PortalRetry
      => dev[DeviceOf[s]].portal # "none"

\* At any time one connection at most is the default one, and when nothing is
\* posted it is that of the best service, which is what Manager has published
\* (SortServicesTask, RefreshConnectionState).
DefaultIsSettled == TypeOK /\ OneDefault /\ DefaultIsBest /\ PublishedIsTrue

\* A VPN has a live connection below it, and is what traffic goes through
\* (Connection::OnRouteQueryResponse, ~Connection, Service::Compare).
VpnFollowsCarrier == CarrierOutlivesVpn /\ VpnCarriesTraffic
=============================================================================
