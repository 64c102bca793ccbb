------------------------------ MODULE WiFiLink ------------------------------
(***************************************************************************)
(* The WiFi device (wifi/wifi.cc): its current, pending and selected       *)
(* service, the timers that bound a connection attempt, its scans, and its *)
(* life with wpa_supplicant, which comes and goes and whose reports are    *)
(* tasks that requests may overtake.  The methods are operators on the     *)
(* device record; an action is one task of the event loop.                 *)
(*                                                                         *)
(* Every service is in a profile, so that it survives its last endpoint.   *)
(* Left out: the networks configured in wpa_supplicant, so that adding one *)
(* may always fail; the scan method and the transition scan state, which   *)
(* only metrics tell apart; progressive scans, which no code switches on;  *)
(* the renewal of the lease after a roam (see DhcpClient); clients that    *)
(* ask to roam and the flushes of wpa_supplicant's access points, which    *)
(* use its proxy too (wifi.cc:768, :2963, :1415, :1950).                   *)
(*                                                                         *)
(* Where the code ends shill, by a CHECK or by calling the proxy of        *)
(* wpa_supplicant that it does not have, |ended| says why, and no step     *)
(* follows.                                                                *)
(***************************************************************************)
CONSTANTS
    Services,
    NoService,
    Bsses,          \* the D-Bus paths of access points
    ServiceOf,      \* the service of each
    Hidden          \* services that may be connected to before they are seen

ASSUME WiFiAssumption ==
    /\ NoService \notin Services
    /\ ServiceOf \in [Bsses -> Services]
    /\ Hidden \subseteq Services

Null == "null"      \* WPASupplicant::kCurrentBSSNull
Same == "same"      \* the property is not in the report

\* "handshake" is authenticating, associating and the two handshakes; "other"
\* is inactive, scanning and the state before the first report.
SupplicantStates == {"disconnected", "handshake", "associated", "completed", "other"}

Connecting == {"associating", "configuring"}

Devices ==
    [present : BOOLEAN, enabled : BOOLEAN,
     iface : BOOLEAN,                       \* supplicant_interface_proxy_ is set
     up : BOOLEAN,                          \* supplicant_state_ is completed
     current : Services \cup {NoService},
     pending : Services \cup {NoService},
     selected : Services \cup {NoService},  \* Device::selected_service_
     state : [Services -> {"idle", "associating", "configuring", "connected", "failure"}],
     known : SUBSET Bsses,                  \* keys of endpoint_by_rpcid_
     ptimer : BOOLEAN, rtimer : BOOLEAN,    \* pending and reconnect timeouts
     already : BOOLEAN,                     \* has_already_completed_
     lessee : Services \cup {NoService},    \* the service dhcpcd runs for
     monitor : {"off", "on", "stray"},      \* the link monitor; "stray" when it
                                            \* was started with none selected
     scan : {"idle", "scanning", "background", "connecting"},
     task : BOOLEAN,                        \* ScanTask is posted
     update : BOOLEAN,                      \* UpdateScanStateAfterScanDone is posted
     failing : BOOLEAN,                     \* scan_failed_callback_ is armed
     ended : {"no", "check", "gateway", "proxy"}]

VARIABLE dev

vars == dev

TypeOK == dev \in Devices

Init ==
    dev = [present |-> FALSE, enabled |-> TRUE, iface |-> FALSE, up |-> FALSE,
           current |-> NoService, pending |-> NoService, selected |-> NoService,
           state |-> [s \in Services |-> "idle"], known |-> {},
           ptimer |-> FALSE, rtimer |-> FALSE, already |-> FALSE,
           lessee |-> NoService, monitor |-> "off", scan |-> "idle",
           task |-> FALSE, update |-> FALSE, failing |-> FALSE, ended |-> "no"]

HasEndpoints(d, s) == \E b \in d.known : ServiceOf[b] = s

IsIdle(d) == d.current = NoService /\ d.pending = NoService

IsConnecting(d, s) == s # NoService /\ d.state[s] \in Connecting

Check(d, holds) == [d EXCEPT !.ended = IF holds THEN @ ELSE "check"]
-----------------------------------------------------------------------------
(***************************************************************************)
(* Device: the selected service and its IP configuration.                  *)
(***************************************************************************)
SetState(d, s, state) ==
    IF s = NoService THEN d ELSE [d EXCEPT !.state[s] = state]

\* Mutant of SelectService: the service that is left keeps its state.
SelectLeaves(d, s) ==
    IF s # d.selected /\ d.selected # NoService
    THEN [d EXCEPT !.selected = s, !.monitor = "off"]
    ELSE [d EXCEPT !.selected = s]

SelectService(d, s) ==
    LET old == d.selected
    IN  IF s = old THEN d
        ELSE IF old = NoService THEN [d EXCEPT !.selected = s]
        ELSE [d EXCEPT !.selected = s, !.monitor = "off",
                       !.state[old] = IF @ = "failure" THEN @ ELSE "idle"]

DestroyIPConfig(d) ==
    [d EXCEPT !.lessee = NoService, !.monitor = "off"]

DropConnection(d) == SelectService(DestroyIPConfig(d), NoService)

\* AcquireIPConfigWithLeaseName; |ok| is false when dhcpcd cannot be spawned,
\* and the configuration then reports nothing.
AcquireIPConfig(d, s, ok) ==
    IF ok THEN SetState([DestroyIPConfig(d) EXCEPT !.lessee = s], s, "configuring")
    ELSE DestroyIPConfig(d)
-----------------------------------------------------------------------------
(***************************************************************************)
(* Scan states.  The terminal states lead to idle at once.                 *)
(***************************************************************************)
SetScanState(d, new) ==
    IF new \in {"idle", "connected", "found_nothing"}
    THEN [d EXCEPT !.scan = "idle"]
    ELSE [d EXCEPT !.scan = new]

Scan(d) ==
    IF d.scan # "idle" \/ IsConnecting(d, d.current) THEN d
    ELSE [d EXCEPT !.task = TRUE]

\* Mutant of SetPendingService: the timer is not stopped.
SetPendingTimed(d, s) ==
    IF s # NoService
    THEN [SetState(SetScanState(d, "connecting"), s, "associating")
             EXCEPT !.ptimer = TRUE, !.pending = s]
    ELSE [IF d.scan \in {"scanning", "background", "connecting"}
          THEN SetScanState(d, "idle") ELSE d
             EXCEPT !.pending = NoService]

SetPendingService(d, s) ==
    IF s # NoService
    THEN [SetState(SetScanState(d, "connecting"), s, "associating")
             EXCEPT !.ptimer = TRUE, !.pending = s]
    ELSE [IF d.scan \in {"scanning", "background", "connecting"}
          THEN SetScanState(d, "idle") ELSE d
             EXCEPT !.ptimer = IF d.pending # NoService THEN FALSE ELSE @,
                    !.pending = NoService]
-----------------------------------------------------------------------------
\* DisconnectFrom; |ok| is false when the call to wpa_supplicant fails.  A
\* connected supplicant is left to report the change of CurrentBSS.
DisconnectFrom(d, s, ok) ==
    LET ignored == \/ s \notin {d.current, d.pending}
                   \/ d.pending # NoService /\ s # d.pending
        v == [SetPendingService(SetState(d, d.pending, "idle"), NoService)
                 EXCEPT !.rtimer = FALSE]
        absent == IF v.current = v.selected THEN DropConnection(v) ELSE v
        dropped == IF s = v.selected THEN DropConnection(v) ELSE v
    IN  IF ignored THEN d
        ELSE IF ~d.present THEN [absent EXCEPT !.current = NoService]
        ELSE IF d.up /\ ok THEN v
        ELSE [dropped EXCEPT !.current = NoService]

DisconnectFromIfActive(d, s, ok) ==
    IF s \notin {d.current, d.pending} /\ d.state[s] \in {"idle", "failure"}
    THEN d ELSE DisconnectFrom(d, s, ok)

\* WiFiService::Disconnect: a service without endpoints has no device and is
\* left alone (if it is connected, ConnectedHasDevice is broken and shill ends).
Disconnect(d, s, ok) ==
    IF HasEndpoints(d, s) THEN DisconnectFromIfActive(d, s, ok) ELSE d

DisconnectWithFailure(d, s, ok) == SetState(Disconnect(d, s, ok), s, "failure")

ClearCachedCredentials(d, s, ok) ==
    IF s = d.pending THEN DisconnectFrom(d, s, ok) ELSE d

DisassociateFromService(d, s, ok) ==
    LET v == DisconnectFromIfActive(d, s, ok)
    IN  IF s = v.selected THEN DropConnection(v) ELSE v

\* WiFiService::SetWiFi, to none.
LoseWiFi(d, s, ok) ==
    DisassociateFromService(ClearCachedCredentials(d, s, ok), s, ok)

\* WiFiProvider::OnEndpointRemoved: with its last endpoint the service loses
\* its device.
OnEndpointRemoved(d, b, ok) ==
    LET s == ServiceOf[b]
        v == [d EXCEPT !.known = @ \ {b}]
    IN  IF HasEndpoints(v, s) THEN v
        ELSE LoseWiFi(v, s, ok)
-----------------------------------------------------------------------------
(***************************************************************************)
(* Starting, stopping, and the process of wpa_supplicant.                  *)
(***************************************************************************)
\* The endpoints go one by one.
LoseEndpoints(d) ==
    LET after[B \in SUBSET d.known] ==
            IF B = {} THEN d
            ELSE LET b == CHOOSE x \in B : TRUE
                 IN  OnEndpointRemoved(after[B \ {b}], b, TRUE)
    IN  after[d.known]

\* Mutant of Stop: the reconnect timeout goes on.
StopTimed(d) ==
    LET v == LoseEndpoints(DropConnection(d))
    IN  [SetScanState(v, "idle") EXCEPT
            !.iface = FALSE, !.current = NoService,
            !.pending = NoService, !.ptimer = FALSE, !.rtimer = d.rtimer,
            !.task = FALSE, !.update = FALSE, !.failing = FALSE, !.enabled = FALSE]

\* Stop; what is posted is bound to weak pointers that are invalidated.
Stop(d) ==
    LET v == LoseEndpoints(DropConnection(d))
    IN  [SetScanState(v, "idle") EXCEPT
            !.iface = FALSE, !.current = NoService,
            !.pending = NoService, !.ptimer = FALSE, !.rtimer = FALSE,
            !.task = FALSE, !.update = FALSE, !.failing = FALSE, !.enabled = FALSE]

\* |ok| is false when wpa_supplicant neither creates an interface nor has one.
ConnectToSupplicant(d, ok) ==
    IF ~d.enabled \/ ~d.present \/ d.iface \/ ~ok THEN d
    ELSE Scan([d EXCEPT !.iface = TRUE])

Start(d, ok) ==
    IF d.enabled THEN d ELSE ConnectToSupplicant([d EXCEPT !.enabled = TRUE], ok)

\* Restart goes through the manager, which enables the device again.
Restart(d, ok) == IF d.enabled THEN Start(Stop(d), ok) ELSE d

OnSupplicantAppear(ok) ==
    /\ dev' = IF dev.present THEN Restart(dev, ok)
              ELSE ConnectToSupplicant([dev EXCEPT !.present = TRUE], ok)

OnSupplicantVanish(ok) ==
    /\ dev.present
    /\ dev' = Restart([dev EXCEPT !.present = FALSE], ok)

SetEnabled(ok) ==
    /\ dev' = IF dev.enabled THEN Stop(dev) ELSE Start(dev, ok)
-----------------------------------------------------------------------------
(***************************************************************************)
(* Requests.                                                               *)
(***************************************************************************)
\* WiFi::ConnectTo; |off| is false when the disconnection of the service it
\* replaces fails, |ok| when wpa_supplicant refuses the network.  Without an
\* interface there is nothing to ask.
ConnectTo(d, s, off, ok) ==
    LET w == IF d.pending = NoService THEN d ELSE DisconnectFrom(d, d.pending, off)
        c == SetPendingService(w, s)
    IN  IF ~d.present \/ d.pending = s THEN d
        ELSE IF ~d.iface THEN [d EXCEPT !.ended = "proxy"]
        ELSE IF ~ok THEN SetScanState(w, "idle")
        ELSE SelectService(Check(c, c.current # c.pending), s)

\* WiFiService::Connect, by a user or by auto-connect.
Connect(s, off, ok) ==
    /\ dev.state[s] \notin Connecting \cup {"connected"}
    /\ HasEndpoints(dev, s) \/ (s \in Hidden /\ dev.enabled)
    /\ dev.current # s
    /\ dev' = ConnectTo(SetState(dev, s, "idle"), s, off, ok)

UserDisconnects(s, ok) ==
    /\ dev' = Disconnect(dev, s, ok)

CredentialsChange(s, ok) ==
    /\ HasEndpoints(dev, s)
    /\ dev' = ClearCachedCredentials(dev, s, ok)
-----------------------------------------------------------------------------
(***************************************************************************)
(* The timeouts.                                                           *)
(***************************************************************************)
PendingTimeoutHandler(ok) ==
    LET p == dev.pending
        v == DisconnectWithFailure(
                 SetScanState([dev EXCEPT !.ptimer = FALSE], "found_nothing"), p, ok)
        w == IF v.pending = NoService THEN v
             ELSE DisconnectFrom(Check(v, ~HasEndpoints(v, p)), p, ok)
    IN  /\ dev.ptimer
        /\ dev' = IF p = NoService THEN Check(dev, FALSE) ELSE SetState(w, p, "idle")

ReconnectTimeoutHandler(ok) ==
    LET c == dev.current
        v == SetState([dev EXCEPT !.rtimer = FALSE], c, "failure")
    IN  /\ dev.rtimer
        /\ dev' = IF c = NoService THEN Check(dev, FALSE) ELSE DisconnectFrom(v, c, ok)

\* OnLinkMonitorFailure, on a reliable link whose gateway has been found.
OnLinkMonitorFailure(ok) ==
    /\ dev.monitor # "off" /\ dev.current # NoService
    /\ dev' = IF dev.present /\ ok THEN [dev EXCEPT !.rtimer = TRUE] ELSE dev

\* The monitor has learnt the gateway's address, and the device CHECKs that it
\* has a service to tell.
OnLinkMonitorGatewayChange ==
    /\ dev.monitor # "off"
    /\ dev' = IF dev.selected # NoService THEN dev ELSE [dev EXCEPT !.ended = "gateway"]
-----------------------------------------------------------------------------
(***************************************************************************)
(* Reports of wpa_supplicant.                                              *)
(***************************************************************************)
HandleDisconnect(d) ==
    LET s == IF d.current # NoService THEN d.current ELSE d.pending
        v == [SetState(d, s, "idle") EXCEPT !.current = NoService]
        w == IF s = v.selected THEN DropConnection(v) ELSE v
    IN  IF s = NoService THEN d
        ELSE IF s = w.pending THEN SetPendingService(w, NoService) ELSE w

HandleRoam(d, b, ok) ==
    LET s == ServiceOf[b]
    IN  IF b \notin d.known THEN d
        ELSE IF d.pending \notin {NoService, s}
        THEN IF s = d.current THEN d ELSE DisconnectFrom(d, d.pending, ok)
        ELSE IF d.pending = s
        THEN SetPendingService(SetScanState([d EXCEPT !.current = s], "connected"),
                               NoService)
        ELSE IF s = d.current THEN d
        ELSE LET v == [d EXCEPT !.current = s]
             IN  IF IsConnecting(d, s) THEN v ELSE SetState(v, s, "associating")

\* Mutant of CurrentBSSChanged: the reconnect timeout goes on.
BSSChangedTimed(d, bss, ok) ==
    LET c == [d EXCEPT !.already = FALSE]
        v == IF bss # Null THEN HandleRoam(c, bss, ok)
             ELSE IF Hidden = {} THEN HandleDisconnect(c)
             ELSE Scan(HandleDisconnect(c))
        w == IF v.current # NoService \/ v.selected # v.pending
             THEN SelectService(v, v.current) ELSE v
    IN  Check(w, w.current # w.pending \/ w.current = NoService)

\* With a hidden service in a profile a disconnection starts a scan.
CurrentBSSChanged(d, bss, ok) ==
    LET c == [d EXCEPT !.already = FALSE, !.rtimer = FALSE]
        v == IF bss # Null THEN HandleRoam(c, bss, ok)
             ELSE IF Hidden = {} THEN HandleDisconnect(c)
             ELSE Scan(HandleDisconnect(c))
        w == IF v.current # NoService \/ v.selected # v.pending
             THEN SelectService(v, v.current) ELSE v
    IN  Check(w, w.current # w.pending \/ w.current = NoService)

StateChanged(d, new, ok) ==
    LET v == [d EXCEPT !.up = (new = "completed")]
        s == IF d.pending # NoService THEN d.pending ELSE d.current
    IN  IF s = NoService THEN v
        ELSE CASE new = "completed" /\ d.state[s] = "connected" ->
                    [v EXCEPT !.rtimer = FALSE, !.already = TRUE]
               [] new = "completed" /\ d.state[s] # "connected" ->
                    [IF d.already THEN v ELSE AcquireIPConfig(v, s, ok)
                        EXCEPT !.already = TRUE]
               [] new = "associated" \/ (new = "handshake" /\ ~d.up) ->
                    SetState(v, s, "associating")
               [] new = "disconnected" /\ s = d.current /\ d.state[s] = "connected" ->
                    [v EXCEPT !.rtimer = TRUE]
               [] OTHER -> v

\* wpa_supplicant has announced the access point it connects to.
Announced(d) ==
    IsIdle(d) \/ \E s \in {d.current, d.pending} \ {NoService} : HasEndpoints(d, s)

\* The BSS is looked at before the state.
PropertiesChangedTask(bss, state, ok) ==
    LET v == IF bss = Same THEN dev ELSE CurrentBSSChanged(dev, bss, ok)
        w == IF state = Same THEN v ELSE StateChanged(v, state, ok)
    IN  /\ dev.iface
        /\ state \in {"associated", "completed"} => Announced(dev)
        /\ dev' = w

BSSAddedTask(b) ==
    /\ dev.iface /\ b \notin dev.known
    /\ dev' = [dev EXCEPT !.known = @ \cup {b}]

BSSRemovedTask(b, ok) ==
    /\ dev.iface /\ b \in dev.known
    /\ dev' = OnEndpointRemoved(dev, b, ok)

\* EAPEventTask with a failure.
EAPEventTask(ok) ==
    /\ dev.iface /\ dev.current # NoService
    /\ dev' = DisconnectWithFailure(dev, dev.current, ok)
-----------------------------------------------------------------------------
(***************************************************************************)
(* The IP configuration reports.                                           *)
(***************************************************************************)
OnIPConfigUpdated ==
    /\ dev.lessee # NoService
    /\ dev' = [SetState(dev, dev.selected, "connected")
                  EXCEPT !.monitor = IF dev.selected = NoService THEN "stray" ELSE "on"]

\* OnIPConfigFailed and WiFi::OnIPConfigFailure; |wep| when the password of the
\* current service is suspected.
OnIPConfigFailure(wep, ok) ==
    LET s == IF wep THEN dev.current ELSE dev.selected
        v == IF dev.current = NoService \/ s = NoService THEN dev
             ELSE DisconnectWithFailure(dev, s, ok)
    IN  /\ dev.lessee # NoService
        /\ dev' = [v EXCEPT !.monitor = "off"]
-----------------------------------------------------------------------------
(***************************************************************************)
(* Scans.                                                                  *)
(***************************************************************************)
RequestScan ==
    /\ dev.enabled
    /\ dev' = Scan(dev)

\* The timer of shill; it is armed again each time.
ScanTimerHandler ==
    /\ dev.iface
    /\ dev' = IF IsIdle(dev) THEN Scan(dev) ELSE dev

ScanTask(ok) ==
    LET v == [dev EXCEPT !.task = FALSE]
        busy == IsConnecting(dev, dev.pending) \/ IsConnecting(dev, dev.current)
        starts == dev.iface /\ ~busy /\ ok
        new == IF IsIdle(dev) THEN "scanning" ELSE "background"
    IN  /\ dev.task
        /\ dev' = IF ~dev.iface THEN SetScanState(v, "idle")
                  ELSE IF ~starts \/ dev.scan = "scanning" THEN v
                  ELSE [v EXCEPT !.scan = new]

ScanDoneTask(d) == [d EXCEPT !.update = TRUE]

\* For shill's scans and for wpa_supplicant's own.  |batched| when scan results
\* wait to be handled: the outcome is then not looked at.
ScanDone(success, batched) ==
    /\ dev.iface
    /\ dev' = IF batched THEN ScanDoneTask(dev)
              ELSE IF success THEN ScanDoneTask([dev EXCEPT !.failing = FALSE])
              ELSE [dev EXCEPT !.failing = TRUE]

ScanFailedTask ==
    /\ dev.failing
    /\ dev' = SetScanState([dev EXCEPT !.failing = FALSE], "idle")

UpdateScanStateAfterScanDone ==
    LET v == [dev EXCEPT !.update = FALSE]
    IN  /\ dev.update
        /\ dev' = IF dev.scan = "background" THEN SetScanState(v, "idle")
                  ELSE IF dev.scan # "idle" /\ IsIdle(dev)
                  THEN SetScanState(v, "found_nothing") ELSE v

\* OnAfterResume: InitiateScan unless connected.
OnAfterResume ==
    LET v == SetScanState(dev, "idle")
    IN  /\ dev.enabled
        /\ dev' = IF dev.current # NoService /\ dev.state[dev.current] = "connected"
                  THEN dev
                  ELSE IF IsIdle(dev) THEN Scan(v) ELSE v
-----------------------------------------------------------------------------
SupplicantStep ==
    \/ \E ok \in BOOLEAN :
          \/ \E bss \in Bsses \cup {Null} : PropertiesChangedTask(bss, Same, ok)
          \/ \E state \in SupplicantStates : PropertiesChangedTask(Same, state, ok)
    \/ \E b \in Bsses, ok \in BOOLEAN : BSSAddedTask(b) \/ BSSRemovedTask(b, ok)
    \/ \E ok, batched \in BOOLEAN : EAPEventTask(ok) \/ ScanDone(ok, batched)
    \/ \E ok \in BOOLEAN : OnSupplicantAppear(ok) \/ OnSupplicantVanish(ok)

RequestStep ==
    \/ \E s \in Services, ok \in BOOLEAN :
          \/ \E off \in BOOLEAN : Connect(s, off, ok)
          \/ UserDisconnects(s, ok) \/ CredentialsChange(s, ok)
    \/ \E ok \in BOOLEAN : SetEnabled(ok)
    \/ RequestScan
    \/ OnAfterResume

TaskStep ==
    \/ \E ok \in BOOLEAN :
          \/ PendingTimeoutHandler(ok) \/ ReconnectTimeoutHandler(ok)
          \/ OnLinkMonitorFailure(ok) \/ ScanTask(ok)
          \/ \E wep \in BOOLEAN : OnIPConfigFailure(wep, ok)
    \/ OnIPConfigUpdated \/ OnLinkMonitorGatewayChange
    \/ ScanTimerHandler \/ ScanFailedTask \/ UpdateScanStateAfterScanDone

Ended == dev.ended # "no" /\ UNCHANGED dev

Next ==
    \/ dev.ended = "no" /\ (SupplicantStep \/ RequestStep \/ TaskStep)
    \/ Ended

Spec == Init /\ [][Next]_vars
-----------------------------------------------------------------------------
(***************************************************************************)
(* Properties.                                                             *)
(***************************************************************************)
\* Whatever wpa_supplicant reports and in whatever order, these handlers end
\* shill in two ways only.  No CHECK of theirs fails: a service is never current
\* and pending at once (ConnectTo, CurrentBSSChanged), the two timeouts find the
\* service they were started for, and only a hidden service survives its own
\* pending timeout as the pending one.  The CHECK of OnLinkMonitorGatewayChange
\* (device.cc:1457) can fail, but only in a monitor that a lease started while no
\* service was selected: a monitor started for a service goes before its service
\* does.  The missing proxy (wifi.cc:499) is used only after wpa_supplicant has
\* refused an enabled device its interface.
ChecksHold ==
    /\ dev.ended # "check"
    /\ dev.ended = "gateway" => dev.monitor = "stray"
    /\ dev.ended = "proxy" => ~dev.iface /\ dev.present /\ dev.enabled

\* The pending timeout runs exactly while a service is pending: through every
\* replacement, roam, disconnection and restart of wpa_supplicant.
PendingIsTimed == dev.ptimer <=> dev.pending # NoService

\* A device has at most one connected service, the selected one.
ConnectedIsSelected ==
    \A s \in Services : dev.state[s] = "connected" => s = dev.selected

\* Without an interface of wpa_supplicant (it vanished or refused one, or the
\* device was stopped) nothing of the old connection is left to act on the next.
StoppedIsClean ==
    ~dev.iface =>
        /\ IsIdle(dev) /\ dev.selected = NoService
        /\ dev.known = {} /\ dev.lessee = NoService
        /\ ~dev.ptimer /\ ~dev.rtimer /\ dev.scan = "idle"

\* The scan state says connecting, which turns every scan away, only while a
\* service is pending.
ScanFollowsPending == dev.scan = "connecting" => dev.pending # NoService

\* A connected service has a device to disconnect it from: WiFiService::Disconnect
\* ends shill if it has not.  Broken by a lease for the service that was just
\* replaced: SetupConnection reports it to the selected service.
ConnectedHasDevice ==
    \A s \in Services : dev.state[s] = "connected" => HasEndpoints(dev, s)

\* No CHECK of the modelled handlers of wifi.cc fails, nor that of
\* OnLinkMonitorGatewayChange in a monitor started for a service; and the state of
\* the device has its type.
DeviceIsSound == TypeOK /\ ChecksHold

\* An attempt is bounded, and so is what it holds back: the timeout runs exactly
\* as long as a service is pending, and the scan state that turns every scan away
\* lasts no longer.
PendingIsBounded == PendingIsTimed /\ ScanFollowsPending
=============================================================================
