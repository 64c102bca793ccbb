----------------------------- MODULE DhcpClient -----------------------------
(***************************************************************************)
(* A device that acquires its IPv4 configuration with DHCP: Device,        *)
(* DHCPv4Config, DHCPProvider, and the dhcpcd processes that               *)
(* ProcessManager runs for them.  dhcpcd reports over D-Bus; the reports   *)
(* are posted as tasks and find their configuration by process id, so that *)
(* one may arrive after the client it came from was stopped.               *)
(*                                                                         *)
(* Each acquisition makes a new configuration; they are numbered.  The     *)
(* methods are operators on the world, the record of all of shill's state; *)
(* every action is one task of the event loop.  A configuration lives as   *)
(* long as the device or the provider refers to it.                        *)
(***************************************************************************)
EXTENDS Integers, Sequences, ProcessManager

CONSTANTS
    arp_gateway,    \* DHCPv4Config::arp_gateway_: gateway ARP is in use
    MaxConfigs,     \* bound: acquisitions
    MaxSignals,     \* bound: reports of dhcpcd on their way
    MaxRequests,    \* bound: requests by clients of shill
    MaxFaults       \* bound: clients that die, do not start or cannot be killed

ASSUME DhcpAssumption ==
    /\ arp_gateway \in BOOLEAN
    /\ MaxConfigs \in Nat /\ MaxSignals \in Nat /\ MaxRequests \in Nat
    /\ MaxFaults \in Nat
    /\ Owners = 1..MaxConfigs /\ NoOwner = 0 /\ Pids \subseteq Nat \ {0}

Configs == Owners
NoPid == 0
Addresses == {"none", "lease", "arp"}
Reasons == {"bound", "bound_forever", "gateway_arp", "nak", "fail", "status"}

ConfigRecords ==
    [pid : Pids \cup {NoPid}, proxy : BOOLEAN, active : BOOLEAN,
     arp : BOOLEAN,         \* is_gateway_arp_active_
     acquisition : BOOLEAN, \* lease_acquisition_timeout_callback_ is armed
     expiration : BOOLEAN,  \* lease_expiration_callback_ is armed
     address : Addresses,   \* where properties_.address comes from
     excused : BOOLEAN]     \* dhcpcd died, or a failure was passed over because
                            \*   of a static address, since the last report

NewConfig ==
    [pid |-> NoPid, proxy |-> FALSE, active |-> FALSE, arp |-> FALSE,
     acquisition |-> FALSE, expiration |-> FALSE, address |-> "none",
     excused |-> FALSE]

DeviceRecords ==
    [selected : BOOLEAN, state : {"idle", "configuring", "connected", "failure"},
     ipconfig : Configs \cup {NoOwner},
     ipv6 : BOOLEAN,        \* ip6config_ is complete
     static : BOOLEAN,      \* the service has a static IP address
     task : BOOLEAN,        \* ConfigureStaticIPTask is posted
     connection : {"none", "static", "lease", "forever", "arp", "unset", "ipv6"},
     from : Configs \cup {NoOwner}] \* the configuration it was set up from

VARIABLES
    dev,        \* the device and its service
    cfg,        \* the configurations
    bound,      \* DHCPProvider::configs_
    pm,         \* the ProcessManager
    failed,     \* a CHECK of DHCPConfig has failed
    client,     \* what each dhcpcd does: tries to get a lease, or has one
    signals,    \* reports posted by the listener
    made,       \* configurations made so far
    requests, faults

vars == <<dev, cfg, bound, pm, failed, client, signals, made, requests, faults>>

World == [dev |-> dev, cfg |-> cfg, bound |-> bound, pm |-> pm,
          failed |-> failed, client |-> client]

Becomes(w) ==
    \E v \in {w} :
        /\ dev' = v.dev /\ cfg' = v.cfg /\ bound' = v.bound /\ pm' = v.pm
        /\ failed' = v.failed /\ client' = v.client

TypeOK ==
    /\ dev \in DeviceRecords
    /\ cfg \in [Configs -> ConfigRecords]
    /\ bound \in [Pids -> Configs \cup {NoOwner}]
    /\ pm \in ProcessManagers
    /\ failed \in BOOLEAN
    /\ client \in [Pids -> {"trying", "bound"}]
    /\ signals \in Seq([pid : Pids, reason : Reasons]) /\ Len(signals) <= MaxSignals
    /\ made \in 0..MaxConfigs
    /\ requests \in 0..MaxRequests /\ faults \in 0..MaxFaults

Init ==
    /\ dev \in [selected : {FALSE}, state : {"idle"}, ipconfig : {NoOwner},
                ipv6 : {FALSE}, static : BOOLEAN, task : {FALSE},
                connection : {"none"}, from : {NoOwner}]
    /\ cfg = [c \in Configs |-> NewConfig]
    /\ bound = [p \in Pids |-> NoOwner]
    /\ pm = InitProcessManager
    /\ failed = FALSE
    /\ client = [p \in Pids |-> "trying"]
    /\ signals = <<>>
    /\ made = 0
    /\ requests = 0 /\ faults = 0
-----------------------------------------------------------------------------
(***************************************************************************)
(* DHCPConfig: its timers, and the life of its client.                     *)
(***************************************************************************)
StartAcquisitionTimeout(w, c) ==
    [w EXCEPT !.failed = @ \/ w.cfg[c].expiration, !.cfg[c].acquisition = TRUE]

StartExpirationTimeout(w, c) ==
    [w EXCEPT !.failed = @ \/ w.cfg[c].acquisition, !.cfg[c].expiration = TRUE]

\* Mutant of CleanupClientState: the timers go on.
CleanupUntimed(w, c) ==
    LET p == w.cfg[c].pid
        v == [w EXCEPT !.cfg[c].proxy = FALSE, !.cfg[c].pid = NoPid,
                       !.cfg[c].active = FALSE, !.cfg[c].arp = FALSE]
    IN  IF p = NoPid THEN v ELSE [v EXCEPT !.bound[p] = NoOwner]

\* Mutant of CleanupClientState: the provider keeps the client.
CleanupBound(w, c) ==
    [w EXCEPT !.cfg[c].acquisition = FALSE, !.cfg[c].expiration = FALSE,
              !.cfg[c].proxy = FALSE, !.cfg[c].pid = NoPid,
              !.cfg[c].active = FALSE, !.cfg[c].arp = FALSE]

\* CleanupClientState of DHCPConfig and DHCPv4Config, with UnbindPID.
CleanupClientState(w, c) ==
    LET p == w.cfg[c].pid
        v == [w EXCEPT !.cfg[c].acquisition = FALSE, !.cfg[c].expiration = FALSE,
                       !.cfg[c].proxy = FALSE, !.cfg[c].pid = NoPid,
                       !.cfg[c].active = FALSE, !.cfg[c].arp = FALSE]
    IN  IF p = NoPid THEN v ELSE [v EXCEPT !.bound[p] = NoOwner]

\* Stop and KillClient; |dies| is false when dhcpcd survives both signals.
Stop(w, c, dies) ==
    LET p == w.cfg[c].pid
    IN  CleanupClientState(
            IF p = NoPid THEN w
            ELSE [w EXCEPT !.pm = StopProcessAndBlock(@, p, dies),
                           !.client[p] = "trying"], c)

\* Start: |ok| is false when the process cannot be spawned.
Start(w, c, ok) ==
    IF ~ok THEN w
    ELSE LET p == CHOOSE q \in Fresh(w.pm) : \A r \in Fresh(w.pm) : q <= r
         IN  StartAcquisitionTimeout(
                 [w EXCEPT !.pm = StartProcess(@, p, c), !.cfg[c].pid = p,
                           !.bound[p] = c], c)

RenewIP(w, c, ok) ==
    IF w.cfg[c].pid = NoPid THEN Start(w, c, ok)
    ELSE IF ~w.cfg[c].proxy THEN w
    ELSE StartAcquisitionTimeout(
             [w EXCEPT !.cfg[c].expiration = FALSE,
                       !.client[w.cfg[c].pid] = "trying"], c)

\* Mutant of ReleaseIP: a client without a lease is kept, whatever the reason.
ReleaseLeased(w, c, static, dies) ==
    IF w.cfg[c].pid = NoPid \/ ~w.cfg[c].active THEN w ELSE Stop(w, c, dies)

\* ReleaseIP.  With a static address the client may finish its first acquisition.
ReleaseIP(w, c, static, dies) ==
    IF w.cfg[c].pid = NoPid \/ (static /\ ~w.cfg[c].active) THEN w
    ELSE Stop(w, c, dies)
-----------------------------------------------------------------------------
(***************************************************************************)
(* Device: connections, and what it does when a configuration reports.     *)
(* The callbacks do not ask whether the configuration is the current one.  *)
(***************************************************************************)
\* A configuration that neither the device nor the provider refers to is gone.
Forget(w, c) == IF w.cfg[c].pid = NoPid THEN [w EXCEPT !.cfg[c] = NewConfig] ELSE w

DestroyIPConfig(w, dies) ==
    LET c == w.dev.ipconfig
        v == IF c = NoOwner THEN w ELSE Forget(ReleaseIP(w, c, FALSE, dies), c)
    IN  [v EXCEPT !.dev.ipconfig = NoOwner, !.dev.ipv6 = FALSE,
                  !.dev.connection = "none", !.dev.from = NoOwner]

DropConnection(w, dies) ==
    [DestroyIPConfig(w, dies) EXCEPT !.dev.selected = FALSE]

SetupConnection(w, kind, c) ==
    [w EXCEPT !.dev.connection = kind, !.dev.from = c,
              !.dev.state = IF w.dev.selected THEN "connected" ELSE @]

OnIPConfigUpdated(w, c, dies) ==
    LET static == w.dev.selected /\ w.dev.static
        v == IF static THEN ReleaseIP(w, c, TRUE, dies) ELSE w
        leased == IF w.cfg[c].address = "lease" /\ ~w.cfg[c].expiration
                  THEN "forever" ELSE w.cfg[c].address
        kind == IF static THEN "static" ELSE IF leased = "none" THEN "unset" ELSE leased
    IN  SetupConnection(v, kind, c)

\* Mutant of OnIPConfigFailed: the connection is dropped, the service not failed.
FailedSilently(w, c, dies) ==
    IF w.dev.selected /\ w.dev.static THEN [w EXCEPT !.cfg[c].excused = TRUE]
    ELSE LET v == [w EXCEPT !.cfg[c].address = "none"]
         IN  IF w.dev.ipv6
             THEN IF w.dev.connection = "ipv6" THEN v
                  ELSE SetupConnection(v, "ipv6", NoOwner)
             ELSE DropConnection(v, dies)

\* OnIPConfigFailed, with OnIPConfigFailure and the disconnection it causes.
OnIPConfigFailed(w, c, dies) ==
    IF w.dev.selected /\ w.dev.static THEN [w EXCEPT !.cfg[c].excused = TRUE]
    ELSE LET v == [w EXCEPT !.cfg[c].address = "none"]
         IN  IF w.dev.ipv6
             THEN IF w.dev.connection = "ipv6" THEN v
                  ELSE SetupConnection(v, "ipv6", NoOwner)
             ELSE IF w.dev.selected
             THEN [DropConnection(v, dies) EXCEPT !.dev.state = "failure"]
             ELSE [v EXCEPT !.dev.connection = "none", !.dev.from = NoOwner]

NotifyFailure(w, c, dies) ==
    OnIPConfigFailed([w EXCEPT !.cfg[c].acquisition = FALSE,
                               !.cfg[c].expiration = FALSE], c, dies)
-----------------------------------------------------------------------------
Fault == faults < MaxFaults /\ faults' = faults + 1

Outcome(ok) == IF ok THEN UNCHANGED faults ELSE Fault

Request == requests < MaxRequests /\ requests' = requests + 1

MayStart(ok) == Outcome(ok) /\ (ok => Fresh(pm) # {})

\* The service is connected: AcquireIPConfigWithLeaseName for a new configuration.
Acquire(ok) ==
    LET c == made + 1
        w == [DestroyIPConfig(World, TRUE) EXCEPT
                 !.dev.selected = TRUE, !.dev.ipconfig = c, !.dev.task = TRUE]
        v == Start(w, c, ok)
    IN  /\ dev.state \in {"idle", "failure"}
        /\ made < MaxConfigs /\ made' = c
        /\ MayStart(ok)
        /\ Becomes(IF ok THEN [v EXCEPT !.dev.state = "configuring"]
                   ELSE [DestroyIPConfig(v, TRUE) EXCEPT !.dev.state = "failure"])
        /\ UNCHANGED <<signals, requests>>

\* The service is disconnected by a client or because the link is lost.
Disconnect(dies) ==
    /\ dev.selected /\ Request /\ Outcome(dies)
    /\ Becomes([DropConnection(World, dies) EXCEPT !.dev.state = "idle"])
    /\ UNCHANGED <<signals, made>>

ConfigureStaticIPTask(dies) ==
    LET w == [World EXCEPT !.dev.task = FALSE]
    IN  /\ dev.task /\ Outcome(dies)
        /\ Becomes(IF dev.selected /\ dev.ipconfig # NoOwner /\ dev.static
                   THEN OnIPConfigUpdated(w, dev.ipconfig, dies) ELSE w)
        /\ UNCHANGED <<signals, made, requests>>

\* IPConfig::Refresh, by a client.
Refresh(ok) ==
    /\ dev.selected /\ dev.ipconfig # NoOwner /\ Request
    /\ IF cfg[dev.ipconfig].pid = NoPid THEN MayStart(ok) ELSE ok /\ UNCHANGED faults
    /\ Becomes(RenewIP([World EXCEPT !.dev.task = TRUE], dev.ipconfig, ok))
    /\ UNCHANGED <<signals, made>>

\* Device::RenewDHCPLease, after a resume or a change of the network: the IPv6
\* configuration is given up, but not the connection.
RenewDHCPLease(ok) ==
    /\ dev.ipconfig # NoOwner /\ Request
    /\ IF cfg[dev.ipconfig].pid = NoPid THEN MayStart(ok) ELSE ok /\ UNCHANGED faults
    /\ Becomes(RenewIP([World EXCEPT !.dev.ipv6 = FALSE], dev.ipconfig, ok))
    /\ UNCHANGED <<signals, made>>

SetStaticIP ==
    /\ Request
    /\ dev' = [dev EXCEPT !.static = ~@]
    /\ UNCHANGED <<cfg, bound, pm, failed, client, signals, made, faults>>

\* OnIPv6ConfigUpdated, with an address and name servers.
OnIPv6ConfigUpdated ==
    /\ dev.ipconfig # NoOwner /\ ~dev.ipv6 /\ Request
    /\ LET w == [World EXCEPT !.dev.ipv6 = TRUE]
       IN  Becomes(IF dev.connection \in {"none", "ipv6"}
                   THEN SetupConnection(w, "ipv6", NoOwner) ELSE w)
    /\ UNCHANGED <<signals, made, faults>>
-----------------------------------------------------------------------------
\* The timers.
ProcessAcquisitionTimeout(c, dies) ==
    LET w == [World EXCEPT !.cfg[c].acquisition = FALSE]
    IN  /\ cfg[c].acquisition /\ Outcome(dies)
        /\ Becomes(IF cfg[c].arp THEN w ELSE NotifyFailure(w, c, dies))
        /\ UNCHANGED <<signals, made, requests>>

\* The expired lease is reported, and the client restarted.
ProcessExpirationTimeout(c, ok) ==
    LET w == Stop([World EXCEPT !.cfg[c].expiration = FALSE], c, TRUE)
    IN  /\ cfg[c].expiration /\ MayStart(ok)
        /\ Becomes(IF ok THEN Start(w, c, ok) ELSE NotifyFailure(w, c, TRUE))
        /\ UNCHANGED <<signals, made, requests>>

(***************************************************************************)
(* dhcpcd and its reports.  BOUND stands for REBIND, REBOOT and RENEW too; *)
(* a lease of zero seconds is never timed.                                 *)
(***************************************************************************)
ClientReports(p, reason) ==
    /\ pm.proc[p] = "running" /\ Len(signals) < MaxSignals
    /\ reason \in {"gateway_arp", "nak", "fail", "status"} => client[p] = "trying"
    /\ reason = "gateway_arp" => arp_gateway
    /\ signals' = Append(signals, [pid |-> p, reason |-> reason])
    /\ client' = IF reason \in {"bound", "bound_forever"}
                 THEN [client EXCEPT ![p] = "bound"] ELSE client
    /\ UNCHANGED <<dev, cfg, bound, pm, failed, made, requests, faults>>

UpdateProperties(w, c, forever, dies) ==
    LET v == [w EXCEPT !.cfg[c].acquisition = FALSE, !.cfg[c].address = "lease",
                       !.cfg[c].excused = FALSE]
        timed == IF forever THEN [v EXCEPT !.cfg[c].expiration = FALSE]
                            ELSE StartExpirationTimeout(v, c)
    IN  OnIPConfigUpdated(timed, c, dies)

\* DHCPv4Config::ProcessEventSignal and ProcessStatusChangeSignal.
ProcessEventSignal(w, c, reason, dies) ==
    CASE reason = "fail" -> NotifyFailure(w, c, dies)
      [] reason = "nak" -> [w EXCEPT !.cfg[c].arp = FALSE]
      [] reason = "gateway_arp" ->
            [OnIPConfigUpdated([w EXCEPT !.cfg[c].active = TRUE,
                                         !.cfg[c].address = "arp"], c, dies)
                EXCEPT !.cfg[c].arp = TRUE]
      [] reason \in {"bound", "bound_forever"} ->
            [UpdateProperties([w EXCEPT !.cfg[c].active = TRUE], c,
                              reason = "bound_forever", dies)
                EXCEPT !.cfg[c].arp = FALSE]
      [] OTHER -> w

\* ChromeosDHCPCDListener::EventSignal: reports of unbound clients are ignored.
EventSignal(dies) ==
    LET s == Head(signals)
        c == bound[s.pid]
    IN  /\ signals # <<>> /\ Outcome(dies)
        /\ signals' = Tail(signals)
        /\ Becomes(IF c = NoOwner THEN World
                   ELSE ProcessEventSignal([World EXCEPT !.cfg[c].proxy = TRUE],
                                           c, s.reason, dies))
        /\ UNCHANGED <<made, requests>>

ClientDies(p) ==
    /\ pm.proc[p] = "running" /\ Fault
    /\ pm' = [pm EXCEPT !.proc[p] = "zombie"]
    /\ client' = [client EXCEPT ![p] = "trying"]
    /\ UNCHANGED <<dev, cfg, bound, failed, signals, made, requests>>

\* ProcessManager::OnProcessExited and DHCPConfig::OnProcessExited.
ProcessExited(p) ==
    LET c == Told(pm, p)
        w == [World EXCEPT !.pm = OnProcessExited(@, p)]
    IN  /\ pm.proc[p] = "zombie"
        /\ Becomes(IF c = NoOwner THEN w
                   ELSE CleanupClientState(
                           [w EXCEPT !.failed = @ \/ cfg[c].pid = NoPid,
                                     !.cfg[c].excused = TRUE], c))
        /\ UNCHANGED <<signals, made, requests, faults>>

TaskStep ==
    \/ \E dies \in BOOLEAN : ConfigureStaticIPTask(dies) \/ EventSignal(dies)
    \/ \E c \in Configs, ok \in BOOLEAN :
          ProcessAcquisitionTimeout(c, ok) \/ ProcessExpirationTimeout(c, ok)
    \/ \E p \in Pids : ProcessExited(p)

RequestStep ==
    \/ \E ok \in BOOLEAN : Acquire(ok) \/ Disconnect(ok) \/ Refresh(ok)
                              \/ RenewDHCPLease(ok)
    \/ SetStaticIP
    \/ OnIPv6ConfigUpdated

ClientStep ==
    \E p \in Pids : ClientDies(p) \/ \E reason \in Reasons : ClientReports(p, reason)

Next == TaskStep \/ RequestStep \/ ClientStep

Spec == Init /\ [][Next]_vars

\* Posted tasks run and timers expire; nothing is assumed of dhcpcd or clients.
FairSpec ==
    /\ Spec
    /\ WF_vars(\E dies \in BOOLEAN : ConfigureStaticIPTask(dies))
    /\ WF_vars(\E dies \in BOOLEAN : EventSignal(dies))
    /\ \A c \in Configs :
          WF_vars(\E dies \in BOOLEAN : ProcessAcquisitionTimeout(c, dies))
-----------------------------------------------------------------------------
\* dhcp_config.cc:283 and :307: neither timer is ever started while the other
\* one runs, and dhcp_config.cc:251: no exit is reported to a configuration
\* that has no client.
ChecksHold == ~failed

\* dhcp_config.cc:100: no dhcpcd is left behind.  Each one that runs is the
\* client of the device's current configuration, unless it could not be killed.
NoClientIsLeftBehind ==
    \A p \in Pids :
        pm.proc[p] = "running" /\ p \notin pm.forgotten =>
            dev.ipconfig # NoOwner /\ cfg[dev.ipconfig].pid = p

\* A connection set up from a configuration ends with it: no late report of a
\* stopped client sets up the device again.
ConnectionIsCurrent == dev.from # NoOwner => dev.from = dev.ipconfig

\* dhcp_config.h:168 and :158: a leased address is used only while its expiry or
\* a new acquisition is timed, and one that gateway ARP has confirmed only while
\* a client goes on to acquire it (unless dhcpcd died, or a failure was passed
\* over for a static address).
LeaseIsTimed ==
    dev.from # NoOwner /\ ~cfg[dev.from].excused =>
        /\ dev.connection = "lease" =>
              cfg[dev.from].expiration \/ cfg[dev.from].acquisition
        /\ dev.connection = "arp" => cfg[dev.from].pid # NoPid

\* dhcp_config.h:158: an acquisition ends, with a lease or with a failure,
\* unless dhcpcd dies.
AcquisitionEnds ==
    dev.state = "configuring" ~>
        dev.state # "configuring"
            \/ (dev.ipconfig # NoOwner /\ cfg[dev.ipconfig].excused)

\* The two timers of a configuration: no CHECK of theirs fails, and what has to
\* end by one of them has it armed.
TimersAreSound == TypeOK /\ ChecksHold /\ LeaseIsTimed
=============================================================================
