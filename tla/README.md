# A TLA+ model of shill

shill is the connection manager of Chrome OS and Brillo. One process with one
event loop owns every network interface: it starts and stops devices, scans,
associates, obtains leases, decides which service is the default one, checks
connections for captive portals, watches links, and follows the system through
suspend, dark resume and shutdown. There are no threads to speak of; what makes
the program hard is that nearly every operation is split over several tasks of
the loop (a D-Bus or netlink request, its reply, a timer, a posted task), and
that other tasks run in between.

Every action of every module is therefore *one task of the event loop*, taken
whole with all the calls it makes, and a behaviour is an interleaving of such
tasks with what the kernel, powerd, servers, modems and users do. What a task
posts (a timer, a callback, a request that will be answered) is state that a
later action consumes.

## 1. Inventory

| Part | Source | State it keeps | Operations | Talks to | What is hard | What makes it correct |
|---|---|---|---|---|---|---|
| Termination actions | `hook_table.cc`, `daemon_task.cc` | named actions, done callback, timeout | Add, Remove, Run, ActionComplete, timeout, Quit, Stop | cellular devices complete entries; the daemon waits | late completions race the timeout; entries are replaced during the run | shill stops once, in bounded time, and success is true |
| Suspend protocol | `power_manager.cc`, `result_aggregator.cc`, `manager.cc` | suspend ids, flags, aggregators with references and timers | announcements, reports, device completions, timeout, loss of powerd | every device gets a callback; powerd waits for the report | aborted attempts, devices that drop the callback or vanish | readiness is reported once, for this attempt, after the devices |
| Wake on WiFi | `wifi/wake_on_wifi.cc` | NIC programming, alarm timers, stored callback, dark resume history | announce, program, verify, retry, dark resume, resume | netlink, the WiFi device, the suspend protocol | replies and timers of one cycle arrive in the next | never sleeps deaf, a resume disarms, a stored callback is run |
| Services and default service | `manager.cc`, `service.cc`, `service_sorter.h` | list of services, states, failures, auto-connect throttle | connect, disconnect, sort, auto-connect, publish | devices change states; the sort is posted | everything changes between posting and running the sort | at rest the head of the list is the best connected service and has the default route |
| Devices and connections | `device.cc`, `connection.cc` | selected service, IP configuration, connection, binders | select, acquire, set up, drop, bind | Manager, DHCP, portal check | destructors call back into other devices | nobody uses a dead connection |
| Ethernet, L2TP VPN | `ethernet/`, `vpn/` | link, driver state | link events, connect, pppd reports | as above | the carrier of a VPN goes away | a VPN ends with its carrier |
| Portal detection | `portal_detector.cc`, `connectivity_trial.cc` | attempts, failures, request, tasks | start, retry, result, timeout, stop | the device and its service | stopped but not cancelled tasks; retries across restarts | each check ends and its outcome is applied once |
| Fallback DNS | `dns_server_tester.cc`, `device.cc` | tester, saved servers | test, switch, switch back | portal detection, DHCP, resolver | leases and families change during a test | the fallback is temporary |
| WiFi connection | `wifi/wifi.cc`, `wifi/wifi_service.cc` | current and pending service, supplicant state, timeouts | connect, disconnect, roam, supplicant events | supplicant, Manager | switching networks while events of the old one arrive | one pending service, attempts end |
| WiFi scans | `wifi/scan_session.cc`, `wifi/wifi_provider.cc` | frequencies, endpoints, services | progressive and full scans | netlink, supplicant | scans interrupted by connects | a scan ends, every endpoint has a service |
| Link monitors | `link_monitor.cc`, `active_link_monitor.cc`, `passive_link_monitor.cc`, `traffic_monitor.cc` | failure counts, phases | start, reply, timeout | ARP, device | phases alternate while the link flaps | a dead link is noticed, a good one kept |
| DHCP | `dhcp/`, `ipconfig.cc` | client process, timers, lease | start, stop, events, timeouts | dhcpcd over D-Bus | process exits race events | a lease or a failure, never neither |
| Cellular, WiMAX | `cellular/`, `wimax/` | modem state machines | enable, register, connect, activate | ModemManager | replies after a reset | the state follows the modem |
| Other VPNs, PPP | `vpn/openvpn_*`, `vpn/third_party_*`, `ppp_device.cc`, `pppoe/` | external tasks, management channel | connect, hold, events, cleanup | processes | cleanup during events | cleaned up however it ends |
| Processes | `process_manager.cc`, `external_task.cc` | watched and terminating processes | start, exit, stop, kill timers | kernel | exit races the kill timer | no process is left behind |
| netlink and rtnl | `net/netlink_manager.cc`, `net/rtnl_handler.cc` | pending messages, handlers, sequence numbers | send, acknowledge, dump, retry | kernel | dumps interleave, errors | each request ends with one result |
| Routing table | `routing_table.cc` | routes per interface, queries | add, flush, query | rtnl, connections | answers after the query's owner is gone | a route belongs to a live interface |
| Discovery | `device_info.cc`, `device_claimer.cc` | known and delayed devices | link messages, claims | rtnl | links come and go before they are identified | each link has one device |
| Profiles | `profile.cc`, `manager.cc`, `service.cc` | stack of profiles, entries, list of loaded user profiles | create, push, pop, remove, configure, move, forget, restore | services load from and save to entries | a service is still connected when it is unloaded; shill exits while it restores the stack | what a service has is what its profile stores, and goes with it |
| Diagnostics, DNS, HTTP, ICMP | `connection_diagnostics.cc`, `dns_client.cc`, `http_request.cc`, `icmp_session.cc` | one request each | start, reply, timeout | portal check | replies after timeouts | one result |
| RPC, shims, metrics, property store | `dbus/`, `binder/`, `shims/`, `metrics.cc` | none of their own | forwarding, formatting | everything | nothing | not modelled |

`PROJECT.json` lists each part with its status, and every hazard with the line
where it bites and the properties that would catch it.

## 2. Modules

| Module | What it is | Extends |
|---|---|---|
| `HookTable` | the table as operators on a record, one per method | |
| `Termination` | `DaemonTask::Quit` with the cellular devices that use the table | `HookTable` |
| `PowerManager`, `ResultAggregator` | the two classes as operators on records | |
| `SuspendReadiness` | powerd, Manager and three kinds of device composed from them | both |
| `PowerDownProofs` | theorems about `WakeOnWiFi` and `SuspendReadiness` | both |
| `WakeOnWiFi` | what one WiFi device does with an announcement | |
| `ServiceOrder` | `Service::Compare` and what `std::sort` makes of it | |
| `Services` | `Service` and Manager's list, as operators on the world | `ServiceOrder` |
| `Connections` | `Device` and `Connection`, as operators on the world | `Services` |
| `Connectivity` | Manager's tasks, Ethernet, the VPN, the user: the state machine | `Connections` |
| `ConnectivityProofs` | its theorems | `Connectivity` |
| `PortalDetector` | detector and trial as operators on a record | |
| `PortalCheck` | one device with its detector and DNS tester: the state machine | `PortalDetector` |
| `PortalAbstraction` | what the rest of shill may rely on in a portal check | |
| `PortalProofs` | theorems about `PortalCheck`, the refinement included | `PortalCheck` |
| `ProcessManager` | child processes: exits, signals, the escalation to SIGKILL, as operators | |
| `DhcpClient` | a device, its DHCP configurations, dhcpcd and its reports | `ProcessManager` |
| `DhcpClientProofs` | its theorems | `DhcpClient` |
| `OpenVPN` | the driver, its management channel, the openvpn client and its tunnel | instantiates `ProcessManager` |
| `OpenVPNProofs` | its theorems | `OpenVPN` |
| `LinkMonitor` | the active and the passive monitor of a device and what it makes of them | |
| `WiFiLink` | the WiFi device: current, pending and selected service, scans, wpa_supplicant | |
| `WiFiLinkProofs` | its theorems | `WiFiLink` |
| `NetlinkManager` | requests to the kernel, the queue of dumps, retries and timeouts | |
| `TimeoutProofs` | theorems about `LinkMonitor`, `NetlinkManager` and `Termination` | all three |
| `Profiles` | the stack of profiles, their entries, and services that load and save | |
| `ProfilesProofs` | its theorems | `Profiles` |
| `MC*` | the instances TLC checks | |

A class is a record and a method an operator from records to records, named like
the method. A handler that calls several objects is a composition of such
operators in the order of the code's calls; in `Connectivity`, `PortalCheck`,
`DhcpClient` and `NetlinkManager` they act on a *world*, the record of all state of
shill, and one operator turns the resulting world into the primed state.
`Connections` has the portal check as the three values of `PortalAbstraction`;
`PortalCheck` shows what is behind them. Operators called mutants, and those named
`...Quietly`, `...Only`, `...Unposted`, `...Uncapped` and the like that precede the
operator they resemble, are plausible slips in that code; they are used only to
show that each property can fail.

### How state and actions correspond to the code

* **Termination.** `table.hook[n]` is the entry of a modem (`absent`, `idle`,
  `started`, `completed`), `table.done` and `table.timer` the callback and the
  timeout of `Run`. `enabled`, `pending` are `Device::enabled_` and
  `enabled_pending_`; `op` and `waiter` the asynchronous start or stop in flight
  and whose callback it carries. A stop that ends runs
  `Cellular::StopModemCallback`, which completes and removes the entry, or only
  removes it. Two ghosts relate the entries to the modems: `owing`, those the run
  set out to terminate that are still up, and `replaced`, those added to the table
  again while it runs.
* **Suspend.** `aggs[k]` is the aggregator of announcement `k`; a reference is
  held by each callback, wherever it is stored or bound, and the destructor runs
  the aggregated callback once when the last one goes. `reports` records, for
  each report to powerd, under which id and from which aggregator it came and
  which devices were still unheard. WiFi devices store the callback, modems bind
  it into a stop operation or drop it, all others run it at once. The ghost
  `hurried` tells whether powerd has ever announced or ended an attempt while
  shill was still working on one: the safety properties are about a powerd that
  has not.
* **WakeOnWiFi.** `nic` is what the kernel has been told, `triggers` what shill
  believes; `posted`, `replies`, `errors`, `verify` are the tasks and answers
  outstanding, `wakeToScan` and `lease` the alarm timers, `callback` the stored
  completion callback. `patient` is chosen at the start: a patient powerd moves on
  when the device is idle, a hasty one at any time. Three ghosts name what goes
  astray: `stale` (when this suspend was announced the kernel still owed an answer
  about an earlier one), `lost` (nothing will verify what was programmed: the request
  was refused, not sent or lost, or there is no wiphy index to send it to) and `left`
  (what may still be armed although the system is up: nothing, the NIC because the
  resume did not reach it, or anything because actions were taken after it).
* **Connectivity.** `svc[s]` and `dev[d]` are the members of `Service` and
  `Device`/`Connection` that decide anything; `sort` is the posted
  `SortServicesTask`; `lower` and `query` the binding of the VPN's connection;
  `published` what Manager announced last.
* **PortalCheck.** `det` is the detector with its trial, `tester` the DNS tester,
  `lease`, `dns`, `saved` the three places a list of DNS servers is kept.
  A lease may bring no servers; `leased` is what the last one brought. Selecting the
  service and asking DHCP are part of the first lease: before it there is nothing to
  check.
* **ProcessManager.** `watched`, `ending` and `forgotten` are `watched_processes_`,
  `pending_termination_processes_` with the signal that was sent, and the processes
  the reaper was told to forget; `proc` is what the kernel knows. It has no
  variables: `DhcpClient` and `OpenVPN` keep such a record.
* **DhcpClient.** A configuration is a record (process, proxy, the two timers,
  where its address comes from) and each acquisition makes a new one; a report of
  dhcpcd is a posted task that finds its configuration by process id. Device and
  provider each may refer to a configuration, and it lives as long as one does.
* **LinkMonitor.** `active` and `passive` are the two monitors with their counts
  and posted tasks. Whether a socket could be opened or a packet sent is an
  argument of the action that tries.
* **WiFiLink.** `dev` has `current`, `pending` and `selected`, the two timers
  `ptimer` and `rtimer`, the scan state, and what wpa_supplicant has reported. A
  report (`PropertiesChanged`, `BSSAdded`, `BSSRemoved`, `ScanDone`) is an action of
  its own and may be older than the last request. `iface` is the
  proxy of wpa_supplicant, which may refuse it to an enabled device; `monitor` is the
  link monitor, "stray" when a lease started it while no service was selected.
  `ended` says how the code ended shill, if it did: by a CHECK of `wifi.cc`, by that of
  the gateway report, or by the use of a proxy it does not have. No step follows.
* **OpenVPN.** `sys` is the driver with its management server and interfaces,
  `client` the process that `pid_` names: what it has been sent and what it has
  said. `killed` is a ghost for the fairness of SIGKILL.
* **NetlinkManager.** `nl` has the queue `pending_messages_`, the handlers, the two
  delayed tasks and the retries left; `kernel` counts how often the kernel still
  owes an answer to a request, since a dump that timed out or was sent twice is
  answered twice. `ended` counts how often a client was told the end.
* **Profiles.** `svc[s].stored[p]` is the group of the service in profile `p`; a save
  is flushed at once, so memory and disk of a profile agree. `config.key` stands
  for what `Unload` resets, `config.static` for what it leaves. `left` are the user
  profiles that `InitializeProfiles` has read and not yet pushed; shill may exit
  between two pushes. `session` is what the list should say, `astray` marks a
  service whose configuration is knowingly not the one of its entry.
  `Manager::GetService` (`RequestService`) may register a WiFi service that no profile
  remembers and no endpoint shows; the others come from an entry or an endpoint.

## 3. Runs

All runs together take about ten minutes on two cores; `wake`, `wifi_link` and
`suspend` take most of it.

| Run | States | What it checks |
|---|---|---|
| `termination` | 69 thousand | two modems that are enabled, disabled and lost at any moment while shill quits: one end of the run; a success when every modem it waited for is down, but for those whose entry was replaced; and quitting ends |
| `suspend` | 960 thousand | powerd waits, or does not: an aggregator fires once; a report to a powerd that waits is for the attempt under way and after the devices that kept the callback; an attempt somebody reported for is answered or ends |
| `wake` | 731 thousand | cycles of suspend, dark resume and resume with failing and lost requests and changing settings, under a powerd that waits or not: nothing is armed when awake, nothing is reported before the actions, a stored callback is run, all but for named exceptions; and never deaf asleep when powerd waits |
| `connectivity` | 170 thousand | two Ethernet devices and a VPN: one default at any time; at rest the list, the route, the published state, auto-connect and the portal recheck agree |
| `portal` | 22 thousand | portal checks and DNS tests against leases with servers and without, IPv6 fallback, changes of default and rechecks: safety, every check ends, refinement of the abstraction |
| `dhcp` | 224 thousand | two configurations of a device and three dhcpcd processes that report late, die, or survive a signal: no CHECK fails, no client is left behind, no late report sets up a device again, an acquisition ends |
| `link_monitor` | 101 thousand | the two monitors take turns while leases, services, suspends, failing sockets and a gateway that falls silent or moves interfere; silence is reported |
| `wifi_link` | 515 thousand | two services, one of them hidden, and three access points; wpa_supplicant roams, refuses requests and its interface, vanishes and reports late; leases come for services that are gone, and start the link monitor; shill ends in the two known ways only |
| `wifi_lease` | violated | a lease of the service that was just replaced connects a service without a device (finding) |
| `netlink` | 30 thousand | three requests against a kernel that answers in parts, late, busy, twice or never, and a socket that refuses |
| `openvpn` | 223 thousand | a client that holds, reconnects, is refused, dies or survives SIGTERM, while the driver connects, times out and cleans up |
| `profiles` | 148 thousand | three profiles, services that are asked for by name, configured, moved, removed, connected; logins, logouts, corrupt files and two exits of shill |

**Properties made of parts.** Where several invariants say one thing together they
are named in the module one by one and checked as their conjunction, with the
type invariant of the module:

| Property | Parts |
|---|---|
| `RunEndsOnce` | `TimeoutHasCallback`, `StopsAtMostOnce` |
| `ReadinessIsTrue` | `ReadinessIsForThisAttempt`, `ReadinessWaitsForDevices` |
| `SleepsAsPlanned` | `NeverSleepsDeaf`, `WhitelistIsTrimmed` |
| `DefaultIsSettled` | `OneDefault`, `DefaultIsBest`, `PublishedIsTrue` |
| `VpnFollowsCarrier` | `CarrierOutlivesVpn`, `VpnCarriesTraffic` |
| `DetectorIsSound` | `TrialHasRequest`, `DetectorIsAlive` |
| `FallbackIsSound` | `TestHasConnection`, `FallbackIsTemporary` |
| `TimersAreSound` | `ChecksHold`, `LeaseIsTimed` |
| `OneMonitorRuns` | `MonitorsAlternate`, `MonitorIsAlive` |
| `DeviceIsSound` | `ChecksHold` |
| `PendingIsBounded` | `PendingIsTimed`, `ScanFollowsPending` |
| `DumpsTakeTurns` | `DumpIsTimed`, `PendingDumpIsFirst` |
| `DriverIsSound` | `ChecksHold`, `PartsGoTogether` |
| `EntriesMatchServices` | `RememberedIsStored`, `NothingIsLost` |
| `LogoutForgets` | `PoppedIsForgotten`, `LoggedOutIsUntouched`, `HiddenIsAskedFor` |

`ChecksHold` stands for the CHECKs of a class: an action whose CHECK would fail
sets a flag instead of stopping, and the flag must stay down. In `WiFiLink` it ends
shill: no CHECK of the handlers of `wifi.cc` may, and the two ends the code has are
confined to where they come from (section 5).

**Bounds.** `MaxFlaps`, `MaxIncidents`, `MaxAnnouncements`, `MaxCycles`, `MaxHastyCycles`,
`MaxFaults`, `MaxEvents`, `MaxHastyEvents`, `MaxRequests`, `MaxConfigs`, `MaxSignals`,
`MaxMessages`, `MaxExits` and `MaxCorruptions` bound what the environment does, and
`Pids` and `Tunnels` how many clients and interfaces there are; `MaxDarkResumes`,
`MaxSetRetries`, `MaxScanRetries`, `MaxSsids`, `kMaxRequestAttempts`,
`kMaxFailuresInContentPhase`, `MaxCooldown`, `FailureThreshold`,
`UnicastThreshold`, `MinRequests`, `MonitorCycles` and `kMaxNlMessageRetries` are
the code's own limits made small. Two modems suffice for an entry that is replaced
while another one completes; two announcements for an attempt and the one that
overtakes it; three cycles for what a first suspend leaves behind to meet a dark
resume and a third one (two when powerd is hasty, and then no change of settings: the
overlaps of announcements are the point there); four events for a lease, a
change of default or family, and two interruptions of the check and test they
cause; three attempts and two content failures let either limit be reached first.
Two DHCP configurations let one be replaced while reports of its client are still
posted, and three processes let one outlive its configuration while the next is
restarted. Three missed probes and two for unicast let the monitor fall back to
broadcast before it fails, and seven events suspend it, move the gateway and
change the service in one behaviour. Three netlink requests are a dump under way,
one queued, and one that comes when the first ends. Two openvpn clients are the
old and the new one. Two exits of shill are one, and one more while it restores
what the first left. `Connectivity` and `WiFiLink` need no bound on events: their
state space is finite. In `Connectivity`, `Unreliable`, `Handled` and
`Administered` say which services fail, are connected by hand or are disabled in
the instance, so that one Ethernet device meets a failing DHCP client and portals
while the other is handled by the user; two wired services and a VPN are the
least that let the default move, the VPN change its carrier, and lose it. In
`WiFiLink` two services are the least that let one be current and another pending,
and three access points let one of them roam. In `MCProfiles` the constraint
`OneService` follows one service at a time, of either kind: services share only
the stack, and none changes it. The users are symmetric; `profiles` checks no
liveness.

**Deadlock** is checked in `connectivity`, `wifi_link` and `profiles`, which never
end. The other runs say `CHECK_DEADLOCK FALSE`: they stop when their bound is used
up or the daemon has exited, and an idle connection legitimately waits for ever.

**Fairness.** Weak fairness is assumed of tasks posted to the event loop, with or
without a delay, since the loop runs each of them unless it is cancelled:
`TerminationTimeout`, `StopAndReturnToMain`, `AggregatorTimesOut`,
`RunPostedActions`, `DarkResumeTimeout`, `TimeoutTrialTask`, `StartTrialTask`,
`StartAttemptTask`; `SendRequest`, `CycleTimeoutHandler` and `MonitorCompleted` of
the link monitor; `ConfigureStaticIPTask`, `EventSignal` (a signal that has
arrived is dispatched) and `ProcessAcquisitionTimeout` of DHCP;
`OnPendingDumpTimeout` and `ResendPendingDumpMessage` of netlink;
`OnConnectTimeout` and `TerminationTimeout` of OpenVPN. Of the world outside only
this is assumed: netlink requests of `WakeOnWiFi` are answered
(`RequestWakeOnPacketSettings`, `VerifyWakeOnWiFiSettings`,
`OnWakeOnWiFiSettingsErrorResponse`) or, within `MaxFaults`, fail: the request to
verify the settings is the one whose failure or loss is only logged, and then `lost`
is set. `DNSClientCallback` comes in `portal` (the
DNS client has a timeout of its own), and in `openvpn` a process that was sent
SIGKILL exits and an exit is reaped. No modem, server, powerd, wpa_supplicant,
dhcpcd or user is assumed to do anything.

## 4. Proofs

`PowerDownProofs` is about what shill does before the machine sleeps and when it wakes
up.

For `WakeOnWiFi` it proves `ReadyAfterActions`, `SleepsAsPlanned` and
`AwakeIsDisarmed` for any limits and any number of announcements, events and netlink
errors. Each is about the end of a sequence of posted tasks and requests, so the
invariant is about what is still under way. It has five parts that hold with any
powerd:

* `Typed`, and `Trimmed`: the whitelist is only ever shortened.
* `Timely`: before the actions of an announcement are taken, only answers about an
  earlier one arrive, and then the kernel already owed one when it was announced. This
  is `ReadyAfterActions`: the report is early only if `stale`.
* `Disarmable`: what is armed was armed through a wiphy index, so that a resume can
  disarm it; and `Disarmed`, which is `AwakeIsDisarmed`: a resume stops the timers and
  clears the NIC unless no feature is enabled or the request fails, which is
  `left = "nic"`, and what arms it while the system is up is an action taken late,
  which is `left = "actions"`.

`NeverSleepsDeaf` alone needs a powerd that waits for the device (`patient`), and four
more facts, together `Orderly`:

* `Quiet`: nothing is under way while the system sleeps, at most one action is posted,
  and a dark resume whose actions are due has not taken any. An announcement thus
  finds the device idle, and what it posts is its own.
* `Asked`: nothing is sent before the actions are taken, and a reply on its way is
  about what was sent last, with no action due.
* `Listed` and `Heeds`: a list that trimming has emptied has started the timer; a
  device that has SSIDs to wait for has a trigger or the timer, and when it has
  reported success the NIC was told, and has confirmed, what it is to wake for.

`ActsKeeps` covers the four callers of `BeforeSuspendActions` at once, `AnswerKeeps`
the answers of the kernel, and one lemma each the other actions. One theorem has a
hypothesis on the configuration, and the code is why: `SleepsAsPlanned` needs
`ForceWakeToScan = FALSE`, because a device that is forced to arm the timer fills the
list with `wake_on_wifi_max_ssids_` (`wake_on_wifi.cc:1458`), which may be longer; the
part of it that says the device can wake, `NeverSleepsDeaf`, is proved without it
(`NeverDeaf`). The run gives the constant this value. The assumption is
`WakeAssumption`.

For `SuspendReadiness` it proves `ReadinessIsTrue` for any devices of each kind and any
number of announcements and events. That a report is right when it is sent says nothing
of the steps before it, so the invariant is about the aggregators that have not reported
yet:

* `AllAttended`: while powerd waits, an aggregator still at work is that of the last
  announcement of its kind, and every device that owes it a report and still exists
  either holds a reference to it (the stored callback of a WiFi device, the operation
  in flight of a modem) or has dropped it. When the last reference goes, only devices
  that dropped theirs are unheard. The first half is why a later announcement may
  replace the callback a WiFi device has stored: a powerd that waits announces
  nothing before the aggregators are done (`Waited`).
* `OnceOnly`: an aggregator that exists and has not timed out has not fired, so that
  neither the last reference nor the timer can report a second time. It holds with an
  impatient powerd too.
* `TrueReports`: what has been sent stays true.

`Settled` proves once what the end of every step makes of the aggregators whose
references are gone; one lemma per action then says who still holds what. The
assumption is `SuspendAssumption` (the three kinds of device are disjoint, the bounds
are naturals).

`PortalProofs` proves, for any lists of servers, any limits of attempts and
failures and any number of events, that `PortalCheck` keeps `DetectorIsSound` and
`FallbackIsSound`, and that it implements `PortalAbstraction`
(`Spec => Abstract!Spec`, with the detector mapped to none, trying or waiting).
The inductive invariant says that the world is *good*:

* `Consistent`: state, connection family, default flag, detector and tester agree
  (an idle service has none of them), which gives `TestHasConnection`;
* `Undoable`: the fallback servers are in the resolver or in the configuration
  only while the configured ones are tested; these were saved from a lease if the last
  lease brought any, and are never the fallback ones themselves. This gives
  `FallbackIsTemporary`; it needs the last part, or the switch back could restore the
  fallback servers;
* `Checking`: there is no detector, or a `Working` one, with its request, a trial
  posted or under way but not both, and the long delay only before the first
  attempt, which gives `TrialHasRequest` and `DetectorIsAlive`, and the abstract
  step of each trial.

One lemma per operator says what it makes of a good world and which abstract step
that is; `StepSimulated` turns a good world reached by `Becomes` into `Inv'` and
an abstract step, and three lemmas go through the actions. The assumptions are
`AttemptsAssumption` (more than one attempt per check, at least one failure: a
single attempt would let the first, delayed trial end the check without the
abstract "trying" in between) and `ServersAssumption` (the lists of leases are none
of the special ones, and the fallback list is neither empty nor the IPv6 one).

`TimeoutProofs` is about three components that share no state and wait for an answer
no longer than a timeout. Since a module may extend all three only when their names
differ, `Termination` and `NetlinkManager` call their specifications `QuitSpec` and
`NetlinkSpec`, as `SuspendReadiness` calls its own `SuspendSpec`.

For `LinkMonitor` it proves `OneMonitorRuns`, `UnreliableIsSelected` and
`GatewayIsAnnounced` for any services, addresses and thresholds
(`MonitorAssumption`: the thresholds are at least one). The invariant adds two
facts to them: `CountsAreBounded` (the passive monitor listens only for requests
it still needs, and its timer runs only while cycles are left), without which the
counts leave their type, and `MonitorHasService` (the monitor goes before the
service does), without which the answer of a gateway could be announced to no
service. The parts need each other: `GatewayIsAnnounced` needs `MonitorHasService`
when the gateway answers, which needs `MonitorIsAlive`, since only a monitor that
exists listens. One lemma per operation on a monitor says what it returns, and one
per action that it keeps `Inv`.

For `NetlinkManager` it proves `DumpsTakeTurns` and `AnsweredOnce` for any number
of requests, retries and refusals of the socket. The invariant has two halves.
`Core` is about the requests: they are numbered in the order they were made, the
queue holds dumps in that order, and each request that has no end yet still has a
handler or a place in the queue, so that its client will be told, and is told
once. `Turns` is about the queue: the dump at its head has been sent and, while
`pending` is set, exactly one of the two delayed tasks is posted for it; those
behind it have not been sent, as long as the first sending of no dump has failed
(`torn`). `AnsweredOnce` needs `Turns`:
without it a late end of a dump could be taken for the end of the next one. The
assumption is `NetlinkAssumption` (the retry limit and the bounds are naturals).

For `Termination` it proves `RunEndsOnce` and `SuccessIsEarned` for any set of modems
and any bound on events. Neither is inductive: the timeout is safe because the callback
and the timer come and go together, and one stop is posted because a run has one result.
The strengthening `QuitPhase` says so for each phase of the daemon (running: nothing
begun; quitting: either callback and timer and no result, or one result and one posted
stop; exited: nothing left). `AwaitedOrReplaced` relates the table to the modems: one
that the run still owes a stop has a started entry, which keeps the run from ending, or
had its entry replaced. `QuitInv == QuitTypeOK /\ QuitPhase /\ AwaitedOrReplaced` is
preserved by each of the nine actions. What the table operators return is stated in
lemmas of their own.

`OpenVPNProofs` proves `DriverIsSound`, `AttemptIsTimed` and `HoldIsJustified` for
any number of clients, tunnels, messages and events. `Sound` is what every method of
the driver keeps: device, management server and registration for default services
are there exactly as long as the client is, and the timeout exactly while the
service is between idle and connected. `Held` relates the client to the server (a
client that is held has said so in a message that will be read, or the server knows
that it waits), and `Heard` the server to the last sort of the services; together
they say that no release is lost. A report of the client is a list of messages, and
the proof goes through them by induction. The assumption is `OpenVPNAssumption`
(`NoPid` and `NoTunnel` are neither a client nor a tunnel).

`WiFiLinkProofs` proves `DeviceIsSound`, `PendingIsBounded`, `ConnectedIsSelected` and
`StoppedIsClean` for any services and any access points. `Ok` is what every method
keeps: besides the properties, that a reconnect timer has a current service and a
pending timer a pending one, which is what the CHECKs of the two handlers ask, and that
the endpoints are finitely many. The invariant, `Inv`, is that the device is good
(`Running`), or that it was when shill ended in one of the two ways `ChecksHold` admits
(`Over`): by the gateway report of a stray monitor, or for want of an interface that the
device, present and enabled, was refused. Most methods only give things up (`Less`), and
a device that only gives up stays good (`LessIsGood`): that covers the disconnections,
the timeouts, the failures and the scans. The others (a roam, a connection request, a
lease) need an interface of wpa_supplicant, so that `StoppedIsClean` asks nothing of
them; a connection request without one ends shill. The handler of the pending timeout
breaks "pending is timed" in its middle and mends it before it returns
(`PendingTimesOut`): the CHECK between its two disconnections holds because only a
service without endpoints survives the first one. `Stop` loses the endpoints one by one,
each removal with all it disconnects: `EndpointsAreLost` is an induction over how many
have gone. The assumption is `WiFiAssumption`.

`ProfilesProofs` proves `EntriesMatchServices`, `LoginSurvives`, `ForgottenIsGone` and
`LogoutForgets` for any services, profiles, configurations, exits and corrupt files.
Services share nothing but the stack, so the invariant has a part about each service and
a part about the lists. `Sane(s, v, L, hid)`, with `L` the loaded profiles and `hid`
whether the service may be a hidden one that nobody remembers, is `EntriesMatchServices`
for one service, plus what makes it inductive: no null profile has been followed, and a
service the manager does not know has no profile and is not connected. `NoneTwice` (no
profile is on the stack twice, or waits to be restored while it is) is what lets a
corrupt file be dropped during a restoration: erasing its entries touches no service;
`Listed` says that the file holds the users of the stack and that the stack and what
waits make the session. The proof goes bottom up: one lemma per operator says what it
returns (`Saved`, `Matched`, `Registered`, `GivesUp`: which entries it wrote, and what
the service then has in memory), one per action of a service that its result `Follows`
(in order, unless shill ends, and written to loaded profiles only; and hidden only if it
was, or by `RequestService`), and `BecomesKeepsInv` turns that into the invariant, into
`LoggedOutIsUntouched` and into `HiddenIsAskedFor`. The last disjunct of `Becomes`, a
null profile, is proved harmless: shill has gone, and what it stored remains. What
`Filtered` keeps (`FilteredAppend`, `FilteredWithout`) is an induction over positions.
The assumption is `ProfilesAssumption` (the kinds of profiles are disjoint, and the
special values are none of the ordinary ones).

`DhcpClientProofs` proves `TimersAreSound`, `NoClientIsLeftBehind` and
`ConnectionIsCurrent` for any process ids and any number of acquisitions, reports,
requests and faults. `Inv` says that the world is *good*, *timed* and within its
bounds:

* `Good`: the table of the provider, the process manager and the configurations agree
  on who has a client (`ClientsAreBound`, `ClientsAreWatched`), only the current
  configuration has one, and no timer is armed without one. The last part is what
  makes the timer callbacks safe: they do not ask which configuration they belong to,
  and need not, because only the current one can have a timer.
* `Timed`: what a connection in use needs of its configuration, above all that the
  gateway is not still being verified by ARP while a "lease" connection is in use:
  its acquisition timeout would then be overruled. A method may break it in its
  middle; a task that ends has mended it (`Ends`).

One lemma per operator says which of a few relations holds between the world before
and after it (`Stops`, `Starts`, `Renews`, `Releases`, `Destroys`, `Dropped`, `SetsUp`,
`Updates`, `Edits`), one lemma per relation that it keeps `Good`, one per action that
the task ends well, and `BecomesEnds` turns that into `Inv'`. The assumption is
`DhcpAssumption` (configurations are numbered from one, process ids are positive);
a new client has the least fresh id, which exists by `LeastNumber`.

`ConnectivityProofs` proves `DefaultIsSettled`, `VpnFollowsCarrier`,
`AutoConnectIsAwaited` and `PortalIsRechecked` for any services, devices, ranks and
bounds. Each says what holds when no sort is posted, so the invariant has two halves:

* `Good`, which every task leaves true. `Attuned` is about a service and its device:
  the service has the connection exactly while it is connected, and is then the
  selected one; a device with the default connection belongs to a connected service;
  behind a portal it has a detector. `Agrees` adds that only the head of the list has
  the default connection, `Carried` that the VPN is bound to a connection that exists,
  `Unowned` that a device of no service never carries traffic, `Enlisted` that the
  list has the services of the enabled devices. All but `Enlisted` form `Sound`, which
  also holds in the middle of a task, where a service may be on its way in or out.
* `Settled`, what the last sort did, as long as no other is posted: a connected service
  is at the head, which has the default connection and whose state is published; a
  connected VPN is the head when it ranks first; and nothing in the list could be
  connected automatically.

The tasks are compositions of operators on the world, so the proof has one lemma per
operator and few relations between the worlds before and after one. `Moved` is any part
of a task: a state that changed without a sort being posted would break it. `Inside` is
a change of what one service remembers, `Near` a step at a service and its device, and
`Loose` a world that is sound but for what these two make of each other. `Kept` says
that nobody gains a connection or loses the default one while a sort tries the services
of its list, `Follows` that a task that takes the default connection away has posted a
sort. The loops over the list (`ConnectToBestServices`, the auto-connect of
`SortServicesTask`) are recursive functions over positions, and what they keep is an
induction. Since `Service::Compare` is not a strict weak order, the proof uses only what
it says of a connected service and one that is not (`ConnectedPrecedes`) and of the VPN
and the others (`VpnPrecedes`): with either, neighbours in the right order are enough to
know the head.

The assumption is `WiredAssumption` (each service has a device of its own, there are
finitely many services). `VpnFollows` has the hypothesis `VpnRanksFirst`, that nothing
ranks before the VPN: the technology order begins with it (`shill_main.cc:118`), unless
a switch or a client changes the order or the priorities, and then a connected service
that ranks before the VPN rightly is the default one. The run checks the hypothesis on
its instance (`RankAssumption`).

**Induction over data.** The library's induction rules take the induction hypothesis
as an operator, which no installed prover instantiates. `OpenVPNProofs`,
`WiFiLinkProofs`, `ProfilesProofs` and `ConnectivityProofs` therefore state them about
*sets* of numbers: a non-empty set of naturals has a least member (`LeastNumber`, from the library's
`NatLessThanWellFounded` and `WFMin`), hence a set that has 0 and is closed under
successor has every natural (`SetInduction`). With it each first shows that the
recursive function it is about exists (`ProcessingExists`,
`LosingExists`, `FilteringExists`, `AttemptsExist`, `TrialsExist`), and then what its
values are. The definitions are recursive functions, and not folds of the
community modules, for that reason.

**Only model-checked:** liveness (`QuitLeadsToExit`, `ReadinessIsReported`,
`CallbackIsRun`, `CheckEnds`, `AcquisitionEnds`, `SilenceIsReported`, `ClientsEnd`,
`QueueMoves`), which rests on fairness and is out of the prover's reach. Every safety
property of the passing runs is a theorem.

## 5. Where the code departs from what it says

`wifi_lease` is a finding in `PROJECT.json`: a lease marks the *selected* service
connected, whichever service it was asked for. The following were met while
modelling. The properties are stated so that these behaviours are in the model
and the promise names them as exceptions (`~hurried`, `replaced`, `stale`, `lost`,
`left`, `~torn`, `~astray`, `excused`, `ended`; `patient` in `NeverSleepsDeaf` only),
each said in the comment of the property.

*Shutdown and suspend*

* `hook_table.cc:48`: `Add` replaces an entry of the same name. A modem that is
  enabled again while the table runs gets an entry that was never started, and
  counts as complete, so that a run may report success while the modem is still
  being stopped for it (`hook_table.h:75`, "If all actions complete successfully").
  `SuccessIsEarned` admits these modems (`replaced`) and no others.
* `power_manager.cc:94` asks only whether *some* attempt is under way: the aggregator
  of an aborted attempt reports readiness under the id of the next one, whose
  devices have not finished (`device.h:274`).
* `device.cc:1844`: a modem whose disabling is refused or already done drops its
  callback, and the aggregator reports although it never ran, which
  `result_aggregator.h:76` describes as incorrect behaviour.
* `power_manager.cc:104` reports dark readiness without testing whether a dark
  resume is under way, unlike `power_manager.h:83` and `:88` suggest.
* A lone disabled modem leaves an attempt unanswered until the timeout, or for
  good when its callback is dropped with the aggregator (`power_manager.h:40`,
  `device.h:277`).

*Wake on WiFi*

* `wake_on_wifi.cc:1271`: `OnAfterResume` cancels neither the posted actions nor the
  dark resume timeout, which arm the NIC and the timers again when powerd did not wait
  (`wake_on_wifi.h:162`; `left = "actions"` in `AwakeIsDisarmed`).
* `wake_on_wifi.cc:1276`: the resume disarms the NIC only if a feature is enabled, so
  that features switched off between suspend and resume leave it armed
  (`wake_on_wifi.h:167`); so does a request that fails (`left = "nic"`).
* `wake_on_wifi.cc:931`: the reply to the verification of one announcement can
  complete the next one early (`wake_on_wifi.h:130`; `stale` in `ReadyAfterActions`).
* `wake_on_wifi.cc:924-928`: the result of sending `NL80211_CMD_GET_WOWLAN` is ignored
  and its error handler, `NetlinkManager::OnNetlinkMessageError`, only logs
  (`net/netlink_manager.cc:263-298`). If the request is refused, not sent or lost, the
  stored callback is never run (`device.h:295`), and the suspend waits for the
  timeout of the attempt (`lost` in `CallbackIsRun`).
* `wake_on_wifi.cc:1458` pads the whitelist with empty entries when the timer is
  forced; the comment on the line before speaks of trimming.
* `wake_on_wifi.cc:999`: the CHECK on the wiphy index can fail when dark resumes
  are throttled before the index arrived; `:955` returns without running the
  callback (`device.h:295`; `lost` too).

*Devices, services and portal checks*

* `device.cc:1522`: the switch back to the configured DNS servers installs those that
  were saved when the test began, over those of a lease renewed since.
* `device.cc:1499`, `:1706`: an IPv4 fallback test that ends on an IPv6
  connection installs IPv4 servers and then tests an empty list for ever, so that
  they stay; so they do after a lease without servers. `FallbackIsTemporary` promises a
  test that can succeed only when the last lease brought servers and the connection is
  set up from it.
* `device.cc:1071`: `OnIPConfigRefreshed` uses `selected_service_` untested.
* `service.cc:1115`: the comment says that auto-connect is ignored if *both*
  services are connected; the condition tests the first one only.
* `Service::Compare` is not a strict weak order: `failed_time_` counts only
  between services of different states, and a dependency can contradict the
  priorities below it, so that three services can form a cycle. `Sortings`
  therefore allows every order in which no service belongs before its neighbour,
  which is all that the insertion sort of short lists guarantees.
* `SetPriority`, `SetStrength` and a change of `NoAutoConnectTechnologies` do not
  post a sort.

*WiFi and link monitoring*

* `wifi/wifi.cc:293`: `Stop` drops `pending_service_` without resetting its state, so
  that the service still counts as connecting and is not connectable, which
  `wifi/wifi.cc:2174` takes care of after a timeout.
* `wifi/wifi.cc:1757`: `OnLinkMonitorFailure` follows `current_service_`, which a
  disconnection may have cleared while the device is still selected.
* `device.cc:1457`: `OnLinkMonitorGatewayChange` CHECKs `selected_service_`, but
  dhcpcd can run for a device that has none (a roam disconnects the pending service and
  the lease is still asked for), and its lease starts the monitor (`device.cc:934`):
  the report of the gateway then ends shill. In `WiFiLink` this is `ended = "gateway"`,
  and `ChecksHold` says that only such a monitor does it. `LinkMonitor` sets up
  connections of selected services only.
* `wifi/wifi.cc:2309`: when `CreateInterface` and `GetInterface` both fail, the device
  stays enabled without a proxy of wpa_supplicant, and nothing tries again. A hidden
  service can then be asked to connect, through a null proxy (`wifi/wifi.cc:499`):
  `ended = "proxy"`.
* The scan state may stay "scanning" when a roam nobody asked for meets a scan,
  until the next scan is done.
* `device.cc:1116` speaks of 5 minutes without failure; the delay is an hour.
* A monitor that cannot be started again after a resume stays silent:
  `LinkMonitor::OnAfterResume` ignores the failure, and the time at which
  monitoring began is cleared.

*Processes, DHCP and OpenVPN*

* A process that outlives the SIGKILL timeout and exits later reaches the
  NOTREACHED of `ProcessManager::OnProcessExited`.
* `vpn/openvpn_driver.h:248` says that `OnOpenVPNExited` deletes the tunnel interface
  when the client exits during a cleanup. `Cleanup` installs it with
  `UpdateExitCallback` and then calls `StopProcess`, which erases the watched entry
  (`process_manager.cc:195`): the exit is reaped silently and the interface stays.
  The unit tests mock the process manager.

*netlink*

* `net/netlink_manager.h:431` says that the first message of the queue is the one
  under way. A dump the socket refuses stays at the head, the next one is sent from
  behind it, and may be sent and answered twice.
* A send that fails in `OnPendingDumpComplete` leaves the queue unserved until the
  next request.
* Requests other than dumps time out only when another one is sent.
* The only dump defined in shill is `GetSurveyMessage`, and nothing sends it; a
  handler may re-enter `SendOrPostMessage`.

*Profiles*

* `manager.cc:826`: `Remove` of a connected WiFi service in range saves it again, since
  the disconnection it asked for is still under way
  (`doc/service-api.txt:109`, "Disconnect and remove the configuration"). So does any
  change of state or new endpoint of a service that is still connected after its
  profile was popped or its entry deleted. `ForgottenIsGone` is about services that
  are not connected.
* `service.cc:573`: `Unload` leaves the static IP and DHCP properties in memory
  (`service.h:285`, "It should purge any stored profile state").
* A service that is unloaded while the user's disconnection is pending is saved, its
  passphrase included, into the new top profile by `ClearExplicitlyDisconnected`.
* An exit between two pushes of `InitializeProfiles` loses the user profiles not yet
  restored: each push rewrites the list with those that are loaded.
* A connected service that was disconnected by the user and is then removed while
  another profile holds an entry follows a null profile, which ends shill.
* An Ethernet service whose profile is popped is saved into the default profile
  (`default_profile.cc:172`).
* `manager.cc:2261`: `GetService` for an unknown hidden SSID registers a WiFi service
  that no profile remembers and no endpoint shows, and it may stay
  (`wifi/wifi_service.cc:199`). `HiddenIsAskedFor` says that such a service comes from
  this call alone.
* `ConfigureService` without a profile loads the entry of the active profile into a
  service of a lower one, whose own entry then differs from what is in memory.

## 6. What is not modelled

Names, addresses, lengths of delays beyond their order, the contents of netlink, DHCP
and HTTP messages, logging, metrics and RPC. In `Connectivity` the settings behind
`Rank` do not change, the VPN is an L2TP/IPsec one, and WiFi and cellular devices are
absent. In `WakeOnWiFi` the packet patterns are one flag. In `PortalCheck` static IP
parameters and the diagnosis started by a failed check are left out. `DhcpClient` leaves
out DHCPv6, the options of a lease and the web proxy; `LinkMonitor` the response times,
the ARP packets and `TrafficMonitor`. `WiFiLink` leaves out credentials and their
failures, progressive scans (only a test turns them on), the pre-emption of a connection
by a better one, clients that set the roam threshold or ask to roam and the flush of
wpa_supplicant's list of access points, which use its proxy too (`wifi/wifi.cc:768`,
`:2963`; the CHECKs of `:1415` and `:1950`). In `OpenVPN` the client reports only that
it is up, a message of the management channel arrives whole, and options are not built.
`NetlinkManager` leaves out `GetFamily`, which waits synchronously at start, and
broadcasts; `net/rtnl_handler.cc` is not modelled. `Profiles` leaves out the entries of
devices and of the manager, saves that fail, `StubStorage`, and services other than WiFi
and Ethernet. Cellular devices appear only as far as termination and suspend see them.
WiMAX and third-party VPNs are not modelled. The parts with status `not_modelled` in
`PROJECT.json` say why.

## 7. Plan

1. **Routing table** and **discovery**: route queries whose owner is gone, links
   that vanish before they are identified.
2. **Cellular**: registration, connect and the activation that is pending over a
   restart.
3. **Composition** of `WiFiLink` with `Connections`: two networks on one device may
   leave the default flag of the old connection set.
