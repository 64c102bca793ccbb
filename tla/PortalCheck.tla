---------------------------- MODULE PortalCheck -----------------------------
(***************************************************************************)
(* A device that checks its connection for a captive portal and, when DNS  *)
(* seems to be at fault, tries fallback DNS servers (device.cc), with the  *)
(* PortalDetector and the DNSServerTester (dns_server_tester.cc) it owns.  *)
(*                                                                         *)
(* Handlers run on one event loop; a handler is a composition of operators *)
(* on the world w, in the order of the code's calls.  The device has its   *)
(* service selected exactly while the service is not idle.                 *)
(***************************************************************************)
EXTENDS PortalDetector

CONSTANTS
  Leases,       \* DNS server lists a DHCP lease may bring, when it brings any
  Fallback,     \* kFallbackDnsServers
  V6Servers,    \* the servers of the IPv6 configuration
  NoServers,    \* an empty list
  PortalRetry,  \* the portal check interval is not zero
  MaxEvents     \* bound: number of things users, DHCP and others do

ASSUME ServersAssumption ==
  /\ {Fallback, V6Servers, NoServers} \intersect Leases = {}
  /\ Fallback \notin {V6Servers, NoServers}
  /\ PortalRetry \in BOOLEAN /\ MaxEvents \in Nat

VARIABLES
  state,     \* of the selected service
  default,   \* connection_->is_default()
  family,    \* what connection_ was set up from: "none", "v4" or "v6"
  lease,     \* ipconfig_->properties().dns_servers
  dns,       \* the servers connection_ gives to the resolver
  saved,     \* config_dns_servers_
  tester,    \* dns_server_tester_: whose servers it tests, and how far it is
  det,       \* portal_detector_
  url,       \* the portal check URL parses
  leased,    \* history: the servers of its last configuration
  events     \* what is left of the bound

vars == <<state, default, family, lease, dns, saved, tester, det, url, leased,
          events>>

World == [state |-> state, default |-> default, family |-> family,
          lease |-> lease, dns |-> dns, saved |-> saved, tester |-> tester,
          det |-> det, url |-> url, leased |-> leased]

Becomes(w) ==
  /\ state' = w.state /\ default' = w.default /\ family' = w.family
  /\ lease' = w.lease /\ dns' = w.dns /\ saved' = w.saved
  /\ tester' = w.tester /\ det' = w.det /\ url' = w.url
  /\ leased' = w.leased

Servers == Leases \union {Fallback, V6Servers, NoServers}
NoTester == [of |-> "none", phase |-> "idle"]

TypeOK ==
  /\ state \in {"idle", "connected", "portal", "online"}
  /\ default \in BOOLEAN
  /\ family \in {"none", "v4", "v6"}
  /\ {lease, dns, saved, leased} \subseteq Servers
  /\ tester \in [of : {"none", "fallback", "config"},
                 phase : {"idle", "posted", "asking"}]
  /\ det \in Detectors
  /\ url \in BOOLEAN
  /\ events \in 0 .. MaxEvents

Init ==
  /\ state = "idle" /\ default = FALSE /\ family = "none"
  /\ lease = NoServers /\ dns = NoServers /\ saved = NoServers
  /\ leased = NoServers
  /\ tester = NoTester /\ det = NoDetector
  /\ url = TRUE
  /\ events = MaxEvents

(***************************************************************************)
(* Device: portal detection.                                               *)
(***************************************************************************)
StopPortalDetection(w) == [w EXCEPT !.det = NoDetector]

RetryEvenIfNotDefault(w, s) ==
  IF s = "portal" /\ PortalRetry /\ w.url
  THEN [w EXCEPT !.det = StartAfterDelay(@, "later"), !.state = s]
  ELSE [w EXCEPT !.det = NoDetector, !.state = s]

SetServiceConnectedState(w, s) ==
  LET retry == s = "portal" /\ w.default /\ PortalRetry
  IN  IF w.state = "idle" THEN w
      ELSE IF ~retry THEN [w EXCEPT !.det = NoDetector, !.state = s]
      ELSE IF w.url THEN [w EXCEPT !.det = StartAfterDelay(@, "later"),
                                   !.state = s]
      ELSE [w EXCEPT !.det = NoDetector, !.state = "online"]

StartPortalDetection(w) ==
  IF w.url THEN [w EXCEPT !.det = StartAfterDelay(NewDetector, "now")]
  ELSE SetServiceConnectedState([w EXCEPT !.det = NewDetector], "online")

RequestPortalDetection(w) ==
  IF w.state = "portal" /\ w.family # "none" /\ w.default /\ ~IsInProgress(w.det)
  THEN StartPortalDetection(w) ELSE w

RestartPortalDetection(w) == StartPortalDetection(StopPortalDetection(w))

(***************************************************************************)
(* Device: the fallback DNS servers.                                       *)
(***************************************************************************)
StartDNSTest(w, of) ==
  IF w.tester.of # "none" THEN w
  ELSE [w EXCEPT !.tester = [of |-> of, phase |-> "posted"]]

StopDNSTest(w) == [w EXCEPT !.tester = NoTester]

SwitchDNSServers(w, servers) ==
  RestartPortalDetection([w EXCEPT !.lease = servers, !.dns = servers])

FallbackWithoutStop(w, success, allowed) ==
  IF ~(success /\ allowed) THEN StopDNSTest(w)
  ELSE StopDNSTest(StartDNSTest(
         SwitchDNSServers([w EXCEPT !.saved = w.lease], Fallback), "config"))

(* "allowed": the service lets its DNS fall back.                          *)
FallbackDNSResultCallback(w, success, allowed) ==
  LET v == StopDNSTest(w)
  IN  IF ~(success /\ allowed) THEN v
      ELSE StartDNSTest(
             SwitchDNSServers([v EXCEPT !.saved = v.lease], Fallback), "config")

ConfigDNSResultCallback(w) == SwitchDNSServers(StopDNSTest(w), w.saved)

PortalDetectorCallback(w, result, final) ==
  LET failed == SetServiceConnectedState(w, "portal")
  IN  IF ~final THEN w
      ELSE IF result = "success" THEN SetServiceConnectedState(w, "online")
      ELSE IF result = "dns" /\ w.family = "v4" THEN StartDNSTest(failed, "fallback")
      ELSE failed

(***************************************************************************)
(* Device: the connection.                                                 *)
(***************************************************************************)
\* A configuration without servers leaves the connection those it has
\* (connection.cc:271; an Android build takes Google's instead).
SetupConnection(w, fam, servers) ==
  StartPortalDetection(
    [w EXCEPT !.family = fam, !.dns = IF servers = NoServers THEN @ ELSE servers,
              !.leased = servers, !.state = "connected"])

StopAllActivities(w) == StopDNSTest(StopPortalDetection(w))

DropConnection(w) ==
  [StopAllActivities(w) EXCEPT !.family = "none", !.default = FALSE,
                               !.lease = NoServers, !.dns = NoServers,
                               !.leased = NoServers, !.state = "idle"]

(***************************************************************************)
(* What others do: DHCP, Manager, the user.                                *)
(***************************************************************************)
Event == events > 0 /\ events' = events - 1

(* A first lease, or a renewed one; it may bring no servers.               *)
OnIPConfigUpdated(servers) ==
  /\ Event
  /\ Becomes(SetupConnection([World EXCEPT !.lease = servers], "v4", servers))

(* DHCP fails while an IPv6 configuration is complete.                     *)
OnIPConfigFailed ==
  LET v == [World EXCEPT !.lease = NoServers]
  IN  /\ Event
      /\ family = "v4"
      /\ Becomes(SetupConnection(v, "v6", V6Servers))

Disconnected == Event /\ family # "none" /\ Becomes(DropConnection(World))

SetIsDefault(b) ==
  LET v == [World EXCEPT !.default = b]
  IN  /\ Event
      /\ family # "none" /\ b # default
      /\ Becomes(IF b THEN RequestPortalDetection(v) ELSE v)

RecheckPortal == Event /\ Becomes(RequestPortalDetection(World))

RecheckPortalOnService ==
  /\ Event
  /\ family # "none"
  /\ Becomes(RestartPortalDetection(World))

SetCheckPortalUrl(good) ==
  Event /\ url # good /\ Becomes([World EXCEPT !.url = good])

Environment ==
  \/ \E servers \in Leases \union {NoServers} : OnIPConfigUpdated(servers)
  \/ OnIPConfigFailed \/ Disconnected
  \/ \E b \in BOOLEAN : SetIsDefault(b) \/ SetCheckPortalUrl(b)
  \/ RecheckPortal \/ RecheckPortalOnService

(***************************************************************************)
(* The trial: its task, the answers of its request, its timeout.           *)
(***************************************************************************)
Completed(w, result) ==
  LET done == CompleteAttempt(w.det, result)
  IN  PortalDetectorCallback([w EXCEPT !.det = done.det], result, done.final)

(* The request is under way, or fails at once.                             *)
StartTrialTask ==
  /\ det.trial # "none"
  /\ LET w == [World EXCEPT !.det.trial = "none"]
     IN  \/ Becomes([w EXCEPT !.det.active = TRUE])
         \/ \E result \in {"dns", "other"} : Becomes(Completed(w, result))
  /\ UNCHANGED events

RequestCallback ==
  /\ det.active
  /\ \E result \in Results : Becomes(Completed(World, result))
  /\ UNCHANGED events

TimeoutRetries ==
  /\ det.active
  /\ Becomes([World EXCEPT !.det = Retry(@)])
  /\ UNCHANGED events

TimeoutTrialTask ==
  /\ det.active
  /\ Becomes(Completed(World, "other"))
  /\ UNCHANGED events

(***************************************************************************)
(* The DNS server test.  A failed test of the configured servers is tried  *)
(* again until it succeeds; an empty list cannot be tested.                *)
(***************************************************************************)
TestEnds(w, success, allowed) ==
  CASE w.tester.of = "fallback" ->
         FallbackDNSResultCallback(w, success, allowed)
    [] w.tester.of = "config" /\ success -> ConfigDNSResultCallback(w)
    [] OTHER -> [w EXCEPT !.tester.phase = "posted"]

StartAttemptTask ==
  /\ tester.phase = "posted"
  /\ \/ /\ tester.of = "config" => saved # NoServers
        /\ Becomes([World EXCEPT !.tester.phase = "asking"])
     \/ Becomes(TestEnds(World, FALSE, FALSE))
  /\ UNCHANGED events

DNSClientCallback ==
  /\ tester.phase = "asking"
  /\ \E success, allowed \in BOOLEAN : Becomes(TestEnds(World, success, allowed))
  /\ UNCHANGED events

Next ==
  \/ Environment
  \/ StartTrialTask \/ RequestCallback \/ TimeoutTrialTask
  \/ StartAttemptTask \/ DNSClientCallback

(* The event loop runs posted tasks and timers; the DNS client has a       *)
(* timeout of its own.  A server need never answer.                        *)
Fairness ==
  /\ WF_vars(StartTrialTask) /\ WF_vars(TimeoutTrialTask)
  /\ WF_vars(StartAttemptTask) /\ WF_vars(DNSClientCallback)

Spec == Init /\ [][Next]_vars /\ Fairness

(***************************************************************************)
(* Properties.                                                             *)
(***************************************************************************)

(* StartTrialTask uses request_ without a test, and ConnectivityTrial::Stop *)
(* does not cancel the task it posted: no detector is ever stopped but not  *)
(* destroyed while the task is posted.                                      *)
TrialHasRequest == det.trial # "none" => det.alive /\ det.request

(* A detector that exists is going to do something: a trial is posted or   *)
(* under way.  Otherwise IsInProgress could hold back every later check.   *)
DetectorIsAlive == det.alive => det.trial # "none" \/ det.active

(* The CHECKs of FallbackDNSResultCallback and SwitchDNSServers hold       *)
(* whenever a DNS test may call back: the service, the connection and the  *)
(* IP configuration are still there.                                       *)
TestHasConnection ==
  tester.of # "none" => state # "idle" /\ family # "none"

(* While the resolver uses the fallback servers, the device tests the      *)
(* servers it saved, so that it can switch back; and if the connection was *)
(* last set up with a lease that brought servers, the saved ones are of a  *)
(* lease too.  The list can be empty, and its test never succeeds, only    *)
(* after a lease without servers or after the connection went to IPv6      *)
(* while the fallback servers were being tested (device.cc:1499).          *)
FallbackIsTemporary ==
  dns = Fallback => /\ tester.of = "config"
                    /\ leased \in Leases => saved \in Leases

(* A check ends: with the timeout of each trial and the bounded number of  *)
(* attempts, a connection does not stay in the middle of one.              *)
Trying == det.alive /\ ~(det.attempts = 1 /\ det.trial = "later")
CheckEnds == Trying ~> ~Trying

(* The check does to the service what the rest of shill relies on.         *)
Abstract == INSTANCE PortalAbstraction WITH
  portal <- IF ~det.alive THEN "none" ELSE IF Trying THEN "trying" ELSE "waiting"
ImplementsAbstraction == Abstract!Spec

\* The detector works as long as it is there, over every stop, restart and
\* retry: it has a trial, the trial its request, and the counters their limits.
DetectorIsSound == TypeOK /\ TrialHasRequest /\ DetectorIsAlive

\* The DNS test and what it switches: its callbacks find what they CHECK for,
\* and the fallback servers are in use only while a test runs that can undo
\* them, unless the last configuration was IPv6 or a lease without servers.
FallbackIsSound == TestHasConnection /\ FallbackIsTemporary
=============================================================================
