---------------------------- MODULE LinkMonitor ----------------------------
(***************************************************************************)
(* The link monitor of a device (link_monitor.cc) and what the device      *)
(* makes of its results.  An active monitor probes the gateway with ARP    *)
(* requests until one is answered or too many are missed; after an answer  *)
(* a passive monitor counts the requests of other hosts until the link has *)
(* been quiet for a cycle, or for its last cycle, and the active one runs  *)
(* again.  Failures make the selected service unreliable.                  *)
(*                                                                         *)
(* An action is one task of the event loop or one call of the device.      *)
(* Timers may fire at any time, so that a late answer may be taken for the *)
(* answer to the next probe.  The gateway's unknown address is NoMac, be   *)
(* it empty or all zeroes.  Response times are left out.                   *)
(***************************************************************************)
EXTENDS Integers

CONSTANTS
    Services,
    NoService,
    Macs,                   \* MAC addresses the gateway answers from
    NoMac,
    FailureThreshold,       \* ActiveLinkMonitor::kFailureThreshold
    UnicastThreshold,       \* kUnicastReplyReliabilityThreshold
    MinRequests,            \* PassiveLinkMonitor::kMinArpRequestsPerCycle
    MonitorCycles,          \* PassiveLinkMonitor::kDefaultMonitorCycles
    MaxEvents               \* bound on the calls of the device and changes of the gateway

ASSUME MonitorAssumption ==
    /\ NoService \notin Services
    /\ NoMac \notin Macs
    /\ FailureThreshold \in Nat \ {0}
    /\ UnicastThreshold \in Nat \ {0}
    /\ MinRequests \in Nat \ {0}
    /\ MonitorCycles \in Nat \ {0}
    /\ MaxEvents \in Nat

VARIABLES
    exists,         \* Device::link_monitor_ is set
    gateway,        \* LinkMonitor::gateway_mac_address_
    active,         \* the ActiveLinkMonitor
    passive,        \* the PassiveLinkMonitor
    selected,       \* Device::selected_service_
    unreliable,     \* services whose link is unreliable
    reliableTask,   \* reliable_link_callback_ is posted
    lastFailed,     \* last_link_monitor_failed_time_: never, within the hour, or before
    identity,       \* the gateway that connection_id_ of each service stands for
    answering,      \* the gateway answers (ghost)
    quiet,          \* why the monitor does nothing: "failed", "unstarted" or "" (ghost)
    events          \* calls and changes so far (bound)

device == <<selected, unreliable, reliableTask, lastFailed, identity>>
vars == <<exists, gateway, active, passive, device, answering, quiet, events>>

ActiveMonitors ==
    [listening : BOOLEAN,   \* the ARP client and its ready handler exist
     task : BOOLEAN,        \* SendRequest is posted, at once or for the next probe
     sent : BOOLEAN,        \* sent_request_at_ is set
     mac : Macs \cup {NoMac},
     broadcast : 0..FailureThreshold - 1,   \* broadcast_failure_count_
     unicast : 0..FailureThreshold - 1,     \* unicast_failure_count_
     successes : 0..UnicastThreshold,       \* unicast_success_count_, capped
     isUnicast : BOOLEAN,
     supportsUnicast : BOOLEAN]

PassiveMonitors ==
    [listening : BOOLEAN,
     requests : 0..MinRequests,
     cycles : 0..MonitorCycles,
     timer : BOOLEAN,       \* CycleTimeoutHandler is posted
     completed : BOOLEAN]   \* MonitorCompleted is posted

TypeOK ==
    /\ exists \in BOOLEAN
    /\ gateway \in Macs \cup {NoMac}
    /\ active \in ActiveMonitors
    /\ passive \in PassiveMonitors
    /\ selected \in Services \cup {NoService}
    /\ unreliable \in SUBSET Services
    /\ reliableTask \in BOOLEAN
    /\ lastFailed \in {"never", "recently", "long ago"}
    /\ identity \in [Services -> Macs \cup {NoMac}]
    /\ answering \in BOOLEAN
    /\ quiet \in {"", "failed", "unstarted"}
    /\ events \in 0..MaxEvents

StoppedActive ==
    [listening |-> FALSE, task |-> FALSE, sent |-> FALSE, mac |-> NoMac,
     broadcast |-> 0, unicast |-> 0, successes |-> 0,
     isUnicast |-> FALSE, supportsUnicast |-> FALSE]

StoppedPassive ==
    [listening |-> FALSE, requests |-> 0, cycles |-> 0,
     timer |-> FALSE, completed |-> FALSE]

Init ==
    /\ exists = FALSE
    /\ gateway = NoMac
    /\ active = StoppedActive
    /\ passive = StoppedPassive
    /\ selected = NoService
    /\ unreliable = {}
    /\ reliableTask = FALSE
    /\ lastFailed = "never"
    /\ identity = [s \in Services |-> NoMac]
    /\ answering = TRUE
    /\ quiet = ""
    /\ events = 0

Event == events < MaxEvents /\ events' = events + 1
-----------------------------------------------------------------------------
(***************************************************************************)
(* The two monitors.                                                       *)
(***************************************************************************)
StopMonitorCycle(a) == [a EXCEPT !.listening = FALSE, !.task = FALSE, !.sent = FALSE]

\* ActiveLinkMonitor::Start; |ok| is false when the local MAC address or the
\* ARP socket cannot be had, which stops the monitor altogether.
StartActive(a, ok) ==
    IF ok THEN [StopMonitorCycle(a) EXCEPT !.listening = TRUE, !.task = TRUE]
    ELSE StoppedActive

StartPassive(ok) ==
    IF ok THEN [StoppedPassive EXCEPT !.listening = TRUE, !.timer = TRUE]
    ELSE StoppedPassive

Unstarted(ok) == IF ok THEN "" ELSE "unstarted"

\* AddMissedResponse, before the threshold is tested.
Missed(a) ==
    IF a.isUnicast
    THEN [broadcast |-> a.broadcast,
          unicast |-> IF a.supportsUnicast THEN a.unicast + 1 ELSE a.unicast]
    ELSE [broadcast |-> a.broadcast + 1, unicast |-> a.unicast]

ExceedsThreshold(a) ==
    a.sent /\ Missed(a).broadcast + Missed(a).unicast >= FailureThreshold

\* Mutant of CountMissed: the failures of before are not counted on.
CountMissedOnce(a) ==
    [a EXCEPT !.isUnicast = ~a.isUnicast]

\* AddMissedResponse below the threshold.
CountMissed(a) ==
    [a EXCEPT !.broadcast = Missed(a).broadcast,
              !.unicast = Missed(a).unicast,
              !.successes = IF a.isUnicast THEN 0 ELSE @,
              !.isUnicast = ~a.isUnicast]

\* An answer from |m|: counted for the kind of probe that was sent last.
CountAnswer(a, m) ==
    LET n == IF a.successes < UnicastThreshold THEN a.successes + 1 ELSE a.successes
    IN  [a EXCEPT
           !.unicast = IF a.isUnicast THEN 0 ELSE @,
           !.broadcast = IF a.isUnicast THEN @ ELSE 0,
           !.successes = IF a.isUnicast THEN n ELSE @,
           !.supportsUnicast = @ \/ (a.isUnicast /\ n = UnicastThreshold),
           !.mac = m,
           !.isUnicast = ~a.isUnicast]
-----------------------------------------------------------------------------
(***************************************************************************)
(* Device: what a failure and a new gateway do to the selected service.    *)
(***************************************************************************)
\* OnLinkMonitorFailure and OnUnreliableLink.
DeviceLinkMonitorFailure ==
    /\ lastFailed' = IF selected # NoService THEN "recently" ELSE lastFailed
    /\ IF selected # NoService /\ lastFailed = "recently"
       THEN /\ unreliable' = unreliable \cup {selected}
            /\ reliableTask' = FALSE
       ELSE UNCHANGED <<unreliable, reliableTask>>

\* OnActiveLinkMonitorFailure, after which the active monitor stops once more.
LinkFails ==
    /\ DeviceLinkMonitorFailure
    /\ gateway' = NoMac
    /\ active' = StoppedActive
    /\ passive' = StoppedPassive
    /\ quiet' = "failed"
    /\ UNCHANGED <<exists, selected, identity, answering, events>>

\* The probe that cannot be sent fails the link as well.
SendRequest(sent) ==
    /\ active.task
    /\ IF ExceedsThreshold(active) \/ ~sent THEN LinkFails
       ELSE LET a == IF active.sent THEN CountMissed(active) ELSE active
            IN  /\ active' = [a EXCEPT !.sent = TRUE,
                                       !.isUnicast = @ /\ a.mac # NoMac]
                /\ UNCHANGED <<exists, gateway, passive, device, answering, quiet, events>>

\* Mutant of OnActiveLinkMonitorSuccess: only the first address is announced.
SuccessOnce(m, ok) ==
    /\ gateway' = IF gateway = NoMac THEN m ELSE gateway
    /\ identity' = IF gateway = NoMac THEN [identity EXCEPT ![selected] = m] ELSE identity
    /\ passive' = StartPassive(ok)
    /\ quiet' = Unstarted(ok)

\* OnActiveLinkMonitorSuccess and Device::OnLinkMonitorGatewayChange.
OnActiveLinkMonitorSuccess(m, ok) ==
    /\ gateway' = m
    /\ identity' = IF m # gateway THEN [identity EXCEPT ![selected] = m] ELSE identity
    /\ passive' = StartPassive(ok)
    /\ quiet' = Unstarted(ok)

ReceiveResponse(m, ok) ==
    /\ active.listening /\ answering
    /\ active' = StopMonitorCycle(CountAnswer(active, m))
    /\ OnActiveLinkMonitorSuccess(m, ok)
    /\ UNCHANGED <<exists, selected, unreliable, reliableTask, lastFailed,
                   answering, events>>

ReceiveRequest ==
    /\ passive.listening
    /\ passive' = [passive EXCEPT !.requests = @ + 1,
                                  !.listening = passive.requests + 1 < MinRequests]
    /\ UNCHANGED <<exists, gateway, active, device, answering, quiet, events>>

\* |ok| is false when the ARP client cannot be started, which is not noticed:
\* the next cycle then hears nothing.
CycleTimeoutHandler(ok) ==
    /\ passive.timer
    /\ IF passive.requests < MinRequests
       THEN passive' = [passive EXCEPT !.timer = FALSE, !.completed = TRUE]
       ELSE LET p == [passive EXCEPT !.requests = 0, !.cycles = @ + 1]
            IN  passive' = IF p.cycles < MonitorCycles
                           THEN [p EXCEPT !.listening = ok]
                           ELSE [p EXCEPT !.timer = FALSE, !.completed = TRUE]
    /\ UNCHANGED <<exists, gateway, active, device, answering, quiet, events>>

\* Mutant of MonitorCompleted: the passive monitor begins again by itself.
CompletedRestarts(ok) ==
    /\ passive.completed
    /\ passive' = StartPassive(ok)
    /\ active' = StartActive(active, ok)
    /\ quiet' = Unstarted(ok)
    /\ UNCHANGED <<exists, gateway, device, answering, events>>

MonitorCompleted(ok) ==
    /\ passive.completed
    /\ passive' = StoppedPassive
    /\ active' = StartActive(active, ok)
    /\ quiet' = Unstarted(ok)
    /\ UNCHANGED <<exists, gateway, device, answering, events>>
-----------------------------------------------------------------------------
(***************************************************************************)
(* Calls of the device.                                                    *)
(***************************************************************************)
\* StopAllActivities: the monitor is destroyed.
StopLinkMonitor ==
    /\ exists' = FALSE
    /\ gateway' = NoMac
    /\ active' = StoppedActive
    /\ passive' = StoppedPassive
    /\ quiet' = ""

\* SetupConnection, as far as the link is concerned: OnConnected, then
\* StartLinkMonitor, unless it is |disabled| for the service; a monitor that
\* exists is then left as it is.
SetupConnection(disabled, ok) ==
    /\ Event
    /\ selected # NoService
    /\ reliableTask' = (reliableTask \/ selected \in unreliable)
    /\ IF disabled THEN UNCHANGED <<exists, gateway, active, passive, quiet>>
       ELSE /\ exists' = TRUE
            /\ gateway' = NoMac
            /\ active' = StartActive(StoppedActive, ok)
            /\ passive' = StoppedPassive
            /\ quiet' = Unstarted(ok)
    /\ UNCHANGED <<selected, unreliable, lastFailed, identity, answering>>

DestroyConnection ==
    /\ Event
    /\ StopLinkMonitor
    /\ UNCHANGED <<device, answering>>

\* Mutant of SelectService: the task that makes the link reliable is left.
SelectTimed(s) ==
    /\ Event
    /\ s # selected
    /\ IF selected # NoService
       THEN /\ unreliable' = unreliable \ {selected}
            /\ StopLinkMonitor
       ELSE UNCHANGED <<unreliable, exists, gateway, active, passive, quiet>>
    /\ selected' = s
    /\ lastFailed' = "never"
    /\ UNCHANGED <<reliableTask, identity, answering>>

SelectService(s) ==
    /\ Event
    /\ s # selected
    /\ IF selected # NoService
       THEN /\ unreliable' = unreliable \ {selected}
            /\ reliableTask' = FALSE
            /\ StopLinkMonitor
       ELSE UNCHANGED <<unreliable, reliableTask, exists, gateway, active, passive, quiet>>
    /\ selected' = s
    /\ lastFailed' = "never"
    /\ UNCHANGED <<identity, answering>>

\* LinkMonitor::OnAfterResume: what is known of the gateway survives.
ResumeMonitor(ok) ==
    /\ active' = StartActive([StoppedActive EXCEPT !.mac = gateway,
                                 !.supportsUnicast = active.supportsUnicast], ok)
    /\ passive' = StoppedPassive
    /\ quiet' = Unstarted(ok)

OnAfterResume(ok) ==
    /\ Event
    /\ IF exists THEN ResumeMonitor(ok) ELSE UNCHANGED <<active, passive, quiet>>
    /\ IF selected # NoService
       THEN unreliable' = unreliable \ {selected} /\ reliableTask' = FALSE
       ELSE UNCHANGED <<unreliable, reliableTask>>
    /\ lastFailed' = "never"
    /\ UNCHANGED <<exists, gateway, selected, identity, answering>>

OnReliableLink ==
    /\ reliableTask
    /\ reliableTask' = FALSE
    /\ unreliable' = unreliable \ {selected}
    /\ UNCHANGED <<exists, gateway, active, passive, selected, lastFailed, identity,
                   answering, quiet, events>>

\* An hour passes since the last failure.
TimePasses ==
    /\ lastFailed = "recently"
    /\ lastFailed' = "long ago"
    /\ UNCHANGED <<exists, gateway, active, passive, selected, unreliable,
                   reliableTask, identity, answering, quiet, events>>

\* The gateway begins or ceases to answer.
GatewayChanges ==
    /\ Event
    /\ answering' = ~answering
    /\ UNCHANGED <<exists, gateway, active, passive, device, quiet>>
-----------------------------------------------------------------------------
MonitorStep(ok) ==
    \/ SendRequest(ok)
    \/ \E m \in Macs : ReceiveResponse(m, ok)
    \/ CycleTimeoutHandler(ok)
    \/ MonitorCompleted(ok)

DeviceStep(ok) ==
    \/ OnAfterResume(ok)
    \/ \E disabled \in BOOLEAN : SetupConnection(disabled, ok)

Next ==
    \/ \E ok \in BOOLEAN : MonitorStep(ok) \/ DeviceStep(ok)
    \/ \E s \in Services \cup {NoService} : SelectService(s)
    \/ ReceiveRequest \/ DestroyConnection
    \/ OnReliableLink \/ TimePasses \/ GatewayChanges

Spec == Init /\ [][Next]_vars

\* Posted tasks run: the event loop serves its timers.
Fairness ==
    /\ WF_vars(\E ok \in BOOLEAN : SendRequest(ok))
    /\ WF_vars(\E ok \in BOOLEAN : CycleTimeoutHandler(ok))
    /\ WF_vars(\E ok \in BOOLEAN : MonitorCompleted(ok))

FairSpec == Spec /\ Fairness
-----------------------------------------------------------------------------
(***************************************************************************)
(* Properties.                                                             *)
(***************************************************************************)
Probing == active.listening \/ active.task

Watching == passive.listening \/ passive.timer \/ passive.completed

\* The two monitors take turns: while the gateway is probed nothing of the
\* passive monitor is left, neither its socket nor a timer that would start a
\* second series of probes (MonitorCompleted, LinkMonitor::OnAfterResume).
MonitorsAlternate == ~(Probing /\ Watching)

\* A link monitor that has neither reported a failure nor failed to start has
\* one step ahead of it, whichever way it was started, resumed or answered, and
\* one that has is altogether still.
MonitorIsAlive ==
    IF exists /\ quiet = ""
    THEN active.task \/ passive.timer \/ passive.completed
    ELSE ~Probing /\ ~Watching

\* Only the selected service is unreliable, and the task that will call the
\* link reliable again finds a service that is (Device::OnReliableLink follows
\* selected_service_ without a test).
UnreliableIsSelected ==
    /\ unreliable \subseteq {selected}
    /\ reliableTask => selected \in unreliable

\* Whatever address the monitor knows the gateway by, also the one it kept over
\* a suspend, the selected service was told of (its connection id), and unicast
\* probes go to no other.
GatewayIsAnnounced ==
    /\ gateway # NoMac => selected # NoService /\ identity[selected] = gateway
    /\ active.mac \in {gateway, NoMac}
    /\ active.isUnicast /\ active.sent => active.mac # NoMac

\* A gateway that has ceased to answer is reported: a monitor that is alive
\* does not go on probing and watching for ever (AddMissedResponse,
\* CycleTimeoutHandler), however many requests of other hosts it hears.
SilenceIsReported ==
    (exists /\ quiet = "" /\ ~answering) ~> (answering \/ ~exists \/ quiet # "")

\* While the link is monitored one of the two monitors runs, and one only.
OneMonitorRuns == TypeOK /\ MonitorsAlternate /\ MonitorIsAlive
=============================================================================
