---------------------------- MODULE TimeoutProofs ----------------------------
(***************************************************************************)
(* Proofs about three components that wait for an answer no longer than a  *)
(* timeout: LinkMonitor for its gateway, for every set of services and     *)
(* addresses and every value of the thresholds; NetlinkManager for the     *)
(* kernel, for any number of requests, retries and faults of the socket;   *)
(* and the exit of shill for its modems (Termination), for any modems.     *)
(* They share no state; each has its own inductive invariant (Inv,         *)
(* NetlinkInv, QuitInv).  Liveness stays with TLC.                         *)
(***************************************************************************)
EXTENDS LinkMonitor, NetlinkManager, Termination, TLAPS

(***************************************************************************)
(* LinkMonitor.                                                            *)
(***************************************************************************)
\* The passive monitor listens only for requests it still needs, and its timer
\* runs only while cycles are left.
CountsAreBounded ==
    /\ passive.listening => passive.requests < MinRequests
    /\ passive.timer => passive.cycles < MonitorCycles

\* The monitor goes before the service does.
MonitorHasService == exists => selected # NoService

\* The inductive invariant.  GatewayIsAnnounced needs MonitorHasService when
\* the gateway answers, which needs MonitorIsAlive: only a monitor that exists
\* listens.  TypeOK needs CountsAreBounded.
Inv ==
    /\ TypeOK
    /\ CountsAreBounded
    /\ MonitorHasService
    /\ MonitorsAlternate
    /\ MonitorIsAlive
    /\ UnreliableIsSelected
    /\ GatewayIsAnnounced
-----------------------------------------------------------------------------
(***************************************************************************)
(* The operators on the two monitors.                                      *)
(***************************************************************************)
\* The stopped monitors are monitors.
LEMMA StoppedTyped ==
    StoppedActive \in ActiveMonitors /\ StoppedPassive \in PassiveMonitors
  BY MonitorAssumption
     DEF MonitorAssumption, StoppedActive, StoppedPassive, ActiveMonitors, PassiveMonitors

\* Ending the probes keeps the counts and the address.
LEMMA StopMonitorCycleTyped ==
    ASSUME NEW a \in ActiveMonitors
    PROVE  /\ StopMonitorCycle(a) \in ActiveMonitors
           /\ ~StopMonitorCycle(a).listening /\ ~StopMonitorCycle(a).task
           /\ ~StopMonitorCycle(a).sent /\ StopMonitorCycle(a).mac = a.mac
  BY DEF StopMonitorCycle, ActiveMonitors

\* The stopped monitors do nothing and know nothing.
LEMMA StoppedStill ==
    /\ ~StoppedActive.listening /\ ~StoppedActive.task /\ ~StoppedActive.sent
    /\ StoppedActive.mac = NoMac
    /\ ~StoppedPassive.listening /\ ~StoppedPassive.timer /\ ~StoppedPassive.completed
  BY DEF StoppedActive, StoppedPassive

\* A started active monitor probes at once; one that could not start is silent
\* and knows nothing.
LEMMA StartActiveTyped ==
    ASSUME NEW a \in ActiveMonitors, NEW ok \in BOOLEAN
    PROVE  /\ StartActive(a, ok) \in ActiveMonitors
           /\ StartActive(a, ok).task = ok
           /\ StartActive(a, ok).listening = ok
           /\ ~StartActive(a, ok).sent
           /\ StartActive(a, ok).mac \in {a.mac, NoMac}
  <1>1. CASE ok
    BY <1>1 DEF StartActive, StopMonitorCycle, ActiveMonitors
  <1>2. CASE ~ok
    BY <1>2, StoppedTyped DEF StartActive, StoppedActive
  <1> QED BY <1>1, <1>2

\* A started passive monitor is timed from its first cycle.
LEMMA StartPassiveTyped ==
    ASSUME NEW ok \in BOOLEAN
    PROVE  /\ StartPassive(ok) \in PassiveMonitors
           /\ StartPassive(ok).timer = ok
           /\ StartPassive(ok).listening = ok
           /\ ~StartPassive(ok).completed
           /\ StartPassive(ok).requests = 0 /\ StartPassive(ok).cycles = 0
  <1>1. CASE ok
    <2>1. /\ StoppedPassive \in PassiveMonitors
          /\ StoppedPassive.requests = 0 /\ StoppedPassive.cycles = 0
          /\ ~StoppedPassive.completed
      BY StoppedTyped DEF StoppedPassive
    <2>2. StartPassive(ok) = [StoppedPassive EXCEPT !.listening = TRUE, !.timer = TRUE]
      BY <1>1 DEF StartPassive
    <2> QED BY <1>1, <2>1, <2>2 DEF PassiveMonitors
  <1>2. CASE ~ok
    BY <1>2, StoppedTyped DEF StartPassive, StoppedPassive
  <1> QED BY <1>1, <1>2

\* A miss below the threshold leaves both counts below it.
LEMMA CountMissedTyped ==
    ASSUME NEW a \in ActiveMonitors, a.sent, ~ExceedsThreshold(a)
    PROVE  /\ CountMissed(a) \in ActiveMonitors
           /\ CountMissed(a).task = a.task
           /\ CountMissed(a).listening = a.listening
           /\ CountMissed(a).mac = a.mac
  <1> DEFINE b == Missed(a).broadcast
             u == Missed(a).unicast
             n == IF a.isUnicast THEN 0 ELSE a.successes
  <1>1. /\ a.broadcast \in 0..FailureThreshold - 1
        /\ a.unicast \in 0..FailureThreshold - 1
        /\ a.successes \in 0..UnicastThreshold /\ a.isUnicast \in BOOLEAN
    BY DEF ActiveMonitors
  <1>2. b \in Nat /\ u \in Nat
    <2>1. b \in {a.broadcast, a.broadcast + 1} /\ u \in {a.unicast, a.unicast + 1}
      BY DEF Missed
    <2> QED BY <2>1, <1>1, MonitorAssumption DEF MonitorAssumption
  <1>3. ~(b + u >= FailureThreshold)
    BY DEF ExceedsThreshold
  <1>4. /\ b \in 0..FailureThreshold - 1 /\ u \in 0..FailureThreshold - 1
        /\ n \in 0..UnicastThreshold
    BY <1>1, <1>2, <1>3, MonitorAssumption DEF MonitorAssumption
  <1>5. CountMissed(a) = [a EXCEPT !.broadcast = b, !.unicast = u,
                                   !.successes = n, !.isUnicast = ~a.isUnicast]
    BY DEF CountMissed
  <1> HIDE DEF b, u, n
  <1> QED BY <1>4, <1>5 DEF ActiveMonitors

\* An answer is counted without passing the threshold, and its address kept.
LEMMA CountAnswerTyped ==
    ASSUME NEW a \in ActiveMonitors, NEW m \in Macs
    PROVE  CountAnswer(a, m) \in ActiveMonitors /\ CountAnswer(a, m).mac = m
  <1> DEFINE n == IF a.successes < UnicastThreshold THEN a.successes + 1
                                                    ELSE a.successes
             u == IF a.isUnicast THEN 0 ELSE a.unicast
             b == IF a.isUnicast THEN a.broadcast ELSE 0
             s == IF a.isUnicast THEN n ELSE a.successes
             p == a.supportsUnicast \/ (a.isUnicast /\ n = UnicastThreshold)
  <1>1. /\ a.broadcast \in 0..FailureThreshold - 1
        /\ a.unicast \in 0..FailureThreshold - 1
        /\ a.successes \in 0..UnicastThreshold
    BY DEF ActiveMonitors
  <1>2. n \in 0..UnicastThreshold
    BY <1>1, MonitorAssumption DEF MonitorAssumption
  <1>3. /\ u \in 0..FailureThreshold - 1 /\ b \in 0..FailureThreshold - 1
        /\ s \in 0..UnicastThreshold
    BY <1>1, <1>2, MonitorAssumption DEF MonitorAssumption
  <1>4. CountAnswer(a, m) = [a EXCEPT !.unicast = u, !.broadcast = b, !.successes = s,
                                      !.supportsUnicast = p, !.mac = m,
                                      !.isUnicast = ~a.isUnicast]
    BY DEF CountAnswer
  <1>5. p \in BOOLEAN
    OBVIOUS
  <1> HIDE DEF n, u, b, s, p
  <1> QED BY <1>3, <1>4, <1>5 DEF ActiveMonitors
-----------------------------------------------------------------------------
(***************************************************************************)
(* The steps of the monitors.                                              *)
(***************************************************************************)
\* Initially there is no monitor.
LEMMA InitInv == Init => Inv
  <1> SUFFICES ASSUME Init PROVE Inv
    OBVIOUS
  <1>1. TypeOK
    <2>1. identity \in [Services -> Macs \cup {NoMac}]
      BY DEF Init
    <2>2. events \in 0..MaxEvents
      <3>1. events = 0 /\ MaxEvents \in Nat
        BY MonitorAssumption DEF Init, MonitorAssumption
      <3> QED BY <3>1
    <2> QED BY <2>1, <2>2, StoppedTyped DEF Init, TypeOK
  <1>2. MonitorsAlternate /\ MonitorIsAlive /\ CountsAreBounded /\ MonitorHasService
    BY StoppedStill
       DEF Init, MonitorsAlternate, MonitorIsAlive, Probing, Watching,
           CountsAreBounded, MonitorHasService
  <1>3. UnreliableIsSelected /\ GatewayIsAnnounced
    BY StoppedStill DEF Init, UnreliableIsSelected, GatewayIsAnnounced
  <1> QED BY <1>1, <1>2, <1>3 DEF Inv

\* A failure of the link stops both monitors and is held against the selected
\* service only.
LEMMA LinkFailsInv ==
    ASSUME Inv, LinkFails
    PROVE  Inv'
  <1>1. TypeOK'
    BY StoppedTyped, Zenon
       DEF Inv, TypeOK, LinkFails, DeviceLinkMonitorFailure
  <1>2. (MonitorsAlternate /\ MonitorIsAlive /\ CountsAreBounded)'
    BY StoppedStill
       DEF LinkFails, MonitorsAlternate, MonitorIsAlive, Probing, Watching,
           CountsAreBounded
  <1>3. MonitorHasService'
    BY DEF Inv, LinkFails, MonitorHasService
  <1>4. UnreliableIsSelected'
    BY DEF Inv, LinkFails, DeviceLinkMonitorFailure, UnreliableIsSelected
  <1>5. GatewayIsAnnounced'
    BY StoppedStill DEF LinkFails, GatewayIsAnnounced
  <1> QED BY <1>1, <1>2, <1>3, <1>4, <1>5 DEF Inv

\* A probe is sent, the one before counted as missed, or the link fails.
LEMMA SendRequestInv ==
    ASSUME Inv, NEW ok \in BOOLEAN, SendRequest(ok)
    PROVE  Inv'
  <1> DEFINE a == IF active.sent THEN CountMissed(active) ELSE active
  <1>1. CASE ExceedsThreshold(active) \/ ~ok
    BY <1>1, LinkFailsInv DEF SendRequest
  <1>2. CASE ~(ExceedsThreshold(active) \/ ~ok)
    <2>1. /\ active.task /\ active \in ActiveMonitors
          /\ active' = [a EXCEPT !.sent = TRUE, !.isUnicast = a.isUnicast /\ a.mac # NoMac]
          /\ UNCHANGED <<exists, gateway, passive, device, answering, quiet, events>>
      BY <1>2 DEF SendRequest, Inv, TypeOK
    <2>2. /\ a \in ActiveMonitors /\ a.task = active.task
          /\ a.listening = active.listening /\ a.mac = active.mac
      BY <1>2, <2>1, CountMissedTyped
    <2> HIDE DEF a
    <2>3. /\ active' \in ActiveMonitors /\ active'.task = active.task
          /\ active'.listening = active.listening /\ active'.mac = active.mac
          /\ active'.isUnicast => active'.mac # NoMac
      BY <2>1, <2>2 DEF ActiveMonitors
    <2>4. TypeOK'
      BY <2>1, <2>3 DEF Inv, TypeOK, device
    <2>5. (MonitorsAlternate /\ MonitorIsAlive /\ CountsAreBounded)'
      BY <2>1, <2>3
         DEF Inv, MonitorsAlternate, MonitorIsAlive, Probing, Watching, CountsAreBounded
    <2>6. (MonitorHasService /\ UnreliableIsSelected)'
      BY <2>1 DEF Inv, device, MonitorHasService, UnreliableIsSelected
    <2>7. GatewayIsAnnounced'
      BY <2>1, <2>3 DEF Inv, device, GatewayIsAnnounced
    <2> QED BY <2>4, <2>5, <2>6, <2>7 DEF Inv
  <1> QED BY <1>1, <1>2

\* The gateway answers: the probes end, the passive monitor starts, and a new
\* address is announced to the service the monitor was started for.
LEMMA ReceiveResponseInv ==
    ASSUME Inv, NEW ok \in BOOLEAN, NEW m \in Macs, ReceiveResponse(m, ok)
    PROVE  Inv'
  <1>1. exists /\ selected \in Services /\ m # NoMac
    BY MonitorAssumption
       DEF MonitorAssumption, Inv, TypeOK, ReceiveResponse, MonitorIsAlive, Probing,
           MonitorHasService
  <1>2. /\ active' \in ActiveMonitors /\ active'.mac = m
        /\ ~active'.listening /\ ~active'.task /\ ~active'.sent
    BY CountAnswerTyped, StopMonitorCycleTyped DEF Inv, TypeOK, ReceiveResponse
  <1>3. /\ passive' \in PassiveMonitors /\ passive'.timer = ok
        /\ passive'.listening = ok /\ ~passive'.completed
        /\ passive'.requests = 0 /\ passive'.cycles = 0
    BY StartPassiveTyped DEF ReceiveResponse, OnActiveLinkMonitorSuccess
  <1>4. quiet' = IF ok THEN "" ELSE "unstarted"
    BY DEF ReceiveResponse, OnActiveLinkMonitorSuccess, Unstarted
  <1>5. /\ gateway' = m
        /\ identity' = IF m # gateway THEN [identity EXCEPT ![selected] = m] ELSE identity
        /\ UNCHANGED <<exists, selected, unreliable, reliableTask, lastFailed,
                       answering, events>>
    BY DEF ReceiveResponse, OnActiveLinkMonitorSuccess
  <1>6. TypeOK'
    BY <1>1, <1>2, <1>3, <1>4, <1>5 DEF Inv, TypeOK
  <1>7. (MonitorsAlternate /\ MonitorIsAlive)'
    BY <1>1, <1>2, <1>3, <1>4, <1>5 DEF MonitorsAlternate, MonitorIsAlive, Probing, Watching
  <1>8. CountsAreBounded'
    BY <1>3, MonitorAssumption DEF CountsAreBounded, MonitorAssumption
  <1>9. (MonitorHasService /\ UnreliableIsSelected)'
    BY <1>5 DEF Inv, MonitorHasService, UnreliableIsSelected
  <1>10. GatewayIsAnnounced'
    <2>1. identity \in [Services -> Macs \cup {NoMac}]
      BY DEF Inv, TypeOK
    <2>2. CASE m = gateway
      BY <1>1, <1>2, <1>5, <2>2 DEF Inv, GatewayIsAnnounced
    <2>3. CASE m # gateway
      <3>1. identity'[selected] = m
        BY <1>1, <1>5, <2>1, <2>3
      <3>2. selected # NoService
        BY <1>1, MonitorAssumption DEF MonitorAssumption
      <3> QED BY <1>1, <1>2, <1>5, <3>1, <3>2 DEF GatewayIsAnnounced
    <2> QED BY <2>2, <2>3
  <1> QED BY <1>6, <1>7, <1>8, <1>9, <1>10 DEF Inv
\* A request of another host is counted, and with the last one needed the
\* passive monitor stops to listen.
LEMMA ReceiveRequestInv ==
    ASSUME Inv, ReceiveRequest
    PROVE  Inv'
  <1> DEFINE r == passive.requests + 1
             l == r < MinRequests
  <1>1. /\ passive \in PassiveMonitors /\ passive.listening
        /\ passive' = [passive EXCEPT !.requests = r, !.listening = l]
        /\ UNCHANGED <<exists, gateway, active, device, answering, quiet, events>>
    BY DEF Inv, TypeOK, ReceiveRequest
  <1>2. r \in 0..MinRequests /\ l \in BOOLEAN
    BY <1>1, MonitorAssumption
       DEF MonitorAssumption, Inv, CountsAreBounded, PassiveMonitors
  <1>3. /\ passive' \in PassiveMonitors /\ passive'.requests = r
        /\ passive'.listening = l /\ passive'.timer = passive.timer
        /\ passive'.completed = passive.completed /\ passive'.cycles = passive.cycles
    <2> HIDE DEF r, l
    <2> QED BY <1>1, <1>2 DEF PassiveMonitors
  <1>4. CountsAreBounded'
    BY <1>1, <1>3 DEF Inv, CountsAreBounded
  <1> HIDE DEF r, l
  <1>5. TypeOK'
    BY <1>1, <1>3 DEF Inv, TypeOK, device
  <1>6. (MonitorsAlternate /\ MonitorIsAlive)'
    BY <1>1, <1>3 DEF Inv, MonitorsAlternate, MonitorIsAlive, Probing, Watching
  <1>7. (MonitorHasService /\ UnreliableIsSelected /\ GatewayIsAnnounced)'
    BY <1>1 DEF Inv, device, MonitorHasService, UnreliableIsSelected, GatewayIsAnnounced
  <1> QED BY <1>4, <1>5, <1>6, <1>7 DEF Inv

\* A cycle ends: the next one is timed as well, or the monitor is completed.
LEMMA CycleTimeoutHandlerInv ==
    ASSUME Inv, NEW ok \in BOOLEAN, CycleTimeoutHandler(ok)
    PROVE  Inv'
  <1> DEFINE p == [passive EXCEPT !.requests = 0, !.cycles = passive.cycles + 1]
  <1>1. /\ passive \in PassiveMonitors /\ passive.timer
        /\ UNCHANGED <<exists, gateway, active, device, answering, quiet, events>>
    BY DEF Inv, TypeOK, CycleTimeoutHandler
  <1>2. p \in PassiveMonitors /\ p.requests = 0 /\ p.timer = passive.timer
    <2>1. passive.cycles + 1 \in 0..MonitorCycles /\ 0 \in 0..MinRequests
      BY <1>1, MonitorAssumption
         DEF MonitorAssumption, Inv, CountsAreBounded, PassiveMonitors
    <2> QED BY <1>1, <2>1 DEF PassiveMonitors
  <1>3. \/ passive' = [passive EXCEPT !.timer = FALSE, !.completed = TRUE]
           /\ passive.requests < MinRequests
        \/ passive' = [p EXCEPT !.listening = ok] /\ p.cycles < MonitorCycles
        \/ passive' = [p EXCEPT !.timer = FALSE, !.completed = TRUE]
    BY DEF CycleTimeoutHandler
  <1> HIDE DEF p
  <1>4. /\ passive' \in PassiveMonitors
        /\ passive'.timer \/ passive'.completed
        /\ passive'.listening => passive'.requests < MinRequests
        /\ passive'.timer => passive'.cycles < MonitorCycles
    <2>1. 0 < MinRequests
      BY MonitorAssumption DEF MonitorAssumption
    <2>2. CASE /\ passive' = [passive EXCEPT !.timer = FALSE, !.completed = TRUE]
               /\ passive.requests < MinRequests
      BY <1>1, <2>2 DEF PassiveMonitors
    <2>3. CASE passive' = [p EXCEPT !.listening = ok] /\ p.cycles < MonitorCycles
      <3>1. /\ passive' \in PassiveMonitors /\ passive'.timer = p.timer
            /\ passive'.requests = p.requests /\ passive'.cycles = p.cycles
        BY <1>2, <2>3 DEF PassiveMonitors
      <3> QED BY <1>1, <1>2, <2>3, <2>1, <3>1
    <2>4. CASE passive' = [p EXCEPT !.timer = FALSE, !.completed = TRUE]
      <3>1. /\ passive' \in PassiveMonitors /\ ~passive'.timer /\ passive'.completed
            /\ passive'.requests = p.requests
        BY <1>2, <2>4 DEF PassiveMonitors
      <3> QED BY <1>2, <2>1, <3>1
    <2> QED BY <1>3, <2>2, <2>3, <2>4
  <1>5. TypeOK' /\ CountsAreBounded'
    BY <1>1, <1>4 DEF Inv, TypeOK, device, CountsAreBounded
  <1>6. (MonitorsAlternate /\ MonitorIsAlive)'
    BY <1>1, <1>4 DEF Inv, MonitorsAlternate, MonitorIsAlive, Probing, Watching
  <1>7. (MonitorHasService /\ UnreliableIsSelected /\ GatewayIsAnnounced)'
    BY <1>1 DEF Inv, device, MonitorHasService, UnreliableIsSelected, GatewayIsAnnounced
  <1> QED BY <1>5, <1>6, <1>7 DEF Inv

\* The two monitors after the active one was started and the passive one stopped.
Restarted(ok) ==
    /\ active' \in ActiveMonitors /\ passive' = StoppedPassive
    /\ active'.task = ok /\ active'.listening = ok /\ ~active'.sent
    /\ quiet' = IF ok THEN "" ELSE "unstarted"

\* Starting the active monitor anew restores the alternation, whatever the two
\* monitors were doing.
LEMMA RestartedInv ==
    ASSUME NEW ok \in BOOLEAN, Restarted(ok), exists'
    PROVE  /\ (MonitorsAlternate /\ MonitorIsAlive /\ CountsAreBounded)'
           /\ active' \in ActiveMonitors /\ passive' \in PassiveMonitors
           /\ quiet' \in {"", "failed", "unstarted"}
  <1>1. (MonitorsAlternate /\ MonitorIsAlive)'
    BY StoppedStill DEF Restarted, MonitorsAlternate, MonitorIsAlive, Probing, Watching
  <1>2. CountsAreBounded'
    BY StoppedStill DEF Restarted, CountsAreBounded
  <1> QED BY <1>1, <1>2, StoppedTyped DEF Restarted

\* The passive monitor hands over to the active one.
LEMMA MonitorCompletedInv ==
    ASSUME Inv, NEW ok \in BOOLEAN, MonitorCompleted(ok)
    PROVE  Inv'
  <1>1. Restarted(ok) /\ active'.mac \in {active.mac, NoMac}
    BY StartActiveTyped DEF Inv, TypeOK, MonitorCompleted, Restarted, Unstarted
  <1>2. exists /\ UNCHANGED <<exists, gateway, device, answering, events>>
    BY DEF Inv, MonitorCompleted, MonitorIsAlive, Watching
  <1>3. TypeOK'
    BY <1>1, <1>2, RestartedInv DEF Inv, TypeOK, device
  <1>4. GatewayIsAnnounced'
    BY <1>1, <1>2 DEF Inv, Restarted, device, GatewayIsAnnounced
  <1>5. (MonitorHasService /\ UnreliableIsSelected)'
    BY <1>2 DEF Inv, device, MonitorHasService, UnreliableIsSelected
  <1> QED BY <1>1, <1>2, <1>3, <1>4, <1>5, RestartedInv DEF Inv
-----------------------------------------------------------------------------
(***************************************************************************)
(* The steps of the device.                                                *)
(***************************************************************************)
\* A monitor that is destroyed leaves nothing behind.
LEMMA StopLinkMonitorInv ==
    ASSUME StopLinkMonitor
    PROVE  /\ (MonitorsAlternate /\ MonitorIsAlive /\ CountsAreBounded)'
           /\ (MonitorHasService /\ GatewayIsAnnounced)'
           /\ exists' \in BOOLEAN /\ gateway' \in Macs \cup {NoMac}
           /\ active' \in ActiveMonitors /\ passive' \in PassiveMonitors
           /\ quiet' \in {"", "failed", "unstarted"}
  <1>1. (MonitorsAlternate /\ MonitorIsAlive /\ CountsAreBounded)'
    BY StoppedStill
       DEF StopLinkMonitor, MonitorsAlternate, MonitorIsAlive, Probing, Watching,
           CountsAreBounded
  <1>2. (MonitorHasService /\ GatewayIsAnnounced)'
    BY StoppedStill DEF StopLinkMonitor, MonitorHasService, GatewayIsAnnounced
  <1> QED BY <1>1, <1>2, StoppedTyped DEF StopLinkMonitor

\* The bound on events is kept.
LEMMA EventTyped ==
    ASSUME events \in 0..MaxEvents, Event
    PROVE  events' \in 0..MaxEvents
  BY MonitorAssumption DEF MonitorAssumption, Event

\* A connection is set up: the monitor is started anew, if it is wanted.
LEMMA SetupConnectionInv ==
    ASSUME Inv, NEW disabled \in BOOLEAN, NEW ok \in BOOLEAN,
           SetupConnection(disabled, ok)
    PROVE  Inv'
  <1>1. /\ selected # NoService /\ events' \in 0..MaxEvents
        /\ reliableTask' = (reliableTask \/ selected \in unreliable)
        /\ UNCHANGED <<selected, unreliable, lastFailed, identity, answering>>
    BY EventTyped DEF Inv, TypeOK, SetupConnection
  <1>2. UnreliableIsSelected'
    BY <1>1 DEF Inv, UnreliableIsSelected
  <1>3. reliableTask' \in BOOLEAN
    BY <1>1
  <1>4. CASE disabled
    <2>1. UNCHANGED <<exists, gateway, active, passive, quiet>>
      BY <1>4 DEF SetupConnection
    <2>2. TypeOK'
      BY <1>1, <1>3, <2>1 DEF Inv, TypeOK
    <2>3. (MonitorsAlternate /\ MonitorIsAlive /\ CountsAreBounded)'
      BY <2>1
         DEF Inv, MonitorsAlternate, MonitorIsAlive, Probing, Watching, CountsAreBounded
    <2>4. (MonitorHasService /\ GatewayIsAnnounced)'
      BY <1>1, <2>1 DEF Inv, MonitorHasService, GatewayIsAnnounced
    <2> QED BY <1>2, <2>2, <2>3, <2>4 DEF Inv
  <1>5. CASE ~disabled
    <2>1. Restarted(ok) /\ active'.mac = NoMac /\ exists' = TRUE /\ gateway' = NoMac
      <3>1. /\ active' = StartActive(StoppedActive, ok) /\ passive' = StoppedPassive
            /\ quiet' = (IF ok THEN "" ELSE "unstarted")
            /\ exists' = TRUE /\ gateway' = NoMac
        BY <1>5 DEF SetupConnection, Unstarted
      <3> QED BY <3>1, StartActiveTyped, StoppedTyped, StoppedStill DEF Restarted
    <2>2. TypeOK'
      BY <1>1, <1>3, <2>1, RestartedInv DEF Inv, TypeOK
    <2>3. (MonitorHasService /\ GatewayIsAnnounced)'
      BY <1>1, <2>1 DEF Restarted, MonitorHasService, GatewayIsAnnounced
    <2> QED BY <1>2, <2>1, <2>2, <2>3, RestartedInv DEF Inv
  <1> QED BY <1>4, <1>5

\* The connection ends: the service stays as it was.
LEMMA DestroyConnectionInv ==
    ASSUME Inv, DestroyConnection
    PROVE  Inv'
  <1>1. /\ StopLinkMonitor /\ events' \in 0..MaxEvents
        /\ UNCHANGED <<device, answering>>
    BY EventTyped DEF Inv, TypeOK, DestroyConnection
  <1>2. TypeOK'
    BY <1>1, StopLinkMonitorInv DEF Inv, TypeOK, device
  <1>3. UnreliableIsSelected'
    BY <1>1 DEF Inv, device, UnreliableIsSelected
  <1> QED BY <1>1, <1>2, <1>3, StopLinkMonitorInv DEF Inv

\* Another service is selected: nothing of the one before is held against it,
\* and its monitor is gone.
LEMMA SelectServiceInv ==
    ASSUME Inv, NEW s \in Services \cup {NoService}, SelectService(s)
    PROVE  Inv'
  <1>1. /\ events' \in 0..MaxEvents /\ selected' = s /\ lastFailed' = "never"
        /\ UNCHANGED <<identity, answering>>
    BY EventTyped DEF Inv, TypeOK, SelectService
  <1>2. CASE selected # NoService
    <2>1. /\ StopLinkMonitor /\ reliableTask' = FALSE
          /\ unreliable' = unreliable \ {selected}
      BY <1>2 DEF SelectService
    <2>2. unreliable' = {}
      BY <2>1 DEF Inv, UnreliableIsSelected
    <2>3. TypeOK'
      BY <1>1, <2>1, <2>2, StopLinkMonitorInv DEF Inv, TypeOK
    <2>4. UnreliableIsSelected'
      BY <2>1, <2>2 DEF UnreliableIsSelected
    <2> QED BY <2>1, <2>3, <2>4, StopLinkMonitorInv DEF Inv
  <1>3. CASE selected = NoService
    <2>1. UNCHANGED <<unreliable, reliableTask, exists, gateway, active, passive, quiet>>
      BY <1>3 DEF SelectService
    <2>2. unreliable = {} /\ ~reliableTask /\ ~exists /\ gateway = NoMac
      BY <1>3, MonitorAssumption
         DEF MonitorAssumption, Inv, TypeOK, UnreliableIsSelected, MonitorHasService,
             GatewayIsAnnounced
    <2>3. TypeOK'
      BY <1>1, <2>1 DEF Inv, TypeOK
    <2>4. (MonitorsAlternate /\ MonitorIsAlive /\ CountsAreBounded)'
      BY <2>1
         DEF Inv, MonitorsAlternate, MonitorIsAlive, Probing, Watching, CountsAreBounded
    <2>5. (MonitorHasService /\ UnreliableIsSelected /\ GatewayIsAnnounced)'
      BY <2>1, <2>2
         DEF Inv, MonitorHasService, UnreliableIsSelected, GatewayIsAnnounced
    <2> QED BY <2>3, <2>4, <2>5 DEF Inv
  <1> QED BY <1>2, <1>3

\* A resume restarts the probes with the address that was announced.
LEMMA OnAfterResumeInv ==
    ASSUME Inv, NEW ok \in BOOLEAN, OnAfterResume(ok)
    PROVE  Inv'
  <1> DEFINE a == [StoppedActive EXCEPT !.mac = gateway,
                                        !.supportsUnicast = active.supportsUnicast]
  <1>1. /\ events' \in 0..MaxEvents /\ lastFailed' = "never"
        /\ UNCHANGED <<exists, gateway, selected, identity, answering>>
    BY EventTyped DEF Inv, TypeOK, OnAfterResume
  <1>2. /\ UnreliableIsSelected' /\ unreliable' \in SUBSET Services
        /\ reliableTask' \in BOOLEAN
    BY <1>1 DEF Inv, TypeOK, OnAfterResume, UnreliableIsSelected
  <1>3. CASE exists
    <2>1. a \in ActiveMonitors /\ a.mac = gateway
      BY StoppedTyped DEF Inv, TypeOK, ActiveMonitors
    <2>2. /\ active' = StartActive(a, ok) /\ passive' = StoppedPassive
          /\ quiet' = IF ok THEN "" ELSE "unstarted"
      BY <1>3 DEF OnAfterResume, ResumeMonitor, Unstarted
    <2> HIDE DEF a
    <2>3. Restarted(ok) /\ active'.mac \in {gateway, NoMac}
      BY <2>1, <2>2, StartActiveTyped DEF Restarted
    <2>4. TypeOK'
      BY <1>1, <1>2, <1>3, <2>3, RestartedInv DEF Inv, TypeOK
    <2>5. (MonitorHasService /\ GatewayIsAnnounced)'
      BY <1>1, <2>3 DEF Inv, Restarted, MonitorHasService, GatewayIsAnnounced
    <2> QED BY <1>1, <1>2, <1>3, <2>3, <2>4, <2>5, RestartedInv DEF Inv
  <1>4. CASE ~exists
    <2>1. UNCHANGED <<active, passive, quiet>>
      BY <1>4 DEF OnAfterResume
    <2>2. TypeOK'
      BY <1>1, <1>2, <2>1 DEF Inv, TypeOK
    <2>3. (MonitorsAlternate /\ MonitorIsAlive /\ CountsAreBounded)'
      BY <1>1, <2>1
         DEF Inv, MonitorsAlternate, MonitorIsAlive, Probing, Watching, CountsAreBounded
    <2>4. (MonitorHasService /\ GatewayIsAnnounced)'
      BY <1>1, <2>1 DEF Inv, MonitorHasService, GatewayIsAnnounced
    <2> QED BY <1>2, <2>2, <2>3, <2>4 DEF Inv
  <1> QED BY <1>3, <1>4

\* The hour is over, the link is called reliable again, or the gateway changes:
\* the monitors are left alone.
LEMMA OtherStepInv ==
    ASSUME Inv, OnReliableLink \/ TimePasses \/ GatewayChanges
    PROVE  Inv'
  <1>1. UNCHANGED <<exists, gateway, active, passive, selected, identity, quiet>>
    BY DEF OnReliableLink, TimePasses, GatewayChanges, device
  <1>2. /\ events' \in 0..MaxEvents /\ answering' \in BOOLEAN
        /\ lastFailed' \in {"never", "recently", "long ago"}
        /\ unreliable' \in SUBSET Services /\ reliableTask' \in BOOLEAN
        /\ UnreliableIsSelected'
    <2>1. CASE OnReliableLink
      BY <2>1 DEF Inv, TypeOK, OnReliableLink, UnreliableIsSelected
    <2>2. CASE TimePasses
      BY <2>2 DEF Inv, TypeOK, TimePasses, UnreliableIsSelected
    <2>3. CASE GatewayChanges
      BY <2>3, EventTyped DEF Inv, TypeOK, GatewayChanges, device, UnreliableIsSelected
    <2> QED BY <2>1, <2>2, <2>3
  <1>3. TypeOK'
    BY <1>1, <1>2 DEF Inv, TypeOK
  <1>4. (MonitorsAlternate /\ MonitorIsAlive /\ CountsAreBounded)'
    BY <1>1
       DEF Inv, MonitorsAlternate, MonitorIsAlive, Probing, Watching, CountsAreBounded
  <1>5. (MonitorHasService /\ GatewayIsAnnounced)'
    BY <1>1 DEF Inv, MonitorHasService, GatewayIsAnnounced
  <1> QED BY <1>2, <1>3, <1>4, <1>5 DEF Inv

\* A stuttering step changes nothing.
LEMMA StutterInv ==
    ASSUME Inv, UNCHANGED vars
    PROVE  Inv'
  <1>1. TypeOK'
    BY DEF vars, device, Inv, TypeOK
  <1>2. (MonitorsAlternate /\ MonitorIsAlive /\ CountsAreBounded)'
    BY DEF vars, Inv, MonitorsAlternate, MonitorIsAlive, Probing, Watching,
           CountsAreBounded
  <1>3. (MonitorHasService /\ UnreliableIsSelected /\ GatewayIsAnnounced)'
    BY DEF vars, device, Inv, MonitorHasService, UnreliableIsSelected,
           GatewayIsAnnounced
  <1> QED BY <1>1, <1>2, <1>3 DEF Inv

\* Inv is inductive.
LEMMA Invariance == Spec => []Inv
  <1>1. Inv /\ [Next]_vars => Inv'
    <2> SUFFICES ASSUME Inv, [Next]_vars PROVE Inv'
      OBVIOUS
    <2>1. ASSUME NEW ok \in BOOLEAN, MonitorStep(ok) PROVE Inv'
      BY <2>1, SendRequestInv, ReceiveResponseInv, CycleTimeoutHandlerInv,
         MonitorCompletedInv DEF MonitorStep
    <2>2. ASSUME NEW ok \in BOOLEAN, DeviceStep(ok) PROVE Inv'
      BY <2>2, OnAfterResumeInv, SetupConnectionInv DEF DeviceStep
    <2>3. ASSUME NEW s \in Services \cup {NoService}, SelectService(s) PROVE Inv'
      BY <2>3, SelectServiceInv
    <2>4. CASE ReceiveRequest \/ DestroyConnection
      BY <2>4, ReceiveRequestInv, DestroyConnectionInv
    <2>5. CASE OnReliableLink \/ TimePasses \/ GatewayChanges
      BY <2>5, OtherStepInv
    <2>6. CASE UNCHANGED vars
      BY <2>6, StutterInv
    <2> QED BY <2>1, <2>2, <2>3, <2>4, <2>5, <2>6 DEF Next
  <1> QED BY InitInv, <1>1, PTL DEF Spec

\* The types: the counts of failures stay below the threshold, those of requests
\* and cycles within theirs, for any thresholds.
THEOREM TypeCorrect == Spec => []TypeOK
  <1>1. Inv => TypeOK
    BY DEF Inv
  <1> QED BY Invariance, <1>1, PTL

\* The active and the passive monitor never run at once.
THEOREM Alternation == Spec => []MonitorsAlternate
  <1>1. Inv => MonitorsAlternate
    BY DEF Inv
  <1> QED BY Invariance, <1>1, PTL

\* A monitor that has not failed has a next step, and one that has is still.
THEOREM Aliveness == Spec => []MonitorIsAlive
  <1>1. Inv => MonitorIsAlive
    BY DEF Inv
  <1> QED BY Invariance, <1>1, PTL

\* Only the selected service is unreliable, and Device::OnReliableLink finds it.
THEOREM Reliability == Spec => []UnreliableIsSelected
  <1>1. Inv => UnreliableIsSelected
    BY DEF Inv
  <1> QED BY Invariance, <1>1, PTL

\* The service the device has selected knows the gateway the monitor knows.
THEOREM Announcement == Spec => []GatewayIsAnnounced
  <1>1. Inv => GatewayIsAnnounced
    BY DEF Inv
  <1> QED BY Invariance, <1>1, PTL

\* While the link is monitored exactly one of the two monitors runs, over every
\* failure, resume and change of service (link_monitor.cc), for any thresholds.
THEOREM OneRuns == Spec => []OneMonitorRuns
  <1>1. TypeOK /\ MonitorsAlternate /\ MonitorIsAlive => OneMonitorRuns
    BY DEF OneMonitorRuns
  <1> QED BY TypeCorrect, Alternation, Aliveness, <1>1, PTL
-----------------------------------------------------------------------------
(***************************************************************************)
(* NetlinkManager.  The methods are operators on worlds, so the invariant  *)
(* is one on worlds too: Core is kept by every method, and Turns is what   *)
(* holds between two tasks.                                                *)
(***************************************************************************)
Entries == [seq : Requests, retries : 0..kMaxNlMessageRetries]

Worlds ==
    [nl : Managers, dumps : SUBSET Requests, kernel : [Requests -> Nat],
     ended : [Requests -> Nat], awaited : 0..MaxMessages, torn : BOOLEAN,
     faults : Nat]

\* The request has been handed to the socket once, taken or not: its handler
\* waits, or its client was told the end.
Registered(w, s) == s \in w.nl.handlers \/ w.ended[s] > 0

InQueue(w, s) == \E i \in 1..Len(w.nl.queue) : w.nl.queue[i].seq = s

\* Requests are numbered in the order in which they are made.
Numbered(w, n) ==
    /\ n \in 0..MaxMessages
    /\ w.dumps \subseteq 1..n
    /\ w.nl.handlers \subseteq 1..n
    /\ \A s \in Requests : s > n => w.ended[s] = 0

\* The queue holds dumps, each once.
QueueOfDumps(w) ==
    /\ \A i \in 1..Len(w.nl.queue) : w.nl.queue[i].seq \in w.dumps
    /\ \A i, j \in 1..Len(w.nl.queue) :
          w.nl.queue[i].seq = w.nl.queue[j].seq => i = j

\* No request is forgotten, and what was sent last has a handler or an end.
NoneForgotten(w, n) ==
    /\ \A s \in 1..n : InQueue(w, s) \/ Registered(w, s)
    /\ w.awaited # 0 => Registered(w, w.awaited)

\* Nobody is told twice.
ToldOnce(w) ==
    ~w.torn => \A s \in Requests :
                  w.ended[s] <= 1 /\ (w.ended[s] = 1 => s \notin w.nl.handlers)

Core(w, n) ==
    /\ w \in Worlds
    /\ Numbered(w, n)
    /\ QueueOfDumps(w)
    /\ NoneForgotten(w, n)
    /\ ToldOnce(w)

\* As long as the socket takes the dumps, those from place k on have not been
\* sent.
UnsentFrom(w, k) ==
    ~w.torn => \A i \in k..Len(w.nl.queue) : ~Registered(w, w.nl.queue[i].seq)

\* The first one has.
HeadIsSent(w) == w.nl.queue # <<>> => Registered(w, w.nl.queue[1].seq)

\* The dump under way is timed, and may be sent again if it is to be.
Timed(w) ==
    /\ IF w.nl.pending THEN w.nl.queue # <<>> /\ w.nl.timer # w.nl.resend
       ELSE ~w.nl.timer /\ ~w.nl.resend
    /\ w.nl.resend => w.nl.queue[1].retries > 0

First(w) ==
    ~w.torn => /\ w.nl.pending <=> w.nl.queue # <<>>
               /\ w.nl.pending => w.nl.queue[1].seq = w.awaited

Turns(w) == UnsentFrom(w, 2) /\ HeadIsSent(w) /\ Timed(w) /\ First(w)

NetlinkInv == Core(World, next) /\ Turns(World) /\ faults <= MaxFaults
-----------------------------------------------------------------------------
(***************************************************************************)
(* What the methods return.                                                *)
(***************************************************************************)
\* The world is its variables, and has their types.
LEMMA WorldFields ==
    /\ World.nl = nl /\ World.dumps = dumps /\ World.kernel = kernel
    /\ World.ended = ended /\ World.awaited = awaited /\ World.torn = torn
    /\ World.faults = faults
  BY DEF World

\* Telling the end of requests changes who is told, and the handlers.
LEMMA EndFields ==
  ASSUME NEW w \in Worlds, NEW S \in SUBSET Requests
  PROVE  LET v == End(w, S)
         IN  /\ v \in Worlds
             /\ v.nl.queue = w.nl.queue /\ v.nl.pending = w.nl.pending
             /\ v.nl.timer = w.nl.timer /\ v.nl.resend = w.nl.resend
             /\ v.nl.handlers = w.nl.handlers \ S
             /\ v.dumps = w.dumps /\ v.awaited = w.awaited /\ v.torn = w.torn
             /\ v.faults = w.faults
             /\ \A s \in Requests :
                   v.ended[s] = IF s \in S \cap w.nl.handlers THEN w.ended[s] + 1
                                ELSE w.ended[s]
  <1> DEFINE e == [s \in Requests |-> IF s \in S \cap w.nl.handlers
                                      THEN w.ended[s] + 1 ELSE w.ended[s]]
             h == w.nl.handlers \ S
             x == w.nl.expired \ S
  <1>1. e \in [Requests -> Nat]
    BY DEF Worlds
  <1>2. w.nl \in Managers
    BY DEF Worlds
  <1>3. h \in SUBSET Requests /\ x \in SUBSET Requests
    BY <1>2 DEF Managers
  <1>4. End(w, S) = [w EXCEPT !.ended = e, !.nl.handlers = h, !.nl.expired = x]
    BY DEF End
  <1>5. \A s \in Requests :
           e[s] = IF s \in S \cap w.nl.handlers THEN w.ended[s] + 1 ELSE w.ended[s]
    OBVIOUS
  <1> HIDE DEF e, x
  <1> DEFINE m == [w.nl EXCEPT !.handlers = h, !.expired = x]
  <1>6. /\ m \in Managers
        /\ m.queue = w.nl.queue /\ m.pending = w.nl.pending /\ m.timer = w.nl.timer
        /\ m.resend = w.nl.resend /\ m.handlers = h
    BY <1>2, <1>3 DEF Managers
  <1>7. End(w, S) = [w EXCEPT !.ended = e, !.nl = m]
    BY <1>4 DEF Worlds
  <1> HIDE DEF m, h
  <1> QED BY <1>1, <1>5, <1>6, <1>7 DEF Worlds, h

\* A dump that is sent is under way, timed and awaited.
LEMMA SendFields ==
  ASSUME NEW w \in Worlds, NEW s \in Requests, NEW ok \in BOOLEAN
  PROVE  LET v == SendMessageInternal(w, s, ok)
             sent == ok /\ s \in w.dumps
         IN  /\ v \in Worlds
             /\ v.nl.queue = w.nl.queue /\ v.nl.handlers = w.nl.handlers
             /\ v.nl.resend = w.nl.resend
             /\ v.nl.pending = (w.nl.pending \/ sent)
             /\ v.nl.timer = (w.nl.timer \/ sent)
             /\ v.awaited = IF sent THEN s ELSE w.awaited
             /\ v.dumps = w.dumps /\ v.ended = w.ended /\ v.torn = w.torn
  <1>1. CASE ~ok
    <2>1. SendMessageInternal(w, s, ok) = [w EXCEPT !.faults = w.faults + 1]
      BY <1>1 DEF SendMessageInternal
    <2>2. w.nl.pending \in BOOLEAN /\ w.nl.timer \in BOOLEAN /\ w.faults + 1 \in Nat
      BY DEF Worlds, Managers
    <2> QED BY <1>1, <2>1, <2>2 DEF Worlds
  <1>2. CASE ok
    <2> DEFINE k == [w.kernel EXCEPT ![s] = @ + 1]
               u == [w EXCEPT !.kernel = k]
    <2>1. k \in [Requests -> Nat]
      BY DEF Worlds
    <2>2. w.nl \in Managers /\ w.nl.pending \in BOOLEAN /\ w.nl.timer \in BOOLEAN
      BY DEF Worlds, Managers
    <2>3. [w EXCEPT !.kernel[s] = @ + 1] = u
      BY DEF Worlds
    <2> HIDE DEF k
    <2>4. /\ u \in Worlds /\ u.nl = w.nl /\ u.dumps = w.dumps /\ u.ended = w.ended
          /\ u.torn = w.torn /\ u.awaited = w.awaited
      BY <2>1 DEF Worlds
    <2> HIDE DEF u
    <2>5. CASE s \notin w.dumps
      <3>1. SendMessageInternal(w, s, ok) = u
        BY <1>2, <2>5, <2>3 DEF SendMessageInternal
      <3> QED BY <3>1, <2>2, <2>4, <2>5
    <2>6. CASE s \in w.dumps
      <3> DEFINE m == [u.nl EXCEPT !.pending = TRUE, !.timer = TRUE]
      <3>1. SendMessageInternal(w, s, ok)
               = [u EXCEPT !.nl.pending = TRUE, !.nl.timer = TRUE, !.awaited = s]
        BY <1>2, <2>6, <2>3 DEF SendMessageInternal
      <3>2. /\ m \in Managers /\ m.queue = w.nl.queue /\ m.handlers = w.nl.handlers
            /\ m.resend = w.nl.resend /\ m.pending /\ m.timer
        BY <2>2, <2>4 DEF Managers
      <3>3. SendMessageInternal(w, s, ok) = [u EXCEPT !.nl = m, !.awaited = s]
        BY <3>1, <2>4 DEF Worlds
      <3>4. s \in 0..MaxMessages
        BY NetlinkAssumption DEF Requests, NetlinkAssumption
      <3>5. m.pending = TRUE /\ m.timer = TRUE
        BY <3>2 DEF Managers
      <3> HIDE DEF m
      <3> QED BY <1>2, <2>4, <2>6, <3>2, <3>3, <3>4, <3>5 DEF Worlds
    <2> QED BY <2>5, <2>6
  <1> QED BY <1>1, <1>2

\* Before a request is sent, the handlers that have expired are told the end.
LEMMA RegisterFields ==
  ASSUME NEW w \in Worlds, NEW s \in Requests, NEW ok \in BOOLEAN
  PROVE  LET e == End(w, w.nl.expired)
             v == RegisterHandlersAndSendMessage(w, s, ok)
             sent == ok /\ s \in w.dumps
         IN  /\ e \in Worlds
             /\ s \in e.nl.handlers => v = e
             /\ s \notin e.nl.handlers =>
                  /\ v \in Worlds
                  /\ v.nl.queue = e.nl.queue /\ v.nl.resend = e.nl.resend
                  /\ v.nl.handlers = e.nl.handlers \cup {s}
                  /\ v.nl.pending = (e.nl.pending \/ sent)
                  /\ v.nl.timer = (e.nl.timer \/ sent)
                  /\ v.awaited = IF sent THEN s ELSE e.awaited
                  /\ v.dumps = e.dumps /\ v.ended = e.ended
                  /\ v.torn = (e.torn \/ (~ok /\ s \in w.dumps))
  <1> DEFINE e == End(w, w.nl.expired)
             torn1 == e.torn \/ (~ok /\ s \in w.dumps)
             h == e.nl.handlers \cup {s}
  <1>1. w.nl.expired \in SUBSET Requests
    BY DEF Worlds, Managers
  <1>2. e \in Worlds /\ e.dumps = w.dumps
    BY <1>1, EndFields
  <1>3. s \in e.nl.handlers => RegisterHandlersAndSendMessage(w, s, ok) = e
    BY DEF RegisterHandlersAndSendMessage
  <1>4. ASSUME s \notin e.nl.handlers
        PROVE  RegisterHandlersAndSendMessage(w, s, ok)
                 = SendMessageInternal([e EXCEPT !.nl.handlers = h, !.torn = torn1], s, ok)
    BY <1>4 DEF RegisterHandlersAndSendMessage
  <1> HIDE DEF e
  <1>5. e.nl \in Managers
    BY <1>2 DEF Worlds
  <1> DEFINE m == [e.nl EXCEPT !.handlers = h]
             u == [e EXCEPT !.nl = m, !.torn = torn1]
  <1>6. /\ m \in Managers /\ m.queue = e.nl.queue /\ m.handlers = h
        /\ m.resend = e.nl.resend /\ m.pending = e.nl.pending /\ m.timer = e.nl.timer
    BY <1>5 DEF Managers
  <1>7. [e EXCEPT !.nl.handlers = h, !.torn = torn1] = u
    BY <1>2 DEF Worlds
  <1>8. torn1 \in BOOLEAN
    BY <1>2 DEF Worlds
  <1> HIDE DEF m, h, torn1
  <1>9. /\ u \in Worlds /\ u.nl = m /\ u.torn = torn1 /\ u.dumps = e.dumps
        /\ u.ended = e.ended /\ u.awaited = e.awaited
    BY <1>2, <1>6, <1>8 DEF Worlds
  <1> HIDE DEF u
  <1>10. ASSUME s \notin e.nl.handlers
         PROVE  RegisterHandlersAndSendMessage(w, s, ok) = SendMessageInternal(u, s, ok)
    BY <1>10, <1>4, <1>7
  <1> QED BY <1>2, <1>3, <1>6, <1>9, <1>10, SendFields DEF h, torn1, e
-----------------------------------------------------------------------------
(***************************************************************************)
(* What the methods keep.                                                  *)
(***************************************************************************)
\* Telling the end keeps the bookkeeping, and what was sent stays sent.
LEMMA EndKeeps ==
  ASSUME NEW w, NEW n, Core(w, n), NEW S \in SUBSET Requests
  PROVE  LET v == End(w, S)
         IN  /\ Core(v, n)
             /\ \A s \in Requests : Registered(v, s) <=> Registered(w, s)
             /\ \A s : InQueue(v, s) <=> InQueue(w, s)
  <1> DEFINE v == End(w, S)
  <1>1. w \in Worlds
    BY DEF Core
  <1>2. /\ v \in Worlds
        /\ v.nl.queue = w.nl.queue /\ v.nl.handlers = w.nl.handlers \ S
        /\ v.dumps = w.dumps /\ v.awaited = w.awaited /\ v.torn = w.torn
        /\ \A s \in Requests :
              v.ended[s] = IF s \in S \cap w.nl.handlers THEN w.ended[s] + 1
                           ELSE w.ended[s]
    BY <1>1, EndFields
  <1> HIDE DEF v
  <1>3. \A s \in Requests : w.ended[s] \in Nat
    BY <1>1 DEF Worlds
  <1>4. \A s \in Requests : Registered(v, s) <=> Registered(w, s)
    BY <1>2, <1>3 DEF Registered
  <1>5. \A s : InQueue(v, s) <=> InQueue(w, s)
    BY <1>2 DEF InQueue
  <1>6. Numbered(v, n)
    <2>1. Numbered(w, n)
      BY DEF Core
    <2> QED BY <1>2, <2>1 DEF Numbered
  <1>7. QueueOfDumps(v)
    BY <1>2 DEF Core, QueueOfDumps
  <1>8. NoneForgotten(v, n)
    <2>1. NoneForgotten(w, n) /\ n \in 0..MaxMessages
      BY DEF Core, Numbered
    <2>2. \A s \in 1..n : s \in Requests
      BY <2>1, NetlinkAssumption DEF Requests, NetlinkAssumption
    <2>3. w.awaited # 0 => w.awaited \in Requests
      BY <1>1 DEF Worlds, Requests
    <2> QED BY <1>2, <1>4, <1>5, <2>1, <2>2, <2>3 DEF NoneForgotten
  <1>9. ToldOnce(v)
    BY <1>2, <1>3 DEF Core, ToldOnce
  <1> QED BY <1>2, <1>4, <1>5, <1>6, <1>7, <1>8, <1>9 DEF Core, v

\* The heads and places of a queue hold requests.
LEMMA QueueEntries ==
  ASSUME NEW w \in Worlds
  PROVE  /\ w.nl.queue \in Seq(Entries)
         /\ \A i \in 1..Len(w.nl.queue) :
               /\ w.nl.queue[i] \in Entries /\ w.nl.queue[i].seq \in Requests
               /\ w.nl.queue[i].retries \in 0..kMaxNlMessageRetries
         /\ w.nl.queue # <<>> => Len(w.nl.queue) >= 1 /\ 1 \in 1..Len(w.nl.queue)
  <1>1. w.nl.queue \in Seq(Entries)
    BY DEF Worlds, Managers, Entries
  <1>2. \A i \in 1..Len(w.nl.queue) : w.nl.queue[i] \in Entries
    BY <1>1
  <1> QED BY <1>1, <1>2 DEF Entries

\* Telling the end keeps whose turn it is.
LEMMA EndKeepsTurns ==
  ASSUME NEW w, NEW n, Core(w, n), NEW S \in SUBSET Requests
  PROVE  LET v == End(w, S)
         IN  /\ \A k \in {1, 2} : UnsentFrom(w, k) => UnsentFrom(v, k)
             /\ HeadIsSent(w) => HeadIsSent(v)
             /\ Timed(w) => Timed(v)
             /\ First(w) => First(v)
  <1> DEFINE v == End(w, S)
  <1>1. w \in Worlds
    BY DEF Core
  <1>2. /\ v.nl.queue = w.nl.queue /\ v.nl.pending = w.nl.pending
        /\ v.nl.timer = w.nl.timer /\ v.nl.resend = w.nl.resend
        /\ v.awaited = w.awaited /\ v.torn = w.torn
    BY <1>1, EndFields
  <1>3. \A s \in Requests : Registered(v, s) <=> Registered(w, s)
    BY EndKeeps
  <1> HIDE DEF v
  <1>4. \A k \in {1, 2} : UnsentFrom(w, k) => UnsentFrom(v, k)
    <2> SUFFICES ASSUME NEW k \in {1, 2}, UnsentFrom(w, k), ~w.torn,
                        NEW i \in k..Len(w.nl.queue)
                 PROVE  ~Registered(v, w.nl.queue[i].seq)
      BY <1>2 DEF UnsentFrom
    <2>1. i \in 1..Len(w.nl.queue)
      BY <1>1, QueueEntries
    <2> QED BY <1>1, <1>3, <2>1, QueueEntries DEF UnsentFrom
  <1>5. HeadIsSent(w) => HeadIsSent(v)
    BY <1>1, <1>2, <1>3, QueueEntries DEF HeadIsSent
  <1>6. Timed(w) => Timed(v)
    BY <1>2 DEF Timed
  <1>7. First(w) => First(v)
    BY <1>2 DEF First
  <1> QED BY <1>4, <1>5, <1>6, <1>7 DEF v

\* Sending a dump that waits in the queue, with none under way: it is the
\* first one and unsent, as long as the socket takes the dumps.
LEMMA RegisterTurns ==
  ASSUME NEW u, NEW n, Core(u, n), NEW s \in u.dumps, NEW ok \in BOOLEAN,
         InQueue(u, s), UnsentFrom(u, 1),
         ~u.nl.pending, ~u.nl.timer, ~u.nl.resend,
         u.nl.queue[1].seq # s => Registered(u, u.nl.queue[1].seq),
         ~u.torn => u.nl.queue[1].seq = s
  PROVE  LET r == RegisterHandlersAndSendMessage(u, s, ok)
         IN  Core(r, n) /\ Turns(r)
  <1> DEFINE e == End(u, u.nl.expired)
             r == RegisterHandlersAndSendMessage(u, s, ok)
  <1>1. u \in Worlds /\ u.nl.expired \in SUBSET Requests /\ s \in Requests
    BY DEF Core, Worlds, Managers
  <1>2. /\ Core(e, n)
        /\ \A t \in Requests : Registered(e, t) <=> Registered(u, t)
        /\ \A t : InQueue(e, t) <=> InQueue(u, t)
    BY <1>1, EndKeeps
  <1>3. UnsentFrom(e, 1)
    BY <1>1, EndKeepsTurns
  <1>4. /\ e.nl.queue = u.nl.queue /\ e.dumps = u.dumps /\ e.torn = u.torn
        /\ e.nl.pending = u.nl.pending /\ e.nl.timer = u.nl.timer
        /\ e.nl.resend = u.nl.resend
    BY <1>1, EndFields
  <1>5. /\ s \in e.nl.handlers => r = e
        /\ s \notin e.nl.handlers =>
             /\ r \in Worlds
             /\ r.nl.queue = e.nl.queue /\ r.nl.resend = e.nl.resend
             /\ r.nl.handlers = e.nl.handlers \cup {s}
             /\ r.nl.pending = (e.nl.pending \/ ok) /\ r.nl.timer = (e.nl.timer \/ ok)
             /\ r.awaited = IF ok THEN s ELSE e.awaited
             /\ r.dumps = e.dumps /\ r.ended = e.ended /\ r.torn = (e.torn \/ ~ok)
    BY <1>1, RegisterFields
  <1> HIDE DEF e, r
  <1>6. PICK i \in 1..Len(e.nl.queue) : e.nl.queue[i].seq = s
    BY <1>2 DEF InQueue
  <1>7. /\ e \in Worlds /\ Numbered(e, n) /\ QueueOfDumps(e) /\ NoneForgotten(e, n)
        /\ ToldOnce(e)
    BY <1>2 DEF Core
  <1>8. /\ e.nl.queue # <<>> /\ 1 \in 1..Len(e.nl.queue) /\ Len(e.nl.queue) \in Nat
        /\ e.nl.queue[1].seq \in Requests
    BY <1>6, <1>7, QueueEntries
  <1>9. ~e.torn => ~Registered(e, s)
    BY <1>3, <1>6 DEF UnsentFrom
  <1>10. CASE s \in e.nl.handlers
    <2>1. e.torn /\ Registered(e, s)
      BY <1>9, <1>10 DEF Registered
    <2>2. HeadIsSent(e)
      BY <1>2, <1>4, <1>8, <2>1 DEF HeadIsSent
    <2>3. UnsentFrom(e, 2) /\ Timed(e) /\ First(e)
      BY <1>4, <2>1 DEF UnsentFrom, Timed, First
    <2> QED BY <1>2, <1>5, <1>10, <2>2, <2>3 DEF Turns, r
  <1>11. CASE s \notin e.nl.handlers
    <2>0. ~r.torn => ~e.torn /\ ok
      BY <1>5, <1>11, Zenon
    <2>1. \A t \in Requests : Registered(r, t) <=> Registered(e, t) \/ t = s
      BY <1>5, <1>11 DEF Registered
    <2>2. \A t : InQueue(r, t) <=> InQueue(e, t)
      BY <1>5, <1>11 DEF InQueue
    <2>3. Numbered(r, n)
      BY <1>4, <1>5, <1>7, <1>11 DEF Numbered
    <2>4. QueueOfDumps(r)
      BY <1>5, <1>7, <1>11 DEF QueueOfDumps
    <2>5. NoneForgotten(r, n)
      <3>1. \A t \in 1..n : t \in Requests
        BY <1>7, NetlinkAssumption DEF Numbered, Requests, NetlinkAssumption
      <3>2. e.awaited # 0 => e.awaited \in Requests
        BY <1>7 DEF Worlds, Requests
      <3> QED BY <1>1, <1>5, <1>7, <1>11, <2>1, <2>2, <3>1, <3>2 DEF NoneForgotten
    <2>6. ToldOnce(r)
      <3>1. ~e.torn => e.ended[s] = 0
        BY <1>1, <1>7, <1>9 DEF Registered, Worlds
      <3>2. r.ended = e.ended /\ r.nl.handlers = e.nl.handlers \cup {s}
        BY <1>5, <1>11
      <3> QED BY <1>7, <2>0, <3>1, <3>2 DEF ToldOnce
    <2>7. UnsentFrom(r, 2)
      <3> SUFFICES ASSUME ~r.torn, NEW j \in 2..Len(e.nl.queue)
                   PROVE  ~Registered(r, e.nl.queue[j].seq)
        BY <1>5, <1>11 DEF UnsentFrom
      <3>1. ~e.torn /\ j \in 1..Len(e.nl.queue) /\ j # 1
        BY <1>8, <2>0
      <3>2. e.nl.queue[j].seq # s
        BY <1>4, <1>7, <1>8, <3>1 DEF QueueOfDumps
      <3>3. e.nl.queue[j].seq \in Requests /\ ~Registered(e, e.nl.queue[j].seq)
        BY <1>3, <1>7, <3>1, QueueEntries DEF UnsentFrom
      <3> QED BY <2>1, <3>2, <3>3
    <2>8. HeadIsSent(r)
      BY <1>2, <1>4, <1>5, <1>8, <1>11, <2>1 DEF HeadIsSent
    <2>9. Timed(r) /\ First(r)
      BY <1>4, <1>5, <1>8, <1>11 DEF Timed, First
    <2> QED
      BY <1>5, <1>11, <2>3, <2>4, <2>5, <2>6, <2>7, <2>8, <2>9 DEF Core, Turns, r
  <1> QED BY <1>10, <1>11

\* Sending the request n + 1 that is no dump.
LEMMA RegisterPlain ==
  ASSUME NEW w, NEW n, Core(w, n), Turns(w), n + 1 \in Requests, NEW ok \in BOOLEAN
  PROVE  LET r == RegisterHandlersAndSendMessage(w, n + 1, ok)
         IN  Core(r, n + 1) /\ Turns(r)
  <1> DEFINE s == n + 1
             e == End(w, w.nl.expired)
             r == RegisterHandlersAndSendMessage(w, s, ok)
  <1>1. w \in Worlds /\ w.nl.expired \in SUBSET Requests /\ n \in 0..MaxMessages
    BY DEF Core, Worlds, Managers, Numbered
  <1>2. Core(e, n)
    BY <1>1, EndKeeps
  <1>3. UnsentFrom(e, 2) /\ HeadIsSent(e) /\ Timed(e) /\ First(e)
    BY <1>1, EndKeepsTurns DEF Turns
  <1>4. e.dumps = w.dumps
    BY <1>1, EndFields
  <1>5. /\ e \in Worlds /\ Numbered(e, n) /\ QueueOfDumps(e) /\ NoneForgotten(e, n)
        /\ ToldOnce(e)
    BY <1>2 DEF Core
  <1> HIDE DEF e
  <1>6. s \notin e.nl.handlers /\ s \notin e.dumps /\ e.ended[s] = 0
    BY <1>1, <1>5 DEF Numbered
  <1>7. /\ r \in Worlds
        /\ r.nl.queue = e.nl.queue /\ r.nl.resend = e.nl.resend
        /\ r.nl.handlers = e.nl.handlers \cup {s}
        /\ r.nl.pending = (e.nl.pending \/ (ok /\ s \in w.dumps))
        /\ r.nl.timer = (e.nl.timer \/ (ok /\ s \in w.dumps))
        /\ r.awaited = e.awaited /\ r.dumps = e.dumps /\ r.ended = e.ended
        /\ r.torn = (e.torn \/ (~ok /\ s \in w.dumps))
    BY <1>1, <1>4, <1>6, RegisterFields DEF e
  <1> HIDE DEF r
  <1>8. /\ r.nl.pending <=> e.nl.pending
        /\ r.nl.timer <=> e.nl.timer
        /\ r.torn <=> e.torn
    BY <1>4, <1>6, <1>7, Zenon
  <1>9. r.nl.pending = e.nl.pending /\ r.nl.timer = e.nl.timer
    BY <1>5, <1>7, <1>8 DEF Worlds, Managers
  <1>10. \A t \in Requests : Registered(r, t) <=> Registered(e, t) \/ t = s
    BY <1>7 DEF Registered
  <1>11. \A t : InQueue(r, t) <=> InQueue(e, t)
    BY <1>7 DEF InQueue
  <1>12. \A t \in 1..s : t \in Requests /\ (t \in 1..n \/ t = s)
    BY <1>1, NetlinkAssumption DEF Requests, NetlinkAssumption
  <1>13. \A i \in 1..Len(e.nl.queue) : e.nl.queue[i].seq \in Requests /\ e.nl.queue[i].seq # s
    BY <1>5, <1>6, QueueEntries DEF QueueOfDumps
  <1>14. Numbered(r, s)
    <2>1. s \in 0..MaxMessages /\ s \in 1..s /\ (\A t \in 1..n : t \in 1..s)
      BY <1>1 DEF Requests
    <2>2. r.dumps \subseteq 1..s
      BY <1>5, <1>7, <2>1 DEF Numbered
    <2>3. r.nl.handlers \subseteq 1..s
      BY <1>5, <1>7, <2>1 DEF Numbered
    <2>4. ASSUME NEW t \in Requests, t > s PROVE r.ended[t] = 0
      <3>1. t > n
        BY <1>1, <2>4 DEF Requests
      <3> QED BY <1>5, <1>7, <3>1 DEF Numbered
    <2> QED BY <2>1, <2>2, <2>3, <2>4 DEF Numbered
  <1>15. QueueOfDumps(r)
    BY <1>5, <1>7 DEF QueueOfDumps
  <1>16. NoneForgotten(r, s)
    <2>1. e.awaited # 0 => e.awaited \in Requests
      BY <1>5 DEF Worlds, Requests
    <2>2. e.awaited # 0 => Registered(r, e.awaited)
      BY <1>5, <1>10, <2>1 DEF NoneForgotten
    <2>3. ASSUME NEW t \in 1..s PROVE InQueue(r, t) \/ Registered(r, t)
      BY <1>5, <1>10, <1>11, <1>12 DEF NoneForgotten
    <2> QED BY <1>7, <2>2, <2>3 DEF NoneForgotten
  <1>17. ToldOnce(r)
    BY <1>5, <1>6, <1>7, <1>8 DEF ToldOnce
  <1>18. UnsentFrom(r, 2)
    <2> SUFFICES ASSUME ~e.torn, NEW j \in 2..Len(e.nl.queue)
                 PROVE  ~Registered(r, e.nl.queue[j].seq)
      BY <1>7, <1>8 DEF UnsentFrom
    <2>1. j \in 1..Len(e.nl.queue)
      BY <1>5, QueueEntries
    <2> QED BY <1>3, <1>10, <1>13, <2>1 DEF UnsentFrom
  <1>19. HeadIsSent(r)
    BY <1>3, <1>5, <1>7, <1>10, QueueEntries DEF HeadIsSent
  <1>20. Timed(r)
    BY <1>3, <1>7, <1>9 DEF Timed
  <1>21. First(r)
    BY <1>3, <1>7, <1>8 DEF First
  <1> QED
    BY <1>7, <1>14, <1>15, <1>16, <1>17, <1>18, <1>19, <1>20, <1>21 DEF Core, Turns, r

\* Two worlds whose dumps, handlers and queue are the same, the retries aside.
Alike(v, w) ==
    /\ v \in Worlds
    /\ v.dumps = w.dumps /\ v.nl.handlers = w.nl.handlers /\ v.ended = w.ended
    /\ v.torn = w.torn /\ Len(v.nl.queue) = Len(w.nl.queue)
    /\ \A i \in 1..Len(w.nl.queue) : v.nl.queue[i].seq = w.nl.queue[i].seq

\* What is said of requests and handlers is the same in worlds alike.
LEMMA AlikeKeeps ==
  ASSUME NEW v, NEW w, NEW n, Core(w, n), Alike(v, w),
         v.awaited = w.awaited \/ Registered(w, v.awaited)
  PROVE  /\ Core(v, n)
         /\ UnsentFrom(w, 2) => UnsentFrom(v, 2)
         /\ HeadIsSent(w) => HeadIsSent(v)
  <1>1. w \in Worlds /\ v \in Worlds
    BY DEF Core, Alike
  <1>2. \A s : Registered(v, s) <=> Registered(w, s)
    BY DEF Alike, Registered
  <1>3. \A s : InQueue(v, s) <=> InQueue(w, s)
    BY DEF Alike, InQueue
  <1>4. Numbered(v, n)
    BY DEF Core, Alike, Numbered
  <1>5. QueueOfDumps(v)
    BY DEF Core, Alike, QueueOfDumps
  <1>6. NoneForgotten(v, n)
    BY <1>2, <1>3 DEF Core, NoneForgotten
  <1>7. ToldOnce(v)
    BY DEF Core, Alike, ToldOnce
  <1>8. UnsentFrom(w, 2) => UnsentFrom(v, 2)
    <2>1. Len(w.nl.queue) \in Nat
      BY <1>1, QueueEntries
    <2>2. \A i \in 2..Len(w.nl.queue) : v.nl.queue[i].seq = w.nl.queue[i].seq
      BY <2>1 DEF Alike
    <2> QED BY <1>2, <2>2 DEF UnsentFrom, Alike
  <1>9. HeadIsSent(w) => HeadIsSent(v)
    BY <1>1, <1>2, QueueEntries DEF HeadIsSent, Alike
  <1> QED BY <1>1, <1>4, <1>5, <1>6, <1>7, <1>8, <1>9 DEF Core

\* When the dump under way is over the next one is sent, and the queue is as it
\* should be, whether or not the tasks were when it was over.
LEMMA CompleteTurns ==
  ASSUME NEW w, NEW n, Core(w, n), UnsentFrom(w, 2), HeadIsSent(w),
         w.nl.queue # <<>>, NEW ok \in BOOLEAN
  PROVE  LET r == OnPendingDumpComplete(w, ok)
         IN  Core(r, n) /\ Turns(r)
  <1> DEFINE q == Tail(w.nl.queue)
             m == [w.nl EXCEPT !.pending = FALSE, !.timer = FALSE, !.resend = FALSE,
                               !.queue = q]
             u == [w EXCEPT !.nl = m]
  <1>1. /\ w \in Worlds /\ w.nl \in Managers /\ Numbered(w, n) /\ QueueOfDumps(w)
        /\ NoneForgotten(w, n) /\ ToldOnce(w)
    BY DEF Core, Worlds
  <1>2. /\ w.nl.queue \in Seq(Entries) /\ Len(w.nl.queue) \in Nat
        /\ Len(w.nl.queue) >= 1 /\ 1 \in 1..Len(w.nl.queue)
        /\ w.nl.queue[1].seq \in Requests
    BY <1>1, QueueEntries
  <1>3. /\ q \in Seq(Entries) /\ Len(q) = Len(w.nl.queue) - 1
        /\ \A i \in 1..Len(q) : i + 1 \in 1..Len(w.nl.queue) /\ q[i] = w.nl.queue[i + 1]
    BY <1>2
  <1> DEFINE x == [w EXCEPT !.nl.pending = FALSE, !.nl.timer = FALSE,
                            !.nl.resend = FALSE, !.nl.queue = Tail(@)]
  <1>4. /\ OnPendingDumpComplete(w, ok)
             = IF x.nl.queue = <<>> THEN x
               ELSE RegisterHandlersAndSendMessage(x, Head(x.nl.queue).seq, ok)
        /\ x = u
    <2>1. x = u
      BY <1>1 DEF Worlds
    <2> HIDE DEF u
    <2> QED BY <2>1 DEF OnPendingDumpComplete
  <1> HIDE DEF q, x
  <1>5. /\ m \in Managers /\ m.queue = q /\ m.handlers = w.nl.handlers
        /\ m.pending = FALSE /\ m.timer = FALSE /\ m.resend = FALSE
    BY <1>1, <1>3 DEF Managers, Entries
  <1> HIDE DEF m
  <1>6. /\ u \in Worlds /\ u.nl = m /\ u.dumps = w.dumps /\ u.ended = w.ended
        /\ u.awaited = w.awaited /\ u.torn = w.torn
    BY <1>1, <1>5 DEF Worlds
  <1> HIDE DEF u
  <1>7. OnPendingDumpComplete(w, ok)
          = IF u.nl.queue = <<>> THEN u
            ELSE RegisterHandlersAndSendMessage(u, Head(u.nl.queue).seq, ok)
    BY <1>4
  <1>8. \A s : Registered(u, s) <=> Registered(w, s)
    BY <1>5, <1>6 DEF Registered
  <1>9. \A s : InQueue(w, s) => InQueue(u, s) \/ s = w.nl.queue[1].seq
    <2> SUFFICES ASSUME NEW i \in 1..Len(w.nl.queue), i # 1
                 PROVE  InQueue(u, w.nl.queue[i].seq)
      BY DEF InQueue
    <2>1. i - 1 \in 1..Len(q) /\ q[i - 1] = w.nl.queue[i]
      BY <1>2, <1>3
    <2> QED BY <1>5, <1>6, <2>1 DEF InQueue
  <1>10. Core(u, n)
    <2>1. Numbered(u, n)
      BY <1>1, <1>5, <1>6 DEF Numbered
    <2>2. QueueOfDumps(u)
      <3>1. u.nl.queue = q /\ u.dumps = w.dumps
        BY <1>5, <1>6
      <3>2. ASSUME NEW i \in 1..Len(q), NEW j \in 1..Len(q), q[i].seq = q[j].seq
            PROVE  i = j
        <4>1. /\ i + 1 \in 1..Len(w.nl.queue) /\ j + 1 \in 1..Len(w.nl.queue)
              /\ w.nl.queue[i + 1].seq = w.nl.queue[j + 1].seq
          BY <1>3, <3>2
        <4>2. i + 1 = j + 1
          BY <1>1, <4>1 DEF QueueOfDumps
        <4> QED BY <4>2
      <3>3. \A i \in 1..Len(q) : q[i].seq \in w.dumps
        BY <1>1, <1>3 DEF QueueOfDumps
      <3> QED BY <3>1, <3>2, <3>3 DEF QueueOfDumps
    <2>3. NoneForgotten(u, n)
      BY <1>1, <1>2, <1>6, <1>8, <1>9 DEF NoneForgotten, HeadIsSent
    <2>4. ToldOnce(u)
      BY <1>1, <1>5, <1>6 DEF ToldOnce
    <2> QED BY <1>6, <2>1, <2>2, <2>3, <2>4 DEF Core
  <1>11. UnsentFrom(u, 1)
    <2> SUFFICES ASSUME ~w.torn, NEW i \in 1..Len(q) PROVE ~Registered(w, q[i].seq)
      BY <1>5, <1>6, <1>8 DEF UnsentFrom
    <2>1. i + 1 \in 2..Len(w.nl.queue) /\ q[i] = w.nl.queue[i + 1]
      BY <1>2, <1>3
    <2> QED BY <2>1 DEF UnsentFrom
  <1>12. CASE u.nl.queue = <<>>
    <2>1. HeadIsSent(u) /\ Timed(u) /\ First(u)
      BY <1>5, <1>6, <1>12 DEF HeadIsSent, Timed, First
    <2>2. UnsentFrom(u, 2)
      BY <1>12 DEF UnsentFrom
    <2> QED BY <1>7, <1>10, <1>12, <2>1, <2>2 DEF Turns
  <1>13. CASE u.nl.queue # <<>>
    <2> DEFINE s == u.nl.queue[1].seq
    <2>1. Head(u.nl.queue).seq = s /\ 1 \in 1..Len(u.nl.queue)
      BY <1>6, <1>13, QueueEntries
    <2>2. InQueue(u, s) /\ s \in u.dumps
      BY <1>10, <2>1 DEF InQueue, Core, QueueOfDumps
    <2> HIDE DEF s
    <2>3. LET r == RegisterHandlersAndSendMessage(u, s, ok)
          IN  Core(r, n) /\ Turns(r)
      BY <1>5, <1>6, <1>10, <1>11, <2>2, RegisterTurns DEF s
    <2> QED BY <1>7, <1>13, <2>1, <2>3
  <1> QED BY <1>12, <1>13

\* A dump is queued: at once its turn if nothing is under way.
LEMMA PushTurns ==
  ASSUME NEW w, NEW n, Core(w, n), Turns(w), n + 1 \in Requests, NEW ok \in BOOLEAN,
         NEW v,
         v = [w EXCEPT !.dumps = @ \cup {n + 1},
                       !.nl.queue = Append(@, [seq |-> n + 1,
                                               retries |-> kMaxNlMessageRetries])]
  PROVE  LET r == IF IsDumpPending(v) THEN v
                  ELSE RegisterHandlersAndSendMessage(v, n + 1, ok)
         IN  Core(r, n + 1) /\ Turns(r)
  <1> DEFINE s == n + 1
             entry == [seq |-> s, retries |-> kMaxNlMessageRetries]
             q == Append(w.nl.queue, entry)
             m == [w.nl EXCEPT !.queue = q]
             d == w.dumps \cup {s}
  <1>1. /\ w \in Worlds /\ w.nl \in Managers /\ Numbered(w, n) /\ QueueOfDumps(w)
        /\ NoneForgotten(w, n) /\ ToldOnce(w) /\ n \in 0..MaxMessages
    BY DEF Core, Worlds, Numbered
  <1>2. /\ w.nl.queue \in Seq(Entries) /\ Len(w.nl.queue) \in Nat
        /\ \A i \in 1..Len(w.nl.queue) : w.nl.queue[i].seq \in Requests
    BY <1>1, QueueEntries
  <1>3. entry \in Entries /\ entry.seq = s
    BY NetlinkAssumption DEF Entries, NetlinkAssumption
  <1> HIDE DEF entry
  <1>4. /\ q \in Seq(Entries) /\ Len(q) = Len(w.nl.queue) + 1 /\ q # <<>>
        /\ \A i \in 1..Len(w.nl.queue) : q[i] = w.nl.queue[i]
        /\ q[Len(w.nl.queue) + 1] = entry
    BY <1>2, <1>3
  <1>5. v = [w EXCEPT !.dumps = d, !.nl = m]
    BY <1>1 DEF Worlds, entry
  <1> HIDE DEF q
  <1>6. /\ m \in Managers /\ m.queue = q /\ m.handlers = w.nl.handlers
        /\ m.pending = w.nl.pending /\ m.timer = w.nl.timer /\ m.resend = w.nl.resend
    BY <1>1, <1>4 DEF Managers, Entries
  <1>7. d \in SUBSET Requests /\ d = w.dumps \cup {s}
    BY <1>1 DEF Worlds
  <1> HIDE DEF m, d
  <1>8. /\ v \in Worlds /\ v.nl = m /\ v.dumps = d /\ v.ended = w.ended
        /\ v.awaited = w.awaited /\ v.torn = w.torn
    BY <1>1, <1>5, <1>6, <1>7 DEF Worlds
  <1>9. \A t : Registered(v, t) <=> Registered(w, t)
    BY <1>6, <1>8 DEF Registered
  <1>10. ~Registered(w, s) /\ s \notin w.dumps
    BY <1>1 DEF Registered, Numbered
  <1>11. \A t : InQueue(w, t) \/ t = s => InQueue(v, t)
    <2>1. \A i \in 1..Len(w.nl.queue) : i \in 1..Len(q)
      BY <1>2, <1>4
    <2>2. Len(w.nl.queue) + 1 \in 1..Len(q)
      BY <1>2, <1>4
    <2> QED BY <1>3, <1>4, <1>6, <1>8, <2>1, <2>2 DEF InQueue
  <1>12. \A t \in 1..s : t \in Requests /\ (t \in 1..n \/ t = s)
    BY <1>1, NetlinkAssumption DEF Requests, NetlinkAssumption
  <1>13. \A i \in 1..Len(q) : i \in 1..Len(w.nl.queue) \/ i = Len(w.nl.queue) + 1
    BY <1>2, <1>4
  <1>14. Core(v, s)
    <2>1. Numbered(v, s)
      <3>1. s \in 0..MaxMessages /\ s \in 1..s /\ (\A t \in 1..n : t \in 1..s)
        BY <1>1 DEF Requests
      <3>2. v.dumps \subseteq 1..s /\ v.nl.handlers \subseteq 1..s
        BY <1>1, <1>6, <1>7, <1>8, <3>1 DEF Numbered
      <3>3. ASSUME NEW t \in Requests, t > s PROVE v.ended[t] = 0
        <4>1. t > n
          BY <1>1, <3>3 DEF Requests
        <4> QED BY <1>1, <1>8, <4>1 DEF Numbered
      <3> QED BY <3>1, <3>2, <3>3 DEF Numbered
    <2>2. QueueOfDumps(v)
      <3>1. \A i \in 1..Len(q) :
               /\ i \in 1..Len(w.nl.queue) => q[i].seq \in w.dumps
               /\ i \notin 1..Len(w.nl.queue) => q[i].seq = s
        BY <1>1, <1>3, <1>4, <1>13 DEF QueueOfDumps
      <3>2. \A i \in 1..Len(q) : q[i].seq \in v.dumps
        BY <1>7, <1>8, <3>1
      <3>3. ASSUME NEW i \in 1..Len(q), NEW j \in 1..Len(q), q[i].seq = q[j].seq
            PROVE  i = j
        <4>1. i \in 1..Len(w.nl.queue) /\ j \in 1..Len(w.nl.queue) => i = j
          BY <1>1, <1>4, <3>3 DEF QueueOfDumps
        <4>2. i \in 1..Len(w.nl.queue) <=> j \in 1..Len(w.nl.queue)
          BY <1>10, <3>1, <3>3
        <4> QED BY <1>13, <4>1, <4>2
      <3>4. v.nl.queue = q
        BY <1>6, <1>8
      <3> QED BY <3>2, <3>3, <3>4, ZenonT(60) DEF QueueOfDumps
    <2>3. NoneForgotten(v, s)
      BY <1>1, <1>8, <1>9, <1>11, <1>12 DEF NoneForgotten
    <2>4. ToldOnce(v)
      BY <1>1, <1>6, <1>8 DEF ToldOnce
    <2> QED BY <1>8, <2>1, <2>2, <2>3, <2>4 DEF Core
  <1>15. CASE IsDumpPending(v)
    <2>1. w.nl.pending /\ w.nl.queue # <<>> /\ 1 \in 1..Len(w.nl.queue)
      BY <1>1, <1>6, <1>8, <1>15, QueueEntries DEF IsDumpPending, Turns, Timed
    <2>2. UnsentFrom(v, 2)
      <3> SUFFICES ASSUME ~w.torn, NEW i \in 2..Len(q) PROVE ~Registered(w, q[i].seq)
        BY <1>6, <1>8, <1>9 DEF UnsentFrom
      <3>1. i \in 2..Len(w.nl.queue) \/ q[i].seq = s
        BY <1>2, <1>3, <1>4
      <3>2. i \in 2..Len(w.nl.queue) => q[i] = w.nl.queue[i]
        BY <1>2, <1>4
      <3> QED BY <1>10, <3>1, <3>2 DEF Turns, UnsentFrom
    <2>3. HeadIsSent(v)
      BY <1>4, <1>6, <1>8, <1>9, <2>1 DEF HeadIsSent, Turns
    <2>4. Timed(v) /\ First(v)
      BY <1>4, <1>6, <1>8, <2>1 DEF Timed, First, Turns
    <2> QED BY <1>14, <1>15, <2>2, <2>3, <2>4 DEF Turns
  <1>16. CASE ~IsDumpPending(v)
    <2>1. ~w.nl.pending /\ ~w.nl.timer /\ ~w.nl.resend
      BY <1>4, <1>6, <1>8, <1>16 DEF IsDumpPending, Turns, Timed
    <2>2. ~w.torn => w.nl.queue = <<>>
      BY <2>1 DEF Turns, First
    <2>3. ~w.torn => Len(w.nl.queue) = 0 /\ Len(q) = 1 /\ q[1] = entry
      BY <1>4, <2>2
    <2>4. UnsentFrom(v, 1)
      BY <1>3, <1>6, <1>8, <1>9, <1>10, <2>3 DEF UnsentFrom
    <2>5. v.nl.queue[1].seq # s => Registered(v, v.nl.queue[1].seq)
      <3>1. CASE w.nl.queue = <<>>
        BY <1>3, <1>4, <1>6, <1>8, <3>1
      <3>2. CASE w.nl.queue # <<>>
        <4>1. q[1] = w.nl.queue[1]
          BY <1>1, <1>4, <3>2, QueueEntries
        <4> QED BY <1>6, <1>8, <1>9, <3>2, <4>1 DEF Turns, HeadIsSent
      <3> QED BY <3>1, <3>2
    <2>6. s \in v.dumps /\ InQueue(v, s)
      BY <1>7, <1>8, <1>11
    <2>7. ~v.torn => v.nl.queue[1].seq = s
      BY <1>3, <1>6, <1>8, <2>3
    <2>8. ~v.nl.pending /\ ~v.nl.timer /\ ~v.nl.resend
      BY <1>6, <1>8, <2>1
    <2> HIDE DEF s
    <2>9. LET r == RegisterHandlersAndSendMessage(v, s, ok)
          IN  Core(r, s) /\ Turns(r)
      BY <1>14, <2>4, <2>5, <2>6, <2>7, <2>8, RegisterTurns
    <2> QED BY <1>16, <2>9 DEF s
  <1> QED BY <1>15, <1>16
-----------------------------------------------------------------------------
(***************************************************************************)
(* The actions.                                                            *)
(***************************************************************************)
\* The variables take the values of the world a method returns.
LEMMA Landed ==
  ASSUME NEW w, Becomes(w), next' \in 0..MaxMessages, Core(w, next'), Turns(w)
  PROVE  NetlinkInv'
  <1>1. w \in Worlds
    BY DEF Core
  <1>2. /\ nl' = w.nl /\ dumps' = w.dumps /\ kernel' = w.kernel /\ ended' = w.ended
        /\ awaited' = w.awaited /\ torn' = w.torn /\ faults' = w.faults
        /\ w.faults <= MaxFaults
    BY DEF Becomes
  <1>3. World' = [nl |-> w.nl, dumps |-> w.dumps, kernel |-> w.kernel, ended |-> w.ended,
                  awaited |-> w.awaited, torn |-> w.torn, faults |-> w.faults]
    BY <1>2 DEF World
  <1>4. World' = w
    BY <1>1, <1>3 DEF Worlds
  <1> QED BY <1>2, <1>4 DEF NetlinkInv

\* What NetlinkInv says of the variables.
LEMMA Standing ==
  ASSUME NetlinkInv
  PROVE  /\ Core(World, next) /\ Turns(World) /\ World \in Worlds
         /\ nl \in Managers /\ next \in 0..MaxMessages
         /\ nl.queue # <<>> => PendingDump(World) = nl.queue[1]
  <1>1. Core(World, next) /\ Turns(World) /\ World \in Worlds
    BY DEF NetlinkInv, Core
  <1>2. nl \in Managers
    BY <1>1, WorldFields DEF Worlds
  <1>3. next \in 0..MaxMessages
    BY <1>1 DEF Core, Numbered
  <1>4. nl.queue # <<>> => PendingDump(World) = nl.queue[1]
    BY <1>2, WorldFields DEF PendingDump, Managers
  <1> QED BY <1>1, <1>2, <1>3, <1>4

LEMMA SendKeeps ==
  ASSUME NetlinkInv, NEW dump \in BOOLEAN, NEW ok \in BOOLEAN, SendOrPostMessage(dump, ok)
  PROVE  NetlinkInv'
  <1> DEFINE s == next + 1
             entry == [seq |-> s, retries |-> kMaxNlMessageRetries]
             w == [World EXCEPT !.dumps = IF dump THEN @ \cup {s} ELSE @,
                                !.nl.queue = IF dump THEN Append(@, entry) ELSE @]
             r == IF dump /\ IsDumpPending(w) THEN w
                  ELSE RegisterHandlersAndSendMessage(w, s, ok)
  <1>1. next < MaxMessages /\ next' = s /\ Becomes(r)
    BY DEF SendOrPostMessage
  <1>2. next \in Nat /\ next' = next + 1 /\ next' \in Requests /\ next' \in 0..MaxMessages
    BY <1>1, Standing, NetlinkAssumption DEF Requests, NetlinkAssumption
  <1>3. CASE dump
    <2>1. w = [World EXCEPT !.dumps = @ \cup {s}, !.nl.queue = Append(@, entry)]
      BY <1>3
    <2> HIDE DEF w
    <2>2. LET x == IF IsDumpPending(w) THEN w
                   ELSE RegisterHandlersAndSendMessage(w, next + 1, ok)
          IN  Core(x, next + 1) /\ Turns(x)
      BY <1>2, <2>1, Standing, PushTurns
    <2>3. Core(r, next') /\ Turns(r)
      BY <1>2, <1>3, <2>2
    <2> HIDE DEF r
    <2> QED BY <1>1, <1>2, <2>3, Landed
  <1>4. CASE ~dump
    <2>1. w = World
      BY <1>4, Standing DEF Worlds, Managers
    <2>2. r = RegisterHandlersAndSendMessage(World, next + 1, ok)
      BY <1>4, <2>1
    <2> HIDE DEF w, r
    <2>3. Core(r, next') /\ Turns(r)
      BY <1>2, <2>2, Standing, RegisterPlain
    <2> QED BY <1>1, <1>2, <2>3, Landed
  <1> QED BY <1>3, <1>4

LEMMA RemoveKeeps ==
  ASSUME NetlinkInv, NEW s \in Requests, RemoveMessageHandler(s)
  PROVE  NetlinkInv'
  <1> DEFINE v == End(World, {s})
  <1>1. Becomes(v) /\ next' = next
    BY DEF RemoveMessageHandler
  <1>2. Core(World, next) /\ Turns(World) /\ next \in 0..MaxMessages
    BY Standing
  <1>3. Core(v, next)
    BY <1>2, EndKeeps
  <1>4. Turns(v)
    BY <1>2, EndKeepsTurns DEF Turns
  <1> HIDE DEF v
  <1> QED BY <1>1, <1>2, <1>3, <1>4, Landed

LEMMA ExpiryKeeps ==
  ASSUME NetlinkInv, NEW s \in Requests, HandlerExpires(s)
  PROVE  NetlinkInv'
  <1> DEFINE x == nl.expired \cup {s}
             m == [nl EXCEPT !.expired = x]
             v == [World EXCEPT !.nl = m]
  <1>1. Core(World, next) /\ Turns(World) /\ World \in Worlds /\ nl \in Managers
    BY Standing
  <1>2. x \in SUBSET Requests
    BY <1>1 DEF Managers
  <1>3. [World EXCEPT !.nl.expired = @ \cup {s}] = v
    BY <1>1, WorldFields DEF Worlds
  <1>4. Becomes(v) /\ next' = next
    BY <1>3 DEF HandlerExpires
  <1> HIDE DEF x
  <1>5. /\ m \in Managers /\ m.queue = nl.queue /\ m.handlers = nl.handlers
        /\ m.pending = nl.pending /\ m.timer = nl.timer /\ m.resend = nl.resend
    BY <1>1, <1>2 DEF Managers
  <1> HIDE DEF m
  <1>6. /\ v \in Worlds /\ v.nl = m /\ v.dumps = World.dumps /\ v.ended = World.ended
        /\ v.awaited = World.awaited /\ v.torn = World.torn
    BY <1>1, <1>5 DEF Worlds
  <1> HIDE DEF v
  <1>7. Alike(v, World)
    BY <1>5, <1>6, WorldFields DEF Alike
  <1>8. Core(v, next) /\ UnsentFrom(v, 2) /\ HeadIsSent(v)
    BY <1>1, <1>6, <1>7, AlikeKeeps DEF Turns
  <1>9. Timed(v)
    BY <1>1, <1>5, <1>6, WorldFields DEF Turns, Timed
  <1>10. First(v)
    BY <1>1, <1>5, <1>6, WorldFields DEF Turns, First
  <1> QED BY <1>4, <1>8, <1>9, <1>10, Standing, Landed DEF Turns

\* The end of a request is told, and then the dump under way is over.
LEMMA EndThenComplete ==
  ASSUME NEW w, NEW n, Core(w, n), UnsentFrom(w, 2), HeadIsSent(w),
         w.nl.queue # <<>>, NEW s \in Requests, NEW ok \in BOOLEAN
  PROVE  LET r == OnPendingDumpComplete(CallErrorHandler(w, s), ok)
         IN  Core(r, n) /\ Turns(r)
  <1> DEFINE v == End(w, {s})
  <1>1. Core(v, n) /\ UnsentFrom(v, 2) /\ HeadIsSent(v)
    BY EndKeeps, EndKeepsTurns
  <1>2. v.nl.queue # <<>>
    BY EndFields DEF Core
  <1> HIDE DEF v
  <1>3. LET r == OnPendingDumpComplete(v, ok) IN Core(r, n) /\ Turns(r)
    BY <1>1, <1>2, CompleteTurns
  <1> QED BY <1>3 DEF CallErrorHandler, v

LEMMA TimeoutKeeps ==
  ASSUME NetlinkInv, NEW ok \in BOOLEAN, OnPendingDumpTimeout(ok)
  PROVE  NetlinkInv'
  <1> DEFINE m == [nl EXCEPT !.timer = FALSE]
             v == [World EXCEPT !.nl = m]
             s == PendingDump(World).seq
             r == OnPendingDumpComplete(CallErrorHandler(v, s), ok)
  <1>1. Core(World, next) /\ Turns(World) /\ World \in Worlds /\ nl \in Managers
    BY Standing
  <1>2. nl.timer /\ nl.queue # <<>>
    BY <1>1, WorldFields DEF OnPendingDumpTimeout, Turns, Timed
  <1>3. [World EXCEPT !.nl.timer = FALSE] = v
    BY <1>1, WorldFields DEF Worlds
  <1>4. s \in Requests
    BY <1>1, <1>2, Standing, QueueEntries, WorldFields
  <1>5. m \in Managers /\ m.queue = nl.queue /\ m.handlers = nl.handlers
    BY <1>1 DEF Managers
  <1>6. Becomes(r) /\ next' = next
    BY <1>3 DEF OnPendingDumpTimeout
  <1> HIDE DEF m, s
  <1>7. /\ v \in Worlds /\ v.nl = m /\ v.dumps = World.dumps /\ v.ended = World.ended
        /\ v.awaited = World.awaited /\ v.torn = World.torn
    BY <1>1, <1>5 DEF Worlds
  <1> HIDE DEF v
  <1>8. Alike(v, World)
    BY <1>5, <1>7, WorldFields DEF Alike
  <1>9. Core(v, next) /\ UnsentFrom(v, 2) /\ HeadIsSent(v) /\ v.nl.queue # <<>>
    BY <1>1, <1>2, <1>5, <1>7, <1>8, AlikeKeeps DEF Turns
  <1>10. Core(r, next) /\ Turns(r)
    BY <1>4, <1>9, EndThenComplete
  <1> HIDE DEF r
  <1> QED BY <1>6, <1>10, Standing, Landed

LEMMA ResendKeeps ==
  ASSUME NetlinkInv, NEW ok \in BOOLEAN, NEW nextOk \in BOOLEAN, ResendPendingDumpMessage(ok, nextOk)
  PROVE  NetlinkInv'
  <1> DEFINE entry == [nl.queue[1] EXCEPT !.retries = @ - 1]
             q == [nl.queue EXCEPT ![1] = entry]
             m == [nl EXCEPT !.resend = FALSE, !.queue = q]
             w == [World EXCEPT !.nl = m]
             s == nl.queue[1].seq
             v == SendMessageInternal(w, s, ok)
  <1>1. /\ Core(World, next) /\ Turns(World) /\ World \in Worlds /\ nl \in Managers
        /\ next \in 0..MaxMessages
    BY Standing
  <1>2. nl.resend /\ nl.pending /\ nl.queue # <<>> /\ ~nl.timer /\ nl.queue[1].retries > 0
    <2>1. nl.resend /\ nl.pending /\ nl.queue # <<>> /\ nl.queue[1].retries > 0
      BY <1>1, WorldFields DEF ResendPendingDumpMessage, Turns, Timed
    <2>2. nl.timer # nl.resend /\ nl.timer \in BOOLEAN /\ nl.resend \in BOOLEAN
      BY <1>1, <2>1, WorldFields DEF Turns, Timed, Managers
    <2> QED BY <2>1, <2>2
  <1>3. /\ nl.queue \in Seq(Entries) /\ 1 \in 1..Len(nl.queue)
        /\ nl.queue[1] \in Entries /\ s \in Requests
    BY <1>1, <1>2, QueueEntries, WorldFields
  <1>4. entry \in Entries /\ entry.seq = s
    BY <1>2, <1>3, NetlinkAssumption DEF Entries, NetlinkAssumption
  <1>5. [World EXCEPT !.nl.resend = FALSE, !.nl.queue[1].retries = @ - 1] = w
    BY <1>1, WorldFields DEF Worlds, Managers
  <1> HIDE DEF entry
  <1>6. /\ q \in Seq(Entries) /\ Len(q) = Len(nl.queue) /\ q # <<>> /\ q[1] = entry
        /\ \A i \in 1..Len(nl.queue) : i # 1 => q[i] = nl.queue[i]
    BY <1>3, <1>4
  <1>7. \A i \in 1..Len(nl.queue) : q[i].seq = nl.queue[i].seq
    BY <1>4, <1>6
  <1> HIDE DEF q
  <1>8. /\ m \in Managers /\ m.queue = q /\ m.handlers = nl.handlers
        /\ m.pending = nl.pending /\ m.timer = nl.timer /\ m.resend = FALSE
    BY <1>1, <1>6 DEF Managers, Entries
  <1> HIDE DEF m
  <1>9. /\ w \in Worlds /\ w.nl = m /\ w.dumps = World.dumps /\ w.ended = World.ended
        /\ w.awaited = World.awaited /\ w.torn = World.torn
    BY <1>1, <1>8 DEF Worlds
  <1>10. PendingDump(w).seq = s
    BY <1>4, <1>6, <1>8, <1>9 DEF PendingDump
  <1> DEFINE r == IF ok THEN v
                  ELSE IF PendingDump(v).retries > 0 THEN [v EXCEPT !.nl.resend = TRUE]
                  ELSE OnPendingDumpComplete(CallErrorHandler(v, s), nextOk)
  <1>11. Becomes(r) /\ next' = next
    BY <1>5, <1>10 DEF ResendPendingDumpMessage
  <1> HIDE DEF w, s
  <1>12. s \in w.dumps
    BY <1>1, <1>3, <1>9, WorldFields DEF Core, QueueOfDumps, s
  <1>13. /\ v \in Worlds /\ v.nl.queue = q /\ v.nl.handlers = nl.handlers
         /\ v.nl.resend = FALSE
         /\ v.nl.pending = (nl.pending \/ (ok /\ s \in w.dumps))
         /\ v.nl.timer = (nl.timer \/ (ok /\ s \in w.dumps))
         /\ v.awaited = IF ok THEN s ELSE World.awaited
         /\ v.dumps = World.dumps /\ v.ended = World.ended /\ v.torn = World.torn
    BY <1>3, <1>8, <1>9, <1>12, SendFields
  <1> HIDE DEF v
  <1>14. v.nl.pending /\ (v.nl.timer <=> ok)
    BY <1>2, <1>12, <1>13, Zenon
  <1>15. Registered(World, s)
    BY <1>1, <1>2, WorldFields DEF Turns, HeadIsSent, s
  <1>16. Alike(v, World)
    BY <1>6, <1>7, <1>13, WorldFields DEF Alike
  <1>17. Core(v, next) /\ UnsentFrom(v, 2) /\ HeadIsSent(v)
    BY <1>1, <1>13, <1>15, <1>16, AlikeKeeps DEF Turns
  <1>18. v.nl.queue # <<>> /\ v.nl.queue[1] = entry /\ v.nl.queue[1].seq = s
    BY <1>4, <1>6, <1>13 DEF s
  <1>19. Core(r, next) /\ Turns(r)
    <2>1. CASE ok
      <3>1. r = v /\ v.nl.timer = TRUE
        BY <1>13, <1>14, <2>1 DEF Worlds, Managers
      <3>2. Timed(v)
        BY <1>13, <1>14, <1>18, <3>1 DEF Timed
      <3>3. First(v)
        BY <1>13, <1>14, <1>18, <2>1 DEF First
      <3> QED BY <1>17, <3>1, <3>2, <3>3 DEF Turns
    <2>2. CASE ~ok /\ PendingDump(v).retries > 0
      <3> DEFINE mm == [v.nl EXCEPT !.resend = TRUE]
                 x == [v EXCEPT !.nl = mm]
      <3>1. v.nl \in Managers
        BY <1>13 DEF Worlds
      <3>2. r = x
        BY <1>13, <2>2 DEF Worlds
      <3>3. /\ mm \in Managers /\ mm.queue = v.nl.queue /\ mm.handlers = v.nl.handlers
            /\ mm.pending = v.nl.pending /\ mm.timer = v.nl.timer /\ mm.resend = TRUE
        BY <3>1 DEF Managers
      <3> HIDE DEF mm, r
      <3>4. /\ x \in Worlds /\ x.nl = mm /\ x.dumps = v.dumps /\ x.ended = v.ended
            /\ x.awaited = v.awaited /\ x.torn = v.torn
        BY <1>13, <3>3 DEF Worlds
      <3> HIDE DEF x
      <3>5. Alike(x, v)
        BY <3>3, <3>4 DEF Alike
      <3>6. Core(x, next) /\ UnsentFrom(x, 2) /\ HeadIsSent(x)
        BY <1>17, <3>4, <3>5, AlikeKeeps
      <3>7. v.nl.timer = FALSE
        BY <1>14, <2>2, <3>1 DEF Managers
      <3>8. v.nl.queue[1].retries > 0
        BY <1>18, <2>2 DEF PendingDump
      <3>9. Timed(x)
        BY <1>14, <1>18, <3>3, <3>4, <3>7, <3>8 DEF Timed
      <3>10. First(x)
        BY <1>1, <1>2, <1>13, <1>14, <1>18, <2>2, <3>3, <3>4, WorldFields
           DEF First, Turns, s
      <3> QED BY <3>2, <3>6, <3>9, <3>10 DEF Turns
    <2>3. CASE ~ok /\ ~(PendingDump(v).retries > 0)
      <3>1. r = OnPendingDumpComplete(CallErrorHandler(v, s), nextOk)
        BY <2>3
      <3> HIDE DEF r
      <3> QED BY <1>3, <1>17, <1>18, <3>1, EndThenComplete
    <2> QED BY <2>1, <2>2, <2>3
  <1> HIDE DEF r
  <1> QED BY <1>1, <1>11, <1>19, Landed

\* What the kernel has left to answer is nobody else's concern.
LEMMA KernelKeeps ==
  ASSUME NetlinkInv, NEW k \in [Requests -> Nat], NEW w, w = [World EXCEPT !.kernel = k]
  PROVE  Core(w, next) /\ Turns(w) /\ w.nl = nl
  <1>1. Core(World, next) /\ Turns(World) /\ World \in Worlds
    BY Standing
  <1>2. /\ w \in Worlds /\ w.nl = World.nl /\ w.dumps = World.dumps
        /\ w.ended = World.ended /\ w.awaited = World.awaited /\ w.torn = World.torn
    BY <1>1 DEF Worlds
  <1>3. Alike(w, World)
    BY <1>2 DEF Alike
  <1>4. Core(w, next) /\ UnsentFrom(w, 2) /\ HeadIsSent(w)
    BY <1>1, <1>2, <1>3, AlikeKeeps DEF Turns
  <1>5. Timed(w) /\ First(w)
    BY <1>1, <1>2 DEF Turns, Timed, First
  <1> QED BY <1>2, <1>4, <1>5, WorldFields DEF Turns

\* The handler of the request is called, if there is one.
LEMMA HandleKeeps ==
  ASSUME NEW w, NEW n, Core(w, n), Turns(w), NEW s \in Requests, NEW reply
  PROVE  LET r == Handle(w, s, reply) IN Core(r, n) /\ Turns(r)
  <1>1. LET r == End(w, {s}) IN Core(r, n) /\ Turns(r)
    BY EndKeeps, EndKeepsTurns DEF Turns
  <1> QED BY <1>1 DEF Handle

LEMMA ReceivedKeeps ==
  ASSUME NetlinkInv, NEW s \in Requests, NEW reply, NEW ends \in BOOLEAN, NEW ok \in BOOLEAN,
         OnNlMessageReceived(s, reply, ends, ok)
  PROVE  NetlinkInv'
  <1> DEFINE k == [kernel EXCEPT ![s] = IF ends THEN @ - 1 ELSE @]
             w == [World EXCEPT !.kernel = k]
             r == IF ~EndsDump(w, s, reply) THEN Handle(w, s, reply)
                  ELSE IF reply = "busy" /\ PendingDump(w).retries > 0
                  THEN [w EXCEPT !.nl.timer = FALSE, !.nl.resend = TRUE]
                  ELSE Handle(OnPendingDumpComplete(w, ok), s, reply)
  <1>1. World \in Worlds /\ nl \in Managers /\ next \in 0..MaxMessages
    BY Standing
  <1>2. kernel[s] > 0 /\ next' = next
    BY DEF OnNlMessageReceived
  <1>3. k \in [Requests -> Nat]
    BY <1>1, <1>2, WorldFields DEF Worlds
  <1>4. [World EXCEPT !.kernel[s] = IF ends THEN @ - 1 ELSE @] = w
    BY <1>1, WorldFields DEF Worlds
  <1>5. Becomes(r)
    BY <1>4 DEF OnNlMessageReceived
  <1> HIDE DEF k
  <1>6. Core(w, next) /\ Turns(w) /\ w.nl = nl
    BY <1>3, KernelKeeps
  <1> HIDE DEF w
  <1>7. w \in Worlds
    BY <1>6 DEF Core
  <1>8. Core(r, next) /\ Turns(r)
    <2>1. CASE ~EndsDump(w, s, reply)
      BY <1>6, <2>1, HandleKeeps
    <2>2. CASE EndsDump(w, s, reply)
      <3>1. w.nl.queue # <<>> /\ w.nl.pending /\ PendingDump(w) = w.nl.queue[1]
        BY <1>7, <2>2, QueueEntries DEF EndsDump, IsDumpPending, PendingDump
      <3>2. CASE reply = "busy" /\ PendingDump(w).retries > 0
        <4> DEFINE m == [nl EXCEPT !.timer = FALSE, !.resend = TRUE]
                   x == [w EXCEPT !.nl = m]
        <4>1. r = x
          BY <1>6, <1>7, <2>2, <3>2 DEF Worlds
        <4>2. /\ m \in Managers /\ m.queue = nl.queue /\ m.handlers = nl.handlers
              /\ m.pending = nl.pending /\ m.timer = FALSE /\ m.resend = TRUE
          BY <1>1 DEF Managers
        <4> HIDE DEF m, r
        <4>3. /\ x \in Worlds /\ x.nl = m /\ x.dumps = w.dumps /\ x.ended = w.ended
              /\ x.awaited = w.awaited /\ x.torn = w.torn
          BY <1>7, <4>2 DEF Worlds
        <4> HIDE DEF x
        <4>4. Alike(x, w)
          BY <1>6, <4>2, <4>3 DEF Alike
        <4>5. Core(x, next) /\ UnsentFrom(x, 2) /\ HeadIsSent(x)
          BY <1>6, <4>3, <4>4, AlikeKeeps DEF Turns
        <4>6. Timed(x)
          BY <1>6, <3>1, <3>2, <4>2, <4>3 DEF Timed
        <4>7. First(x)
          BY <1>6, <4>2, <4>3 DEF Turns, First
        <4> QED BY <4>1, <4>5, <4>6, <4>7 DEF Turns
      <3>3. CASE ~(reply = "busy" /\ PendingDump(w).retries > 0)
        <4> DEFINE c == OnPendingDumpComplete(w, ok)
        <4>1. Core(c, next) /\ Turns(c)
          BY <1>6, <3>1, CompleteTurns DEF Turns
        <4>2. r = Handle(c, s, reply)
          BY <2>2, <3>3
        <4> HIDE DEF c, r
        <4> QED BY <4>1, <4>2, HandleKeeps
      <3> QED BY <3>2, <3>3
    <2> QED BY <2>1, <2>2
  <1> HIDE DEF r
  <1> QED BY <1>1, <1>2, <1>5, <1>8, Landed

LEMMA LostKeeps ==
  ASSUME NetlinkInv, NEW s \in Requests, RepliesAreLost(s)
  PROVE  NetlinkInv'
  <1> DEFINE k == [kernel EXCEPT ![s] = @ - 1]
             w == [World EXCEPT !.kernel = k]
  <1>1. World \in Worlds /\ next \in 0..MaxMessages
    BY Standing
  <1>2. kernel[s] > 0 /\ next' = next
    BY DEF RepliesAreLost
  <1>3. k \in [Requests -> Nat]
    BY <1>1, <1>2, WorldFields DEF Worlds
  <1>4. [World EXCEPT !.kernel[s] = @ - 1] = w
    BY <1>1, WorldFields DEF Worlds
  <1>5. Becomes(w)
    BY <1>4 DEF RepliesAreLost
  <1> HIDE DEF k
  <1>6. Core(w, next) /\ Turns(w)
    BY <1>3, KernelKeeps
  <1> HIDE DEF w
  <1> QED BY <1>1, <1>2, <1>5, <1>6, Landed
-----------------------------------------------------------------------------
LEMMA NetlinkInitInv == NetlinkInit => NetlinkInv
  <1> SUFFICES ASSUME NetlinkInit PROVE NetlinkInv
    OBVIOUS
  <1>1. nl.queue = <<>> /\ Len(nl.queue) = 0 /\ nl.queue \in Seq(Entries)
    BY DEF NetlinkInit
  <1>2. nl \in Managers
    BY <1>1 DEF NetlinkInit, Managers, Entries
  <1>3. kernel \in [Requests -> Nat] /\ ended \in [Requests -> Nat]
    BY DEF NetlinkInit
  <1>4. World \in Worlds
    <2>1. dumps \in SUBSET Requests /\ torn \in BOOLEAN
      BY DEF NetlinkInit
    <2>2. awaited \in 0..MaxMessages /\ faults \in Nat
      BY NetlinkAssumption DEF NetlinkInit, NetlinkAssumption
    <2> QED BY <1>2, <1>3, <2>1, <2>2 DEF World, Worlds
  <1>5. Numbered(World, next)
    BY NetlinkAssumption, WorldFields DEF NetlinkInit, Numbered, NetlinkAssumption
  <1>6. QueueOfDumps(World) /\ ToldOnce(World)
    BY <1>1, WorldFields DEF NetlinkInit, QueueOfDumps, ToldOnce
  <1>7. NoneForgotten(World, next)
    BY WorldFields DEF NetlinkInit, NoneForgotten
  <1>8. HeadIsSent(World) /\ Timed(World) /\ First(World)
    BY <1>1, WorldFields DEF NetlinkInit, HeadIsSent, Timed, First
  <1>9. UnsentFrom(World, 2)
    BY <1>1, WorldFields DEF UnsentFrom
  <1>10. faults <= MaxFaults
    BY NetlinkAssumption DEF NetlinkInit, NetlinkAssumption
  <1> QED BY <1>4, <1>5, <1>6, <1>7, <1>8, <1>9, <1>10 DEF NetlinkInv, Core, Turns

\* The invariant is inductive: no call, task or message of the kernel breaks it.
THEOREM NetlinkInvariance == NetlinkSpec => []NetlinkInv
  <1>1. NetlinkInv /\ [NetlinkNext]_netlinkVars => NetlinkInv'
    <2> SUFFICES ASSUME NetlinkInv, [NetlinkNext]_netlinkVars PROVE NetlinkInv'
      OBVIOUS
    <2>1. CASE TaskStep
      BY <2>1, TimeoutKeeps, ResendKeeps DEF TaskStep
    <2>2. CASE KernelStep
      BY <2>2, ReceivedKeeps, LostKeeps DEF KernelStep
    <2>3. CASE ClientStep
      BY <2>3, SendKeeps, RemoveKeeps, ExpiryKeeps DEF ClientStep
    <2>4. CASE UNCHANGED netlinkVars
      <3>1. World' = World /\ next' = next /\ faults' = faults
        BY <2>4 DEF netlinkVars, World
      <3> QED BY <3>1 DEF NetlinkInv
    <2> QED BY <2>1, <2>2, <2>3, <2>4 DEF NetlinkNext
  <1> QED BY <1>1, NetlinkInitInv, PTL DEF NetlinkSpec

\* Dumps take turns (netlink_manager.cc: pending_messages_, dump_pending_): at
\* most one is under way, it has one task that ends it or sends it again, and
\* as long as the socket takes the dumps it is the first in the queue.
THEOREM TurnsAreTaken == NetlinkSpec => []DumpsTakeTurns
  <1>1. NetlinkInv => DumpsTakeTurns
    <2> SUFFICES ASSUME NetlinkInv PROVE DumpsTakeTurns
      OBVIOUS
    <2>1. Core(World, next) /\ Turns(World) /\ World \in Worlds /\ nl \in Managers
      BY Standing
    <2>2. NetlinkTypeOK
      <3>1. faults \in 0..MaxFaults
        BY <2>1, WorldFields, NetlinkAssumption DEF NetlinkInv, Worlds, NetlinkAssumption
      <3> QED BY <2>1, <3>1, Standing, WorldFields DEF NetlinkTypeOK, Worlds
    <2>3. DumpIsTimed
      BY <2>1, WorldFields DEF Turns, Timed, DumpIsTimed
    <2>4. PendingDumpIsFirst
      BY <2>1, WorldFields, Standing DEF Turns, First, PendingDumpIsFirst
    <2> QED BY <2>2, <2>3, <2>4 DEF DumpsTakeTurns
  <1> QED BY <1>1, NetlinkInvariance, PTL

\* Every request of a client ends: it waits for its turn, its handler waits for
\* the answer or the client was told the end; and it is told once, as long as
\* the socket takes the dumps (RegisterHandlersAndSendMessage,
\* OnNlMessageReceived, OnPendingDumpTimeout, CallErrorHandler).
THEOREM ClientsAreAnswered == NetlinkSpec => []AnsweredOnce
  <1>1. NetlinkInv => AnsweredOnce
    <2> SUFFICES ASSUME NetlinkInv, NEW s \in 1..next
                 PROVE  /\ \/ Queued(s) /\ ~(nl.pending /\ s = awaited)
                           \/ s \in nl.handlers
                           \/ ended[s] > 0
                        /\ ~torn => ended[s] <= 1 /\ (ended[s] = 1 => s \notin nl.handlers)
      BY DEF AnsweredOnce
    <2>1. Core(World, next) /\ nl \in Managers /\ next \in 0..MaxMessages
      BY Standing
    <2>2. s \in Requests /\ s # 0
      BY <2>1, NetlinkAssumption DEF Requests, NetlinkAssumption
    <2>3. InQueue(World, s) => Queued(s)
      BY <2>1, WorldFields DEF InQueue, Queued, Managers
    <2>4. Registered(World, s) <=> s \in nl.handlers \/ ended[s] > 0
      BY WorldFields DEF Registered
    <2>5. ~Registered(World, s) => InQueue(World, s) /\ s # awaited
      BY <2>1, <2>2, WorldFields DEF Core, NoneForgotten
    <2>6. ~torn => ended[s] <= 1 /\ (ended[s] = 1 => s \notin nl.handlers)
      BY <2>1, <2>2, WorldFields DEF Core, ToldOnce
    <2> QED BY <2>3, <2>4, <2>5, <2>6
  <1> QED BY <1>1, NetlinkInvariance, PTL
-----------------------------------------------------------------------------
(***************************************************************************)
(* The orderly shutdown.  The inductive invariant ties the three places    *)
(* that record how far a quit has come: the phase of the daemon, the       *)
(* callback and timer of the hook table, and the posted stop task.         *)
(***************************************************************************)
\* Before Quit nothing has been reported; while quitting either the table
\* still owes a result and the timer is armed, or it has reported one and one
\* stop task is posted; afterwards nothing is left.
QuitPhase ==
    /\ daemon = "running" =>
          /\ table.results = <<>> /\ ~table.done /\ ~table.timer
          /\ stopTasks = 0
    /\ daemon = "quitting" =>
          \/ /\ table.results = <<>> /\ table.done /\ table.timer
             /\ stopTasks = 0
          \/ /\ table.results \in {<<"success">>, <<"timeout">>}
             /\ ~table.done /\ ~table.timer
             /\ stopTasks = 1
    /\ daemon = "exited" => ~table.done /\ ~table.timer /\ stopTasks = 0

\* The run waits for every modem it set out to terminate, but for those whose
\* entry was replaced, and a success means that it waits for none.
AwaitedOrReplaced ==
    /\ \A m \in owing : table.hook[m] = "started" \/ m \in replaced
    /\ table.results = <<"success">> => AllActionsComplete(table)

QuitInv == QuitTypeOK /\ QuitPhase /\ AwaitedOrReplaced

\* What the table operators return, stated once.
LEMMA RemoveTable ==
    ASSUME NEW t \in HookTables, NEW n \in Names
    PROVE  /\ Remove(t, n) \in HookTables
           /\ Remove(t, n).results = t.results
           /\ Remove(t, n).done = t.done
           /\ Remove(t, n).timer = t.timer
           /\ AllActionsComplete(t) => AllActionsComplete(Remove(t, n))
           /\ \A m \in Names \ {n} : Remove(t, n).hook[m] = t.hook[m]
  BY DEF Remove, HookTables, HookState, AllActionsComplete

\* Adding an action, which removes one of the same name first, ends no run.
LEMMA AddTable ==
    ASSUME NEW t \in HookTables, NEW n \in Names
    PROVE  /\ Add(t, n) \in HookTables
           /\ Add(t, n).results = t.results
           /\ Add(t, n).done = t.done
           /\ Add(t, n).timer = t.timer
           /\ AllActionsComplete(t) => AllActionsComplete(Add(t, n))
           /\ \A m \in Names \ {n} : Add(t, n).hook[m] = t.hook[m]
  BY DEF Add, HookTables, HookState, AllActionsComplete

\* Ending a run: one more result, no callback, no timer, the hooks unchanged.
LEMMA RunDoneTable ==
    ASSUME NEW t \in HookTables, NEW r \in Result
    PROVE  /\ RunDone(t, r) \in HookTables
           /\ RunDone(t, r).results = Append(t.results, r)
           /\ ~RunDone(t, r).done /\ ~RunDone(t, r).timer
           /\ RunDone(t, r).hook = t.hook
<1>1. Append(t.results, r) \in Seq(Result)
  BY DEF HookTables
<1> QED
  BY <1>1 DEF HookTables, RunDone

\* ActionComplete either leaves results, callback and timer alone or, with
\* the callback set and every action complete, ends the run with success.
LEMMA ActionCompleteTable ==
    ASSUME NEW t \in HookTables, NEW n \in Names
    PROVE  /\ ActionComplete(t, n) \in HookTables
           /\ AllActionsComplete(t) => AllActionsComplete(ActionComplete(t, n))
           /\ \A m \in Names \ {n} : ActionComplete(t, n).hook[m] = t.hook[m]
           /\ \/ /\ ActionComplete(t, n).results = t.results
                 /\ ActionComplete(t, n).done = t.done
                 /\ ActionComplete(t, n).timer = t.timer
              \/ /\ t.done
                 /\ ActionComplete(t, n).results = Append(t.results, "success")
                 /\ ~ActionComplete(t, n).done
                 /\ ~ActionComplete(t, n).timer
                 /\ AllActionsComplete(ActionComplete(t, n))
<1> DEFINE marked == [t EXCEPT !.hook[n] = IF @ = "started" THEN "completed" ELSE @]
           finished == RunDone(marked, "success")
<1>1. /\ marked \in HookTables
      /\ marked.results = t.results /\ marked.done = t.done
      /\ marked.timer = t.timer
      /\ AllActionsComplete(t) => AllActionsComplete(marked)
      /\ \A m \in Names \ {n} : marked.hook[m] = t.hook[m]
  BY DEF HookTables, HookState, AllActionsComplete
<1> HIDE DEF marked
<1>2. /\ finished \in HookTables
      /\ finished.results = Append(t.results, "success")
      /\ ~finished.done /\ ~finished.timer
      /\ finished.hook = marked.hook
  BY <1>1, RunDoneTable DEF Result
<1>3. ActionComplete(t, n) = IF AllActionsComplete(marked) /\ marked.done
                             THEN finished ELSE marked
  BY DEF ActionComplete, marked
<1>4. AllActionsComplete(marked) => AllActionsComplete(finished)
  BY <1>2 DEF AllActionsComplete
<1> HIDE DEF finished
<1> QED
  BY <1>1, <1>2, <1>3, <1>4

\* Everything the operators do to a table that is between two steps of a quit
\* when a modem's action is removed, after being reported complete or not.
LEMMA StopTable ==
    ASSUME NEW n \in Names, QuitInv, daemon # "exited",
           NEW t, t = Remove(table, n) \/ t = Remove(ActionComplete(table, n), n)
    PROVE  /\ t \in HookTables
           /\ AllActionsComplete(table) => AllActionsComplete(t)
           /\ \A m \in Names \ {n} : t.hook[m] = table.hook[m]
           /\ \/ /\ t.results = table.results
                 /\ t.done = table.done
                 /\ t.timer = table.timer
              \/ /\ table.done /\ table.results = <<>> /\ daemon = "quitting"
                 /\ t.results = <<"success">>
                 /\ ~t.done /\ ~t.timer
                 /\ AllActionsComplete(t)
<1> DEFINE a == ActionComplete(table, n)
<1>1. table \in HookTables
  BY DEF QuitInv, QuitTypeOK
<1>2. CASE t = Remove(table, n)
  BY <1>1, <1>2, RemoveTable
<1>3. CASE t = Remove(a, n)
  <2>1. a \in HookTables
    BY <1>1, ActionCompleteTable
  <2>2. table.done => table.results = <<>> /\ daemon = "quitting"
    BY DEF QuitInv, QuitTypeOK, QuitPhase
  <2>3. table.results = <<>> => Append(table.results, "success") = <<"success">>
    OBVIOUS
  <2> HIDE DEF a
  <2>4. /\ t \in HookTables /\ t.results = a.results /\ t.done = a.done
        /\ t.timer = a.timer
        /\ AllActionsComplete(a) => AllActionsComplete(t)
        /\ \A m \in Names \ {n} : t.hook[m] = a.hook[m]
    BY <2>1, <1>3, RemoveTable
  <2> QED
    BY <1>1, <2>1, <2>2, <2>3, <2>4, ActionCompleteTable DEF a
<1> QED
  BY <1>2, <1>3

\* The initial state satisfies the inductive invariant.
THEOREM QuitStarts == QuitInit => QuitInv
  BY FlapsAssumption
  DEF Modems, QuitInit, QuitInv, QuitTypeOK, QuitPhase, AwaitedOrReplaced,
      AllActionsComplete, EmptyTable,
      HookTables, HookState, Result, ModemState

\* Every event-loop task preserves the inductive invariant.
THEOREM QuitKeeps == QuitInv /\ [QuitNext]_quitVars => QuitInv'
<1> SUFFICES ASSUME QuitInv, [QuitNext]_quitVars PROVE QuitInv'
  OBVIOUS
<1> USE DEF Modems
<1>1. ASSUME NEW m \in Modems, NEW enable \in BOOLEAN, UserSetEnabled(m, enable)
      PROVE  QuitInv'
  BY <1>1, FlapsAssumption
  DEF QuitInv, QuitTypeOK, QuitPhase, AwaitedOrReplaced, AllActionsComplete, runVars,
      UserSetEnabled,
      SetEnabledChecked, Flap
<1>2. ASSUME NEW m \in Modems, NEW new \in ModemState, OnModemStateChanged(m, new)
      PROVE  QuitInv'
  <2>1. /\ table' \in HookTables
        /\ table'.results = table.results /\ table'.done = table.done
        /\ table'.timer = table.timer
        /\ AllActionsComplete(table) => AllActionsComplete(table')
        /\ \A n \in Modems \ {m} : table'.hook[n] = table.hook[n]
        /\ new # "enabled" => table' = table
    BY <1>2, AddTable DEF QuitInv, QuitTypeOK, OnModemStateChanged
  <2>2. AwaitedOrReplaced'
    <3>1. /\ owing' = owing /\ owing \subseteq Modems
          /\ replaced \subseteq replaced'
          /\ new = "enabled" /\ m \in owing => m \in replaced'
      BY <1>2 DEF QuitInv, QuitTypeOK, OnModemStateChanged
    <3> QED
      BY <2>1, <3>1 DEF QuitInv, AwaitedOrReplaced, AllActionsComplete
  <2>3. QuitPhase'
    BY <1>2, <2>1 DEF QuitInv, QuitPhase, OnModemStateChanged
  <2>4. pending' \in [Modems -> BOOLEAN]
    <3>1. (new = "enabled") \in BOOLEAN
      OBVIOUS
    <3> QED
      BY <1>2, <3>1
      DEF QuitInv, QuitTypeOK, OnModemStateChanged, SetEnabledChecked
  <2>5. /\ op' \in [Modems -> {"none", "starting", "stopping"}]
        /\ waiter' \in [Modems -> {"nobody", "user", "termination"}]
    BY <1>2 DEF QuitInv, QuitTypeOK, OnModemStateChanged, SetEnabledChecked
  <2>6. QuitTypeOK'
    <3>1. /\ modem' \in [Modems -> ModemState] /\ flaps' \in 0..MaxFlaps
          /\ owing' \subseteq Modems /\ replaced' \subseteq Modems
      BY <1>2, FlapsAssumption DEF QuitInv, QuitTypeOK, OnModemStateChanged, Flap
    <3> QED
      BY <1>2, <2>1, <2>4, <2>5, <3>1 DEF QuitInv, QuitTypeOK, OnModemStateChanged
  <2> QED
    BY <2>2, <2>3, <2>6 DEF QuitInv
<1>3. ASSUME NEW m \in Modems, NEW ok \in BOOLEAN, StartModemCallback(m, ok)
      PROVE  QuitInv'
  BY <1>3
  DEF QuitInv, QuitTypeOK, QuitPhase, AwaitedOrReplaced, AllActionsComplete, runVars,
      StartModemCallback,
      EnabledStateChanged
<1>4. ASSUME NEW m \in Modems,
             NEW t,
                 \/ t = Remove(table, m)
                 \/ t = Remove(ActionComplete(table, m), m),
             SetTable(t), daemon # "exited", daemon' = daemon,
             owing' = owing \ {m}, replaced' = replaced
      PROVE  /\ table' \in HookTables /\ stopTasks' \in Nat
             /\ QuitPhase' /\ AwaitedOrReplaced'
  <2>0. \A n \in owing' : t.hook[n] = "started" \/ n \in replaced'
    BY <1>4, StopTable DEF QuitInv, QuitTypeOK, AwaitedOrReplaced
  <2>1. /\ table' = t
        /\ stopTasks' = stopTasks + (Len(t.results) - Len(table.results))
    BY <1>4 DEF SetTable, CompletionsPosted
  <2>2. Len(<<"success">>) = 1 /\ Len(<<>>) = 0 /\ <<"success">> # <<>>
    OBVIOUS
  <2>3. CASE t.results = table.results /\ t.done = table.done /\ t.timer = table.timer
    <3>1. Len(table.results) \in Nat /\ stopTasks \in Nat
      BY DEF QuitInv, QuitTypeOK, HookTables
    <3>2. stopTasks' = stopTasks
      BY <2>1, <2>3, <3>1
    <3> QED
      BY <1>4, <2>0, <2>1, <2>3, <3>1, <3>2, StopTable
      DEF QuitInv, QuitPhase, AwaitedOrReplaced, AllActionsComplete
  <2>4. CASE /\ table.done /\ table.results = <<>> /\ daemon = "quitting"
             /\ t.results = <<"success">> /\ ~t.done /\ ~t.timer
             /\ AllActionsComplete(t)
    <3>1. stopTasks = 0
      BY <2>4 DEF QuitInv, QuitPhase
    <3>2. stopTasks' = 1
      BY <2>1, <2>2, <2>4, <3>1
    <3> QED
      <4>1. table' \in HookTables
        BY <1>4, <2>1, StopTable
      <4>2. QuitPhase'
        BY <1>4, <2>1, <2>4, <3>2 DEF QuitPhase
      <4>3. AwaitedOrReplaced'
        BY <2>0, <2>1, <2>4 DEF AwaitedOrReplaced, AllActionsComplete
      <4> QED
        BY <3>2, <4>1, <4>2, <4>3
  <2> QED
    BY <1>4, <2>3, <2>4, StopTable
<1>5. ASSUME NEW m \in Modems, NEW ok \in BOOLEAN, StopModemCallback(m, ok)
      PROVE  QuitInv'
  <2>1. /\ table' \in HookTables /\ stopTasks' \in Nat
        /\ QuitPhase' /\ AwaitedOrReplaced'
    BY <1>4, <1>5 DEF StopModemCallback
  <2> QED
    BY <1>5, <2>1 DEF QuitInv, QuitTypeOK, StopModemCallback, EnabledStateChanged
<1>6. ASSUME NEW m \in Modems, ModemVanishes(m)
      PROVE  QuitInv'
  <2>1. /\ table' \in HookTables /\ stopTasks' \in Nat
        /\ QuitPhase' /\ AwaitedOrReplaced'
    BY <1>4, <1>6 DEF ModemVanishes
  <2> QED
    BY <1>6, <2>1, FlapsAssumption DEF QuitInv, QuitTypeOK, ModemVanishes, Flap
<1>7. CASE QuitAtOnce
  BY <1>7
  DEF QuitInv, QuitTypeOK, QuitPhase, AwaitedOrReplaced, AllActionsComplete, runVars,
      QuitAtOnce, modemVars
<1>8. CASE QuitAndWait
  <2>1. /\ table' \in HookTables
        /\ table'.results = table.results /\ table'.done /\ table'.timer
        /\ \A m \in Modems : table.hook[m] # "absent" => table'.hook[m] = "started"
    BY <1>8
    DEF QuitAndWait, BeginRun, IsEmpty, HookTables, HookState, QuitInv, QuitTypeOK
  <2>2. table.results = <<>>
    BY <1>8 DEF QuitInv, QuitPhase, QuitAndWait
  <2>3. AwaitedOrReplaced'
    <3>1. <<"success">> # <<>>
      OBVIOUS
    <3> QED
      BY <1>8, <2>1, <2>2, <3>1 DEF AwaitedOrReplaced, QuitAndWait
  <2>4. QuitPhase'
    BY <1>8, <2>1, <2>2 DEF QuitInv, QuitPhase, QuitAndWait
  <2>5. QuitTypeOK'
    BY <1>8, <2>1 DEF QuitInv, QuitTypeOK, QuitAndWait, StartTerminationOn
  <2> QED
    BY <2>3, <2>4, <2>5 DEF QuitInv
<1>9. CASE TerminationTimeout
  <2>1. /\ table.done /\ table.results = <<>> /\ stopTasks = 0
        /\ daemon = "quitting" /\ table \in HookTables
    BY <1>9 DEF QuitInv, QuitTypeOK, QuitPhase, TerminationTimeout
  <2>2. /\ table' = RunDone(table, "timeout")
        /\ stopTasks' = stopTasks + (Len(table'.results) - Len(table.results))
    BY <1>9
    DEF TerminationTimeout, SetTable, CompletionsPosted, ActionsTimedOut
  <2>3. /\ table' \in HookTables /\ table'.results = <<"timeout">>
        /\ table'.hook = table.hook
        /\ ~table'.done /\ ~table'.timer
    BY <2>1, <2>2, RunDoneTable DEF Result
  <2>4. stopTasks' = 1
    <3>1. Len(<<"timeout">>) = 1 /\ Len(<<>>) = 0
      OBVIOUS
    <3>2. Len(table'.results) = 1 /\ Len(table.results) = 0
      BY <2>1, <2>3, <3>1
    <3>3. stopTasks' = 0 + (1 - 0)
      BY <2>1, <2>2, <3>2
    <3> QED
      BY <3>3
  <2>5. QuitPhase' /\ AwaitedOrReplaced'
    <3>1. <<"success">> # <<"timeout">>
      OBVIOUS
    <3>2. QuitPhase'
      BY <1>9, <2>1, <2>3, <2>4 DEF QuitPhase, TerminationTimeout
    <3>3. AwaitedOrReplaced'
      BY <1>9, <2>3, <3>1 DEF QuitInv, AwaitedOrReplaced, TerminationTimeout, runVars
    <3> QED
      BY <3>2, <3>3
  <2> QED
    BY <1>9, <2>3, <2>4, <2>5
    DEF QuitInv, QuitTypeOK, TerminationTimeout, modemVars, runVars
<1>10. CASE StopAndReturnToMain
  BY <1>10
  DEF QuitInv, QuitTypeOK, QuitPhase, AwaitedOrReplaced, AllActionsComplete, runVars,
      StopAndReturnToMain,
      modemVars
<1>11. CASE UNCHANGED quitVars
  BY <1>11
  DEF QuitInv, QuitTypeOK, QuitPhase, AwaitedOrReplaced, AllActionsComplete, runVars, quitVars
<1> QED
  BY <1>1, <1>2, <1>3, <1>5, <1>6, <1>7, <1>8, <1>9, <1>10, <1>11
  DEF QuitNext, ModemStep

\* The inductive invariant holds in every reachable state.
THEOREM QuitInvariance == QuitSpec => []QuitInv
  BY QuitStarts, QuitKeeps, PTL DEF QuitSpec

\* The timeout of HookTable::Run never finds a null done callback.
THEOREM TimeoutSafe == QuitSpec => []TimeoutHasCallback
<1>1. QuitInv => TimeoutHasCallback
  BY DEF QuitInv, QuitTypeOK, QuitPhase, TimeoutHasCallback
<1> QED
  BY <1>1, QuitInvariance, PTL

\* DaemonTask::StopAndReturnToMain runs at most once, whatever races.
THEOREM StopOnce == QuitSpec => []StopsAtMostOnce
<1>1. QuitInv => StopsAtMostOnce
  BY DEF QuitInv, QuitTypeOK, QuitPhase, StopsAtMostOnce
<1> QED
  BY <1>1, QuitInvariance, PTL

\* A run that reports success has every modem that it set out to terminate down
\* or gone, or has lost its entry to a newer one (HookTable::Add).
THEOREM SuccessEarned == QuitSpec => []SuccessIsEarned
<1>1. QuitInv => SuccessIsEarned
  BY DEF QuitInv, QuitTypeOK, AwaitedOrReplaced, AllActionsComplete, SuccessIsEarned,
     Modems
<1> QED
  BY <1>1, QuitInvariance, PTL

\* The run of the termination actions ends once, whatever races: the timeout
\* finds its callback and the daemon is stopped a single time.
THEOREM EndsOnce == QuitSpec => []RunEndsOnce
<1>1. QuitInv => QuitTypeOK
  BY DEF QuitInv
<1>2. QuitTypeOK /\ TimeoutHasCallback /\ StopsAtMostOnce => RunEndsOnce
  BY DEF RunEndsOnce
<1> QED
  BY <1>1, <1>2, QuitInvariance, TimeoutSafe, StopOnce, PTL
=============================================================================
