-------------------------- MODULE SuspendReadiness --------------------------
(***************************************************************************)
(* How shill decides that it is ready to suspend.  powerd announces a      *)
(* (dark) suspend to PowerManager; the Manager hands every device a        *)
(* callback that refers to a new ResultAggregator; when the last reference *)
(* is gone, or on a timeout, PowerManager reports readiness to powerd for  *)
(* whatever suspend id is current at that moment.                          *)
(*                                                                         *)
(* Devices are of three sorts.  A plain one runs the callback inside the   *)
(* call (Device::OnBeforeSuspend).  A WiFi device stores it in             *)
(* WakeOnWiFi::suspend_actions_done_callback_, replacing what was stored.  *)
(* A cellular one passes it to the asynchronous stop of its modem, or      *)
(* drops it.  Every step is one task of the event loop.                    *)
(***************************************************************************)
EXTENDS PowerManager, ResultAggregator, Sequences, FiniteSets

CONSTANTS
    Plain, WiFis, Modems,   \* the devices, by how they treat the callback
    MaxAnnouncements,       \* bound: (dark) suspend announcements by powerd
    MaxIncidents               \* bound: user requests, unplugged devices, restarts

ASSUME SuspendAssumption ==
    /\ MaxAnnouncements \in Nat
    /\ MaxIncidents \in Nat
    /\ Plain \cap WiFis = {} /\ Plain \cap Modems = {} /\ WiFis \cap Modems = {}

Devices == Plain \cup WiFis \cup Modems
Kinds == {"suspend", "dark"}
Ids == 0..MaxAnnouncements
NoCallback == 0

VARIABLES
    pm,         \* the PowerManager
    powerd,     \* powerd owns its name on the bus
    nextId,     \* the suspend id powerd announced last
    devices,    \* Manager::devices_
    aggs,       \* every ResultAggregator created, oldest first
    latest,     \* kind -> the aggregator of the last announcement acted on
    stored,     \* WiFi -> aggregator its stored callback refers to
    enabled,    \* Device::enabled_ of WiFis and modems
    pending,    \* Device::enabled_pending_ of modems
    persistent, \* Device::enabled_persistent_ of modems
    starts,     \* modem -> number of StartModem operations in flight
    stops,      \* modem -> StopModem operations in flight, as the aggregators
                \*   their callbacks refer to (NoCallback for a user's)
    reports,    \* what has been reported to powerd
    incidents,     \* user requests, unplugged devices and restarts so far
    hurried     \* powerd has announced or ended an attempt while shill still
                \*   worked on one

suspendVars == <<pm, powerd, nextId, devices, aggs, latest, stored, enabled, pending,
          persistent, starts, stops, reports, incidents, hurried>>
deviceVars == <<devices, stored, enabled, pending, persistent, starts, stops>>

Reports ==
    [kind : Kinds, id : Ids,
     current : BOOLEAN,         \* the aggregator was this attempt's own
     timedOut : BOOLEAN,        \* it was the timeout that reported
     unheard : SUBSET Devices,  \* devices that have not run its callback
     dropped : SUBSET Devices]  \* of these, the ones that never will

SuspendTypeOK ==
    /\ pm \in PowerManagers(Ids)
    /\ powerd \in BOOLEAN
    /\ nextId \in Ids
    /\ devices \subseteq Devices
    /\ aggs \in Seq(Aggregators(Kinds, Devices))
    /\ Len(aggs) <= nextId
    /\ latest \in [Kinds -> Ids]
    /\ stored \in [WiFis -> Ids]
    /\ enabled \in [WiFis \cup Modems -> BOOLEAN]
    /\ pending \in [Modems -> BOOLEAN]
    /\ persistent \in [Modems -> BOOLEAN]
    /\ starts \in [Modems -> Nat]
    /\ stops \in [Modems -> SUBSET Ids]
    /\ reports \subseteq Reports
    /\ incidents \in 0..MaxIncidents
    /\ hurried \in BOOLEAN

SuspendInit ==
    /\ pm = InitPowerManager
    /\ powerd = FALSE
    /\ nextId = 0
    /\ devices = Devices
    /\ aggs = <<>>
    /\ latest = [k \in Kinds |-> 0]
    /\ stored = [w \in WiFis |-> NoCallback]
    /\ enabled \in [WiFis \cup Modems -> BOOLEAN]
    /\ pending = [m \in Modems |-> enabled[m]]
    /\ persistent = [m \in Modems |-> enabled[m]]
    /\ starts = [m \in Modems |-> 0]
    /\ stops = [m \in Modems |-> {}]
    /\ reports = {}
    /\ incidents = 0
    /\ hurried = FALSE

Incident == incidents < MaxIncidents /\ incidents' = incidents + 1
-----------------------------------------------------------------------------
(***************************************************************************)
(* Readiness.  Manager::OnSuspendActionsComplete and its dark counterpart  *)
(* only forward to PowerManager.  Settle(as) ends a step: with the         *)
(* callbacks that are still held after it, every other live aggregator of  *)
(* as is destroyed, and those that fire report.                            *)
(***************************************************************************)
ReportsOf(p, last, kind, k, timedOut, unheard, dropped) ==
    IF ReportsReadiness(p, kind)
    THEN {[kind |-> kind, id |-> ReportedId(p, kind),
           current |-> k = last[kind], timedOut |-> timedOut,
           unheard |-> unheard, dropped |-> dropped]}
    ELSE {}

\* The callbacks that refer to aggregator k after the step.
Held(k) ==
    \/ \E w \in WiFis : stored'[w] = k
    \/ \E m \in Modems : k \in stops'[m]

Settle(as) ==
    LET dying == {k \in DOMAIN as : as[k].alive /\ ~Held(k)}
    IN  /\ aggs' = [k \in DOMAIN as |-> IF k \in dying THEN Destroy(as[k])
                                                      ELSE as[k]]
        /\ reports' = reports \cup
              UNION {ReportsOf(pm', latest', as[k].kind, k, FALSE,
                               as[k].owed \cap devices', as[k].dropped) :
                     k \in {j \in dying : FiresWhenDestroyed(as[j])}}

\* Run the callback that refers to aggregator k.
Ran(as, k, d) ==
    IF k = NoCallback THEN as ELSE [as EXCEPT ![k] = ReportResult(@, d)]
-----------------------------------------------------------------------------
(***************************************************************************)
(* A (dark) suspend announcement reaches the devices.  Inline are those    *)
(* that run the callback inside the call; enabled WiFis store it; modems   *)
(* that are enabled and not being disabled start to stop, and the other    *)
(* modems drop it (Device::SetEnabledChecked never runs it).               *)
(***************************************************************************)
Storing == {w \in WiFis : w \in devices /\ enabled[w]}

Stopping == {m \in Modems : m \in devices /\ enabled[m] /\ pending[m]}

Inline(kind) ==
    devices \ (Storing \cup IF kind = "suspend" THEN Modems ELSE {})

Announce(kind) ==
    LET k == Len(aggs) + 1
        mine == IF kind = "suspend" THEN Stopping ELSE {}
        losers == IF kind = "suspend" THEN (Modems \cap devices) \ Stopping ELSE {}
        new == NewAggregator(kind, devices, Inline(kind), losers)
    IN  IF devices = {}
        THEN /\ latest' = [latest EXCEPT ![kind] = 0]
             /\ reports' = reports \cup
                           ReportsOf(pm', latest', kind, 0, FALSE, {}, {})
             /\ UNCHANGED <<aggs, deviceVars>>
        ELSE /\ latest' = [latest EXCEPT ![kind] = k]
             /\ stored' = [w \in WiFis |-> IF w \in Storing THEN k ELSE stored[w]]
             /\ pending' = [m \in Modems |-> IF m \in mine THEN FALSE
                                                         ELSE pending[m]]
             /\ stops' = [m \in Modems |-> IF m \in mine THEN stops[m] \cup {k}
                                                        ELSE stops[m]]
             /\ UNCHANGED <<devices, enabled, persistent, starts>>
             /\ Settle(Append(aggs, new))

\* powerd may announce or end an attempt while shill still works on one.
ShillIsWorking == \E k \in DOMAIN aggs : aggs[k].alive /\ ~aggs[k].timedOut

PowerdMoves == powerd /\ hurried' = (hurried \/ ShillIsWorking)

PowerdAnnounces ==
    /\ PowerdMoves
    /\ nextId < MaxAnnouncements
    /\ nextId' = nextId + 1

OnSuspendImminent ==
    /\ PowerdAnnounces
    /\ pm' = SuspendImminent(pm, nextId')
    /\ IF RunsSuspendImminent(pm)
       THEN Announce("suspend")
       ELSE UNCHANGED <<aggs, latest, reports, deviceVars>>
    /\ UNCHANGED <<powerd, incidents>>

\* powerd announces the end of a dark resume only between a suspend
\* announcement and its end.
OnDarkSuspendImminent ==
    /\ PowerdAnnounces /\ pm.suspending
    /\ IF RunsDarkSuspendImminent(pm)
       THEN /\ pm' = DarkSuspendImminent(pm, nextId')
            /\ Announce("dark")
       ELSE UNCHANGED <<pm, aggs, latest, reports, deviceVars>>
    /\ UNCHANGED <<powerd, incidents>>

\* Manager::OnSuspendDone: every modem the user wants on is restarted without
\* regard to an operation in flight (Cellular::OnAfterResume calls
\* SetEnabledUnchecked).
ResumeDevices ==
    LET restarted == {m \in Modems : m \in devices /\ persistent[m]}
    IN  /\ pending' = [m \in Modems |-> IF m \in restarted THEN TRUE
                                                          ELSE pending[m]]
        /\ starts' = [m \in Modems |-> IF m \in restarted THEN starts[m] + 1
                                                         ELSE starts[m]]
        /\ UNCHANGED <<devices, stored, enabled, persistent, stops>>

OnSuspendDone ==
    /\ PowerdMoves /\ RunsSuspendDone(pm)
    /\ pm' = SuspendDone(pm)
    /\ ResumeDevices
    /\ UNCHANGED <<powerd, nextId, aggs, latest, reports, incidents>>

OnPowerManagerVanished ==
    /\ PowerdMoves /\ Incident
    /\ powerd' = FALSE
    /\ pm' = PowerManagerVanished(pm)
    /\ IF RunsSuspendDone(pm) THEN ResumeDevices ELSE UNCHANGED deviceVars
    /\ UNCHANGED <<nextId, aggs, latest, reports>>

OnPowerManagerAppeared(ok, darkOk) ==
    /\ ~powerd
    /\ powerd' = TRUE
    /\ pm' = PowerManagerAppeared(pm, ok, darkOk)
    /\ UNCHANGED <<nextId, deviceVars, aggs, latest, reports, incidents, hurried>>
-----------------------------------------------------------------------------
\* WakeOnWiFi runs and resets its stored callback.
WiFiActionsDone(w) ==
    /\ w \in devices /\ stored[w] # NoCallback
    /\ stored' = [stored EXCEPT ![w] = NoCallback]
    /\ UNCHANGED <<pm, powerd, nextId, devices, latest, enabled, pending,
                   persistent, starts, stops, incidents, hurried>>
    /\ Settle(Ran(aggs, stored[w], w))

\* Device::OnEnabledStateChanged: the target is the enabled_pending_ of now,
\* not that of the operation that has ended.
EnabledStateChanged(m, ok) ==
    /\ enabled' = [enabled EXCEPT ![m] = IF ok THEN pending[m] ELSE @]
    /\ pending' = [pending EXCEPT ![m] = enabled'[m]]

StartModemCallback(m, ok) ==
    /\ m \in devices /\ starts[m] > 0
    /\ starts' = [starts EXCEPT ![m] = @ - 1]
    /\ EnabledStateChanged(m, ok)
    /\ UNCHANGED <<pm, powerd, nextId, devices, aggs, latest, stored,
                   persistent, stops, reports, incidents, hurried>>

StopModemCallback(m, k, ok) ==
    /\ m \in devices /\ k \in stops[m]
    /\ stops' = [stops EXCEPT ![m] = @ \ {k}]
    /\ EnabledStateChanged(m, ok)
    /\ UNCHANGED <<pm, powerd, nextId, devices, latest, stored, persistent,
                   starts, incidents, hurried>>
    /\ Settle(Ran(aggs, k, m))

\* ResultAggregator::Timeout.
AggregatorTimesOut(k) ==
    /\ k \in DOMAIN aggs /\ CanTimeOut(aggs[k])
    /\ aggs' = [aggs EXCEPT ![k] = Timeout(@)]
    /\ reports' = reports \cup
          ReportsOf(pm, latest, aggs[k].kind, k, TRUE, aggs[k].owed \cap devices,
                    aggs[k].dropped)
    /\ UNCHANGED <<pm, powerd, nextId, latest, deviceVars, incidents, hurried>>

\* Device::SetEnabledPersistent by a client.  A WiFi device changes at once.
UserSetsWiFi(w) ==
    /\ w \in devices /\ Incident
    /\ enabled' = [enabled EXCEPT ![w] = ~@]
    /\ UNCHANGED <<pm, powerd, nextId, devices, aggs, latest, stored, pending,
                   persistent, starts, stops, reports, hurried>>

UserSetsModem(m, enable) ==
    /\ m \in devices /\ Incident
    /\ enable # enabled[m] /\ enable # pending[m]
    /\ persistent' = [persistent EXCEPT ![m] = enable]
    /\ pending' = [pending EXCEPT ![m] = enable]
    /\ starts' = IF enable THEN [starts EXCEPT ![m] = @ + 1] ELSE starts
    /\ stops' = IF enable THEN stops
                ELSE [stops EXCEPT ![m] = @ \cup {NoCallback}]
    /\ UNCHANGED <<pm, powerd, nextId, devices, aggs, latest, stored, enabled,
                   reports, hurried>>

\* Manager::DeregisterDevice: the device is destroyed with the callbacks it
\* stored or passed on.
DeviceVanishes(d) ==
    /\ d \in devices /\ Incident
    /\ devices' = devices \ {d}
    /\ stored' = [w \in WiFis |-> IF w = d THEN NoCallback ELSE stored[w]]
    /\ starts' = [m \in Modems |-> IF m = d THEN 0 ELSE starts[m]]
    /\ stops' = [m \in Modems |-> IF m = d THEN {} ELSE stops[m]]
    /\ UNCHANGED <<pm, powerd, nextId, latest, enabled, pending, persistent,
                   hurried>>
    /\ Settle(aggs)

DeviceStep ==
    \/ \E w \in WiFis : WiFiActionsDone(w) \/ UserSetsWiFi(w)
    \/ \E m \in Modems, ok \in BOOLEAN :
          \/ StartModemCallback(m, ok)
          \/ \E k \in Ids : StopModemCallback(m, k, ok)
    \/ \E m \in Modems, enable \in BOOLEAN : UserSetsModem(m, enable)
    \/ \E d \in Devices : DeviceVanishes(d)

PowerdStep ==
    \/ OnSuspendImminent
    \/ OnDarkSuspendImminent
    \/ OnSuspendDone
    \/ OnPowerManagerVanished
    \/ \E ok, darkOk \in BOOLEAN : OnPowerManagerAppeared(ok, darkOk)

SuspendNext == PowerdStep \/ DeviceStep \/ \E k \in Ids : AggregatorTimesOut(k)

SuspendSpec == SuspendInit /\ [][SuspendNext]_suspendVars

\* A posted timeout expires: the only progress shill promises powerd.
SuspendFairSpec == SuspendSpec /\ \A k \in Ids : WF_suspendVars(AggregatorTimesOut(k))
-----------------------------------------------------------------------------
\* An aggregator reports at most once, although its timeout races the completion
\* of the last device and the replacement or destruction of the last reference
\* (result_aggregator.h:35), and never in the attempt of another: what powerd
\* hears is about the suspend it is waiting for, as long as it waits (the
\* aggregator of an attempt that powerd ended early does report under the id of
\* the next one).
ReadinessIsForThisAttempt ==
    /\ \A k \in DOMAIN aggs : aggs[k].fired <= 1
    /\ ~hurried => \A r \in reports : r.current

\* Unless it is the timeout that reports, every device that kept the callback
\* and still exists has finished its suspend actions.
ReadinessWaitsForDevices ==
    ~hurried =>
        \A r \in reports : ~r.timedOut => r.unheard \subseteq r.dropped

\* Once one device has reported, the attempt is answered, under its id or a
\* later one, or it ends first: neither the silent destruction of the
\* aggregator nor a callback that was replaced can leave powerd waiting.
Answered(id) == \E r \in reports : r.kind = "suspend" /\ r.id >= id
Heard ==
    LET k == latest["suspend"]
    IN  k # 0 /\ aggs[k].alive /\ aggs[k].got /\ ~aggs[k].timedOut
ReadinessIsReported ==
    \A id \in Ids \ {0} :
        (pm.suspending /\ pm.id = id /\ Heard)
            ~> (Answered(id) \/ ~pm.suspending)

\* What shill tells a powerd that waits for it is true: the report is for the
\* attempt under way (PowerManager::ReportSuspendReadiness), and no device that
\* kept the callback of the aggregator is still at work.
ReadinessIsTrue ==
    SuspendTypeOK /\ ReadinessIsForThisAttempt /\ ReadinessWaitsForDevices
=============================================================================
