----------------------------- MODULE WakeOnWiFi -----------------------------
(***************************************************************************)
(* What a WiFi device does with a suspend announcement (wake_on_wifi.cc):  *)
(* it programs the NIC with the events that may wake the system, verifies  *)
(* the programming, and only then lets the system suspend; in a dark       *)
(* resume it tries to reconnect first; on a full resume it disarms the     *)
(* NIC.  The module follows one WiFi device and one kernel driver.         *)
(*                                                                         *)
(* No task of shill runs while the system is asleep.  Whether the device   *)
(* is connected, how many SSIDs could be woken for and which clock window  *)
(* the dark resumes fall into are inputs of the handlers.                  *)
(***************************************************************************)
EXTENDS Naturals, Sequences

CONSTANTS
    MaxSsids,           \* wake_on_wifi_max_ssids_
    ForceWakeToScan,    \* force_wake_to_scan_timer_
    MaxSetRetries,      \* kMaxSetWakeOnPacketRetries
    MaxDarkResumes,     \* kMaxDarkResumesPerPeriodShort
    MaxScanRetries,     \* kMaxDarkResumeScanRetries
    WiphyAtStart,       \* NL80211_CMD_NEW_WIPHY is always received at the start
    MaxCycles,          \* bound: suspend and dark resume announcements
    MaxHastyCycles,     \* the same for a powerd that does not wait
    MaxFaults,          \* bound: kernel requests that fail
    MaxEvents,          \* bound: settings changed by clients
    MaxHastyEvents      \* the same for a powerd that does not wait

ASSUME WakeAssumption ==
    /\ MaxSsids \in Nat /\ MaxSetRetries \in Nat /\ MaxDarkResumes \in Nat \ {0}
    /\ MaxScanRetries \in Nat /\ MaxCycles \in Nat /\ MaxFaults \in Nat
    /\ MaxEvents \in Nat
    /\ ForceWakeToScan \in BOOLEAN /\ WiphyAtStart \in BOOLEAN
    /\ MaxHastyCycles \in 0..MaxCycles /\ MaxHastyEvents \in 0..MaxEvents

Triggers == {"pattern", "disconnect", "ssid"}
Reasons == Triggers \cup {"unsupported"}
Features == {"none", "packet", "darkconnect", "packet_and_darkconnect"}
SsidCounts == 0..(MaxSsids + 1)
Settings == [triggers : SUBSET Triggers, patterns : BOOLEAN, ssids : SsidCounts]
NoSettings == [triggers |-> {}, patterns |-> FALSE, ssids |-> 0]

VARIABLES
    phase,      \* awake, suspending, asleep, woken (dark resume), dark
    features,   \* wake_on_wifi_features_enabled_
    wiphy,      \* wiphy_index_received_, and the triggers are supported
    patterns,   \* wake_on_packet_connections_ is not empty
    patient,    \* powerd moves on only when the device is idle
    callback,   \* suspend_actions_done_callback_ is not null
    posted,     \* posted BeforeSuspendActions tasks, with their arguments
    inDark,     \* in_dark_resume_
    timeout,    \* dark_resume_actions_timeout_callback_ is armed
    reason,     \* last_wake_reason_
    reasonDue,  \* wakeup reason message on its way from the kernel
    scanRetries,\* dark_resume_scan_retries_left_
    history,    \* events in dark_resume_history_
    triggers,   \* wake_on_wifi_triggers_
    ssids,      \* wake_on_ssid_whitelist_.size()
    nic,        \* what the NIC is programmed with
    verify,     \* verify_wake_on_packet_settings_callback_ is armed
    replies,    \* replies to NL80211_CMD_GET_WOWLAN on their way
    errors,     \* error replies to NL80211_CMD_SET_WOWLAN on their way
    setRetries, \* num_set_wake_on_packet_retries_
    wakeToScan, \* wake_to_scan_timer_ is running
    lease,      \* dhcp_lease_renewal_timer_ is running
    crashed,    \* CHECK(wiphy_index_received_) has failed
    whitelisted,\* SSIDs in the list the current whitelist came from
    acted,      \* this announcement's actions: none yet, or taken with dark
                \*   connect disabled ("plain") or enabled ("dark")
    early,      \* the callback was run before they were
    stale,      \* an answer about an earlier announcement was due at this one
    lost,       \* nothing will verify what was programmed
    left,       \* what may still be armed while the system is up: nothing, the
                \*   "nic" that a resume did not reach, or what "actions" taken
                \*   since the resume have armed
    outcome,    \* result the callback of this announcement was run with
    cycles, faults, events

nicVars == <<nic, verify, errors, faults>>
doneVars == <<callback, early, outcome>>
timerVars == <<wakeToScan, lease>>
envVars == <<features, wiphy, patterns, patient>>
vars == <<phase, envVars, posted, inDark, timeout, reason, reasonDue,
          scanRetries, history, triggers, ssids, nicVars, replies, setRetries,
          timerVars, crashed, whitelisted, acted, doneVars, stale, lost, left,
          cycles, events>>

TypeOK ==
    /\ phase \in {"awake", "suspending", "asleep", "woken", "dark"}
    /\ features \in Features
    /\ posted \in Seq([connected : BOOLEAN, lease : BOOLEAN])
    /\ reason \in Reasons
    /\ reasonDue \in Reasons \cup {"none"}
    /\ scanRetries \in 0..MaxScanRetries
    /\ history \in 0..MaxDarkResumes
    /\ triggers \subseteq Triggers
    /\ ssids \in SsidCounts /\ whitelisted \in SsidCounts
    /\ nic \in Settings
    /\ replies \in Seq(Settings)
    /\ errors \in 0..MaxFaults
    /\ setRetries \in 0..MaxSetRetries
    /\ outcome \in {"none", "success", "error"}
    /\ cycles \in 0..MaxCycles /\ faults \in 0..MaxFaults /\ events \in 0..MaxEvents
    /\ acted \in {"none", "plain", "dark"}
    /\ {wiphy, patterns, patient, callback, inDark, timeout, verify, wakeToScan, lease,
        crashed, early, stale, lost} \subseteq BOOLEAN
    /\ left \in {"nothing", "nic", "actions"}

Init ==
    /\ phase = "awake"
    /\ features \in Features
    /\ wiphy \in {TRUE, WiphyAtStart}
    /\ patterns = FALSE
    /\ patient \in BOOLEAN
    /\ callback = FALSE
    /\ posted = <<>>
    /\ inDark = FALSE
    /\ timeout = FALSE
    /\ reason = "unsupported"
    /\ reasonDue = "none"
    /\ scanRetries = 0
    /\ history = 0
    /\ triggers = {}
    /\ ssids = 0
    /\ nic = NoSettings
    /\ verify = FALSE
    /\ replies = <<>>
    /\ errors = 0
    /\ setRetries = 0
    /\ wakeToScan = FALSE
    /\ lease = FALSE
    /\ crashed = FALSE
    /\ whitelisted = 0
    /\ acted = "none"
    /\ early = FALSE /\ stale = FALSE /\ lost = FALSE /\ left = "nothing"
    /\ outcome = "none"
    /\ cycles = 0 /\ faults = 0 /\ events = 0

Running == phase # "asleep" /\ ~crashed

\* Tasks posted without a delay run before any delay has passed.
TimePasses == posted = <<>>

\* WakeOnWiFiPacketEnabledAndSupported and its dark connect counterpart.
PacketEnabled == wiphy /\ features \in {"packet", "packet_and_darkconnect"}

DarkConnectEnabled ==
    wiphy /\ features \in {"darkconnect", "packet_and_darkconnect"}
-----------------------------------------------------------------------------
(***************************************************************************)
(* The done callback as a step finds it, or as the handler has set it by   *)
(* the time it is used: held, the result of this announcement so far, and  *)
(* whether this announcement's actions have been taken, or its callback    *)
(* run before they were.                                                   *)
(***************************************************************************)
Now == [held |-> callback, outcome |-> outcome, acted |-> acted # "none",
        early |-> early]
NewCallback == [held |-> TRUE, outcome |-> "none", acted |-> TRUE, early |-> FALSE]

Acted == acted' = IF DarkConnectEnabled THEN "dark" ELSE "plain"

KeepDone(d) ==
    callback' = d.held /\ outcome' = d.outcome /\ early' = d.early

\* No report is early for a system that stays up, or once the actions are taken.
AnyTime == [Now EXCEPT !.acted = TRUE]

\* A report of readiness that precedes this announcement's actions.
TooEarly(d) == d.held /\ ~d.acted /\ phase \in {"suspending", "dark"}

\* Mutant of RunDone: the callback is run on success only.
RunDoneOnSuccess(result, d) ==
    /\ callback' = (d.held /\ result # "success")
    /\ outcome' = IF d.held THEN result ELSE d.outcome
    /\ early' = (d.early \/ TooEarly(d))

\* RunAndResetSuspendActionsDoneCallback.
RunDone(result, d) ==
    /\ callback' = FALSE
    /\ outcome' = IF d.held THEN result ELSE d.outcome
    /\ early' = (d.early \/ TooEarly(d))

\* One NL80211_CMD_SET_WOWLAN: sent, with the verification posted; sent and
\* refused with an error reply or ignored by the driver; or not sent.
Fault == faults < MaxFaults /\ faults' = faults + 1

SendSettings(settings, d) ==
    \/ /\ nic' = settings /\ verify' = TRUE
       /\ KeepDone(d)
       /\ UNCHANGED <<errors, faults>>
    \/ /\ Fault /\ verify' = TRUE
       /\ errors' \in {errors, errors + 1}
       /\ KeepDone(d)
       /\ UNCHANGED nic
    \/ /\ Fault
       /\ RunDone("error", d)
       /\ UNCHANGED <<nic, verify, errors>>

\* DisableWakeOnWiFi, called with CHECK(wiphy_index_received_).
DisableWakeOnWiFi(d) ==
    /\ triggers' = {}
    /\ IF wiphy
       THEN SendSettings(NoSettings, d) /\ UNCHANGED crashed
       ELSE crashed' = TRUE /\ KeepDone(d) /\ UNCHANGED nicVars

SettingsFor(trigs, n) ==
    [triggers |-> trigs, patterns |-> "pattern" \in trigs,
     ssids |-> IF "ssid" \in trigs THEN n ELSE 0]

\* ApplyWakeOnWiFiSettings: nothing at all happens without a wiphy index, and
\* nothing will then run the callback.
ApplyWakeOnWiFiSettings(trigs, n, d) ==
    /\ triggers' = trigs
    /\ IF wiphy
       THEN SendSettings(IF trigs = {} THEN NoSettings ELSE SettingsFor(trigs, n),
                         d)
       ELSE KeepDone(d) /\ UNCHANGED nicVars
    /\ lost' = (lost \/ ~wiphy)
    /\ UNCHANGED crashed
-----------------------------------------------------------------------------
(***************************************************************************)
(* BeforeSuspendActions: choose the triggers, start or stop the timers     *)
(* that wake the system, and program the NIC unless there is nothing to    *)
(* program and this is a regular suspend.                                  *)
(***************************************************************************)
TriggersFor(connected, n) ==
    (IF patterns /\ PacketEnabled /\ connected THEN {"pattern"} ELSE {})
    \cup (IF DarkConnectEnabled /\ connected THEN {"disconnect"} ELSE {})
    \cup (IF DarkConnectEnabled /\ ~connected /\ n > 0 THEN {"ssid"} ELSE {})

NeedsWakeToScan(connected, n) ==
    DarkConnectEnabled /\ ~connected /\ (n > MaxSsids \/ ForceWakeToScan)

\* |n| is the size of the whitelist when the function is entered.
BeforeSuspendActions(connected, startLease, n) ==
    LET trigs == TriggersFor(connected, n)
        d == AnyTime
    IN  /\ Acted
        /\ left' = IF phase = "awake" THEN "actions" ELSE left
        /\ reason' = "unsupported"
        /\ timeout' = FALSE
        /\ ssids' = IF NeedsWakeToScan(connected, n) THEN MaxSsids ELSE n
        /\ wakeToScan' = ((wakeToScan \/ NeedsWakeToScan(connected, n))
                             /\ ~(DarkConnectEnabled /\ connected))
        /\ lease' = IF DarkConnectEnabled THEN connected /\ (lease \/ startLease)
                                         ELSE lease
        /\ IF ~inDark /\ trigs = {}
           THEN /\ RunDone("success", d)
                /\ triggers' = trigs
                /\ UNCHANGED <<inDark, nicVars, crashed, lost>>
           ELSE /\ inDark' = FALSE
                /\ ApplyWakeOnWiFiSettings(trigs, ssids', d)

RunPostedActions ==
    /\ Running /\ posted # <<>>
    /\ posted' = Tail(posted)
    /\ BeforeSuspendActions(Head(posted).connected, Head(posted).lease, ssids)
    /\ UNCHANGED <<phase, envVars, reasonDue, scanRetries, history, replies,
                   setRetries, whitelisted, stale, cycles, events>>

DarkResumeTimeout ==
    /\ Running /\ timeout /\ TimePasses
    /\ BeforeSuspendActions(FALSE, FALSE, ssids)
    /\ UNCHANGED <<phase, envVars, posted, reasonDue, scanRetries, history,
                   replies, setRetries, whitelisted, stale, cycles, events>>

\* A DHCP lease or an IPv6 address was obtained.
OnConnectedAndReachable(startLease) ==
    /\ Running /\ inDark
    /\ BeforeSuspendActions(TRUE, startLease, ssids)
    /\ UNCHANGED <<phase, envVars, posted, reasonDue, scanRetries, history,
                   replies, setRetries, whitelisted, stale, cycles, events>>

\* A scan has ended with nothing to connect to: retry it or give up.
OnNoAutoConnectableServicesAfterScan(n) ==
    /\ Running /\ inDark
    /\ IF scanRetries > 0
       THEN /\ scanRetries' = scanRetries - 1
            /\ UNCHANGED <<inDark, timeout, reason, triggers, ssids, nicVars,
                           timerVars, crashed, whitelisted, acted, doneVars,
                           lost, left>>
       ELSE /\ whitelisted' = n
            /\ BeforeSuspendActions(FALSE, FALSE, n)
            /\ UNCHANGED scanRetries
    /\ UNCHANGED <<phase, envVars, posted, reasonDue, history, replies,
                   setRetries, stale, cycles, events>>
-----------------------------------------------------------------------------
\* Verification of what was programmed: one NL80211_CMD_GET_WOWLAN.  A request
\* that cannot be sent, is refused or is never answered is at most logged
\* (OnNetlinkMessageError): nothing runs the callback then.
RequestWakeOnPacketSettings ==
    /\ Running /\ verify /\ TimePasses
    /\ verify' = FALSE
    /\ \/ replies' = Append(replies, nic) /\ UNCHANGED <<faults, lost>>
       \/ Fault /\ lost' = TRUE /\ UNCHANGED replies
    /\ UNCHANGED <<phase, envVars, posted, inDark, timeout, reason, reasonDue,
                   scanRetries, history, triggers, ssids, nic, errors,
                   setRetries, timerVars, crashed, whitelisted, acted, doneVars,
                   stale, left, cycles, events>>

\* WakeOnWiFiSettingsMatch against the local state of the moment.
SettingsMatch(reply) == reply = SettingsFor(triggers, ssids)

\* RetrySetWakeOnPacketConnections: the limit on retries.
MayRetrySet == setRetries < MaxSetRetries

VerifyWakeOnWiFiSettings ==
    /\ Running /\ replies # <<>>
    /\ replies' = Tail(replies)
    /\ IF SettingsMatch(Head(replies))
       THEN /\ RunDone("success", Now)
            /\ UNCHANGED <<triggers, nicVars, setRetries, crashed, lost>>
       ELSE IF MayRetrySet
       THEN /\ ApplyWakeOnWiFiSettings(triggers, ssids, Now)
            /\ setRetries' = setRetries + 1
       ELSE /\ setRetries' = 0
            /\ RunDone("error", Now)
            /\ UNCHANGED <<triggers, nicVars, crashed, lost>>
    /\ UNCHANGED <<phase, envVars, posted, inDark, timeout, reason, reasonDue,
                   scanRetries, history, ssids, timerVars, whitelisted, acted,
                   stale, left, cycles, events>>

OnWakeOnWiFiSettingsErrorResponse ==
    /\ Running /\ errors > 0
    /\ errors' = errors - 1
    /\ RunDone("error", Now)
    /\ UNCHANGED <<phase, envVars, posted, inDark, timeout, reason, reasonDue,
                   scanRetries, history, triggers, ssids, nic, verify, faults,
                   replies, setRetries, timerVars, crashed, whitelisted, acted,
                   stale, lost, left, cycles, events>>
-----------------------------------------------------------------------------
\* powerd, as far as the device sees it.  A patient powerd lets the device
\* come to rest before it goes on; a device at rest may still hold a callback,
\* and powerd goes on when the readiness of shill has timed out.
Answering == verify \/ replies # <<>> \/ errors > 0

Idle == posted = <<>> /\ ~timeout /\ ~Answering

PowerdMayMove == ~crashed /\ (patient => Idle)

Announced(n) ==
    /\ cycles < IF patient THEN MaxCycles ELSE MaxHastyCycles
    /\ cycles' = cycles + 1
    /\ ssids' = n /\ whitelisted' = n
    /\ stale' = Answering
    /\ left' = "nothing"

\* |startLease| is false when the lease was expiring and has been renewed.
OnBeforeSuspend(connected, startLease, n) ==
    /\ PowerdMayMove /\ phase = "awake"
    /\ phase' = "suspending"
    /\ Announced(n)
    /\ KeepDone(NewCallback)
    /\ acted' = "none" /\ lost' = FALSE
    /\ history' = 0
    /\ posted' = Append(posted, [connected |-> connected, lease |-> startLease])
    /\ UNCHANGED <<envVars, inDark, timeout, reason, reasonDue, scanRetries,
                   triggers, nicVars, replies, setRetries, timerVars, crashed,
                   events>>

Sleep ==
    /\ PowerdMayMove /\ phase \in {"suspending", "dark"} /\ TimePasses
    /\ phase' = "asleep"
    /\ UNCHANGED <<envVars, posted, inDark, timeout, reason, reasonDue,
                   scanRetries, history, triggers, ssids, nicVars, replies,
                   setRetries, timerVars, crashed, whitelisted, acted, doneVars,
                   stale, lost, left, cycles, events>>

\* The NIC, an alarm or something else wakes the system for a dark resume.
Wake(why) ==
    /\ phase = "asleep" /\ why \in nic.triggers \cup {"none"}
    /\ phase' = "woken"
    /\ reasonDue' = why
    /\ UNCHANGED <<envVars, posted, inDark, timeout, reason, scanRetries,
                   history, triggers, ssids, nicVars, replies, setRetries,
                   timerVars, crashed, whitelisted, acted, doneVars, stale, lost,
                   left, cycles, events>>

\* Mutant of OnWakeupReasonReceived: a pattern match goes straight back to sleep.
ReasonRunsCallback ==
    /\ Running /\ reasonDue # "none"
    /\ reason' = reasonDue
    /\ reasonDue' = "none"
    /\ IF reasonDue = "pattern" THEN RunDone("success", Now) ELSE UNCHANGED doneVars
    /\ UNCHANGED <<phase, envVars, posted, inDark, timeout, scanRetries, history,
                   triggers, ssids, nicVars, replies, setRetries, timerVars,
                   crashed, whitelisted, acted, stale, lost, left, cycles, events>>

\* OnWakeupReasonReceived: before or after the dark resume is announced.
OnWakeupReasonReceived ==
    /\ Running /\ reasonDue # "none"
    /\ reason' = reasonDue
    /\ reasonDue' = "none"
    /\ UNCHANGED <<phase, envVars, posted, inDark, timeout, scanRetries, history,
                   triggers, ssids, nicVars, replies, setRetries, timerVars,
                   crashed, whitelisted, acted, doneVars, stale, lost, left, cycles,
                   events>>

(***************************************************************************)
(* OnDarkResume.  |recent| dark resumes of the history lie inside the      *)
(* sampling period.  Too many of them disable wake on WiFi and rely on the *)
(* wake to scan timer; otherwise the wake reason decides whether to go     *)
(* back to sleep, to scan (|few| frequencies allow retries) or to renew    *)
(* the lease, all under a timeout.                                         *)
(***************************************************************************)
Thrashing(connected) ==
    reason \in {"ssid", "disconnect"} \/ (reason = "unsupported" /\ ~connected)

\* Mutant of ThrottleDarkResume: the wake to scan timer is not started.
ThrottleUntimed ==
    /\ history' = 0
    /\ lease' = FALSE /\ UNCHANGED wakeToScan
    /\ Acted
    /\ DisableWakeOnWiFi(NewCallback)
    /\ scanRetries' = 0
    /\ UNCHANGED <<posted, inDark, timeout>>

ThrottleDarkResume ==
    /\ history' = 0
    /\ lease' = FALSE /\ wakeToScan' = TRUE
    /\ Acted
    /\ DisableWakeOnWiFi(NewCallback)
    /\ scanRetries' = 0
    /\ UNCHANGED <<posted, inDark, timeout>>

ActOnWakeReason(connected, few) ==
    /\ posted' = IF reason = "pattern"
                 THEN Append(posted, [connected |-> connected, lease |-> FALSE])
                 ELSE posted
    /\ scanRetries' = IF reason = "ssid" /\ few THEN MaxScanRetries ELSE 0
    /\ inDark' = TRUE
    /\ timeout' = TRUE

OnDarkResume(connected, n, recent, few) ==
    /\ PowerdMayMove /\ phase = "woken"
    /\ Announced(n)
    /\ recent <= history
    /\ phase' = "dark" /\ lost' = FALSE
    /\ LET counted == recent + (IF Thrashing(connected) THEN 1 ELSE 0)
       IN  IF counted >= MaxDarkResumes
           THEN ThrottleDarkResume
           ELSE /\ history' = counted
                /\ KeepDone(NewCallback)
                /\ acted' = "none"
                /\ ActOnWakeReason(connected, few)
                /\ UNCHANGED <<triggers, nicVars, timerVars, crashed>>
    /\ UNCHANGED <<envVars, reason, reasonDue, replies, setRetries, events>>

\* The condition under which a resume disarms the NIC, and a mutant of it.
DisarmsIfBoth == PacketEnabled /\ DarkConnectEnabled

DisarmsOnResume == PacketEnabled \/ DarkConnectEnabled

\* The NIC wakes for something, or shill would have it do so.
Armed == nic.triggers # {} \/ triggers # {}

OnAfterResume ==
    /\ PowerdMayMove \/ phase \in {"asleep", "woken"}
    /\ ~crashed /\ phase # "awake"
    /\ phase' = "awake"
    /\ wakeToScan' = FALSE /\ lease' = FALSE
    /\ IF DisarmsOnResume
       THEN DisableWakeOnWiFi(AnyTime)
       ELSE UNCHANGED <<triggers, nicVars, crashed, doneVars>>
    /\ left' = IF Armed /\ (features = "none" \/ faults' # faults)
               THEN "nic" ELSE "nothing"
    /\ UNCHANGED <<envVars, posted, inDark, timeout, reason, reasonDue,
                   scanRetries, history, ssids, replies, setRetries, whitelisted,
                   acted, stale, lost, cycles, events>>

\* Bounded.
Event ==
    /\ events < IF patient THEN MaxEvents ELSE MaxHastyEvents
    /\ events' = events + 1

\* AddWakeOnPacketConnection and RemoveWakeOnPacketConnection, by a client.
SetPacketConnections ==
    /\ Running /\ wiphy /\ Event
    /\ patterns' = ~patterns
    /\ UNCHANGED <<phase, features, wiphy, patient, posted, inDark, timeout, reason,
                   reasonDue, scanRetries, history, triggers, ssids, nicVars,
                   replies, setRetries, timerVars, crashed, whitelisted, acted,
                   doneVars, stale, lost, left, cycles>>

\* SetWakeOnWiFiFeaturesEnabled, by a client.
SetWakeOnWiFiFeaturesEnabled(f) ==
    /\ Running /\ f # features /\ Event
    /\ features' = f
    /\ UNCHANGED <<phase, wiphy, patterns, patient, posted, inDark, timeout, reason,
                   reasonDue, scanRetries, history, triggers, ssids, nicVars,
                   replies, setRetries, timerVars, crashed, whitelisted, acted,
                   doneVars, stale, lost, left, cycles>>

\* ParseWakeOnWiFiCapabilities and OnWiphyIndexReceived, from one message.
OnWiphyIndexReceived ==
    /\ Running /\ ~wiphy
    /\ wiphy' = TRUE
    /\ UNCHANGED <<phase, features, patterns, patient, posted, inDark, timeout, reason,
                   reasonDue, scanRetries, history, triggers, ssids, nicVars,
                   replies, setRetries, timerVars, crashed, whitelisted, acted,
                   doneVars, stale, lost, left, cycles, events>>

ShillStep ==
    \/ RunPostedActions
    \/ DarkResumeTimeout
    \/ \E startLease \in BOOLEAN : OnConnectedAndReachable(startLease)
    \/ \E n \in SsidCounts : OnNoAutoConnectableServicesAfterScan(n)
    \/ RequestWakeOnPacketSettings
    \/ VerifyWakeOnWiFiSettings
    \/ OnWakeOnWiFiSettingsErrorResponse

PowerStep ==
    \/ \E connected, startLease \in BOOLEAN, n \in SsidCounts :
          OnBeforeSuspend(connected, startLease, n)
    \/ Sleep
    \/ \E why \in Triggers \cup {"none"} : Wake(why)
    \/ OnWakeupReasonReceived
    \/ \E connected, few \in BOOLEAN, n \in SsidCounts, recent \in 0..MaxDarkResumes :
          OnDarkResume(connected, n, recent, few)
    \/ OnAfterResume

Next ==
    \/ ShillStep
    \/ PowerStep
    \/ SetPacketConnections
    \/ \E f \in Features : SetWakeOnWiFiFeaturesEnabled(f)
    \/ OnWiphyIndexReceived

Spec == Init /\ [][Next]_vars

\* Posted tasks run, timers expire and the kernel answers.
FairSpec ==
    /\ Spec
    /\ WF_vars(RunPostedActions)
    /\ WF_vars(DarkResumeTimeout)
    /\ WF_vars(RequestWakeOnPacketSettings)
    /\ WF_vars(VerifyWakeOnWiFiSettings)
    /\ WF_vars(OnWakeOnWiFiSettingsErrorResponse)
-----------------------------------------------------------------------------
\* wake_on_wifi.h:162: while the system is up the NIC wakes for nothing and
\* neither alarm timer runs, whoever is late: an answer of the kernel that comes
\* after the resume arms nothing again.  The exceptions are named.  Actions taken
\* after the resume (posted, or on the dark resume timeout, neither of which
\* OnAfterResume cancels) may arm all of it; and the NIC stays armed if the
\* features that armed it have all been switched off since (:1276), or the request
\* to disarm it failed.  The next resume puts either right, under the same terms.
AwakeIsDisarmed ==
    phase = "awake" /\ left # "actions" =>
        /\ ~wakeToScan /\ ~lease
        /\ left = "nothing" => nic.triggers = {}

\* Dark connect must be able to get out of the sleep it permits: when the
\* device let the system sleep with success and has SSIDs to wait for, the NIC
\* is armed or the wake to scan timer runs, also when it was throttled.
NeverSleepsDeaf ==
    (/\ patient /\ phase = "asleep"
     /\ outcome = "success" /\ acted = "dark" /\ whitelisted > 0)
        => nic.triggers # {} \/ wakeToScan

\* wake_on_wifi.h:130: BeforeSuspendActions (or the throttling of dark resumes)
\* precedes the report of readiness, with one exception: an answer that the kernel
\* still owed when the suspend was announced may complete it, as
\* VerifyWakeOnWiFiSettings does not tell whose answer it is (:931).
ReadyAfterActions == early => stale

\* wake_on_wifi.cc:1457: the whitelist is only ever trimmed.
WhitelistIsTrimmed == ssids <= whitelisted

\* device.h:277: a device that was handed the callback runs it, as long as the
\* system stays up, whatever has been left over from earlier announcements and
\* whether powerd waits or not.  Not so if the request to verify the settings
\* (:924) or the answer to it is lost, or if the actions were taken before the
\* wiphy message had been received (:955): then nothing runs it.
CallbackIsRun ==
    (callback /\ ~lost) ~> (~callback \/ lost \/ phase = "asleep" \/ crashed)

\* The system sleeps as was planned when it was announced: something will wake
\* it, and the NIC wakes for no more SSIDs than it was to (BeforeSuspendActions).
SleepsAsPlanned == TypeOK /\ NeverSleepsDeaf /\ WhitelistIsTrimmed
=============================================================================
