-------------------------- MODULE PowerDownProofs --------------------------
(***************************************************************************)
(* Proofs about what shill does before the machine sleeps and when it      *)
(* wakes up, for any devices and any number of events: what a WiFi device  *)
(* does with an announcement (WakeOnWiFi), and the reports of readiness to *)
(* powerd (SuspendReadiness).                                              *)
(***************************************************************************)
EXTENDS WakeOnWiFi, SuspendReadiness, TLAPS, SequenceTheorems

(***************************************************************************)
(* Wake on WiFi.  Whatever powerd does: without an answer that was due at  *)
(* the announcement nothing is asked of the kernel before the actions, and *)
(* what is armed while the system is up is what an exception accounts for. *)
(* With a powerd that waits, an announcement finds the device at rest, its *)
(* actions are taken once or twice, and what is on its way to or from the  *)
(* kernel afterwards is about what was sent last.                          *)
(***************************************************************************)
Outcomes == {"none", "success", "error"}
Posted == [connected : BOOLEAN, lease : BOOLEAN]
Dones == [held : BOOLEAN, outcome : Outcomes, acted : BOOLEAN, early : BOOLEAN]

\* The system is staying up for the actions of an announcement.
Acting == phase \in {"suspending", "dark"}

\* Nothing can take the actions of this announcement again.
NoneDue == posted = <<>> /\ ~inDark

\* What is known of every state, whether powerd waits or not.
Typed == TypeOK /\ errors <= faults /\ timeout = inDark

\* Unless the device is forced to arm the timer, the list is only trimmed.
Trimmed == ~ForceWakeToScan => WhitelistIsTrimmed

\* Before this announcement's actions only an earlier one's answers arrive.
Timely ==
    /\ Acting /\ acted = "none" /\ Answering => stale
    /\ ReadyAfterActions

\* What has been armed can be disarmed.
Disarmable == Armed => wiphy

\* While the system is up nothing is armed, but for the exceptions.
Disarmed ==
    phase = "awake" /\ left # "actions" =>
        /\ ~wakeToScan /\ ~lease
        /\ left = "nothing" => ~Armed

\* At most one posted task, and nothing under way while the system sleeps.
Quiet ==
    /\ Len(posted) <= 1
    /\ phase \in {"asleep", "woken"} => Idle
    /\ phase = "awake" => posted = <<>> /\ ~timeout
    /\ inDark => phase = "dark" /\ acted = "none"

\* Nothing has been sent to the kernel before the actions, and what it is asked
\* for is what was sent last.
Asked ==
    /\ Acting /\ acted = "none" => ~verify /\ replies = <<>> /\ errors = 0
    /\ replies # <<>> => replies = <<nic>> /\ ~verify /\ NoneDue

\* A whitelist that was emptied by trimming has started the timer.
Listed ==
    /\ inDark => ssids = whitelisted
    /\ posted # <<>> /\ ~inDark /\ whitelisted > 0 /\ ssids = 0 => wakeToScan

Hears == (Acting \/ phase = "asleep") /\ acted = "dark" /\ whitelisted > 0

\* Something will wake a device that has SSIDs to wait for.
Heeds ==
    /\ Hears => triggers # {} \/ wakeToScan
    /\ Hears /\ outcome = "success" =>
          wakeToScan \/ (nic.triggers # {} /\ ~verify /\ replies = <<>>)
    /\ Acting /\ outcome = "success" => NoneDue

Orderly == Quiet /\ Asked /\ Listed /\ Heeds

Inv == Typed /\ Trimmed /\ Timely /\ Disarmable /\ Disarmed /\ (patient => Orderly)
-----------------------------------------------------------------------------
\* The types that most steps below need.
LEMMA Facts ==
  ASSUME Typed
  PROVE  /\ posted \in Seq(Posted) /\ replies \in Seq(Settings)
         /\ nic \in Settings /\ nic.triggers \subseteq Triggers
         /\ Now \in Dones /\ NewCallback \in Dones
         /\ AnyTime \in Dones /\ AnyTime.acted
         /\ AnyTime.outcome = outcome /\ AnyTime.early = early
         /\ MaxFaults \in Nat /\ MaxSsids \in Nat /\ faults \in Nat /\ errors \in Nat
         /\ ssids \in Nat /\ whitelisted \in Nat
<1>1. /\ posted \in Seq(Posted) /\ replies \in Seq(Settings)
      /\ nic \in Settings /\ nic.triggers \subseteq Triggers
      /\ MaxFaults \in Nat /\ MaxSsids \in Nat /\ faults \in Nat /\ errors \in Nat
      /\ ssids \in Nat /\ whitelisted \in Nat
  BY WakeAssumption DEF Typed, TypeOK, Posted, Settings, SsidCounts
<1>2. Now \in Dones /\ NewCallback \in Dones /\ Now.outcome = outcome /\ Now.early = early
  BY DEF Typed, TypeOK, Now, NewCallback, Dones, Outcomes
<1>3. /\ AnyTime \in Dones /\ AnyTime.acted
      /\ AnyTime.outcome = outcome /\ AnyTime.early = early
  BY <1>2 DEF AnyTime, Dones
<1> QED
  BY <1>1, <1>2, <1>3

\* A device at rest expects nothing.
LEMMA AtRest ==
  ASSUME Typed, Idle
  PROVE  posted = <<>> /\ ~timeout /\ ~inDark /\ ~verify /\ replies = <<>> /\ errors = 0
  BY Facts DEF Typed, Idle, Answering

\* The settings made of triggers, and those of none.
LEMMA SettingsTyped ==
  ASSUME NEW trigs \in SUBSET Triggers, NEW n \in SsidCounts
  PROVE  /\ SettingsFor(trigs, n) \in Settings
         /\ SettingsFor(trigs, n).triggers = trigs
         /\ NoSettings \in Settings /\ NoSettings.triggers = {}
         /\ trigs = {} => SettingsFor(trigs, n) = NoSettings
<1>1. 0 \in SsidCounts
  BY WakeAssumption DEF SsidCounts
<1>2. ("pattern" \in trigs) \in BOOLEAN
  OBVIOUS
<1>3. (IF "ssid" \in trigs THEN n ELSE 0) \in SsidCounts
  BY <1>1
<1>4. {} \in SUBSET Triggers
  OBVIOUS
<1> QED
  BY <1>1, <1>2, <1>3, <1>4 DEF SettingsFor, NoSettings, Settings

\* What a request to the kernel leaves: the settings, or a fault.
Sent(settings, d) ==
    /\ nic' \in {nic, settings} /\ verify' \in BOOLEAN
    /\ faults' \in 0..MaxFaults /\ errors' \in 0..MaxFaults /\ errors' <= faults'
    /\ callback' \in BOOLEAN /\ early' \in BOOLEAN
    /\ outcome' \in {d.outcome, "error"}
    /\ early' => d.early \/ TooEarly(d)

\* One message to the kernel is such a request.
LEMMA SendSettingsSends ==
  ASSUME Typed, NEW settings \in Settings, NEW d \in Dones, SendSettings(settings, d)
  PROVE  Sent(settings, d) /\ (faults' = faults => nic' = settings)
<1>1. /\ nic \in Settings /\ verify \in BOOLEAN
      /\ faults \in 0..MaxFaults /\ errors \in 0..MaxFaults /\ errors <= faults
      /\ MaxFaults \in Nat
  BY WakeAssumption DEF Typed, TypeOK
<1>2. d.held \in BOOLEAN /\ d.early \in BOOLEAN
  BY DEF Dones
<1>3. KeepDone(d) =>
          /\ callback' \in BOOLEAN /\ early' \in BOOLEAN
          /\ outcome' \in {d.outcome, "error"} /\ (early' => d.early)
  BY <1>1, <1>2 DEF KeepDone
<1>4. RunDone("error", d) =>
          /\ callback' \in BOOLEAN /\ early' \in BOOLEAN
          /\ outcome' \in {d.outcome, "error"} /\ (early' => d.early \/ TooEarly(d))
  BY <1>1, <1>2 DEF RunDone, TooEarly
<1>5. CASE /\ nic' = settings /\ verify' = TRUE
           /\ KeepDone(d)
           /\ UNCHANGED <<errors, faults>>
  BY <1>1, <1>3, <1>5 DEF Sent
<1>6. CASE /\ Fault /\ verify' = TRUE
           /\ errors' \in {errors, errors + 1}
           /\ KeepDone(d)
           /\ UNCHANGED nic
  BY <1>1, <1>3, <1>6 DEF Sent, Fault
<1>7. CASE /\ Fault
           /\ RunDone("error", d)
           /\ UNCHANGED <<nic, verify, errors>>
  BY <1>1, <1>4, <1>7 DEF Sent, Fault
<1> QED
  BY <1>5, <1>6, <1>7 DEF SendSettings

\* Sending nothing is one too.
LEMMA Kept ==
  ASSUME Typed, NEW settings, NEW d \in Dones, KeepDone(d), UNCHANGED nicVars
  PROVE  Sent(settings, d) /\ faults' = faults
<1>1. d.held \in BOOLEAN /\ d.early \in BOOLEAN
  BY DEF Dones
<1> QED
  BY <1>1 DEF Typed, TypeOK, KeepDone, nicVars, Sent

\* Applying settings changes the triggers and sends at most one request.
LEMMA Applies ==
  ASSUME Typed, NEW trigs \in SUBSET Triggers, NEW n \in SsidCounts, NEW d \in Dones,
         ApplyWakeOnWiFiSettings(trigs, n, d)
  PROVE  /\ triggers' = trigs /\ UNCHANGED crashed /\ lost' \in BOOLEAN
         /\ Sent(SettingsFor(trigs, n), d)
<1>0. lost' \in BOOLEAN
  BY DEF ApplyWakeOnWiFiSettings, Typed, TypeOK
<1>1. SettingsFor(trigs, n) \in Settings
  BY SettingsTyped
<1>2. CASE wiphy
  <2>1. SendSettings(SettingsFor(trigs, n), d)
    BY <1>2, SettingsTyped DEF ApplyWakeOnWiFiSettings
  <2> QED BY <1>1, <2>1, SendSettingsSends DEF ApplyWakeOnWiFiSettings
<1>3. CASE ~wiphy
  BY <1>3, Kept DEF ApplyWakeOnWiFiSettings
<1> QED
  BY <1>0, <1>2, <1>3

\* Disabling leaves no triggers, and a NIC that wakes for nothing unless the
\* kernel could not be reached.
LEMMA Disables ==
  ASSUME Typed, NEW d \in Dones, DisableWakeOnWiFi(d)
  PROVE  /\ triggers' = {} /\ crashed' \in BOOLEAN
         /\ Sent(NoSettings, d)
         /\ wiphy /\ faults' = faults => nic' = NoSettings
<1>1. CASE wiphy
  BY <1>1, SendSettingsSends, SettingsTyped, WakeAssumption
  DEF DisableWakeOnWiFi, Typed, TypeOK, SsidCounts
<1>2. CASE ~wiphy
  BY <1>2, Kept DEF DisableWakeOnWiFi
<1> QED
  BY <1>1, <1>2

-----------------------------------------------------------------------------
\* What BeforeSuspendActions leaves, for a whitelist of |n|.
Acts(n) ==
    /\ acted' \in {"plain", "dark"}
    /\ reason' = "unsupported" /\ timeout' = FALSE /\ inDark' = FALSE
    /\ ssids' \in SsidCounts /\ (~ForceWakeToScan => ssids' <= n)
    /\ triggers' \subseteq Triggers
    /\ triggers' # {} => wiphy
    /\ wakeToScan' \in BOOLEAN /\ lease' \in BOOLEAN /\ crashed' = crashed
    /\ left' = (IF phase = "awake" THEN "actions" ELSE left) /\ lost' \in BOOLEAN
    /\ nic' \in Settings /\ nic'.triggers \in {nic.triggers, triggers'}
    /\ verify' \in BOOLEAN
    /\ faults' \in 0..MaxFaults /\ errors' \in 0..MaxFaults /\ errors' <= faults'
    /\ callback' \in BOOLEAN /\ early' \in BOOLEAN
    /\ outcome' \in Outcomes
    /\ early' => early
    /\ ssids' # n => wakeToScan'
    /\ acted' = "dark" /\ triggers' = {} => n = 0 /\ (wakeToScan => wakeToScan')
    /\ outcome' = "success" =>
          outcome = "success" \/ (triggers' = {} /\ ~inDark)

\* Whatever BeforeSuspendActions decides, it leaves what Acts says.
LEMMA ActionsAct ==
  ASSUME Typed, NEW connected \in BOOLEAN, NEW startLease \in BOOLEAN,
         NEW n \in SsidCounts, BeforeSuspendActions(connected, startLease, n)
  PROVE  Acts(n)
<1> DEFINE trigs == TriggersFor(connected, n)
           d == AnyTime
<1>1. /\ trigs \in SUBSET Triggers
      /\ trigs # {} => wiphy
      /\ DarkConnectEnabled /\ trigs = {} => n = 0 /\ ~connected
  <2>1. n \in Nat
    BY WakeAssumption DEF SsidCounts
  <2> QED
    BY <2>1 DEF TriggersFor, Triggers, PacketEnabled, DarkConnectEnabled
<1>2. /\ d \in Dones /\ d.acted /\ d.outcome = outcome /\ ~TooEarly(d)
      /\ d.early = early
  BY Facts DEF TooEarly
<1> HIDE DEF trigs, d
<1>3. /\ Acted /\ reason' = "unsupported" /\ timeout' = FALSE
      /\ left' = IF phase = "awake" THEN "actions" ELSE left
      /\ ssids' = IF NeedsWakeToScan(connected, n) THEN MaxSsids ELSE n
      /\ wakeToScan' = ((wakeToScan \/ NeedsWakeToScan(connected, n))
                           /\ ~(DarkConnectEnabled /\ connected))
      /\ lease' = IF DarkConnectEnabled THEN connected /\ (lease \/ startLease)
                                       ELSE lease
      /\ IF ~inDark /\ trigs = {}
         THEN /\ RunDone("success", d)
              /\ triggers' = trigs
              /\ UNCHANGED <<inDark, nicVars, crashed, lost>>
         ELSE /\ inDark' = FALSE
              /\ ApplyWakeOnWiFiSettings(trigs, ssids', d)
  BY DEF BeforeSuspendActions, trigs, d
<1>4. /\ ssids' \in SsidCounts /\ (~ForceWakeToScan => ssids' <= n)
      /\ ssids' # n => wakeToScan'
  <2>1. MaxSsids \in SsidCounts /\ n \in Nat /\ MaxSsids \in Nat
    BY WakeAssumption DEF SsidCounts
  <2>2. CASE NeedsWakeToScan(connected, n)
    <3>1. ssids' = MaxSsids /\ DarkConnectEnabled /\ ~connected
          /\ (n > MaxSsids \/ ForceWakeToScan)
      BY <1>3, <2>2 DEF NeedsWakeToScan
    <3>2. wakeToScan'
      BY <1>3, <2>2, <3>1
    <3>3. ~ForceWakeToScan => MaxSsids <= n
      BY <2>1, <3>1
    <3> QED BY <2>1, <3>1, <3>2, <3>3
  <2>3. CASE ~NeedsWakeToScan(connected, n)
    BY <1>3, <2>1, <2>3
  <2> QED BY <2>2, <2>3
<1>5. wakeToScan' \in BOOLEAN /\ lease' \in BOOLEAN
  <2>1. wakeToScan \in BOOLEAN /\ lease \in BOOLEAN
    BY DEF Typed, TypeOK
  <2>2. NeedsWakeToScan(connected, n) \in BOOLEAN /\ DarkConnectEnabled \in BOOLEAN
    BY DEF NeedsWakeToScan, DarkConnectEnabled
  <2> QED BY <1>3, <2>1, <2>2
<1>6. /\ acted' \in {"plain", "dark"}
      /\ acted' = "dark" => DarkConnectEnabled
  BY <1>3 DEF Acted
<1>7. acted' = "dark" /\ trigs = {} => n = 0 /\ (wakeToScan => wakeToScan')
  BY <1>1, <1>3, <1>6
<1>8. CASE ~inDark /\ trigs = {}
  <2>1. /\ RunDone("success", d) /\ triggers' = trigs
        /\ UNCHANGED <<inDark, nic, verify, errors, faults, crashed, lost>>
    BY <1>3, <1>8 DEF nicVars
  <2>2. /\ callback' \in BOOLEAN /\ early' \in BOOLEAN /\ (early' => early)
        /\ outcome' \in Outcomes
    BY <1>2, <2>1 DEF RunDone, TooEarly, Typed, TypeOK, Outcomes, Dones
  <2>3. /\ nic \in Settings /\ verify \in BOOLEAN /\ lost \in BOOLEAN
        /\ faults \in 0..MaxFaults /\ errors \in 0..MaxFaults /\ errors <= faults
    BY DEF Typed, TypeOK
  <2> QED
    BY <1>1, <1>3, <1>4, <1>5, <1>6, <1>7, <1>8, <2>1, <2>2, <2>3 DEF Acts
<1>9. CASE ~(~inDark /\ trigs = {})
  <2>1. inDark' = FALSE /\ ApplyWakeOnWiFiSettings(trigs, ssids', d)
    BY <1>3, <1>9
  <2>2. /\ triggers' = trigs /\ UNCHANGED crashed /\ lost' \in BOOLEAN
        /\ Sent(SettingsFor(trigs, ssids'), d)
    BY <1>1, <1>2, <1>4, <2>1, Applies
  <2>3. nic' \in Settings /\ nic'.triggers \in {nic.triggers, triggers'}
    BY <1>1, <1>4, <2>2, SettingsTyped, Facts DEF Sent
  <2>4. /\ verify' \in BOOLEAN
        /\ faults' \in 0..MaxFaults /\ errors' \in 0..MaxFaults /\ errors' <= faults'
        /\ callback' \in BOOLEAN /\ early' \in BOOLEAN /\ (early' => early)
        /\ outcome' \in Outcomes
        /\ outcome' = "success" => outcome = "success"
    BY <1>2, <2>2 DEF Sent, Outcomes, Typed, TypeOK
  <2> QED
    BY <1>1, <1>3, <1>4, <1>5, <1>6, <1>7, <2>1, <2>2, <2>3, <2>4 DEF Acts
<1> QED
  BY <1>8, <1>9

\* What is left of a queue after its head.
LEMMA OnePosted ==
  ASSUME NEW E, NEW q \in Seq(E), q # <<>>
  PROVE  /\ Tail(q) \in Seq(E) /\ Head(q) \in E /\ Len(Tail(q)) <= Len(q)
         /\ Len(q) <= 1 => Tail(q) = <<>>
  BY LenProperties, HeadTailProperties, EmptySeq

\* Whoever calls BeforeSuspendActions keeps the invariant.
LEMMA ActsKeeps ==
  ASSUME Inv, NEW n \in SsidCounts, Acts(n),
         n = whitelisted' \/ (n = ssids /\ whitelisted' = whitelisted),
         \/ inDark /\ posted' = posted
         \/ posted # <<>> /\ posted' = Tail(posted),
         whitelisted' \in SsidCounts, scanRetries' \in 0..MaxScanRetries,
         UNCHANGED <<phase, envVars, reasonDue, history, replies, setRetries,
                     stale, cycles, events>>
  PROVE  Inv'
<1>1. /\ Typed /\ posted \in Seq(Posted) /\ n \in Nat /\ ssids \in Nat
      /\ whitelisted \in Nat /\ whitelisted' \in Nat /\ ssids' \in Nat
      /\ timeout = inDark
  BY Facts, WakeAssumption DEF Inv, Acts, Typed, SsidCounts
<1>2. Typed'
  <2>1. posted' \in Seq(Posted)
    BY <1>1, OnePosted
  <2>2. inDark \in BOOLEAN
    BY DEF Inv, Typed, TypeOK
  <2> QED
    BY <2>1, <2>2, ZenonT(60) DEF Inv, Typed, TypeOK, Acts, envVars, Posted, Outcomes, Reasons
<1>3. Trimmed'
  BY <1>1 DEF Inv, Trimmed, WhitelistIsTrimmed, Acts
<1>4. Timely' /\ Disarmable' /\ Disarmed'
  BY DEF Inv, Timely, ReadyAfterActions, Disarmable, Armed, Disarmed, Acts, envVars
<1>5. ASSUME patient
      PROVE  Orderly'
  <2> USE <1>5
  <2>1. Orderly
    BY DEF Inv
  <2>2. /\ inDark' = inDark => posted' = Tail(posted) /\ posted # <<>>
        /\ Len(posted) <= 1
        /\ posted # <<>> => Tail(posted) = <<>>
    BY <1>1, <2>1, OnePosted DEF Orderly, Quiet, Acts
  <2>3. ~NoneDue
    BY DEF NoneDue
  <2>4. Acting /\ Acting' /\ phase' # "awake" /\ phase \notin {"asleep", "woken"}
    <3>1. phase \notin {"asleep", "woken", "awake"}
      BY <1>1, <2>1 DEF Orderly, Quiet, Idle, NoneDue
    <3> QED BY <1>1, <3>1 DEF Typed, TypeOK, Acting
  <2>5. Quiet'
    <3>1. posted' = posted \/ posted' = <<>>
      BY <2>2
    <3>2. Len(posted') <= 1
      BY <2>2, <3>1, EmptySeq
    <3> QED BY <2>1, <2>4, <3>2 DEF Orderly, Quiet, Acts
  <2>6. Asked'
    BY <2>1, <2>3 DEF Orderly, Asked, Acts
  <2>7. Listed'
    BY <1>1, <2>1, <2>2 DEF Orderly, Listed, Acts
  <2>8. Hears' => triggers' # {} \/ wakeToScan'
    BY <1>1, <2>1 DEF Orderly, Listed, Hears, Acts
  <2>9. outcome' = "success" => triggers' = {} /\ ~inDark
    BY <2>1, <2>3, <2>4 DEF Orderly, Heeds, Acts
  <2>10. Heeds'
    BY <2>2, <2>8, <2>9 DEF Heeds, NoneDue, Acts
  <2> QED
    BY <2>5, <2>6, <2>7, <2>10 DEF Orderly
<1> QED
  BY <1>2, <1>3, <1>4, <1>5 DEF Inv, envVars

\* The posted actions are taken.
LEMMA RunPostedActionsKeeps ==
  ASSUME Inv, RunPostedActions PROVE Inv'
<1>1. /\ posted \in Seq(Posted) /\ ssids \in SsidCounts /\ Typed
      /\ scanRetries \in 0..MaxScanRetries /\ whitelisted \in SsidCounts
  BY Facts DEF Inv, Typed, TypeOK
<1>2. /\ Head(posted).connected \in BOOLEAN /\ Head(posted).lease \in BOOLEAN
  <2>1. Head(posted) \in Posted
    BY <1>1, OnePosted DEF RunPostedActions
  <2> QED BY <2>1 DEF Posted
<1>3. PICK c \in BOOLEAN, l \in BOOLEAN : BeforeSuspendActions(c, l, ssids)
  BY <1>2, Zenon DEF RunPostedActions
<1>4. Acts(ssids)
  BY <1>1, <1>3, ActionsAct
<1> QED
  BY <1>1, <1>4, ActsKeeps DEF RunPostedActions

\* The dark resume has lasted too long.
LEMMA DarkResumeTimeoutKeeps ==
  ASSUME Inv, DarkResumeTimeout PROVE Inv'
<1>1. /\ ssids \in SsidCounts /\ Typed /\ inDark
      /\ scanRetries \in 0..MaxScanRetries /\ whitelisted \in SsidCounts
  BY DEF Inv, Typed, TypeOK, DarkResumeTimeout
<1>2. Acts(ssids)
  BY <1>1, ActionsAct DEF DarkResumeTimeout
<1> QED
  BY <1>1, <1>2, ActsKeeps DEF DarkResumeTimeout

\* The device has connected during a dark resume.
LEMMA OnConnectedAndReachableKeeps ==
  ASSUME Inv, NEW startLease \in BOOLEAN, OnConnectedAndReachable(startLease)
  PROVE  Inv'
<1>1. /\ ssids \in SsidCounts /\ Typed
      /\ scanRetries \in 0..MaxScanRetries /\ whitelisted \in SsidCounts
  BY DEF Inv, Typed, TypeOK
<1>2. Acts(ssids)
  BY <1>1, ActionsAct DEF OnConnectedAndReachable
<1> QED
  BY <1>1, <1>2, ActsKeeps DEF OnConnectedAndReachable

\* A scan found nothing, and may be retried.
LEMMA OnNoAutoConnectableServicesAfterScanKeeps ==
  ASSUME Inv, NEW n \in SsidCounts, OnNoAutoConnectableServicesAfterScan(n)
  PROVE  Inv'
<1> USE DEF OnNoAutoConnectableServicesAfterScan
<1>1. Typed /\ scanRetries \in 0..MaxScanRetries /\ MaxScanRetries \in Nat
  BY WakeAssumption DEF Inv, Typed, TypeOK
<1>2. CASE scanRetries > 0
  <2>1. scanRetries' \in 0..MaxScanRetries
    BY <1>1, <1>2
  <2>2. UNCHANGED <<inDark, timeout, reason, triggers, ssids, nicVars, timerVars, crashed,
                    whitelisted, acted, doneVars, phase, envVars, posted, reasonDue,
                    history, replies, setRetries, stale, lost, left, cycles, events>>
    BY <1>2
  <2> QED
    BY <2>1, <2>2
    DEF Inv, Typed, TypeOK, Trimmed, WhitelistIsTrimmed, Timely, ReadyAfterActions,
        Answering, Disarmable, Armed, Disarmed, Orderly, Quiet, Idle, Asked, NoneDue,
        Acting, Listed, Heeds, Hears, nicVars, timerVars, doneVars, envVars
<1>3. CASE ~(scanRetries > 0)
  BY <1>1, <1>3, ActionsAct, ActsKeeps
<1> QED
  BY <1>2, <1>3

-----------------------------------------------------------------------------
\* A reply is on its way only while nothing else is.
LEMMA OneReply ==
  ASSUME Typed
  PROVE  /\ Append(replies, nic) \in Seq(Settings)
         /\ Append(replies, nic) # <<>>
         /\ replies = <<>> => Append(replies, nic) = <<nic>>
         /\ replies # <<>> => Tail(replies) \in Seq(Settings)
         /\ replies = <<nic>> => Head(replies) = nic /\ Tail(replies) = <<>>
<1>1. replies \in Seq(Settings) /\ nic \in Settings
  BY Facts
<1>2. Append(replies, nic) \in Seq(Settings) /\ Append(replies, nic) # <<>>
  BY <1>1, AppendProperties
<1>3. replies = <<>> => Append(replies, nic) = <<nic>>
  OBVIOUS
<1>4. replies # <<>> => Tail(replies) \in Seq(Settings)
  BY <1>1, OnePosted
<1>5. replies = <<nic>> => Head(replies) = nic /\ Tail(replies) = <<>>
  OBVIOUS
<1> QED
  BY <1>2, <1>3, <1>4, <1>5

\* The verification of what was sent asks the kernel for its settings.
LEMMA RequestKeeps ==
  ASSUME Inv, RequestWakeOnPacketSettings PROVE Inv'
<1> USE DEF RequestWakeOnPacketSettings
<1>1. /\ Typed /\ Append(replies, nic) \in Seq(Settings)
      /\ Append(replies, nic) # <<>>
      /\ replies = <<>> => Append(replies, nic) = <<nic>>
  BY OneReply DEF Inv
<1>2. Typed'
  <2>0. /\ faults \in 0..MaxFaults /\ errors \in 0..MaxFaults /\ errors <= faults
        /\ lost \in BOOLEAN /\ MaxFaults \in Nat
    BY <1>1, WakeAssumption DEF Typed, TypeOK
  <2>1. faults' \in 0..MaxFaults /\ errors <= faults'
    BY <2>0 DEF Fault
  <2>2. replies' \in Seq(Settings) /\ lost' \in BOOLEAN
    BY <1>1, <2>0 DEF Typed, TypeOK
  <2> QED BY <1>1, <2>1, <2>2 DEF Typed, TypeOK, envVars, timerVars, doneVars
<1>3. Trimmed' /\ Timely' /\ Disarmable' /\ Disarmed'
  BY
  DEF Inv, Trimmed, WhitelistIsTrimmed, Timely, ReadyAfterActions, Answering, Acting,
      Disarmable, Armed, Disarmed, envVars, timerVars, doneVars
<1>4. ASSUME patient
      PROVE  Orderly'
  <2>1. Orderly /\ NoneDue /\ replies = <<>> /\ replies' \in {<<>>, <<nic>>}
    <3>1. Orderly
      BY <1>4 DEF Inv
    <3>2. ~inDark
      BY <3>1 DEF Orderly, Quiet, Asked, Acting
    <3>3. replies = <<>>
      BY <3>1 DEF Orderly, Asked
    <3> QED BY <1>1, <3>1, <3>2, <3>3 DEF NoneDue, TimePasses
  <2>2. Listed'
    BY <2>1 DEF Orderly, Listed, timerVars
  <2>3. Quiet'
    BY <2>1 DEF Orderly, Quiet, Idle, Answering
  <2>4. Asked'
    BY <2>1 DEF Orderly, Asked, Acting, NoneDue
  <2>5. Heeds'
    BY <2>1 DEF Orderly, Heeds, Hears, Acting, NoneDue, doneVars, timerVars
  <2> QED BY <2>2, <2>3, <2>4, <2>5 DEF Orderly
<1> QED
  BY <1>2, <1>3, <1>4 DEF Inv, envVars

\* What the two answers of the kernel do to everything but the request they
\* may send: nothing.
LEMMA AnswerKeeps ==
  ASSUME Inv, Answering, patient => (~Acting \/ acted # "none"),
         UNCHANGED <<phase, envVars, posted, inDark, timeout, reason, reasonDue,
                     scanRetries, history, triggers, ssids, timerVars, whitelisted,
                     acted, stale, left, cycles, events>>,
         lost' \in BOOLEAN,
         crashed' \in BOOLEAN,
         setRetries' \in 0..MaxSetRetries, replies' \in Seq(Settings),
         nic' \in Settings, nic'.triggers \in {nic.triggers, triggers},
         verify' \in BOOLEAN, faults' \in 0..MaxFaults, errors' \in 0..MaxFaults,
         errors' <= faults',
         callback' \in BOOLEAN, early' \in BOOLEAN, outcome' \in Outcomes,
         early' => early \/ (Acting /\ acted = "none"),
         phase \in {"asleep", "woken"} => ~patient,
         patient => /\ replies' # <<>> => /\ replies' = <<nic'>> /\ ~verify'
                                          /\ NoneDue
                    /\ Acting /\ outcome' = "success" => NoneDue
                    /\ Hears /\ outcome' = "success" =>
                          \/ wakeToScan
                          \/ nic'.triggers # {} /\ ~verify' /\ replies' = <<>>
  PROVE  Inv'
<1>1. Typed'
  BY DEF Inv, Typed, TypeOK, envVars, timerVars, Outcomes
<1>2. Trimmed'
  BY DEF Inv, Trimmed, WhitelistIsTrimmed
<1>3. Timely' /\ Disarmable' /\ Disarmed'
  BY
  DEF Inv, Timely, ReadyAfterActions, Acting, Disarmable, Armed, Disarmed, envVars,
      timerVars
<1>4. ASSUME patient
      PROVE  Orderly'
  <2>1. Orderly
    BY <1>4 DEF Inv
  <2>2. Listed'
    BY <1>4, <2>1 DEF Orderly, Listed, timerVars
  <2>3. Quiet'
    BY <1>4, <2>1 DEF Orderly, Quiet
  <2>4. Asked'
    BY <1>4, <2>1 DEF Asked, Acting, NoneDue
  <2>5. Heeds'
    BY <1>4, <2>1 DEF Orderly, Heeds, Hears, Acting, NoneDue, timerVars
  <2> QED BY <2>2, <2>3, <2>4, <2>5 DEF Orderly
<1> QED
  BY <1>1, <1>2, <1>3, <1>4 DEF Inv, envVars

\* The kernel refuses the settings.
LEMMA ErrorKeeps ==
  ASSUME Inv, OnWakeOnWiFiSettingsErrorResponse PROVE Inv'
<1> USE DEF OnWakeOnWiFiSettingsErrorResponse
<1>1. /\ Typed /\ errors > 0 /\ errors' = errors - 1 /\ faults' = faults
      /\ RunDone("error", Now)
  BY DEF Inv
<1>2. /\ errors' \in 0..MaxFaults /\ errors' <= faults' /\ faults' \in 0..MaxFaults
      /\ nic \in Settings /\ replies \in Seq(Settings) /\ verify \in BOOLEAN
      /\ crashed \in BOOLEAN /\ setRetries \in 0..MaxSetRetries
  BY <1>1, Facts, SMTT(30) DEF Typed, TypeOK
<1>3. /\ callback' \in BOOLEAN /\ early' \in BOOLEAN /\ outcome' \in Outcomes
      /\ early' => early \/ (Acting /\ acted = "none")
      /\ outcome' = "success" => outcome = "success"
  BY <1>1 DEF RunDone, Now, TooEarly, Acting, Typed, TypeOK, Outcomes
<1>4. /\ patient => (~Acting \/ acted # "none")
      /\ phase \in {"asleep", "woken"} => ~patient
      /\ Answering /\ lost \in BOOLEAN
  BY <1>1 DEF Inv, Typed, TypeOK, Orderly, Asked, Quiet, Idle, Answering
<1>5. patient => Orderly
  BY DEF Inv
<1> QED
  BY <1>1, <1>2, <1>3, <1>4, <1>5, AnswerKeeps DEF Orderly, Asked, Heeds

\* The kernel answers the verification: settings that match end the actions,
\* others are sent again or given up.
LEMMA VerifyKeeps ==
  ASSUME Inv, VerifyWakeOnWiFiSettings PROVE Inv'
<1> USE DEF VerifyWakeOnWiFiSettings
<1>1. /\ Typed /\ replies # <<>> /\ replies' = Tail(replies)
      /\ replies' \in Seq(Settings)
      /\ replies = <<nic>> => Head(replies) = nic /\ replies' = <<>>
  BY OneReply DEF Inv
<1>2. /\ nic \in Settings /\ verify \in BOOLEAN /\ crashed \in BOOLEAN
      /\ setRetries \in 0..MaxSetRetries /\ faults \in 0..MaxFaults
      /\ errors \in 0..MaxFaults /\ errors <= faults
      /\ triggers \in SUBSET Triggers /\ ssids \in SsidCounts /\ Now \in Dones
      /\ MaxSetRetries \in Nat
  BY <1>1, Facts, WakeAssumption DEF Typed, TypeOK
<1>3. patient => /\ Orderly /\ NoneDue /\ replies = <<nic>> /\ ~verify
                 /\ ~Acting \/ acted # "none"
                 /\ phase \notin {"asleep", "woken"}
  BY <1>1 DEF Inv, Orderly, Asked, Quiet, Idle, Answering
<1>4. /\ phase \in {"asleep", "woken"} => ~patient
      /\ Answering /\ lost \in BOOLEAN
  BY <1>1, <1>3 DEF Answering, Typed, TypeOK
<1>5. \A result \in Outcomes :
          RunDone(result, Now) =>
              /\ callback' \in BOOLEAN /\ early' \in BOOLEAN /\ outcome' \in Outcomes
              /\ early' => early \/ (Acting /\ acted = "none")
              /\ outcome' \in {outcome, result}
  BY <1>1 DEF RunDone, Now, TooEarly, Acting, Typed, TypeOK, Outcomes
<1>6. UNCHANGED <<phase, envVars, posted, inDark, timeout, reason, reasonDue,
                  scanRetries, history, ssids, timerVars, whitelisted, acted,
                  stale, left, cycles, events>>
  OBVIOUS
<1>7. CASE SettingsMatch(Head(replies))
  <2>1. /\ RunDone("success", Now)
        /\ UNCHANGED <<triggers, nic, verify, errors, faults, setRetries, crashed, lost>>
    BY <1>7 DEF nicVars
  <2>2. patient => nic.triggers = triggers
    BY <1>1, <1>2, <1>3, <1>7, SettingsTyped DEF SettingsMatch
  <2>3. /\ callback' \in BOOLEAN /\ early' \in BOOLEAN /\ outcome' \in Outcomes
        /\ early' => early \/ (Acting /\ acted = "none")
    BY <1>5, <2>1 DEF Outcomes
  <2>4. patient => /\ replies' = <<>>
                   /\ Hears => wakeToScan \/ (nic.triggers # {} /\ ~verify)
    BY <1>1, <1>3, <2>2 DEF Orderly, Heeds
  <2> QED
    BY <1>1, <1>2, <1>3, <1>4, <1>6, <2>1, <2>3, <2>4, AnswerKeeps
<1>8. CASE ~SettingsMatch(Head(replies)) /\ MayRetrySet
  <2>1. /\ ApplyWakeOnWiFiSettings(triggers, ssids, Now)
        /\ setRetries' = setRetries + 1 /\ setRetries' \in 0..MaxSetRetries
    BY <1>2, <1>8 DEF MayRetrySet
  <2>2. /\ triggers' = triggers /\ crashed' = crashed /\ lost' \in BOOLEAN
        /\ Sent(SettingsFor(triggers, ssids), Now)
    BY <1>1, <1>2, <2>1, Applies
  <2>3. nic' \in Settings /\ nic'.triggers \in {nic.triggers, triggers}
    BY <1>2, <2>2, SettingsTyped DEF Sent
  <2>4. /\ callback' \in BOOLEAN /\ early' \in BOOLEAN /\ outcome' \in Outcomes
        /\ early' => early \/ (Acting /\ acted = "none")
        /\ outcome' = "success" => outcome = "success"
        /\ verify' \in BOOLEAN /\ faults' \in 0..MaxFaults /\ errors' \in 0..MaxFaults
        /\ errors' <= faults'
    BY <1>1, <2>2 DEF Sent, Now, TooEarly, Acting, Typed, TypeOK, Outcomes
  <2>5. patient => /\ replies' = <<>>
                   /\ Hears /\ outcome' = "success" => wakeToScan
    BY <1>1, <1>3, <2>4 DEF Orderly, Heeds
  <2> QED
    BY <1>1, <1>2, <1>3, <1>4, <1>6, <2>1, <2>2, <2>3, <2>4, <2>5, AnswerKeeps
<1>9. CASE ~SettingsMatch(Head(replies)) /\ ~MayRetrySet
  <2>1. /\ RunDone("error", Now) /\ setRetries' = 0 /\ 0 \in 0..MaxSetRetries
        /\ UNCHANGED <<triggers, nic, verify, errors, faults, crashed, lost>>
    BY <1>2, <1>9 DEF nicVars
  <2>2. /\ callback' \in BOOLEAN /\ early' \in BOOLEAN /\ outcome' \in Outcomes
        /\ early' => early \/ (Acting /\ acted = "none")
        /\ outcome' = "success" => outcome = "success"
    BY <1>5, <2>1 DEF Outcomes
  <2>3. patient => /\ replies' = <<>>
                   /\ Hears /\ outcome' = "success" => wakeToScan
    BY <1>1, <1>3, <2>2 DEF Orderly, Heeds
  <2> QED
    BY <1>1, <1>2, <1>3, <1>4, <1>6, <2>1, <2>2, <2>3, AnswerKeeps
<1> QED
  BY <1>7, <1>8, <1>9
-----------------------------------------------------------------------------
\* The system goes to sleep: a powerd that waits finds the device idle.
LEMMA SleepKeeps ==
  ASSUME Inv, Sleep PROVE Inv'
<1> USE DEF Sleep
<1>1. Typed' /\ Trimmed' /\ Timely' /\ Disarmable' /\ Disarmed'
  BY
  DEF Inv, Typed, TypeOK, Trimmed, WhitelistIsTrimmed, Timely, ReadyAfterActions,
      Answering, Acting, Disarmable, Armed, Disarmed, nicVars, doneVars, timerVars,
      envVars
<1>2. patient => Orderly'
  BY
  DEF Inv, Typed, PowerdMayMove, Orderly, Quiet, Idle, Answering, Asked, NoneDue,
      Acting, Listed, Heeds, Hears, nicVars, doneVars, timerVars, envVars
<1> QED
  BY <1>1, <1>2 DEF Inv, envVars

\* Something wakes the system.
LEMMA WakeKeeps ==
  ASSUME Inv, NEW why \in Triggers \cup {"none"}, Wake(why) PROVE Inv'
<1> USE DEF Wake
<1>1. Typed' /\ Trimmed' /\ Timely' /\ Disarmable' /\ Disarmed'
  BY
  DEF Inv, Typed, TypeOK, Trimmed, WhitelistIsTrimmed, Timely, ReadyAfterActions,
      Answering, Acting, Disarmable, Armed, Disarmed, nicVars, doneVars, timerVars,
      envVars, Reasons
<1>2. patient => Orderly'
  BY DEF Inv, Orderly, Quiet, Idle, Answering, Asked, NoneDue, Acting, Listed,
         Heeds, Hears, nicVars, doneVars, timerVars, envVars
<1> QED
  BY <1>1, <1>2 DEF Inv, envVars

\* The kernel says what woke it.
LEMMA OnWakeupReasonReceivedKeeps ==
  ASSUME Inv, OnWakeupReasonReceived PROVE Inv'
<1> USE DEF OnWakeupReasonReceived
<1>1. Typed' /\ Trimmed' /\ Timely' /\ Disarmable' /\ Disarmed'
  BY
  DEF Inv, Typed, TypeOK, Trimmed, WhitelistIsTrimmed, Timely, ReadyAfterActions,
      Answering, Acting, Disarmable, Armed, Disarmed, nicVars, doneVars, timerVars,
      envVars, Reasons
<1>2. patient => Orderly'
  BY DEF Inv, Orderly, Quiet, Idle, Answering, Asked, NoneDue, Acting, Listed,
         Heeds, Hears, nicVars, doneVars, timerVars, envVars
<1> QED
  BY <1>1, <1>2 DEF Inv, envVars

\* A client registers or drops packets to wake for.
LEMMA SetPacketConnectionsKeeps ==
  ASSUME Inv, SetPacketConnections PROVE Inv'
<1> USE DEF SetPacketConnections, Event
<1>1. Typed' /\ Trimmed' /\ Timely' /\ Disarmable' /\ Disarmed'
  BY WakeAssumption
  DEF Inv, Typed, TypeOK, Trimmed, WhitelistIsTrimmed, Timely, ReadyAfterActions,
      Answering, Acting, Disarmable, Armed, Disarmed, nicVars, doneVars, timerVars
<1>2. patient => Orderly'
  BY DEF Inv, Orderly, Quiet, Idle, Answering, Asked, NoneDue, Acting, Listed,
         Heeds, Hears, nicVars, doneVars, timerVars
<1> QED
  BY <1>1, <1>2 DEF Inv

\* A client enables other features.
LEMMA SetFeaturesKeeps ==
  ASSUME Inv, NEW f \in Features, SetWakeOnWiFiFeaturesEnabled(f) PROVE Inv'
<1> USE DEF SetWakeOnWiFiFeaturesEnabled, Event
<1>1. Typed' /\ Trimmed'
  BY WakeAssumption
  DEF Inv, Typed, TypeOK, Trimmed, WhitelistIsTrimmed, nicVars, doneVars, timerVars
<1>2. Timely' /\ Disarmable' /\ Disarmed'
  BY
  DEF Inv, Timely, ReadyAfterActions, Answering, Acting, Disarmable, Armed, Disarmed,
      nicVars, doneVars, timerVars
<1>3. patient => Orderly'
  BY DEF Inv, Orderly, Quiet, Idle, Answering, Asked, NoneDue, Acting, Listed,
         Heeds, Hears, nicVars, doneVars, timerVars
<1> QED
  BY <1>1, <1>2, <1>3 DEF Inv

\* The kernel describes the device.
LEMMA OnWiphyIndexReceivedKeeps ==
  ASSUME Inv, OnWiphyIndexReceived PROVE Inv'
<1> USE DEF OnWiphyIndexReceived
<1>1. Typed' /\ Trimmed'
  BY
  DEF Inv, Typed, TypeOK, Trimmed, WhitelistIsTrimmed, nicVars, doneVars, timerVars
<1>2. Timely' /\ Disarmable' /\ Disarmed'
  BY
  DEF Inv, Timely, ReadyAfterActions, Answering, Acting, Disarmable, Armed, Disarmed,
      nicVars, doneVars, timerVars
<1>3. patient => Orderly'
  BY DEF Inv, Orderly, Quiet, Idle, Answering, Asked, NoneDue, Acting, Listed,
         Heeds, Hears, nicVars, doneVars, timerVars
<1> QED
  BY <1>1, <1>2, <1>3 DEF Inv
-----------------------------------------------------------------------------
\* An announcement brings the whitelist of the moment.
LEMMA AnnouncedCycles ==
  ASSUME Typed, NEW n, Announced(n)
  PROVE  /\ cycles' \in 0..MaxCycles /\ ssids' = n /\ whitelisted' = n
         /\ stale' = Answering /\ stale' \in BOOLEAN /\ left' = "nothing"
  BY WakeAssumption DEF Announced, Typed, TypeOK, Answering

\* A list of tasks that was empty has one task.
LEMMA OnePosts ==
  ASSUME Typed, NEW task \in Posted
  PROVE  /\ Append(posted, task) \in Seq(Posted)
         /\ posted = <<>> => Len(Append(posted, task)) <= 1
  BY Facts, AppendProperties, EmptySeq

\* A suspend is announced: its actions are posted.
LEMMA OnBeforeSuspendKeeps ==
  ASSUME Inv, NEW connected \in BOOLEAN, NEW startLease \in BOOLEAN,
         NEW n \in SsidCounts, OnBeforeSuspend(connected, startLease, n)
  PROVE  Inv'
<1> USE DEF OnBeforeSuspend
<1>1. /\ Typed /\ n \in Nat /\ cycles' \in 0..MaxCycles
      /\ ssids' = n /\ whitelisted' = n
      /\ stale' = Answering /\ stale' \in BOOLEAN /\ left' = "nothing"
  BY AnnouncedCycles, WakeAssumption DEF Inv, SsidCounts
<1>2. /\ posted' \in Seq(Posted)
      /\ posted = <<>> => Len(posted') <= 1
  BY <1>1, OnePosts DEF Posted
<1>3. callback' = TRUE /\ outcome' = "none" /\ early' = FALSE
  BY DEF KeepDone, NewCallback
<1>4. Typed'
  <2>1. 0 \in 0..MaxDarkResumes
    BY WakeAssumption
  <2> QED
    BY <1>1, <1>2, <1>3, <2>1 DEF Typed, TypeOK, Posted, nicVars, timerVars, envVars
<1>5. Trimmed' /\ Timely' /\ Disarmable' /\ Disarmed'
  <2>1. Answering' = Answering /\ Armed' = Armed
    BY DEF Answering, Armed, nicVars
  <2>2. Timely'
    BY <1>1, <1>3, <2>1 DEF Timely, ReadyAfterActions
  <2> QED
    BY <1>1, <2>1, <2>2
    DEF Inv, Trimmed, WhitelistIsTrimmed, Disarmable, Disarmed, envVars
<1>6. ASSUME patient PROVE Orderly'
  <2>1. Orderly /\ Idle /\ ~inDark /\ errors = 0
    BY <1>1, AtRest, <1>6 DEF Inv, PowerdMayMove
  <2>2. Quiet'
    BY <1>2, <2>1 DEF Quiet, Idle
  <2>3. Asked'
    BY <2>1 DEF Asked, Idle, Answering, nicVars
  <2>4. Listed'
    BY <1>1, <2>1 DEF Listed
  <2>5. Heeds'
    BY <1>3, <2>1 DEF Orderly, Heeds, Hears
  <2> QED BY <2>2, <2>3, <2>4, <2>5 DEF Orderly
<1> QED
  BY <1>4, <1>5, <1>6 DEF Inv, envVars

\* A dark resume that is one too many: wake on WiFi is disabled.
LEMMA ThrottleKeeps ==
  ASSUME Inv, NEW n \in SsidCounts, PowerdMayMove, phase = "woken", Announced(n),
         phase' = "dark", lost' = FALSE, ThrottleDarkResume,
         UNCHANGED <<envVars, reason, reasonDue, replies, setRetries, events>>
  PROVE  Inv'
<1> USE DEF ThrottleDarkResume
<1>1. /\ Typed /\ n \in Nat /\ cycles' \in 0..MaxCycles
      /\ ssids' = n /\ whitelisted' = n
      /\ stale' = Answering /\ stale' \in BOOLEAN /\ left' = "nothing"
  BY AnnouncedCycles, WakeAssumption DEF Inv, SsidCounts
<1>2. /\ triggers' = {} /\ crashed' \in BOOLEAN /\ Sent(NoSettings, NewCallback)
      /\ acted' \in {"plain", "dark"}
  BY <1>1, Disables, Facts DEF Acted
<1>3. /\ nic' \in Settings /\ nic'.triggers \in {nic.triggers, {}}
      /\ outcome' \in {"none", "error"} /\ ~early'
  <2>1. NoSettings \in Settings /\ NoSettings.triggers = {}
    BY SettingsTyped
  <2>2. /\ NewCallback.outcome = "none" /\ ~NewCallback.early
        /\ ~TooEarly(NewCallback)
    BY DEF NewCallback, TooEarly
  <2> QED BY <1>1, <1>2, <2>1, <2>2, Facts DEF Sent
<1>4. Typed'
  <2>1. 0 \in 0..MaxDarkResumes /\ 0 \in 0..MaxScanRetries
    BY WakeAssumption
  <2> QED
    BY <1>1, <1>2, <1>3, <2>1 DEF Typed, TypeOK, Sent, envVars
<1>5. Trimmed'
  BY <1>1 DEF Trimmed, WhitelistIsTrimmed
<1>6. Timely' /\ Disarmable' /\ Disarmed'
  BY <1>2, <1>3
  DEF Inv, Timely, ReadyAfterActions, Disarmable, Armed, Disarmed, envVars
<1>7. ASSUME patient PROVE Orderly'
  <2>1. Orderly /\ Idle /\ ~inDark /\ errors = 0
    BY <1>1, AtRest, <1>7 DEF Inv, PowerdMayMove
  <2>2. Quiet'
    BY <2>1 DEF Orderly, Quiet, Idle
  <2>3. Asked'
    BY <1>2, <2>1 DEF Asked, Idle, Answering
  <2>4. Listed'
    BY <2>1 DEF Listed, Idle
  <2>5. Heeds'
    BY <1>3, <2>1 DEF Orderly, Heeds, Hears
  <2> QED BY <2>2, <2>3, <2>4, <2>5 DEF Orderly
<1> QED
  BY <1>4, <1>5, <1>6, <1>7 DEF Inv, envVars

\* A dark resume that acts on the reason of the wake.
LEMMA ActOnWakeReasonKeeps ==
  ASSUME Inv, NEW connected \in BOOLEAN, NEW few \in BOOLEAN, NEW n \in SsidCounts,
         PowerdMayMove, phase = "woken", Announced(n), phase' = "dark", lost' = FALSE,
         history' \in 0..MaxDarkResumes, KeepDone(NewCallback), acted' = "none",
         ActOnWakeReason(connected, few),
         UNCHANGED <<triggers, nicVars, timerVars, crashed>>,
         UNCHANGED <<envVars, reason, reasonDue, replies, setRetries, events>>
  PROVE  Inv'
<1>1. /\ Typed /\ n \in Nat /\ cycles' \in 0..MaxCycles
      /\ ssids' = n /\ whitelisted' = n
      /\ stale' = Answering /\ stale' \in BOOLEAN /\ left' = "nothing"
  BY AnnouncedCycles, WakeAssumption DEF Inv, SsidCounts
<1>2. /\ posted' \in Seq(Posted) /\ scanRetries' \in 0..MaxScanRetries
      /\ posted = <<>> => Len(posted') <= 1
      /\ inDark' = TRUE /\ timeout' = TRUE
  <2>1. posted \in Seq(Posted)
    BY <1>1, Facts
  <2>2. PICK task \in Posted : task = [connected |-> connected, lease |-> FALSE]
    BY DEF Posted
  <2>3. /\ posted' \in {posted, Append(posted, task)}
        /\ scanRetries' \in {MaxScanRetries, 0} /\ inDark' = TRUE /\ timeout' = TRUE
    BY <2>2 DEF ActOnWakeReason
  <2>4. posted = <<>> => Len(posted) <= 1
    BY EmptySeq
  <2> QED BY <1>1, <2>1, <2>3, <2>4, OnePosts, WakeAssumption
<1>3. callback' = TRUE /\ outcome' = "none" /\ early' = FALSE
  BY DEF KeepDone, NewCallback
<1>4. Typed'
  BY <1>1, <1>2, <1>3 DEF Typed, TypeOK, Posted, nicVars, timerVars, envVars
<1>5. Trimmed' /\ Timely' /\ Disarmable' /\ Disarmed'
  <2>1. Answering' = Answering /\ Armed' = Armed
    BY DEF Answering, Armed, nicVars
  <2>2. Timely'
    BY <1>1, <1>3, <2>1 DEF Timely, ReadyAfterActions
  <2> QED
    BY <1>1, <2>1, <2>2
    DEF Inv, Trimmed, WhitelistIsTrimmed, Disarmable, Disarmed, envVars
<1>6. ASSUME patient PROVE Orderly'
  <2>1. Orderly /\ Idle /\ errors = 0
    BY <1>1, <1>6, AtRest DEF Inv, PowerdMayMove
  <2>2. Quiet'
    BY <1>2, <2>1 DEF Quiet, Idle
  <2>3. Asked'
    BY <2>1 DEF Asked, Idle, Answering, nicVars
  <2>4. Listed'
    BY <1>1, <1>2 DEF Listed
  <2>5. Heeds'
    BY <1>3, <2>1 DEF Orderly, Heeds, Hears
  <2> QED BY <2>2, <2>3, <2>4, <2>5 DEF Orderly
<1> QED
  BY <1>4, <1>5, <1>6 DEF Inv, envVars

\* A dark resume is announced.
LEMMA OnDarkResumeKeeps ==
  ASSUME Inv, NEW connected \in BOOLEAN, NEW n \in SsidCounts,
         NEW recent \in 0..MaxDarkResumes, NEW few \in BOOLEAN,
         OnDarkResume(connected, n, recent, few)
  PROVE  Inv'
<1>1. PICK counted : counted = recent + (IF Thrashing(connected) THEN 1 ELSE 0)
  OBVIOUS
<1>2. /\ PowerdMayMove /\ phase = "woken" /\ Announced(n) /\ phase' = "dark"
      /\ lost' = FALSE
      /\ UNCHANGED <<envVars, reason, reasonDue, replies, setRetries, events>>
      /\ IF counted >= MaxDarkResumes
         THEN ThrottleDarkResume
         ELSE /\ history' = counted
              /\ KeepDone(NewCallback)
              /\ acted' = "none"
              /\ ActOnWakeReason(connected, few)
              /\ UNCHANGED <<triggers, nicVars, timerVars, crashed>>
  BY <1>1 DEF OnDarkResume
<1>3. CASE counted >= MaxDarkResumes
  BY <1>2, <1>3, ThrottleKeeps
<1>4. CASE ~(counted >= MaxDarkResumes)
  <2>1. counted \in 0..MaxDarkResumes
    BY <1>1, <1>4, WakeAssumption
  <2> QED BY <1>2, <1>4, <2>1, ActOnWakeReasonKeeps
<1> QED
  BY <1>3, <1>4

\* The system is awake again: what was armed is disarmed.
LEMMA OnAfterResumeKeeps ==
  ASSUME Inv, OnAfterResume PROVE Inv'
<1> USE DEF OnAfterResume
<1>1. Typed /\ nic \in Settings /\ AnyTime \in Dones /\ AnyTime.acted /\ AnyTime.early = early
  BY Facts DEF Inv
<1>2. /\ triggers' \in {triggers, {}} /\ crashed' \in BOOLEAN /\ nic' \in Settings
      /\ nic'.triggers \in {nic.triggers, {}} /\ verify' \in BOOLEAN
      /\ faults' \in 0..MaxFaults /\ errors' \in 0..MaxFaults /\ errors' <= faults'
      /\ callback' \in BOOLEAN /\ early' \in BOOLEAN /\ outcome' \in Outcomes
      /\ early' => early
      /\ DisarmsOnResume => triggers' = {}
      /\ faults' = faults /\ DisarmsOnResume => nic'.triggers = {}
      /\ ~DisarmsOnResume => triggers' = triggers /\ nic' = nic
  <2>1. CASE DisarmsOnResume
    <3>1. /\ triggers' = {} /\ crashed' \in BOOLEAN /\ Sent(NoSettings, AnyTime)
          /\ wiphy /\ faults' = faults => nic' = NoSettings
      BY <1>1, <2>1, Disables
    <3>2. wiphy
      BY <2>1 DEF DisarmsOnResume, PacketEnabled, DarkConnectEnabled
    <3>3. NoSettings \in Settings /\ NoSettings.triggers = {}
      <4>1. 0 \in SsidCounts /\ {} \in SUBSET Triggers
        BY WakeAssumption DEF SsidCounts
      <4> QED BY <4>1, SettingsTyped
    <3>4. outcome' \in Outcomes
      BY <1>1, <3>1 DEF Sent, Dones, Outcomes
    <3>5. ~TooEarly(AnyTime)
      BY <1>1 DEF TooEarly
    <3> QED BY <1>1, <2>1, <3>1, <3>2, <3>3, <3>4, <3>5 DEF Sent
  <2>2. CASE ~DisarmsOnResume
    BY <1>1, <2>2 DEF Typed, TypeOK, nicVars, doneVars, Outcomes
  <2> QED BY <2>1, <2>2
<1>3. Typed'
  BY <1>1, <1>2 DEF Typed, TypeOK, envVars, Outcomes
<1>4. Trimmed'
  BY DEF Inv, Trimmed, WhitelistIsTrimmed
<1>5. /\ Timely' /\ Disarmable'
      /\ ~wakeToScan' /\ ~lease'
      /\ left' \in {"nothing", "nic"} /\ (left' = "nothing" => ~Armed')
  <2>1. Timely' /\ Disarmable'
    BY <1>2 DEF Inv, Timely, ReadyAfterActions, Acting, Disarmable, Armed, envVars
  <2>2. Armed /\ features # "none" => DisarmsOnResume
    BY <1>1
    DEF Inv, Disarmable, DisarmsOnResume, PacketEnabled, DarkConnectEnabled, Typed,
        TypeOK, Features
  <2>3. left' = "nothing" => ~Armed \/ (features # "none" /\ faults' = faults)
    OBVIOUS
  <2> QED BY <1>2, <2>1, <2>2, <2>3 DEF Armed
<1>6. ASSUME patient PROVE Orderly'
  <2>1. Orderly /\ Idle /\ ~inDark
    BY <1>1, <1>6 DEF Inv, PowerdMayMove, Idle, Typed, Orderly, Quiet
  <2>2. Quiet'
    BY <2>1 DEF Orderly, Quiet, Idle
  <2>3. Asked' /\ Listed' /\ Heeds'
    BY <2>1 DEF Asked, Acting, Listed, Heeds, Hears, Idle, Answering
  <2> QED BY <2>2, <2>3 DEF Orderly
<1> QED
  BY <1>3, <1>4, <1>5, <1>6 DEF Inv, Disarmed, envVars
-----------------------------------------------------------------------------
\* The initial state satisfies the inductive invariant.
LEMMA InitInv == Init => Inv
<1> SUFFICES ASSUME Init PROVE Inv
  OBVIOUS
<1>1. NoSettings \in Settings /\ NoSettings.triggers = {} /\ 0 \in SsidCounts
  <2>1. 0 \in SsidCounts
    BY WakeAssumption DEF SsidCounts
  <2>2. NoSettings \in Settings /\ NoSettings.triggers = {}
    BY <2>1 DEF NoSettings, Settings
  <2> QED BY <2>1, <2>2
<1>2. Typed
  <2>1. /\ scanRetries \in 0..MaxScanRetries /\ history \in 0..MaxDarkResumes
        /\ errors \in 0..MaxFaults /\ setRetries \in 0..MaxSetRetries
        /\ cycles \in 0..MaxCycles /\ faults \in 0..MaxFaults
        /\ events \in 0..MaxEvents /\ errors <= faults
    BY WakeAssumption DEF Init
  <2>2. wiphy \in BOOLEAN /\ patient \in BOOLEAN
    BY WakeAssumption DEF Init
  <2>3. /\ posted \in Seq([connected : BOOLEAN, lease : BOOLEAN])
        /\ replies \in Seq(Settings) /\ nic \in Settings
        /\ ssids \in SsidCounts /\ whitelisted \in SsidCounts
    BY <1>1 DEF Init
  <2>4. /\ phase \in {"awake", "suspending", "asleep", "woken", "dark"}
        /\ features \in Features /\ reason \in Reasons
        /\ reasonDue \in Reasons \cup {"none"} /\ triggers \subseteq Triggers
        /\ outcome \in Outcomes /\ acted \in {"none", "plain", "dark"}
        /\ timeout = inDark
    BY DEF Init, Reasons, Outcomes
  <2>5. /\ {wiphy, patterns, patient, callback, inDark, timeout, verify, wakeToScan,
            lease, crashed, early, stale, lost} \subseteq BOOLEAN
        /\ left \in {"nothing", "nic", "actions"}
    BY <2>2 DEF Init
  <2> QED BY <2>1, <2>3, <2>4, <2>5 DEF Typed, TypeOK, Outcomes
<1> QED
  BY <1>1, <1>2, EmptySeq
  DEF Init, Inv, Trimmed, WhitelistIsTrimmed, Timely, ReadyAfterActions, Answering,
      Disarmable, Armed, Disarmed, Orderly, Quiet, Idle, Asked, NoneDue, Acting, Listed,
      Heeds, Hears

\* Every task, and every step of powerd, preserves the inductive invariant.
LEMMA NextInv == Inv /\ [Next]_vars => Inv'
<1> SUFFICES ASSUME Inv, [Next]_vars PROVE Inv'
  OBVIOUS
<1>1. CASE ShillStep
  BY <1>1, RunPostedActionsKeeps, DarkResumeTimeoutKeeps,
     OnConnectedAndReachableKeeps,
     OnNoAutoConnectableServicesAfterScanKeeps, RequestKeeps, VerifyKeeps, ErrorKeeps
  DEF ShillStep
<1>2. CASE PowerStep
  BY <1>2, OnBeforeSuspendKeeps, SleepKeeps, WakeKeeps, OnWakeupReasonReceivedKeeps,
     OnDarkResumeKeeps, OnAfterResumeKeeps
  DEF PowerStep
<1>3. CASE UNCHANGED vars
  BY <1>3
  DEF vars, Inv, Typed, TypeOK, Trimmed, WhitelistIsTrimmed, Timely,
      ReadyAfterActions, Answering, Disarmable, Armed, Disarmed, Orderly, Quiet, Idle,
      Asked, NoneDue, Acting, Listed, Heeds, Hears, nicVars, timerVars, doneVars, envVars
<1> QED
  BY <1>1, <1>2, <1>3, SetPacketConnectionsKeeps, SetFeaturesKeeps,
     OnWiphyIndexReceivedKeeps
  DEF Next

\* The inductive invariant holds in every reachable state.
THEOREM WakeInvariance == Spec => []Inv
  BY InitInv, NextInv, PTL DEF Spec

\* Readiness to suspend is reported after the actions of this announcement,
\* whatever powerd does, unless the kernel owed an answer when it was announced
\* (RunAndResetSuspendActionsDoneCallback).
THEOREM ReadyAfter == Spec => []ReadyAfterActions
<1>1. Inv => ReadyAfterActions
  BY DEF Inv, Timely
<1> QED
  BY <1>1, WakeInvariance, PTL

\* A device that has SSIDs to wait for and let the system sleep has armed the
\* NIC or the wake to scan timer, whatever BeforeSuspendActions trimmed, the
\* kernel refused or the throttling of dark resumes disabled.
THEOREM NeverDeaf == Spec => []NeverSleepsDeaf
<1>1. Inv => NeverSleepsDeaf
  BY DEF Inv, Orderly, Heeds, Hears, NeverSleepsDeaf
<1> QED
  BY <1>1, WakeInvariance, PTL

\* The system sleeps as was planned, unless the wake to scan timer is forced on
\* (BeforeSuspendActions then pads the whitelist instead of trimming it).
THEOREM SleepsPlanned ==
  ASSUME ForceWakeToScan = FALSE
  PROVE  Spec => []SleepsAsPlanned
<1>1. Inv => SleepsAsPlanned
  BY DEF Inv, Typed, Trimmed, Orderly, Heeds, Hears, SleepsAsPlanned, NeverSleepsDeaf
<1> QED
  BY <1>1, WakeInvariance, PTL

\* While the system is up nothing is armed, whenever clients change the features
\* and whatever powerd does, but for what AwakeIsDisarmed excepts: actions taken
\* after the resume, and a resume that did not reach the NIC (OnAfterResume).
THEOREM AwakeDisarmed == Spec => []AwakeIsDisarmed
<1>1. Inv => AwakeIsDisarmed
  BY DEF Inv, Disarmed, Armed, AwakeIsDisarmed
<1> QED
  BY <1>1, WakeInvariance, PTL
-----------------------------------------------------------------------------
(***************************************************************************)
(* Readiness to suspend.  An aggregator that is still at work is that of   *)
(* the attempt under way, and every device that owes it a report still     *)
(* holds a reference to it or has dropped it, so that when the last        *)
(* reference is gone only devices that dropped theirs are unheard.         *)
(***************************************************************************)
\* The devices whose callbacks refer to aggregator k.
HoldersOf(k, stores, halts) ==
    {w \in WiFis : stores[w] = k} \cup {m \in Modems : k \in halts[m]}

Holders(k) == HoldersOf(k, stored, stops)
NewHolders(k) == HoldersOf(k, stored', stops')

\* An aggregator that has neither fired nor timed out may do either, once.
Once(a) == a.fired <= 1 /\ (a.alive /\ ~a.timedOut => a.fired = 0)

\* Aggregator k, when l are the latest ones, ds the devices and hs the holders
\* of k, is that of the attempt under way, and who owes it a report holds it.
Attended(a, k, l, ds, hs) ==
    a.alive /\ ~a.timedOut =>
        k = l[a.kind] /\ a.owed \cap ds \subseteq a.dropped \cup hs

AllOnce(as) == \A k \in DOMAIN as : Once(as[k])

\* What every step must make of the aggregators before it settles them.
WillBeAttended(as) ==
    ~hurried' => \A k \in DOMAIN as :
                     Attended(as[k], k, latest', devices', NewHolders(k))

OnceOnly == AllOnce(aggs)

AllAttended ==
    ~hurried => \A k \in DOMAIN aggs :
                    Attended(aggs[k], k, latest, devices, Holders(k))

\* What a report to a powerd that waits says.
TrueReport(r) == r.current /\ (~r.timedOut => r.unheard \subseteq r.dropped)

TrueReports == ~hurried => \A r \in reports : TrueReport(r)

SuspendInv == SuspendTypeOK /\ OnceOnly /\ AllAttended /\ TrueReports
-----------------------------------------------------------------------------
\* A sequence as the function it is.
LEMMA SeqIsFunction ==
  ASSUME NEW Elt, NEW s \in Seq(Elt)
  PROVE  /\ Len(s) \in Nat /\ DOMAIN s = 1..Len(s) /\ s \in [DOMAIN s -> Elt]
         /\ \A k \in DOMAIN s : s[k] \in Elt
  BY LenProperties

\* A function on the domain of a sequence is a sequence as long.
LEMMA FunctionIsSeq ==
  ASSUME NEW Elt, NEW s \in Seq(Elt), NEW f \in [DOMAIN s -> Elt]
  PROVE  f \in Seq(Elt) /\ Len(f) = Len(s) /\ DOMAIN f = DOMAIN s
<1>1. Len(s) \in Nat /\ DOMAIN s = 1..Len(s)
  BY LenProperties
<1> QED
  BY <1>1

\* What PowerManager reports of an attempt has the type of a report.
LEMMA ReportTyped ==
  ASSUME NEW p \in PowerManagers(Ids), NEW l \in [Kinds -> Ids],
         NEW kind \in Kinds,
         NEW k, NEW late \in BOOLEAN, NEW unheard \in SUBSET Devices,
         NEW gone \in SUBSET Devices,
         NEW r \in ReportsOf(p, l, kind, k, late, unheard, gone)
  PROVE  r \in Reports
<1>1. r = [kind |-> kind, id |-> ReportedId(p, kind), current |-> k = l[kind],
           timedOut |-> late, unheard |-> unheard, dropped |-> gone]
  BY DEF ReportsOf
<1>2. ReportedId(p, kind) \in Ids
  BY DEF ReportedId, PowerManagers
<1>3. (k = l[kind]) \in BOOLEAN
  OBVIOUS
<1> QED
  BY <1>1, <1>2, <1>3 DEF Reports

\* No step of an aggregator makes it fire a second time.
LEMMA AggregatorTyped ==
  ASSUME NEW a \in Aggregators(Kinds, Devices), Once(a), NEW d
  PROVE  /\ ReportResult(a, d) \in Aggregators(Kinds, Devices)
         /\ Once(ReportResult(a, d))
         /\ a.alive => /\ Destroy(a) \in Aggregators(Kinds, Devices)
                       /\ Once(Destroy(a))
         /\ CanTimeOut(a) => /\ Timeout(a) \in Aggregators(Kinds, Devices)
                             /\ Once(Timeout(a))
<1>1. /\ ReportResult(a, d) \in Aggregators(Kinds, Devices)
      /\ Once(ReportResult(a, d))
  BY DEF Aggregators, Once, ReportResult
<1>2. ASSUME a.alive
      PROVE  Destroy(a) \in Aggregators(Kinds, Devices) /\ Once(Destroy(a))
  <2>1. PICK n : n = IF FiresWhenDestroyed(a) THEN a.fired + 1 ELSE a.fired
    OBVIOUS
  <2>2. n \in Nat /\ n <= 1
    BY <2>1, <1>2 DEF Once, FiresWhenDestroyed, Aggregators
  <2>3. Destroy(a) = [a EXCEPT !.alive = FALSE, !.fired = n]
    BY <2>1 DEF Destroy
  <2> QED BY <2>2, <2>3 DEF Aggregators, Once
<1>3. ASSUME CanTimeOut(a)
      PROVE  Timeout(a) \in Aggregators(Kinds, Devices) /\ Once(Timeout(a))
  <2>1. PICK n : n = a.fired + 1
    OBVIOUS
  <2>2. n \in Nat /\ n <= 1
    BY <2>1, <1>3 DEF Once, CanTimeOut, Aggregators
  <2>3. Timeout(a) = [a EXCEPT !.timedOut = TRUE, !.fired = n]
    BY <2>1 DEF Timeout
  <2> QED BY <2>2, <2>3 DEF Aggregators, Once
<1> QED
  BY <1>1, <1>2, <1>3

\* The end of a step: what Settle makes of aggregators that are attended.
LEMMA Settled ==
  ASSUME NEW as \in Seq(Aggregators(Kinds, Devices)), Settle(as), SuspendTypeOK,
         TrueReports,
         pm' \in PowerManagers(Ids), latest' \in [Kinds -> Ids],
         devices' \subseteq Devices, ~hurried' => ~hurried,
         AllOnce(as), WillBeAttended(as)
  PROVE  /\ aggs' \in Seq(Aggregators(Kinds, Devices)) /\ Len(aggs') = Len(as)
         /\ reports' \subseteq Reports
         /\ OnceOnly' /\ AllAttended' /\ TrueReports'
<1> DEFINE Aggs == Aggregators(Kinds, Devices)
           dying == {k \in DOMAIN as : as[k].alive /\ ~Held(k)}
           firing == {j \in dying : FiresWhenDestroyed(as[j])}
           new(k) == ReportsOf(pm', latest', as[k].kind, k, FALSE,
                               as[k].owed \cap devices', as[k].dropped)
<1>1. /\ Len(as) \in Nat /\ DOMAIN as = 1..Len(as)
      /\ \A k \in DOMAIN as : as[k] \in Aggs
  BY SeqIsFunction
<1>2. aggs' = [k \in DOMAIN as |-> IF k \in dying THEN Destroy(as[k]) ELSE as[k]]
  BY DEF Settle
<1>3. reports' = reports \cup UNION {new(k) : k \in firing}
  BY DEF Settle
<1>4. \A k \in dying : k \in DOMAIN as /\ as[k].alive
  OBVIOUS
<1>5. \A k \in firing : ~as[k].timedOut /\ k \in dying
  BY DEF FiresWhenDestroyed
<1>6. \A k \in dying : NewHolders(k) = {}
  BY DEF Held, Holders, NewHolders, HoldersOf
<1> HIDE DEF dying, firing
<1>7. ASSUME NEW k \in DOMAIN as
      PROVE  /\ aggs'[k] \in Aggs /\ Once(aggs'[k])
             /\ ~hurried' => Attended(aggs'[k], k, latest', devices', NewHolders(k))
  <2>1. CASE k \in dying
    <3>1. aggs'[k] = Destroy(as[k]) /\ as[k].alive
      BY <1>2, <1>4, <2>1
    <3>2. aggs'[k] \in Aggs /\ Once(aggs'[k])
      BY <1>1, <3>1, AggregatorTyped DEF AllOnce
    <3>3. ~aggs'[k].alive
      BY <1>1, <3>1 DEF Destroy, Aggregators
    <3> QED BY <3>2, <3>3 DEF Attended
  <2>2. CASE k \notin dying
    BY <1>1, <1>2, <2>2 DEF AllOnce, WillBeAttended
  <2> QED BY <2>1, <2>2
<1>8. aggs' \in Seq(Aggs) /\ Len(aggs') = Len(as) /\ DOMAIN aggs' = DOMAIN as
  <2>1. DOMAIN aggs' = DOMAIN as
    BY <1>2
  <2>2. aggs' \in [DOMAIN as -> Aggs]
    BY <1>2, <1>7, <2>1
  <2> QED BY <2>2, FunctionIsSeq
<1>9. OnceOnly' /\ AllAttended'
  BY <1>7, <1>8 DEF OnceOnly, AllOnce, AllAttended, Holders, NewHolders
<1>10. ASSUME NEW k \in firing, NEW r \in new(k)
       PROVE  r \in Reports /\ (~hurried' => TrueReport(r))
  <2>1. k \in DOMAIN as /\ as[k] \in Aggs /\ as[k].alive /\ ~as[k].timedOut
    BY <1>1, <1>4, <1>5
  <2>2. /\ as[k].kind \in Kinds /\ as[k].owed \cap devices' \in SUBSET Devices
        /\ as[k].dropped \in SUBSET Devices
    BY <2>1 DEF Aggregators
  <2>3. ~hurried' => /\ k = latest'[as[k].kind]
                     /\ as[k].owed \cap devices' \subseteq as[k].dropped
    BY <1>5, <1>6, <2>1 DEF Attended, WillBeAttended
  <2>4. r \in Reports
    BY <1>10, <2>2, ReportTyped
  <2>5. ~hurried' => TrueReport(r)
    <3>1. r = [kind |-> as[k].kind, id |-> ReportedId(pm', as[k].kind),
               current |-> k = latest'[as[k].kind], timedOut |-> FALSE,
               unheard |-> as[k].owed \cap devices', dropped |-> as[k].dropped]
      BY <1>10 DEF ReportsOf
    <3>2. ~hurried' => r.current /\ r.unheard \subseteq r.dropped
      BY <2>3, <3>1
    <3> QED BY <3>2 DEF TrueReport
  <2> QED BY <2>4, <2>5
<1> HIDE DEF new
<1>11. reports' \subseteq Reports
  BY <1>3, <1>10 DEF SuspendTypeOK
<1>12. TrueReports'
  BY <1>3, <1>10 DEF TrueReports
<1> QED
  BY <1>8, <1>9, <1>11, <1>12
-----------------------------------------------------------------------------
\* Running the callback of aggregator k touches no other aggregator.
LEMMA RanAggregators ==
  ASSUME SuspendInv, NEW k \in Ids, NEW d, NEW as, as = Ran(aggs, k, d)
  PROVE  /\ as \in Seq(Aggregators(Kinds, Devices)) /\ Len(as) = Len(aggs)
         /\ DOMAIN as = DOMAIN aggs
         /\ \A j \in DOMAIN aggs :
                /\ Once(as[j])
                /\ as[j] = IF j = k THEN ReportResult(aggs[j], d) ELSE aggs[j]
<1> DEFINE Aggs == Aggregators(Kinds, Devices)
<1>1. /\ Len(aggs) \in Nat /\ DOMAIN aggs = 1..Len(aggs)
      /\ aggs \in [DOMAIN aggs -> Aggs] /\ aggs \in Seq(Aggs)
  BY SeqIsFunction DEF SuspendInv, SuspendTypeOK
<1>2. \A j \in DOMAIN aggs : /\ aggs[j] \in Aggs /\ Once(aggs[j])
                             /\ ReportResult(aggs[j], d) \in Aggs
                             /\ Once(ReportResult(aggs[j], d))
  BY <1>1, AggregatorTyped DEF SuspendInv, OnceOnly, AllOnce
<1>3. CASE k = NoCallback
  BY <1>1, <1>2, <1>3 DEF Ran, NoCallback
<1>4. CASE k # NoCallback
  <2>1. as = [aggs EXCEPT ![k] = ReportResult(@, d)]
    BY <1>4 DEF Ran
  <2>2. /\ DOMAIN as = DOMAIN aggs
        /\ \A j \in DOMAIN aggs :
               as[j] = IF j = k THEN ReportResult(aggs[j], d) ELSE aggs[j]
    BY <1>1, <2>1
  <2>3. as \in [DOMAIN aggs -> Aggs]
    BY <1>1, <1>2, <2>1, <2>2
  <2>4. as \in Seq(Aggs) /\ Len(as) = Len(aggs)
    BY <1>1, <2>3, FunctionIsSeq
  <2> QED BY <1>2, <2>2, <2>4
<1> QED
  BY <1>3, <1>4

\* A device that runs the callback it holds.
LEMMA CallbackRun ==
  ASSUME SuspendInv, NEW k \in Ids, NEW d, Settle(Ran(aggs, k, d)),
         UNCHANGED <<pm, powerd, nextId, devices, latest, hurried>>,
         \A j \in DOMAIN aggs :
             Holders(j) \subseteq NewHolders(j) \cup (IF j = k THEN {d} ELSE {})
  PROVE  /\ aggs' \in Seq(Aggregators(Kinds, Devices)) /\ Len(aggs') <= nextId'
         /\ reports' \subseteq Reports
         /\ OnceOnly' /\ AllAttended' /\ TrueReports'
<1>1. PICK as : as = Ran(aggs, k, d)
  OBVIOUS
<1>2. Settle(as)
  BY <1>1
<1>3. /\ as \in Seq(Aggregators(Kinds, Devices)) /\ Len(as) = Len(aggs)
      /\ DOMAIN as = DOMAIN aggs
      /\ \A j \in DOMAIN aggs :
             /\ Once(as[j])
             /\ as[j] = IF j = k THEN ReportResult(aggs[j], d) ELSE aggs[j]
  BY <1>1, RanAggregators
<1>4. ASSUME NEW j \in DOMAIN as, ~hurried'
      PROVE  Attended(as[j], j, latest', devices', NewHolders(j))
  <2>1. Attended(aggs[j], j, latest, devices, Holders(j))
    BY <1>3, <1>4 DEF SuspendInv, AllAttended
  <2>2. Holders(j) \subseteq NewHolders(j) \cup (IF j = k THEN {d} ELSE {})
    BY <1>3
  <2>3. aggs[j] \in Aggregators(Kinds, Devices)
    BY <1>3, SeqIsFunction DEF SuspendInv, SuspendTypeOK
  <2>4. CASE j = k
    <3>1. as[j] = ReportResult(aggs[j], d)
      BY <1>3, <2>4
    <3>2. /\ as[j].alive = aggs[j].alive /\ as[j].timedOut = aggs[j].timedOut
          /\ as[j].kind = aggs[j].kind /\ as[j].owed = aggs[j].owed \ {d}
          /\ as[j].dropped = aggs[j].dropped
      BY <2>3, <3>1 DEF ReportResult, Aggregators
    <3> QED BY <2>1, <2>2, <2>4, <3>2 DEF Attended
  <2>5. CASE j # k
    BY <1>3, <2>1, <2>2, <2>5 DEF Attended
  <2> QED BY <2>4, <2>5
<1>5. /\ SuspendTypeOK /\ TrueReports /\ pm' \in PowerManagers(Ids)
      /\ latest' \in [Kinds -> Ids] /\ devices' \subseteq Devices
      /\ (~hurried' => ~hurried) /\ Len(aggs) <= nextId /\ nextId' = nextId
  BY DEF SuspendInv, SuspendTypeOK
<1>6. WillBeAttended(as)
  BY <1>4, <1>5 DEF WillBeAttended
<1>7. AllOnce(as)
  BY <1>3 DEF AllOnce
<1>8. /\ aggs' \in Seq(Aggregators(Kinds, Devices)) /\ Len(aggs') = Len(as)
      /\ reports' \subseteq Reports
      /\ OnceOnly' /\ AllAttended' /\ TrueReports'
  BY <1>2, <1>3, <1>5, <1>6, <1>7, Settled
<1> QED
  BY <1>3, <1>5, <1>8

\* A WiFi device runs the callback it has stored.
LEMMA WiFiActionsDoneKeeps ==
  ASSUME SuspendInv, NEW w \in WiFis, WiFiActionsDone(w)
  PROVE  SuspendInv'
<1> USE DEF WiFiActionsDone
<1>1. stored[w] \in Ids /\ Settle(Ran(aggs, stored[w], w))
  BY DEF SuspendInv, SuspendTypeOK
<1>2. stored' = [v \in WiFis |-> IF v = w THEN NoCallback ELSE stored[v]]
  BY DEF SuspendInv, SuspendTypeOK
<1>3. \A j \in DOMAIN aggs :
          Holders(j) \subseteq NewHolders(j) \cup (IF j = stored[w] THEN {w} ELSE {})
  BY <1>2 DEF Holders, NewHolders, HoldersOf
<1>4. /\ aggs' \in Seq(Aggregators(Kinds, Devices)) /\ Len(aggs') <= nextId'
      /\ reports' \subseteq Reports
      /\ OnceOnly' /\ AllAttended' /\ TrueReports'
  BY <1>1, <1>3, CallbackRun
<1>5. stored' \in [WiFis -> Ids]
  BY <1>2, SuspendAssumption DEF SuspendInv, SuspendTypeOK, Ids, NoCallback
<1> QED
  BY <1>4, <1>5 DEF SuspendInv, SuspendTypeOK

\* The flags of a modem whose operation has ended.
LEMMA EnabledChanges ==
  ASSUME SuspendTypeOK, NEW m \in Modems, NEW ok \in BOOLEAN,
         EnabledStateChanged(m, ok)
  PROVE  /\ enabled' \in [WiFis \cup Modems -> BOOLEAN]
         /\ pending' \in [Modems -> BOOLEAN]
<1>1. enabled' \in [WiFis \cup Modems -> BOOLEAN]
  BY DEF SuspendTypeOK, EnabledStateChanged
<1> QED
  BY <1>1 DEF SuspendTypeOK, EnabledStateChanged

\* A modem that has started holds the same callbacks as before.
LEMMA StartModemCallbackKeeps ==
  ASSUME SuspendInv, NEW m \in Modems, NEW ok \in BOOLEAN,
         StartModemCallback(m, ok)
  PROVE  SuspendInv'
<1> USE DEF StartModemCallback
<1>1. starts' \in [Modems -> Nat]
  BY DEF SuspendInv, SuspendTypeOK
<1>2. SuspendTypeOK'
  BY <1>1, EnabledChanges DEF SuspendInv, SuspendTypeOK
<1> QED
  BY <1>2
  DEF SuspendInv, OnceOnly, AllAttended, TrueReports, Holders, NewHolders, HoldersOf

\* A modem that has stopped runs the callback of its stop.
LEMMA StopModemCallbackKeeps ==
  ASSUME SuspendInv, NEW m \in Modems, NEW k \in Ids, NEW ok \in BOOLEAN,
         StopModemCallback(m, k, ok)
  PROVE  SuspendInv'
<1> USE DEF StopModemCallback
<1>1. stops' = [n \in Modems |-> IF n = m THEN stops[n] \ {k} ELSE stops[n]]
  BY DEF SuspendInv, SuspendTypeOK
<1>2. \A j \in DOMAIN aggs :
          Holders(j) \subseteq NewHolders(j) \cup (IF j = k THEN {m} ELSE {})
  BY <1>1 DEF Holders, NewHolders, HoldersOf
<1>3. /\ aggs' \in Seq(Aggregators(Kinds, Devices)) /\ Len(aggs') <= nextId'
      /\ reports' \subseteq Reports
      /\ OnceOnly' /\ AllAttended' /\ TrueReports'
  BY <1>2, CallbackRun
<1>4. stops' \in [Modems -> SUBSET Ids]
  BY <1>1 DEF SuspendInv, SuspendTypeOK
<1> QED
  BY <1>3, <1>4, EnabledChanges DEF SuspendInv, SuspendTypeOK

\* An aggregator that times out reports for its own attempt.
LEMMA AggregatorTimesOutKeeps ==
  ASSUME SuspendInv, NEW k \in Ids, AggregatorTimesOut(k)
  PROVE  SuspendInv'
<1> USE DEF AggregatorTimesOut, deviceVars
<1> DEFINE Aggs == Aggregators(Kinds, Devices)
           new == ReportsOf(pm, latest, aggs[k].kind, k, TRUE,
                            aggs[k].owed \cap devices, aggs[k].dropped)
<1>1. /\ Len(aggs) \in Nat /\ DOMAIN aggs = 1..Len(aggs)
      /\ aggs \in [DOMAIN aggs -> Aggs] /\ aggs \in Seq(Aggs)
  BY SeqIsFunction DEF SuspendInv, SuspendTypeOK
<1>2. /\ k \in DOMAIN aggs /\ aggs[k] \in Aggs /\ Once(aggs[k]) /\ CanTimeOut(aggs[k])
      /\ aggs' = [aggs EXCEPT ![k] = Timeout(aggs[k])]
  BY <1>1 DEF SuspendInv, OnceOnly, AllOnce
<1>3. /\ Timeout(aggs[k]) \in Aggs /\ Once(Timeout(aggs[k]))
      /\ Timeout(aggs[k]).timedOut
  BY <1>2, AggregatorTyped DEF Timeout, Aggregators
<1>4. /\ aggs' \in Seq(Aggs) /\ Len(aggs') = Len(aggs) /\ DOMAIN aggs' = DOMAIN aggs
      /\ \A j \in DOMAIN aggs : aggs'[j] = IF j = k THEN Timeout(aggs[k]) ELSE aggs[j]
  <2>1. aggs' \in [DOMAIN aggs -> Aggs]
    BY <1>1, <1>2, <1>3
  <2> QED BY <1>1, <1>2, <2>1, FunctionIsSeq
<1>5. OnceOnly' /\ AllAttended'
  <2>1. \A j : NewHolders(j) = Holders(j)
    BY DEF Holders, NewHolders, HoldersOf
  <2>2. \A hs : Attended(Timeout(aggs[k]), k, latest, devices, hs)
    BY <1>3 DEF Attended
  <2> QED BY <1>3, <1>4, <2>1, <2>2
           DEF SuspendInv, OnceOnly, AllOnce, AllAttended, Holders, NewHolders
<1>6. \A r \in new : r \in Reports /\ (~hurried => TrueReport(r))
  <2>1. ~hurried => k = latest[aggs[k].kind]
    BY <1>2 DEF SuspendInv, AllAttended, Attended, CanTimeOut
  <2>2. /\ aggs[k].kind \in Kinds /\ aggs[k].owed \cap devices \in SUBSET Devices
        /\ aggs[k].dropped \in SUBSET Devices
    BY <1>2 DEF Aggregators
  <2>3. pm \in PowerManagers(Ids) /\ latest \in [Kinds -> Ids]
    BY DEF SuspendInv, SuspendTypeOK
  <2>4. ASSUME NEW r \in new
        PROVE  r \in Reports /\ (~hurried' => TrueReport(r))
    <3>1. r \in Reports
      BY <2>2, <2>3, <2>4, ReportTyped
    <3>2. r = [kind |-> aggs[k].kind, id |-> ReportedId(pm, aggs[k].kind),
               current |-> k = latest[aggs[k].kind], timedOut |-> TRUE,
               unheard |-> aggs[k].owed \cap devices, dropped |-> aggs[k].dropped]
      BY <2>4 DEF ReportsOf
    <3>3. ~hurried' => r.current /\ r.timedOut
      BY <2>1, <3>2
    <3> QED BY <3>1, <3>3 DEF TrueReport
  <2> QED BY <2>4
<1>7. reports' = reports \cup new
  OBVIOUS
<1> HIDE DEF new
<1>8. SuspendTypeOK'
  BY <1>4, <1>6, <1>7 DEF SuspendInv, SuspendTypeOK
<1>9. TrueReports'
  BY <1>6, <1>7 DEF SuspendInv, TrueReports
<1> QED
  BY <1>5, <1>8, <1>9 DEF SuspendInv
-----------------------------------------------------------------------------
\* Every handler of PowerManager keeps the type of its state.
LEMMA PowerManagerTyped ==
  ASSUME NEW p \in PowerManagers(Ids), NEW id \in Ids,
         NEW ok \in BOOLEAN, NEW darkOk \in BOOLEAN
  PROVE  /\ SuspendImminent(p, id) \in PowerManagers(Ids)
         /\ DarkSuspendImminent(p, id) \in PowerManagers(Ids)
         /\ SuspendDone(p) \in PowerManagers(Ids)
         /\ PowerManagerVanished(p) \in PowerManagers(Ids)
         /\ PowerManagerAppeared(p, ok, darkOk) \in PowerManagers(Ids)
  BY DEF PowerManagers, SuspendImminent, DarkSuspendImminent, SuspendDone,
         PowerManagerVanished, PowerManagerAppeared

\* powerd that waited finds no aggregator at work.
LEMMA Waited ==
  ASSUME SuspendTypeOK, PowerdMoves, ~hurried'
  PROVE  ~hurried /\ \A k \in DOMAIN aggs : ~(aggs[k].alive /\ ~aggs[k].timedOut)
  BY DEF SuspendTypeOK, PowerdMoves, ShillIsWorking

\* An aggregator just created.
LEMMA NewIsTyped ==
  ASSUME NEW kind \in Kinds, NEW g \in BOOLEAN, NEW o \in SUBSET Devices,
         NEW losers \in SUBSET Devices
  PROVE  [kind |-> kind, got |-> g, timedOut |-> FALSE, alive |-> TRUE,
          fired |-> 0, owed |-> o, dropped |-> losers]
            \in Aggregators(Kinds, Devices)
  BY DEF Aggregators

\* The aggregator of an announcement: those that did not run its callback hold
\* it, or have dropped it.
LEMMA NewIsAttended ==
  ASSUME NEW kind \in Kinds, SuspendTypeOK, NEW new,
         new = NewAggregator(kind, devices, Inline(kind),
                   IF kind = "suspend" THEN (Modems \cap devices) \ Stopping ELSE {}),
         NEW hs, Storing \subseteq hs,
         kind = "suspend" => Stopping \subseteq hs,
         NEW k, NEW l, l[kind] = k
  PROVE  /\ new \in Aggregators(Kinds, Devices) /\ Once(new)
         /\ Attended(new, k, l, devices, hs)
<1> DEFINE heard == Inline(kind) # {}
           owing == devices \ Inline(kind)
           gone == IF kind = "suspend" THEN (Modems \cap devices) \ Stopping
                                       ELSE {}
<1>1. new = [kind |-> kind, got |-> heard, timedOut |-> FALSE, alive |-> TRUE,
             fired |-> 0, owed |-> owing, dropped |-> gone]
  BY DEF NewAggregator
<1>2. /\ heard \in BOOLEAN /\ owing \in SUBSET Devices
      /\ gone \in SUBSET Devices
  BY DEF SuspendTypeOK, Devices
<1>3. owing \subseteq gone \cup hs
  BY DEF Inline
<1> HIDE DEF heard, owing, gone
<1>4. PICK g \in BOOLEAN, o \in SUBSET Devices, losers \in SUBSET Devices :
          /\ new = [kind |-> kind, got |-> g, timedOut |-> FALSE, alive |-> TRUE,
                    fired |-> 0, owed |-> o, dropped |-> losers]
          /\ o \subseteq losers \cup hs
  BY <1>1, <1>2, <1>3
<1>5. new \in Aggregators(Kinds, Devices)
  BY <1>4, NewIsTyped
<1>6. Once(new)
  BY <1>4 DEF Once
<1>7. Attended(new, k, l, devices, hs)
  BY <1>4 DEF Attended
<1> QED
  BY <1>5, <1>6, <1>7

\* The Manager hands out the callbacks of an announced attempt.
LEMMA AnnounceKeeps ==
  ASSUME SuspendInv, NEW kind \in Kinds, Announce(kind),
         PowerdAnnounces,
         pm' \in PowerManagers(Ids), UNCHANGED <<powerd, incidents>>
  PROVE  SuspendInv'
<1> DEFINE Aggs == Aggregators(Kinds, Devices)
           k == Len(aggs) + 1
           mine == IF kind = "suspend" THEN Stopping ELSE {}
           losers == IF kind = "suspend" THEN (Modems \cap devices) \ Stopping ELSE {}
           new == NewAggregator(kind, devices, Inline(kind), losers)
<1>1. /\ PowerdMoves /\ nextId' = nextId + 1 /\ nextId < MaxAnnouncements
      /\ nextId \in Nat /\ nextId' \in Ids /\ hurried' \in BOOLEAN
  BY SuspendAssumption DEF PowerdAnnounces, SuspendInv, SuspendTypeOK, Ids,
     PowerdMoves
<1>2. /\ Len(aggs) \in Nat /\ DOMAIN aggs = 1..Len(aggs) /\ aggs \in Seq(Aggs)
      /\ Len(aggs) <= nextId
      /\ \A j \in DOMAIN aggs : aggs[j] \in Aggs
  BY SeqIsFunction DEF SuspendInv, SuspendTypeOK
<1>3. ~hurried' =>
          ~hurried /\ \A j \in DOMAIN aggs : ~(aggs[j].alive /\ ~aggs[j].timedOut)
  BY <1>1, Waited DEF SuspendInv
<1>4. CASE devices = {}
  <2>1. /\ latest' = [latest EXCEPT ![kind] = 0]
        /\ reports' = reports \cup ReportsOf(pm', latest', kind, 0, FALSE, {}, {})
        /\ UNCHANGED <<aggs, deviceVars>>
    BY <1>4 DEF Announce
  <2>2. latest' \in [Kinds -> Ids] /\ latest'[kind] = 0
    BY <2>1, SuspendAssumption DEF SuspendInv, SuspendTypeOK, Ids
  <2>3. \A r \in ReportsOf(pm', latest', kind, 0, FALSE, {}, {}) :
            r \in Reports /\ TrueReport(r)
    <3>1. ASSUME NEW r \in ReportsOf(pm', latest', kind, 0, FALSE, {}, {})
          PROVE  r \in Reports /\ TrueReport(r)
      <4>1. r \in Reports
        BY <2>2, <3>1, ReportTyped
      <4>2. r = [kind |-> kind, id |-> ReportedId(pm', kind),
                 current |-> 0 = latest'[kind], timedOut |-> FALSE,
                 unheard |-> {}, dropped |-> {}]
        BY <3>1 DEF ReportsOf
      <4>3. r.current /\ r.unheard \subseteq r.dropped
        BY <2>2, <4>2
      <4> QED BY <4>1, <4>3 DEF TrueReport
    <3> QED BY <3>1
  <2>4. OnceOnly' /\ AllAttended'
    BY <1>3, <2>1 DEF SuspendInv, OnceOnly, AllAttended, Attended
  <2>5. TrueReports'
    BY <1>3, <2>1, <2>3 DEF SuspendInv, TrueReports
  <2>6. reports' \subseteq Reports
    BY <2>1, <2>3 DEF SuspendInv, SuspendTypeOK
  <2>7. Len(aggs') <= nextId'
    BY <1>1, <1>2, <2>1
  <2>8. SuspendTypeOK'
    <3>1. UNCHANGED <<aggs, devices, stored, enabled, pending, persistent, starts, stops>>
      BY <2>1 DEF deviceVars
    <3> QED BY <1>1, <2>2, <2>6, <2>7, <3>1 DEF SuspendInv, SuspendTypeOK
  <2> QED BY <2>4, <2>5, <2>8 DEF SuspendInv
<1>5. CASE devices # {}
  <2>1. /\ latest' = [latest EXCEPT ![kind] = k]
        /\ stored' = [w \in WiFis |-> IF w \in Storing THEN k ELSE stored[w]]
        /\ pending' = [m \in Modems |-> IF m \in mine THEN FALSE ELSE pending[m]]
        /\ stops' = [m \in Modems |-> IF m \in mine THEN stops[m] \cup {k}
                                                   ELSE stops[m]]
        /\ UNCHANGED <<devices, enabled, persistent, starts>>
        /\ Settle(Append(aggs, new))
    BY <1>5 DEF Announce
  <2>2. k \in Ids /\ k <= nextId'
    BY <1>1, <1>2, SuspendAssumption DEF Ids
  <2>3. latest' \in [Kinds -> Ids] /\ latest'[kind] = k
    BY <2>1, <2>2 DEF SuspendInv, SuspendTypeOK
  <2>4. /\ Storing \subseteq NewHolders(k)
        /\ kind = "suspend" => Stopping \subseteq NewHolders(k)
    <3>1. Storing \subseteq WiFis /\ Stopping \subseteq Modems
      BY DEF Storing, Stopping
    <3>2. \A w \in Storing : stored'[w] = k
      BY <2>1, <3>1
    <3>3. kind = "suspend" => \A m \in Stopping : k \in stops'[m]
      BY <2>1, <3>1
    <3> QED BY <3>1, <3>2, <3>3 DEF Holders, NewHolders, HoldersOf
  <2>5. /\ new \in Aggs /\ Once(new)
        /\ Attended(new, k, latest', devices', NewHolders(k))
    BY <2>1, <2>3, <2>4, NewIsAttended DEF SuspendInv
  <2>6. /\ stored' \in [WiFis -> Ids] /\ pending' \in [Modems -> BOOLEAN]
        /\ stops' \in [Modems -> SUBSET Ids]
    BY <2>1, <2>2 DEF SuspendInv, SuspendTypeOK
  <2> HIDE DEF new, mine, k
  <2>7. /\ Append(aggs, new) \in Seq(Aggs) /\ Len(Append(aggs, new)) = Len(aggs) + 1
        /\ DOMAIN Append(aggs, new) = DOMAIN aggs \cup {k}
        /\ k \notin DOMAIN aggs
        /\ Append(aggs, new)[k] = new
        /\ \A j \in DOMAIN aggs : Append(aggs, new)[j] = aggs[j]
    BY <1>2, <2>5 DEF k
  <2>8. AllOnce(Append(aggs, new))
    BY <2>5, <2>7 DEF SuspendInv, OnceOnly, AllOnce
  <2>9. WillBeAttended(Append(aggs, new))
    <3>1. ASSUME NEW j \in DOMAIN aggs, ~hurried'
          PROVE  Attended(Append(aggs, new)[j], j, latest', devices', NewHolders(j))
      BY <1>3, <2>7, <3>1 DEF Attended
    <3> QED BY <2>5, <2>7, <3>1 DEF WillBeAttended
  <2>10. ~hurried' => ~hurried
    BY <1>3
  <2>11. devices' \subseteq Devices /\ SuspendTypeOK /\ TrueReports
    BY <2>1 DEF SuspendInv, SuspendTypeOK
  <2>12. /\ aggs' \in Seq(Aggs) /\ Len(aggs') = Len(Append(aggs, new))
         /\ reports' \subseteq Reports
         /\ OnceOnly' /\ AllAttended' /\ TrueReports'
    BY <2>1, <2>3, <2>7, <2>8, <2>9, <2>10, <2>11, Settled
  <2>13. Len(aggs') <= nextId'
    BY <2>2, <2>7, <2>12 DEF k
  <2> QED BY <1>1, <2>1, <2>3, <2>6, <2>12, <2>13 DEF SuspendInv, SuspendTypeOK
<1> QED
  BY <1>4, <1>5

\* A step of powerd that announces nothing.
LEMMA QuietKeeps ==
  ASSUME SuspendInv, pm' \in PowerManagers(Ids),
         powerd' \in BOOLEAN, nextId' \in Ids,
         nextId <= nextId', incidents' \in 0..MaxIncidents, hurried' \in BOOLEAN,
         ~hurried' => ~hurried, UNCHANGED <<aggs, latest, reports>>,
         ResumeDevices \/ UNCHANGED deviceVars
  PROVE  SuspendInv'
<1>1. /\ UNCHANGED <<devices, stored, enabled, persistent, stops>>
      /\ pending' \in [Modems -> BOOLEAN] /\ starts' \in [Modems -> Nat]
  <2>1. CASE ResumeDevices
    <3>1. PICK R : /\ pending' = [m \in Modems |-> IF m \in R THEN TRUE ELSE pending[m]]
                   /\ starts' = [m \in Modems |-> IF m \in R THEN starts[m] + 1
                                                            ELSE starts[m]]
      BY <2>1 DEF ResumeDevices
    <3>2. pending' \in [Modems -> BOOLEAN]
      BY <3>1 DEF SuspendInv, SuspendTypeOK
    <3>3. starts' \in [Modems -> Nat]
      BY <3>1 DEF SuspendInv, SuspendTypeOK
    <3> QED BY <2>1, <3>2, <3>3 DEF ResumeDevices
  <2>2. CASE UNCHANGED deviceVars
    BY <2>2 DEF SuspendInv, SuspendTypeOK, deviceVars
  <2> QED BY <2>1, <2>2
<1>2. Len(aggs') <= nextId'
  <2>1. Len(aggs) \in Nat /\ nextId \in Nat /\ nextId' \in Nat /\ Len(aggs) <= nextId
    BY SeqIsFunction, SuspendAssumption DEF SuspendInv, SuspendTypeOK, Ids
  <2> QED BY <2>1
<1>3. SuspendTypeOK'
  BY <1>1, <1>2 DEF SuspendInv, SuspendTypeOK
<1>4. OnceOnly' /\ AllAttended' /\ TrueReports'
  BY <1>1
  DEF SuspendInv, OnceOnly, AllAttended, TrueReports, Holders, NewHolders, HoldersOf
<1> QED
  BY <1>3, <1>4 DEF SuspendInv

\* Nothing powerd does ends its haste.
LEMMA Moved ==
  ASSUME SuspendTypeOK, PowerdMoves
  PROVE  hurried' \in BOOLEAN /\ (~hurried' => ~hurried)
  BY DEF SuspendTypeOK, PowerdMoves

\* An announcement takes the next suspend id.
LEMMA AnnouncedNext ==
  ASSUME SuspendTypeOK, PowerdAnnounces
  PROVE  nextId' \in Ids /\ nextId <= nextId' /\ PowerdMoves
  BY SuspendAssumption DEF SuspendTypeOK, PowerdAnnounces, Ids

\* powerd announces a suspend.
LEMMA OnSuspendImminentKeeps ==
  ASSUME SuspendInv, OnSuspendImminent
  PROVE  SuspendInv'
<1> USE DEF OnSuspendImminent
<1>1. /\ SuspendTypeOK /\ pm \in PowerManagers(Ids) /\ powerd \in BOOLEAN
      /\ incidents \in 0..MaxIncidents
  BY DEF SuspendInv, SuspendTypeOK
<1>2. nextId' \in Ids /\ nextId <= nextId' /\ PowerdMoves
  BY <1>1, AnnouncedNext
<1>3. pm' \in PowerManagers(Ids)
  BY <1>1, <1>2, PowerManagerTyped
<1>4. CASE RunsSuspendImminent(pm)
  BY <1>3, <1>4, AnnounceKeeps DEF Kinds
<1>5. CASE ~RunsSuspendImminent(pm)
  BY <1>1, <1>2, <1>3, <1>5, Moved, QuietKeeps
<1> QED
  BY <1>4, <1>5

\* powerd announces a dark suspend.
LEMMA OnDarkSuspendImminentKeeps ==
  ASSUME SuspendInv, OnDarkSuspendImminent
  PROVE  SuspendInv'
<1> USE DEF OnDarkSuspendImminent
<1>1. /\ SuspendTypeOK /\ pm \in PowerManagers(Ids) /\ powerd \in BOOLEAN
      /\ incidents \in 0..MaxIncidents
  BY DEF SuspendInv, SuspendTypeOK
<1>2. nextId' \in Ids /\ nextId <= nextId' /\ PowerdMoves
  BY <1>1, AnnouncedNext
<1>3. pm' \in PowerManagers(Ids)
  BY <1>1, <1>2, PowerManagerTyped
<1>4. CASE RunsDarkSuspendImminent(pm)
  BY <1>3, <1>4, AnnounceKeeps DEF Kinds
<1>5. CASE ~RunsDarkSuspendImminent(pm)
  BY <1>1, <1>2, <1>3, <1>5, Moved, QuietKeeps
<1> QED
  BY <1>4, <1>5

\* powerd ends the attempt.
LEMMA OnSuspendDoneKeeps ==
  ASSUME SuspendInv, OnSuspendDone
  PROVE  SuspendInv'
<1> USE DEF OnSuspendDone
<1>1. /\ SuspendTypeOK /\ pm \in PowerManagers(Ids) /\ powerd \in BOOLEAN
      /\ incidents \in 0..MaxIncidents /\ nextId \in Ids /\ nextId <= nextId
  BY SuspendAssumption DEF SuspendInv, SuspendTypeOK, Ids
<1>2. pm' \in PowerManagers(Ids)
  BY <1>1, PowerManagerTyped
<1> QED
  BY <1>1, <1>2, Moved, QuietKeeps

\* Events are bounded.
LEMMA Happened ==
  ASSUME SuspendTypeOK, Incident
  PROVE  incidents' \in 0..MaxIncidents
  BY SuspendAssumption DEF SuspendTypeOK, Incident

\* powerd leaves the bus.
LEMMA OnPowerManagerVanishedKeeps ==
  ASSUME SuspendInv, OnPowerManagerVanished
  PROVE  SuspendInv'
<1> USE DEF OnPowerManagerVanished
<1>1. /\ SuspendTypeOK /\ pm \in PowerManagers(Ids) /\ nextId \in Ids /\ nextId <= nextId
      /\ incidents' \in 0..MaxIncidents
  BY Happened, SuspendAssumption DEF SuspendInv, SuspendTypeOK, Ids
<1>2. pm' \in PowerManagers(Ids)
  BY <1>1, PowerManagerTyped
<1>3. ResumeDevices \/ UNCHANGED deviceVars
  OBVIOUS
<1> QED
  BY <1>1, <1>2, <1>3, Moved, QuietKeeps

\* powerd is back on the bus.
LEMMA OnPowerManagerAppearedKeeps ==
  ASSUME SuspendInv, NEW ok \in BOOLEAN,
         NEW darkOk \in BOOLEAN,
         OnPowerManagerAppeared(ok, darkOk)
  PROVE  SuspendInv'
<1> USE DEF OnPowerManagerAppeared
<1>1. /\ pm \in PowerManagers(Ids) /\ nextId \in Ids /\ nextId <= nextId
      /\ incidents \in 0..MaxIncidents /\ hurried \in BOOLEAN
  BY SuspendAssumption DEF SuspendInv, SuspendTypeOK, Ids
<1>2. pm' \in PowerManagers(Ids)
  BY <1>1, PowerManagerTyped
<1> QED
  BY <1>1, <1>2, QuietKeeps

\* A user enables or disables a WiFi device.
LEMMA UserSetsWiFiKeeps ==
  ASSUME SuspendInv, NEW w \in WiFis, UserSetsWiFi(w)
  PROVE  SuspendInv'
<1> USE DEF UserSetsWiFi
<1>1. enabled' \in [WiFis \cup Modems -> BOOLEAN]
  BY DEF SuspendInv, SuspendTypeOK
<1>2. incidents' \in 0..MaxIncidents
  BY Happened DEF SuspendInv
<1>3. SuspendTypeOK'
  BY <1>1, <1>2 DEF SuspendInv, SuspendTypeOK
<1> QED
  BY <1>3
  DEF SuspendInv, OnceOnly, AllAttended, TrueReports, Holders, NewHolders, HoldersOf

\* A user enables or disables a modem, whose older stops go on.
LEMMA UserSetsModemKeeps ==
  ASSUME SuspendInv, NEW m \in Modems, NEW enable \in BOOLEAN,
         UserSetsModem(m, enable)
  PROVE  SuspendInv'
<1> USE DEF UserSetsModem
<1>1. /\ persistent' \in [Modems -> BOOLEAN] /\ pending' \in [Modems -> BOOLEAN]
      /\ starts' \in [Modems -> Nat]
  BY DEF SuspendInv, SuspendTypeOK
<1>2. NoCallback \in Ids
  BY SuspendAssumption DEF Ids, NoCallback
<1>3. /\ stops' \in [Modems -> SUBSET Ids]
      /\ \A n \in Modems : stops[n] \subseteq stops'[n]
  BY <1>2 DEF SuspendInv, SuspendTypeOK
<1>4. incidents' \in 0..MaxIncidents
  BY Happened DEF SuspendInv
<1>5. SuspendTypeOK'
  BY <1>1, <1>3, <1>4 DEF SuspendInv, SuspendTypeOK
<1>6. \A j : Holders(j) \subseteq NewHolders(j)
  BY <1>3 DEF Holders, NewHolders, HoldersOf
<1>7. AllAttended'
  BY <1>6 DEF SuspendInv, AllAttended, Attended, Holders, NewHolders
<1> QED
  BY <1>5, <1>7 DEF SuspendInv, OnceOnly, TrueReports

\* An unplugged device takes its callbacks with it, and owes nothing more.
LEMMA DeviceVanishesKeeps ==
  ASSUME SuspendInv, NEW d \in Devices, DeviceVanishes(d)
  PROVE  SuspendInv'
<1> USE DEF DeviceVanishes
<1>1. /\ SuspendTypeOK /\ TrueReports /\ aggs \in Seq(Aggregators(Kinds, Devices))
      /\ devices' \subseteq Devices /\ pm' \in PowerManagers(Ids)
      /\ latest' \in [Kinds -> Ids] /\ hurried' = hurried
      /\ AllOnce(aggs)
  BY DEF SuspendInv, SuspendTypeOK, OnceOnly
<1>2. /\ stored' \in [WiFis -> Ids] /\ starts' \in [Modems -> Nat]
      /\ stops' \in [Modems -> SUBSET Ids]
  BY SuspendAssumption DEF SuspendInv, SuspendTypeOK, Ids, NoCallback
<1>3. \A k \in Nat \ {0} : Holders(k) \subseteq NewHolders(k) \cup {d}
  BY DEF Holders, NewHolders, HoldersOf
<1>4. DOMAIN aggs \subseteq Nat \ {0}
  BY <1>1, SeqIsFunction
<1>5. WillBeAttended(aggs)
  BY <1>3, <1>4 DEF SuspendInv, AllAttended, Attended, WillBeAttended
<1>6. /\ aggs' \in Seq(Aggregators(Kinds, Devices)) /\ Len(aggs') = Len(aggs)
      /\ reports' \subseteq Reports
      /\ OnceOnly' /\ AllAttended' /\ TrueReports'
  BY <1>1, <1>5, Settled
<1>7. incidents' \in 0..MaxIncidents
  BY <1>1, Happened
<1> QED
  BY <1>1, <1>2, <1>6, <1>7 DEF SuspendInv, SuspendTypeOK
-----------------------------------------------------------------------------
\* The initial state satisfies the inductive invariant.
LEMMA SuspendStarts == SuspendInit => SuspendInv
<1> SUFFICES ASSUME SuspendInit PROVE SuspendInv
  OBVIOUS
<1>1. 0 \in Ids /\ 0 \in 0..MaxIncidents
  BY SuspendAssumption DEF Ids
<1>2. pm \in PowerManagers(Ids)
  BY <1>1 DEF SuspendInit, InitPowerManager, PowerManagers
<1>3. aggs \in Seq(Aggregators(Kinds, Devices)) /\ Len(aggs) = 0 /\ DOMAIN aggs = {}
  BY DEF SuspendInit
<1>4. /\ latest \in [Kinds -> Ids] /\ stored \in [WiFis -> Ids]
      /\ starts \in [Modems -> Nat] /\ stops \in [Modems -> SUBSET Ids]
  BY <1>1 DEF SuspendInit, NoCallback
<1>5. pending \in [Modems -> BOOLEAN] /\ persistent \in [Modems -> BOOLEAN]
  BY DEF SuspendInit
<1>6. SuspendTypeOK
  <2>1. nextId \in Ids /\ Len(aggs) <= nextId /\ incidents \in 0..MaxIncidents
    BY <1>1, <1>3 DEF SuspendInit
  <2>2. /\ powerd \in BOOLEAN /\ hurried \in BOOLEAN
        /\ devices \subseteq Devices /\ reports \subseteq Reports
        /\ enabled \in [WiFis \cup Modems -> BOOLEAN]
    BY DEF SuspendInit
  <2> QED BY <1>2, <1>3, <1>4, <1>5, <2>1, <2>2 DEF SuspendTypeOK
<1> QED
  BY <1>3, <1>6 DEF SuspendInit, SuspendInv, OnceOnly, AllOnce, AllAttended, TrueReports

\* Every event-loop task preserves the inductive invariant.
LEMMA SuspendKeeps == SuspendInv /\ [SuspendNext]_suspendVars => SuspendInv'
<1> SUFFICES ASSUME SuspendInv, [SuspendNext]_suspendVars PROVE SuspendInv'
  OBVIOUS
<1>1. CASE PowerdStep
  BY <1>1, OnSuspendImminentKeeps, OnDarkSuspendImminentKeeps, OnSuspendDoneKeeps,
     OnPowerManagerVanishedKeeps, OnPowerManagerAppearedKeeps
  DEF PowerdStep
<1>2. CASE DeviceStep
  BY <1>2, WiFiActionsDoneKeeps, UserSetsWiFiKeeps, StartModemCallbackKeeps,
     StopModemCallbackKeeps, UserSetsModemKeeps, DeviceVanishesKeeps
  DEF DeviceStep
<1>3. CASE \E k \in Ids : AggregatorTimesOut(k)
  BY <1>3, AggregatorTimesOutKeeps
<1>4. CASE UNCHANGED suspendVars
  BY <1>4 DEF suspendVars, SuspendInv, SuspendTypeOK, OnceOnly, AllAttended, TrueReports,
     Holders, NewHolders, HoldersOf
<1> QED
  BY <1>1, <1>2, <1>3, <1>4 DEF SuspendNext

\* The inductive invariant holds in every reachable state.
THEOREM SuspendInvariance == SuspendSpec => []SuspendInv
  BY SuspendStarts, SuspendKeeps, PTL DEF SuspendSpec

\* PowerManager's reports of readiness: as long as powerd waits for shill
\* before it announces or ends an attempt, a report is that of the attempt
\* under way, comes from an aggregator that has reported once, and, unless the
\* timeout sent it, leaves out no device but those that dropped their callback.
THEOREM ReadinessTrue == SuspendSpec => []ReadinessIsTrue
<1>1. SuspendInv => ReadinessIsTrue
  BY DEF SuspendInv, ReadinessIsTrue, ReadinessIsForThisAttempt,
     ReadinessWaitsForDevices, OnceOnly, AllOnce, Once, TrueReports, TrueReport
<1> QED
  BY <1>1, SuspendInvariance, PTL
=============================================================================
