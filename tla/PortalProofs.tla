---------------------------- MODULE PortalProofs ----------------------------
(***************************************************************************)
(* The safety of the portal check, for any lists of DNS servers, any       *)
(* numbers of attempts and any number of events; and that it implements    *)
(* PortalAbstraction.  The handlers of PortalCheck are compositions of     *)
(* operators on worlds, and so are the proofs: a lemma for each operator   *)
(* says what it makes of a world.                                          *)
(***************************************************************************)
EXTENDS PortalCheck, TLAPS

Worlds ==
  [state : {"idle", "connected", "portal", "online"}, default : BOOLEAN,
   family : {"none", "v4", "v6"}, lease : Servers, dns : Servers,
   saved : Servers, tester : [of : {"none", "fallback", "config"},
                              phase : {"idle", "posted", "asking"}],
   det : Detectors, url : BOOLEAN, leased : Servers]

\* A detector between two handlers: it has its request, and either a posted
\* trial or one under way.  Only a first attempt waits for the interval.
Working(d) ==
  /\ d \in Detectors /\ d.alive /\ d.request /\ d.attempts # 0
  /\ d.failures < kMaxFailuresInContentPhase
  /\ d.trial # "none" <=> ~d.active
  /\ d.trial = "later" => d.attempts = 1

\* A detector whose trial has just ended.
Ended(d) ==
  /\ d \in Detectors /\ d.alive /\ d.request /\ d.attempts # 0
  /\ d.failures < kMaxFailuresInContentPhase
  /\ d.trial = "none"

\* The connection, the selected service and the state go together; without
\* them there is nothing to check and nothing to test.
Consistent(w) ==
  /\ w \in Worlds
  /\ w.state = "idle" <=> w.family = "none"
  /\ w.state = "idle" => /\ w.default = FALSE /\ w.det = NoDetector
                         /\ w.tester = NoTester
  /\ w.tester.of = "none" <=> w.tester.phase = "idle"

\* The fallback servers are only where a test of the saved ones can undo it;
\* they are never taken for those of a lease, and only those of a lease are
\* asked.
Undoable(w) ==
  /\ w.dns = Fallback => /\ w.tester.of = "config"
                         /\ w.leased \in Leases => w.saved \in Leases
  /\ w.lease = Fallback => w.dns = Fallback
  /\ w.leased \in Leases => w.lease # NoServers
  /\ w.lease \in Leases \union {Fallback, NoServers}
  /\ w.saved \in Leases \union {NoServers}
  /\ w.tester.of = "config" /\ w.tester.phase = "asking" => w.saved \in Leases

Checking(w) == w.det = NoDetector \/ Working(w.det)

Good(w) == Consistent(w) /\ Undoable(w) /\ Checking(w)

Inv == Good(World) /\ events \in 0 .. MaxEvents

\* The abstract view of a detector.
Portal(d) == IF ~d.alive THEN "none"
             ELSE IF d.attempts = 1 /\ d.trial = "later" THEN "waiting"
             ELSE "trying"

\* v is w with another state and another detector.
Checked(w, v) ==
  /\ v \in Worlds /\ Checking(v) /\ v.state # "idle"
  /\ v.default = w.default /\ v.family = w.family /\ v.lease = w.lease
  /\ v.dns = w.dns /\ v.saved = w.saved /\ v.tester = w.tester
  /\ v.url = w.url /\ v.leased = w.leased

\* v is w with a check begun, or counted as online because none can begin.
Begun(w, v) ==
  \/ w.url /\ Portal(v.det) = "trying" /\ v.state = w.state
  \/ ~w.url /\ Portal(v.det) = "none" /\ v.state = "online"

\* v is w with a check ended.
Failed(w, v) ==
  LET retry == w.default /\ PortalRetry
  IN  \/ ~retry /\ v.state = "portal" /\ Portal(v.det) = "none"
      \/ retry /\ w.url /\ v.state = "portal" /\ Portal(v.det) = "waiting"
      \/ retry /\ ~w.url /\ v.state = "online" /\ Portal(v.det) = "none"

Succeeded(v) == v.state = "online" /\ Portal(v.det) = "none"

\* No detector is a detector record, and is seen as none.
LEMMA NoDetectorType == NoDetector \in Detectors /\ Portal(NoDetector) = "none"
<1>1. 0 \in 0 .. kMaxRequestAttempts /\ 0 \in 0 .. kMaxFailuresInContentPhase
  BY AttemptsAssumption DEF AttemptsAssumption
<1> QED
  BY <1>1 DEF NoDetector, Detectors, Portal

\* A started detector is a working one, seen as waiting or trying.
LEMMA StartWorks ==
  ASSUME NEW d \in Detectors, d.alive, NEW delay \in {"now", "later"}
  PROVE  /\ Working(StartAfterDelay(d, delay))
         /\ Portal(StartAfterDelay(d, delay)) =
              IF delay = "later" THEN "waiting" ELSE "trying"
<1> DEFINE e == StartAfterDelay(d, delay)
<1>1. 1 \in 0 .. kMaxRequestAttempts /\ 0 \in 0 .. kMaxFailuresInContentPhase
      /\ 0 < kMaxFailuresInContentPhase
  BY AttemptsAssumption DEF AttemptsAssumption
<1>2. /\ e \in Detectors /\ e.alive = d.alive /\ e.request = TRUE
      /\ e.attempts = 1 /\ e.failures = 0 /\ e.trial = delay
      /\ e.active = FALSE
  BY <1>1 DEF StartAfterDelay, StartTrial, Detectors
<1> QED
  BY <1>1, <1>2 DEF Working, Portal

\* What a check does to a world keeps it good.
LEMMA CheckedGood ==
  ASSUME NEW w, NEW v, Consistent(w), w.state # "idle", Checked(w, v)
  PROVE  Consistent(v) /\ (Undoable(w) => Good(v))
  BY DEF Consistent, Undoable, Good, Checked

\* SetServiceConnectedState, when the service is connected.
LEMMA ConnectedState ==
  ASSUME NEW w \in Worlds, w.state # "idle", w.det.alive,
         NEW s \in {"portal", "online"}
  PROVE  LET v == SetServiceConnectedState(w, s)
         IN  /\ Checked(w, v)
             /\ s = "online" => Succeeded(v)
             /\ s = "portal" => Failed(w, v)
<1> DEFINE d == StartAfterDelay(w.det, "later")
           v == SetServiceConnectedState(w, s)
<1>1. Working(d) /\ d \in Detectors /\ Portal(d) = "waiting"
  BY StartWorks DEF Worlds, Working
<1> HIDE DEF d
<1>2. \/ ~(s = "portal" /\ w.default /\ PortalRetry)
         /\ v = [w EXCEPT !.det = NoDetector, !.state = s]
      \/ s = "portal" /\ w.default /\ PortalRetry /\ w.url
         /\ v = [w EXCEPT !.det = d, !.state = s]
      \/ s = "portal" /\ w.default /\ PortalRetry /\ ~w.url
         /\ v = [w EXCEPT !.det = NoDetector, !.state = "online"]
  BY DEF SetServiceConnectedState, d
<1> HIDE DEF v
<1>3. CASE /\ ~(s = "portal" /\ w.default /\ PortalRetry)
           /\ v = [w EXCEPT !.det = NoDetector, !.state = s]
  <2>1. /\ v \in Worlds /\ v.det = NoDetector /\ v.state = s
        /\ v.default = w.default /\ v.family = w.family /\ v.lease = w.lease
        /\ v.dns = w.dns /\ v.saved = w.saved /\ v.tester = w.tester
        /\ v.url = w.url /\ v.leased = w.leased
    BY <1>3, NoDetectorType DEF Worlds
  <2>2. Checked(w, v) /\ Portal(v.det) = "none"
    BY <2>1, NoDetectorType DEF Checked, Checking
  <2> QED
    BY <2>1, <2>2, <1>3 DEF v, Failed, Succeeded
<1>4. CASE /\ s = "portal" /\ w.default /\ PortalRetry /\ w.url
           /\ v = [w EXCEPT !.det = d, !.state = s]
  <2>1. /\ v \in Worlds /\ v.det = d /\ v.state = s
        /\ v.default = w.default /\ v.family = w.family /\ v.lease = w.lease
        /\ v.dns = w.dns /\ v.saved = w.saved /\ v.tester = w.tester
        /\ v.url = w.url /\ v.leased = w.leased
    BY <1>4, <1>1 DEF Worlds
  <2>2. Checked(w, v) /\ Portal(v.det) = "waiting"
    BY <2>1, <1>1 DEF Checked, Checking
  <2> QED
    BY <2>1, <2>2, <1>4 DEF v, Failed
<1>5. CASE /\ s = "portal" /\ w.default /\ PortalRetry /\ ~w.url
           /\ v = [w EXCEPT !.det = NoDetector, !.state = "online"]
  <2>1. /\ v \in Worlds /\ v.det = NoDetector /\ v.state = "online"
        /\ v.default = w.default /\ v.family = w.family /\ v.lease = w.lease
        /\ v.dns = w.dns /\ v.saved = w.saved /\ v.tester = w.tester
        /\ v.url = w.url /\ v.leased = w.leased
    BY <1>5, NoDetectorType DEF Worlds
  <2>2. Checked(w, v) /\ Portal(v.det) = "none"
    BY <2>1, NoDetectorType DEF Checked, Checking
  <2> QED
    BY <2>1, <2>2, <1>5 DEF v, Failed
<1> QED
  BY <1>2, <1>3, <1>4, <1>5

\* StartPortalDetection begins a check, whatever detector there was.
LEMMA StartDetection ==
  ASSUME NEW w \in Worlds, w.state # "idle"
  PROVE  LET v == StartPortalDetection(w) IN Checked(w, v) /\ Begun(w, v)
<1> DEFINE n == NewDetector
           d == StartAfterDelay(n, "now")
           u == [w EXCEPT !.det = n]
<1>1. n \in Detectors /\ n.alive = TRUE
  BY NoDetectorType DEF NewDetector, Detectors, NoDetector
<1>2. Working(d) /\ d \in Detectors /\ Portal(d) = "trying"
  BY <1>1, StartWorks DEF Working
<1> HIDE DEF n, d
<1>3. CASE w.url
  <2>1. StartPortalDetection(w) = [w EXCEPT !.det = d]
    BY <1>3 DEF StartPortalDetection, n, d
  <2> QED
    BY <2>1, <1>2, <1>3 DEF Worlds, Checked, Checking, Begun
<1>4. CASE ~w.url
  <2>1. StartPortalDetection(w) = SetServiceConnectedState(u, "online")
    BY <1>4 DEF StartPortalDetection, n
  <2>2. /\ u \in Worlds /\ u.state # "idle" /\ u.det.alive
        /\ u.state = w.state /\ u.default = w.default /\ u.family = w.family
        /\ u.lease = w.lease /\ u.dns = w.dns /\ u.saved = w.saved
        /\ u.tester = w.tester /\ u.url = w.url /\ u.leased = w.leased
    BY <1>1 DEF Worlds
  <2> HIDE DEF u
  <2>3. LET v == SetServiceConnectedState(u, "online")
        IN  Checked(u, v) /\ Succeeded(v)
    BY <2>2, ConnectedState
  <2> QED
    BY <2>1, <2>2, <2>3, <1>4 DEF Checked, Begun, Succeeded
<1> QED
  BY <1>3, <1>4

\* RestartPortalDetection begins a check.
LEMMA Restarted ==
  ASSUME NEW w \in Worlds, w.state # "idle"
  PROVE  LET v == RestartPortalDetection(w) IN Checked(w, v) /\ Begun(w, v)
<1> DEFINE u == StopPortalDetection(w)
<1>1. /\ u \in Worlds /\ u.state = w.state
      /\ u.default = w.default /\ u.family = w.family
      /\ u.lease = w.lease /\ u.dns = w.dns /\ u.saved = w.saved
      /\ u.tester = w.tester /\ u.url = w.url /\ u.leased = w.leased
  BY NoDetectorType DEF StopPortalDetection, Worlds
<1>2. RestartPortalDetection(w) = StartPortalDetection(u)
  BY DEF RestartPortalDetection
<1> HIDE DEF u
<1>3. LET v == StartPortalDetection(u) IN Checked(u, v) /\ Begun(u, v)
  BY <1>1, StartDetection
<1> QED
  BY <1>1, <1>2, <1>3 DEF Checked, Begun

\* RequestPortalDetection begins a check of a portal, or leaves a world alone
\* in which there is none to begin.
LEMMA Requested ==
  ASSUME NEW w, Good(w)
  PROVE  LET v == RequestPortalDetection(w)
         IN  /\ Good(v) /\ v.default = w.default /\ v.url = w.url
             /\ \/ w.state = "portal" /\ Begun(w, v)
                \/ /\ v = w
                   /\ w.default => ~(w.state = "portal" /\ Portal(w.det) # "trying")
<1> DEFINE begin == /\ w.state = "portal" /\ w.family # "none" /\ w.default
                    /\ ~IsInProgress(w.det)
<1>1. CASE begin
  <2>1. RequestPortalDetection(w) = StartPortalDetection(w)
    BY <1>1 DEF RequestPortalDetection
  <2>2. w \in Worlds /\ w.state # "idle" /\ Consistent(w) /\ Undoable(w)
    BY <1>1 DEF Good, Consistent
  <2>3. LET v == StartPortalDetection(w) IN Checked(w, v) /\ Begun(w, v)
    BY <2>2, StartDetection
  <2>4. Good(StartPortalDetection(w))
    BY <2>2, <2>3, CheckedGood
  <2> QED
    BY <2>1, <2>3, <2>4, <1>1 DEF Checked
<1>2. CASE ~begin
  <2>1. RequestPortalDetection(w) = w
    BY <1>2 DEF RequestPortalDetection
  <2>2. ASSUME w.default, w.state = "portal" PROVE Portal(w.det) = "trying"
    <3>1. IsInProgress(w.det)
      BY <1>2, <2>2 DEF Good, Consistent
    <3>2. w.det # NoDetector
      BY <3>1 DEF IsInProgress, NoDetector
    <3>3. Working(w.det)
      BY <3>2 DEF Good, Checking
    <3> QED
      BY <3>1, <3>3 DEF IsInProgress, Working, Portal, Detectors
  <2> QED
    BY <2>1, <2>2
<1> QED
  BY <1>1, <1>2

\* SetupConnection, from a lease or from IPv6, begins a check.
LEMMA ConnectionSetup ==
  ASSUME NEW w, Good(w), NEW fam \in {"v4", "v6"},
         NEW l \in Leases \union {NoServers},
         NEW servers \in Servers \ {Fallback}, servers \in Leases => l = servers
  PROVE  LET v == SetupConnection([w EXCEPT !.lease = l], fam, servers)
         IN  /\ Good(v) /\ v.default = w.default /\ v.url = w.url
             /\ \/ w.url /\ v.state = "connected" /\ Portal(v.det) = "trying"
                \/ ~w.url /\ v.state = "online" /\ Portal(v.det) = "none"
<1> DEFINE u == [[w EXCEPT !.lease = l] EXCEPT
                   !.family = fam,
                   !.dns = IF servers = NoServers THEN @ ELSE servers,
                   !.leased = servers, !.state = "connected"]
           v == StartPortalDetection(u)
<1>1. SetupConnection([w EXCEPT !.lease = l], fam, servers) = v
  BY DEF SetupConnection
<1>2. /\ u \in Worlds /\ u.state = "connected" /\ u.family = fam
      /\ u.lease = l /\ u.leased = servers /\ u.default = w.default
      /\ u.dns = IF servers = NoServers THEN w.dns ELSE servers
      /\ u.saved = w.saved /\ u.tester = w.tester /\ u.url = w.url
  BY DEF Good, Consistent, Worlds, Servers
<1> HIDE DEF u
<1>3. Checked(u, v) /\ Begun(u, v)
  BY <1>2, StartDetection
<1> HIDE DEF v
<1>4. Consistent(u) /\ Undoable(u)
  BY <1>2, ServersAssumption DEF ServersAssumption, Good, Consistent, Undoable
<1>5. Good(v)
  BY <1>2, <1>3, <1>4, CheckedGood
<1>6. v.default = w.default /\ v.url = w.url
  BY <1>2, <1>3 DEF Checked
<1>7. \/ w.url /\ v.state = "connected" /\ Portal(v.det) = "trying"
      \/ ~w.url /\ v.state = "online" /\ Portal(v.det) = "none"
  BY <1>2, <1>3 DEF Begun
<1> QED
  BY <1>1, <1>5, <1>6, <1>7

\* DropConnection leaves nothing behind that could call back.
LEMMA ConnectionDropped ==
  ASSUME NEW w, Good(w)
  PROVE  LET v == DropConnection(w)
         IN  /\ Good(v) /\ v.state = "idle" /\ v.default = FALSE
             /\ v.url = w.url
             /\ Portal(v.det) = "none"
<1> DEFINE v == DropConnection(w)
<1>1. NoTester \in [of : {"none", "fallback", "config"},
                    phase : {"idle", "posted", "asking"}]
      /\ NoTester.of = "none" /\ NoTester.phase = "idle"
  BY DEF NoTester
<1>2. /\ NoServers \in Servers /\ NoServers # Fallback
      /\ NoServers \notin Leases
  BY ServersAssumption DEF ServersAssumption, Servers
<1>3. /\ v \in Worlds /\ v.state = "idle" /\ v.family = "none"
      /\ v.default = FALSE /\ v.det = NoDetector /\ v.tester = NoTester
      /\ v.lease = NoServers /\ v.dns = NoServers /\ v.saved = w.saved
      /\ v.leased = NoServers /\ v.url = w.url
  BY <1>1, <1>2, NoDetectorType
     DEF Good, Consistent, Worlds, DropConnection, StopAllActivities,
         StopDNSTest, StopPortalDetection
<1> HIDE DEF v
<1>4. Good(v)
  BY <1>1, <1>2, <1>3 DEF Good, Consistent, Undoable, Checking
<1> QED
  BY <1>3, <1>4, NoDetectorType DEF v

\* CompleteAttempt: a check that goes on has its next trial posted; a first
\* attempt that fails without content is never the last one.
LEMMA AttemptCompleted ==
  ASSUME NEW d, Ended(d), NEW r \in Results
  PROVE  LET c == CompleteAttempt(d, r)
         IN  /\ c.final \in BOOLEAN
             /\ c.final => c.det \in Detectors /\ c.det.alive
             /\ ~c.final => Working(c.det) /\ Portal(c.det) = "trying"
             /\ d.attempts = 1 /\ r \in {"dns", "other"} => ~c.final
<1> DEFINE e == Counted(d, r)
           m == kMaxRequestAttempts
           f == kMaxFailuresInContentPhase
           c == CompleteAttempt(d, r)
<1>1. m \in Nat /\ m > 1 /\ f \in Nat /\ f > 0
  BY AttemptsAssumption DEF AttemptsAssumption
<1>2. /\ e \in Detectors /\ e.alive /\ e.request
      /\ e.attempts = d.attempts /\ e.attempts # 0 /\ e.trial = "none"
      /\ e.active = FALSE
      /\ r # "content" => e.failures = d.failures
  <2> DEFINE k == IF r = "content" THEN d.failures + 1 ELSE d.failures
  <2>1. k \in 0 .. f
    BY <1>1 DEF Ended, Detectors
  <2>2. e = [d EXCEPT !.active = FALSE, !.failures = k]
    BY DEF Counted
  <2>3. r # "content" => k = d.failures
    OBVIOUS
  <2> HIDE DEF k, e
  <2>4. /\ e \in Detectors /\ e.alive = d.alive /\ e.request = d.request
        /\ e.attempts = d.attempts /\ e.trial = d.trial /\ e.active = FALSE
        /\ e.failures = k
    BY <2>1, <2>2 DEF Ended, Detectors
  <2> QED
    BY <2>3, <2>4 DEF Ended
<1> HIDE DEF e
<1>3. /\ c.final = IsFinal(e, r)
      /\ c.det = IF IsFinal(e, r) THEN Stop(e) ELSE NextAttempt(e)
  BY DEF CompleteAttempt, e
<1> HIDE DEF c
<1>4. IsFinal(e, r) \in BOOLEAN
  BY DEF IsFinal
<1>5. Stop(e) \in Detectors /\ Stop(e).alive
  <2> DEFINE x == [e EXCEPT !.attempts = 0, !.failures = 0]
  <2>1. 0 \in 0 .. m /\ 0 \in 0 .. f
    BY <1>1
  <2>2. x \in Detectors /\ x.alive = e.alive
    BY <1>2, <2>1 DEF Detectors
  <2> HIDE DEF x
  <2>3. StopTrial(x) \in Detectors /\ StopTrial(x).alive = x.alive
    BY <2>2 DEF StopTrial, Detectors
  <2> QED
    BY <1>2, <2>2, <2>3 DEF Stop, x
<1>6. ASSUME ~IsFinal(e, r)
      PROVE  Working(NextAttempt(e)) /\ Portal(NextAttempt(e)) = "trying"
  <2> DEFINE n == NextAttempt(e)
  <2>1. e.attempts \in 1 .. m - 1 /\ e.failures \in 0 .. f - 1
    BY <1>1, <1>2, <1>6 DEF IsFinal, Detectors
  <2>2. e.attempts + 1 \in 0 .. m /\ e.attempts + 1 # 1 /\ e.attempts + 1 # 0
    BY <1>1, <2>1
  <2> DEFINE x == [e EXCEPT !.attempts = e.attempts + 1]
  <2>3. /\ x \in Detectors /\ x.alive = e.alive /\ x.request = e.request
        /\ x.attempts = e.attempts + 1 /\ x.failures = e.failures
    BY <1>2, <2>2 DEF Detectors
  <2>4. n = Retry(x)
    BY DEF NextAttempt
  <2> HIDE DEF x, n
  <2>5. n = [x EXCEPT !.active = FALSE, !.trial = "now"]
    BY <1>2, <2>3, <2>4 DEF Retry
  <2>6. /\ n \in Detectors /\ n.alive = x.alive /\ n.request = x.request
        /\ n.attempts = x.attempts /\ n.failures = x.failures
        /\ n.trial = "now" /\ n.active = FALSE
    BY <2>3, <2>5 DEF Detectors
  <2>7. e.failures < f
    BY <1>1, <2>1
  <2>8. Working(n) /\ Portal(n) = "trying"
    BY <1>2, <2>2, <2>3, <2>6, <2>7 DEF Working, Portal
  <2> QED
    BY <2>8 DEF n
<1>7. d.attempts = 1 /\ r \in {"dns", "other"} => ~IsFinal(e, r)
  BY <1>1, <1>2 DEF IsFinal, Ended, Detectors
<1> QED
  BY <1>3, <1>4, <1>5, <1>6, <1>7 DEF c

\* A trial ends: the check goes on, or its outcome is applied to the service.
LEMMA TrialCompleted ==
  ASSUME NEW w, Consistent(w), Undoable(w), Ended(w.det), NEW r \in Results
  PROVE  LET v == Completed(w, r)
             goesOn == Portal(v.det) = "trying" /\ v.state = w.state
         IN  /\ Good(v) /\ v.default = w.default /\ v.url = w.url
             /\ goesOn \/ Succeeded(v) \/ Failed(w, v)
             /\ w.det.attempts = 1 /\ r \in {"dns", "other"} => goesOn
<1> DEFINE c == CompleteAttempt(w.det, r)
           u == [w EXCEPT !.det = c.det]
           v == Completed(w, r)
           goesOn == Portal(v.det) = "trying" /\ v.state = w.state
           ends == /\ v.default = w.default /\ v.url = w.url
                   /\ Succeeded(v) \/ Failed(w, v)
<1>1. w \in Worlds /\ w.state # "idle"
  BY DEF Consistent, Ended, NoDetector
<1>2. /\ c.final \in BOOLEAN
      /\ c.final => c.det \in Detectors /\ c.det.alive
      /\ ~c.final => Working(c.det) /\ Portal(c.det) = "trying"
      /\ w.det.attempts = 1 /\ r \in {"dns", "other"} => ~c.final
  BY AttemptCompleted
<1>3. v = PortalDetectorCallback(u, r, c.final)
  BY DEF Completed
<1> HIDE DEF c
<1>4. /\ u \in Worlds /\ u.det = c.det /\ u.state = w.state
      /\ u.default = w.default /\ u.family = w.family
      /\ u.lease = w.lease /\ u.dns = w.dns /\ u.saved = w.saved
      /\ u.tester = w.tester /\ u.url = w.url /\ u.leased = w.leased
  BY <1>1, <1>2 DEF Worlds, Working
<1> HIDE DEF u, v
<1>5. CASE ~c.final
  <2>1. v = u
    BY <1>3, <1>5 DEF PortalDetectorCallback
  <2>2. Checked(w, u)
    BY <1>1, <1>2, <1>4, <1>5 DEF Checked, Checking
  <2>3. Good(u)
    BY <1>1, <2>2, CheckedGood
  <2>4. goesOn /\ v.default = w.default /\ v.url = w.url
    BY <1>2, <1>4, <1>5, <2>1
  <2> QED
    BY <2>1, <2>3, <2>4 DEF v
<1>6. CASE c.final
  <2> DEFINE online == SetServiceConnectedState(u, "online")
             failed == SetServiceConnectedState(u, "portal")
  <2>1. Checked(u, online) /\ Succeeded(online)
    BY <1>1, <1>2, <1>4, <1>6, ConnectedState
  <2>2. Checked(u, failed) /\ Failed(w, failed)
    BY <1>1, <1>2, <1>4, <1>6, ConnectedState DEF Failed
  <2>3. \/ v = online \/ v = failed
        \/ v = StartDNSTest(failed, "fallback")
    BY <1>3, <1>6 DEF PortalDetectorCallback
  <2> HIDE DEF online, failed
  <2>4. ASSUME NEW x, Checked(u, x)
        PROVE  Good(x) /\ x.default = w.default /\ x.url = w.url
    BY <1>1, <1>4, <2>4, CheckedGood DEF Checked
  <2>5. CASE v = online
    <3>1. Good(v) /\ ends
      BY <2>1, <2>4, <2>5
    <3> QED
      BY <3>1, <1>2, <1>6 DEF v
  <2>6. CASE v = failed
    <3>1. Good(v) /\ ends
      BY <2>2, <2>4, <2>6
    <3> QED
      BY <3>1, <1>2, <1>6 DEF v
  <2>7. CASE v = StartDNSTest(failed, "fallback") /\ v # failed
    <3>1. failed.tester.of = "none" /\ failed.state # "idle" /\ Good(failed)
      BY <2>2, <2>4, <2>7 DEF StartDNSTest, Checked
    <3>2. /\ v \in Worlds /\ v.state = failed.state /\ v.det = failed.det
          /\ v.default = failed.default /\ v.family = failed.family
          /\ v.lease = failed.lease /\ v.dns = failed.dns
          /\ v.saved = failed.saved /\ v.url = failed.url
          /\ v.leased = failed.leased
          /\ v.tester.of = "fallback" /\ v.tester.phase = "posted"
      BY <2>7, <3>1 DEF StartDNSTest, Good, Consistent, Worlds
    <3>3. Good(v)
      BY <3>1, <3>2 DEF Good, Consistent, Undoable, Checking
    <3>4. ends
      BY <2>2, <2>4, <3>2 DEF Failed
    <3> QED
      BY <3>3, <3>4, <1>2, <1>6 DEF v
  <2> QED
    BY <2>3, <2>5, <2>6, <2>7
<1> QED
  BY <1>2, <1>5, <1>6

\* SwitchDNSServers gives the servers to the configuration and the resolver,
\* and begins a check.
LEMMA Switched ==
  ASSUME NEW w \in Worlds, w.state # "idle", NEW servers \in Servers
  PROVE  LET v == SwitchDNSServers(w, servers)
         IN  /\ v \in Worlds /\ Checking(v) /\ v.state # "idle"
             /\ v.lease = servers /\ v.dns = servers
             /\ v.default = w.default /\ v.family = w.family
             /\ v.saved = w.saved /\ v.tester = w.tester /\ v.url = w.url
             /\ v.leased = w.leased /\ Begun(w, v)
<1> DEFINE u == [w EXCEPT !.lease = servers, !.dns = servers]
<1>1. /\ u \in Worlds /\ u.state = w.state /\ u.lease = servers
      /\ u.dns = servers /\ u.default = w.default /\ u.family = w.family
      /\ u.saved = w.saved /\ u.tester = w.tester /\ u.url = w.url
      /\ u.leased = w.leased
  BY DEF Worlds
<1>2. SwitchDNSServers(w, servers) = RestartPortalDetection(u)
  BY DEF SwitchDNSServers
<1> HIDE DEF u
<1>3. LET v == RestartPortalDetection(u) IN Checked(u, v) /\ Begun(u, v)
  BY <1>1, Restarted
<1> QED
  BY <1>1, <1>2, <1>3 DEF Checked, Begun

\* A DNS test ends: without consequence, tried again, or by a switch.
LEMMA TestEnded ==
  ASSUME NEW w, Good(w), w.tester.of # "none",
         NEW success \in BOOLEAN, NEW allowed \in BOOLEAN,
         success => w.tester.phase = "asking"
  PROVE  LET v == TestEnds(w, success, allowed)
         IN  /\ Good(v) /\ v.default = w.default /\ v.url = w.url
             /\ w.state # "idle"
             /\ \/ v.state = w.state /\ v.det = w.det
                \/ Begun(w, v)
<1> DEFINE v == TestEnds(w, success, allowed)
           u == StopDNSTest(w)
<1>1. w \in Worlds /\ w.state # "idle" /\ w.family # "none"
  BY DEF Good, Consistent, NoTester
<1>2. /\ u \in Worlds /\ u.state = w.state /\ u.family = w.family
      /\ u.lease = w.lease /\ u.dns = w.dns /\ u.saved = w.saved
      /\ u.default = w.default /\ u.det = w.det /\ u.url = w.url
      /\ u.leased = w.leased
      /\ u.tester.of = "none" /\ u.tester.phase = "idle"
  BY <1>1 DEF StopDNSTest, NoTester, Worlds
<1>3. CASE w.tester.of = "fallback" /\ ~(success /\ allowed)
  <2>1. v = u
    BY <1>3 DEF TestEnds, FallbackDNSResultCallback
  <2> HIDE DEF u, v
  <2>2. /\ Good(v) /\ v.default = w.default /\ v.url = w.url
        /\ v.state = w.state /\ v.det = w.det
    BY <1>1, <1>2, <1>3, <2>1 DEF Good, Consistent, Undoable, Checking
  <2> QED
    BY <1>1, <2>2 DEF v
<1>4. CASE w.tester.of = "fallback" /\ success /\ allowed
  <2> DEFINE x == [u EXCEPT !.saved = u.lease]
             y == SwitchDNSServers(x, Fallback)
  <2>1. v = StartDNSTest(y, "config")
    BY <1>4 DEF TestEnds, FallbackDNSResultCallback
  <2>2. w.lease \in Leases \union {NoServers} /\ Fallback \in Servers
    BY <1>4 DEF Good, Undoable, Servers
  <2> HIDE DEF u, v
  <2>3. /\ x \in Worlds /\ x.state = u.state /\ x.family = u.family
        /\ x.saved = u.lease /\ x.default = u.default /\ x.tester = u.tester
        /\ x.url = u.url /\ x.leased = u.leased
    BY <1>2 DEF Worlds
  <2> HIDE DEF x
  <2>4. /\ y \in Worlds /\ Checking(y) /\ y.state # "idle"
        /\ y.lease = Fallback /\ y.dns = Fallback
        /\ y.default = x.default /\ y.family = x.family
        /\ y.saved = x.saved /\ y.tester = x.tester /\ y.url = x.url
        /\ y.leased = x.leased
        /\ Begun(x, y)
    BY <1>1, <1>2, <2>2, <2>3, Switched
  <2> HIDE DEF y
  <2>5. /\ v \in Worlds /\ v.state = y.state /\ v.det = y.det
        /\ v.default = y.default /\ v.family = y.family
        /\ v.saved = y.saved /\ v.tester.of = "config"
        /\ v.tester.phase = "posted" /\ v.url = y.url
        /\ v.lease = y.lease /\ v.dns = y.dns /\ v.leased = y.leased
    BY <1>2, <2>1, <2>3, <2>4 DEF StartDNSTest, Worlds
  <2>6. Good(v)
    <3>1. Consistent(v) /\ Checking(v)
      BY <1>1, <1>2, <2>3, <2>4, <2>5 DEF Good, Consistent, Checking
    <3>2. /\ v.dns = Fallback /\ v.lease = Fallback /\ v.leased = w.leased
          /\ v.saved = w.lease /\ v.tester.of = "config"
          /\ v.tester.phase = "posted"
      BY <1>2, <2>3, <2>4, <2>5
    <3>3. w.leased \in Leases => w.lease \in Leases
      BY <2>2 DEF Good, Undoable
    <3>4. Undoable(v)
      BY <2>2, <3>2, <3>3, ServersAssumption DEF Undoable, ServersAssumption
    <3> QED
      BY <3>1, <3>4 DEF Good
  <2>7. Begun(w, v) /\ v.default = w.default /\ v.url = w.url
    BY <1>2, <2>3, <2>4, <2>5 DEF Begun
  <2> QED
    BY <1>1, <2>6, <2>7 DEF v
<1>5. CASE w.tester.of = "config" /\ success
  <2>1. v = SwitchDNSServers(u, w.saved)
    BY <1>5 DEF TestEnds, ConfigDNSResultCallback
  <2>2. /\ w.saved \in Servers /\ w.saved \in Leases
        /\ w.saved # Fallback /\ w.saved # NoServers
    BY <1>1, <1>5, ServersAssumption
       DEF ServersAssumption, Good, Undoable, Worlds
  <2> HIDE DEF u, v
  <2>3. /\ v \in Worlds /\ Checking(v) /\ v.state # "idle"
        /\ v.lease = w.saved /\ v.dns = w.saved
        /\ v.default = u.default /\ v.family = u.family
        /\ v.saved = u.saved /\ v.tester = u.tester /\ v.url = u.url
        /\ v.leased = u.leased /\ Begun(u, v)
    BY <1>1, <1>2, <2>1, <2>2, Switched
  <2>4. Good(v)
    BY <1>1, <1>2, <2>2, <2>3 DEF Good, Consistent, Undoable
  <2>5. Begun(w, v) /\ v.default = w.default /\ v.url = w.url
    BY <1>2, <2>3 DEF Begun
  <2> QED
    BY <1>1, <2>4, <2>5 DEF v
<1>6. CASE w.tester.of # "fallback" /\ ~(w.tester.of = "config" /\ success)
  <2>1. v = [w EXCEPT !.tester.phase = "posted"]
    BY <1>6 DEF TestEnds
  <2> HIDE DEF v
  <2>2. /\ v \in Worlds /\ v.state = w.state /\ v.family = w.family
        /\ v.lease = w.lease /\ v.dns = w.dns /\ v.saved = w.saved
        /\ v.default = w.default /\ v.det = w.det /\ v.url = w.url
        /\ v.leased = w.leased
        /\ v.tester.of = w.tester.of /\ v.tester.phase = "posted"
    BY <1>1, <2>1 DEF Worlds
  <2>3. Good(v)
    BY <1>1, <2>2 DEF Good, Consistent, Undoable, Checking
  <2> QED
    BY <1>1, <2>2, <2>3 DEF v
<1> QED
  BY <1>3, <1>4, <1>5, <1>6

\* The abstract step from world w to world v.
Simulates(w, v) ==
  LET stays == v.state = w.state /\ Portal(v.det) = Portal(w.det)
      sameUrl == v.url = w.url
      same == v.default = w.default /\ sameUrl
  IN  \/ v.default = w.default /\ stays /\ v.url \in BOOLEAN
      \/ same /\ \/ w.url /\ v.state = "connected" /\ Portal(v.det) = "trying"
                 \/ ~w.url /\ v.state = "online" /\ Portal(v.det) = "none"
      \/ /\ v.state = "idle" /\ Portal(v.det) = "none" /\ v.default = FALSE
         /\ sameUrl
      \/ same /\ Portal(w.det) = "trying" /\ (Succeeded(v) \/ Failed(w, v))
      \/ /\ same /\ Portal(w.det) = "waiting"
         /\ Portal(v.det) = "trying" /\ v.state = w.state
      \/ same /\ w.state # "idle" /\ Begun(w, v)
      \/ /\ v.default = TRUE /\ sameUrl
         /\ \/ w.state = "portal" /\ Begun(w, v)
            \/ ~(w.state = "portal" /\ Portal(w.det) # "trying") /\ stays
      \/ v.default = FALSE /\ sameUrl /\ stays

\* A step to a good world that simulates an abstract step.
LEMMA StepSimulated ==
  ASSUME NEW v, Becomes(v), Good(v), Simulates(World, v)
  PROVE  Good(World)' /\ [Abstract!Next]_(Abstract!vars)
<1>1. World' = v
  BY DEF Becomes, World, Good, Consistent, Worlds
<1>2. Good(World)'
  BY <1>1
<1>3. /\ World.state = state /\ World.default = default /\ World.det = det
      /\ World.url = url /\ url' = v.url
      /\ state' = v.state /\ default' = v.default /\ det' = v.det
  BY DEF World, Becomes
<1> DEFINE p == IF ~det.alive THEN "none"
                ELSE IF Trying THEN "trying" ELSE "waiting"
<1>4. p = Portal(det) /\ p' = Portal(det')
  BY DEF Portal, Trying
<1>5. p' = Portal(v.det) /\ p = Portal(World.det)
  BY <1>3, <1>4
<1>6. [Abstract!Next]_<<state, p, default, url>>
  <2> HIDE DEF p
  <2> QED
    BY <1>3, <1>5
       DEF Simulates, Begun, Succeeded, Failed, Abstract!Next, Abstract!ConnectionIsSetUp,
           Abstract!ConnectionIsLost, Abstract!CheckSucceeds,
           Abstract!CheckFails, Abstract!NextRound, Abstract!Restart,
           Abstract!Begin, Abstract!BecomeDefault, Abstract!LoseDefault,
           Abstract!ChangeUrl, p
<1> QED
  BY <1>2, <1>6 DEF Abstract!vars

\* What DHCP, Manager and the user do.
LEMMA EnvironmentStep ==
  ASSUME Inv, Environment
  PROVE  Inv' /\ [Abstract!Next]_(Abstract!vars)
<1> DEFINE goal == Good(World)' /\ [Abstract!Next]_(Abstract!vars)
           w == World
<1>1. Good(w) /\ w \in Worlds /\ MaxEvents \in Nat
  BY ServersAssumption DEF Inv, Good, Consistent, ServersAssumption
<1>2. events' \in 0 .. MaxEvents
  <2>1. Event
    BY Zenon DEF Environment, OnIPConfigUpdated, OnIPConfigFailed, Disconnected,
                 SetIsDefault, SetCheckPortalUrl, RecheckPortal,
                 RecheckPortalOnService
  <2>2. events \in 0 .. MaxEvents
    BY DEF Inv
  <2> QED
    BY <1>1, <2>1, <2>2 DEF Event
<1>3. /\ V6Servers \in Servers \ {Fallback} /\ NoServers \in Servers \ {Fallback}
      /\ Leases \subseteq Servers \ {Fallback} /\ V6Servers \notin Leases
  BY ServersAssumption DEF ServersAssumption, Servers
<1>4. /\ w.state = state /\ w.default = default /\ w.family = family
      /\ w.url = url
  BY DEF World
<1>5. ASSUME NEW servers \in Leases \union {NoServers},
             OnIPConfigUpdated(servers)
      PROVE  goal
  <2> DEFINE v == SetupConnection([w EXCEPT !.lease = servers], "v4", servers)
  <2>1. Becomes(v)
    BY <1>5 DEF OnIPConfigUpdated
  <2>2. Good(v) /\ Simulates(w, v)
    BY <1>1, <1>3, ConnectionSetup DEF Simulates
  <2> HIDE DEF v
  <2> QED
    BY <2>1, <2>2, StepSimulated
<1>6. ASSUME OnIPConfigFailed PROVE goal
  <2> DEFINE v == SetupConnection([w EXCEPT !.lease = NoServers], "v6", V6Servers)
  <2>1. Becomes(v)
    BY <1>6 DEF OnIPConfigFailed
  <2>2. Good(v) /\ Simulates(w, v)
    BY <1>1, <1>3, ConnectionSetup DEF Simulates
  <2> HIDE DEF v
  <2> QED
    BY <2>1, <2>2, StepSimulated
<1>7. ASSUME Disconnected PROVE goal
  <2> DEFINE v == DropConnection(w)
  <2>1. Becomes(v)
    BY <1>7 DEF Disconnected
  <2>2. Good(v) /\ Simulates(w, v)
    BY <1>1, ConnectionDropped DEF Simulates
  <2> HIDE DEF v
  <2> QED
    BY <2>1, <2>2, StepSimulated
<1>8. ASSUME NEW b \in BOOLEAN, SetIsDefault(b) PROVE goal
  <2> DEFINE u == [w EXCEPT !.default = b]
             v == IF b THEN RequestPortalDetection(u) ELSE u
  <2>1. Becomes(v) /\ w.family # "none"
    BY <1>4, <1>8 DEF SetIsDefault
  <2>2. /\ u \in Worlds /\ u.default = b /\ u.state = w.state
        /\ u.family = w.family /\ u.lease = w.lease /\ u.dns = w.dns
        /\ u.saved = w.saved /\ u.tester = w.tester /\ u.det = w.det
        /\ u.url = w.url /\ u.leased = w.leased
    BY <1>1 DEF Worlds
  <2> HIDE DEF u
  <2>3. Good(u)
    BY <1>1, <2>1, <2>2 DEF Good, Consistent, Undoable, Checking
  <2>4. CASE b
    <3>1. v = RequestPortalDetection(u)
      BY <2>4
    <3> HIDE DEF v
    <3>2. Good(v) /\ Simulates(w, v)
      BY <2>2, <2>3, <2>4, <3>1, Requested DEF Simulates, Begun
    <3> QED
      BY <2>1, <3>2, StepSimulated
  <2>5. CASE ~b
    <3>1. v = u
      BY <2>5
    <3> HIDE DEF v
    <3>2. Good(v) /\ Simulates(w, v)
      BY <2>2, <2>3, <2>5, <3>1 DEF Simulates
    <3> QED
      BY <2>1, <3>2, StepSimulated
  <2> QED
    BY <2>4, <2>5
<1>9. ASSUME NEW b \in BOOLEAN, SetCheckPortalUrl(b) PROVE goal
  <2> DEFINE v == [w EXCEPT !.url = b]
  <2>1. Becomes(v)
    BY <1>9 DEF SetCheckPortalUrl
  <2>2. /\ v \in Worlds /\ v.default = w.default /\ v.state = w.state
        /\ v.family = w.family /\ v.lease = w.lease /\ v.dns = w.dns
        /\ v.saved = w.saved /\ v.tester = w.tester /\ v.det = w.det
        /\ v.url = b /\ v.leased = w.leased
    BY <1>1 DEF Worlds
  <2> HIDE DEF v
  <2>3. Good(v) /\ Simulates(w, v)
    BY <1>1, <2>2 DEF Good, Consistent, Undoable, Checking, Simulates
  <2> QED
    BY <2>1, <2>3, StepSimulated
<1>10. ASSUME RecheckPortal PROVE goal
  <2> DEFINE v == RequestPortalDetection(w)
  <2>1. Becomes(v)
    BY <1>10 DEF RecheckPortal
  <2>2. Good(v) /\ Simulates(w, v)
    BY <1>1, Requested DEF Simulates, Worlds
  <2> HIDE DEF v
  <2> QED
    BY <2>1, <2>2, StepSimulated
<1>11. ASSUME RecheckPortalOnService PROVE goal
  <2> DEFINE v == RestartPortalDetection(w)
  <2>1. Becomes(v) /\ w.state # "idle" /\ Consistent(w) /\ Undoable(w)
    BY <1>1, <1>4, <1>11 DEF RecheckPortalOnService, Good, Consistent
  <2>2. Checked(w, v) /\ Begun(w, v)
    BY <1>1, <2>1, Restarted
  <2> HIDE DEF v
  <2>3. Good(v) /\ Simulates(w, v)
    BY <2>1, <2>2, CheckedGood DEF Simulates, Checked
  <2> QED
    BY <2>1, <2>3, StepSimulated
<1>12. goal
  BY <1>5, <1>6, <1>7, <1>8, <1>9, <1>10, <1>11 DEF Environment
<1> QED
  BY <1>2, <1>12 DEF Inv

\* The posted trial is started, or ends, or times out.
LEMMA TrialStep ==
  ASSUME Inv, StartTrialTask \/ RequestCallback \/ TimeoutTrialTask
  PROVE  Inv' /\ [Abstract!Next]_(Abstract!vars)
<1> DEFINE goal == Good(World)' /\ [Abstract!Next]_(Abstract!vars)
           w == World
<1>1. Good(w) /\ w \in Worlds /\ w.det = det /\ w.default = default
  BY DEF Inv, Good, Consistent, World
<1>2. events' \in 0 .. MaxEvents
  BY DEF Inv, StartTrialTask, RequestCallback, TimeoutTrialTask
<1>3. ASSUME det.trial # "none" \/ det.active PROVE Working(w.det)
  BY <1>1, <1>3 DEF Good, Checking, NoDetector
<1>4. ASSUME NEW r \in Results, det.active, Becomes(Completed(w, r)) PROVE goal
  <2> DEFINE v == Completed(w, r)
  <2>1. Ended(w.det) /\ Consistent(w) /\ Undoable(w)
    BY <1>1, <1>3, <1>4 DEF Working, Ended, Good
  <2>2. Portal(w.det) = "trying"
    BY <1>1, <1>3, <1>4 DEF Working, Portal
  <2>3. Good(v) /\ Simulates(w, v)
    BY <1>4, <2>1, <2>2, TrialCompleted DEF Simulates, Good, Consistent, Worlds
  <2> HIDE DEF v
  <2> QED
    BY <1>4, <2>3, StepSimulated DEF v
<1>5. ASSUME RequestCallback PROVE goal
  BY <1>4, <1>5 DEF RequestCallback
<1>6. ASSUME TimeoutTrialTask PROVE goal
  BY <1>4, <1>6 DEF TimeoutTrialTask, Results
<1>7. ASSUME StartTrialTask PROVE goal
  <2> DEFINE u == [w EXCEPT !.det.trial = "none"]
             x == [u EXCEPT !.det.active = TRUE]
  <2>1. Working(w.det) /\ w.det.trial # "none" /\ ~w.det.active
    BY <1>1, <1>3, <1>7 DEF StartTrialTask, Working
  <2>2. Becomes(x) \/ \E r \in {"dns", "other"} : Becomes(Completed(u, r))
    BY <1>7 DEF StartTrialTask
  <2>3. /\ u \in Worlds /\ u.default = w.default /\ u.state = w.state
        /\ u.family = w.family /\ u.lease = w.lease /\ u.dns = w.dns
        /\ u.saved = w.saved /\ u.tester = w.tester /\ u.url = w.url
        /\ u.leased = w.leased
        /\ u.det = [w.det EXCEPT !.trial = "none"]
    BY <1>1 DEF Worlds, Detectors
  <2>4. /\ Ended(u.det) /\ u.det.attempts = w.det.attempts
        /\ u.det.active = w.det.active
    BY <1>1, <2>1, <2>3 DEF Working, Ended, Worlds, Detectors
  <2>5. w.state # "idle"
    BY <1>1, <2>1 DEF Good, Consistent, NoDetector
  <2>6. Consistent(u) /\ Undoable(u)
    BY <1>1, <2>3, <2>5 DEF Good, Consistent, Undoable
  <2>7. CASE Becomes(x)
    <3> HIDE DEF u
    <3>1. /\ x \in Worlds /\ x.default = u.default /\ x.state = u.state
          /\ x.family = u.family /\ x.lease = u.lease /\ x.dns = u.dns
          /\ x.saved = u.saved /\ x.tester = u.tester /\ x.url = u.url
          /\ x.leased = u.leased
          /\ x.det = [u.det EXCEPT !.active = TRUE]
      BY <2>3 DEF Worlds, Detectors
    <3> HIDE DEF x
    <3>2. /\ Working(x.det) /\ x.det.attempts = w.det.attempts
          /\ x.det.trial = "none" /\ x.det.alive
      BY <2>3, <2>4, <3>1 DEF Working, Ended, Detectors, Worlds
    <3>3. Good(x)
      BY <2>3, <2>5, <2>6, <3>1, <3>2 DEF Good, Consistent, Undoable, Checking
    <3>4. /\ Portal(x.det) = "trying"
          /\ Portal(w.det) \in {"waiting", "trying"}
      BY <2>1, <3>2 DEF Portal, Working
    <3>5. Simulates(w, x)
      BY <1>1, <2>3, <3>1, <3>4 DEF Simulates, Worlds
    <3> QED
      BY <2>7, <3>3, <3>5, StepSimulated
  <2>8. ASSUME NEW r \in {"dns", "other"}, Becomes(Completed(u, r)) PROVE goal
    <3> DEFINE v == Completed(u, r)
    <3> HIDE DEF u
    <3>1. r \in Results
      BY DEF Results
    <3>2. /\ Good(v) /\ v.default = u.default /\ v.url = u.url
          /\ \/ Portal(v.det) = "trying" /\ v.state = u.state
             \/ Succeeded(v) \/ Failed(u, v)
          /\ u.det.attempts = 1 => Portal(v.det) = "trying" /\ v.state = u.state
      BY <2>4, <2>6, <2>8, <3>1, TrialCompleted
    <3> HIDE DEF v
    <3>3. CASE w.det.attempts = 1
      <4>1. Portal(w.det) \in {"waiting", "trying"}
        BY <2>1 DEF Portal, Working
      <4>2. Simulates(w, v)
        BY <1>1, <2>3, <2>4, <3>2, <3>3, <4>1 DEF Simulates, Worlds
      <4> QED
        BY <2>8, <3>2, <4>2, StepSimulated DEF v
    <3>4. CASE w.det.attempts # 1
      <4>1. Portal(w.det) = "trying"
        BY <2>1, <3>4 DEF Portal, Working
      <4>2. Simulates(w, v)
        BY <1>1, <2>3, <3>2, <4>1 DEF Simulates, Worlds, Failed
      <4> QED
        BY <2>8, <3>2, <4>2, StepSimulated DEF v
    <3> QED
      BY <3>3, <3>4
  <2> QED
    BY <2>2, <2>7, <2>8
<1> QED
  BY <1>2, <1>5, <1>6, <1>7 DEF Inv

\* The DNS test is started, or ends.
LEMMA TestStep ==
  ASSUME Inv, StartAttemptTask \/ DNSClientCallback
  PROVE  Inv' /\ [Abstract!Next]_(Abstract!vars)
<1> DEFINE goal == Good(World)' /\ [Abstract!Next]_(Abstract!vars)
           w == World
<1>1. Good(w) /\ w \in Worlds /\ w.tester = tester
  BY DEF Inv, Good, Consistent, World
<1>2. events' \in 0 .. MaxEvents
  BY DEF Inv, StartAttemptTask, DNSClientCallback
<1>3. w.tester.of # "none"
  BY <1>1 DEF StartAttemptTask, DNSClientCallback, Good, Consistent
<1>4. ASSUME NEW success \in BOOLEAN, NEW allowed \in BOOLEAN,
             success => w.tester.phase = "asking",
             Becomes(TestEnds(w, success, allowed))
      PROVE  goal
  <2> DEFINE v == TestEnds(w, success, allowed)
  <2>1. /\ Good(v) /\ v.default = w.default /\ v.url = w.url
        /\ w.state # "idle"
        /\ \/ v.state = w.state /\ v.det = w.det
           \/ Begun(w, v)
    BY <1>1, <1>3, <1>4, TestEnded
  <2> HIDE DEF v
  <2>2. Simulates(w, v)
    BY <1>1, <2>1 DEF Simulates, Worlds
  <2> QED
    BY <1>4, <2>1, <2>2, StepSimulated DEF v
<1>5. ASSUME Becomes([w EXCEPT !.tester.phase = "asking"]),
             w.tester.of = "config" => w.saved # NoServers
      PROVE  goal
  <2> DEFINE v == [w EXCEPT !.tester.phase = "asking"]
  <2>1. /\ v \in Worlds /\ v.state = w.state /\ v.family = w.family
        /\ v.lease = w.lease /\ v.dns = w.dns /\ v.saved = w.saved
        /\ v.default = w.default /\ v.det = w.det /\ v.url = w.url
        /\ v.leased = w.leased
        /\ v.tester.of = w.tester.of /\ v.tester.phase = "asking"
    BY <1>1 DEF Worlds
  <2> HIDE DEF v
  <2>2. w.state # "idle"
    BY <1>1, <1>3 DEF Good, Consistent, NoTester
  <2>3. Good(v) /\ Simulates(w, v)
    BY <1>1, <1>3, <1>5, <2>1, <2>2
       DEF Good, Consistent, Undoable, Checking, Simulates, Worlds
  <2> QED
    BY <1>5, <2>3, StepSimulated DEF v
<1>6. w.saved = saved
  BY DEF World
<1>7. goal
  BY <1>1, <1>4, <1>5, <1>6 DEF StartAttemptTask, DNSClientCallback
<1> QED
  BY <1>2, <1>7 DEF Inv

\* Initially there is no connection, and nothing to check.
LEMMA InitGood == Init => Inv /\ Abstract!Init
<1> SUFFICES ASSUME Init PROVE Inv /\ Abstract!Init
  OBVIOUS
<1>1. World = [state |-> "idle", default |-> FALSE, family |-> "none",
               lease |-> NoServers, dns |-> NoServers, saved |-> NoServers,
               tester |-> NoTester, det |-> NoDetector, url |-> TRUE,
               leased |-> NoServers]
  BY DEF Init, World
<1>2. /\ NoServers \in Servers /\ NoServers # Fallback
      /\ NoServers \notin Leases /\ MaxEvents \in Nat
  BY ServersAssumption DEF ServersAssumption, Servers
<1>3. Good(World)
  BY <1>1, <1>2, NoDetectorType
     DEF Good, Consistent, Undoable, Checking, Worlds, NoTester
<1>4. events \in 0 .. MaxEvents
  BY <1>2 DEF Init
<1>5. Abstract!Init
  BY DEF Init, Abstract!Init, NoDetector
<1> QED
  BY <1>3, <1>4, <1>5 DEF Inv

\* Every step keeps the world good and simulates an abstract step.
LEMMA NextGood ==
  Inv /\ [Next]_vars => Inv' /\ [Abstract!Next]_(Abstract!vars)
<1> SUFFICES ASSUME Inv, [Next]_vars
             PROVE  Inv' /\ [Abstract!Next]_(Abstract!vars)
  OBVIOUS
<1>1. CASE Environment
  BY <1>1, EnvironmentStep
<1>2. CASE StartTrialTask \/ RequestCallback \/ TimeoutTrialTask
  BY <1>2, TrialStep
<1>3. CASE StartAttemptTask \/ DNSClientCallback
  BY <1>3, TestStep
<1>4. CASE UNCHANGED vars
  <2>1. World' = World /\ events' = events
    BY <1>4 DEF vars, World
  <2>2. Inv'
    BY <2>1 DEF Inv
  <2>3. UNCHANGED Abstract!vars
    BY <1>4 DEF vars, Abstract!vars, Trying
  <2> QED
    BY <2>2, <2>3
<1> QED
  BY <1>1, <1>2, <1>3, <1>4 DEF Next

\* The inductive invariant.
LEMMA Invariance == Spec => []Inv
<1>1. Init => Inv
  BY InitGood
<1>2. Inv /\ [Next]_vars => Inv'
  BY NextGood
<1> QED
  BY <1>1, <1>2, PTL DEF Spec

\* The state has its type: in particular the two counters of PortalDetector
\* stay within their limits (portal_detector.cc), for any limits.
THEOREM TypeCorrect == Spec => []TypeOK
<1>1. Inv => TypeOK
  BY DEF Inv, Good, Consistent, Worlds, World, TypeOK
<1> QED
  BY <1>1, Invariance, PTL

\* No posted StartTrialTask ever finds its request gone, although
\* ConnectivityTrial::Stop does not cancel the task (connectivity_trial.cc).
THEOREM TrialSafe == Spec => []TrialHasRequest
<1>1. Inv => TrialHasRequest
  BY DEF Inv, Good, Checking, Working, World, NoDetector, TrialHasRequest
<1> QED
  BY <1>1, Invariance, PTL

\* A detector that exists has a trial posted or under way, so that
\* IsInProgress (portal_detector.cc) never holds back a check for good.
THEOREM DetectorWorks == Spec => []DetectorIsAlive
<1>1. Inv => DetectorIsAlive
  BY DEF Inv, Good, Checking, Working, World, NoDetector, DetectorIsAlive
<1> QED
  BY <1>1, Invariance, PTL

\* The CHECKs of the DNS test's callbacks (device.cc) hold.
THEOREM TestSafe == Spec => []TestHasConnection
<1>1. Inv => TestHasConnection
  BY DEF Inv, Good, Consistent, World, NoTester, TestHasConnection
<1> QED
  BY <1>1, Invariance, PTL

\* The fallback servers are in use only while the saved ones are tested
\* (device.cc, FallbackDNSResultCallback and ConfigDNSResultCallback), and with
\* a lease that brought servers the saved ones are not an empty list.
THEOREM FallbackUndoable == Spec => []FallbackIsTemporary
<1>1. Inv => FallbackIsTemporary
  BY DEF Inv, Good, Undoable, World, FallbackIsTemporary
<1> QED
  BY <1>1, Invariance, PTL

\* The portal check of device.cc, with its detector, trials, retries and DNS
\* tests, does to the service what PortalAbstraction says.
THEOREM Implementation == Spec => ImplementsAbstraction
<1>1. Init => Abstract!Init
  BY InitGood
<1>2. Inv /\ [Next]_vars => [Abstract!Next]_(Abstract!vars)
  BY NextGood
<1> QED
  BY <1>1, <1>2, Invariance, PTL DEF Spec, ImplementsAbstraction, Abstract!Spec

\* The detector works as long as it is there (portal_detector.cc): it has a
\* trial, the trial its request, and both counters stay within their limits.
THEOREM DetectorSound == Spec => []DetectorIsSound
<1>1. TypeOK /\ TrialHasRequest /\ DetectorIsAlive => DetectorIsSound
  BY DEF DetectorIsSound
<1> QED
  BY <1>1, TypeCorrect, TrialSafe, DetectorWorks, PTL

\* The DNS test finds what its callbacks CHECK for, and the fallback servers are
\* in use only while it may undo them (device.cc): with a lease that brought
\* servers those it tests are some.
THEOREM FallbackSound == Spec => []FallbackIsSound
<1>1. TestHasConnection /\ FallbackIsTemporary => FallbackIsSound
  BY DEF FallbackIsSound
<1> QED
  BY <1>1, TestSafe, FallbackUndoable, PTL
=============================================================================
