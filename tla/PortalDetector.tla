--------------------------- MODULE PortalDetector ---------------------------
(***************************************************************************)
(* PortalDetector (portal_detector.cc) and the ConnectivityTrial it owns   *)
(* (connectivity_trial.cc), as operators on one record:                    *)
(*   alive     the detector exists                                         *)
(*   attempts  attempt_count_                                              *)
(*   failures  failures_in_content_phase_                                  *)
(*   request   the trial has its HTTPRequest                               *)
(*   trial     StartTrialTask is posted: "now" for at once or the few      *)
(*             seconds between attempts, "later" for the check interval    *)
(*   active    the request is under way and the trial timeout is armed     *)
(***************************************************************************)
EXTENDS Naturals

CONSTANTS
  kMaxRequestAttempts,
  kMaxFailuresInContentPhase

(* A check consists of more than one attempt.                              *)
ASSUME AttemptsAssumption ==
  /\ kMaxRequestAttempts \in Nat \ {0, 1}
  /\ kMaxFailuresInContentPhase \in Nat \ {0}

Detectors ==
  [alive : BOOLEAN, attempts : 0 .. kMaxRequestAttempts,
   failures : 0 .. kMaxFailuresInContentPhase, request : BOOLEAN,
   trial : {"none", "now", "later"}, active : BOOLEAN]

NoDetector == [alive |-> FALSE, attempts |-> 0, failures |-> 0,
               request |-> FALSE, trial |-> "none", active |-> FALSE]

NewDetector == [NoDetector EXCEPT !.alive = TRUE]

(* How a trial ends: the expected answer, other content, a DNS failure or  *)
(* timeout, or any other failure or timeout.                               *)
Results == {"success", "content", "dns", "other"}

(***************************************************************************)
(* ConnectivityTrial.                                                      *)
(***************************************************************************)
StartTrial(det, delay) ==
  [det EXCEPT !.request = TRUE, !.active = FALSE, !.trial = delay]

Retry(det) ==
  IF det.request THEN [det EXCEPT !.active = FALSE, !.trial = "now"] ELSE det

(* A posted StartTrialTask is not cancelled.                               *)
StopTrial(det) ==
  IF det.request THEN [det EXCEPT !.active = FALSE, !.request = FALSE] ELSE det

(***************************************************************************)
(* PortalDetector.                                                         *)
(***************************************************************************)
StartAfterDelay(det, delay) ==
  [StartTrial(det, delay) EXCEPT !.attempts = 1, !.failures = 0]

Stop(det) == StopTrial([det EXCEPT !.attempts = 0, !.failures = 0])

IsInProgress(det) == det.attempts > 1 \/ (det.attempts = 1 /\ det.active)

Counted(det, result) ==
  [det EXCEPT !.active = FALSE,
              !.failures = IF result = "content" THEN @ + 1 ELSE @]

IsFinal(det, result) ==
  \/ result = "success"
  \/ det.attempts >= kMaxRequestAttempts
  \/ det.failures >= kMaxFailuresInContentPhase

NextAttemptUnposted(det) == [det EXCEPT !.attempts = @ + 1]

NextAttempt(det) == Retry([det EXCEPT !.attempts = @ + 1])

(* CompleteTrial and CompleteAttempt, up to the callback.                  *)
CompleteAttempt(det, result) ==
  LET counted == Counted(det, result)
      final == IsFinal(counted, result)
  IN  [det |-> IF final THEN Stop(counted) ELSE NextAttempt(counted),
       final |-> final]
=============================================================================
