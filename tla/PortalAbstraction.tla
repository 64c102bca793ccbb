-------------------------- MODULE PortalAbstraction -------------------------
(***************************************************************************)
(* What the rest of shill may rely on when a device checks its connection  *)
(* for a captive portal: the states the service goes through, and when a   *)
(* check is at work, waits for the next round, or has been given up.       *)
(***************************************************************************)
CONSTANT
  PortalRetry \* a failed check of the default connection is repeated

VARIABLES
  state,      \* the service: "idle", "connected", "portal" or "online"
  portal,     \* the check: "none", "trying" or "waiting"
  default,    \* the connection is the default one
  url         \* a check can be begun

vars == <<state, portal, default, url>>

Init == state = "idle" /\ portal = "none" /\ default = FALSE /\ url = TRUE

(* A check begins, or cannot be begun: then the service counts as online.  *)
Begin(from) ==
  \/ url /\ portal' = "trying" /\ state' = from
  \/ ~url /\ portal' = "none" /\ state' = "online"

ConnectionIsSetUp == Begin("connected") /\ UNCHANGED <<default, url>>

ConnectionIsLost ==
  state' = "idle" /\ portal' = "none" /\ default' = FALSE /\ UNCHANGED url

CheckSucceeds ==
  /\ portal = "trying"
  /\ state' = "online" /\ portal' = "none"
  /\ UNCHANGED <<default, url>>

(* Only the default connection is checked again, and that only if retries  *)
(* are asked for.                                                          *)
CheckFails ==
  LET retry == default /\ PortalRetry
  IN  /\ portal = "trying"
      /\ \/ ~retry /\ state' = "portal" /\ portal' = "none"
         \/ retry /\ url /\ state' = "portal" /\ portal' = "waiting"
         \/ retry /\ ~url /\ state' = "online" /\ portal' = "none"
      /\ UNCHANGED <<default, url>>

NextRound ==
  /\ portal = "waiting"
  /\ portal' = "trying"
  /\ UNCHANGED <<state, default, url>>

Restart ==
  /\ state # "idle"
  /\ Begin(state)
  /\ UNCHANGED <<default, url>>

BecomeDefault ==
  /\ default' = TRUE
  /\ \/ state = "portal" /\ Begin(state)
     \/ ~(state = "portal" /\ portal # "trying") /\ UNCHANGED <<state, portal>>
  /\ UNCHANGED url

LoseDefault == default' = FALSE /\ UNCHANGED <<state, portal, url>>

ChangeUrl == UNCHANGED <<state, portal, default>> /\ url' \in BOOLEAN

Next ==
  \/ ConnectionIsSetUp \/ ConnectionIsLost
  \/ CheckSucceeds \/ CheckFails \/ NextRound \/ Restart
  \/ BecomeDefault \/ LoseDefault \/ ChangeUrl

Spec == Init /\ [][Next]_vars
=============================================================================
