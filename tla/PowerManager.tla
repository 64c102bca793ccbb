---------------------------- MODULE PowerManager ----------------------------
(***************************************************************************)
(* shill's PowerManager (power_manager.cc), the delegate of powerd's       *)
(* signals.  Its state is a record; an operator is the effect of one       *)
(* handler on it.  Whether a handler goes on to run the Manager's callback *)
(* is a predicate of its own, so that a composing module can add what the  *)
(* callback does to the same step.                                         *)
(***************************************************************************)
EXTENDS Naturals

\* 0 stands for the initial value of current_suspend_id_.
PowerManagers(ids) ==
    [registered : BOOLEAN,      \* suspend_delay_registered_
     darkRegistered : BOOLEAN,  \* dark_suspend_delay_registered_
     suspending : BOOLEAN,      \* suspending_
     darkResume : BOOLEAN,      \* in_dark_resume_
     id : ids,                  \* current_suspend_id_
     darkId : ids]              \* current_dark_suspend_id_

InitPowerManager ==
    [registered |-> FALSE, darkRegistered |-> FALSE, suspending |-> FALSE,
     darkResume |-> FALSE, id |-> 0, darkId |-> 0]

\* OnPowerManagerAppeared: each registration may be refused by powerd.
PowerManagerAppeared(p, ok, darkOk) ==
    [p EXCEPT !.registered = ok,
              !.darkRegistered = IF darkOk THEN TRUE ELSE @]

\* OnSuspendImminent: a repeated announcement only changes the id.
RunsSuspendImminent(p) == ~p.suspending

SuspendImminent(p, id) == [p EXCEPT !.id = id, !.suspending = TRUE]

\* OnSuspendDone is ignored, callback included, unless suspending.
RunsSuspendDone(p) == p.suspending

SuspendDone(p) == [p EXCEPT !.suspending = FALSE, !.darkResume = FALSE]

\* OnDarkSuspendImminent is ignored without a dark suspend delay.
RunsDarkSuspendImminent(p) == p.darkRegistered

DarkSuspendImminent(p, id) == [p EXCEPT !.darkResume = TRUE, !.darkId = id]

\* OnPowerManagerVanished, after the SuspendDone it implies when suspending.
PowerManagerVanished(p) ==
    [p EXCEPT !.registered = FALSE, !.darkRegistered = FALSE,
              !.suspending = FALSE,
              !.darkResume = IF p.suspending THEN FALSE ELSE @]

\* ReportSuspendReadiness and ReportDarkSuspendReadiness: the ids sent to
\* powerd.  Only the former looks at suspending_.
ReportsReadiness(p, kind) == kind = "suspend" => p.suspending

ReportedId(p, kind) == IF kind = "suspend" THEN p.id ELSE p.darkId
=============================================================================
