----------------------------- MODULE HookTable -----------------------------
(***************************************************************************)
(* shill's HookTable (hook_table.cc): named actions that are all started   *)
(* by Run() and that report back through ActionComplete(); the done        *)
(* callback of Run() is invoked when the last started action completes or  *)
(* when the timeout posted by Run() fires, whichever comes first.          *)
(*                                                                         *)
(* An entry of hook_table_ is abstracted to the four situations its two    *)
(* flags distinguish:                                                      *)
(*   "absent"     no entry by that name                                    *)
(*   "idle"       started = false                                          *)
(*   "started"    started = true,  completed = false                       *)
(*   "completed"  started = true,  completed = true                        *)
(* The state of a table is a record: hook, done (done_callback_ is not     *)
(* null), timer (timeout_callback_ is posted and not cancelled) and        *)
(* results, the results the done callback has been run with.               *)
(***************************************************************************)
EXTENDS Naturals, Sequences

CONSTANT Names          \* names passed to Add()

HookState == {"absent", "idle", "started", "completed"}

Result == {"success", "timeout"}

HookTables ==
    [hook : [Names -> HookState], done : BOOLEAN, timer : BOOLEAN,
     results : Seq(Result)]

EmptyTable ==
    [hook |-> [n \in Names |-> "absent"], done |-> FALSE, timer |-> FALSE,
     results |-> <<>>]

IsEmpty(t) == \A n \in Names : t.hook[n] = "absent"

Remove(t, n) == [t EXCEPT !.hook[n] = "absent"]

\* Add() removes an entry of the same name first: a replaced action that had
\* been started is forgotten.
Add(t, n) == [t EXCEPT !.hook[n] = "idle"]

AllActionsComplete(t) == \A n \in Names : t.hook[n] # "started"

\* Mutant of RunDone: done_callback_ is not reset.
RunDoneKeepsCallback(t, result) ==
    [t EXCEPT !.timer = FALSE, !.results = Append(@, result)]

\* The run ends: no timer is left, the done callback runs with |result| and
\* is reset.
RunDone(t, result) ==
    [t EXCEPT !.timer = FALSE, !.done = FALSE, !.results = Append(@, result)]

\* Mutant of ActionComplete: any completion ends the run.
ActionCompleteAlone(t, n) ==
    LET marked == [t EXCEPT !.hook[n] = IF @ = "started" THEN "completed" ELSE @]
    IN  IF marked.done THEN RunDone(marked, "success") ELSE marked

\* ActionComplete(n): record the completion of a started action, then cancel
\* the timeout and run the done callback if nothing started is outstanding.
ActionComplete(t, n) ==
    LET marked == [t EXCEPT !.hook[n] = IF @ = "started" THEN "completed" ELSE @]
    IN  IF AllActionsComplete(marked) /\ marked.done
        THEN RunDone(marked, "success")
        ELSE marked

\* ActionsTimedOut(): runs unconditionally whatever done_callback_ holds.
ActionsTimedOut(t) == RunDone(t, "timeout")

\* Mutant of BeginRun: the timeout is not posted.
BeginRunUntimed(t) ==
    IF IsEmpty(t)
    THEN [t EXCEPT !.results = Append(@, "success")]
    ELSE [t EXCEPT !.done = TRUE,
                   !.hook = [n \in Names |-> IF t.hook[n] = "absent"
                                             THEN "absent" ELSE "started"]]

\* The part of Run() before the start callbacks: an empty table is done at
\* once, otherwise every entry is marked started before any of them runs.
BeginRun(t) ==
    IF IsEmpty(t)
    THEN [t EXCEPT !.results = Append(@, "success")]
    ELSE [t EXCEPT !.done = TRUE, !.timer = TRUE,
                   !.hook = [n \in Names |-> IF t.hook[n] = "absent"
                                             THEN "absent" ELSE "started"]]
=============================================================================
