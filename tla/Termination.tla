---------------------------- MODULE Termination ----------------------------
(***************************************************************************)
(* Orderly shutdown of shill: DaemonTask::Quit runs the Manager's          *)
(* termination actions (a HookTable) and stops the daemon when they are    *)
(* done.  The only clients of the table are the cellular devices, whose    *)
(* asynchronous enable and disable operations (Device::SetEnabledChecked)  *)
(* add, complete and remove its entries while the run is going on.         *)
(*                                                                         *)
(* Every step is one task of the single-threaded event loop.               *)
(***************************************************************************)
EXTENDS HookTable

CONSTANT MaxFlaps       \* bound: modem state changes and user requests

ASSUME FlapsAssumption == MaxFlaps \in Nat

Modems == Names

ModemState == {"disabled", "changing", "enabled"}

VARIABLES
    table,      \* Manager::termination_actions_
    enabled,    \* Device::enabled_
    pending,    \* Device::enabled_pending_
    modem,      \* modem_state_: disabled, changing (below enabled), enabled
    op,         \* the Start or Stop operation in flight on the modem
    waiter,     \* who is called back when the operation in flight ends
    present,    \* the Cellular object exists
    daemon,     \* "running", "quitting" (waiting for the actions) or "exited"
    stopTasks,  \* StopAndReturnToMain tasks posted and not yet run
    owing,      \* modems that the run has started to terminate and that are
                \*   neither down nor gone since
    replaced,   \* those whose entry was replaced since (hook_table.cc:48)
    flaps       \* external events so far (bounds the model)

runVars == <<owing, replaced>>
quitVars == <<table, enabled, pending, modem, op, waiter, present, daemon, stopTasks,
          runVars, flaps>>
modemVars == <<enabled, pending, modem, op, waiter, present>>

QuitTypeOK ==
    /\ table \in HookTables
    /\ enabled \in [Modems -> BOOLEAN]
    /\ pending \in [Modems -> BOOLEAN]
    /\ modem \in [Modems -> ModemState]
    /\ op \in [Modems -> {"none", "starting", "stopping"}]
    /\ waiter \in [Modems -> {"nobody", "user", "termination"}]
    /\ present \in [Modems -> BOOLEAN]
    /\ daemon \in {"running", "quitting", "exited"}
    /\ stopTasks \in Nat
    /\ owing \subseteq Modems /\ replaced \subseteq Modems
    /\ flaps \in 0..MaxFlaps

QuitInit ==
    /\ table = EmptyTable
    /\ enabled = [m \in Modems |-> FALSE]
    /\ pending = [m \in Modems |-> FALSE]
    /\ modem = [m \in Modems |-> "disabled"]
    /\ op = [m \in Modems |-> "none"]
    /\ waiter = [m \in Modems |-> "nobody"]
    /\ present = [m \in Modems |-> TRUE]
    /\ daemon = "running"
    /\ stopTasks = 0
    /\ owing = {} /\ replaced = {}
    /\ flaps = 0

Flap == flaps < MaxFlaps /\ flaps' = flaps + 1

(***************************************************************************)
(* Device::SetEnabledChecked and SetEnabledUnchecked.  A request that      *)
(* finds the device in the wanted state, or an operation towards it in     *)
(* flight, returns without ever running its callback.  Start and Stop of   *)
(* a modem only post tasks, so they never complete inside the call.        *)
(***************************************************************************)
StartsOperation(m, enable) == enable # enabled[m] /\ enable # pending[m]

SetEnabledChecked(m, enable, who) ==
    IF StartsOperation(m, enable)
    THEN /\ pending' = [pending EXCEPT ![m] = enable]
         /\ op' = [op EXCEPT ![m] = IF enable THEN "starting" ELSE "stopping"]
         /\ waiter' = [waiter EXCEPT ![m] = who]
    ELSE UNCHANGED <<pending, op, waiter>>

\* A D-Bus client powers the device on or off (SetEnabledPersistent).
UserSetEnabled(m, enable) ==
    /\ daemon # "exited" /\ present[m] /\ Flap
    /\ SetEnabledChecked(m, enable, "user")
    /\ UNCHANGED <<table, enabled, modem, present, daemon, stopTasks, runVars>>

(***************************************************************************)
(* Cellular::OnModemStateChanged.  Reaching an enabled state registers the *)
(* termination action (OnEnabled) and brings the device to the enabled     *)
(* state unless the technology is prohibited; reaching kModemStateDisabled *)
(* brings it to the disabled state (OnDisabled); the states in between     *)
(* (initializing, locked, disabling, enabling) change neither.             *)
(***************************************************************************)
OnModemStateChanged(m, new) ==
    /\ daemon # "exited" /\ present[m] /\ new # modem[m] /\ Flap
    /\ modem' = [modem EXCEPT ![m] = new]
    /\ table' = IF new = "enabled" THEN Add(table, m) ELSE table
    /\ \/ new # "changing" /\ SetEnabledChecked(m, new = "enabled", "nobody")
       \/ new \in {"changing", "enabled"} /\ UNCHANGED <<pending, op, waiter>>
    /\ replaced' = IF new = "enabled" /\ m \in owing THEN replaced \cup {m}
                                                     ELSE replaced
    /\ UNCHANGED <<enabled, present, daemon, stopTasks, owing>>

\* Device::OnEnabledStateChanged.
EnabledStateChanged(m, ok) ==
    /\ enabled' = [enabled EXCEPT ![m] = IF ok THEN pending[m] ELSE @]
    /\ pending' = [pending EXCEPT ![m] = IF ok THEN @ ELSE enabled[m]]
    /\ op' = [op EXCEPT ![m] = "none"]
    /\ waiter' = [waiter EXCEPT ![m] = "nobody"]

StartModemCallback(m, ok) ==
    /\ daemon # "exited" /\ present[m] /\ op[m] = "starting"
    /\ EnabledStateChanged(m, ok)
    /\ UNCHANGED <<table, modem, present, daemon, stopTasks, runVars, flaps>>

\* DaemonTask::TerminationActionsCompleted runs once for every result that
\* the step adds to the table, and posts one StopAndReturnToMain.
CompletionsPosted(before, after) == Len(after.results) - Len(before.results)

SetTable(t) ==
    /\ table' = t
    /\ stopTasks' = stopTasks + CompletionsPosted(table, t)

\* Cellular::StopModemCallback: tell whoever asked (OnTerminationCompleted
\* reports the action complete and removes it), then remove the action.
StopModemCallback(m, ok) ==
    /\ daemon # "exited" /\ present[m] /\ op[m] = "stopping"
    /\ EnabledStateChanged(m, ok)
    /\ SetTable(Remove(IF waiter[m] = "termination" THEN ActionComplete(table, m)
                                                    ELSE table, m))
    /\ owing' = owing \ {m}
    /\ UNCHANGED <<modem, present, daemon, replaced, flaps>>

\* Cellular::~Cellular, when the modem leaves the bus: callbacks bound to its
\* weak pointer are dropped and its action is removed.
ModemVanishes(m) ==
    /\ daemon # "exited" /\ present[m] /\ Flap
    /\ present' = [present EXCEPT ![m] = FALSE]
    /\ op' = [op EXCEPT ![m] = "none"]
    /\ waiter' = [waiter EXCEPT ![m] = "nobody"]
    /\ SetTable(Remove(table, m))
    /\ owing' = owing \ {m}
    /\ UNCHANGED <<enabled, pending, modem, daemon, replaced>>

(***************************************************************************)
(* DaemonTask::Quit.  With no action registered the daemon stops inside    *)
(* the call; otherwise every registered modem runs StartTermination, whose *)
(* SetEnabledNonPersistent(false) follows the rules above.                 *)
(***************************************************************************)
QuitAtOnce ==
    /\ daemon = "running" /\ IsEmpty(table)
    /\ daemon' = "exited"
    /\ UNCHANGED <<table, modemVars, stopTasks, runVars, flaps>>

StartTerminationOn(ms) ==
    LET stops == {m \in ms : StartsOperation(m, FALSE)}
    IN  /\ pending' = [m \in Modems |-> IF m \in stops THEN FALSE ELSE pending[m]]
        /\ op' = [m \in Modems |-> IF m \in stops THEN "stopping" ELSE op[m]]
        /\ waiter' = [m \in Modems |-> IF m \in stops THEN "termination"
                                                      ELSE waiter[m]]

QuitAndWait ==
    /\ daemon = "running" /\ ~IsEmpty(table)
    /\ daemon' = "quitting"
    /\ table' = BeginRun(table)
    /\ owing' = {m \in Modems : table.hook[m] # "absent"}
    /\ StartTerminationOn(owing')
    /\ UNCHANGED <<enabled, modem, present, stopTasks, replaced, flaps>>

\* The timeout posted by HookTable::Run.
TerminationTimeout ==
    /\ daemon # "exited" /\ table.timer
    /\ SetTable(ActionsTimedOut(table))
    /\ UNCHANGED <<modemVars, daemon, runVars, flaps>>

\* DaemonTask::StopAndReturnToMain, which releases the Manager.
StopAndReturnToMain ==
    /\ daemon = "quitting" /\ stopTasks > 0
    /\ daemon' = "exited"
    /\ stopTasks' = stopTasks - 1
    /\ UNCHANGED <<table, modemVars, runVars, flaps>>

ModemStep(m) ==
    \/ \E enable \in BOOLEAN : UserSetEnabled(m, enable)
    \/ \E new \in ModemState : OnModemStateChanged(m, new)
    \/ \E ok \in BOOLEAN : StartModemCallback(m, ok) \/ StopModemCallback(m, ok)
    \/ ModemVanishes(m)

QuitNext ==
    \/ \E m \in Modems : ModemStep(m)
    \/ QuitAtOnce
    \/ QuitAndWait
    \/ TerminationTimeout
    \/ StopAndReturnToMain

QuitSpec == QuitInit /\ [][QuitNext]_quitVars

\* The event loop runs every posted task, and a posted timeout expires.
QuitFairSpec == QuitSpec /\ WF_quitVars(TerminationTimeout) /\ WF_quitVars(StopAndReturnToMain)
-----------------------------------------------------------------------------
\* The timeout never finds done_callback_ null: ActionsTimedOut runs the
\* callback without testing it (hook_table.cc:121), so an armed timer must
\* imply a run whose result is still owed.
TimeoutHasCallback == table.timer => table.done

\* The daemon is stopped at most once, although the timeout and the late
\* completion of an action may race: StopAndReturnToMain releases manager_ and
\* metrics_, so a second one would use them after release (daemon_task.cc:157).
StopsAtMostOnce ==
    stopTasks + (IF daemon = "exited" THEN 1 ELSE 0) <= 1

\* hook_table.h:75 promises kSuccess only if all actions complete: when a success
\* is reported, every modem that the run set out to terminate is down or gone,
\* also one that will never report (device.cc:1844) or that another is ahead of.
\* The exception is a modem that came back to an enabled state meanwhile: its new
\* entry replaces the started one, and the run forgets it (hook_table.cc:48).
SuccessIsEarned == table.results = <<"success">> => owing \subseteq replaced

\* Once quitting, shill exits: the timeout bounds the wait even when the
\* modem's callback was dropped (device.cc:1844) or the modem is gone.
QuitLeadsToExit == (daemon = "quitting") ~> (daemon = "exited")

\* The run ends once: the timeout and a late ActionComplete (hook_table.cc) do
\* not both run the done callback, and neither finds it gone.
RunEndsOnce == QuitTypeOK /\ TimeoutHasCallback /\ StopsAtMostOnce
=============================================================================
