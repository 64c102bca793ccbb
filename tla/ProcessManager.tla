--------------------------- MODULE ProcessManager ---------------------------
(***************************************************************************)
(* The child processes of shill (process_manager.cc).  A manager is a      *)
(* record of functions on process ids: who is told when the process exits, *)
(* which signal it has been sent and is still given time to obey, whether  *)
(* the reaper was told to forget it, and what the kernel knows of it.      *)
(* A process that has exited is a zombie until somebody reaps it.          *)
(***************************************************************************)
CONSTANTS
    Pids,       \* process ids, none of them used twice
    Owners,     \* whoever starts processes
    NoOwner

ProcessManagers ==
    [watched : [Pids -> Owners \cup {NoOwner}],     \* watched_processes_
     ending : [Pids -> {"none", "term", "kill"}],   \* pending_termination_processes_
     forgotten : SUBSET Pids,                       \* ForgetChild
     proc : [Pids -> {"unborn", "running", "zombie", "gone"}],
     unknown : BOOLEAN]                             \* NOTREACHED was reached

InitProcessManager ==
    [watched |-> [p \in Pids |-> NoOwner], ending |-> [p \in Pids |-> "none"],
     forgotten |-> {}, proc |-> [p \in Pids |-> "unborn"], unknown |-> FALSE]

Fresh(pm) == {p \in Pids : pm.proc[p] = "unborn"}

Running(pm) == {p \in Pids : pm.proc[p] = "running"}

\* StartProcess and StartProcessInMinijail.
StartProcess(pm, p, owner) ==
    [pm EXCEPT !.watched[p] = owner, !.proc[p] = "running"]

\* TerminateProcess: a process that is gone needs no timeout.
TerminateProcess(pm, p, signal) ==
    IF pm.proc[p] = "gone" THEN pm ELSE [pm EXCEPT !.ending[p] = signal]

\* UpdateExitCallback, of a process that is watched.
UpdateExitCallback(pm, p, owner) ==
    IF pm.watched[p] = NoOwner THEN pm ELSE [pm EXCEPT !.watched[p] = owner]

\* StopProcess: whoever was to be told of the exit no longer is.
StopProcess(pm, p) ==
    IF pm.ending[p] # "none" \/ pm.watched[p] = NoOwner
    THEN pm
    ELSE TerminateProcess([pm EXCEPT !.watched[p] = NoOwner], p, "term")

\* StopProcessAndBlock; |dies| says whether the process does, in the time that
\* is waited after either signal.
StopProcessAndBlock(pm, p, dies) ==
    IF pm.ending[p] = "none" /\ pm.watched[p] = NoOwner
    THEN pm
    ELSE [pm EXCEPT !.ending[p] = "none", !.watched[p] = NoOwner,
                    !.forgotten = @ \cup {p},
                    !.proc[p] = IF dies \/ @ = "zombie" THEN "gone" ELSE @]

\* The reaper has collected a zombie; OnProcessExited hears of it unless it was
\* told to forget the process.  Told(pm, p) is who is to be called back.
Told(pm, p) == IF p \in pm.forgotten THEN NoOwner ELSE pm.watched[p]

OnProcessExited(pm, p) ==
    LET reaped == [pm EXCEPT !.proc[p] = "gone"]
    IN  IF p \in pm.forgotten THEN reaped
        ELSE IF pm.watched[p] # NoOwner THEN [reaped EXCEPT !.watched[p] = NoOwner]
        ELSE IF pm.ending[p] # "none" THEN [reaped EXCEPT !.ending[p] = "none"]
        ELSE [reaped EXCEPT !.unknown = TRUE]

\* Mutant of ProcessTerminationTimeoutHandler: SIGTERM is the last attempt.
TimeoutGivesUp(pm, p) == [pm EXCEPT !.ending[p] = "none"]

\* ProcessTerminationTimeoutHandler: SIGKILL is the last attempt.
ProcessTerminationTimeoutHandler(pm, p) ==
    LET given == [pm EXCEPT !.ending[p] = "none"]
    IN  IF pm.ending[p] = "kill" THEN given ELSE TerminateProcess(given, p, "kill")
=============================================================================
