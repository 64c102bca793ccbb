------------------------------ MODULE OpenVPN ------------------------------
(***************************************************************************)
(* An OpenVPN service (vpn/openvpn_driver.cc): the tunnel interface that   *)
(* is created first and claimed when the kernel announces it, the openvpn  *)
(* client that is then spawned, the management channel to the client       *)
(* (vpn/openvpn_management_server.cc) over which it is held back while     *)
(* there is no network, reconnects and refusals, and the connect timeout.  *)
(*                                                                         *)
(* The driver's methods are operators on the record |sys|; an action is    *)
(* one task of shill's event loop or one step of a client.  A client whose *)
(* management socket was closed only exits.  The client runs its script    *)
(* for "up" only (InitOptions), and waits for shill's answer, so that      *)
(* Notify is one step with it.  Left out: options, credentials and the     *)
(* addresses of the tunnel; which failure is reported.                     *)
(***************************************************************************)
EXTENDS Integers, Sequences

CONSTANTS
    Pids, NoPid,
    Tunnels, NoTunnel,  \* tunnel interfaces; no index is used twice
    MaxEvents           \* bound on requests, changes of the network and restarts

\* Who is told of the exit of a client: the driver (OnOpenVPNDied), nobody
\* (DoNothingWithExitStatus), or OnOpenVPNExited for a tunnel.
Owners == {"driver", "nobody"} \cup Tunnels
NoOwner == "unwatched"

INSTANCE ProcessManager

ASSUME OpenVPNAssumption ==
    NoPid \notin Pids /\ NoTunnel \notin Tunnels /\ MaxEvents \in Nat

VARIABLES
    sys,        \* the driver, its management server, processes and interfaces
    client,     \* the openvpn client that pid_ names
    killed,     \* clients that were sent SIGKILL (ghost)
    online,     \* a service other than the VPN is connected
    sort,       \* SortServicesTask is posted
    events

vars == <<sys, client, killed, online, sort, events>>

Connecting == {"configuring", "associating"}

Messages == {"hold", "reconnecting", "refused"}

Systems ==
    [service : BOOLEAN,                     \* service_ is set
     state : {"idle", "failure", "connected"} \cup Connecting,
     timer : BOOLEAN,                       \* connect_timeout_callback_
     tunnel : Tunnels \cup {NoTunnel},      \* tunnel_interface_
     device : Tunnels \cup {NoTunnel},      \* device_, with rpc_task_
     pid : Pids \cup {NoPid},
     callback : BOOLEAN,                    \* default_service_callback_tag_
     server : {"off", "listening", "accepted"},
     waiting : BOOLEAN, release : BOOLEAN,  \* hold_waiting_, hold_release_
     commands : Seq({"release", "restart"}),     \* sent and not yet read
     pm : ProcessManagers,
     link : [Tunnels -> {"none", "new", "seen", "deleted"}],
     failed : BOOLEAN]                      \* a CHECK failed, or sockets_ was null

TypeOK ==
    /\ sys \in Systems
    /\ client \in [phase : {"boot", "held", "connecting", "up"},
                   out : Seq(Messages)]
    /\ killed \in SUBSET Pids
    /\ {online, sort} \subseteq BOOLEAN
    /\ events \in 0..MaxEvents

NewClient == [phase |-> "boot", out |-> <<>>]

Init ==
    /\ sys = [service |-> FALSE, state |-> "idle", timer |-> FALSE,
              tunnel |-> NoTunnel, device |-> NoTunnel, pid |-> NoPid,
              callback |-> FALSE, server |-> "off", waiting |-> FALSE,
              release |-> FALSE, commands |-> <<>>, pm |-> InitProcessManager,
              link |-> [t \in Tunnels |-> "none"], failed |-> FALSE]
    /\ client = NewClient
    /\ killed = {}
    /\ online \in BOOLEAN
    /\ sort = FALSE
    /\ events = 0

Event == events < MaxEvents /\ events' = events + 1

\* A service that changes has the services sorted (Manager::UpdateService).
Becomes(w) ==
    \E s \in {w} : sys' = s /\ sort' = (sort \/ s.state # sys.state)
-----------------------------------------------------------------------------
(***************************************************************************)
(* The management server.                                                  *)
(***************************************************************************)
Send(s, command) ==
    CASE s.server = "off" -> [s EXCEPT !.failed = TRUE]
      [] s.server = "listening" -> s
      [] s.server = "accepted" -> [s EXCEPT !.commands = Append(@, command)]

StartServer(s, connected) ==
    IF s.server # "off" THEN s
    ELSE [s EXCEPT !.server = "listening", !.waiting = FALSE, !.release = connected]

StopServer(s) == [s EXCEPT !.server = "off", !.commands = <<>>]

ReleaseHold(s) ==
    IF s.waiting
    THEN Send([s EXCEPT !.release = TRUE, !.waiting = FALSE], "release")
    ELSE [s EXCEPT !.release = TRUE]

Hold(s) == [s EXCEPT !.release = FALSE]

\* Mutant of ProcessHoldMessage: an earlier release is forgotten.
HoldForgets(s) == [s EXCEPT !.waiting = TRUE]

ProcessHoldMessage(s) ==
    LET w == [s EXCEPT !.waiting = TRUE] IN IF s.release THEN ReleaseHold(w) ELSE w
-----------------------------------------------------------------------------
(***************************************************************************)
(* The driver.                                                             *)
(***************************************************************************)
StopClient(s) ==
    IF s.pid = NoPid THEN s.pm
    ELSE StopProcess(UpdateExitCallback(s.pm, s.pid,
                         IF s.device = NoTunnel THEN "nobody" ELSE s.device), s.pid)

\* Mutant of Cleanup: the driver goes on hearing of default services.
CleanupRegistered(s, state) ==
    [StopServer(s) EXCEPT
       !.timer = FALSE, !.device = NoTunnel,
       !.pid = NoPid, !.tunnel = NoTunnel, !.service = FALSE,
       !.state = IF s.service THEN state ELSE @,
       !.pm = StopClient(s)]

\* A tunnel without a client is deleted at once.
Cleanup(s, state) ==
    [StopServer(s) EXCEPT
       !.timer = FALSE, !.callback = FALSE, !.device = NoTunnel,
       !.pid = NoPid, !.tunnel = NoTunnel, !.service = FALSE,
       !.state = IF s.service THEN state ELSE @,
       !.pm = StopClient(s),
       !.link = [t \in Tunnels |->
                    IF t = s.device /\ s.pid = NoPid THEN "deleted" ELSE @[t]]]

\* OnReconnecting, which drops the connection of the device; the timeout is
\* another one after a TLS error.
OnReconnecting(s) ==
    [s EXCEPT !.timer = TRUE, !.state = IF s.service THEN "associating" ELSE @]

\* VPNService::Connect and OpenVPNDriver::Connect; |ok| is false when the
\* tunnel interface cannot be created.
Connect(ok) ==
    /\ Event
    /\ sys.state \notin Connecting \cup {"connected"}
    /\ LET s == [sys EXCEPT !.timer = TRUE, !.service = TRUE, !.state = "configuring"]
       IN  IF ok THEN \E t \in Tunnels :
                         /\ sys.link[t] = "none"
                         /\ Becomes([s EXCEPT !.tunnel = t, !.link[t] = "new"])
           ELSE Becomes(Cleanup(s, "failure"))
    /\ UNCHANGED <<client, killed, online>>

Disconnect ==
    /\ Event
    /\ Becomes(Cleanup(sys, "idle"))
    /\ UNCHANGED <<client, killed, online>>

\* SpawnOpenVPN, registering for default services included.
SpawnOpenVPN(s, p, connected) ==
    [StartServer(s, connected) EXCEPT
       !.failed = @ \/ s.pid # NoPid,
       !.pid = p, !.pm = StartProcess(@, p, "driver"), !.callback = TRUE]

\* The kernel announces a tunnel: DeviceInfo deletes it if the driver does not
\* claim it.  IsConnected looks at the first service of the last sort.
ClaimInterface(t) ==
    /\ sys.link[t] = "new"
    /\ IF t # sys.tunnel
       THEN /\ Becomes([sys EXCEPT !.link[t] = "deleted"])
            /\ UNCHANGED client
       ELSE LET s == [sys EXCEPT !.link[t] = "seen", !.device = t,
                                 !.failed = @ \/ sys.device # NoTunnel]
            IN  \/ /\ Becomes(Cleanup(s, "failure"))
                   /\ UNCHANGED client
                \/ /\ \E p \in Fresh(sys.pm), connected \in BOOLEAN :
                        /\ IF sort THEN connected => online ELSE connected = online
                        /\ Becomes(SpawnOpenVPN(s, p, connected))
                   /\ client' = NewClient
    /\ UNCHANGED <<killed, online, events>>

\* Mutant of ProcessMessage: a reconnect does not start the timeout.
MessageUntimed(s, message) ==
    CASE message = "hold" -> ProcessHoldMessage(s)
      [] message = "reconnecting" ->
            [s EXCEPT !.state = IF s.service THEN "associating" ELSE @]
      [] message = "refused" -> Cleanup(s, "failure")

\* "refused" stands for a password that failed or is missing.
ProcessMessage(s, message) ==
    CASE message = "hold" -> ProcessHoldMessage(s)
      [] message = "reconnecting" -> OnReconnecting(s)
      [] message = "refused" -> Cleanup(s, "failure")

\* What the messages make of |s|, one after the other, as long as the server is
\* started.
ProcessMessages(s, messages) ==
    LET after[i \in 0..Len(messages)] ==
            IF i = 0 THEN s
            ELSE IF after[i - 1].server = "off" THEN after[i - 1]
            ELSE ProcessMessage(after[i - 1], messages[i])
    IN  after[Len(messages)]

\* As many messages as have arrived.
OnInput(n) ==
    /\ sys.server = "accepted" /\ n \in 1..Len(client.out)
    /\ Becomes(ProcessMessages(sys, SubSeq(client.out, 1, n)))
    /\ client' = [client EXCEPT !.out = SubSeq(@, n + 1, Len(@))]
    /\ UNCHANGED <<killed, online, events>>

OnConnectTimeout ==
    /\ sys.timer
    /\ Becomes(Cleanup(sys, "failure"))
    /\ UNCHANGED <<client, killed, online, events>>

\* Another service connects, or the last one that was connected no longer is;
\* the driver hears of it (OnConnectionDisconnected) if the VPN is |bound| to it.
NetworkChanges(bound) ==
    /\ Event
    /\ bound => online /\ sys.state = "connected"
    /\ online' = ~online
    /\ sys' = IF bound THEN OnReconnecting(Send(sys, "restart")) ELSE sys
    /\ sort' = TRUE
    /\ UNCHANGED <<client, killed>>

\* Manager::SortServicesTask tells of the default service, new or not.
OnDefaultServiceChanged ==
    /\ sort
    /\ sys' = IF ~sys.callback THEN sys
              ELSE IF online /\ sys.state # "connected" THEN ReleaseHold(sys)
              ELSE Hold(sys)
    /\ sort' = FALSE
    /\ UNCHANGED <<client, killed, online, events>>
-----------------------------------------------------------------------------
(***************************************************************************)
(* The clients.                                                            *)
(***************************************************************************)
ClientRuns == sys.pid # NoPid /\ sys.pm.proc[sys.pid] = "running"

\* OnReady: accepted, the client asks to be released.
OnReady ==
    /\ ClientRuns /\ sys.server = "listening"
    /\ Becomes([sys EXCEPT !.server = "accepted"])
    /\ client' = [phase |-> "held", out |-> <<"hold">>]
    /\ UNCHANGED <<killed, online, events>>

Restarted == [phase |-> "held", out |-> client.out \o <<"reconnecting", "hold">>]

ClientReads ==
    /\ ClientRuns /\ sys.commands # <<>>
    /\ client' = CASE Head(sys.commands) = "restart" -> Restarted
                   [] client.phase = "held" -> [client EXCEPT !.phase = "connecting"]
                   [] OTHER -> client
    /\ Becomes([sys EXCEPT !.commands = Tail(@)])
    /\ UNCHANGED <<killed, online, events>>

\* The client loses its server, is refused, or has its tunnel up (Notify).
ClientRestarts ==
    /\ Event
    /\ ClientRuns /\ client.phase \in {"connecting", "up"}
    /\ client' = Restarted
    /\ UNCHANGED <<sys, sort, killed, online>>

ClientIsRefused ==
    /\ Event
    /\ ClientRuns /\ client.phase = "connecting"
    /\ client' = [client EXCEPT !.out = Append(@, "refused")]
    /\ UNCHANGED <<sys, sort, killed, online>>

Notify ==
    /\ ClientRuns /\ client.phase = "connecting"
    /\ Becomes([sys EXCEPT !.state = "connected", !.timer = FALSE])
    /\ client' = [client EXCEPT !.phase = "up"]
    /\ UNCHANGED <<killed, online, events>>

\* A client exits, by itself or because of a signal.
ClientExits(p) ==
    /\ sys.pm.proc[p] = "running"
    /\ Becomes([sys EXCEPT !.pm.proc[p] = "zombie"])
    /\ UNCHANGED <<client, killed, online, events>>

\* OnInputError: the socket of the client that exited is closed.
OnInputError ==
    /\ sys.server = "accepted" /\ ~ClientRuns
    /\ Becomes(Cleanup(sys, "failure"))
    /\ UNCHANGED <<client, killed, online, events>>

\* OnProcessExited, and OnOpenVPNDied or OnOpenVPNExited.
ClientIsReaped(p) ==
    /\ sys.pm.proc[p] = "zombie"
    /\ LET told == Told(sys.pm, p)
           s == [sys EXCEPT !.pm = OnProcessExited(@, p)]
       IN  Becomes(IF told = "driver" THEN Cleanup([s EXCEPT !.pid = NoPid], "failure")
                   ELSE [s EXCEPT !.link = [t \in Tunnels |->
                                              IF t = told THEN "deleted" ELSE @[t]]])
    /\ UNCHANGED <<client, killed, online, events>>

TerminationTimeout(p) ==
    /\ sys.pm.ending[p] # "none"
    /\ \E w \in {ProcessTerminationTimeoutHandler(sys.pm, p)} :
         /\ Becomes([sys EXCEPT !.pm = w])
         /\ killed' = IF w.ending[p] = "kill" THEN killed \cup {p} ELSE killed
    /\ UNCHANGED <<client, online, events>>
-----------------------------------------------------------------------------
ShillStep ==
    \/ \E t \in Tunnels : ClaimInterface(t)
    \/ \E n \in 1..Len(client.out) : OnInput(n)
    \/ \E p \in Pids : ClientIsReaped(p) \/ TerminationTimeout(p)
    \/ OnConnectTimeout \/ OnDefaultServiceChanged \/ OnReady \/ OnInputError

Environment ==
    \/ \E ok \in BOOLEAN : Connect(ok)
    \/ \E bound \in BOOLEAN : NetworkChanges(bound)
    \/ \E p \in Pids : ClientExits(p)
    \/ Disconnect \/ ClientReads \/ ClientRestarts \/ ClientIsRefused \/ Notify

Next == ShillStep \/ Environment

Spec == Init /\ [][Next]_vars

\* Timers fire, exits are reaped, and nothing survives SIGKILL.
Fairness ==
    /\ WF_vars(OnConnectTimeout)
    /\ \A p \in Pids :
         /\ WF_vars(TerminationTimeout(p))
         /\ WF_vars(ClientIsReaped(p))
         /\ WF_vars(p \in killed /\ ClientExits(p))

FairSpec == Spec /\ Fairness
-----------------------------------------------------------------------------
(***************************************************************************)
(* Properties.                                                             *)
(***************************************************************************)
\* No CHECK fails: a tunnel is claimed when the driver has neither a device nor
\* a client, and nothing is sent through a management server that is not started
\* (sockets_ is null then).
ChecksHold == ~sys.failed

\* As long as the service is neither connected nor given up the connect timeout
\* runs ("will not lead to a permanently stale connectivity state",
\* OnConnectionDisconnected), and it never runs out on a connected VPN.
AttemptIsTimed == sys.timer <=> sys.service /\ sys.state # "connected"

\* What the driver sets up for a client is there exactly as long as the client
\* is its own: the device, the management server and the registration for
\* default services, which is bound to the driver unretained.
PartsGoTogether ==
    /\ sys.pid # NoPid <=> sys.device # NoTunnel
    /\ sys.pid # NoPid <=> sys.callback
    /\ sys.pid # NoPid <=> sys.server # "off"
    /\ sys.pid # NoPid => sys.service

\* No lost release: a client that is held back with nothing under way to it or
\* from it is held because no other service is connected.
HoldIsJustified ==
    (ClientRuns /\ client = [phase |-> "held", out |-> <<>>] /\ sys.commands = <<>> /\ ~sort)
        => ~online

\* A client that is no longer the driver's has been told to end, and does.
ClientsEnd ==
    \A p \in Pids :
        (sys.pm.proc[p] = "running" /\ sys.pid # p) ~> (sys.pm.proc[p] # "running")

\* No CHECK of the driver fails, and what it has set up for a client is there
\* as long as the client and no longer.
DriverIsSound == TypeOK /\ ChecksHold /\ PartsGoTogether
=============================================================================
