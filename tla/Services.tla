------------------------------ MODULE Services ------------------------------
(***************************************************************************)
(* A service's connection state machine (service.cc) and the list Manager  *)
(* keeps of them (manager.cc), as operators on a world w with the fields   *)
(*   svc    what each service remembers                                    *)
(*   list   Manager::services_                                             *)
(*   sort   a SortServicesTask is posted                                   *)
(*   suspending   between SuspendImminent and SuspendDone                  *)
(* Every handler of a module that EXTENDS this one is a composition of     *)
(* such operators, in the order the code makes the calls.                  *)
(***************************************************************************)
EXTENDS ServiceOrder, FiniteSets

CONSTANTS
  Vpn,          \* those that are not a primary connectivity technology
  MaxCooldown   \* bound: number of steps the auto-connect cooldown doubles

ASSUME CooldownAssumption == MaxCooldown \in Nat \ {0}
ASSUME VpnAssumption == Vpn \subseteq Service

ServiceRecords ==
  [state : ConnectStates, failed : BOOLEAN, connectable : BOOLEAN,
   auto : BOOLEAN, retain : BOOLEAN, ever : BOOLEAN, explicit : BOOLEAN,
   cooldown : 0 .. MaxCooldown, throttled : BOOLEAN, conn : BOOLEAN]

NewService(auto) ==
  [state |-> "idle", failed |-> FALSE, connectable |-> TRUE, auto |-> auto,
   retain |-> FALSE, ever |-> FALSE, explicit |-> FALSE, cooldown |-> 0,
   throttled |-> FALSE, conn |-> FALSE]

(***************************************************************************)
(* Manager                                                                 *)
(***************************************************************************)
SortServices(w) == [w EXCEPT !.sort = TRUE]

(* A service that is connected becomes one to auto-connect, unless the     *)
(* user has set the property himself.  VPN services only retain it.        *)
EnableAndRetainAutoConnect(w, s) ==
  IF w.svc[s].retain THEN w
  ELSE [w EXCEPT !.svc[s].retain = TRUE,
                 !.svc[s].auto = IF s \in Vpn THEN @ ELSE TRUE]

UpdateService(w, s) ==
  SortServices(IF IsConnected(w.svc[s]) THEN EnableAndRetainAutoConnect(w, s)
                                        ELSE w)

RegisterService(w, s) == SortServices([w EXCEPT !.list = Append(@, s)])

(* A service leaves the list; what it forgets then is up to the caller.    *)
Place(l, s) == CHOOSE i \in DOMAIN l : l[i] = s

DeregisterService(w, s) ==
  IF s \in ToSet(w.list)
  THEN SortServices([w EXCEPT !.list = RemoveAt(@, Place(@, s))])
  ELSE w

ManagerIsConnected(w) == w.list # << >> /\ IsConnected(w.svc[Head(w.list)])

(***************************************************************************)
(* Service                                                                 *)
(***************************************************************************)
SetState(w, s, state) ==
  LET a == w.svc[s]
      entered == IF state # "connected" THEN [a EXCEPT !.state = state]
                 ELSE [a EXCEPT !.state = state, !.failed = FALSE, !.ever = TRUE,
                                !.cooldown = 0, !.throttled = FALSE]
  IN  IF a.state = state THEN w
      ELSE UpdateService([w EXCEPT !.svc[s] = entered], s)

SetFailure(w, s) ==
  SetState([w EXCEPT !.svc[s].failed = TRUE], s, "failure")

ClearExplicitlyDisconnected(w, s) ==
  IF w.svc[s].explicit
  THEN UpdateService([w EXCEPT !.svc[s].explicit = FALSE], s)
  ELSE w

(* The part of Connect all services share.                                 *)
BaseConnect(w, s) ==
  LET v == ClearExplicitlyDisconnected(w, s)
  IN  IF v.svc[s].state = "failure" THEN SetState(v, s, "idle") ELSE v

(* The first auto-connect after a success is free; from the second on, the *)
(* next one has to wait for a timer whose delay doubles.                   *)
ThrottleFutureAutoConnects(w, s) ==
  [w EXCEPT !.svc[s].throttled = @ \/ w.svc[s].cooldown > 0,
            !.svc[s].cooldown = IF @ < MaxCooldown THEN @ + 1 ELSE @]

ReEnableQuietly(w, s) == [w EXCEPT !.svc[s].throttled = FALSE]

ReEnableAutoConnectTask(w, s) ==
  UpdateService([w EXCEPT !.svc[s].throttled = FALSE], s)

(* Service::IsAutoConnectable; the subclasses add their own conditions.    *)
BaseIsAutoConnectable(w, s) ==
  /\ w.svc[s].connectable
  /\ ~IsConnected(w.svc[s])
  /\ ~IsConnecting(w.svc[s])
  /\ ~w.svc[s].explicit
  /\ ~w.svc[s].throttled
  /\ s \in Vpn => ManagerIsConnected(w)

SetAutoConnectFull(w, s, auto) ==
  LET v == [w EXCEPT !.svc[s].retain = TRUE]
  IN  IF w.svc[s].auto = auto THEN v
      ELSE UpdateService([v EXCEPT !.svc[s].auto = auto], s)

OnAfterResume(w, s) ==
  ClearExplicitlyDisconnected(
    [w EXCEPT !.svc[s].cooldown = 0, !.svc[s].throttled = FALSE], s)
=============================================================================
