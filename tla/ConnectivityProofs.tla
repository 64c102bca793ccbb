------------------------- MODULE ConnectivityProofs -------------------------
(***************************************************************************)
(* Proofs about Connectivity, for any services, devices and ranks.         *)
(***************************************************************************)
EXTENDS Connectivity, TLAPS, SequenceTheorems, FiniteSetTheorems,
        NaturalsInduction, WellFoundedInduction

Lists == {l \in Seq(Service) : IsInjective(l) /\ VpnService \in ToSet(l)}

Worlds ==
  [svc : [Service -> ServiceRecords], dev : [Device -> DeviceRecords],
   list : Lists, sort : BOOLEAN,
   lower : (Device \ {VpnDevice}) \union {NoDevice}, query : BOOLEAN,
   suspending : BOOLEAN, published : [state : ConnectStates, connected : BOOLEAN]]

\* A service and its device agree: it has a connection iff it is connected, and
\* it is then selected; the device of a service without a connection is not the
\* default one; a detector looks after the default service behind a portal; and a
\* VPN is either online or not connected, as its device has no detector.
Attuned(w, s) ==
  LET d == DeviceOf[s] IN
  /\ w.dev[d].selected \in {s, NoService}
  /\ w.svc[s].connectable
  /\ w.svc[s].conn <=> IsConnected(w.svc[s])
  /\ w.svc[s].conn => w.dev[d].selected = s /\ w.dev[d].conn /\ w.svc[s].ever
  /\ w.dev[d].default => w.svc[s].conn
  /\ w.svc[s].state = "portal" /\ w.dev[d].default /\ PortalRetry
       => w.dev[d].portal # "none"
  /\ s = VpnService => w.svc[s].state \notin {"connected", "portal"}

\* ... and only the head of the list has the default connection.
Agrees(w, s) ==
  Attuned(w, s) /\ (w.dev[DeviceOf[s]].default => s = Head(w.list))

\* The VPN's connection is bound to a connection that exists.
Carried(w) ==
  /\ w.lower # NoDevice => w.dev[w.lower].conn
  /\ w.lower # NoDevice \/ w.query => w.svc[VpnService].conn

\* What is published is a state and what follows from it.
Published(w) == w.published.connected <=> w.published.state \in ConnectedStates

\* The services of the enabled devices, and no others, are in the list.
Enlisted(w) ==
  \A s \in Wired : s \in ToSet(w.list) <=> w.dev[DeviceOf[s]].running

\* A device of no service carries no traffic.
Unowned(w) ==
  \A d \in Device : (\A s \in Service : d # DeviceOf[s]) => ~w.dev[d].default

\* What every part of a handler leaves true.
Sound(w) ==
  /\ w \in Worlds
  /\ \A s \in Service : Agrees(w, s)
  /\ Carried(w) /\ Published(w) /\ Unowned(w)

\* Between two handlers.
Good(w) == Sound(w) /\ Enlisted(w)

\* The technology order has the VPN first, and no priorities say otherwise.
VpnRanksFirst == \A s \in Wired : <<VpnService, s>> \in RankedBefore

\* What the last sort has done.
Settled(w) ==
  ~w.sort =>
    /\ (\E s \in ToSet(w.list) : IsConnected(w.svc[s]))
         => IsConnected(w.svc[Head(w.list)])
    /\ w.svc[Head(w.list)].conn => w.dev[DeviceOf[Head(w.list)]].default
    /\ w.published.state = DefaultState(w)
    /\ VpnRanksFirst /\ IsConnected(w.svc[VpnService])
         => Head(w.list) = VpnService
    /\ ~w.suspending =>
         \A s \in ToSet(w.list) : ~(w.svc[s].auto /\ IsAutoConnectable(w, s))

Inv == Good(World) /\ Settled(World)
-----------------------------------------------------------------------------
(***************************************************************************)
(* What steps of a handler have in common.                                 *)
(***************************************************************************)
\* Nothing happens to service s that a sort would have to be posted for.
Still(w, v, s) ==
  /\ v.svc[s].state = w.svc[s].state /\ v.svc[s].auto = w.svc[s].auto
  /\ v.svc[s].ever = w.svc[s].ever
  /\ w.svc[s].explicit => v.svc[s].explicit
  /\ w.svc[s].throttled => v.svc[s].throttled

\* What no part of a handler touches, and what it does without asking for a sort.
Moved(w, v) ==
  /\ v \in Worlds
  /\ v.list = w.list /\ v.suspending = w.suspending /\ v.published = w.published
  /\ \A d \in Device : /\ v.dev[d].link = w.dev[d].link
                       /\ v.dev[d].running = w.dev[d].running
  /\ \A s \in Service : v.svc[s].connectable = w.svc[s].connectable
  /\ w.sort => v.sort
  /\ ~v.sort => \A s \in Service : Still(w, v, s)

\* Only the services of S and their devices have changed.
Only(w, v, S) ==
  /\ \A t \in Service \ S : v.svc[t] = w.svc[t]
  /\ \A d \in Device : (\A t \in S : d # DeviceOf[t]) => v.dev[d] = w.dev[d]

\* Only what service s remembers has changed, not its connection.
Inside(w, v, s) ==
  /\ v \in Worlds
  /\ v.dev = w.dev /\ v.list = w.list /\ v.lower = w.lower /\ v.query = w.query
  /\ v.suspending = w.suspending /\ v.published = w.published
  /\ \A t \in Service \ {s} : v.svc[t] = w.svc[t]
  /\ v.svc[s].conn = w.svc[s].conn
  /\ v.svc[s].connectable = w.svc[s].connectable
  /\ w.svc[s].ever => v.svc[s].ever
  /\ w.sort => v.sort

LEMMA MovedIsReflexive ==
  ASSUME NEW w \in Worlds
  PROVE  Moved(w, w)
  BY DEF Moved, Still

LEMMA MovedIsTransitive ==
  ASSUME NEW w, NEW u, NEW v, Moved(w, u), Moved(u, v)
  PROVE  Moved(w, v)
<1>1. w.sort => v.sort
  BY DEF Moved
<1>2. ASSUME ~v.sort, NEW s \in Service PROVE Still(w, v, s)
  <2>1. Still(w, u, s) /\ Still(u, v, s)
    BY <1>2 DEF Moved
  <2> QED BY <2>1 DEF Still
<1> QED BY <1>1, <1>2 DEF Moved

LEMMA InsideIsTransitive ==
  ASSUME NEW w, NEW u, NEW v, NEW s \in Service, Inside(w, u, s), Inside(u, v, s)
  PROVE  Inside(w, v, s)
  BY DEF Inside

LEMMA InsideIsReflexive ==
  ASSUME NEW w \in Worlds, NEW s \in Service
  PROVE  Inside(w, w, s)
  BY DEF Inside

\* A change inside a service is one of a handler, if it does not go unnoticed.
LEMMA InsideMoves ==
  ASSUME NEW w \in Worlds, NEW v, NEW s \in Service, Inside(w, v, s),
         ~v.sort => Still(w, v, s)
  PROVE  Moved(w, v) /\ Only(w, v, {s})
<1>1. Only(w, v, {s})
  BY DEF Inside, Only
<1>2. ASSUME NEW t \in Service PROVE ~v.sort => Still(w, v, t)
  BY DEF Inside, Still
<1>3. \A t \in Service : v.svc[t].connectable = w.svc[t].connectable
  BY DEF Inside
<1> QED BY <1>1, <1>2, <1>3 DEF Inside, Moved

\* The services and devices of a world.
LEMMA WorldTypes ==
  ASSUME NEW w \in Worlds
  PROVE  /\ w.svc \in [Service -> ServiceRecords]
         /\ w.dev \in [Device -> DeviceRecords]
         /\ w.sort \in BOOLEAN /\ w.query \in BOOLEAN /\ w.suspending \in BOOLEAN
         /\ w.list \in Lists
         /\ w.lower \in (Device \ {VpnDevice}) \union {NoDevice}
         /\ w.published \in [state : ConnectStates, connected : BOOLEAN]
         /\ \A s \in Service : w.svc[s] \in ServiceRecords
         /\ \A d \in Device : w.dev[d] \in DeviceRecords
         /\ w = [svc |-> w.svc, dev |-> w.dev, list |-> w.list, sort |-> w.sort,
                 lower |-> w.lower, query |-> w.query,
                 suspending |-> w.suspending, published |-> w.published]
  BY DEF Worlds
-----------------------------------------------------------------------------
(***************************************************************************)
(* Services.                                                               *)
(***************************************************************************)
\* A world in which service s has become r.
WithService(w, s, r) == [w EXCEPT !.svc[s] = r]

LEMMA ServiceChanges ==
  ASSUME NEW w \in Worlds, NEW s \in Service, NEW r \in ServiceRecords,
         r.conn = w.svc[s].conn, r.connectable = w.svc[s].connectable,
         w.svc[s].ever => r.ever
  PROVE  LET v == WithService(w, s, r)
         IN  Inside(w, v, s) /\ v.svc[s] = r /\ v.sort = w.sort
  BY DEF Inside, Worlds, WithService

LEMMA SortIsPosted ==
  ASSUME NEW w \in Worlds, NEW s \in Service
  PROVE  LET v == SortServices(w)
         IN  Inside(w, v, s) /\ v.svc = w.svc /\ v.sort = TRUE
  BY DEF Inside, Worlds, SortServices

LEMMA ServiceUpdates ==
  ASSUME NEW w \in Worlds, NEW s \in Service
  PROVE  LET v == UpdateService(w, s)
         IN  /\ Inside(w, v, s) /\ v.sort = TRUE
             /\ v.svc[s].state = w.svc[s].state
             /\ v.svc[s].explicit = w.svc[s].explicit
             /\ v.svc[s].ever = w.svc[s].ever
<1> DEFINE a == w.svc[s]
           r == [a EXCEPT !.retain = TRUE, !.auto = IF s \in Vpn THEN @ ELSE TRUE]
           u == WithService(w, s, r)
<1>1. a \in ServiceRecords /\ w.svc \in [Service -> ServiceRecords]
  BY WorldTypes
<1>2. CASE IsConnected(a) /\ ~a.retain
  <2>1. /\ r \in ServiceRecords /\ r.conn = a.conn /\ r.connectable = a.connectable
        /\ r.ever = a.ever /\ r.state = a.state /\ r.explicit = a.explicit
    BY <1>1 DEF ServiceRecords
  <2>2. UpdateService(w, s) = SortServices(u)
    BY <1>1, <1>2, ZenonT(60) DEF UpdateService, EnableAndRetainAutoConnect, WithService, Worlds,
       ServiceRecords
  <2> HIDE DEF r
  <2>3. Inside(w, u, s) /\ u.svc[s] = r
    BY <2>1, ServiceChanges
  <2>4. u \in Worlds
    BY <2>3 DEF Inside
  <2> HIDE DEF u
  <2> DEFINE v == SortServices(u)
  <2>5. Inside(u, v, s) /\ v.svc = u.svc /\ v.sort = TRUE
    BY <2>4, SortIsPosted
  <2> HIDE DEF v
  <2>6. Inside(w, v, s)
    BY <2>3, <2>5, InsideIsTransitive
  <2> QED BY <2>1, <2>2, <2>3, <2>5, <2>6 DEF v
<1>3. CASE ~(IsConnected(a) /\ ~a.retain)
  <2>1. UpdateService(w, s) = SortServices(w)
    BY <1>3 DEF UpdateService, EnableAndRetainAutoConnect
  <2> QED BY <2>1, SortIsPosted
<1> QED BY <1>2, <1>3

LEMMA StateIsSet ==
  ASSUME NEW w \in Worlds, NEW s \in Service, NEW state \in ConnectStates
  PROVE  LET v == SetState(w, s, state)
         IN  /\ Inside(w, v, s) /\ Moved(w, v) /\ Only(w, v, {s})
             /\ v.svc[s].state = state
             /\ w.svc[s].state # state => v.sort
             /\ w.svc[s].state # state /\ state = "connected" => v.svc[s].ever
<1> DEFINE a == w.svc[s]
           r == IF state # "connected" THEN [a EXCEPT !.state = state]
                ELSE [a EXCEPT !.state = state, !.failed = FALSE, !.ever = TRUE,
                               !.cooldown = 0, !.throttled = FALSE]
           u == WithService(w, s, r)
           v == SetState(w, s, state)
<1>1. a \in ServiceRecords /\ w.svc \in [Service -> ServiceRecords]
  BY WorldTypes
<1>2. CASE a.state = state
  <2>1. v = w
    BY <1>2 DEF SetState
  <2>2. Inside(w, w, s) /\ Moved(w, w) /\ Only(w, w, {s})
    BY InsideIsReflexive, MovedIsReflexive DEF Only
  <2> QED BY <1>2, <2>1, <2>2
<1>3. CASE a.state # state
  <2>1. /\ r \in ServiceRecords /\ r.conn = a.conn /\ r.connectable = a.connectable
        /\ a.ever => r.ever
        /\ r.state = state /\ (state = "connected" => r.ever)
    <3>1. CASE state # "connected"
      BY <1>1, <3>1 DEF ServiceRecords
    <3>2. CASE state = "connected"
      <4>1. 0 \in 0..MaxCooldown
        BY CooldownAssumption
      <4> QED BY <1>1, <3>2, <4>1 DEF ServiceRecords
    <3> QED BY <3>1, <3>2
  <2>2. v = UpdateService(u, s)
    BY <1>1, <1>3 DEF SetState, WithService
  <2> HIDE DEF r, v
  <2>3. Inside(w, u, s) /\ u.svc[s] = r
    BY <1>1, <2>1, ServiceChanges
  <2>4. u \in Worlds
    BY <2>3 DEF Inside
  <2> HIDE DEF u
  <2>5. /\ Inside(u, v, s) /\ v.sort = TRUE /\ v.svc[s].state = r.state
        /\ v.svc[s].ever = r.ever
    BY <2>2, <2>3, <2>4, ServiceUpdates
  <2>6. Inside(w, v, s)
    BY <2>3, <2>5, InsideIsTransitive
  <2>7. Moved(w, v) /\ Only(w, v, {s})
    BY <2>5, <2>6, InsideMoves
  <2> QED BY <2>1, <2>5, <2>6, <2>7 DEF v
<1> QED BY <1>2, <1>3

LEMMA FailureIsSet ==
  ASSUME NEW w \in Worlds, NEW s \in Service
  PROVE  LET v == SetFailure(w, s)
         IN  /\ Inside(w, v, s) /\ Moved(w, v) /\ Only(w, v, {s})
             /\ v.svc[s].state = "failure"
             /\ w.svc[s].state # "failure" => v.sort
<1> DEFINE r == [w.svc[s] EXCEPT !.failed = TRUE]
           u == WithService(w, s, r)
           v == SetState(u, s, "failure")
<1>1. w.svc[s] \in ServiceRecords /\ w.svc \in [Service -> ServiceRecords]
  BY WorldTypes
<1>2. SetFailure(w, s) = v
  BY <1>1, WorldTypes DEF SetFailure, WithService
<1>3. /\ r \in ServiceRecords /\ r.conn = w.svc[s].conn
      /\ r.connectable = w.svc[s].connectable /\ r.ever = w.svc[s].ever
      /\ r.state = w.svc[s].state /\ r.auto = w.svc[s].auto
      /\ r.explicit = w.svc[s].explicit /\ r.throttled = w.svc[s].throttled
  BY <1>1 DEF ServiceRecords
<1> HIDE DEF r
<1>4. Inside(w, u, s) /\ u.svc[s] = r /\ u.sort = w.sort
  BY <1>1, <1>3, ServiceChanges
<1>5. u \in Worlds
  BY <1>4 DEF Inside
<1>6. Still(w, u, s)
  BY <1>3, <1>4 DEF Still
<1> HIDE DEF u
<1>7. Moved(w, u)
  BY <1>4, <1>6, InsideMoves
<1>8. "failure" \in ConnectStates
  BY DEF ConnectStates
<1>9. /\ Inside(u, v, s) /\ Moved(u, v) /\ v.svc[s].state = "failure"
      /\ r.state # "failure" => v.sort
  BY <1>4, <1>5, <1>8, StateIsSet, ZenonT(60)
<1> HIDE DEF v
<1>10. Inside(w, v, s) /\ Moved(w, v)
  BY <1>4, <1>7, <1>9, InsideIsTransitive, MovedIsTransitive
<1>11. Only(w, v, {s})
  BY <1>10 DEF Inside, Only
<1> QED BY <1>2, <1>3, <1>9, <1>10, <1>11

LEMMA ExplicitIsCleared ==
  ASSUME NEW w \in Worlds, NEW s \in Service
  PROVE  LET v == ClearExplicitlyDisconnected(w, s)
         IN  /\ Inside(w, v, s) /\ Moved(w, v) /\ Only(w, v, {s})
             /\ v.svc[s].state = w.svc[s].state
             /\ v.svc[s].ever = w.svc[s].ever
<1> DEFINE r == [w.svc[s] EXCEPT !.explicit = FALSE]
           u == WithService(w, s, r)
           v == UpdateService(u, s)
<1>1. w.svc[s] \in ServiceRecords /\ w.svc \in [Service -> ServiceRecords]
  BY WorldTypes
<1>2. CASE w.svc[s].explicit
  <2>1. ClearExplicitlyDisconnected(w, s) = v
    BY <1>1, <1>2, WorldTypes DEF ClearExplicitlyDisconnected, WithService
  <2>2. /\ r \in ServiceRecords /\ r.conn = w.svc[s].conn
        /\ r.connectable = w.svc[s].connectable /\ r.ever = w.svc[s].ever
        /\ r.state = w.svc[s].state
    BY <1>1 DEF ServiceRecords
  <2> HIDE DEF r
  <2>3. Inside(w, u, s) /\ u.svc[s] = r
    BY <1>1, <2>2, ServiceChanges
  <2>4. u \in Worlds
    BY <2>3 DEF Inside
  <2> HIDE DEF u
  <2>5. /\ Inside(u, v, s) /\ v.sort = TRUE /\ v.svc[s].state = r.state
        /\ v.svc[s].ever = r.ever
    BY <2>3, <2>4, ServiceUpdates
  <2> HIDE DEF v
  <2>6. Inside(w, v, s)
    BY <2>3, <2>5, InsideIsTransitive
  <2>7. Moved(w, v) /\ Only(w, v, {s})
    BY <2>5, <2>6, InsideMoves
  <2> QED BY <2>1, <2>2, <2>5, <2>6, <2>7
<1>3. CASE ~w.svc[s].explicit
  <2>1. ClearExplicitlyDisconnected(w, s) = w
    BY <1>3 DEF ClearExplicitlyDisconnected
  <2> QED BY <2>1, InsideIsReflexive, MovedIsReflexive DEF Only
<1> QED BY <1>2, <1>3

LEMMA BaseConnects ==
  ASSUME NEW w \in Worlds, NEW s \in Service
  PROVE  LET v == BaseConnect(w, s)
         IN  /\ Inside(w, v, s) /\ Moved(w, v) /\ Only(w, v, {s})
             /\ v.svc[s].state = IF w.svc[s].state = "failure" THEN "idle"
                                 ELSE w.svc[s].state
<1> DEFINE u == ClearExplicitlyDisconnected(w, s)
           v == SetState(u, s, "idle")
<1>1. /\ Inside(w, u, s) /\ Moved(w, u) /\ Only(w, u, {s})
      /\ u.svc[s].state = w.svc[s].state
  BY ExplicitIsCleared
<1>2. u \in Worlds /\ "idle" \in ConnectStates
  BY <1>1 DEF Moved, ConnectStates
<1>3. BaseConnect(w, s) = IF u.svc[s].state = "failure" THEN v ELSE u
  BY DEF BaseConnect
<1> HIDE DEF u
<1>4. Inside(u, v, s) /\ Moved(u, v) /\ v.svc[s].state = "idle"
  BY <1>2, StateIsSet, ZenonT(60)
<1> HIDE DEF v
<1>5. Inside(w, v, s) /\ Moved(w, v)
  BY <1>1, <1>4, InsideIsTransitive, MovedIsTransitive
<1>6. Only(w, v, {s})
  BY <1>5 DEF Inside, Only
<1> QED BY <1>1, <1>3, <1>4, <1>5, <1>6

LEMMA AutoConnectsAreThrottled ==
  ASSUME NEW w \in Worlds, NEW s \in Service
  PROVE  LET v == ThrottleFutureAutoConnects(w, s)
         IN  /\ Inside(w, v, s) /\ Moved(w, v) /\ Only(w, v, {s})
             /\ v.svc[s].state = w.svc[s].state
<1> DEFINE a == w.svc[s]
           r == [a EXCEPT !.throttled = @ \/ a.cooldown > 0,
                          !.cooldown = IF @ < MaxCooldown THEN @ + 1 ELSE @]
           u == WithService(w, s, r)
<1>1. a \in ServiceRecords /\ w.svc \in [Service -> ServiceRecords]
  BY WorldTypes
<1>2. ThrottleFutureAutoConnects(w, s) = u
  BY <1>1, WorldTypes, ZenonT(60) DEF ThrottleFutureAutoConnects, WithService, Worlds, ServiceRecords
<1>3. a.cooldown \in 0..MaxCooldown /\ a.throttled \in BOOLEAN
  BY <1>1 DEF ServiceRecords
<1>4. (IF a.cooldown < MaxCooldown THEN a.cooldown + 1 ELSE a.cooldown)
         \in 0..MaxCooldown
  BY <1>3, CooldownAssumption
<1>5. /\ r \in ServiceRecords /\ r.conn = a.conn
      /\ r.connectable = a.connectable /\ r.ever = a.ever
      /\ r.state = a.state /\ r.auto = a.auto
      /\ r.explicit = a.explicit /\ (a.throttled => r.throttled)
  BY <1>1, <1>3, <1>4 DEF ServiceRecords
<1> HIDE DEF r
<1>6. Inside(w, u, s) /\ u.svc[s] = r /\ u.sort = w.sort
  BY <1>1, <1>5, ServiceChanges
<1>7. Still(w, u, s)
  BY <1>5, <1>6 DEF Still
<1> HIDE DEF u
<1>8. Moved(w, u) /\ Only(w, u, {s})
  BY <1>6, <1>7, InsideMoves
<1> QED BY <1>2, <1>5, <1>6, <1>8
-----------------------------------------------------------------------------
(***************************************************************************)
(* Devices.                                                                *)
(***************************************************************************)
\* A step at service s and its device.
Near(w, v, s) ==
  Moved(w, v) /\ Only(w, v, {s}) /\ v.lower = w.lower /\ v.query = w.query

\* Of device d, at most its detector has changed.
SameButPortal(w, v, d) ==
  /\ v.dev[d].selected = w.dev[d].selected /\ v.dev[d].ip = w.dev[d].ip
  /\ v.dev[d].conn = w.dev[d].conn /\ v.dev[d].default = w.dev[d].default

LEMMA DeviceOfService ==
  ASSUME NEW s \in Service
  PROVE  /\ DeviceOf[s] \in Device
         /\ \A t \in Service : DeviceOf[t] = DeviceOf[s] => t = s
  BY WiredAssumption DEF IsInjective

LEMMA NearIsReflexive ==
  ASSUME NEW w \in Worlds, NEW s \in Service
  PROVE  Near(w, w, s)
  BY MovedIsReflexive DEF Near, Only

LEMMA NearIsTransitive ==
  ASSUME NEW w, NEW u, NEW v, NEW s \in Service, Near(w, u, s), Near(u, v, s)
  PROVE  Near(w, v, s)
<1>1. Moved(w, v)
  BY MovedIsTransitive DEF Near
<1> QED BY <1>1 DEF Near, Only

LEMMA InsideIsNear ==
  ASSUME NEW w, NEW v, NEW s \in Service, Inside(w, v, s), Moved(w, v)
  PROVE  Near(w, v, s)
  BY DEF Near, Inside, Only

\* A world in which device d has become r.
WithDevice(w, d, r) == [w EXCEPT !.dev[d] = r]

LEMMA DeviceChanges ==
  ASSUME NEW w \in Worlds, NEW s \in Service, NEW d, d = DeviceOf[s],
         NEW r \in DeviceRecords,
         r.link = w.dev[d].link, r.running = w.dev[d].running
  PROVE  LET v == WithDevice(w, d, r)
         IN  /\ Near(w, v, s) /\ v.svc = w.svc /\ v.sort = w.sort
             /\ v.dev[d] = r
<1> DEFINE v == WithDevice(w, d, r)
<1>1. d \in Device
  BY DeviceOfService
<1>2. /\ v \in Worlds /\ v.svc = w.svc /\ v.sort = w.sort /\ v.list = w.list
      /\ v.suspending = w.suspending /\ v.published = w.published
      /\ v.lower = w.lower /\ v.query = w.query
      /\ v.dev = [w.dev EXCEPT ![d] = r]
  BY <1>1 DEF WithDevice, Worlds
<1>3. w.dev \in [Device -> DeviceRecords]
  BY WorldTypes
<1> HIDE DEF v
<1>4. Only(w, v, {s})
  BY <1>1, <1>2, <1>3 DEF Only
<1>5. Moved(w, v)
  BY <1>1, <1>2, <1>3 DEF Moved, Still
<1> QED BY <1>1, <1>2, <1>3, <1>4, <1>5 DEF Near, v

\* A service gets a connection, or loses it.
WithConnection(w, s, b) == [w EXCEPT !.svc[s].conn = b]

LEMMA ConnectionChanges ==
  ASSUME NEW w \in Worlds, NEW s \in Service, NEW b \in BOOLEAN
  PROVE  LET v == WithConnection(w, s, b)
         IN  /\ Near(w, v, s) /\ v.dev = w.dev /\ v.sort = w.sort
             /\ v.svc[s].conn = b
             /\ v.svc[s].state = w.svc[s].state /\ v.svc[s].ever = w.svc[s].ever
<1> DEFINE v == WithConnection(w, s, b)
           a == w.svc[s]
           r == [a EXCEPT !.conn = b]
<1>1. a \in ServiceRecords /\ w.svc \in [Service -> ServiceRecords]
  BY WorldTypes
<1>2. /\ r \in ServiceRecords /\ r.conn = b /\ r.connectable = a.connectable
      /\ r.state = a.state /\ r.ever = a.ever /\ r.auto = a.auto
      /\ r.explicit = a.explicit /\ r.throttled = a.throttled
  BY <1>1 DEF ServiceRecords
<1>3. /\ v.dev = w.dev /\ v.sort = w.sort /\ v.list = w.list
      /\ v.suspending = w.suspending /\ v.published = w.published
      /\ v.lower = w.lower /\ v.query = w.query
      /\ v.svc = [w.svc EXCEPT ![s] = r]
  BY DEF Worlds, WithConnection
<1> HIDE DEF r
<1>4. v \in Worlds
  <2>1. v = [w EXCEPT !.svc = [w.svc EXCEPT ![s] = r]]
    BY DEF r, WithConnection
  <2>2. [w.svc EXCEPT ![s] = r] \in [Service -> ServiceRecords]
    BY <1>1, <1>2
  <2> HIDE DEF v
  <2> QED BY <2>1, <2>2 DEF Worlds
<1> HIDE DEF v
<1>5. v.svc[s] = r /\ \A t \in Service \ {s} : v.svc[t] = w.svc[t]
  BY <1>1, <1>3
<1>6. \A t \in Service : Still(w, v, t)
  BY <1>2, <1>5 DEF Still
<1>7. Only(w, v, {s})
  BY <1>3, <1>5 DEF Only
<1>8. \A t \in Service : v.svc[t].connectable = w.svc[t].connectable
  BY <1>2, <1>5
<1>9. Moved(w, v)
  BY <1>3, <1>4, <1>6, <1>8 DEF Moved
<1> QED BY <1>2, <1>3, <1>5, <1>7, <1>9 DEF Near, v

\* A device gets another portal detector, or none.
WithPortal(w, d, p) == [w EXCEPT !.dev[d].portal = p]

LEMMA PortalChanges ==
  ASSUME NEW w \in Worlds, NEW s \in Service, NEW d, d = DeviceOf[s],
         NEW p \in {"none", "trying", "waiting"}
  PROVE  LET v == WithPortal(w, d, p)
         IN  /\ Near(w, v, s) /\ v.svc = w.svc /\ v.sort = w.sort
             /\ SameButPortal(w, v, d) /\ v.dev[d].portal = p
<1> DEFINE r == [w.dev[d] EXCEPT !.portal = p]
<1>1. w.dev[d] \in DeviceRecords
  BY WorldTypes, DeviceOfService
<1>2. /\ r \in DeviceRecords /\ r.link = w.dev[d].link
      /\ r.running = w.dev[d].running /\ r.selected = w.dev[d].selected
      /\ r.ip = w.dev[d].ip /\ r.conn = w.dev[d].conn
      /\ r.default = w.dev[d].default /\ r.portal = p
  BY <1>1 DEF DeviceRecords
<1> DEFINE v == WithDevice(w, d, r)
<1>3. WithPortal(w, d, p) = v
  BY DEF WithDevice, WithPortal
<1> HIDE DEF r
<1>4. Near(w, v, s) /\ v.svc = w.svc /\ v.sort = w.sort /\ v.dev[d] = r
  BY <1>2, DeviceChanges
<1> HIDE DEF v
<1> QED BY <1>2, <1>3, <1>4 DEF SameButPortal

LEMMA ConnectedStateIsSet ==
  ASSUME NEW w \in Worlds, NEW s \in Service, NEW d, d = DeviceOf[s],
         w.dev[d].selected \in {s, NoService}, NEW state \in {"online", "portal"}
  PROVE  LET v == SetServiceConnectedState(w, d, state)
         IN  /\ Near(w, v, s) /\ SameButPortal(w, v, d)
             /\ v.svc[s].conn = w.svc[s].conn
             /\ w.svc[s].ever => v.svc[s].ever
             /\ IF w.dev[d].selected = s /\ IsConnected(w.svc[s])
                THEN /\ v.svc[s].state = state
                     /\ v.dev[d].portal =
                          IF state = "portal" /\ w.dev[d].default /\ PortalRetry
                          THEN "waiting" ELSE "none"
                ELSE v = w
<1> DEFINE p == IF state = "portal" /\ w.dev[d].default /\ PortalRetry
                THEN "waiting" ELSE "none"
           u == WithPortal(w, d, p)
           v == SetState(u, s, state)
<1>1. NoService # s
  BY DeviceAssumption
<1>2. CASE w.dev[d].selected = s /\ IsConnected(w.svc[s])
  <2>1. SetServiceConnectedState(w, d, state) = v
    BY <1>1, <1>2 DEF SetServiceConnectedState, WithPortal
  <2>2. p \in {"none", "trying", "waiting"}
    OBVIOUS
  <2> HIDE DEF p
  <2>3. /\ Near(w, u, s) /\ u.svc = w.svc /\ SameButPortal(w, u, d)
        /\ u.dev[d].portal = p
    BY <2>2, PortalChanges
  <2>4. u \in Worlds /\ state \in ConnectStates
    BY <2>3 DEF Near, Moved, ConnectStates
  <2> HIDE DEF u
  <2>5. Inside(u, v, s) /\ Moved(u, v) /\ v.svc[s].state = state
    BY <2>4, StateIsSet
  <2> HIDE DEF v
  <2>6. Near(u, v, s) /\ v.dev = u.dev /\ v.svc[s].conn = u.svc[s].conn
        /\ (u.svc[s].ever => v.svc[s].ever)
    BY <2>5, InsideIsNear DEF Inside
  <2>7. Near(w, v, s)
    BY <2>3, <2>6, NearIsTransitive
  <2> QED BY <1>2, <2>1, <2>3, <2>5, <2>6, <2>7 DEF SameButPortal, p
<1>3. CASE ~(w.dev[d].selected = s /\ IsConnected(w.svc[s]))
  <2>1. SetServiceConnectedState(w, d, state) = w
    BY <1>3 DEF SetServiceConnectedState
  <2> QED BY <1>3, <2>1, NearIsReflexive DEF SameButPortal
<1> QED BY <1>2, <1>3

LEMMA DetectionStarts ==
  ASSUME NEW w \in Worlds, NEW s \in Service, NEW d, d = DeviceOf[s],
         w.dev[d].selected \in {s, NoService}
  PROVE  LET v == StartPortalDetection(w, d)
         IN  /\ Near(w, v, s) /\ SameButPortal(w, v, d)
             /\ v.svc[s].conn = w.svc[s].conn
             /\ w.svc[s].ever => v.svc[s].ever
             /\ \/ d \in PortalDevice /\ v.dev[d].portal = "trying" /\ v.svc = w.svc
                \/ /\ d \notin PortalDevice /\ w.dev[d].selected = s
                   /\ IsConnected(w.svc[s]) /\ v.svc[s].state = "online"
                \/ /\ d \notin PortalDevice /\ v = w
                   /\ ~(w.dev[d].selected = s /\ IsConnected(w.svc[s]))
<1>1. CASE d \in PortalDevice
  <2> DEFINE v == WithPortal(w, d, "trying")
  <2>1. StartPortalDetection(w, d) = v
    BY <1>1 DEF StartPortalDetection, WithPortal
  <2>2. /\ Near(w, v, s) /\ v.svc = w.svc /\ SameButPortal(w, v, d)
        /\ v.dev[d].portal = "trying"
    BY PortalChanges
  <2> HIDE DEF v
  <2> QED BY <1>1, <2>1, <2>2
<1>2. CASE d \notin PortalDevice
  BY <1>2, ConnectedStateIsSet DEF StartPortalDetection
<1> QED BY <1>1, <1>2

\* A service has a connection only as the selected one of its device.
Bound(w, s) ==
  /\ w.dev[DeviceOf[s]].selected \in {s, NoService}
  /\ w.svc[s].connectable
  /\ w.svc[s].conn => w.dev[DeviceOf[s]].selected = s

\* The default route is given to a service that has a connection, or taken.
LEMMA DefaultIsSet ==
  ASSUME NEW w \in Worlds, NEW s \in Service, NEW d, d = DeviceOf[s],
         w.dev[d].selected \in {s, NoService}, NEW b \in BOOLEAN
  PROVE  LET v == SetIsDefault(w, d, b)
         IN  /\ Near(w, v, s)
             /\ v.dev[d].default = b
             /\ v.dev[d].selected = w.dev[d].selected
             /\ v.dev[d].conn = w.dev[d].conn
             /\ v.svc[s].conn = w.svc[s].conn
             /\ w.svc[s].ever => v.svc[s].ever
             /\ \/ v.svc[s].state = w.svc[s].state
                \/ w.svc[s].state = "portal" /\ v.svc[s].state = "online"
             /\ b /\ v.svc[s].state = "portal" =>
                  \/ v.dev[d].portal # "none"
                  \/ w.dev[d].default /\ v.dev[d].portal = w.dev[d].portal
                  \/ ~(w.dev[d].selected = s /\ w.dev[d].conn)
<1> DEFINE r == [w.dev[d] EXCEPT !.default = b]
           u == WithDevice(w, d, r)
<1>1. w.dev[d] \in DeviceRecords /\ NoService # s
  BY WorldTypes, DeviceOfService, DeviceAssumption
<1>2. CASE w.dev[d].default = b
  <2>1. SetIsDefault(w, d, b) = w
    BY <1>2 DEF SetIsDefault
  <2> QED BY <1>2, <2>1, NearIsReflexive
<1>3. CASE w.dev[d].default # b
  <2>1. /\ r \in DeviceRecords /\ r.link = w.dev[d].link
        /\ r.running = w.dev[d].running /\ r.selected = w.dev[d].selected
        /\ r.conn = w.dev[d].conn /\ r.default = b /\ r.portal = w.dev[d].portal
    BY <1>1 DEF DeviceRecords
  <2>2. SetIsDefault(w, d, b) = IF b THEN RequestPortalDetection(u, d) ELSE u
    BY <1>3 DEF SetIsDefault, WithDevice
  <2> HIDE DEF r
  <2>3. Near(w, u, s) /\ u.svc = w.svc /\ u.dev[d] = r
    BY <2>1, DeviceChanges
  <2>4. u \in Worlds
    BY <2>3 DEF Near, Moved
  <2> HIDE DEF u
  <2> DEFINE v == StartPortalDetection(u, d)
             Asks == /\ u.dev[d].selected # NoService /\ u.dev[d].conn
                     /\ u.svc[u.dev[d].selected].state = "portal"
                     /\ u.dev[d].default /\ u.dev[d].portal # "trying"
  <2>5. RequestPortalDetection(u, d) = IF Asks THEN v ELSE u
    BY DEF RequestPortalDetection
  <2>6. /\ Near(u, v, s) /\ SameButPortal(u, v, d)
        /\ v.svc[s].conn = u.svc[s].conn
        /\ u.svc[s].ever => v.svc[s].ever
        /\ \/ d \in PortalDevice /\ v.dev[d].portal = "trying" /\ v.svc = u.svc
           \/ /\ d \notin PortalDevice /\ u.dev[d].selected = s
              /\ IsConnected(u.svc[s]) /\ v.svc[s].state = "online"
           \/ /\ d \notin PortalDevice /\ v = u
              /\ ~(u.dev[d].selected = s /\ IsConnected(u.svc[s]))
    BY <2>1, <2>3, <2>4, DetectionStarts
  <2>7. "portal" \in ConnectedStates
    BY DEF ConnectedStates
  <2> HIDE DEF v
  <2>8. CASE b /\ Asks
    <3>1. Near(w, v, s)
      BY <2>3, <2>6, NearIsTransitive
    <3>2. u.dev[d].selected = s /\ IsConnected(u.svc[s]) /\ u.svc[s].state = "portal"
      BY <2>1, <2>3, <2>7, <2>8 DEF IsConnected
    <3>3. SetIsDefault(w, d, b) = v
      BY <2>2, <2>5, <2>8
    <3> HIDE DEF Asks
    <3> QED BY <2>1, <2>3, <2>6, <3>1, <3>2, <3>3 DEF SameButPortal
  <2>9. CASE ~(b /\ Asks)
    <3>1. SetIsDefault(w, d, b) = u
      BY <2>2, <2>5, <2>9
    <3> QED BY <1>1, <2>1, <2>3, <2>9, <3>1
  <2> QED BY <2>8, <2>9
<1> QED BY <1>2, <1>3

LEMMA ServiceIsDeselected ==
  ASSUME NEW w \in Worlds, NEW s \in Service, NEW d, d = DeviceOf[s],
         w.dev[d].selected \in {s, NoService}
  PROVE  LET v == SelectService(w, d, NoService)
         IN  /\ Near(w, v, s)
             /\ v.dev[d].selected = NoService
             /\ v.dev[d].default = w.dev[d].default
             /\ v.dev[d].conn = w.dev[d].conn
             /\ IF w.dev[d].selected = s
                THEN /\ ~v.svc[s].conn
                     /\ v.svc[s].state = IF w.svc[s].state = "failure" THEN "failure"
                                         ELSE "idle"
                ELSE v = w
<1>1. NoService # s
  BY DeviceAssumption
<1>2. CASE w.dev[d].selected = NoService
  <2>1. SelectService(w, d, NoService) = w
    BY <1>2 DEF SelectService
  <2> QED BY <1>1, <1>2, <2>1, NearIsReflexive
<1>3. CASE w.dev[d].selected = s
  <2> DEFINE v == IF w.svc[s].state = "failure" THEN w ELSE SetState(w, s, "idle")
             y == WithConnection(v, s, FALSE)
             z == WithPortal(y, d, "none")
             r == [z.dev[d] EXCEPT !.selected = NoService]
             x == WithDevice(z, d, r)
  <2>1. SelectService(w, d, NoService) = x
    BY <1>1, <1>3 DEF SelectService, StopPortalDetection, WithConnection, WithPortal,
       WithDevice
  <2>2. /\ Near(w, v, s) /\ v.dev = w.dev
        /\ v.svc[s].state = IF w.svc[s].state = "failure" THEN "failure" ELSE "idle"
    <3>1. CASE w.svc[s].state = "failure"
      BY <3>1, NearIsReflexive
    <3>2. CASE w.svc[s].state # "failure"
      <4>1. "idle" \in ConnectStates
        BY DEF ConnectStates
      <4>2. Inside(w, v, s) /\ Moved(w, v) /\ v.svc[s].state = "idle"
        BY <3>2, <4>1, StateIsSet
      <4> HIDE DEF v
      <4> QED BY <3>2, <4>2, InsideIsNear DEF Inside
    <3> QED BY <3>1, <3>2
  <2>3. v \in Worlds
    BY <2>2 DEF Near, Moved
  <2> HIDE DEF v
  <2>4. /\ Near(v, y, s) /\ y.dev = v.dev /\ ~y.svc[s].conn
        /\ y.svc[s].state = v.svc[s].state
    BY <2>3, ConnectionChanges
  <2>5. y \in Worlds
    BY <2>4 DEF Near, Moved
  <2> HIDE DEF y
  <2>6. Near(y, z, s) /\ z.svc = y.svc /\ SameButPortal(y, z, d)
    BY <2>5, PortalChanges
  <2>7. z \in Worlds
    BY <2>6 DEF Near, Moved
  <2> HIDE DEF z
  <2>8. /\ r \in DeviceRecords /\ r.link = z.dev[d].link
        /\ r.running = z.dev[d].running /\ r.selected = NoService
        /\ r.conn = z.dev[d].conn /\ r.default = z.dev[d].default
    <3>1. z.dev[d] \in DeviceRecords
      BY <2>7, WorldTypes, DeviceOfService
    <3> QED BY <3>1 DEF DeviceRecords
  <2> HIDE DEF r
  <2>9. Near(z, x, s) /\ x.svc = z.svc /\ x.dev[d] = r
    BY <2>7, <2>8, DeviceChanges
  <2> HIDE DEF x
  <2>10. Near(w, x, s)
    <3>1. Near(w, y, s)
      BY <2>2, <2>4, NearIsTransitive
    <3>2. Near(w, z, s)
      BY <2>6, <3>1, NearIsTransitive
    <3> QED BY <2>9, <3>2, NearIsTransitive
  <2> QED BY <1>3, <2>1, <2>2, <2>4, <2>6, <2>8, <2>9, <2>10 DEF SameButPortal
<1> QED BY <1>2, <1>3

LEMMA ServiceIsSelected ==
  ASSUME NEW w \in Worlds, NEW s \in Service, NEW d, d = DeviceOf[s],
         w.dev[d].selected \in {s, NoService}
  PROVE  LET v == SelectService(w, d, s)
         IN  /\ Near(w, v, s) /\ v.svc = w.svc /\ v.sort = w.sort
             /\ v.dev[d].selected = s
             /\ v.dev[d].default = w.dev[d].default
             /\ v.dev[d].conn = w.dev[d].conn
             /\ v.dev[d].portal = w.dev[d].portal
<1> DEFINE r == [w.dev[d] EXCEPT !.selected = s]
           v == WithDevice(w, d, r)
<1>1. NoService # s /\ w.dev[d] \in DeviceRecords
  BY WorldTypes, DeviceOfService, DeviceAssumption
<1>2. CASE w.dev[d].selected = s
  <2>1. SelectService(w, d, s) = w
    BY <1>2 DEF SelectService
  <2> QED BY <1>2, <2>1, NearIsReflexive
<1>3. CASE w.dev[d].selected = NoService
  <2>1. SelectService(w, d, s) = v
    BY <1>1, <1>3 DEF SelectService, WithDevice
  <2>2. /\ r \in DeviceRecords /\ r.link = w.dev[d].link
        /\ r.running = w.dev[d].running /\ r.selected = s
        /\ r.conn = w.dev[d].conn /\ r.default = w.dev[d].default
        /\ r.portal = w.dev[d].portal
    BY <1>1 DEF DeviceRecords
  <2> HIDE DEF r
  <2>3. Near(w, v, s) /\ v.svc = w.svc /\ v.sort = w.sort /\ v.dev[d] = r
    BY <2>2, DeviceChanges
  <2> HIDE DEF v
  <2> QED BY <2>1, <2>2, <2>3
<1> QED BY <1>2, <1>3

LEMMA ConnectionIsReleased ==
  ASSUME NEW w \in Worlds, NEW s \in Service, NEW d, d = DeviceOf[s],
         w.dev[d].selected \in {s, NoService}
  PROVE  LET v == ReleaseConnection(w, d)
         IN  /\ Near(w, v, s) /\ v.sort = w.sort
             /\ v.dev[d].selected = w.dev[d].selected
             /\ ~v.dev[d].conn /\ ~v.dev[d].default
             /\ v.svc[s].state = w.svc[s].state /\ v.svc[s].ever = w.svc[s].ever
             /\ w.dev[d].selected = s => ~v.svc[s].conn
             /\ w.dev[d].selected # s => v.svc[s].conn = w.svc[s].conn
<1> DEFINE u == WithPortal(w, d, "none")
           r == [u.dev[d] EXCEPT !.conn = FALSE, !.default = FALSE]
           v == WithDevice(u, d, r)
           x == WithConnection(v, s, FALSE)
<1>1. NoService # s
  BY DeviceAssumption
<1>2. ReleaseConnection(w, d) = IF w.dev[d].selected = NoService THEN v ELSE x
  <2>1. CASE w.dev[d].selected = NoService
    BY <2>1 DEF ReleaseConnection, StopPortalDetection, WithPortal, WithDevice
  <2>2. CASE w.dev[d].selected = s
    BY <1>1, <2>2 DEF ReleaseConnection, StopPortalDetection, WithPortal, WithDevice,
       WithConnection
  <2> QED BY <2>1, <2>2
<1>3. Near(w, u, s) /\ u.svc = w.svc /\ u.sort = w.sort /\ SameButPortal(w, u, d)
  BY PortalChanges
<1>4. u \in Worlds
  BY <1>3 DEF Near, Moved
<1> HIDE DEF u
<1>5. /\ r \in DeviceRecords /\ r.link = u.dev[d].link
      /\ r.running = u.dev[d].running /\ r.selected = u.dev[d].selected
      /\ ~r.conn /\ ~r.default
  <2>1. u.dev[d] \in DeviceRecords
    BY <1>4, WorldTypes, DeviceOfService
  <2> QED BY <2>1 DEF DeviceRecords
<1> HIDE DEF r
<1>6. Near(u, v, s) /\ v.svc = u.svc /\ v.sort = u.sort /\ v.dev[d] = r
  BY <1>4, <1>5, DeviceChanges
<1>7. v \in Worlds
  BY <1>6 DEF Near, Moved
<1> HIDE DEF v
<1>8. Near(w, v, s)
  BY <1>3, <1>6, NearIsTransitive
<1>9. /\ Near(v, x, s) /\ x.dev = v.dev /\ x.sort = v.sort /\ ~x.svc[s].conn
      /\ x.svc[s].state = v.svc[s].state /\ x.svc[s].ever = v.svc[s].ever
  BY <1>7, ConnectionChanges, ZenonT(60)
<1> HIDE DEF x
<1>11. Near(w, x, s)
  BY <1>8, <1>9, NearIsTransitive
<1> QED
  BY <1>1, <1>2, <1>3, <1>5, <1>6, <1>8, <1>9, <1>11 DEF SameButPortal

\* A device asks for another configuration, or has none.
WithIp(w, d, ip) == [w EXCEPT !.dev[d].ip = ip]

LEMMA IpChanges ==
  ASSUME NEW w \in Worlds, NEW s \in Service, NEW d, d = DeviceOf[s],
         NEW ip \in {"none", "requested", "bound"}
  PROVE  LET v == WithIp(w, d, ip)
         IN  /\ Near(w, v, s) /\ v.svc = w.svc /\ v.sort = w.sort
             /\ v.dev[d].selected = w.dev[d].selected
             /\ v.dev[d].conn = w.dev[d].conn
             /\ v.dev[d].default = w.dev[d].default
             /\ v.dev[d].portal = w.dev[d].portal
<1> DEFINE r == [w.dev[d] EXCEPT !.ip = ip]
           v == WithDevice(w, d, r)
<1>1. w.dev[d] \in DeviceRecords
  BY WorldTypes, DeviceOfService
<1>2. /\ r \in DeviceRecords /\ r.link = w.dev[d].link
      /\ r.running = w.dev[d].running /\ r.selected = w.dev[d].selected
      /\ r.conn = w.dev[d].conn /\ r.default = w.dev[d].default
      /\ r.portal = w.dev[d].portal
  BY <1>1 DEF DeviceRecords
<1>3. WithIp(w, d, ip) = v
  BY DEF WithDevice, WithIp
<1> HIDE DEF r
<1>4. Near(w, v, s) /\ v.svc = w.svc /\ v.sort = w.sort /\ v.dev[d] = r
  BY <1>2, DeviceChanges
<1> HIDE DEF v
<1> QED BY <1>2, <1>3, <1>4

LEMMA VpnOfService ==
  /\ VpnService \in Service /\ VpnDevice = DeviceOf[VpnService]
  /\ \A s \in Wired : s \in Service /\ s # VpnService /\ DeviceOf[s] # VpnDevice
  /\ \A s \in Service : s \notin Vpn => s \in Wired
  /\ Vpn = {VpnService} /\ VpnDevice \in Device /\ VpnDevice \notin PortalDevice
  BY VpnAssumption, DeviceAssumption, WiredAssumption DEF Wired, IsInjective

\* The VPN's connection is bound to none, and waits for no route.
Unbound(w) == [w EXCEPT !.lower = NoDevice, !.query = FALSE]

LEMMA UnboundMoves ==
  ASSUME NEW w \in Worlds
  PROVE  LET v == Unbound(w)
         IN  /\ Moved(w, v) /\ v.svc = w.svc /\ v.dev = w.dev /\ v.sort = w.sort
             /\ v.lower = NoDevice /\ v.query = FALSE
  BY DEF Unbound, Worlds, Moved, Still

\* Cleanup leaves no connection of the VPN, whatever there was.
LEMMA VpnIsCleanedUp ==
  ASSUME NEW w \in Worlds, Bound(w, VpnService), NEW state \in {"idle", "failure"}
  PROVE  LET v == CleanupVpn(w, state)
         IN  /\ Moved(w, v) /\ Only(w, v, {VpnService})
             /\ v.lower = NoDevice /\ ~v.query
             /\ Agrees(v, VpnService)
             /\ v.svc[VpnService].state \in {"idle", "failure"}
             /\ IsActive(w.svc[VpnService]) => v.svc[VpnService].state = state
<1> DEFINE s == VpnService
           a == WithIp(w, VpnDevice, "none")
           b == ReleaseConnection(a, VpnDevice)
           c == SelectService(b, VpnDevice, NoService)
           u == Unbound(c)
           v == IF ~IsActive(w.svc[s]) THEN u
                ELSE IF state = "failure" THEN SetFailure(u, s)
                ELSE SetState(u, s, "idle")
<1>1. s \in Service /\ VpnDevice = DeviceOf[s] /\ NoService # s
  BY VpnOfService, DeviceAssumption
<1>2. CleanupVpn(w, state) = v
  BY DEF CleanupVpn, WithIp, Unbound
<1>3. /\ Near(w, a, s) /\ a.svc = w.svc
      /\ a.dev[VpnDevice].selected = w.dev[VpnDevice].selected
  BY <1>1, IpChanges
<1>4. a \in Worlds /\ a.dev[VpnDevice].selected \in {s, NoService}
  BY <1>1, <1>3 DEF Near, Moved, Bound
<1> HIDE DEF a
<1>5. /\ Near(a, b, s)
      /\ b.dev[VpnDevice].selected = a.dev[VpnDevice].selected
      /\ ~b.dev[VpnDevice].conn /\ ~b.dev[VpnDevice].default
      /\ b.svc[s].state = a.svc[s].state
      /\ a.dev[VpnDevice].selected = s => ~b.svc[s].conn
      /\ a.dev[VpnDevice].selected # s => b.svc[s].conn = a.svc[s].conn
  BY <1>1, <1>4, ConnectionIsReleased
<1>6. b \in Worlds
  BY <1>5 DEF Near, Moved
<1> HIDE DEF b
<1>7. ~b.svc[s].conn
  BY <1>1, <1>3, <1>5 DEF Bound
<1>8. /\ Near(b, c, s) /\ c.dev[VpnDevice].selected = NoService
      /\ c.dev[VpnDevice].default = b.dev[VpnDevice].default
      /\ IF b.dev[VpnDevice].selected = s
         THEN /\ ~c.svc[s].conn
              /\ c.svc[s].state = IF b.svc[s].state = "failure" THEN "failure"
                                  ELSE "idle"
         ELSE c = b
  BY <1>1, <1>4, <1>5, <1>6, ServiceIsDeselected
<1>9. c \in Worlds
  BY <1>8 DEF Near, Moved
<1> HIDE DEF c
<1>10. Near(w, c, s)
  <2>1. Near(w, b, s)
    BY <1>1, <1>3, <1>5, NearIsTransitive
  <2> QED BY <1>1, <1>8, <2>1, NearIsTransitive
<1>11. /\ Moved(c, u) /\ u.svc = c.svc /\ u.dev = c.dev
       /\ u.lower = NoDevice /\ u.query = FALSE
  BY <1>9, UnboundMoves
<1>12. u \in Worlds
  BY <1>11 DEF Moved
<1> HIDE DEF u
<1>13. /\ Near(u, v, s) /\ v.dev = u.dev /\ v.svc[s].conn = u.svc[s].conn
       /\ v.svc[s].state = IF IsActive(w.svc[s]) THEN state ELSE u.svc[s].state
  <2>1. CASE ~IsActive(w.svc[s])
    BY <1>1, <1>12, <2>1, NearIsReflexive
  <2>2. CASE IsActive(w.svc[s]) /\ state = "failure"
    BY <1>1, <1>12, <2>2, FailureIsSet, InsideIsNear DEF Inside
  <2>3. CASE IsActive(w.svc[s]) /\ state = "idle"
    <3> DEFINE x == SetState(u, s, state)
    <3>1. state \in ConnectStates
      BY DEF ConnectStates
    <3>2. v = x
      BY <2>3
    <3>3. Inside(u, x, s) /\ Moved(u, x) /\ x.svc[s].state = state
      BY <1>1, <1>12, <3>1, StateIsSet, ZenonT(60)
    <3> HIDE DEF v, x
    <3> QED BY <1>1, <2>3, <3>2, <3>3, InsideIsNear DEF Inside
  <2> QED BY <2>1, <2>2, <2>3
<1> HIDE DEF v
<1>14. Moved(w, v) /\ Only(w, v, {s})
  <2>1. Moved(w, u)
    BY <1>10, <1>11, MovedIsTransitive DEF Near
  <2>2. Moved(w, v)
    BY <1>13, <2>1, MovedIsTransitive DEF Near
  <2>3. Only(w, c, {s})
    BY <1>10 DEF Near
  <2> QED BY <1>11, <1>13, <2>2, <2>3 DEF Only, Near
<1>15. v.svc[s].state \in {"idle", "failure"} /\ ~v.svc[s].conn
  BY <1>3, <1>5, <1>7, <1>8, <1>11, <1>13 DEF IsActive
<1>16. Agrees(v, s)
  <2>1. ~v.dev[VpnDevice].default /\ v.dev[VpnDevice].selected = NoService
    BY <1>5, <1>8, <1>11, <1>13
  <2>2. v.svc[s].connectable
    BY <1>1, <1>14 DEF Moved, Bound
  <2> QED BY <1>1, <1>15, <2>1, <2>2 DEF Agrees, Attuned, IsConnected, ConnectedStates
<1> QED BY <1>2, <1>11, <1>13, <1>14, <1>15, <1>16 DEF Near
-----------------------------------------------------------------------------
(***************************************************************************)
(* Connecting and disconnecting.                                           *)
(***************************************************************************)
\* Everything is sound but for what service s and its device make of each other.
Loose(w, s) ==
  /\ w \in Worlds /\ Bound(w, s)
  /\ \A t \in Service \ {s} : Agrees(w, t)
  /\ Carried(w) /\ Published(w) /\ Unowned(w)

\* No service gains a connection, and none that keeps it loses the default route.
Kept(w, v) ==
  \A s \in Service : v.svc[s].conn =>
    /\ w.svc[s].conn
    /\ w.dev[DeviceOf[s]].default => v.dev[DeviceOf[s]].default

LEMMA KeptIsTransitive ==
  ASSUME NEW w, NEW u, NEW v, Kept(w, u), Kept(u, v)
  PROVE  Kept(w, v)
  BY DEF Kept

LEMMA FrameIsKept ==
  ASSUME NEW w, NEW v, NEW S \in SUBSET Service, Moved(w, v), Only(w, v, S),
         NEW t \in Service \ S, Agrees(w, t)
  PROVE  Agrees(v, t)
<1>1. v.svc[t] = w.svc[t] /\ v.dev[DeviceOf[t]] = w.dev[DeviceOf[t]]
  BY DeviceOfService DEF Only
<1>2. v.list = w.list
  BY DEF Moved
<1> QED BY <1>1, <1>2 DEF Agrees, Attuned

LEMMA RestIsKept ==
  ASSUME NEW w, NEW v, NEW S \in SUBSET Service, Moved(w, v), Only(w, v, S),
         Published(w), Unowned(w)
  PROVE  Published(v) /\ Unowned(v)
<1>1. Published(v)
  BY DEF Published, Moved
<1>2. ASSUME NEW d \in Device, \A s \in Service : d # DeviceOf[s]
      PROVE  ~v.dev[d].default
  <2>1. v.dev[d] = w.dev[d]
    BY <1>2 DEF Only
  <2> QED BY <1>2, <2>1 DEF Unowned
<1> QED BY <1>1, <1>2 DEF Unowned

LEMMA EnlistedIsKept ==
  ASSUME NEW w, NEW v, Moved(w, v), Enlisted(w)
  PROVE  Enlisted(v)
  BY VpnOfService, DeviceOfService DEF Enlisted, Moved

LEMMA SoundIsLoose ==
  ASSUME NEW w, NEW s \in Service, Sound(w)
  PROVE  Loose(w, s)
  BY DEF Sound, Loose, Bound, Agrees, Attuned

LEMMA LooseIsSound ==
  ASSUME NEW w, NEW s \in Service, Loose(w, s), Agrees(w, s)
  PROVE  Sound(w)
  BY DEF Sound, Loose

LEMMA NearIsCarried ==
  ASSUME NEW w \in Worlds, NEW v, NEW s \in Service, Near(w, v, s), Carried(w),
         w.dev[DeviceOf[s]].conn => v.dev[DeviceOf[s]].conn,
         w.svc[s].conn => v.svc[s].conn
  PROVE  Carried(v)
<1>1. v.lower = w.lower /\ v.query = w.query
  BY DEF Near
<1>2. ASSUME w.lower # NoDevice PROVE v.dev[w.lower].conn
  <2>1. w.lower \in Device /\ w.dev[w.lower].conn
    BY <1>2, WorldTypes DEF Carried
  <2>2. w.lower # DeviceOf[s] => v.dev[w.lower] = w.dev[w.lower]
    BY <2>1 DEF Near, Only
  <2> QED BY <2>1, <2>2
<1>3. w.svc[VpnService].conn => v.svc[VpnService].conn
  BY VpnOfService DEF Near, Only
<1> QED BY <1>1, <1>2, <1>3 DEF Carried

LEMMA LooseIsKept ==
  ASSUME NEW w, NEW v, NEW s \in Service, Loose(w, s), Near(w, v, s), Bound(v, s),
         Carried(v)
  PROVE  Loose(v, s)
<1>1. Moved(w, v) /\ Only(w, v, {s}) /\ v \in Worlds
  BY DEF Near, Moved
<1>2. \A t \in Service \ {s} : Agrees(v, t)
  BY <1>1, FrameIsKept DEF Loose
<1>3. Published(v) /\ Unowned(v)
  BY <1>1, RestIsKept DEF Loose
<1> QED BY <1>1, <1>2, <1>3 DEF Loose

\* A step at s and its device that neither makes nor breaks a connection.
LEMMA NearIsLoose ==
  ASSUME NEW w, NEW v, NEW s \in Service, Loose(w, s), Near(w, v, s),
         v.dev[DeviceOf[s]].selected = w.dev[DeviceOf[s]].selected,
         v.dev[DeviceOf[s]].conn = w.dev[DeviceOf[s]].conn,
         v.svc[s].conn = w.svc[s].conn
  PROVE  Loose(v, s)
<1>1. w \in Worlds /\ Carried(w)
  BY DEF Loose
<1>2. Carried(v)
  BY <1>1, NearIsCarried
<1>3. Bound(v, s)
  BY DEF Bound, Loose, Near, Moved
<1> QED BY <1>2, <1>3, LooseIsKept

LEMMA NearIsKept ==
  ASSUME NEW w, NEW v, NEW s \in Service, Near(w, v, s),
         v.svc[s].conn =>
           /\ w.svc[s].conn
           /\ w.dev[DeviceOf[s]].default => v.dev[DeviceOf[s]].default
  PROVE  Kept(w, v)
<1>1. ASSUME NEW t \in Service \ {s}
      PROVE  v.svc[t] = w.svc[t] /\ v.dev[DeviceOf[t]] = w.dev[DeviceOf[t]]
  BY DeviceOfService DEF Near, Only
<1> QED BY <1>1 DEF Kept

\* The destructor of a connection leaves none behind, nor a VPN over it.
LEMMA ConnectionIsDestroyed ==
  ASSUME NEW w, NEW s \in Wired, NEW d, d = DeviceOf[s], Loose(w, s)
  PROVE  LET v == DestroyConnection(w, d)
         IN  /\ Loose(v, s) /\ Moved(w, v) /\ Kept(w, v)
             /\ v.dev[d].selected = w.dev[d].selected
             /\ ~v.dev[d].conn /\ ~v.dev[d].default /\ ~v.svc[s].conn
             /\ v.svc[s].state = w.svc[s].state
<1> DEFINE v == ReleaseConnection(w, d)
           x == CleanupVpn(v, "idle")
<1>1. /\ s \in Service /\ s # VpnService /\ d # VpnDevice /\ d \in Device
      /\ VpnService \in Service /\ VpnDevice = DeviceOf[VpnService]
  BY VpnOfService, DeviceOfService
<1>2. /\ w \in Worlds /\ w.dev[d].selected \in {s, NoService}
      /\ (w.svc[s].conn => w.dev[d].selected = s)
  BY DEF Loose, Bound
<1>3. /\ Near(w, v, s)
      /\ v.dev[d].selected = w.dev[d].selected
      /\ ~v.dev[d].conn /\ ~v.dev[d].default
      /\ v.svc[s].state = w.svc[s].state
      /\ w.dev[d].selected = s => ~v.svc[s].conn
      /\ w.dev[d].selected # s => v.svc[s].conn = w.svc[s].conn
  BY <1>1, <1>2, ConnectionIsReleased
<1>4. DestroyConnection(w, d) = IF w.dev[d].conn /\ w.lower = d THEN x ELSE v
  BY DEF DestroyConnection
<1> HIDE DEF v
<1>5. ~v.svc[s].conn
  BY <1>2, <1>3
<1>6. Moved(w, v) /\ Only(w, v, {s}) /\ v \in Worlds /\ Bound(v, s)
  BY <1>1, <1>2, <1>3, <1>5 DEF Near, Moved, Bound, Loose
<1>7. Kept(w, v)
  BY <1>1, <1>3, <1>5, NearIsKept
<1>8. \A t \in Service \ {s} : Agrees(v, t)
  BY <1>1, <1>6, FrameIsKept DEF Loose
<1>9. Published(v) /\ Unowned(v)
  BY <1>1, <1>6, RestIsKept DEF Loose
<1>10. CASE w.dev[d].conn /\ w.lower = d
  <2>1. Agrees(v, VpnService) /\ Bound(v, VpnService)
    BY <1>1, <1>8 DEF Agrees, Attuned, Bound
  <2>2. /\ Moved(v, x) /\ Only(v, x, {VpnService})
        /\ x.lower = NoDevice /\ ~x.query
        /\ Agrees(x, VpnService) /\ x.svc[VpnService].state \in {"idle", "failure"}
    BY <1>6, <2>1, VpnIsCleanedUp
  <2> HIDE DEF x
  <2>3. \A t \in Service \ {s} : Agrees(x, t)
    BY <1>1, <1>8, <2>2, FrameIsKept
  <2>4. Published(x) /\ Unowned(x) /\ Carried(x)
    BY <1>1, <1>9, <2>2, RestIsKept DEF Carried
  <2>5. x.svc[s] = v.svc[s] /\ x.dev[d] = v.dev[d]
    BY <1>1, <2>2 DEF Only
  <2>6. ~x.svc[VpnService].conn
    BY <2>2 DEF Agrees, Attuned, IsConnected, ConnectedStates
  <2>7. Kept(v, x)
    <3>1. ASSUME NEW t \in Service \ {VpnService}
          PROVE  x.svc[t] = v.svc[t] /\ x.dev[DeviceOf[t]] = v.dev[DeviceOf[t]]
      BY <1>1, <2>2, DeviceOfService DEF Only
    <3> QED BY <2>6, <3>1 DEF Kept
  <2>8. Moved(w, x) /\ Kept(w, x) /\ x \in Worlds
    <3>1. Moved(w, x)
      BY <1>6, <2>2, MovedIsTransitive
    <3>2. Kept(w, x)
      BY <1>7, <2>7, KeptIsTransitive
    <3> QED BY <3>1, <3>2 DEF Moved
  <2>9. Bound(x, s)
    BY <1>1, <1>6, <2>2, <2>5 DEF Bound, Moved
  <2>10. Loose(x, s)
    BY <2>3, <2>4, <2>8, <2>9 DEF Loose
  <2> QED BY <1>3, <1>4, <1>5, <1>10, <2>5, <2>8, <2>10
<1>11. CASE ~(w.dev[d].conn /\ w.lower = d)
  <2>1. Carried(v)
    <3>1. v.lower = w.lower /\ v.query = w.query /\ v.svc[VpnService] = w.svc[VpnService]
      BY <1>1, <1>3 DEF Near, Only
    <3>2. ASSUME w.lower # NoDevice PROVE v.dev[w.lower].conn
      <4>1. w.lower \in Device /\ w.dev[w.lower].conn
        BY <1>2, <3>2, WorldTypes DEF Carried, Loose
      <4>2. v.dev[w.lower] = w.dev[w.lower]
        BY <1>3, <1>11, <4>1 DEF Near, Only
      <4> QED BY <4>1, <4>2
    <3> QED BY <3>1, <3>2 DEF Carried, Loose
  <2>2. Loose(v, s)
    BY <1>6, <1>8, <1>9, <2>1 DEF Loose
  <2> QED BY <1>3, <1>4, <1>5, <1>6, <1>7, <1>11, <2>2
<1> QED BY <1>10, <1>11

LEMMA ConfigIsDestroyed ==
  ASSUME NEW w, NEW s \in Wired, NEW d, d = DeviceOf[s], Loose(w, s)
  PROVE  LET v == DestroyIPConfig(w, d)
         IN  /\ Loose(v, s) /\ Moved(w, v) /\ Kept(w, v)
             /\ v.dev[d].selected = w.dev[d].selected
             /\ ~v.dev[d].conn /\ ~v.dev[d].default /\ ~v.svc[s].conn
             /\ v.svc[s].state = w.svc[s].state
<1> DEFINE u == WithIp(w, d, "none")
           v == DestroyConnection(u, d)
<1>1. DestroyIPConfig(w, d) = v
  BY DEF DestroyIPConfig, WithIp
<1>2. s \in Service /\ w \in Worlds
  BY VpnOfService DEF Loose
<1>3. /\ Near(w, u, s) /\ u.svc = w.svc
      /\ u.dev[d].selected = w.dev[d].selected
      /\ u.dev[d].conn = w.dev[d].conn
      /\ u.dev[d].default = w.dev[d].default
  BY <1>2, IpChanges
<1> HIDE DEF u
<1>4. Loose(u, s) /\ Kept(w, u)
  BY <1>2, <1>3, NearIsLoose, NearIsKept
<1>5. /\ Loose(v, s) /\ Moved(u, v) /\ Kept(u, v)
      /\ v.dev[d].selected = u.dev[d].selected
      /\ ~v.dev[d].conn /\ ~v.dev[d].default /\ ~v.svc[s].conn
      /\ v.svc[s].state = u.svc[s].state
  BY <1>4, ConnectionIsDestroyed
<1> HIDE DEF v
<1>6. Moved(w, v) /\ Kept(w, v)
  BY <1>3, <1>4, <1>5, MovedIsTransitive, KeptIsTransitive DEF Near
<1> QED BY <1>1, <1>3, <1>5, <1>6

LEMMA ConnectionIsDropped ==
  ASSUME NEW w, NEW s \in Wired, NEW d, d = DeviceOf[s], Sound(w)
  PROVE  LET v == DropConnection(w, d)
         IN  /\ Sound(v) /\ Moved(w, v) /\ Kept(w, v)
             /\ v.dev[d].selected = NoService
             /\ ~v.dev[d].conn /\ ~v.dev[d].default /\ ~v.svc[s].conn
<1> DEFINE u == DestroyIPConfig(w, d)
           v == SelectService(u, d, NoService)
<1>1. DropConnection(w, d) = v
  BY DEF DropConnection
<1>2. s \in Service /\ NoService # s /\ Loose(w, s) /\ Agrees(w, s)
  BY VpnOfService, SoundIsLoose, DeviceAssumption DEF Sound
<1>3. /\ Loose(u, s) /\ Moved(w, u) /\ Kept(w, u)
      /\ u.dev[d].selected = w.dev[d].selected
      /\ ~u.dev[d].conn /\ ~u.dev[d].default /\ ~u.svc[s].conn
      /\ u.svc[s].state = w.svc[s].state
  BY <1>2, ConfigIsDestroyed
<1> HIDE DEF u
<1>4. u \in Worlds /\ u.dev[d].selected \in {s, NoService} /\ Carried(u)
  BY <1>3 DEF Loose, Bound
<1>5. /\ Near(u, v, s)
      /\ v.dev[d].selected = NoService
      /\ v.dev[d].default = u.dev[d].default
      /\ v.dev[d].conn = u.dev[d].conn
      /\ IF u.dev[d].selected = s
         THEN /\ ~v.svc[s].conn
              /\ v.svc[s].state = IF u.svc[s].state = "failure" THEN "failure"
                                  ELSE "idle"
         ELSE v = u
  BY <1>2, <1>4, ServiceIsDeselected
<1> HIDE DEF v
<1>6. ~v.svc[s].conn
  BY <1>3, <1>5
<1>7. Carried(v)
  BY <1>2, <1>3, <1>4, <1>5, NearIsCarried
<1>8. Bound(v, s)
  BY <1>2, <1>3, <1>5, <1>6 DEF Bound, Loose, Near, Moved
<1>9. Loose(v, s)
  BY <1>2, <1>3, <1>5, <1>7, <1>8, LooseIsKept
<1>10. ~IsConnected(v.svc[s])
  <2>1. CASE u.dev[d].selected = s
    BY <1>5, <2>1 DEF IsConnected, ConnectedStates
  <2>2. CASE u.dev[d].selected # s
    <3>1. ~IsConnected(w.svc[s])
      BY <1>2, <1>3, <2>2 DEF Agrees, Attuned
    <3> QED BY <1>3, <1>5, <2>2, <3>1 DEF IsConnected
  <2> QED BY <2>1, <2>2
<1>11. Agrees(v, s)
  BY <1>2, <1>3, <1>5, <1>6, <1>8, <1>10, VpnOfService DEF Agrees, Attuned, Bound
<1>12. Sound(v)
  BY <1>2, <1>9, <1>11, LooseIsSound
<1>13. Kept(u, v)
  BY <1>2, <1>5, <1>6, NearIsKept
<1>14. Moved(w, v) /\ Kept(w, v)
  BY <1>3, <1>5, <1>13, MovedIsTransitive, KeptIsTransitive DEF Near
<1> QED BY <1>1, <1>3, <1>5, <1>6, <1>12, <1>14

LEMMA ConfigIsAcquired ==
  ASSUME NEW w, NEW s \in Wired, NEW d, d = DeviceOf[s], Loose(w, s)
  PROVE  LET v == AcquireIPConfig(w, d)
         IN  /\ Loose(v, s) /\ Moved(w, v) /\ Kept(w, v)
             /\ ~v.dev[d].default /\ ~v.svc[s].conn
             /\ v.svc[s].state = w.svc[s].state
<1> DEFINE u == DestroyIPConfig(w, d)
           v == WithIp(u, d, "requested")
<1>1. AcquireIPConfig(w, d) = v
  BY DEF AcquireIPConfig, WithIp
<1>2. s \in Service
  BY VpnOfService
<1>3. /\ Loose(u, s) /\ Moved(w, u) /\ Kept(w, u)
      /\ ~u.dev[d].default /\ ~u.svc[s].conn /\ u.svc[s].state = w.svc[s].state
  BY ConfigIsDestroyed
<1> HIDE DEF u
<1>4. u \in Worlds
  BY <1>3 DEF Loose
<1>5. /\ Near(u, v, s) /\ v.svc = u.svc
      /\ v.dev[d].selected = u.dev[d].selected
      /\ v.dev[d].conn = u.dev[d].conn
      /\ v.dev[d].default = u.dev[d].default
  BY <1>2, <1>4, IpChanges
<1> HIDE DEF v
<1>6. Loose(v, s) /\ Kept(u, v)
  BY <1>2, <1>3, <1>5, NearIsLoose, NearIsKept
<1>7. Moved(w, v) /\ Kept(w, v)
  BY <1>3, <1>5, <1>6, MovedIsTransitive, KeptIsTransitive DEF Near
<1> QED BY <1>1, <1>3, <1>5, <1>6, <1>7

\* A service that has no connection may be in any state that is not a connected one.
LEMMA UnconnectedStateIsSet ==
  ASSUME NEW w, NEW s \in Service, Loose(w, s), ~w.svc[s].conn,
         ~w.dev[DeviceOf[s]].default,
         NEW state \in ConnectStates, state \notin ConnectedStates
  PROVE  LET v == SetState(w, s, state)
         IN  /\ Sound(v) /\ Moved(w, v) /\ Kept(w, v) /\ v.dev = w.dev
             /\ ~v.svc[s].conn /\ v.svc[s].state = state
             /\ w.svc[s].state # state => v.sort
<1> DEFINE v == SetState(w, s, state)
<1>1. w \in Worlds /\ s \in Service /\ state \in ConnectStates
  BY DEF Loose
<1>2. /\ Inside(w, v, s) /\ Moved(w, v) /\ v.svc[s].state = state
      /\ w.svc[s].state # state => v.sort
  BY ONLY <1>1, StateIsSet, ZenonT(60)
<1> HIDE DEF v
<1>3. Near(w, v, s) /\ v.dev = w.dev /\ v.svc[s].conn = w.svc[s].conn
  BY <1>2, InsideIsNear DEF Inside
<1>4. Loose(v, s) /\ Kept(w, v)
  BY <1>3, NearIsLoose, NearIsKept
<1>5. Agrees(v, s)
  BY <1>2, <1>3, <1>4
     DEF Loose, Bound, Agrees, Attuned, IsConnected, ConnectedStates
<1>6. Sound(v)
  BY <1>4, <1>5, LooseIsSound
<1> QED BY <1>2, <1>3, <1>4, <1>6 DEF v

\* Nothing of the connection is affected by what Connect clears first.
LEMMA BaseConnectIsSound ==
  ASSUME NEW w, NEW s \in Service, Sound(w)
  PROVE  LET v == BaseConnect(w, s)
         IN  /\ Sound(v) /\ Moved(w, v) /\ Kept(w, v)
             /\ v.svc[s].conn = w.svc[s].conn
             /\ v.svc[s].state = IF w.svc[s].state = "failure" THEN "idle"
                                 ELSE w.svc[s].state
<1> DEFINE v == BaseConnect(w, s)
<1>1. w \in Worlds /\ Loose(w, s) /\ Agrees(w, s)
  BY SoundIsLoose DEF Sound
<1>2. /\ Inside(w, v, s) /\ Moved(w, v)
      /\ v.svc[s].state = IF w.svc[s].state = "failure" THEN "idle"
                          ELSE w.svc[s].state
  BY <1>1, BaseConnects
<1> HIDE DEF v
<1>3. /\ Near(w, v, s) /\ v.dev = w.dev /\ v.svc[s].conn = w.svc[s].conn
      /\ v.list = w.list /\ v.svc[s].connectable = w.svc[s].connectable
      /\ w.svc[s].ever => v.svc[s].ever
  BY <1>2, InsideIsNear DEF Inside
<1>4. Loose(v, s) /\ Kept(w, v)
  BY <1>1, <1>3, NearIsLoose, NearIsKept
<1>5. Agrees(v, s)
  BY <1>1, <1>2, <1>3 DEF Agrees, Attuned, IsConnected, ConnectedStates
<1>6. Sound(v)
  BY <1>4, <1>5, LooseIsSound
<1> QED BY <1>2, <1>3, <1>4, <1>6 DEF v

LEMMA EthernetConnects ==
  ASSUME NEW w, NEW s \in Wired, NEW started \in BOOLEAN, Sound(w)
  PROVE  LET v == EthernetConnect(w, s, started)
         IN  /\ Sound(v) /\ Moved(w, v) /\ Kept(w, v)
             /\ w.dev[DeviceOf[s]].link /\ ~IsConnecting(w.svc[s]) => v.sort
<1> DEFINE d == DeviceOf[s]
           v == BaseConnect(w, s)
           a == SelectService(v, d, s)
           u == AcquireIPConfig(a, d)
           x == SetState(u, s, "configuring")
           y == SetState(u, s, "failure")
           z == DestroyIPConfig(y, d)
<1>1. s \in Service /\ d \in Device
  BY VpnOfService, DeviceOfService
<1>2. EthernetConnect(w, s, started) =
        IF ~v.dev[d].link THEN v ELSE IF started THEN x ELSE z
  BY DEF EthernetConnect
<1>3. /\ Sound(v) /\ Moved(w, v) /\ Kept(w, v)
      /\ v.svc[s].state = IF w.svc[s].state = "failure" THEN "idle"
                          ELSE w.svc[s].state
  BY <1>1, BaseConnectIsSound
<1> HIDE DEF v
<1>4. v \in Worlds /\ Loose(v, s) /\ v.dev[d].selected \in {s, NoService}
  BY <1>1, <1>3, SoundIsLoose DEF Loose, Bound
<1>5. /\ Near(v, a, s) /\ a.svc = v.svc
      /\ a.dev[d].selected = s
      /\ a.dev[d].default = v.dev[d].default
      /\ a.dev[d].conn = v.dev[d].conn
  BY <1>1, <1>4, ServiceIsSelected
<1> HIDE DEF a
<1>6. Loose(a, s) /\ Kept(v, a) /\ Moved(v, a)
  <2>1. Carried(a)
    BY <1>1, <1>4, <1>5, NearIsCarried DEF Loose
  <2>2. Bound(a, s)
    BY <1>4, <1>5 DEF Loose, Bound
  <2> QED BY <1>1, <1>4, <1>5, <2>1, <2>2, LooseIsKept, NearIsKept DEF Near
<1>7. /\ Loose(u, s) /\ Moved(a, u) /\ Kept(a, u)
      /\ ~u.dev[d].default /\ ~u.svc[s].conn /\ u.svc[s].state = a.svc[s].state
  BY <1>6, ConfigIsAcquired
<1> HIDE DEF u
<1>8. Moved(w, u) /\ Kept(w, u)
  <2>1. Moved(w, a) /\ Kept(w, a)
    BY <1>3, <1>6, MovedIsTransitive, KeptIsTransitive
  <2> QED BY <1>7, <2>1, MovedIsTransitive, KeptIsTransitive
<1>9. /\ Sound(x) /\ Moved(u, x) /\ Kept(u, x)
      /\ u.svc[s].state # "configuring" => x.sort
  <2> DEFINE state == "configuring"
             c == SetState(u, s, state)
  <2>1. /\ Sound(c) /\ Moved(u, c) /\ Kept(u, c)
        /\ u.svc[s].state # state => c.sort
    <3> HIDE DEF c
    <3>1. state \in ConnectStates /\ state \notin ConnectedStates
      BY DEF ConnectStates, ConnectedStates
    <3> HIDE DEF state
    <3> QED BY <1>1, <1>7, <3>1, UnconnectedStateIsSet DEF c
  <2> QED BY <2>1
<1>10. /\ Sound(y) /\ Moved(u, y) /\ Kept(u, y)
       /\ y.svc[s].state = "failure" /\ ~y.svc[s].conn
       /\ u.svc[s].state # "failure" => y.sort
  <2> DEFINE state == "failure"
             c == SetState(u, s, state)
  <2>1. /\ Sound(c) /\ Moved(u, c) /\ Kept(u, c)
        /\ c.svc[s].state = state /\ ~c.svc[s].conn
        /\ u.svc[s].state # state => c.sort
    <3> HIDE DEF c
    <3>1. state \in ConnectStates /\ state \notin ConnectedStates
      BY DEF ConnectStates, ConnectedStates
    <3> HIDE DEF state
    <3> QED BY <1>1, <1>7, <3>1, UnconnectedStateIsSet DEF c
  <2> QED BY <2>1
<1> HIDE DEF x, y
<1>11. /\ Sound(z) /\ Moved(y, z) /\ Kept(y, z)
  <2>1. Loose(y, s)
    BY <1>1, <1>10, SoundIsLoose
  <2>2. /\ Loose(z, s) /\ Moved(y, z) /\ Kept(y, z)
        /\ ~z.dev[d].default /\ ~z.svc[s].conn
        /\ z.svc[s].state = y.svc[s].state
    BY <2>1, ConfigIsDestroyed
  <2> HIDE DEF z
  <2>3. Agrees(z, s)
    BY <1>10, <2>2, VpnOfService
       DEF Loose, Bound, Agrees, Attuned, IsConnected, ConnectedStates
  <2> QED BY <1>1, <2>2, <2>3, LooseIsSound
<1> HIDE DEF z
<1>12. Moved(w, x) /\ Kept(w, x)
  BY <1>8, <1>9, MovedIsTransitive, KeptIsTransitive
<1>13. Moved(w, z) /\ Kept(w, z)
  <2>1. Moved(w, y) /\ Kept(w, y)
    BY <1>8, <1>10, MovedIsTransitive, KeptIsTransitive
  <2> QED BY <1>11, <2>1, MovedIsTransitive, KeptIsTransitive
<1>14. ASSUME w.dev[d].link, ~IsConnecting(w.svc[s])
       PROVE  v.dev[d].link /\ x.sort /\ z.sort
  <2>1. v.dev[d].link
    BY <1>1, <1>3, <1>14 DEF Moved
  <2>2. u.svc[s].state # "configuring" /\ u.svc[s].state # "failure"
    BY <1>3, <1>5, <1>7, <1>14 DEF IsConnecting, ConnectingStates
  <2> QED BY <1>9, <1>10, <1>11, <2>1, <2>2 DEF Moved
<1> QED BY <1>2, <1>3, <1>9, <1>11, <1>12, <1>13, <1>14

\* The same, as the rest of a handler sees it.
LEMMA VpnEnds ==
  ASSUME NEW w, Sound(w), NEW state \in {"idle", "failure"}
  PROVE  LET v == CleanupVpn(w, state)
         IN  /\ Sound(v) /\ Moved(w, v) /\ Kept(w, v)
             /\ v.svc[VpnService].state \in {"idle", "failure"}
<1> DEFINE v == CleanupVpn(w, state)
           s == VpnService
<1>1. s \in Service /\ w \in Worlds /\ Bound(w, s) /\ Published(w) /\ Unowned(w)
  BY VpnOfService, SoundIsLoose DEF Loose, Sound
<1>2. /\ Moved(w, v) /\ Only(w, v, {s}) /\ v.lower = NoDevice /\ ~v.query
      /\ Agrees(v, s) /\ v.svc[s].state \in {"idle", "failure"}
  BY <1>1, VpnIsCleanedUp
<1> HIDE DEF v
<1>3. \A t \in Service \ {s} : Agrees(v, t)
  BY <1>1, <1>2, FrameIsKept DEF Sound
<1>4. Published(v) /\ Unowned(v) /\ Carried(v)
  BY <1>1, <1>2, RestIsKept DEF Carried
<1>5. Sound(v)
  BY <1>2, <1>3, <1>4 DEF Sound, Moved
<1>6. ~v.svc[s].conn
  BY <1>2 DEF Agrees, Attuned, IsConnected, ConnectedStates
<1>7. ASSUME NEW t \in Service \ {s}
      PROVE  v.svc[t] = w.svc[t] /\ v.dev[DeviceOf[t]] = w.dev[DeviceOf[t]]
  BY <1>1, <1>2, DeviceOfService DEF Only
<1>8. Kept(w, v)
  BY <1>6, <1>7 DEF Kept
<1> QED BY <1>2, <1>5, <1>8 DEF v

LEMMA VpnConnects ==
  ASSUME NEW w, NEW started \in BOOLEAN, Sound(w)
  PROVE  LET v == VpnConnect(w, VpnService, started)
         IN  /\ Sound(v) /\ Moved(w, v) /\ Kept(w, v)
             /\ ~IsConnected(w.svc[VpnService]) /\ ~IsConnecting(w.svc[VpnService])
                  => v.sort
<1> DEFINE s == VpnService
           state == "configuring"
           u == BaseConnect(w, s)
           v == SetState(u, s, state)
           x == CleanupVpn(v, "failure")
<1>1. s \in Service /\ w \in Worlds
  BY VpnOfService DEF Sound
<1>2. VpnConnect(w, s, started) =
        IF IsConnected(w.svc[s]) \/ IsConnecting(w.svc[s]) THEN w
        ELSE IF started THEN v ELSE x
  BY DEF VpnConnect
<1>3. /\ Sound(u) /\ Moved(w, u) /\ Kept(w, u) /\ u.svc[s].conn = w.svc[s].conn
      /\ u.svc[s].state = IF w.svc[s].state = "failure" THEN "idle"
                          ELSE w.svc[s].state
  BY <1>1, BaseConnectIsSound
<1> HIDE DEF u
<1>4. CASE IsConnected(w.svc[s]) \/ IsConnecting(w.svc[s])
  <2>1. Kept(w, w)
    BY DEF Kept
  <2> QED BY <1>1, <1>2, <1>4, <2>1, MovedIsReflexive
<1>5. CASE ~IsConnected(w.svc[s]) /\ ~IsConnecting(w.svc[s])
  <2>1. ~w.svc[s].conn /\ ~u.svc[s].conn /\ Loose(u, s) /\ ~u.dev[DeviceOf[s]].default
    BY <1>1, <1>3, <1>5, SoundIsLoose DEF Sound, Agrees, Attuned
  <2>2. /\ state \in ConnectStates /\ state \notin ConnectedStates
        /\ u.svc[s].state # state
    BY <1>3, <1>5 DEF IsConnecting, ConnectingStates, ConnectStates, ConnectedStates
  <2> HIDE DEF state
  <2>3. Sound(v) /\ Moved(u, v) /\ Kept(u, v) /\ v.sort
    BY <1>1, <2>1, <2>2, UnconnectedStateIsSet
  <2> HIDE DEF v
  <2>4. Sound(x) /\ Moved(v, x) /\ Kept(v, x)
    BY <2>3, VpnEnds
  <2> HIDE DEF x
  <2>5. Moved(w, v) /\ Kept(w, v)
    BY <1>3, <2>3, MovedIsTransitive, KeptIsTransitive
  <2>6. Moved(w, x) /\ Kept(w, x) /\ x.sort
    BY <2>3, <2>4, <2>5, MovedIsTransitive, KeptIsTransitive DEF Moved
  <2> QED BY <1>2, <1>5, <2>3, <2>4, <2>5, <2>6
<1> QED BY <1>4, <1>5

\* Connecting gives no service a connection yet, and asks for a sort if there is
\* anything to connect.
LEMMA ServiceConnects ==
  ASSUME NEW w, NEW s \in Service, NEW started \in BOOLEAN, Sound(w)
  PROVE  LET v == Connect(w, s, started)
         IN  /\ Sound(v) /\ Moved(w, v) /\ Kept(w, v)
             /\ IsVisible(w, s) /\ ~IsConnected(w.svc[s]) /\ ~IsConnecting(w.svc[s])
                  => v.sort
<1>1. PICK starts \in BOOLEAN : starts = (started \/ s \notin Unreliable)
  OBVIOUS
<1>2. CASE s \in Vpn
  <2> DEFINE v == VpnConnect(w, VpnService, starts)
  <2>1. s = VpnService
    BY <1>2, VpnOfService
  <2>2. Connect(w, s, started) = v
    BY <1>1, <1>2, <2>1, Zenon DEF Connect
  <2>3. /\ Sound(v) /\ Moved(w, v) /\ Kept(w, v)
        /\ ~IsConnected(w.svc[VpnService]) /\ ~IsConnecting(w.svc[VpnService])
             => v.sort
    BY VpnConnects
  <2> HIDE DEF v
  <2> QED BY <2>1, <2>2, <2>3
<1>3. CASE s \notin Vpn
  <2> DEFINE v == EthernetConnect(w, s, starts)
  <2>1. s \in Wired
    BY <1>3, VpnOfService
  <2>2. Connect(w, s, started) = v
    BY <1>1, <1>3, Zenon DEF Connect
  <2>3. IsVisible(w, s) => w.dev[DeviceOf[s]].link
    BY <2>1 DEF IsVisible
  <2>4. /\ Sound(v) /\ Moved(w, v) /\ Kept(w, v)
        /\ w.dev[DeviceOf[s]].link /\ ~IsConnecting(w.svc[s]) => v.sort
    BY <2>1, EthernetConnects
  <2> HIDE DEF v
  <2> QED BY <2>2, <2>3, <2>4
<1> QED BY <1>2, <1>3
-----------------------------------------------------------------------------
(***************************************************************************)
(* What a handler leaves settled: the list is as the last sort left it, or *)
(* another sort is posted.                                                 *)
(***************************************************************************)
\* No service of importance to the sort has changed, or one has been asked for.
Follows(w, v) ==
  /\ Moved(w, v)
  /\ ~v.sort => \A d \in Device : w.dev[d].default => v.dev[d].default

LEMMA HeadIsListed ==
  ASSUME NEW l \in Lists
  PROVE  /\ l # << >> /\ Len(l) \in Nat \ {0} /\ DOMAIN l = 1..Len(l)
         /\ Head(l) = l[1] /\ Head(l) \in ToSet(l)
         /\ ToSet(l) \subseteq Service /\ Head(l) \in Service
         /\ VpnService \in ToSet(l)
<1>1. l \in Seq(Service) /\ VpnService \in ToSet(l)
  BY DEF Lists
<1>2. DOMAIN l = 1..Len(l) /\ Len(l) \in Nat
  BY <1>1
<1>3. PICK i \in 1..Len(l) : l[i] = VpnService
  BY <1>1, <1>2 DEF ToSet
<1>4. 1 \in DOMAIN l /\ l # << >> /\ Len(l) # 0
  BY <1>1, <1>2, <1>3
<1>5. ToSet(l) \subseteq Service
  BY <1>1, <1>2 DEF ToSet
<1>6. Head(l) = l[1]
  BY <1>1, <1>4
<1>7. Head(l) \in ToSet(l)
  BY <1>4, <1>6 DEF ToSet
<1> QED BY <1>1, <1>2, <1>4, <1>5, <1>6, <1>7

LEMMA KeptFollows ==
  ASSUME NEW w, NEW v, Sound(w), Sound(v), Moved(w, v), Kept(w, v)
  PROVE  Follows(w, v)
<1> SUFFICES ASSUME ~v.sort, NEW d \in Device, w.dev[d].default
             PROVE  v.dev[d].default
  BY DEF Follows
<1>1. PICK s \in Service : d = DeviceOf[s]
  BY DEF Sound, Unowned
<1>2. w.svc[s].conn /\ IsConnected(w.svc[s])
  BY <1>1 DEF Sound, Agrees, Attuned
<1>3. IsConnected(v.svc[s])
  BY <1>2 DEF Moved, Still, IsConnected
<1>4. v.svc[s].conn
  BY <1>3 DEF Sound, Agrees, Attuned
<1> QED BY <1>1, <1>4 DEF Kept

\* What could be connected without a change that asks for a sort, could be before.
LEMMA AutoConnectableWas ==
  ASSUME NEW w \in Worlds, NEW v, Moved(w, v), ~v.sort, NEW s \in Service,
         v.svc[s].auto /\ IsAutoConnectable(v, s)
  PROVE  w.svc[s].auto /\ IsAutoConnectable(w, s)
<1>1. /\ v.svc[s].auto = w.svc[s].auto /\ v.svc[s].ever = w.svc[s].ever
      /\ v.svc[s].state = w.svc[s].state
      /\ v.svc[s].connectable = w.svc[s].connectable
      /\ w.svc[s].explicit => v.svc[s].explicit
      /\ w.svc[s].throttled => v.svc[s].throttled
  BY DEF Moved, Still
<1>2. v.list = w.list /\ w.list \in Lists /\ v.dev[DeviceOf[s]].link = w.dev[DeviceOf[s]].link
  BY DeviceOfService DEF Moved, Worlds
<1>3. Head(w.list) \in Service
  BY <1>2, HeadIsListed
<1>4. v.svc[Head(w.list)].state = w.svc[Head(w.list)].state
  BY <1>3 DEF Moved, Still
<1>5. ManagerIsConnected(v) => ManagerIsConnected(w)
  BY <1>2, <1>4 DEF ManagerIsConnected, IsConnected
<1>6. IsVisible(v, s) => IsVisible(w, s)
  BY <1>2 DEF IsVisible
<1> QED
  BY <1>1, <1>5, <1>6
     DEF IsAutoConnectable, BaseIsAutoConnectable, IsConnected, IsConnecting

LEMMA SettledIsKept ==
  ASSUME NEW w, NEW v, Sound(w), Settled(w), Sound(v), Follows(w, v)
  PROVE  Settled(v)
<1> SUFFICES ASSUME ~v.sort
             PROVE  /\ (\E s \in ToSet(v.list) : IsConnected(v.svc[s]))
                         => IsConnected(v.svc[Head(v.list)])
                    /\ v.svc[Head(v.list)].conn
                         => v.dev[DeviceOf[Head(v.list)]].default
                    /\ v.published.state = DefaultState(v)
                    /\ VpnRanksFirst /\ IsConnected(v.svc[VpnService])
                         => Head(v.list) = VpnService
                    /\ ~v.suspending =>
                         \A s \in ToSet(v.list) :
                           ~(v.svc[s].auto /\ IsAutoConnectable(v, s))
  BY DEF Settled
<1> DEFINE h == Head(w.list)
<1>1. /\ w \in Worlds /\ Moved(w, v) /\ ~w.sort
      /\ v.list = w.list /\ v.suspending = w.suspending /\ v.published = w.published
  BY DEF Sound, Follows, Moved
<1>2. /\ (\E s \in ToSet(w.list) : IsConnected(w.svc[s])) => IsConnected(w.svc[h])
      /\ w.svc[h].conn => w.dev[DeviceOf[h]].default
      /\ w.published.state = DefaultState(w)
      /\ VpnRanksFirst /\ IsConnected(w.svc[VpnService]) => h = VpnService
      /\ ~w.suspending =>
           \A s \in ToSet(w.list) : ~(w.svc[s].auto /\ IsAutoConnectable(w, s))
  BY <1>1 DEF Settled
<1>3. h \in Service /\ ToSet(w.list) \subseteq Service /\ VpnService \in Service
  BY <1>1, HeadIsListed, VpnOfService DEF Worlds
<1>4. \A s \in Service : v.svc[s].state = w.svc[s].state
  BY <1>1 DEF Moved, Still
<1>5. \A s \in Service : IsConnected(v.svc[s]) <=> IsConnected(w.svc[s])
  BY <1>4 DEF IsConnected
<1>6. v.svc[h].conn <=> w.svc[h].conn
  BY <1>3, <1>5 DEF Sound, Agrees, Attuned
<1>7. w.dev[DeviceOf[h]].default => v.dev[DeviceOf[h]].default
  BY <1>3, DeviceOfService DEF Follows
<1>8. DefaultState(v) = DefaultState(w)
  BY <1>1, <1>3, <1>4, <1>6 DEF DefaultState
<1>9. \A s \in ToSet(v.list) : v.svc[s].auto /\ IsAutoConnectable(v, s)
                              => w.svc[s].auto /\ IsAutoConnectable(w, s)
  BY <1>1, <1>3, AutoConnectableWas
<1> HIDE DEF h
<1>10. Head(v.list) = h
  BY <1>1 DEF h
<1>11. (\E s \in ToSet(v.list) : IsConnected(v.svc[s])) => IsConnected(v.svc[h])
  BY <1>1, <1>2, <1>3, <1>5
<1>12. VpnRanksFirst /\ IsConnected(v.svc[VpnService]) => h = VpnService
  BY <1>2, <1>3, <1>5
<1> QED BY <1>1, <1>2, <1>6, <1>7, <1>8, <1>9, <1>10, <1>11, <1>12

\* A handler that only follows keeps the invariant.
LEMMA FollowingIsSafe ==
  ASSUME NEW w, NEW v, Good(w), Settled(w), Sound(v), Follows(w, v)
  PROVE  Good(v) /\ Settled(v)
<1>1. Enlisted(v)
  BY EnlistedIsKept DEF Good, Follows
<1> QED BY <1>1, SettledIsKept DEF Good

\* ... and one that also posts a sort.
LEMMA PostingIsSafe ==
  ASSUME NEW v, Good(v), v.sort
  PROVE  Good(v) /\ Settled(v)
  BY DEF Settled
-----------------------------------------------------------------------------
(***************************************************************************)
(* What is done to one service of the list after the other.                *)
(***************************************************************************)
\* A set of numbers that is not empty has a least one.
LEMMA LeastNumber ==
  ASSUME NEW T, T \subseteq Nat, T # {}
  PROVE  \E x \in T : \A y \in T : ~(y < x)
<1> DEFINE R == OpToRel(<, Nat)
<1>1. IsWellFoundedOn(R, Nat)
  BY NatLessThanWellFounded, Zenon
<1>2. \A x, y \in Nat : y < x => <<y, x>> \in R
  BY DEF OpToRel
<1> HIDE DEF R
<1>3. \E x \in T : \A y \in T : ~(<<y, x>> \in R)
  BY <1>1, WFMin, Zenon
<1> QED BY <1>2, <1>3

\* A set with 0 and the successor of each of its members has every number.
LEMMA SetInduction ==
  ASSUME NEW T, T \subseteq Nat, 0 \in T, \A n \in T : n + 1 \in T
  PROVE  \A n \in Nat : n \in T
<1> SUFFICES ASSUME Nat \ T # {} PROVE FALSE
  OBVIOUS
<1>1. PICK x \in Nat \ T : \A y \in Nat \ T : ~(y < x)
  BY LeastNumber
<1>2. x # 0 /\ x - 1 \in Nat /\ x - 1 \notin Nat \ T
  BY <1>1
<1> QED BY <1>1, <1>2

\* The worlds of AutoConnect, after each of the first n services.
Attempts(w, started, n, f) ==
  f = [i \in 0 .. n |-> IF i = 0 THEN w
                        ELSE TryAutoConnect(f[i - 1], w.list[i], started)]

LEMMA AttemptsExist ==
  ASSUME NEW w, NEW started
  PROVE  \A n \in Nat : \E f : Attempts(w, started, n, f)
<1> DEFINE Step(x, i) == TryAutoConnect(x, w.list[i], started)
           T == {n \in Nat : \E f : f = [i \in 0..n |-> IF i = 0 THEN w
                                                        ELSE Step(f[i - 1], i)]}
<1> HIDE DEF Step
<1>1. 0 \in T
  <2> DEFINE f == [i \in 0..0 |-> w]
  <2>1. f = [i \in 0..0 |-> IF i = 0 THEN w ELSE Step(f[i - 1], i)]
    OBVIOUS
  <2> HIDE DEF f
  <2> QED BY <2>1
<1>2. ASSUME NEW n \in T PROVE n + 1 \in T
  <2>1. PICK f : f = [i \in 0..n |-> IF i = 0 THEN w ELSE Step(f[i - 1], i)]
    OBVIOUS
  <2> DEFINE g == [i \in 0..(n + 1) |-> IF i \in 0..n THEN f[i] ELSE Step(f[n], n + 1)]
  <2>2. ASSUME NEW i \in 0..(n + 1)
        PROVE  g[i] = IF i = 0 THEN w ELSE Step(g[i - 1], i)
    BY <2>1
  <2>3. g = [i \in 0..(n + 1) |-> g[i]]
    OBVIOUS
  <2> HIDE DEF g
  <2>4. g = [i \in 0..(n + 1) |-> IF i = 0 THEN w ELSE Step(g[i - 1], i)]
    BY <2>2, <2>3
  <2> QED BY <2>4
<1> HIDE DEF T
<1>3. T \subseteq Nat
  BY DEF T
<1>4. \A n \in Nat : n \in T
  BY <1>1, <1>2, <1>3, SetInduction
<1> QED BY <1>4 DEF T, Step, Attempts

\* One attempt goes unnoticed only if there was nothing to connect.
LEMMA AttemptIsSound ==
  ASSUME NEW w, NEW s \in Service, NEW started \in BOOLEAN, Sound(w)
  PROVE  LET v == TryAutoConnect(w, s, started)
         IN  /\ Sound(v) /\ Moved(w, v) /\ Kept(w, v)
             /\ v.sort \/ v = w
             /\ w.svc[s].auto /\ IsAutoConnectable(w, s) => v.sort
<1> DEFINE u == ThrottleFutureAutoConnects(w, s)
           v == Connect(u, s, started)
<1>1. w \in Worlds /\ Loose(w, s) /\ Agrees(w, s)
  BY SoundIsLoose DEF Sound
<1>2. CASE w.svc[s].auto /\ IsAutoConnectable(w, s)
  <2>1. TryAutoConnect(w, s, started) = v
    BY <1>2 DEF TryAutoConnect
  <2>2. Inside(w, u, s) /\ Moved(w, u) /\ u.svc[s].state = w.svc[s].state
    BY <1>1, AutoConnectsAreThrottled
  <2> HIDE DEF u
  <2>3. /\ Near(w, u, s) /\ u.dev = w.dev /\ u.svc[s].conn = w.svc[s].conn
        /\ u.list = w.list /\ u.svc[s].connectable = w.svc[s].connectable
        /\ w.svc[s].ever => u.svc[s].ever
    BY <2>2, InsideIsNear DEF Inside
  <2>4. Loose(u, s) /\ Kept(w, u)
    BY <1>1, <2>3, NearIsLoose, NearIsKept
  <2>5. Agrees(u, s)
    BY <1>1, <2>2, <2>3 DEF Agrees, Attuned, IsConnected
  <2>6. Sound(u)
    BY <2>4, <2>5, LooseIsSound
  <2>7. /\ Sound(v) /\ Moved(u, v) /\ Kept(u, v)
        /\ IsVisible(u, s) /\ ~IsConnected(u.svc[s]) /\ ~IsConnecting(u.svc[s])
             => v.sort
    BY <2>6, ServiceConnects
  <2> HIDE DEF v
  <2>8. IsVisible(u, s) /\ ~IsConnected(u.svc[s]) /\ ~IsConnecting(u.svc[s])
    BY <1>2, <2>2, <2>3
       DEF IsAutoConnectable, BaseIsAutoConnectable, IsVisible, IsConnected,
           IsConnecting
  <2>9. Moved(w, v) /\ Kept(w, v)
    BY <2>2, <2>4, <2>7, MovedIsTransitive, KeptIsTransitive
  <2> QED BY <2>1, <2>7, <2>8, <2>9
<1>3. CASE ~(w.svc[s].auto /\ IsAutoConnectable(w, s))
  <2>1. TryAutoConnect(w, s, started) = w
    BY <1>3 DEF TryAutoConnect
  <2>2. Kept(w, w)
    BY DEF Kept
  <2> QED BY <1>1, <1>3, <2>1, <2>2, MovedIsReflexive
<1> QED BY <1>2, <1>3

LEMMA AttemptsAreSound ==
  ASSUME NEW w, NEW started \in BOOLEAN, Sound(w), NEW f,
         Attempts(w, started, Len(w.list), f)
  PROVE  LET v == f[Len(w.list)]
         IN  /\ Sound(v) /\ Moved(w, v) /\ Kept(w, v)
             /\ ~v.sort => /\ v = w
                           /\ \A s \in ToSet(w.list) :
                                ~(w.svc[s].auto /\ IsAutoConnectable(w, s))
<1> DEFINE N == Len(w.list)
           Done(i) == /\ Sound(f[i]) /\ Moved(w, f[i]) /\ Kept(w, f[i])
                      /\ ~f[i].sort =>
                           /\ f[i] = w
                           /\ \A j \in 1..i :
                                ~(w.svc[w.list[j]].auto /\ IsAutoConnectable(w, w.list[j]))
           T == {i \in Nat : i <= N => Done(i)}
<1>1. w \in Worlds /\ w.list \in Lists
  BY DEF Sound, Worlds
<1>2. N \in Nat /\ DOMAIN w.list = 1..N /\ \A j \in 1..N : w.list[j] \in Service
  BY <1>1, HeadIsListed DEF ToSet
<1>3. /\ f[0] = w
      /\ \A i \in 1..N : f[i] = TryAutoConnect(f[i - 1], w.list[i], started)
  BY <1>2 DEF Attempts
<1> HIDE DEF N
<1>4. 0 \in T
  <2>1. Kept(w, w)
    BY DEF Kept
  <2> QED BY <1>1, <1>3, <2>1, MovedIsReflexive
<1>5. ASSUME NEW i \in T PROVE i + 1 \in T
  <2> SUFFICES ASSUME i + 1 <= N PROVE Done(i + 1)
    OBVIOUS
  <2> DEFINE k == i + 1
             x == f[i]
             y == TryAutoConnect(x, w.list[k], started)
  <2>1. k \in 1..N /\ k - 1 = i /\ w.list[k] \in Service /\ i \in Nat
    BY <1>2
  <2>2. Done(i)
    BY <2>1, <1>2
  <2>3. f[k] = y
    BY <1>3, <2>1
  <2> HIDE DEF k
  <2>4. /\ Sound(y) /\ Moved(x, y) /\ Kept(x, y)
        /\ y.sort \/ y = x
        /\ x.svc[w.list[k]].auto /\ IsAutoConnectable(x, w.list[k]) => y.sort
    BY <2>1, <2>2, AttemptIsSound
  <2> HIDE DEF x, y
  <2>5. Moved(w, y) /\ Kept(w, y)
    BY <2>2, <2>4, MovedIsTransitive, KeptIsTransitive DEF x
  <2>6. ASSUME ~y.sort
        PROVE  /\ y = w
               /\ \A j \in 1..k :
                    ~(w.svc[w.list[j]].auto /\ IsAutoConnectable(w, w.list[j]))
    <3>1. y = x /\ ~x.sort
      BY <2>4, <2>6
    <3>2. x = w /\ \A j \in 1..i :
                     ~(w.svc[w.list[j]].auto /\ IsAutoConnectable(w, w.list[j]))
      BY <2>2, <3>1 DEF x
    <3>3. ~(w.svc[w.list[k]].auto /\ IsAutoConnectable(w, w.list[k]))
      BY <2>4, <2>6, <3>2
    <3>4. \A j \in 1..k : j \in 1..i \/ j = k
      BY <2>1
    <3> QED BY <3>1, <3>2, <3>3, <3>4
  <2>7. Done(k)
    BY <2>3, <2>4, <2>5, <2>6
  <2> QED BY <2>7 DEF k
<1> HIDE DEF Done
<1>6. T \subseteq Nat
  OBVIOUS
<1> HIDE DEF T
<1>7. N \in T
  BY <1>2, <1>4, <1>5, <1>6, SetInduction
<1>8. Done(N)
  BY <1>2, <1>7 DEF T
<1>9. \A s \in ToSet(w.list) : \E j \in 1..N : s = w.list[j]
  BY <1>2 DEF ToSet
<1> QED BY <1>8, <1>9 DEF Done, N

\* After AutoConnect nothing is left to connect, or another sort will see to it.
LEMMA AutoConnectIsSound ==
  ASSUME NEW w, NEW started \in BOOLEAN, Sound(w)
  PROVE  LET v == AutoConnect(w, started)
         IN  /\ Sound(v) /\ Moved(w, v) /\ Kept(w, v)
             /\ ~v.sort => /\ v = w
                           /\ ~w.suspending =>
                                \A s \in ToSet(w.list) :
                                  ~(w.svc[s].auto /\ IsAutoConnectable(w, s))
<1> DEFINE f == CHOOSE f : f = [i \in 0 .. Len(w.list) |->
                  IF i = 0 THEN w ELSE TryAutoConnect(f[i - 1], w.list[i], started)]
<1>1. AutoConnect(w, started) = IF w.suspending THEN w ELSE f[Len(w.list)]
  BY Zenon DEF AutoConnect
<1>2. f = CHOOSE g : Attempts(w, started, Len(w.list), g)
  BY Zenon DEF Attempts
<1> HIDE DEF f
<1>3. w \in Worlds /\ w.list \in Lists /\ Len(w.list) \in Nat
  BY HeadIsListed DEF Sound, Worlds
<1>4. Attempts(w, started, Len(w.list), f)
  <2>1. \E g : Attempts(w, started, Len(w.list), g)
    BY <1>3, AttemptsExist
  <2> QED BY <1>2, <2>1, Zenon
<1> DEFINE v == f[Len(w.list)]
<1>5. /\ Sound(v) /\ Moved(w, v) /\ Kept(w, v)
      /\ ~v.sort => /\ v = w
                    /\ \A s \in ToSet(w.list) :
                         ~(w.svc[s].auto /\ IsAutoConnectable(w, s))
  BY <1>4, AttemptsAreSound
<1> HIDE DEF v
<1>6. CASE w.suspending
  <2>1. Kept(w, w) /\ Moved(w, w)
    BY <1>3, MovedIsReflexive DEF Kept
  <2> QED BY <1>1, <1>6, <2>1
<1>7. CASE ~w.suspending
  BY <1>1, <1>5, <1>7 DEF v
<1> QED BY <1>6, <1>7

\* The same for ConnectToBestServices.
Trials(w, sorted, started, n, f) ==
  f = [i \in 0 .. n |-> IF i = 0 THEN [w |-> w, techs |-> {}, stop |-> FALSE]
                        ELSE TryBestService(f[i - 1], sorted[i], started)]

LEMMA TrialsExist ==
  ASSUME NEW w, NEW sorted, NEW started
  PROVE  \A n \in Nat : \E f : Trials(w, sorted, started, n, f)
<1> DEFINE a == [w |-> w, techs |-> {}, stop |-> FALSE]
           Step(x, i) == TryBestService(x, sorted[i], started)
           T == {n \in Nat : \E f : f = [i \in 0..n |-> IF i = 0 THEN a
                                                        ELSE Step(f[i - 1], i)]}
<1> HIDE DEF Step, a
<1>1. 0 \in T
  <2> DEFINE f == [i \in 0..0 |-> a]
  <2>1. f = [i \in 0..0 |-> IF i = 0 THEN a ELSE Step(f[i - 1], i)]
    OBVIOUS
  <2> HIDE DEF f
  <2> QED BY <2>1
<1>2. ASSUME NEW n \in T PROVE n + 1 \in T
  <2>1. PICK f : f = [i \in 0..n |-> IF i = 0 THEN a ELSE Step(f[i - 1], i)]
    OBVIOUS
  <2> DEFINE g == [i \in 0..(n + 1) |-> IF i \in 0..n THEN f[i] ELSE Step(f[n], n + 1)]
  <2>2. ASSUME NEW i \in 0..(n + 1)
        PROVE  g[i] = IF i = 0 THEN a ELSE Step(g[i - 1], i)
    BY <2>1
  <2>3. g = [i \in 0..(n + 1) |-> g[i]]
    OBVIOUS
  <2> HIDE DEF g
  <2>4. g = [i \in 0..(n + 1) |-> IF i = 0 THEN a ELSE Step(g[i - 1], i)]
    BY <2>2, <2>3
  <2> QED BY <2>4
<1> HIDE DEF T
<1>3. T \subseteq Nat
  BY DEF T
<1>4. \A n \in Nat : n \in T
  BY <1>1, <1>2, <1>3, SetInduction
<1> QED BY <1>4 DEF T, Step, a, Trials

IsTrial(acc) == acc = [w |-> acc.w, techs |-> acc.techs, stop |-> acc.stop]

LEMMA TrialIsSound ==
  ASSUME NEW acc, IsTrial(acc), Sound(acc.w), NEW s \in Service,
         NEW started \in BOOLEAN
  PROVE  LET b == TryBestService(acc, s, started)
         IN  IsTrial(b) /\ Sound(b.w) /\ Moved(acc.w, b.w) /\ Kept(acc.w, b.w)
<1> DEFINE w == acc.w
           x == Connect(w, s, started)
           y == ConnectCandidate(w, s, started)
           b == TryBestService(acc, s, started)
<1>1. w \in Worlds /\ Moved(w, w) /\ Kept(w, w)
  BY MovedIsReflexive DEF Sound, Kept
<1>2. Sound(y) /\ Moved(w, y) /\ Kept(w, y)
  <2>1. Sound(x) /\ Moved(w, x) /\ Kept(w, x)
    BY ServiceConnects
  <2>2. y = IF IsConnected(w.svc[s]) \/ IsConnecting(w.svc[s]) THEN w ELSE x
    BY DEF ConnectCandidate
  <2> HIDE DEF x, y
  <2> QED BY <1>1, <2>1, <2>2
<1>3. \/ b = acc
      \/ IsTrial(b) /\ b.w = w
      \/ IsTrial(b) /\ b.w = y
  <2> HIDE DEF y
  <2>1. TryBestService(acc, s, started) =
          IF acc.stop \/ ~acc.w.svc[s].connectable THEN [acc EXCEPT !.stop = TRUE]
          ELSE IF ~IsCandidate(acc.w, s, acc.techs) THEN acc
          ELSE [acc EXCEPT !.techs = @ \union {Rank[s].technology}, !.w = y]
    BY DEF TryBestService, y, IsTrial
  <2> QED BY <2>1 DEF IsTrial
<1> HIDE DEF y, b
<1> QED BY <1>1, <1>2, <1>3 DEF b

LEMMA TrialsAreSound ==
  ASSUME NEW w, NEW sorted, NEW N \in Nat, \A i \in 1..N : sorted[i] \in Service,
         NEW started \in BOOLEAN, Sound(w), NEW f, Trials(w, sorted, started, N, f)
  PROVE  LET v == f[N].w
         IN  Sound(v) /\ Moved(w, v) /\ Kept(w, v)
<1> DEFINE Done(i) == /\ IsTrial(f[i]) /\ Sound(f[i].w)
                      /\ Moved(w, f[i].w) /\ Kept(w, f[i].w)
           T == {i \in Nat : i <= N => Done(i)}
<1>1. /\ f[0] = [w |-> w, techs |-> {}, stop |-> FALSE]
      /\ \A i \in 1..N : f[i] = TryBestService(f[i - 1], sorted[i], started)
  <2> DEFINE a == [w |-> w, techs |-> {}, stop |-> FALSE]
  <2>1. f = [i \in 0 .. N |-> IF i = 0 THEN a
                             ELSE TryBestService(f[i - 1], sorted[i], started)]
    BY Zenon DEF Trials
  <2> HIDE DEF a
  <2>2. f[0] = a /\ \A i \in 1..N : f[i] = TryBestService(f[i - 1], sorted[i], started)
    BY <2>1, SMTT(30)
  <2> QED BY <2>2 DEF a
<1>2. 0 \in T
  <2>1. Kept(w, w) /\ Moved(w, w)
    BY MovedIsReflexive DEF Kept, Sound
  <2> QED BY <1>1, <2>1 DEF IsTrial
<1>3. ASSUME NEW i \in T PROVE i + 1 \in T
  <2> SUFFICES ASSUME i + 1 <= N PROVE Done(i + 1)
    OBVIOUS
  <2> DEFINE k == i + 1
             x == f[i]
             y == TryBestService(x, sorted[k], started)
  <2>1. k \in 1..N /\ k - 1 = i /\ sorted[k] \in Service /\ i \in Nat
    OBVIOUS
  <2>2. Done(i)
    BY <2>1
  <2>3. f[k] = y
    BY <1>1, <2>1
  <2> HIDE DEF k
  <2>4. IsTrial(y) /\ Sound(y.w) /\ Moved(x.w, y.w) /\ Kept(x.w, y.w)
    BY <2>1, <2>2, TrialIsSound
  <2> HIDE DEF x, y
  <2>5. Moved(w, y.w) /\ Kept(w, y.w)
    BY <2>2, <2>4, MovedIsTransitive, KeptIsTransitive DEF x
  <2>6. Done(k)
    BY <2>3, <2>4, <2>5
  <2> QED BY <2>6 DEF k
<1> HIDE DEF Done
<1>4. T \subseteq Nat
  OBVIOUS
<1> HIDE DEF T
<1>5. N \in T
  BY <1>2, <1>3, <1>4, SetInduction
<1>6. Done(N)
  BY <1>5 DEF T
<1> QED BY <1>6 DEF Done

LEMMA BestServicesConnect ==
  ASSUME NEW w, NEW sorted, Len(sorted) \in Nat,
         \A i \in 1..Len(sorted) : sorted[i] \in Service,
         NEW started \in BOOLEAN, Sound(w)
  PROVE  LET v == ConnectToBestServices(w, sorted, started)
         IN  Sound(v) /\ Moved(w, v) /\ Kept(w, v)
<1> DEFINE f == CHOOSE f : f = [i \in 0 .. Len(sorted) |->
                  IF i = 0 THEN [w |-> w, techs |-> {}, stop |-> FALSE]
                  ELSE TryBestService(f[i - 1], sorted[i], started)]
           N == Len(sorted)
           v == f[N].w
<1>1. ConnectToBestServices(w, sorted, started) = v
  BY Zenon DEF ConnectToBestServices
<1>2. f = CHOOSE g : Trials(w, sorted, started, N, g)
  BY Zenon DEF Trials
<1> HIDE DEF f
<1>3. Trials(w, sorted, started, N, f)
  <2>1. \E g : Trials(w, sorted, started, N, g)
    BY TrialsExist
  <2> QED BY <1>2, <2>1, Zenon
<1> HIDE DEF N
<1>4. N \in Nat /\ \A i \in 1..N : sorted[i] \in Service
  BY DEF N
<1>5. Sound(v) /\ Moved(w, v) /\ Kept(w, v)
  BY <1>3, <1>4, TrialsAreSound
<1> HIDE DEF v
<1> QED BY <1>1, <1>5
-----------------------------------------------------------------------------
(***************************************************************************)
(* The sort.                                                               *)
(***************************************************************************)
\* An order of a set of services with the VPN is a list.
LEMMA OrderIsList ==
  ASSUME NEW S \in SUBSET Service, VpnService \in S, NEW p \in SetToSeqs(S)
  PROVE  p \in Lists /\ ToSet(p) = S
<1> DEFINE n == Cardinality(S)
<1>1. IsFiniteSet(S)
  BY WiredAssumption, FS_Subset
<1>2. n \in Nat /\ IsFiniteSet(1..n) /\ Cardinality(1..n) = n
  <2>1. n \in Nat
    BY <1>1, FS_CardinalityType
  <2> HIDE DEF n
  <2>2. IsFiniteSet(1..n) /\ Cardinality(1..n) = IF 1 > n THEN 0 ELSE n - 1 + 1
    BY <2>1, FS_Interval
  <2> QED BY <2>1, <2>2
<1>3. p \in [1..n -> S] /\ \A i, j \in 1..n : i # j => p[i] # p[j]
  BY DEF SetToSeqs
<1> HIDE DEF n
<1>4. p \in Injection(1..n, S)
  BY <1>3 DEF Injection, IsInjective
<1>5. p \in Surjection(1..n, S)
  <2>1. Cardinality(1..n) = Cardinality(S) <=> p \in Surjection(1..n, S)
    BY <1>1, <1>4, FS_Injection
  <2> QED BY <1>2, <2>1 DEF n
<1>6. \A s \in S : \E i \in 1..n : p[i] = s
  BY <1>5 DEF Surjection
<1>7. p \in Seq(Service) /\ DOMAIN p = 1..n
  BY <1>2, <1>3
<1>8. ToSet(p) = S
  BY <1>3, <1>6, <1>7 DEF ToSet
<1>9. IsInjective(p)
  BY <1>3, <1>7 DEF IsInjective
<1> QED BY <1>7, <1>8, <1>9 DEF Lists

\* A sorting of a list is a list of the same services.
LEMMA SortingIsList ==
  ASSUME NEW l \in Lists, NEW before, NEW p \in Sortings(l, before)
  PROVE  p \in Lists /\ ToSet(p) = ToSet(l) /\ Sorted(p, before)
<1> DEFINE S == ToSet(l)
<1>1. S \in SUBSET Service /\ VpnService \in S
  BY HeadIsListed
<1>2. p \in Orders[S] /\ Sorted(p, before)
  BY DEF Sortings
<1>3. Orders[S] = SetToSeqs(S)
  BY <1>1 DEF Orders
<1> HIDE DEF S
<1>4. p \in Lists /\ ToSet(p) = S
  BY <1>1, <1>2, <1>3, OrderIsList
<1> QED BY <1>2, <1>4 DEF S

Scores == Int \X Int

LEMMA PrefixIsKept ==
  ASSUME NEW A \in Seq(Scores), NEW B \in Seq(Scores)
  PROVE  /\ A \o B \in Seq(Scores)
         /\ \A i \in 1..Len(A) : i \in DOMAIN (A \o B) /\ (A \o B)[i] = A[i]
  BY ConcatProperties

LEMMA NothingIsAdded ==
  ASSUME NEW A \in Seq(Scores)
  PROVE  A \o << >> = A /\ << >> \o A = A
  BY ConcatEmptySeq

LEMMA ThreeScores ==
  ASSUME NEW a \in Scores, NEW b \in Scores, NEW c \in Scores
  PROVE  << a, b >> \o << c >> = << a, b, c >>
<1> DEFINE P == << a, b >>
           Q == << c >>
           R == << a, b, c >>
<1>1. P \in Seq(Scores) /\ Len(P) = 2 /\ P[1] = a /\ P[2] = b
  OBVIOUS
<1>2. Q \in Seq(Scores) /\ Len(Q) = 1 /\ Q[1] = c
  OBVIOUS
<1>3. R \in Seq(Scores) /\ Len(R) = 3 /\ R[1] = a /\ R[2] = b /\ R[3] = c
  OBVIOUS
<1> HIDE DEF P, Q, R
<1> DEFINE S == P \o Q
<1>4. /\ S \in Seq(Scores) /\ Len(S) = 3
      /\ \A i \in 1..3 : S[i] = IF i <= 2 THEN P[i] ELSE Q[i - 2]
  <2>1. /\ S \in Seq(Scores) /\ Len(S) = Len(P) + Len(Q)
        /\ \A i \in 1..Len(P) + Len(Q) :
             S[i] = IF i <= Len(P) THEN P[i] ELSE Q[i - Len(P)]
    BY <1>1, <1>2, ConcatProperties
  <2> HIDE DEF S
  <2> QED BY <1>1, <1>2, <2>1
<1> HIDE DEF S
<1>5. S[1] = R[1] /\ S[2] = R[2] /\ S[3] = R[3]
  BY <1>1, <1>2, <1>3, <1>4
<1>6. \A i \in 1..Len(S) : S[i] = R[i]
  BY <1>4, <1>5
<1> QED BY <1>3, <1>4, <1>6, SeqEqual DEF S, P, Q, R

LEMMA FlagsAreScores ==
  ASSUME NEW b, NEW c
  PROVE  <<Flag(b), Flag(c)>> \in Scores
  BY DEF Flag, Scores

LEMMA FiveScores ==
  ASSUME NEW a \in Scores, NEW b \in Scores, NEW c \in Scores, NEW d \in Scores,
         NEW e \in Scores
  PROVE  LET A == <<a, b, c, d, e>>
         IN  A \in Seq(Scores) /\ Len(A) = 5 /\ A[1] = a /\ A[2] = b
  OBVIOUS

LEMMA StateScores ==
  ASSUME NEW x, NEW y
  PROVE  LET A == StateCriteria(x, y)
         IN  /\ A \in Seq(Scores) /\ Len(A) = 5
             /\ A[1] = <<Flag(x.state = "online"), Flag(y.state = "online")>>
             /\ A[2] = <<Flag(IsConnected(x)), Flag(IsConnected(y))>>
<1> DEFINE A == StateCriteria(x, y)
<1> DEFINE p1 == <<Flag(x.state = "online"), Flag(y.state = "online")>>
           p2 == <<Flag(IsConnected(x)), Flag(IsConnected(y))>>
           p3 == <<Flag(x.state # "portal"), Flag(y.state # "portal")>>
           p4 == <<Flag(IsConnecting(x)), Flag(IsConnecting(y))>>
           p5 == <<Flag(~IsFailed(x)), Flag(~IsFailed(y))>>
<1>1. p1 \in Scores /\ p2 \in Scores /\ p3 \in Scores /\ p4 \in Scores /\ p5 \in Scores
  BY FlagsAreScores
<1>2. A = <<p1, p2, p3, p4, p5>>
  BY DEF StateCriteria
<1> HIDE DEF p1, p2, p3, p4, p5, A
<1>3. A \in Seq(Scores) /\ Len(A) = 5 /\ A[1] = p1 /\ A[2] = p2
  BY <1>1, <1>2, FiveScores
<1> QED BY <1>3 DEF p1, p2, A

\* A connected service comes before one that is not, whatever else they are.
LEMMA ConnectedPrecedes ==
  ASSUME NEW w, NEW a \in Service, NEW b \in Service, IsConnected(w.svc[a]),
         ~IsConnected(w.svc[b])
  PROVE  <<a, b>> \in Precedence(w, TRUE)
<1> DEFINE x == w.svc[a]
           y == w.svc[b]
           dep == IsDependentOn(w, a, b)
           car == IsDependentOn(w, b, a)
           A == StateCriteria(x, y)
           B == << <<Flag(x.connectable), Flag(y.connectable)>>,
                   <<Flag(dep), Flag(car)>> >>
           C == IF IsConnected(x) THEN << >> ELSE << <<Flag(x.auto), Flag(y.auto)>> >>
           D == << <<Flag(x.ever), Flag(y.ever)>> >>
           all == ((A \o B) \o C) \o D
<1>1. x.state # y.state /\ a # b
  BY DEF IsConnected
<1>2. Criteria(x, y, dep, car, TRUE) = all
  BY <1>1 DEF Criteria
<1>3. /\ A \in Seq(Scores) /\ Len(A) = 5
      /\ A[1] = <<Flag(x.state = "online"), Flag(y.state = "online")>>
      /\ A[2] = <<Flag(IsConnected(x)), Flag(IsConnected(y))>>
  BY StateScores
<1>4. B \in Seq(Scores) /\ C \in Seq(Scores) /\ D \in Seq(Scores)
  BY FlagsAreScores
<1>5. /\ A[1][1] > A[1][2] \/ A[1][1] = A[1][2]
      /\ A[2][1] > A[2][2]
  BY <1>3 DEF Flag, IsConnected, ConnectedStates
<1> HIDE DEF A, B, C, D
<1>6. /\ 1 \in DOMAIN all /\ all[1] = A[1]
      /\ 2 \in DOMAIN all /\ all[2] = A[2]
  <2> DEFINE AB == A \o B
             ABC == AB \o C
  <2>0. 1 \in 1..Len(A) /\ 2 \in 1..Len(A)
    BY <1>3
  <2>1. /\ AB \in Seq(Scores) /\ 1 \in DOMAIN AB /\ 2 \in DOMAIN AB
        /\ AB[1] = A[1] /\ AB[2] = A[2]
    BY <1>3, <1>4, <2>0, PrefixIsKept
  <2> HIDE DEF AB
  <2>2. 1 \in 1..Len(AB) /\ 2 \in 1..Len(AB)
    BY <2>1
  <2>3. /\ ABC \in Seq(Scores) /\ 1 \in DOMAIN ABC /\ 2 \in DOMAIN ABC
        /\ ABC[1] = A[1] /\ ABC[2] = A[2]
    BY <1>4, <2>1, <2>2, PrefixIsKept
  <2> HIDE DEF ABC
  <2>4. 1 \in 1..Len(ABC) /\ 2 \in 1..Len(ABC)
    BY <2>3
  <2>5. /\ 1 \in DOMAIN (ABC \o D) /\ 2 \in DOMAIN (ABC \o D)
        /\ (ABC \o D)[1] = A[1] /\ (ABC \o D)[2] = A[2]
    BY <1>4, <2>3, <2>4, PrefixIsKept
  <2> QED BY <2>5 DEF AB, ABC
<1> HIDE DEF all
<1>7. Decides(all)
  <2>1. CASE A[1][1] > A[1][2]
    <3>1. \A j \in 1 .. 1 - 1 : all[j][1] = all[j][2]
      OBVIOUS
    <3> QED BY <1>6, <2>1, <3>1 DEF Decides
  <2>2. CASE A[1][1] = A[1][2]
    <3>1. \A j \in 1 .. 2 - 1 : all[j][1] = all[j][2]
      BY <1>6, <2>2
    <3> QED BY <1>5, <1>6, <3>1 DEF Decides
  <2> QED BY <1>5, <2>1, <2>2
<1>8. Compare(w.svc, a, b, dep, car, TRUE)
  BY <1>2, <1>7 DEF Compare
<1> HIDE DEF dep, car
<1>9. <<a, b>> \in Pairs
  BY DEF Pairs
<1> QED BY <1>1, <1>8, <1>9 DEF Precedence, dep, car

\* The VPN comes before any other service, if both are connected.
LEMMA VpnPrecedes ==
  ASSUME NEW w, Attuned(w, VpnService), NEW b \in Wired, Attuned(w, b),
         IsConnected(w.svc[VpnService]), IsConnected(w.svc[b]), VpnRanksFirst
  PROVE  <<VpnService, b>> \in Precedence(w, TRUE)
<1> DEFINE a == VpnService
           x == w.svc[a]
           y == w.svc[b]
           dep == IsDependentOn(w, a, b)
           car == IsDependentOn(w, b, a)
           p1 == <<Flag(x.connectable), Flag(y.connectable)>>
           p2 == <<Flag(dep), Flag(car)>>
           p3 == <<Flag(x.ever), Flag(y.ever)>>
           all == Criteria(x, y, dep, car, TRUE)
<1>1. a \in Service /\ b \in Service /\ a # b
  BY VpnOfService
<1>2. x.state = "online"
  BY DEF IsConnected, ConnectedStates, Attuned
<1>3. ~car
  BY <1>1 DEF IsDependentOn
<1>4. p1[1] = p1[2] /\ p3[1] = p3[2] /\ (p2[1] > p2[2] \/ p2[1] = p2[2])
  BY <1>3 DEF Attuned, Flag
<1>5. Decides(all) \/ Tied(all)
  <2>1. CASE y.state # "online"
    <3> DEFINE A == StateCriteria(x, y)
               B == << p1, p2 >>
               D == << p3 >>
    <3>1. all = ((A \o B) \o << >>) \o D
      BY <1>2, <2>1 DEF Criteria
    <3>2. B \in Seq(Scores) /\ D \in Seq(Scores)
      BY FlagsAreScores
    <3>3. A \in Seq(Scores) /\ Len(A) = 5
          /\ A[1] = <<Flag(x.state = "online"), Flag(y.state = "online")>>
      BY StateScores
    <3>4. A[1][1] > A[1][2]
      BY <1>2, <2>1, <3>3 DEF Flag
    <3> HIDE DEF A, B, D
    <3>5. 1 \in 1..Len(A)
      BY <3>3
    <3>6. /\ A \o B \in Seq(Scores) /\ 1 \in 1..Len(A \o B) /\ (A \o B)[1] = A[1]
          /\ (A \o B) \o << >> = A \o B
      <4> DEFINE AB == A \o B
      <4>1. AB \in Seq(Scores) /\ 1 \in DOMAIN AB /\ AB[1] = A[1]
        BY <3>2, <3>3, <3>5, PrefixIsKept
      <4> HIDE DEF AB
      <4> QED BY <4>1, NothingIsAdded DEF AB
    <3>7. 1 \in DOMAIN all /\ all[1] = A[1]
      <4> DEFINE AB == A \o B
      <4>1. AB \in Seq(Scores) /\ 1 \in 1..Len(AB) /\ AB[1] = A[1] /\ all = AB \o D
        BY <3>1, <3>6
      <4> HIDE DEF AB, all
      <4>2. 1 \in DOMAIN (AB \o D) /\ (AB \o D)[1] = AB[1]
        BY <3>2, <4>1, PrefixIsKept
      <4> QED BY <4>1, <4>2
    <3>8. \A j \in 1 .. 1 - 1 : all[j][1] = all[j][2]
      OBVIOUS
    <3> QED BY <3>4, <3>7, <3>8 DEF Decides
  <2>2. CASE y.state = "online"
    <3> HIDE DEF dep, car
    <3>1. all = ((<< >> \o << p1, p2 >>) \o << >>) \o << p3 >>
      BY <1>2, <2>2 DEF Criteria
    <3>2. p1 \in Scores /\ p2 \in Scores /\ p3 \in Scores
      BY FlagsAreScores
    <3> HIDE DEF p1, p2, p3, all
    <3>3. all = << p1, p2, p3 >>
      <4> DEFINE P == << p1, p2 >>
      <4>1. P \in Seq(Scores)
        BY <3>2
      <4> HIDE DEF P
      <4>2. all = P \o << p3 >>
        BY <3>1, <4>1, NothingIsAdded DEF P
      <4> QED BY <3>2, <4>2, ThreeScores DEF P
    <3>4. CASE p2[1] > p2[2]
      <4>1. 2 \in DOMAIN all /\ all[2] = p2 /\ all[1] = p1
        BY <3>3
      <4>2. \A j \in 1 .. 2 - 1 : all[j][1] = all[j][2]
        BY <1>4, <4>1
      <4> QED BY <3>4, <4>1, <4>2 DEF Decides
    <3>5. CASE p2[1] = p2[2]
      <4>1. DOMAIN all = 1..3 /\ all[1] = p1 /\ all[2] = p2 /\ all[3] = p3
        BY <3>3
      <4> QED BY <1>4, <3>5, <4>1 DEF Tied
    <3> QED BY <1>4, <3>4, <3>5
  <2> QED BY <2>1, <2>2
<1> HIDE DEF all
<1>6. Compare(w.svc, a, b, dep, car, TRUE)
  BY <1>5 DEF Compare, VpnRanksFirst, all
<1> HIDE DEF dep, car
<1>7. <<a, b>> \in Pairs
  BY <1>1 DEF Pairs
<1> QED BY <1>1, <1>6, <1>7 DEF Precedence, dep, car

\* A sorted list has a connected service at its head, if it has one at all, and the
\* VPN if that is connected.
LEMMA SortedHead ==
  ASSUME NEW w, \A s \in Service : Attuned(w, s), NEW l \in Lists,
         Sorted(l, Precedence(w, TRUE))
  PROVE  /\ (\E s \in ToSet(l) : IsConnected(w.svc[s])) => IsConnected(w.svc[Head(l)])
         /\ VpnRanksFirst /\ IsConnected(w.svc[VpnService]) => Head(l) = VpnService
<1>1. /\ Len(l) \in Nat \ {0} /\ DOMAIN l = 1..Len(l) /\ Head(l) = l[1]
      /\ \A i \in 1..Len(l) : l[i] \in Service
      /\ \E i \in 1..Len(l) : l[i] = VpnService
  BY HeadIsListed DEF ToSet
<1>2. \A i \in 1..Len(l) - 1 : <<l[i + 1], l[i]>> \notin Precedence(w, TRUE)
  BY DEF Sorted
<1>3. \A i \in 1..Len(l) : i > 1 =>
        /\ i - 1 \in 1..Len(l) /\ i - 1 \in 1..Len(l) - 1
        /\ <<l[i], l[i - 1]>> \notin Precedence(w, TRUE)
  <2> TAKE i \in 1..Len(l)
  <2> HAVE i > 1
  <2> DEFINE k == i - 1
  <2>1. k \in 1..Len(l) /\ k \in 1..Len(l) - 1 /\ k + 1 = i
    BY <1>1
  <2> HIDE DEF k
  <2>2. <<l[k + 1], l[k]>> \notin Precedence(w, TRUE)
    BY <1>2, <2>1
  <2> QED BY <2>1, <2>2 DEF k
<1>4. ASSUME NEW s \in ToSet(l), IsConnected(w.svc[s]), ~IsConnected(w.svc[Head(l)])
      PROVE  FALSE
  <2> DEFINE T == {i \in 1..Len(l) : IsConnected(w.svc[l[i]])}
  <2>1. T # {} /\ T \subseteq Nat
    BY <1>1, <1>4 DEF ToSet
  <2>2. PICK i \in T : \A j \in T : ~(j < i)
    BY <2>1, LeastNumber
  <2>3. i \in 1..Len(l) /\ i > 1
    BY <1>1, <1>4
  <2>4. ~IsConnected(w.svc[l[i - 1]])
    BY <1>3, <2>2, <2>3
  <2> QED BY <1>1, <1>3, <2>2, <2>3, <2>4, ConnectedPrecedes
<1>5. ASSUME VpnRanksFirst, IsConnected(w.svc[VpnService]), Head(l) # VpnService
      PROVE  FALSE
  <2>1. PICK i \in 1..Len(l) : l[i] = VpnService
    BY <1>1
  <2>2. i > 1 /\ i - 1 \in 1..Len(l)
    BY <1>1, <1>3, <1>5, <2>1
  <2> DEFINE b == l[i - 1]
  <2>3. b \in Service /\ b # VpnService
    BY <1>1, <2>1, <2>2 DEF Lists, IsInjective
  <2>4. b \in Wired
    BY <2>3, VpnOfService
  <2>5. <<VpnService, b>> \notin Precedence(w, TRUE)
    BY <1>3, <2>1, <2>2
  <2> HIDE DEF b
  <2>6. CASE IsConnected(w.svc[b])
    BY <1>5, <2>3, <2>4, <2>5, <2>6, VpnOfService, VpnPrecedes
  <2>7. CASE ~IsConnected(w.svc[b])
    BY <1>5, <2>3, <2>5, <2>7, VpnOfService, ConnectedPrecedes
  <2> QED BY <2>6, <2>7
<1> QED BY <1>4, <1>5

\* The default connection goes to, or leaves, a service whose connection stands.
LEMMA DefaultIsMoved ==
  ASSUME NEW w \in Worlds, NEW s \in Service, NEW d, d = DeviceOf[s], Attuned(w, s),
         NEW b \in BOOLEAN, b => w.svc[s].conn
  PROVE  LET v == SetIsDefault(w, d, b)
         IN  /\ Near(w, v, s) /\ Attuned(v, s) /\ v.dev[d].default = b
             /\ v.svc[s].conn = w.svc[s].conn
             /\ Carried(w) => Carried(v)
<1> DEFINE v == SetIsDefault(w, d, b)
<1>1. w.dev[d].selected \in {s, NoService}
  BY DEF Attuned
<1>2. /\ Near(w, v, s)
      /\ v.dev[d].default = b
      /\ v.dev[d].selected = w.dev[d].selected
      /\ v.dev[d].conn = w.dev[d].conn
      /\ v.svc[s].conn = w.svc[s].conn
      /\ w.svc[s].ever => v.svc[s].ever
      /\ \/ v.svc[s].state = w.svc[s].state
         \/ w.svc[s].state = "portal" /\ v.svc[s].state = "online"
      /\ b /\ v.svc[s].state = "portal" =>
           \/ v.dev[d].portal # "none"
           \/ w.dev[d].default /\ v.dev[d].portal = w.dev[d].portal
           \/ ~(w.dev[d].selected = s /\ w.dev[d].conn)
  BY <1>1, DefaultIsSet
<1> HIDE DEF v
<1>3. IsConnected(v.svc[s]) <=> IsConnected(w.svc[s])
  BY <1>2 DEF IsConnected, ConnectedStates
<1>4. v.svc[s].connectable
  BY <1>2 DEF Near, Moved, Attuned
<1>5. ASSUME v.svc[s].state = "portal", v.dev[d].default, PortalRetry
      PROVE  v.dev[d].portal # "none"
  <2>1. w.svc[s].state = "portal" /\ b /\ w.svc[s].conn
    BY <1>2, <1>5
  <2>2. w.dev[d].selected = s /\ w.dev[d].conn
        /\ (w.dev[d].default => w.dev[d].portal # "none")
    BY <1>5, <2>1 DEF Attuned
  <2> QED BY <1>2, <1>5, <2>1, <2>2
<1>6. Attuned(v, s)
  BY <1>2, <1>3, <1>4, <1>5 DEF Attuned
<1>7. Carried(w) => Carried(v)
  BY <1>2, NearIsCarried
<1> QED BY <1>2, <1>6, <1>7 DEF v

LEMMA AttunedIsKept ==
  ASSUME NEW w, NEW v, NEW s \in Service, Near(w, v, s), NEW t \in Service \ {s},
         Attuned(w, t)
  PROVE  /\ Attuned(v, t)
         /\ v.dev[DeviceOf[t]].default = w.dev[DeviceOf[t]].default
<1>1. v.svc[t] = w.svc[t] /\ v.dev[DeviceOf[t]] = w.dev[DeviceOf[t]]
  BY DeviceOfService DEF Near, Only
<1> QED BY <1>1 DEF Attuned

\* After the sort has moved the default connection it is that of the new head, if
\* that has one, and there is no other.
LEMMA DefaultFollowsHead ==
  ASSUME NEW w \in Worlds, \A s \in Service : Attuned(w, s), Carried(w), Published(w),
         Unowned(w), NEW old \in Service,
         \A s \in Service : w.dev[DeviceOf[s]].default => s = old
  PROVE  LET v == MoveDefault(w, old)
         IN  /\ Sound(v) /\ Moved(w, v)
             /\ v.svc[Head(w.list)].conn => v.dev[DeviceOf[Head(w.list)]].default
<1> DEFINE h == Head(w.list)
           a == SetIsDefault(w, DeviceOf[old], FALSE)
           v == IF w.svc[old].conn /\ (~w.svc[h].conn \/ h # old) THEN a ELSE w
           b == SetIsDefault(v, DeviceOf[h], TRUE)
           x == IF v.svc[h].conn THEN b ELSE v
<1>1. MoveDefault(w, old) = x
  BY DEF MoveDefault
<1>2. h \in Service
  BY HeadIsListed DEF Worlds
<1>3. /\ Near(w, a, old) /\ Attuned(a, old) /\ ~a.dev[DeviceOf[old]].default
      /\ a.svc[old].conn = w.svc[old].conn /\ Carried(a)
  <2> PICK no \in BOOLEAN : no = FALSE
    OBVIOUS
  <2> DEFINE c == SetIsDefault(w, DeviceOf[old], no)
  <2>1. /\ Near(w, c, old) /\ Attuned(c, old) /\ c.dev[DeviceOf[old]].default = no
        /\ c.svc[old].conn = w.svc[old].conn /\ Carried(c)
    BY DefaultIsMoved
  <2>2. c = a
    OBVIOUS
  <2> HIDE DEF a, c
  <2> QED BY <2>1, <2>2
<1> HIDE DEF a, h
<1>4. /\ v \in Worlds /\ Moved(w, v) /\ \A s \in Service : Attuned(v, s)
      /\ Carried(v) /\ Published(v) /\ Unowned(v)
      /\ \A s \in Service : v.dev[DeviceOf[s]].default => s = h
  <2>1. CASE w.svc[old].conn /\ (~w.svc[h].conn \/ h # old)
    <3>1. v = a
      BY <2>1
    <3>2. Moved(w, a) /\ Only(w, a, {old}) /\ a \in Worlds
      BY <1>3 DEF Near, Moved
    <3>3. Published(a) /\ Unowned(a)
      BY <3>2, RestIsKept
    <3>4. ASSUME NEW s \in Service
          PROVE  Attuned(a, s) /\ ~a.dev[DeviceOf[s]].default
      <4>1. CASE s = old
        BY <1>3, <4>1
      <4>2. CASE s # old
        <5>1. /\ Attuned(a, s)
              /\ a.dev[DeviceOf[s]].default = w.dev[DeviceOf[s]].default
          BY <1>3, <4>2, AttunedIsKept
        <5>2. ~w.dev[DeviceOf[s]].default
          BY <4>2
        <5> QED BY <5>1, <5>2
      <4> QED BY <4>1, <4>2
    <3> HIDE DEF v
    <3> QED BY <1>3, <3>1, <3>2, <3>3, <3>4
  <2>2. CASE ~(w.svc[old].conn /\ (~w.svc[h].conn \/ h # old))
    <3>1. v = w
      BY <2>2
    <3>2. ASSUME NEW s \in Service, w.dev[DeviceOf[s]].default PROVE s = h
      <4>1. s = old /\ w.svc[s].conn
        BY <3>2 DEF Attuned
      <4> QED BY <2>2, <4>1
    <3> HIDE DEF v
    <3> QED BY <3>1, <3>2, MovedIsReflexive
  <2> QED BY <2>1, <2>2
<1> HIDE DEF v
<1>5. CASE v.svc[h].conn
  <2>1. /\ Near(v, b, h) /\ Attuned(b, h) /\ b.dev[DeviceOf[h]].default
        /\ b.svc[h].conn = v.svc[h].conn /\ Carried(b)
    <3> PICK yes \in BOOLEAN : yes = TRUE
      OBVIOUS
    <3> DEFINE c == SetIsDefault(v, DeviceOf[h], yes)
    <3>0. /\ v \in Worlds /\ h \in Service /\ Attuned(v, h) /\ Carried(v)
          /\ yes \in BOOLEAN /\ yes => v.svc[h].conn
      BY <1>2, <1>4, <1>5
    <3>1. /\ Near(v, c, h) /\ Attuned(c, h) /\ c.dev[DeviceOf[h]].default = yes
          /\ c.svc[h].conn = v.svc[h].conn /\ Carried(c)
      BY ONLY <3>0, DefaultIsMoved
    <3>2. c = b
      OBVIOUS
    <3> HIDE DEF b, c
    <3> QED BY <3>1, <3>2
  <2> HIDE DEF b
  <2>2. Moved(v, b) /\ Only(v, b, {h}) /\ b \in Worlds
    BY <2>1 DEF Near, Moved
  <2>3. Published(b) /\ Unowned(b)
    BY <1>2, <1>4, <2>2, RestIsKept
  <2>4. Moved(w, b)
    BY <1>4, <2>2, MovedIsTransitive
  <2>5. Head(b.list) = h
    BY <2>4 DEF Moved, h
  <2>6. ASSUME NEW s \in Service PROVE Agrees(b, s)
    <3>1. CASE s = h
      BY <2>1, <2>5, <3>1 DEF Agrees
    <3>2. CASE s # h
      <4>1. /\ Attuned(b, s)
            /\ b.dev[DeviceOf[s]].default = v.dev[DeviceOf[s]].default
        BY <1>2, <1>4, <2>1, <3>2, AttunedIsKept
      <4> QED BY <1>4, <3>2, <4>1 DEF Agrees
    <3> QED BY <3>1, <3>2
  <2>7. Sound(b)
    BY <2>1, <2>2, <2>3, <2>6 DEF Sound
  <2>8. x = b
    BY <1>5
  <2> HIDE DEF x
  <2> QED BY <1>1, <2>1, <2>4, <2>7, <2>8 DEF h
<1>6. CASE ~v.svc[h].conn
  <2>1. Head(v.list) = h
    BY <1>4 DEF Moved, h
  <2>2. Sound(v)
    BY <1>4, <2>1 DEF Sound, Agrees
  <2>3. x = v
    BY <1>6
  <2> HIDE DEF x
  <2> QED BY <1>1, <1>4, <1>6, <2>2, <2>3 DEF h
<1> QED BY <1>5, <1>6

\* A world with another published state.
WithPublished(w, p) == [w EXCEPT !.published = p]

\* What is published after a sort is true of the world it leaves.
LEMMA StateIsPublished ==
  ASSUME NEW w, Sound(w)
  PROVE  LET v == RefreshConnectionState(w)
         IN  /\ Sound(v) /\ v.published.state = DefaultState(v)
             /\ v.svc = w.svc /\ v.dev = w.dev /\ v.list = w.list /\ v.sort = w.sort
             /\ v.suspending = w.suspending
<1> DEFINE p == [state |-> DefaultState(w), connected |-> ManagerIsConnected(w)]
           v == WithPublished(w, p)
           h == Head(w.list)
<1>1. w \in Worlds /\ h \in Service /\ w.list # << >> /\ w.svc[h] \in ServiceRecords
  BY HeadIsListed, WorldTypes DEF Sound, Worlds
<1>2. CASE w.published.state = DefaultState(w)
  <2>1. RefreshConnectionState(w) = w
    BY <1>2 DEF RefreshConnectionState
  <2> QED BY <1>2, <2>1
<1>3. CASE w.published.state # DefaultState(w)
  <2>1. RefreshConnectionState(w) = v
    BY <1>3 DEF RefreshConnectionState, WithPublished
  <2>2. DefaultState(w) = IF w.svc[h].conn THEN w.svc[h].state ELSE "idle"
    BY <1>1 DEF DefaultState
  <2>3. w.svc[h].conn <=> IsConnected(w.svc[h])
    BY <1>1 DEF Sound, Agrees, Attuned
  <2>4. DefaultState(w) \in ConnectStates
    BY <1>1, <2>2 DEF ServiceRecords, ConnectStates
  <2>5. ManagerIsConnected(w) <=> DefaultState(w) \in ConnectedStates
    BY <1>1, <2>2, <2>3 DEF ManagerIsConnected, IsConnected, ConnectedStates
  <2>6. ManagerIsConnected(w) \in BOOLEAN
    BY DEF ManagerIsConnected, IsConnected
  <2>7. /\ p \in [state : ConnectStates, connected : BOOLEAN]
        /\ p.state = DefaultState(w)
        /\ p.connected <=> p.state \in ConnectedStates
    BY <2>4, <2>5, <2>6
  <2> HIDE DEF p
  <2>8. /\ v \in Worlds /\ v.published = p
        /\ v.svc = w.svc /\ v.dev = w.dev /\ v.list = w.list /\ v.sort = w.sort
        /\ v.lower = w.lower /\ v.query = w.query /\ v.suspending = w.suspending
    BY <1>1, <2>7 DEF WithPublished, Worlds
  <2> HIDE DEF v
  <2>9. \A s \in Service : Agrees(v, s)
    BY <2>8 DEF Sound, Agrees, Attuned
  <2>10. Carried(v) /\ Published(v) /\ Unowned(v)
    BY <2>7, <2>8 DEF Sound, Carried, Published, Unowned
  <2>11. DefaultState(v) = DefaultState(w)
    BY <2>8 DEF DefaultState
  <2> QED BY <2>1, <2>7, <2>8, <2>9, <2>10, <2>11 DEF Sound
<1> QED BY <1>2, <1>3
-----------------------------------------------------------------------------
(***************************************************************************)
(* The actions.                                                            *)
(***************************************************************************)
LEMMA InvBecomes ==
  ASSUME NEW STATE w, Good(w), Settled(w), Becomes(w)
  PROVE  Inv'
<1>1. w \in Worlds
  BY DEF Good, Sound
<1>2. World' = w
  BY <1>1 DEF Becomes, World, Worlds
<1> QED BY <1>2 DEF Inv

LEMMA WorldFields ==
  /\ World.svc = svc /\ World.dev = dev /\ World.list = list /\ World.sort = sort
  /\ World.lower = lower /\ World.query = query /\ World.suspending = suspending
  /\ World.published = published
  BY DEF World

\* What the order of the list, the links and the settings of services may become.
LEMMA SoundIsKept ==
  ASSUME NEW w, Sound(w), NEW v \in Worlds,
         v.lower = w.lower, v.query = w.query, v.published = w.published,
         \A d \in Device : /\ v.dev[d].selected = w.dev[d].selected
                           /\ v.dev[d].conn = w.dev[d].conn
                           /\ v.dev[d].default = w.dev[d].default
                           /\ v.dev[d].portal = w.dev[d].portal
                           /\ w.dev[d].default => Head(v.list) = Head(w.list),
         \A s \in Service : /\ v.svc[s].conn = w.svc[s].conn
                            /\ v.svc[s].state = w.svc[s].state
                            /\ v.svc[s].connectable = w.svc[s].connectable
                            /\ w.svc[s].ever => v.svc[s].ever
  PROVE  Sound(v)
<1>1. \A s \in Service : DeviceOf[s] \in Device
  BY DeviceOfService
<1>2. ASSUME NEW s \in Service PROVE Agrees(v, s)
  <2>1. Agrees(w, s)
    BY DEF Sound
  <2>2. /\ v.dev[DeviceOf[s]].selected = w.dev[DeviceOf[s]].selected
        /\ v.dev[DeviceOf[s]].conn = w.dev[DeviceOf[s]].conn
        /\ v.dev[DeviceOf[s]].default = w.dev[DeviceOf[s]].default
        /\ v.dev[DeviceOf[s]].portal = w.dev[DeviceOf[s]].portal
        /\ w.dev[DeviceOf[s]].default => Head(v.list) = Head(w.list)
    BY <1>1
  <2> QED BY <2>1, <2>2 DEF Agrees, Attuned, IsConnected
<1>3. Carried(v)
  <2>1. w.lower # NoDevice => w.lower \in Device
    BY WorldTypes DEF Sound
  <2> QED BY <2>1, VpnOfService DEF Sound, Carried
<1>4. Published(v) /\ Unowned(v)
  BY DEF Sound, Published, Unowned
<1> QED BY <1>2, <1>3, <1>4 DEF Sound

\* UpdateService changes nothing but a setting, and posts a sort.
LEMMA UpdateIsSafe ==
  ASSUME NEW w, Good(w), NEW s \in Service
  PROVE  LET v == UpdateService(w, s) IN Good(v) /\ Settled(v)
<1> DEFINE v == UpdateService(w, s)
<1>1. w \in Worlds
  BY DEF Good, Sound
<1>2. /\ Inside(w, v, s) /\ v.sort = TRUE
      /\ v.svc[s].state = w.svc[s].state
  BY <1>1, ServiceUpdates
<1> HIDE DEF v
<1>3. Sound(v)
  BY <1>2, SoundIsKept DEF Inside, Good
<1>4. Enlisted(v)
  BY <1>2 DEF Inside, Good, Enlisted
<1> QED BY <1>2, <1>3, <1>4 DEF Good, Settled, v

\* A world after the sort.
WithList(w, l) == [w EXCEPT !.sort = FALSE, !.list = l]

LEMMA ListChanges ==
  ASSUME NEW w \in Worlds, NEW l \in Lists
  PROVE  LET v == WithList(w, l)
         IN  /\ v \in Worlds /\ v.list = l
             /\ v.svc = w.svc /\ v.dev = w.dev /\ v.lower = w.lower
             /\ v.query = w.query /\ v.suspending = w.suspending
             /\ v.published = w.published
  BY DEF WithList, Worlds

LEMMA SortIsSafe ==
  ASSUME Inv, SortServicesTask
  PROVE  Inv'
<1> PICK sorted \in Sortings(list, Precedence(World, TRUE)), started \in BOOLEAN :
       LET w == WithList(World, sorted)
           v == IF list = << >> THEN w ELSE MoveDefault(w, Head(list))
       IN  Becomes(AutoConnect(RefreshConnectionState(v), started))
  BY Zenon DEF SortServicesTask, WithList
<1> DEFINE w == WithList(World, sorted)
           v == MoveDefault(w, Head(list))
           r == RefreshConnectionState(v)
           u == AutoConnect(r, started)
<1>1. Sound(World) /\ Enlisted(World) /\ World \in Worlds /\ list \in Lists
  BY WorldFields DEF Inv, Good, Sound, Worlds
<1>2. Head(list) \in Service /\ list # << >>
  BY <1>1, HeadIsListed
<1>3. Becomes(u)
  BY <1>2
<1>4. /\ sorted \in Lists /\ ToSet(sorted) = ToSet(list)
      /\ Sorted(sorted, Precedence(World, TRUE))
  BY <1>1, SortingIsList
<1>5. \A s \in Service : Attuned(World, s)
  BY <1>1 DEF Sound, Agrees
<1>6. /\ (\E s \in ToSet(sorted) : IsConnected(svc[s])) => IsConnected(svc[Head(sorted)])
      /\ VpnRanksFirst /\ IsConnected(svc[VpnService]) => Head(sorted) = VpnService
  BY <1>4, <1>5, SortedHead, WorldFields
<1>7. /\ w \in Worlds /\ w.list = sorted
      /\ w.svc = svc /\ w.dev = dev /\ w.lower = lower
      /\ w.query = query /\ w.suspending = suspending
      /\ w.published = published
  BY <1>1, <1>4, ListChanges, WorldFields
<1> HIDE DEF w, u, r, v
<1>8. /\ \A s \in Service : Attuned(w, s)
      /\ Carried(w) /\ Published(w) /\ Unowned(w)
      /\ \A s \in Service : w.dev[DeviceOf[s]].default => s = Head(list)
  BY <1>1, <1>5, <1>7, WorldFields
     DEF Sound, Agrees, Attuned, Carried, Published, Unowned
<1>9. /\ Sound(v) /\ Moved(w, v)
      /\ v.svc[Head(sorted)].conn => v.dev[DeviceOf[Head(sorted)]].default
  BY <1>2, <1>7, <1>8, DefaultFollowsHead DEF v
<1>10. /\ Sound(r) /\ r.published.state = DefaultState(r)
       /\ r.svc = v.svc /\ r.dev = v.dev /\ r.list = v.list /\ r.sort = v.sort
       /\ r.suspending = v.suspending
  BY <1>9, StateIsPublished DEF r
<1>11. /\ Sound(u) /\ Moved(r, u)
       /\ ~u.sort => /\ u = r
                     /\ ~r.suspending =>
                          \A s \in ToSet(r.list) :
                            ~(r.svc[s].auto /\ IsAutoConnectable(r, s))
  BY <1>10, AutoConnectIsSound DEF u
<1>12. Enlisted(u)
  <2>1. r.list = sorted /\ \A d \in Device : r.dev[d].running = dev[d].running
    BY <1>7, <1>9, <1>10 DEF Moved
  <2>2. Enlisted(r)
    BY <1>1, <1>4, <2>1, VpnOfService, DeviceOfService, WorldFields DEF Enlisted
  <2> QED BY <1>11, <2>2, EnlistedIsKept
<1>13. ASSUME ~u.sort
       PROVE  /\ (\E s \in ToSet(u.list) : IsConnected(u.svc[s]))
                   => IsConnected(u.svc[Head(u.list)])
              /\ u.svc[Head(u.list)].conn
                   => u.dev[DeviceOf[Head(u.list)]].default
              /\ u.published.state = DefaultState(u)
              /\ VpnRanksFirst /\ IsConnected(u.svc[VpnService])
                   => Head(u.list) = VpnService
              /\ ~u.suspending =>
                   \A s \in ToSet(u.list) :
                     ~(u.svc[s].auto /\ IsAutoConnectable(u, s))
  <2>1. u = r /\ ~v.sort
    BY <1>10, <1>11, <1>13
  <2>2. u.list = sorted /\ u.svc = v.svc /\ u.dev = v.dev
    BY <1>7, <1>9, <1>10, <2>1 DEF Moved
  <2>3. ToSet(sorted) \subseteq Service /\ Head(sorted) \in Service
    BY <1>4, HeadIsListed
  <2>4. \A s \in Service : IsConnected(u.svc[s]) <=> IsConnected(svc[s])
    BY <1>7, <1>9, <2>1, <2>2 DEF Moved, Still, IsConnected
  <2>5. (\E s \in ToSet(sorted) : IsConnected(u.svc[s]))
           => IsConnected(u.svc[Head(sorted)])
    BY <1>6, <2>3, <2>4
  <2>6. VpnRanksFirst /\ IsConnected(u.svc[VpnService]) => Head(sorted) = VpnService
    BY <1>6, <2>4, VpnOfService
  <2> QED BY <1>9, <1>10, <1>11, <1>13, <2>1, <2>2, <2>5, <2>6
<1>14. Settled(u)
  BY <1>13 DEF Settled
<1>15. Good(u)
  BY <1>11, <1>12 DEF Good
<1> QED BY <1>3, <1>14, <1>15, InvBecomes
\* A handler that gives no service a connection is safe.
LEMMA KeptIsSafe ==
  ASSUME Inv, NEW STATE v, Sound(v), Moved(World, v), Kept(World, v), Becomes(v)
  PROVE  Inv'
<1>1. Follows(World, v)
  BY KeptFollows DEF Inv, Good
<1>2. Good(v) /\ Settled(v)
  BY <1>1, FollowingIsSafe DEF Inv
<1> QED BY <1>2, InvBecomes

\* Settings of a service are of no concern to its connection.
LEMMA InsideIsSound ==
  ASSUME NEW w, Sound(w), NEW s \in Service, NEW v, Inside(w, v, s),
         v.svc[s].state = w.svc[s].state
  PROVE  Sound(v) /\ (Enlisted(w) => Enlisted(v))
<1>1. Sound(v)
  BY SoundIsKept DEF Inside
<1> QED BY <1>1 DEF Inside, Enlisted

LEMMA InsideIsKept ==
  ASSUME NEW w, NEW s \in Service, NEW v, Inside(w, v, s)
  PROVE  Kept(w, v)
  BY DEF Inside, Kept

LEMMA UserConnectIsSafe ==
  ASSUME Inv, NEW s \in Service, NEW started \in BOOLEAN, UserConnect(s, started)
  PROVE  Inv'
<1> DEFINE v == Connect(World, s, started)
<1>1. Sound(v) /\ Moved(World, v) /\ Kept(World, v)
  BY ServiceConnects DEF Inv, Good
<1>2. Becomes(v)
  BY DEF UserConnect
<1> HIDE DEF v
<1> QED BY <1>1, <1>2, KeptIsSafe

LEMMA UserDisconnectIsSafe ==
  ASSUME Inv, NEW s \in Service, UserDisconnect(s)
  PROVE  Inv'
<1> DEFINE v == Disconnect(World, s)
           r == [v.svc[s] EXCEPT !.explicit = TRUE]
           u == WithService(v, s, r)
<1>1. Sound(v) /\ Moved(World, v) /\ Kept(World, v)
  <2>1. CASE s \in Vpn
    BY <2>1, VpnEnds DEF Inv, Good, Disconnect
  <2>2. CASE s \notin Vpn
    BY <2>2, VpnOfService, ConnectionIsDropped DEF Inv, Good, Disconnect
  <2> QED BY <2>1, <2>2
<1>2. Becomes([v EXCEPT !.svc[s].explicit = TRUE])
  BY DEF UserDisconnect
<1> HIDE DEF v
<1>3. v \in Worlds /\ v.svc[s] \in ServiceRecords
  BY <1>1, WorldTypes DEF Sound
<1>4. Becomes(u)
  BY <1>2 DEF WithService
<1>5. /\ r \in ServiceRecords /\ r.conn = v.svc[s].conn
      /\ r.connectable = v.svc[s].connectable /\ r.ever = v.svc[s].ever
      /\ r.state = v.svc[s].state /\ r.auto = v.svc[s].auto
      /\ r.explicit = TRUE /\ r.throttled = v.svc[s].throttled
  BY <1>3 DEF ServiceRecords
<1> HIDE DEF r
<1>6. Inside(v, u, s) /\ u.svc[s] = r
  BY <1>3, <1>5, ServiceChanges
<1> HIDE DEF u
<1>7. Still(v, u, s)
  BY <1>5, <1>6 DEF Still
<1>8. Moved(v, u) /\ Kept(v, u) /\ Sound(u)
  BY <1>1, <1>3, <1>5, <1>6, <1>7, InsideMoves, InsideIsKept, InsideIsSound
<1>9. Moved(World, u) /\ Kept(World, u)
  BY <1>1, <1>8, MovedIsTransitive, KeptIsTransitive
<1> QED BY <1>4, <1>8, <1>9, KeptIsSafe

LEMMA BestServicesAreSafe ==
  ASSUME Inv, ConnectToBestServicesTask
  PROVE  Inv'
<1>1. PICK sorted \in Sortings(list, Precedence(World, FALSE)), started \in BOOLEAN :
        Becomes(ConnectToBestServices(World, sorted, started))
  BY Zenon DEF ConnectToBestServicesTask
<1>2. list \in Lists
  BY WorldFields DEF Inv, Good, Sound, Worlds
<1>3. sorted \in Lists
  BY <1>2, SortingIsList
<1>4. Len(sorted) \in Nat /\ \A i \in 1..Len(sorted) : sorted[i] \in Service
  BY <1>3 DEF Lists
<1> DEFINE v == ConnectToBestServices(World, sorted, started)
<1>5. Sound(v) /\ Moved(World, v) /\ Kept(World, v)
  BY <1>4, BestServicesConnect DEF Inv, Good
<1>6. Becomes(v)
  BY <1>1
<1> HIDE DEF v
<1> QED BY <1>5, <1>6, KeptIsSafe

LEMMA VpnFailureIsSafe ==
  ASSUME Inv, VpnFails
  PROVE  Inv'
<1> DEFINE v == CleanupVpn(World, "failure")
<1>1. Sound(v) /\ Moved(World, v) /\ Kept(World, v)
  BY VpnEnds DEF Inv, Good
<1>2. Becomes(v)
  BY DEF VpnFails
<1> HIDE DEF v
<1> QED BY <1>1, <1>2, KeptIsSafe

\* What a portal check finds leaves the connection as it is.
LEMMA PortalCheckIsSafe ==
  ASSUME Inv, NEW s \in Wired, NEW online \in BOOLEAN, PortalCheckEnds(s, online)
  PROVE  Inv'
<1> DEFINE d == DeviceOf[s]
           w == World
<1>1. /\ Sound(w) /\ w \in Worlds /\ Agrees(w, s) /\ s \in Service /\ s # VpnService
  BY VpnOfService DEF Inv, Good, Sound
<1>2. PICK state \in {"online", "portal"} : state = IF online THEN "online" ELSE "portal"
  OBVIOUS
<1> DEFINE v == SetServiceConnectedState(w, d, state)
<1>3. Becomes(v)
  BY <1>2 DEF PortalCheckEnds
<1>4. /\ Near(w, v, s) /\ SameButPortal(w, v, d)
      /\ v.svc[s].conn = w.svc[s].conn
      /\ w.svc[s].ever => v.svc[s].ever
      /\ IF w.dev[d].selected = s /\ IsConnected(w.svc[s])
         THEN /\ v.svc[s].state = state
              /\ v.dev[d].portal = IF state = "portal" /\ w.dev[d].default /\ PortalRetry
                                   THEN "waiting" ELSE "none"
         ELSE v = w
  <2>1. w.dev[d].selected \in {s, NoService}
    BY <1>1 DEF Agrees, Attuned
  <2> QED BY <1>1, <2>1, ConnectedStateIsSet
<1> HIDE DEF v
<1>5. Sound(v)
  <2>1. CASE w.dev[d].selected = s /\ IsConnected(w.svc[s])
    <3>1. v.svc[s].connectable = w.svc[s].connectable /\ v.list = w.list
      BY <1>1, <1>4 DEF Near, Moved
    <3>2. IsConnected(v.svc[s])
      BY <1>4, <2>1 DEF IsConnected, ConnectedStates
    <3>3. Agrees(v, s)
      BY <1>1, <1>4, <2>1, <3>1, <3>2 DEF Agrees, Attuned, SameButPortal
    <3>4. Loose(v, s)
      BY <1>1, <1>4, SoundIsLoose, NearIsLoose DEF SameButPortal
    <3> QED BY <1>1, <3>3, <3>4, LooseIsSound
  <2>2. CASE ~(w.dev[d].selected = s /\ IsConnected(w.svc[s]))
    BY <1>1, <1>4, <2>2
  <2> QED BY <2>1, <2>2
<1>6. Kept(w, v)
  BY <1>1, <1>4, NearIsKept DEF SameButPortal
<1>7. Moved(w, v)
  BY <1>4 DEF Near
<1> HIDE DEF w
<1>8. w = World
  BY DEF w
<1> QED BY <1>3, <1>5, <1>6, <1>7, <1>8, KeptIsSafe

LEMMA PortalCheckResumesSafely ==
  ASSUME Inv, NEW s \in Wired, PortalCheckResumes(s)
  PROVE  Inv'
<1> DEFINE d == DeviceOf[s]
           v == WithPortal(World, d, "trying")
<1>1. Sound(World) /\ World \in Worlds /\ Agrees(World, s) /\ s \in Service
  BY VpnOfService DEF Inv, Good, Sound
<1>2. Becomes(v)
  BY DEF PortalCheckResumes, WithPortal
<1>3. /\ Near(World, v, s) /\ v.svc = World.svc /\ SameButPortal(World, v, d)
      /\ v.dev[d].portal = "trying"
  BY <1>1, PortalChanges
<1> HIDE DEF v
<1>4. Moved(World, v) /\ v.list = World.list
  BY <1>3 DEF Near, Moved
<1>5. Kept(World, v)
  BY <1>1, <1>3, NearIsKept DEF SameButPortal
<1>6. Agrees(v, s)
  BY <1>1, <1>3, <1>4 DEF Agrees, Attuned, SameButPortal
<1>7. Loose(v, s)
  BY <1>1, <1>3, SoundIsLoose, NearIsLoose DEF SameButPortal
<1>8. Sound(v)
  BY <1>1, <1>6, <1>7, LooseIsSound
<1> QED BY <1>2, <1>4, <1>5, <1>8, KeptIsSafe
-----------------------------------------------------------------------------
\* Handlers that ask for a sort.
LEMMA UpdatingIsSafe ==
  ASSUME NEW STATE w, Good(w), NEW CONSTANT s \in Service, Becomes(UpdateService(w, s))
  PROVE  Inv'
<1> DEFINE v == UpdateService(w, s)
<1>1. Good(v) /\ Settled(v)
  BY UpdateIsSafe
<1>2. Becomes(v)
  OBVIOUS
<1> HIDE DEF v
<1> QED BY <1>1, <1>2, InvBecomes

LEMMA ReEnablingIsSafe ==
  ASSUME Inv, NEW s \in Service, ReEnableAutoConnect(s)
  PROVE  Inv'
<1> DEFINE r == [World.svc[s] EXCEPT !.throttled = FALSE]
           u == WithService(World, s, r)
<1>1. Good(World) /\ Sound(World) /\ World \in Worlds
      /\ World.svc[s] \in ServiceRecords
  BY WorldTypes DEF Inv, Good, Sound
<1>2. Becomes(UpdateService(u, s))
  BY DEF ReEnableAutoConnect, ReEnableAutoConnectTask, WithService
<1>3. /\ r \in ServiceRecords /\ r.conn = World.svc[s].conn
      /\ r.connectable = World.svc[s].connectable /\ r.ever = World.svc[s].ever
      /\ r.state = World.svc[s].state
  BY <1>1 DEF ServiceRecords
<1> HIDE DEF r
<1>4. Inside(World, u, s) /\ u.svc[s] = r
  BY <1>1, <1>3, ServiceChanges
<1> HIDE DEF u
<1>5. Good(u)
  BY <1>1, <1>3, <1>4, InsideIsSound DEF Good
<1> QED BY <1>2, <1>5, UpdatingIsSafe

LEMMA SettingIsSafe ==
  ASSUME Inv, NEW s \in Service, NEW auto \in BOOLEAN, UserSetAutoConnect(s, auto)
  PROVE  Inv'
<1> DEFINE a == World.svc[s]
           r == [a EXCEPT !.retain = TRUE]
           q == [r EXCEPT !.auto = auto]
           u == WithService(World, s, r)
           v == WithService(World, s, q)
<1>1. Good(World) /\ Sound(World) /\ World \in Worlds /\ a \in ServiceRecords
      /\ World.svc \in [Service -> ServiceRecords]
  BY WorldTypes DEF Inv, Good, Sound
<1>2. Becomes(IF a.auto = auto THEN u ELSE UpdateService(v, s))
  <2>1. [u EXCEPT !.svc[s].auto = auto] = v
    BY <1>1 DEF WithService, Worlds
  <2>2. SetAutoConnectFull(World, s, auto) =
          IF a.auto = auto THEN u ELSE UpdateService([u EXCEPT !.svc[s].auto = auto], s)
    BY DEF SetAutoConnectFull, WithService
  <2> QED BY <2>1, <2>2 DEF UserSetAutoConnect
<1>3. /\ r \in ServiceRecords /\ r.conn = a.conn
      /\ r.connectable = a.connectable /\ r.ever = a.ever
      /\ r.state = a.state /\ r.auto = a.auto /\ r.explicit = a.explicit
      /\ r.throttled = a.throttled
  BY <1>1 DEF ServiceRecords
<1>4. /\ q \in ServiceRecords /\ q.conn = a.conn
      /\ q.connectable = a.connectable /\ q.ever = a.ever
      /\ q.state = a.state
  BY <1>1, <1>3 DEF ServiceRecords
<1> HIDE DEF q, r
<1>5. Inside(World, u, s) /\ u.svc[s] = r
  BY <1>1, <1>3, ServiceChanges
<1>6. Inside(World, v, s) /\ v.svc[s] = q
  BY <1>1, <1>4, ServiceChanges
<1> HIDE DEF u, v
<1>7. CASE a.auto = auto
  <2>1. Still(World, u, s)
    BY <1>3, <1>5 DEF Still
  <2>2. Sound(u) /\ Moved(World, u) /\ Kept(World, u)
    BY <1>1, <1>3, <1>5, <2>1, InsideMoves, InsideIsKept, InsideIsSound
  <2>3. Becomes(u)
    BY <1>2, <1>7
  <2> QED BY <2>2, <2>3, KeptIsSafe
<1>8. CASE a.auto # auto
  <2>1. Good(v)
    BY <1>1, <1>4, <1>6, InsideIsSound DEF Good
  <2>2. Becomes(UpdateService(v, s))
    BY <1>2, <1>8
  <2> QED BY <2>1, <2>2, UpdatingIsSafe
<1> QED BY <1>7, <1>8

\* A device whose link, or whose own state, is another one.
WithLink(w, d, b) == [w EXCEPT !.dev[d].link = b]
WithRunning(w, d, b) == [w EXCEPT !.dev[d].running = b]

LEMMA LinkChanges ==
  ASSUME NEW w, Sound(w), NEW d \in Device, NEW b \in BOOLEAN
  PROVE  LET v == WithLink(w, d, b)
         IN  Sound(v) /\ (Enlisted(w) => Enlisted(v))
<1> DEFINE v == WithLink(w, d, b)
<1>1. w \in Worlds /\ w.dev \in [Device -> DeviceRecords] /\ w.dev[d] \in DeviceRecords
  BY WorldTypes DEF Sound
<1>2. v \in Worlds
  BY <1>1 DEF WithLink, Worlds, DeviceRecords
<1>3. /\ v.svc = w.svc /\ v.list = w.list /\ v.lower = w.lower /\ v.query = w.query
      /\ v.published = w.published
      /\ \A e \in Device : /\ v.dev[e].selected = w.dev[e].selected
                           /\ v.dev[e].conn = w.dev[e].conn
                           /\ v.dev[e].default = w.dev[e].default
                           /\ v.dev[e].portal = w.dev[e].portal
                           /\ v.dev[e].running = w.dev[e].running
  BY <1>1 DEF WithLink, Worlds, DeviceRecords
<1> HIDE DEF v
<1>4. Sound(v)
  BY <1>2, <1>3, SoundIsKept
<1>5. Enlisted(w) => Enlisted(v)
  BY <1>3, DeviceOfService, VpnOfService DEF Enlisted
<1> QED BY <1>4, <1>5 DEF v

LEMMA RunningChanges ==
  ASSUME NEW w, Sound(w), NEW d \in Device, NEW b \in BOOLEAN
  PROVE  LET v == WithRunning(w, d, b)
         IN  /\ Sound(v) /\ v.list = w.list
             /\ v.dev[d].running = b
             /\ \A e \in Device \ {d} : v.dev[e].running = w.dev[e].running
<1> DEFINE v == WithRunning(w, d, b)
<1>1. w \in Worlds /\ w.dev \in [Device -> DeviceRecords] /\ w.dev[d] \in DeviceRecords
  BY WorldTypes DEF Sound
<1>2. v \in Worlds
  BY <1>1 DEF WithRunning, Worlds, DeviceRecords
<1>3. /\ v.svc = w.svc /\ v.list = w.list /\ v.lower = w.lower /\ v.query = w.query
      /\ v.published = w.published
      /\ \A e \in Device : /\ v.dev[e].selected = w.dev[e].selected
                           /\ v.dev[e].conn = w.dev[e].conn
                           /\ v.dev[e].default = w.dev[e].default
                           /\ v.dev[e].portal = w.dev[e].portal
                           /\ v.dev[e].running = IF e = d THEN b ELSE w.dev[e].running
  BY <1>1 DEF WithRunning, Worlds, DeviceRecords
<1> HIDE DEF v
<1>4. Sound(v)
  BY <1>2, <1>3, SoundIsKept
<1> QED BY <1>3, <1>4 DEF v

LEMMA LinkUpIsSafe ==
  ASSUME Inv, NEW s \in Wired, LinkUp(s)
  PROVE  Inv'
<1> PICK b \in BOOLEAN : b = TRUE
  OBVIOUS
<1> DEFINE v == WithLink(World, DeviceOf[s], b)
<1>1. s \in Service /\ DeviceOf[s] \in Device
  BY VpnOfService, DeviceOfService
<1>2. Good(v)
  BY <1>1, LinkChanges DEF Inv, Good
<1>3. Becomes(UpdateService(v, s))
  BY DEF LinkUp, WithLink
<1> HIDE DEF v
<1> QED BY <1>1, <1>2, <1>3, UpdatingIsSafe

LEMMA LinkDownIsSafe ==
  ASSUME Inv, NEW s \in Wired, LinkDown(s)
  PROVE  Inv'
<1> PICK b \in BOOLEAN : b = FALSE
  OBVIOUS
<1> DEFINE d == DeviceOf[s]
           u == WithLink(World, d, b)
           v == DropConnection(u, d)
<1>1. s \in Service /\ d \in Device
  BY VpnOfService, DeviceOfService
<1>2. Good(u)
  BY <1>1, LinkChanges DEF Inv, Good
<1>3. Becomes(UpdateService(v, s))
  BY DEF LinkDown, WithLink
<1> HIDE DEF u
<1>4. Sound(v) /\ Moved(u, v)
  BY <1>2, ConnectionIsDropped DEF Good
<1>5. Good(v)
  BY <1>2, <1>4, EnlistedIsKept DEF Good
<1> HIDE DEF v
<1> QED BY <1>1, <1>3, <1>5, UpdatingIsSafe
-----------------------------------------------------------------------------
\* Suspending.
WithSuspending(w) == [w EXCEPT !.suspending = TRUE]

LEMMA SuspendIsSafe ==
  ASSUME Inv, SuspendImminent
  PROVE  Inv'
<1> DEFINE w == World
           v == WithSuspending(w)
<1>1. Good(w) /\ Settled(w) /\ Sound(w) /\ w \in Worlds
  BY DEF Inv, Good, Sound
<1>2. Becomes(v)
  BY DEF SuspendImminent, WithSuspending
<1>3. /\ v \in Worlds /\ v.svc = w.svc /\ v.dev = w.dev /\ v.list = w.list
      /\ v.sort = w.sort /\ v.lower = w.lower /\ v.query = w.query
      /\ v.suspending = TRUE /\ v.published = w.published
  BY <1>1 DEF WithSuspending, Worlds
<1> HIDE DEF v, w
<1>4. Good(v)
  BY <1>1, <1>3, SoundIsKept DEF Good, Enlisted
<1>5. DefaultState(v) = DefaultState(w)
  BY <1>3 DEF DefaultState
<1>6. Settled(v)
  BY <1>1, <1>3, <1>5 DEF Settled
<1> QED BY <1>2, <1>4, <1>6, InvBecomes

\* A service after the resume.
LEMMA ServiceResumes ==
  ASSUME NEW w \in Worlds, NEW s \in Service
  PROVE  LET v == OnAfterResume(w, s)
         IN  Inside(w, v, s) /\ v.svc[s].state = w.svc[s].state
<1> DEFINE a == w.svc[s]
           r == [a EXCEPT !.cooldown = 0, !.throttled = FALSE]
           u == WithService(w, s, r)
           v == ClearExplicitlyDisconnected(u, s)
<1>1. a \in ServiceRecords /\ w.svc \in [Service -> ServiceRecords]
      /\ 0 \in 0..MaxCooldown
  BY WorldTypes, CooldownAssumption
<1>2. OnAfterResume(w, s) = v
  BY <1>1, WorldTypes DEF OnAfterResume, WithService
<1>3. /\ r \in ServiceRecords /\ r.conn = a.conn
      /\ r.connectable = a.connectable /\ r.ever = a.ever /\ r.state = a.state
  BY <1>1 DEF ServiceRecords
<1> HIDE DEF r
<1>4. Inside(w, u, s) /\ u.svc[s] = r
  BY <1>1, <1>3, ServiceChanges
<1>5. u \in Worlds
  BY <1>4 DEF Inside
<1> HIDE DEF u
<1>6. Inside(u, v, s) /\ v.svc[s].state = u.svc[s].state
  BY <1>5, ExplicitIsCleared
<1> HIDE DEF v
<1>7. Inside(w, v, s)
  BY <1>4, <1>6, InsideIsTransitive
<1> QED BY <1>2, <1>3, <1>4, <1>6, <1>7

\* A world whose services have become those of f, with a sort posted.
Resumed(w, f) == SortServices([w EXCEPT !.suspending = FALSE, !.svc = f])

LEMMA ResumeIsSafe ==
  ASSUME Inv, SuspendDone
  PROVE  Inv'
<1> DEFINE w == World
           f == [s \in Service |-> IF s \in ToSet(list)
                                   THEN OnAfterResume(World, s).svc[s] ELSE svc[s]]
           v == Resumed(w, f)
<1>1. Good(w) /\ Sound(w) /\ w \in Worlds
      /\ w.svc \in [Service -> ServiceRecords]
  BY WorldTypes DEF Inv, Good, Sound
<1>2. Becomes(v)
  BY WorldFields DEF SuspendDone, Resumed
<1>3. ASSUME NEW s \in Service
      PROVE  /\ f[s] \in ServiceRecords
             /\ f[s].conn = w.svc[s].conn /\ f[s].state = w.svc[s].state
             /\ f[s].connectable = w.svc[s].connectable
             /\ w.svc[s].ever => f[s].ever
  <2> DEFINE u == OnAfterResume(w, s)
  <2>1. Inside(w, u, s) /\ u.svc[s].state = w.svc[s].state
    BY <1>1, ServiceResumes
  <2>2. u.svc[s] \in ServiceRecords
    BY <2>1, WorldTypes DEF Inside
  <2>3. CASE s \in ToSet(list)
    <3>1. f[s] = u.svc[s]
      BY <2>3
    <3> HIDE DEF u, f
    <3> QED BY <2>1, <2>2, <3>1 DEF Inside
  <2>4. CASE s \notin ToSet(list)
    <3>1. f[s] = w.svc[s]
      BY <2>4, WorldFields
    <3> HIDE DEF f
    <3> QED BY <1>1, <3>1
  <2> QED BY <2>3, <2>4
<1>4. f \in [Service -> ServiceRecords]
  BY <1>3
<1> HIDE DEF f, w
<1>5. /\ v \in Worlds /\ v.svc = f /\ v.dev = w.dev /\ v.list = w.list
      /\ v.sort = TRUE /\ v.lower = w.lower /\ v.query = w.query
      /\ v.published = w.published
  BY <1>1, <1>4 DEF Resumed, SortServices, Worlds
<1> HIDE DEF v
<1>6. Good(v)
  BY <1>1, <1>3, <1>5, SoundIsKept DEF Good, Enlisted
<1> QED BY <1>2, <1>5, <1>6, PostingIsSafe, InvBecomes

\* The VPN's connection bound to that of device d, or to none.
WithLower(w, l) == [w EXCEPT !.query = FALSE, !.lower = l]

LEMMA RouteQueryIsSafe ==
  ASSUME Inv, NEW d \in Device \ {VpnDevice}, OnRouteQueryResponse(d)
  PROVE  Inv'
<1> DEFINE w == World
           l == IF dev[d].conn THEN d ELSE NoDevice
           v == WithLower(w, l)
<1>1. Good(w) /\ Sound(w) /\ w \in Worlds /\ w.dev[d] \in DeviceRecords
  BY WorldTypes DEF Inv, Good, Sound
<1>2. /\ w.query
      /\ Becomes(IF dev[d].conn /\ dev[d].selected # NoService
                 THEN UpdateService(v, dev[d].selected) ELSE v)
  BY WorldFields DEF OnRouteQueryResponse, WithLower
<1>3. l \in (Device \ {VpnDevice}) \union {NoDevice} /\ (l # NoDevice => w.dev[l].conn)
  BY WorldFields
<1> HIDE DEF l, w
<1>4. /\ v \in Worlds /\ v.svc = w.svc /\ v.dev = w.dev /\ v.list = w.list
      /\ v.sort = w.sort /\ v.lower = l /\ v.query = FALSE
      /\ v.suspending = w.suspending /\ v.published = w.published
  BY <1>1, <1>3 DEF WithLower, Worlds
<1> HIDE DEF v
<1>5. Sound(v)
  <2>1. Carried(v)
    BY <1>1, <1>2, <1>3, <1>4 DEF Sound, Carried
  <2>2. \A s \in Service : Agrees(v, s)
    BY <1>1, <1>4 DEF Sound, Agrees, Attuned
  <2>3. Published(v) /\ Unowned(v)
    BY <1>1, <1>4 DEF Sound, Published, Unowned
  <2> QED BY <1>4, <2>1, <2>2, <2>3 DEF Sound
<1>6. Moved(w, v) /\ Kept(w, v) /\ Enlisted(v)
  BY <1>1, <1>4 DEF Moved, Still, Kept, Good, Enlisted
<1>7. CASE dev[d].conn /\ dev[d].selected # NoService
  <2>1. dev[d].selected \in Service
    BY <1>1, <1>7, WorldFields DEF DeviceRecords, w
  <2>2. Becomes(UpdateService(v, dev[d].selected))
    BY <1>2, <1>7
  <2> DEFINE s == dev[d].selected
             u == UpdateService(v, s)
  <2>3. Good(u) /\ Settled(u)
    BY <1>5, <1>6, <2>1, UpdateIsSafe DEF Good
  <2>4. Becomes(u)
    BY <2>2
  <2> HIDE DEF u
  <2> QED BY <2>3, <2>4, InvBecomes
<1>8. CASE ~(dev[d].conn /\ dev[d].selected # NoService)
  <2>1. Becomes(v)
    BY <1>2, <1>8
  <2> QED BY <1>5, <1>6, <2>1, KeptIsSafe DEF w
<1> QED BY <1>7, <1>8

\* A configuration that fails takes the connection with it.
LEMMA ConfigFailureIsSafe ==
  ASSUME Inv, NEW s \in Wired, OnIPConfigFailed(s)
  PROVE  Inv'
<1> DEFINE d == DeviceOf[s]
           w == World
           u == DropConnection(w, d)
           f == SetFailure(u, s)
           v == IF dev[d].selected = NoService THEN w ELSE f
           x == DestroyConnection(v, d)
<1>1. /\ Sound(w) /\ w \in Worlds /\ Agrees(w, s) /\ s \in Service /\ s # VpnService
      /\ w.dev = dev
  BY VpnOfService, WorldFields DEF Inv, Good, Sound
<1>2. Becomes(x)
  BY DEF OnIPConfigFailed
<1> HIDE DEF w
<1>3. /\ Sound(u) /\ Moved(w, u) /\ Kept(w, u)
      /\ ~u.svc[s].conn /\ ~u.dev[d].default /\ u \in Worlds
  BY <1>1, ConnectionIsDropped DEF Sound
<1> HIDE DEF u
<1>4. /\ Inside(u, f, s) /\ Moved(u, f) /\ f.svc[s].state = "failure"
  BY <1>1, <1>3, FailureIsSet
<1> HIDE DEF f
<1>5. Sound(f) /\ Moved(w, f) /\ Kept(w, f) /\ ~IsConnected(f.svc[s])
  <2>1. Near(u, f, s)
    BY <1>1, <1>4, InsideIsNear
  <2>2. Loose(f, s)
    BY <1>1, <1>3, <1>4, <2>1, SoundIsLoose, NearIsLoose DEF Inside
  <2>3. ~IsConnected(f.svc[s])
    BY <1>4 DEF IsConnected, ConnectedStates
  <2>4. Agrees(u, s)
    BY <1>1, <1>3 DEF Sound
  <2>5. Agrees(f, s)
    BY <1>1, <1>3, <1>4, <2>3, <2>4 DEF Inside, Agrees, Attuned
  <2>6. Sound(f)
    BY <1>1, <2>2, <2>5, LooseIsSound
  <2>7. Kept(u, f)
    BY <1>1, <1>4, InsideIsKept
  <2> QED BY <1>3, <1>4, <2>3, <2>6, <2>7, MovedIsTransitive, KeptIsTransitive
<1>6. Sound(v) /\ Moved(w, v) /\ Kept(w, v) /\ ~IsConnected(v.svc[s])
  <2>1. CASE dev[d].selected = NoService
    <3>1. ~IsConnected(w.svc[s])
      BY <1>1, <2>1, DeviceAssumption DEF Agrees, Attuned
    <3>2. Moved(w, w) /\ Kept(w, w)
      BY <1>1, MovedIsReflexive DEF Kept
    <3> QED BY <1>1, <2>1, <3>1, <3>2
  <2>2. CASE dev[d].selected # NoService
    BY <1>5, <2>2
  <2> QED BY <2>1, <2>2
<1> HIDE DEF v
<1>7. Loose(v, s) /\ Agrees(v, s)
  BY <1>1, <1>6, SoundIsLoose DEF Sound
<1>8. /\ Loose(x, s) /\ Moved(v, x) /\ Kept(v, x)
      /\ x.dev[d].selected = v.dev[d].selected
      /\ ~x.dev[d].default /\ ~x.svc[s].conn /\ x.svc[s].state = v.svc[s].state
  BY <1>7, ConnectionIsDestroyed
<1> HIDE DEF x
<1>9. Agrees(x, s)
  <2>1. ~IsConnected(x.svc[s])
    BY <1>6, <1>8 DEF IsConnected
  <2>2. x.svc[s].connectable
    BY <1>8 DEF Loose, Bound
  <2> QED BY <1>1, <1>7, <1>8, <2>1, <2>2 DEF Agrees, Attuned
<1>10. Sound(x)
  BY <1>1, <1>8, <1>9, LooseIsSound
<1>11. Moved(w, x) /\ Kept(w, x)
  BY <1>6, <1>8, MovedIsTransitive, KeptIsTransitive
<1> QED BY <1>2, <1>10, <1>11, KeptIsSafe DEF w
-----------------------------------------------------------------------------
\* Bringing a connection up.
LEMMA ConnectionIsSetUp ==
  ASSUME NEW w \in Worlds, NEW s \in Service, NEW d, d = DeviceOf[s],
         w.dev[d].selected \in {s, NoService}
  PROVE  LET x == SetupConnection(w, d)
         IN  /\ Near(w, x, s)
             /\ x.dev[d].selected = w.dev[d].selected
             /\ x.dev[d].default = w.dev[d].default
             /\ x.dev[d].conn
             /\ IF w.dev[d].selected = s
                THEN /\ x.svc[s].conn /\ x.svc[s].state \in {"connected", "online"}
                     /\ d \notin PortalDevice => x.svc[s].state = "online"
                     /\ w.svc[s].ever => x.svc[s].ever
                     /\ w.svc[s].state # "connected" => x.svc[s].ever /\ x.sort
                ELSE x.svc = w.svc /\ x.sort = w.sort
<1> DEFINE b == [w.dev[d] EXCEPT !.conn = TRUE, !.ip = "bound"]
           v == WithDevice(w, d, b)
<1>1. w.dev[d] \in DeviceRecords /\ w.dev \in [Device -> DeviceRecords] /\ d \in Device
  BY WorldTypes, DeviceOfService
<1>2. /\ b \in DeviceRecords /\ b.link = w.dev[d].link /\ b.running = w.dev[d].running
      /\ b.selected = w.dev[d].selected /\ b.default = w.dev[d].default
      /\ b.conn = TRUE
  BY <1>1 DEF DeviceRecords
<1>3. [w EXCEPT !.dev[d] = [@ EXCEPT !.conn = TRUE, !.ip = "bound"]] = v
  BY <1>1 DEF WithDevice, Worlds
<1> HIDE DEF b
<1>4. Near(w, v, s) /\ v.svc = w.svc /\ v.sort = w.sort /\ v.dev[d] = b
  BY <1>2, DeviceChanges
<1>5. v \in Worlds
  BY <1>4 DEF Near, Moved
<1>6. CASE w.dev[d].selected = s
  <2> PICK yes \in BOOLEAN : yes = TRUE
    OBVIOUS
  <2> PICK state \in ConnectStates : state = "connected"
    BY DEF ConnectStates
  <2> DEFINE c == WithConnection(v, s, yes)
             u == SetState(c, s, state)
             x == StartPortalDetection(u, d)
  <2>1. SetupConnection(w, d) = x
    <3>1. s # NoService
      BY DeviceAssumption
    <3>2. c = [v EXCEPT !.svc[s].conn = TRUE]
      BY DEF WithConnection
    <3> HIDE DEF v, c
    <3> QED BY <1>3, <1>6, <3>1, <3>2 DEF SetupConnection
  <2> HIDE DEF v
  <2>2. /\ Near(v, c, s) /\ c.dev = v.dev /\ c.sort = v.sort
        /\ c.svc[s].conn = yes
        /\ c.svc[s].state = v.svc[s].state /\ c.svc[s].ever = v.svc[s].ever
    <3>1. v \in Worlds /\ s \in Service /\ yes \in BOOLEAN
      BY <1>5
    <3> QED BY ONLY <3>1, ConnectionChanges
  <2>3. c \in Worlds
    BY <2>2 DEF Near, Moved
  <2> HIDE DEF c
  <2>4. /\ Inside(c, u, s) /\ Moved(c, u)
        /\ u.svc[s].state = state
        /\ c.svc[s].state # state => u.sort
        /\ c.svc[s].state # state /\ state = "connected" => u.svc[s].ever
    BY <2>3, StateIsSet, ZenonT(60)
  <2>5. u \in Worlds /\ u.dev = v.dev /\ u.svc[s].conn = c.svc[s].conn
        /\ (c.svc[s].ever => u.svc[s].ever)
    BY <2>2, <2>4 DEF Inside
  <2>6. Near(c, u, s)
    BY <2>4, InsideIsNear
  <2> HIDE DEF u
  <2>7. u.dev[d].selected = s /\ IsConnected(u.svc[s])
    BY <1>2, <1>4, <1>6, <2>4, <2>5 DEF IsConnected, ConnectedStates
  <2>8. /\ Near(u, x, s) /\ SameButPortal(u, x, d)
        /\ x.svc[s].conn = u.svc[s].conn
        /\ u.svc[s].ever => x.svc[s].ever
        /\ \/ d \in PortalDevice /\ x.svc = u.svc
           \/ d \notin PortalDevice /\ x.svc[s].state = "online"
    <3>1. u.dev[d].selected \in {s, NoService}
      BY <2>7
    <3> QED BY <2>5, <2>7, <3>1, DetectionStarts
  <2> HIDE DEF x
  <2>9. Near(w, x, s)
    BY <1>4, <2>2, <2>6, <2>8, NearIsTransitive
  <2>10. u.sort => x.sort
    BY <2>8 DEF Near, Moved
  <2>11. x.svc[s].state \in {"connected", "online"}
         /\ (d \notin PortalDevice => x.svc[s].state = "online")
    BY <2>4, <2>8
  <2> QED
    BY <1>2, <1>4, <1>6, <2>1, <2>2, <2>4, <2>5, <2>8, <2>9, <2>10, <2>11
       DEF SameButPortal
<1>7. CASE w.dev[d].selected # s
  <2>1. w.dev[d].selected = NoService
    BY <1>7
  <2>2. SetupConnection(w, d) = v
    BY <1>3, <2>1 DEF SetupConnection
  <2> HIDE DEF v
  <2> QED BY <1>2, <1>4, <1>7, <2>2
<1> QED BY <1>6, <1>7

\* A service that has its connection set up on its own device.
LEMMA SetUpIsSound ==
  ASSUME NEW w \in Worlds, NEW x, NEW s \in Service, NEW d, d = DeviceOf[s],
         Agrees(w, s), Near(w, x, s),
         x.dev[d].selected = s, x.dev[d].default = w.dev[d].default, x.dev[d].conn,
         x.svc[s].conn, x.svc[s].state \in {"connected", "online"},
         s = VpnService => x.svc[s].state = "online", x.svc[s].ever
  PROVE  Agrees(x, s)
<1>1. IsConnected(x.svc[s])
  BY DEF IsConnected, ConnectedStates
<1>2. x.svc[s].connectable /\ x.list = w.list
  BY DEF Near, Moved, Agrees, Attuned
<1> QED BY <1>1, <1>2 DEF Agrees, Attuned

LEMMA ConfigUpdateIsSafe ==
  ASSUME Inv, NEW s \in Wired, OnIPConfigUpdated(s)
  PROVE  Inv'
<1> DEFINE d == DeviceOf[s]
           w == World
           x == SetupConnection(w, d)
<1>1. /\ Good(w) /\ Settled(w) /\ Sound(w) /\ w \in Worlds /\ Agrees(w, s)
      /\ s \in Service /\ s # VpnService
  BY VpnOfService DEF Inv, Good, Sound
<1>2. Becomes(x)
  BY DEF OnIPConfigUpdated
<1> HIDE DEF w
<1>3. w.dev[d].selected \in {s, NoService}
  BY <1>1 DEF Agrees, Attuned
<1>4. /\ Near(w, x, s)
      /\ x.dev[d].selected = w.dev[d].selected
      /\ x.dev[d].default = w.dev[d].default
      /\ x.dev[d].conn
      /\ IF w.dev[d].selected = s
         THEN /\ x.svc[s].conn /\ x.svc[s].state \in {"connected", "online"}
              /\ w.svc[s].ever => x.svc[s].ever
              /\ w.svc[s].state # "connected" => x.svc[s].ever /\ x.sort
         ELSE x.svc = w.svc /\ x.sort = w.sort
  BY <1>1, <1>3, ConnectionIsSetUp
<1> HIDE DEF x
<1>5. CASE w.dev[d].selected = s
  <2>1. x.svc[s].ever
    BY <1>1, <1>4, <1>5 DEF Agrees, Attuned, IsConnected, ConnectedStates
  <2>2. Agrees(x, s)
    BY <1>1, <1>4, <1>5, <2>1, SetUpIsSound
  <2>3. Carried(x) /\ Bound(x, s)
    BY <1>1, <1>4, <1>5, <2>2, NearIsCarried DEF Sound, Bound, Agrees, Attuned
  <2>4. Sound(x)
    BY <1>1, <1>4, <2>2, <2>3, SoundIsLoose, LooseIsKept, LooseIsSound
  <2>5. \A e \in Device : x.dev[e].default = w.dev[e].default
    BY <1>4 DEF Near, Only
  <2>6. Follows(w, x)
    BY <1>4, <2>5 DEF Follows, Near
  <2> QED BY <1>1, <1>2, <2>4, <2>6, FollowingIsSafe, InvBecomes
<1>6. CASE w.dev[d].selected # s
  <2>1. ~w.svc[s].conn
    BY <1>1, <1>6 DEF Agrees, Attuned
  <2>2. x.list = w.list
    BY <1>4 DEF Near, Moved
  <2>3. Agrees(x, s)
    BY <1>1, <1>4, <1>6, <2>1, <2>2 DEF Agrees, Attuned
  <2>4. Carried(x) /\ Bound(x, s)
    BY <1>1, <1>4, <1>6, <2>3, NearIsCarried DEF Sound, Bound, Agrees, Attuned
  <2>5. Sound(x)
    BY <1>1, <1>4, <2>3, <2>4, SoundIsLoose, LooseIsKept, LooseIsSound
  <2>6. Kept(w, x)
    BY <1>1, <1>4, <1>6, NearIsKept
  <2> QED BY <1>2, <1>4, <2>5, <2>6, KeptIsSafe DEF w, Near
<1> QED BY <1>5, <1>6

\* The VPN's connection waits for a route query.
WithQuery(w) == [w EXCEPT !.query = TRUE]

LEMMA VpnUpIsSafe ==
  ASSUME Inv, VpnUp
  PROVE  Inv'
<1> DEFINE s == VpnService
           d == VpnDevice
           w == World
           u == SelectService(w, d, s)
           v == SetupConnection(u, d)
           x == WithQuery(v)
<1>1. /\ Good(w) /\ Settled(w) /\ Sound(w) /\ w \in Worlds /\ Agrees(w, s)
      /\ s \in Service /\ d = DeviceOf[s] /\ d \notin PortalDevice
  BY VpnOfService DEF Inv, Good, Sound
<1>2. Becomes(x) /\ w.svc[s].state = "configuring"
  BY WorldFields DEF VpnUp, WithQuery
<1> HIDE DEF w
<1>3. ~IsConnected(w.svc[s]) /\ ~w.svc[s].conn /\ ~w.dev[d].default
  BY <1>1, <1>2 DEF IsConnected, ConnectedStates, Agrees, Attuned
<1>4. w.dev[d].selected \in {s, NoService}
  BY <1>1 DEF Agrees, Attuned
<1>5. /\ Near(w, u, s) /\ u.svc = w.svc /\ u.sort = w.sort
      /\ u.dev[d].selected = s /\ u.dev[d].default = w.dev[d].default
      /\ u \in Worlds
  BY <1>1, <1>4, ServiceIsSelected DEF Near, Moved
<1> HIDE DEF u
<1>6. /\ Near(u, v, s)
      /\ v.dev[d].selected = s /\ v.dev[d].default = u.dev[d].default
      /\ v.dev[d].conn /\ v.svc[s].conn /\ v.svc[s].state = "online"
      /\ v.svc[s].ever /\ v.sort
  <2>1. u.svc[s].state # "connected"
    BY <1>2, <1>5
  <2>2. /\ Near(u, v, s)
        /\ v.dev[d].selected = u.dev[d].selected
        /\ v.dev[d].default = u.dev[d].default
        /\ v.dev[d].conn
        /\ IF u.dev[d].selected = s
           THEN /\ v.svc[s].conn /\ v.svc[s].state \in {"connected", "online"}
                /\ d \notin PortalDevice => v.svc[s].state = "online"
                /\ u.svc[s].ever => v.svc[s].ever
                /\ u.svc[s].state # "connected" => v.svc[s].ever /\ v.sort
           ELSE v.svc = u.svc /\ v.sort = u.sort
    BY <1>1, <1>5, ConnectionIsSetUp
  <2> QED BY <1>1, <1>5, <2>1, <2>2
<1> HIDE DEF v
<1>7. Near(w, v, s) /\ v \in Worlds
  BY <1>1, <1>5, <1>6, NearIsTransitive DEF Near, Moved
<1>8. /\ x \in Worlds /\ x.svc = v.svc /\ x.dev = v.dev /\ x.list = v.list
      /\ x.sort = v.sort /\ x.lower = v.lower /\ x.query = TRUE
      /\ x.suspending = v.suspending /\ x.published = v.published
  BY <1>7 DEF WithQuery, Worlds
<1> HIDE DEF x
<1>9. Moved(w, x) /\ Only(w, x, {s})
  BY <1>7, <1>8 DEF Near, Moved, Only, Still
<1>10. Agrees(x, s)
  <2>1. Agrees(v, s)
    BY <1>1, <1>5, <1>6, <1>7, SetUpIsSound
  <2> QED BY <1>8, <2>1 DEF Agrees, Attuned
<1>11. Carried(x)
  <2>1. v.lower = NoDevice
    BY <1>1, <1>3, <1>7 DEF Sound, Carried, Near
  <2> QED BY <1>6, <1>8, <2>1 DEF Carried
<1>12. ASSUME NEW t \in Service PROVE Agrees(x, t)
  <2>1. CASE t = s
    BY <1>10, <2>1
  <2>2. CASE t # s
    BY <1>1, <1>9, <2>2, FrameIsKept DEF Sound
  <2> QED BY <2>1, <2>2
<1>13. Published(x) /\ Unowned(x)
  BY <1>1, <1>9, RestIsKept DEF Sound
<1>14. Good(x)
  BY <1>1, <1>8, <1>9, <1>11, <1>12, <1>13, EnlistedIsKept DEF Good, Sound
<1> QED BY <1>2, <1>6, <1>8, <1>14, PostingIsSafe, InvBecomes
-----------------------------------------------------------------------------
\* Registering and deregistering services.
LEMMA ServiceIsPlaced ==
  ASSUME NEW l \in Lists, NEW s \in ToSet(l)
  PROVE  Place(l, s) \in 1..Len(l) /\ l[Place(l, s)] = s
<1>1. \E i \in DOMAIN l : l[i] = s
  BY DEF ToSet
<1>2. Place(l, s) \in DOMAIN l /\ l[Place(l, s)] = s
  BY <1>1, Zenon DEF Place
<1> QED BY <1>2, HeadIsListed

LEMMA ServiceLeavesList ==
  ASSUME NEW l \in Lists, NEW s \in ToSet(l), s # VpnService
  PROVE  LET r == RemoveAt(l, Place(l, s))
         IN  /\ r \in Lists /\ ToSet(r) = ToSet(l) \ {s}
             /\ Head(l) # s => Head(r) = Head(l)
<1> DEFINE n == Len(l)
           k == Place(l, s)
           A == SubSeq(l, 1, k - 1)
           B == SubSeq(l, k + 1, n)
           r == A \o B
<1>1. k \in 1..n /\ l[k] = s
  BY ServiceIsPlaced
<1>2. /\ l \in Seq(Service) /\ n \in Nat \ {0} /\ DOMAIN l = 1..n /\ Head(l) = l[1]
      /\ \A i, j \in 1..n : l[i] = l[j] => i = j
      /\ VpnService \in ToSet(l)
  BY HeadIsListed DEF Lists, IsInjective
<1> HIDE DEF n, k
<1>3. /\ A \in Seq(Service) /\ Len(A) = k - 1 /\ \A i \in 1..k - 1 : A[i] = l[i]
  BY <1>1, <1>2 DEF n
<1>4. /\ B \in Seq(Service) /\ Len(B) = n - k
      /\ \A i \in 1..n - k : B[i] = l[k + i]
  <2>1. k + 1 \in 1..n + 1 /\ n \in (k + 1) - 1..n /\ n - (k + 1) + 1 = n - k
    BY <1>1, <1>2
  <2>2. /\ B \in Seq(Service)
        /\ Len(B) = IF k + 1 <= n THEN n - (k + 1) + 1 ELSE 0
        /\ \A i \in 1..n - (k + 1) + 1 : B[i] = l[(k + 1) + i - 1]
    BY <1>2, <2>1, SubSeqProperties DEF n
  <2> HIDE DEF B
  <2>3. \A i \in 1..n - k : (k + 1) + i - 1 = k + i
    BY <1>1, <1>2
  <2> QED BY <1>1, <1>2, <2>1, <2>2, <2>3
<1> HIDE DEF A, B
<1>5. /\ r \in Seq(Service) /\ Len(r) = n - 1 /\ DOMAIN r = 1..n - 1
      /\ \A i \in 1..n - 1 : r[i] = IF i < k THEN l[i] ELSE l[i + 1]
  <2>1. /\ r \in Seq(Service) /\ Len(r) = Len(A) + Len(B)
        /\ \A i \in 1..Len(A) + Len(B) :
             r[i] = IF i <= Len(A) THEN A[i] ELSE B[i - Len(A)]
    BY <1>3, <1>4, ConcatProperties
  <2> HIDE DEF r
  <2>2. Len(r) = n - 1 /\ DOMAIN r = 1..n - 1
    BY <1>1, <1>2, <1>3, <1>4, <2>1
  <2>3. ASSUME NEW i \in 1..n - 1
        PROVE  r[i] = IF i < k THEN l[i] ELSE l[i + 1]
    <3>1. CASE i < k
      BY <1>1, <1>2, <1>3, <1>4, <2>1, <3>1
    <3>2. CASE i >= k
      <4>1. i - (k - 1) \in 1..n - k /\ k + (i - (k - 1)) = i + 1 /\ ~(i <= k - 1)
        BY <1>1, <1>2, <3>2
      <4>2. r[i] = B[i - (k - 1)]
        BY <1>1, <1>2, <1>3, <1>4, <2>1, <4>1
      <4>3. B[i - (k - 1)] = l[k + (i - (k - 1))]
        BY <1>4, <4>1
      <4> QED BY <1>1, <1>2, <3>2, <4>1, <4>2, <4>3
    <3> QED BY <1>1, <1>2, <3>1, <3>2
  <2> QED BY <2>1, <2>2, <2>3
<1>6. RemoveAt(l, Place(l, s)) = r
  BY DEF RemoveAt, A, B, n, k
<1> HIDE DEF r
<1>7. IsInjective(r)
  <2> SUFFICES ASSUME NEW i \in 1..n - 1, NEW j \in 1..n - 1, r[i] = r[j]
               PROVE  i = j
    BY <1>5 DEF IsInjective
  <2> DEFINE p == IF i < k THEN i ELSE i + 1
             q == IF j < k THEN j ELSE j + 1
  <2>1. p \in 1..n /\ q \in 1..n /\ r[i] = l[p] /\ r[j] = l[q]
    BY <1>1, <1>2, <1>5
  <2>2. p = q
    BY <1>2, <2>1
  <2> QED BY <1>1, <1>2, <2>2
<1>8. ToSet(r) = ToSet(l) \ {s}
  <2>1. ASSUME NEW t \in ToSet(r) PROVE t \in ToSet(l) \ {s}
    <3>1. PICK i \in 1..n - 1 : r[i] = t
      BY <1>5, <2>1 DEF ToSet
    <3> DEFINE p == IF i < k THEN i ELSE i + 1
    <3>2. p \in 1..n /\ p # k /\ t = l[p]
      BY <1>1, <1>2, <1>5, <3>1
    <3> HIDE DEF p
    <3>3. t # s
      BY <1>1, <1>2, <3>2
    <3> QED BY <1>2, <3>2, <3>3 DEF ToSet
  <2>2. ASSUME NEW t \in ToSet(l) \ {s} PROVE t \in ToSet(r)
    <3>1. PICK p \in 1..n : l[p] = t
      BY <1>2, <2>2 DEF ToSet
    <3>2. p # k
      BY <1>1, <2>2, <3>1
    <3> DEFINE i == IF p < k THEN p ELSE p - 1
    <3>3. i \in 1..n - 1 /\ r[i] = t
      <4>1. CASE p < k
        BY <1>1, <1>2, <1>5, <3>1, <4>1
      <4>2. CASE p > k
        <5>1. i = p - 1 /\ i \in 1..n - 1 /\ ~(i < k) /\ i + 1 = p
          BY <1>1, <1>2, <3>1, <4>2
        <5> HIDE DEF i
        <5> QED BY <1>5, <3>1, <5>1
      <4> QED BY <1>1, <1>2, <3>2, <4>1, <4>2
    <3> HIDE DEF i
    <3> QED BY <1>5, <3>3 DEF ToSet
  <2> QED BY <2>1, <2>2
<1>9. r \in Lists
  BY <1>2, <1>5, <1>7, <1>8 DEF Lists
<1>10. ASSUME Head(l) # s PROVE Head(r) = Head(l)
  <2>1. k # 1
    BY <1>1, <1>2, <1>10
  <2>2. 1 \in 1..n - 1 /\ 1 < k
    BY <1>1, <1>2, <2>1
  <2>3. r[1] = l[1]
    BY <1>5, <2>2
  <2>4. Head(r) = r[1]
    BY <1>9, HeadIsListed
  <2> QED BY <1>2, <2>3, <2>4
<1> QED BY <1>6, <1>8, <1>9, <1>10

LEMMA ServiceEntersList ==
  ASSUME NEW l \in Lists, NEW s \in Service, s \notin ToSet(l)
  PROVE  LET r == Append(l, s)
         IN  r \in Lists /\ ToSet(r) = ToSet(l) \union {s} /\ Head(r) = Head(l)
<1> DEFINE n == Len(l)
           r == Append(l, s)
<1>1. /\ l \in Seq(Service) /\ n \in Nat \ {0} /\ DOMAIN l = 1..n /\ Head(l) = l[1]
      /\ \A i, j \in 1..n : l[i] = l[j] => i = j
      /\ VpnService \in ToSet(l)
  BY HeadIsListed DEF Lists, IsInjective
<1>2. /\ r \in Seq(Service) /\ Len(r) = n + 1 /\ DOMAIN r = 1..n + 1
      /\ \A i \in 1..n : r[i] = l[i]
      /\ r[n + 1] = s
  BY <1>1, AppendProperties
<1> HIDE DEF r, n
<1>3. ToSet(r) = ToSet(l) \union {s}
  <2>1. ASSUME NEW t \in ToSet(r) PROVE t \in ToSet(l) \union {s}
    <3>1. PICK i \in 1..n + 1 : r[i] = t
      BY <1>2, <2>1 DEF ToSet
    <3>2. i \in 1..n \/ i = n + 1
      BY <1>1
    <3> QED BY <1>1, <1>2, <3>1, <3>2 DEF ToSet
  <2>2. ASSUME NEW t \in ToSet(l) PROVE t \in ToSet(r)
    <3>1. PICK i \in 1..n : l[i] = t
      BY <1>1, <2>2 DEF ToSet
    <3>2. i \in 1..n + 1
      BY <1>1
    <3> QED BY <1>2, <3>1, <3>2 DEF ToSet
  <2>3. n + 1 \in 1..n + 1
    BY <1>1
  <2>4. s \in ToSet(r)
    BY <1>2, <2>3 DEF ToSet
  <2> QED BY <2>1, <2>2, <2>4
<1>4. IsInjective(r)
  <2> SUFFICES ASSUME NEW i \in 1..n + 1, NEW j \in 1..n + 1, r[i] = r[j]
               PROVE  i = j
    BY <1>2 DEF IsInjective
  <2>1. \A m \in 1..n : r[m] # s
    BY <1>1, <1>2 DEF ToSet
  <2> QED BY <1>1, <1>2, <2>1
<1>5. r \in Lists
  BY <1>1, <1>2, <1>3, <1>4 DEF Lists
<1>6. Head(r) = r[1]
  BY <1>5, HeadIsListed
<1>7. r[1] = l[1]
  BY <1>1, <1>2
<1> QED BY <1>1, <1>3, <1>5, <1>6, <1>7 DEF r

\* A world with another list and a sort posted.
Relisted(w, l) == SortServices([w EXCEPT !.list = l])

LEMMA RelistingChanges ==
  ASSUME NEW w \in Worlds, NEW l \in Lists
  PROVE  LET v == Relisted(w, l)
         IN  /\ v \in Worlds /\ v.list = l /\ v.sort = TRUE
             /\ v.svc = w.svc /\ v.dev = w.dev /\ v.lower = w.lower
             /\ v.query = w.query /\ v.suspending = w.suspending
             /\ v.published = w.published
  BY DEF Relisted, SortServices, Worlds

LEMMA RelistingIsSafe ==
  ASSUME NEW STATE w, Sound(w), NEW STATE l, l \in Lists,
         \A d \in Device : w.dev[d].default => Head(l) = Head(w.list),
         \A s \in Wired : s \in ToSet(l) <=> w.dev[DeviceOf[s]].running,
         Becomes(Relisted(w, l))
  PROVE  Inv'
<1> DEFINE v == Relisted(w, l)
<1>1. /\ v \in Worlds /\ v.list = l /\ v.sort = TRUE
      /\ v.svc = w.svc /\ v.dev = w.dev /\ v.lower = w.lower
      /\ v.query = w.query /\ v.published = w.published
  BY RelistingChanges DEF Sound
<1>2. Becomes(v)
  OBVIOUS
<1> HIDE DEF v
<1>3. Sound(v) /\ Enlisted(v)
  BY <1>1, SoundIsKept DEF Enlisted
<1>4. Good(v) /\ Settled(v)
  BY <1>1, <1>3 DEF Good, Settled
<1> QED BY <1>2, <1>4, InvBecomes

LEMMA DisableIsSafe ==
  ASSUME Inv, NEW s \in Wired, Disable(s)
  PROVE  Inv'
<1> PICK b \in BOOLEAN : b = FALSE
  OBVIOUS
<1> DEFINE d == DeviceOf[s]
           w == World
           a == WithRunning(w, d, b)
           v == DropConnection(a, d)
           u == ClearExplicitlyDisconnected(v, s)
           l == RemoveAt(u.list, Place(u.list, s))
<1>1. /\ Sound(w) /\ Enlisted(w) /\ w \in Worlds /\ w.list \in Lists
      /\ s \in Service /\ s # VpnService /\ d \in Device /\ w.dev = dev
  BY VpnOfService, DeviceOfService, WorldTypes, WorldFields DEF Inv, Good, Sound
<1>2. w.dev[d].running /\ Becomes(DeregisterService(u, s))
  BY <1>1 DEF Disable, WithRunning
<1> HIDE DEF w
<1>3. /\ Sound(a) /\ a.list = w.list /\ ~a.dev[d].running
      /\ \A e \in Device \ {d} : a.dev[e].running = w.dev[e].running
  BY <1>1, RunningChanges
<1> HIDE DEF a
<1>4. Sound(v) /\ Moved(a, v) /\ ~v.dev[d].default
  BY <1>3, ConnectionIsDropped
<1>5. v \in Worlds
  BY <1>4 DEF Sound
<1> HIDE DEF v
<1>6. Inside(v, u, s) /\ u.svc[s].state = v.svc[s].state
  BY <1>1, <1>5, ExplicitIsCleared
<1> HIDE DEF u
<1>7. Sound(u)
  BY <1>1, <1>4, <1>6, InsideIsSound
<1>8. /\ u.list = w.list /\ ~u.dev[d].default
      /\ \A e \in Device : u.dev[e].running = a.dev[e].running
  BY <1>3, <1>4, <1>6 DEF Inside, Moved
<1>9. s \in ToSet(u.list)
  BY <1>1, <1>2, <1>8 DEF Enlisted
<1>10. Becomes(Relisted(u, l))
  BY <1>2, <1>9 DEF DeregisterService, Relisted
<1>11. /\ l \in Lists /\ ToSet(l) = ToSet(u.list) \ {s}
       /\ Head(u.list) # s => Head(l) = Head(u.list)
  BY <1>1, <1>8, <1>9, ServiceLeavesList
<1> HIDE DEF l
<1>12. ASSUME NEW e \in Device, u.dev[e].default PROVE Head(l) = Head(u.list)
  <2>1. PICK t \in Service : e = DeviceOf[t]
    BY <1>7, <1>12 DEF Sound, Unowned
  <2>2. t = Head(u.list)
    BY <1>7, <1>12, <2>1 DEF Sound, Agrees
  <2>3. t # s
    BY <1>8, <1>12, <2>1
  <2> QED BY <1>11, <2>2, <2>3
<1>13. ASSUME NEW t \in Wired
       PROVE  t \in ToSet(l) <=> u.dev[DeviceOf[t]].running
  <2>1. t \in Service /\ DeviceOf[t] \in Device /\ (t # s => DeviceOf[t] # d)
    BY <1>1, VpnOfService, DeviceOfService
  <2> QED BY <1>1, <1>3, <1>8, <1>11, <2>1 DEF Enlisted
<1> QED BY <1>7, <1>10, <1>11, <1>12, <1>13, RelistingIsSafe

LEMMA EnableIsSafe ==
  ASSUME Inv, NEW s \in Wired, Enable(s)
  PROVE  Inv'
<1> PICK b \in BOOLEAN : b = TRUE
  OBVIOUS
<1> DEFINE d == DeviceOf[s]
           w == World
           u == WithRunning(w, d, b)
           l == Append(u.list, s)
<1>1. /\ Sound(w) /\ Enlisted(w) /\ w \in Worlds /\ w.list \in Lists
      /\ s \in Service /\ d \in Device /\ w.dev = dev
  BY VpnOfService, DeviceOfService, WorldTypes, WorldFields DEF Inv, Good, Sound
<1>2. /\ ~w.dev[d].running
      /\ Becomes(RegisterService([w EXCEPT !.dev[d].running = TRUE], s))
  BY <1>1 DEF Enable
<1>3. Becomes(RegisterService(u, s))
  BY <1>2 DEF WithRunning
<1> HIDE DEF w
<1>4. /\ Sound(u) /\ u.list = w.list /\ u.dev[d].running = b
      /\ \A e \in Device \ {d} : u.dev[e].running = w.dev[e].running
  <2>1. Sound(w) /\ d \in Device /\ b \in BOOLEAN
    BY <1>1
  <2> HIDE DEF d
  <2> QED BY ONLY <2>1, RunningChanges
<1> HIDE DEF u
<1>5. s \notin ToSet(u.list)
  BY <1>1, <1>2, <1>4 DEF Enlisted
<1>6. l \in Lists /\ ToSet(l) = ToSet(u.list) \union {s} /\ Head(l) = Head(u.list)
  BY <1>1, <1>4, <1>5, ServiceEntersList
<1>7. Becomes(Relisted(u, l))
  <2>1. RegisterService(u, s) = Relisted(u, l)
    BY <1>4, WorldTypes DEF RegisterService, Relisted, Sound
  <2> QED BY <1>3, <2>1
<1> HIDE DEF l
<1>8. ASSUME NEW t \in Wired
      PROVE  t \in ToSet(l) <=> u.dev[DeviceOf[t]].running
  <2>1. t \in Service /\ DeviceOf[t] \in Device /\ (t # s => DeviceOf[t] # d)
    BY <1>1, VpnOfService, DeviceOfService
  <2> QED BY <1>1, <1>4, <1>6, <2>1 DEF Enlisted
<1> QED BY <1>4, <1>6, <1>7, <1>8, RelistingIsSafe
-----------------------------------------------------------------------------
(***************************************************************************)
(* The invariant.                                                          *)
(***************************************************************************)
LEMMA InitIsSafe ==
  Init => Inv
<1> SUFFICES ASSUME Init PROVE Inv
  OBVIOUS
<1>1. list \in Lists /\ ToSet(list) = Service
  <2>1. list \in SetToSeqs(Service)
    BY DEF Init
  <2>2. Service \in SUBSET Service /\ VpnService \in Service
    BY VpnOfService
  <2> QED BY <2>1, <2>2, OrderIsList
<1>2. ASSUME NEW s \in Service
      PROVE  /\ svc[s] \in ServiceRecords /\ svc[s].state = "idle"
             /\ svc[s].conn = FALSE /\ svc[s].connectable = TRUE
  <2> DEFINE b == s \in Wired \/ AutoVpn
             k == s \in Known
             r == [NewService(b) EXCEPT !.ever = k, !.retain = k]
  <2>1. svc[s] = r
    BY DEF Init
  <2>2. b \in BOOLEAN /\ k \in BOOLEAN /\ 0 \in 0..MaxCooldown
    BY WiredAssumption, CooldownAssumption
  <2> HIDE DEF b, k
  <2>3. /\ r \in ServiceRecords /\ r.state = "idle" /\ r.conn = FALSE
        /\ r.connectable = TRUE
    BY <2>2 DEF NewService, ServiceRecords, ConnectStates
  <2> HIDE DEF r
  <2> QED BY <2>1, <2>3
<1>3. ASSUME NEW d \in Device
      PROVE  /\ dev[d] \in DeviceRecords /\ dev[d].selected = NoService
             /\ dev[d].conn = FALSE /\ dev[d].default = FALSE
             /\ dev[d].running = TRUE
  BY DEF Init, NewDevice, DeviceRecords
<1>4. /\ svc \in [Service -> ServiceRecords] /\ dev \in [Device -> DeviceRecords]
      /\ sort = TRUE /\ lower = NoDevice /\ query = FALSE /\ suspending = FALSE
      /\ published = [state |-> "idle", connected |-> FALSE]
  <2>1. svc \in [Service -> ServiceRecords]
    <3>1. svc = [s \in Service |-> svc[s]]
      BY DEF Init
    <3> QED BY <1>2, <3>1
  <2>2. dev \in [Device -> DeviceRecords]
    <3>1. dev = [d \in Device |-> dev[d]]
      BY DEF Init
    <3> QED BY <1>3, <3>1
  <2> QED BY <2>1, <2>2 DEF Init
<1> DEFINE w == World
<1>5. /\ w \in Worlds /\ w.svc = svc /\ w.dev = dev /\ w.list = list
      /\ w.sort = TRUE /\ w.lower = NoDevice /\ w.query = FALSE
      /\ w.published.state = "idle" /\ w.published.connected = FALSE
  BY <1>1, <1>4, WorldFields DEF World, Worlds, ConnectStates
<1> HIDE DEF w
<1>6. ASSUME NEW s \in Service PROVE Agrees(w, s)
  <2>1. DeviceOf[s] \in Device
    BY DeviceOfService
  <2> QED BY <1>2, <1>3, <1>5, <2>1 DEF Agrees, Attuned, IsConnected, ConnectedStates
<1>7. Carried(w) /\ Published(w) /\ Unowned(w)
  BY <1>3, <1>5 DEF Carried, Published, Unowned, ConnectedStates
<1>8. Enlisted(w)
  BY <1>1, <1>3, <1>5, VpnOfService, DeviceOfService DEF Enlisted
<1> QED BY <1>5, <1>6, <1>7, <1>8 DEF Inv, Good, Sound, Settled, w

LEMMA NetworkIsSafe ==
  ASSUME Inv, Network
  PROVE  Inv'
<1>1. CASE \E s \in Wired : LinkUp(s)
  BY <1>1, LinkUpIsSafe
<1>2. CASE \E s \in Wired : LinkDown(s)
  BY <1>2, LinkDownIsSafe
<1>3. CASE \E s \in Wired : OnIPConfigUpdated(s)
  BY <1>3, ConfigUpdateIsSafe
<1>4. CASE \E s \in Wired : PortalCheckResumes(s)
  BY <1>4, PortalCheckResumesSafely
<1>5. CASE \E s \in Wired, online \in BOOLEAN : PortalCheckEnds(s, online)
  BY <1>5, PortalCheckIsSafe
<1>6. CASE \E s \in Wired \intersect Unreliable : OnIPConfigFailed(s)
  BY <1>6, ConfigFailureIsSafe
<1>7. CASE \E s \in Administered : Disable(s) \/ Enable(s)
  BY <1>7, DisableIsSafe, EnableIsSafe, WiredAssumption
<1>8. CASE VpnUp
  BY <1>8, VpnUpIsSafe
<1>9. CASE VpnFails
  BY <1>9, VpnFailureIsSafe
<1>10. CASE \E d \in Device \ {VpnDevice} : OnRouteQueryResponse(d)
  BY <1>10, RouteQueryIsSafe
<1> QED
  BY <1>1, <1>2, <1>3, <1>4, <1>5, <1>6, <1>7, <1>8, <1>9, <1>10 DEF Network

LEMMA UserIsSafe ==
  ASSUME Inv, User
  PROVE  Inv'
<1>1. Handled \subseteq Service
  BY WiredAssumption
<1>2. CASE \E s \in Handled : UserDisconnect(s)
  BY <1>1, <1>2, UserDisconnectIsSafe
<1>3. CASE \E s \in Handled : \E started \in {TRUE, s \notin Unreliable} :
             UserConnect(s, started)
  <2>1. PICK s \in Handled, started \in BOOLEAN : UserConnect(s, started)
    BY <1>3
  <2> QED BY <1>1, <2>1, UserConnectIsSafe
<1>4. CASE \E s \in Handled, auto \in BOOLEAN : UserSetAutoConnect(s, auto)
  BY <1>1, <1>4, SettingIsSafe
<1>5. CASE ConnectToBestServicesTask
  BY <1>5, BestServicesAreSafe
<1>6. CASE SuspendImminent
  BY <1>6, SuspendIsSafe
<1>7. CASE SuspendDone
  BY <1>7, ResumeIsSafe
<1> QED BY <1>2, <1>3, <1>4, <1>5, <1>6, <1>7 DEF User

LEMMA NextIsSafe ==
  Inv /\ [Next]_vars => Inv'
<1> SUFFICES ASSUME Inv, [Next]_vars PROVE Inv'
  OBVIOUS
<1>1. CASE SortServicesTask
  BY <1>1, SortIsSafe
<1>2. CASE \E s \in Service : ReEnableAutoConnect(s)
  BY <1>2, ReEnablingIsSafe
<1>3. CASE Network
  BY <1>3, NetworkIsSafe
<1>4. CASE User
  BY <1>4, UserIsSafe
<1>5. CASE UNCHANGED vars
  <2>1. World' = World
    BY <1>5 DEF vars, World
  <2> QED BY <2>1 DEF Inv
<1> QED BY <1>1, <1>2, <1>3, <1>4, <1>5 DEF Next

\* The invariant is inductive: no handler of Manager, of a device or of a service
\* breaks what the next one relies on.
THEOREM Invariance == Spec => []Inv
<1>1. Init => Inv
  BY InitIsSafe
<1>2. Inv /\ [Next]_vars => Inv'
  BY NextIsSafe
<1> QED BY <1>1, <1>2, PTL DEF Spec
-----------------------------------------------------------------------------
(***************************************************************************)
(* The properties.                                                         *)
(***************************************************************************)
\* What follows from the invariant of the state itself.
LEMMA StateIsSound ==
  ASSUME Inv
  PROVE  /\ svc \in [Service -> ServiceRecords] /\ dev \in [Device -> DeviceRecords]
         /\ list \in Lists /\ sort \in BOOLEAN /\ query \in BOOLEAN
         /\ suspending \in BOOLEAN
         /\ lower \in (Device \ {VpnDevice}) \union {NoDevice}
         /\ published \in [state : ConnectStates, connected : BOOLEAN]
         /\ published.connected <=> published.state \in ConnectedStates
         /\ \A d \in Device : dev[d].default =>
              /\ d = DeviceOf[Head(list)] /\ svc[Head(list)].conn
         /\ \A s \in Service : svc[s].conn <=> IsConnected(svc[s])
         /\ \A s \in Service : svc[s].state = "portal" /\ dev[DeviceOf[s]].default
                               /\ PortalRetry => dev[DeviceOf[s]].portal # "none"
         /\ lower # NoDevice => dev[lower].conn /\ svc[VpnService].conn
<1>1. Sound(World) /\ World \in Worlds
  BY DEF Inv, Good, Sound
<1>2. \A s \in Service : Agrees(World, s) /\ Attuned(World, s)
  BY <1>1 DEF Sound, Agrees
<1>3. Carried(World) /\ Published(World) /\ Unowned(World)
  BY <1>1 DEF Sound
<1>4. ASSUME NEW d \in Device, dev[d].default
      PROVE  d = DeviceOf[Head(list)] /\ svc[Head(list)].conn
  <2>1. PICK s \in Service : d = DeviceOf[s]
    BY <1>3, <1>4, WorldFields DEF Unowned
  <2> QED BY <1>2, <1>4, <2>1, WorldFields DEF Agrees, Attuned
<1>5. \A s \in Service :
        /\ svc[s].conn <=> IsConnected(svc[s])
        /\ svc[s].state = "portal" /\ dev[DeviceOf[s]].default
             /\ PortalRetry => dev[DeviceOf[s]].portal # "none"
  BY <1>2, WorldFields DEF Attuned
<1>6. /\ published.connected <=> published.state \in ConnectedStates
      /\ lower # NoDevice => dev[lower].conn /\ svc[VpnService].conn
  BY <1>3, WorldFields DEF Carried, Published
<1> QED BY <1>1, <1>4, <1>5, <1>6, WorldTypes, WorldFields

LEMMA StateIsSettled ==
  ASSUME Inv, ~sort
  PROVE  /\ (\E s \in ToSet(list) : IsConnected(svc[s])) => IsConnected(svc[Head(list)])
         /\ svc[Head(list)].conn => dev[DeviceOf[Head(list)]].default
         /\ published.state = DefaultState(World)
         /\ VpnRanksFirst /\ IsConnected(svc[VpnService]) => Head(list) = VpnService
         /\ ~suspending =>
              \A s \in ToSet(list) : ~(svc[s].auto /\ IsAutoConnectable(World, s))
  BY WorldFields DEF Inv, Settled

\* One connection at most is the default one, and at rest it is that of the best
\* service, which is what Manager has published (SortServicesTask).
THEOREM DefaultSettled == Spec => []DefaultIsSettled
<1>1. ASSUME Inv PROVE DefaultIsSettled
  <2> DEFINE h == Head(list)
             D == {d \in Device : dev[d].default}
  <2>1. h \in Service /\ list # << >> /\ ToSet(list) \subseteq Service /\ h \in ToSet(list)
        /\ DeviceOf[h] \in Device
    BY <1>1, StateIsSound, HeadIsListed, DeviceOfService
  <2>2. TypeOK
    BY <1>1, StateIsSound DEF TypeOK, Lists
  <2>3. D \subseteq {DeviceOf[h]}
    BY <1>1, StateIsSound
  <2>4. OneDefault
    <3>1. D = {} \/ D = {DeviceOf[h]}
      BY <2>3
    <3> HIDE DEF D
    <3>2. Cardinality(D) = 0 \/ Cardinality(D) = 1
      BY <3>1, FS_EmptySet, FS_Singleton
    <3> QED BY <3>2 DEF OneDefault, D
  <2>5. ASSUME ~sort
        PROVE  LET connected == {s \in ToSet(list) : IsConnected(svc[s])}
               IN  IF connected = {} THEN \A d \in Device : ~dev[d].default
                   ELSE /\ Head(list) \in connected
                        /\ svc[Head(list)].conn
                        /\ {d \in Device : dev[d].default} = {DeviceOf[Head(list)]}
    <3> DEFINE connected == {s \in ToSet(list) : IsConnected(svc[s])}
    <3>1. CASE connected = {}
      <4>1. ~svc[h].conn
        BY <1>1, <2>1, <3>1, StateIsSound
      <4> QED BY <1>1, <3>1, <4>1, StateIsSound
    <3>2. CASE connected # {}
      <4>1. IsConnected(svc[h])
        BY <1>1, <2>5, <3>2, StateIsSettled
      <4>2. svc[h].conn
        BY <1>1, <2>1, <4>1, StateIsSound
      <4>3. dev[DeviceOf[h]].default
        BY <1>1, <2>5, <4>2, StateIsSettled
      <4>4. D = {DeviceOf[h]}
        BY <2>1, <2>3, <4>3
      <4> QED BY <2>1, <3>2, <4>1, <4>2, <4>4
    <3> QED BY <3>1, <3>2
  <2>6. ASSUME ~sort
        PROVE  /\ published.state = DefaultState(World)
               /\ published.connected = ManagerIsConnected(World)
    <3>1. published.state = DefaultState(World)
      BY <1>1, <2>6, StateIsSettled
    <3>2. DefaultState(World) = IF svc[h].conn THEN svc[h].state ELSE "idle"
      BY <2>1, WorldFields DEF DefaultState
    <3>3. svc[h].conn <=> IsConnected(svc[h])
      BY <1>1, <2>1, StateIsSound
    <3>4. ManagerIsConnected(World) <=> IsConnected(svc[h])
      BY <2>1, WorldFields DEF ManagerIsConnected
    <3>5. published.connected <=> published.state \in ConnectedStates
      BY <1>1, StateIsSound
    <3>6. published.connected <=> ManagerIsConnected(World)
      BY <3>1, <3>2, <3>3, <3>4, <3>5 DEF IsConnected, ConnectedStates
    <3>7. published.connected \in BOOLEAN /\ ManagerIsConnected(World) \in BOOLEAN
      BY <1>1, StateIsSound DEF ManagerIsConnected, IsConnected
    <3> QED BY <3>1, <3>6, <3>7
  <2>7. DefaultIsBest
    BY <2>5 DEF DefaultIsBest, AtRest
  <2>8. PublishedIsTrue
    BY <2>6 DEF PublishedIsTrue, AtRest
  <2> QED BY <2>2, <2>4, <2>7, <2>8 DEF DefaultIsSettled
<1> QED BY <1>1, Invariance, PTL

\* A VPN has a live connection below it, and is what traffic goes through, where
\* the technology order puts it first (~Connection, Service::Compare).
THEOREM VpnFollows ==
  ASSUME VpnRanksFirst
  PROVE  Spec => []VpnFollowsCarrier
<1>1. ASSUME Inv PROVE VpnFollowsCarrier
  <2>1. CarrierOutlivesVpn
    BY <1>1, StateIsSound DEF CarrierOutlivesVpn
  <2>2. VpnCarriesTraffic
    BY <1>1, StateIsSettled DEF VpnCarriesTraffic, AtRest
  <2> QED BY <2>1, <2>2 DEF VpnFollowsCarrier
<1> QED BY <1>1, Invariance, PTL

\* At rest what could be connected automatically waits only for its throttle timer
\* (Manager::AutoConnect, Service::ReEnableAutoConnectTask).
THEOREM AutoConnectAwaited == Spec => []AutoConnectIsAwaited
<1>1. ASSUME Inv PROVE AutoConnectIsAwaited
  BY <1>1, StateIsSettled DEF AutoConnectIsAwaited, AtRest
<1> QED BY <1>1, Invariance, PTL

\* A default service behind a portal is checked again (Device::SetServiceConnectedState,
\* Device::RequestPortalDetection).
THEOREM PortalRechecked == Spec => []PortalIsRechecked
<1>1. ASSUME Inv PROVE PortalIsRechecked
  BY <1>1, StateIsSound DEF PortalIsRechecked, Wired
<1> QED BY <1>1, Invariance, PTL
=============================================================================
