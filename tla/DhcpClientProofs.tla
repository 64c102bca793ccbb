-------------------------- MODULE DhcpClientProofs --------------------------
(***************************************************************************)
(* Proofs about DhcpClient, for any process ids and any number of          *)
(* acquisitions, reports, requests and faults.                             *)
(*                                                                         *)
(* The callbacks of a configuration do not ask whether it is the current   *)
(* one, and need not: the provider's table, the process manager and the    *)
(* configuration itself agree on who has a client, only the current        *)
(* configuration has one, and no timer is armed without one.  Good is that *)
(* agreement, which every method keeps; Timed is what a connection in use  *)
(* relies on, which the methods break and every task mends.                *)
(***************************************************************************)
EXTENDS DhcpClient, TLAPS, WellFoundedInduction, NaturalsInduction

Worlds ==
    [dev : DeviceRecords, cfg : [Configs -> ConfigRecords],
     bound : [Pids -> Configs \cup {NoOwner}], pm : ProcessManagers,
     failed : BOOLEAN, client : [Pids -> {"trying", "bound"}]]

\* The provider's table and the configurations' process ids agree.
ClientsAreBound(w) ==
    /\ \A c \in Configs : w.cfg[c].pid # NoPid =>
          c = w.dev.ipconfig /\ w.bound[w.cfg[c].pid] = c
    /\ \A p \in Pids : w.bound[p] # NoOwner =>
          w.bound[p] = w.dev.ipconfig /\ w.cfg[w.bound[p]].pid = p

\* So do the table and the process manager.
ClientsAreWatched(w) ==
    \A p \in Pids :
        /\ w.pm.watched[p] = w.bound[p]
        /\ w.pm.ending[p] = "none"
        /\ w.bound[p] # NoOwner <=>
              w.pm.proc[p] \in {"running", "zombie"} /\ p \notin w.pm.forgotten
        /\ w.pm.proc[p] = "unborn" => p \notin w.pm.forgotten

\* At most one timer, and none without a client.
TimersFit(k) ==
    /\ ~(k.acquisition = TRUE /\ k.expiration = TRUE)
    /\ k.acquisition = TRUE \/ k.expiration = TRUE => k.pid # NoPid

Good(w) ==
    /\ w \in Worlds
    /\ w.failed = FALSE
    /\ ClientsAreBound(w)
    /\ ClientsAreWatched(w)
    /\ \A c \in Configs : TimersFit(w.cfg[c])
    /\ w.dev.from # NoOwner => w.dev.from = w.dev.ipconfig

\* What a connection of that kind needs of its configuration.
Supports(k, kind) ==
    k.excused = FALSE =>
        /\ kind = "lease" => k.expiration = TRUE \/ k.acquisition = TRUE
        /\ kind = "lease" => k.arp = FALSE
        /\ kind = "arp" => k.pid # NoPid

Timed(w) == w.dev.from # NoOwner => Supports(w.cfg[w.dev.from], w.dev.connection)

CountersOK ==
    /\ signals \in Seq([pid : Pids, reason : Reasons]) /\ Len(signals) <= MaxSignals
    /\ made \in 0..MaxConfigs
    /\ requests \in 0..MaxRequests /\ faults \in 0..MaxFaults

Inv == Good(World) /\ Timed(World) /\ CountersOK
-----------------------------------------------------------------------------
\* Numbers are well ordered.
LEMMA LeastNumber ==
  ASSUME NEW T, T \subseteq Nat, T # {}
  PROVE  \E x \in T : \A y \in T : x <= y
  <1> DEFINE R == OpToRel(<, Nat)
  <1>1. IsWellFoundedOn(R, Nat)
    BY NatLessThanWellFounded, Zenon
  <1>2. \A x, y \in Nat : y < x => <<y, x>> \in R
    BY DEF OpToRel
  <1> HIDE DEF R
  <1>3. \E x \in T : \A y \in T : ~(<<y, x>> \in R)
    BY <1>1, WFMin, Zenon
  <1>4. \A x, y \in T : ~(y < x) => x <= y
    OBVIOUS
  <1>5. PICK x \in T : \A y \in T : ~(<<y, x>> \in R)
    BY <1>3
  <1>6. \A y \in T : x <= y
    BY <1>2, <1>4, <1>5
  <1> QED BY <1>6

LEMMA Numbers ==
  /\ NoOwner \notin Configs /\ NoPid \notin Pids /\ Pids \subseteq Nat
  /\ Configs = 1..MaxConfigs /\ MaxConfigs \in Nat
BY DhcpAssumption DEF Configs, NoPid

\* Start names the least process id not used yet.
LeastFresh(m) == CHOOSE q \in Fresh(m) : \A r \in Fresh(m) : q <= r

LEMMA FreshPid ==
  ASSUME NEW m, Fresh(m) # {}
  PROVE  LeastFresh(m) \in Pids /\ m.proc[LeastFresh(m)] = "unborn"
  <1>1. Fresh(m) \subseteq Nat
    BY Numbers DEF Fresh
  <1>2. \E q \in Fresh(m) : \A r \in Fresh(m) : q <= r
    BY <1>1, LeastNumber
  <1>3. LeastFresh(m) \in Fresh(m)
    BY <1>2 DEF LeastFresh
  <1> QED BY <1>3 DEF Fresh
-----------------------------------------------------------------------------
(***************************************************************************)
(* Goodness depends on who has a client and on the timers alone.           *)
(***************************************************************************)
LEMMA SameClients ==
  ASSUME NEW w, NEW v, Good(w), v \in Worlds,
         v.pm = w.pm, v.bound = w.bound, v.failed = w.failed,
         v.dev.ipconfig = w.dev.ipconfig,
         v.dev.from # NoOwner => v.dev.from = v.dev.ipconfig,
         \A c \in Configs : v.cfg[c].pid = w.cfg[c].pid /\ TimersFit(v.cfg[c])
  PROVE  Good(v)
  <1>1. ClientsAreBound(v)
    <2>1. \A p \in Pids : w.bound[p] \in Configs \cup {NoOwner}
      BY DEF Good, Worlds
    <2> QED BY <2>1 DEF Good, ClientsAreBound
  <1>2. ClientsAreWatched(v)
    BY DEF Good, ClientsAreWatched
  <1> QED BY <1>1, <1>2 DEF Good

\* The same, when one configuration changes.
LEMMA OneConfig ==
  ASSUME NEW w, Good(w), NEW c \in Configs, NEW k \in ConfigRecords,
         k.pid = w.cfg[c].pid, TimersFit(k)
  PROVE  Good([w EXCEPT !.cfg = [w.cfg EXCEPT ![c] = k]])
  <1> DEFINE f == [w.cfg EXCEPT ![c] = k]
             v == [w EXCEPT !.cfg = f]
  <1>1. /\ f \in [Configs -> ConfigRecords]
        /\ \A d \in Configs : f[d].pid = w.cfg[d].pid /\ TimersFit(f[d])
    BY DEF Good, Worlds
  <1> HIDE DEF f
  <1>2. /\ v \in Worlds /\ v.cfg = f /\ v.dev = w.dev
        /\ v.pm = w.pm /\ v.bound = w.bound /\ v.failed = w.failed
    BY <1>1 DEF Good, Worlds
  <1> HIDE DEF v
  <1>3. Good(v)
    BY <1>1, <1>2, SameClients DEF Good
  <1> QED BY <1>3 DEF v, f

\* The same, when the device alone changes.
LEMMA OneDevice ==
  ASSUME NEW w, Good(w), NEW d \in DeviceRecords, d.ipconfig = w.dev.ipconfig,
         d.from # NoOwner => d.from = d.ipconfig
  PROVE  Good([w EXCEPT !.dev = d])
  <1> DEFINE v == [w EXCEPT !.dev = d]
  <1>1. /\ v \in Worlds /\ v.cfg = w.cfg /\ v.dev = d
        /\ v.pm = w.pm /\ v.bound = w.bound /\ v.failed = w.failed
    BY DEF Good, Worlds
  <1> HIDE DEF v
  <1>2. Good(v)
    BY <1>1, SameClients DEF Good
  <1> QED BY <1>2 DEF v

\* A configuration whose client has ended.
Ended(k) ==
    [k EXCEPT !.acquisition = FALSE, !.expiration = FALSE, !.proxy = FALSE,
              !.pid = NoPid, !.active = FALSE, !.arp = FALSE]

LEMMA EndedFits ==
  ASSUME NEW k \in ConfigRecords
  PROVE  /\ Ended(k) \in ConfigRecords /\ TimersFit(Ended(k))
         /\ Ended(k).pid = NoPid /\ Ended(k).excused = k.excused
         /\ Ended(k).address = k.address /\ Ended(k).arp = FALSE
BY DEF Ended, TimersFit, ConfigRecords

\* The manager m no longer knows client p.
Lost(m, n, p) ==
    /\ n.watched = [m.watched EXCEPT ![p] = NoOwner]
    /\ \A q \in Pids : n.ending[q] = "none"
    /\ \A q \in Pids \ {p} : n.proc[q] = m.proc[q] /\ (q \in n.forgotten <=> q \in m.forgotten)
    /\ n.proc[p] # "unborn"
    /\ n.proc[p] = "gone" \/ p \in n.forgotten

\* The client of the current configuration ends, and with it all that is known
\* of it.
LEMMA ClientEnds ==
  ASSUME NEW w, Good(w), NEW v \in Worlds, NEW c \in Configs, NEW p \in Pids,
         p = w.cfg[c].pid,
         v.dev = w.dev, v.failed = FALSE,
         v.cfg = [w.cfg EXCEPT ![c] = Ended(w.cfg[c])],
         v.bound = [w.bound EXCEPT ![p] = NoOwner],
         Lost(w.pm, v.pm, p)
  PROVE  Good(v) /\ Fresh(v.pm) = Fresh(w.pm)
  <1>1. /\ c = w.dev.ipconfig /\ w.bound[p] = c
        /\ \A d \in Configs \ {c} : w.cfg[d].pid = NoPid
    BY Numbers DEF Good, ClientsAreBound
  <1>2. /\ v.cfg[c].pid = NoPid /\ TimersFit(v.cfg[c])
        /\ \A d \in Configs \ {c} : v.cfg[d] = w.cfg[d]
    <2>1. w.cfg[c] \in ConfigRecords /\ v.cfg[c] = Ended(w.cfg[c])
      BY DEF Good, Worlds
    <2>2. Ended(w.cfg[c]).pid = NoPid /\ TimersFit(Ended(w.cfg[c]))
      BY <2>1, EndedFits, Zenon
    <2> QED BY <2>1, <2>2 DEF Good, Worlds
  <1>3. /\ v.bound[p] = NoOwner /\ v.pm.watched[p] = NoOwner
        /\ \A q \in Pids \ {p} : v.bound[q] = w.bound[q] /\ v.pm.watched[q] = w.pm.watched[q]
    BY DEF Good, Worlds, ProcessManagers, Lost
  <1>4. \A q \in Pids \ {p} : w.bound[q] = NoOwner
    BY <1>1 DEF Good, ClientsAreBound
  <1>5. ClientsAreBound(v)
    <2>1. \A d \in Configs : v.cfg[d].pid = NoPid
      BY <1>1, <1>2
    <2>2. \A q \in Pids : v.bound[q] = NoOwner
      BY <1>3, <1>4
    <2> QED BY <2>1, <2>2, Zenon DEF ClientsAreBound
  <1>6. ClientsAreWatched(v)
    BY <1>3 DEF Good, ClientsAreWatched, Lost
  <1>7. \A d \in Configs : TimersFit(v.cfg[d])
    BY <1>2 DEF Good
  <1>8. Fresh(v.pm) = Fresh(w.pm)
    <2>1. w.pm.proc[p] # "unborn"
      BY <1>1, Numbers, SMTT(30) DEF Good, ClientsAreWatched
    <2> QED BY <2>1 DEF Fresh, Lost
  <1> QED BY <1>5, <1>6, <1>7, <1>8 DEF Good
-----------------------------------------------------------------------------
(***************************************************************************)
(* The life of a client.                                                   *)
(***************************************************************************)
\* Who the client of c is does not matter to the methods that call Stop.
Stops(w, v, c) ==
    /\ Good(v) /\ Fresh(v.pm) = Fresh(w.pm)
    /\ v.dev = w.dev
    /\ v.cfg = [w.cfg EXCEPT ![c] = Ended(w.cfg[c])]

LEMMA CleanedUp ==
  ASSUME NEW w \in Worlds, NEW c \in Configs
  PROVE  CleanupClientState(w, c) =
           [w EXCEPT !.cfg = [w.cfg EXCEPT ![c] = Ended(w.cfg[c])],
                     !.bound = IF w.cfg[c].pid = NoPid THEN w.bound
                               ELSE [w.bound EXCEPT ![w.cfg[c].pid] = NoOwner]]
  <1> DEFINE f == [w.cfg EXCEPT ![c] = Ended(w.cfg[c])]
             p == w.cfg[c].pid
             v == [w EXCEPT !.cfg[c].acquisition = FALSE, !.cfg[c].expiration = FALSE,
                            !.cfg[c].proxy = FALSE, !.cfg[c].pid = NoPid,
                            !.cfg[c].active = FALSE, !.cfg[c].arp = FALSE]
  <1>1. v = [w EXCEPT !.cfg = f]
    <2> DEFINE k == [w.cfg[c] EXCEPT !.acquisition = FALSE, !.expiration = FALSE,
                                     !.proxy = FALSE]
               g == [w.cfg EXCEPT ![c] = k]
               u == [w EXCEPT !.cfg[c].acquisition = FALSE, !.cfg[c].expiration = FALSE,
                              !.cfg[c].proxy = FALSE]
    <2>0. w.cfg[c] \in ConfigRecords
      BY DEF Worlds
    <2>1. u = [w EXCEPT !.cfg = g]
      BY DEF Worlds, ConfigRecords
    <2>2. v = [u EXCEPT !.cfg[c].pid = NoPid, !.cfg[c].active = FALSE, !.cfg[c].arp = FALSE]
      OBVIOUS
    <2>3. k \in ConfigRecords
      BY <2>0 DEF ConfigRecords
    <2>4. Ended(w.cfg[c]) = [k EXCEPT !.pid = NoPid, !.active = FALSE, !.arp = FALSE]
      BY DEF Ended
    <2> HIDE DEF u, k
    <2>5. u \in Worlds
      BY <2>1, <2>3 DEF Worlds
    <2>6. u.cfg = g /\ g[c] = k
      BY <2>1, <2>3 DEF Worlds
    <2> HIDE DEF g, v
    <2>7. v = [u EXCEPT !.cfg = [u.cfg EXCEPT
                  ![c] = [u.cfg[c] EXCEPT !.pid = NoPid, !.active = FALSE, !.arp = FALSE]]]
      BY <2>2, <2>5 DEF Worlds, ConfigRecords
    <2>8. v = [u EXCEPT !.cfg = [g EXCEPT ![c] = Ended(w.cfg[c])]]
      BY <2>4, <2>6, <2>7
    <2>9. [g EXCEPT ![c] = Ended(w.cfg[c])] = f
      BY DEF g, Worlds
    <2> HIDE DEF f
    <2>10. v = [u EXCEPT !.cfg = f]
      BY <2>8, <2>9
    <2> QED BY <2>1, <2>10 DEF Worlds
  <1>2. CleanupClientState(w, c) = IF p = NoPid THEN v ELSE [v EXCEPT !.bound[p] = NoOwner]
    BY DEF CleanupClientState
  <1> HIDE DEF f, v
  <1>3. CleanupClientState(w, c) =
           [w EXCEPT !.cfg = f,
                     !.bound = IF p = NoPid THEN w.bound ELSE [w.bound EXCEPT ![p] = NoOwner]]
    BY <1>1, <1>2 DEF Worlds
  <1> QED BY <1>3 DEF f

\* StopProcessAndBlock, of a process that is watched.
LEMMA ProcessStopped ==
  ASSUME NEW m \in ProcessManagers, NEW p \in Pids, NEW dies \in BOOLEAN,
         m.watched[p] # NoOwner, m.proc[p] # "unborn",
         \A q \in Pids : m.ending[q] = "none"
  PROVE  /\ StopProcessAndBlock(m, p, dies) \in ProcessManagers
         /\ Lost(m, StopProcessAndBlock(m, p, dies), p)
  <1> DEFINE e == [m.ending EXCEPT ![p] = "none"]
             a == [m.watched EXCEPT ![p] = NoOwner]
             x == [m.proc EXCEPT ![p] = IF dies \/ @ = "zombie" THEN "gone" ELSE @]
             n == [m EXCEPT !.ending = e, !.watched = a,
                            !.forgotten = @ \cup {p}, !.proc = x]
  <1>1. StopProcessAndBlock(m, p, dies) = n
    BY DEF StopProcessAndBlock, ProcessManagers
  <1>2. /\ e \in [Pids -> {"none", "term", "kill"}]
        /\ \A q \in Pids : e[q] = "none"
    BY DEF ProcessManagers
  <1>3. a \in [Pids -> Owners \cup {NoOwner}]
    BY DEF ProcessManagers
  <1>4. /\ x \in [Pids -> {"unborn", "running", "zombie", "gone"}]
        /\ x[p] # "unborn" /\ \A q \in Pids \ {p} : x[q] = m.proc[q]
    BY DEF ProcessManagers
  <1> HIDE DEF e, x
  <1>5. /\ n.ending = e /\ n.watched = a /\ n.proc = x
        /\ n.forgotten = m.forgotten \cup {p}
    BY DEF ProcessManagers
  <1>6. n \in ProcessManagers
    BY <1>2, <1>3, <1>4 DEF ProcessManagers
  <1> HIDE DEF n
  <1>7. Lost(m, n, p)
    BY <1>2, <1>4, <1>5 DEF Lost
  <1> QED BY <1>1, <1>6, <1>7

LEMMA Stopped ==
  ASSUME NEW w, Good(w), NEW c \in Configs, NEW dies \in BOOLEAN
  PROVE  Stops(w, Stop(w, c, dies), c)
  <1> DEFINE p == w.cfg[c].pid
             f == [w.cfg EXCEPT ![c] = Ended(w.cfg[c])]
             v == Stop(w, c, dies)
  <1>0. /\ w \in Worlds /\ w.cfg[c] \in ConfigRecords
        /\ f \in [Configs -> ConfigRecords]
        /\ f[c] = Ended(w.cfg[c]) /\ \A d \in Configs \ {c} : f[d] = w.cfg[d]
    <2>1. w \in Worlds /\ w.cfg[c] \in ConfigRecords
      BY DEF Good, Worlds
    <2>2. Ended(w.cfg[c]) \in ConfigRecords
      BY <2>1, EndedFits, Zenon
    <2> QED BY <2>1, <2>2 DEF Worlds
  <1>1. CASE p = NoPid
    <2>1. v = CleanupClientState(w, c)
      BY <1>1 DEF Stop
    <2>2. v = [w EXCEPT !.cfg = f, !.bound = w.bound]
      BY <1>0, <1>1, <2>1, CleanedUp
    <2>3. TimersFit(f[c]) /\ f[c].pid = NoPid
      BY <1>0, EndedFits
    <2> HIDE DEF f, v
    <2>4. /\ v \in Worlds /\ v.cfg = f /\ v.dev = w.dev
          /\ v.pm = w.pm /\ v.bound = w.bound /\ v.failed = w.failed
      BY <1>0, <2>2 DEF Worlds
    <2>5. \A d \in Configs : v.cfg[d].pid = w.cfg[d].pid /\ TimersFit(v.cfg[d])
      BY <1>0, <1>1, <2>3, <2>4 DEF Good
    <2>6. Good(v)
      BY <2>4, <2>5, SameClients DEF Good
    <2> QED BY <2>4, <2>6 DEF Stops, f, v
  <1>2. CASE p # NoPid
    <2> DEFINE m == StopProcessAndBlock(w.pm, p, dies)
               e == [w.client EXCEPT ![p] = "trying"]
               u == [w EXCEPT !.pm = m, !.client = e]
    <2>1. p \in Pids /\ w.pm \in ProcessManagers
      BY <1>0, <1>2 DEF ConfigRecords, Worlds
    <2>2. w.bound[p] = c /\ w.pm.watched[p] = c /\ w.pm.proc[p] # "unborn"
          /\ \A q \in Pids : w.pm.ending[q] = "none"
      BY <1>2, <2>1, Numbers DEF Good, ClientsAreBound, ClientsAreWatched
    <2>3. m \in ProcessManagers /\ Lost(w.pm, m, p)
      BY <2>1, <2>2, Numbers, ProcessStopped
    <2>4. e \in [Pids -> {"trying", "bound"}]
      BY <1>0, <2>1 DEF Worlds
    <2>5. v = CleanupClientState(u, c)
      BY <1>0, <1>2 DEF Stop, Worlds
    <2> HIDE DEF m, e
    <2>6. u \in Worlds /\ u.cfg = w.cfg /\ u.bound = w.bound
      BY <1>0, <2>3, <2>4 DEF Worlds
    <2> HIDE DEF u
    <2>7. v = [u EXCEPT !.cfg = f, !.bound = [w.bound EXCEPT ![p] = NoOwner]]
      BY <1>2, <2>5, <2>6, CleanedUp
    <2> DEFINE b == [w.bound EXCEPT ![p] = NoOwner]
    <2>8. b \in [Pids -> Configs \cup {NoOwner}]
      BY <1>0 DEF Worlds
    <2> HIDE DEF f, b, v
    <2>9. /\ v \in Worlds /\ v.dev = w.dev /\ v.failed = FALSE
          /\ v.cfg = f /\ v.bound = b /\ v.pm = m
      BY <1>0, <2>3, <2>4, <2>6, <2>7, <2>8 DEF Worlds, u, Good, b
    <2>10. Good(v) /\ Fresh(v.pm) = Fresh(w.pm)
      BY <2>1, <2>3, <2>9, ClientEnds DEF f, b
    <2> QED BY <2>9, <2>10 DEF Stops, f, v
  <1> QED BY <1>1, <1>2

\* The CHECKs of the timers hold.
LEMMA AcquisitionTimed ==
  ASSUME NEW w \in Worlds, NEW c \in Configs, w.failed = FALSE,
         w.cfg[c].expiration = FALSE
  PROVE  StartAcquisitionTimeout(w, c) =
           [w EXCEPT !.cfg = [w.cfg EXCEPT ![c] = [w.cfg[c] EXCEPT !.acquisition = TRUE]]]
  <1> DEFINE f == [w.cfg EXCEPT ![c] = [w.cfg[c] EXCEPT !.acquisition = TRUE]]
  <1>1. (w.failed \/ w.cfg[c].expiration) = FALSE
    OBVIOUS
  <1>2. StartAcquisitionTimeout(w, c) = [w EXCEPT !.failed = FALSE, !.cfg = f]
    BY <1>1 DEF StartAcquisitionTimeout, Worlds
  <1> HIDE DEF f
  <1>3. StartAcquisitionTimeout(w, c) = [w EXCEPT !.cfg = f]
    BY <1>2 DEF Worlds
  <1> QED BY <1>3 DEF f

LEMMA ExpirationTimed ==
  ASSUME NEW w \in Worlds, NEW c \in Configs, w.failed = FALSE,
         w.cfg[c].acquisition = FALSE
  PROVE  StartExpirationTimeout(w, c) =
           [w EXCEPT !.cfg = [w.cfg EXCEPT ![c] = [w.cfg[c] EXCEPT !.expiration = TRUE]]]
  <1> DEFINE f == [w.cfg EXCEPT ![c] = [w.cfg[c] EXCEPT !.expiration = TRUE]]
  <1>1. (w.failed \/ w.cfg[c].acquisition) = FALSE
    OBVIOUS
  <1>2. StartExpirationTimeout(w, c) = [w EXCEPT !.failed = FALSE, !.cfg = f]
    BY <1>1 DEF StartExpirationTimeout, Worlds
  <1> HIDE DEF f
  <1>3. StartExpirationTimeout(w, c) = [w EXCEPT !.cfg = f]
    BY <1>2 DEF Worlds
  <1> QED BY <1>3 DEF f

\* A client has been started for c, and its acquisition is timed.
Starts(w, v, c) ==
    /\ Good(v) /\ v.dev = w.dev
    /\ \E p \in Pids : v.cfg = [w.cfg EXCEPT ![c] =
                                   [w.cfg[c] EXCEPT !.pid = p, !.acquisition = TRUE]]

\* StartProcess, of a process id not used yet.
LEMMA ProcessStarted ==
  ASSUME NEW m \in ProcessManagers, NEW p \in Pids, NEW c \in Configs
  PROVE  /\ StartProcess(m, p, c) \in ProcessManagers
         /\ StartProcess(m, p, c).watched = [m.watched EXCEPT ![p] = c]
         /\ StartProcess(m, p, c).proc = [m.proc EXCEPT ![p] = "running"]
         /\ StartProcess(m, p, c).ending = m.ending
         /\ StartProcess(m, p, c).forgotten = m.forgotten
  <1> DEFINE a == [m.watched EXCEPT ![p] = c]
             x == [m.proc EXCEPT ![p] = "running"]
  <1>1. StartProcess(m, p, c) = [m EXCEPT !.watched = a, !.proc = x]
    BY DEF StartProcess, ProcessManagers
  <1>2. /\ a \in [Pids -> Owners \cup {NoOwner}]
        /\ x \in [Pids -> {"unborn", "running", "zombie", "gone"}]
    BY DEF ProcessManagers, Configs
  <1> HIDE DEF a, x
  <1>3. /\ StartProcess(m, p, c) \in ProcessManagers
        /\ StartProcess(m, p, c).watched = a /\ StartProcess(m, p, c).proc = x
        /\ StartProcess(m, p, c).ending = m.ending
        /\ StartProcess(m, p, c).forgotten = m.forgotten
    BY <1>1, <1>2 DEF ProcessManagers
  <1> QED BY <1>3 DEF a, x

LEMMA Started ==
  ASSUME NEW w, Good(w), NEW c \in Configs, c = w.dev.ipconfig,
         w.cfg[c].pid = NoPid, Fresh(w.pm) # {}
  PROVE  Starts(w, Start(w, c, TRUE), c)
  <1> DEFINE p == LeastFresh(w.pm)
             m == StartProcess(w.pm, p, c)
             b == [w.bound EXCEPT ![p] = c]
             g == [w.cfg EXCEPT ![c] = [w.cfg[c] EXCEPT !.pid = p]]
             k == [w.cfg[c] EXCEPT !.pid = p, !.acquisition = TRUE]
             f == [w.cfg EXCEPT ![c] = k]
             u == [w EXCEPT !.pm = m, !.cfg = g, !.bound = b]
             v == Start(w, c, TRUE)
  <1>0. w \in Worlds /\ w.cfg[c] \in ConfigRecords /\ w.pm \in ProcessManagers
    BY DEF Good, Worlds
  <1>1. p \in Pids /\ w.pm.proc[p] = "unborn" /\ p # NoPid
    BY FreshPid, Numbers
  <1>2. v = StartAcquisitionTimeout(
                [w EXCEPT !.pm = m, !.cfg[c].pid = p, !.bound[p] = c], c)
    BY DEF Start, LeastFresh
  <1> HIDE DEF p
  <1>3. /\ m \in ProcessManagers
        /\ m.watched = [w.pm.watched EXCEPT ![p] = c]
        /\ m.proc = [w.pm.proc EXCEPT ![p] = "running"]
        /\ m.ending = w.pm.ending /\ m.forgotten = w.pm.forgotten
    BY <1>0, <1>1, ProcessStarted
  <1> HIDE DEF m
  <1>4. [w EXCEPT !.pm = m, !.cfg[c].pid = p, !.bound[p] = c] = u
    BY <1>0 DEF Worlds
  <1>5. b \in [Pids -> Configs \cup {NoOwner}] /\ b[p] = c
        /\ \A q \in Pids \ {p} : b[q] = w.bound[q]
    BY <1>0, <1>1 DEF Worlds
  <1>6. k \in ConfigRecords /\ k.pid = p /\ k.acquisition = TRUE
        /\ k.expiration = w.cfg[c].expiration
    BY <1>0, <1>1 DEF ConfigRecords
  <1>7. /\ g[c] = [w.cfg[c] EXCEPT !.pid = p] /\ g[c].expiration = w.cfg[c].expiration
        /\ g \in [Configs -> ConfigRecords]
    <2>1. [w.cfg[c] EXCEPT !.pid = p] \in ConfigRecords
      BY <1>0, <1>1 DEF ConfigRecords
    <2> QED BY <1>0, <1>1, <2>1 DEF Worlds, ConfigRecords
  <1>8. k = [g[c] EXCEPT !.acquisition = TRUE] /\ f = [g EXCEPT ![c] = k]
    BY <1>0, <1>7 DEF Worlds, ConfigRecords
  <1>9. f \in [Configs -> ConfigRecords] /\ f[c] = k
        /\ \A d \in Configs \ {c} : f[d] = w.cfg[d]
    BY <1>0, <1>6 DEF Worlds
  <1>10. w.cfg[c].expiration = FALSE /\ w.failed = FALSE
    BY <1>0 DEF Good, TimersFit, ConfigRecords
  <1> HIDE DEF b, g, f, k
  <1>11. u \in Worlds /\ u.cfg = g /\ u.failed = FALSE
    BY <1>0, <1>3, <1>5, <1>7, <1>10 DEF Worlds
  <1>12. v = [u EXCEPT !.cfg = [u.cfg EXCEPT ![c] = [u.cfg[c] EXCEPT !.acquisition = TRUE]]]
    <2>1. v = StartAcquisitionTimeout(u, c)
      BY <1>2, <1>4
    <2>2. u.cfg[c].expiration = FALSE
      BY <1>7, <1>10, <1>11
    <2> HIDE DEF u, v
    <2>3. StartAcquisitionTimeout(u, c) =
             [u EXCEPT !.cfg = [u.cfg EXCEPT ![c] = [u.cfg[c] EXCEPT !.acquisition = TRUE]]]
      BY <1>11, <2>2, AcquisitionTimed, Zenon
    <2> QED BY <2>1, <2>3
  <1>13. v = [w EXCEPT !.pm = m, !.cfg = f, !.bound = b]
    <2>1. v = [u EXCEPT !.cfg = f]
      BY <1>8, <1>11, <1>12
    <2> QED BY <1>0, <2>1 DEF Worlds
  <1> HIDE DEF v, u
  <1>14. /\ v \in Worlds /\ v.dev = w.dev /\ v.failed = FALSE
         /\ v.cfg = f /\ v.bound = b /\ v.pm = m
    BY <1>0, <1>3, <1>5, <1>9, <1>10, <1>13 DEF Worlds
  <1>15. \A d \in Configs \ {c} : w.cfg[d].pid = NoPid
    BY DEF Good, ClientsAreBound
  <1>16. \A q \in Pids : w.bound[q] = NoOwner
    <2>1. \A q \in Pids : w.bound[q] \in Configs \cup {NoOwner}
      BY <1>0 DEF Worlds
    <2> QED BY <1>15, <2>1, Numbers DEF Good, ClientsAreBound
  <1>17. ClientsAreBound(v)
    <2>1. ASSUME NEW d \in Configs, v.cfg[d].pid # NoPid
          PROVE  d = v.dev.ipconfig /\ v.bound[v.cfg[d].pid] = d
      <3>1. d = c
        BY <1>9, <1>14, <1>15, <2>1
      <3> QED BY <1>5, <1>6, <1>9, <1>14, <3>1
    <2>2. ASSUME NEW q \in Pids, v.bound[q] # NoOwner
          PROVE  v.bound[q] = v.dev.ipconfig /\ v.cfg[v.bound[q]].pid = q
      <3>1. q = p
        BY <1>5, <1>14, <1>16, <2>2
      <3> QED BY <1>5, <1>6, <1>9, <1>14, <3>1
    <2> QED BY <2>1, <2>2 DEF ClientsAreBound
  <1>18. ClientsAreWatched(v)
    <2> SUFFICES ASSUME NEW q \in Pids
                 PROVE  /\ m.watched[q] = b[q] /\ m.ending[q] = "none"
                        /\ b[q] # NoOwner <=> m.proc[q] \in {"running", "zombie"}
                                                 /\ q \notin m.forgotten
                        /\ m.proc[q] = "unborn" => q \notin m.forgotten
      BY <1>14 DEF ClientsAreWatched
    <2>1. CASE q = p
      BY <1>0, <1>1, <1>3, <1>5, <2>1, Numbers DEF Good, ClientsAreWatched, ProcessManagers
    <2>2. CASE q # p
      BY <1>0, <1>3, <1>5, <2>2 DEF Good, ClientsAreWatched, ProcessManagers
    <2> QED BY <2>1, <2>2
  <1>19. TimersFit(k)
    BY <1>1, <1>6, <1>10 DEF TimersFit
  <1>20. Good(v)
    BY <1>9, <1>14, <1>17, <1>18, <1>19 DEF Good
  <1> QED BY <1>1, <1>14, <1>20 DEF Starts, f, k, v

\* What dhcpcd is doing says nothing about shill.
LEMMA ClientTold ==
  ASSUME NEW w, Good(w), NEW e \in [Pids -> {"trying", "bound"}]
  PROVE  Good([w EXCEPT !.client = e])
  <1> DEFINE v == [w EXCEPT !.client = e]
  <1>1. /\ v \in Worlds /\ v.cfg = w.cfg /\ v.dev = w.dev
        /\ v.pm = w.pm /\ v.bound = w.bound /\ v.failed = w.failed
    BY DEF Good, Worlds
  <1> HIDE DEF v
  <1>2. Good(v)
    BY <1>1, SameClients DEF Good
  <1> QED BY <1>2 DEF v

\* The lease of c is renewed, or nothing happens.
Renews(w, v, c) == Good(v) /\ v.dev = w.dev /\ (Timed(w) => Timed(v))

LEMMA Renewed ==
  ASSUME NEW w, Good(w), NEW c \in Configs, c = w.dev.ipconfig, NEW ok \in BOOLEAN,
         ok /\ w.cfg[c].pid = NoPid => Fresh(w.pm) # {}
  PROVE  Renews(w, RenewIP(w, c, ok), c)
  <1> DEFINE v == RenewIP(w, c, ok)
  <1>0. w \in Worlds /\ w.cfg[c] \in ConfigRecords
    BY DEF Good, Worlds
  <1>1. CASE v = w
    BY <1>1 DEF Renews
  <1>2. CASE ok /\ w.cfg[c].pid = NoPid
    <2>1. Starts(w, v, c)
      BY <1>2, Started DEF RenewIP
    <2> HIDE DEF v
    <2>2. PICK p \in Pids : v.cfg = [w.cfg EXCEPT ![c] =
                                [w.cfg[c] EXCEPT !.pid = p, !.acquisition = TRUE]]
      BY <2>1 DEF Starts
    <2>3. v.dev = w.dev /\ Good(v)
      BY <2>1 DEF Starts
    <2>4. v.cfg[c] = [w.cfg[c] EXCEPT !.pid = p, !.acquisition = TRUE]
      BY <1>0, <2>2 DEF Worlds
    <2>5. /\ v.cfg[c].excused = w.cfg[c].excused /\ v.cfg[c].arp = w.cfg[c].arp
          /\ v.cfg[c].acquisition = TRUE /\ v.cfg[c].pid # NoPid
      BY <1>0, <2>4, Numbers DEF ConfigRecords
    <2>6. Timed(w) => Timed(v)
      BY <2>3, <2>5 DEF Timed, Supports, Good
    <2> QED BY <2>3, <2>6 DEF Renews, v
  <1>3. CASE w.cfg[c].pid # NoPid /\ v # w
    <2> DEFINE p == w.cfg[c].pid
               e == [w.client EXCEPT ![p] = "trying"]
               k == [w.cfg[c] EXCEPT !.expiration = FALSE]
               l == [k EXCEPT !.acquisition = TRUE]
               f == [w.cfg EXCEPT ![c] = k]
               x == [w EXCEPT !.client = e]
               u == [x EXCEPT !.cfg = [x.cfg EXCEPT ![c] = k]]
    <2>1. v = StartAcquisitionTimeout(
                  [w EXCEPT !.cfg[c].expiration = FALSE, !.client[p] = "trying"], c)
      BY <1>3 DEF RenewIP
    <2>2. p \in Pids /\ e \in [Pids -> {"trying", "bound"}]
      BY <1>0, <1>3 DEF Worlds, ConfigRecords
    <2>3. /\ k \in ConfigRecords /\ k.pid = p /\ k.expiration = FALSE
          /\ k.acquisition = w.cfg[c].acquisition
          /\ k.excused = w.cfg[c].excused /\ k.arp = w.cfg[c].arp
      BY <1>0 DEF ConfigRecords
    <2>4. /\ l \in ConfigRecords /\ l.pid = p /\ l.expiration = FALSE
          /\ l.acquisition = TRUE
          /\ l.excused = w.cfg[c].excused /\ l.arp = w.cfg[c].arp
      BY <2>3 DEF ConfigRecords
    <2>5. [w EXCEPT !.cfg[c].expiration = FALSE, !.client[p] = "trying"] =
             [w EXCEPT !.cfg = f, !.client = e]
      BY <1>0 DEF Worlds
    <2> HIDE DEF e, k
    <2>6. Good(x) /\ x.cfg = w.cfg /\ x.dev = w.dev
      BY <1>0, <2>2, ClientTold DEF Worlds
    <2>7. u = [w EXCEPT !.cfg = f, !.client = e]
      BY <1>0, <2>6 DEF Worlds
    <2> HIDE DEF x
    <2>8. TimersFit(k)
      BY <1>3, <2>3 DEF TimersFit
    <2>9. Good(u)
      BY <2>3, <2>6, <2>8, OneConfig
    <2>10. u \in Worlds /\ u.cfg[c] = k /\ u.failed = FALSE /\ u.dev = w.dev
      BY <1>0, <2>3, <2>6, <2>9 DEF Good, Worlds
    <2>11. v = StartAcquisitionTimeout(u, c)
      BY <2>1, <2>5, <2>7
    <2> HIDE DEF u, v
    <2>12. v = [u EXCEPT !.cfg = [u.cfg EXCEPT ![c] = l]]
      BY <2>3, <2>10, <2>11, AcquisitionTimed
    <2> HIDE DEF l
    <2>13. TimersFit(l)
      BY <1>3, <2>4 DEF TimersFit
    <2>14. Good(v)
      BY <2>3, <2>4, <2>9, <2>10, <2>12, <2>13, OneConfig
    <2>15. v.cfg[c] = l /\ v.dev = w.dev
      BY <2>10, <2>12 DEF Worlds
    <2>16. Timed(w) => Timed(v)
      BY <1>3, <2>4, <2>14, <2>15 DEF Timed, Supports, Good
    <2> QED BY <2>14, <2>15, <2>16 DEF Renews, v
  <1>4. CASE w.cfg[c].pid = NoPid /\ ~ok
    <2>1. v = w
      BY <1>4 DEF RenewIP, Start
    <2> QED BY <1>1, <2>1
  <1> QED BY <1>1, <1>2, <1>3, <1>4
-----------------------------------------------------------------------------
(***************************************************************************)
(* The device gives its configuration up.                                  *)
(***************************************************************************)
\* The client of c may have been stopped.
Releases(w, v) ==
    Good(v) /\ Fresh(v.pm) = Fresh(w.pm) /\ v.dev = w.dev

LEMMA Released ==
  ASSUME NEW w, Good(w), NEW c \in Configs, NEW static \in BOOLEAN, NEW dies \in BOOLEAN
  PROVE  /\ Releases(w, ReleaseIP(w, c, static, dies))
         /\ ~static => ReleaseIP(w, c, static, dies).cfg[c].pid = NoPid
  <1> DEFINE v == ReleaseIP(w, c, static, dies)
  <1>1. CASE v = w /\ (~static => w.cfg[c].pid = NoPid)
    BY <1>1 DEF Releases
  <1>2. CASE v = Stop(w, c, dies)
    <2> HIDE DEF v
    <2>1. Stops(w, v, c)
      BY <1>2, Stopped
    <2>2. Releases(w, v)
      BY <2>1 DEF Stops, Releases
    <2>3. v.cfg[c] = Ended(w.cfg[c]) /\ w.cfg[c] \in ConfigRecords
      BY <2>1 DEF Stops, Good, Worlds
    <2>4. v.cfg[c].pid = NoPid
      BY <2>3, EndedFits
    <2> QED BY <2>2, <2>4 DEF v
  <1> QED BY <1>1, <1>2 DEF ReleaseIP

\* Without a client, another configuration may become the current one.
LEMMA NewDevice ==
  ASSUME NEW w, Good(w), \A c \in Configs : w.cfg[c].pid = NoPid,
         NEW d \in DeviceRecords, d.from # NoOwner => d.from = d.ipconfig
  PROVE  Good([w EXCEPT !.dev = d])
  <1> DEFINE v == [w EXCEPT !.dev = d]
  <1>1. /\ v \in Worlds /\ v.cfg = w.cfg /\ v.dev = d
        /\ v.pm = w.pm /\ v.bound = w.bound /\ v.failed = w.failed
    BY DEF Good, Worlds
  <1>2. \A p \in Pids : w.bound[p] = NoOwner
    <2>1. \A p \in Pids : w.bound[p] \in Configs \cup {NoOwner}
      BY DEF Good, Worlds
    <2> QED BY <2>1, Numbers DEF Good, ClientsAreBound
  <1> HIDE DEF v
  <1>3. ClientsAreBound(v)
    BY <1>1, <1>2 DEF ClientsAreBound
  <1>4. ClientsAreWatched(v)
    BY <1>1 DEF Good, ClientsAreWatched
  <1>5. Good(v)
    BY <1>1, <1>3, <1>4 DEF Good
  <1> QED BY <1>5 DEF v

Bare(d) ==
    [d EXCEPT !.ipconfig = NoOwner, !.ipv6 = FALSE, !.connection = "none",
              !.from = NoOwner]

LEMMA BareDevice ==
  ASSUME NEW d \in DeviceRecords
  PROVE  /\ Bare(d) \in DeviceRecords
         /\ Bare(d).ipconfig = NoOwner /\ Bare(d).from = NoOwner
         /\ Bare(d).ipv6 = FALSE /\ Bare(d).connection = "none"
         /\ Bare(d).selected = d.selected /\ Bare(d).state = d.state
         /\ Bare(d).static = d.static /\ Bare(d).task = d.task
BY DEF Bare, DeviceRecords

NoClient(w) == \A c \in Configs : w.cfg[c].pid = NoPid

\* The client of the configuration is stopped and the connection is gone.
Destroys(w, v) ==
    Good(v) /\ Fresh(v.pm) = Fresh(w.pm) /\ v.dev = Bare(w.dev) /\ NoClient(v)

LEMMA NewConfigFits ==
  NewConfig \in ConfigRecords /\ NewConfig.pid = NoPid /\ TimersFit(NewConfig)
BY DEF NewConfig, ConfigRecords, TimersFit, Addresses

LEMMA Forgotten ==
  ASSUME NEW w, Good(w), NEW c \in Configs
  PROVE  /\ Good(Forget(w, c)) /\ Forget(w, c).dev = w.dev
         /\ Forget(w, c).pm = w.pm
         /\ w.cfg[c].pid = NoPid => Forget(w, c).cfg[c].pid = NoPid
  <1> DEFINE v == Forget(w, c)
  <1>1. CASE w.cfg[c].pid # NoPid
    BY <1>1 DEF Forget
  <1>2. CASE w.cfg[c].pid = NoPid
    <2>1. v = [w EXCEPT !.cfg = [w.cfg EXCEPT ![c] = NewConfig]]
      BY <1>2 DEF Forget, Good, Worlds
    <2> HIDE DEF v
    <2>2. Good(v)
      BY <1>2, <2>1, NewConfigFits, OneConfig
    <2>3. v.dev = w.dev /\ v.pm = w.pm /\ v.cfg[c] = NewConfig
      BY <2>1 DEF Good, Worlds
    <2> QED BY <2>2, <2>3, NewConfigFits DEF v
  <1> QED BY <1>1, <1>2

LEMMA Destroyed ==
  ASSUME NEW w, Good(w), NEW dies \in BOOLEAN
  PROVE  Destroys(w, DestroyIPConfig(w, dies))
  <1> DEFINE c == w.dev.ipconfig
             r == ReleaseIP(w, c, FALSE, dies)
             u == IF c = NoOwner THEN w ELSE Forget(r, c)
             v == DestroyIPConfig(w, dies)
  <1>1. Good(u) /\ Fresh(u.pm) = Fresh(w.pm) /\ u.dev = w.dev /\ NoClient(u)
    <2>1. CASE c = NoOwner
      BY <2>1, Numbers DEF Good, ClientsAreBound, NoClient
    <2>2. CASE c # NoOwner
      <3>1. c \in Configs
        BY <2>2 DEF Good, Worlds, DeviceRecords
      <3>2. Releases(w, r) /\ r.cfg[c].pid = NoPid
        BY <3>1, Released
      <3> HIDE DEF r
      <3>3. Good(r) /\ Fresh(r.pm) = Fresh(w.pm) /\ r.dev = w.dev
        BY <3>2 DEF Releases
      <3>4. u = Forget(r, c)
        BY <2>2
      <3> HIDE DEF u
      <3>5. Good(u) /\ u.dev = r.dev /\ u.pm = r.pm /\ u.cfg[c].pid = NoPid
        BY <3>1, <3>2, <3>3, <3>4, Forgotten
      <3>6. NoClient(u)
        BY <3>3, <3>5 DEF Good, ClientsAreBound, NoClient
      <3> QED BY <3>3, <3>5, <3>6
    <2> QED BY <2>1, <2>2
  <1>2. v = [u EXCEPT !.dev.ipconfig = NoOwner, !.dev.ipv6 = FALSE,
                      !.dev.connection = "none", !.dev.from = NoOwner]
    BY DEF DestroyIPConfig
  <1> HIDE DEF u, v
  <1>3. u \in Worlds /\ u.dev \in DeviceRecords
    BY <1>1 DEF Good, Worlds
  <1>4. v = [u EXCEPT !.dev = Bare(u.dev)]
    <2> DEFINE d == [u.dev EXCEPT !.ipconfig = NoOwner, !.ipv6 = FALSE]
               x == [u EXCEPT !.dev.ipconfig = NoOwner, !.dev.ipv6 = FALSE]
    <2>1. x = [u EXCEPT !.dev = d]
      BY <1>3 DEF Worlds
    <2>2. v = [x EXCEPT !.dev.connection = "none", !.dev.from = NoOwner]
      BY <1>2
    <2>3. Bare(u.dev) = [d EXCEPT !.connection = "none", !.from = NoOwner]
      BY DEF Bare
    <2> HIDE DEF d, x
    <2>4. v = [x EXCEPT !.dev = [x.dev EXCEPT !.connection = "none", !.from = NoOwner]]
      BY <1>3, <2>1, <2>2 DEF Worlds
    <2> QED BY <1>3, <2>1, <2>3, <2>4 DEF Worlds
  <1>5. Good(v)
    BY <1>1, <1>3, <1>4, BareDevice, NewDevice DEF NoClient
  <1>6. v.pm = u.pm /\ v.cfg = u.cfg /\ v.dev = Bare(w.dev)
    BY <1>1, <1>3, <1>4 DEF Worlds
  <1> QED BY <1>1, <1>5, <1>6 DEF Destroys, NoClient, v

\* What the device is said to be, the configuration and the connection apart.
Sets(w, v, d) ==
    /\ v = [w EXCEPT !.dev = d]
    /\ d.ipconfig = w.dev.ipconfig /\ d.from = w.dev.from
    /\ d.connection = w.dev.connection

WasSet(w, v, d) ==
    /\ Good(v) /\ (Timed(w) => Timed(v))
    /\ v.dev = d /\ v.cfg = w.cfg /\ v.pm = w.pm

LEMMA DeviceSet ==
  ASSUME NEW w, Good(w), NEW d \in DeviceRecords, NEW v, Sets(w, v, d)
  PROVE  WasSet(w, v, d)
  <1>1. v.dev = d /\ v.cfg = w.cfg /\ v.pm = w.pm
    BY DEF Good, Worlds, Sets
  <1>2. Good(v)
    BY OneDevice DEF Good, Sets
  <1>3. Timed(w) => Timed(v)
    BY <1>1 DEF Timed, Sets
  <1> QED BY <1>1, <1>2, <1>3 DEF WasSet

\* Neither a client nor a connection.
Dropped(w) == Good(w) /\ NoClient(w) /\ w.dev.from = NoOwner /\ w.dev.connection = "none"

LEMMA DroppedIsTimed ==
  ASSUME NEW w, Dropped(w)
  PROVE  Timed(w)
BY DEF Dropped, Timed

LEMMA ConnectionDropped ==
  ASSUME NEW w, Good(w), NEW dies \in BOOLEAN
  PROVE  Dropped(DropConnection(w, dies))
  <1> DEFINE u == DestroyIPConfig(w, dies)
             d == [u.dev EXCEPT !.selected = FALSE]
             v == DropConnection(w, dies)
  <1>1. Destroys(w, u)
    BY Destroyed
  <1>2. v = [u EXCEPT !.dev.selected = FALSE]
    BY DEF DropConnection
  <1> HIDE DEF u, v
  <1>3. /\ Good(u) /\ u \in Worlds /\ u.dev \in DeviceRecords /\ NoClient(u)
        /\ u.dev.from = NoOwner /\ u.dev.connection = "none"
    BY <1>1, BareDevice DEF Destroys, Good, Worlds
  <1>4. v = [u EXCEPT !.dev = d]
    BY <1>2, <1>3 DEF Worlds
  <1>5. d \in DeviceRecords /\ d.ipconfig = u.dev.ipconfig
        /\ d.from = u.dev.from /\ d.connection = u.dev.connection
    BY <1>3 DEF DeviceRecords
  <1> HIDE DEF d
  <1>6. Good(v) /\ v.dev = d /\ v.cfg = u.cfg
    <2>1. Sets(u, v, d)
      BY <1>4, <1>5 DEF Sets
    <2>2. WasSet(u, v, d)
      BY <1>3, <1>5, <2>1, DeviceSet, Zenon
    <2> QED BY <2>2 DEF WasSet
  <1> QED BY <1>3, <1>5, <1>6 DEF Dropped, NoClient, v

States == {"idle", "configuring", "connected", "failure"}

\* The state of the service is set.
SetsState(w, v, st) ==
    /\ Good(v) /\ (Timed(w) => Timed(v)) /\ (Dropped(w) => Dropped(v))
    /\ v.cfg = w.cfg /\ v.pm = w.pm /\ v.dev = [w.dev EXCEPT !.state = st]

LEMMA StateSet ==
  ASSUME NEW w, Good(w), NEW st \in States
  PROVE  SetsState(w, [w EXCEPT !.dev.state = st], st)
  <1> DEFINE d == [w.dev EXCEPT !.state = st]
             v == [w EXCEPT !.dev.state = st]
  <1>1. w.dev \in DeviceRecords /\ v = [w EXCEPT !.dev = d]
    BY DEF Good, Worlds
  <1>2. d \in DeviceRecords /\ d.ipconfig = w.dev.ipconfig
        /\ d.from = w.dev.from /\ d.connection = w.dev.connection
    BY <1>1 DEF DeviceRecords, States
  <1> HIDE DEF d, v
  <1>3. /\ Good(v) /\ (Timed(w) => Timed(v))
        /\ v.dev = d /\ v.cfg = w.cfg /\ v.pm = w.pm
    <2>1. Sets(w, v, d)
      BY <1>1, <1>2 DEF Sets
    <2> QED BY <1>2, <2>1, DeviceSet, Zenon DEF WasSet
  <1>4. Dropped(w) => Dropped(v)
    BY <1>2, <1>3 DEF Dropped, NoClient
  <1> QED BY <1>3, <1>4 DEF SetsState, d, v

Kinds == {"none", "static", "lease", "forever", "arp", "unset", "ipv6"}

\* A connection of that kind is set up from c.
SetsUp(w, v, kind, c) ==
    /\ Good(v) /\ v.cfg = w.cfg /\ v.pm = w.pm
    /\ v.dev.from = c /\ v.dev.connection = kind /\ v.dev.ipconfig = w.dev.ipconfig

LEMMA ConnectionSetUp ==
  ASSUME NEW w, Good(w), NEW kind \in Kinds, NEW c \in Configs \cup {NoOwner},
         c # NoOwner => c = w.dev.ipconfig
  PROVE  SetsUp(w, SetupConnection(w, kind, c), kind, c)
  <1> DEFINE st == IF w.dev.selected THEN "connected" ELSE w.dev.state
             d == [w.dev EXCEPT !.connection = kind, !.from = c, !.state = st]
             v == SetupConnection(w, kind, c)
  <1>1. w \in Worlds /\ w.dev \in DeviceRecords
    BY DEF Good, Worlds
  <1>2. st \in States
    BY <1>1 DEF States, DeviceRecords
  <1> HIDE DEF v
  <1>3. v = [w EXCEPT !.dev = d]
    <2> DEFINE e == [w.dev EXCEPT !.connection = kind, !.from = c]
               u == [w EXCEPT !.dev.connection = kind, !.dev.from = c]
    <2>1. u = [w EXCEPT !.dev = e]
      BY <1>1 DEF Worlds
    <2>2. e.state = w.dev.state /\ d = [e EXCEPT !.state = st]
      BY <1>1 DEF DeviceRecords
    <2>3. v = [u EXCEPT !.dev.state = IF w.dev.selected THEN "connected" ELSE @]
      BY DEF SetupConnection, v
    <2> HIDE DEF d, e, u
    <2>4. u.dev = e /\ v = [u EXCEPT !.dev = [e EXCEPT !.state = st]]
      BY <1>1, <2>1, <2>2, <2>3 DEF Worlds
    <2> QED BY <1>1, <2>1, <2>2, <2>4 DEF Worlds
  <1> HIDE DEF st
  <1>4. v = [w EXCEPT !.dev = d]
    BY <1>3
  <1>5. d \in DeviceRecords /\ d.ipconfig = w.dev.ipconfig
        /\ d.from = c /\ d.connection = kind
    BY <1>1, <1>2 DEF DeviceRecords, States, Kinds
  <1> HIDE DEF d
  <1>6. Good(v)
    BY <1>4, <1>5, OneDevice
  <1>7. v.dev = d /\ v.cfg = w.cfg /\ v.pm = w.pm
    BY <1>1, <1>4 DEF Worlds
  <1> QED BY <1>5, <1>6, <1>7 DEF SetsUp, v
-----------------------------------------------------------------------------
(***************************************************************************)
(* The current configuration reports.                                      *)
(***************************************************************************)
\* The connection is set up from the address, or from the static one.
Updates(w, v, c) ==
    /\ Good(v) /\ v.dev.from = c /\ v.dev.ipconfig = c
    /\ v.dev.connection = "static" \/
          /\ v.cfg = w.cfg
          /\ v.dev.connection = "lease" =>
                w.cfg[c].address = "lease" /\ w.cfg[c].expiration = TRUE
          /\ v.dev.connection = "arp" => w.cfg[c].address = "arp"
    /\ w.dev.selected /\ w.dev.static => v.dev.connection = "static"

LEMMA Updated ==
  ASSUME NEW w, Good(w), NEW c \in Configs, c = w.dev.ipconfig, NEW dies \in BOOLEAN
  PROVE  Updates(w, OnIPConfigUpdated(w, c, dies), c)
  <1> DEFINE k == w.cfg[c]
             leased == IF k.address = "lease" /\ ~k.expiration
                       THEN "forever" ELSE k.address
             kind == IF leased = "none" THEN "unset" ELSE leased
             v == OnIPConfigUpdated(w, c, dies)
  <1>1. w \in Worlds /\ k \in ConfigRecords
    BY DEF Good, Worlds
  <1>2. CASE w.dev.selected /\ w.dev.static
    <2> DEFINE r == ReleaseIP(w, c, TRUE, dies)
    <2>1. v = SetupConnection(r, "static", c)
      BY <1>2 DEF OnIPConfigUpdated
    <2>2. Releases(w, r)
      BY Released
    <2> HIDE DEF r, v
    <2>3. Good(r) /\ c = r.dev.ipconfig
      BY <2>2 DEF Releases
    <2>4. SetsUp(r, v, "static", c)
      BY <2>1, <2>3, ConnectionSetUp DEF Kinds
    <2> QED BY <2>3, <2>4 DEF Updates, SetsUp, v
  <1>3. CASE ~(w.dev.selected /\ w.dev.static)
    <2>1. v = SetupConnection(w, kind, c)
      BY <1>3 DEF OnIPConfigUpdated
    <2>2. kind \in Kinds /\ (kind = "lease" => k.address = "lease" /\ k.expiration = TRUE)
          /\ (kind = "arp" => k.address = "arp")
      BY <1>1 DEF Kinds, ConfigRecords, Addresses
    <2> HIDE DEF kind, v
    <2>3. SetsUp(w, v, kind, c)
      BY <2>1, <2>2, ConnectionSetUp
    <2> QED BY <1>3, <2>2, <2>3 DEF Updates, SetsUp, v
  <1> QED BY <1>2, <1>3

\* k can replace the record of c.
Fits(w, c, k) == k \in ConfigRecords /\ k.pid = w.cfg[c].pid /\ TimersFit(k)

\* It does, in v.
Edits(w, v, c, k) ==
    /\ Good(v) /\ v.cfg = [w.cfg EXCEPT ![c] = k] /\ v.cfg[c] = k
    /\ v.dev = w.dev /\ v.pm = w.pm

LEMMA Edited ==
  ASSUME NEW w, Good(w), NEW c \in Configs, NEW k, Fits(w, c, k)
  PROVE  Edits(w, [w EXCEPT !.cfg = [w.cfg EXCEPT ![c] = k]], c, k)
  <1> DEFINE f == [w.cfg EXCEPT ![c] = k]
             v == [w EXCEPT !.cfg = f]
  <1>1. Good(v)
    BY OneConfig DEF Fits
  <1>2. f[c] = k
    BY DEF Good, Worlds
  <1> HIDE DEF f
  <1>3. v.cfg = f /\ v.dev = w.dev /\ v.pm = w.pm
    BY DEF Good, Worlds
  <1> QED BY <1>1, <1>2, <1>3 DEF Edits, f

\* Where a task may end.
Ends(w) == Good(w) /\ Timed(w)

\* The failure is passed over, or the connection does not stay.
LEMMA FailureHandled ==
  ASSUME NEW w, Good(w), NEW c \in Configs, c = w.dev.ipconfig, NEW dies \in BOOLEAN
  PROVE  Ends(OnIPConfigFailed(w, c, dies))
  <1> DEFINE u == OnIPConfigFailed(w, c, dies)
             k == [w.cfg[c] EXCEPT !.address = "none"]
             v == [w EXCEPT !.cfg[c].address = "none"]
  <1> SUFFICES Ends(u)
    OBVIOUS
  <1>0. w \in Worlds /\ w.cfg[c] \in ConfigRecords /\ TimersFit(w.cfg[c])
    BY DEF Good, Worlds
  <1>1. CASE w.dev.selected /\ w.dev.static
    <2> DEFINE l == [w.cfg[c] EXCEPT !.excused = TRUE]
    <2>1. u = [w EXCEPT !.cfg = [w.cfg EXCEPT ![c] = l]]
      BY <1>0, <1>1 DEF OnIPConfigFailed, Worlds
    <2>2. Fits(w, c, l) /\ l.excused = TRUE
      BY <1>0 DEF Fits, TimersFit, ConfigRecords
    <2> HIDE DEF l, u
    <2>3. Edits(w, u, c, l)
      BY <2>1, <2>2, Edited
    <2>4. Timed(u)
      BY <2>2, <2>3 DEF Edits, Good, Timed, Supports
    <2> QED BY <2>3, <2>4 DEF Edits, Ends
  <1>2. v = [w EXCEPT !.cfg = [w.cfg EXCEPT ![c] = k]]
    BY <1>0 DEF Worlds
  <1>3. Fits(w, c, k)
    BY <1>0 DEF Fits, TimersFit, ConfigRecords, Addresses
  <1>4. ~(w.dev.selected /\ w.dev.static) =>
           u = IF w.dev.ipv6
               THEN IF w.dev.connection = "ipv6" THEN v
                    ELSE SetupConnection(v, "ipv6", NoOwner)
               ELSE IF w.dev.selected
               THEN [DropConnection(v, dies) EXCEPT !.dev.state = "failure"]
               ELSE [v EXCEPT !.dev.connection = "none", !.dev.from = NoOwner]
    BY DEF OnIPConfigFailed
  <1> HIDE DEF u, v, k
  <1>5. Edits(w, v, c, k)
    BY <1>2, <1>3, Edited
  <1>6. Good(v) /\ v.dev = w.dev
    BY <1>5 DEF Edits
  <1>7. CASE u = v /\ w.dev.connection = "ipv6"
    BY <1>6, <1>7 DEF Ends, Timed, Supports
  <1>8. CASE u = SetupConnection(v, "ipv6", NoOwner)
    <2>1. SetsUp(v, u, "ipv6", NoOwner)
      BY <1>6, <1>8, ConnectionSetUp DEF Kinds
    <2> QED BY <2>1 DEF SetsUp, Ends, Timed
  <1>9. CASE u = [DropConnection(v, dies) EXCEPT !.dev.state = "failure"]
    <2> DEFINE x == DropConnection(v, dies)
    <2>1. Dropped(x)
      BY <1>6, ConnectionDropped
    <2>2. u = [x EXCEPT !.dev.state = "failure"]
      BY <1>9
    <2> HIDE DEF x
    <2>3. SetsState(x, u, "failure")
      BY <2>1, <2>2, StateSet DEF Dropped, States
    <2> QED BY <2>1, <2>3, DroppedIsTimed DEF SetsState, Ends
  <1>10. CASE u = [v EXCEPT !.dev.connection = "none", !.dev.from = NoOwner]
    <2> DEFINE d == [v.dev EXCEPT !.connection = "none", !.from = NoOwner]
    <2>1. v \in Worlds /\ v.dev \in DeviceRecords
      BY <1>6 DEF Good, Worlds
    <2>2. u = [v EXCEPT !.dev = d]
      BY <1>10, <2>1 DEF Worlds
    <2>3. d \in DeviceRecords /\ d.ipconfig = v.dev.ipconfig /\ d.from = NoOwner
      BY <2>1 DEF DeviceRecords
    <2> HIDE DEF d
    <2>4. Good(u)
      BY <1>6, <2>2, <2>3, OneDevice
    <2>5. u.dev = d
      BY <2>1, <2>2 DEF Worlds
    <2> QED BY <2>3, <2>4, <2>5 DEF Ends, Timed
  <1> QED BY <1>1, <1>4, <1>7, <1>8, <1>9, <1>10

LEMMA FailureNotified ==
  ASSUME NEW w, Good(w), NEW c \in Configs, c = w.dev.ipconfig, NEW dies \in BOOLEAN
  PROVE  Ends(NotifyFailure(w, c, dies))
  <1> DEFINE k == [w.cfg[c] EXCEPT !.acquisition = FALSE, !.expiration = FALSE]
             v == [w EXCEPT !.cfg[c].acquisition = FALSE, !.cfg[c].expiration = FALSE]
  <1>0. w \in Worlds /\ w.cfg[c] \in ConfigRecords
    BY DEF Good, Worlds
  <1>1. v = [w EXCEPT !.cfg = [w.cfg EXCEPT ![c] = k]]
    BY <1>0 DEF Worlds, ConfigRecords
  <1>2. Fits(w, c, k)
    BY <1>0 DEF Fits, TimersFit, ConfigRecords
  <1>3. NotifyFailure(w, c, dies) = OnIPConfigFailed(v, c, dies)
    BY DEF NotifyFailure
  <1> HIDE DEF v, k
  <1>4. Edits(w, v, c, k)
    BY <1>1, <1>2, Edited
  <1> QED BY <1>3, <1>4, FailureHandled DEF Edits

\* Setting arp of the current configuration after the device was told of it.
LEMMA GatewaySet ==
  ASSUME NEW u, Good(u), NEW c \in Configs, NEW b \in BOOLEAN,
         u.dev.from = c, NEW v, v = [u EXCEPT !.cfg[c].arp = b],
         Supports([u.cfg[c] EXCEPT !.arp = b], u.dev.connection)
  PROVE  Ends(v)
  <1> DEFINE k == [u.cfg[c] EXCEPT !.arp = b]
  <1>1. u \in Worlds /\ u.cfg[c] \in ConfigRecords /\ TimersFit(u.cfg[c])
    BY DEF Good, Worlds
  <1>2. v = [u EXCEPT !.cfg = [u.cfg EXCEPT ![c] = k]]
    BY <1>1 DEF Worlds
  <1>3. Fits(u, c, k)
    BY <1>1 DEF Fits, TimersFit, ConfigRecords
  <1> HIDE DEF k
  <1>4. Edits(u, v, c, k)
    BY <1>2, <1>3, Edited
  <1>5. Timed(v)
    BY <1>4 DEF Edits, Timed, k
  <1> QED BY <1>4, <1>5 DEF Edits, Ends

\* A gateway has confirmed the address of the last lease.
GatewayReport(w, c, dies) ==
    [OnIPConfigUpdated([w EXCEPT !.cfg[c].active = TRUE,
                                 !.cfg[c].address = "arp"], c, dies)
        EXCEPT !.cfg[c].arp = TRUE]

LEMMA GatewayConfirmed ==
  ASSUME NEW w, Good(w), NEW c \in Configs, c = w.dev.ipconfig,
         w.cfg[c].pid # NoPid, NEW dies \in BOOLEAN
  PROVE  Ends(GatewayReport(w, c, dies))
  <1> DEFINE k == [w.cfg[c] EXCEPT !.active = TRUE, !.address = "arp"]
             x == [w EXCEPT !.cfg[c].active = TRUE, !.cfg[c].address = "arp"]
             u == OnIPConfigUpdated(x, c, dies)
             v == [u EXCEPT !.cfg[c].arp = TRUE]
  <1> SUFFICES Ends(v)
    BY Zenon DEF GatewayReport
  <1>0. w \in Worlds /\ w.cfg[c] \in ConfigRecords /\ TimersFit(w.cfg[c])
    BY DEF Good, Worlds
  <1>1. x = [w EXCEPT !.cfg = [w.cfg EXCEPT ![c] = k]]
    BY <1>0 DEF Worlds, ConfigRecords
  <1>2. Fits(w, c, k) /\ k.address = "arp" /\ k.pid # NoPid
    BY <1>0 DEF Fits, TimersFit, ConfigRecords, Addresses
  <1> HIDE DEF k, x
  <1>3. Edits(w, x, c, k)
    BY <1>1, <1>2, Edited
  <1>4. Good(x) /\ x.cfg[c] = k /\ c = x.dev.ipconfig
    BY <1>3 DEF Edits
  <1>5. Updates(x, u, c)
    BY <1>4, Updated
  <1> HIDE DEF u
  <1>6. Good(u) /\ u.dev.from = c /\ u.cfg[c] \in ConfigRecords
    BY <1>5 DEF Updates, Good, Worlds
  <1>7. Supports([u.cfg[c] EXCEPT !.arp = TRUE], u.dev.connection)
    BY <1>2, <1>4, <1>5, <1>6 DEF Updates, Supports, ConfigRecords
  <1>8. v = [u EXCEPT !.cfg[c].arp = TRUE]
    OBVIOUS
  <1> HIDE DEF v
  <1> QED BY <1>6, <1>7, <1>8, GatewaySet, Zenon

\* A lease has been got.
LeaseReport(w, c, forever, dies) ==
    [UpdateProperties([w EXCEPT !.cfg[c].active = TRUE], c, forever, dies)
        EXCEPT !.cfg[c].arp = FALSE]

LEMMA LeaseGot ==
  ASSUME NEW w, Good(w), NEW c \in Configs, c = w.dev.ipconfig,
         w.cfg[c].pid # NoPid, NEW forever \in BOOLEAN, NEW dies \in BOOLEAN
  PROVE  Ends(LeaseReport(w, c, forever, dies))
  <1> DEFINE j == [w.cfg[c] EXCEPT !.active = TRUE]
             k == [j EXCEPT !.acquisition = FALSE, !.address = "lease", !.excused = FALSE]
             l == [k EXCEPT !.expiration = ~forever]
             x == [w EXCEPT !.cfg[c].active = TRUE]
             y == [x EXCEPT !.cfg[c].acquisition = FALSE, !.cfg[c].address = "lease",
                            !.cfg[c].excused = FALSE]
             z == IF forever THEN [y EXCEPT !.cfg[c].expiration = FALSE]
                             ELSE StartExpirationTimeout(y, c)
             u == OnIPConfigUpdated(z, c, dies)
             v == [u EXCEPT !.cfg[c].arp = FALSE]
  <1>1. UpdateProperties(x, c, forever, dies) = u
    BY DEF UpdateProperties
  <1> SUFFICES Ends(v)
    BY <1>1, Zenon DEF LeaseReport
  <1>2. w \in Worlds /\ w.cfg[c] \in ConfigRecords /\ TimersFit(w.cfg[c])
    BY DEF Good, Worlds
  <1>3. x = [w EXCEPT !.cfg = [w.cfg EXCEPT ![c] = j]]
    BY <1>2 DEF Worlds
  <1>4. Fits(w, c, j) /\ j.pid # NoPid
    BY <1>2 DEF Fits, TimersFit, ConfigRecords
  <1> HIDE DEF j, x
  <1>5. Edits(w, x, c, j)
    BY <1>3, <1>4, Edited
  <1>6. x \in Worlds /\ Good(x) /\ x.cfg[c] = j /\ x.dev = w.dev
    BY <1>5 DEF Edits, Good
  <1>7. y = [x EXCEPT !.cfg = [x.cfg EXCEPT ![c] = k]]
    <2>1. x \in Worlds /\ x.cfg[c] = j
      BY <1>6
    <2> DEFINE m == [x.cfg[c] EXCEPT !.acquisition = FALSE, !.address = "lease",
                                     !.excused = FALSE]
    <2>2. y = [x EXCEPT !.cfg = [x.cfg EXCEPT ![c] = m]]
      BY <2>1 DEF Worlds, ConfigRecords
    <2>3. m = k
      BY <2>1
    <2> HIDE DEF y, k, m
    <2> QED BY <2>2, <2>3
  <1>8. /\ Fits(x, c, k) /\ k.pid # NoPid /\ k.acquisition = FALSE
        /\ k.address = "lease" /\ k.excused = FALSE
    BY <1>4, <1>6 DEF Fits, TimersFit, ConfigRecords, Addresses
  <1>9. /\ Fits(y, c, l) /\ l.expiration = ~forever /\ l.address = "lease"
    <2>1. y.cfg[c] = k
      BY <1>6, <1>7 DEF Worlds
    <2> QED BY <1>8, <2>1 DEF Fits, TimersFit, ConfigRecords
  <1> HIDE DEF k, y
  <1>10. Edits(x, y, c, k)
    BY <1>6, <1>7, <1>8, Edited
  <1>11. y \in Worlds /\ y.failed = FALSE /\ Good(y) /\ y.cfg[c] = k /\ y.dev = w.dev
    BY <1>6, <1>10 DEF Edits, Good
  <1>12. z = [y EXCEPT !.cfg = [y.cfg EXCEPT ![c] = l]]
    <2>1. CASE forever
      BY <1>11, <2>1 DEF Worlds
    <2>2. CASE ~forever
      <3>1. z = StartExpirationTimeout(y, c)
        BY <2>2
      <3>2. l = [k EXCEPT !.expiration = TRUE]
        BY <2>2
      <3> HIDE DEF z, l
      <3> QED BY <1>8, <1>11, <3>1, <3>2, ExpirationTimed
    <2> QED BY <2>1, <2>2
  <1> HIDE DEF l, z
  <1>13. Edits(y, z, c, l)
    BY <1>9, <1>11, <1>12, Edited
  <1>14. Good(z) /\ z.cfg[c] = l /\ c = z.dev.ipconfig
    BY <1>11, <1>13 DEF Edits
  <1>15. Updates(z, u, c)
    BY <1>14, Updated
  <1> HIDE DEF u
  <1>16. Good(u) /\ u.dev.from = c /\ u.cfg[c] \in ConfigRecords
    BY <1>15 DEF Updates, Good, Worlds
  <1>17. Supports([u.cfg[c] EXCEPT !.arp = FALSE], u.dev.connection)
    BY <1>9, <1>14, <1>15, <1>16 DEF Updates, Supports, ConfigRecords
  <1>18. v = [u EXCEPT !.cfg[c].arp = FALSE]
    OBVIOUS
  <1> HIDE DEF v
  <1> QED BY <1>16, <1>17, <1>18, GatewaySet, Zenon

\* A report of the current configuration's client, whatever it says.
LEMMA ReportHandled ==
  ASSUME NEW w, Ends(w), NEW c \in Configs, c = w.dev.ipconfig,
         w.cfg[c].pid # NoPid, NEW reason \in Reasons, NEW dies \in BOOLEAN
  PROVE  Ends(ProcessEventSignal(w, c, reason, dies))
  <1> DEFINE fail == NotifyFailure(w, c, dies)
             nak == [w EXCEPT !.cfg[c].arp = FALSE]
             gateway == GatewayReport(w, c, dies)
             forever == reason = "bound_forever"
             lease == LeaseReport(w, c, forever, dies)
             v == ProcessEventSignal(w, c, reason, dies)
  <1> SUFFICES Ends(v)
    BY Zenon
  <1>0. Good(w) /\ Timed(w) /\ w \in Worlds /\ w.cfg[c] \in ConfigRecords
        /\ TimersFit(w.cfg[c])
    BY DEF Ends, Good, Worlds
  <1>1. v = CASE reason = "fail" -> fail
              [] reason = "nak" -> nak
              [] reason = "gateway_arp" -> gateway
              [] reason \in {"bound", "bound_forever"} -> lease
              [] OTHER -> w
    BY Zenon DEF ProcessEventSignal, GatewayReport, LeaseReport
  <1>2. Ends(fail)
    BY <1>0, FailureNotified
  <1>3. Ends(nak)
    <2> DEFINE k == [w.cfg[c] EXCEPT !.arp = FALSE]
    <2>1. nak = [w EXCEPT !.cfg = [w.cfg EXCEPT ![c] = k]]
      BY <1>0 DEF Worlds
    <2>2. /\ Fits(w, c, k) /\ k.arp = FALSE /\ k.excused = w.cfg[c].excused
          /\ k.expiration = w.cfg[c].expiration
          /\ k.acquisition = w.cfg[c].acquisition
      BY <1>0 DEF Fits, TimersFit, ConfigRecords
    <2> HIDE DEF k, nak
    <2>3. Edits(w, nak, c, k)
      BY <1>0, <2>1, <2>2, Edited
    <2>4. Timed(nak)
      BY <1>0, <2>2, <2>3 DEF Edits, Good, Timed, Supports, Fits
    <2> QED BY <2>3, <2>4 DEF Edits, Ends
  <1>4. Ends(gateway)
    BY <1>0, GatewayConfirmed, Zenon
  <1>5. Ends(lease)
    <2>1. forever \in BOOLEAN
      BY Zenon
    <2> HIDE DEF forever
    <2> QED BY <1>0, <2>1, LeaseGot, Zenon
  <1> HIDE DEF fail, nak, gateway, lease, v
  <1> QED BY <1>1, <1>2, <1>3, <1>4, <1>5
-----------------------------------------------------------------------------
(***************************************************************************)
(* The tasks.                                                              *)
(***************************************************************************)
LEMMA WorldFields ==
  /\ World.dev = dev /\ World.cfg = cfg /\ World.bound = bound /\ World.pm = pm
  /\ World.failed = failed /\ World.client = client
BY DEF World

LEMMA BecomesEnds ==
  ASSUME NEW w, Ends(w), Becomes(w)
  PROVE  Ends(World)'
  <1>1. w = [dev |-> w.dev, cfg |-> w.cfg, bound |-> w.bound, pm |-> w.pm,
             failed |-> w.failed, client |-> w.client]
    BY DEF Ends, Good, Worlds
  <1>2. World' = w
    BY <1>1 DEF World, Becomes
  <1> QED BY <1>2 DEF Ends, Good, Timed, ClientsAreBound, ClientsAreWatched

LEMMA Counted ==
  ASSUME CountersOK, signals' = signals, made' = made, requests' = requests,
         NEW ok \in BOOLEAN, Outcome(ok)
  PROVE  CountersOK'
BY DhcpAssumption DEF CountersOK, DhcpAssumption, Outcome, Fault

LEMMA Requested ==
  ASSUME CountersOK, signals' = signals, made' = made, Request,
         NEW ok \in BOOLEAN, Outcome(ok)
  PROVE  CountersOK'
BY DhcpAssumption DEF CountersOK, DhcpAssumption, Outcome, Fault, Request

LEMMA DisconnectKeeps ==
  ASSUME Inv, NEW dies \in BOOLEAN, Disconnect(dies)
  PROVE  Inv'
  <1> DEFINE u == DropConnection(World, dies)
             v == [u EXCEPT !.dev.state = "idle"]
  <1>1. Becomes(v) /\ CountersOK'
    BY Requested DEF Inv, Disconnect
  <1>2. Dropped(u)
    BY ConnectionDropped DEF Inv
  <1> HIDE DEF u
  <1>3. SetsState(u, v, "idle")
    BY <1>2, StateSet DEF Dropped, States
  <1> HIDE DEF v
  <1>4. Ends(v)
    BY <1>2, <1>3, DroppedIsTimed DEF SetsState, Ends
  <1>5. Ends(World)'
    BY <1>1, <1>4, BecomesEnds
  <1> QED BY <1>1, <1>5 DEF Inv, Ends

LEMMA AcquireKeeps ==
  ASSUME Inv, NEW ok \in BOOLEAN, Acquire(ok)
  PROVE  Inv'
  <1> DEFINE c == made + 1
             x == DestroyIPConfig(World, TRUE)
             d == [x.dev EXCEPT !.selected = TRUE, !.ipconfig = c, !.task = TRUE]
             w == [x EXCEPT !.dev.selected = TRUE, !.dev.ipconfig = c, !.dev.task = TRUE]
             v == Start(w, c, ok)
             y == DestroyIPConfig(v, TRUE)
             z == IF ok THEN [v EXCEPT !.dev.state = "configuring"]
                        ELSE [y EXCEPT !.dev.state = "failure"]
  <1>1. /\ Becomes(z) /\ MayStart(ok)
        /\ made < MaxConfigs /\ made' = c /\ UNCHANGED <<signals, requests>>
    BY DEF Acquire
  <1>2. c \in Configs /\ CountersOK'
    <2>1. c \in Configs /\ c \in 0..MaxConfigs
      BY <1>1, Numbers DEF Inv, CountersOK
    <2>2. faults' \in 0..MaxFaults
      BY <1>1, DhcpAssumption DEF Inv, CountersOK, MayStart, Outcome, Fault, DhcpAssumption
    <2> QED BY <1>1, <2>1, <2>2 DEF Inv, CountersOK
  <1>3. Destroys(World, x)
    BY Destroyed DEF Inv
  <1>4. w = [x EXCEPT !.dev.selected = TRUE, !.dev.ipconfig = c, !.dev.task = TRUE]
    OBVIOUS
  <1> HIDE DEF c, x, w
  <1>5. /\ Good(x) /\ x \in Worlds /\ x.dev \in DeviceRecords /\ NoClient(x)
        /\ x.dev.from = NoOwner /\ (ok => Fresh(x.pm) # {})
    <2>1. Good(x) /\ NoClient(x) /\ x.dev = Bare(World.dev) /\ Fresh(x.pm) = Fresh(pm)
      BY <1>3, WorldFields DEF Destroys
    <2>2. World.dev \in DeviceRecords
      BY DEF Inv, Good, Worlds
    <2>3. x.dev.from = NoOwner
      BY <2>1, <2>2, BareDevice
    <2>4. x \in Worlds /\ x.dev \in DeviceRecords
      BY <2>1 DEF Good, Worlds
    <2> QED BY <1>1, <2>1, <2>3, <2>4 DEF MayStart
  <1>6. w = [x EXCEPT !.dev = d]
    BY <1>4, <1>5 DEF Worlds
  <1>7. d \in DeviceRecords /\ d.ipconfig = c /\ d.from = NoOwner
    BY <1>2, <1>5 DEF DeviceRecords
  <1> HIDE DEF d
  <1>8. Good(w)
    BY <1>5, <1>6, <1>7, NewDevice DEF NoClient
  <1>9. /\ w.dev = d /\ w.cfg = x.cfg /\ w.pm = x.pm
    BY <1>5, <1>6 DEF Worlds
  <1>10. CASE ok
    <2>1. Starts(w, v, c)
      BY <1>2, <1>5, <1>7, <1>8, <1>9, <1>10, Started DEF NoClient
    <2>2. z = [v EXCEPT !.dev.state = "configuring"]
      BY <1>10
    <2> HIDE DEF v, z
    <2>3. Good(v) /\ Timed(v)
      BY <1>7, <1>9, <2>1 DEF Starts, Timed
    <2>4. SetsState(v, z, "configuring")
      BY <2>2, <2>3, StateSet DEF States
    <2>5. Ends(World)'
      BY <1>1, <2>3, <2>4, BecomesEnds DEF SetsState, Ends
    <2> QED BY <1>2, <2>5 DEF Inv, Ends
  <1>11. CASE ~ok
    <2>1. v = w
      BY <1>11 DEF Start
    <2>2. Destroys(v, y)
      BY <1>8, <2>1, Destroyed
    <2>3. z = [y EXCEPT !.dev.state = "failure"]
      BY <1>11
    <2>4. v.dev \in DeviceRecords
      BY <1>7, <1>9, <2>1
    <2> HIDE DEF v, y, z
    <2>5. Good(y) /\ Timed(y)
      BY <2>2, <2>4, BareDevice DEF Destroys, Timed
    <2>6. SetsState(y, z, "failure")
      BY <2>3, <2>5, StateSet DEF States
    <2>7. Ends(World)'
      BY <1>1, <2>5, <2>6, BecomesEnds DEF SetsState, Ends
    <2> QED BY <1>2, <2>7 DEF Inv, Ends
  <1> QED BY <1>10, <1>11

\* The task of a service with a static address.
LEMMA TaskSet ==
  ASSUME Inv, NEW b \in BOOLEAN
  PROVE  /\ Ends([World EXCEPT !.dev.task = b])
         /\ [World EXCEPT !.dev.task = b].dev = [dev EXCEPT !.task = b]
         /\ [World EXCEPT !.dev.task = b].cfg = cfg
         /\ [World EXCEPT !.dev.task = b].pm = pm
  <1> DEFINE d == [dev EXCEPT !.task = b]
             v == [World EXCEPT !.dev.task = b]
  <1>1. Good(World) /\ Timed(World) /\ World \in Worlds /\ dev \in DeviceRecords
    BY WorldFields DEF Inv, Good, Worlds
  <1>2. v = [World EXCEPT !.dev = d]
    BY <1>1 DEF World
  <1>3. d \in DeviceRecords /\ d.ipconfig = dev.ipconfig /\ d.from = dev.from
        /\ d.connection = dev.connection
    BY <1>1 DEF DeviceRecords
  <1> HIDE DEF d, v
  <1>4. Sets(World, v, d)
    BY <1>2, <1>3, WorldFields DEF Sets
  <1>5. Good(v) /\ Timed(v) /\ v.dev = d /\ v.cfg = World.cfg /\ v.pm = World.pm
    <2>1. WasSet(World, v, d)
      BY <1>1, <1>3, <1>4, DeviceSet, Zenon
    <2> QED BY <1>1, <1>3, <1>4, <2>1 DEF WasSet
  <1>6. Ends(v) /\ v.dev = d /\ v.cfg = cfg /\ v.pm = pm
    BY <1>5, WorldFields DEF Ends
  <1> QED BY <1>6 DEF v, d

LEMMA ConfigureStaticIPTaskKeeps ==
  ASSUME Inv, NEW dies \in BOOLEAN, ConfigureStaticIPTask(dies)
  PROVE  Inv'
  <1> DEFINE w == [World EXCEPT !.dev.task = FALSE]
             c == dev.ipconfig
             v == OnIPConfigUpdated(w, c, dies)
             z == IF dev.selected /\ c # NoOwner /\ dev.static THEN v ELSE w
  <1>1. Becomes(z) /\ CountersOK'
    BY Counted DEF Inv, ConfigureStaticIPTask
  <1>2. Ends(w) /\ w.dev = [dev EXCEPT !.task = FALSE]
    BY TaskSet
  <1>3. dev \in DeviceRecords
    BY WorldFields DEF Inv, Good, Worlds
  <1> HIDE DEF w
  <1>4. Ends(z)
    <2>1. CASE z = w
      BY <1>2, <2>1
    <2>2. CASE dev.selected /\ c # NoOwner /\ dev.static
      <3>1. c \in Configs
        BY <1>3, <2>2 DEF DeviceRecords
      <3>2. Good(w) /\ w.dev.ipconfig = c /\ w.dev.selected /\ w.dev.static
        BY <1>2, <1>3, <2>2 DEF Ends, DeviceRecords
      <3>3. Updates(w, v, c)
        BY <3>1, <3>2, Updated
      <3>4. z = v
        BY <2>2
      <3> HIDE DEF v, z
      <3> QED BY <3>2, <3>3, <3>4 DEF Updates, Ends, Timed, Supports
    <2> QED BY <2>1, <2>2
  <1> HIDE DEF z
  <1>5. Ends(World)'
    BY <1>1, <1>4, BecomesEnds
  <1> QED BY <1>1, <1>5 DEF Inv, Ends

LEMMA RefreshKeeps ==
  ASSUME Inv, NEW ok \in BOOLEAN, Refresh(ok)
  PROVE  Inv'
  <1> DEFINE w == [World EXCEPT !.dev.task = TRUE]
             c == dev.ipconfig
             z == RenewIP(w, c, ok)
  <1>1. /\ Becomes(z) /\ Request /\ UNCHANGED <<signals, made>> /\ c # NoOwner
        /\ IF cfg[c].pid = NoPid THEN MayStart(ok) ELSE ok /\ UNCHANGED faults
    BY DEF Refresh
  <1>2. Outcome(ok) /\ (ok /\ cfg[c].pid = NoPid => Fresh(pm) # {})
    BY <1>1 DEF MayStart, Outcome
  <1>3. CountersOK'
    BY <1>1, <1>2, Requested DEF Inv
  <1>4. Ends(w) /\ w.dev = [dev EXCEPT !.task = TRUE] /\ w.cfg = cfg /\ w.pm = pm
    BY TaskSet
  <1>5. dev \in DeviceRecords
    BY WorldFields DEF Inv, Good, Worlds
  <1> HIDE DEF w
  <1>6. c \in Configs /\ w.dev.ipconfig = c
    BY <1>1, <1>4, <1>5 DEF DeviceRecords
  <1>7. Renews(w, z, c)
    BY <1>2, <1>4, <1>6, Renewed DEF Ends
  <1> HIDE DEF z
  <1>8. Ends(World)'
    BY <1>1, <1>4, <1>7, BecomesEnds DEF Renews, Ends
  <1> QED BY <1>3, <1>8 DEF Inv, Ends

LEMMA RenewDHCPLeaseKeeps ==
  ASSUME Inv, NEW ok \in BOOLEAN, RenewDHCPLease(ok)
  PROVE  Inv'
  <1> DEFINE w == [World EXCEPT !.dev.ipv6 = FALSE]
             d == [dev EXCEPT !.ipv6 = FALSE]
             c == dev.ipconfig
             z == RenewIP(w, c, ok)
  <1>1. /\ Becomes(z) /\ Request /\ UNCHANGED <<signals, made>> /\ c # NoOwner
        /\ IF cfg[c].pid = NoPid THEN MayStart(ok) ELSE ok /\ UNCHANGED faults
    BY DEF RenewDHCPLease
  <1>2. Outcome(ok) /\ (ok /\ cfg[c].pid = NoPid => Fresh(pm) # {})
    BY <1>1 DEF MayStart, Outcome
  <1>3. CountersOK'
    BY <1>1, <1>2, Requested DEF Inv
  <1>4. Good(World) /\ Timed(World) /\ World \in Worlds /\ dev \in DeviceRecords
    BY WorldFields DEF Inv, Good, Worlds
  <1>5. w = [World EXCEPT !.dev = d]
    BY <1>4 DEF World
  <1>6. d \in DeviceRecords /\ d.ipconfig = dev.ipconfig /\ d.from = dev.from
        /\ d.connection = dev.connection
    BY <1>4 DEF DeviceRecords
  <1> HIDE DEF d, w
  <1>7. Sets(World, w, d)
    BY <1>5, <1>6, WorldFields DEF Sets
  <1>8. Good(w) /\ Timed(w) /\ w.dev = d /\ w.cfg = World.cfg /\ w.pm = World.pm
    <2>1. WasSet(World, w, d)
      BY <1>4, <1>6, <1>7, DeviceSet, Zenon
    <2> QED BY <1>4, <1>6, <1>7, <2>1 DEF WasSet
  <1>9. c \in Configs /\ w.dev.ipconfig = c /\ w.cfg = cfg /\ w.pm = pm
    BY <1>1, <1>4, <1>6, <1>8, WorldFields DEF DeviceRecords
  <1>10. Renews(w, z, c)
    BY <1>2, <1>8, <1>9, Renewed
  <1> HIDE DEF z
  <1>11. Ends(World)'
    BY <1>1, <1>8, <1>10, BecomesEnds DEF Renews, Ends
  <1> QED BY <1>3, <1>11 DEF Inv, Ends

LEMMA SetStaticIPKeeps ==
  ASSUME Inv, SetStaticIP
  PROVE  Inv'
  <1> DEFINE d == [dev EXCEPT !.static = ~@]
             v == [World EXCEPT !.dev = d]
  <1>1. Good(World) /\ Timed(World) /\ dev \in DeviceRecords
    BY WorldFields DEF Inv, Good, Worlds
  <1>2. d \in DeviceRecords /\ d.ipconfig = dev.ipconfig /\ d.from = dev.from
        /\ d.connection = dev.connection
    BY <1>1 DEF DeviceRecords
  <1>3. Becomes(v)
    BY DEF SetStaticIP, Becomes, World
  <1>4. Outcome(TRUE)
    BY DEF SetStaticIP, Outcome
  <1>5. CountersOK'
    BY <1>4, Requested DEF Inv, SetStaticIP
  <1>6. v = [World EXCEPT !.dev = d]
    OBVIOUS
  <1> HIDE DEF d, v
  <1>7. Sets(World, v, d)
    BY <1>2, <1>6, WorldFields DEF Sets
  <1>8. Ends(v)
    <2>1. WasSet(World, v, d)
      BY <1>1, <1>2, <1>7, DeviceSet, Zenon
    <2> QED BY <1>1, <1>2, <1>7, <2>1 DEF WasSet, Ends
  <1>9. Ends(World)'
    BY <1>3, <1>8, BecomesEnds
  <1> QED BY <1>5, <1>9 DEF Inv, Ends

LEMMA OnIPv6ConfigUpdatedKeeps ==
  ASSUME Inv, OnIPv6ConfigUpdated
  PROVE  Inv'
  <1> DEFINE w == [World EXCEPT !.dev.ipv6 = TRUE]
             d == [dev EXCEPT !.ipv6 = TRUE]
             v == SetupConnection(w, "ipv6", NoOwner)
             z == IF dev.connection \in {"none", "ipv6"} THEN v ELSE w
  <1>1. Becomes(z) /\ Request /\ UNCHANGED <<signals, made, faults>>
    BY DEF OnIPv6ConfigUpdated
  <1>2. Outcome(TRUE)
    BY <1>1 DEF Outcome
  <1>3. CountersOK'
    BY <1>1, <1>2, Requested DEF Inv
  <1>4. Good(World) /\ Timed(World) /\ World \in Worlds /\ dev \in DeviceRecords
    BY WorldFields DEF Inv, Good, Worlds
  <1>5. w = [World EXCEPT !.dev = d]
    BY <1>4 DEF World
  <1>6. d \in DeviceRecords /\ d.ipconfig = dev.ipconfig /\ d.from = dev.from
        /\ d.connection = dev.connection
    BY <1>4 DEF DeviceRecords
  <1> HIDE DEF d, w
  <1>7. Sets(World, w, d)
    BY <1>5, <1>6, WorldFields DEF Sets
  <1>8. Good(w) /\ Timed(w)
    <2>1. WasSet(World, w, d)
      BY <1>4, <1>6, <1>7, DeviceSet, Zenon
    <2> QED BY <1>4, <1>6, <1>7, <2>1 DEF WasSet
  <1>9. SetsUp(w, v, "ipv6", NoOwner)
    BY <1>8, ConnectionSetUp DEF Kinds
  <1> HIDE DEF v
  <1>10. Ends(v)
    BY <1>9 DEF SetsUp, Ends, Timed
  <1>11. Ends(z)
    BY <1>8, <1>10 DEF Ends
  <1> HIDE DEF z
  <1>12. Ends(World)'
    BY <1>1, <1>11, BecomesEnds
  <1> QED BY <1>3, <1>12 DEF Inv, Ends

\* A timer of c is armed: c has a client, and so is the current configuration.
LEMMA ArmedIsCurrent ==
  ASSUME Inv, NEW c \in Configs,
         cfg[c].acquisition = TRUE \/ cfg[c].expiration = TRUE \/ cfg[c].pid # NoPid
  PROVE  c = dev.ipconfig /\ cfg[c].pid # NoPid
BY WorldFields DEF Inv, Good, TimersFit, ClientsAreBound

LEMMA ProcessAcquisitionTimeoutKeeps ==
  ASSUME Inv, NEW c \in Configs, NEW dies \in BOOLEAN, ProcessAcquisitionTimeout(c, dies)
  PROVE  Inv'
  <1> DEFINE w == [World EXCEPT !.cfg[c].acquisition = FALSE]
             k == [cfg[c] EXCEPT !.acquisition = FALSE]
             z == IF cfg[c].arp THEN w ELSE NotifyFailure(w, c, dies)
  <1>1. Becomes(z) /\ CountersOK' /\ cfg[c].acquisition
    BY Counted DEF Inv, ProcessAcquisitionTimeout
  <1>2. Good(World) /\ Timed(World) /\ World \in Worlds /\ cfg[c] \in ConfigRecords
        /\ World.cfg = cfg /\ TimersFit(cfg[c])
    BY WorldFields DEF Inv, Good, Worlds
  <1>3. c = dev.ipconfig /\ cfg[c].pid # NoPid
    BY <1>1, <1>2, ArmedIsCurrent DEF ConfigRecords
  <1>4. w = [World EXCEPT !.cfg = [World.cfg EXCEPT ![c] = k]]
    BY <1>2 DEF Worlds
  <1>5. Fits(World, c, k) /\ k.arp = cfg[c].arp
    BY <1>2 DEF Fits, TimersFit, ConfigRecords
  <1> HIDE DEF w, k
  <1>6. Edits(World, w, c, k)
    BY <1>2, <1>4, <1>5, Edited
  <1>7. Good(w) /\ c = w.dev.ipconfig /\ w.dev = World.dev /\ w.cfg[c] = k
    BY <1>3, <1>6, WorldFields DEF Edits
  <1>8. Ends(z)
    <2>1. CASE ~cfg[c].arp
      BY <1>7, <2>1, FailureNotified
    <2>2. CASE cfg[c].arp
      <3>1. k.arp = TRUE /\ k.pid # NoPid /\ k.excused = cfg[c].excused
        BY <1>2, <1>3, <2>2 DEF k, ConfigRecords
      <3>2. Timed(w)
        BY <1>2, <1>3, <1>5, <1>7, <3>1, WorldFields DEF Timed, Supports, Good
      <3>3. z = w
        BY <2>2
      <3> QED BY <1>7, <3>2, <3>3 DEF Ends
    <2> QED BY <2>1, <2>2
  <1> HIDE DEF z
  <1>9. Ends(World)'
    BY <1>1, <1>8, BecomesEnds
  <1> QED BY <1>1, <1>9 DEF Inv, Ends

LEMMA ProcessExpirationTimeoutKeeps ==
  ASSUME Inv, NEW c \in Configs, NEW ok \in BOOLEAN, ProcessExpirationTimeout(c, ok)
  PROVE  Inv'
  <1> DEFINE u == [World EXCEPT !.cfg[c].expiration = FALSE]
             k == [cfg[c] EXCEPT !.expiration = FALSE]
             w == Stop(u, c, TRUE)
             v == Start(w, c, ok)
             z == IF ok THEN v ELSE NotifyFailure(w, c, TRUE)
  <1>1. /\ Becomes(z) /\ MayStart(ok) /\ cfg[c].expiration
        /\ UNCHANGED <<signals, made, requests>>
    BY DEF ProcessExpirationTimeout
  <1>2. CountersOK'
    BY <1>1, Counted DEF Inv, MayStart
  <1>3. Good(World) /\ World \in Worlds /\ cfg[c] \in ConfigRecords
        /\ World.cfg = cfg /\ TimersFit(cfg[c])
    BY WorldFields DEF Inv, Good, Worlds
  <1>4. c = dev.ipconfig /\ cfg[c].pid # NoPid
    BY <1>1, <1>3, ArmedIsCurrent DEF ConfigRecords
  <1>5. u = [World EXCEPT !.cfg = [World.cfg EXCEPT ![c] = k]]
    BY <1>3 DEF Worlds
  <1>6. Fits(World, c, k) /\ k.excused = cfg[c].excused
    BY <1>3 DEF Fits, TimersFit, ConfigRecords
  <1> HIDE DEF u, k
  <1>7. Edits(World, u, c, k)
    BY <1>3, <1>5, <1>6, Edited
  <1>8. Good(u) /\ u.dev = dev /\ u.pm = pm /\ u.cfg[c] = k
    BY <1>7, WorldFields DEF Edits
  <1>9. Stops(u, w, c)
    BY <1>8, Stopped
  <1> HIDE DEF w
  <1>10. Good(w) /\ w.dev = dev /\ Fresh(w.pm) = Fresh(pm) /\ w.cfg[c] = Ended(k)
    BY <1>8, <1>9 DEF Stops, Good, Worlds
  <1>11. w.cfg[c].pid = NoPid /\ w.cfg[c].arp = FALSE /\ w.cfg[c] \in ConfigRecords
    BY <1>6, <1>10, EndedFits DEF Fits
  <1>12. Ends(z)
    <2>1. CASE ~ok
      BY <1>4, <1>10, <2>1, FailureNotified
    <2>2. CASE ok
      <3>1. Starts(w, v, c)
        BY <1>1, <1>4, <1>10, <1>11, <2>2, Started DEF MayStart
      <3>2. z = v
        BY <2>2
      <3> HIDE DEF v, z
      <3>3. PICK p \in Pids : v.cfg = [w.cfg EXCEPT ![c] =
                                 [w.cfg[c] EXCEPT !.pid = p, !.acquisition = TRUE]]
        BY <3>1 DEF Starts
      <3>4. v.cfg[c] = [w.cfg[c] EXCEPT !.pid = p, !.acquisition = TRUE]
        BY <1>10, <3>3 DEF Good, Worlds
      <3>5. v.cfg[c].acquisition = TRUE /\ v.cfg[c].arp = FALSE /\ v.cfg[c].pid # NoPid
        BY <1>11, <3>4, Numbers DEF ConfigRecords
      <3>6. Good(v) /\ v.dev = dev
        BY <1>10, <3>1 DEF Starts
      <3>7. Timed(v)
        BY <1>4, <3>5, <3>6 DEF Good, Timed, Supports
      <3> QED BY <3>2, <3>6, <3>7 DEF Ends
    <2> QED BY <2>1, <2>2
  <1> HIDE DEF z
  <1>13. Ends(World)'
    BY <1>1, <1>12, BecomesEnds
  <1> QED BY <1>2, <1>13 DEF Inv, Ends

LEMMA EventSignalKeeps ==
  ASSUME Inv, NEW dies \in BOOLEAN, EventSignal(dies)
  PROVE  Inv'
  <1> DEFINE s == Head(signals)
             c == bound[s.pid]
             w == [World EXCEPT !.cfg[c].proxy = TRUE]
             k == [cfg[c] EXCEPT !.proxy = TRUE]
             v == ProcessEventSignal(w, c, s.reason, dies)
             z == IF c = NoOwner THEN World ELSE v
  <1>1. /\ Becomes(z) /\ signals # <<>> /\ Outcome(dies) /\ signals' = Tail(signals)
        /\ UNCHANGED <<made, requests>>
    BY DEF EventSignal
  <1>2. s.pid \in Pids /\ s.reason \in Reasons
    <2> DEFINE S == [pid : Pids, reason : Reasons]
    <2>1. signals \in Seq(S)
      BY DEF Inv, CountersOK
    <2> HIDE DEF S
    <2>2. s \in S
      BY <1>1, <2>1
    <2> HIDE DEF s
    <2> QED BY <2>2 DEF S
  <1>3. CountersOK'
    <2>1. /\ signals' \in Seq([pid : Pids, reason : Reasons])
          /\ Len(signals') <= MaxSignals
      BY <1>1, DhcpAssumption DEF Inv, CountersOK, DhcpAssumption
    <2>2. faults' \in 0..MaxFaults
      BY <1>1, DhcpAssumption DEF Inv, CountersOK, Outcome, Fault, DhcpAssumption
    <2> QED BY <1>1, <2>1, <2>2 DEF Inv, CountersOK
  <1>4. Good(World) /\ Timed(World) /\ World \in Worlds /\ World.cfg = cfg
    BY WorldFields DEF Inv, Good
  <1> HIDE DEF s
  <1>5. Ends(z)
    <2>1. CASE c = NoOwner
      BY <1>4, <2>1 DEF Ends
    <2>2. CASE c # NoOwner
      <3>1. c \in Configs /\ c = dev.ipconfig /\ cfg[c].pid = s.pid
        BY <1>2, <1>4, <2>2, WorldFields DEF Good, Worlds, ClientsAreBound
      <3> DEFINE r == s.reason
      <3>2. z = ProcessEventSignal(w, c, r, dies)
        BY <2>2
      <3> HIDE DEF r, z, c
      <3>3. cfg[c] \in ConfigRecords /\ TimersFit(cfg[c]) /\ cfg[c].pid # NoPid
        BY <1>2, <1>4, <3>1, Numbers DEF Good, Worlds
      <3>4. w = [World EXCEPT !.cfg = [World.cfg EXCEPT ![c] = k]]
        BY <1>4, <3>1 DEF Worlds
      <3>5. /\ Fits(World, c, k) /\ k.excused = cfg[c].excused /\ k.arp = cfg[c].arp
            /\ k.expiration = cfg[c].expiration /\ k.acquisition = cfg[c].acquisition
        BY <1>4, <3>3 DEF Fits, TimersFit, ConfigRecords
      <3> HIDE DEF k, w
      <3>6. Edits(World, w, c, k)
        BY <1>4, <3>1, <3>4, <3>5, Edited
      <3>7. Good(w) /\ w.dev = dev /\ w.cfg[c] = k
        BY <3>6, WorldFields DEF Edits
      <3>8. Timed(w)
        BY <1>4, <3>1, <3>5, <3>7, WorldFields DEF Good, Timed, Supports, Fits
      <3>9. k.pid # NoPid
        BY <1>4, <3>3, <3>5 DEF Fits
      <3> QED BY <1>2, <3>1, <3>2, <3>7, <3>8, <3>9, ReportHandled DEF Ends, r
    <2> QED BY <2>1, <2>2
  <1> HIDE DEF z
  <1>6. Ends(World)'
    BY <1>1, <1>5, BecomesEnds
  <1> QED BY <1>3, <1>6 DEF Inv, Ends

LEMMA ClientReportsKeeps ==
  ASSUME Inv, NEW p \in Pids, NEW reason \in Reasons, ClientReports(p, reason)
  PROVE  Inv'
  <1> DEFINE e == IF reason \in {"bound", "bound_forever"}
                  THEN [client EXCEPT ![p] = "bound"] ELSE client
             v == [World EXCEPT !.client = e]
  <1>1. /\ client' = e /\ UNCHANGED <<dev, cfg, bound, pm, failed, made, requests, faults>>
        /\ signals' = Append(signals, [pid |-> p, reason |-> reason])
        /\ Len(signals) < MaxSignals
    BY DEF ClientReports
  <1>2. CountersOK'
    <2> DEFINE s == [pid |-> p, reason |-> reason]
    <2>1. s \in [pid : Pids, reason : Reasons]
      OBVIOUS
    <2>2. signals' = Append(signals, s)
      BY <1>1
    <2> HIDE DEF s
    <2>3. /\ signals' \in Seq([pid : Pids, reason : Reasons])
          /\ Len(signals') <= MaxSignals
      BY <1>1, <2>1, <2>2, DhcpAssumption DEF Inv, CountersOK, DhcpAssumption
    <2> QED BY <1>1, <2>3 DEF Inv, CountersOK
  <1>3. Good(World) /\ Timed(World) /\ World \in Worlds
    BY DEF Inv, Good
  <1>4. e \in [Pids -> {"trying", "bound"}]
    BY <1>3, WorldFields DEF Worlds
  <1> HIDE DEF e
  <1>5. Becomes(v)
    BY <1>1 DEF Becomes, World
  <1>6. v.dev = dev /\ v.cfg = cfg
    BY DEF World
  <1>7. Good(v)
    BY <1>3, <1>4, ClientTold
  <1> HIDE DEF v
  <1>8. Ends(v)
    BY <1>3, <1>6, <1>7, WorldFields DEF Ends, Timed
  <1>9. Ends(World)'
    BY <1>5, <1>8, BecomesEnds
  <1> QED BY <1>2, <1>9 DEF Inv, Ends

\* The process manager alone learns of a process.
LEMMA ManagerTold ==
  ASSUME NEW w, Good(w), NEW m \in ProcessManagers,
         m.watched = w.pm.watched, m.ending = w.pm.ending,
         m.forgotten = w.pm.forgotten,
         \A q \in Pids :
            \/ m.proc[q] = w.pm.proc[q]
            \/ w.pm.proc[q] = "running" /\ m.proc[q] = "zombie"
            \/ q \in m.forgotten /\ m.proc[q] = "gone"
  PROVE  Good([w EXCEPT !.pm = m])
  <1> DEFINE v == [w EXCEPT !.pm = m]
  <1>1. /\ v \in Worlds /\ v.cfg = w.cfg /\ v.dev = w.dev
        /\ v.pm = m /\ v.bound = w.bound /\ v.failed = w.failed
    BY DEF Good, Worlds
  <1> HIDE DEF v
  <1>2. ClientsAreBound(v)
    BY <1>1 DEF Good, ClientsAreBound
  <1>3. ClientsAreWatched(v)
    <2> SUFFICES ASSUME NEW q \in Pids
                 PROVE  /\ m.watched[q] = w.bound[q] /\ m.ending[q] = "none"
                        /\ w.bound[q] # NoOwner <=> m.proc[q] \in {"running", "zombie"}
                                                        /\ q \notin m.forgotten
                        /\ m.proc[q] = "unborn" => q \notin m.forgotten
      BY <1>1 DEF ClientsAreWatched
    <2>1. /\ w.pm.watched[q] = w.bound[q] /\ w.pm.ending[q] = "none"
          /\ w.bound[q] # NoOwner <=> w.pm.proc[q] \in {"running", "zombie"}
                                          /\ q \notin w.pm.forgotten
          /\ w.pm.proc[q] = "unborn" => q \notin w.pm.forgotten
      BY DEF Good, ClientsAreWatched
    <2> QED BY <2>1
  <1>4. Good(v)
    BY <1>1, <1>2, <1>3 DEF Good
  <1> QED BY <1>4 DEF v

LEMMA ClientDiesKeeps ==
  ASSUME Inv, NEW p \in Pids, ClientDies(p)
  PROVE  Inv'
  <1> DEFINE x == [pm.proc EXCEPT ![p] = "zombie"]
             m == [pm EXCEPT !.proc = x]
             e == [client EXCEPT ![p] = "trying"]
             u == [World EXCEPT !.pm = m]
             v == [u EXCEPT !.client = e]
  <1>1. /\ pm.proc[p] = "running" /\ Fault /\ client' = e
        /\ pm' = [pm EXCEPT !.proc[p] = "zombie"]
        /\ UNCHANGED <<dev, cfg, bound, failed, signals, made, requests>>
    BY DEF ClientDies
  <1>2. CountersOK'
    <2>1. Outcome(FALSE)
      BY <1>1 DEF Outcome
    <2> QED BY <1>1, <2>1, Counted DEF Inv
  <1>3. /\ Good(World) /\ Timed(World) /\ World \in Worlds /\ pm \in ProcessManagers
        /\ e \in [Pids -> {"trying", "bound"}]
    BY WorldFields DEF Inv, Good, Worlds
  <1>4. pm' = m
    BY <1>1, <1>3 DEF ProcessManagers
  <1>5. /\ x \in [Pids -> {"unborn", "running", "zombie", "gone"}]
        /\ x[p] = "zombie" /\ \A q \in Pids \ {p} : x[q] = pm.proc[q]
    BY <1>3 DEF ProcessManagers
  <1> HIDE DEF x, e
  <1>6. /\ m \in ProcessManagers /\ m.proc = x /\ m.watched = pm.watched
        /\ m.ending = pm.ending /\ m.forgotten = pm.forgotten
    BY <1>3, <1>5 DEF ProcessManagers
  <1> HIDE DEF m
  <1>7. Good(u)
    <2>1. \A q \in Pids : m.proc[q] = pm.proc[q]
             \/ (pm.proc[q] = "running" /\ m.proc[q] = "zombie")
      BY <1>1, <1>5, <1>6
    <2> QED BY <1>3, <1>6, <2>1, WorldFields, ManagerTold
  <1>8. v.dev = dev /\ v.cfg = cfg
    BY DEF World
  <1>9. Becomes(v)
    BY <1>1, <1>4 DEF Becomes, World
  <1> HIDE DEF u
  <1>10. Good(v)
    BY <1>3, <1>7, ClientTold
  <1> HIDE DEF v
  <1>11. Ends(v)
    BY <1>3, <1>8, <1>10, WorldFields DEF Ends, Timed
  <1>12. Ends(World)'
    BY <1>9, <1>11, BecomesEnds
  <1> QED BY <1>2, <1>12 DEF Inv, Ends

LEMMA ProcessExitedKeeps ==
  ASSUME Inv, NEW p \in Pids, ProcessExited(p)
  PROVE  Inv'
  <1> DEFINE c == Told(pm, p)
             n == OnProcessExited(pm, p)
             w == [World EXCEPT !.pm = n]
             y == [w EXCEPT !.failed = @ \/ cfg[c].pid = NoPid, !.cfg[c].excused = TRUE]
             z == IF c = NoOwner THEN w ELSE CleanupClientState(y, c)
  <1>1. /\ pm.proc[p] = "zombie" /\ UNCHANGED <<signals, made, requests, faults>>
        /\ Becomes(z)
    <2>1. [World EXCEPT !.pm = OnProcessExited(@, p)] = w
      BY DEF World
    <2> QED BY <2>1 DEF ProcessExited
  <1>2. CountersOK'
    BY <1>1 DEF Inv, CountersOK
  <1>3. /\ Good(World) /\ Timed(World) /\ World \in Worlds /\ pm \in ProcessManagers
        /\ failed = FALSE
    BY WorldFields DEF Inv, Good, Worlds
  <1> DEFINE x == [pm.proc EXCEPT ![p] = "gone"]
  <1>4. /\ x \in [Pids -> {"unborn", "running", "zombie", "gone"}]
        /\ x[p] = "gone" /\ \A q \in Pids \ {p} : x[q] = pm.proc[q]
    BY <1>3 DEF ProcessManagers
  <1>5. Ends(z)
    <2>1. CASE p \in pm.forgotten
      <3>1. n = [pm EXCEPT !.proc = x]
        BY <1>3, <2>1 DEF OnProcessExited, ProcessManagers
      <3>2. z = w
        BY <2>1 DEF Told
      <3>3. w = [World EXCEPT !.pm = n]
        OBVIOUS
      <3> HIDE DEF x, n, z, w
      <3>4. /\ n \in ProcessManagers /\ n.proc = x /\ n.watched = pm.watched
            /\ n.ending = pm.ending /\ n.forgotten = pm.forgotten
        BY <1>3, <1>4, <3>1 DEF ProcessManagers
      <3>5. \A q \in Pids : n.proc[q] = pm.proc[q]
               \/ (q \in n.forgotten /\ n.proc[q] = "gone")
        BY <1>4, <2>1, <3>4
      <3>6. Good(w)
        BY <1>3, <3>3, <3>4, <3>5, WorldFields, ManagerTold
      <3>7. w.dev = World.dev /\ w.cfg = World.cfg
        BY <3>3 DEF World
      <3> QED BY <1>3, <3>2, <3>6, <3>7 DEF Ends, Timed
    <2>2. CASE p \notin pm.forgotten
      <3>1. bound[p] # NoOwner /\ pm.watched[p] = bound[p] /\ c = bound[p]
        BY <1>1, <1>3, <2>2, WorldFields DEF Good, ClientsAreWatched, Told
      <3>2. c \in Configs /\ c = dev.ipconfig /\ cfg[c].pid = p /\ p # NoPid
        BY <1>3, <3>1, WorldFields, Numbers DEF Good, Worlds, ClientsAreBound
      <3> DEFINE a == [pm.watched EXCEPT ![p] = NoOwner]
      <3>3. n = [pm EXCEPT !.proc = x, !.watched = a]
        BY <1>3, <2>2, <3>1 DEF OnProcessExited, ProcessManagers
      <3>4. a \in [Pids -> Owners \cup {NoOwner}]
        BY <1>3 DEF ProcessManagers
      <3>5. z = CleanupClientState(y, c)
        BY <3>1
      <3>6. y = [w EXCEPT !.failed = @ \/ cfg[c].pid = NoPid, !.cfg[c].excused = TRUE]
        OBVIOUS
      <3>7. w = [World EXCEPT !.pm = n]
        OBVIOUS
      <3> HIDE DEF x, a, n, z, y, w, c
      <3>8. /\ n \in ProcessManagers /\ n.proc = x /\ n.watched = a
            /\ n.ending = pm.ending /\ n.forgotten = pm.forgotten
        BY <1>3, <1>4, <3>3, <3>4 DEF ProcessManagers
      <3>9. Lost(pm, n, p)
        <4>1. \A q \in Pids : n.ending[q] = "none"
          BY <1>3, <3>8, WorldFields DEF Good, ClientsAreWatched
        <4> QED BY <1>4, <3>8, <4>1 DEF Lost, a
      <3> DEFINE k == [cfg[c] EXCEPT !.excused = TRUE]
                 u == [World EXCEPT !.cfg = [World.cfg EXCEPT ![c] = k]]
      <3>10. cfg[c] \in ConfigRecords /\ TimersFit(cfg[c])
        BY <1>3, <3>2, WorldFields DEF Good, Worlds
      <3>11. Fits(World, c, k) /\ k.excused = TRUE
        BY <3>10, WorldFields DEF Fits, TimersFit, ConfigRecords
      <3> HIDE DEF k
      <3>12. Edits(World, u, c, k)
        BY <1>3, <3>2, <3>11, Edited
      <3>13. u.bound = bound /\ u.failed = FALSE
        BY <1>3, WorldFields DEF Worlds
      <3>14. y = [u EXCEPT !.pm = n]
        <4>1. (failed \/ cfg[c].pid = NoPid) = FALSE
          BY <1>3, <3>2
        <4>2. y = [w EXCEPT !.failed = FALSE, !.cfg[c].excused = TRUE]
          BY <3>6, <3>7, <4>1 DEF World
        <4>3. y = [w EXCEPT !.failed = FALSE, !.cfg = [World.cfg EXCEPT ![c] = k]]
          BY <3>7, <4>2 DEF World, k
        <4> DEFINE g == [World.cfg EXCEPT ![c] = k]
        <4>4. y = [w EXCEPT !.failed = FALSE, !.cfg = g] /\ u = [World EXCEPT !.cfg = g]
          BY <4>3
        <4> HIDE DEF g, k, u
        <4> QED BY <1>3, <3>7, <3>8, <4>4, WorldFields DEF Worlds
      <3> HIDE DEF u
      <3>15. Good(u) /\ u \in Worlds /\ u.dev = dev /\ u.pm = pm /\ u.cfg[c] = k
        BY <3>12, WorldFields DEF Edits, Good
      <3>16. y \in Worlds /\ y.cfg = u.cfg /\ y.bound = u.bound /\ k.pid = p
        BY <3>2, <3>8, <3>11, <3>14, <3>15, WorldFields DEF Worlds, Fits
      <3> DEFINE f == [u.cfg EXCEPT ![c] = Ended(k)]
                 b == [u.bound EXCEPT ![p] = NoOwner]
      <3>17. z = [y EXCEPT !.cfg = f, !.bound = b]
        <4>1. y.cfg[c] = k /\ k.pid # NoPid
          BY <3>2, <3>15, <3>16
        <4>2. z = [y EXCEPT !.cfg = [y.cfg EXCEPT ![c] = Ended(y.cfg[c])],
                            !.bound = IF y.cfg[c].pid = NoPid THEN y.bound
                                      ELSE [y.bound EXCEPT ![y.cfg[c].pid] = NoOwner]]
          BY <3>2, <3>5, <3>16, CleanedUp
        <4>3. (IF y.cfg[c].pid = NoPid THEN y.bound
               ELSE [y.bound EXCEPT ![y.cfg[c].pid] = NoOwner]) = b
          BY <3>16, <4>1
        <4>4. [y.cfg EXCEPT ![c] = Ended(y.cfg[c])] = f
          BY <3>16, <4>1
        <4> HIDE DEF f, b
        <4> QED BY <4>2, <4>3, <4>4
      <3>18. /\ f \in [Configs -> ConfigRecords] /\ f[c] = Ended(k)
             /\ b \in [Pids -> Configs \cup {NoOwner}]
        <4>1. Ended(k) \in ConfigRecords
          BY <3>11, EndedFits DEF Fits
        <4> QED BY <3>2, <3>15, <4>1 DEF Worlds
      <3>19. Ended(k).excused = TRUE
        BY <3>11, EndedFits DEF Fits
      <3> HIDE DEF f, b
      <3>20. /\ z \in Worlds /\ z.dev = u.dev /\ z.failed = FALSE /\ z.pm = n
             /\ z.cfg = f /\ z.bound = b
        BY <3>8, <3>13, <3>14, <3>15, <3>17, <3>18 DEF Worlds
      <3>21. Good(z)
        BY <3>2, <3>9, <3>15, <3>16, <3>20, ClientEnds DEF f, b
      <3>22. Timed(z)
        BY <3>2, <3>15, <3>18, <3>19, <3>20, <3>21 DEF Good, Timed, Supports
      <3> QED BY <3>21, <3>22 DEF Ends
    <2> QED BY <2>1, <2>2
  <1> HIDE DEF z
  <1>6. Ends(World)'
    BY <1>1, <1>5, BecomesEnds
  <1> QED BY <1>2, <1>6 DEF Inv, Ends
-----------------------------------------------------------------------------
(***************************************************************************)
(* The invariant, and what follows from it.                                *)
(***************************************************************************)
LEMMA InitInv ==
  ASSUME Init
  PROVE  Inv
  <1>1. /\ dev \in DeviceRecords /\ dev.from = NoOwner
        /\ cfg = [c \in Configs |-> NewConfig] /\ failed = FALSE
        /\ bound = [p \in Pids |-> NoOwner] /\ client = [p \in Pids |-> "trying"]
        /\ pm = InitProcessManager
    BY DEF Init, DeviceRecords
  <1>2. /\ pm \in ProcessManagers
        /\ \A p \in Pids : pm.watched[p] = NoOwner /\ pm.ending[p] = "none"
                              /\ pm.proc[p] = "unborn" /\ p \notin pm.forgotten
    BY <1>1 DEF InitProcessManager, ProcessManagers
  <1>3. cfg \in [Configs -> ConfigRecords]
        /\ \A c \in Configs : cfg[c].pid = NoPid /\ TimersFit(cfg[c])
    BY <1>1, NewConfigFits
  <1>4. World \in Worlds
    BY <1>1, <1>2, <1>3 DEF World, Worlds
  <1>5. ClientsAreBound(World) /\ ClientsAreWatched(World)
    BY <1>1, <1>2, <1>3, WorldFields DEF ClientsAreBound, ClientsAreWatched
  <1>6. Good(World) /\ Timed(World)
    BY <1>1, <1>3, <1>4, <1>5, WorldFields DEF Good, Timed
  <1>7. CountersOK
    BY DhcpAssumption DEF Init, CountersOK, DhcpAssumption
  <1> QED BY <1>6, <1>7 DEF Inv

LEMMA StutterInv ==
  ASSUME Inv, UNCHANGED vars
  PROVE  Inv'
  <1>1. World' = World /\ CountersOK'
    BY DEF Inv, vars, World, CountersOK
  <1>2. Ends(World) /\ World \in Worlds
    BY DEF Inv, Ends, Good
  <1>3. Becomes(World)
    BY DEF Becomes, World, vars
  <1>4. Ends(World)'
    BY <1>2, <1>3, BecomesEnds
  <1> QED BY <1>1, <1>4 DEF Inv, Ends

LEMMA NextInv ==
  ASSUME Inv, [Next]_vars
  PROVE  Inv'
  <1>1. ASSUME TaskStep PROVE Inv'
    BY <1>1, ConfigureStaticIPTaskKeeps, EventSignalKeeps,
       ProcessAcquisitionTimeoutKeeps, ProcessExpirationTimeoutKeeps,
       ProcessExitedKeeps DEF TaskStep
  <1>2. ASSUME RequestStep PROVE Inv'
    BY <1>2, AcquireKeeps, DisconnectKeeps, RefreshKeeps, RenewDHCPLeaseKeeps,
       SetStaticIPKeeps, OnIPv6ConfigUpdatedKeeps DEF RequestStep
  <1>3. ASSUME ClientStep PROVE Inv'
    BY <1>3, ClientDiesKeeps, ClientReportsKeeps DEF ClientStep
  <1> QED BY <1>1, <1>2, <1>3, StutterInv DEF Next

\* The agreement of the provider, the process manager and the configurations.
THEOREM InductiveInvariant == Spec => []Inv
  <1>1. Init => Inv
    BY InitInv
  <1>2. Inv /\ [Next]_vars => Inv'
    BY NextInv
  <1> QED BY <1>1, <1>2, PTL DEF Spec

\* dhcp_config.cc:283 and :307: whatever happens to the clients and in whatever
\* order the reports, the timers and the requests are handled, no CHECK of the
\* timers fails, and an address in use has what is to end its use.
THEOREM TimersSafe == Spec => []TimersAreSound
  <1>1. Inv => TimersAreSound
    <2> SUFFICES ASSUME Inv PROVE TimersAreSound
      OBVIOUS
    <2>1. TypeOK
      BY WorldFields DEF Inv, Good, Worlds, TypeOK, CountersOK
    <2>2. ChecksHold
      BY WorldFields DEF Inv, Good, ChecksHold
    <2>3. LeaseIsTimed
      <3>1. ASSUME dev.from # NoOwner PROVE cfg[dev.from] \in ConfigRecords
        BY <2>1, <3>1 DEF TypeOK, DeviceRecords
      <3> QED BY <3>1, WorldFields DEF Inv, Timed, Supports, LeaseIsTimed, ConfigRecords
    <2> QED BY <2>1, <2>2, <2>3 DEF TimersAreSound
  <1> QED BY <1>1, InductiveInvariant, PTL

\* dhcp_config.cc:100: a dhcpcd that runs and that was not given up for
\* unkillable is the client of the device's current configuration.
THEOREM NoClientLeft == Spec => []NoClientIsLeftBehind
  <1>1. Inv => NoClientIsLeftBehind
    BY WorldFields DEF Inv, Good, ClientsAreWatched, ClientsAreBound, NoClientIsLeftBehind
  <1> QED BY <1>1, InductiveInvariant, PTL

\* device.cc OnIPConfigUpdated: a callback about a configuration that is not the
\* current one never sets the connection up, although nothing asks.
THEOREM ConnectionCurrent == Spec => []ConnectionIsCurrent
  <1>1. Inv => ConnectionIsCurrent
    BY WorldFields DEF Inv, Good, ConnectionIsCurrent
  <1> QED BY <1>1, InductiveInvariant, PTL
=============================================================================
