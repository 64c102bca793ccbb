--------------------------- MODULE WiFiLinkProofs ---------------------------
(***************************************************************************)
(* Proofs about WiFiLink, for any services and any access points.  Ok is   *)
(* what every method of the device keeps.  Most methods only give things   *)
(* up, which is Less: a stopped device then stays clean, whatever the      *)
(* request or the late report that reaches it.                             *)
(***************************************************************************)
EXTENDS WiFiLink, TLAPS, FiniteSetTheorems, WellFoundedInduction, NaturalsInduction

Ok(d) ==
    /\ d \in Devices
    /\ IsFiniteSet(d.known)
    /\ d.ended = "no"
    /\ d.monitor = "on" => d.selected # NoService
    /\ \A s \in Services : d.state[s] = "connected" => s = d.selected
    /\ d.current = NoService \/ d.current # d.pending
    /\ d.rtimer => d.current # NoService
    /\ d.ptimer => d.pending # NoService
    /\ d.scan = "connecting" => d.pending # NoService

\* An attempt is timed.  The handler of the timeout breaks this and mends it.
Timed(d) == d.pending # NoService => d.ptimer

SameMachine(d, v) == v.present = d.present /\ v.enabled = d.enabled /\ v.iface = d.iface

\* v has nothing that d had not, and an attempt is left alone or given up.
Less(d, v) ==
    /\ SameMachine(d, v)
    /\ v.known \subseteq d.known
    /\ v.current \in {NoService, d.current}
    /\ v.pending = NoService \/ (v.pending = d.pending /\ v.ptimer = d.ptimer)
    /\ v.selected \in {NoService, d.selected}
    /\ v.lessee \in {NoService, d.lessee}
    /\ v.scan \in {"idle", d.scan}

Clean(d) ==
    ~d.iface =>
        /\ IsIdle(d) /\ d.selected = NoService
        /\ d.known = {} /\ d.lessee = NoService
        /\ d.scan = "idle"

Good(d) ==
    /\ Ok(d)
    /\ Timed(d)
    /\ d.iface => d.enabled /\ d.present
    /\ Clean(d)

Running == Good(dev)

\* Shill has ended in a good state, in one of the two ways it can.
Over ==
    /\ Good([dev EXCEPT !.ended = "no"])
    /\ \/ dev.ended = "gateway" /\ dev.monitor = "stray"
       \/ dev.ended = "proxy" /\ ~dev.iface /\ dev.present /\ dev.enabled

Inv == dev \in Devices /\ (Running \/ Over)
LEMMA RunningIsInv == (Running => Inv) /\ (Running' => Inv')
BY DEF Running, Inv, Good, Ok
-----------------------------------------------------------------------------
(***************************************************************************)
(* Giving up.                                                              *)
(***************************************************************************)
LEMMA LessIsTransitive ==
  ASSUME NEW d, NEW v, NEW w, Less(d, v), Less(v, w)
  PROVE  Less(d, w)
BY DEF Less, SameMachine

LEMMA LessIsReflexive ==
  ASSUME NEW d
  PROVE  Less(d, d)
BY DEF Less, SameMachine

\* A device that only gives up stays good.
LEMMA LessIsGood ==
  ASSUME NEW d, NEW v, Good(d), Ok(v), Less(d, v)
  PROVE  Good(v)
  <1>1. Timed(v)
    BY DEF Good, Timed, Less
  <1>2. v.iface => v.enabled /\ v.present
    BY DEF Good, Less, SameMachine
  <1>3. Clean(v)
    BY DEF Good, Clean, Less, SameMachine, IsIdle
  <1> QED BY <1>1, <1>2, <1>3 DEF Good

\* Any state but connected.
LEMMA StateIsSet ==
  ASSUME NEW d, Ok(d), NEW s \in Services \cup {NoService},
         NEW st \in {"idle", "associating", "configuring", "failure"}
  PROVE  /\ Ok(SetState(d, s, st)) /\ Less(d, SetState(d, s, st))
         /\ \E f : SetState(d, s, st) = [d EXCEPT !.state = f]
  <1> DEFINE v == SetState(d, s, st)
             f == [d.state EXCEPT ![s] = st]
  <1>1. CASE s = NoService
    <2>1. v = d
      BY <1>1 DEF SetState
    <2>2. d = [d EXCEPT !.state = d.state]
      BY DEF Ok, Devices
    <2> QED BY <2>1, <2>2, LessIsReflexive
  <1>2. CASE s # NoService
    <2>1. v = [d EXCEPT !.state = f]
      BY <1>2 DEF SetState
    <2>2. f \in [Services -> {"idle", "associating", "configuring", "connected", "failure"}]
      BY <1>2 DEF Ok, Devices
    <2>3. \A t \in Services : f[t] = "connected" => d.state[t] = "connected"
      BY <1>2 DEF Ok, Devices
    <2> HIDE DEF f
    <2>4. Ok(v)
      BY <2>1, <2>2, <2>3 DEF Ok, Devices
    <2>5. Less(d, v)
      BY <2>1 DEF Ok, Devices, Less, SameMachine
    <2> QED BY <2>1, <2>4, <2>5
  <1> QED BY <1>1, <1>2

\* Selecting a service changes the states, and the monitor, alone.
SelectedOnly(d, v, s) ==
    /\ SameMachine(d, v) /\ v.selected = s
    /\ v.current = d.current /\ v.pending = d.pending /\ v.up = d.up
    /\ v.ptimer = d.ptimer /\ v.rtimer = d.rtimer /\ v.scan = d.scan
    /\ v.known = d.known /\ v.lessee = d.lessee

LEMMA ServiceIsSelected ==
  ASSUME NEW d, Ok(d), NEW s \in Services \cup {NoService}
  PROVE  Ok(SelectService(d, s)) /\ SelectedOnly(d, SelectService(d, s), s)
  <1> DEFINE v == SelectService(d, s)
             old == d.selected
             f == [d.state EXCEPT ![old] = IF @ = "failure" THEN @ ELSE "idle"]
  <1>1. CASE s = old
    <2>1. v = d
      BY <1>1 DEF SelectService
    <2> QED BY <1>1, <2>1 DEF SelectedOnly, SameMachine
  <1>2. CASE s # old /\ old = NoService
    <2>1. v = [d EXCEPT !.selected = s]
      BY <1>2 DEF SelectService
    <2>2. SelectedOnly(d, v, s)
      BY <2>1 DEF Ok, Devices, SelectedOnly, SameMachine
    <2>3. /\ \A t \in Services : d.state[t] # "connected"
          /\ d.monitor # "on"
      BY <1>2, WiFiAssumption DEF Ok
    <2>4. Ok(v)
      BY <2>1, <2>3 DEF Ok, Devices
    <2> QED BY <2>2, <2>4
  <1>3. CASE s # old /\ old # NoService
    <2>1. v = [d EXCEPT !.selected = s, !.monitor = "off", !.state = f]
      BY <1>3 DEF SelectService
    <2>2. f \in [Services -> {"idle", "associating", "configuring", "connected", "failure"}]
      BY <1>3 DEF Ok, Devices
    <2>3. \A t \in Services : f[t] # "connected"
      BY <1>3 DEF Ok, Devices
    <2> HIDE DEF f, v
    <2>4. v \in Devices
      BY <2>1, <2>2 DEF Ok, Devices
    <2>5. Ok(v)
      BY <2>1, <2>3, <2>4 DEF Ok, Devices
    <2>6. SelectedOnly(d, v, s)
      BY <2>1 DEF Ok, Devices, SelectedOnly, SameMachine
    <2> QED BY <2>5, <2>6 DEF v
  <1> QED BY <1>1, <1>2, <1>3

LEMMA ConnectionIsDropped ==
  ASSUME NEW d, Ok(d)
  PROVE  LET v == DropConnection(d)
         IN  /\ Ok(v) /\ Less(d, v)
             /\ v.selected = NoService /\ v.lessee = NoService
             /\ v.known = d.known /\ v.current = d.current /\ v.up = d.up
             /\ v.pending = d.pending /\ v.ptimer = d.ptimer /\ v.rtimer = d.rtimer
  <1> DEFINE e == DestroyIPConfig(d)
             v == SelectService(e, NoService)
  <1>1. e = [d EXCEPT !.lessee = NoService, !.monitor = "off"]
    BY DEF DestroyIPConfig
  <1>2. Ok(e)
    <2>1. e \in Devices
      BY <1>1 DEF Ok, Devices
    <2> QED BY <1>1, <2>1 DEF Ok, Devices
  <1>3. /\ e.lessee = NoService /\ SameMachine(d, e) /\ e.selected = d.selected
        /\ e.known = d.known /\ e.current = d.current /\ e.up = d.up
        /\ e.pending = d.pending /\ e.ptimer = d.ptimer /\ e.rtimer = d.rtimer
        /\ e.scan = d.scan
    BY <1>1 DEF Ok, Devices, SameMachine
  <1> HIDE DEF e
  <1>4. Ok(v) /\ SelectedOnly(e, v, NoService)
    BY <1>2, ServiceIsSelected
  <1> HIDE DEF v
  <1>5. /\ v.selected = NoService /\ v.lessee = NoService
        /\ v.known = d.known /\ v.current = d.current /\ v.up = d.up
        /\ v.pending = d.pending /\ v.ptimer = d.ptimer /\ v.rtimer = d.rtimer
        /\ v.scan = d.scan /\ SameMachine(d, v)
    BY <1>3, <1>4 DEF SelectedOnly, SameMachine
  <1>6. Less(d, v)
    BY <1>5 DEF Less
  <1>7. v = DropConnection(d)
    BY DEF DropConnection, v, e
  <1> QED BY <1>4, <1>5, <1>6, <1>7

\* The pending service is let go.
LEMMA PendingIsLeft ==
  ASSUME NEW d, Ok(d)
  PROVE  LET v == SetPendingService(d, NoService)
         IN  /\ Ok(v) /\ Less(d, v) /\ v.pending = NoService
             /\ v.known = d.known /\ v.current = d.current /\ v.up = d.up
             /\ v.selected = d.selected /\ v.rtimer = d.rtimer
  <1> DEFINE v == SetPendingService(d, NoService)
             sc == IF d.scan \in {"scanning", "background", "connecting"} THEN "idle" ELSE d.scan
             pt == IF d.pending # NoService THEN FALSE ELSE d.ptimer
  <1>1. v = [d EXCEPT !.scan = sc, !.ptimer = pt, !.pending = NoService]
    BY DEF SetPendingService, SetScanState, Ok, Devices
  <1>2. sc = "idle"
    BY DEF Ok, Devices
  <1>3. pt = FALSE
    BY DEF Ok, Devices
  <1> HIDE DEF sc, pt
  <1>4. Ok(v)
    BY <1>1, <1>2, <1>3, ZenonT(60) DEF Ok, Devices
  <1>5. Less(d, v)
    BY <1>1, <1>2 DEF Ok, Devices, Less, SameMachine
  <1>6. /\ v.pending = NoService
        /\ v.known = d.known /\ v.current = d.current /\ v.up = d.up
        /\ v.selected = d.selected /\ v.rtimer = d.rtimer
    BY <1>1 DEF Ok, Devices
  <1> QED BY <1>4, <1>5, <1>6

LEMMA CurrentIsLeft ==
  ASSUME NEW d, Ok(d), ~d.rtimer
  PROVE  LET v == [d EXCEPT !.current = NoService]
         IN  Ok(v) /\ Less(d, v) /\ v.known = d.known /\ v.pending = d.pending
  <1> DEFINE v == [d EXCEPT !.current = NoService]
  <1>1. Ok(v)
    <2>1. v \in Devices
      BY DEF Ok, Devices
    <2> QED BY <2>1 DEF Ok, Devices
  <1>2. Less(d, v)
    BY DEF Ok, Devices, Less, SameMachine
  <1>3. v.known = d.known /\ v.pending = d.pending
    BY DEF Ok, Devices
  <1> QED BY <1>1, <1>2, <1>3

\* A scan ends.
LEMMA ScanIsOver ==
  ASSUME NEW d, Ok(d), NEW new \in {"idle", "connected", "found_nothing"}
  PROVE  LET v == SetScanState(d, new)
         IN  /\ Ok(v) /\ Less(d, v) /\ v = [d EXCEPT !.scan = "idle"]
  <1> DEFINE v == SetScanState(d, new)
  <1>1. v = [d EXCEPT !.scan = "idle"]
    BY DEF SetScanState
  <1>2. v \in Devices
    BY <1>1 DEF Ok, Devices
  <1>3. Ok(v)
    BY <1>1, <1>2 DEF Ok, Devices
  <1>4. Less(d, v)
    BY <1>1 DEF Ok, Devices, Less, SameMachine
  <1> QED BY <1>1, <1>3, <1>4
-----------------------------------------------------------------------------
(***************************************************************************)
(* Disconnecting.                                                          *)
(***************************************************************************)
LEMMA DisconnectingFrom ==
  ASSUME NEW d, Ok(d), NEW s \in Services, NEW ok \in BOOLEAN
  PROVE  LET v == DisconnectFrom(d, s, ok)
         IN  /\ Ok(v) /\ Less(d, v) /\ v.known = d.known
             /\ s = d.pending => v.pending = NoService
  <1> DEFINE a == SetState(d, d.pending, "idle")
             b == SetPendingService(a, NoService)
             v == [b EXCEPT !.rtimer = FALSE]
             absent == IF v.current = v.selected THEN DropConnection(v) ELSE v
             dropped == IF s = v.selected THEN DropConnection(v) ELSE v
             ignored == \/ s \notin {d.current, d.pending}
                        \/ d.pending # NoService /\ s # d.pending
             Fine(x) == /\ Ok(x) /\ Less(d, x) /\ x.known = d.known
                        /\ x.pending = NoService
  <1>1. Ok(a) /\ Less(d, a) /\ a.known = d.known
    <2>1. d.pending \in Services \cup {NoService}
      BY DEF Ok, Devices
    <2>2. Ok(a) /\ Less(d, a)
      BY <2>1, StateIsSet
    <2>3. PICK f : a = [d EXCEPT !.state = f]
      BY <2>1, StateIsSet
    <2> QED BY <2>2, <2>3 DEF Ok, Devices
  <1> HIDE DEF a
  <1>2. Ok(b) /\ Less(a, b) /\ b.known = a.known /\ b.pending = NoService
    BY <1>1, PendingIsLeft
  <1> HIDE DEF b
  <1>3. Fine(v) /\ v.rtimer = FALSE
    <2>1. v \in Devices
      BY <1>2, ZenonT(60) DEF Ok, Devices
    <2>2. Ok(v)
      BY <1>2, <2>1 DEF Ok, Devices
    <2>3. Less(b, v) /\ v.known = b.known /\ v.pending = b.pending
      BY <1>2 DEF Ok, Devices, Less, SameMachine
    <2>4. Less(d, v)
      BY <1>1, <1>2, <2>3, LessIsTransitive
    <2>5. v.rtimer = FALSE
      BY <1>2 DEF Ok, Devices
    <2> QED BY <1>1, <1>2, <2>2, <2>3, <2>4, <2>5
  <1> HIDE DEF v
  <1>4. Fine(DropConnection(v)) /\ DropConnection(v).rtimer = v.rtimer
    <2>1. LET x == DropConnection(v)
          IN  /\ Ok(x) /\ Less(v, x) /\ x.known = v.known
              /\ x.pending = v.pending /\ x.rtimer = v.rtimer
      BY <1>3, ConnectionIsDropped
    <2>2. Less(d, DropConnection(v))
      BY <1>3, <2>1, LessIsTransitive
    <2> QED BY <1>3, <2>1, <2>2
  <1>5. Fine(absent) /\ absent.rtimer = FALSE
    BY <1>3, <1>4
  <1>6. Fine(dropped) /\ dropped.rtimer = FALSE
    BY <1>3, <1>4
  <1> HIDE DEF absent, dropped
  <1>7. ASSUME NEW x, Fine(x), x.rtimer = FALSE
        PROVE  Fine([x EXCEPT !.current = NoService])
    <2>1. LET y == [x EXCEPT !.current = NoService]
          IN  Ok(y) /\ Less(x, y) /\ y.known = x.known /\ y.pending = x.pending
      BY <1>7, CurrentIsLeft
    <2>2. Less(d, [x EXCEPT !.current = NoService])
      BY <1>7, <2>1, LessIsTransitive
    <2> QED BY <1>7, <2>1, <2>2
  <1>8. DisconnectFrom(d, s, ok) =
          IF ignored THEN d
          ELSE IF ~d.present THEN [absent EXCEPT !.current = NoService]
          ELSE IF d.up /\ ok THEN v
          ELSE [dropped EXCEPT !.current = NoService]
    BY DEF DisconnectFrom, absent, dropped, v, b, a
  <1>9. CASE ignored
    <2>1. DisconnectFrom(d, s, ok) = d
      BY <1>8, <1>9
    <2>2. s # d.pending
      BY <1>9, WiFiAssumption
    <2> QED BY <2>1, <2>2, LessIsReflexive
  <1>10. CASE ~ignored
    <2>1. Fine(DisconnectFrom(d, s, ok))
      <3>1. Fine([absent EXCEPT !.current = NoService])
        BY <1>5, <1>7
      <3>2. Fine([dropped EXCEPT !.current = NoService])
        BY <1>6, <1>7
      <3> HIDE DEF Fine, ignored
      <3> QED BY <1>3, <1>8, <1>10, <3>1, <3>2, Zenon
    <2> QED BY <2>1
  <1> QED BY <1>9, <1>10

LEMMA DisconnectingIfActive ==
  ASSUME NEW d, Ok(d), NEW s \in Services, NEW ok \in BOOLEAN
  PROVE  LET v == DisconnectFromIfActive(d, s, ok)
         IN  /\ Ok(v) /\ Less(d, v) /\ v.known = d.known
             /\ s = d.pending => v.pending = NoService
  <1>1. CASE s \notin {d.current, d.pending} /\ d.state[s] \in {"idle", "failure"}
    <2>1. DisconnectFromIfActive(d, s, ok) = d
      BY <1>1 DEF DisconnectFromIfActive
    <2> QED BY <1>1, <2>1, LessIsReflexive
  <1>2. CASE ~(s \notin {d.current, d.pending} /\ d.state[s] \in {"idle", "failure"})
    <2>1. DisconnectFromIfActive(d, s, ok) = DisconnectFrom(d, s, ok)
      BY <1>2 DEF DisconnectFromIfActive
    <2> QED BY <2>1, DisconnectingFrom
  <1> QED BY <1>1, <1>2

\* WiFiService::Disconnect ends an attempt of a service that has a device.
LEMMA Disconnecting ==
  ASSUME NEW d, Ok(d), NEW s \in Services, NEW ok \in BOOLEAN
  PROVE  LET v == Disconnect(d, s, ok)
         IN  /\ Ok(v) /\ Less(d, v) /\ v.known = d.known
             /\ s = d.pending /\ HasEndpoints(d, s) => v.pending = NoService
  <1>1. CASE HasEndpoints(d, s)
    <2>1. Disconnect(d, s, ok) = DisconnectFromIfActive(d, s, ok)
      BY <1>1 DEF Disconnect
    <2> QED BY <2>1, DisconnectingIfActive
  <1>2. CASE ~HasEndpoints(d, s)
    <2>1. Disconnect(d, s, ok) = d
      BY <1>2 DEF Disconnect
    <2> QED BY <1>2, <2>1, LessIsReflexive
  <1> QED BY <1>1, <1>2

LEMMA DisconnectingWithFailure ==
  ASSUME NEW d, Ok(d), NEW s \in Services, NEW ok \in BOOLEAN
  PROVE  LET v == DisconnectWithFailure(d, s, ok)
         IN  /\ Ok(v) /\ Less(d, v) /\ v.known = d.known
             /\ s = d.pending /\ HasEndpoints(d, s) => v.pending = NoService
  <1> DEFINE e == Disconnect(d, s, ok)
             v == DisconnectWithFailure(d, s, ok)
  <1>1. /\ Ok(e) /\ Less(d, e) /\ e.known = d.known
        /\ s = d.pending /\ HasEndpoints(d, s) => e.pending = NoService
    BY Disconnecting
  <1>2. v = SetState(e, s, "failure")
    BY DEF DisconnectWithFailure
  <1> HIDE DEF e, v
  <1>3. Ok(v) /\ Less(e, v)
    BY <1>1, <1>2, StateIsSet
  <1>4. v.known = e.known /\ v.pending = e.pending
    <2>1. PICK f : SetState(e, s, "failure") = [e EXCEPT !.state = f]
      BY <1>1, StateIsSet
    <2> QED BY <1>1, <1>2, <2>1 DEF Ok, Devices
  <1>5. Less(d, v)
    BY <1>1, <1>3, LessIsTransitive
  <1> QED BY <1>1, <1>3, <1>4, <1>5 DEF v

LEMMA ClearingCredentials ==
  ASSUME NEW d, Ok(d), NEW s \in Services, NEW ok \in BOOLEAN
  PROVE  LET v == ClearCachedCredentials(d, s, ok)
         IN  Ok(v) /\ Less(d, v) /\ v.known = d.known
  <1>1. CASE s = d.pending
    <2>1. ClearCachedCredentials(d, s, ok) = DisconnectFrom(d, s, ok)
      BY <1>1 DEF ClearCachedCredentials
    <2> QED BY <2>1, DisconnectingFrom
  <1>2. CASE s # d.pending
    <2>1. ClearCachedCredentials(d, s, ok) = d
      BY <1>2 DEF ClearCachedCredentials
    <2> QED BY <2>1, LessIsReflexive
  <1> QED BY <1>1, <1>2

LEMMA Disassociating ==
  ASSUME NEW d, Ok(d), NEW s \in Services, NEW ok \in BOOLEAN
  PROVE  LET v == DisassociateFromService(d, s, ok)
         IN  Ok(v) /\ Less(d, v) /\ v.known = d.known
  <1> DEFINE e == DisconnectFromIfActive(d, s, ok)
             x == DropConnection(e)
             v == DisassociateFromService(d, s, ok)
  <1>1. Ok(e) /\ Less(d, e) /\ e.known = d.known
    BY DisconnectingIfActive
  <1>2. v = IF s = e.selected THEN x ELSE e
    BY DEF DisassociateFromService
  <1> HIDE DEF e, v
  <1>3. Ok(x) /\ Less(e, x) /\ x.known = e.known
    BY <1>1, ConnectionIsDropped
  <1>4. Less(d, x)
    BY <1>1, <1>3, LessIsTransitive
  <1> QED BY <1>1, <1>2, <1>3, <1>4 DEF v

LEMMA LosingWiFi ==
  ASSUME NEW d, Ok(d), NEW s \in Services, NEW ok \in BOOLEAN
  PROVE  LET v == LoseWiFi(d, s, ok)
         IN  Ok(v) /\ Less(d, v) /\ v.known = d.known
  <1> DEFINE e == ClearCachedCredentials(d, s, ok)
             v == LoseWiFi(d, s, ok)
  <1>1. Ok(e) /\ Less(d, e) /\ e.known = d.known
    BY ClearingCredentials
  <1>2. v = DisassociateFromService(e, s, ok)
    BY DEF LoseWiFi
  <1> HIDE DEF e, v
  <1>3. Ok(v) /\ Less(e, v) /\ v.known = e.known
    BY <1>1, <1>2, Disassociating
  <1>4. Less(d, v)
    BY <1>1, <1>3, LessIsTransitive
  <1> QED BY <1>1, <1>3, <1>4 DEF v

LEMMA EndpointIsRemoved ==
  ASSUME NEW d, Ok(d), NEW b \in Bsses, NEW ok \in BOOLEAN
  PROVE  LET v == OnEndpointRemoved(d, b, ok)
         IN  Ok(v) /\ Less(d, v) /\ v.known = d.known \ {b}
  <1> DEFINE s == ServiceOf[b]
             e == [d EXCEPT !.known = @ \ {b}]
             x == LoseWiFi(e, s, ok)
             v == OnEndpointRemoved(d, b, ok)
  <1>1. s \in Services
    BY WiFiAssumption
  <1>2. IsFiniteSet(d.known \ {b})
    BY FS_Subset DEF Ok
  <1>3. e \in Devices /\ e.known = d.known \ {b}
    BY DEF Ok, Devices
  <1>4. Ok(e)
    BY <1>2, <1>3 DEF Ok, Devices
  <1>5. Less(d, e)
    BY DEF Ok, Devices, Less, SameMachine
  <1>6. v = IF HasEndpoints(e, s) THEN e ELSE x
    BY DEF OnEndpointRemoved
  <1> HIDE DEF e, v, s
  <1>7. Ok(x) /\ Less(e, x) /\ x.known = e.known
    BY <1>1, <1>4, LosingWiFi
  <1>8. Less(d, x)
    BY <1>5, <1>7, LessIsTransitive
  <1> QED BY <1>3, <1>4, <1>5, <1>6, <1>7, <1>8 DEF v
-----------------------------------------------------------------------------
(***************************************************************************)
(* Losing every endpoint, one by one: induction over how many have gone,   *)
(* on sets of numbers.                                                     *)
(***************************************************************************)
\* A set of numbers that is not empty has a least one.
LEMMA LeastNumber ==
  ASSUME NEW T, T \subseteq Nat, T # {}
  PROVE  \E x \in T : \A y \in T : ~(y < x)
  <1> DEFINE R == OpToRel(<, Nat)
  <1>1. IsWellFoundedOn(R, Nat)
    BY NatLessThanWellFounded, Zenon
  <1>2. \A x, y \in Nat : y < x => <<y, x>> \in R
    BY DEF OpToRel
  <1> HIDE DEF R
  <1>3. \E x \in T : \A y \in T : ~(<<y, x>> \in R)
    BY <1>1, WFMin, Zenon
  <1> QED BY <1>2, <1>3

\* A set with 0 and the successor of each of its members has every number.
LEMMA SetInduction ==
  ASSUME NEW T, T \subseteq Nat, 0 \in T, \A n \in T : n + 1 \in T
  PROVE  \A n \in Nat : n \in T
  <1>1. SUFFICES ASSUME Nat \ T # {} PROVE FALSE
    OBVIOUS
  <1>2. PICK x \in Nat \ T : \A y \in Nat \ T : ~(y < x)
    BY <1>1, LeastNumber
  <1>3. x # 0 /\ x - 1 \in Nat /\ x - 1 \notin Nat \ T
    BY <1>2
  <1> QED BY <1>2, <1>3

\* One endpoint of B, as LoseEndpoints takes it.
Any(B) == CHOOSE x \in B : TRUE

\* f gives the device after the endpoints of each set have gone.
Losing(d, domain, f) ==
    f = [B \in domain |->
            IF B = {} THEN d ELSE OnEndpointRemoved(f[B \ {Any(B)}], Any(B), TRUE)]

AtMost(K, n) == {B \in SUBSET K : Cardinality(B) <= n}

\* The set without the endpoint that goes last is smaller.
LEMMA OneLess ==
  ASSUME NEW K, IsFiniteSet(K), NEW n \in Nat, NEW B \in AtMost(K, n + 1), B # {}
  PROVE  Any(B) \in B /\ B \ {Any(B)} \in AtMost(K, n)
  <1>1. Any(B) \in B
    BY DEF Any
  <1>2. IsFiniteSet(B) /\ Cardinality(B) \in Nat
    BY FS_Subset, FS_CardinalityType DEF AtMost
  <1>3. Cardinality(B \ {Any(B)}) = Cardinality(B) - 1
    BY <1>1, <1>2, FS_RemoveElement
  <1> QED BY <1>1, <1>2, <1>3 DEF AtMost

LEMMA LosingExists ==
  ASSUME NEW d, NEW K, IsFiniteSet(K)
  PROVE  \E f : Losing(d, SUBSET K, f)
  <1> DEFINE Step(x, b) == OnEndpointRemoved(x, b, TRUE)
             Eq(D, f) == f = [B \in D |-> IF B = {} THEN d
                                          ELSE Step(f[B \ {Any(B)}], Any(B))]
             T == {n \in Nat : \E f : Eq(AtMost(K, n), f)}
  <1> HIDE DEF Step
  <1>1. 0 \in T
    <2> DEFINE f == [B \in AtMost(K, 0) |-> d]
    <2>1. ASSUME NEW B \in AtMost(K, 0) PROVE B = {}
      <3>1. IsFiniteSet(B) /\ Cardinality(B) \in Nat
        BY FS_Subset, FS_CardinalityType DEF AtMost
      <3>2. Cardinality(B) = 0
        BY <3>1 DEF AtMost
      <3> QED BY <3>1, <3>2, FS_EmptySet
    <2>2. Eq(AtMost(K, 0), f)
      BY <2>1
    <2> QED BY <2>2
  <1>2. ASSUME NEW n \in T PROVE n + 1 \in T
    <2>1. PICK f : Eq(AtMost(K, n), f)
      OBVIOUS
    <2> DEFINE g == [B \in AtMost(K, n + 1) |->
                        IF B \in AtMost(K, n) THEN f[B]
                        ELSE Step(f[B \ {Any(B)}], Any(B))]
    <2>2. ASSUME NEW B \in AtMost(K, n + 1), B # {}
          PROVE  /\ B \ {Any(B)} \in AtMost(K, n)
                 /\ g[B \ {Any(B)}] = f[B \ {Any(B)}]
      <3>1. B \ {Any(B)} \in AtMost(K, n)
        BY <2>2, OneLess
      <3>2. AtMost(K, n) \subseteq AtMost(K, n + 1)
        <4>1. \A C \in SUBSET K : Cardinality(C) \in Nat
          BY FS_Subset, FS_CardinalityType
        <4> QED BY <4>1 DEF AtMost
      <3> QED BY <3>1, <3>2
    <2>3. {} \in AtMost(K, n)
      BY FS_EmptySet DEF AtMost
    <2>4. ASSUME NEW B \in AtMost(K, n + 1)
          PROVE  g[B] = IF B = {} THEN d ELSE Step(g[B \ {Any(B)}], Any(B))
      <3>1. CASE B = {}
        BY <2>1, <2>3, <3>1
      <3>2. CASE B # {}
        <4>1. g[B] = Step(f[B \ {Any(B)}], Any(B))
          BY <2>1, <3>2
        <4> HIDE DEF g
        <4> QED BY <2>2, <3>2, <4>1
      <3> QED BY <3>1, <3>2
    <2>5. g = [B \in AtMost(K, n + 1) |-> g[B]]
      OBVIOUS
    <2> HIDE DEF g
    <2>6. Eq(AtMost(K, n + 1), g)
      BY <2>4, <2>5
    <2> HIDE DEF Eq
    <2>7. \E h : Eq(AtMost(K, n + 1), h)
      BY <2>6
    <2>8. n + 1 \in Nat
      OBVIOUS
    <2> QED BY <2>7, <2>8
  <1>3. T \subseteq Nat
    OBVIOUS
  <1> HIDE DEF T
  <1>4. \A n \in Nat : n \in T
    BY <1>1, <1>2, <1>3, SetInduction
  <1>5. Cardinality(K) \in Nat
    BY FS_CardinalityType
  <1>6. PICK f : Eq(AtMost(K, Cardinality(K)), f)
    BY <1>4, <1>5 DEF T
  <1>7. AtMost(K, Cardinality(K)) = SUBSET K
    BY FS_Subset DEF AtMost
  <1> QED BY <1>6, <1>7 DEF Losing, Step

LEMMA EndpointsAreLost ==
  ASSUME NEW d, Ok(d)
  PROVE  LET v == LoseEndpoints(d)
         IN  Ok(v) /\ Less(d, v) /\ v.known = {}
  <1> DEFINE K == d.known
             F == CHOOSE f : f = [B \in SUBSET K |->
                     IF B = {} THEN d
                     ELSE OnEndpointRemoved(f[B \ {Any(B)}], Any(B), TRUE)]
             Fine(B) == Ok(F[B]) /\ Less(d, F[B]) /\ F[B].known = K \ B
             T == {n \in Nat : \A B \in AtMost(K, n) : Fine(B)}
  <1>1. LoseEndpoints(d) = F[K]
    BY Zenon DEF LoseEndpoints, Any
  <1>2. IsFiniteSet(K) /\ K \subseteq Bsses
    BY DEF Ok, Devices
  <1>3. F = CHOOSE f : Losing(d, SUBSET K, f)
    BY Zenon DEF Losing
  <1> HIDE DEF F
  <1>4. Losing(d, SUBSET K, F)
    BY <1>2, <1>3, LosingExists, Zenon
  <1>5. ASSUME NEW B \in SUBSET K
        PROVE  F[B] = IF B = {} THEN d
                      ELSE OnEndpointRemoved(F[B \ {Any(B)}], Any(B), TRUE)
    BY <1>4 DEF Losing
  <1>6. Fine({})
    BY <1>5, LessIsReflexive
  <1>7. 0 \in T
    <2>1. ASSUME NEW B \in AtMost(K, 0) PROVE B = {}
      <3>1. IsFiniteSet(B) /\ Cardinality(B) \in Nat
        BY <1>2, FS_Subset, FS_CardinalityType DEF AtMost
      <3>2. Cardinality(B) = 0
        BY <3>1 DEF AtMost
      <3> QED BY <3>1, <3>2, FS_EmptySet
    <2> HIDE DEF Fine
    <2> QED BY <1>6, <2>1
  <1>8. ASSUME NEW n \in T PROVE n + 1 \in T
    <2>1. ASSUME NEW B \in AtMost(K, n + 1), B # {} PROVE Fine(B)
      <3> DEFINE b == Any(B)
                 x == F[B \ {b}]
      <3>1. b \in B /\ B \ {b} \in AtMost(K, n)
        BY <1>2, <2>1, OneLess
      <3>2. b \in Bsses /\ B \in SUBSET K
        BY <1>2, <3>1 DEF AtMost
      <3>3. Ok(x) /\ Less(d, x) /\ x.known = K \ (B \ {b})
        BY <3>1
      <3>4. F[B] = OnEndpointRemoved(x, b, TRUE)
        BY <1>5, <2>1, <3>2
      <3> DEFINE y == OnEndpointRemoved(x, b, TRUE)
      <3> HIDE DEF x, b
      <3>5. Ok(y) /\ Less(x, y) /\ y.known = x.known \ {b}
        BY <3>2, <3>3, EndpointIsRemoved
      <3> HIDE DEF y
      <3>6. Less(d, y)
        BY <3>3, <3>5, LessIsTransitive
      <3>7. (K \ (B \ {b})) \ {b} = K \ B
        BY <3>1
      <3>8. y.known = K \ B
        BY <3>3, <3>5, <3>7
      <3>9. F[B] = y
        BY <3>4 DEF y
      <3> QED BY <3>5, <3>6, <3>8, <3>9
    <2> HIDE DEF Fine
    <2> QED BY <1>6, <2>1
  <1>9. T \subseteq Nat
    OBVIOUS
  <1> HIDE DEF T
  <1>10. \A n \in Nat : n \in T
    BY <1>7, <1>8, <1>9, SetInduction
  <1>11. Fine(K)
    <2>1. Cardinality(K) \in Nat
      BY <1>2, FS_CardinalityType
    <2>2. K \in AtMost(K, Cardinality(K))
      BY <2>1 DEF AtMost
    <2> HIDE DEF Fine
    <2> QED BY <1>10, <2>1, <2>2 DEF T
  <1> QED BY <1>1, <1>11
-----------------------------------------------------------------------------
(***************************************************************************)
(* Starting, stopping and the process of wpa_supplicant.                   *)
(***************************************************************************)
LEMMA ScanIsAsked ==
  ASSUME NEW d, Ok(d)
  PROVE  Ok(Scan(d)) /\ Less(d, Scan(d))
  <1>1. CASE d.scan # "idle" \/ IsConnecting(d, d.current)
    <2>1. Scan(d) = d
      BY <1>1 DEF Scan
    <2> QED BY <2>1, LessIsReflexive
  <1>2. CASE ~(d.scan # "idle" \/ IsConnecting(d, d.current))
    <2> DEFINE v == Scan(d)
    <2>1. v = [d EXCEPT !.task = TRUE]
      BY <1>2 DEF Scan
    <2> HIDE DEF v
    <2>2. v \in Devices
      BY <2>1 DEF Ok, Devices
    <2>3. Ok(v)
      BY <2>1, <2>2 DEF Ok, Devices
    <2>4. Less(d, v)
      BY <2>1 DEF Ok, Devices, Less, SameMachine
    <2> QED BY <2>3, <2>4 DEF v
  <1> QED BY <1>1, <1>2

\* Whatever the device did, Stop leaves nothing of it.
LEMMA Stopping ==
  ASSUME NEW d, Ok(d)
  PROVE  LET v == Stop(d)
         IN  /\ Ok(v) /\ Timed(v) /\ Clean(v)
             /\ ~v.iface /\ ~v.enabled /\ v.present = d.present
  <1> DEFINE e == DropConnection(d)
             x == LoseEndpoints(e)
             y == SetScanState(x, "idle")
             v == Stop(d)
  <1>1. Ok(e) /\ Less(d, e) /\ e.selected = NoService /\ e.lessee = NoService
    BY ConnectionIsDropped
  <1> HIDE DEF e
  <1>2. Ok(x) /\ Less(e, x) /\ x.known = {}
    BY <1>1, EndpointsAreLost
  <1> HIDE DEF x
  <1>3. Ok(y) /\ y = [x EXCEPT !.scan = "idle"]
    BY <1>2, ScanIsOver
  <1>4. v = [y EXCEPT !.iface = FALSE, !.current = NoService,
                      !.pending = NoService, !.ptimer = FALSE, !.rtimer = FALSE,
                      !.task = FALSE, !.update = FALSE, !.failing = FALSE, !.enabled = FALSE]
    BY DEF Stop, y, x, e
  <1> HIDE DEF v, y
  <1>5. /\ y.selected = NoService /\ y.lessee = NoService /\ y.known = {}
        /\ y.scan = "idle" /\ y.present = d.present
    <2>1. x.selected = NoService /\ x.lessee = NoService /\ x.present = d.present
      BY <1>1, <1>2 DEF Less, SameMachine
    <2> QED BY <1>2, <1>3, <2>1 DEF Ok, Devices
  <1>6. v \in Devices
    <2> DEFINE z == [y EXCEPT !.iface = FALSE, !.current = NoService,
                              !.pending = NoService, !.ptimer = FALSE]
    <2>1. y \in Devices
      BY <1>3 DEF Ok
    <2>2. z \in Devices
      BY <2>1 DEF Devices
    <2>3. v = [z EXCEPT !.rtimer = FALSE, !.task = FALSE, !.update = FALSE,
                        !.failing = FALSE, !.enabled = FALSE]
      BY <1>4, <2>1 DEF Devices
    <2> HIDE DEF z
    <2> QED BY <2>2, <2>3 DEF Devices
  <1>7. /\ v.selected = NoService /\ v.lessee = NoService /\ v.known = {}
        /\ v.scan = "idle" /\ v.present = d.present /\ v.state = y.state
        /\ v.ended = y.ended /\ v.monitor = y.monitor
        /\ v.current = NoService /\ v.pending = NoService
    BY <1>3, <1>4, <1>5 DEF Ok, Devices
  <1>8. v.ptimer = FALSE /\ v.rtimer = FALSE /\ v.iface = FALSE /\ v.enabled = FALSE
    BY <1>3, <1>4 DEF Ok, Devices
  <1>9. Ok(v)
    <2>1. (\A s \in Services : y.state[s] # "connected") /\ y.monitor # "on"
      BY <1>3, <1>5, WiFiAssumption DEF Ok
    <2> QED BY <1>3, <1>6, <1>7, <1>8, <2>1, FS_EmptySet DEF Ok
  <1>10. Timed(v) /\ Clean(v)
    BY <1>7 DEF Timed, Clean, IsIdle
  <1> QED BY <1>7, <1>8, <1>9, <1>10 DEF v

LEMMA ConnectingToSupplicant ==
  ASSUME NEW d, Ok(d), Timed(d), Clean(d), ~d.iface, NEW ok \in BOOLEAN
  PROVE  Good(ConnectToSupplicant(d, ok))
  <1>1. CASE ~d.enabled \/ ~d.present \/ ~ok
    <2>1. ConnectToSupplicant(d, ok) = d
      BY <1>1 DEF ConnectToSupplicant
    <2> QED BY <1>1, <2>1 DEF Good
  <1>2. CASE d.enabled /\ d.present /\ ok
    <2> DEFINE e == [d EXCEPT !.iface = TRUE]
    <2>1. ConnectToSupplicant(d, ok) = Scan(e)
      BY <1>2 DEF ConnectToSupplicant
    <2>2. Good(e)
      <3>1. e \in Devices
        BY DEF Ok, Devices
      <3>2. Ok(e)
        BY <3>1 DEF Ok, Devices
      <3>3. Timed(e)
        BY DEF Ok, Devices, Timed
      <3>4. e.iface /\ e.enabled /\ e.present
        BY <1>2 DEF Ok, Devices
      <3> HIDE DEF e
      <3> QED BY <3>2, <3>3, <3>4 DEF Good, Clean
    <2> HIDE DEF e
    <2>3. Ok(Scan(e)) /\ Less(e, Scan(e))
      BY <2>2, ScanIsAsked DEF Good
    <2> QED BY <2>1, <2>2, <2>3, LessIsGood
  <1> QED BY <1>1, <1>2

LEMMA Starting ==
  ASSUME NEW d, Ok(d), Timed(d), Clean(d), ~d.iface, ~d.enabled, NEW ok \in BOOLEAN
  PROVE  Good(Start(d, ok))
  <1> DEFINE e == [d EXCEPT !.enabled = TRUE]
  <1>1. Start(d, ok) = ConnectToSupplicant(e, ok)
    BY DEF Start
  <1>2. e \in Devices
    BY DEF Ok, Devices
  <1>3. Ok(e)
    BY <1>2 DEF Ok, Devices
  <1>4. Timed(e)
    BY DEF Ok, Devices, Timed
  <1>5. ~e.iface
    BY DEF Ok, Devices
  <1>6. Clean(e)
    BY DEF Ok, Devices, Clean, IsIdle
  <1> HIDE DEF e
  <1> QED BY <1>1, <1>3, <1>4, <1>5, <1>6, ConnectingToSupplicant

\* Only a disabled device has to be good before.
LEMMA Restarting ==
  ASSUME NEW d, Ok(d), d.enabled \/ Good(d), NEW ok \in BOOLEAN
  PROVE  Good(Restart(d, ok))
  <1>1. CASE d.enabled
    <2>1. LET v == Stop(d)
          IN  Ok(v) /\ Timed(v) /\ Clean(v) /\ ~v.iface /\ ~v.enabled
      BY Stopping
    <2>2. Good(Start(Stop(d), ok))
      BY <2>1, Starting
    <2> QED BY <1>1, <2>2 DEF Restart
  <1>2. CASE ~d.enabled
    BY <1>2 DEF Restart
  <1> QED BY <1>1, <1>2

LEMMA SupplicantComesAndGoes ==
  ASSUME Running, NEW ok \in BOOLEAN, OnSupplicantAppear(ok) \/ OnSupplicantVanish(ok)
  PROVE  Running'
  <1>1. Ok(dev)
    BY DEF Running, Good
  <1>2. ASSUME NEW present \in BOOLEAN
        PROVE  LET d == [dev EXCEPT !.present = present]
               IN  Ok(d) /\ Timed(d) /\ Clean(d) /\ d.iface = dev.iface
                   /\ d.enabled = dev.enabled /\ d.present = present
    <2> DEFINE d == [dev EXCEPT !.present = present]
    <2>1. d \in Devices
      BY <1>1 DEF Ok, Devices
    <2>2. Ok(d)
      BY <1>1, <2>1 DEF Ok, Devices
    <2>3. Timed(d) /\ Clean(d)
      BY <1>1 DEF Ok, Devices, Timed, Clean, IsIdle, Running, Good
    <2>4. d.iface = dev.iface /\ d.enabled = dev.enabled /\ d.present = present
      BY <1>1 DEF Ok, Devices
    <2> QED BY <2>2, <2>3, <2>4
  <1>3. CASE OnSupplicantAppear(ok) /\ dev.present
    <2>1. dev' = Restart(dev, ok)
      BY <1>3 DEF OnSupplicantAppear
    <2> QED BY <1>1, <2>1, Restarting DEF Running
  <1>4. CASE OnSupplicantAppear(ok) /\ ~dev.present
    <2> DEFINE d == [dev EXCEPT !.present = TRUE]
    <2>1. dev' = ConnectToSupplicant(d, ok)
      BY <1>4 DEF OnSupplicantAppear
    <2>2. ~dev.iface
      BY <1>4 DEF Running, Good
    <2>3. Ok(d) /\ Timed(d) /\ Clean(d) /\ d.iface = dev.iface
      BY <1>2
    <2> HIDE DEF d
    <2> QED BY <2>1, <2>2, <2>3, ConnectingToSupplicant DEF Running
  <1>5. CASE OnSupplicantVanish(ok)
    <2> DEFINE d == [dev EXCEPT !.present = FALSE]
    <2>1. dev' = Restart(d, ok)
      BY <1>5 DEF OnSupplicantVanish
    <2>2. /\ Ok(d) /\ Timed(d) /\ Clean(d) /\ d.iface = dev.iface
          /\ d.enabled = dev.enabled /\ d.present = FALSE
      BY <1>2
    <2> HIDE DEF d
    <2>3. d.enabled \/ Good(d)
      BY <2>2 DEF Running, Good
    <2> QED BY <2>1, <2>2, <2>3, Restarting DEF Running
  <1> QED BY <1>3, <1>4, <1>5

LEMMA DeviceIsSwitched ==
  ASSUME Running, NEW ok \in BOOLEAN, SetEnabled(ok)
  PROVE  Running'
  <1>1. Ok(dev)
    BY DEF Running, Good
  <1>2. CASE dev.enabled
    <2>1. dev' = Stop(dev)
      BY <1>2 DEF SetEnabled
    <2>2. Ok(dev') /\ Timed(dev') /\ Clean(dev') /\ ~dev'.iface /\ ~dev'.enabled
      BY <1>1, <2>1, Stopping
    <2> QED BY <2>2 DEF Running, Good
  <1>3. CASE ~dev.enabled
    <2>1. dev' = Start(dev, ok)
      BY <1>3 DEF SetEnabled
    <2>2. ~dev.iface
      BY <1>3 DEF Running, Good
    <2> QED BY <1>1, <1>3, <2>1, <2>2, Starting DEF Running, Good
  <1> QED BY <1>2, <1>3
-----------------------------------------------------------------------------
(***************************************************************************)
(* Connecting, and what wpa_supplicant reports.                            *)
(***************************************************************************)
\* With an interface a device may take up anything.
LEMMA BusyIsGood ==
  ASSUME NEW d, NEW v, Good(d), d.iface, Ok(v), Timed(v), SameMachine(d, v)
  PROVE  Good(v)
BY DEF Good, SameMachine, Clean

\* A service is pending, with its timeout.
LEMMA PendingIsSet ==
  ASSUME NEW d, Ok(d), NEW s \in Services, d.current # s
  PROVE  LET v == SetPendingService(d, s)
         IN  /\ Ok(v) /\ Timed(v) /\ SameMachine(d, v)
             /\ v.current = d.current /\ v.pending = s
  <1> DEFINE v == SetPendingService(d, s)
             f == [d.state EXCEPT ![s] = "associating"]
  <1>1. s # NoService
    BY WiFiAssumption
  <1>2. v = [d EXCEPT !.scan = "connecting", !.state = f, !.ptimer = TRUE, !.pending = s]
    BY <1>1 DEF SetPendingService, SetState, SetScanState, Ok, Devices
  <1>3. f \in [Services -> {"idle", "associating", "configuring", "connected", "failure"}]
    BY DEF Ok, Devices
  <1>4. \A t \in Services : f[t] = "connected" => t = d.selected
    BY DEF Ok, Devices
  <1> HIDE DEF f, v
  <1>5. v \in Devices
    BY <1>2, <1>3 DEF Ok, Devices
  <1>6. /\ v.pending = s /\ v.ptimer = TRUE /\ v.current = d.current
        /\ v.state = f /\ v.selected = d.selected /\ v.ended = d.ended
        /\ v.known = d.known /\ v.rtimer = d.rtimer /\ v.monitor = d.monitor
    BY <1>2 DEF Ok, Devices
  <1>7. SameMachine(d, v)
    BY <1>2 DEF Ok, Devices, SameMachine
  <1>8. Ok(v)
    BY <1>1, <1>4, <1>5, <1>6 DEF Ok
  <1> QED BY <1>6, <1>7, <1>8 DEF Timed, v

LEMMA CheckHolds ==
  ASSUME NEW d, Ok(d), NEW holds \in BOOLEAN, holds
  PROVE  Check(d, holds) = d
BY DEF Check, Ok, Devices

\* Selecting touches neither the attempt nor the machine.
LEMMA SelectingIsFine ==
  ASSUME NEW d, Ok(d), Timed(d), NEW s \in Services \cup {NoService}
  PROVE  LET v == SelectService(d, s)
         IN  /\ Ok(v) /\ Timed(v) /\ SameMachine(d, v)
             /\ v.current = d.current /\ v.pending = d.pending
BY ServiceIsSelected DEF SelectedOnly, Timed

LEMMA ConnectingTo ==
  ASSUME NEW d, Good(d), NEW s \in Services, NEW off \in BOOLEAN, NEW ok \in BOOLEAN,
         d.current # s, d.iface \/ ~d.present
  PROVE  Good(ConnectTo(d, s, off, ok))
  <1> DEFINE w == IF d.pending = NoService THEN d ELSE DisconnectFrom(d, d.pending, off)
             c == SetPendingService(w, s)
             holds == c.current # c.pending
             v == SelectService(c, s)
  <1>1. s # NoService /\ Ok(d)
    BY WiFiAssumption DEF Good
  <1>2. Ok(w) /\ Less(d, w)
    <2>1. CASE d.pending = NoService
      BY <1>1, <2>1, LessIsReflexive
    <2>2. CASE d.pending # NoService
      <3>1. d.pending \in Services
        BY <1>1, <2>2 DEF Ok, Devices
      <3>2. LET x == DisconnectFrom(d, d.pending, off)
            IN  Ok(x) /\ Less(d, x)
        BY <1>1, <3>1, DisconnectingFrom
      <3> QED BY <2>2, <3>2
    <2> QED BY <2>1, <2>2
  <1> HIDE DEF w
  <1>3. /\ Ok(c) /\ Timed(c) /\ SameMachine(w, c)
        /\ c.current = w.current /\ c.pending = s
    <2>1. w.current # s
      BY <1>1, <1>2 DEF Less
    <2> QED BY <1>2, <2>1, PendingIsSet
  <1>4. holds
    BY <1>1, <1>2, <1>3 DEF Less
  <1> HIDE DEF c
  <1>5. Check(c, holds) = c
    BY <1>3, <1>4, CheckHolds
  <1>6. Ok(v) /\ Timed(v) /\ SameMachine(c, v)
    BY <1>3, SelectingIsFine
  <1>7. SameMachine(d, v)
    BY <1>2, <1>3, <1>6 DEF Less, SameMachine
  <1>8. ConnectTo(d, s, off, ok) = IF ~d.present \/ d.pending = s THEN d
                                   ELSE IF ~ok THEN SetScanState(w, "idle")
                                   ELSE SelectService(Check(c, holds), s)
    BY DEF ConnectTo, c, w
  <1>9. CASE ~d.present \/ d.pending = s
    BY <1>8, <1>9
  <1>10. CASE ~(~d.present \/ d.pending = s) /\ ~ok
    <2>1. LET x == SetScanState(w, "idle") IN Ok(x) /\ Less(w, x)
      BY <1>2, ScanIsOver
    <2>2. Good(SetScanState(w, "idle"))
      BY <1>2, <2>1, LessIsGood
    <2> QED BY <1>8, <1>10, <2>2
  <1>11. CASE ~(~d.present \/ d.pending = s) /\ ok
    <2> HIDE DEF v
    <2>1. ConnectTo(d, s, off, ok) = v
      BY <1>5, <1>8, <1>11 DEF v
    <2> QED BY <1>6, <1>7, <1>11, <2>1, BusyIsGood
  <1> QED BY <1>9, <1>10, <1>11

\* A hidden service may be asked for when there is nobody to ask.
LEMMA ConnectKeepsInv ==
  ASSUME Running, NEW s \in Services, NEW off \in BOOLEAN, NEW ok \in BOOLEAN,
         Connect(s, off, ok)
  PROVE  Inv'
  <1> DEFINE d == SetState(dev, s, "idle")
  <1>1. Ok(dev) /\ Good(dev)
    BY DEF Running, Good
  <1>2. Ok(d) /\ Less(dev, d)
    BY <1>1, StateIsSet
  <1>3. Good(d)
    BY <1>1, <1>2, LessIsGood
  <1>4. /\ d.current = dev.current /\ d.pending = dev.pending
        /\ d.iface = dev.iface /\ d.present = dev.present /\ d.enabled = dev.enabled
    <2>1. PICK f : d = [dev EXCEPT !.state = f]
      BY <1>1, StateIsSet
    <2> QED BY <1>1, <2>1 DEF Ok, Devices
  <1>5. dev.iface \/ (dev.enabled /\ dev.pending = NoService)
    BY DEF Connect, HasEndpoints, Running, Good, Clean, IsIdle
  <1>6. dev' = ConnectTo(d, s, off, ok) /\ dev.current # s
    BY DEF Connect
  <1> HIDE DEF d
  <1>7. CASE dev.iface \/ ~dev.present
    <2>1. Good(ConnectTo(d, s, off, ok))
      BY <1>3, <1>4, <1>6, <1>7, ConnectingTo
    <2> QED BY <1>6, <2>1, RunningIsInv DEF Running
  <1>8. CASE ~(dev.iface \/ ~dev.present)
    <2>1. d.pending # s
      BY <1>4, <1>5, <1>8, WiFiAssumption
    <2>2. dev' = [d EXCEPT !.ended = "proxy"]
      BY <1>4, <1>6, <1>8, <2>1 DEF ConnectTo
    <2>3. dev' \in Devices /\ dev'.ended = "proxy"
      BY <1>2, <2>2 DEF Ok, Devices
    <2>4. [dev' EXCEPT !.ended = "no"] = d
      BY <1>2, <2>2 DEF Ok, Devices
    <2>5. ~dev'.iface /\ dev'.present /\ dev'.enabled
      BY <1>2, <1>4, <1>5, <1>8, <2>2 DEF Ok, Devices
    <2> QED BY <1>3, <2>3, <2>4, <2>5 DEF Inv, Over
  <1> QED BY <1>7, <1>8

\* What a method may do while there is an interface.
Fine(d, v) == Ok(v) /\ Timed(v) /\ SameMachine(d, v)

LEMMA LessIsFine ==
  ASSUME NEW d, NEW v, Timed(d), Ok(v), Less(d, v)
  PROVE  Fine(d, v)
BY DEF Fine, Timed, Less

LEMMA FineIsTransitive ==
  ASSUME NEW d, NEW v, NEW w, Fine(d, v), Fine(v, w)
  PROVE  Fine(d, w)
BY DEF Fine, SameMachine

LEMMA StateIsFine ==
  ASSUME NEW d, Ok(d), Timed(d), NEW s \in Services \cup {NoService},
         NEW st \in {"idle", "associating", "configuring", "failure"}
  PROVE  Fine(d, SetState(d, s, st))
BY StateIsSet, LessIsFine

LEMMA HandlingDisconnect ==
  ASSUME NEW d, Ok(d), Timed(d), ~d.rtimer
  PROVE  Fine(d, HandleDisconnect(d))
  <1> DEFINE s == IF d.current # NoService THEN d.current ELSE d.pending
             e == SetState(d, s, "idle")
             v == [e EXCEPT !.current = NoService]
             w == IF s = v.selected THEN DropConnection(v) ELSE v
             x == SetPendingService(w, NoService)
  <1>1. s \in Services \cup {NoService}
    BY DEF Ok, Devices
  <1>2. Ok(e) /\ Less(d, e) /\ e.rtimer = d.rtimer
    <2>1. Ok(e) /\ Less(d, e)
      BY <1>1, StateIsSet
    <2>2. e.rtimer = d.rtimer
      BY DEF SetState, Ok, Devices
    <2> QED BY <2>1, <2>2
  <1> HIDE DEF e, s
  <1>3. Ok(v) /\ Less(e, v)
    BY <1>2, CurrentIsLeft
  <1> HIDE DEF v
  <1>4. Ok(w) /\ Less(v, w)
    <2>1. LET y == DropConnection(v) IN Ok(y) /\ Less(v, y)
      BY <1>3, ConnectionIsDropped
    <2> QED BY <1>3, <2>1, LessIsReflexive
  <1> HIDE DEF w
  <1>5. Ok(x) /\ Less(w, x)
    BY <1>4, PendingIsLeft
  <1>6. Less(d, w)
    BY <1>2, <1>3, <1>4, LessIsTransitive
  <1>7. Less(d, x)
    BY <1>5, <1>6, LessIsTransitive
  <1>8. HandleDisconnect(d) = IF s = NoService THEN d
                              ELSE IF s = w.pending THEN x ELSE w
    BY DEF HandleDisconnect, w, v, e, s
  <1> HIDE DEF x
  <1>9. Ok(HandleDisconnect(d)) /\ Less(d, HandleDisconnect(d))
    BY <1>4, <1>5, <1>6, <1>7, <1>8, LessIsReflexive
  <1> QED BY <1>9, LessIsFine

LEMMA HandlingRoam ==
  ASSUME NEW d, Ok(d), Timed(d), ~d.rtimer, NEW b \in Bsses, NEW ok \in BOOLEAN
  PROVE  Fine(d, HandleRoam(d, b, ok))
  <1> DEFINE s == ServiceOf[b]
             r == HandleRoam(d, b, ok)
             c == [d EXCEPT !.current = s]
  <1>1. s \in Services /\ s # NoService
    BY WiFiAssumption
  <1>2. c \in Devices
    BY <1>1 DEF Ok, Devices
  <1>3. Fine(d, d)
    BY LessIsReflexive, LessIsFine
  <1>4. CASE b \notin d.known
    <2>1. r = d
      BY <1>4 DEF HandleRoam
    <2> QED BY <1>3, <2>1
  <1>5. CASE b \in d.known /\ d.pending \notin {NoService, s}
    <2>1. r = d \/ r = DisconnectFrom(d, d.pending, ok)
      BY <1>5 DEF HandleRoam
    <2>2. d.pending \in Services
      BY <1>5 DEF Ok, Devices
    <2>3. LET y == DisconnectFrom(d, d.pending, ok) IN Ok(y) /\ Less(d, y)
      BY <2>2, DisconnectingFrom
    <2>4. Fine(d, DisconnectFrom(d, d.pending, ok))
      BY <2>3, LessIsFine
    <2> QED BY <1>3, <2>1, <2>4
  <1>6. CASE b \in d.known /\ d.pending = s
    <2> DEFINE e == SetScanState(c, "connected")
    <2>1. e = [d EXCEPT !.current = s, !.scan = "idle"]
      BY DEF SetScanState
    <2>2. r = SetPendingService(e, NoService)
      BY <1>1, <1>6 DEF HandleRoam
    <2>3. r = [d EXCEPT !.current = s, !.scan = "idle", !.ptimer = FALSE,
                        !.pending = NoService]
      <3>1. e.scan = "idle" /\ e.pending = s
        BY <1>6, <2>1 DEF Ok, Devices
      <3> HIDE DEF e
      <3>2. r = [e EXCEPT !.ptimer = FALSE, !.pending = NoService]
        BY <1>1, <2>2, <3>1 DEF SetPendingService
      <3> QED BY <2>1, <3>2
    <2> HIDE DEF r
    <2>4. r \in Devices
      BY <1>1, <2>3 DEF Ok, Devices
    <2>5. Ok(r)
      BY <2>3, <2>4 DEF Ok, Devices
    <2>6. Timed(r) /\ SameMachine(d, r)
      BY <2>3 DEF Ok, Devices, Timed, SameMachine
    <2> QED BY <2>5, <2>6 DEF Fine, r
  <1>7. CASE b \in d.known /\ d.pending = NoService
    <2>1. r \in {d, c, SetState(c, s, "associating")}
      BY <1>1, <1>7 DEF HandleRoam
    <2>2. Ok(c)
      BY <1>1, <1>2, <1>7 DEF Ok, Devices
    <2>3. Timed(c) /\ SameMachine(d, c)
      BY <1>7 DEF Ok, Devices, Timed, SameMachine
    <2> HIDE DEF r, c
    <2>4. Fine(d, c)
      BY <2>2, <2>3 DEF Fine
    <2>5. Fine(c, SetState(c, s, "associating"))
      BY <1>1, <2>2, <2>3, StateIsFine
    <2>6. Fine(d, SetState(c, s, "associating"))
      BY <2>4, <2>5, FineIsTransitive
    <2> QED BY <1>3, <2>1, <2>4, <2>6 DEF r
  <1> QED BY <1>4, <1>5, <1>6, <1>7

LEMMA BSSChanges ==
  ASSUME NEW d, Ok(d), Timed(d), NEW bss \in Bsses \cup {Null}, NEW ok \in BOOLEAN
  PROVE  Fine(d, CurrentBSSChanged(d, bss, ok))
  <1> DEFINE c == [d EXCEPT !.already = FALSE, !.rtimer = FALSE]
             h == HandleDisconnect(c)
             v == IF bss # Null THEN HandleRoam(c, bss, ok)
                  ELSE IF Hidden = {} THEN h ELSE Scan(h)
             x == SelectService(v, v.current)
             w == IF v.current # NoService \/ v.selected # v.pending THEN x ELSE v
             holds == w.current # w.pending \/ w.current = NoService
  <1>1. Fine(d, c) /\ ~c.rtimer
    <2>1. c \in Devices
      BY DEF Ok, Devices
    <2>2. Ok(c)
      BY <2>1 DEF Ok, Devices
    <2>3. Less(d, c) /\ c.rtimer = FALSE
      BY DEF Ok, Devices, Less, SameMachine
    <2> QED BY <2>2, <2>3, LessIsFine
  <1> HIDE DEF c
  <1>2. Fine(c, h)
    BY <1>1, HandlingDisconnect DEF Fine
  <1>3. Fine(h, Scan(h))
    BY <1>2, ScanIsAsked, LessIsFine DEF Fine
  <1>4. Fine(c, Scan(h))
    BY <1>2, <1>3, FineIsTransitive
  <1>5. Fine(c, v)
    <2>1. CASE bss # Null
      <3>1. bss \in Bsses
        BY <2>1
      <3>2. Fine(c, HandleRoam(c, bss, ok))
        BY <1>1, <3>1, HandlingRoam DEF Fine
      <3> QED BY <2>1, <3>2
    <2>2. CASE bss = Null
      BY <1>2, <1>4, <2>2
    <2> QED BY <2>1, <2>2
  <1> HIDE DEF v, h
  <1>6. v.current \in Services \cup {NoService}
    BY <1>5 DEF Fine, Ok, Devices
  <1>7. Fine(v, x)
    BY <1>5, <1>6, SelectingIsFine DEF Fine
  <1> HIDE DEF x
  <1>8. Fine(v, w)
    BY <1>5, <1>7 DEF Fine, SameMachine
  <1> HIDE DEF w
  <1>9. Check(w, holds) = w
    <2>1. holds
      BY <1>8 DEF Fine, Ok
    <2> QED BY <1>8, <2>1, CheckHolds DEF Fine
  <1>10. CurrentBSSChanged(d, bss, ok) = Check(w, holds)
    BY DEF CurrentBSSChanged, w, x, v, h, c
  <1>11. Fine(d, v)
    BY <1>1, <1>5, FineIsTransitive
  <1>12. Fine(d, w)
    BY <1>8, <1>11, FineIsTransitive
  <1> HIDE DEF holds
  <1> QED BY <1>9, <1>10, <1>12

LEMMA LeaseIsAsked ==
  ASSUME NEW d, Ok(d), Timed(d), NEW s \in Services, NEW ok \in BOOLEAN
  PROVE  Fine(d, AcquireIPConfig(d, s, ok))
  <1> DEFINE e == DestroyIPConfig(d)
             c == [e EXCEPT !.lessee = s]
  <1>1. e = [d EXCEPT !.lessee = NoService, !.monitor = "off"]
    BY DEF DestroyIPConfig
  <1>2. Fine(d, e)
    <2>1. e \in Devices
      BY <1>1 DEF Ok, Devices
    <2>2. Ok(e)
      BY <1>1, <2>1 DEF Ok, Devices
    <2>3. Timed(e) /\ SameMachine(d, e)
      BY <1>1 DEF Ok, Devices, Timed, SameMachine
    <2> QED BY <2>2, <2>3 DEF Fine
  <1> HIDE DEF e
  <1>3. Fine(e, c)
    <2>1. c \in Devices
      BY <1>2 DEF Fine, Ok, Devices
    <2>2. Ok(c)
      BY <1>2, <2>1 DEF Fine, Ok, Devices
    <2>3. Timed(c) /\ SameMachine(e, c)
      BY <1>2 DEF Fine, Ok, Devices, Timed, SameMachine
    <2> QED BY <2>2, <2>3 DEF Fine
  <1> HIDE DEF c
  <1>4. Fine(c, SetState(c, s, "configuring"))
    BY <1>3, StateIsFine DEF Fine
  <1>5. Fine(d, SetState(c, s, "configuring"))
    BY <1>2, <1>3, <1>4, FineIsTransitive
  <1>6. AcquireIPConfig(d, s, ok) = IF ok THEN SetState(c, s, "configuring") ELSE e
    BY DEF AcquireIPConfig, c, e
  <1> QED BY <1>2, <1>5, <1>6

LEMMA StateChanges ==
  ASSUME NEW d, Ok(d), Timed(d), NEW new \in SupplicantStates, NEW ok \in BOOLEAN
  PROVE  Fine(d, StateChanged(d, new, ok))
  <1> DEFINE v == [d EXCEPT !.up = (new = "completed")]
             s == IF d.pending # NoService THEN d.pending ELSE d.current
             renewed == [v EXCEPT !.rtimer = FALSE, !.already = TRUE]
             asked == IF d.already THEN v ELSE AcquireIPConfig(v, s, ok)
             begun == [asked EXCEPT !.already = TRUE]
             timed == [v EXCEPT !.rtimer = TRUE]
             r == StateChanged(d, new, ok)
  <1>1. Fine(d, v) /\ v.current = d.current
    <2>1. v \in Devices /\ v.current = d.current
      BY DEF Ok, Devices
    <2>2. Ok(v)
      BY <2>1 DEF Ok, Devices
    <2>3. Timed(v) /\ SameMachine(d, v)
      BY DEF Ok, Devices, Timed, SameMachine
    <2> QED BY <2>1, <2>2, <2>3 DEF Fine
  <1>2. s \in Services \cup {NoService}
    BY DEF Ok, Devices
  <1>3. \/ r = v
        \/ s # NoService /\ r \in {renewed, begun, SetState(v, s, "associating")}
        \/ d.current # NoService /\ r = timed
    <2>1. CASE s = NoService
      BY <2>1 DEF StateChanged
    <2>2. CASE s # NoService /\ new = "completed"
      BY <2>2 DEF StateChanged
    <2>3. CASE s # NoService /\ new = "disconnected"
      BY <2>3 DEF StateChanged
    <2>4. CASE s # NoService /\ new \notin {"completed", "disconnected"}
      BY <2>4 DEF StateChanged
    <2> QED BY <2>1, <2>2, <2>3, <2>4
  <1> HIDE DEF v, s, r
  <1>4. Fine(v, renewed)
    <2>1. renewed \in Devices
      BY <1>1 DEF Fine, Ok, Devices
    <2>2. Ok(renewed)
      BY <1>1, <2>1 DEF Fine, Ok, Devices
    <2>3. Timed(renewed) /\ SameMachine(v, renewed)
      BY <1>1 DEF Fine, Ok, Devices, Timed, SameMachine
    <2> QED BY <2>2, <2>3 DEF Fine
  <1>5. ASSUME d.current # NoService PROVE Fine(v, timed)
    <2>1. timed \in Devices
      BY <1>1 DEF Fine, Ok, Devices
    <2>2. Ok(timed)
      BY <1>1, <1>5, <2>1 DEF Fine, Ok, Devices
    <2>3. Timed(timed) /\ SameMachine(v, timed)
      BY <1>1 DEF Fine, Ok, Devices, Timed, SameMachine
    <2> QED BY <2>2, <2>3 DEF Fine
  <1>6. ASSUME s # NoService PROVE Fine(v, begun)
    <2>1. Fine(v, v)
      BY <1>1 DEF Fine, SameMachine
    <2>2. s \in Services
      BY <1>2, <1>6
    <2>3. Fine(v, asked)
      BY <1>1, <2>1, <2>2, LeaseIsAsked DEF Fine
    <2> HIDE DEF asked
    <2>4. begun \in Devices
      BY <2>3 DEF Fine, Ok, Devices
    <2>5. Ok(begun)
      BY <2>3, <2>4 DEF Fine, Ok, Devices
    <2>6. Timed(begun) /\ SameMachine(asked, begun)
      BY <2>3 DEF Fine, Ok, Devices, Timed, SameMachine
    <2>7. Fine(asked, begun)
      BY <2>5, <2>6 DEF Fine
    <2> QED BY <2>3, <2>7, FineIsTransitive
  <1>7. Fine(v, SetState(v, s, "associating"))
    BY <1>1, <1>2, StateIsFine DEF Fine
  <1> HIDE DEF renewed, begun, timed
  <1>8. r = v \/ Fine(v, r)
    BY <1>3, <1>4, <1>5, <1>6, <1>7
  <1> QED BY <1>1, <1>8, FineIsTransitive DEF r

LEMMA PropertiesChange ==
  ASSUME Running, NEW bss \in Bsses \cup {Null, Same},
         NEW state \in SupplicantStates \cup {Same}, NEW ok \in BOOLEAN,
         PropertiesChangedTask(bss, state, ok)
  PROVE  Running'
  <1> DEFINE v == IF bss = Same THEN dev ELSE CurrentBSSChanged(dev, bss, ok)
             w == IF state = Same THEN v ELSE StateChanged(v, state, ok)
  <1>1. Fine(dev, dev)
    BY DEF Running, Good, Fine, SameMachine
  <1>2. Fine(dev, v)
    <2>1. CASE bss = Same
      BY <1>1, <2>1
    <2>2. CASE bss # Same
      BY <1>1, <2>2, BSSChanges DEF Fine
    <2> QED BY <2>1, <2>2
  <1> HIDE DEF v
  <1>3. Fine(dev, w)
    <2>1. CASE state = Same
      BY <1>2, <2>1
    <2>2. CASE state # Same
      <3>1. state \in SupplicantStates
        BY <2>2
      <3>2. Fine(v, StateChanged(v, state, ok))
        BY <1>2, <3>1, StateChanges DEF Fine
      <3> QED BY <1>2, <2>2, <3>2, FineIsTransitive
    <2> QED BY <2>1, <2>2
  <1>4. dev.iface /\ dev' = w
    BY DEF PropertiesChangedTask, v
  <1> HIDE DEF w
  <1> QED BY <1>3, <1>4, BusyIsGood DEF Running, Fine
-----------------------------------------------------------------------------
(***************************************************************************)
(* The other tasks and requests.                                           *)
(***************************************************************************)
\* Most only give things up.
LEMMA LessKeepsInv ==
  ASSUME Running, Ok(dev'), Less(dev, dev')
  PROVE  Running'
BY LessIsGood DEF Running

LEMMA EndpointsComeAndGo ==
  ASSUME Running, NEW b \in Bsses, NEW ok \in BOOLEAN, BSSAddedTask(b) \/ BSSRemovedTask(b, ok)
  PROVE  Running'
  <1>1. Ok(dev) /\ Timed(dev)
    BY DEF Running, Good
  <1>2. CASE BSSAddedTask(b)
    <2>1. dev.iface /\ dev' = [dev EXCEPT !.known = @ \cup {b}]
      BY <1>2 DEF BSSAddedTask
    <2>2. IsFiniteSet(dev.known \cup {b})
      BY <1>1, FS_AddElement DEF Ok
    <2>3. dev' \in Devices /\ dev'.known = dev.known \cup {b}
      BY <1>1, <2>1 DEF Ok, Devices
    <2>4. Ok(dev')
      BY <1>1, <2>1, <2>2, <2>3 DEF Ok, Devices
    <2>5. Timed(dev') /\ SameMachine(dev, dev')
      BY <1>1, <2>1 DEF Ok, Devices, Timed, SameMachine
    <2> QED BY <2>1, <2>4, <2>5, BusyIsGood DEF Running
  <1>3. CASE BSSRemovedTask(b, ok)
    <2>1. dev' = OnEndpointRemoved(dev, b, ok)
      BY <1>3 DEF BSSRemovedTask
    <2> QED BY <1>1, <2>1, EndpointIsRemoved, LessKeepsInv
  <1> QED BY <1>2, <1>3

LEMMA EAPFails ==
  ASSUME Running, NEW ok \in BOOLEAN, EAPEventTask(ok)
  PROVE  Running'
  <1>1. Ok(dev) /\ dev.current \in Services
    BY DEF Running, Good, EAPEventTask, Ok, Devices
  <1>2. dev' = DisconnectWithFailure(dev, dev.current, ok)
    BY DEF EAPEventTask
  <1> QED BY <1>1, <1>2, DisconnectingWithFailure, LessKeepsInv

LEMMA RequestsKeepInv ==
  ASSUME Running, NEW s \in Services, NEW ok \in BOOLEAN,
         UserDisconnects(s, ok) \/ CredentialsChange(s, ok)
  PROVE  Running'
  <1>1. Ok(dev)
    BY DEF Running, Good
  <1>2. CASE UserDisconnects(s, ok)
    <2>1. dev' = Disconnect(dev, s, ok)
      BY <1>2 DEF UserDisconnects
    <2> QED BY <1>1, <2>1, Disconnecting, LessKeepsInv
  <1>3. CASE CredentialsChange(s, ok)
    <2>1. dev' = ClearCachedCredentials(dev, s, ok)
      BY <1>3 DEF CredentialsChange
    <2> QED BY <1>1, <2>1, ClearingCredentials, LessKeepsInv
  <1> QED BY <1>2, <1>3

\* The handler stops a timer that has fired: the attempt ends with it.
LEMMA PendingTimesOut ==
  ASSUME Running, NEW ok \in BOOLEAN, PendingTimeoutHandler(ok)
  PROVE  Running'
  <1> DEFINE p == dev.pending
             e == [dev EXCEPT !.ptimer = FALSE]
             a == SetScanState(e, "found_nothing")
             v == DisconnectWithFailure(a, p, ok)
             holds == ~HasEndpoints(v, p)
             x == DisconnectFrom(v, p, ok)
             w == IF v.pending = NoService THEN v ELSE DisconnectFrom(Check(v, holds), p, ok)
  <1>1. Ok(dev) /\ dev.ptimer
    BY DEF Running, Good, PendingTimeoutHandler
  <1>2. p # NoService /\ p \in Services
    BY <1>1 DEF Ok, Devices
  <1>3. /\ Ok(e) /\ SameMachine(dev, e) /\ e.pending = p /\ e.known = dev.known
        /\ e.current = dev.current /\ e.selected = dev.selected
        /\ e.lessee = dev.lessee /\ e.scan = dev.scan
    <2>1. e \in Devices
      BY <1>1 DEF Ok, Devices
    <2>2. Ok(e)
      BY <1>1, <2>1 DEF Ok, Devices
    <2> QED BY <1>1, <2>2 DEF Ok, Devices, SameMachine
  <1> HIDE DEF e
  <1>4. Ok(a) /\ Less(e, a) /\ a.pending = p /\ a.known = e.known
    <2>1. Ok(a) /\ Less(e, a) /\ a = [e EXCEPT !.scan = "idle"]
      BY <1>3, ScanIsOver
    <2> QED BY <1>3, <2>1 DEF Ok, Devices
  <1> HIDE DEF a
  <1>5. /\ Ok(v) /\ Less(a, v) /\ v.known = a.known
        /\ HasEndpoints(a, p) => v.pending = NoService
    BY <1>2, <1>4, DisconnectingWithFailure
  <1> HIDE DEF v
  <1>6. v.pending # NoService => holds /\ v.pending = p
    BY <1>4, <1>5 DEF HasEndpoints, Less
  <1>7. Ok(x) /\ Less(v, x) /\ (p = v.pending => x.pending = NoService)
    BY <1>2, <1>5, DisconnectingFrom
  <1> HIDE DEF x
  <1>8. Ok(w) /\ Less(v, w) /\ w.pending = NoService
    <2>1. CASE v.pending = NoService
      BY <1>5, <2>1, LessIsReflexive
    <2>2. CASE v.pending # NoService
      <3>1. Check(v, holds) = v
        BY <1>5, <1>6, <2>2, CheckHolds
      <3>2. w = x
        BY <2>2, <3>1 DEF x
      <3> QED BY <1>6, <1>7, <2>2, <3>2
    <2> QED BY <2>1, <2>2
  <1>9. dev' = SetState(w, p, "idle")
    BY <1>2 DEF PendingTimeoutHandler, w, v, a, e
  <1> HIDE DEF w
  <1>10. Ok(dev') /\ Less(w, dev')
    BY <1>2, <1>8, <1>9, StateIsSet
  <1>11. Less(e, dev')
    BY <1>4, <1>5, <1>8, <1>10, LessIsTransitive
  <1>12. Less(dev, dev')
    <2>1. dev'.pending = NoService
      BY <1>8, <1>10 DEF Less
    <2> QED BY <1>3, <1>11, <2>1 DEF Less, SameMachine
  <1> QED BY <1>10, <1>12, LessKeepsInv

LEMMA ReconnectTimesOut ==
  ASSUME Running, NEW ok \in BOOLEAN, ReconnectTimeoutHandler(ok)
  PROVE  Running'
  <1> DEFINE c == dev.current
             e == [dev EXCEPT !.rtimer = FALSE]
             v == SetState(e, c, "failure")
  <1>1. Ok(dev) /\ c \in Services
    BY DEF Running, Good, ReconnectTimeoutHandler, Ok, Devices
  <1>2. Ok(e) /\ Less(dev, e)
    <2>1. e \in Devices
      BY <1>1 DEF Ok, Devices
    <2>2. Ok(e)
      BY <1>1, <2>1 DEF Ok, Devices
    <2>3. Less(dev, e)
      BY <1>1 DEF Ok, Devices, Less, SameMachine
    <2> QED BY <2>2, <2>3
  <1> HIDE DEF e
  <1>3. Ok(v) /\ Less(e, v)
    BY <1>1, <1>2, StateIsSet
  <1> HIDE DEF v
  <1>4. dev' = DisconnectFrom(v, c, ok)
    BY <1>1, WiFiAssumption DEF ReconnectTimeoutHandler, v, e
  <1>5. Ok(dev') /\ Less(v, dev')
    BY <1>1, <1>3, <1>4, DisconnectingFrom
  <1> QED BY <1>2, <1>3, <1>5, LessIsTransitive, LessKeepsInv

\* The timeout of a link that has failed is for the service that is current.
LEMMA LinkFails ==
  ASSUME Running, NEW ok \in BOOLEAN, OnLinkMonitorFailure(ok)
  PROVE  Running'
  <1>1. Ok(dev) /\ dev.current # NoService
    BY DEF Running, Good, OnLinkMonitorFailure
  <1>2. CASE dev' = dev
    BY <1>1, <1>2, LessIsReflexive, LessKeepsInv
  <1>3. CASE dev' = [dev EXCEPT !.rtimer = TRUE]
    <2>1. dev' \in Devices
      BY <1>1, <1>3 DEF Ok, Devices
    <2>2. Ok(dev')
      BY <1>1, <1>3, <2>1 DEF Ok, Devices
    <2>3. Less(dev, dev')
      BY <1>1, <1>3 DEF Ok, Devices, Less, SameMachine
    <2> QED BY <2>2, <2>3, LessKeepsInv
  <1> QED BY <1>2, <1>3 DEF OnLinkMonitorFailure

LEMMA ConfigurationFails ==
  ASSUME Running, NEW wep \in BOOLEAN, NEW ok \in BOOLEAN, OnIPConfigFailure(wep, ok)
  PROVE  Running'
  <1> DEFINE s == IF wep THEN dev.current ELSE dev.selected
             x == DisconnectWithFailure(dev, s, ok)
             v == IF dev.current = NoService \/ s = NoService THEN dev ELSE x
  <1>1. Ok(dev)
    BY DEF Running, Good
  <1>2. Ok(v) /\ Less(dev, v)
    <2>1. CASE dev.current = NoService \/ s = NoService
      BY <1>1, <2>1, LessIsReflexive
    <2>2. CASE ~(dev.current = NoService \/ s = NoService)
      <3>1. s \in Services
        BY <1>1, <2>2 DEF Ok, Devices
      <3>2. Ok(x) /\ Less(dev, x)
        BY <1>1, <3>1, DisconnectingWithFailure
      <3> QED BY <2>2, <3>2
    <2> QED BY <2>1, <2>2
  <1>3. dev' = [v EXCEPT !.monitor = "off"]
    BY DEF OnIPConfigFailure
  <1> HIDE DEF v
  <1>4. dev' \in Devices
    BY <1>2, <1>3 DEF Ok, Devices
  <1>5. Ok(dev')
    BY <1>2, <1>3, <1>4 DEF Ok, Devices
  <1>6. Less(v, dev')
    BY <1>2, <1>3 DEF Ok, Devices, Less, SameMachine
  <1> QED BY <1>2, <1>5, <1>6, LessIsTransitive, LessKeepsInv

\* Whatever service a lease was asked for, it connects the one selected.
LEMMA ConfigurationSucceeds ==
  ASSUME Running, OnIPConfigUpdated
  PROVE  Running'
  <1> DEFINE s == dev.selected
             f == [dev.state EXCEPT ![s] = "connected"]
  <1>1. Ok(dev)
    BY DEF Running, Good
  <1>2. CASE s = NoService
    <2>1. dev' = [dev EXCEPT !.monitor = "stray"]
      BY <1>2 DEF OnIPConfigUpdated, SetState
    <2>2. dev' \in Devices
      BY <1>1, <2>1 DEF Ok, Devices
    <2>3. Ok(dev')
      BY <1>1, <2>1, <2>2 DEF Ok, Devices
    <2>4. Less(dev, dev')
      BY <1>1, <2>1 DEF Ok, Devices, Less, SameMachine
    <2> QED BY <2>3, <2>4, LessKeepsInv
  <1>3. CASE s # NoService
    <2>1. dev' = [dev EXCEPT !.state = f, !.monitor = "on"]
      BY <1>3 DEF OnIPConfigUpdated, SetState
    <2>2. f \in [Services -> {"idle", "associating", "configuring", "connected", "failure"}]
      BY <1>1, <1>3 DEF Ok, Devices
    <2>3. \A t \in Services : f[t] = "connected" => t = s
      BY <1>1 DEF Ok, Devices
    <2> HIDE DEF f
    <2>4. dev' \in Devices
      BY <1>1, <2>1, <2>2 DEF Ok, Devices
    <2>5. Ok(dev')
      <3>1. /\ dev'.selected = s /\ dev'.state = f /\ dev'.known = dev.known
            /\ dev'.ended = dev.ended /\ dev'.current = dev.current
            /\ dev'.pending = dev.pending /\ dev'.scan = dev.scan
            /\ dev'.rtimer = dev.rtimer /\ dev'.ptimer = dev.ptimer
        BY <1>1, <2>1 DEF Ok, Devices
      <3> QED BY <1>1, <1>3, <2>3, <2>4, <3>1 DEF Ok
    <2>6. Less(dev, dev')
      BY <1>1, <2>1 DEF Ok, Devices, Less, SameMachine
    <2> QED BY <2>5, <2>6, LessKeepsInv
  <1> QED BY <1>2, <1>3

\* A monitor that was started for a service still has one to tell.
LEMMA GatewayIsKnown ==
  ASSUME Running, OnLinkMonitorGatewayChange
  PROVE  Inv'
  <1>1. Ok(dev) /\ Good(dev)
    BY DEF Running, Good
  <1>2. CASE dev.selected # NoService
    BY <1>1, <1>2, RunningIsInv DEF OnLinkMonitorGatewayChange, Running
  <1>3. CASE dev.selected = NoService
    <2>1. dev' = [dev EXCEPT !.ended = "gateway"] /\ dev.monitor = "stray"
      BY <1>1, <1>3 DEF OnLinkMonitorGatewayChange, Ok, Devices
    <2>2. dev' \in Devices /\ dev'.ended = "gateway" /\ dev'.monitor = "stray"
      BY <1>1, <2>1 DEF Ok, Devices
    <2>3. [dev' EXCEPT !.ended = "no"] = [dev EXCEPT !.ended = "no"]
      BY <1>1, <2>1 DEF Ok, Devices
    <2>4. [dev EXCEPT !.ended = "no"] = dev
      BY <1>1 DEF Ok, Devices
    <2> QED BY <1>1, <2>2, <2>3, <2>4 DEF Inv, Over
  <1> QED BY <1>2, <1>3

\* The flags of the posted tasks matter to nothing else.
LEMMA FlagsAreFree ==
  ASSUME NEW d, Ok(d), NEW flag \in BOOLEAN
  PROVE  /\ LET v == [d EXCEPT !.update = flag] IN Ok(v) /\ Less(d, v)
         /\ LET v == [d EXCEPT !.failing = flag] IN Ok(v) /\ Less(d, v)
  <1> DEFINE u == [d EXCEPT !.update = flag]
             v == [d EXCEPT !.failing = flag]
  <1>1. u \in Devices /\ v \in Devices
    BY DEF Ok, Devices
  <1>2. Ok(u)
    BY <1>1 DEF Ok, Devices
  <1>3. Ok(v)
    BY <1>1 DEF Ok, Devices
  <1>4. Less(d, u) /\ Less(d, v)
    BY DEF Ok, Devices, Less, SameMachine
  <1> QED BY <1>2, <1>3, <1>4

LEMMA ScansKeepInv ==
  ASSUME Running,
         \/ RequestScan \/ ScanTimerHandler \/ ScanFailedTask
         \/ UpdateScanStateAfterScanDone \/ OnAfterResume
         \/ \E success, batched \in BOOLEAN : ScanDone(success, batched)
  PROVE  Running'
  <1> DEFINE over == SetScanState(dev, "idle")
             quiet == [dev EXCEPT !.failing = FALSE]
             found == [dev EXCEPT !.update = FALSE]
             done == [quiet EXCEPT !.update = TRUE]
  <1>1. Ok(dev) /\ Less(dev, dev)
    BY LessIsReflexive DEF Running, Good
  <1>2. ASSUME NEW v, NEW new \in {"idle", "connected", "found_nothing"}, Ok(v), Less(dev, v)
        PROVE  Ok(SetScanState(v, new)) /\ Less(dev, SetScanState(v, new))
    <2>1. LET x == SetScanState(v, new) IN Ok(x) /\ Less(v, x)
      BY <1>2, ScanIsOver
    <2> QED BY <1>2, <2>1, LessIsTransitive
  <1>3. ASSUME NEW v, Ok(v), Less(dev, v) PROVE Ok(Scan(v)) /\ Less(dev, Scan(v))
    BY <1>3, ScanIsAsked, LessIsTransitive
  <1>4. Ok(quiet) /\ Less(dev, quiet) /\ Ok(found) /\ Less(dev, found)
    BY <1>1, FlagsAreFree
  <1>5. CASE RequestScan \/ ScanTimerHandler
    <2>1. dev' \in {dev, Scan(dev)}
      BY <1>5 DEF RequestScan, ScanTimerHandler
    <2> QED BY <1>1, <1>3, <2>1, LessKeepsInv
  <1>6. CASE OnAfterResume
    <2>1. dev' \in {dev, over, Scan(over)}
      BY <1>6 DEF OnAfterResume
    <2>2. Ok(over) /\ Less(dev, over)
      BY <1>1, <1>2
    <2> HIDE DEF over
    <2>3. Ok(Scan(over)) /\ Less(dev, Scan(over))
      BY <1>3, <2>2
    <2> QED BY <1>1, <2>1, <2>2, <2>3, LessKeepsInv
  <1>7. CASE \E success, batched \in BOOLEAN : ScanDone(success, batched)
    <2> DEFINE batch == [dev EXCEPT !.update = TRUE]
               fail == [dev EXCEPT !.failing = TRUE]
    <2>1. dev' = batch \/ dev' = done \/ dev' = fail
      BY <1>7 DEF ScanDone, ScanDoneTask
    <2>2. Ok(batch) /\ Less(dev, batch) /\ Ok(fail) /\ Less(dev, fail)
      BY <1>1, FlagsAreFree
    <2> HIDE DEF quiet, batch, fail
    <2>3. Ok(done) /\ Less(quiet, done)
      BY <1>4, FlagsAreFree
    <2>4. Less(dev, done)
      BY <1>4, <2>3, LessIsTransitive
    <2> HIDE DEF done
    <2> QED BY <2>1, <2>2, <2>3, <2>4, LessKeepsInv
  <1>8. CASE ScanFailedTask
    <2>1. dev' = SetScanState(quiet, "idle")
      BY <1>8 DEF ScanFailedTask
    <2> HIDE DEF quiet
    <2>2. Ok(SetScanState(quiet, "idle")) /\ Less(dev, SetScanState(quiet, "idle"))
      BY <1>2, <1>4
    <2> QED BY <2>1, <2>2, LessKeepsInv
  <1>9. CASE UpdateScanStateAfterScanDone
    <2>1. dev' \in {found, SetScanState(found, "idle"), SetScanState(found, "found_nothing")}
      BY <1>9 DEF UpdateScanStateAfterScanDone
    <2> HIDE DEF found
    <2>2. /\ Ok(SetScanState(found, "idle")) /\ Less(dev, SetScanState(found, "idle"))
          /\ Ok(SetScanState(found, "found_nothing"))
          /\ Less(dev, SetScanState(found, "found_nothing"))
      BY <1>2, <1>4
    <2> QED BY <1>4, <2>1, <2>2, LessKeepsInv
  <1> QED BY <1>5, <1>6, <1>7, <1>8, <1>9

LEMMA ScanTaskKeepsInv ==
  ASSUME Running, NEW ok \in BOOLEAN, ScanTask(ok)
  PROVE  Running'
  <1> DEFINE v == [dev EXCEPT !.task = FALSE]
  <1>1. Ok(dev) /\ Timed(dev)
    BY DEF Running, Good
  <1>2. Ok(v) /\ Less(dev, v)
    <2>1. v \in Devices
      BY <1>1 DEF Ok, Devices
    <2>2. Ok(v)
      BY <1>1, <2>1 DEF Ok, Devices
    <2>3. Less(dev, v)
      BY <1>1 DEF Ok, Devices, Less, SameMachine
    <2> QED BY <2>2, <2>3
  <1>3. \/ dev' = SetScanState(v, "idle")
        \/ dev' = v
        \/ dev.iface /\ \E new \in {"scanning", "background"} : dev' = [v EXCEPT !.scan = new]
    BY DEF ScanTask
  <1> HIDE DEF v
  <1>4. CASE dev' = SetScanState(v, "idle")
    <2>1. LET x == SetScanState(v, "idle") IN Ok(x) /\ Less(v, x)
      BY <1>2, ScanIsOver
    <2> QED BY <1>2, <1>4, <2>1, LessIsTransitive, LessKeepsInv
  <1>5. CASE dev' = v
    BY <1>2, <1>5, LessKeepsInv
  <1>6. ASSUME dev.iface, NEW new \in {"scanning", "background"}, dev' = [v EXCEPT !.scan = new]
        PROVE  Running'
    <2>1. dev' \in Devices
      BY <1>2, <1>6 DEF Ok, Devices
    <2>2. Ok(dev')
      BY <1>2, <1>6, <2>1 DEF Ok, Devices
    <2>3. Timed(v) /\ SameMachine(dev, v)
      BY <1>1, <1>2, LessIsFine DEF Fine
    <2>4. Timed(dev') /\ SameMachine(v, dev')
      BY <1>2, <1>6, <2>3 DEF Ok, Devices, Timed, SameMachine
    <2>5. SameMachine(dev, dev')
      BY <2>3, <2>4 DEF SameMachine
    <2> QED BY <1>6, <2>2, <2>4, <2>5, BusyIsGood DEF Running
  <1> QED BY <1>3, <1>4, <1>5, <1>6
-----------------------------------------------------------------------------
(***************************************************************************)
(* The invariant, and what it says.                                        *)
(***************************************************************************)
LEMMA Initially ==
  ASSUME Init
  PROVE  Running
  <1>1. /\ dev.present = FALSE /\ dev.enabled = TRUE /\ dev.iface = FALSE
        /\ dev.current = NoService /\ dev.pending = NoService /\ dev.selected = NoService
        /\ dev.known = {} /\ dev.ptimer = FALSE /\ dev.rtimer = FALSE
        /\ dev.lessee = NoService /\ dev.scan = "idle" /\ dev.ended = "no"
        /\ dev.monitor = "off"
        /\ \A s \in Services : dev.state[s] = "idle"
    BY DEF Init
  <1>2. dev \in Devices
    BY DEF Init, Devices
  <1>3. Ok(dev)
    BY <1>1, <1>2, FS_EmptySet DEF Ok
  <1> QED BY <1>1, <1>3 DEF Running, Good, Timed, Clean, IsIdle

LEMMA TasksKeepInv ==
  ASSUME Running, SupplicantStep \/ RequestStep \/ TaskStep
  PROVE  Inv'
  <1>1. CASE SupplicantStep
    <2>1. ASSUME NEW ok \in BOOLEAN, NEW bss \in Bsses \cup {Null},
                 PropertiesChangedTask(bss, Same, ok)
          PROVE  Running'
      <3>1. bss \in Bsses \cup {Null, Same} /\ Same \in SupplicantStates \cup {Same}
        OBVIOUS
      <3> QED BY <2>1, <3>1, PropertiesChange
    <2>2. ASSUME NEW ok \in BOOLEAN, NEW state \in SupplicantStates,
                 PropertiesChangedTask(Same, state, ok)
          PROVE  Running'
      <3>1. Same \in Bsses \cup {Null, Same} /\ state \in SupplicantStates \cup {Same}
        OBVIOUS
      <3> QED BY <2>2, <3>1, PropertiesChange
    <2>3. ASSUME NEW b \in Bsses, NEW ok \in BOOLEAN, BSSAddedTask(b) \/ BSSRemovedTask(b, ok)
          PROVE  Running'
      BY <2>3, EndpointsComeAndGo
    <2>4. ASSUME NEW ok \in BOOLEAN, EAPEventTask(ok) PROVE Running'
      BY <2>4, EAPFails
    <2>5. ASSUME NEW ok \in BOOLEAN, NEW batched \in BOOLEAN, ScanDone(ok, batched)
          PROVE  Running'
      BY <2>5, ScansKeepInv
    <2>6. ASSUME NEW ok \in BOOLEAN, OnSupplicantAppear(ok) \/ OnSupplicantVanish(ok)
          PROVE  Running'
      BY <2>6, SupplicantComesAndGoes
    <2> QED BY <1>1, <2>1, <2>2, <2>3, <2>4, <2>5, <2>6, RunningIsInv DEF SupplicantStep
  <1>2. CASE RequestStep
    <2>1. ASSUME NEW s \in Services, NEW off \in BOOLEAN, NEW ok \in BOOLEAN,
                 Connect(s, off, ok)
          PROVE  Inv'
      BY <2>1, ConnectKeepsInv
    <2>2. ASSUME NEW s \in Services, NEW ok \in BOOLEAN,
                 UserDisconnects(s, ok) \/ CredentialsChange(s, ok)
          PROVE  Running'
      BY <2>2, RequestsKeepInv
    <2>3. ASSUME NEW ok \in BOOLEAN, SetEnabled(ok) PROVE Running'
      BY <2>3, DeviceIsSwitched
    <2> QED BY <1>2, <2>1, <2>2, <2>3, ScansKeepInv, RunningIsInv DEF RequestStep
  <1>3. CASE TaskStep
    <2>1. ASSUME NEW ok \in BOOLEAN, PendingTimeoutHandler(ok) PROVE Running'
      BY <2>1, PendingTimesOut
    <2>2. ASSUME NEW ok \in BOOLEAN, ReconnectTimeoutHandler(ok) PROVE Running'
      BY <2>2, ReconnectTimesOut
    <2>3. ASSUME NEW ok \in BOOLEAN, OnLinkMonitorFailure(ok) PROVE Running'
      BY <2>3, LinkFails
    <2>4. ASSUME NEW ok \in BOOLEAN, ScanTask(ok) PROVE Running'
      BY <2>4, ScanTaskKeepsInv
    <2>5. ASSUME NEW ok \in BOOLEAN, NEW wep \in BOOLEAN, OnIPConfigFailure(wep, ok) PROVE Running'
      BY <2>5, ConfigurationFails
    <2> QED BY <1>3, <2>1, <2>2, <2>3, <2>4, <2>5, ConfigurationSucceeds, GatewayIsKnown,
               ScansKeepInv, RunningIsInv DEF TaskStep
  <1> QED BY <1>1, <1>2, <1>3

LEMMA StepKeepsInv ==
  ASSUME Inv, [Next]_vars
  PROVE  Inv'
  <1>1. CASE UNCHANGED vars \/ Ended
    BY <1>1 DEF vars, Ended, Inv, Running, Over
  <1>2. CASE dev.ended = "no" /\ (SupplicantStep \/ RequestStep \/ TaskStep)
    BY <1>2, TasksKeepInv DEF Inv, Over
  <1> QED BY <1>1, <1>2 DEF Next

\* Every state the device reaches is good.
THEOREM WiFiInvariance == Spec => []Inv
  <1>1. Init => Inv
    BY Initially, RunningIsInv
  <1>2. Inv /\ [Next]_vars => Inv'
    BY StepKeepsInv
  <1> QED BY <1>1, <1>2, PTL DEF Spec

\* No CHECK of ConnectTo, CurrentBSSChanged and the handlers of the two timeouts
\* fails, whatever wpa_supplicant reports and in whatever order.
\* That of OnLinkMonitorGatewayChange can, in a monitor started for no service,
\* and there only; and the proxy is missed only where it was refused.
THEOREM DeviceSoundness == Spec => []DeviceIsSound
  <1>1. Inv => DeviceIsSound
    BY DEF Inv, Running, Over, Good, Ok, DeviceIsSound, TypeOK, ChecksHold
  <1> QED BY <1>1, WiFiInvariance, PTL

\* The pending timeout runs exactly while a service is pending, and the scan state
\* turns scans away for an attempt no longer than that (SetPendingService).
THEOREM AttemptsAreBounded == Spec => []PendingIsBounded
  <1>1. Inv => PendingIsBounded
    BY DEF Inv, Running, Over, Good, Ok, Timed, Devices, PendingIsBounded, PendingIsTimed, ScanFollowsPending
  <1> QED BY <1>1, WiFiInvariance, PTL

\* Whatever service a lease was for, at most the selected one is connected
\* (SelectService, SetupConnection).
THEOREM OneIsConnected == Spec => []ConnectedIsSelected
  <1>1. Inv => ConnectedIsSelected
    BY DEF Inv, Running, Over, Good, Ok, ConnectedIsSelected
  <1> QED BY <1>1, WiFiInvariance, PTL

\* Stop, and a wpa_supplicant that vanishes or refuses its interface, leave
\* nothing of a connection.
THEOREM NothingIsLeft == Spec => []StoppedIsClean
  <1>1. Inv => StoppedIsClean
    BY DEF Inv, Running, Over, Good, Ok, Clean, IsIdle, StoppedIsClean
  <1> QED BY <1>1, WiFiInvariance, PTL
=============================================================================
