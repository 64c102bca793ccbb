--------------------------- MODULE OpenVPNProofs ---------------------------
(***************************************************************************)
(* Proofs about OpenVPN, for any number of clients, tunnels, messages and  *)
(* events.  Sound is what every method of the driver keeps; Held relates   *)
(* the client to the management server, Heard the server to the last sort  *)
(* of the services.                                                        *)
(***************************************************************************)
EXTENDS OpenVPN, TLAPS, SequenceTheorems, WellFoundedInduction, NaturalsInduction

Sound(s) ==
    /\ s \in Systems
    /\ ~s.failed
    /\ s.pid # NoPid <=> s.device # NoTunnel
    /\ s.pid # NoPid <=> s.callback
    /\ s.pid # NoPid <=> s.server # "off"
    /\ s.pid # NoPid => s.service
    /\ s.timer <=> s.service /\ s.state # "connected"
    /\ s.service <=> s.state \in Connecting \cup {"connected"}
    /\ s.state = "connected" => s.pid # NoPid
    /\ s.tunnel # NoTunnel => s.service
    /\ s.device # NoTunnel => s.device = s.tunnel /\ s.link[s.device] # "new"
    /\ s.server # "accepted" => s.commands = <<>>

\* The client is about to be let go, or the server knows that it waits.
Waits(s) == s.commands # <<>> \/ (s.waiting /\ ~s.release)

IsIn(m, messages) == \E i \in 1..Len(messages) : messages[i] = m

\* A client that is held will say so, or waits; and the driver will hear that it
\* has lost its connection, or knows that it has none.
Held(s, c) ==
    /\ s.server = "listening" => c = NewClient
    /\ (s.server = "accepted" /\ c.phase = "held") =>
         /\ IsIn("hold", c.out) \/ Waits(s)
         /\ IsIn("reconnecting", c.out) \/ s.state # "connected"

\* Between two sorts the server is released iff another service is the default.
Heard(s, on, posted) ==
    (s.callback /\ ~posted) => (s.release <=> on /\ s.state # "connected")

Inv ==
    /\ TypeOK
    /\ Sound(sys)
    /\ sys.server = "listening" => sys.state # "connected"
    /\ Held(sys, client)
    /\ Heard(sys, online, sort)
-----------------------------------------------------------------------------
(***************************************************************************)
(* Induction over the messages that have arrived, on sets of numbers.      *)
(***************************************************************************)
\* A set of numbers that is not empty has a least one.
LEMMA LeastNumber ==
  ASSUME NEW T, T \subseteq Nat, T # {}
  PROVE  \E x \in T : \A y \in T : ~(y < x)
  <1> DEFINE R == OpToRel(<, Nat)
  <1>1. IsWellFoundedOn(R, Nat)
    BY NatLessThanWellFounded, Zenon
  <1>2. \A x, y \in Nat : y < x => <<y, x>> \in R
    BY DEF OpToRel
  <1> HIDE DEF R
  <1>3. \E x \in T : \A y \in T : ~(<<y, x>> \in R)
    BY <1>1, WFMin, Zenon
  <1> QED BY <1>2, <1>3

\* A set with 0 and the successor of each of its members has every number.
LEMMA SetInduction ==
  ASSUME NEW T, T \subseteq Nat, 0 \in T, \A n \in T : n + 1 \in T
  PROVE  \A n \in Nat : n \in T
  <1>1. SUFFICES ASSUME Nat \ T # {} PROVE FALSE
    OBVIOUS
  <1>2. PICK x \in Nat \ T : \A y \in Nat \ T : ~(y < x)
    BY <1>1, LeastNumber
  <1>3. x # 0 /\ x - 1 \in Nat /\ x - 1 \notin Nat \ T
    BY <1>2
  <1> QED BY <1>2, <1>3

\* The driver after each of the messages.
Processing(s, messages, n, f) ==
    f = [i \in 0..n |-> IF i = 0 THEN s
                        ELSE IF f[i - 1].server = "off" THEN f[i - 1]
                        ELSE ProcessMessage(f[i - 1], messages[i])]

LEMMA ProcessingExists ==
  ASSUME NEW s, NEW messages
  PROVE  \A n \in Nat : \E f : Processing(s, messages, n, f)
  <1> DEFINE Step(x, i) == IF x.server = "off" THEN x ELSE ProcessMessage(x, messages[i])
             T == {n \in Nat : \E f : f = [i \in 0..n |-> IF i = 0 THEN s
                                                          ELSE Step(f[i - 1], i)]}
  <1> HIDE DEF Step
  <1>1. 0 \in T
    <2> DEFINE f == [i \in 0..0 |-> s]
    <2>1. f = [i \in 0..0 |-> IF i = 0 THEN s ELSE Step(f[i - 1], i)]
      OBVIOUS
    <2> HIDE DEF f
    <2> QED BY <2>1
  <1>2. ASSUME NEW n \in T PROVE n + 1 \in T
    <2>1. PICK f : f = [i \in 0..n |-> IF i = 0 THEN s ELSE Step(f[i - 1], i)]
      OBVIOUS
    <2> DEFINE g == [i \in 0..(n + 1) |-> IF i \in 0..n THEN f[i] ELSE Step(f[n], n + 1)]
    <2>2. ASSUME NEW i \in 0..(n + 1)
          PROVE  g[i] = IF i = 0 THEN s ELSE Step(g[i - 1], i)
      BY <2>1
    <2>3. g = [i \in 0..(n + 1) |-> g[i]]
      OBVIOUS
    <2> HIDE DEF g
    <2>4. g = [i \in 0..(n + 1) |-> IF i = 0 THEN s ELSE Step(g[i - 1], i)]
      BY <2>2, <2>3
    <2> QED BY <2>4
  <1> HIDE DEF T
  <1>3. T \subseteq Nat
    BY DEF T
  <1>4. \A n \in Nat : n \in T
    BY <1>1, <1>2, <1>3, SetInduction
  <1> QED BY <1>4 DEF T, Step, Processing

\* What the messages make of the driver is the last of them.
LEMMA ProcessMessagesUnfolds ==
  ASSUME NEW s, NEW messages, Len(messages) \in Nat
  PROVE  \E f : /\ Processing(s, messages, Len(messages), f)
                /\ ProcessMessages(s, messages) = f[Len(messages)]
  <1> DEFINE F == CHOOSE f : f = [i \in 0..Len(messages) |->
                     IF i = 0 THEN s
                     ELSE IF f[i - 1].server = "off" THEN f[i - 1]
                     ELSE ProcessMessage(f[i - 1], messages[i])]
  <1>1. ProcessMessages(s, messages) = F[Len(messages)]
    BY Zenon DEF ProcessMessages
  <1>2. F = CHOOSE f : Processing(s, messages, Len(messages), f)
    BY Zenon DEF Processing
  <1> HIDE DEF F
  <1>3. \E f : Processing(s, messages, Len(messages), f)
    BY ProcessingExists
  <1>4. Processing(s, messages, Len(messages), F)
    BY <1>2, <1>3, Zenon
  <1> QED BY <1>1, <1>4
-----------------------------------------------------------------------------
(***************************************************************************)
(* What the methods return.                                                *)
(***************************************************************************)
\* The process manager stays one.
LEMMA ManagersKept ==
  ASSUME NEW pm \in ProcessManagers, NEW p \in Pids
  PROVE  /\ \A owner \in Owners : StartProcess(pm, p, owner) \in ProcessManagers
         /\ \A owner \in Owners : UpdateExitCallback(pm, p, owner) \in ProcessManagers
         /\ StopProcess(pm, p) \in ProcessManagers
         /\ OnProcessExited(pm, p) \in ProcessManagers
         /\ ProcessTerminationTimeoutHandler(pm, p) \in ProcessManagers
         /\ [pm EXCEPT !.proc[p] = "zombie"] \in ProcessManagers
         /\ Told(pm, p) \in Owners \cup {NoOwner}
  <1>1. \A owner \in Owners : StartProcess(pm, p, owner) \in ProcessManagers
    BY DEF StartProcess, ProcessManagers
  <1>2. \A owner \in Owners : UpdateExitCallback(pm, p, owner) \in ProcessManagers
    BY DEF UpdateExitCallback, ProcessManagers
  <1>3. \A q \in ProcessManagers, signal \in {"term", "kill"} :
           TerminateProcess(q, p, signal) \in ProcessManagers
    BY DEF TerminateProcess, ProcessManagers
  <1>4. [pm EXCEPT !.watched[p] = NoOwner] \in ProcessManagers
    BY DEF ProcessManagers
  <1>5. StopProcess(pm, p) \in ProcessManagers
    BY <1>3, <1>4 DEF StopProcess
  <1>6. OnProcessExited(pm, p) \in ProcessManagers
    <2> DEFINE q == [pm EXCEPT !.proc[p] = "gone"]
    <2>1. q \in ProcessManagers
      BY DEF ProcessManagers
    <2>2. /\ [q EXCEPT !.watched[p] = NoOwner] \in ProcessManagers
          /\ [q EXCEPT !.ending[p] = "none"] \in ProcessManagers
          /\ [q EXCEPT !.unknown = TRUE] \in ProcessManagers
      <3> HIDE DEF q
      <3> QED BY <2>1 DEF ProcessManagers
    <2> QED BY <2>1, <2>2 DEF OnProcessExited
  <1>7. ProcessTerminationTimeoutHandler(pm, p) \in ProcessManagers
    <2>1. [pm EXCEPT !.ending[p] = "none"] \in ProcessManagers
      BY DEF ProcessManagers
    <2> QED BY <1>3, <2>1 DEF ProcessTerminationTimeoutHandler
  <1>8. [pm EXCEPT !.proc[p] = "zombie"] \in ProcessManagers
    BY DEF ProcessManagers
  <1>9. Told(pm, p) \in Owners \cup {NoOwner}
    BY DEF Told, ProcessManagers
  <1> QED BY <1>1, <1>2, <1>5, <1>6, <1>7, <1>8, <1>9

LEMMA StopClientKept ==
  ASSUME NEW s \in Systems
  PROVE  StopClient(s) \in ProcessManagers
  <1>1. /\ s.pm \in ProcessManagers /\ s.pid \in Pids \cup {NoPid}
        /\ s.device \in Tunnels \cup {NoTunnel}
    BY DEF Systems
  <1>2. (IF s.device = NoTunnel THEN "nobody" ELSE s.device) \in Owners
    BY <1>1 DEF Owners
  <1> QED BY <1>1, <1>2, ManagersKept DEF StopClient

\* Cleanup leaves nothing of a client, whatever there was.
LEMMA CleanupCleans ==
  ASSUME NEW s \in Systems, ~s.failed, NEW state \in {"idle", "failure"},
         s.service <=> s.state \in Connecting \cup {"connected"}
  PROVE  LET r == Cleanup(s, state)
         IN  /\ Sound(r)
             /\ r.server = "off" /\ ~r.callback
  <1> DEFINE u == StopServer(s)
             pm == StopClient(s)
             link == [t \in Tunnels |->
                         IF t = s.device /\ s.pid = NoPid THEN "deleted" ELSE u.link[t]]
             new == IF s.service THEN state ELSE u.state
             r == Cleanup(s, state)
  <1>1. /\ u \in Systems /\ u.server = "off" /\ u.commands = <<>> /\ u.failed = s.failed
        /\ u.state = s.state /\ u.link = s.link
    <2> DEFINE none == <<>>
    <2>1. none \in Seq({"release", "restart"})
      OBVIOUS
    <2>2. u = [s EXCEPT !.server = "off", !.commands = none]
      BY DEF StopServer
    <2> HIDE DEF u, none
    <2>3. u.commands = none
      BY <2>2 DEF Systems
    <2> QED BY <2>1, <2>2, <2>3 DEF Systems, none
  <1>2. pm \in ProcessManagers
    BY StopClientKept
  <1>3. link \in [Tunnels -> {"none", "new", "seen", "deleted"}]
    BY <1>1 DEF Systems
  <1>4. new \in {"idle", "failure"}
    BY <1>1 DEF Systems
  <1>5. r = [u EXCEPT !.timer = FALSE, !.callback = FALSE, !.device = NoTunnel,
                      !.pid = NoPid, !.tunnel = NoTunnel, !.service = FALSE,
                      !.state = new, !.pm = pm, !.link = link]
    BY DEF Cleanup
  <1> HIDE DEF u, pm, link, new, r
  <1>6. /\ r \in Systems /\ r.server = "off" /\ r.commands = <<>> /\ r.failed = s.failed
        /\ r.timer = FALSE /\ r.callback = FALSE /\ r.device = NoTunnel /\ r.pid = NoPid
        /\ r.tunnel = NoTunnel /\ r.service = FALSE /\ r.state = new
    BY <1>1, <1>2, <1>3, <1>4, <1>5 DEF Systems
  <1>7. Sound(r)
    BY <1>4, <1>6 DEF Sound, Connecting
  <1> QED BY <1>6, <1>7 DEF r

\* A command reaches a client that has been accepted.
LEMMA SendFields ==
  ASSUME NEW s \in Systems, NEW command \in {"release", "restart"}, s.server # "off"
  PROVE  LET r == Send(s, command)
         IN  /\ r = [s EXCEPT !.commands = r.commands]
             /\ r.commands \in Seq({"release", "restart"})
             /\ s.server = "accepted" => r.commands # <<>>
             /\ s.server # "accepted" => r.commands = s.commands
  <1>1. CASE s.server = "accepted"
    <2> DEFINE q == Append(s.commands, command)
    <2>1. Send(s, command) = [s EXCEPT !.commands = q]
      BY <1>1 DEF Send
    <2>2. s.commands \in Seq({"release", "restart"})
      BY DEF Systems
    <2>3. q \in Seq({"release", "restart"}) /\ q # <<>>
      <3> DEFINE C == {"release", "restart"}
      <3>1. command \in C /\ s.commands \in Seq(C)
        BY <2>2
      <3> HIDE DEF C
      <3>2. q \in Seq(C) /\ Len(q) = Len(s.commands) + 1 /\ Len(s.commands) \in Nat
        BY <3>1
      <3> QED BY <3>2 DEF C
    <2> HIDE DEF q
    <2>4. Send(s, command).commands = q
      BY <2>1 DEF Systems
    <2> QED BY <1>1, <2>1, <2>3, <2>4
  <1>2. CASE s.server = "listening"
    BY <1>2 DEF Send, Systems
  <1> QED BY <1>1, <1>2 DEF Systems

\* What is said of the driver's parts does not change with hold and commands.
LEMMA CommandsKeep ==
  ASSUME NEW s, Sound(s), s.server # "off", NEW r,
         r = [s EXCEPT !.waiting = r.waiting, !.release = r.release,
                       !.commands = r.commands],
         r.waiting \in BOOLEAN, r.release \in BOOLEAN,
         r.commands \in Seq({"release", "restart"}),
         s.server # "accepted" => r.commands = <<>>
  PROVE  /\ Sound(r)
         /\ r.state = s.state /\ r.server = s.server /\ r.callback = s.callback
  <1>1. s \in Systems
    BY DEF Sound
  <1>2. /\ r \in Systems /\ r.failed = s.failed /\ r.pid = s.pid /\ r.device = s.device
        /\ r.callback = s.callback /\ r.server = s.server /\ r.service = s.service
        /\ r.timer = s.timer /\ r.state = s.state /\ r.tunnel = s.tunnel /\ r.link = s.link
    BY <1>1 DEF Systems
  <1> QED BY <1>2 DEF Sound

\* Whoever waits is let go.
LEMMA ReleaseHoldFields ==
  ASSUME NEW s, Sound(s), s.server # "off"
  PROVE  LET r == ReleaseHold(s)
         IN  /\ Sound(r)
             /\ r.state = s.state /\ r.server = s.server /\ r.callback = s.callback
             /\ r.release = TRUE
             /\ s.server = "accepted" /\ Waits(s) => Waits(r)
             /\ s.server = "accepted" /\ s.waiting => Waits(r)
  <1> DEFINE r == ReleaseHold(s)
             u == [s EXCEPT !.release = TRUE, !.waiting = FALSE]
  <1>1. s \in Systems
    BY DEF Sound
  <1>2. CASE s.waiting
    <2>1. r = Send(u, "release")
      BY <1>2 DEF ReleaseHold
    <2>2. u \in Systems /\ u.server = s.server /\ u.commands = s.commands
      BY <1>1 DEF Systems
    <2> DEFINE q == r.commands
    <2>3. /\ r = [u EXCEPT !.commands = q]
          /\ q \in Seq({"release", "restart"})
          /\ s.server = "accepted" => q # <<>>
          /\ s.server # "accepted" => q = s.commands
      BY <2>1, <2>2, SendFields
    <2> HIDE DEF q, r
    <2>4. r = [s EXCEPT !.waiting = FALSE, !.release = TRUE, !.commands = q]
      BY <1>1, <2>3 DEF Systems
    <2>5. r.waiting = FALSE /\ r.release = TRUE /\ r.commands = q
      BY <1>1, <2>4 DEF Systems
    <2>6. s.server # "accepted" => q = <<>>
      BY <2>3 DEF Sound
    <2>7. r = [s EXCEPT !.waiting = r.waiting, !.release = r.release,
                        !.commands = r.commands]
      BY <1>1, <2>4, <2>5 DEF Systems
    <2>8. Sound(r) /\ r.state = s.state /\ r.server = s.server /\ r.callback = s.callback
      <3>1. r.waiting \in BOOLEAN /\ r.release \in BOOLEAN
        BY <2>5, Zenon
      <3>2. r.commands \in Seq({"release", "restart"})
        BY <2>3, <2>5
      <3>3. s.server # "accepted" => r.commands = <<>>
        BY <2>5, <2>6
      <3> QED BY <2>7, <3>1, <3>2, <3>3, CommandsKeep
    <2> QED BY <2>3, <2>5, <2>8 DEF Waits, r
  <1>3. CASE ~s.waiting
    <2>1. r = [s EXCEPT !.release = TRUE]
      BY <1>3 DEF ReleaseHold
    <2>2. s.waiting \in BOOLEAN /\ s.commands \in Seq({"release", "restart"})
      BY <1>1 DEF Systems
    <2> HIDE DEF r
    <2>3. r.waiting = s.waiting /\ r.release = TRUE /\ r.commands = s.commands
      BY <1>1, <2>1 DEF Systems
    <2>4. r = [s EXCEPT !.waiting = r.waiting, !.release = r.release,
                        !.commands = r.commands]
      BY <1>1, <2>1, <2>3 DEF Systems
    <2>5. s.server # "accepted" => s.commands = <<>>
      BY DEF Sound
    <2>6. Sound(r) /\ r.state = s.state /\ r.server = s.server /\ r.callback = s.callback
      BY <2>2, <2>3, <2>4, <2>5, CommandsKeep
    <2> QED BY <1>3, <2>3, <2>6 DEF Waits, r
  <1> QED BY <1>2, <1>3

\* A connection that is lost is waited for, and timed.
LEMMA OnReconnectingFields ==
  ASSUME NEW s, Sound(s), s.service
  PROVE  LET r == OnReconnecting(s)
         IN  /\ Sound(r)
             /\ r.state = "associating" /\ r.server = s.server
             /\ r.callback = s.callback /\ r.release = s.release
             /\ Waits(s) => Waits(r)
  <1> DEFINE r == OnReconnecting(s)
  <1>1. s \in Systems
    BY DEF Sound
  <1>2. r = [s EXCEPT !.timer = TRUE, !.state = "associating"]
    BY DEF OnReconnecting
  <1> HIDE DEF r
  <1>3. /\ r \in Systems /\ r.failed = s.failed /\ r.pid = s.pid /\ r.device = s.device
        /\ r.callback = s.callback /\ r.server = s.server /\ r.service = s.service
        /\ r.timer = TRUE /\ r.state = "associating" /\ r.tunnel = s.tunnel
        /\ r.link = s.link /\ r.waiting = s.waiting /\ r.release = s.release
        /\ r.commands = s.commands
    BY <1>1, <1>2 DEF Systems, Connecting
  <1>4. Sound(r)
    BY <1>3 DEF Sound, Connecting
  <1> QED BY <1>3, <1>4 DEF Waits, r

\* What each message makes of a driver whose server is started.
LEMMA ProcessMessageFields ==
  ASSUME NEW s, Sound(s), s.server = "accepted", NEW m \in Messages
  PROVE  LET r == ProcessMessage(s, m)
         IN  /\ Sound(r)
             /\ r.server \in {"off", "accepted"}
             /\ r.server = "accepted" =>
                  /\ r.release = s.release
                  /\ Waits(s) \/ m = "hold" => Waits(r)
                  /\ s.state # "connected" \/ m = "reconnecting" => r.state # "connected"
  <1> DEFINE r == ProcessMessage(s, m)
  <1>1. s \in Systems
    BY DEF Sound
  <1>2. CASE m = "hold"
    <2> DEFINE w == [s EXCEPT !.waiting = TRUE]
    <2>1. /\ w.waiting = TRUE /\ w.release = s.release /\ w.commands = s.commands
          /\ w.release \in BOOLEAN /\ w.commands \in Seq({"release", "restart"})
      BY <1>1 DEF Systems
    <2>2. w = [s EXCEPT !.waiting = w.waiting, !.release = w.release,
                        !.commands = w.commands]
      BY <1>1, <2>1 DEF Systems
    <2>3. r = IF s.release THEN ReleaseHold(w) ELSE w
      BY <1>2 DEF ProcessMessage, ProcessHoldMessage
    <2> HIDE DEF w, r
    <2>4. Sound(w) /\ w.state = s.state /\ w.server = s.server
      BY <2>1, <2>2, CommandsKeep
    <2>5. CASE s.release
      <3>1. /\ Sound(r) /\ r.state = w.state /\ r.server = w.server /\ r.release = TRUE
            /\ Waits(r)
        BY <2>1, <2>3, <2>4, <2>5, ReleaseHoldFields
      <3>2. s.release = TRUE
        BY <1>1, <2>5 DEF Systems
      <3> QED BY <1>2, <2>4, <3>1, <3>2 DEF r
    <2>6. CASE ~s.release
      <3>1. r = w
        BY <2>3, <2>6
      <3>2. Waits(w)
        BY <2>1, <2>6 DEF Waits
      <3> QED BY <1>2, <2>1, <2>4, <3>1, <3>2 DEF r
    <2> QED BY <2>5, <2>6
  <1>3. CASE m = "reconnecting"
    <2>1. r = OnReconnecting(s)
      BY <1>3 DEF ProcessMessage
    <2>2. s.service
      BY DEF Sound
    <2> HIDE DEF r
    <2>3. /\ Sound(r) /\ r.state = "associating" /\ r.server = s.server
          /\ r.release = s.release /\ (Waits(s) => Waits(r))
      BY <2>1, <2>2, OnReconnectingFields
    <2> QED BY <1>3, <2>3 DEF r
  <1>4. CASE m = "refused"
    <2>1. r = Cleanup(s, "failure")
      BY <1>4 DEF ProcessMessage
    <2> HIDE DEF r
    <2>2. Sound(r) /\ r.server = "off"
      BY <1>1, <2>1, CleanupCleans DEF Sound
    <2> QED BY <2>2 DEF r
  <1> QED BY <1>2, <1>3, <1>4 DEF Messages

\* The first n messages: a hold among them leaves the client waiting or let go,
\* and a reconnect a service that is not connected.
Processed(s, messages, n, r) ==
    /\ Sound(r)
    /\ r.server \in {"off", "accepted"}
    /\ r.server = "accepted" =>
         /\ r.release = s.release
         /\ Waits(s) \/ (\E j \in 1..n : messages[j] = "hold") => Waits(r)
         /\ s.state # "connected" \/ (\E j \in 1..n : messages[j] = "reconnecting")
              => r.state # "connected"

LEMMA MessagesAreProcessed ==
  ASSUME NEW s, Sound(s), s.server = "accepted", NEW messages \in Seq(Messages)
  PROVE  Processed(s, messages, Len(messages), ProcessMessages(s, messages))
  <1> DEFINE N == Len(messages)
  <1>1. N \in Nat
    OBVIOUS
  <1>2. \A i \in 1..N : messages[i] \in Messages
    OBVIOUS
  <1>3. PICK f : /\ Processing(s, messages, N, f)
                 /\ ProcessMessages(s, messages) = f[N]
    BY <1>1, ProcessMessagesUnfolds
  <1> HIDE DEF N
  <1> DEFINE T == {i \in Nat : i \in 0..N => Processed(s, messages, i, f[i])}
  <1>4. 0 \in T
    <2>1. f[0] = s
      BY <1>1, <1>3 DEF Processing
    <2>2. Processed(s, messages, 0, s)
      BY DEF Processed
    <2> QED BY <2>1, <2>2
  <1>5. ASSUME NEW i \in T PROVE i + 1 \in T
    <2> SUFFICES ASSUME i + 1 \in 0..N PROVE Processed(s, messages, i + 1, f[i + 1])
      OBVIOUS
    <2> DEFINE k == i + 1
    <2>1. i \in Nat /\ i \in 0..N /\ k \in 1..N /\ k # 0 /\ k - 1 = i
      BY <1>1
    <2>2. Processed(s, messages, i, f[i])
      BY <2>1
    <2>3. f[k] = IF f[i].server = "off" THEN f[i] ELSE ProcessMessage(f[i], messages[k])
      BY <1>3, <2>1 DEF Processing
    <2>4. messages[k] \in Messages
      BY <1>2, <2>1
    <2>5. \A j \in 1..k : j \in 1..i \/ j = k
      BY <2>1
    <2> HIDE DEF k, T
    <2>6. CASE f[i].server = "off"
      BY <2>2, <2>3, <2>6 DEF Processed, k
    <2>7. CASE f[i].server = "accepted"
      <3>1. /\ Sound(f[k])
            /\ f[k].server \in {"off", "accepted"}
            /\ f[k].server = "accepted" =>
                 /\ f[k].release = f[i].release
                 /\ Waits(f[i]) \/ messages[k] = "hold" => Waits(f[k])
                 /\ f[i].state # "connected" \/ messages[k] = "reconnecting"
                      => f[k].state # "connected"
        BY <2>2, <2>3, <2>4, <2>7, ProcessMessageFields DEF Processed
      <3>2. Processed(s, messages, k, f[k])
        BY <2>2, <2>5, <2>7, <3>1 DEF Processed
      <3> QED BY <3>2 DEF k
    <2>8. f[i].server \in {"off", "accepted"}
      BY <2>2 DEF Processed
    <2> QED BY <2>6, <2>7, <2>8 DEF k
  <1> HIDE DEF T
  <1>6. T \subseteq Nat
    BY DEF T
  <1>7. N \in T
    BY <1>1, <1>4, <1>5, <1>6, SetInduction
  <1> QED BY <1>1, <1>3, <1>7 DEF T, N
-----------------------------------------------------------------------------
(***************************************************************************)
(* The actions.                                                            *)
(***************************************************************************)
Clients == [phase : {"boot", "held", "connecting", "up"}, out : Seq(Messages)]

\* What TypeOK says of the other variables.
Rest == killed \in SUBSET Pids /\ events \in 0..MaxEvents

\* A driver that is sound, whose client and whose server agree with it, and
\* which was not registered for default services since.
LEMMA Landed ==
  ASSUME Inv, NEW w, Becomes(w), Sound(w), w.server = "listening" => w.state # "connected",
         Held(w, client'), client' \in Clients, Rest', online' = online,
         w.callback => sys.callback /\ w.release = sys.release
  PROVE  Inv'
  <1>1. sys' = w /\ (sort' <=> sort \/ w.state # sys.state) /\ sort' \in BOOLEAN
    BY DEF Becomes
  <1>2. online \in BOOLEAN /\ w \in Systems
    BY DEF Inv, TypeOK, Sound
  <1>3. TypeOK'
    BY <1>1, <1>2 DEF TypeOK, Rest, Clients
  <1>4. Heard(w, online, sort')
    BY <1>1 DEF Inv, Heard
  <1> QED BY <1>1, <1>3, <1>4 DEF Inv

\* What Inv says of the variables.
LEMMA Standing ==
  ASSUME Inv
  PROVE  /\ Sound(sys) /\ sys \in Systems /\ ~sys.failed
         /\ sys.service <=> sys.state \in Connecting \cup {"connected"}
         /\ client \in Clients /\ Rest /\ sort \in BOOLEAN /\ online \in BOOLEAN
         /\ sys.pm \in ProcessManagers /\ sys.pid \in Pids \cup {NoPid}
  <1>1. Sound(sys)
    BY DEF Inv
  <1>2. client \in Clients /\ Rest /\ sort \in BOOLEAN /\ online \in BOOLEAN
    BY DEF Inv, TypeOK, Rest, Clients
  <1>3. sys \in Systems
    BY <1>1 DEF Sound
  <1> QED BY <1>1, <1>2, <1>3 DEF Sound, Systems

\* A driver that was cleaned up has no client to agree with.
LEMMA CleanupLands ==
  ASSUME Inv, NEW s \in Systems, ~s.failed, NEW state \in {"idle", "failure"},
         s.service <=> s.state \in Connecting \cup {"connected"},
         Becomes(Cleanup(s, state)), client' \in Clients, Rest', online' = online
  PROVE  Inv'
  <1> DEFINE w == Cleanup(s, state)
  <1>1. Sound(w) /\ w.server = "off" /\ ~w.callback
    BY CleanupCleans
  <1>2. Becomes(w)
    OBVIOUS
  <1> HIDE DEF w
  <1>3. Held(w, client')
    BY <1>1 DEF Held
  <1> QED BY <1>1, <1>2, <1>3, Landed

LEMMA ConnectKeeps ==
  ASSUME Inv, NEW ok \in BOOLEAN, Connect(ok)
  PROVE  Inv'
  <1> DEFINE s == [sys EXCEPT !.timer = TRUE, !.service = TRUE, !.state = "configuring"]
  <1>1. sys.state \notin Connecting \cup {"connected"}
    BY DEF Connect
  <1>2. /\ Sound(sys) /\ sys \in Systems /\ ~sys.service /\ ~sys.failed
        /\ client \in Clients /\ Rest
    BY <1>1, Standing
  <1>3. client' \in Clients /\ Rest' /\ online' = online
    <2>1. Event /\ UNCHANGED <<client, killed, online>>
      BY DEF Connect
    <2> QED BY <1>2, <2>1, OpenVPNAssumption DEF Event, Rest, OpenVPNAssumption
  <1>4. /\ s \in Systems /\ s.failed = sys.failed /\ s.pid = sys.pid
        /\ s.device = sys.device /\ s.callback = sys.callback /\ s.server = sys.server
        /\ s.commands = sys.commands /\ s.link = sys.link /\ s.tunnel = sys.tunnel
        /\ s.service = TRUE /\ s.timer = TRUE /\ s.state = "configuring"
    BY <1>2 DEF Systems, Connecting
  <1>5. CASE ok
    <2>1. PICK t \in Tunnels : Becomes([s EXCEPT !.tunnel = t, !.link[t] = "new"])
      BY <1>5 DEF Connect
    <2> DEFINE w == [s EXCEPT !.tunnel = t, !.link[t] = "new"]
    <2> HIDE DEF s
    <2>2. /\ w \in Systems /\ w.failed = s.failed /\ w.pid = s.pid
          /\ w.device = s.device /\ w.callback = s.callback /\ w.server = s.server
          /\ w.commands = s.commands /\ w.service = s.service /\ w.timer = s.timer
          /\ w.state = s.state
      BY <1>4 DEF Systems
    <2> HIDE DEF w
    <2>3. Sound(w) /\ w.server = "off" /\ ~w.callback
      BY <1>2, <1>4, <2>2 DEF Sound, Connecting
    <2>4. Held(w, client')
      BY <2>3 DEF Held
    <2>5. Becomes(w)
      BY <2>1 DEF w
    <2> QED BY <1>3, <2>3, <2>4, <2>5, Landed
  <1>6. CASE ~ok
    <2>1. Becomes(Cleanup(s, "failure"))
      BY <1>6 DEF Connect
    <2> HIDE DEF s
    <2>2. ~s.failed /\ (s.service <=> s.state \in Connecting \cup {"connected"})
      BY <1>2, <1>4 DEF Connecting
    <2> QED BY <1>3, <1>4, <2>1, <2>2, CleanupLands
  <1> QED BY <1>5, <1>6

\* The requests and events that end in a cleanup and nothing else.
LEMMA EndingKeeps ==
  ASSUME Inv, Disconnect \/ OnConnectTimeout \/ OnInputError
  PROVE  Inv'
  <1>1. /\ sys \in Systems /\ ~sys.failed /\ client \in Clients /\ Rest
        /\ sys.service <=> sys.state \in Connecting \cup {"connected"}
    BY Standing
  <1>2. client' \in Clients /\ Rest' /\ online' = online
    BY <1>1, OpenVPNAssumption
       DEF Disconnect, OnConnectTimeout, OnInputError, Event, Rest, OpenVPNAssumption
  <1>3. PICK state \in {"idle", "failure"} : Becomes(Cleanup(sys, state))
    BY DEF Disconnect, OnConnectTimeout, OnInputError
  <1> QED BY <1>1, <1>2, <1>3, CleanupLands

\* The client is spawned for a tunnel that was claimed: there was none.
LEMMA SpawnFields ==
  ASSUME NEW s \in Systems, s.pid = NoPid, s.server = "off", ~s.failed, s.service,
         s.timer, s.state \in Connecting, s.device \in Tunnels, s.device = s.tunnel,
         s.link[s.device] # "new", s.commands = <<>>,
         NEW p \in Pids, NEW connected \in BOOLEAN
  PROVE  LET r == SpawnOpenVPN(s, p, connected)
         IN  /\ Sound(r)
             /\ r.server = "listening" /\ r.state = s.state /\ r.release = connected
  <1> DEFINE r == SpawnOpenVPN(s, p, connected)
             u == [s EXCEPT !.server = "listening", !.waiting = FALSE,
                            !.release = connected]
             pm == StartProcess(s.pm, p, "driver")
  <1>1. /\ u \in Systems /\ u.server = "listening" /\ u.release = connected
        /\ u.failed = s.failed /\ u.pid = s.pid /\ u.device = s.device /\ u.pm = s.pm
        /\ u.service = s.service /\ u.timer = s.timer /\ u.state = s.state
        /\ u.tunnel = s.tunnel /\ u.link = s.link /\ u.commands = s.commands
    BY DEF Systems
  <1>2. pm \in ProcessManagers
    BY ManagersKept DEF Systems, Owners
  <1>3. StartServer(s, connected) = u
    BY DEF StartServer
  <1> HIDE DEF u
  <1>4. r = [u EXCEPT !.failed = @ \/ s.pid # NoPid, !.pid = p, !.pm = pm,
                      !.callback = TRUE]
    BY <1>1, <1>3 DEF SpawnOpenVPN
  <1>5. (u.failed \/ s.pid # NoPid) = FALSE
    BY <1>1, Zenon
  <1>6. r = [u EXCEPT !.failed = FALSE, !.pid = p, !.pm = pm, !.callback = TRUE]
    BY <1>4, <1>5
  <1> HIDE DEF r, pm
  <1>7. /\ r \in Systems /\ r.failed = FALSE /\ r.pid = p /\ r.callback = TRUE
        /\ r.server = u.server /\ r.release = u.release /\ r.device = u.device
        /\ r.service = u.service /\ r.timer = u.timer /\ r.state = u.state
        /\ r.tunnel = u.tunnel /\ r.link = u.link /\ r.commands = u.commands
    BY <1>1, <1>2, <1>6 DEF Systems
  <1>8. p # NoPid /\ s.device # NoTunnel /\ s.state # "connected"
    BY OpenVPNAssumption DEF OpenVPNAssumption, Connecting
  <1>9. Sound(r)
    BY <1>1, <1>7, <1>8 DEF Sound
  <1> QED BY <1>1, <1>7, <1>9 DEF r

\* Processes and interfaces that are not the driver's change.
LEMMA OutsideKeeps ==
  ASSUME Inv, NEW pm \in ProcessManagers,
         NEW link \in [Tunnels -> {"none", "new", "seen", "deleted"}],
         \A t \in Tunnels : link[t] = sys.link[t] \/ link[t] = "deleted",
         Becomes([sys EXCEPT !.pm = pm, !.link = link]),
         client' = client, Rest', online' = online
  PROVE  Inv'
  <1> DEFINE w == [sys EXCEPT !.pm = pm, !.link = link]
  <1>1. Sound(sys) /\ sys \in Systems /\ client \in Clients
    BY Standing
  <1>2. /\ w \in Systems /\ w.failed = sys.failed /\ w.pid = sys.pid
        /\ w.device = sys.device /\ w.callback = sys.callback /\ w.server = sys.server
        /\ w.service = sys.service /\ w.timer = sys.timer /\ w.state = sys.state
        /\ w.tunnel = sys.tunnel /\ w.link = link /\ w.commands = sys.commands
        /\ w.waiting = sys.waiting /\ w.release = sys.release
    BY <1>1 DEF Systems
  <1>3. Becomes(w)
    OBVIOUS
  <1> HIDE DEF w
  <1>4. sys.device \in Tunnels \cup {NoTunnel}
    BY <1>1 DEF Systems
  <1>5. sys.device # NoTunnel => sys.device = sys.tunnel /\ link[sys.device] # "new"
    BY <1>1, <1>4 DEF Sound
  <1>6. Sound(w)
    BY <1>1, <1>2, <1>5 DEF Sound
  <1>7. Held(w, client')
    BY <1>2 DEF Inv, Held, Waits
  <1>8. w.server = "listening" => w.state # "connected"
    BY <1>2 DEF Inv
  <1> QED BY <1>1, <1>2, <1>3, <1>6, <1>7, <1>8, Landed

LEMMA ClaimKeeps ==
  ASSUME Inv, NEW t \in Tunnels, ClaimInterface(t)
  PROVE  Inv'
  <1>1. /\ Sound(sys) /\ sys \in Systems /\ ~sys.failed /\ client \in Clients /\ Rest
        /\ sys.pm \in ProcessManagers
        /\ sys.service <=> sys.state \in Connecting \cup {"connected"}
    BY Standing
  <1>2. sys.link[t] = "new" /\ Rest' /\ online' = online
    BY <1>1 DEF ClaimInterface, Rest
  <1>3. CASE t # sys.tunnel
    <2> DEFINE link == [sys.link EXCEPT ![t] = "deleted"]
    <2>1. Becomes([sys EXCEPT !.link[t] = "deleted"]) /\ client' = client
      BY <1>3 DEF ClaimInterface
    <2>2. [sys EXCEPT !.link[t] = "deleted"] = [sys EXCEPT !.pm = sys.pm, !.link = link]
      BY <1>1 DEF Systems
    <2>3. /\ link \in [Tunnels -> {"none", "new", "seen", "deleted"}]
          /\ \A u \in Tunnels : link[u] = sys.link[u] \/ link[u] = "deleted"
      BY <1>1 DEF Systems
    <2> HIDE DEF link
    <2> QED BY <1>1, <1>2, <2>1, <2>2, <2>3, OutsideKeeps
  <1>4. CASE t = sys.tunnel
    <2> DEFINE link == [sys.link EXCEPT ![t] = "seen"]
               bad == sys.failed \/ sys.device # NoTunnel
               s == [sys EXCEPT !.link[t] = "seen", !.device = t,
                                !.failed = @ \/ sys.device # NoTunnel]
    <2>1. t # NoTunnel /\ sys.device = NoTunnel
      BY <1>1, <1>2, <1>4, OpenVPNAssumption DEF Sound, OpenVPNAssumption
    <2>2. /\ sys.pid = NoPid /\ sys.server = "off" /\ sys.service /\ sys.commands = <<>>
          /\ sys.state \in Connecting /\ sys.timer
      BY <1>1, <1>4, <2>1 DEF Sound
    <2>3. bad = FALSE
      BY <1>1, <2>1, Zenon
    <2>4. s = [sys EXCEPT !.link = link, !.device = t, !.failed = bad]
      BY <1>1 DEF Systems
    <2>5. /\ link \in [Tunnels -> {"none", "new", "seen", "deleted"}]
          /\ link[t] = "seen"
      BY <1>1 DEF Systems
    <2> HIDE DEF link, bad, s
    <2>6. /\ s \in Systems /\ s.failed = FALSE /\ s.pid = sys.pid /\ s.device = t
          /\ s.callback = sys.callback /\ s.server = sys.server /\ s.pm = sys.pm
          /\ s.service = sys.service /\ s.timer = sys.timer /\ s.state = sys.state
          /\ s.tunnel = sys.tunnel /\ s.link = link /\ s.commands = sys.commands
      BY <1>1, <2>3, <2>4, <2>5 DEF Systems
    <2>7. ASSUME Becomes(Cleanup(s, "failure")), client' = client
          PROVE  Inv'
      BY <1>1, <1>2, <2>6, <2>7, CleanupLands
    <2>8. ASSUME NEW p \in Fresh(sys.pm), NEW connected \in BOOLEAN,
                 IF sort THEN connected => online ELSE connected = online,
                 Becomes(SpawnOpenVPN(s, p, connected)), client' = NewClient
          PROVE  Inv'
      <3> DEFINE w == SpawnOpenVPN(s, p, connected)
      <3>1. p \in Pids
        BY DEF Fresh
      <3>2. Sound(w) /\ w.server = "listening" /\ w.state = s.state /\ w.release = connected
        <4>1. /\ s \in Systems /\ s.pid = NoPid /\ s.server = "off" /\ ~s.failed
              /\ s.service /\ s.timer /\ s.state \in Connecting /\ s.commands = <<>>
          BY <2>2, <2>6
        <4>2. s.device \in Tunnels /\ s.device = s.tunnel /\ s.link[s.device] # "new"
          BY <1>4, <2>5, <2>6
        <4> QED BY <3>1, <4>1, <4>2, SpawnFields
      <3>3. sys' = w /\ (sort' <=> sort \/ w.state # sys.state) /\ sort' \in BOOLEAN
        BY <2>8 DEF Becomes
      <3> HIDE DEF w
      <3>4. w.state # "connected"
        BY <2>2, <2>6, <3>2 DEF Connecting
      <3>5. Held(w, client')
        BY <2>8, <3>2 DEF Held
      <3>6. Heard(w, online, sort')
        BY <2>8, <3>2, <3>3, <3>4 DEF Heard
      <3>7. client' \in Clients
        <4>1. <<>> \in Seq(Messages)
          OBVIOUS
        <4> QED BY <2>8, <4>1 DEF NewClient, Clients
      <3>8. TypeOK'
        <4>1. sys' \in Systems /\ client' \in Clients
          BY <3>2, <3>3, <3>7 DEF Sound
        <4>2. online' \in BOOLEAN /\ sort' \in BOOLEAN
          BY <1>2, <3>3, Standing, Zenon
        <4>3. killed' \in SUBSET Pids /\ events' \in 0..MaxEvents
          BY <1>2 DEF Rest
        <4> QED BY <4>1, <4>2, <4>3 DEF TypeOK, Clients
      <3> QED BY <1>2, <3>2, <3>3, <3>4, <3>5, <3>6, <3>8 DEF Inv
    <2>9. /\ t = sys.tunnel
          /\ \/ Becomes(Cleanup(s, "failure")) /\ client' = client
             \/ /\ \E p \in Fresh(s.pm), connected \in BOOLEAN :
                     /\ IF sort THEN connected => online ELSE connected = online
                     /\ Becomes(SpawnOpenVPN(s, p, connected))
                /\ client' = NewClient
      BY <1>4, <2>6 DEF ClaimInterface, s
    <2> QED BY <2>6, <2>7, <2>8, <2>9
  <1> QED BY <1>3, <1>4

LEMMA InputKeeps ==
  ASSUME Inv, NEW n \in 1..Len(client.out), OnInput(n)
  PROVE  Inv'
  <1> DEFINE messages == SubSeq(client.out, 1, n)
             w == ProcessMessages(sys, messages)
             rest == SubSeq(client.out, n + 1, Len(client.out))
  <1>1. Sound(sys) /\ client \in Clients /\ Rest /\ sys.server = "accepted"
    BY Standing DEF OnInput
  <1>2. Becomes(w) /\ client' = [client EXCEPT !.out = rest] /\ Rest' /\ online' = online
    BY <1>1 DEF OnInput, Rest
  <1>3. client.out \in Seq(Messages) /\ Len(client.out) \in Nat
    BY <1>1 DEF Clients
  <1>4. /\ messages \in Seq(Messages) /\ Len(messages) = n
        /\ \A i \in 1..n : messages[i] = client.out[i]
    BY <1>3
  <1>5. /\ rest \in Seq(Messages) /\ Len(rest) = Len(client.out) - n
        /\ \A i \in 1..Len(rest) : rest[i] = client.out[n + i]
    BY <1>3
  <1>6. Processed(sys, messages, n, w)
    BY <1>1, <1>4, MessagesAreProcessed
  <1> HIDE DEF messages, w, rest
  <1>7. client' \in Clients /\ client'.phase = client.phase /\ client'.out = rest
    BY <1>1, <1>2, <1>5 DEF Clients
  <1>8. \A m : IsIn(m, client.out) => IsIn(m, rest) \/ \E j \in 1..n : messages[j] = m
    <2> SUFFICES ASSUME NEW i \in 1..Len(client.out)
                 PROVE  \/ IsIn(client.out[i], rest)
                        \/ \E j \in 1..n : messages[j] = client.out[i]
      BY DEF IsIn
    <2>1. CASE i \in 1..n
      BY <1>4, <2>1
    <2>2. CASE i \notin 1..n
      <3>1. i - n \in 1..Len(rest) /\ rest[i - n] = client.out[i]
        BY <1>3, <1>5, <2>2
      <3> QED BY <3>1 DEF IsIn
    <2> QED BY <2>1, <2>2
  <1>9. Sound(w) /\ w.server # "listening"
    BY <1>6 DEF Processed
  <1>10. Held(w, client')
    <2> SUFFICES ASSUME w.server = "accepted", client.phase = "held"
                 PROVE  /\ IsIn("hold", rest) \/ Waits(w)
                        /\ IsIn("reconnecting", rest) \/ w.state # "connected"
      BY <1>7, <1>9 DEF Held
    <2>1. /\ IsIn("hold", client.out) \/ Waits(sys)
          /\ IsIn("reconnecting", client.out) \/ sys.state # "connected"
      BY <1>1 DEF Inv, Held
    <2> QED BY <1>6, <1>8, <2>1 DEF Processed
  <1>11. w.callback => sys.callback /\ w.release = sys.release
    <2>1. w.callback => w.server = "accepted"
      BY <1>6, <1>9 DEF Processed, Sound
    <2> QED BY <1>1, <1>6, <2>1 DEF Processed, Sound
  <1> QED BY <1>2, <1>7, <1>9, <1>10, <1>11, Landed

LEMMA NetworkKeeps ==
  ASSUME Inv, NEW bound \in BOOLEAN, NetworkChanges(bound)
  PROVE  Inv'
  <1>1. /\ Sound(sys) /\ sys \in Systems /\ ~sys.failed /\ client \in Clients /\ Rest
        /\ online \in BOOLEAN
    BY Standing
  <1>2. /\ client' = client /\ Rest' /\ online' \in BOOLEAN /\ sort' = TRUE
        /\ bound => sys.state = "connected"
        /\ sys' = IF bound THEN OnReconnecting(Send(sys, "restart")) ELSE sys
    BY <1>1, OpenVPNAssumption DEF NetworkChanges, Event, Rest, OpenVPNAssumption
  <1>3. CASE ~bound
    <2>1. sys' = sys
      BY <1>2, <1>3
    <2> QED BY <1>1, <1>2, <2>1 DEF Inv, TypeOK, Rest, Heard
  <1>4. CASE bound
    <2> DEFINE u == Send(sys, "restart")
               q == u.commands
               w == OnReconnecting(u)
    <2>1. sys.server = "accepted" /\ sys.service
      BY <1>1, <1>2, <1>4 DEF Inv, Sound, Systems
    <2>2. /\ u = [sys EXCEPT !.commands = u.commands]
          /\ u.commands \in Seq({"release", "restart"}) /\ u.commands # <<>>
      BY <1>1, <2>1, SendFields
    <2> HIDE DEF u
    <2>3. u.waiting = sys.waiting /\ u.release = sys.release /\ u.service = sys.service
      BY <1>1, <2>2 DEF Systems
    <2>4. u = [sys EXCEPT !.waiting = u.waiting, !.release = u.release,
                          !.commands = u.commands]
      BY <1>1, <2>2, <2>3 DEF Systems
    <2>5. u.waiting \in BOOLEAN /\ u.release \in BOOLEAN
      BY <1>1, <2>3 DEF Systems
    <2>6. Sound(u) /\ u.server = sys.server
      BY <1>1, <2>1, <2>2, <2>4, <2>5, CommandsKeep
    <2>7. Waits(u)
      BY <2>2 DEF Waits
    <2>8. Sound(w) /\ w.state = "associating" /\ w.server = u.server /\ Waits(w)
      BY <2>1, <2>3, <2>6, <2>7, OnReconnectingFields
    <2>9. sys' = w
      BY <1>2, <1>4 DEF u
    <2> HIDE DEF w
    <2>10. Held(w, client)
      BY <2>1, <2>6, <2>8 DEF Held
    <2>11. TypeOK'
      <3>1. sys' \in Systems
        BY <2>8, <2>9 DEF Sound
      <3> QED BY <1>1, <1>2, <3>1 DEF TypeOK, Clients, Rest
    <2>12. Heard(w, online', sort')
      BY <1>2 DEF Heard
    <2> QED BY <1>2, <2>8, <2>9, <2>10, <2>11, <2>12 DEF Inv
  <1> QED BY <1>3, <1>4

LEMMA DefaultKeeps ==
  ASSUME Inv, OnDefaultServiceChanged
  PROVE  Inv'
  <1>1. /\ Sound(sys) /\ sys \in Systems /\ client \in Clients /\ Rest
        /\ online \in BOOLEAN
    BY Standing
  <1>2. client' = client /\ Rest' /\ online' = online /\ sort' = FALSE
    BY <1>1 DEF OnDefaultServiceChanged, Rest
  <1>3. ASSUME Sound(sys'), Held(sys', client), sys'.server = sys.server,
               sys'.state = sys.state, Heard(sys', online, FALSE)
        PROVE  Inv'
    <2>1. sys' \in Systems
      BY <1>3 DEF Sound
    <2>2. TypeOK'
      BY <1>1, <1>2, <2>1 DEF TypeOK, Clients, Rest
    <2> QED BY <1>2, <1>3, <2>2 DEF Inv
  <1>4. CASE ~sys.callback
    <2>1. sys' = sys
      BY <1>4 DEF OnDefaultServiceChanged
    <2>2. Heard(sys, online, FALSE)
      BY <1>4 DEF Heard
    <2> QED BY <1>1, <1>3, <2>1, <2>2 DEF Inv
  <1>5. CASE sys.callback /\ online /\ sys.state # "connected"
    <2> DEFINE w == ReleaseHold(sys)
    <2>1. sys' = w
      BY <1>5 DEF OnDefaultServiceChanged
    <2>2. sys.server # "off"
      BY <1>1, <1>5 DEF Sound
    <2>3. /\ Sound(w) /\ w.state = sys.state /\ w.server = sys.server
          /\ w.release = TRUE
          /\ sys.server = "accepted" /\ Waits(sys) => Waits(w)
      BY <1>1, <2>2, ReleaseHoldFields
    <2> HIDE DEF w
    <2>4. Held(w, client)
      BY <2>3 DEF Inv, Held
    <2>5. Heard(w, online, FALSE)
      BY <1>5, <2>3 DEF Heard
    <2> QED BY <1>3, <2>1, <2>3, <2>4, <2>5
  <1>6. CASE sys.callback /\ ~(online /\ sys.state # "connected")
    <2> DEFINE w == [sys EXCEPT !.release = FALSE]
    <2>1. sys' = w
      BY <1>6 DEF OnDefaultServiceChanged, Hold
    <2>2. sys.server # "off"
      BY <1>1, <1>6 DEF Sound
    <2>3. /\ w.release = FALSE /\ w.waiting = sys.waiting /\ w.commands = sys.commands
          /\ w.waiting \in BOOLEAN /\ w.commands \in Seq({"release", "restart"})
      BY <1>1 DEF Systems
    <2>4. w = [sys EXCEPT !.waiting = w.waiting, !.release = w.release,
                          !.commands = w.commands]
      BY <1>1, <2>3 DEF Systems
    <2> HIDE DEF w
    <2>5. sys.server # "accepted" => w.commands = <<>>
      BY <1>1, <2>3 DEF Sound
    <2>6. w.release \in BOOLEAN
      BY <2>3, Zenon
    <2>7. Sound(w) /\ w.state = sys.state /\ w.server = sys.server
      BY <1>1, <2>2, <2>3, <2>4, <2>5, <2>6, CommandsKeep
    <2>8. Waits(sys) => Waits(w)
      BY <2>3 DEF Waits
    <2>9. Held(w, client)
      BY <2>7, <2>8 DEF Inv, Held
    <2>10. Heard(w, online, FALSE)
      BY <1>6, <2>3, <2>7 DEF Heard
    <2> QED BY <1>3, <2>1, <2>7, <2>9, <2>10
  <1> QED BY <1>4, <1>5, <1>6

LEMMA ReadyKeeps ==
  ASSUME Inv, OnReady
  PROVE  Inv'
  <1> DEFINE w == [sys EXCEPT !.server = "accepted"]
             c == [phase |-> "held", out |-> <<"hold">>]
  <1>1. Sound(sys) /\ sys \in Systems /\ Rest
    BY Standing
  <1>2. /\ sys.server = "listening" /\ Becomes(w) /\ client' = c /\ Rest'
        /\ online' = online
    BY <1>1 DEF OnReady, Rest
  <1>3. c \in Clients /\ IsIn("hold", c.out)
    <2> DEFINE q == <<"hold">>
    <2>1. q \in Seq(Messages) /\ Len(q) = 1 /\ q[1] = "hold"
      BY DEF Messages
    <2> HIDE DEF q
    <2>2. IsIn("hold", q)
      BY <2>1 DEF IsIn
    <2> QED BY <2>1, <2>2 DEF Clients, q
  <1> HIDE DEF c
  <1>4. /\ w \in Systems /\ w.failed = sys.failed /\ w.pid = sys.pid
        /\ w.device = sys.device /\ w.callback = sys.callback /\ w.server = "accepted"
        /\ w.service = sys.service /\ w.timer = sys.timer /\ w.state = sys.state
        /\ w.tunnel = sys.tunnel /\ w.link = sys.link /\ w.release = sys.release
    BY <1>1 DEF Systems
  <1> HIDE DEF w
  <1>5. Sound(w)
    BY <1>1, <1>2, <1>4 DEF Sound
  <1>6. Held(w, client')
    BY <1>2, <1>3, <1>4 DEF Inv, Held
  <1> QED BY <1>2, <1>3, <1>4, <1>5, <1>6, Landed

\* What the client says is about to be heard.
LEMMA RestartedSays ==
  ASSUME client \in Clients
  PROVE  /\ Restarted \in Clients
         /\ IsIn("hold", Restarted.out) /\ IsIn("reconnecting", Restarted.out)
  <1> DEFINE more == <<"reconnecting", "hold">>
             q == client.out \o more
             n == Len(client.out)
  <1>1. client.out \in Seq(Messages) /\ n \in Nat
    BY DEF Clients
  <1>2. /\ more \in Seq(Messages) /\ Len(more) = 2
        /\ more[1] = "reconnecting" /\ more[2] = "hold"
    BY DEF Messages
  <1> HIDE DEF more
  <1>3. /\ q \in Seq(Messages) /\ Len(q) = n + 2
        /\ q[n + 1] = "reconnecting" /\ q[n + 2] = "hold"
    <2>1. /\ q \in Seq(Messages) /\ Len(q) = n + Len(more)
          /\ \A i \in 1..n + Len(more) : q[i] = IF i <= n THEN client.out[i] ELSE more[i - n]
      BY <1>1, <1>2, ConcatProperties
    <2> HIDE DEF q, n
    <2>2. n + 1 \in 1..n + 2 /\ n + 2 \in 1..n + 2
      BY <1>1
    <2> QED BY <1>1, <1>2, <2>1, <2>2
  <1> HIDE DEF q
  <1>4. n + 1 \in 1..Len(q) /\ n + 2 \in 1..Len(q)
    BY <1>1, <1>3
  <1> HIDE DEF n
  <1>5. IsIn("hold", q) /\ IsIn("reconnecting", q)
    BY <1>3, <1>4 DEF IsIn
  <1>6. Restarted = [phase |-> "held", out |-> q]
    BY DEF Restarted, q, more
  <1> QED BY <1>3, <1>5, <1>6 DEF Clients

LEMMA ReadsKeeps ==
  ASSUME Inv, ClientReads
  PROVE  Inv'
  <1> DEFINE q == Tail(sys.commands)
             w == [sys EXCEPT !.commands = q]
  <1>1. Sound(sys) /\ sys \in Systems /\ client \in Clients /\ Rest
    BY Standing
  <1>2. /\ sys.commands # <<>> /\ Becomes(w) /\ Rest' /\ online' = online
        /\ client' = CASE Head(sys.commands) = "restart" -> Restarted
                       [] client.phase = "held" -> [client EXCEPT !.phase = "connecting"]
                       [] OTHER -> client
    BY <1>1 DEF ClientReads, Rest
  <1>3. q \in Seq({"release", "restart"})
    <2> DEFINE C == {"release", "restart"}
    <2>1. sys.commands \in Seq(C) /\ sys.commands # <<>>
      BY <1>1, <1>2 DEF Systems
    <2> HIDE DEF C
    <2>2. q \in Seq(C)
      BY <2>1
    <2> QED BY <2>2 DEF C
  <1> HIDE DEF q
  <1>4. /\ w.waiting = sys.waiting /\ w.release = sys.release /\ w.commands = q
        /\ w.waiting \in BOOLEAN /\ w.release \in BOOLEAN
    BY <1>1 DEF Systems
  <1>5. w = [sys EXCEPT !.waiting = w.waiting, !.release = w.release,
                        !.commands = w.commands]
    BY <1>1, <1>4 DEF Systems
  <1> HIDE DEF w
  <1>6. sys.server = "accepted"
    BY <1>1, <1>2 DEF Sound
  <1>7. /\ Sound(w) /\ w.state = sys.state /\ w.server = sys.server
        /\ w.callback = sys.callback
    BY <1>1, <1>3, <1>4, <1>5, <1>6, CommandsKeep
  <1>8. client' \in Clients /\ Held(w, client')
    <2>1. CASE client' = Restarted
      BY <1>1, <1>6, <1>7, <2>1, RestartedSays DEF Held
    <2>2. CASE client' = [client EXCEPT !.phase = "connecting"]
      <3>1. client' \in Clients /\ client'.phase = "connecting"
        BY <1>1, <2>2 DEF Clients
      <3> QED BY <1>6, <1>7, <3>1 DEF Held
    <2>3. CASE client.phase # "held" /\ client' = client
      BY <1>1, <1>6, <1>7, <2>3 DEF Held
    <2> QED BY <1>2, <2>1, <2>2, <2>3
  <1> QED BY <1>1, <1>2, <1>4, <1>6, <1>7, <1>8, Landed DEF Sound

\* The client speaks by itself.
LEMMA ClientKeeps ==
  ASSUME Inv, ClientRestarts \/ ClientIsRefused
  PROVE  Inv'
  <1>1. Sound(sys) /\ client \in Clients /\ Rest
    BY Standing
  <1>2. /\ sys' = sys /\ sort' = sort /\ online' = online /\ Rest'
        /\ client.phase \in {"connecting", "up"}
    BY <1>1, OpenVPNAssumption
       DEF ClientRestarts, ClientIsRefused, Event, Rest, OpenVPNAssumption
  <1>3. ASSUME client' \in Clients, Held(sys, client')
        PROVE  Inv'
    BY <1>2, <1>3 DEF Inv, TypeOK, Clients, Rest
  <1>4. sys.server # "listening"
    BY <1>2 DEF Inv, Held, NewClient
  <1>5. CASE ClientRestarts
    <2>1. client' = Restarted
      BY <1>5 DEF ClientRestarts
    <2> QED BY <1>1, <1>3, <1>4, <2>1, RestartedSays DEF Held
  <1>6. CASE ClientIsRefused
    <2> DEFINE q == Append(client.out, "refused")
    <2>1. client' = [client EXCEPT !.out = q]
      BY <1>6 DEF ClientIsRefused
    <2>2. q \in Seq(Messages)
      <3>1. client.out \in Seq(Messages) /\ "refused" \in Messages
        BY <1>1 DEF Clients, Messages
      <3> QED BY <3>1
    <2> HIDE DEF q
    <2>3. client' \in Clients /\ client'.phase = client.phase
      BY <1>1, <2>1, <2>2 DEF Clients
    <2>4. Held(sys, client')
      BY <1>2, <1>4, <2>3 DEF Held
    <2> QED BY <1>3, <2>3, <2>4
  <1> QED BY <1>5, <1>6

LEMMA NotifyKeeps ==
  ASSUME Inv, Notify
  PROVE  Inv'
  <1> DEFINE w == [sys EXCEPT !.state = "connected", !.timer = FALSE]
             c == [client EXCEPT !.phase = "up"]
  <1>1. Sound(sys) /\ sys \in Systems /\ client \in Clients /\ Rest
    BY Standing
  <1>2. /\ sys.pid # NoPid /\ client.phase = "connecting" /\ Becomes(w) /\ client' = c
        /\ Rest' /\ online' = online
    BY <1>1 DEF Notify, ClientRuns, Rest
  <1>3. c \in Clients /\ c.phase = "up"
    BY <1>1 DEF Clients
  <1>4. sys.server # "listening"
    BY <1>2 DEF Inv, Held, NewClient
  <1>5. /\ w \in Systems /\ w.failed = sys.failed /\ w.pid = sys.pid
        /\ w.device = sys.device /\ w.callback = sys.callback /\ w.server = sys.server
        /\ w.service = sys.service /\ w.timer = FALSE /\ w.state = "connected"
        /\ w.tunnel = sys.tunnel /\ w.link = sys.link /\ w.release = sys.release
        /\ w.commands = sys.commands
    BY <1>1 DEF Systems
  <1> HIDE DEF w, c
  <1>6. Sound(w)
    BY <1>1, <1>2, <1>5 DEF Sound, Connecting
  <1>7. Held(w, client')
    BY <1>2, <1>3, <1>4, <1>5 DEF Held
  <1> QED BY <1>2, <1>3, <1>4, <1>5, <1>6, <1>7, Landed

LEMMA ExitsKeeps ==
  ASSUME Inv, NEW p \in Pids, ClientExits(p) \/ TerminationTimeout(p)
  PROVE  Inv'
  <1>1. sys \in Systems /\ client \in Clients /\ Rest /\ sys.pm \in ProcessManagers
    BY Standing
  <1>2. /\ client' = client /\ online' = online /\ Rest'
    BY <1>1 DEF ClientExits, TerminationTimeout, Rest
  <1>3. sys.link \in [Tunnels -> {"none", "new", "seen", "deleted"}]
    BY <1>1 DEF Systems
  <1>4. PICK pm \in ProcessManagers : Becomes([sys EXCEPT !.pm = pm])
    <2>1. CASE ClientExits(p)
      <3> DEFINE pm == [sys.pm EXCEPT !.proc[p] = "zombie"]
      <3>1. pm \in ProcessManagers
        BY <1>1, ManagersKept
      <3>2. [sys EXCEPT !.pm.proc[p] = "zombie"] = [sys EXCEPT !.pm = pm]
        BY <1>1 DEF Systems
      <3>3. Becomes([sys EXCEPT !.pm = pm])
        BY <2>1, <3>2 DEF ClientExits
      <3> QED BY <3>1, <3>3
    <2>2. CASE TerminationTimeout(p)
      <3>1. Becomes([sys EXCEPT !.pm = ProcessTerminationTimeoutHandler(sys.pm, p)])
        BY <2>2 DEF TerminationTimeout
      <3> QED BY <1>1, <3>1, ManagersKept
    <2> QED BY <2>1, <2>2
  <1>5. [sys EXCEPT !.pm = pm] = [sys EXCEPT !.pm = pm, !.link = sys.link]
    BY <1>1 DEF Systems
  <1> QED BY <1>2, <1>3, <1>4, <1>5, OutsideKeeps

LEMMA ReapedKeeps ==
  ASSUME Inv, NEW p \in Pids, ClientIsReaped(p)
  PROVE  Inv'
  <1> DEFINE told == Told(sys.pm, p)
             pm == OnProcessExited(sys.pm, p)
             s == [sys EXCEPT !.pm = pm]
             u == [s EXCEPT !.pid = NoPid]
             link == [t \in Tunnels |-> IF t = told THEN "deleted" ELSE s.link[t]]
  <1>1. /\ sys \in Systems /\ client \in Clients /\ Rest /\ sys.pm \in ProcessManagers
        /\ ~sys.failed /\ (sys.service <=> sys.state \in Connecting \cup {"connected"})
    BY Standing
  <1>2. client' = client /\ online' = online /\ Rest'
    BY <1>1 DEF ClientIsReaped, Rest
  <1>3. pm \in ProcessManagers
    BY <1>1, ManagersKept
  <1>4. Becomes(IF told = "driver" THEN Cleanup(u, "failure")
                ELSE [s EXCEPT !.link = link])
    BY DEF ClientIsReaped
  <1> HIDE DEF pm, told
  <1>5. /\ s \in Systems /\ s.link = sys.link
        /\ u \in Systems /\ u.failed = sys.failed /\ u.service = sys.service
        /\ u.state = sys.state
    BY <1>1, <1>3 DEF Systems
  <1>6. CASE told = "driver"
    <2>1. Becomes(Cleanup(u, "failure"))
      BY <1>4, <1>6
    <2> HIDE DEF u
    <2> QED BY <1>1, <1>2, <1>5, <2>1, CleanupLands
  <1>7. CASE told # "driver"
    <2>1. /\ link \in [Tunnels -> {"none", "new", "seen", "deleted"}]
          /\ \A t \in Tunnels : link[t] = sys.link[t] \/ link[t] = "deleted"
      BY <1>5 DEF Systems
    <2>2. Becomes([s EXCEPT !.link = link])
      BY <1>4, <1>7
    <2> HIDE DEF link
    <2>3. [s EXCEPT !.link = link] = [sys EXCEPT !.pm = pm, !.link = link]
      BY <1>1 DEF Systems
    <2> QED BY <1>2, <1>3, <2>1, <2>2, <2>3, OutsideKeeps
  <1> QED BY <1>6, <1>7
-----------------------------------------------------------------------------
LEMMA InitInv == Init => Inv
  <1> SUFFICES ASSUME Init PROVE Inv
    OBVIOUS
  <1>1. <<>> \in Seq(Messages) /\ <<>> \in Seq({"release", "restart"})
    OBVIOUS
  <1>2. InitProcessManager \in ProcessManagers
    BY DEF InitProcessManager, ProcessManagers
  <1> DEFINE none == <<>>
             link == [t \in Tunnels |-> "none"]
  <1>3. sys = [service |-> FALSE, state |-> "idle", timer |-> FALSE,
               tunnel |-> NoTunnel, device |-> NoTunnel, pid |-> NoPid,
               callback |-> FALSE, server |-> "off", waiting |-> FALSE,
               release |-> FALSE, commands |-> none, pm |-> InitProcessManager,
               link |-> link, failed |-> FALSE]
    BY DEF Init
  <1>4. none \in Seq({"release", "restart"})
    BY <1>1
  <1>5. link \in [Tunnels -> {"none", "new", "seen", "deleted"}]
    OBVIOUS
  <1> HIDE DEF none, link
  <1>6. sys \in Systems
    BY <1>2, <1>3, <1>4, <1>5 DEF Systems
  <1>7. Sound(sys) /\ sys.server = "off" /\ ~sys.callback
    BY <1>3, <1>6 DEF Sound, Connecting, none
  <1>8. Held(sys, client) /\ Heard(sys, online, sort)
    BY <1>7 DEF Held, Heard
  <1>9. client \in Clients
    BY <1>1 DEF Init, NewClient, Clients
  <1>10. killed \in SUBSET Pids /\ online \in BOOLEAN /\ sort \in BOOLEAN
    BY DEF Init
  <1>11. events \in 0..MaxEvents
    BY OpenVPNAssumption DEF Init, OpenVPNAssumption
  <1> QED BY <1>6, <1>7, <1>8, <1>9, <1>10, <1>11 DEF Inv, TypeOK, Clients

\* The invariant is inductive: no task of shill and no step of a client breaks it.
THEOREM OpenVPNInvariance == Spec => []Inv
  <1>1. Inv /\ [Next]_vars => Inv'
    <2> SUFFICES ASSUME Inv, [Next]_vars PROVE Inv'
      OBVIOUS
    <2>1. CASE ShillStep
      BY <2>1, ClaimKeeps, InputKeeps, ReapedKeeps, ExitsKeeps, EndingKeeps, DefaultKeeps,
         ReadyKeeps DEF ShillStep
    <2>2. CASE Environment
      BY <2>2, ConnectKeeps, NetworkKeeps, ExitsKeeps, EndingKeeps, ReadsKeeps,
         ClientKeeps, NotifyKeeps DEF Environment
    <2>3. CASE UNCHANGED vars
      BY <2>3 DEF vars, Inv, TypeOK, Rest
    <2> QED BY <2>1, <2>2, <2>3 DEF Next
  <1> QED BY <1>1, InitInv, PTL DEF Spec

\* No CHECK of the driver fails, and device, management server and registration
\* for default services are there exactly as long as the client is its own
\* (ClaimInterface, SpawnOpenVPN, Cleanup).
THEOREM DriverSoundness == Spec => []DriverIsSound
  <1>1. Inv => DriverIsSound
    BY DEF Inv, Sound, DriverIsSound, ChecksHold, PartsGoTogether
  <1> QED BY <1>1, OpenVPNInvariance, PTL

\* An attempt is timed until it ends, and a connection is not (Connect, Notify,
\* OnReconnecting, Cleanup).
THEOREM AttemptsAreTimed == Spec => []AttemptIsTimed
  <1>1. Inv => AttemptIsTimed
    BY DEF Inv, Sound, AttemptIsTimed
  <1> QED BY <1>1, OpenVPNInvariance, PTL

\* No release of a hold is lost, however the client's requests, its restarts and
\* the changes of the default service interleave (ProcessHoldMessage,
\* ReleaseHold, Hold, OnDefaultServiceChanged).
THEOREM HoldsAreJustified == Spec => []HoldIsJustified
  <1>1. Inv => HoldIsJustified
    <2> SUFFICES ASSUME Inv, ClientRuns, client = [phase |-> "held", out |-> <<>>],
                        sys.commands = <<>>, ~sort
                 PROVE  ~online
      BY DEF HoldIsJustified
    <2>1. Sound(sys) /\ sys \in Systems
      BY Standing
    <2>2. sys.pid # NoPid /\ client.phase = "held" /\ client.out = <<>>
      BY DEF ClientRuns
    <2>3. sys.server = "accepted" /\ sys.callback
      BY <2>1, <2>2 DEF Inv, Held, NewClient, Sound, Systems
    <2>4. ~IsIn("hold", client.out) /\ ~IsIn("reconnecting", client.out)
      <3>1. Len(client.out) = 0
        BY <2>2
      <3> QED BY <3>1 DEF IsIn
    <2>5. sys.waiting /\ ~sys.release /\ sys.state # "connected"
      BY <2>2, <2>3, <2>4 DEF Inv, Held, Waits
    <2> QED BY <2>3, <2>5 DEF Inv, Heard
  <1> QED BY <1>1, OpenVPNInvariance, PTL
=============================================================================
