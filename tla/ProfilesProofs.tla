--------------------------- MODULE ProfilesProofs ---------------------------
(***************************************************************************)
(* Proofs about Profiles, for any services, profiles and configurations,   *)
(* and any number of exits and corruptions.  Services share nothing but    *)
(* the stack, so that the invariant has a part about each service, Sane,   *)
(* and a part about the lists; L stands for the profiles that are loaded.  *)
(***************************************************************************)
EXTENDS Profiles, TLAPS, SequenceTheorems, WellFoundedInduction, NaturalsInduction

\* The profile of the service is loaded and has an entry for it.
In(v, L) ==
    v.profile # Ephemeral => v.profile \in L /\ v.stored[v.profile] # None

\* The entry is the configuration.
Matches(v) ==
    v.profile # Ephemeral /\ ~v.astray => v.stored[v.profile] = v.config

Held(v, L) == In(v, L) /\ Matches(v)

\* The service is in order; only if |hid| holds it may be one that neither a
\* profile nor an endpoint shows.
Sane(s, v, L, hid) ==
    /\ v \in ServiceStates
    /\ v.dead = FALSE
    /\ v.known => Held(v, L)
    /\ s \in WiFi /\ v.known /\ v.profile = Ephemeral /\ ~v.endpoints => hid
    /\ ~v.known => v.profile = None /\ v.connected = FALSE

Once(sq) == \A i, j \in 1..Len(sq) : sq[i] = sq[j] => i = j

\* No profile is on the stack twice, waits to be restored twice, or both.
NoneTwice ==
    /\ Once(stack) /\ Once(left) /\ Once(list)
    /\ \A i \in 1..Len(stack), j \in 1..Len(left) : stack[i] # left[j]

Listed ==
    /\ up => list = Users(stack)
    /\ ~interrupted => session = IF up THEN Users(stack) \o left ELSE list

Inv ==
    /\ TypeOK
    /\ \A s \in Services : Sane(s, svc[s], Loaded, TRUE)
    /\ ~up => stack = <<>> /\ left = <<>> /\ \A s \in Services : ~svc[s].known
    /\ NoneTwice
    /\ Listed
-----------------------------------------------------------------------------
(***************************************************************************)
(* Induction over positions in a sequence, on sets of numbers.             *)
(***************************************************************************)
\* A set of numbers that is not empty has a least one.
LEMMA LeastNumber ==
  ASSUME NEW T, T \subseteq Nat, T # {}
  PROVE  \E x \in T : \A y \in T : ~(y < x)
  <1> DEFINE R == OpToRel(<, Nat)
  <1>1. IsWellFoundedOn(R, Nat)
    BY NatLessThanWellFounded, Zenon
  <1>2. \A x, y \in Nat : y < x => <<y, x>> \in R
    BY DEF OpToRel
  <1> HIDE DEF R
  <1>3. \E x \in T : \A y \in T : ~(<<y, x>> \in R)
    BY <1>1, WFMin, Zenon
  <1> QED BY <1>2, <1>3

\* A set with 0 and the successor of each of its members has every number.
LEMMA SetInduction ==
  ASSUME NEW T, T \subseteq Nat, 0 \in T, \A n \in T : n + 1 \in T
  PROVE  \A n \in Nat : n \in T
  <1>1. SUFFICES ASSUME Nat \ T # {} PROVE FALSE
    OBVIOUS
  <1>2. PICK x \in Nat \ T : \A y \in Nat \ T : ~(y < x)
    BY <1>1, LeastNumber
  <1>3. x # 0 /\ x - 1 \in Nat /\ x - 1 \notin Nat \ T
    BY <1>2
  <1> QED BY <1>2, <1>3
-----------------------------------------------------------------------------
(***************************************************************************)
(* What the operations on one service return.                              *)
(***************************************************************************)
\* Entries change in the profiles of L only.
Writes(v, r, L) == \A q \in Profiles \ L : r.stored[q] = v.stored[q]

\* What no save and no load changes.
Kept(v, r, L) ==
    /\ r \in ServiceStates
    /\ Writes(v, r, L)
    /\ r.known = v.known /\ r.endpoints = v.endpoints /\ r.connected = v.connected

\* The service can be saved, or saving it ends shill.
Savable(v, L) == v.profile = None \/ In(v, L)

LEMMA NoEntry ==
  /\ None \notin Configs /\ None \notin Profiles /\ Ephemeral \notin Profiles
  /\ None # Ephemeral
BY ProfilesAssumption DEF ProfilesAssumption, Configs, Profiles

LEMMA ServiceFields ==
  ASSUME NEW v \in ServiceStates
  PROVE  /\ v.stored \in [Profiles -> Configs \cup {None}]
         /\ v.known \in BOOLEAN
         /\ v.profile \in Profiles \cup {Ephemeral, None}
         /\ v.config \in Configs
         /\ v.endpoints \in BOOLEAN /\ v.connected \in BOOLEAN
         /\ v.explicit \in BOOLEAN /\ v.astray \in BOOLEAN /\ v.dead \in BOOLEAN
BY DEF ServiceStates

LEMMA KeptIsTransitive ==
  ASSUME NEW v, NEW u, NEW r, NEW L, Kept(v, u, L), Kept(u, r, L)
  PROVE  Kept(v, r, L)
BY DEF Kept, Writes

LEMMA KeptIsReflexive ==
  ASSUME NEW v \in ServiceStates, NEW L
  PROVE  Kept(v, v, L)
BY DEF Kept, Writes

\* Profile::UpdateService writes one entry.
LEMMA SaveWrites ==
  ASSUME NEW v \in ServiceStates, NEW p \in Profiles
  PROVE  LET r == Save(v, p)
         IN  /\ r \in ServiceStates
             /\ r.stored[p] = v.config
             /\ \A q \in Profiles \ {p} : r.stored[q] = v.stored[q]
             /\ r.astray = (v.astray /\ v.profile # p)
             /\ r.known = v.known /\ r.profile = v.profile /\ r.config = v.config
             /\ r.endpoints = v.endpoints /\ r.connected = v.connected
             /\ r.explicit = v.explicit /\ r.dead = v.dead
  <1> DEFINE f == [v.stored EXCEPT ![p] = v.config]
             a == v.astray /\ v.profile # p
  <1>1. /\ f \in [Profiles -> Configs \cup {None}] /\ f[p] = v.config
        /\ \A q \in Profiles \ {p} : f[q] = v.stored[q]
    BY ServiceFields
  <1>2. Save(v, p) = [v EXCEPT !.stored = f, !.astray = a]
    BY DEF Save, ServiceStates
  <1>3. a \in BOOLEAN
    OBVIOUS
  <1> HIDE DEF f
  <1>4. Save(v, p) \in ServiceStates
    BY <1>1, <1>2, <1>3 DEF ServiceStates
  <1>5. Save(v, p).stored = f /\ Save(v, p).astray = a
    BY <1>2, <1>3 DEF ServiceStates
  <1>6. LET r == Save(v, p)
        IN  /\ r.known = v.known /\ r.profile = v.profile /\ r.config = v.config
            /\ r.endpoints = v.endpoints /\ r.connected = v.connected
            /\ r.explicit = v.explicit /\ r.dead = v.dead
    BY <1>2 DEF ServiceStates
  <1> QED BY <1>1, <1>4, <1>5, <1>6

\* A save keeps the service in its profile, and the entry its configuration.
LEMMA SaveHolds ==
  ASSUME NEW L \in SUBSET Profiles, NEW v \in ServiceStates, NEW p \in L
  PROVE  LET r == Save(v, p)
         IN  /\ Kept(v, r, L)
             /\ In(v, L) => In(r, L)
             /\ Held(v, L) => Held(r, L)
             /\ v.profile = p => Held(r, L) /\ r.astray = FALSE
  <1> DEFINE r == Save(v, p)
  <1>1. /\ r \in ServiceStates /\ p \in Profiles
        /\ r.stored[p] = v.config
        /\ \A q \in Profiles \ {p} : r.stored[q] = v.stored[q]
        /\ r.astray = (v.astray /\ v.profile # p)
        /\ r.known = v.known /\ r.profile = v.profile /\ r.config = v.config
        /\ r.endpoints = v.endpoints /\ r.connected = v.connected
    BY SaveWrites
  <1> HIDE DEF r
  <1>2. v.config # None
    BY NoEntry, ServiceFields
  <1>3. Kept(v, r, L)
    BY <1>1 DEF Kept, Writes
  <1>4. In(v, L) => In(r, L)
    BY <1>1, <1>2 DEF In
  <1>5. v.profile = p => Held(r, L) /\ r.astray = FALSE
    BY <1>1, <1>2 DEF In, Held, Matches
  <1>6. Held(v, L) => Held(r, L)
    <2>1. CASE v.profile = p
      BY <1>5, <2>1
    <2>2. CASE v.profile # p
      <3>1. r.astray = v.astray
        BY <1>1, <2>2, ServiceFields
      <3> QED BY <1>1, <1>4, <2>2, <3>1 DEF Held, Matches, In
    <2> QED BY <2>1, <2>2
  <1> QED BY <1>3, <1>4, <1>5, <1>6 DEF r

\* One entry is erased, and the service no longer is in p.
Abandons(v, r, p) ==
    /\ r \in ServiceStates
    /\ p \in Profiles => r.stored[p] = None
    /\ \A q \in Profiles \ {p} : r.stored[q] = v.stored[q]
    /\ r.profile = IF v.profile = p THEN None ELSE v.profile
    /\ r.known = v.known /\ r.config = v.config /\ r.astray = v.astray
    /\ r.endpoints = v.endpoints /\ r.connected = v.connected
    /\ r.explicit = v.explicit /\ r.dead = v.dead

\* Profile::AbandonService
LEMMA AbandonErases ==
  ASSUME NEW v \in ServiceStates, NEW p \in Profiles \cup {Ephemeral, None}
  PROVE  Abandons(v, AbandonService(v, p), p)
  <1> DEFINE h == IF v.profile = p THEN None ELSE v.profile
             u == IF v.profile = p THEN [v EXCEPT !.profile = None] ELSE v
             f == IF p \in Profiles THEN [v.stored EXCEPT ![p] = None] ELSE v.stored
  <1>1. /\ f \in [Profiles -> Configs \cup {None}] /\ (p \in Profiles => f[p] = None)
        /\ \A q \in Profiles \ {p} : f[q] = v.stored[q]
    BY ServiceFields
  <1>2. h \in Profiles \cup {Ephemeral, None}
    BY ServiceFields
  <1>3. u = [v EXCEPT !.profile = h]
    BY DEF ServiceStates
  <1>4. AbandonService(v, p) = IF p \in Profiles THEN [u EXCEPT !.stored[p] = None] ELSE u
    BY DEF AbandonService
  <1> HIDE DEF u, h
  <1>5. AbandonService(v, p) = [v EXCEPT !.profile = h, !.stored = f]
    BY <1>3, <1>4 DEF ServiceStates
  <1> HIDE DEF f
  <1>6. AbandonService(v, p) \in ServiceStates
    BY <1>1, <1>2, <1>5 DEF ServiceStates
  <1>7. LET r == AbandonService(v, p)
        IN  /\ r.stored = f /\ r.profile = h
            /\ r.known = v.known /\ r.config = v.config /\ r.astray = v.astray
            /\ r.endpoints = v.endpoints /\ r.connected = v.connected
            /\ r.explicit = v.explicit /\ r.dead = v.dead
    BY <1>5 DEF ServiceStates
  <1> QED BY <1>1, <1>6, <1>7 DEF h, Abandons

\* The service is given another profile, and nothing else.
LEMMA ProfileIsSet ==
  ASSUME NEW v \in ServiceStates, NEW p \in Profiles \cup {Ephemeral, None}
  PROVE  LET r == [v EXCEPT !.profile = p]
         IN  /\ r \in ServiceStates
             /\ r.profile = p /\ r.stored = v.stored
             /\ r.known = v.known /\ r.config = v.config /\ r.astray = v.astray
             /\ r.endpoints = v.endpoints /\ r.connected = v.connected
             /\ r.explicit = v.explicit /\ r.dead = v.dead
BY DEF ServiceStates

\* The service is in p, and the entry its configuration.
Adopts(v, r, p, L) ==
    /\ Kept(v, r, L) /\ Held(r, L)
    /\ r.stored[p] = v.config
    /\ \A q \in Profiles \ {p} : r.stored[q] = v.stored[q]
    /\ r.profile = p /\ r.config = v.config /\ r.astray = FALSE
    /\ r.explicit = v.explicit /\ r.dead = v.dead

\* Profile::AdoptService
LEMMA AdoptHolds ==
  ASSUME NEW L \in SUBSET Profiles, NEW v \in ServiceStates, NEW p \in L
  PROVE  Adopts(v, AdoptService(v, p), p, L)
  <1> DEFINE u == [v EXCEPT !.profile = p]
             r == Save(u, p)
  <1>1. /\ u \in ServiceStates /\ p \in Profiles
        /\ u.profile = p /\ u.stored = v.stored
        /\ u.known = v.known /\ u.config = v.config
        /\ u.endpoints = v.endpoints /\ u.connected = v.connected
        /\ u.explicit = v.explicit /\ u.dead = v.dead
    BY ProfileIsSet
  <1>2. AdoptService(v, p) = r
    BY DEF AdoptService
  <1> HIDE DEF u
  <1>3. /\ r.stored[p] = u.config
        /\ \A q \in Profiles \ {p} : r.stored[q] = u.stored[q]
        /\ r.profile = u.profile /\ r.config = u.config
        /\ r.explicit = u.explicit /\ r.dead = u.dead
    BY <1>1, SaveWrites
  <1>4. Kept(u, r, L) /\ Held(r, L) /\ r.astray = FALSE
    <2>1. Kept(u, r, L)
      BY <1>1, SaveHolds
    <2>2. u.profile = p => Held(r, L)
      BY <1>1, SaveHolds
    <2>3. r.astray = FALSE
      BY <1>1, SaveWrites
    <2> QED BY <1>1, <2>1, <2>2, <2>3
  <1> HIDE DEF r
  <1>5. Kept(v, r, L)
    BY <1>1, <1>4 DEF Kept, Writes
  <1> QED BY <1>1, <1>2, <1>3, <1>4, <1>5 DEF Adopts

\* The configuration goes to one profile.
OneEntry(v, r, p) ==
    r.stored[p] = v.config /\ \A q \in Profiles \ {p} : r.stored[q] = v.stored[q]

\* Manager::MoveServiceToProfile: the service is in p, and no longer in the
\* profile it was in.
LEMMA MoveHolds ==
  ASSUME NEW L \in SUBSET Profiles, NEW v \in ServiceStates, NEW p \in L,
         Savable(v, L)
  PROVE  LET r == MoveServiceToProfile(v, p)
         IN  /\ Kept(v, r, L)
             /\ r.profile = p /\ r.config = v.config
             /\ r.explicit = v.explicit /\ r.dead = v.dead
             /\ v.profile # p \/ Held(v, L) => Held(r, L)
             /\ In(r, L)
             /\ v.profile \in {Ephemeral, None} => OneEntry(v, r, p)
  <1> DEFINE h == v.profile
             u == AdoptService(v, p)
             r == AbandonService(u, h)
  <1>1. CASE h = p
    <2>1. MoveServiceToProfile(v, p) = v
      BY <1>1 DEF MoveServiceToProfile
    <2>2. p \notin {Ephemeral, None}
      BY NoEntry
    <2> QED BY <1>1, <2>1, <2>2, KeptIsReflexive DEF Savable
  <1>2. CASE h # p
    <2>1. MoveServiceToProfile(v, p) = r
      BY <1>2 DEF MoveServiceToProfile
    <2>2. /\ Kept(v, u, L) /\ Held(u, L) /\ u \in ServiceStates
          /\ u.stored[p] = v.config
          /\ \A q \in Profiles \ {p} : u.stored[q] = v.stored[q]
          /\ u.profile = p /\ u.config = v.config /\ u.astray = FALSE
          /\ u.explicit = v.explicit /\ u.dead = v.dead
      <3>1. Adopts(v, u, p, L)
        BY AdoptHolds
      <3> HIDE DEF u
      <3> QED BY <3>1 DEF Adopts, Kept
    <2>3. h \in Profiles \cup {Ephemeral, None} /\ (h \in Profiles => h \in L)
      BY NoEntry, ServiceFields DEF Savable, In
    <2> HIDE DEF u, h
    <2>4. /\ r \in ServiceStates
          /\ \A q \in Profiles \ {h} : r.stored[q] = u.stored[q]
          /\ r.profile = p
          /\ r.known = u.known /\ r.config = u.config /\ r.astray = u.astray
          /\ r.endpoints = u.endpoints /\ r.connected = u.connected
          /\ r.explicit = u.explicit /\ r.dead = u.dead
      <3>1. Abandons(u, r, h)
        BY <2>2, <2>3, AbandonErases
      <3> HIDE DEF r
      <3> QED BY <1>2, <2>2, <3>1 DEF Abandons
    <2> HIDE DEF r
    <2>5. Kept(v, r, L)
      BY <2>2, <2>3, <2>4 DEF Kept, Writes
    <2>6. Held(r, L)
      BY <1>2, <2>2, <2>4 DEF Held, In, Matches
    <2>7. h \in {Ephemeral, None} => OneEntry(v, r, p)
      BY <2>2, <2>4, NoEntry DEF OneEntry
    <2> QED BY <2>1, <2>2, <2>4, <2>5, <2>6, <2>7 DEF h, Held
  <1> QED BY <1>1, <1>2

\* What a save does, whichever profile it goes to.
Saved(v, r, L) ==
    /\ Kept(v, r, L)
    /\ r.config = v.config
    /\ \A q \in Profiles : r.stored[q] = v.stored[q] \/ r.stored[q] = v.config
    /\ In(v, L) => In(r, L) /\ r.dead = v.dead
    /\ Held(v, L) => Held(r, L)
    /\ r.profile = Ephemeral => v.profile = Ephemeral
    /\ v.profile = None => r.profile = None

LEMMA SavedIsReflexive ==
  ASSUME NEW v \in ServiceStates, NEW L
  PROVE  Saved(v, v, L)
BY KeptIsReflexive DEF Saved

\* Manager::SaveServiceToProfile: an ephemeral service moves to the top.
LEMMA SaveServiceSaves ==
  ASSUME NEW L \in SUBSET Profiles, NEW v \in ServiceStates, NEW st \in Seq(L),
         Savable(v, L)
  PROVE  Saved(v, SaveServiceToProfile(v, st), L)
  <1> DEFINE r == SaveServiceToProfile(v, st)
  <1>1. CASE v.profile = Ephemeral /\ st = <<>>
    <2>1. r = v
      BY <1>1, NoEntry DEF SaveServiceToProfile
    <2> QED BY <2>1, SavedIsReflexive
  <1>2. CASE v.profile = Ephemeral /\ st # <<>>
    <2>1. r = MoveServiceToProfile(v, Last(st)) /\ Last(st) \in L
      <3>1. Last(st) \in L
        BY <1>2 DEF Last
      <3> QED BY <1>2, <3>1, NoEntry DEF SaveServiceToProfile
    <2>2. /\ Kept(v, r, L) /\ r.config = v.config /\ In(r, L) /\ r.dead = v.dead
          /\ Held(r, L)
          /\ r.profile = Last(st)
          /\ \A q \in Profiles : r.stored[q] = v.stored[q] \/ r.stored[q] = v.config
      <3> DEFINE p == Last(st)
      <3>1. p \in L /\ r = MoveServiceToProfile(v, p) /\ p # v.profile
        BY <1>2, <2>1, NoEntry
      <3> HIDE DEF p, r
      <3>2. /\ Kept(v, r, L) /\ r.config = v.config /\ In(r, L) /\ r.dead = v.dead
            /\ r.profile = p
        BY <3>1, MoveHolds
      <3>3. Held(r, L)
        BY <3>1, MoveHolds
      <3>4. \A q \in Profiles : r.stored[q] = v.stored[q] \/ r.stored[q] = v.config
        <4>1. v.profile \in {Ephemeral, None}
          BY <1>2
        <4>2. OneEntry(v, r, p)
          BY <3>1, <4>1, MoveHolds
        <4> QED BY <4>2 DEF OneEntry
      <3> QED BY <3>2, <3>3, <3>4 DEF p
    <2> HIDE DEF r
    <2> QED BY <1>2, <2>1, <2>2, NoEntry DEF Saved, r
  <1>3. CASE v.profile = None
    <2>1. r = [v EXCEPT !.dead = TRUE]
      BY <1>3, NoEntry DEF SaveServiceToProfile
    <2>2. r \in ServiceStates
      BY <2>1 DEF ServiceStates
    <2>3. /\ r.stored = v.stored /\ r.config = v.config /\ r.profile = v.profile
          /\ r.known = v.known /\ r.endpoints = v.endpoints /\ r.connected = v.connected
      BY <2>1 DEF ServiceStates
    <2>4. ~In(v, L)
      BY <1>3, NoEntry DEF In
    <2> HIDE DEF r
    <2> QED BY <1>3, <2>2, <2>3, <2>4, NoEntry DEF Saved, Kept, Writes, Held, r
  <1>4. CASE v.profile \notin {Ephemeral, None}
    <2> DEFINE p == v.profile
    <2>1. r = Save(v, p) /\ p \in L /\ p \in Profiles
      BY <1>4 DEF SaveServiceToProfile, Savable, In
    <2> HIDE DEF p, r
    <2>2. Kept(v, r, L) /\ (In(v, L) => In(r, L))
      BY <2>1, SaveHolds
    <2>3. Held(v, L) => Held(r, L)
      BY <2>1, SaveHolds
    <2>4. /\ \A q \in Profiles : r.stored[q] = v.stored[q] \/ r.stored[q] = v.config
          /\ r.profile = v.profile /\ r.config = v.config /\ r.dead = v.dead
      BY <2>1, SaveWrites
    <2> QED BY <2>2, <2>3, <2>4 DEF Saved, r
  <1> QED BY <1>1, <1>2, <1>3, <1>4

\* Manager::UpdateService
LEMMA UpdateServiceSaves ==
  ASSUME NEW L \in SUBSET Profiles, NEW v \in ServiceStates, NEW st \in Seq(L),
         v.connected => Savable(v, L)
  PROVE  /\ Saved(v, UpdateService(v, st), L)
         /\ ~v.connected => UpdateService(v, st) = v
BY SaveServiceSaves, SavedIsReflexive DEF UpdateService

\* The service is given the same state but for explicitly_disconnected_.
LEMMA ExplicitIsCleared ==
  ASSUME NEW v \in ServiceStates
  PROVE  LET r == [v EXCEPT !.explicit = FALSE]
         IN  /\ r \in ServiceStates
             /\ r.profile = v.profile /\ r.stored = v.stored
             /\ r.known = v.known /\ r.config = v.config /\ r.astray = v.astray
             /\ r.endpoints = v.endpoints /\ r.connected = v.connected
             /\ r.explicit = FALSE /\ r.dead = v.dead
BY DEF ServiceStates

\* Saving does not touch the flag.
LEMMA SaveServiceKeepsExplicit ==
  ASSUME NEW L \in SUBSET Profiles, NEW v \in ServiceStates, NEW st \in Seq(L),
         Savable(v, L)
  PROVE  SaveServiceToProfile(v, st).explicit = v.explicit
  <1>1. CASE v.profile = Ephemeral
    <2>1. st # <<>> => Last(st) \in L
      BY DEF Last
    <2>2. SaveServiceToProfile(v, st) =
             IF st = <<>> THEN v ELSE MoveServiceToProfile(v, Last(st))
      BY <1>1, NoEntry DEF SaveServiceToProfile
    <2>3. ASSUME NEW p \in L, NEW r, r = MoveServiceToProfile(v, p)
          PROVE  r.explicit = v.explicit
      BY <2>3, MoveHolds
    <2> QED BY <2>1, <2>2, <2>3
  <1>2. CASE v.profile = None
    <2>1. SaveServiceToProfile(v, st) = [v EXCEPT !.dead = TRUE]
      BY <1>2, NoEntry DEF SaveServiceToProfile
    <2> QED BY <2>1 DEF ServiceStates
  <1>3. CASE v.profile \notin {Ephemeral, None}
    <2>1. v.profile \in Profiles /\ SaveServiceToProfile(v, st) = Save(v, v.profile)
      BY <1>3 DEF SaveServiceToProfile, Savable, In
    <2> QED BY <2>1, SaveWrites
  <1> QED BY <1>1, <1>2, <1>3

\* What the service would save when explicitly_disconnected_ is cleared.
Pending(v) == v.explicit /\ v.connected

\* Neither entries, nor what of the service is compared with them.
Untouched(v, r) ==
    /\ r.stored = v.stored /\ r.profile = v.profile /\ r.config = v.config
    /\ r.astray = v.astray /\ r.dead = v.dead

\* Service::ClearExplicitlyDisconnected
LEMMA ClearSaves ==
  ASSUME NEW L \in SUBSET Profiles, NEW v \in ServiceStates, NEW st \in Seq(L),
         Pending(v) => Savable(v, L)
  PROVE  LET r == ClearExplicitlyDisconnected(v, st)
         IN  /\ Saved(v, r, L)
             /\ r.explicit = FALSE
             /\ ~Pending(v) => Untouched(v, r)
  <1> DEFINE u == [v EXCEPT !.explicit = FALSE]
             r == ClearExplicitlyDisconnected(v, st)
  <1>1. CASE ~v.explicit
    <2>1. r = v
      BY <1>1 DEF ClearExplicitlyDisconnected
    <2>2. v.explicit = FALSE
      BY <1>1, ServiceFields
    <2> HIDE DEF r
    <2> QED BY <2>1, <2>2, SavedIsReflexive DEF Untouched, r
  <1>2. CASE v.explicit
    <2>1. r = UpdateService(u, st)
      BY <1>2 DEF ClearExplicitlyDisconnected
    <2>2. /\ u \in ServiceStates
          /\ u.profile = v.profile /\ u.stored = v.stored
          /\ u.known = v.known /\ u.config = v.config /\ u.astray = v.astray
          /\ u.endpoints = v.endpoints /\ u.connected = v.connected
          /\ u.explicit = FALSE /\ u.dead = v.dead
      BY ExplicitIsCleared
    <2> HIDE DEF u, r
    <2>3. u.connected => Savable(u, L)
      BY <1>2, <2>2 DEF Pending, Savable, In
    <2>4. Saved(u, r, L) /\ (~u.connected => r = u)
      BY <2>1, <2>2, <2>3, UpdateServiceSaves
    <2>5. Saved(v, r, L)
      BY <2>2, <2>4 DEF Saved, Kept, Writes, In, Held, Matches
    <2>6. ~Pending(v) => Untouched(v, r)
      BY <1>2, <2>2, <2>4 DEF Pending, Untouched
    <2>7. r.explicit = FALSE
      BY <2>1, <2>2, <2>3, SaveServiceKeepsExplicit DEF UpdateService
    <2> QED BY <2>5, <2>6, <2>7 DEF r
  <1> QED BY <1>1, <1>2
\* The service is given another configuration, and nothing else.
LEMMA ConfigIsSet ==
  ASSUME NEW v \in ServiceStates, NEW c \in Configs
  PROVE  LET r == [v EXCEPT !.config = c]
         IN  /\ r \in ServiceStates
             /\ r.config = c /\ r.stored = v.stored
             /\ r.known = v.known /\ r.profile = v.profile /\ r.astray = v.astray
             /\ r.endpoints = v.endpoints /\ r.connected = v.connected
             /\ r.explicit = v.explicit /\ r.dead = v.dead
BY DEF ServiceStates

\* The service has what the entry in p says, or shill has ended.
Loads(v, r, p, L) ==
    /\ Kept(v, r, L)
    /\ r.stored[p] # None /\ (r.dead = FALSE => r.config = r.stored[p])
    /\ In(v, L) => In(r, L) /\ r.dead = v.dead
    /\ r.explicit = FALSE
    /\ ~Pending(v) => r.stored = v.stored /\ r.profile = v.profile /\ r.dead = v.dead

\* WiFiService::Load reads the entry in two parts, with a save of the service
\* between them that may rewrite the entry; the two parts fit all the same.
LEMMA LoadLoads ==
  ASSUME NEW L \in SUBSET Profiles, NEW v \in ServiceStates, NEW st \in Seq(L),
         NEW p \in L, v.stored[p] # None, Pending(v) => Savable(v, L)
  PROVE  Loads(v, Load(v, p, st), p, L)
  <1> DEFINE c == [v.config EXCEPT !.static = v.stored[p].static]
             w == [v EXCEPT !.config = c]
             u == ClearExplicitlyDisconnected(w, st)
             d == [u.config EXCEPT !.key = u.stored[p].key]
             r == IF u.dead THEN u ELSE [u EXCEPT !.config = d]
  <1>1. p \in Profiles /\ v.stored[p] \in Configs /\ v.config \in Configs
    BY ServiceFields
  <1>2. c \in Configs /\ c.static = v.stored[p].static
    BY <1>1 DEF Configs
  <1>3. [v EXCEPT !.config.static = v.stored[p].static] = w
    BY DEF ServiceStates
  <1>4. Load(v, p, st) = IF u.dead THEN u ELSE [u EXCEPT !.config.key = u.stored[p].key]
    BY <1>3 DEF Load
  <1> HIDE DEF c
  <1>5. /\ w \in ServiceStates
        /\ w.config = c /\ w.stored = v.stored
        /\ w.known = v.known /\ w.profile = v.profile /\ w.astray = v.astray
        /\ w.endpoints = v.endpoints /\ w.connected = v.connected
        /\ w.explicit = v.explicit /\ w.dead = v.dead
    BY <1>2, ConfigIsSet
  <1> HIDE DEF w
  <1>6. Pending(w) => Savable(w, L)
    BY <1>5 DEF Pending, Savable, In
  <1>7. Saved(w, u, L) /\ u.explicit = FALSE /\ (~Pending(w) => Untouched(w, u))
    BY <1>5, <1>6, ClearSaves
  <1>8. /\ u \in ServiceStates /\ u.config = c
        /\ u.stored[p] \in Configs /\ u.stored[p].static = c.static
    <2>1. u \in ServiceStates /\ u.config = c
      BY <1>5, <1>7 DEF Saved, Kept
    <2>2. u.stored[p] = v.stored[p] \/ u.stored[p] = c
      BY <1>1, <1>5, <1>7 DEF Saved
    <2> QED BY <1>1, <1>2, <2>1, <2>2
  <1>9. Load(v, p, st) = r
    BY <1>4, <1>8 DEF ServiceStates
  <1> HIDE DEF u
  <1>10. d \in Configs /\ d = u.stored[p]
    <2>1. ASSUME NEW a \in Configs, NEW e \in Configs, e.static = a.static
          PROVE  [a EXCEPT !.key = e.key] = e
      BY <2>1 DEF Configs
    <2> QED BY <1>2, <1>8, <2>1
  <1> HIDE DEF d
  <1>11. /\ r \in ServiceStates
         /\ r.stored = u.stored /\ r.known = u.known /\ r.profile = u.profile
         /\ r.endpoints = u.endpoints /\ r.connected = u.connected
         /\ r.explicit = u.explicit /\ r.dead = u.dead
         /\ r.dead = FALSE => r.config = d
    <2>1. CASE u.dead
      BY <1>8, <2>1
    <2>2. CASE ~u.dead
      <3>1. r = [u EXCEPT !.config = d]
        BY <2>2
      <3> HIDE DEF r
      <3> QED BY <1>8, <1>10, <3>1, ConfigIsSet
    <2> QED BY <2>1, <2>2
  <1> HIDE DEF r
  <1>12. Kept(v, r, L)
    BY <1>5, <1>7, <1>11 DEF Saved, Kept, Writes
  <1>13. r.stored[p] # None /\ (r.dead = FALSE => r.config = r.stored[p])
    BY <1>8, <1>10, <1>11, NoEntry
  <1>14. In(v, L) => In(r, L) /\ r.dead = v.dead
    <2>1. In(v, L) => In(w, L)
      BY <1>5 DEF In
    <2>2. In(w, L) => In(u, L) /\ u.dead = w.dead
      BY <1>7 DEF Saved
    <2>3. In(u, L) => In(r, L)
      BY <1>11 DEF In
    <2> QED BY <1>5, <1>11, <2>1, <2>2, <2>3
  <1>15. ~Pending(v) => r.stored = v.stored /\ r.profile = v.profile /\ r.dead = v.dead
    BY <1>5, <1>7, <1>11 DEF Pending, Untouched
  <1>16. r.explicit = FALSE
    BY <1>7, <1>11
  <1> QED BY <1>9, <1>12, <1>13, <1>14, <1>15, <1>16 DEF Loads

\* The service is in p, and has what its entry there says.
Configures(v, r, p, L) ==
    /\ Kept(v, r, L)
    /\ r.profile = p /\ r.stored[p] # None /\ r.astray = FALSE
    /\ r.dead = FALSE => Held(r, L) /\ r.config = r.stored[p]
    /\ In(v, L) \/ ~Pending(v) => r.dead = v.dead
    /\ v.explicit = FALSE => r.explicit = FALSE
    /\ ~Pending(v) /\ v.stored[p] # None => r.stored = v.stored

\* Profile::ConfigureService, LoadService
LEMMA ConfigureFromConfigures ==
  ASSUME NEW L \in SUBSET Profiles, NEW v \in ServiceStates, NEW st \in Seq(L),
         NEW p \in L, Pending(v) => Savable(v, L)
  PROVE  Configures(v, ConfigureFrom(v, p, st), p, L)
  <1> DEFINE u == IF v.stored[p] # None THEN Load(v, p, st) ELSE Save(v, p)
             r == [u EXCEPT !.profile = p, !.astray = FALSE]
  <1>1. ConfigureFrom(v, p, st) = r
    BY DEF ConfigureFrom
  <1>2. /\ Kept(v, u, L)
        /\ u.stored[p] # None /\ (u.dead = FALSE => u.config = u.stored[p])
        /\ In(v, L) \/ ~Pending(v) => u.dead = v.dead
        /\ v.explicit = FALSE => u.explicit = FALSE
        /\ ~Pending(v) /\ v.stored[p] # None => u.stored = v.stored
    <2>1. CASE v.stored[p] # None
      <3>1. u = Load(v, p, st)
        BY <2>1
      <3> HIDE DEF u
      <3>2. Loads(v, u, p, L)
        BY <2>1, <3>1, LoadLoads
      <3> QED BY <3>2 DEF Loads
    <2>2. CASE v.stored[p] = None
      <3>1. u = Save(v, p) /\ p \in Profiles
        BY <2>2
      <3> HIDE DEF u
      <3>2. Kept(v, u, L)
        BY <3>1, SaveHolds
      <3>3. /\ u.stored[p] = v.config /\ u.config = v.config
            /\ u.dead = v.dead /\ u.explicit = v.explicit
        BY <3>1, SaveWrites
      <3> QED BY <2>2, <3>2, <3>3, NoEntry, ServiceFields
    <2> QED BY <2>1, <2>2
  <1> HIDE DEF u
  <1>3. u \in ServiceStates /\ p \in Profiles
    BY <1>2 DEF Kept
  <1>4. r \in ServiceStates
    BY <1>3 DEF ServiceStates
  <1>5. /\ r.stored = u.stored /\ r.known = u.known /\ r.profile = p
        /\ r.endpoints = u.endpoints /\ r.connected = u.connected
        /\ r.explicit = u.explicit /\ r.dead = u.dead
        /\ r.astray = FALSE /\ r.config = u.config
    BY <1>3 DEF ServiceStates
  <1> HIDE DEF r
  <1>6. Kept(v, r, L)
    BY <1>2, <1>4, <1>5 DEF Kept, Writes
  <1>7. r.dead = FALSE => Held(r, L)
    BY <1>2, <1>5 DEF Held, In, Matches
  <1>8. In(v, L) \/ ~Pending(v) => r.dead = v.dead
    BY <1>2, <1>5
  <1>9. v.explicit = FALSE => r.explicit = FALSE
    BY <1>2, <1>5
  <1> QED BY <1>1, <1>2, <1>5, <1>6, <1>7, <1>8, <1>9 DEF Configures

\* A set of positions in a sequence that is not empty has a highest one.
LEMMA HighestPosition ==
  ASSUME NEW n \in Nat, NEW T, T \subseteq 1..n, T # {}
  PROVE  Max(T) \in T
  <1> DEFINE D == {k \in Nat : n - k \in T}
  <1>1. D \subseteq Nat /\ D # {}
    <2>1. PICK x \in T : TRUE
      OBVIOUS
    <2>2. n - x \in Nat /\ n - (n - x) = x
      BY <2>1
    <2> QED BY <2>1, <2>2
  <1>2. PICK k \in D : \A y \in D : ~(y < k)
    BY <1>1, LeastNumber
  <1>3. n - k \in T
    BY <1>2
  <1>4. \A y \in T : n - k >= y
    <2> TAKE y \in T
    <2>1. n - y \in Nat /\ n - (n - y) = y /\ y \in Nat
      OBVIOUS
    <2>2. ~(n - y < k)
      BY <1>2, <2>1
    <2> QED BY <1>2, <2>1, <2>2
  <1>5. \E x \in T : \A y \in T : x >= y
    BY <1>3, <1>4
  <1> QED BY <1>5 DEF Max
\* What the first profile that accepts the service makes of it, if there is one.
Matched(s, v, st, r, L) ==
    /\ Kept(v, r, L)
    /\ r.dead = FALSE => Held(r, L)
    /\ In(v, L) \/ ~Pending(v) => r.dead = v.dead
    /\ v.explicit = FALSE => r.explicit = FALSE
    /\ s \in WiFi /\ ~Pending(v) => r.stored = v.stored
    /\ Accepting(s, v, st) = {} => r.profile = Ephemeral /\ r.dead = v.dead
    /\ Accepting(s, v, st) # {} =>
         /\ r.profile \in L
         /\ r.dead = FALSE => r.config = r.stored[r.profile]

\* Manager::MatchProfileWithService
LEMMA MatchMatches ==
  ASSUME NEW L \in SUBSET Profiles, NEW v \in ServiceStates, NEW st \in Seq(L),
         NEW s, Pending(v) => Savable(v, L)
  PROVE  Matched(s, v, st, MatchProfileWithService(s, v, st), L)
  <1> DEFINE fits == Accepting(s, v, st)
             r == MatchProfileWithService(s, v, st)
  <1>1. CASE fits = {}
    <2>1. r = [v EXCEPT !.profile = Ephemeral]
      BY <1>1 DEF MatchProfileWithService
    <2> HIDE DEF r
    <2>2. /\ r \in ServiceStates
          /\ r.profile = Ephemeral /\ r.stored = v.stored
          /\ r.known = v.known /\ r.endpoints = v.endpoints /\ r.connected = v.connected
          /\ r.explicit = v.explicit /\ r.dead = v.dead
      BY <2>1, ProfileIsSet
    <2>3. Held(r, L)
      BY <2>2 DEF Held, In, Matches
    <2> QED BY <1>1, <2>2, <2>3 DEF Matched, Kept, Writes, r
  <1>2. CASE fits # {}
    <2> DEFINE p == st[Max(fits)]
    <2>1. fits \subseteq 1..Len(st) /\ Len(st) \in Nat
      BY DEF Accepting
    <2>2. Max(fits) \in fits
      BY <1>2, <2>1, HighestPosition
    <2>3. p \in L /\ Accepts(p, s, v)
      BY <2>1, <2>2 DEF Accepting
    <2>4. r = ConfigureFrom(v, p, st)
      BY <1>2 DEF MatchProfileWithService
    <2> HIDE DEF p, r, fits
    <2>5. Configures(v, r, p, L)
      BY <2>3, <2>4, ConfigureFromConfigures
    <2>6. s \in WiFi => v.stored[p] # None
      BY <2>3, ProfilesAssumption DEF Accepts, ProfilesAssumption
    <2>7. p # Ephemeral
      BY <2>3, NoEntry
    <2> QED BY <1>2, <2>3, <2>5, <2>6, <2>7 DEF Configures, Matched, r, fits
  <1> QED BY <1>1, <1>2

LEMMA KnownIsSet ==
  ASSUME NEW v \in ServiceStates
  PROVE  LET r == [v EXCEPT !.known = TRUE]
         IN  /\ r \in ServiceStates
             /\ r.config = v.config /\ r.stored = v.stored
             /\ r.known = TRUE /\ r.profile = v.profile /\ r.astray = v.astray
             /\ r.endpoints = v.endpoints /\ r.connected = v.connected
             /\ r.explicit = v.explicit /\ r.dead = v.dead
BY DEF ServiceStates

\* The service is in the manager, with a profile of L if one accepts it.
Registered(s, v, st, r, L) ==
    /\ r \in ServiceStates /\ Writes(v, r, L)
    /\ r.known = TRUE /\ r.connected = FALSE /\ r.dead = FALSE
    /\ Held(r, L)
    /\ r.endpoints = v.endpoints
    /\ r.profile = Ephemeral => Accepting(s, v, st) = {}

\* Manager::RegisterService, of a service that is new.
LEMMA RegisterRegisters ==
  ASSUME NEW L \in SUBSET Profiles, NEW s, NEW hid, NEW v, Sane(s, v, L, hid), ~v.known,
         NEW st \in Seq(L)
  PROVE  Registered(s, v, st, RegisterService(s, v, st), L)
  <1> DEFINE m == MatchProfileWithService(s, v, st)
             r == [m EXCEPT !.known = TRUE]
  <1>1. v \in ServiceStates /\ v.connected = FALSE /\ v.dead = FALSE /\ ~Pending(v)
    BY DEF Sane, Pending
  <1>2. Matched(s, v, st, m, L)
    BY <1>1, MatchMatches
  <1>3. RegisterService(s, v, st) = r
    BY DEF RegisterService
  <1> HIDE DEF m
  <1>4. /\ Kept(v, m, L) /\ m.dead = FALSE /\ Held(m, L)
        /\ m.profile = Ephemeral => Accepting(s, v, st) = {}
    BY <1>1, <1>2, NoEntry DEF Matched
  <1>5. /\ r \in ServiceStates
        /\ r.config = m.config /\ r.stored = m.stored
        /\ r.known = TRUE /\ r.profile = m.profile /\ r.astray = m.astray
        /\ r.endpoints = m.endpoints /\ r.connected = m.connected /\ r.dead = m.dead
    BY <1>4, KnownIsSet DEF Kept
  <1> HIDE DEF r
  <1>6. Held(r, L)
    BY <1>4, <1>5 DEF Held, In, Matches
  <1> QED BY <1>1, <1>3, <1>4, <1>5, <1>6 DEF Kept, Writes, Registered

LEMMA NewServiceIsSane ==
  ASSUME NEW L, NEW s, NEW hid, NEW f \in [Profiles -> Configs \cup {None}]
  PROVE  LET r == NewService(f)
         IN  /\ Sane(s, r, L, hid)
             /\ r.stored = f /\ r.config.key = None /\ r.known = FALSE
             /\ r.connected = FALSE /\ r.dead = FALSE
  <1>1. Unset \in Configs /\ Unset.key = None
    BY DEF Unset, Configs
  <1> DEFINE r == NewService(f)
  <1>2. r \in ServiceStates
    BY <1>1 DEF NewService, ServiceStates
  <1>3. /\ r.stored = f /\ r.config = Unset /\ r.known = FALSE /\ r.profile = None
        /\ r.connected = FALSE /\ r.dead = FALSE
    BY DEF NewService
  <1> HIDE DEF r
  <1> QED BY <1>1, <1>2, <1>3 DEF Sane, r

\* A save, and clearing explicitly_disconnected_, leave a service in order.
LEMMA UpdateIsSane ==
  ASSUME NEW L \in SUBSET Profiles, NEW s, NEW hid, NEW v, Sane(s, v, L, hid), NEW st \in Seq(L)
  PROVE  LET r == UpdateService(v, st)
         IN  Sane(s, r, L, hid) /\ Writes(v, r, L)
  <1> DEFINE r == UpdateService(v, st)
  <1>1. v \in ServiceStates /\ (v.connected => Savable(v, L))
    BY DEF Sane, Savable, Held
  <1>2. Saved(v, r, L) /\ (~v.connected => r = v)
    BY <1>1, UpdateServiceSaves
  <1> HIDE DEF r
  <1>3. v.known => Held(v, L) /\ In(v, L)
    BY DEF Sane, Held
  <1>4. CASE v.known
    BY <1>2, <1>3, <1>4 DEF Sane, Saved, Kept, r
  <1>5. CASE ~v.known
    BY <1>2, <1>5 DEF Sane, Saved, Kept, r
  <1> QED BY <1>4, <1>5

LEMMA ClearIsSane ==
  ASSUME NEW L \in SUBSET Profiles, NEW s, NEW hid, NEW v, Sane(s, v, L, hid), NEW st \in Seq(L)
  PROVE  LET r == ClearExplicitlyDisconnected(v, st)
         IN  Sane(s, r, L, hid) /\ Kept(v, r, L) /\ ~Pending(r)
  <1> DEFINE r == ClearExplicitlyDisconnected(v, st)
  <1>1. v \in ServiceStates /\ (Pending(v) => Savable(v, L))
    BY DEF Sane, Savable, Held, Pending
  <1>2. Saved(v, r, L) /\ r.explicit = FALSE /\ (~Pending(v) => Untouched(v, r))
    BY <1>1, ClearSaves
  <1> HIDE DEF r
  <1>3. v.known => Held(v, L) /\ In(v, L)
    BY DEF Sane, Held
  <1>4. CASE v.known
    BY <1>2, <1>3, <1>4 DEF Sane, Saved, Kept, r, Pending
  <1>5. CASE ~v.known
    <2>1. ~Pending(v)
      BY <1>5 DEF Sane, Pending
    <2> QED BY <1>2, <1>5, <2>1 DEF Sane, Saved, Kept, r, Untouched, Pending
  <1> QED BY <1>4, <1>5
\* Service::Unload.  A service that keeps its profile loses its passphrase.
Unloads(v, r, L) ==
    /\ r \in ServiceStates /\ Writes(v, r, L)
    /\ r.known = v.known /\ r.endpoints = v.endpoints
    /\ r.connected => v.connected
    /\ r.config.key = None
    /\ In(v, L) => Held(r, L) /\ r.dead = v.dead
    /\ ~Pending(v) => r.stored = v.stored /\ r.dead = v.dead

LEMMA UnloadUnloads ==
  ASSUME NEW L \in SUBSET Profiles, NEW v \in ServiceStates, NEW st \in Seq(L),
         NEW s, NEW at_once, Pending(v) => Savable(v, L)
  PROVE  Unloads(v, Unload(s, v, st, at_once), L)
  <1> DEFINE u == ClearExplicitlyDisconnected(v, st)
             c == [u.config EXCEPT !.key = None]
             a == u.profile \in Profiles
             on == u.connected /\ s \in WiFi /\ ~at_once
             r == Unload(s, v, st, at_once)
  <1>1. Saved(v, u, L) /\ (~Pending(v) => Untouched(v, u))
    BY ClearSaves
  <1>2. u \in ServiceStates /\ u.config \in Configs
    BY <1>1, ServiceFields DEF Saved, Kept
  <1>3. c \in Configs /\ c.key = None
    BY <1>2 DEF Configs
  <1>4. r = [u EXCEPT !.config.key = None, !.astray = a, !.connected = on]
    BY DEF Unload
  <1> HIDE DEF u
  <1>5. r = [u EXCEPT !.config = c, !.astray = a, !.connected = on]
    BY <1>2, <1>4 DEF ServiceStates
  <1>6. a \in BOOLEAN /\ on \in BOOLEAN /\ (on => u.connected) /\ (u.profile \in Profiles => a)
    OBVIOUS
  <1> HIDE DEF r, c, a, on
  <1>7. r \in ServiceStates
    BY <1>2, <1>3, <1>5, <1>6 DEF ServiceStates
  <1>8. /\ r.config = c /\ r.astray = a /\ r.connected = on /\ r.stored = u.stored
        /\ r.profile = u.profile /\ r.known = u.known /\ r.endpoints = u.endpoints
        /\ r.dead = u.dead
    BY <1>2, <1>3, <1>5, <1>6 DEF ServiceStates
  <1>9. /\ Writes(v, r, L) /\ r.known = v.known /\ r.endpoints = v.endpoints
        /\ r.connected => v.connected
    BY <1>1, <1>6, <1>8 DEF Saved, Kept, Writes
  <1>10. In(v, L) => Held(r, L) /\ r.dead = v.dead
    <2> SUFFICES ASSUME In(v, L) PROVE Held(r, L) /\ r.dead = v.dead
      OBVIOUS
    <2>1. In(u, L) /\ u.dead = v.dead
      BY <1>1 DEF Saved
    <2>2. In(r, L)
      BY <1>8, <2>1 DEF In
    <2>3. Matches(r)
      BY <1>6, <1>8, <2>1 DEF Matches, In
    <2> QED BY <1>8, <2>1, <2>2, <2>3 DEF Held
  <1>11. ~Pending(v) => r.stored = v.stored /\ r.dead = v.dead
    BY <1>1, <1>8 DEF Untouched
  <1> QED BY <1>3, <1>7, <1>8, <1>9, <1>10, <1>11 DEF Unloads, r

\* The service is gone, or stays without a passphrase.
GivesUp(s, v, r, L, hid) ==
    /\ Sane(s, r, L, hid) /\ Writes(v, r, L)
    /\ r.config.key = None
    /\ ~Pending(v) => r.stored = v.stored

\* Manager::UnloadService
LEMMA UnloadServiceGivesUp ==
  ASSUME NEW L \in SUBSET Profiles, NEW v \in ServiceStates, NEW st \in Seq(L),
         NEW s, NEW hid, NEW at_once, v.known, v.dead = FALSE, In(v, L)
  PROVE  GivesUp(s, v, UnloadService(s, v, st, at_once), L, hid)
  <1> DEFINE u == Unload(s, v, st, at_once)
             r == UnloadService(s, v, st, at_once)
  <1>1. Unloads(v, u, L)
    BY UnloadUnloads DEF Savable
  <1>2. r = IF s \in WiFi /\ ~u.endpoints THEN NewService(u.stored) ELSE u
    BY DEF UnloadService
  <1> HIDE DEF u, r
  <1>3. u \in ServiceStates /\ u.known = v.known /\ Held(u, L) /\ u.dead = FALSE
    BY <1>1 DEF Unloads
  <1>4. CASE s \in WiFi /\ ~u.endpoints
    <2>1. r = NewService(u.stored)
      BY <1>2, <1>4
    <2>2. Sane(s, r, L, hid) /\ r.stored = u.stored /\ r.config.key = None
      BY <1>3, <2>1, NewServiceIsSane, ServiceFields
    <2> QED BY <1>1, <2>2 DEF Unloads, Writes, GivesUp, r
  <1>5. CASE ~(s \in WiFi /\ ~u.endpoints)
    <2>1. r = u
      BY <1>2, <1>5
    <2>2. Sane(s, r, L, hid)
      BY <1>3, <1>5, <2>1 DEF Sane
    <2> QED BY <1>1, <2>1, <2>2 DEF Unloads, GivesUp, r
  <1> QED BY <1>4, <1>5

\* Service::SaveToProfile, after the configuration has changed.
LEMMA ConfigIsSaved ==
  ASSUME NEW L \in SUBSET Profiles, NEW v \in ServiceStates, NEW c \in Configs,
         v.profile \in Profiles => v.profile \in L
  PROVE  LET r == SaveToProfile([v EXCEPT !.config = c])
         IN  /\ Kept(v, r, L)
             /\ r.profile = v.profile /\ r.dead = v.dead /\ r.config = c
             /\ In(v, L) => Held(r, L)
             /\ v.profile = None => r.stored = v.stored
             /\ \A q \in Profiles \ {v.profile} : r.stored[q] = v.stored[q]
  <1> DEFINE u == [v EXCEPT !.config = c]
             r == SaveToProfile(u)
             p == v.profile
  <1>1. /\ u \in ServiceStates
        /\ u.config = c /\ u.stored = v.stored
        /\ u.known = v.known /\ u.profile = p /\ u.astray = v.astray
        /\ u.endpoints = v.endpoints /\ u.connected = v.connected /\ u.dead = v.dead
    BY ConfigIsSet
  <1>2. r = IF p \in Profiles THEN Save(u, p) ELSE u
    BY <1>1 DEF SaveToProfile
  <1>3. p \in Profiles => p \in L
    OBVIOUS
  <1> HIDE DEF u, r, p
  <1>4. CASE p \in Profiles
    <2>1. Kept(u, r, L) /\ (u.profile = p => Held(r, L))
      BY <1>1, <1>2, <1>3, <1>4, SaveHolds
    <2>2. /\ r.profile = p /\ r.dead = v.dead /\ r.config = c
          /\ \A q \in Profiles \ {p} : r.stored[q] = v.stored[q]
      BY <1>1, <1>2, <1>4, SaveWrites
    <2>3. Kept(v, r, L)
      BY <1>1, <2>1 DEF Kept, Writes
    <2> QED BY <1>1, <1>4, <2>1, <2>2, <2>3, NoEntry DEF r, u, p
  <1>5. CASE p \notin Profiles
    <2>1. r = u
      BY <1>2, <1>5
    <2>2. Kept(v, r, L)
      BY <1>1, <2>1 DEF Kept, Writes
    <2>3. In(v, L) => Held(r, L)
      BY <1>1, <1>5, <2>1 DEF In, Held, Matches, p
    <2> QED BY <1>1, <2>1, <2>2, <2>3 DEF r, u, p
  <1> QED BY <1>4, <1>5

\* Service::Configure
LEMMA ConfigureHolds ==
  ASSUME NEW L \in SUBSET Profiles, NEW v \in ServiceStates, NEW args \in Args,
         v.profile \in Profiles => v.profile \in L
  PROVE  LET r == Configure(v, args)
         IN  /\ Kept(v, r, L)
             /\ r.profile = v.profile /\ r.dead = v.dead
             /\ In(v, L) => In(r, L)
             /\ Held(v, L) => Held(r, L)
             /\ \A q \in Profiles \ {v.profile} : r.stored[q] = v.stored[q]
  <1> DEFINE c == [key |-> IF args.key = Keep THEN v.config.key ELSE args.key,
                   static |-> IF args.static = Keep THEN v.config.static ELSE args.static]
             r == Configure(v, args)
  <1>1. r = IF c = v.config THEN v ELSE SaveToProfile([v EXCEPT !.config = c])
    BY DEF Configure
  <1>2. v.config \in Configs
    BY ServiceFields
  <1>3. c \in Configs
    BY <1>2 DEF Configs, Args
  <1> HIDE DEF c, r
  <1>4. CASE c = v.config
    BY <1>1, <1>4, KeptIsReflexive DEF r
  <1>5. CASE c # v.config
    <2>1. r = SaveToProfile([v EXCEPT !.config = c])
      BY <1>1, <1>5
    <2>2. /\ Kept(v, r, L)
          /\ r.profile = v.profile /\ r.dead = v.dead
          /\ In(v, L) => Held(r, L)
          /\ \A q \in Profiles \ {v.profile} : r.stored[q] = v.stored[q]
      BY <1>3, <2>1, ConfigIsSaved
    <2> QED BY <2>2 DEF Held, r
  <1> QED BY <1>4, <1>5
\* Manager::SetupServiceInProfile: p has an entry for the service.
LEMMA SetupHolds ==
  ASSUME NEW L \in SUBSET Profiles, NEW v \in ServiceStates, NEW args \in Args,
         NEW p \in L
  PROVE  LET r == SetupServiceInProfile(v, p, args)
         IN  /\ Kept(v, r, L) /\ Held(r, L)
             /\ r.profile = p /\ r.dead = v.dead
             /\ \A q \in Profiles \ {p} : r.stored[q] = v.stored[q]
  <1> DEFINE u == [v EXCEPT !.profile = p]
             c == Configure(u, args)
             r == Save(c, p)
  <1>1. SetupServiceInProfile(v, p, args) = r
    BY DEF SetupServiceInProfile
  <1>2. /\ u \in ServiceStates /\ p \in Profiles
        /\ u.profile = p /\ u.stored = v.stored /\ u.known = v.known
        /\ u.endpoints = v.endpoints /\ u.connected = v.connected /\ u.dead = v.dead
    BY ProfileIsSet
  <1> HIDE DEF u
  <1>3. /\ Kept(u, c, L) /\ c.profile = p /\ c.dead = v.dead
        /\ \A q \in Profiles \ {p} : c.stored[q] = v.stored[q]
    <2>1. u.profile \in Profiles => u.profile \in L
      BY <1>2
    <2> HIDE DEF c
    <2>2. c = Configure(u, args)
      BY DEF c
    <2>3. /\ Kept(u, c, L) /\ c.profile = u.profile /\ c.dead = u.dead
          /\ \A q \in Profiles \ {u.profile} : c.stored[q] = u.stored[q]
      BY <1>2, <2>1, <2>2, ConfigureHolds
    <2> QED BY <1>2, <2>3
  <1> HIDE DEF c
  <1>4. c \in ServiceStates
    BY <1>3 DEF Kept
  <1>5. Kept(c, r, L) /\ (c.profile = p => Held(r, L))
    BY <1>4, SaveHolds
  <1>6. /\ r.profile = p /\ r.dead = v.dead
        /\ \A q \in Profiles \ {p} : r.stored[q] = v.stored[q]
    BY <1>2, <1>3, <1>4, SaveWrites
  <1> HIDE DEF r
  <1>7. Kept(v, r, L)
    BY <1>2, <1>3, <1>5 DEF Kept, Writes
  <1> QED BY <1>1, <1>3, <1>5, <1>6, <1>7

\* Manager::ConfigureService
LEMMA ConfiguredHolds ==
  ASSUME NEW L \in SUBSET Profiles, NEW v \in ServiceStates, NEW args \in Args,
         NEW p \in L, NEW specified, stack \in Seq(L),
         v.dead = FALSE, Held(v, L)
  PROVE  LET r == Configured(v, p, specified, args)
         IN  /\ Kept(v, r, L) /\ Held(r, L)
             /\ r.profile # Ephemeral /\ r.dead = FALSE
  <1> DEFINE w == Load(v, p, stack)
             a == IF v.profile = p \/ v.stored[p] = None THEN v
                  ELSE [w EXCEPT !.astray = TRUE]
             c == Configure(a, args)
             b == Save(c, p)
             r == Configured(v, p, specified, args)
  <1>1. Kept(v, a, L) /\ Held(a, L) /\ a.dead = FALSE
    <2>1. CASE v.profile = p \/ v.stored[p] = None
      BY <2>1, KeptIsReflexive
    <2>2. CASE ~(v.profile = p \/ v.stored[p] = None)
      <3>1. a = [w EXCEPT !.astray = TRUE]
        BY <2>2
      <3>2. In(v, L) /\ (Pending(v) => Savable(v, L))
        BY DEF Held, Savable
      <3>3. Loads(v, w, p, L)
        BY <2>2, <3>2, LoadLoads
      <3> HIDE DEF w, a
      <3>4. Kept(v, w, L) /\ In(w, L) /\ w.dead = FALSE
        BY <3>2, <3>3 DEF Loads
      <3>5. /\ a \in ServiceStates /\ a.astray = TRUE
            /\ a.stored = w.stored /\ a.known = w.known /\ a.profile = w.profile
            /\ a.endpoints = w.endpoints /\ a.connected = w.connected /\ a.dead = w.dead
        BY <3>1, <3>4 DEF Kept, ServiceStates
      <3>6. Kept(v, a, L)
        BY <3>4, <3>5 DEF Kept, Writes
      <3>7. Held(a, L)
        BY <3>4, <3>5 DEF Held, In, Matches
      <3> QED BY <3>4, <3>5, <3>6, <3>7
    <2> QED BY <2>1, <2>2
  <1>2. r = IF b.profile = Ephemeral \/ (specified /\ b.profile # p)
            THEN MoveServiceToProfile(b, p) ELSE b
    BY DEF Configured
  <1> HIDE DEF a, r
  <1>3. Kept(v, c, L) /\ Held(c, L) /\ c.dead = FALSE
    <2>1. a \in ServiceStates /\ (a.profile \in Profiles => a.profile \in L)
      BY <1>1, NoEntry DEF Kept, Held, In
    <2>2. Kept(a, c, L) /\ (Held(a, L) => Held(c, L)) /\ c.dead = a.dead
      BY <2>1, ConfigureHolds
    <2> HIDE DEF c
    <2> QED BY <1>1, <2>2, KeptIsTransitive
  <1> HIDE DEF c
  <1>4. Kept(v, b, L) /\ Held(b, L) /\ b.dead = FALSE
    <2>1. c \in ServiceStates /\ p \in Profiles
      BY <1>3 DEF Kept
    <2>2. Kept(c, b, L) /\ (Held(c, L) => Held(b, L))
      BY <2>1, SaveHolds
    <2>3. b.dead = c.dead
      BY <2>1, SaveWrites
    <2> HIDE DEF b
    <2> QED BY <1>3, <2>2, <2>3, KeptIsTransitive
  <1> HIDE DEF b
  <1>5. CASE b.profile = Ephemeral \/ (specified /\ b.profile # p)
    <2>1. r = MoveServiceToProfile(b, p) /\ b \in ServiceStates /\ Savable(b, L)
      BY <1>2, <1>4, <1>5 DEF Kept, Held, Savable
    <2>2. Kept(b, r, L) /\ r.profile = p /\ r.dead = b.dead
      BY <2>1, MoveHolds
    <2>3. Held(r, L)
      BY <1>4, <2>1, MoveHolds
    <2>4. p # Ephemeral
      BY NoEntry
    <2> QED BY <1>4, <2>2, <2>3, <2>4, KeptIsTransitive DEF r
  <1>6. CASE ~(b.profile = Ephemeral \/ (specified /\ b.profile # p))
    BY <1>2, <1>4, <1>6 DEF r
  <1> QED BY <1>5, <1>6

-----------------------------------------------------------------------------
(***************************************************************************)
(* The profiles that come and go.                                          *)
(***************************************************************************)
\* A service stays in order when more profiles are loaded.
LEMMA SaneIsMonotonic ==
  ASSUME NEW s, NEW hid, NEW v, NEW L, NEW M, L \subseteq M, Sane(s, v, L, hid)
  PROVE  Sane(s, v, M, hid)
BY DEF Sane, Held, In

\* Manager::PushProfileInternal, for one service.
LEMMA JoinsIsSane ==
  ASSUME NEW L \in SUBSET Profiles, NEW st \in Seq(L), NEW p \in L,
         NEW i \in 1..Len(st), st[i] = p,
         NEW s, NEW hid, NEW v, Sane(s, v, L, hid)
  PROVE  LET r == Joins(s, v, p, st)
         IN  Sane(s, r, L, hid) /\ Writes(v, r, L)
  <1> DEFINE u == ClearExplicitlyDisconnected(v, st)
             r == Joins(s, v, p, st)
  <1>1. CASE v.known
    <2>1. r = IF Accepts(p, s, u) THEN ConfigureFrom(u, p, st) ELSE u
      BY <1>1 DEF Joins
    <2>2. Sane(s, u, L, hid) /\ Kept(v, u, L) /\ ~Pending(u)
      BY ClearIsSane
    <2> HIDE DEF u, r
    <2>3. u \in ServiceStates /\ u.known /\ u.dead = FALSE
      BY <1>1, <2>2 DEF Sane, Kept
    <2>4. CASE Accepts(p, s, u)
      <3>1. r = ConfigureFrom(u, p, st)
        BY <2>1, <2>4
      <3>2. Configures(u, r, p, L)
        BY <2>2, <2>3, <3>1, ConfigureFromConfigures
      <3>3. Kept(u, r, L) /\ r.dead = FALSE /\ Held(r, L) /\ r.profile = p
        BY <2>2, <2>3, <3>2 DEF Configures
      <3>4. p # Ephemeral
        BY NoEntry
      <3> QED BY <2>2, <2>3, <3>3, <3>4 DEF Sane, Kept, Writes, r
    <2>5. CASE ~Accepts(p, s, u)
      BY <2>1, <2>2, <2>5 DEF Kept, r
    <2> QED BY <2>4, <2>5
  <1>2. CASE ~v.known /\ s \in WiFi /\ v.stored[p] # None
    <2>1. r = RegisterService(s, v, st)
      BY <1>2 DEF Joins
    <2> HIDE DEF r
    <2>2. Registered(s, v, st, r, L)
      BY <1>2, <2>1, RegisterRegisters
    <2>3. i \in Accepting(s, v, st)
      BY <1>2 DEF Accepting, Accepts
    <2> QED BY <2>2, <2>3 DEF Sane, r, Registered
  <1>3. CASE ~v.known /\ ~(s \in WiFi /\ v.stored[p] # None)
    BY <1>3 DEF Joins, Writes
  <1> QED BY <1>1, <1>2, <1>3

\* A WiFi service of p is left without a passphrase, or with the one of a
\* profile of M, and its entries as they were.
LogsOut(s, v, r, p, M) ==
    (s \in WiFi /\ v.known /\ v.profile = p /\ ~Pending(v)) =>
        /\ r.stored = v.stored
        /\ r.config.key = None \/ \E q \in M : r.stored[q] = r.config

\* Manager::PopProfileInternal, for one service: it no longer is in p.
LEMMA LeavesIsSane ==
  ASSUME NEW L \in SUBSET Profiles, NEW M \in SUBSET L, NEW st \in Seq(M),
         NEW p, L = M \cup {p},
         NEW s, NEW hid, NEW v, Sane(s, v, L, hid), NEW at_once
  PROVE  LET r == Leaves(s, v, p, st, at_once)
         IN  Sane(s, r, M, hid) /\ Writes(v, r, L) /\ LogsOut(s, v, r, p, M)
  <1> DEFINE u == ClearExplicitlyDisconnected(v, st)
             m == MatchProfileWithService(s, u, st)
             r == Leaves(s, v, p, st, at_once)
  <1>1. CASE ~v.known
    <2>1. r = v
      BY <1>1 DEF Leaves
    <2> QED BY <1>1, <2>1 DEF Sane, Writes, LogsOut
  <1>2. CASE v.known
    <2>1. r = IF u.profile # p THEN u
              ELSE IF Accepting(s, u, st) # {} THEN m
              ELSE UnloadService(s, m, st, at_once)
      BY <1>2 DEF Leaves
    <2>2. st \in Seq(L) /\ M \in SUBSET Profiles
      OBVIOUS
    <2>3. Sane(s, u, L, hid) /\ Kept(v, u, L) /\ ~Pending(u)
      BY <2>2, ClearIsSane
    <2>4. ~Pending(v) => Untouched(v, u)
      BY <2>2, ClearSaves DEF Sane
    <2> HIDE DEF u, r
    <2>5. u \in ServiceStates /\ u.known /\ u.dead = FALSE
      BY <1>2, <2>3 DEF Sane, Kept
    <2>6. CASE u.profile # p
      <3>1. r = u
        BY <2>1, <2>6
      <3>2. Sane(s, r, M, hid)
        BY <2>3, <2>6, <3>1 DEF Sane, Held, In
      <3> QED BY <2>3, <2>4, <2>6, <3>1, <3>2 DEF Untouched, Kept, r, LogsOut
    <2>7. CASE u.profile = p
      <3>1. Matched(s, u, st, m, M)
        BY <2>2, <2>3, <2>5, MatchMatches
      <3> HIDE DEF m
      <3>2. /\ Kept(u, m, M) /\ m.dead = FALSE /\ Held(m, M) /\ m \in ServiceStates
            /\ m.known /\ (s \in WiFi => m.stored = u.stored)
        BY <2>3, <2>5, <3>1 DEF Matched, Kept
      <3>3. CASE Accepting(s, u, st) # {}
        <4>1. r = m
          BY <2>1, <2>7, <3>3
        <4>2. m.profile \in M /\ m.config = m.stored[m.profile] /\ m.profile # Ephemeral
          BY <2>2, <3>1, <3>2, <3>3, NoEntry DEF Matched
        <4>3. Sane(s, m, M, hid)
          BY <3>2, <4>2 DEF Sane
        <4>4. Writes(v, m, L)
          BY <2>3, <3>2 DEF Kept, Writes
        <4> QED BY <2>4, <3>2, <4>1, <4>2, <4>3, <4>4 DEF Untouched, r, LogsOut
      <3>4. CASE Accepting(s, u, st) = {}
        <4>1. r = UnloadService(s, m, st, at_once)
          BY <2>1, <2>7, <3>4
        <4>2. GivesUp(s, m, r, M, hid)
          <5>1. In(m, M)
            BY <3>2 DEF Held
          <5> QED BY <2>2, <3>2, <4>1, <5>1, UnloadServiceGivesUp
        <4>3. ~Pending(m)
          <5>1. m.explicit = FALSE \/ ~m.connected
            BY <2>3, <2>5, <3>1, ServiceFields DEF Pending, Matched, Kept
          <5> QED BY <5>1 DEF Pending
        <4>4. Sane(s, r, M, hid) /\ r.config.key = None /\ r.stored = m.stored
          BY <4>2, <4>3 DEF GivesUp
        <4>5. Writes(v, r, L)
          BY <2>3, <3>2, <4>4 DEF Kept, Writes
        <4> QED BY <2>4, <3>2, <4>4, <4>5 DEF Untouched, r, LogsOut
      <3> QED BY <3>3, <3>4
    <2> QED BY <2>6, <2>7
  <1> QED BY <1>1, <1>2
-----------------------------------------------------------------------------
(***************************************************************************)
(* The actions of one service.                                             *)
(***************************************************************************)
\* The service may become r: it is in order unless shill ends, and no profile
\* that is not loaded has been written to.
Follows(s, v, r, L, hid) ==
    /\ r \in ServiceStates
    /\ Writes(v, r, L)
    /\ r.dead = FALSE => Sane(s, r, L, hid)

LEMMA WritesIsTransitive ==
  ASSUME NEW v, NEW u, NEW r, NEW L, Writes(v, u, L), Writes(u, r, L)
  PROVE  Writes(v, r, L)
BY DEF Writes

\* A service that is known follows if it is held, and known to be in range
\* where no profile remembers it.
LEMMA HeldFollows ==
  ASSUME NEW s, NEW hid, NEW v, NEW r, NEW L, Writes(v, r, L), r \in ServiceStates,
         r.known, r.dead = FALSE => Held(r, L),
         s \in WiFi => r.profile # Ephemeral \/ r.endpoints \/ hid
  PROVE  Follows(s, v, r, L, hid)
BY DEF Follows, Sane

LEMMA SaneFollows ==
  ASSUME NEW s, NEW hid, NEW v, NEW r, NEW L, Writes(v, r, L), Sane(s, r, L, hid)
  PROVE  Follows(s, v, r, L, hid)
BY DEF Follows, Sane

\* The service GetService returns, known or made.
LEMMA GetServiceHolds ==
  ASSUME NEW L \in SUBSET Profiles, stack \in Seq(L), NEW s, NEW hid, Sane(s, svc[s], L, hid)
  PROVE  LET r == GetService(s)
         IN  /\ r \in ServiceStates /\ Writes(svc[s], r, L)
             /\ r.known = TRUE /\ r.dead = FALSE /\ Held(r, L)
  <1> DEFINE v == svc[s]
             r == GetService(s)
  <1>1. r = IF v.known THEN v ELSE RegisterService(s, v, stack)
    BY DEF GetService
  <1> HIDE DEF r, v
  <1>2. Sane(s, v, L, hid)
    BY DEF v
  <1>3. CASE v.known
    <2>1. r = v /\ v.known = TRUE
      BY <1>1, <1>2, <1>3, ServiceFields DEF Sane
    <2> QED BY <1>2, <1>3, <2>1 DEF Sane, Writes, r, v
  <1>4. CASE ~v.known
    <2>1. r = RegisterService(s, v, stack)
      BY <1>1, <1>4
    <2>2. Registered(s, v, stack, r, L)
      BY <1>2, <1>4, <2>1, RegisterRegisters
    <2> QED BY <2>2 DEF Registered, r, v
  <1> QED BY <1>3, <1>4

LEMMA ConfiguredFollows ==
  ASSUME NEW L \in SUBSET Profiles, stack \in Seq(L), NEW s, NEW hid, Sane(s, svc[s], L, hid),
         NEW p \in L, NEW specified, NEW args \in Args
  PROVE  Follows(s, svc[s], Configured(GetService(s), p, specified, args), L, hid)
  <1> DEFINE g == GetService(s)
             r == Configured(g, p, specified, args)
  <1>1. /\ g \in ServiceStates /\ Writes(svc[s], g, L)
        /\ g.known = TRUE /\ g.dead = FALSE /\ Held(g, L)
    BY GetServiceHolds
  <1> HIDE DEF g
  <1>2. Kept(g, r, L) /\ Held(r, L)
    BY <1>1, ConfiguredHolds
  <1>3. r.profile # Ephemeral
    BY <1>1, ConfiguredHolds
  <1> HIDE DEF r
  <1>4. Writes(svc[s], r, L) /\ r \in ServiceStates /\ r.known
    BY <1>1, <1>2, WritesIsTransitive DEF Kept
  <1>5. Follows(s, svc[s], r, L, hid)
    BY <1>2, <1>3, <1>4, HeldFollows
  <1> QED BY <1>5 DEF r, g

\* Manager::GetService may make a service that nothing shows.
LEMMA RequestServiceFollows ==
  ASSUME NEW L \in SUBSET Profiles, stack \in Seq(L), NEW s, NEW hid,
         Sane(s, svc[s], L, hid), NEW args \in Args
  PROVE  Follows(s, svc[s], Configure(GetService(s), args), L, TRUE)
  <1> DEFINE g == GetService(s)
             r == Configure(g, args)
  <1>1. /\ g \in ServiceStates /\ Writes(svc[s], g, L)
        /\ g.known = TRUE /\ g.dead = FALSE /\ Held(g, L)
    BY GetServiceHolds
  <1> HIDE DEF g
  <1>2. g.profile \in Profiles => g.profile \in L
    BY <1>1, NoEntry DEF Held, In
  <1>3. Kept(g, r, L) /\ Held(r, L) /\ r.dead = FALSE
    BY <1>1, <1>2, ConfigureHolds
  <1> HIDE DEF r
  <1>4. Writes(svc[s], r, L) /\ r \in ServiceStates /\ r.known
    BY <1>1, <1>3, WritesIsTransitive DEF Kept
  <1>5. Follows(s, svc[s], r, L, TRUE)
    BY <1>3, <1>4, HeldFollows
  <1> QED BY <1>5 DEF r, g

LEMMA ConfigureServiceForProfileFollows ==
  ASSUME NEW L \in SUBSET Profiles, stack \in Seq(L), NEW s, NEW hid, Sane(s, svc[s], L, hid),
         Loaded = L, NEW p, NEW args \in Args, ConfigureServiceForProfile(s, p, args)
  PROVE  \E r : Becomes(s, r) /\ Follows(s, svc[s], r, L, hid)
  <1> DEFINE v == svc[s]
             temporary == [NewService(v.stored) EXCEPT
                             !.config = IF v.stored[p] # None THEN v.stored[p] ELSE Unset]
             into == v.profile \in {p, Ephemeral} \/ IsProfileBefore(v.profile, p)
             f == SetupServiceInProfile(temporary, p, args).stored
  <1>1. /\ p \in L
        /\ CASE ~v.known -> Becomes(s, Configured(GetService(s), p, TRUE, args))
             [] v.known /\ into -> Becomes(s, SetupServiceInProfile(v, p, args))
             [] OTHER -> Becomes(s, [v EXCEPT !.stored = f])
    BY DEF ConfigureServiceForProfile
  <1>2. v \in ServiceStates /\ Sane(s, v, L, hid) /\ p \in Profiles
    BY <1>1 DEF Sane
  <1>3. CASE ~v.known
    <2>1. Becomes(s, Configured(GetService(s), p, TRUE, args))
      BY <1>1, <1>3
    <2> QED BY <1>1, <2>1, ConfiguredFollows
  <1>4. CASE v.known /\ into
    <2> DEFINE r == SetupServiceInProfile(v, p, args)
    <2>1. Becomes(s, r)
      BY <1>1, <1>4
    <2> HIDE DEF r, v, into
    <2>2. Kept(v, r, L) /\ Held(r, L) /\ r.profile = p /\ p # Ephemeral
      <3>1. r = SetupServiceInProfile(v, p, args) /\ v \in ServiceStates /\ p \in L
        BY <1>1, <1>2 DEF r
      <3>2. Kept(v, r, L) /\ Held(r, L)
        BY <3>1, SetupHolds
      <3>3. r.profile = p
        BY <3>1, SetupHolds
      <3> QED BY <3>1, <3>2, <3>3, NoEntry
    <2>4. Follows(s, v, r, L, hid)
      BY <1>4, <2>2, HeldFollows DEF Kept
    <2> QED BY <2>1, <2>4 DEF v
  <1>5. CASE v.known /\ ~into
    <2> DEFINE r == [v EXCEPT !.stored = f]
    <2>1. Becomes(s, r)
      BY <1>1, <1>5
    <2>2. temporary \in ServiceStates /\ temporary.stored = v.stored
      <3>1. NewService(v.stored) \in ServiceStates /\ NewService(v.stored).stored = v.stored
        BY <1>2, NewServiceIsSane, ServiceFields DEF Sane
      <3>2. (IF v.stored[p] # None THEN v.stored[p] ELSE Unset) \in Configs
        BY <1>2, ServiceFields DEF Unset, Configs
      <3> QED BY <3>1, <3>2, ConfigIsSet
    <2> HIDE DEF temporary
    <2>3. f \in [Profiles -> Configs \cup {None}] /\ \A q \in Profiles \ {p} : f[q] = v.stored[q]
      <3> DEFINE y == SetupServiceInProfile(temporary, p, args)
      <3>1. Kept(temporary, y, L) /\ \A q \in Profiles \ {p} : y.stored[q] = temporary.stored[q]
        BY <1>1, <2>2, SetupHolds
      <3> HIDE DEF y
      <3>2. y.stored \in [Profiles -> Configs \cup {None}]
        BY <3>1, ServiceFields DEF Kept
      <3> QED BY <2>2, <3>1, <3>2 DEF y
    <2> HIDE DEF f
    <2>4. r \in ServiceStates
      BY <1>2, <2>3 DEF ServiceStates
    <2>5. /\ r.stored = f /\ r.known = v.known /\ r.profile = v.profile
          /\ r.config = v.config /\ r.astray = v.astray /\ r.endpoints = v.endpoints
      BY <1>2 DEF ServiceStates
    <2> HIDE DEF r
    <2>6. v.profile \in Profiles \ {p} /\ Held(v, L)
      BY <1>2, <1>5 DEF Sane, Held, In
    <2>7. Held(r, L)
      BY <2>3, <2>5, <2>6 DEF Held, In, Matches
    <2>8. Follows(s, v, r, L, hid)
      BY <1>1, <1>5, <2>3, <2>4, <2>5, <2>6, <2>7, HeldFollows, NoEntry DEF Writes
    <2> QED BY <2>1, <2>8
  <1> QED BY <1>3, <1>4, <1>5
LEMMA SetPropertyFollows ==
  ASSUME NEW L \in SUBSET Profiles, NEW s, NEW hid,
         Sane(s, svc[s], L, hid), NEW config \in Configs, SetProperty(s, config)
  PROVE  \E r : Becomes(s, r) /\ Follows(s, svc[s], r, L, hid)
  <1> DEFINE v == svc[s]
             r == SaveToProfile([v EXCEPT !.config = config])
  <1>1. v.known /\ Becomes(s, r) /\ Sane(s, v, L, hid)
    BY DEF SetProperty
  <1> HIDE DEF v
  <1>2. v \in ServiceStates /\ In(v, L) /\ (v.profile \in Profiles => v.profile \in L)
    BY <1>1, NoEntry DEF Sane, Held, In
  <1>3. Kept(v, r, L) /\ (In(v, L) => Held(r, L))
    BY <1>2, ConfigIsSaved
  <1>4. r.profile = v.profile
    BY <1>2, ConfigIsSaved
  <1> HIDE DEF r
  <1>5. Follows(s, v, r, L, hid)
    <2>1. s \in WiFi => r.profile # Ephemeral \/ r.endpoints \/ hid
      BY <1>1, <1>3, <1>4 DEF Kept, Sane
    <2>2. Writes(v, r, L) /\ r \in ServiceStates /\ r.known /\ (r.dead = FALSE => Held(r, L))
      BY <1>1, <1>2, <1>3, ServiceFields DEF Kept, Sane
    <2> QED BY <2>1, <2>2, HeldFollows
  <1> QED BY <1>1, <1>5 DEF v

LEMMA SetProfileFollows ==
  ASSUME NEW L \in SUBSET Profiles, Loaded = L, NEW s, NEW hid,
         Sane(s, svc[s], L, hid), NEW p, SetProfileForService(s, p)
  PROVE  \E r : Becomes(s, r) /\ Follows(s, svc[s], r, L, hid)
  <1> DEFINE v == svc[s]
             r == MoveServiceToProfile(v, p)
  <1>1. v.known /\ p \in L /\ Becomes(s, r) /\ Sane(s, v, L, hid)
    BY DEF SetProfileForService
  <1> HIDE DEF v
  <1>2. v \in ServiceStates /\ Held(v, L) /\ Savable(v, L)
    BY <1>1 DEF Sane, Held, Savable
  <1>3. Kept(v, r, L) /\ (v.profile # p \/ Held(v, L) => Held(r, L))
    BY <1>1, <1>2, MoveHolds
  <1>4. r.profile = p /\ p # Ephemeral
    <2>1. p \in L /\ v \in ServiceStates /\ Savable(v, L)
      BY <1>1, <1>2
    <2>2. r.profile = p
      BY ONLY L \in SUBSET Profiles, <2>1, MoveHolds
    <2> QED BY <1>1, <2>2, NoEntry
  <1> HIDE DEF r
  <1>5. Follows(s, v, r, L, hid)
    <2>1. r.profile # Ephemeral
      BY <1>4
    <2>2. Writes(v, r, L) /\ r \in ServiceStates /\ r.known /\ Held(r, L)
      BY <1>1, <1>2, <1>3 DEF Kept
    <2> QED BY <2>1, <2>2, HeldFollows
  <1> QED BY <1>1, <1>5 DEF v

\* The entry in p is gone, and no other entry has changed.
Forgets(v, r, p) ==
    r.stored[p] = None /\ \A q \in Profiles \ {p} : r.stored[q] = v.stored[q]

\* The service has been matched with the profiles once p has abandoned it.
Rematched(s, v, st, p, a, m, L) ==
    /\ Kept(v, m, L) /\ m.known
    /\ m.dead = FALSE => Held(m, L)
    /\ Accepting(s, a, st) # {} => m.profile \in L
    /\ Accepting(s, a, st) = {} => In(m, L) /\ m.dead = FALSE
    /\ s \in WiFi /\ ~v.connected => Forgets(v, m, p)

LEMMA AbandonedIsRematched ==
  ASSUME NEW L \in SUBSET Profiles, NEW st \in Seq(L), NEW s, NEW hid, NEW v, Sane(s, v, L, hid),
         NEW p \in L, v.profile = p,
         NEW a, a = AbandonService(v, p)
  PROVE  Rematched(s, v, st, p, a, MatchProfileWithService(s, a, st), L)
  <1> DEFINE m == MatchProfileWithService(s, a, st)
  <1>1. v \in ServiceStates /\ p \in Profiles /\ v.known /\ v.dead = FALSE
    BY NoEntry DEF Sane
  <1>2. /\ a \in ServiceStates /\ a.stored[p] = None
        /\ \A q \in Profiles \ {p} : a.stored[q] = v.stored[q]
        /\ a.profile = None
        /\ a.known = v.known /\ a.endpoints = v.endpoints /\ a.connected = v.connected
        /\ a.dead = v.dead
    <2>1. Abandons(v, a, p)
      BY <1>1, AbandonErases
    <2> QED BY <1>1, <2>1 DEF Abandons
  <1>3. Savable(a, L)
    BY <1>2 DEF Savable
  <1>4. Matched(s, a, st, m, L)
    BY <1>2, <1>3, MatchMatches
  <1> HIDE DEF m
  <1>5. Kept(v, m, L)
    BY <1>2, <1>4 DEF Matched, Kept, Writes
  <1>6. Accepting(s, a, st) = {} => In(m, L) /\ m.dead = FALSE
    BY <1>1, <1>2, <1>4 DEF Matched, In
  <1>7. (s \in WiFi /\ ~v.connected) => Forgets(v, m, p)
    BY <1>2, <1>4 DEF Matched, Pending, Forgets
  <1>8. Accepting(s, a, st) # {} => m.profile \in L
    BY <1>4 DEF Matched
  <1>9. m.dead = FALSE => Held(m, L)
    BY <1>4 DEF Matched
  <1> QED BY <1>1, <1>5, <1>6, <1>7, <1>8, <1>9 DEF Kept, Rematched, m

\* Profile.DeleteEntry
LEMMA DeleteEntryFollows ==
  ASSUME NEW L \in SUBSET Profiles, Loaded = L, stack \in Seq(L),
         NEW s, NEW hid, Sane(s, svc[s], L, hid), NEW p, DeleteEntry(p, s)
  PROVE  \E r : /\ Becomes(s, r) /\ Follows(s, svc[s], r, L, hid)
                /\ (s \in WiFi /\ svc[s].profile = p /\ ~svc[s].connected)
                     => Forgets(svc[s], r, p)
  <1> DEFINE v == svc[s]
             a == AbandonService(v, p)
             m == MatchProfileWithService(s, a, stack)
  <1>1. PICK at_once \in BOOLEAN :
           Becomes(s, CASE v.profile # p -> a
                        [] v.profile = p /\ Accepting(s, a, stack) # {} -> m
                        [] OTHER -> UnloadService(s, m, stack, at_once))
    BY DEF DeleteEntry
  <1>2. p \in L /\ p \in Profiles /\ v \in ServiceStates /\ Sane(s, v, L, hid)
    BY DEF DeleteEntry, Sane
  <1> HIDE DEF v
  <1>3. CASE v.profile # p
    <2>1. Becomes(s, a)
      BY <1>1, <1>3
    <2>2. /\ a \in ServiceStates
          /\ \A q \in Profiles \ {p} : a.stored[q] = v.stored[q]
          /\ a.profile = v.profile
          /\ a.known = v.known /\ a.config = v.config /\ a.astray = v.astray
          /\ a.endpoints = v.endpoints /\ a.connected = v.connected /\ a.dead = v.dead
      <3>1. Abandons(v, a, p)
        BY <1>2, AbandonErases
      <3> HIDE DEF a
      <3> QED BY <1>3, <3>1 DEF Abandons
    <2> HIDE DEF a
    <2>3. Writes(v, a, L)
      BY <1>2, <2>2 DEF Writes
    <2>4. Held(v, L) => Held(a, L)
      BY <1>3, <2>2 DEF Held, In, Matches
    <2>5. Follows(s, v, a, L, hid)
      BY <1>2, <2>2, <2>3, <2>4 DEF Follows, Sane
    <2> QED BY <1>3, <2>1, <2>5 DEF v
  <1>4. CASE v.profile = p
    <2> HIDE DEF a, m
    <2>1. a = AbandonService(v, p) /\ m = MatchProfileWithService(s, a, stack)
      BY DEF a, m
    <2>2. /\ Kept(v, m, L) /\ m.known /\ (m.dead = FALSE => Held(m, L))
          /\ Accepting(s, a, stack) # {} => m.profile \in L
          /\ Accepting(s, a, stack) = {} => In(m, L) /\ m.dead = FALSE
          /\ (s \in WiFi /\ ~v.connected) => Forgets(v, m, p)
      <3>1. Rematched(s, v, stack, p, a, m, L)
        BY <1>2, <1>4, <2>1, AbandonedIsRematched
      <3> QED BY <3>1 DEF Rematched
    <2>3. CASE Accepting(s, a, stack) # {}
      <3>1. Becomes(s, m)
        BY <1>1, <1>4, <2>3
      <3>2. Follows(s, v, m, L, hid)
        BY <2>2, <2>3, HeldFollows, NoEntry DEF Kept
      <3> QED BY <2>2, <3>1, <3>2 DEF v
    <2>4. CASE Accepting(s, a, stack) = {}
      <3> DEFINE r == UnloadService(s, m, stack, at_once)
      <3>1. Becomes(s, r)
        BY <1>1, <1>4, <2>4
      <3> HIDE DEF r
      <3>2. m \in ServiceStates /\ m.known /\ m.dead = FALSE /\ In(m, L)
        BY <2>2, <2>4 DEF Kept
      <3>3. /\ Sane(s, r, L, hid) /\ Writes(m, r, L)
            /\ ~Pending(m) => r.stored = m.stored
        <4>1. GivesUp(s, m, r, L, hid)
          BY <3>2, UnloadServiceGivesUp DEF r
        <4> QED BY <4>1 DEF GivesUp
      <3>4. Follows(s, v, r, L, hid)
        BY <2>2, <3>3, WritesIsTransitive, SaneFollows DEF Kept
      <3>5. (s \in WiFi /\ ~v.connected) => Forgets(v, r, p)
        BY <2>2, <3>3 DEF Kept, Pending, Forgets
      <3> QED BY <3>1, <3>4, <3>5 DEF v
    <2> QED BY <2>3, <2>4
  <1> QED BY <1>3, <1>4

\* Manager::RemoveService
LEMMA RemoveServiceFollows ==
  ASSUME NEW L \in SUBSET Profiles, stack \in Seq(L),
         NEW s, NEW hid, Sane(s, svc[s], L, hid), RemoveService(s)
  PROVE  \E r : /\ Becomes(s, r) /\ Follows(s, svc[s], r, L, hid)
                /\ (s \in WiFi /\ svc[s].profile \in Profiles /\ ~svc[s].connected)
                     => Forgets(svc[s], r, svc[s].profile)
  <1> DEFINE v == svc[s]
             p == v.profile
             a == AbandonService(v, p)
             x == MatchProfileWithService(s, a, stack)
             m == IF p = Ephemeral THEN v ELSE x
  <1>1. PICK at_once \in BOOLEAN :
           Becomes(s, IF p # Ephemeral /\ Accepting(s, a, stack) # {}
                      THEN IF m.dead THEN m ELSE UpdateService(m, stack)
                      ELSE UpdateService(UnloadService(s, m, stack, at_once), stack))
    BY DEF RemoveService
  <1>2. v \in ServiceStates /\ Sane(s, v, L, hid) /\ v.known /\ v.dead = FALSE /\ In(v, L)
    BY DEF RemoveService, Sane, Held
  <1>3. p # Ephemeral => p \in L
    BY <1>2 DEF In
  <1> HIDE DEF v, p, a, x
  <1>4. a = AbandonService(v, p) /\ x = MatchProfileWithService(s, a, stack) /\ v.profile = p
    BY DEF a, x, p
  <1>5. p # Ephemeral =>
          /\ Kept(v, x, L) /\ x.known /\ (x.dead = FALSE => Held(x, L))
          /\ Accepting(s, a, stack) # {} => x.profile \in L
          /\ Accepting(s, a, stack) = {} => In(x, L) /\ x.dead = FALSE
          /\ (s \in WiFi /\ ~v.connected) => Forgets(v, x, p)
    <2>1. p # Ephemeral => Rematched(s, v, stack, p, a, x, L)
      BY <1>2, <1>3, <1>4, AbandonedIsRematched
    <2> QED BY <2>1 DEF Rematched
  <1>6. CASE p # Ephemeral /\ Accepting(s, a, stack) # {}
    <2> DEFINE r == IF x.dead THEN x ELSE UpdateService(x, stack)
    <2>1. Becomes(s, r)
      BY <1>1, <1>6
    <2>2. x \in ServiceStates /\ x.profile # Ephemeral /\ x.connected = v.connected
      BY <1>5, <1>6, NoEntry DEF Kept
    <2>3. CASE x.dead
      <3>1. Follows(s, v, x, L, hid)
        BY <1>5, <1>6, <2>2, HeldFollows DEF Kept
      <3>2. r = x
        BY <2>3
      <3> QED BY <1>3, <1>5, <1>6, <2>1, <3>1, <3>2, <1>4 DEF v
    <2>4. CASE ~x.dead
      <3>1. Sane(s, x, L, hid)
        <4>1. x.dead = FALSE
          BY <2>2, <2>4, ServiceFields
        <4> QED BY <1>5, <1>6, <2>2, <4>1 DEF Sane
      <3>2. r = UpdateService(x, stack)
        BY <2>4
      <3> HIDE DEF r
      <3>3. Sane(s, r, L, hid) /\ Writes(x, r, L)
        BY <3>1, <3>2, UpdateIsSane
      <3>4. ~v.connected => r = x
        BY <2>2, <3>2 DEF UpdateService
      <3>5. Follows(s, v, r, L, hid)
        BY <1>5, <1>6, <3>3, WritesIsTransitive, SaneFollows DEF Kept
      <3> QED BY <1>3, <1>4, <1>5, <1>6, <2>1, <3>4, <3>5 DEF v
    <2> QED BY <2>3, <2>4
  <1>7. CASE ~(p # Ephemeral /\ Accepting(s, a, stack) # {})
    <2> DEFINE u == UnloadService(s, m, stack, at_once)
               r == UpdateService(u, stack)
    <2>1. Becomes(s, r)
      BY <1>1, <1>7
    <2>2. /\ m \in ServiceStates /\ m.known /\ m.dead = FALSE /\ In(m, L)
          /\ Writes(v, m, L) /\ m.connected = v.connected
          /\ (p # Ephemeral /\ s \in WiFi /\ ~v.connected) => Forgets(v, m, p)
      <3>1. CASE p = Ephemeral
        BY <1>2, <3>1 DEF Writes
      <3>2. CASE p # Ephemeral
        <4>1. m = x
          BY <3>2
        <4> HIDE DEF m
        <4> QED BY <1>5, <1>7, <3>2, <4>1 DEF Kept
      <3> QED BY <3>1, <3>2
    <2> HIDE DEF m
    <2>3. Sane(s, u, L, hid) /\ Writes(m, u, L) /\ (~Pending(m) => u.stored = m.stored)
      <3>1. GivesUp(s, m, u, L, hid)
        BY <2>2, UnloadServiceGivesUp
      <3> QED BY <3>1 DEF GivesUp
    <2>4. ~m.connected => ~u.connected
      <3> DEFINE y == Unload(s, m, stack, at_once)
      <3>1. Unloads(m, y, L)
        BY <2>2, UnloadUnloads DEF Savable
      <3>2. y \in ServiceStates /\ (y.connected => m.connected)
        BY <3>1 DEF Unloads
      <3>3. u = IF s \in WiFi /\ ~y.endpoints THEN NewService(y.stored) ELSE y
        BY DEF UnloadService
      <3> HIDE DEF y, u
      <3>4. NewService(y.stored).connected = FALSE
        BY DEF NewService
      <3> QED BY <3>2, <3>3, <3>4
    <2> HIDE DEF u
    <2>5. Sane(s, r, L, hid) /\ Writes(u, r, L)
      BY <2>3, UpdateIsSane
    <2>6. ~u.connected => r = u
      BY DEF UpdateService
    <2> HIDE DEF r
    <2>7. Follows(s, v, r, L, hid)
      BY <2>2, <2>3, <2>5, WritesIsTransitive, SaneFollows
    <2>8. (p # Ephemeral /\ s \in WiFi /\ ~v.connected) => Forgets(v, r, p)
      BY <2>2, <2>3, <2>4, <2>6 DEF Pending, Forgets
    <2>9. p \in Profiles => p # Ephemeral
      BY NoEntry
    <2> QED BY <1>4, <2>1, <2>7, <2>8, <2>9 DEF v
  <1> QED BY <1>6, <1>7
LEMMA OnEndpointAddedFollows ==
  ASSUME NEW L \in SUBSET Profiles, stack \in Seq(L), NEW s, NEW hid, Sane(s, svc[s], L, hid),
         OnEndpointAdded(s)
  PROVE  \E r : Becomes(s, r) /\ Follows(s, svc[s], r, L, hid)
  <1> DEFINE g == GetService(s)
             u == [g EXCEPT !.endpoints = TRUE]
             r == UpdateService(u, stack)
  <1>1. Becomes(s, r)
    BY DEF OnEndpointAdded
  <1>2. /\ g \in ServiceStates /\ Writes(svc[s], g, L)
        /\ g.known = TRUE /\ g.dead = FALSE /\ Held(g, L)
    BY GetServiceHolds
  <1> HIDE DEF g
  <1>3. /\ u \in ServiceStates
        /\ u.stored = g.stored /\ u.known = g.known /\ u.profile = g.profile
        /\ u.config = g.config /\ u.endpoints = TRUE /\ u.astray = g.astray
        /\ u.dead = g.dead
    BY <1>2 DEF ServiceStates
  <1> HIDE DEF u
  <1>4. Held(u, L) /\ Writes(svc[s], u, L)
    BY <1>2, <1>3 DEF Held, In, Matches, Writes
  <1>5. Sane(s, u, L, hid)
    BY <1>2, <1>3, <1>4 DEF Sane
  <1>6. Sane(s, r, L, hid) /\ Writes(u, r, L)
    BY <1>5, UpdateIsSane
  <1> HIDE DEF r
  <1>7. Follows(s, svc[s], r, L, hid)
    BY <1>4, <1>6, WritesIsTransitive, SaneFollows
  <1> QED BY <1>1, <1>7

LEMMA OnEndpointRemovedFollows ==
  ASSUME NEW L \in SUBSET Profiles, stack \in Seq(L), NEW s, NEW hid, Sane(s, svc[s], L, hid),
         OnEndpointRemoved(s)
  PROVE  \E r : Becomes(s, r) /\ Follows(s, svc[s], r, L, hid)
  <1> DEFINE w == svc[s]
             v == [w EXCEPT !.endpoints = FALSE]
             u == Unload(s, v, stack, TRUE)
  <1>1. /\ ~w.connected /\ Sane(s, w, L, hid)
        /\ Becomes(s, IF v.profile # Ephemeral THEN v ELSE NewService(u.stored))
    BY DEF OnEndpointRemoved
  <1> HIDE DEF w
  <1>2. w \in ServiceStates
    BY <1>1 DEF Sane
  <1>3. /\ v \in ServiceStates
        /\ v.stored = w.stored /\ v.known = w.known /\ v.profile = w.profile
        /\ v.config = w.config /\ v.astray = w.astray /\ v.connected = w.connected
        /\ v.dead = w.dead
    BY <1>2 DEF ServiceStates
  <1> HIDE DEF v
  <1>4. Writes(w, v, L)
    BY <1>3 DEF Writes
  <1>5. CASE v.profile # Ephemeral
    <2>1. Sane(s, v, L, hid)
      BY <1>1, <1>3, <1>5 DEF Sane, Held, In, Matches
    <2> QED BY <1>1, <1>4, <1>5, <2>1, SaneFollows DEF w
  <1>6. CASE v.profile = Ephemeral
    <2>1. ~Pending(v)
      BY <1>1, <1>3 DEF Pending
    <2>2. Unloads(v, u, L)
      BY <1>3, <2>1, UnloadUnloads
    <2> HIDE DEF u
    <2> DEFINE r == NewService(u.stored)
    <2>3. Becomes(s, r)
      BY <1>1, <1>6
    <2>4. u.stored \in [Profiles -> Configs \cup {None}] /\ u.stored = v.stored
      BY <2>1, <2>2, ServiceFields DEF Unloads
    <2>5. Sane(s, r, L, hid) /\ r.stored = u.stored
      BY <2>4, NewServiceIsSane
    <2> HIDE DEF r
    <2>6. Follows(s, w, r, L, hid)
      BY <1>3, <2>4, <2>5, SaneFollows DEF Writes
    <2> QED BY <2>3, <2>6 DEF w
  <1> QED BY <1>5, <1>6

LEMMA StartEthernetFollows ==
  ASSUME NEW L \in SUBSET Profiles, stack \in Seq(L), NEW s \in Ethernet, NEW hid,
         Sane(s, svc[s], L, hid), StartEthernet(s)
  PROVE  \E r : Becomes(s, r) /\ Follows(s, svc[s], r, L, hid)
  <1> DEFINE v == svc[s]
             r == RegisterService(s, v, stack)
  <1>1. ~v.known /\ Becomes(s, r) /\ Sane(s, v, L, hid)
    BY DEF StartEthernet
  <1> HIDE DEF v
  <1>2. Registered(s, v, stack, r, L)
    BY <1>1, RegisterRegisters
  <1> HIDE DEF r
  <1>3. r \in ServiceStates /\ Writes(v, r, L) /\ Held(r, L) /\ r.known = TRUE
    BY <1>2 DEF Registered
  <1>4. s \notin WiFi
    BY ProfilesAssumption DEF ProfilesAssumption
  <1>5. Follows(s, v, r, L, hid)
    BY <1>3, <1>4, HeldFollows
  <1> QED BY <1>1, <1>5 DEF v

LEMMA StopEthernetFollows ==
  ASSUME NEW L \in SUBSET Profiles, stack \in Seq(L), NEW s, NEW hid, Sane(s, svc[s], L, hid),
         StopEthernet(s)
  PROVE  \E r : Becomes(s, r) /\ Follows(s, svc[s], r, L, hid)
  <1> DEFINE w == svc[s]
             v == [w EXCEPT !.connected = FALSE]
             u == Unload(s, v, stack, TRUE)
             r == [u EXCEPT !.known = FALSE, !.profile = None, !.astray = FALSE]
  <1>1. Becomes(s, r) /\ Sane(s, w, L, hid)
    BY DEF StopEthernet
  <1> HIDE DEF w
  <1>2. w \in ServiceStates /\ w.dead = FALSE
    BY <1>1 DEF Sane
  <1>3. /\ v \in ServiceStates /\ v.stored = w.stored
        /\ v.connected = FALSE /\ v.dead = FALSE
    BY <1>2 DEF ServiceStates
  <1> HIDE DEF v
  <1>4. ~Pending(v)
    BY <1>3 DEF Pending
  <1>5. Unloads(v, u, L)
    BY <1>3, <1>4, UnloadUnloads
  <1> HIDE DEF u
  <1>6. /\ u \in ServiceStates /\ u.stored = w.stored /\ u.dead = FALSE
        /\ u.connected = FALSE
    BY <1>3, <1>4, <1>5, ServiceFields DEF Unloads
  <1>7. r \in ServiceStates
    BY <1>6 DEF ServiceStates
  <1>8. /\ r.stored = w.stored /\ r.known = FALSE /\ r.profile = None
        /\ r.dead = FALSE /\ r.connected = FALSE
    BY <1>6 DEF ServiceStates
  <1> HIDE DEF r
  <1>9. Follows(s, w, r, L, hid)
    BY <1>7, <1>8 DEF Follows, Writes, Sane
  <1> QED BY <1>1, <1>9 DEF w

LEMMA ConnectedFollows ==
  ASSUME NEW L \in SUBSET Profiles, stack \in Seq(L), NEW s, NEW hid, Sane(s, svc[s], L, hid),
         Connected(s)
  PROVE  \E r : Becomes(s, r) /\ Follows(s, svc[s], r, L, hid)
  <1> DEFINE w == svc[s]
             v == [w EXCEPT !.connected = TRUE]
             u == SaveToProfile(v)
             r == UpdateService(u, stack)
  <1>1. Becomes(s, r) /\ Sane(s, w, L, hid) /\ w.known
    BY DEF Connected
  <1> HIDE DEF w
  <1>2. w \in ServiceStates /\ Held(w, L)
    BY <1>1 DEF Sane
  <1>3. /\ v \in ServiceStates
        /\ v.stored = w.stored /\ v.known = w.known /\ v.profile = w.profile
        /\ v.config = w.config /\ v.astray = w.astray /\ v.endpoints = w.endpoints
        /\ v.dead = w.dead
    BY <1>2 DEF ServiceStates
  <1> HIDE DEF v
  <1>4. Held(v, L) /\ Writes(w, v, L)
    BY <1>2, <1>3 DEF Held, In, Matches, Writes
  <1>5. Sane(s, v, L, hid)
    BY <1>1, <1>3, <1>4 DEF Sane
  <1>6. Sane(s, u, L, hid) /\ Writes(w, u, L)
    <2>1. CASE v.profile \in Profiles
      <3> DEFINE p == v.profile
      <3>1. u = Save(v, p) /\ p \in L /\ p \in Profiles
        BY <1>4, <2>1, NoEntry DEF SaveToProfile, Held, In
      <3> HIDE DEF p, u
      <3>2. Kept(v, u, L) /\ (Held(v, L) => Held(u, L))
        BY <1>3, <3>1, SaveHolds
      <3>3. u.profile = v.profile /\ u.dead = v.dead
        BY <1>3, <3>1, SaveWrites
      <3>4. Sane(s, u, L, hid)
        BY <1>1, <1>3, <1>4, <1>5, <3>2, <3>3 DEF Sane, Kept
      <3> QED BY <1>4, <3>2, <3>4, WritesIsTransitive DEF Kept
    <2>2. CASE v.profile \notin Profiles
      BY <1>4, <1>5, <2>2 DEF SaveToProfile
    <2> QED BY <2>1, <2>2
  <1> HIDE DEF u
  <1>7. Sane(s, r, L, hid) /\ Writes(u, r, L)
    BY <1>6, UpdateIsSane
  <1> HIDE DEF r
  <1>8. Follows(s, w, r, L, hid)
    BY <1>6, <1>7, WritesIsTransitive, SaneFollows
  <1> QED BY <1>1, <1>8 DEF w

LEMMA StateChangedFollows ==
  ASSUME NEW L \in SUBSET Profiles, stack \in Seq(L), NEW s, NEW hid, Sane(s, svc[s], L, hid),
         StateChanged(s)
  PROVE  \E r : Becomes(s, r) /\ Follows(s, svc[s], r, L, hid)
  <1> DEFINE r == UpdateService(svc[s], stack)
  <1>1. Becomes(s, r)
    BY DEF StateChanged
  <1>2. Sane(s, r, L, hid) /\ Writes(svc[s], r, L)
    BY UpdateIsSane
  <1> HIDE DEF r
  <1> QED BY <1>1, <1>2, SaneFollows

LEMMA DisconnectionFollows ==
  ASSUME NEW L \in SUBSET Profiles, NEW s, NEW hid, Sane(s, svc[s], L, hid),
         Disconnected(s) \/ UserInitiatedDisconnect(s)
  PROVE  \E r : Becomes(s, r) /\ Follows(s, svc[s], r, L, hid)
  <1> DEFINE v == svc[s]
  <1>1. Sane(s, v, L, hid) /\ v \in ServiceStates
    BY DEF Sane
  <1>2. ASSUME NEW r \in ServiceStates,
               /\ r.stored = v.stored /\ r.known = v.known /\ r.profile = v.profile
               /\ r.config = v.config /\ r.astray = v.astray
               /\ r.endpoints = v.endpoints /\ r.dead = v.dead
               /\ r.connected => v.connected
        PROVE  Follows(s, v, r, L, hid)
    <2> HIDE DEF v
    <2>1. Held(v, L) => Held(r, L)
      BY <1>2 DEF Held, In, Matches
    <2>2. v.connected = FALSE => r.connected = FALSE
      BY <1>2, ServiceFields
    <2> QED BY <1>1, <1>2, <2>1, <2>2 DEF Follows, Sane, Writes
  <1>3. CASE Disconnected(s)
    <2> DEFINE r == [v EXCEPT !.connected = FALSE, !.explicit = FALSE]
    <2>1. Becomes(s, r)
      BY <1>3 DEF Disconnected
    <2> HIDE DEF v
    <2>2. r \in ServiceStates
      BY <1>1 DEF ServiceStates
    <2>3. /\ r.stored = v.stored /\ r.known = v.known /\ r.profile = v.profile
          /\ r.config = v.config /\ r.astray = v.astray
          /\ r.endpoints = v.endpoints /\ r.dead = v.dead /\ r.connected = FALSE
      BY <1>1 DEF ServiceStates
    <2> HIDE DEF r
    <2> QED BY <1>2, <2>1, <2>2, <2>3 DEF v
  <1>4. CASE UserInitiatedDisconnect(s)
    <2> DEFINE r == [v EXCEPT !.explicit = TRUE]
    <2>1. Becomes(s, r)
      BY <1>4 DEF UserInitiatedDisconnect
    <2> HIDE DEF v
    <2>2. r \in ServiceStates
      BY <1>1 DEF ServiceStates
    <2>3. /\ r.stored = v.stored /\ r.known = v.known /\ r.profile = v.profile
          /\ r.config = v.config /\ r.astray = v.astray
          /\ r.endpoints = v.endpoints /\ r.dead = v.dead /\ r.connected = v.connected
      BY <1>1 DEF ServiceStates
    <2> HIDE DEF r
    <2> QED BY <1>2, <2>1, <2>2, <2>3 DEF v
  <1> QED BY <1>3, <1>4
-----------------------------------------------------------------------------
(***************************************************************************)
(* The lists of profiles.                                                  *)
(***************************************************************************)
Nothing == <<>>
Grow(sq, S, x, i) == IF sq[i] \in S THEN Append(x, sq[i]) ELSE x

\* What has been filtered after each of the first n members.
Filtering(sq, S, n, f) ==
    f = [i \in 0..n |-> IF i = 0 THEN Nothing ELSE Grow(sq, S, f[i - 1], i)]

LEMMA FilteringExists ==
  ASSUME NEW sq, NEW S
  PROVE  \A n \in Nat : \E f : Filtering(sq, S, n, f)
  <1> DEFINE T == {n \in Nat : \E f : f = [i \in 0..n |-> IF i = 0 THEN Nothing
                                                 ELSE Grow(sq, S, f[i - 1], i)]}
  <1>1. 0 \in T
    <2> DEFINE f == [i \in 0..0 |-> Nothing]
    <2>1. f = [i \in 0..0 |-> IF i = 0 THEN Nothing ELSE Grow(sq, S, f[i - 1], i)]
      OBVIOUS
    <2> HIDE DEF f
    <2> QED BY <2>1
  <1>2. ASSUME NEW n \in T PROVE n + 1 \in T
    <2>1. PICK f : f = [i \in 0..n |-> IF i = 0 THEN Nothing ELSE Grow(sq, S, f[i - 1], i)]
      OBVIOUS
    <2> DEFINE g == [i \in 0..(n + 1) |-> IF i \in 0..n THEN f[i] ELSE Grow(sq, S, f[n], n + 1)]
    <2>2. ASSUME NEW i \in 0..(n + 1)
          PROVE  g[i] = IF i = 0 THEN Nothing ELSE Grow(sq, S, g[i - 1], i)
      BY <2>1
    <2>3. g = [i \in 0..(n + 1) |-> g[i]]
      OBVIOUS
    <2> HIDE DEF g
    <2>4. g = [i \in 0..(n + 1) |-> IF i = 0 THEN Nothing ELSE Grow(sq, S, g[i - 1], i)]
      BY <2>2, <2>3
    <2> QED BY <2>4
  <1> HIDE DEF T
  <1>3. T \subseteq Nat
    BY DEF T
  <1>4. \A n \in Nat : n \in T
    BY <1>1, <1>2, <1>3, SetInduction
  <1> QED BY <1>4 DEF T, Filtering

LEMMA FilteredUnfolds ==
  ASSUME NEW sq, NEW S, Len(sq) \in Nat
  PROVE  \E f : Filtering(sq, S, Len(sq), f) /\ Filtered(sq, S) = f[Len(sq)]
  <1> DEFINE F == CHOOSE f : f = [i \in 0..Len(sq) |->
                     IF i = 0 THEN <<>>
                     ELSE IF sq[i] \in S THEN Append(f[i - 1], sq[i]) ELSE f[i - 1]]
  <1>1. Filtered(sq, S) = F[Len(sq)]
    BY Zenon DEF Filtered
  <1>2. F = CHOOSE f : Filtering(sq, S, Len(sq), f)
    BY Zenon DEF Filtering, Nothing, Grow
  <1> HIDE DEF F
  <1>3. \E f : Filtering(sq, S, Len(sq), f)
    BY FilteringExists
  <1>4. Filtering(sq, S, Len(sq), F)
    BY <1>2, <1>3, Zenon
  <1> QED BY <1>1, <1>4

Steps(sq, S, n, f) ==
    f[0] = Nothing /\ \A i \in 1..n : f[i] = Grow(sq, S, f[i - 1], i)

LEMMA FilteredSteps ==
  ASSUME NEW sq, NEW S, Len(sq) \in Nat
  PROVE  \E f : Steps(sq, S, Len(sq), f) /\ Filtered(sq, S) = f[Len(sq)]
  <1>1. PICK f : Filtering(sq, S, Len(sq), f) /\ Filtered(sq, S) = f[Len(sq)]
    BY FilteredUnfolds
  <1>2. Steps(sq, S, Len(sq), f)
    BY <1>1 DEF Filtering, Steps
  <1> QED BY <1>1, <1>2

\* Induction up to n.
LEMMA BoundedInduction ==
  ASSUME NEW n \in Nat, NEW T, 0 \in T, \A i \in 1..n : i - 1 \in T => i \in T
  PROVE  \A i \in 0..n : i \in T
  <1> DEFINE U == {k \in Nat : k > n \/ k \in T}
  <1>1. U \subseteq Nat /\ 0 \in U
    OBVIOUS
  <1>2. ASSUME NEW k \in U PROVE k + 1 \in U
    <2>1. CASE k + 1 > n
      BY <2>1
    <2>2. CASE ~(k + 1 > n)
      <3>1. k \in T /\ k + 1 \in 1..n /\ (k + 1) - 1 = k
        BY <2>2
      <3> QED BY <3>1
    <2> QED BY <2>1, <2>2
  <1> HIDE DEF U
  <1>3. \A k \in Nat : k \in U
    BY <1>1, <1>2, SetInduction
  <1> QED BY <1>3 DEF U

\* The members come from the first i of the list, and none comes twice.
FilteredFrom(sq, S, i, x) ==
    /\ x \in Seq(S) /\ Once(x)
    /\ \A k \in 1..Len(x) : \E j \in 1..i : x[k] = sq[j]

LEMMA GrowIsFiltered ==
  ASSUME NEW P, NEW sq \in Seq(P), NEW S, Once(sq), NEW i \in 1..Len(sq),
         NEW a, FilteredFrom(sq, S, i - 1, a), NEW b, b = Grow(sq, S, a, i)
  PROVE  FilteredFrom(sq, S, i, b)
  <1>1. b = IF sq[i] \in S THEN Append(a, sq[i]) ELSE a
    BY DEF Grow
  <1>2. /\ a \in Seq(S) /\ Once(a)
        /\ \A k \in 1..Len(a) : \E j \in 1..(i - 1) : a[k] = sq[j]
    BY DEF FilteredFrom
  <1>3. \A j \in 1..(i - 1) : j \in 1..Len(sq) /\ j \in 1..i /\ j # i
    OBVIOUS
  <1>4. CASE sq[i] \notin S
    <2>1. b = a
      BY <1>1, <1>4
    <2>2. \A k \in 1..Len(b) : \E j \in 1..i : b[k] = sq[j]
      BY <1>2, <1>3, <2>1
    <2> QED BY <1>2, <2>1, <2>2 DEF FilteredFrom
  <1>5. CASE sq[i] \in S
    <2>1. b = Append(a, sq[i])
      BY <1>1, <1>5
    <2>2. /\ b \in Seq(S) /\ Len(b) = Len(a) + 1 /\ Len(a) \in Nat
          /\ \A k \in 1..Len(a) : b[k] = a[k]
          /\ b[Len(a) + 1] = sq[i]
      BY <1>2, <1>5, <2>1
    <2>3. \A k \in 1..Len(b) : k \in 1..Len(a) \/ k = Len(a) + 1
      BY <2>2
    <2>4. ASSUME NEW k \in 1..Len(b)
          PROVE  \E j \in 1..i : b[k] = sq[j]
      <3>1. CASE k \in 1..Len(a)
        <4>1. PICK j \in 1..(i - 1) : a[k] = sq[j]
          BY <1>2, <3>1
        <4>2. b[k] = sq[j] /\ j \in 1..i
          BY <1>3, <2>2, <3>1, <4>1
        <4> QED BY <4>2
      <3>2. CASE k = Len(a) + 1
        <4>1. b[k] = sq[i] /\ i \in 1..i
          BY <2>2, <3>2
        <4> QED BY <4>1
      <3> QED BY <2>3, <3>1, <3>2
    <2>5. \A k \in 1..Len(a) : b[k] # sq[i]
      BY <1>2, <1>3, <2>2 DEF Once
    <2>6. Once(b)
      <3> SUFFICES ASSUME NEW k \in 1..Len(b), NEW j \in 1..Len(b), b[k] = b[j]
                   PROVE  k = j
        BY DEF Once
      <3>1. k \in 1..Len(a) <=> j \in 1..Len(a)
        BY <2>2, <2>3, <2>5
      <3>2. k \in 1..Len(a) /\ j \in 1..Len(a) => k = j
        BY <1>2, <2>2 DEF Once
      <3> QED BY <2>3, <3>1, <3>2
    <2> QED BY <2>2, <2>4, <2>6 DEF FilteredFrom
  <1> QED BY <1>4, <1>5

LEMMA FilteredMembers ==
  ASSUME NEW P, NEW sq \in Seq(P), NEW S, Once(sq)
  PROVE  LET r == Filtered(sq, S)
         IN  /\ r \in Seq(S) /\ Once(r)
             /\ \A k \in 1..Len(r) : \E j \in 1..Len(sq) : r[k] = sq[j]
  <1> DEFINE n == Len(sq)
  <1>1. n \in Nat
    OBVIOUS
  <1>2. PICK f : Steps(sq, S, n, f) /\ Filtered(sq, S) = f[n]
    BY <1>1, FilteredSteps
  <1>3. f[0] = Nothing /\ \A i \in 1..n : f[i] = Grow(sq, S, f[i - 1], i)
    BY <1>1, <1>2 DEF Steps
  <1> DEFINE T == {i \in 0..n : FilteredFrom(sq, S, i, f[i])}
  <1>4. 0 \in T
    <2>1. FilteredFrom(sq, S, 0, Nothing)
      BY DEF FilteredFrom, Nothing, Once
    <2> QED BY <1>1, <1>3, <2>1
  <1>5. ASSUME NEW i \in 1..n, i - 1 \in T PROVE i \in T
    <2>1. FilteredFrom(sq, S, i - 1, f[i - 1])
      BY <1>5
    <2>2. FilteredFrom(sq, S, i, f[i])
      BY <1>3, <2>1, GrowIsFiltered
    <2> QED BY <2>2
  <1> HIDE DEF T, n
  <1>6. n \in T
    <2>1. \A i \in 0..n : i \in T
      BY <1>1, <1>4, <1>5, BoundedInduction
    <2> QED BY <1>1, <2>1
  <1> QED BY <1>2, <1>6 DEF T, FilteredFrom, n

\* Members that are not distinct are filtered as well.
LEMMA FilteredType ==
  ASSUME NEW P, NEW sq \in Seq(P), NEW S
  PROVE  Filtered(sq, S) \in Seq(S)
  <1> DEFINE n == Len(sq)
  <1>1. n \in Nat
    OBVIOUS
  <1>2. PICK f : Steps(sq, S, n, f) /\ Filtered(sq, S) = f[n]
    BY <1>1, FilteredSteps
  <1>3. f[0] = Nothing /\ \A i \in 1..n : f[i] = Grow(sq, S, f[i - 1], i)
    BY <1>1, <1>2 DEF Steps
  <1> DEFINE T == {i \in 0..n : f[i] \in Seq(S)}
  <1>4. 0 \in T
    <2>1. Nothing \in Seq(S)
      BY DEF Nothing
    <2> QED BY <1>1, <1>3, <2>1
  <1>5. ASSUME NEW i \in 1..n, i - 1 \in T PROVE i \in T
    <2>1. ASSUME NEW x \in Seq(S) PROVE Grow(sq, S, x, i) \in Seq(S)
      BY DEF Grow
    <2>2. f[i - 1] \in Seq(S) /\ f[i] = Grow(sq, S, f[i - 1], i)
      BY <1>3, <1>5
    <2>3. f[i] \in Seq(S)
      BY <2>1, <2>2
    <2> QED BY <2>3
  <1> HIDE DEF T, n
  <1>6. n \in T
    <2>1. \A i \in 0..n : i \in T
      BY <1>1, <1>4, <1>5, BoundedInduction
    <2> QED BY <1>1, <2>1
  <1> QED BY <1>2, <1>6 DEF T

\* One more member.
LEMMA FilteredAppend ==
  ASSUME NEW P, NEW sq \in Seq(P), NEW x \in P, NEW S
  PROVE  Filtered(Append(sq, x), S) =
            IF x \in S THEN Append(Filtered(sq, S), x) ELSE Filtered(sq, S)
  <1> DEFINE n == Len(sq)
             sx == Append(sq, x)
  <1>1. /\ n \in Nat /\ n + 1 \in Nat /\ Len(sx) = n + 1 /\ sx[n + 1] = x
        /\ \A i \in 1..n : sx[i] = sq[i]
    OBVIOUS
  <1> HIDE DEF sx
  <1>2. PICK f : Steps(sq, S, n, f) /\ Filtered(sq, S) = f[n]
    BY <1>1, FilteredSteps
  <1>3. PICK g : Steps(sx, S, n + 1, g) /\ Filtered(sx, S) = g[n + 1]
    BY <1>1, FilteredSteps
  <1> HIDE DEF n
  <1> DEFINE T == {i \in 0..n : f[i] = g[i]}
  <1>4. f[0] = Nothing /\ \A i \in 1..n : f[i] = Grow(sq, S, f[i - 1], i)
    BY <1>1, <1>2 DEF Steps
  <1>5. g[0] = Nothing /\ \A i \in 1..(n + 1) : g[i] = Grow(sx, S, g[i - 1], i)
    BY <1>1, <1>3 DEF Steps
  <1>6. 0 \in T
    BY <1>1, <1>4, <1>5
  <1>7. ASSUME NEW i \in 1..n, i - 1 \in T PROVE i \in T
    <2>1. f[i - 1] = g[i - 1] /\ i \in 1..(n + 1)
      BY <1>1, <1>7
    <2>2. \A y : Grow(sq, S, y, i) = Grow(sx, S, y, i)
      BY <1>1 DEF Grow
    <2>3. f[i] = g[i]
      BY <1>4, <1>5, <2>1, <2>2
    <2> QED BY <2>3
  <1> HIDE DEF T
  <1>8. n \in T
    <2>1. \A i \in 0..n : i \in T
      BY <1>1, <1>6, <1>7, BoundedInduction
    <2> QED BY <1>1, <2>1
  <1>9. f[n] = g[n]
    BY <1>8 DEF T
  <1>10. g[n + 1] = Grow(sx, S, g[n], n + 1)
    BY <1>1, <1>5
  <1> QED BY <1>1, <1>2, <1>3, <1>9, <1>10 DEF sx, Grow

LEMMA FilteredEmpty ==
  ASSUME NEW S
  PROVE  Filtered(<<>>, S) = <<>>
  <1> DEFINE sq == <<>>
  <1>1. Len(sq) = 0 /\ Len(sq) \in Nat
    OBVIOUS
  <1> HIDE DEF sq
  <1>2. PICK f : Steps(sq, S, Len(sq), f) /\ Filtered(sq, S) = f[Len(sq)]
    BY <1>1, FilteredSteps
  <1>3. f[0] = Nothing
    BY <1>1, <1>2 DEF Steps
  <1> QED BY <1>1, <1>2, <1>3 DEF Nothing, sq

\* A member is filtered out of a list that has it once.
LEMMA FilteredWithout ==
  ASSUME NEW P, NEW a \in Seq(P), NEW b \in Seq(P), b # <<>>, Once(a \o b)
  PROVE  Filtered(a \o b, P \ {Head(b)}) = a \o Tail(b)
  <1> DEFINE sq == a \o b
             h == Head(b)
             k == Len(a) + 1
             n == Len(sq)
             S == P \ {h}
  <1>1. /\ sq \in Seq(P) /\ n \in Nat /\ n = Len(a) + Len(b) /\ k \in 1..n
        /\ Len(a) \in Nat /\ Len(b) \in Nat /\ sq[k] = h
    OBVIOUS
  <1>2. \A i \in 1..n : sq[i] \in P /\ (sq[i] \in S <=> i # k)
    <2> HIDE DEF sq, n, h
    <2>1. \A i, j \in 1..n : sq[i] = sq[j] => i = j
      BY DEF Once, n, sq
    <2>2. \A i \in 1..n : sq[i] \in P
      BY <1>1 DEF n
    <2> HIDE DEF k
    <2> QED BY <1>1, <2>1, <2>2
  <1>3. /\ Tail(b) \in Seq(P) /\ a \o Tail(b) \in Seq(P) /\ Len(a \o Tail(b)) = n - 1
        /\ \A j \in 1..(n - 1) : (a \o Tail(b))[j] = IF j < k THEN sq[j] ELSE sq[j + 1]
    OBVIOUS
  <1> DEFINE c == a \o Tail(b)
             Part(i) == IF i < k THEN SubSeq(c, 1, i) ELSE SubSeq(c, 1, i - 1)
  <1> HIDE DEF sq, n, S, h, c
  <1>4. PICK f : Steps(sq, S, n, f) /\ Filtered(sq, S) = f[n]
    BY <1>1, FilteredSteps DEF n
  <1>5. f[0] = Nothing /\ \A i \in 1..n : f[i] = Grow(sq, S, f[i - 1], i)
    BY <1>1, <1>4 DEF Steps
  <1>6. /\ c \in Seq(P) /\ Len(c) = n - 1
        /\ \A j \in 1..(n - 1) : c[j] = IF j < k THEN sq[j] ELSE sq[j + 1]
    BY <1>3 DEF c
  <1> HIDE DEF k
  <1>7. Part(0) = Nothing
    BY <1>1, <1>6 DEF Nothing
  <1>8. ASSUME NEW i \in 1..n PROVE Part(i) = Grow(sq, S, Part(i - 1), i)
    <2>1. CASE i < k
      <3>1. /\ Part(i) = SubSeq(c, 1, i) /\ Part(i - 1) = SubSeq(c, 1, i - 1)
            /\ c[i] = sq[i] /\ i \in 1..Len(c)
        BY <1>1, <1>6, <2>1
      <3>2. sq[i] \in S
        BY <1>2, <2>1
      <3>3. SubSeq(c, 1, i) = Append(SubSeq(c, 1, i - 1), c[i])
        BY <1>6, <3>1
      <3> QED BY <3>1, <3>2, <3>3 DEF Grow
    <2>2. CASE i = k
      <3>1. Part(i) = SubSeq(c, 1, i - 1) /\ Part(i - 1) = SubSeq(c, 1, i - 1)
        BY <1>1, <2>2
      <3>2. sq[i] \notin S
        BY <1>2, <2>2
      <3> QED BY <3>1, <3>2 DEF Grow
    <2>3. CASE i > k
      <3>1. /\ Part(i) = SubSeq(c, 1, i - 1) /\ Part(i - 1) = SubSeq(c, 1, (i - 1) - 1)
            /\ c[i - 1] = sq[i] /\ i - 1 \in 1..Len(c)
        BY <1>1, <1>6, <2>3
      <3>2. sq[i] \in S
        BY <1>1, <1>2, <2>3
      <3>3. SubSeq(c, 1, i - 1) = Append(SubSeq(c, 1, (i - 1) - 1), c[i - 1])
        BY <1>6, <3>1
      <3> QED BY <3>1, <3>2, <3>3 DEF Grow
    <2> QED BY <1>1, <2>1, <2>2, <2>3
  <1>9. Part(n) = c
    BY <1>1, <1>6
  <1> HIDE DEF Part
  <1> DEFINE T == {i \in 0..n : f[i] = Part(i)}
  <1>10. 0 \in T
    BY <1>1, <1>5, <1>7
  <1>11. ASSUME NEW i \in 1..n, i - 1 \in T PROVE i \in T
    <2>1. f[i - 1] = Part(i - 1)
      BY <1>11
    <2>2. f[i] = Part(i)
      BY <1>5, <1>8, <2>1
    <2> QED BY <2>2
  <1> HIDE DEF T
  <1>12. n \in T
    <2>1. \A i \in 0..n : i \in T
      BY <1>1, <1>10, <1>11, BoundedInduction
    <2> QED BY <1>1, <2>1
  <1> QED BY <1>4, <1>9, <1>12 DEF T, sq, S, h, c
LEMMA LoadedProfiles ==
  ASSUME NEW st \in Seq(Profiles)
  PROVE  ToSet(st) \in SUBSET Profiles /\ st \in Seq(ToSet(st))
  <1>1. \A i \in 1..Len(st) : st[i] \in Profiles /\ st[i] \in ToSet(st)
    BY DEF ToSet
  <1>2. ToSet(st) \in SUBSET Profiles
    BY <1>1 DEF ToSet
  <1>3. st = [i \in 1..Len(st) |-> st[i]] /\ Len(st) \in Nat
    OBVIOUS
  <1> DEFINE L == ToSet(st)
             n == Len(st)
  <1>4. \A i \in 1..n : st[i] \in L
    BY <1>1
  <1> HIDE DEF L, n
  <1>5. st \in [1..n -> L] /\ n \in Nat
    BY <1>3, <1>4 DEF n
  <1>6. st \in Seq(L)
    BY <1>5, IsASeq
  <1> QED BY <1>2, <1>6 DEF L

LEMMA PushedProfile ==
  ASSUME NEW st \in Seq(Profiles), NEW p \in Profiles
  PROVE  LET r == Append(st, p)
         IN  /\ r \in Seq(Profiles)
             /\ ToSet(r) = ToSet(st) \cup {p}
             /\ Len(st) + 1 \in 1..Len(r) /\ r[Len(st) + 1] = p
             /\ (Once(st) /\ p \notin ToSet(st)) => Once(r)
  <1> DEFINE r == Append(st, p)
  <1>1. /\ r \in Seq(Profiles) /\ Len(r) = Len(st) + 1 /\ Len(st) \in Nat
        /\ \A i \in 1..Len(st) : r[i] = st[i] /\ i \in 1..Len(r)
        /\ r[Len(st) + 1] = p /\ Len(st) + 1 \in 1..Len(r)
    OBVIOUS
  <1> HIDE DEF r
  <1>2. \A i \in 1..Len(r) : i \in 1..Len(st) \/ i = Len(st) + 1
    BY <1>1
  <1>3. ToSet(r) = ToSet(st) \cup {p}
    BY <1>1, <1>2 DEF ToSet
  <1>4. ASSUME Once(st), p \notin ToSet(st) PROVE Once(r)
    <2> SUFFICES ASSUME NEW i \in 1..Len(r), NEW j \in 1..Len(r), r[i] = r[j]
                 PROVE  i = j
      BY DEF Once
    <2>1. \A k \in 1..Len(st) : st[k] # p
      BY <1>4 DEF ToSet
    <2>2. i \in 1..Len(st) <=> j \in 1..Len(st)
      BY <1>1, <1>2, <2>1
    <2>3. i \in 1..Len(st) /\ j \in 1..Len(st) => i = j
      BY <1>1, <1>4 DEF Once
    <2> QED BY <1>2, <2>2, <2>3
  <1> QED BY <1>1, <1>3, <1>4 DEF r

LEMMA PoppedProfile ==
  ASSUME NEW st \in Seq(Profiles), st # <<>>
  PROVE  /\ Front(st) \in Seq(Profiles) /\ Last(st) \in Profiles
         /\ ToSet(st) = ToSet(Front(st)) \cup {Last(st)}
         /\ Once(st) => Once(Front(st))
         /\ st = Append(Front(st), Last(st))
  <1> DEFINE r == Front(st)
             n == Len(st)
  <1>1. /\ r \in Seq(Profiles) /\ Len(r) = n - 1 /\ n \in Nat /\ n # 0
        /\ \A i \in 1..(n - 1) : r[i] = st[i]
        /\ Last(st) = st[n] /\ st[n] \in Profiles
    <2>1. n \in Nat /\ n # 0 /\ st[n] \in Profiles /\ Last(st) = st[n]
      BY DEF Last
    <2>2. n - 1 \in Nat /\ r = SubSeq(st, 1, n - 1)
      BY <2>1 DEF Front
    <2> DEFINE m == n - 1
    <2>3. m \in Int /\ \A i \in 1..m : st[i] \in Profiles
      BY <2>1
    <2>4. r = SubSeq(st, 1, m) /\ m \in Nat
      BY <2>2
    <2> HIDE DEF m, n, r
    <2>5. r \in Seq(Profiles) /\ Len(r) = IF 1 <= m THEN m - 1 + 1 ELSE 0
      BY <2>3, <2>4, SubSeqProperties
    <2>6. \A i \in 1..m : r[i] = st[i]
      BY <2>4
    <2> QED BY <2>1, <2>4, <2>5, <2>6 DEF m
  <1>2. \A i \in 1..n : i \in 1..(n - 1) \/ i = n
    BY <1>1
  <1>3. \A i \in 1..(n - 1) : i \in 1..n
    BY <1>1
  <1>4. st = Append(r, st[n])
    BY <1>1
  <1> HIDE DEF r, n
  <1>5. ToSet(st) = ToSet(r) \cup {st[n]}
    <2>1. n \in 1..n /\ DOMAIN st = 1..n /\ DOMAIN r = 1..(n - 1)
      BY <1>1 DEF n
    <2> QED BY <1>1, <1>2, <1>3, <2>1 DEF ToSet
  <1>6. Once(st) => Once(r)
    BY <1>1, <1>3 DEF Once, n
  <1> QED BY <1>1, <1>4, <1>5, <1>6 DEF r

-----------------------------------------------------------------------------
(***************************************************************************)
(* The steps.                                                              *)
(***************************************************************************)
\* A service that is hidden was hidden before the step.
InOrder == \A s \in Services : Sane(s, svc[s], Loaded, Hidden(svc[s]))

\* What every step but a pop shows.
Keeps == Inv' /\ LoggedOutIsUntouched /\ HiddenIsAskedFor

LEMMA InvFacts ==
  ASSUME Inv
  PROVE  /\ Loaded \in SUBSET Profiles /\ stack \in Seq(Loaded)
         /\ svc \in [Services -> ServiceStates]
         /\ TypeOK /\ InOrder /\ NoneTwice /\ Listed
BY LoadedProfiles DEF Inv, TypeOK, InOrder, Loaded, Sane, Hidden

\* shill has exited: what it knew is gone, what the list says remains.
LEMMA GoneKeepsInv ==
  ASSUME Inv, up, NEW v, Gone(v),
         \A s \in Services : v[s].stored \in [Profiles -> Configs \cup {None}]
  PROVE  /\ Inv'
         /\ \A s \in Services : svc'[s].stored = v[s].stored /\ ~svc'[s].known
         /\ Loaded' = {}
  <1>1. /\ svc' = [s \in Services |-> NewService(v[s].stored)]
        /\ exits < MaxExits /\ exits' = exits + 1
        /\ up' = FALSE /\ stack' = <<>> /\ left' = <<>>
        /\ interrupted' = (interrupted \/ left # <<>>)
        /\ exists' = exists /\ list' = list /\ session' = session
        /\ corruptions' = corruptions
    BY DEF Gone
  <1>2. Loaded' = {}
    BY <1>1 DEF Loaded, ToSet
  <1>3. ASSUME NEW s \in Services
        PROVE  /\ Sane(s, svc'[s], {}, TRUE) /\ svc'[s].stored = v[s].stored
               /\ svc'[s].known = FALSE /\ svc'[s].dead = FALSE
               /\ svc'[s] \in ServiceStates
    <2> DEFINE w == NewService(v[s].stored)
    <2>1. svc'[s] = w
      BY <1>1
    <2>2. Sane(s, w, {}, TRUE) /\ w.stored = v[s].stored /\ w.known = FALSE
      BY NewServiceIsSane
    <2> HIDE DEF w
    <2> QED BY <2>1, <2>2 DEF Sane
  <1>4. TypeOK'
    <2>1. svc' \in [Services -> ServiceStates]
      <3>1. svc' = [s \in Services |-> svc'[s]]
        BY <1>1
      <3> QED BY <1>3, <3>1
    <2>2. exits' \in 0..MaxExits
      BY <1>1, ProfilesAssumption DEF Inv, TypeOK, ProfilesAssumption
    <2>3. stack' \in Seq(Profiles) /\ left' \in Seq(UserProfiles)
      BY <1>1
    <2>4. interrupted' \in BOOLEAN /\ up' \in BOOLEAN
      BY <1>1
    <2> QED BY <1>1, <1>3, <2>1, <2>2, <2>3, <2>4 DEF Inv, TypeOK
  <1>5. NoneTwice'
    BY <1>1 DEF Inv, NoneTwice, Once
  <1>6. Listed'
    <2>1. ~interrupted' => session = list
      <3> SUFFICES ASSUME ~interrupted' PROVE session = list
        OBVIOUS
      <3>1. ~interrupted /\ left = <<>>
        BY <1>1
      <3>2. list = Users(stack) /\ session = Users(stack) \o <<>>
        BY <3>1 DEF Inv, Listed
      <3>3. list \in Seq(UserProfiles)
        BY DEF Inv, TypeOK
      <3> QED BY <3>2, <3>3
    <2> QED BY <1>1, <2>1 DEF Listed
  <1> QED BY <1>1, <1>2, <1>3, <1>4, <1>5, <1>6 DEF Inv

\* One service has taken a step.
LEMMA BecomesKeepsInv ==
  ASSUME Inv, up, NEW s \in Services, NEW r, Becomes(s, r), NEW hid,
         Follows(s, svc[s], r, Loaded, hid)
  PROVE  /\ Inv' /\ LoggedOutIsUntouched
         /\ svc'[s].stored = r.stored
         /\ \A q \in WiFi : Hidden(svc'[q]) => Hidden(svc[q]) \/ (q = s /\ hid)
  <1>1. r \in ServiceStates /\ Writes(svc[s], r, Loaded)
    BY DEF Follows
  <1>2. svc \in [Services -> ServiceStates] /\ InOrder
    BY InvFacts
  <1>3. CASE ~r.dead /\ svc' = [svc EXCEPT ![s] = r]
             /\ UNCHANGED <<exists, list, stack, left, up, session, interrupted, exits,
                            corruptions>>
    <2>1. r.dead = FALSE /\ Sane(s, r, Loaded, hid)
      BY <1>1, <1>3, ServiceFields DEF Follows
    <2>2. Loaded' = Loaded
      BY <1>3 DEF Loaded
    <2>3. /\ svc' \in [Services -> ServiceStates] /\ svc'[s] = r
          /\ \A q \in Services \ {s} : svc'[q] = svc[q]
      BY <1>1, <1>2, <1>3
    <2>4. \A q \in Services : Sane(q, svc'[q], Loaded, TRUE)
      BY <1>2, <2>1, <2>3 DEF InOrder, Sane
    <2>5. TypeOK'
      BY <1>3, <2>3, <2>4 DEF Inv, TypeOK, Sane
    <2>6. NoneTwice' /\ Listed'
      BY <1>3 DEF Inv, NoneTwice, Listed
    <2>7. LoggedOutIsUntouched
      BY <1>1, <2>3 DEF LoggedOutIsUntouched, Writes
    <2>8. Inv'
      BY <1>3, <2>2, <2>4, <2>5, <2>6 DEF Inv
    <2>9. \A q \in WiFi : Hidden(svc'[q]) => Hidden(svc[q]) \/ (q = s /\ hid)
      BY <2>1, <2>3 DEF Hidden, Sane, Services
    <2> QED BY <2>3, <2>7, <2>8, <2>9
  <1>4. CASE Gone([svc EXCEPT ![s] = r])
    <2> DEFINE v == [svc EXCEPT ![s] = r]
    <2>1. /\ \A q \in Services : v[q] \in ServiceStates
          /\ v[s] = r /\ \A q \in Services \ {s} : v[q] = svc[q]
      BY <1>1, <1>2
    <2>2. \A q \in Services : v[q].stored \in [Profiles -> Configs \cup {None}]
      BY <2>1, ServiceFields
    <2> HIDE DEF v
    <2>3. Gone(v)
      BY <1>4 DEF v
    <2>4. Inv' /\ \A q \in Services : svc'[q].stored = v[q].stored /\ ~svc'[q].known
      BY <2>2, <2>3, GoneKeepsInv
    <2>5. LoggedOutIsUntouched
      BY <1>1, <2>1, <2>4 DEF LoggedOutIsUntouched, Writes
    <2> QED BY <2>1, <2>4, <2>5 DEF Hidden, Services
  <1> QED BY <1>3, <1>4 DEF Becomes
\* Manager::PushProfileInternal
LEMMA PushKeepsOrder ==
  ASSUME stack \in Seq(Profiles), svc \in [Services -> ServiceStates], InOrder,
         NEW p \in Profiles, PushProfileInternal(p)
  PROVE  /\ svc' \in [Services -> ServiceStates]
         /\ \A s \in Services : Sane(s, svc'[s], Loaded', Hidden(svc[s]))
         /\ \A s \in Services : Writes(svc[s], svc'[s], Loaded')
  <1> DEFINE st == Append(stack, p)
             L == ToSet(st)
  <1>1. stack' = st /\ svc' = [s \in Services |-> Joins(s, svc[s], p, st)]
    BY DEF PushProfileInternal
  <1>2. /\ st \in Seq(Profiles) /\ L = ToSet(stack) \cup {p}
        /\ Len(stack) + 1 \in 1..Len(st) /\ st[Len(stack) + 1] = p
    BY PushedProfile
  <1> HIDE DEF st
  <1>3. L \in SUBSET Profiles /\ st \in Seq(L) /\ p \in L /\ ToSet(stack) \subseteq L
    BY <1>2, LoadedProfiles
  <1> HIDE DEF L
  <1>4. Loaded' = L
    BY <1>1 DEF Loaded, L
  <1>5. ASSUME NEW s \in Services
        PROVE  Sane(s, svc'[s], L, Hidden(svc[s])) /\ Writes(svc[s], svc'[s], L)
    <2> DEFINE v == svc[s]
               r == Joins(s, v, p, st)
    <2>1. Sane(s, v, ToSet(stack), Hidden(svc[s]))
      BY DEF InOrder, Loaded
    <2> HIDE DEF v
    <2>2. Sane(s, v, L, Hidden(svc[s]))
      BY <1>3, <2>1, SaneIsMonotonic
    <2>3. Sane(s, r, L, Hidden(svc[s])) /\ Writes(v, r, L)
      BY <1>2, <1>3, <2>2, JoinsIsSane
    <2>4. svc'[s] = r
      BY <1>1 DEF v
    <2> HIDE DEF r
    <2> QED BY <2>3, <2>4 DEF v
  <1>6. svc' \in [Services -> ServiceStates]
    <2>1. svc' = [s \in Services |-> svc'[s]]
      BY <1>1
    <2> QED BY <1>5, <2>1 DEF Sane
  <1> QED BY <1>4, <1>5, <1>6

\* The file of a profile that is not loaded is gone: no service misses it.
LEMMA ErasedKeepsOrder ==
  ASSUME svc \in [Services -> ServiceStates], NEW p \in Profiles,
         NEW L \in SUBSET Profiles,
         \A s \in Services : Sane(s, svc[s], L, Hidden(svc[s])),
         p \notin L \/ \A s \in Services : ~svc[s].known,
         svc' = [s \in Services |-> [svc[s] EXCEPT !.stored[p] = None]]
  PROVE  /\ svc' \in [Services -> ServiceStates]
         /\ \A s \in Services : Sane(s, svc'[s], L, Hidden(svc[s])) /\ svc'[s].known = svc[s].known
         /\ \A s \in Services : \A q \in Profiles \ {p} : svc'[s].stored[q] = svc[s].stored[q]
  <1>1. ASSUME NEW s \in Services
        PROVE  /\ Sane(s, svc'[s], L, Hidden(svc[s])) /\ svc'[s].known = svc[s].known
               /\ \A q \in Profiles \ {p} : svc'[s].stored[q] = svc[s].stored[q]
    <2> DEFINE v == svc[s]
               f == [v.stored EXCEPT ![p] = None]
               r == [v EXCEPT !.stored = f]
    <2>1. v \in ServiceStates /\ Sane(s, v, L, Hidden(svc[s]))
      OBVIOUS
    <2>2. svc'[s] = [v EXCEPT !.stored[p] = None]
      OBVIOUS
    <2>3. p \notin L \/ ~v.known
      OBVIOUS
    <2> HIDE DEF v
    <2>4. svc'[s] = r
      BY <2>1, <2>2 DEF ServiceStates
    <2>5. /\ f \in [Profiles -> Configs \cup {None}]
          /\ \A q \in Profiles \ {p} : f[q] = v.stored[q]
      BY <2>1, ServiceFields
    <2> HIDE DEF f
    <2>6. r \in ServiceStates
      BY <2>1, <2>5 DEF ServiceStates
    <2>7. /\ r.stored = f /\ r.known = v.known /\ r.profile = v.profile
          /\ r.config = v.config /\ r.astray = v.astray /\ r.endpoints = v.endpoints
          /\ r.connected = v.connected /\ r.dead = v.dead
      BY <2>1 DEF ServiceStates
    <2> HIDE DEF r
    <2>8. v.known => Held(r, L)
      <3> SUFFICES ASSUME v.known PROVE Held(r, L)
        OBVIOUS
      <3>1. Held(v, L) /\ p \notin L
        BY <2>1, <2>3 DEF Sane
      <3>2. v.profile # Ephemeral => v.profile \in Profiles \ {p}
        BY <3>1 DEF Held, In
      <3> QED BY <2>5, <2>7, <3>1, <3>2 DEF Held, In, Matches
    <2>9. Sane(s, r, L, Hidden(svc[s]))
      BY <2>1, <2>6, <2>7, <2>8 DEF Sane
    <2> QED BY <2>4, <2>5, <2>7, <2>9 DEF v
  <1>2. svc' \in [Services -> ServiceStates]
    <2>1. svc' = [s \in Services |-> svc'[s]]
      OBVIOUS
    <2> QED BY <1>1, <2>1 DEF Sane
  <1> QED BY <1>1, <1>2
\* What the user profiles of a stack are.
LEMMA UsersOfStack ==
  ASSUME NEW st \in Seq(Profiles), Once(st)
  PROVE  Users(st) \in Seq(UserProfiles) /\ Once(Users(st))
BY FilteredMembers DEF Users

\* A step that leaves every service in order hides none.
LEMMA OrderHidesNone ==
  ASSUME NEW M, \A s \in Services : Sane(s, svc'[s], M, Hidden(svc[s]))
  PROVE  HiddenIsAskedFor /\ \A s \in Services : Sane(s, svc'[s], M, TRUE)
BY DEF HiddenIsAskedFor, Hidden, Sane, Services

\* The lists and the services after a step that leaves shill running.
LEMMA RunningKeepsInv ==
  ASSUME svc' \in [Services -> ServiceStates],
         \A s \in Services : Sane(s, svc'[s], Loaded', Hidden(svc[s])),
         exists' \subseteq Profiles,
         stack' \in Seq(Profiles), Once(stack'), list' = Users(stack'),
         left' \in Seq(UserProfiles), Once(left'),
         \A i \in 1..Len(stack'), j \in 1..Len(left') : stack'[i] # left'[j],
         up' = TRUE, session' \in Seq(UserProfiles), interrupted' \in BOOLEAN,
         ~interrupted' => session' = Users(stack') \o left',
         exits' \in 0..MaxExits, corruptions' \in 0..MaxCorruptions
  PROVE  Inv' /\ HiddenIsAskedFor
  <1>1. list' \in Seq(UserProfiles) /\ Once(list')
    BY UsersOfStack
  <1>2. TypeOK'
    BY <1>1 DEF TypeOK, Sane
  <1>3. NoneTwice'
    BY <1>1 DEF NoneTwice
  <1>4. Listed'
    <2>1. (Users(stack))' = Users(stack')
      BY DEF Users
    <2> QED BY <2>1 DEF Listed
  <1>5. HiddenIsAskedFor /\ \A s \in Services : Sane(s, svc'[s], Loaded', TRUE)
    BY OrderHidesNone
  <1> QED BY <1>2, <1>3, <1>4, <1>5 DEF Inv

LEMMA CreateProfileKeepsInv ==
  ASSUME Inv, NEW p \in Profiles, CreateProfile(p)
  PROVE  Keeps
  <1>1. /\ exists' = exists \cup {p} /\ svc' = svc /\ list' = list /\ stack' = stack
        /\ left' = left /\ up' = up /\ session' = session
        /\ interrupted' = interrupted /\ exits' = exits /\ corruptions' = corruptions
    BY DEF CreateProfile
  <1>2. Loaded' = Loaded
    BY <1>1 DEF Loaded
  <1>3. TypeOK'
    BY <1>1 DEF Inv, TypeOK
  <1>4. NoneTwice' /\ Listed'
    BY <1>1 DEF Inv, NoneTwice, Listed
  <1>5. LoggedOutIsUntouched /\ HiddenIsAskedFor
    BY <1>1 DEF LoggedOutIsUntouched, HiddenIsAskedFor
  <1>6. Inv'
    BY <1>1, <1>2, <1>3, <1>4 DEF Inv
  <1> QED BY <1>5, <1>6 DEF Keeps

LEMMA RemoveProfileKeepsInv ==
  ASSUME Inv, NEW p \in Profiles, RemoveProfile(p)
  PROVE  Keeps
  <1>1. /\ p \notin Loaded /\ exists' = exists \ {p}
        /\ svc' = [s \in Services |-> [svc[s] EXCEPT !.stored[p] = None]]
        /\ list' = list /\ stack' = stack /\ left' = left /\ up' = up
        /\ session' = session
        /\ interrupted' = interrupted /\ exits' = exits /\ corruptions' = corruptions
    BY DEF RemoveProfile
  <1>2. Loaded' = Loaded
    BY <1>1 DEF Loaded
  <1>3. /\ Loaded \in SUBSET Profiles /\ svc \in [Services -> ServiceStates]
        /\ \A s \in Services : Sane(s, svc[s], Loaded, Hidden(svc[s]))
    BY InvFacts DEF InOrder
  <1>4. /\ svc' \in [Services -> ServiceStates]
        /\ \A s \in Services : Sane(s, svc'[s], Loaded, Hidden(svc[s])) /\ svc'[s].known = svc[s].known
        /\ \A s \in Services : \A q \in Profiles \ {p} : svc'[s].stored[q] = svc[s].stored[q]
    BY <1>1, <1>3, ErasedKeepsOrder
  <1>5. TypeOK'
    BY <1>1, <1>4 DEF Inv, TypeOK, Sane
  <1>6. NoneTwice' /\ Listed'
    BY <1>1 DEF Inv, NoneTwice, Listed
  <1>7. LoggedOutIsUntouched
    BY <1>1, <1>4 DEF LoggedOutIsUntouched
  <1>8. HiddenIsAskedFor /\ \A s \in Services : Sane(s, svc'[s], Loaded, TRUE)
    BY <1>4, OrderHidesNone
  <1>9. Inv'
    BY <1>1, <1>2, <1>4, <1>5, <1>6, <1>8 DEF Inv
  <1> QED BY <1>7, <1>8, <1>9 DEF Keeps

LEMMA PushCorruptedProfileKeepsInv ==
  ASSUME Inv, NEW p \in UserProfiles, PushCorruptedProfile(p)
  PROVE  Keeps
  <1>1. /\ p \notin Loaded /\ p \in Profiles /\ exists' = exists \ {p}
        /\ svc' = [s \in Services |-> [svc[s] EXCEPT !.stored[p] = None]]
        /\ list' = list /\ stack' = stack /\ left' = left /\ up' = up
        /\ session' = session
        /\ interrupted' = interrupted /\ exits' = exits
        /\ corruptions < MaxCorruptions /\ corruptions' = corruptions + 1
    BY DEF PushCorruptedProfile, MarkAsCorrupted, Profiles
  <1>2. Loaded' = Loaded
    BY <1>1 DEF Loaded
  <1>3. /\ Loaded \in SUBSET Profiles /\ svc \in [Services -> ServiceStates]
        /\ \A s \in Services : Sane(s, svc[s], Loaded, Hidden(svc[s]))
    BY InvFacts DEF InOrder
  <1>4. /\ svc' \in [Services -> ServiceStates]
        /\ \A s \in Services : Sane(s, svc'[s], Loaded, Hidden(svc[s])) /\ svc'[s].known = svc[s].known
    BY <1>1, <1>3, ErasedKeepsOrder
  <1>5. corruptions' \in 0..MaxCorruptions /\ corruptions' # corruptions
    BY <1>1, ProfilesAssumption DEF Inv, TypeOK, ProfilesAssumption
  <1>6. TypeOK'
    BY <1>1, <1>4, <1>5 DEF Inv, TypeOK, Sane
  <1>7. NoneTwice' /\ Listed'
    BY <1>1 DEF Inv, NoneTwice, Listed
  <1>8. LoggedOutIsUntouched
    BY <1>5 DEF LoggedOutIsUntouched
  <1>9. HiddenIsAskedFor /\ \A s \in Services : Sane(s, svc'[s], Loaded, TRUE)
    BY <1>4, OrderHidesNone
  <1>10. Inv'
    BY <1>1, <1>2, <1>4, <1>6, <1>7, <1>9 DEF Inv
  <1> QED BY <1>8, <1>9, <1>10 DEF Keeps

LEMMA PushProfileKeepsInv ==
  ASSUME Inv, NEW p \in Profiles, PushProfile(p)
  PROVE  Keeps
  <1>1. /\ up /\ left = <<>> /\ p \notin Loaded /\ PushProfileInternal(p)
        /\ session' = Users(stack') /\ exists' = exists /\ left' = left /\ up' = up
        /\ interrupted' = interrupted /\ exits' = exits /\ corruptions' = corruptions
    BY DEF PushProfile, Running
  <1>2. stack' = Append(stack, p) /\ list' = Users(stack')
    BY <1>1 DEF PushProfileInternal
  <1>3. /\ stack \in Seq(Profiles) /\ Once(stack) /\ InOrder
        /\ svc \in [Services -> ServiceStates]
    BY InvFacts DEF TypeOK, NoneTwice
  <1>4. stack' \in Seq(Profiles) /\ Once(stack')
    BY <1>1, <1>2, <1>3, PushedProfile DEF Loaded
  <1>5. /\ svc' \in [Services -> ServiceStates]
        /\ \A s \in Services : Sane(s, svc'[s], Loaded', Hidden(svc[s]))
        /\ \A s \in Services : Writes(svc[s], svc'[s], Loaded')
    BY <1>1, <1>3, PushKeepsOrder
  <1>6. /\ left' \in Seq(UserProfiles) /\ Once(left') /\ Len(left') = 0
        /\ up' = TRUE
    BY <1>1 DEF Once, Inv, TypeOK
  <1>7. session' \in Seq(UserProfiles) /\ session' = Users(stack') \o left'
    <2>1. Users(stack') \in Seq(UserProfiles)
      BY <1>4, UsersOfStack
    <2>2. Users(stack') \o <<>> = Users(stack')
      BY <2>1
    <2> QED BY <1>1, <2>1, <2>2
  <1>8. /\ exists' \subseteq Profiles /\ interrupted' \in BOOLEAN
        /\ exits' \in 0..MaxExits /\ corruptions' \in 0..MaxCorruptions
    BY <1>1 DEF Inv, TypeOK
  <1>9. \A i \in 1..Len(stack'), j \in 1..Len(left') : stack'[i] # left'[j]
    BY <1>6
  <1>10. Inv' /\ HiddenIsAskedFor
    BY <1>2, <1>4, <1>5, <1>6, <1>7, <1>8, <1>9, RunningKeepsInv
  <1>11. LoggedOutIsUntouched
    BY <1>5 DEF LoggedOutIsUntouched, Writes
  <1> QED BY <1>10, <1>11 DEF Keeps

LEMMA PopProfileKeepsInv ==
  ASSUME Inv, PopProfile
  PROVE  Keeps /\ PoppedIsForgotten
  <1> DEFINE p == Last(stack)
             st == Front(stack)
             L == Loaded
             M == ToSet(st)
  <1>1. PICK at_once \in BOOLEAN :
           svc' = [s \in Services |-> Leaves(s, svc[s], p, st, at_once)]
    BY DEF PopProfile
  <1>2. /\ up /\ left = <<>> /\ stack # <<>> /\ stack' = st /\ list' = Users(stack')
        /\ session' = Users(stack') /\ exists' = exists /\ left' = left /\ up' = up
        /\ interrupted' = interrupted /\ exits' = exits /\ corruptions' = corruptions
    BY DEF PopProfile, Running
  <1>3. /\ stack \in Seq(Profiles) /\ Once(stack) /\ InOrder /\ L \in SUBSET Profiles
        /\ svc \in [Services -> ServiceStates]
    BY InvFacts DEF TypeOK, NoneTwice
  <1>4. st \in Seq(Profiles) /\ L = M \cup {p} /\ Once(st)
    BY <1>2, <1>3, PoppedProfile DEF Loaded
  <1>5. M \in SUBSET L /\ st \in Seq(M) /\ Loaded' = M
    BY <1>2, <1>4, LoadedProfiles DEF Loaded
  <1>6. Top(stack) = p
    BY <1>2 DEF Top
  <1> HIDE DEF L, M, st, p
  <1>7. ASSUME NEW s \in Services
        PROVE  /\ Sane(s, svc'[s], M, Hidden(svc[s])) /\ Writes(svc[s], svc'[s], L)
               /\ (s \in WiFi /\ svc[s].known /\ svc[s].profile = p /\ ~Pending(svc[s])) =>
                    /\ svc'[s].stored = svc[s].stored
                    /\ \/ svc'[s].config.key = None
                       \/ \E q \in M : svc'[s].stored[q] = svc'[s].config
    <2> DEFINE v == svc[s]
               r == Leaves(s, v, p, st, at_once)
    <2>1. Sane(s, v, L, Hidden(svc[s]))
      BY <1>3 DEF InOrder, L
    <2>2. svc'[s] = r
      BY <1>1
    <2> HIDE DEF v
    <2>3. Sane(s, r, M, Hidden(svc[s])) /\ Writes(v, r, L)
      BY <1>3, <1>4, <1>5, <2>1, LeavesIsSane
    <2>4. LogsOut(s, v, r, p, M)
      BY <1>3, <1>4, <1>5, <2>1, LeavesIsSane
    <2> HIDE DEF r
    <2> QED BY <2>2, <2>3, <2>4 DEF v, LogsOut
  <1>8. svc' \in [Services -> ServiceStates]
    <2>1. svc' = [s \in Services |-> svc'[s]]
      BY <1>1
    <2> QED BY <1>7, <2>1 DEF Sane
  <1>9. /\ left' \in Seq(UserProfiles) /\ Once(left') /\ Len(left') = 0
        /\ up' = TRUE
    BY <1>2 DEF Once, Inv, TypeOK
  <1>10. session' \in Seq(UserProfiles) /\ session' = Users(stack') \o left'
    <2>1. Users(stack') \in Seq(UserProfiles)
      BY <1>2, <1>4, UsersOfStack
    <2>2. Users(stack') \o <<>> = Users(stack')
      BY <2>1
    <2> QED BY <1>2, <2>1, <2>2
  <1>11. /\ exists' \subseteq Profiles /\ interrupted' \in BOOLEAN
         /\ exits' \in 0..MaxExits /\ corruptions' \in 0..MaxCorruptions
    BY <1>2 DEF Inv, TypeOK
  <1>12. \A i \in 1..Len(stack'), j \in 1..Len(left') : stack'[i] # left'[j]
    BY <1>9
  <1>13. Inv' /\ HiddenIsAskedFor
    <2>1. stack' \in Seq(Profiles) /\ Once(stack')
      BY <1>2, <1>4
    <2>2. \A s \in Services : Sane(s, svc'[s], Loaded', Hidden(svc[s]))
      BY <1>5, <1>7
    <2> QED BY <1>2, <1>8, <1>9, <1>10, <1>11, <1>12, <2>1, <2>2, RunningKeepsInv
  <1>14. LoggedOutIsUntouched
    BY <1>7 DEF LoggedOutIsUntouched, Writes, L
  <1>15. PoppedIsForgotten
    <2> SUFFICES ASSUME NEW s \in WiFi, svc[s].known, svc[s].profile = Top(stack),
                        ~(svc[s].explicit /\ svc[s].connected)
                 PROVE  /\ \/ svc'[s].config.key = None
                           \/ \E q \in Loaded' : svc'[s].stored[q] = svc'[s].config
                        /\ svc'[s].stored = svc[s].stored
      BY DEF PoppedIsForgotten
    <2>1. s \in Services /\ svc[s].profile = p /\ ~Pending(svc[s])
      BY <1>6 DEF Services, Pending
    <2> QED BY <1>5, <1>7, <2>1
  <1> QED BY <1>13, <1>14, <1>15 DEF Keeps

LEMMA ExitKeepsInv ==
  ASSUME Inv, Exit
  PROVE  Keeps
  <1>1. \A s \in Services : svc[s].stored \in [Profiles -> Configs \cup {None}]
    <2>1. \A s \in Services : svc[s] \in ServiceStates
      BY InvFacts
    <2> QED BY <2>1, ServiceFields
  <1>2. Inv' /\ \A s \in Services : svc'[s].stored = svc[s].stored /\ ~svc'[s].known
    BY <1>1, GoneKeepsInv DEF Exit
  <1>3. HiddenIsAskedFor
    BY <1>2 DEF HiddenIsAskedFor, Hidden, Services
  <1> QED BY <1>2, <1>3 DEF LoggedOutIsUntouched, Keeps

\* The stack of the default profile alone.
LEMMA DefaultStack ==
  /\ <<DefaultId>> \in Seq(Profiles) /\ Once(<<DefaultId>>)
  /\ Append(<<>>, DefaultId) = <<DefaultId>>
  /\ Users(<<DefaultId>>) = <<>>
  /\ ToSet(<<DefaultId>>) = {DefaultId} /\ DefaultId \in Profiles
  /\ Len(<<DefaultId>>) = 1 /\ <<DefaultId>>[1] = DefaultId
  /\ DefaultId \notin UserProfiles
  <1>1. DefaultId \in Profiles /\ DefaultId \notin UserProfiles
    BY ProfilesAssumption DEF ProfilesAssumption, Profiles
  <1>2. Append(<<>>, DefaultId) = <<DefaultId>>
    OBVIOUS
  <1>3. Filtered(Append(<<>>, DefaultId), UserProfiles) = Filtered(<<>>, UserProfiles)
    <2>1. <<>> \in Seq(Profiles)
      OBVIOUS
    <2> QED BY <1>1, <2>1, FilteredAppend
  <1>4. Users(<<DefaultId>>) = <<>>
    BY <1>2, <1>3, FilteredEmpty DEF Users
  <1>5. Once(<<DefaultId>>) /\ ToSet(<<DefaultId>>) = {DefaultId}
    BY DEF Once, ToSet
  <1>6. <<DefaultId>> \in Seq(Profiles)
    BY <1>1
  <1> QED BY <1>1, <1>2, <1>4, <1>5, <1>6

\* The lists after InitializeProfiles has pushed the default profile.
LEMMA StartedLists ==
  ASSUME Inv, ~up, stack' = <<DefaultId>>, left' = list, session' = session,
         interrupted' = interrupted
  PROVE  /\ stack' \in Seq(Profiles) /\ Once(stack') /\ Users(stack') = <<>>
         /\ left' \in Seq(UserProfiles) /\ Once(left')
         /\ \A i \in 1..Len(stack'), j \in 1..Len(left') : stack'[i] # left'[j]
         /\ session' \in Seq(UserProfiles) /\ interrupted' \in BOOLEAN
         /\ ~interrupted' => session' = Users(stack') \o left'
  <1>1. /\ list \in Seq(UserProfiles) /\ Once(list) /\ session \in Seq(UserProfiles)
        /\ interrupted \in BOOLEAN /\ (~interrupted => session = list)
    BY InvFacts DEF TypeOK, NoneTwice, Listed
  <1>2. \A j \in 1..Len(list) : list[j] # DefaultId
    BY <1>1, DefaultStack
  <1>3. \A i \in 1..Len(stack') : stack'[i] = DefaultId
    BY DefaultStack
  <1>4. <<>> \o list = list
    BY <1>1
  <1> QED BY <1>1, <1>2, <1>3, <1>4, DefaultStack

LEMMA StartKeepsInv ==
  ASSUME Inv, Start
  PROVE  Keeps
  <1>1. /\ ~up /\ up' = TRUE /\ left' = list /\ exists' = exists \cup {DefaultId}
        /\ PushProfileInternal(DefaultId)
        /\ session' = session /\ interrupted' = interrupted /\ exits' = exits
        /\ corruptions' = corruptions
    BY DEF Start
  <1>2. stack = <<>>
    BY <1>1 DEF Inv
  <1>3. stack' = <<DefaultId>> /\ list' = Users(stack')
    BY <1>1, <1>2, DefaultStack DEF PushProfileInternal
  <1>4. /\ stack' \in Seq(Profiles) /\ Once(stack')
        /\ left' \in Seq(UserProfiles) /\ Once(left')
        /\ \A i \in 1..Len(stack'), j \in 1..Len(left') : stack'[i] # left'[j]
        /\ session' \in Seq(UserProfiles) /\ interrupted' \in BOOLEAN
        /\ ~interrupted' => session' = Users(stack') \o left'
    BY <1>1, <1>3, StartedLists
  <1>5. /\ svc' \in [Services -> ServiceStates]
        /\ \A s \in Services : Sane(s, svc'[s], Loaded', Hidden(svc[s]))
        /\ \A s \in Services : Writes(svc[s], svc'[s], Loaded')
    <2>1. stack \in Seq(Profiles) /\ svc \in [Services -> ServiceStates] /\ InOrder
      BY InvFacts DEF TypeOK
    <2> QED BY <1>1, <2>1, PushKeepsOrder, DefaultStack
  <1>6. /\ exists' \subseteq Profiles /\ exits' \in 0..MaxExits
        /\ corruptions' \in 0..MaxCorruptions
    BY <1>1, DefaultStack DEF Inv, TypeOK
  <1>7. Inv' /\ HiddenIsAskedFor
    BY <1>1, <1>3, <1>4, <1>5, <1>6, RunningKeepsInv
  <1>8. LoggedOutIsUntouched
    BY <1>5 DEF LoggedOutIsUntouched, Writes
  <1> QED BY <1>7, <1>8 DEF Keeps

LEMMA StartAnewKeepsInv ==
  ASSUME Inv, StartAnew
  PROVE  Keeps
  <1>1. /\ ~up /\ up' = TRUE /\ left' = list /\ exists' = exists
        /\ stack' = <<DefaultId>> /\ list' = <<>>
        /\ svc' = [s \in Services |-> [svc[s] EXCEPT !.stored[DefaultId] = None]]
        /\ corruptions < MaxCorruptions /\ corruptions' = corruptions + 1
        /\ session' = session /\ interrupted' = interrupted /\ exits' = exits
    BY DEF StartAnew
  <1>2. /\ stack' \in Seq(Profiles) /\ Once(stack') /\ list' = Users(stack')
        /\ left' \in Seq(UserProfiles) /\ Once(left')
        /\ \A i \in 1..Len(stack'), j \in 1..Len(left') : stack'[i] # left'[j]
        /\ session' \in Seq(UserProfiles) /\ interrupted' \in BOOLEAN
        /\ ~interrupted' => session' = Users(stack') \o left'
    BY <1>1, StartedLists
  <1>3. /\ Loaded \in SUBSET Profiles /\ svc \in [Services -> ServiceStates]
        /\ \A s \in Services : Sane(s, svc[s], Loaded, Hidden(svc[s]))
        /\ \A s \in Services : ~svc[s].known
    BY <1>1, InvFacts DEF InOrder, Inv
  <1>4. /\ svc' \in [Services -> ServiceStates]
        /\ \A s \in Services : Sane(s, svc'[s], Loaded, Hidden(svc[s])) /\ svc'[s].known = svc[s].known
    BY <1>1, <1>3, ErasedKeepsOrder, DefaultStack
  <1>5. \A s \in Services : Sane(s, svc'[s], Loaded', Hidden(svc[s]))
    BY <1>3, <1>4 DEF Sane
  <1>6. /\ exists' \subseteq Profiles /\ exits' \in 0..MaxExits
        /\ corruptions' \in 0..MaxCorruptions /\ corruptions' # corruptions
    BY <1>1, ProfilesAssumption DEF Inv, TypeOK, ProfilesAssumption
  <1>7. Inv' /\ HiddenIsAskedFor
    BY <1>1, <1>2, <1>4, <1>5, <1>6, RunningKeepsInv
  <1>8. LoggedOutIsUntouched
    BY <1>6 DEF LoggedOutIsUntouched
  <1> QED BY <1>7, <1>8 DEF Keeps

\* The first profile that waits, and the ones that wait after it.
LEMMA FirstLeft ==
  ASSUME NEW U \in Seq(UserProfiles), left \in Seq(UserProfiles), left # <<>>, Once(left)
  PROVE  LET h == Head(left)
             t == Tail(left)
         IN  /\ h \in UserProfiles /\ h \in Profiles /\ h = left[1] /\ 1 \in 1..Len(left)
             /\ t \in Seq(UserProfiles) /\ Once(t)
             /\ \A j \in 1..Len(t) : t[j] # h /\ \E k \in 1..Len(left) : t[j] = left[k]
             /\ U \o left = Append(U, h) \o t
  <1> DEFINE h == Head(left)
             t == Tail(left)
             n == Len(left)
  <1>1. /\ n \in Nat /\ n >= 1 /\ h = left[1] /\ h \in UserProfiles
        /\ t \in Seq(UserProfiles) /\ Len(t) = n - 1
        /\ \A j \in 1..Len(t) : t[j] = left[j + 1]
    OBVIOUS
  <1>2. h \in Profiles
    BY <1>1 DEF Profiles
  <1>3. Once(t)
    BY <1>1 DEF Once
  <1>4. ASSUME NEW j \in 1..Len(t)
        PROVE  t[j] # h /\ \E k \in 1..n : t[j] = left[k]
    <2>1. j + 1 \in 1..n /\ 1 \in 1..n /\ j + 1 # 1 /\ t[j] = left[j + 1]
      BY <1>1
    <2> QED BY <1>1, <2>1 DEF Once
  <1>5. U \o left = Append(U, h) \o t
    <2> DEFINE a == U \o left
               b == Append(U, h) \o t
               m == Len(U)
    <2>1. /\ m \in Nat /\ a \in Seq(UserProfiles) /\ b \in Seq(UserProfiles)
          /\ Len(a) = m + n /\ Len(b) = m + n
      BY <1>1
    <2>2. ASSUME NEW i \in 1..(m + n)
          PROVE  a[i] = b[i]
      <3>1. CASE i <= m
        BY <1>1, <2>1, <3>1
      <3>2. CASE i = m + 1
        BY <1>1, <2>1, <3>2
      <3>3. CASE i > m + 1
        <4>1. a[i] = left[i - m]
          BY <1>1, <2>1, <3>3
        <4>2. b[i] = t[i - (m + 1)] /\ i - (m + 1) \in 1..Len(t)
          BY <1>1, <2>1, <3>3
        <4>3. t[i - (m + 1)] = left[i - (m + 1) + 1] /\ i - (m + 1) + 1 = i - m
          BY <1>1, <2>1, <4>2
        <4> QED BY <4>1, <4>2, <4>3
      <3> QED BY <2>1, <3>1, <3>2, <3>3
    <2> HIDE DEF a, b
    <2> QED BY <1>1, <2>1, <2>2, SeqEqual DEF a, b
  <1> QED BY <1>1, <1>2, <1>3, <1>4, <1>5

\* The users of the stack and those who wait to be restored are all different.
LEMMA UsersAreDistinct ==
  ASSUME stack \in Seq(Profiles), left \in Seq(UserProfiles), NoneTwice
  PROVE  Once(Users(stack) \o left)
  <1> DEFINE U == Users(stack)
  <1>1. U \in Seq(UserProfiles) /\ Once(U) /\ Once(left)
    BY UsersOfStack DEF NoneTwice
  <1>2. \A i \in 1..Len(U), j \in 1..Len(left) : U[i] # left[j]
    <2>1. \A i \in 1..Len(U) : \E k \in 1..Len(stack) : U[i] = stack[k]
      BY FilteredMembers DEF Users, NoneTwice
    <2> QED BY <2>1 DEF NoneTwice
  <1> HIDE DEF U
  <1>3. Once(U \o left)
    <2> DEFINE a == U \o left
               m == Len(U)
               n == Len(left)
    <2>1. /\ m \in Nat /\ n \in Nat /\ Len(a) = m + n
          /\ \A i \in 1..m : a[i] = U[i]
          /\ \A i \in (m + 1)..(m + n) : a[i] = left[i - m] /\ i - m \in 1..n
      BY <1>1
    <2> HIDE DEF a
    <2>2. ASSUME NEW i \in 1..(m + n), NEW j \in 1..(m + n), a[i] = a[j]
          PROVE  i = j
      <3>1. CASE i <= m /\ j <= m
        <4>1. i \in 1..m /\ j \in 1..m
          BY <2>1, <3>1
        <4> QED BY <1>1, <2>1, <2>2, <4>1 DEF Once
      <3>2. CASE i <= m /\ j > m
        <4>1. i \in 1..m /\ j \in (m + 1)..(m + n)
          BY <2>1, <3>2
        <4> QED BY <1>2, <2>1, <2>2, <4>1
      <3>3. CASE i > m /\ j <= m
        <4>1. j \in 1..m /\ i \in (m + 1)..(m + n)
          BY <2>1, <3>3
        <4> QED BY <1>2, <2>1, <2>2, <4>1
      <3>4. CASE i > m /\ j > m
        <4>1. i \in (m + 1)..(m + n) /\ j \in (m + 1)..(m + n)
          BY <2>1, <3>4
        <4>2. left[i - m] = left[j - m] /\ i - m \in 1..n /\ j - m \in 1..n
          BY <2>1, <2>2, <4>1
        <4>3. i - m = j - m
          BY <1>1, <4>2 DEF Once
        <4> QED BY <2>1, <4>3
      <3> QED BY <2>1, <3>1, <3>2, <3>3, <3>4
    <2> QED BY <2>1, <2>2 DEF Once
  <1> QED BY <1>3 DEF U

LEMMA RestoreProfileKeepsInv ==
  ASSUME Inv, RestoreProfile
  PROVE  Keeps
  <1> DEFINE h == Head(left)
             t == Tail(left)
             U == Users(stack)
  <1>1. /\ up /\ left # <<>> /\ left' = t
        /\ up' = up /\ interrupted' = interrupted /\ exits' = exits
    BY DEF RestoreProfile
  <1>2. /\ stack \in Seq(Profiles) /\ Once(stack) /\ InOrder /\ NoneTwice
        /\ left \in Seq(UserProfiles) /\ Once(left)
        /\ Loaded \in SUBSET Profiles /\ svc \in [Services -> ServiceStates]
        /\ session \in Seq(UserProfiles) /\ interrupted \in BOOLEAN
        /\ exits \in 0..MaxExits /\ corruptions \in 0..MaxCorruptions
        /\ exists \subseteq Profiles /\ up = TRUE
        /\ list = U /\ (~interrupted => session = U \o left)
    BY <1>1, InvFacts DEF TypeOK, NoneTwice, Listed
  <1>3. U \in Seq(UserProfiles) /\ Once(U)
    BY <1>2, UsersOfStack
  <1>4. /\ h \in UserProfiles /\ h \in Profiles /\ h = left[1] /\ 1 \in 1..Len(left)
        /\ t \in Seq(UserProfiles) /\ Once(t)
        /\ \A j \in 1..Len(t) : t[j] # h /\ \E k \in 1..Len(left) : t[j] = left[k]
        /\ U \o left = Append(U, h) \o t
    BY <1>1, <1>2, <1>3, FirstLeft
  <1> HIDE DEF h, t, U
  <1>5. h \notin Loaded
    <2>1. \A i \in 1..Len(stack) : stack[i] # h
      BY <1>2, <1>4 DEF NoneTwice
    <2> QED BY <1>2, <2>1 DEF Loaded, ToSet
  <1>6. \A i \in 1..Len(stack), j \in 1..Len(t) : stack[i] # t[j]
    BY <1>2, <1>4 DEF NoneTwice
  <1>7. CASE /\ PushProfileInternal(h)
             /\ exists' = exists /\ session' = session /\ corruptions' = corruptions
    <2>1. stack' = Append(stack, h) /\ list' = Users(stack')
      BY <1>7 DEF PushProfileInternal
    <2>2. stack' \in Seq(Profiles) /\ Once(stack')
      BY <1>2, <1>4, <1>5, <2>1, PushedProfile DEF Loaded
    <2>3. /\ svc' \in [Services -> ServiceStates]
          /\ \A s \in Services : Sane(s, svc'[s], Loaded', Hidden(svc[s]))
          /\ \A s \in Services : Writes(svc[s], svc'[s], Loaded')
      BY <1>2, <1>4, <1>7, PushKeepsOrder
    <2>4. Users(stack') = Append(U, h)
      <3>1. stack \in Seq(Profiles) /\ h \in Profiles /\ h \in UserProfiles
        BY <1>2, <1>4
      <3>2. Filtered(Append(stack, h), UserProfiles) = Append(Filtered(stack, UserProfiles), h)
        BY <3>1, FilteredAppend
      <3> QED BY <2>1, <3>2 DEF Users, U
    <2>5. \A i \in 1..Len(stack'), j \in 1..Len(t) : stack'[i] # t[j]
      <3>1. ASSUME NEW i \in 1..Len(stack')
            PROVE  stack'[i] = h \/ (i \in 1..Len(stack) /\ stack'[i] = stack[i])
        <4>1. stack \in Seq(Profiles) /\ h \in Profiles
          BY <1>2, <1>4
        <4> QED BY <2>1, <4>1
      <3>2. \A j \in 1..Len(t) : t[j] # h
        BY <1>4
      <3> QED BY <1>6, <3>1, <3>2
    <2>6. ~interrupted' => session' = Users(stack') \o left'
      BY <1>1, <1>2, <1>4, <1>7, <2>4
    <2>7. Inv' /\ HiddenIsAskedFor
      BY <1>1, <1>2, <1>4, <1>7, <2>1, <2>2, <2>3, <2>5, <2>6, RunningKeepsInv
    <2>8. LoggedOutIsUntouched
      BY <2>3 DEF LoggedOutIsUntouched, Writes
    <2> QED BY <2>7, <2>8 DEF Keeps
  <1>8. CASE /\ MarkAsCorrupted(h)
             /\ session' = Filtered(session, UserProfiles \ {h})
             /\ list' = list /\ stack' = stack
    <2>1. /\ corruptions' \in 0..MaxCorruptions /\ corruptions' # corruptions
          /\ exists' \subseteq Profiles
          /\ svc' = [s \in Services |-> [svc[s] EXCEPT !.stored[h] = None]]
      BY <1>2, <1>8, ProfilesAssumption DEF MarkAsCorrupted, ProfilesAssumption
    <2>2. /\ svc' \in [Services -> ServiceStates]
          /\ \A s \in Services : Sane(s, svc'[s], Loaded, Hidden(svc[s]))
      BY <1>2, <1>4, <1>5, <2>1, ErasedKeepsOrder DEF InOrder
    <2>3. Loaded' = Loaded /\ Users(stack') = U
      BY <1>8 DEF Loaded, U
    <2>4. session' \in Seq(UserProfiles)
      <3>1. session' \in Seq(UserProfiles \ {h})
        BY <1>2, <1>8, FilteredType
      <3> QED BY <3>1
    <2>5. ~interrupted' => session' = Users(stack') \o left'
      <3>1. Once(U \o left)
        BY <1>2, UsersAreDistinct DEF U
      <3>2. Filtered(U \o left, UserProfiles \ {h}) = U \o t
        BY <1>1, <1>2, <1>3, <3>1, FilteredWithout DEF h, t
      <3> QED BY <1>1, <1>2, <1>8, <2>3, <3>2
    <2>6. stack' \in Seq(Profiles) /\ Once(stack') /\ list' = Users(stack')
      BY <1>2, <1>8, <2>3
    <2>7. \A i \in 1..Len(stack'), j \in 1..Len(left') : stack'[i] # left'[j]
      BY <1>1, <1>6, <1>8
    <2>8. Inv' /\ HiddenIsAskedFor
      BY <1>1, <1>2, <1>4, <2>1, <2>2, <2>3, <2>4, <2>5, <2>6, <2>7, RunningKeepsInv
    <2>9. LoggedOutIsUntouched
      BY <2>1 DEF LoggedOutIsUntouched
    <2> QED BY <2>8, <2>9 DEF Keeps
  <1> QED BY <1>7, <1>8 DEF RestoreProfile, h

\* An action of one service.
LEMMA ServiceKeepsInv ==
  ASSUME Inv, up, NEW s \in Services,
         \E r : Becomes(s, r) /\ Follows(s, svc[s], r, Loaded, Hidden(svc[s]))
  PROVE  Keeps
  <1>1. PICK r : Becomes(s, r) /\ Follows(s, svc[s], r, Loaded, Hidden(svc[s]))
    OBVIOUS
  <1>2. \A q \in WiFi : Hidden(svc'[q]) => Hidden(svc[q])
    BY <1>1, BecomesKeepsInv
  <1> QED BY <1>1, <1>2, BecomesKeepsInv DEF Keeps, HiddenIsAskedFor

\* What the actions of a service rely on.
LEMMA ServiceFacts ==
  ASSUME Inv, NEW s \in Services
  PROVE  /\ Loaded \in SUBSET Profiles /\ stack \in Seq(Loaded)
         /\ Sane(s, svc[s], Loaded, Hidden(svc[s]))
BY InvFacts DEF InOrder

LEMMA WiFiKeepsInv ==
  ASSUME Inv, NEW s \in WiFi,
         \/ \E p \in Profiles, args \in Args :
               \/ \E specified \in BOOLEAN : ConfigureService(s, p, specified, args)
               \/ ConfigureServiceForProfile(s, p, args)
         \/ \E args \in Args : RequestService(s, args)
         \/ RemoveService(s)
         \/ OnEndpointAdded(s) \/ OnEndpointRemoved(s)
  PROVE  Keeps
  <1>1. s \in Services
    BY DEF Services
  <1>2. /\ Loaded \in SUBSET Profiles /\ stack \in Seq(Loaded)
        /\ Sane(s, svc[s], Loaded, Hidden(svc[s]))
    BY <1>1, ServiceFacts
  <1> DEFINE Good == \E r : Becomes(s, r) /\ Follows(s, svc[s], r, Loaded, Hidden(svc[s]))
  <1>3. ASSUME NEW p \in Profiles, NEW args \in Args, NEW specified \in BOOLEAN,
               ConfigureService(s, p, specified, args)
        PROVE  up /\ Good
    <2>1. /\ up /\ p \in Loaded
          /\ Becomes(s, Configured(GetService(s), p, specified, args))
      BY <1>3 DEF ConfigureService, Running
    <2>2. Follows(s, svc[s], Configured(GetService(s), p, specified, args), Loaded, Hidden(svc[s]))
      BY <1>2, <2>1, ConfiguredFollows, Zenon
    <2> QED BY <2>1, <2>2
  <1>4. ASSUME NEW p \in Profiles, NEW args \in Args, ConfigureServiceForProfile(s, p, args)
        PROVE  up /\ Good
    <2>1. up
      BY <1>4 DEF ConfigureServiceForProfile, Running
    <2>2. Good
      BY <1>2, <1>4, ConfigureServiceForProfileFollows
    <2> QED BY <2>1, <2>2
  <1>5. CASE RemoveService(s)
    <2>1. up
      BY <1>5 DEF RemoveService, Running
    <2>2. Good
      BY <1>2, <1>5, RemoveServiceFollows
    <2> QED BY <1>1, <2>1, <2>2, ServiceKeepsInv
  <1>6. CASE OnEndpointAdded(s)
    <2>1. up
      BY <1>6 DEF OnEndpointAdded, Running
    <2>2. Good
      BY <1>2, <1>6, OnEndpointAddedFollows
    <2> QED BY <1>1, <2>1, <2>2, ServiceKeepsInv
  <1>7. CASE OnEndpointRemoved(s)
    <2>1. up
      BY <1>7 DEF OnEndpointRemoved, Running
    <2>2. Good
      BY <1>2, <1>7, OnEndpointRemovedFollows
    <2> QED BY <1>1, <2>1, <2>2, ServiceKeepsInv
  <1>8. up /\ Good => Keeps
    BY <1>1, ServiceKeepsInv
  <1>9. ASSUME NEW args \in Args, RequestService(s, args)
        PROVE  Keeps
    <2> DEFINE r == Configure(GetService(s), args)
    <2>1. up /\ Becomes(s, r)
      BY <1>9 DEF RequestService, Running
    <2>2. Follows(s, svc[s], r, Loaded, TRUE)
      BY <1>2, RequestServiceFollows
    <2> HIDE DEF r
    <2>3. /\ Inv' /\ LoggedOutIsUntouched
          /\ \A q \in WiFi : Hidden(svc'[q]) => Hidden(svc[q]) \/ (q = s /\ TRUE)
      BY <1>1, <2>1, <2>2, BecomesKeepsInv
    <2> QED BY <1>9, <2>3 DEF Keeps, HiddenIsAskedFor
  <1> HIDE DEF Good
  <1> QED BY <1>3, <1>4, <1>5, <1>6, <1>7, <1>8, <1>9

LEMMA AnyServiceKeepsInv ==
  ASSUME Inv, NEW s \in Services,
         \/ \E config \in Configs : SetProperty(s, config)
         \/ \E p \in Profiles : SetProfileForService(s, p) \/ DeleteEntry(p, s)
         \/ Connected(s) \/ StateChanged(s) \/ Disconnected(s)
         \/ UserInitiatedDisconnect(s)
  PROVE  Keeps
  <1>1. /\ Loaded \in SUBSET Profiles /\ stack \in Seq(Loaded)
        /\ Sane(s, svc[s], Loaded, Hidden(svc[s]))
    BY ServiceFacts
  <1> DEFINE Good == \E r : Becomes(s, r) /\ Follows(s, svc[s], r, Loaded, Hidden(svc[s]))
  <1>2. up
    BY DEF SetProperty, SetProfileForService, DeleteEntry, Connected, StateChanged,
           Disconnected, UserInitiatedDisconnect, Running
  <1>3. ASSUME NEW config \in Configs, SetProperty(s, config)
        PROVE  Good
    BY <1>1, <1>3, SetPropertyFollows
  <1>4. ASSUME NEW p \in Profiles, SetProfileForService(s, p)
        PROVE  Good
    BY <1>1, <1>4, SetProfileFollows
  <1>5. ASSUME NEW p \in Profiles, DeleteEntry(p, s)
        PROVE  Good
    BY <1>1, <1>5, DeleteEntryFollows
  <1>6. Connected(s) => Good
    BY <1>1, ConnectedFollows
  <1>7. StateChanged(s) => Good
    BY <1>1, StateChangedFollows
  <1>8. Disconnected(s) \/ UserInitiatedDisconnect(s) => Good
    BY <1>1, DisconnectionFollows
  <1>9. Good => Keeps
    BY <1>2, ServiceKeepsInv
  <1> HIDE DEF Good
  <1> QED BY <1>3, <1>4, <1>5, <1>6, <1>7, <1>8, <1>9

LEMMA EthernetKeepsInv ==
  ASSUME Inv, NEW s \in Ethernet, StartEthernet(s) \/ StopEthernet(s)
  PROVE  Keeps
  <1>1. s \in Services
    BY DEF Services
  <1>2. /\ Loaded \in SUBSET Profiles /\ stack \in Seq(Loaded)
        /\ Sane(s, svc[s], Loaded, Hidden(svc[s]))
    BY <1>1, ServiceFacts
  <1> DEFINE Good == \E r : Becomes(s, r) /\ Follows(s, svc[s], r, Loaded, Hidden(svc[s]))
  <1>3. up
    BY DEF StartEthernet, StopEthernet, Running
  <1>4. StartEthernet(s) => Good
    BY <1>2, StartEthernetFollows
  <1>5. StopEthernet(s) => Good
    BY <1>2, StopEthernetFollows
  <1>6. Good => Keeps
    BY <1>1, <1>3, ServiceKeepsInv
  <1> HIDE DEF Good
  <1> QED BY <1>4, <1>5, <1>6

LEMMA NextKeepsInv ==
  ASSUME Inv, Next
  PROVE  Keeps
  <1>1. ASSUME NEW p \in Profiles, CreateProfile(p)
        PROVE  Keeps
    BY <1>1, CreateProfileKeepsInv DEF Keeps
  <1>2. ASSUME NEW p \in Profiles, RemoveProfile(p)
        PROVE  Keeps
    BY <1>2, RemoveProfileKeepsInv DEF Keeps
  <1>3. ASSUME NEW p \in Profiles, PushProfile(p)
        PROVE  Keeps
    BY <1>3, PushProfileKeepsInv DEF Keeps
  <1>4. ASSUME NEW p \in UserProfiles, PushCorruptedProfile(p)
        PROVE  Keeps
    BY <1>4, PushCorruptedProfileKeepsInv DEF Keeps, Profiles
  <1>5. CASE PopProfile
    BY <1>5, PopProfileKeepsInv DEF Keeps
  <1>6. CASE Exit
    BY <1>6, ExitKeepsInv DEF Keeps
  <1>7. CASE Start
    BY <1>7, StartKeepsInv DEF Keeps
  <1>8. CASE StartAnew
    BY <1>8, StartAnewKeepsInv DEF Keeps
  <1>9. CASE RestoreProfile
    BY <1>9, RestoreProfileKeepsInv DEF Keeps
  <1>10. ASSUME NEW s \in WiFi,
                \/ \E p \in Profiles, args \in Args :
                      \/ \E specified \in BOOLEAN : ConfigureService(s, p, specified, args)
                      \/ ConfigureServiceForProfile(s, p, args)
                \/ \E args \in Args : RequestService(s, args)
                \/ RemoveService(s)
                \/ OnEndpointAdded(s) \/ OnEndpointRemoved(s)
         PROVE  Keeps
    BY <1>10, WiFiKeepsInv
  <1>11. ASSUME NEW s \in Services,
                \/ \E config \in Configs : SetProperty(s, config)
                \/ \E p \in Profiles : SetProfileForService(s, p) \/ DeleteEntry(p, s)
                \/ Connected(s) \/ StateChanged(s) \/ Disconnected(s)
                \/ UserInitiatedDisconnect(s)
         PROVE  Keeps
    BY <1>11, AnyServiceKeepsInv
  <1>12. ASSUME NEW s \in Ethernet, StartEthernet(s) \/ StopEthernet(s)
         PROVE  Keeps
    BY <1>12, EthernetKeepsInv
  <1> QED BY <1>1, <1>2, <1>3, <1>4, <1>5, <1>6, <1>7, <1>8, <1>9, <1>10, <1>11, <1>12
          DEF Next
-----------------------------------------------------------------------------
(***************************************************************************)
(* The theorems.                                                           *)
(***************************************************************************)
LEMMA InitIsInv ==
  ASSUME Init
  PROVE  Inv
  <1> DEFINE f == [p \in Profiles |-> None]
             v == NewService(f)
  <1>1. /\ svc = [s \in Services |-> v] /\ exists = {} /\ list = <<>> /\ stack = <<>>
        /\ left = <<>> /\ up = FALSE /\ session = <<>> /\ interrupted = FALSE
        /\ exits = 0 /\ corruptions = 0
    BY DEF Init
  <1>2. f \in [Profiles -> Configs \cup {None}]
    OBVIOUS
  <1> HIDE DEF f
  <1>3. \A s : Sane(s, v, {}, TRUE) /\ ~v.known /\ v \in ServiceStates /\ v.dead = FALSE
    BY <1>2, NewServiceIsSane DEF Sane
  <1> HIDE DEF v
  <1>4. Loaded = {}
    BY <1>1 DEF Loaded, ToSet
  <1>5. \A s \in Services : svc[s] = v
    BY <1>1
  <1>6. TypeOK
    <2>1. v \in ServiceStates /\ v.dead = FALSE
      BY <1>3
    <2>2. svc \in [Services -> ServiceStates] /\ \A s \in Services : svc[s].dead = FALSE
      BY <1>1, <1>5, <2>1
    <2>3. 0 \in 0..MaxExits /\ 0 \in 0..MaxCorruptions
      BY ProfilesAssumption DEF ProfilesAssumption
    <2>4. \A S : <<>> \in Seq(S)
      OBVIOUS
    <2> QED BY <1>1, <2>2, <2>3, <2>4 DEF TypeOK
  <1>7. NoneTwice
    BY <1>1 DEF NoneTwice, Once
  <1>8. Listed
    BY <1>1 DEF Listed
  <1> QED BY <1>1, <1>3, <1>4, <1>5, <1>6, <1>7, <1>8 DEF Inv

LEMMA StutterKeepsInv ==
  ASSUME Inv, UNCHANGED vars
  PROVE  Keeps
  <1>1. /\ svc' = svc /\ exists' = exists /\ list' = list /\ stack' = stack /\ left' = left
        /\ up' = up /\ session' = session /\ interrupted' = interrupted
        /\ exits' = exits /\ corruptions' = corruptions
    BY DEF vars
  <1>2. Loaded' = Loaded
    BY <1>1 DEF Loaded
  <1>3. TypeOK'
    BY <1>1 DEF Inv, TypeOK
  <1>4. NoneTwice' /\ Listed'
    BY <1>1 DEF Inv, NoneTwice, Listed
  <1>5. Inv'
    BY <1>1, <1>2, <1>3, <1>4 DEF Inv
  <1> QED BY <1>1, <1>5 DEF LoggedOutIsUntouched, HiddenIsAskedFor, Keeps

\* Every service is in order for the profiles that are loaded, no profile is
\* loaded or restored twice, and the list on the disk, the stack and what is
\* left to restore tell of the same users, whatever is pushed, popped, moved,
\* forgotten or unreadable, and wherever shill exits.
THEOREM ProfilesInvariance == Spec => []Inv
  <1>1. Init => Inv
    BY InitIsInv
  <1>2. Inv /\ [Next]_vars => Inv'
    BY NextKeepsInv, StutterKeepsInv DEF Keeps
  <1> QED BY <1>1, <1>2, PTL DEF Spec

LEMMA InvIsMatching ==
  ASSUME Inv
  PROVE  EntriesMatchServices
  <1>1. TypeOK /\ \A s \in Services : Sane(s, svc[s], Loaded, TRUE)
    BY DEF Inv
  <1>2. RememberedIsStored
    BY <1>1 DEF RememberedIsStored, Remembered, Sane, Held, In
  <1>3. NothingIsLost
    BY <1>1 DEF NothingIsLost, Remembered, Sane, Held, Matches
  <1> QED BY <1>1, <1>2, <1>3 DEF EntriesMatchServices

\* A service is in a loaded profile that has an entry for it, and the entry is
\* its configuration unless the service has gone astray
\* (MatchProfileWithService, PopProfileInternal, MoveServiceToProfile, Unload).
THEOREM ServicesMatchEntries == Spec => []EntriesMatchServices
  <1>1. Inv => EntriesMatchServices
    BY InvIsMatching
  <1> QED BY <1>1, ProfilesInvariance, PTL

\* The users who are logged in, in their order, survive every restart that is
\* not itself interrupted (InitializeProfiles, SaveUserProfileList).
THEOREM LoginsSurvive == Spec => []LoginSurvives
  <1>1. Inv => LoginSurvives
    <2> SUFFICES ASSUME Inv, Running, ~interrupted
                 PROVE  Users(stack) = session
      BY DEF LoginSurvives
    <2>1. /\ up /\ left = <<>> /\ session = Users(stack) \o left
          /\ stack \in Seq(Profiles) /\ Once(stack)
      BY DEF Inv, Listed, Running, TypeOK, NoneTwice
    <2>2. Users(stack) \in Seq(UserProfiles)
      BY <2>1, UsersOfStack
    <2>3. Users(stack) \o <<>> = Users(stack)
      BY <2>2
    <2> QED BY <2>1, <2>3
  <1> QED BY <1>1, ProfilesInvariance, PTL

LEMMA RemovalForgets ==
  ASSUME Inv, NEW s \in WiFi, NEW p \in Profiles, svc[s].profile = p,
         ~svc[s].connected, RemoveService(s) \/ DeleteEntry(p, s)
  PROVE  Forgets(svc[s], svc'[s], p)
  <1>1. s \in Services
    BY DEF Services
  <1>2. /\ Loaded \in SUBSET Profiles /\ stack \in Seq(Loaded)
        /\ Sane(s, svc[s], Loaded, Hidden(svc[s]))
    BY <1>1, ServiceFacts
  <1>3. up
    BY DEF RemoveService, DeleteEntry, Running
  <1>4. \E r : /\ Becomes(s, r) /\ Follows(s, svc[s], r, Loaded, Hidden(svc[s]))
               /\ Forgets(svc[s], r, p)
    <2>1. CASE RemoveService(s)
      BY <1>2, <2>1, RemoveServiceFollows
    <2>2. CASE DeleteEntry(p, s)
      BY <1>2, <2>2, DeleteEntryFollows
    <2> QED BY <2>1, <2>2
  <1>5. PICK r : /\ Becomes(s, r) /\ Follows(s, svc[s], r, Loaded, Hidden(svc[s]))
                 /\ Forgets(svc[s], r, p)
    BY <1>4
  <1>6. svc'[s].stored = r.stored
    BY <1>1, <1>3, <1>5, BecomesKeepsInv
  <1> QED BY <1>5, <1>6 DEF Forgets

\* A WiFi service that is not connected and that Service.Remove or
\* Profile.DeleteEntry removes is gone from its profile, and written to none.
THEOREM RemovedIsForgotten == Spec => ForgottenIsGone
  <1> DEFINE IsGone == \A s \in WiFi, p \in Profiles :
                /\ svc[s].profile = p /\ ~svc[s].connected
                /\ RemoveService(s) \/ DeleteEntry(p, s)
                => /\ svc'[s].stored[p] = None
                   /\ \A q \in Profiles \ {p} : svc'[s].stored[q] = svc[s].stored[q]
  <1>1. Inv => IsGone
    BY RemovalForgets DEF Forgets
  <1>2. Inv => [IsGone]_vars
    BY <1>1
  <1> QED BY <1>2, ProfilesInvariance, PTL DEF ForgottenIsGone

\* Popping a profile takes the passphrases of its WiFi services along, and no
\* step writes to a profile that is not loaded; a WiFi service that is in no
\* profile and has no endpoint is one a client asked for by name
\* (PopProfileInternal, Unload, OnServiceUnloaded, Manager::GetService).
THEOREM LogoutIsForgotten == Spec => LogoutForgets
  <1>1. Inv => PoppedIsForgotten
    <2>1. Inv /\ PopProfile => PoppedIsForgotten
      BY PopProfileKeepsInv
    <2>2. ~PopProfile => PoppedIsForgotten
      BY DEF PoppedIsForgotten
    <2> QED BY <2>1, <2>2
  <1>2. Inv /\ [Next]_vars => LoggedOutIsUntouched /\ HiddenIsAskedFor
    BY NextKeepsInv, StutterKeepsInv DEF Keeps
  <1>3. Inv /\ [Next]_vars
        => [PoppedIsForgotten /\ LoggedOutIsUntouched /\ HiddenIsAskedFor]_vars
    BY <1>1, <1>2
  <1> QED BY <1>3, ProfilesInvariance, PTL DEF Spec, LogoutForgets
=============================================================================
