------------------------------ MODULE Profiles ------------------------------
(***************************************************************************)
(* Profiles and storage: the stack of profiles of the Manager, the entries *)
(* they store (profile.cc, default_profile.cc, ephemeral_profile.cc), and  *)
(* the services that load their configuration from them and save it to     *)
(* them (manager.cc, service.cc, wifi/wifi_service.cc,                     *)
(* wifi/wifi_provider.cc, ethernet/ethernet.cc).  shill may exit at any    *)
(* time; the user profiles it had loaded are listed in a file, from which  *)
(* the next start restores them.                                           *)
(*                                                                         *)
(* A service is a record with what every profile stores of it and, while   *)
(* the manager knows it, its state in memory.  Every save is followed by a *)
(* Flush, so that what a loaded profile holds is what the disk holds.  A   *)
(* configuration is two fields: |key| stands for what Unload resets, the   *)
(* passphrase first, and |static| for what it leaves, the static IP        *)
(* parameters.  WiFi services need a key.  Left out: the entries of        *)
(* devices and of the manager, saves that fail, and StubStorage, which     *)
(* stands in for a machine-wide profile that cannot be opened.             *)
(***************************************************************************)
EXTENDS Integers, Sequences, FiniteSets, SequencesExt

CONSTANTS
    WiFi, Ethernet,     \* the services, by technology
    MachineProfiles, UserProfiles,
    DefaultId,          \* the machine-wide profile every start loads
    Keys, Statics,      \* the values of the two fields of a configuration
    None,               \* no value, no profile, no entry
    Ephemeral,          \* the profile that is not stored
    Keep,               \* an argument that is not given
    MaxExits,           \* bound: exits of shill
    MaxCorruptions      \* bound: files that turn out to be unreadable

ASSUME ProfilesAssumption ==
    /\ WiFi \cap Ethernet = {}
    /\ MachineProfiles \cap UserProfiles = {}
    /\ DefaultId \in MachineProfiles
    /\ {None, Ephemeral} \cap (MachineProfiles \cup UserProfiles) = {}
    /\ None # Ephemeral
    /\ {None, Keep} \cap (Keys \cup Statics) = {}
    /\ None \notin [key : Keys \cup {None}, static : Statics \cup {None}]
    /\ None # Keep
    /\ MaxExits \in Nat /\ MaxCorruptions \in Nat

VARIABLES
    svc,            \* service -> its entries and its state
    exists,         \* the profiles whose file exists
    list,           \* the file that lists the loaded user profiles
    stack,          \* profiles_
    left,           \* the user profiles InitializeProfiles has yet to push
    up,             \* shill runs
    session,        \* the user profiles that were pushed and not popped (ghost)
    interrupted,    \* shill has exited while it restored the stack (ghost)
    exits, corruptions

vars == <<svc, exists, list, stack, left, up, session, interrupted, exits, corruptions>>

Services == WiFi \cup Ethernet
Profiles == MachineProfiles \cup UserProfiles
Configs == [key : Keys \cup {None}, static : Statics \cup {None}]
Unset == [key |-> None, static |-> None]
\* A call sets one property, or none.
Args == {a \in [key : Keys \cup {Keep}, static : Statics \cup {Keep}] :
            Keep \in {a.key, a.static}}

ServiceStates ==
    [stored : [Profiles -> Configs \cup {None}],    \* the group of each profile
     known : BOOLEAN,                               \* in services_ of the manager
     profile : Profiles \cup {Ephemeral, None},     \* profile_
     config : Configs,
     endpoints : BOOLEAN,                           \* HasEndpoints
     connected : BOOLEAN,                           \* IsConnected
     explicit : BOOLEAN,        \* explicitly_disconnected_, while still connected
     astray : BOOLEAN,      \* its entry is not its configuration (ghost)
     dead : BOOLEAN]        \* a null profile has been followed

TypeOK ==
    /\ svc \in [Services -> ServiceStates]
    /\ \A s \in Services : svc[s].dead = FALSE
    /\ exists \subseteq Profiles
    /\ list \in Seq(UserProfiles)
    /\ stack \in Seq(Profiles)
    /\ left \in Seq(UserProfiles)
    /\ up \in BOOLEAN
    /\ session \in Seq(UserProfiles)
    /\ interrupted \in BOOLEAN
    /\ exits \in 0..MaxExits
    /\ corruptions \in 0..MaxCorruptions

Loaded == ToSet(stack)

\* The members of a list that are in S, in their order.
Filtered(sq, S) ==
    LET f[i \in 0..Len(sq)] ==
            IF i = 0 THEN <<>>
            ELSE IF sq[i] \in S THEN Append(f[i - 1], sq[i]) ELSE f[i - 1]
    IN  f[Len(sq)]

Users(st) == Filtered(st, UserProfiles)
Top(st) == IF st = <<>> THEN None ELSE Last(st)
Running == up /\ left = <<>>

-----------------------------------------------------------------------------
(***************************************************************************)
(* One service and the profiles.  An operator takes the state v of service *)
(* s and returns the next one; st is the stack it runs on.                 *)
(***************************************************************************)

\* A service that shill has not created yet, or has forgotten.
NewService(stored) ==
    [stored |-> stored, known |-> FALSE, profile |-> None, config |-> Unset,
     endpoints |-> FALSE, connected |-> FALSE, explicit |-> FALSE,
     astray |-> FALSE, dead |-> FALSE]

\* Profile::UpdateService
Save(v, p) ==
    [v EXCEPT !.stored[p] = v.config, !.astray = @ /\ v.profile # p]

\* Service::SaveToProfile: the ephemeral profile has no storage.
SaveToProfile(v) == IF v.profile \in Profiles THEN Save(v, v.profile) ELSE v

AbandonService(v, p) ==
    LET u == IF v.profile = p THEN [v EXCEPT !.profile = None] ELSE v
    IN IF p \in Profiles THEN [u EXCEPT !.stored[p] = None] ELSE u

AdoptService(v, p) == Save([v EXCEPT !.profile = p], p)

MoveServiceToProfile(v, p) ==
    IF v.profile = p THEN v ELSE AbandonService(AdoptService(v, p), v.profile)

SaveServiceToProfile(v, st) ==
    CASE v.profile = Ephemeral -> IF st = <<>> THEN v ELSE MoveServiceToProfile(v, Last(st))
      [] v.profile = None -> [v EXCEPT !.dead = TRUE]
      [] OTHER -> Save(v, v.profile)

\* Mutant: every service that is updated is saved.
UpdateAnyService(v, st) == SaveServiceToProfile(v, st)

\* Manager::UpdateService: what is connected is remembered.
UpdateService(v, st) == IF v.connected THEN SaveServiceToProfile(v, st) ELSE v

ClearExplicitlyDisconnected(v, st) ==
    IF v.explicit THEN UpdateService([v EXCEPT !.explicit = FALSE], st) ELSE v

\* The service updates itself before its passphrase is read.
Load(v, p, st) ==
    LET u == ClearExplicitlyDisconnected(
                [v EXCEPT !.config.static = v.stored[p].static], st)
    IN IF u.dead THEN u ELSE [u EXCEPT !.config.key = u.stored[p].key]

\* Whether ConfigureService of profile p accepts the service: a machine-wide
\* profile accepts Ethernet services it knows nothing of.
Accepts(p, s, v) ==
    v.stored[p] # None \/ (p \in MachineProfiles /\ s \in Ethernet)

ConfigureFrom(v, p, st) ==
    LET u == IF v.stored[p] # None THEN Load(v, p, st) ELSE Save(v, p)
    IN [u EXCEPT !.profile = p, !.astray = FALSE]

Accepting(s, v, st) == {i \in DOMAIN st : Accepts(st[i], s, v)}

MatchProfileWithService(s, v, st) ==
    LET fits == Accepting(s, v, st)
    IN IF fits = {} THEN [v EXCEPT !.profile = Ephemeral]
       ELSE ConfigureFrom(v, st[Max(fits)], st)

RegisterService(s, v, st) ==
    [MatchProfileWithService(s, v, st) EXCEPT !.known = TRUE]

\* Mutant: the passphrase is not cleared.
UnloadKeepsKey(s, v, st, at_once) ==
    [ClearExplicitlyDisconnected(v, st) EXCEPT
        !.connected = @ /\ s \in WiFi /\ ~at_once]

\* What Unload of the service leaves; |at_once| tells whether the service is
\* disconnected before wpa_supplicant reports it.  A service that is still
\* connected after the user has disconnected it is remembered once more.
Unload(s, v, st, at_once) ==
    LET u == ClearExplicitlyDisconnected(v, st)
    IN [u EXCEPT !.config.key = None,
                 !.astray = u.profile \in Profiles,
                 !.connected = @ /\ s \in WiFi /\ ~at_once]

\* Only a WiFi service that is out of range goes away.
UnloadService(s, v, st, at_once) ==
    LET u == Unload(s, v, st, at_once)
    IN IF s \in WiFi /\ ~u.endpoints THEN NewService(u.stored) ELSE u

\* Service::Configure
Configure(v, args) ==
    LET config == [key |-> IF args.key = Keep THEN v.config.key ELSE args.key,
                   static |-> IF args.static = Keep THEN v.config.static ELSE args.static]
    IN IF config = v.config THEN v ELSE SaveToProfile([v EXCEPT !.config = config])

-----------------------------------------------------------------------------
(***************************************************************************)
(* The stack.                                                              *)
(***************************************************************************)

\* What PushProfileInternal does to service s once p is on top of st.
Joins(s, v, p, st) ==
    IF v.known
    THEN LET u == ClearExplicitlyDisconnected(v, st)
         IN IF Accepts(p, s, u) THEN ConfigureFrom(u, p, st) ELSE u
    ELSE IF s \in WiFi /\ v.stored[p] # None THEN RegisterService(s, v, st)
    ELSE v

\* Mutant: services keep the profile that is popped.
LeavesNothing(s, v, p, st, at_once) == ClearExplicitlyDisconnected(v, st)

\* What PopProfileInternal does to service s once p is no longer on st.
Leaves(s, v, p, st, at_once) ==
    LET u == ClearExplicitlyDisconnected(v, st)
    IN CASE ~v.known -> v
         [] v.known /\ u.profile # p -> u
         [] v.known /\ u.profile = p ->
              IF Accepting(s, u, st) # {} THEN MatchProfileWithService(s, u, st)
              ELSE UnloadService(s, MatchProfileWithService(s, u, st), st, at_once)

PushProfileInternal(p) ==
    LET st == Append(stack, p)
    IN /\ stack' = st
       /\ svc' = [s \in Services |-> Joins(s, svc[s], p, st)]
       /\ list' = Users(st)

\* The file of p is moved out of the way.
MarkAsCorrupted(p) ==
    /\ corruptions < MaxCorruptions
    /\ corruptions' = corruptions + 1
    /\ exists' = exists \ {p}
    /\ svc' = [s \in Services |-> [svc[s] EXCEPT !.stored[p] = None]]

CreateProfile(p) ==
    /\ Running
    /\ p \notin Loaded \cup exists
    /\ exists' = exists \cup {p}
    /\ UNCHANGED <<svc, list, stack, left, up, session, interrupted, exits, corruptions>>

RemoveProfile(p) ==
    /\ Running
    /\ p \in exists \ Loaded
    /\ exists' = exists \ {p}
    /\ svc' = [s \in Services |-> [svc[s] EXCEPT !.stored[p] = None]]
    /\ UNCHANGED <<list, stack, left, up, session, interrupted, exits, corruptions>>

\* A machine-wide profile goes below every user profile.
PushProfile(p) ==
    /\ Running
    /\ p \in exists \ Loaded
    /\ p \in MachineProfiles => Top(stack) \notin UserProfiles
    /\ PushProfileInternal(p)
    /\ session' = Users(stack')
    /\ UNCHANGED <<exists, left, up, interrupted, exits, corruptions>>

PushCorruptedProfile(p) ==
    /\ Running
    /\ p \in (exists \ Loaded) \cap UserProfiles
    /\ MarkAsCorrupted(p)
    /\ UNCHANGED <<list, stack, left, up, session, interrupted, exits>>

PopProfile ==
    /\ Running
    /\ stack # <<>>
    /\ \E at_once \in BOOLEAN :
          svc' = [s \in Services |->
                    Leaves(s, svc[s], Last(stack), Front(stack), at_once)]
    /\ stack' = Front(stack)
    /\ list' = Users(stack')
    /\ session' = Users(stack')
    /\ UNCHANGED <<exists, left, up, interrupted, exits, corruptions>>

-----------------------------------------------------------------------------
(***************************************************************************)
(* shill exits, by itself or not, and starts.                              *)
(***************************************************************************)

\* shill is gone, and the services are as v says on the disk.
Gone(v) ==
    /\ exits < MaxExits
    /\ exits' = exits + 1
    /\ up' = FALSE
    /\ stack' = <<>>
    /\ left' = <<>>
    /\ interrupted' = (interrupted \/ left # <<>>)
    /\ svc' = [s \in Services |-> NewService(v[s].stored)]
    /\ UNCHANGED <<exists, list, session, corruptions>>

\* Manager::Stop, or a crash between two steps.
Exit == up /\ Gone(svc)

\* Mutant: the list is read after the push of the default profile.
StartThenRead ==
    /\ ~up
    /\ up' = TRUE
    /\ exists' = exists \cup {DefaultId}
    /\ PushProfileInternal(DefaultId)
    /\ left' = list'
    /\ UNCHANGED <<session, interrupted, exits, corruptions>>

\* InitializeProfiles up to the push of the default profile.
Start ==
    /\ ~up
    /\ up' = TRUE
    /\ left' = list
    /\ exists' = exists \cup {DefaultId}
    /\ PushProfileInternal(DefaultId)
    /\ UNCHANGED <<session, interrupted, exits, corruptions>>

\* The default profile is unreadable, and made anew.
StartAnew ==
    /\ ~up
    /\ DefaultId \in exists
    /\ corruptions < MaxCorruptions
    /\ corruptions' = corruptions + 1
    /\ up' = TRUE
    /\ left' = list
    /\ stack' = <<DefaultId>>
    /\ list' = <<>>
    /\ svc' = [s \in Services |-> [svc[s] EXCEPT !.stored[DefaultId] = None]]
    /\ UNCHANGED <<exists, session, interrupted, exits>>

\* InitializeProfiles pushes the user profiles it has read from the list.
RestoreProfile ==
    /\ up /\ left # <<>>
    /\ left' = Tail(left)
    /\ \/ /\ Head(left) \in exists
          /\ PushProfileInternal(Head(left))
          /\ UNCHANGED <<exists, session, corruptions>>
       \/ /\ Head(left) \in exists
          /\ MarkAsCorrupted(Head(left))
          /\ session' = Filtered(session, UserProfiles \ {Head(left)})
          /\ UNCHANGED <<list, stack>>
    /\ UNCHANGED <<up, interrupted, exits>>

-----------------------------------------------------------------------------
(***************************************************************************)
(* Calls that configure and forget services.                               *)
(***************************************************************************)

\* The next state of one service; a null profile ends shill.
Becomes(s, v) ==
    \/ /\ ~v.dead
       /\ svc' = [svc EXCEPT ![s] = v]
       /\ UNCHANGED <<exists, list, stack, left, up, session, interrupted, exits, corruptions>>
    \/ /\ v.dead
       /\ Gone([svc EXCEPT ![s] = v])

\* Manager::ConfigureService on service v that is in services_.
Configured(v, p, specified, args) ==
    LET a == IF v.profile = p \/ v.stored[p] = None THEN v
             ELSE [Load(v, p, stack) EXCEPT !.astray = TRUE]
        b == Save(Configure(a, args), p)
    IN IF b.profile = Ephemeral \/ (specified /\ b.profile # p)
       THEN MoveServiceToProfile(b, p)
       ELSE b

\* The service, made and registered first if the provider has none.
GetService(s) ==
    IF svc[s].known THEN svc[s] ELSE RegisterService(s, svc[s], stack)

ConfigureService(s, p, specified, args) ==
    /\ Running
    /\ p \in Loaded
    /\ ~specified => p = Last(stack)
    /\ Becomes(s, Configured(GetService(s), p, specified, args))

\* Manager::GetService, called by a client: a service that is made for it, of
\* a hidden network say, stays although no profile and no endpoint shows it.
RequestService(s, args) ==
    /\ Running
    /\ Becomes(s, Configure(GetService(s), args))

IsProfileBefore(a, b) ==
    \E i, j \in DOMAIN stack : i < j /\ stack[i] = a /\ stack[j] = b

SetupServiceInProfile(v, p, args) ==
    Save(Configure([v EXCEPT !.profile = p], args), p)

\* A temporary service carries the configuration into a profile below the one
\* of the service.
ConfigureServiceForProfile(s, p, args) ==
    LET v == svc[s]
        temporary == [NewService(v.stored) EXCEPT
                        !.config = IF v.stored[p] # None THEN v.stored[p] ELSE Unset]
    IN /\ Running
       /\ p \in Loaded
       /\ CASE ~v.known -> Becomes(s, Configured(GetService(s), p, TRUE, args))
            [] v.known /\ (v.profile \in {p, Ephemeral} \/ IsProfileBefore(v.profile, p)) ->
                 Becomes(s, SetupServiceInProfile(v, p, args))
            [] OTHER ->
                 Becomes(s, [v EXCEPT !.stored = SetupServiceInProfile(temporary, p, args).stored])

\* SetProperty and ClearProperty on the service.
SetProperty(s, config) ==
    /\ Running
    /\ svc[s].known
    /\ config.key = svc[s].config.key <=> config.static # svc[s].config.static
    /\ s \in Ethernet => config.key = None
    /\ Becomes(s, SaveToProfile([svc[s] EXCEPT !.config = config]))

\* The Profile property of the service is set.
SetProfileForService(s, p) ==
    /\ Running
    /\ svc[s].known
    /\ p \in Loaded \ {svc[s].profile}
    /\ Becomes(s, MoveServiceToProfile(svc[s], p))

\* Service.Remove, which Ethernet services do not support.
RemoveService(s) ==
    /\ Running
    /\ svc[s].known
    /\ LET v == svc[s]
           a == AbandonService(v, v.profile)
           m == IF v.profile = Ephemeral THEN v ELSE MatchProfileWithService(s, a, stack)
       IN \E at_once \in BOOLEAN :
             Becomes(s, IF v.profile # Ephemeral /\ Accepting(s, a, stack) # {}
                        THEN IF m.dead THEN m ELSE UpdateService(m, stack)
                        ELSE UpdateService(UnloadService(s, m, stack, at_once), stack))

\* Profile.DeleteEntry
DeleteEntry(p, s) ==
    /\ Running
    /\ p \in Loaded
    /\ svc[s].stored[p] # None
    /\ LET v == svc[s]
           a == AbandonService(v, p)
           m == MatchProfileWithService(s, a, stack)
       IN \E at_once \in BOOLEAN :
             Becomes(s, CASE v.profile # p -> a
                          [] v.profile = p /\ Accepting(s, a, stack) # {} -> m
                          [] OTHER -> UnloadService(s, m, stack, at_once))

-----------------------------------------------------------------------------
(***************************************************************************)
(* Services come, go, connect and disconnect.                              *)
(***************************************************************************)

OnEndpointAdded(s) ==
    /\ Running
    /\ Becomes(s, UpdateService([GetService(s) EXCEPT !.endpoints = TRUE], stack))

\* WiFiProvider::OnEndpointRemoved.  A service that loses its last endpoint
\* has been disconnected before.
OnEndpointRemoved(s) ==
    LET v == [svc[s] EXCEPT !.endpoints = FALSE]
    IN /\ Running
       /\ svc[s].endpoints /\ ~svc[s].connected
       /\ Becomes(s, IF v.profile # Ephemeral THEN v
                     ELSE NewService(Unload(s, v, stack, TRUE).stored))

\* Ethernet::Start
StartEthernet(s) ==
    /\ Running
    /\ ~svc[s].known
    /\ Becomes(s, RegisterService(s, svc[s], stack))

\* Ethernet::Stop, after the device has disconnected the service.
StopEthernet(s) ==
    /\ Running
    /\ svc[s].known
    /\ Becomes(s, [Unload(s, [svc[s] EXCEPT !.connected = FALSE], stack, TRUE) EXCEPT
                      !.known = FALSE, !.profile = None, !.astray = FALSE])

\* Service::SetState(kStateConnected), some time after Connect.
Connected(s) ==
    LET v == [svc[s] EXCEPT !.connected = TRUE]
    IN /\ Running
       /\ svc[s].known /\ ~svc[s].connected
       /\ s \in WiFi => svc[s].endpoints /\ svc[s].config.key # None
       /\ Becomes(s, UpdateService(SaveToProfile(v), stack))

\* The state of a connected service changes to another connected one.
StateChanged(s) ==
    /\ Running
    /\ svc[s].connected
    /\ Becomes(s, UpdateService(svc[s], stack))

Disconnected(s) ==
    /\ Running
    /\ svc[s].connected
    /\ Becomes(s, [svc[s] EXCEPT !.connected = FALSE, !.explicit = FALSE])

\* The user disconnects the service.  That it was the user matters to its
\* profile only as long as wpa_supplicant has not reported the disconnection:
\* what is not connected is not saved when explicitly_disconnected_ is cleared.
UserInitiatedDisconnect(s) ==
    /\ Running
    /\ svc[s].connected
    /\ s \in WiFi
    /\ Becomes(s, [svc[s] EXCEPT !.explicit = TRUE])

-----------------------------------------------------------------------------
Init ==
    /\ svc = [s \in Services |-> NewService([p \in Profiles |-> None])]
    /\ exists = {}
    /\ list = <<>> /\ stack = <<>> /\ left = <<>>
    /\ up = FALSE
    /\ session = <<>>
    /\ interrupted = FALSE
    /\ exits = 0 /\ corruptions = 0

Next ==
    \/ \E p \in Profiles : CreateProfile(p) \/ RemoveProfile(p) \/ PushProfile(p)
    \/ \E p \in UserProfiles : PushCorruptedProfile(p)
    \/ PopProfile
    \/ Exit \/ Start \/ StartAnew \/ RestoreProfile
    \/ \E s \in WiFi :
          \/ \E p \in Profiles, args \in Args :
                \/ \E specified \in BOOLEAN : ConfigureService(s, p, specified, args)
                \/ ConfigureServiceForProfile(s, p, args)
          \/ \E args \in Args : RequestService(s, args)
          \/ RemoveService(s)
          \/ OnEndpointAdded(s) \/ OnEndpointRemoved(s)
    \/ \E s \in Services :
          \/ \E config \in Configs : SetProperty(s, config)
          \/ \E p \in Profiles : SetProfileForService(s, p) \/ DeleteEntry(p, s)
          \/ Connected(s) \/ StateChanged(s) \/ Disconnected(s)
          \/ UserInitiatedDisconnect(s)
    \/ \E s \in Ethernet : StartEthernet(s) \/ StopEthernet(s)

Spec == Init /\ [][Next]_vars

-----------------------------------------------------------------------------
(***************************************************************************)
(* Properties.                                                             *)
(***************************************************************************)

Remembered(s) == svc[s].known /\ svc[s].profile # Ephemeral

\* A service is in the ephemeral profile, or in one that is loaded and has an
\* entry for it, whatever was pushed, popped, moved and deleted: its next save
\* goes to a profile that would give it back (MatchProfileWithService,
\* MoveServiceToProfile, PopProfileInternal).
RememberedIsStored ==
    \A s \in Services : Remembered(s) =>
        /\ svc[s].profile \in Loaded
        /\ svc[s].stored[svc[s].profile] # None

\* Nothing is lost if shill dies now: the entry a service would be read from
\* is its configuration.  Two services go astray until they are saved again:
\* one of a lower profile into which ConfigureService, called without a
\* profile, has loaded the entry of the active one, and one that is unloaded
\* while the disconnection the user asked for is pending.
NothingIsLost ==
    \A s \in Services : Remembered(s) /\ ~svc[s].astray =>
        svc[s].stored[svc[s].profile] = svc[s].config

\* Known, in no profile, and shown by no endpoint.
Hidden(v) == v.known /\ v.profile = Ephemeral /\ ~v.endpoints

\* Only a client that asks for a service by name makes one that no profile
\* remembers and no access point shows (Manager::GetService; such services may
\* stay, wifi_service.cc:199).  No other step leaves one behind: a profile
\* that is popped, an entry that is deleted, an access point that goes out of
\* range (WiFiProvider::OnServiceUnloaded, OnEndpointRemoved, UnloadService).
HiddenIsAskedFor ==
    \A s \in WiFi :
        Hidden(svc'[s]) /\ ~Hidden(svc[s]) => \E args \in Args : RequestService(s, args)

\* A profile that is not on the stack before and after a step, and whose file
\* is neither made, removed nor found corrupt in it, is left as it is: the
\* services that came from it no longer save to it, and CreateProfile does not
\* start it anew.
LoggedOutIsUntouched ==
    \A p \in Profiles :
        (p \notin Loaded \cup Loaded' /\ p \in exists /\ p \in exists'
           /\ corruptions' = corruptions)
        => \A s \in Services : svc'[s].stored[p] = svc[s].stored[p]

\* The profiles of the users who are logged in survive every restart, in
\* their order (InitializeProfiles, SaveUserProfileList), unless shill exits
\* once more while it restores them, or one cannot be read.
LoginSurvives == Running /\ ~interrupted => Users(stack) = session

\* A WiFi service that is not connected and is removed (Service.Remove,
\* Profile.DeleteEntry) is gone from its profile, and comes back in no other.
ForgottenIsGone ==
    [][\A s \in WiFi, p \in Profiles :
          /\ svc[s].profile = p /\ ~svc[s].connected
          /\ RemoveService(s) \/ DeleteEntry(p, s)
          => /\ svc'[s].stored[p] = None
             /\ \A q \in Profiles \ {p} : svc'[s].stored[q] = svc[s].stored[q]]_vars

\* When the profile a WiFi service is in is popped, its passphrase goes: what
\* the service knows afterwards is from a profile that is still loaded, and no
\* such profile has been written to (PopProfileInternal, Service::Unload).
\* Except for a service the user has disconnected and that still is connected,
\* which ClearExplicitlyDisconnected saves once more.
PoppedIsForgotten ==
    \A s \in WiFi :
        /\ PopProfile
        /\ svc[s].known /\ svc[s].profile = Top(stack)
        /\ ~(svc[s].explicit /\ svc[s].connected)
        => /\ \/ svc'[s].config.key = None
              \/ \E p \in Loaded' : svc'[s].stored[p] = svc'[s].config
           /\ svc'[s].stored = svc[s].stored

\* Services and entries agree, in what loaded profile a service is and with
\* what is in memory; nothing of it is lost in a crash.
EntriesMatchServices == TypeOK /\ RememberedIsStored /\ NothingIsLost

\* A profile that is popped takes its passphrases along, what it stores is as
\* it was when it is pushed again, and no service stays that nothing shows.
LogoutForgets ==
    [][PoppedIsForgotten /\ LoggedOutIsUntouched /\ HiddenIsAskedFor]_vars
=============================================================================
