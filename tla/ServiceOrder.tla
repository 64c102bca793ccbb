---------------------------- MODULE ServiceOrder ----------------------------
(***************************************************************************)
(* Service::Compare (service.cc), the comparator by which Manager sorts    *)
(* its list of services, and what std::sort makes of it.                   *)
(*                                                                         *)
(* A service is seen through a record: its connection state and the        *)
(* settings and history the comparator reads.  The criteria that are plain *)
(* numbers (technology order, security level, profile ...) come last and   *)
(* do not change here: they are its Rank.                                  *)
(***************************************************************************)
EXTENDS Integers, Sequences, SequencesExt

CONSTANTS
  Service,      \* the services that exist
  Rank          \* [Service -> the fixed numbers Compare reads]

ConnectStates == {"idle", "associating", "configuring", "connected",
                  "portal", "online", "failure"}
ConnectedStates == {"connected", "portal", "online"}
ConnectingStates == {"associating", "configuring"}

IsConnected(a) == a.state \in ConnectedStates
IsConnecting(a) == a.state \in ConnectingStates
IsActive(a) == a.state \notin {"idle", "failure"}

(* A service that failed counts as failed until it connects, whatever its  *)
(* state is in between (service.h, IsFailed).                              *)
IsFailed(a) == a.state = "failure" \/ a.failed

Flag(b) == IF b THEN 1 ELSE 0

(***************************************************************************)
(* The criteria, most important first, each as the pair of what a and b    *)
(* score.  "dependent" and "carries" say whether a runs over b, or b over  *)
(* a.                                                                      *)
(***************************************************************************)
StateCriteria(a, b) ==
  << <<Flag(a.state = "online"), Flag(b.state = "online")>>,
     <<Flag(IsConnected(a)), Flag(IsConnected(b))>>,
     <<Flag(a.state # "portal"), Flag(b.state # "portal")>>,
     <<Flag(IsConnecting(a)), Flag(IsConnecting(b))>>,
     <<Flag(~IsFailed(a)), Flag(~IsFailed(b))>> >>

Criteria(a, b, dependent, carries, compareState) ==
  (IF compareState /\ a.state # b.state THEN StateCriteria(a, b) ELSE << >>)
  \o << <<Flag(a.connectable), Flag(b.connectable)>>,
        <<Flag(dependent), Flag(carries)>> >>
  \o (IF IsConnected(a) THEN << >> ELSE << <<Flag(a.auto), Flag(b.auto)>> >>)
  \o << <<Flag(a.ever), Flag(b.ever)>> >>

RankCriteria(a, b) ==
  << <<a.priority, b.priority>>, <<a.technology, b.technology>>,
     <<a.within, b.within>>, <<a.security, b.security>>,
     <<a.profile, b.profile>>, <<a.strength, b.strength>>,
     <<-a.serial, -b.serial>> >>

(* The first criterion on which the two differ decides (DecideBetween).    *)
Decides(criteria) ==
  \E i \in DOMAIN criteria :
    /\ criteria[i][1] > criteria[i][2]
    /\ \A j \in 1 .. i - 1 : criteria[j][1] = criteria[j][2]
Tied(criteria) == \A i \in DOMAIN criteria : criteria[i][1] = criteria[i][2]

Pairs == {<<a, b>> : a, b \in Service}

RankedBefore == {p \in Pairs :
                   Decides(RankCriteria(Rank[p[1]], Rank[p[2]]))}

Compare(svc, a, b, dependent, carries, compareState) ==
  LET criteria == Criteria(svc[a], svc[b], dependent, carries, compareState)
  IN  Decides(criteria) \/ (Tied(criteria) /\ <<a, b>> \in RankedBefore)

(***************************************************************************)
(* std::sort, external: the comparator is not a strict weak order (see     *)
(* README), so all one may say of the result is what the insertion sort of *)
(* short lists ensures: no element belongs before its predecessor.         *)
(***************************************************************************)
Sorted(list, before) ==
  \A i \in 1 .. Len(list) - 1 : <<list[i + 1], list[i]>> \notin before

Orders == [S \in SUBSET Service |-> SetToSeqs(S)]

(* "before" is the comparator as the set of pairs it holds of.             *)
Sortings(list, before) == {p \in Orders[ToSet(list)] : Sorted(p, before)}
=============================================================================
