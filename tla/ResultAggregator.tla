-------------------------- MODULE ResultAggregator --------------------------
(***************************************************************************)
(* shill's ResultAggregator (result_aggregator.cc).  It is reference       *)
(* counted: each callback handed out holds a reference and the destructor  *)
(* runs callback_ once the last reference is gone, unless the timeout ran  *)
(* it earlier or no result was ever reported.  Which error it passes on is *)
(* left out: its only users log it and count it.                           *)
(***************************************************************************)
EXTENDS Naturals

Aggregators(kinds, holders) ==
    [kind : kinds,
     got : BOOLEAN,             \* got_result_
     timedOut : BOOLEAN,        \* timed_out_
     alive : BOOLEAN,           \* references remain
     fired : Nat,               \* how often callback_ has run
     owed : SUBSET holders,     \* handed the callback and have not run it
     dropped : SUBSET holders]  \* let go of it inside the call

\* An aggregator after its callback was handed out: |inline| ran it inside the
\* call, |dropped| neither ran nor kept it.
NewAggregator(kind, handed, inline, dropped) ==
    [kind |-> kind, got |-> inline # {}, timedOut |-> FALSE,
     alive |-> TRUE, fired |-> 0,
     owed |-> handed \ inline, dropped |-> dropped]

\* ReportResult through the callback of |holder|.
ReportResult(a, holder) == [a EXCEPT !.got = TRUE, !.owed = @ \ {holder}]

\* Mutant of CanTimeOut: the first result cancels the timeout.
CanTimeOutUnheard(a) == a.alive /\ ~a.timedOut /\ ~a.got

\* The timeout task is bound to a weak pointer: it runs only while alive, and
\* once.
CanTimeOut(a) == a.alive /\ ~a.timedOut

Timeout(a) ==
    [a EXCEPT !.timedOut = TRUE, !.fired = @ + 1]

\* Mutant of FiresWhenDestroyed: timed_out_ is not tested.
FiresAfterTimeout(a) == a.got

\* The destructor runs callback_ in this case.
FiresWhenDestroyed(a) == a.got /\ ~a.timedOut

Destroy(a) ==
    [a EXCEPT !.alive = FALSE,
              !.fired = IF FiresWhenDestroyed(a) THEN @ + 1 ELSE @]
=============================================================================
