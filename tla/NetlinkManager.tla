--------------------------- MODULE NetlinkManager ---------------------------
(***************************************************************************)
(* shill's NetlinkManager (net/netlink_manager.cc): requests to the kernel *)
(* and the handlers that wait for their answers.  Dump requests are sent   *)
(* one at a time: the others wait in pending_messages_, and the one under  *)
(* way is sent again when the kernel is busy and given up after a timeout. *)
(* Handlers of plain requests are given up, when the next request is sent, *)
(* if they are older than the response timeout.                            *)
(*                                                                         *)
(* The manager is the record |nl|; an action is one call of a client, one  *)
(* message of the kernel or one task.  A request is its sequence number,   *)
(* which does not wrap within the bound.  Every client passes a message    *)
(* handler, an error handler and OnAckDoNothing, so that an acknowledgement*)
(* removes no handler.  Left out: GetFamily, which waits synchronously     *)
(* before anything else is sent, encoding, and the broadcast handlers      *)
(* beyond what is taken for a broadcast.                                   *)
(***************************************************************************)
EXTENDS Integers, Sequences

CONSTANTS
    kMaxNlMessageRetries,
    MaxMessages,        \* bound: requests
    MaxFaults           \* bound: requests the socket does not take

ASSUME NetlinkAssumption ==
    kMaxNlMessageRetries \in Nat /\ MaxMessages \in Nat /\ MaxFaults \in Nat

VARIABLES
    nl,         \* the NetlinkManager
    dumps,      \* the requests that are dumps
    next,       \* the sequence number given out last
    kernel,     \* request -> how often the kernel has it and has not ended its answer
    ended,      \* request -> how often its client was told the end (ghost)
    awaited,    \* the dump that was sent last, 0 if none (ghost)
    torn,       \* the first sending of a dump has failed (ghost)
    faults

netlinkVars == <<nl, dumps, next, kernel, ended, awaited, torn, faults>>

Requests == 1..MaxMessages

Managers ==
    [queue : Seq([seq : Requests, retries : 0..kMaxNlMessageRetries]),
                                            \* pending_messages_
     handlers : SUBSET Requests,            \* message_handlers_
     expired : SUBSET Requests,             \* whose delete_after has passed
     pending : BOOLEAN,                     \* dump_pending_
     timer : BOOLEAN,                       \* pending_dump_timeout_callback_
     resend : BOOLEAN]                      \* resend_dump_message_callback_

NetlinkTypeOK ==
    /\ nl \in Managers
    /\ dumps \subseteq Requests
    /\ next \in 0..MaxMessages
    /\ kernel \in [Requests -> Nat]
    /\ ended \in [Requests -> Nat]
    /\ awaited \in 0..MaxMessages
    /\ torn \in BOOLEAN
    /\ faults \in 0..MaxFaults

NetlinkInit ==
    /\ nl = [queue |-> <<>>, handlers |-> {}, expired |-> {}, pending |-> FALSE,
             timer |-> FALSE, resend |-> FALSE]
    /\ dumps = {}
    /\ next = 0
    /\ kernel = [s \in Requests |-> 0]
    /\ ended = [s \in Requests |-> 0]
    /\ awaited = 0
    /\ torn = FALSE
    /\ faults = 0
-----------------------------------------------------------------------------
(***************************************************************************)
(* The methods, as operators on worlds.                                    *)
(***************************************************************************)
World == [nl |-> nl, dumps |-> dumps, kernel |-> kernel, ended |-> ended,
          awaited |-> awaited, torn |-> torn, faults |-> faults]

Becomes(w) ==
    \E v \in {w} :
        /\ nl' = v.nl /\ dumps' = v.dumps /\ kernel' = v.kernel /\ ended' = v.ended
        /\ awaited' = v.awaited /\ torn' = v.torn /\ faults' = v.faults
        /\ v.faults <= MaxFaults

IsDumpPending(w) == w.nl.pending /\ w.nl.queue # <<>>

PendingDump(w) == Head(w.nl.queue)

\* The end of each request of S is told to its client, and its handler erased.
End(w, S) ==
    [w EXCEPT !.ended = [s \in Requests |-> IF s \in S \cap w.nl.handlers
                                            THEN w.ended[s] + 1 ELSE w.ended[s]],
              !.nl.handlers = @ \ S,
              !.nl.expired = @ \ S]

CallErrorHandler(w, s) == End(w, {s})

SendMessageInternal(w, s, ok) ==
    IF ~ok THEN [w EXCEPT !.faults = @ + 1]
    ELSE LET v == [w EXCEPT !.kernel[s] = @ + 1]
         IN  IF s \notin w.dumps THEN v
             ELSE [v EXCEPT !.nl.pending = TRUE, !.nl.timer = TRUE, !.awaited = s]

\* Mutant of RegisterHandlersAndSendMessage: handlers that have timed out are
\* erased without a word to their clients.
RegisterSilently(w, s, ok) ==
    LET v == [w EXCEPT !.nl.handlers = (@ \ w.nl.expired) \cup {s},
                       !.nl.expired = {}, !.torn = @ \/ (~ok /\ s \in w.dumps)]
    IN  SendMessageInternal(v, s, ok)

RegisterHandlersAndSendMessage(w, s, ok) ==
    LET v == End(w, w.nl.expired)
    IN  IF s \in v.nl.handlers THEN v
        ELSE SendMessageInternal(
                [v EXCEPT !.nl.handlers = @ \cup {s},
                          !.torn = @ \/ (~ok /\ s \in w.dumps)], s, ok)

\* The dump under way is over, and the next one is sent.
OnPendingDumpComplete(w, ok) ==
    LET v == [w EXCEPT !.nl.pending = FALSE, !.nl.timer = FALSE,
                       !.nl.resend = FALSE, !.nl.queue = Tail(@)]
    IN  IF v.nl.queue = <<>> THEN v
        ELSE RegisterHandlersAndSendMessage(v, Head(v.nl.queue).seq, ok)
-----------------------------------------------------------------------------
(***************************************************************************)
(* Clients and tasks.  |ok| says whether the socket takes what is sent.    *)
(***************************************************************************)
\* Mutant of SendOrPostMessage: a dump does not wait for the one under way.
SendAtOnce(dump, ok) ==
    LET s == next + 1
        w == [World EXCEPT !.dumps = IF dump THEN @ \cup {s} ELSE @,
                 !.nl.queue = IF dump
                              THEN Append(@, [seq |-> s, retries |-> kMaxNlMessageRetries])
                              ELSE @]
    IN  /\ next < MaxMessages /\ next' = s
        /\ Becomes(RegisterHandlersAndSendMessage(w, s, ok))

SendOrPostMessage(dump, ok) ==
    LET s == next + 1
        w == [World EXCEPT !.dumps = IF dump THEN @ \cup {s} ELSE @,
                 !.nl.queue = IF dump
                              THEN Append(@, [seq |-> s, retries |-> kMaxNlMessageRetries])
                              ELSE @]
    IN  /\ next < MaxMessages /\ next' = s
        /\ Becomes(IF dump /\ IsDumpPending(w) THEN w
                   ELSE RegisterHandlersAndSendMessage(w, s, ok))

\* The client gives up by itself.
RemoveMessageHandler(s) ==
    /\ s \in nl.handlers
    /\ Becomes(End(World, {s}))
    /\ UNCHANGED next

\* The response timeout of a handler passes; nothing happens until a request
\* is sent.
HandlerExpires(s) ==
    /\ s \in nl.handlers \ nl.expired
    /\ Becomes([World EXCEPT !.nl.expired = @ \cup {s}])
    /\ UNCHANGED next

\* Mutant of OnPendingDumpTimeout: the client is told, the dump waited for on.
TimeoutWaitsOn(ok) ==
    /\ nl.timer
    /\ Becomes(CallErrorHandler(World, PendingDump(World).seq))
    /\ UNCHANGED next

OnPendingDumpTimeout(ok) ==
    /\ nl.timer
    /\ Becomes(OnPendingDumpComplete(
                  CallErrorHandler([World EXCEPT !.nl.timer = FALSE],
                                   PendingDump(World).seq), ok))
    /\ UNCHANGED next

\* |ok| is about this sending, |nextOk| about that of the next dump.
ResendPendingDumpMessage(ok, nextOk) ==
    LET w == [World EXCEPT !.nl.resend = FALSE, !.nl.queue[1].retries = @ - 1]
        s == PendingDump(w).seq
        v == SendMessageInternal(w, s, ok)
    IN  /\ nl.resend
        /\ Becomes(IF ok THEN v
                   ELSE IF PendingDump(v).retries > 0
                   THEN [v EXCEPT !.nl.resend = TRUE]
                   ELSE OnPendingDumpComplete(CallErrorHandler(v, s), nextOk))
        /\ UNCHANGED next
-----------------------------------------------------------------------------
(***************************************************************************)
(* The kernel answers request |s|: a dump with any number of parts and     *)
(* "done", or with a single acknowledgement or error; another request with *)
(* an error, or with an answer and an acknowledgement.                     *)
(***************************************************************************)
Endings == {"done", "ack", "answer", "error", "busy"}

Replies(s) == IF s \in dumps THEN {"part", "done", "ack", "error", "busy"}
                             ELSE {"ack", "answer", "error"}

\* The reply ends the wait for the dump under way.
EndsDump(w, s, reply) ==
    IsDumpPending(w) /\ s = PendingDump(w).seq /\ reply # "part"

\* What is left for OnNlMessageReceived to do once the queue has been served:
\* the handler of the request, if there is one, is called.
Handle(w, s, reply) ==
    IF reply \in {"part", "ack"} THEN w ELSE End(w, {s})

\* |ends| says whether the kernel has answered the request then: an answer and
\* its acknowledgement may come in either order.
OnNlMessageReceived(s, reply, ends, ok) ==
    LET w == [World EXCEPT !.kernel[s] = IF ends THEN @ - 1 ELSE @]
    IN  /\ kernel[s] > 0 /\ reply \in Replies(s)
        /\ reply \notin {"ack", "answer"} => ends = (reply # "part")
        /\ Becomes(
              IF ~EndsDump(w, s, reply) THEN Handle(w, s, reply)
              ELSE IF reply = "busy" /\ PendingDump(w).retries > 0
              THEN [w EXCEPT !.nl.timer = FALSE, !.nl.resend = TRUE]
              ELSE Handle(OnPendingDumpComplete(w, ok), s, reply))
        /\ UNCHANGED next

\* What the kernel sends is lost when the buffer of the socket is full.
RepliesAreLost(s) ==
    /\ kernel[s] > 0
    /\ Becomes([World EXCEPT !.kernel[s] = @ - 1])
    /\ UNCHANGED next
-----------------------------------------------------------------------------
TaskStep ==
    \E ok \in BOOLEAN :
        OnPendingDumpTimeout(ok) \/ \E nextOk \in BOOLEAN : ResendPendingDumpMessage(ok, nextOk)

KernelStep ==
    \E s \in Requests :
        \/ \E reply \in Endings \cup {"part"}, ends \in BOOLEAN, ok \in BOOLEAN :
              OnNlMessageReceived(s, reply, ends, ok)
        \/ RepliesAreLost(s)

ClientStep ==
    \/ \E dump \in BOOLEAN, ok \in BOOLEAN : SendOrPostMessage(dump, ok)
    \/ \E s \in Requests : RemoveMessageHandler(s) \/ HandlerExpires(s)

NetlinkNext == TaskStep \/ KernelStep \/ ClientStep

NetlinkSpec == NetlinkInit /\ [][NetlinkNext]_netlinkVars

\* The two delayed tasks run.  Nothing is assumed of the kernel.
NetlinkFairSpec ==
    /\ NetlinkSpec
    /\ WF_netlinkVars(\E ok \in BOOLEAN : OnPendingDumpTimeout(ok))
    /\ WF_netlinkVars(\E ok, nextOk \in BOOLEAN : ResendPendingDumpMessage(ok, nextOk))
-----------------------------------------------------------------------------
Queued(s) == \E i \in DOMAIN nl.queue : nl.queue[i].seq = s

\* While a dump is under way exactly one of the two tasks is posted that will
\* end it or send it again, and neither is otherwise: a timeout of the last
\* dump never ends the next one (OnPendingDumpComplete, ResendPendingDumpMessage).
DumpIsTimed ==
    IF nl.pending THEN nl.queue # <<>> /\ nl.timer # nl.resend
    ELSE ~nl.timer /\ ~nl.resend

\* netlink_manager.h:431: the dump that is under way is the first in the queue,
\* and no other waits that was sent before it.  If the socket refuses a dump it
\* stays in the queue, and the next one is sent from behind it.
PendingDumpIsFirst ==
    ~torn => /\ nl.pending <=> nl.queue # <<>>
             /\ nl.pending => PendingDump(World).seq = awaited

\* No request is forgotten: it waits to be sent, its handler waits for the
\* answer, or the client was told how it ended; so an answer is taken for a
\* broadcast only when it is late.  And the client is told once, however late,
\* busy or silent the kernel is and whichever timeout comes first, as long as
\* the socket takes the dumps (netlink_manager.h:62: "it'll call your handler").
AnsweredOnce ==
    \A s \in 1..next :
        /\ \/ Queued(s) /\ ~(nl.pending /\ s = awaited)
           \/ s \in nl.handlers
           \/ ended[s] > 0
        /\ ~torn => ended[s] <= 1 /\ (ended[s] = 1 => s \notin nl.handlers)

\* A dump that is queued leaves the queue, as long as the socket takes them.
QueueMoves == \A s \in Requests : Queued(s) ~> (~Queued(s) \/ torn)

\* Dumps take turns: the one under way is the first in the queue and has one
\* task that ends it or sends it again.
DumpsTakeTurns == NetlinkTypeOK /\ DumpIsTimed /\ PendingDumpIsFirst
=============================================================================
