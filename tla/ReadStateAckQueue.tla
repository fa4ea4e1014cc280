-------------------------- MODULE ReadStateAckQueue --------------------------
(***************************************************************************)
(* The outbound half of read state: DiscordReadStateAckQueue, the calls    *)
(* DiscordReadStateRepository makes of it, and the server's answers.       *)
(*                                                                         *)
(* One action is one turn of the event loop: a call of the user, a timer,  *)
(* a request that ended.  Requests are chained by _serialize: each waits   *)
(* for the one that was in flight when it was made.  What a request says   *)
(* of a channel is a stamp, the number of the user's act it reports, so    *)
(* that an older act can be told from a newer one.  Time is left out: a    *)
(* debounce may end at any moment, and flush(), which ends it early and    *)
(* restarts the bulk pump, does nothing that this does not.                *)
(***************************************************************************)
EXTENDS Integers, Sequences, FiniteSets

CONSTANTS
    Channels,
    BatchSize,      \* bulkBatchSize
    MaxAttempts,    \* maxAttempts
    MaxOperations,  \* requests handed to _serialize
    MaxStamps,      \* acts of the user on channels
    MaxSessions     \* calls of bindSession that change something

ASSUME PolicyAssumption ==
    /\ BatchSize \in Nat \ {0}
    /\ MaxAttempts \in Nat \ {0}

ASSUME BoundsAssumption ==
    /\ MaxOperations \in Nat
    /\ MaxStamps \in Nat
    /\ MaxSessions \in Nat

ASSUME ChannelsAssumption == IsFiniteSet(Channels)

Stamps == 1 .. MaxStamps
Generations == 0 .. MaxSessions
Tokens == 1 .. MaxOperations
None == 0

Marks == Channels \X Stamps
Kinds == {"ack", "now", "bulk"}

\* "dropped" ended without having been sent.
Phases == {"waiting", "sending", "sleeping", "done", "dropped"}

Operations ==
    [kind : Kinds, marks : SUBSET Marks, generation : Generations,
     before : Tokens \cup {None}, previous : 0 .. MaxOperations,
     phase : Phases, attempt : 0 .. MaxAttempts, during : Generations]

VARIABLES
    pending,         \* _pending: the act to report, per channel with a timer
    bulk,            \* _bulk
    token,           \* _token
    generation,      \* _generation
    closed,          \* _closed
    operations,      \* what _serialize was given, oldest first
    inFlight,        \* _inFlight, as its place in operations
    pump,            \* where _bulkDrain is
    pumpGeneration,  \* the generation it began with
    stamp,           \* acts of the user so far
    \* External: the server.
    applied,         \* the act each channel's read state comes from
    issued           \* the session each token was handed out to, in order

line   == <<operations, inFlight>>
pumps  == <<bulk, pump, pumpGeneration>>
server == <<applied, issued>>
vars   == <<pending, token, generation, closed, line, pumps, stamp, server>>

\* Type invariant.
TypeOK ==
    /\ pending \in [Channels -> Stamps \cup {None}]
    /\ bulk \in Seq(Marks)
    /\ token \in Tokens \cup {None}
    /\ generation \in Generations
    /\ closed \in BOOLEAN
    /\ operations \in Seq(Operations) /\ Len(operations) <= MaxOperations
    /\ inFlight \in 0 .. Len(operations)
    /\ pump \in {"none", "sending", "spacing"}
    /\ pumpGeneration \in Generations
    /\ stamp \in 0 .. MaxStamps
    /\ applied \in [Channels -> Stamps \cup {None}]
    /\ issued \in Seq(Generations) /\ Len(issued) <= MaxOperations

Init ==
    /\ pending = [c \in Channels |-> None]
    /\ bulk = <<>> /\ token = None /\ generation = 0 /\ closed = FALSE
    /\ operations = <<>> /\ inFlight = None
    /\ pump = "none" /\ pumpGeneration = 0 /\ stamp = 0
    /\ applied = [c \in Channels |-> None] /\ issued = <<>>

-----------------------------------------------------------------------------
(* The line of requests.                                                   *)

Ended(k) == operations[k].phase \in {"done", "dropped"}
Running(k) == operations[k].phase \in {"sending", "sleeping"}

Operation(kind, marks) ==
    [kind |-> kind, marks |-> marks, generation |-> generation,
     before |-> token, previous |-> None, phase |-> "waiting", attempt |-> 0,
     during |-> 0]

\* _serialize: a request waits for the one in flight, and is then the one.
Serialize(op) ==
    /\ Len(operations) < MaxOperations
    /\ operations' = Append(operations, [op EXCEPT !.previous = inFlight])
    /\ inFlight' = Len(operations) + 1

\* Mutant: whichever request ends, the line counts as free.
FreeAfter(k) == None

\* whenComplete of _serialize: only the newest request frees the line.
InFlightAfter(k) == IF inFlight = k THEN None ELSE inFlight

\* _drainBulk takes its next batch, synchronously.
Batch(b) == {b[i] : i \in 1 .. (IF Len(b) < BatchSize THEN Len(b) ELSE BatchSize)}
Unsent(b) == SubSeq(b, BatchSize + 1, Len(b))

TakeBatch(b) ==
    /\ Serialize(Operation("bulk", Batch(b)))
    /\ bulk' = Unsent(b) /\ pump' = "sending"

\* _startBulkDrain, once bulk has become b.
StartBulkDrain(b) ==
    IF pump # "none" \/ b = <<>> \/ closed
    THEN bulk' = b /\ UNCHANGED <<line, pump, pumpGeneration>>
    ELSE TakeBatch(b) /\ pumpGeneration' = generation

\* Mutant: what was waiting for its timer stays.
KeepsPending(cs) == pending

\* cancel.
Cancelled(cs) == [c \in Channels |-> IF c \in cs THEN None ELSE pending[c]]

\* What is left of a request that ended.
Remains(k, phase) ==
    [operations[k] EXCEPT !.marks = {}, !.before = None, !.previous = None,
                          !.phase = phase, !.attempt = 0, !.during = 0]

\* A request ends, and with it what waited for its answer.  A batch that threw
\* clears the whole bulk queue, whoever has filled it since.
EndOperation(k, phase, threw) ==
    /\ operations' = [operations EXCEPT ![k] = Remains(k, phase)]
    /\ inFlight' = InFlightAfter(k)
    /\ IF operations[k].kind # "bulk"
       THEN UNCHANGED pumps
       ELSE /\ bulk' = IF threw THEN <<>> ELSE bulk
            /\ pump' = IF bulk' = <<>> THEN "none" ELSE "spacing"
            /\ UNCHANGED pumpGeneration

\* _flushChannel, from its timer or from flush(): the request names the token
\* of the moment it is made.
FlushChannel(c) ==
    /\ pending[c] # None
    /\ pending' = Cancelled({c})
    /\ Serialize(Operation("ack", {<<c, pending[c]>>}))
    /\ UNCHANGED <<token, generation, closed, pumps, stamp, server>>

\* flush() starts the pump if nothing else has.
FlushBulk ==
    /\ pump = "none" /\ bulk # <<>> /\ StartBulkDrain(bulk)
    /\ UNCHANGED <<pending, token, generation, closed, stamp, server>>

\* _drainBulk after its pause.
PumpWakes ==
    /\ pump = "spacing"
    /\ IF bulk # <<>> /\ ~closed /\ pumpGeneration = generation
       THEN TakeBatch(bulk)
       ELSE pump' = "none" /\ UNCHANGED <<bulk, line>>
    /\ UNCHANGED <<pending, token, generation, closed, pumpGeneration, stamp,
                   server>>

-----------------------------------------------------------------------------
(* A request's turn.                                                       *)

\* Mutants: a request whose session is over goes out; an acknowledgement whose
\* token has been replaced since does not.
SkipsNothing(k) == closed
SkipsOldToken(k) ==
    \/ closed
    \/ operations[k].kind # "now" /\ operations[k].generation # generation
    \/ operations[k].kind = "ack" /\ operations[k].before # token

\* What makes a request end unsent when its turn comes: the generation checks
\* of _flushChannel and _drainBulk, and _attempt on a closed queue.
Skips(k) ==
    \/ closed
    \/ operations[k].kind # "now" /\ operations[k].generation # generation

Sends(k) == operations' = [operations EXCEPT ![k].phase = "sending",
                                             ![k].during = generation]

TurnComes(k) ==
    /\ operations[k].phase = "waiting"
    /\ operations[k].previous # None => Ended(operations[k].previous)
    /\ IF Skips(k)
       THEN EndOperation(k, "dropped", FALSE)
       ELSE Sends(k) /\ UNCHANGED <<inFlight, pumps>>
    /\ UNCHANGED <<pending, token, generation, closed, stamp, server>>

\* The server takes what a request says: the last mark of a channel stands.
LastMark(marks, c) ==
    CHOOSE n \in Stamps : /\ <<c, n>> \in marks
                          /\ \A m \in Stamps : <<c, m>> \in marks => m <= n
Applied(marks) ==
    [c \in Channels |-> IF \E n \in Stamps : <<c, n>> \in marks
                        THEN LastMark(marks, c) ELSE applied[c]]

\* Mutant: a token is taken whatever session it was handed out to.
TakesAnyToken(k) == token = operations[k].before

\* The compare-and-set of _flushChannel.  Another user is another generation.
TakesToken(k) ==
    operations[k].generation = generation /\ token = operations[k].before

\* A request is answered.  An acknowledgement's answer carries a token.
Answered(k) ==
    /\ operations[k].phase = "sending"
    /\ applied' = Applied(operations[k].marks)
    /\ IF operations[k].kind = "ack"
       THEN /\ issued' = Append(issued, operations[k].during)
            /\ token' = IF TakesToken(k) THEN Len(issued') ELSE token
       ELSE UNCHANGED <<issued, token>>
    /\ EndOperation(k, "done", FALSE)
    /\ UNCHANGED <<pending, generation, closed, stamp>>

\* Mutant: attempts are not counted.
CountsNothing(k) == operations[k].attempt

NextAttempt(k) == operations[k].attempt + 1

MayRetry(k) == NextAttempt(k) < MaxAttempts

\* A request fails: for good (a rejection or a timeout), or in a way worth
\* another attempt while there is one.  The server may have taken it first,
\* unless it rejected it.
Fails(k, transient, reached) ==
    /\ operations[k].phase = "sending"
    /\ applied' = IF reached THEN Applied(operations[k].marks) ELSE applied
    /\ IF transient /\ MayRetry(k)
       THEN /\ operations' = [operations EXCEPT ![k].phase = "sleeping",
                                                ![k].attempt = NextAttempt(k)]
            /\ UNCHANGED <<inFlight, pumps>>
       ELSE EndOperation(k, "done", TRUE)
    /\ UNCHANGED <<pending, token, generation, closed, stamp, issued>>

\* _attempt after its sleep.
Wakes(k) ==
    /\ operations[k].phase = "sleeping"
    /\ IF closed THEN EndOperation(k, "done", FALSE)
       ELSE IF operations[k].during # generation
       THEN EndOperation(k, "done", TRUE)
       ELSE Sends(k) /\ UNCHANGED <<inFlight, pumps>>
    /\ UNCHANGED <<pending, token, generation, closed, stamp, server>>

-----------------------------------------------------------------------------
(* Calls of the user, by way of the repository.                            *)

\* Requests that can still be made beside those already owed a place: a bound.
Waiting == {c \in Channels : pending[c] # None}
Room == MaxOperations - Len(operations) - Cardinality(Waiting) - Len(bulk)

Acts == stamp < MaxStamps /\ stamp' = stamp + 1

\* acknowledge: schedule replaces what the channel had waiting.
Acknowledge(c) ==
    /\ ~closed /\ Acts /\ Room > 0
    /\ pending' = [pending EXCEPT ![c] = stamp']
    /\ UNCHANGED <<token, generation, closed, line, pumps, server>>

\* markUnread: cancel, then sendNow.
MarkUnread(c) ==
    /\ Acts /\ Room > 0
    /\ pending' = Cancelled({c})
    /\ Serialize(Operation("now", {<<c, stamp'>>}))
    /\ UNCHANGED <<token, generation, closed, pumps, server>>

\* markSpaceRead: cancel and enqueueBulk for its unread channels cs, in some
\* order.  What it also sends of the space itself is a SendNow.
MarkSpaceRead(cs) ==
    /\ ~closed /\ Acts /\ Room >= Cardinality(cs)
    /\ pending' = Cancelled(cs)
    /\ \E order \in [1 .. Cardinality(cs) -> cs] :
         /\ {order[i] : i \in DOMAIN order} = cs
         /\ StartBulkDrain(bulk \o [i \in DOMAIN order |-> <<order[i], stamp'>>])
    /\ UNCHANGED <<token, generation, closed, server>>

\* Every other sendNow and sendForPayload.
SendNow ==
    /\ Room > 0
    /\ Serialize(Operation("now", {}))
    /\ UNCHANGED <<pending, token, generation, closed, pumps, stamp, server>>

\* MESSAGE_ACK of another session that marked the channel unread.
RemoteRewind(c) ==
    /\ pending[c] # None /\ pending' = Cancelled({c})
    /\ UNCHANGED <<token, generation, closed, line, pumps, stamp, server>>

\* bindSession, for the same user or another.
BindSession(same) ==
    /\ same => generation > 0
    /\ ~(same /\ token = None /\ \A c \in Channels : pending[c] = None)
    /\ generation < MaxSessions /\ generation' = generation + 1
    /\ token' = None /\ pending' = Cancelled(Channels) /\ bulk' = <<>>
    /\ UNCHANGED <<closed, line, pump, pumpGeneration, stamp, server>>

Close ==
    /\ ~closed /\ closed' = TRUE
    /\ pending' = Cancelled(Channels) /\ bulk' = <<>>
    /\ UNCHANGED <<token, generation, line, pump, pumpGeneration, stamp, server>>

-----------------------------------------------------------------------------

Timers == (\E c \in Channels : FlushChannel(c)) \/ PumpWakes

Request(k) ==
    \/ TurnComes(k) \/ Answered(k) \/ Wakes(k)
    \/ \E transient, reached \in BOOLEAN : Fails(k, transient, reached)

User ==
    \/ \E c \in Channels : Acknowledge(c) \/ MarkUnread(c)
    \/ \E cs \in SUBSET Channels \ {{}} : MarkSpaceRead(cs)
    \/ SendNow \/ FlushBulk

Session ==
    \/ \E c \in Channels : RemoteRewind(c)
    \/ \E same \in BOOLEAN : BindSession(same)
    \/ Close

Next == Timers \/ User \/ Session \/ \E k \in DOMAIN operations : Request(k)

Spec == Init /\ [][Next]_vars

\* Timers fire, turns come, sleeps end, and a request ends one way or another:
\* the transport has a timeout.  Nothing is assumed of how it ends.
Fairness ==
    /\ WF_vars(Timers)
    /\ WF_vars(\E k \in DOMAIN operations : Request(k))

FairSpec == Spec /\ Fairness

-----------------------------------------------------------------------------
(* Properties.                                                             *)

\* Requests are strictly ordered: no two are with the server at once, sleeps
\* between attempts included (_serialize and its identical check).
OneAtATime ==
    \A i, j \in DOMAIN operations : Running(i) /\ Running(j) => i = j

\* What a channel's own requests tell the server never takes it back behind an
\* act it was already told of: acknowledgements and mark-unreads arrive in the
\* order they were made, retries included (cancel, _serialize, _attempt).
DirectActsInOrder ==
    [][\A c \in Channels : applied'[c] < applied[c] =>
          \E k \in DOMAIN operations : Running(k) /\ operations[k].kind = "bulk"]_vars

\* An acknowledgement that left its debounce, and a batch that left the bulk
\* queue, is sent, unless the queue was closed or the session it belongs to is
\* over; a failure of what went before it is no reason.
FlushedIsSent ==
    \A k \in DOMAIN operations : operations[k].phase = "dropped" =>
        closed \/ operations[k].generation # generation

\* No acknowledgement or batch goes out in a session it was not made in, and
\* none is tried again after the session changed.
SessionsStayApart ==
    \A k \in DOMAIN operations :
        operations[k].phase = "sending" /\ operations[k].kind # "now" =>
            operations[k].during = operations[k].generation

\* The token held was handed out to a request of this session.
TokenIsOfSession == token # None => issued[token] = generation

\* The safety side of ComesToRest, whatever fails and whichever session ends.
\* Behind no request is the line stuck: that request or one made before it is
\* with the server, sleeps, or has nothing left to wait for (_serialize,
\* _inFlight).  And the pump waits for an answer exactly while one batch, its
\* own, is unanswered: it is not left waiting, and no second one runs beside
\* it (_bulkDrain).
TurnIsDue(k) ==
    /\ operations[k].phase = "waiting"
    /\ operations[k].previous # None => Ended(operations[k].previous)

OpenBatch(k) == operations[k].kind = "bulk" /\ ~Ended(k)

NeverJams ==
    /\ \A j \in DOMAIN operations : ~Ended(j) =>
           \E k \in 1 .. j : Running(k) \/ TurnIsDue(k)
    /\ pump = "sending" => \E k \in DOMAIN operations : OpenBatch(k)
    /\ \A i, j \in DOMAIN operations : OpenBatch(i) /\ OpenBatch(j) =>
           i = j /\ pump = "sending"

\* Whatever fails, the queue comes to rest: no request waits for ever, and no
\* acknowledgement stays behind its timer.
ComesToRest ==
    <>[](/\ pump = "none" /\ \A c \in Channels : pending[c] = None
         /\ \A k \in DOMAIN operations : Ended(k))

=============================================================================
