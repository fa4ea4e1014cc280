----------------------- MODULE ReadStateAckQueueProofs -----------------------
(***************************************************************************)
(* Proofs about ReadStateAckQueue, for every number of channels, requests, *)
(* attempts and sessions.                                                  *)
(*                                                                         *)
(* That requests never overlap does not follow from any one turn: it rests *)
(* on what _inFlight means.  LineInv says it: while a request has not      *)
(* ended, _inFlight is the newest request; a request waits for the one     *)
(* made just before it, unless all before it had ended; and whatever has   *)
(* left the waiting room has nothing unfinished before it.                 *)
(*                                                                         *)
(* That the acts of one channel stay in order rests on OrderInv: an act    *)
(* that waits for its timer is newer than all that was said of its channel.*)
(* That the line never jams follows from FrontInv: a request waits only    *)
(* for an older one, so the oldest that has not ended has its turn.        *)
(***************************************************************************)
EXTENDS ReadStateAckQueue, FiniteSetTheorems, WellFoundedInduction, TLAPS

\* The shape of a request, without the bounds of the model.
Requests ==
    [kind : Kinds, marks : SUBSET (Channels \X Nat), generation : Nat,
     before : Nat, previous : Nat, phase : Phases, attempt : Nat, during : Nat]

ShapeOK ==
    /\ pending \in [Channels -> Nat]
    /\ bulk \in Seq(Channels \X Nat)
    /\ token \in Nat /\ generation \in Nat /\ stamp \in Nat
    /\ issued \in Seq(Nat)
    /\ operations \in Seq(Requests)
    /\ inFlight \in Nat

EarlierEnded(k) == \A i \in 1 .. (k - 1) : Ended(i)

LineInv ==
    /\ \A k \in 1 .. Len(operations) :
          operations[k].phase # "waiting" => EarlierEnded(k)
    /\ \A k \in 1 .. Len(operations) :
          ~Ended(k) => operations[k].previous = k - 1 \/ EarlierEnded(k)
    /\ inFlight = 0 => \A k \in 1 .. Len(operations) : Ended(k)
    /\ inFlight # 0 => inFlight = Len(operations)

\* What a request remembers of its session.
SessionInv ==
    \A k \in 1 .. Len(operations) :
        /\ operations[k].generation <= generation
        /\ Running(k) /\ operations[k].kind # "now" =>
              operations[k].during = operations[k].generation
        /\ operations[k].phase = "dropped" =>
              closed \/ operations[k].generation # generation

IInv == ShapeOK /\ LineInv /\ SessionInv

-----------------------------------------------------------------------------
(* The three ways a step moves the line.                                   *)

\* A step that leaves the line alone, or hands it one more request.
Joins(op) ==
    /\ operations' = Append(operations, op)
    /\ op \in Requests /\ op.phase = "waiting" /\ op.previous = inFlight
    /\ op.generation = generation
    /\ inFlight' = Len(operations) + 1

\* A step that moves the request k, whose turn it is, on to the phase of r.
Moves(k, r) ==
    /\ k \in 1 .. Len(operations) /\ EarlierEnded(k) /\ ~Ended(k)
    /\ operations' = [operations EXCEPT ![k] = r]
    /\ r \in Requests /\ r.phase # "waiting"
    /\ r.previous = operations[k].previous \/ r.phase \in {"done", "dropped"}
    /\ r.generation = operations[k].generation /\ r.kind = operations[k].kind
    /\ r.phase \in {"sending", "sleeping"} /\ r.kind # "now" =>
          r.during = r.generation
    /\ r.phase = "dropped" => closed \/ r.generation # generation
    /\ inFlight' = IF r.phase \in {"done", "dropped"} /\ inFlight = k
                   THEN 0 ELSE inFlight

\* Handing over a request keeps the line in order: it waits for the newest one,
\* or there is nothing to wait for (_serialize).
LEMMA JoiningKeepsOrder ==
    ASSUME IInv, NEW op, Joins(op), generation' = generation, closed' = closed
    PROVE  LineInv' /\ SessionInv' /\ operations' \in Seq(Requests) /\ inFlight' \in Nat
<1>0. PICK n \in Nat : n = Len(operations)
  BY DEF IInv, ShapeOK
<1>1. /\ operations \in Seq(Requests) /\ n = Len(operations) /\ inFlight \in Nat
      /\ op \in Requests
  BY <1>0 DEF IInv, ShapeOK, Joins
<1>2. /\ operations' \in Seq(Requests) /\ Len(operations') = n + 1
      /\ \A i \in 1 .. n : operations'[i] = operations[i]
      /\ operations'[n + 1] = op
  BY <1>1 DEF Joins
<1>3. \A i \in 1 .. n : Ended(i)' = Ended(i) /\ Running(i)' = Running(i)
  BY <1>2 DEF Ended, Running
<1>4. \A k \in 1 .. n : EarlierEnded(k)' <=> EarlierEnded(k)
  BY <1>1, <1>3 DEF EarlierEnded
<1>5. ~Ended(n + 1)' /\ ~Running(n + 1)'
  BY <1>2 DEF Joins, Ended, Running
<1>6. op.previous = n \/ EarlierEnded(n + 1)'
  BY <1>1, <1>3 DEF IInv, LineInv, Joins, EarlierEnded
<1>7. LineInv'
  <2>1. ASSUME NEW k \in 1 .. (n + 1)
        PROVE  /\ operations'[k].phase # "waiting" => EarlierEnded(k)'
               /\ ~Ended(k)' => operations'[k].previous = k - 1 \/ EarlierEnded(k)'
    <3>1. CASE k \in 1 .. n
      BY <3>1, <1>1, <1>2, <1>3, <1>4 DEF IInv, LineInv
    <3>2. CASE k = n + 1
      BY <3>2, <1>1, <1>2, <1>6 DEF Joins
    <3> QED BY <3>1, <3>2, <1>1
  <2> QED BY <2>1, <1>1, <1>2 DEF LineInv, Joins
<1>8. SessionInv'
  <2>1. ASSUME NEW k \in 1 .. (n + 1)
        PROVE  /\ operations'[k].generation <= generation'
               /\ Running(k)' /\ operations'[k].kind # "now" =>
                     operations'[k].during = operations'[k].generation
               /\ operations'[k].phase = "dropped" =>
                     closed' \/ operations'[k].generation # generation'
    <3>1. CASE k \in 1 .. n
      BY <3>1, <1>1, <1>2, <1>3 DEF IInv, SessionInv
    <3>2. CASE k = n + 1
      BY <3>2, <1>2, <1>5 DEF Joins, IInv, ShapeOK
    <3> QED BY <3>1, <3>2, <1>1
  <2> QED BY <2>1, <1>2 DEF SessionInv
<1> QED BY <1>1, <1>2, <1>7, <1>8 DEF Joins

\* So does the request whose turn it is, whatever becomes of it; the line is
\* free again only when the newest request ends.
LEMMA MovingKeepsOrder ==
    ASSUME IInv, NEW k, NEW r, Moves(k, r), generation' = generation,
           closed' = closed
    PROVE  LineInv' /\ SessionInv' /\ operations' \in Seq(Requests) /\ inFlight' \in Nat
<1>0. PICK n \in Nat : n = Len(operations)
  BY DEF IInv, ShapeOK
<1>1. /\ operations \in Seq(Requests) /\ n = Len(operations) /\ inFlight \in Nat
      /\ k \in 1 .. n /\ r \in Requests
  BY <1>0 DEF IInv, ShapeOK, Moves
<1>2. /\ operations' \in Seq(Requests) /\ Len(operations') = n
      /\ \A i \in 1 .. n : i # k => operations'[i] = operations[i]
      /\ operations'[k] = r
  BY <1>1 DEF Moves
<1>3. /\ \A i \in 1 .. n : i # k => (Ended(i)' <=> Ended(i)) /\ (Running(i)' <=> Running(i))
      /\ Ended(k)' <=> r.phase \in {"done", "dropped"}
      /\ Running(k)' <=> r.phase \in {"sending", "sleeping"}
  BY <1>2 DEF Ended, Running
<1>4. \A i \in 1 .. n : Ended(i) => Ended(i)'
  BY <1>3 DEF Moves
<1>5. \A i \in 1 .. n : EarlierEnded(i) => EarlierEnded(i)'
  BY <1>1, <1>4 DEF EarlierEnded
<1>6. LineInv'
  <2>1. ASSUME NEW i \in 1 .. n
        PROVE  /\ operations'[i].phase # "waiting" => EarlierEnded(i)'
               /\ ~Ended(i)' => operations'[i].previous = i - 1 \/ EarlierEnded(i)'
    <3>1. CASE i = k
      BY <3>1, <1>1, <1>5 DEF Moves
    <3>2. CASE i # k
      BY <3>2, <1>1, <1>2, <1>3, <1>5 DEF IInv, LineInv
    <3> QED BY <3>1, <3>2
  <2>2. inFlight' = 0 => \A i \in 1 .. n : Ended(i)'
    <3>1. CASE inFlight = 0
      BY <3>1, <1>1, <1>4 DEF IInv, LineInv
    <3>2. CASE inFlight # 0 /\ inFlight' = 0
      <4>1. inFlight = k /\ k = n /\ r.phase \in {"done", "dropped"}
        BY <3>2, <1>1 DEF Moves, IInv, LineInv
      <4>2. Ended(n)'
        BY <4>1, <1>3
      <4> QED BY <4>1, <4>2, <1>1, <1>5 DEF Moves, EarlierEnded
    <3> QED BY <3>1, <3>2
  <2>3. inFlight' # 0 => inFlight' = n
    BY <1>1 DEF Moves, IInv, LineInv
  <2> QED BY <2>1, <2>2, <2>3, <1>2 DEF LineInv
<1>7. SessionInv'
  <2>1. ASSUME NEW i \in 1 .. n
        PROVE  /\ operations'[i].generation <= generation'
               /\ Running(i)' /\ operations'[i].kind # "now" =>
                     operations'[i].during = operations'[i].generation
               /\ operations'[i].phase = "dropped" =>
                     closed' \/ operations'[i].generation # generation'
    <3>1. CASE i = k
      BY <3>1, <1>1, <1>2, <1>3 DEF Moves, IInv, SessionInv
    <3>2. CASE i # k
      BY <3>2, <1>1, <1>2, <1>3 DEF IInv, SessionInv
    <3> QED BY <3>1, <3>2
  <2> QED BY <2>1, <1>2 DEF SessionInv
<1> QED BY <1>1, <1>2, <1>6, <1>7 DEF Moves

\* A step that does not touch the line keeps it in order, also when it begins
\* a new session or closes the queue.
LEMMA StandingKeepsOrder ==
    ASSUME IInv, UNCHANGED line,
           \/ generation' = generation
           \/ generation' = generation + 1,
           closed => closed'
    PROVE  LineInv' /\ SessionInv' /\ operations' \in Seq(Requests) /\ inFlight' \in Nat
<1>1. operations' = operations /\ inFlight' = inFlight
  BY DEF line
<1>2. \A k : (Ended(k)' <=> Ended(k)) /\ (Running(k)' <=> Running(k))
  BY <1>1 DEF Ended, Running
<1>3. \A k : EarlierEnded(k)' <=> EarlierEnded(k)
  BY <1>2 DEF EarlierEnded
<1>4. LineInv'
  BY <1>1, <1>2, <1>3 DEF IInv, LineInv
<1>5. \A k \in 1 .. Len(operations) : operations[k].generation \in Nat
  <2> SUFFICES ASSUME NEW k \in 1 .. Len(operations)
               PROVE  operations[k].generation \in Nat
    OBVIOUS
  <2>1. operations[k] \in Requests
    BY DEF IInv, ShapeOK
  <2> QED BY <2>1 DEF Requests
<1>6. SessionInv'
  BY <1>1, <1>2, <1>5 DEF IInv, ShapeOK, SessionInv
<1> QED BY <1>1, <1>4, <1>6 DEF IInv, ShapeOK

-----------------------------------------------------------------------------
(* The helpers of ReadStateAckQueue in those terms.                        *)

\* A request made by _serialize joins the line.
LEMMA SerializeJoins ==
    ASSUME IInv, NEW kind \in Kinds, NEW marks \in SUBSET (Channels \X Nat),
           Serialize(Operation(kind, marks)),
           generation' = generation, closed' = closed
    PROVE  LineInv' /\ SessionInv' /\ operations' \in Seq(Requests) /\ inFlight' \in Nat
<1> DEFINE op == [Operation(kind, marks) EXCEPT !.previous = inFlight]
<1>1. /\ op = [kind |-> kind, marks |-> marks, generation |-> generation,
               before |-> token, previous |-> inFlight, phase |-> "waiting",
               attempt |-> 0, during |-> 0]
  BY DEF Operation
<1>2. operations' = Append(operations, op) /\ inFlight' = Len(operations) + 1
  BY DEF Serialize
<1> HIDE DEF op
<1>3. op \in Requests
  BY <1>1 DEF IInv, ShapeOK, Requests, Phases
<1>4. Joins(op)
  BY <1>1, <1>2, <1>3 DEF Joins
<1> QED BY <1>4, JoiningKeepsOrder

\* A request whose turn it is ends (whenComplete of _serialize).
LEMMA EndingMoves ==
    ASSUME IInv, NEW k \in 1 .. Len(operations), NEW threw,
           NEW phase \in {"done", "dropped"},
           EarlierEnded(k), ~Ended(k), EndOperation(k, phase, threw),
           phase = "dropped" => closed \/ operations[k].generation # generation,
           generation' = generation, closed' = closed
    PROVE  LineInv' /\ SessionInv' /\ operations' \in Seq(Requests) /\ inFlight' \in Nat
<1> DEFINE r == Remains(k, phase)
<1>1. operations[k] \in Requests
  BY DEF IInv, ShapeOK
<1>2. r \in Requests /\ r.phase = phase /\ r.kind = operations[k].kind
      /\ r.generation = operations[k].generation
  BY <1>1 DEF Remains, Requests, Phases, None
<1>3. r.phase = "dropped" => closed \/ r.generation # generation
  BY <1>2
<1>4. Moves(k, r)
  BY <1>2, <1>3 DEF Moves, EndOperation, InFlightAfter, None
<1> HIDE DEF r
<1> QED BY <1>4, MovingKeepsOrder

\* A request whose turn it is goes on without ending.
LEMMA GoingOnMoves ==
    ASSUME IInv, NEW k \in 1 .. Len(operations), NEW r \in Requests,
           EarlierEnded(k), ~Ended(k),
           operations' = [operations EXCEPT ![k] = r], UNCHANGED inFlight,
           r.phase \in {"sending", "sleeping"},
           r.previous = operations[k].previous,
           r.generation = operations[k].generation,
           r.kind = operations[k].kind,
           r.kind # "now" => r.during = r.generation,
           generation' = generation, closed' = closed
    PROVE  LineInv' /\ SessionInv' /\ operations' \in Seq(Requests) /\ inFlight' \in Nat
<1>1. Moves(k, r)
  BY DEF Moves
<1> QED BY <1>1, MovingKeepsOrder

\* Sending a request, for the first time or again: only a request of another
\* kind may go out in a session it was not made in.
LEMMA SendingMoves ==
    ASSUME IInv, NEW k \in 1 .. Len(operations), EarlierEnded(k), ~Ended(k),
           operations[k].kind # "now" => operations[k].generation = generation,
           Sends(k), UNCHANGED inFlight,
           generation' = generation, closed' = closed
    PROVE  LineInv' /\ SessionInv' /\ operations' \in Seq(Requests) /\ inFlight' \in Nat
<1> DEFINE r == [operations[k] EXCEPT !.phase = "sending", !.during = generation]
<1>1. operations[k] \in Requests /\ operations \in Seq(Requests) /\ generation \in Nat
  BY DEF IInv, ShapeOK
<1>2. /\ r \in Requests /\ r.phase = "sending" /\ r.during = generation
      /\ r.previous = operations[k].previous /\ r.kind = operations[k].kind
      /\ r.generation = operations[k].generation
  BY <1>1 DEF Requests, Phases
<1>3. operations' = [operations EXCEPT ![k] = r]
  BY <1>1 DEF Sends
<1>4. r.kind # "now" => r.during = r.generation
  BY <1>2
<1> HIDE DEF r
<1> QED BY <1>2, <1>3, <1>4, GoingOnMoves

\* Whoever has left the waiting room has nothing unfinished before it, and so
\* has a request that waits for one that ended.
LEMMA TurnHasCome ==
    ASSUME IInv, NEW k \in 1 .. Len(operations), ~Ended(k),
           \/ operations[k].phase # "waiting"
           \/ operations[k].previous = None
           \/ Ended(operations[k].previous)
    PROVE  EarlierEnded(k)
<1>1. operations[k].phase # "waiting" => EarlierEnded(k)
  BY DEF IInv, LineInv
<1>2. SUFFICES ASSUME operations[k].previous = k - 1,
                      operations[k].previous = None \/ Ended(k - 1)
               PROVE  EarlierEnded(k)
  BY <1>1 DEF IInv, LineInv
<1>3. CASE k = 1
  BY <1>3 DEF EarlierEnded
<1>4. CASE k # 1
  <2>1. k - 1 \in 1 .. Len(operations) /\ Ended(k - 1)
    BY <1>2, <1>4 DEF IInv, ShapeOK, None
  <2>2. EarlierEnded(k - 1)
    BY <2>1 DEF IInv, LineInv, Ended
  <2> QED BY <2>1, <2>2 DEF EarlierEnded
<1> QED BY <1>3, <1>4

-----------------------------------------------------------------------------
(* The steps.                                                              *)

LEMMA InitEstablishes == Init => IInv
<1> SUFFICES ASSUME Init PROVE IInv
  OBVIOUS
<1>1. operations = <<>> /\ Len(operations) = 0
  BY DEF Init
<1>2. ShapeOK
  BY <1>1 DEF Init, ShapeOK, None
<1>3. LineInv /\ SessionInv
  BY <1>1 DEF LineInv, SessionInv, Init, None
<1> QED BY <1>2, <1>3 DEF IInv

\* cancel leaves the shape of what is pending.
LEMMA CancelledShape ==
    ASSUME ShapeOK, NEW cs, pending' = Cancelled(cs)
    PROVE  pending' \in [Channels -> Nat]
BY DEF ShapeOK, Cancelled, None

\* What the next batch holds, and what it leaves.
LEMMA BatchShape ==
    ASSUME NEW b \in Seq(Channels \X Nat)
    PROVE  Batch(b) \in SUBSET (Channels \X Nat) /\ Unsent(b) \in Seq(Channels \X Nat)
<1>1. BatchSize \in Nat
  BY PolicyAssumption
<1>2. Batch(b) \in SUBSET (Channels \X Nat)
  BY <1>1 DEF Batch
<1>3. Unsent(b) \in Seq(Channels \X Nat)
  BY <1>1 DEF Unsent
<1> QED BY <1>2, <1>3

\* The pump hands over its next batch.
LEMMA TakeBatchJoins ==
    ASSUME IInv, NEW b \in Seq(Channels \X Nat), TakeBatch(b),
           generation' = generation, closed' = closed
    PROVE  /\ LineInv' /\ SessionInv' /\ operations' \in Seq(Requests)
           /\ inFlight' \in Nat /\ bulk' \in Seq(Channels \X Nat)
<1>1. Batch(b) \in SUBSET (Channels \X Nat) /\ bulk' \in Seq(Channels \X Nat)
  BY BatchShape DEF TakeBatch
<1>2. "bulk" \in Kinds
  BY DEF Kinds
<1> QED BY <1>1, <1>2, SerializeJoins DEF TakeBatch

LEMMA StartBulkDrainJoins ==
    ASSUME IInv, NEW b \in Seq(Channels \X Nat), StartBulkDrain(b),
           generation' = generation, closed' = closed
    PROVE  /\ LineInv' /\ SessionInv' /\ operations' \in Seq(Requests)
           /\ inFlight' \in Nat /\ bulk' \in Seq(Channels \X Nat)
<1>1. CASE pump # "none" \/ b = <<>> \/ closed
  <2>1. UNCHANGED line /\ bulk' = b
    BY <1>1 DEF StartBulkDrain
  <2> QED BY <2>1, StandingKeepsOrder
<1>2. CASE ~(pump # "none" \/ b = <<>> \/ closed)
  <2>1. TakeBatch(b)
    BY <1>2 DEF StartBulkDrain
  <2> QED BY <2>1, TakeBatchJoins
<1> QED BY <1>1, <1>2

\* The end of a request leaves a bulk queue.
LEMMA EndingShape ==
    ASSUME ShapeOK, NEW k, NEW phase, NEW threw, EndOperation(k, phase, threw)
    PROVE  bulk' \in Seq(Channels \X Nat)
<1>1. bulk \in Seq(Channels \X Nat) /\ <<>> \in Seq(Channels \X Nat)
  BY DEF ShapeOK
<1>2. bulk' = bulk \/ bulk' = <<>>
  BY DEF EndOperation, pumps
<1> QED BY <1>1, <1>2

\* One turn of one request.
LEMMA RequestPreserves ==
    ASSUME IInv, NEW k \in DOMAIN operations, Request(k)
    PROVE  IInv'
<1>0. /\ k \in 1 .. Len(operations) /\ operations[k] \in Requests
      /\ operations \in Seq(Requests) /\ ShapeOK
  BY DEF IInv, ShapeOK
<1>1. CASE TurnComes(k)
  <2>1. ~Ended(k) /\ EarlierEnded(k)
    BY <1>0, <1>1, TurnHasCome DEF TurnComes, Ended
  <2>2. UNCHANGED <<pending, token, generation, closed, stamp, issued>>
    BY <1>1 DEF TurnComes, server
  <2>3. CASE Skips(k)
    <3>1. EndOperation(k, "dropped", FALSE)
      BY <1>1, <2>3 DEF TurnComes
    <3>2. closed \/ operations[k].generation # generation
      BY <2>3 DEF Skips
    <3> QED BY <3>1, <3>2, <1>0, <2>1, <2>2, EndingMoves, EndingShape
            DEF IInv, ShapeOK
  <2>4. CASE ~Skips(k)
    <3>1. Sends(k) /\ UNCHANGED <<inFlight, bulk>>
      BY <1>1, <2>4 DEF TurnComes, pumps
    <3>2. operations[k].kind # "now" => operations[k].generation = generation
      BY <2>4 DEF Skips
    <3> QED BY <3>1, <3>2, <1>0, <2>1, <2>2, SendingMoves DEF IInv, ShapeOK
  <2> QED BY <2>3, <2>4
<1>2. CASE Answered(k)
  <2>1. ~Ended(k) /\ EarlierEnded(k)
    BY <1>0, <1>2, TurnHasCome DEF Answered, Ended
  <2>2. EndOperation(k, "done", FALSE)
        /\ UNCHANGED <<pending, generation, closed, stamp>>
    BY <1>2 DEF Answered
  <2>3. issued' \in Seq(Nat) /\ token' \in Nat
    <3>1. operations[k].during \in Nat /\ issued \in Seq(Nat) /\ token \in Nat
      BY <1>0 DEF Requests, ShapeOK
    <3>2. CASE operations[k].kind = "ack"
      <4>1. issued' = Append(issued, operations[k].during)
            /\ (token' = Len(issued') \/ token' = token)
        BY <3>2, <1>2 DEF Answered
      <4>2. issued' \in Seq(Nat)
        BY <4>1, <3>1
      <4>3. Len(issued') \in Nat
        BY <4>2
      <4> QED BY <4>1, <4>2, <4>3, <3>1
    <3>3. CASE operations[k].kind # "ack"
      BY <3>3, <3>1, <1>2 DEF Answered
    <3> QED BY <3>2, <3>3
  <2> QED BY <1>0, <2>1, <2>2, <2>3, EndingMoves, EndingShape DEF IInv, ShapeOK
<1>3. ASSUME NEW transient \in BOOLEAN, NEW reached \in BOOLEAN,
             Fails(k, transient, reached)
      PROVE  IInv'
  <2>1. ~Ended(k) /\ EarlierEnded(k)
    BY <1>0, <1>3, TurnHasCome DEF Fails, Ended
  <2>2. UNCHANGED <<pending, token, generation, closed, stamp, issued>>
    BY <1>3 DEF Fails
  <2>3. CASE transient /\ MayRetry(k)
    <3> DEFINE r == [operations[k] EXCEPT !.phase = "sleeping",
                                          !.attempt = NextAttempt(k)]
    <3>1. operations' = [operations EXCEPT ![k] = r]
          /\ UNCHANGED <<inFlight, bulk>>
      BY <1>0, <1>3, <2>3 DEF Fails, pumps
    <3>0. NextAttempt(k) \in Nat /\ "sleeping" \in Phases
      BY SMTT(20), <1>0 DEF Requests, Phases, NextAttempt
    <3>2. /\ r \in Requests /\ r.phase = "sleeping" /\ r.kind = operations[k].kind
          /\ r.previous = operations[k].previous
          /\ r.generation = operations[k].generation
          /\ r.during = operations[k].during
      BY <1>0, <3>0 DEF Requests
    <3>3. operations[k].kind # "now" =>
              operations[k].during = operations[k].generation
      BY <1>0, <1>3 DEF IInv, SessionInv, Fails, Running
    <3> HIDE DEF r
    <3> QED BY <3>1, <3>2, <3>3, <1>0, <2>1, <2>2, GoingOnMoves DEF IInv, ShapeOK
  <2>4. CASE ~(transient /\ MayRetry(k))
    <3>1. EndOperation(k, "done", TRUE)
      BY <1>3, <2>4 DEF Fails
    <3> QED BY <3>1, <1>0, <2>1, <2>2, EndingMoves, EndingShape DEF IInv, ShapeOK
  <2> QED BY <2>3, <2>4
<1>4. CASE Wakes(k)
  <2>1. ~Ended(k) /\ EarlierEnded(k)
    BY <1>0, <1>4, TurnHasCome DEF Wakes, Ended
  <2>2. UNCHANGED <<pending, token, generation, closed, stamp, issued>>
    BY <1>4 DEF Wakes, server
  <2>3. CASE closed \/ operations[k].during # generation
    <3>1. EndOperation(k, "done", FALSE) \/ EndOperation(k, "done", TRUE)
      BY <1>4, <2>3 DEF Wakes
    <3> QED BY <3>1, <1>0, <2>1, <2>2, EndingMoves, EndingShape DEF IInv, ShapeOK
  <2>4. CASE ~(closed \/ operations[k].during # generation)
    <3>1. Sends(k) /\ UNCHANGED <<inFlight, bulk>>
      BY <1>4, <2>4 DEF Wakes, pumps
    <3>2. operations[k].kind # "now" => operations[k].generation = generation
      BY <1>0, <1>4, <2>4 DEF IInv, SessionInv, Wakes, Running
    <3> QED BY <3>1, <3>2, <1>0, <2>1, <2>2, SendingMoves DEF IInv, ShapeOK
  <2> QED BY <2>3, <2>4
<1> QED BY <1>1, <1>2, <1>3, <1>4 DEF Request

LEMMA FlushChannelPreserves ==
    ASSUME IInv, NEW c \in Channels, FlushChannel(c)
    PROVE  IInv'
<1>1. {<<c, pending[c]>>} \in SUBSET (Channels \X Nat) /\ "ack" \in Kinds
  BY DEF IInv, ShapeOK, Kinds
<1>2. pending' \in [Channels -> Nat]
  BY CancelledShape DEF FlushChannel, IInv
<1>3. Serialize(Operation("ack", {<<c, pending[c]>>}))
      /\ UNCHANGED <<token, generation, closed, bulk, stamp, issued>>
  BY DEF FlushChannel, pumps, server
<1> QED BY <1>1, <1>2, <1>3, SerializeJoins DEF IInv, ShapeOK

LEMMA FlushBulkPreserves ==
    ASSUME IInv, FlushBulk
    PROVE  IInv'
<1>1. bulk \in Seq(Channels \X Nat)
  BY DEF IInv, ShapeOK
<1>2. StartBulkDrain(bulk)
      /\ UNCHANGED <<pending, token, generation, closed, stamp, issued>>
  BY DEF FlushBulk, server
<1> QED BY <1>1, <1>2, StartBulkDrainJoins DEF IInv, ShapeOK

LEMMA PumpWakesPreserves ==
    ASSUME IInv, PumpWakes
    PROVE  IInv'
<1>1. bulk \in Seq(Channels \X Nat)
  BY DEF IInv, ShapeOK
<1>2. UNCHANGED <<pending, token, generation, closed, stamp, issued>>
  BY DEF PumpWakes, server
<1>3. CASE bulk # <<>> /\ ~closed /\ pumpGeneration = generation
  <2>1. TakeBatch(bulk)
    BY <1>3 DEF PumpWakes
  <2> QED BY <2>1, <1>1, <1>2, TakeBatchJoins DEF IInv, ShapeOK
<1>4. CASE ~(bulk # <<>> /\ ~closed /\ pumpGeneration = generation)
  <2>1. UNCHANGED <<bulk, line>>
    BY <1>4 DEF PumpWakes
  <2> QED BY <2>1, <1>1, <1>2, StandingKeepsOrder DEF IInv, ShapeOK
<1> QED BY <1>3, <1>4

LEMMA AcknowledgePreserves ==
    ASSUME IInv, NEW c \in Channels, Acknowledge(c)
    PROVE  IInv'
<1>1. stamp' \in Nat /\ pending' \in [Channels -> Nat]
  BY DEF Acknowledge, Acts, IInv, ShapeOK
<1>2. UNCHANGED <<token, generation, closed, line, bulk, issued>>
  BY DEF Acknowledge, pumps, server
<1> QED BY <1>1, <1>2, StandingKeepsOrder DEF IInv, ShapeOK

LEMMA MarkUnreadPreserves ==
    ASSUME IInv, NEW c \in Channels, MarkUnread(c)
    PROVE  IInv'
<1>0. stamp' = stamp + 1 /\ pending' = Cancelled({c})
  BY DEF MarkUnread, Acts
<1>1. stamp' \in Nat /\ pending' \in [Channels -> Nat]
  <2>1. stamp' \in Nat
    BY <1>0 DEF IInv, ShapeOK
  <2>2. ShapeOK
    BY DEF IInv
  <2>3. pending' \in [Channels -> Nat]
    BY <1>0, <2>2, CancelledShape
  <2> QED BY <2>1, <2>3
<1>2. {<<c, stamp'>>} \in SUBSET (Channels \X Nat) /\ "now" \in Kinds
  BY <1>1 DEF Kinds
<1>3. Serialize(Operation("now", {<<c, stamp'>>}))
      /\ UNCHANGED <<token, generation, closed, bulk, issued>>
  BY DEF MarkUnread, pumps, server
<1> QED BY <1>1, <1>2, <1>3, SerializeJoins DEF IInv, ShapeOK

LEMMA MarkSpaceReadPreserves ==
    ASSUME IInv, NEW cs \in SUBSET Channels, MarkSpaceRead(cs)
    PROVE  IInv'
<1>0. stamp' = stamp + 1 /\ pending' = Cancelled(cs)
  BY DEF MarkSpaceRead, Acts
<1>1. stamp' \in Nat /\ pending' \in [Channels -> Nat]
  BY <1>0, CancelledShape DEF IInv, ShapeOK
<1>2. Cardinality(cs) \in Nat
  BY ChannelsAssumption, FS_Subset, FS_CardinalityType
<1>3. PICK order \in [1 .. Cardinality(cs) -> cs] :
        StartBulkDrain(bulk \o [i \in DOMAIN order |-> <<order[i], stamp'>>])
  BY DEF MarkSpaceRead
<1> DEFINE entries == [i \in 1 .. Cardinality(cs) |-> <<order[i], stamp'>>]
<1>4. DOMAIN order = 1 .. Cardinality(cs)
  OBVIOUS
<1>5. entries \in Seq(Channels \X Nat)
  <2>1. \A i \in 1 .. Cardinality(cs) : <<order[i], stamp'>> \in Channels \X Nat
    BY <1>1
  <2> QED BY <2>1, <1>2
<1>6. StartBulkDrain(bulk \o entries)
  BY <1>3, <1>4
<1> HIDE DEF entries
<1>7. bulk \o entries \in Seq(Channels \X Nat)
  BY <1>5 DEF IInv, ShapeOK
<1>8. UNCHANGED <<token, generation, closed, issued>>
  BY DEF MarkSpaceRead, server
<1> QED BY <1>1, <1>6, <1>7, <1>8, StartBulkDrainJoins DEF IInv, ShapeOK

LEMMA SendNowPreserves ==
    ASSUME IInv, SendNow
    PROVE  IInv'
<1>1. {} \in SUBSET (Channels \X Nat) /\ "now" \in Kinds
  BY DEF Kinds
<1>2. Serialize(Operation("now", {}))
      /\ UNCHANGED <<pending, token, generation, closed, bulk, stamp, issued>>
  BY DEF SendNow, pumps, server
<1> QED BY <1>1, <1>2, SerializeJoins DEF IInv, ShapeOK

LEMMA RemoteRewindPreserves ==
    ASSUME IInv, NEW c \in Channels, RemoteRewind(c)
    PROVE  IInv'
<1>1. pending' \in [Channels -> Nat]
  BY CancelledShape DEF RemoteRewind, IInv
<1>2. UNCHANGED <<token, generation, closed, line, bulk, stamp, issued>>
  BY DEF RemoteRewind, pumps, server
<1> QED BY <1>1, <1>2, StandingKeepsOrder DEF IInv, ShapeOK

LEMMA BindSessionPreserves ==
    ASSUME IInv, NEW same \in BOOLEAN, BindSession(same)
    PROVE  IInv'
<1>1. pending' \in [Channels -> Nat]
  BY CancelledShape DEF BindSession, IInv
<1>2. /\ generation' = generation + 1 /\ token' = 0 /\ bulk' = <<>>
      /\ UNCHANGED <<closed, line, stamp, issued>>
  BY DEF BindSession, None, server
<1>3. generation' \in Nat /\ token' \in Nat /\ bulk' \in Seq(Channels \X Nat)
  BY <1>2 DEF IInv, ShapeOK
<1> QED BY <1>1, <1>2, <1>3, StandingKeepsOrder DEF IInv, ShapeOK

LEMMA ClosePreserves ==
    ASSUME IInv, Close
    PROVE  IInv'
<1>1. pending' \in [Channels -> Nat]
  BY CancelledShape DEF Close, IInv
<1>2. closed' /\ bulk' = <<>> /\ UNCHANGED <<token, generation, line, stamp, issued>>
  BY DEF Close, server
<1>3. bulk' \in Seq(Channels \X Nat)
  BY <1>2
<1> QED BY <1>1, <1>2, <1>3, StandingKeepsOrder DEF IInv, ShapeOK

LEMMA NextPreserves == IInv /\ [Next]_vars => IInv'
<1> SUFFICES ASSUME IInv, [Next]_vars PROVE IInv'
  OBVIOUS
<1>1. CASE Timers
  BY <1>1, FlushChannelPreserves, PumpWakesPreserves DEF Timers
<1>2. CASE User
  BY <1>2, AcknowledgePreserves, MarkUnreadPreserves, MarkSpaceReadPreserves,
     SendNowPreserves, FlushBulkPreserves DEF User
<1>3. CASE Session
  BY <1>3, RemoteRewindPreserves, BindSessionPreserves, ClosePreserves DEF Session
<1>4. CASE \E k \in DOMAIN operations : Request(k)
  BY <1>4, RequestPreserves
<1>5. CASE UNCHANGED vars
  <2>1. UNCHANGED <<pending, token, generation, closed, line, bulk, stamp, issued>>
    BY <1>5 DEF vars, pumps, server
  <2> QED BY <2>1, StandingKeepsOrder DEF IInv, ShapeOK
<1> QED BY <1>1, <1>2, <1>3, <1>4, <1>5 DEF Next

-----------------------------------------------------------------------------
(* The theorems.                                                           *)

\* The strengthened invariant holds in every reachable state.
THEOREM LineIsOrdered == Spec => []IInv
BY InitEstablishes, NextPreserves, PTL DEF Spec

\* No two requests are ever with the server at once, however many there are and
\* however they fail (_serialize, _attempt).
THEOREM OneRequestAtATime == Spec => []OneAtATime
<1>1. IInv => OneAtATime
  <2> SUFFICES ASSUME IInv, NEW i \in DOMAIN operations,
                      NEW j \in DOMAIN operations, Running(i), Running(j)
               PROVE  i = j
    BY DEF OneAtATime
  <2>1. i \in 1 .. Len(operations) /\ j \in 1 .. Len(operations)
    BY DEF IInv, ShapeOK
  <2>2. EarlierEnded(i) /\ EarlierEnded(j) /\ ~Ended(i) /\ ~Ended(j)
    BY <2>1 DEF IInv, LineInv, Running, Ended
  <2> QED BY <2>1, <2>2 DEF EarlierEnded, IInv, ShapeOK
<1> QED BY <1>1, LineIsOrdered, PTL

\* No acknowledgement or batch goes out, or is tried again, in a session it was
\* not made in (_flushChannel, _drainBulk, _attempt).
THEOREM SessionsNeverMix == Spec => []SessionsStayApart
<1>1. IInv => SessionsStayApart
  <2> SUFFICES ASSUME IInv, NEW k \in DOMAIN operations,
                      operations[k].phase = "sending", operations[k].kind # "now"
               PROVE  operations[k].during = operations[k].generation
    BY DEF SessionsStayApart
  <2>1. k \in 1 .. Len(operations)
    BY DEF IInv, ShapeOK
  <2> QED BY <2>1 DEF IInv, SessionInv, Running
<1> QED BY <1>1, LineIsOrdered, PTL

\* Nothing that left its debounce or the bulk queue is given up unsent, but for
\* a queue that was closed or a session that is over.
THEOREM FlushedIsNeverLost == Spec => []FlushedIsSent
<1>1. IInv => FlushedIsSent
  BY DEF IInv, ShapeOK, SessionInv, FlushedIsSent
<1> QED BY <1>1, LineIsOrdered, PTL

-----------------------------------------------------------------------------
(* The token: it is compared and set only by an answer of its own session.  *)

TokenInv ==
    /\ issued \in Seq(Nat) /\ token \in 0 .. Len(issued)
    /\ TokenIsOfSession

LEMMA TokenStands ==
    ASSUME TokenInv, UNCHANGED <<token, issued, generation>>
    PROVE  TokenInv'
BY DEF TokenInv, TokenIsOfSession

LEMMA TokenStep ==
    IInv /\ TokenInv /\ [Next]_vars => TokenInv'
<1> SUFFICES ASSUME IInv, TokenInv, [Next]_vars PROVE TokenInv'
  OBVIOUS
<1> USE DEF server
<1>1. ASSUME NEW k \in DOMAIN operations, Answered(k) PROVE TokenInv'
  <2>1. /\ k \in 1 .. Len(operations) /\ operations[k] \in Requests
        /\ generation' = generation
    BY <1>1 DEF IInv, ShapeOK, Answered
  <2>2. CASE operations[k].kind # "ack"
    BY <1>1, <2>1, <2>2, TokenStands DEF Answered
  <2>3. CASE operations[k].kind = "ack"
    <3>1. /\ issued' = Append(issued, operations[k].during)
          /\ token' = IF TakesToken(k) THEN Len(issued') ELSE token
      BY <1>1, <2>3 DEF Answered
    <3>2. /\ issued \in Seq(Nat) /\ operations[k].during \in Nat
          /\ token \in 0 .. Len(issued)
      BY <2>1 DEF TokenInv, Requests
    <3>3. /\ issued' \in Seq(Nat) /\ Len(issued') = Len(issued) + 1
          /\ issued'[Len(issued) + 1] = operations[k].during
          /\ \A i \in 1 .. Len(issued) : issued'[i] = issued[i]
      BY <3>1, <3>2
    <3>4. operations[k].during = operations[k].generation
      BY <1>1, <2>1, <2>3 DEF IInv, SessionInv, Answered, Running
    <3>5. CASE TakesToken(k)
      BY <2>1, <3>1, <3>2, <3>3, <3>4, <3>5
      DEF TokenInv, TokenIsOfSession, TakesToken
    <3>6. CASE ~TakesToken(k)
      BY <2>1, <3>1, <3>2, <3>3, <3>6 DEF TokenInv, TokenIsOfSession, None
    <3> QED BY <3>5, <3>6
  <2> QED BY <2>2, <2>3
<1>2. ASSUME NEW k \in DOMAIN operations, Request(k) PROVE TokenInv'
  <2>1. CASE ~Answered(k)
    BY <1>2, <2>1, TokenStands DEF Request, TurnComes, Fails, Wakes
  <2> QED BY <1>1, <2>1
<1>3. ASSUME NEW same \in BOOLEAN, BindSession(same) PROVE TokenInv'
  BY <1>3 DEF BindSession, TokenInv, TokenIsOfSession, None
<1>4. CASE Timers
  BY <1>4, TokenStands DEF Timers, FlushChannel, PumpWakes
<1>5. CASE User
  BY <1>5, TokenStands
  DEF User, Acknowledge, MarkUnread, MarkSpaceRead, SendNow, FlushBulk
<1>6. CASE Session
  <2>1. CASE \E c \in Channels : RemoteRewind(c)
    BY <2>1, TokenStands DEF RemoteRewind
  <2>2. CASE Close
    BY <2>2, TokenStands DEF Close
  <2> QED BY <1>3, <1>6, <2>1, <2>2 DEF Session
<1>7. CASE UNCHANGED vars
  BY <1>7, TokenStands DEF vars
<1> QED BY <1>2, <1>4, <1>5, <1>6, <1>7 DEF Next

\* The token the queue holds was handed out to a request of this session: no
\* answer that came late puts a token of an older one in its place.
THEOREM TokenStaysInSession == Spec => []TokenIsOfSession
<1>1. Init => TokenInv
  BY DEF Init, TokenInv, TokenIsOfSession, None
<1>2. TokenInv => TokenIsOfSession
  BY DEF TokenInv
<1> QED BY <1>1, <1>2, TokenStep, LineIsOrdered, PTL DEF Spec

-----------------------------------------------------------------------------
(* Acts arrive in order.  What a channel's read state may still become is  *)
(* what the server has of it, what the bulk queue holds and what requests  *)
(* carry.  An act waiting for its timer is newer than all of that, whatever*)
(* replaces it cancels it first, and a request of one channel, when it     *)
(* joins the line, is the newest too: only a batch behind it can report an *)
(* older act later.                                                        *)

\* The acts the server was told of channel c, or is still to be told of.
Said(c) ==
    {n \in Nat : \/ n = applied[c]
                 \/ \E i \in 1 .. Len(bulk) : bulk[i] = <<c, n>>
                 \/ \E k \in 1 .. Len(operations) : <<c, n>> \in operations[k].marks}

NewestInv ==
    /\ applied \in [Channels -> Nat]
    /\ \A c \in Channels :
          /\ pending[c] <= stamp /\ \A n \in Said(c) : n <= stamp
          /\ pending[c] # None => \A n \in Said(c) : n <= pending[c]

\* What has ended reports nothing more; a request of one channel reports an act
\* no older than what the server has, or any request before it reports.
DirectInv ==
    /\ \A k \in 1 .. Len(operations) : Ended(k) => operations[k].marks = {}
    /\ \A j \in 1 .. Len(operations), c \in Channels, n \in Nat :
          operations[j].kind # "bulk" /\ <<c, n>> \in operations[j].marks =>
              /\ applied[c] <= n
              /\ \A i \in 1 .. j, m \in Nat : <<c, m>> \in operations[i].marks => m <= n

OrderInv == NewestInv /\ DirectInv

\* What a step may do to one channel: its act stays where it was or moves on
\* from its timer, or the user acts again.
LEMMA NewestStep ==
    ASSUME ShapeOK, ShapeOK', NewestInv,
           applied' \in [Channels -> Nat], stamp' \in {stamp, stamp + 1},
           \A c \in Channels :
              \/ /\ pending'[c] = None
                 /\ \A n \in Said(c)' : n \in Said(c) \/ n = pending[c] \/ n = stamp'
              \/ /\ pending'[c] \in {pending[c], stamp'}
                 /\ \A n \in Said(c)' : n \in Said(c)
    PROVE  NewestInv'
<1>1. stamp \in Nat /\ stamp' \in Nat /\ stamp <= stamp'
  BY DEF ShapeOK
<1>2. ASSUME NEW c \in Channels
      PROVE  /\ pending'[c] <= stamp' /\ \A n \in Said(c)' : n <= stamp'
             /\ pending'[c] # None => \A n \in Said(c)' : n <= pending'[c]
  <2>1. pending[c] \in Nat /\ pending[c] <= stamp
    BY <1>2 DEF ShapeOK, NewestInv
  <2>2. (\A n \in Said(c) : n \in Nat) /\ (\A n \in Said(c)' : n \in Nat)
    BY DEF Said
  <2>3. /\ \A n \in Said(c) : n <= stamp
        /\ pending[c] # None => \A n \in Said(c) : n <= pending[c]
    BY <1>2 DEF NewestInv
  <2>4. \/ /\ pending'[c] = None
           /\ \A n \in Said(c)' : n \in Said(c) \/ n = pending[c] \/ n = stamp'
        \/ /\ pending'[c] \in {pending[c], stamp'}
           /\ \A n \in Said(c)' : n \in Said(c)
    BY <1>2
  <2> HIDE DEF Said
  <2> QED BY <1>1, <2>1, <2>2, <2>3, <2>4 DEF None
<1> QED BY <1>2 DEF NewestInv

\* A request that joins the line: one of one channel has to be the newest.
LEMMA NewestJoins ==
    ASSUME ShapeOK, DirectInv, NEW op, operations' = Append(operations, op),
           op.phase = "waiting", UNCHANGED applied,
           \A c \in Channels, n \in Nat :
              op.kind # "bulk" /\ <<c, n>> \in op.marks =>
                 /\ \A m \in Said(c) : m <= n
                 /\ \A m \in Nat : <<c, m>> \in op.marks => m <= n,
           applied \in [Channels -> Nat]
    PROVE  DirectInv'
<1>0. PICK l \in Nat : l = Len(operations)
  BY DEF ShapeOK
<1>1. /\ Len(operations') = l + 1 /\ operations'[l + 1] = op
      /\ \A i \in 1 .. l : operations'[i] = operations[i]
  BY <1>0 DEF ShapeOK
<1>2. ASSUME NEW k \in 1 .. (l + 1), Ended(k)' PROVE operations'[k].marks = {}
  BY <1>0, <1>1, <1>2 DEF Ended, DirectInv
<1>3. ASSUME NEW j \in 1 .. (l + 1), NEW c \in Channels, NEW n \in Nat,
             operations'[j].kind # "bulk", <<c, n>> \in operations'[j].marks
      PROVE  /\ applied'[c] <= n
             /\ \A i \in 1 .. j, m \in Nat : <<c, m>> \in operations'[i].marks => m <= n
  <2>1. CASE j \in 1 .. l
    BY <1>0, <1>1, <1>3, <2>1 DEF DirectInv
  <2>2. CASE j = l + 1
    <3>1. /\ \A m \in Said(c) : m <= n
          /\ \A m \in Nat : <<c, m>> \in op.marks => m <= n
      BY <1>1, <1>3, <2>2
    <3>2. applied[c] \in Said(c)
      BY DEF Said
    <3>3. ASSUME NEW i \in 1 .. l, NEW m \in Nat, <<c, m>> \in operations[i].marks
          PROVE  m \in Said(c)
      BY <1>0, <3>3 DEF Said
    <3> QED BY <1>0, <1>1, <2>2, <3>1, <3>2, <3>3
  <2> QED BY SMTT(20), <1>0, <2>1, <2>2
<1> QED BY <1>1, <1>2, <1>3 DEF DirectInv

\* The request whose turn it is moves on, and the server may take what it says.
Advances(k) ==
    /\ k \in 1 .. Len(operations) /\ EarlierEnded(k)
    /\ Len(operations') = Len(operations)
    /\ \A i \in 1 .. Len(operations) : i # k => operations'[i] = operations[i]
    /\ operations'[k].kind = operations[k].kind
    /\ operations'[k].marks \in {operations[k].marks, {}}
    /\ Ended(k)' => operations'[k].marks = {}
    /\ bulk' \in {bulk, <<>>} /\ UNCHANGED <<pending, stamp>>
    /\ applied' \in [Channels -> Nat]
    /\ \A c \in Channels :
          applied'[c] = applied[c] \/ <<c, applied'[c]>> \in operations[k].marks
    /\ applied' = applied \/ Running(k)

LEMMA AdvancingKeepsOrder ==
    ASSUME ShapeOK, ShapeOK', OrderInv, NEW k, Advances(k)
    PROVE  OrderInv'
<1>0. PICK l \in Nat : l = Len(operations)
  BY DEF ShapeOK
<1>1. /\ k \in 1 .. l /\ Len(operations') = l /\ applied \in [Channels -> Nat]
      /\ \A i \in 1 .. l : i # k => operations'[i] = operations[i]
      /\ \A i \in 1 .. l : i < k => operations[i].marks = {}
  BY <1>0 DEF Advances, EarlierEnded, OrderInv, NewestInv, DirectInv
<1>2. \A i \in 1 .. l, c \in Channels, n \in Nat :
         <<c, n>> \in operations'[i].marks => <<c, n>> \in operations[i].marks
  BY <1>0, <1>1 DEF Advances
<1>3. \A i \in 1 .. Len(bulk') : i \in 1 .. Len(bulk) /\ bulk'[i] = bulk[i]
  <2>1. CASE bulk' = bulk
    BY <2>1
  <2>2. CASE bulk' = <<>>
    <3>1. Len(bulk') = 0
      BY <2>2
    <3> QED BY <3>1
  <2> QED BY <2>1, <2>2 DEF Advances
<1>4. \A c \in Channels : \A n \in Said(c)' : n \in Said(c)
  <2> SUFFICES ASSUME NEW c \in Channels, NEW n \in Said(c)' PROVE n \in Said(c)
    OBVIOUS
  <2>1. n \in Nat
    BY DEF Said
  <2>2. CASE n = applied'[c]
    BY <1>0, <1>1, <2>1, <2>2 DEF Said, Advances
  <2>3. CASE \E i \in 1 .. Len(bulk') : bulk'[i] = <<c, n>>
    BY <1>3, <2>1, <2>3 DEF Said
  <2>4. CASE \E i \in 1 .. Len(operations') : <<c, n>> \in operations'[i].marks
    BY <1>0, <1>1, <1>2, <2>1, <2>4 DEF Said
  <2> QED BY <2>2, <2>3, <2>4 DEF Said
<1>5. NewestInv'
  BY <1>4, NewestStep DEF OrderInv, Advances
<1>6. ASSUME NEW j \in 1 .. l, Ended(j)' PROVE operations'[j].marks = {}
  BY <1>0, <1>1, <1>6 DEF Ended, OrderInv, DirectInv, Advances
<1>7. ASSUME NEW j \in 1 .. l, NEW c \in Channels, NEW n \in Nat,
             operations'[j].kind # "bulk", <<c, n>> \in operations'[j].marks
      PROVE  /\ applied'[c] <= n
             /\ \A i \in 1 .. j, m \in Nat : <<c, m>> \in operations'[i].marks => m <= n
  <2>1. operations[j].kind # "bulk" /\ <<c, n>> \in operations[j].marks
    BY <1>0, <1>1, <1>2, <1>7 DEF Advances
  <2>2. /\ applied[c] <= n
        /\ \A i \in 1 .. j, m \in Nat : <<c, m>> \in operations[i].marks => m <= n
    BY <1>0, <2>1 DEF OrderInv, DirectInv
  <2>3. k \in 1 .. j
    BY <1>1, <2>1
  <2>4. applied'[c] \in Nat
        /\ (applied'[c] = applied[c] \/ <<c, applied'[c]>> \in operations[k].marks)
    BY DEF Advances
  <2> QED BY <1>1, <1>2, <2>2, <2>3, <2>4
<1>8. DirectInv'
  BY <1>1, <1>6, <1>7 DEF DirectInv
<1> QED BY <1>5, <1>8 DEF OrderInv

\* A set of numbers up to a bound that is not empty has a greatest.
LEMMA GreatestExists ==
    ASSUME NEW top \in Nat, NEW T, T \subseteq 0 .. top, T # {}
    PROVE  \E n \in T : \A m \in T : m <= n
<1> DEFINE U == {top - n : n \in T}
           R == OpToRel(<, Nat)
<1>1. U \subseteq Nat
  OBVIOUS
<1>2. U # {}
  OBVIOUS
<1>3. IsWellFoundedOn(R, Nat)
  BY NatLessThanWellFounded
<1>4. \A x, y \in Nat : <<x, y>> \in R <=> x < y
  BY DEF OpToRel
<1> HIDE DEF R
<1>5. PICK x \in U : \A y \in U : <<y, x>> \notin R
  <2> HIDE DEF U
  <2> QED BY <1>1, <1>2, <1>3, WFMin
<1>6. PICK n \in T : x = top - n
  OBVIOUS
<1>7. ASSUME NEW m \in T PROVE m <= n
  <2>1. top - m \in U /\ m \in 0 .. top /\ n \in 0 .. top
    BY <1>7
  <2>2. top - m \in Nat /\ x \in Nat
    BY <1>1, <2>1
  <2>3. ~(top - m < x)
    BY <1>4, <1>5, <2>1, <2>2
  <2> QED BY <1>6, <2>1, <2>3
<1> QED BY <1>7

\* What the server has of a channel after a request is an act that request
\* reports, or what it had (LastMark of several).
LEMMA AppliedIsReported ==
    ASSUME applied \in [Channels -> Nat], NEW marks
    PROVE  /\ Applied(marks) \in [Channels -> Nat]
           /\ \A c \in Channels : \/ Applied(marks)[c] = applied[c]
                                  \/ <<c, Applied(marks)[c]>> \in marks
<1>0. Stamps \subseteq Nat /\ \A n \in Stamps : n \in 0 .. MaxStamps
  BY BoundsAssumption DEF Stamps
<1>1. ASSUME NEW c \in Channels, NEW n \in Stamps, <<c, n>> \in marks
      PROVE  LastMark(marks, c) \in Stamps /\ <<c, LastMark(marks, c)>> \in marks
  <2> DEFINE T == {m \in Stamps : <<c, m>> \in marks}
  <2>1. T \subseteq 0 .. MaxStamps /\ T # {}
    BY <1>0, <1>1
  <2>2. PICK top \in T : \A m \in T : m <= top
    BY <2>1, GreatestExists, BoundsAssumption
  <2>3. \E m \in Stamps : /\ <<c, m>> \in marks
                          /\ \A o \in Stamps : <<c, o>> \in marks => o <= m
    BY <2>2
  <2> QED BY <2>3 DEF LastMark
<1>2. ASSUME NEW c \in Channels
      PROVE  /\ Applied(marks)[c] \in Nat
             /\ \/ Applied(marks)[c] = applied[c]
                \/ <<c, Applied(marks)[c]>> \in marks
  BY <1>0, <1>1 DEF Applied
<1> QED BY <1>2 DEF Applied

\* The end of a request, in those terms.
LEMMA EndingAdvances ==
    ASSUME IInv, NEW k \in 1 .. Len(operations), NEW phase, NEW threw,
           EndOperation(k, phase, threw)
    PROVE  /\ Len(operations') = Len(operations)
           /\ \A i \in 1 .. Len(operations) : i # k => operations'[i] = operations[i]
           /\ operations'[k].kind = operations[k].kind
           /\ operations'[k].marks = {}
           /\ bulk' \in {bulk, <<>>}
<1>1. operations \in Seq(Requests) /\ operations[k] \in Requests
  BY DEF IInv, ShapeOK
<1>2. operations' = [operations EXCEPT ![k] = Remains(k, phase)]
  BY DEF EndOperation
<1>3. Remains(k, phase).kind = operations[k].kind /\ Remains(k, phase).marks = {}
  BY <1>1 DEF Remains, Requests
<1>4. bulk' \in {bulk, <<>>}
  BY DEF EndOperation, pumps
<1> QED BY <1>1, <1>2, <1>3, <1>4

\* So does going out, for the first time or again.
LEMMA SendingAdvances ==
    ASSUME IInv, NEW k \in 1 .. Len(operations), Sends(k)
    PROVE  /\ Len(operations') = Len(operations)
           /\ \A i \in 1 .. Len(operations) : i # k => operations'[i] = operations[i]
           /\ operations'[k].kind = operations[k].kind
           /\ operations'[k].marks = operations[k].marks
           /\ ~Ended(k)'
<1> DEFINE r == [operations[k] EXCEPT !.phase = "sending", !.during = generation]
<1>1. operations \in Seq(Requests) /\ operations[k] \in Requests
  BY DEF IInv, ShapeOK
<1>2. /\ r.phase = "sending" /\ r.kind = operations[k].kind
      /\ r.marks = operations[k].marks
  BY <1>1 DEF Requests
<1>3. operations' = [operations EXCEPT ![k] = r]
  BY <1>1 DEF Sends
<1> HIDE DEF r
<1> QED BY <1>1, <1>2, <1>3 DEF Ended

\* One turn of one request.
LEMMA RequestAdvances ==
    ASSUME IInv, OrderInv, NEW k \in DOMAIN operations, Request(k)
    PROVE  Advances(k)
<1>1. /\ k \in 1 .. Len(operations) /\ operations \in Seq(Requests)
      /\ operations[k] \in Requests /\ applied \in [Channels -> Nat]
  BY DEF IInv, ShapeOK, OrderInv, NewestInv
<1>2. EarlierEnded(k)
  BY <1>1, TurnHasCome
  DEF Request, TurnComes, Answered, Fails, Wakes, Ended
<1>3. UNCHANGED <<pending, stamp>>
  BY DEF Request, TurnComes, Answered, Fails, Wakes
<1>4. /\ applied' = applied \/ Running(k)
      /\ applied' = applied \/ applied' = Applied(operations[k].marks)
  BY DEF Request, TurnComes, Answered, Fails, Wakes, Running, server
<1>5. /\ applied' \in [Channels -> Nat]
      /\ \A c \in Channels :
            applied'[c] = applied[c] \/ <<c, applied'[c]>> \in operations[k].marks
  BY <1>1, <1>4, AppliedIsReported
<1>6. ASSUME NEW phase, NEW threw, EndOperation(k, phase, threw) PROVE Advances(k)
  BY <1>1, <1>2, <1>3, <1>4, <1>5, <1>6, EndingAdvances DEF Advances
<1>7. ASSUME Sends(k), UNCHANGED pumps PROVE Advances(k)
  BY <1>1, <1>2, <1>3, <1>4, <1>5, <1>7, SendingAdvances DEF Advances, pumps
<1>8. CASE TurnComes(k)
  BY <1>6, <1>7, <1>8 DEF TurnComes
<1>9. CASE Answered(k)
  BY <1>6, <1>9 DEF Answered
<1>10. CASE Wakes(k)
  BY <1>6, <1>7, <1>10 DEF Wakes
<1>11. ASSUME NEW transient \in BOOLEAN, NEW reached \in BOOLEAN,
              Fails(k, transient, reached)
       PROVE  Advances(k)
  <2>1. CASE ~(transient /\ MayRetry(k))
    BY <1>6, <1>11, <2>1 DEF Fails
  <2>2. CASE transient /\ MayRetry(k)
    <3> DEFINE r == [operations[k] EXCEPT !.phase = "sleeping",
                                          !.attempt = NextAttempt(k)]
    <3>0. /\ r.phase = "sleeping" /\ r.kind = operations[k].kind
          /\ r.marks = operations[k].marks
      BY <1>1 DEF Requests
    <3>1. operations' = [operations EXCEPT ![k] = r] /\ bulk' = bulk
      BY <1>1, <1>11, <2>2 DEF Fails, pumps
    <3> HIDE DEF r
    <3>2. /\ Len(operations') = Len(operations)
          /\ \A i \in 1 .. Len(operations) : i # k => operations'[i] = operations[i]
          /\ operations'[k].kind = operations[k].kind
          /\ operations'[k].marks = operations[k].marks
          /\ operations'[k].phase = "sleeping"
      BY <1>1, <3>0, <3>1
    <3> QED BY <1>1, <1>2, <1>3, <1>4, <1>5, <3>1, <3>2 DEF Advances, Ended
  <2> QED BY <2>1, <2>2
<1> QED BY <1>8, <1>9, <1>10, <1>11 DEF Request

\* What a request made by _serialize is.
LEMMA SerializeAppends ==
    ASSUME NEW kind, NEW marks, Serialize(Operation(kind, marks))
    PROVE  \E op : /\ operations' = Append(operations, op)
                   /\ op.kind = kind /\ op.marks = marks /\ op.phase = "waiting"
<1> DEFINE op == [Operation(kind, marks) EXCEPT !.previous = inFlight]
<1>1. op.kind = kind /\ op.marks = marks /\ op.phase = "waiting"
  BY DEF Operation
<1>2. operations' = Append(operations, op)
  BY DEF Serialize
<1> HIDE DEF op
<1> QED BY <1>1, <1>2

\* A request that joins the line brings no act but its own.
LEMMA SaidAfterJoining ==
    ASSUME ShapeOK, NEW op, operations' = Append(operations, op),
           UNCHANGED applied, NEW c, NEW n \in Said(c)'
    PROVE  \/ n \in Said(c) \/ <<c, n>> \in op.marks
           \/ \E i \in 1 .. Len(bulk') : bulk'[i] = <<c, n>>
<1>0. PICK l \in Nat : l = Len(operations)
  BY DEF ShapeOK
<1>1. /\ Len(operations') = l + 1 /\ operations'[l + 1] = op
      /\ \A i \in 1 .. l : operations'[i] = operations[i]
  BY <1>0 DEF ShapeOK
<1>2. CASE \E k \in 1 .. Len(operations') : <<c, n>> \in operations'[k].marks
  <2>1. PICK k \in 1 .. (l + 1) : <<c, n>> \in operations'[k].marks
    BY <1>1, <1>2
  <2>2. n \in Nat
    BY DEF Said
  <2>3. CASE k = l + 1
    BY <1>1, <2>1, <2>3
  <2>4. CASE k \in 1 .. l
    <3>1. <<c, n>> \in operations[k].marks /\ k \in 1 .. Len(operations)
      BY <1>0, <1>1, <2>1, <2>4
    <3> QED BY <2>2, <3>1 DEF Said
  <2> QED BY <2>3, <2>4
<1> QED BY <1>2 DEF Said

\* A batch and what it leaves are what the bulk queue held.
LEMMA BatchIsHeld ==
    ASSUME NEW b \in Seq(Channels \X Nat)
    PROVE  /\ \A m \in Batch(b) : \E i \in 1 .. Len(b) : b[i] = m
           /\ \A i \in 1 .. Len(Unsent(b)) : \E h \in 1 .. Len(b) : b[h] = Unsent(b)[i]
<1>1. BatchSize \in Nat
  BY PolicyAssumption
<1>2. PICK l \in Nat : l = Len(b)
  OBVIOUS
<1>3. \A m \in Batch(b) : \E i \in 1 .. Len(b) : b[i] = m
  BY <1>1, <1>2 DEF Batch
<1>4. ASSUME NEW i \in 1 .. Len(Unsent(b))
      PROVE  \E h \in 1 .. Len(b) : b[h] = Unsent(b)[i]
  <2>1. i + BatchSize \in 1 .. l /\ Unsent(b)[i] = b[i + BatchSize]
    BY <1>1, <1>2, <1>4 DEF Unsent
  <2> QED BY <1>2, <2>1
<1> QED BY <1>3, <1>4

\* The pump hands over a batch, or waits: either way there are only the acts of
\* the bulk queue b to tell, and a batch goes out as one (_startBulkDrain).
LEMMA DrainKeepsOrder ==
    ASSUME IInv, OrderInv, NEW b \in Seq(Channels \X Nat),
           TakeBatch(b) \/ (bulk' = b /\ UNCHANGED line), UNCHANGED applied
    PROVE  /\ DirectInv'
           /\ \A c \in Channels : \A n \in Said(c)' :
                 n \in Said(c) \/ \E i \in 1 .. Len(b) : b[i] = <<c, n>>
<1>1. CASE bulk' = b /\ UNCHANGED line
  <2>1. operations' = operations /\ \A k : Ended(k)' <=> Ended(k)
    BY <1>1 DEF line, Ended
  <2>2. DirectInv'
    BY <2>1 DEF OrderInv, DirectInv
  <2> QED BY <1>1, <2>1, <2>2 DEF Said
<1>2. CASE TakeBatch(b)
  <2>1. bulk' = Unsent(b)
    BY <1>2 DEF TakeBatch
  <2>2. PICK op : /\ operations' = Append(operations, op)
                  /\ op.kind = "bulk" /\ op.marks = Batch(b) /\ op.phase = "waiting"
    BY <1>2, SerializeAppends DEF TakeBatch
  <2>3. DirectInv'
    BY <2>2, NewestJoins DEF IInv, OrderInv, NewestInv
  <2>4. ASSUME NEW c \in Channels, NEW n \in Said(c)'
        PROVE  n \in Said(c) \/ \E i \in 1 .. Len(b) : b[i] = <<c, n>>
    <3>1. \/ n \in Said(c) \/ <<c, n>> \in Batch(b)
          \/ \E i \in 1 .. Len(Unsent(b)) : Unsent(b)[i] = <<c, n>>
      BY ZenonT(30), <2>1, <2>2, <2>4, SaidAfterJoining DEF IInv
    <3>2. /\ \A m \in Batch(b) : \E i \in 1 .. Len(b) : b[i] = m
          /\ \A i \in 1 .. Len(Unsent(b)) : \E h \in 1 .. Len(b) : b[h] = Unsent(b)[i]
      BY BatchIsHeld
    <3>3. CASE <<c, n>> \in Batch(b)
      BY <3>2, <3>3
    <3>4. CASE \E i \in 1 .. Len(Unsent(b)) : Unsent(b)[i] = <<c, n>>
      BY <3>2, <3>4
    <3> QED BY <3>1, <3>3, <3>4
  <2> QED BY <2>3, <2>4
<1> QED BY <1>1, <1>2

\* A request of no batch joins the line with the newest act of its channel, if
\* it reports one (_flushChannel, sendNow).
LEMMA DirectKeepsOrder ==
    ASSUME IInv, IInv', OrderInv, NEW kind, NEW marks,
           Serialize(Operation(kind, marks)), UNCHANGED <<applied, bulk>>,
           stamp' \in {stamp, stamp + 1},
           \/ marks = {} /\ UNCHANGED pending
           \/ \E c \in Channels, n \in Nat :
                 /\ marks = {<<c, n>>} /\ pending' = Cancelled({c})
                 /\ \/ n = pending[c] /\ pending[c] # None
                    \/ n = stamp' /\ stamp' = stamp + 1
    PROVE  OrderInv'
<1>1. PICK op : /\ operations' = Append(operations, op)
                /\ op.kind = kind /\ op.marks = marks /\ op.phase = "waiting"
  BY SerializeAppends
<1>2. ShapeOK /\ ShapeOK' /\ NewestInv /\ DirectInv /\ applied \in [Channels -> Nat]
  BY DEF IInv, OrderInv, NewestInv
<1>3. \A i \in 1 .. Len(bulk'), c \in Channels, n \in Nat :
         bulk'[i] = <<c, n>> => n \in Said(c)
  BY DEF Said
<1>4. \A c \in Channels : \A n \in Said(c)' : n \in Said(c) \/ <<c, n>> \in marks
  <2> SUFFICES ASSUME NEW c \in Channels, NEW n \in Said(c)'
               PROVE  n \in Said(c) \/ <<c, n>> \in marks
    OBVIOUS
  <2>1. n \in Nat
    BY DEF Said
  <2>2. \/ n \in Said(c) \/ <<c, n>> \in op.marks
        \/ \E i \in 1 .. Len(bulk') : bulk'[i] = <<c, n>>
    BY ZenonT(30), <1>1, <1>2, SaidAfterJoining
  <2>3. CASE \E i \in 1 .. Len(bulk') : bulk'[i] = <<c, n>>
    BY <1>3, <2>1, <2>3
  <2> QED BY <1>1, <2>2, <2>3
<1>5. CASE marks = {} /\ UNCHANGED pending
  <2>1. DirectInv'
    BY <1>1, <1>2, <1>5, NewestJoins
  <2>2. NewestInv'
    BY <1>2, <1>4, <1>5, NewestStep
  <2> QED BY <2>1, <2>2 DEF OrderInv
<1>6. CASE \E c \in Channels, n \in Nat :
              /\ marks = {<<c, n>>} /\ pending' = Cancelled({c})
              /\ \/ n = pending[c] /\ pending[c] # None
                 \/ n = stamp' /\ stamp' = stamp + 1
  <2>1. PICK c \in Channels, n \in Nat :
              /\ marks = {<<c, n>>} /\ pending' = Cancelled({c})
              /\ \/ n = pending[c] /\ pending[c] # None
                 \/ n = stamp' /\ stamp' = stamp + 1
    BY <1>6
  <2>2. \A m \in Said(c) : m <= n
    <3>1. \A m \in Said(c) : m \in Nat
      BY DEF Said
    <3>2. stamp \in Nat
      BY <1>2 DEF ShapeOK
    <3> QED BY <1>2, <2>1, <3>1, <3>2 DEF NewestInv
  <2>3. \A d \in Channels, m \in Nat : <<d, m>> \in marks => d = c /\ m = n
    BY <2>1
  <2>4. DirectInv'
    BY <1>1, <1>2, <2>2, <2>3, NewestJoins
  <2>5. ASSUME NEW d \in Channels
        PROVE  \/ /\ pending'[d] = None
                  /\ \A m \in Said(d)' : m \in Said(d) \/ m = pending[d] \/ m = stamp'
               \/ /\ pending'[d] \in {pending[d], stamp'}
                  /\ \A m \in Said(d)' : m \in Said(d)
    <3>1. \A m \in Said(d)' : m \in Nat
      BY DEF Said
    <3>2. pending'[d] = IF d = c THEN None ELSE pending[d]
      BY <2>1 DEF Cancelled
    <3> QED BY <1>4, <2>1, <2>3, <3>1, <3>2
  <2>6. NewestInv'
    BY <1>2, <2>5, NewestStep
  <2> QED BY <2>4, <2>6 DEF OrderInv
<1> QED BY <1>5, <1>6

\* A step that leaves the line and the server alone, and adds nothing to the
\* bulk queue: an act is noted, cancelled or left.
LEMMA NotingKeepsOrder ==
    ASSUME ShapeOK, ShapeOK', OrderInv, UNCHANGED <<line, applied>>,
           bulk' \in {bulk, <<>>}, stamp' \in {stamp, stamp + 1},
           \A c \in Channels : pending'[c] \in {None, pending[c], stamp'}
    PROVE  OrderInv'
<1>1. operations' = operations /\ \A k : Ended(k)' <=> Ended(k)
  BY DEF line, Ended
<1>2. DirectInv'
  BY <1>1 DEF OrderInv, DirectInv
<1>3. \A i \in 1 .. Len(bulk') : i \in 1 .. Len(bulk) /\ bulk'[i] = bulk[i]
  <2>1. CASE bulk' = bulk
    BY <2>1
  <2>2. CASE bulk' = <<>>
    <3>1. Len(bulk') = 0
      BY <2>2
    <3> QED BY <3>1
  <2> QED BY <2>1, <2>2
<1>4. \A c : \A n \in Said(c)' : n \in Said(c)
  BY <1>1, <1>3 DEF Said
<1>5. NewestInv'
  <2>1. applied' \in [Channels -> Nat]
    BY DEF OrderInv, NewestInv
  <2> HIDE DEF Said
  <2> QED BY <1>4, <2>1, NewestStep DEF OrderInv
<1> QED BY <1>2, <1>5 DEF OrderInv

\* The pump's turns: nothing new is said, and no act is noted.
LEMMA PumpKeepsOrder ==
    ASSUME IInv, IInv', OrderInv, FlushBulk \/ PumpWakes
    PROVE  OrderInv'
<1>1. bulk \in Seq(Channels \X Nat) /\ ShapeOK /\ ShapeOK'
  BY DEF IInv, ShapeOK
<1>2. UNCHANGED <<pending, stamp, applied>>
  BY DEF FlushBulk, PumpWakes, server
<1>3. TakeBatch(bulk) \/ (bulk' = bulk /\ UNCHANGED line)
  BY DEF FlushBulk, PumpWakes, StartBulkDrain
<1>4. DirectInv' /\ \A c \in Channels : \A n \in Said(c)' :
         n \in Said(c) \/ \E i \in 1 .. Len(bulk) : bulk[i] = <<c, n>>
  BY <1>1, <1>2, <1>3, DrainKeepsOrder
<1>5. \A c \in Channels : \A n \in Said(c)' : n \in Said(c)
  BY <1>4 DEF Said
<1>6. NewestInv'
  <2>1. applied' \in [Channels -> Nat]
    BY <1>2 DEF OrderInv, NewestInv
  <2> QED BY <1>1, <1>2, <1>5, <2>1, NewestStep DEF OrderInv
<1> QED BY <1>4, <1>6 DEF OrderInv

\* markSpaceRead: what waited for its timer is cancelled, and the newer act is
\* put behind what the bulk queue holds.
LEMMA MarkSpaceReadKeepsOrder ==
    ASSUME IInv, IInv', OrderInv, NEW cs \in SUBSET Channels, MarkSpaceRead(cs)
    PROVE  OrderInv'
<1>0. stamp' = stamp + 1 /\ pending' = Cancelled(cs) /\ UNCHANGED applied
  BY DEF MarkSpaceRead, Acts, server
<1>1. bulk \in Seq(Channels \X Nat) /\ ShapeOK /\ ShapeOK' /\ stamp' \in Nat
  BY DEF IInv, ShapeOK
<1>2. Cardinality(cs) \in Nat
  BY ChannelsAssumption, FS_Subset, FS_CardinalityType
<1>3. PICK order \in [1 .. Cardinality(cs) -> cs] :
        StartBulkDrain(bulk \o [i \in DOMAIN order |-> <<order[i], stamp'>>])
  BY DEF MarkSpaceRead
<1> DEFINE entries == [i \in 1 .. Cardinality(cs) |-> <<order[i], stamp'>>]
<1>4. entries \in Seq(Channels \X Nat) /\ Len(entries) = Cardinality(cs)
  <2>1. \A i \in 1 .. Cardinality(cs) : <<order[i], stamp'>> \in Channels \X Nat
    BY <1>1
  <2> QED BY <2>1, <1>2
<1>5. \A i \in 1 .. Len(entries) : entries[i][1] \in cs /\ entries[i][2] = stamp'
  BY <1>2, <1>4
<1>6. StartBulkDrain(bulk \o entries)
  <2>1. DOMAIN order = 1 .. Cardinality(cs)
    OBVIOUS
  <2> QED BY <1>3, <2>1
<1> HIDE DEF entries
<1> DEFINE b == bulk \o entries
<1>7. b \in Seq(Channels \X Nat)
  BY <1>1, <1>4
<1>8. \A i \in 1 .. Len(b), c \in Channels, n \in Nat : b[i] = <<c, n>> =>
         (\E h \in 1 .. Len(bulk) : bulk[h] = <<c, n>>) \/ (c \in cs /\ n = stamp')
  <2> SUFFICES ASSUME NEW i \in 1 .. Len(b), NEW c \in Channels, NEW n \in Nat,
                      b[i] = <<c, n>>
               PROVE  \/ \E h \in 1 .. Len(bulk) : bulk[h] = <<c, n>>
                      \/ c \in cs /\ n = stamp'
    OBVIOUS
  <2>0. PICK l \in Nat : l = Len(bulk)
    BY <1>1
  <2>1. CASE i \in 1 .. l
    <3>1. b[i] = bulk[i]
      BY <1>1, <1>4, <2>0, <2>1
    <3> QED BY <2>0, <2>1, <3>1
  <2>2. CASE i \notin 1 .. l
    <3>1. i - l \in 1 .. Len(entries) /\ b[i] = entries[i - l]
      BY <1>1, <1>2, <1>4, <2>0, <2>2
    <3>2. entries[i - l][1] = c /\ entries[i - l][2] = n
      BY <3>1
    <3> QED BY <1>5, <3>1, <3>2
  <2> QED BY <2>1, <2>2
<1>9. TakeBatch(b) \/ (bulk' = b /\ UNCHANGED line)
  BY <1>6 DEF StartBulkDrain
<1> HIDE DEF b
<1>10. DirectInv' /\ \A c \in Channels : \A n \in Said(c)' :
          n \in Said(c) \/ \E i \in 1 .. Len(b) : b[i] = <<c, n>>
  BY <1>0, <1>7, <1>9, DrainKeepsOrder
<1>11. \A c \in Channels : \A n \in Said(c)' :
          n \in Said(c) \/ (c \in cs /\ n = stamp')
  <2> SUFFICES ASSUME NEW c \in Channels, NEW n \in Said(c)', n \notin Said(c)
               PROVE  c \in cs /\ n = stamp'
    OBVIOUS
  <2>1. PICK i \in 1 .. Len(b) : b[i] = <<c, n>>
    BY <1>10
  <2>2. ~ \E h \in 1 .. Len(bulk) : bulk[h] = <<c, n>>
    BY DEF Said
  <2>3. (\E h \in 1 .. Len(bulk) : bulk[h] = <<c, n>>) \/ (c \in cs /\ n = stamp')
    <3>1. n \in Nat
      BY DEF Said
    <3> QED BY <1>8, <2>1, <3>1
  <2> QED BY <2>2, <2>3
<1>12. ASSUME NEW c \in Channels
       PROVE  \/ /\ pending'[c] = None
                 /\ \A n \in Said(c)' : n \in Said(c) \/ n = pending[c] \/ n = stamp'
              \/ /\ pending'[c] \in {pending[c], stamp'}
                 /\ \A n \in Said(c)' : n \in Said(c)
  <2>1. pending'[c] = IF c \in cs THEN None ELSE pending[c]
    BY <1>0 DEF Cancelled
  <2> QED BY <1>11, <2>1
<1>13. NewestInv'
  <2>1. applied' \in [Channels -> Nat]
    BY <1>0 DEF OrderInv, NewestInv
  <2> QED BY <1>0, <1>1, <1>12, <2>1, NewestStep DEF OrderInv
<1> QED BY <1>10, <1>13 DEF OrderInv

LEMMA OrderStep ==
    IInv /\ IInv' /\ OrderInv /\ [Next]_vars => OrderInv'
<1> SUFFICES ASSUME IInv, IInv', OrderInv, [Next]_vars PROVE OrderInv'
  OBVIOUS
<1>0. ShapeOK /\ ShapeOK' /\ pending \in [Channels -> Nat] /\ stamp \in Nat
  BY DEF IInv, ShapeOK
<1>1. ASSUME NEW c \in Channels, FlushChannel(c) PROVE OrderInv'
  <2>1. /\ pending[c] # None /\ pending' = Cancelled({c})
        /\ Serialize(Operation("ack", {<<c, pending[c]>>}))
        /\ UNCHANGED <<applied, bulk, stamp>> /\ pending[c] \in Nat
    BY <1>0, <1>1 DEF FlushChannel, pumps, server
  <2> QED BY <2>1, DirectKeepsOrder
<1>2. CASE PumpWakes \/ FlushBulk
  BY <1>2, PumpKeepsOrder
<1>3. ASSUME NEW c \in Channels, Acknowledge(c) PROVE OrderInv'
  BY <1>0, <1>3, NotingKeepsOrder DEF Acknowledge, Acts, pumps, server
<1>4. ASSUME NEW c \in Channels, MarkUnread(c) PROVE OrderInv'
  <2>1. /\ pending' = Cancelled({c}) /\ stamp' = stamp + 1 /\ stamp' \in Nat
        /\ Serialize(Operation("now", {<<c, stamp'>>}))
        /\ UNCHANGED <<applied, bulk>>
    BY <1>0, <1>4 DEF MarkUnread, Acts, pumps, server
  <2> QED BY <2>1, DirectKeepsOrder
<1>5. ASSUME NEW cs \in SUBSET Channels, MarkSpaceRead(cs) PROVE OrderInv'
  BY <1>5, MarkSpaceReadKeepsOrder
<1>6. CASE SendNow
  <2>1. /\ Serialize(Operation("now", {}))
        /\ UNCHANGED <<pending, stamp, applied, bulk>>
    BY <1>6 DEF SendNow, pumps, server
  <2> QED BY <2>1, DirectKeepsOrder
<1>7. ASSUME NEW c \in Channels, RemoteRewind(c) PROVE OrderInv'
  BY <1>0, <1>7, NotingKeepsOrder DEF RemoteRewind, Cancelled, pumps, server
<1>8. ASSUME NEW same \in BOOLEAN, BindSession(same) PROVE OrderInv'
  BY <1>0, <1>8, NotingKeepsOrder DEF BindSession, Cancelled, server
<1>9. CASE Close
  BY <1>0, <1>9, NotingKeepsOrder DEF Close, Cancelled, server
<1>10. ASSUME NEW k \in DOMAIN operations, Request(k) PROVE OrderInv'
  BY <1>0, <1>10, RequestAdvances, AdvancingKeepsOrder
<1>11. CASE UNCHANGED vars
  BY <1>0, <1>11, NotingKeepsOrder DEF vars, pumps, server
<1> QED BY <1>1, <1>2, <1>3, <1>4, <1>5, <1>6, <1>7, <1>8, <1>9, <1>10, <1>11
    DEF Next, Timers, User, Session

LEMMA OrderHolds == Spec => []OrderInv
<1>1. Init => OrderInv
  <2> SUFFICES ASSUME Init PROVE OrderInv
    OBVIOUS
  <2>1. /\ bulk = <<>> /\ operations = <<>> /\ Len(bulk) = 0 /\ Len(operations) = 0
        /\ pending = [c \in Channels |-> 0] /\ applied = [c \in Channels |-> 0]
        /\ stamp = 0
    BY DEF Init, None
  <2>2. \A c \in Channels : \A n \in Said(c) : n = 0
    BY <2>1 DEF Said
  <2>3. NewestInv
    BY <2>1, <2>2 DEF NewestInv, None
  <2>4. DirectInv
    BY <2>1 DEF DirectInv
  <2> QED BY <2>3, <2>4 DEF OrderInv
<1> QED BY <1>1, OrderStep, LineIsOrdered, PTL DEF Spec

\* What a channel's own requests tell the server never takes it back behind an
\* act it was already told of, whatever fails, is retried or is cancelled: only
\* a batch can (cancel, _serialize, _attempt).
THEOREM DirectActsStayInOrder == Spec => DirectActsInOrder
<1> DEFINE Goal == \A c \in Channels : applied'[c] < applied[c] =>
                     \E k \in DOMAIN operations :
                         Running(k) /\ operations[k].kind = "bulk"
<1>1. ASSUME IInv, OrderInv, [Next]_vars PROVE Goal
  <2> SUFFICES ASSUME NEW c \in Channels, applied'[c] < applied[c]
               PROVE  \E k \in DOMAIN operations :
                         Running(k) /\ operations[k].kind = "bulk"
    OBVIOUS
  <2>1. applied \in [Channels -> Nat] /\ operations \in Seq(Requests)
    BY <1>1 DEF IInv, ShapeOK, OrderInv, NewestInv
  <2>2. applied' # applied
    BY <2>1
  <2>3. PICK k \in DOMAIN operations : Request(k)
    BY <1>1, <2>2 DEF Next, Timers, User, Session, FlushChannel, PumpWakes,
       Acknowledge, MarkUnread, MarkSpaceRead, SendNow, FlushBulk,
       RemoteRewind, BindSession, Close, vars, server
  <2>4. Advances(k)
    BY <1>1, <2>3, RequestAdvances
  <2>5. /\ Running(k) /\ applied'[c] \in Nat
        /\ <<c, applied'[c]>> \in operations[k].marks
    BY <2>1, <2>2, <2>4 DEF Advances
  <2>6. operations[k].kind # "bulk" => applied[c] <= applied'[c]
    BY <1>1, <2>4, <2>5 DEF OrderInv, DirectInv, Advances
  <2> QED BY <2>1, <2>5, <2>6
<1>2. IInv /\ OrderInv /\ [Next]_vars => [Goal]_vars
  BY <1>1
<1> QED BY <1>2, LineIsOrdered, OrderHolds, PTL DEF Spec, DirectActsInOrder

-----------------------------------------------------------------------------
(* The line never jams.                                                    *)

\* A request waits for one made before it, if for any.
PreviousInv ==
    \A k \in 1 .. Len(operations) : operations[k].previous < k

\* The pump and the batch it waits for.
PumpInv ==
    /\ pump = "sending" => \E k \in 1 .. Len(operations) : OpenBatch(k)
    /\ \A i, j \in 1 .. Len(operations) :
          OpenBatch(i) /\ OpenBatch(j) => i = j /\ pump = "sending"

FrontInv == PreviousInv /\ PumpInv

\* A request that joins the line: a batch only while the pump waits for none.
LEMMA JoiningKeepsFront ==
    ASSUME IInv, FrontInv, NEW op, operations' = Append(operations, op),
           op.phase = "waiting", op.previous = inFlight,
           \/ op.kind # "bulk" /\ UNCHANGED pump
           \/ op.kind = "bulk" /\ pump # "sending" /\ pump' = "sending"
    PROVE  FrontInv'
<1>0. PICK l \in Nat : l = Len(operations)
  BY DEF IInv, ShapeOK
<1>1. /\ Len(operations') = l + 1 /\ operations'[l + 1] = op
      /\ \A i \in 1 .. l : operations'[i] = operations[i]
  BY <1>0 DEF IInv, ShapeOK
<1>2. inFlight < l + 1
  BY <1>0 DEF IInv, LineInv, ShapeOK
<1>3. PreviousInv'
  <2>1. ASSUME NEW k \in 1 .. (l + 1) PROVE operations'[k].previous < k
    <3>1. CASE k \in 1 .. l
      BY <1>0, <1>1, <3>1 DEF FrontInv, PreviousInv
    <3>2. CASE k = l + 1
      BY <1>1, <1>2, <3>2
    <3> QED BY <1>0, <3>1, <3>2
  <2> QED BY <1>1, <2>1 DEF PreviousInv
<1>4. \A i \in 1 .. l : OpenBatch(i)' <=> OpenBatch(i)
  BY <1>1 DEF OpenBatch, Ended
<1>5. OpenBatch(l + 1)' <=> op.kind = "bulk"
  BY <1>1 DEF OpenBatch, Ended
<1>6. CASE op.kind # "bulk" /\ UNCHANGED pump
  BY <1>0, <1>1, <1>3, <1>4, <1>5, <1>6 DEF FrontInv, PumpInv
<1>7. CASE op.kind = "bulk" /\ pump # "sending" /\ pump' = "sending"
  <2>1. \A i \in 1 .. l : ~OpenBatch(i)
    BY <1>0, <1>7 DEF FrontInv, PumpInv
  <2>2. \A i \in 1 .. (l + 1) : OpenBatch(i)' => i = l + 1
    BY <1>0, <1>4, <2>1
  <2>3. PumpInv'
    BY <1>0, <1>1, <1>5, <1>7, <2>2 DEF PumpInv
  <2> QED BY <1>3, <2>3 DEF FrontInv
<1> QED BY <1>6, <1>7

\* A request that moves on: when it ends and is a batch, the pump goes on.
LEMMA MovingKeepsFront ==
    ASSUME IInv, FrontInv, NEW k \in 1 .. Len(operations),
           Len(operations') = Len(operations),
           \A i \in 1 .. Len(operations) : i # k => operations'[i] = operations[i],
           operations'[k].kind = operations[k].kind,
           operations'[k].previous \in {operations[k].previous, 0},
           ~Ended(k),
           Ended(k)' /\ operations[k].kind = "bulk" => pump' # "sending",
           (Ended(k)' /\ operations[k].kind = "bulk") \/ UNCHANGED pump
    PROVE  FrontInv'
<1>0. PICK l \in Nat : l = Len(operations)
  BY DEF IInv, ShapeOK
<1>1. PreviousInv'
  BY <1>0 DEF FrontInv, PreviousInv
<1>2. \A i \in 1 .. l : i # k => (OpenBatch(i)' <=> OpenBatch(i))
  BY <1>0 DEF OpenBatch, Ended
<1>3. OpenBatch(k)' <=> operations[k].kind = "bulk" /\ ~Ended(k)'
  BY DEF OpenBatch
<1>4. CASE Ended(k)' /\ operations[k].kind = "bulk"
  <2>1. OpenBatch(k)
    BY <1>4 DEF OpenBatch
  <2>2. \A i \in 1 .. l : ~OpenBatch(i)'
    BY <1>0, <1>2, <1>3, <1>4, <2>1 DEF FrontInv, PumpInv
  <2> QED BY <1>0, <1>1, <1>4, <2>2 DEF FrontInv, PumpInv
<1>5. CASE ~(Ended(k)' /\ operations[k].kind = "bulk")
  <2>1. \A i \in 1 .. l : OpenBatch(i)' <=> OpenBatch(i)
    BY <1>2, <1>3, <1>5 DEF OpenBatch
  <2> QED BY <1>0, <1>1, <1>5, <2>1 DEF FrontInv, PumpInv
<1> QED BY <1>4, <1>5

\* A step that leaves the line and what the pump waits for alone.
LEMMA StandingKeepsFront ==
    ASSUME FrontInv, UNCHANGED operations, pump' = "sending" <=> pump = "sending"
    PROVE  FrontInv'
<1>1. \A i : OpenBatch(i)' <=> OpenBatch(i)
  BY DEF OpenBatch, Ended
<1> QED BY <1>1 DEF FrontInv, PreviousInv, PumpInv

\* What a request made by _serialize waits for.
LEMMA SerializeWaits ==
    ASSUME NEW kind, NEW marks, Serialize(Operation(kind, marks))
    PROVE  \E op : /\ operations' = Append(operations, op) /\ op.kind = kind
                   /\ op.phase = "waiting" /\ op.previous = inFlight
<1> DEFINE op == [Operation(kind, marks) EXCEPT !.previous = inFlight]
<1>1. op.kind = kind /\ op.phase = "waiting" /\ op.previous = inFlight
  BY DEF Operation
<1>2. operations' = Append(operations, op)
  BY DEF Serialize
<1> HIDE DEF op
<1> QED BY <1>1, <1>2

LEMMA DirectKeepsFront ==
    ASSUME IInv, FrontInv, NEW kind, kind # "bulk", NEW marks,
           Serialize(Operation(kind, marks)), UNCHANGED pump
    PROVE  FrontInv'
BY SerializeWaits, JoiningKeepsFront

\* The pump makes its next batch only while it waits for none.
LEMMA TakeBatchKeepsFront ==
    ASSUME IInv, FrontInv, NEW b, TakeBatch(b), pump # "sending"
    PROVE  FrontInv'
BY SerializeWaits, JoiningKeepsFront DEF TakeBatch

LEMMA StartBulkDrainKeepsFront ==
    ASSUME IInv, FrontInv, NEW b, StartBulkDrain(b)
    PROVE  FrontInv'
<1>1. CASE pump # "none" \/ b = <<>> \/ closed
  BY <1>1, StandingKeepsFront DEF StartBulkDrain, line
<1>2. CASE ~(pump # "none" \/ b = <<>> \/ closed)
  BY <1>2, TakeBatchKeepsFront DEF StartBulkDrain
<1> QED BY <1>1, <1>2

\* The end of a request, and its going out.
LEMMA EndingKeepsFront ==
    ASSUME IInv, FrontInv, NEW k \in 1 .. Len(operations), ~Ended(k),
           NEW phase \in {"done", "dropped"}, NEW threw,
           EndOperation(k, phase, threw)
    PROVE  FrontInv'
<1>1. operations \in Seq(Requests) /\ operations[k] \in Requests
  BY DEF IInv, ShapeOK
<1>2. operations' = [operations EXCEPT ![k] = Remains(k, phase)]
  BY DEF EndOperation
<1>3. /\ Remains(k, phase).kind = operations[k].kind
      /\ Remains(k, phase).previous = 0 /\ Remains(k, phase).phase = phase
  BY <1>1 DEF Remains, Requests, None
<1>4. /\ Len(operations') = Len(operations)
      /\ \A i \in 1 .. Len(operations) : i # k => operations'[i] = operations[i]
      /\ operations'[k] = Remains(k, phase)
  BY <1>1, <1>2
<1>5. Ended(k)'
  BY <1>3, <1>4 DEF Ended
<1>6. /\ operations[k].kind = "bulk" => pump' # "sending"
      /\ operations[k].kind = "bulk" \/ UNCHANGED pump
  BY DEF EndOperation, pumps
<1> QED BY <1>3, <1>4, <1>5, <1>6, MovingKeepsFront

LEMMA GoingOnKeepsFront ==
    ASSUME IInv, FrontInv, NEW k \in 1 .. Len(operations), NEW r, ~Ended(k),
           operations' = [operations EXCEPT ![k] = r], UNCHANGED pump,
           r.phase \in {"sending", "sleeping"}, r.kind = operations[k].kind,
           r.previous = operations[k].previous
    PROVE  FrontInv'
<1>1. operations \in Seq(Requests)
  BY DEF IInv, ShapeOK
<1>2. /\ Len(operations') = Len(operations)
      /\ \A i \in 1 .. Len(operations) : i # k => operations'[i] = operations[i]
      /\ operations'[k] = r
  BY <1>1
<1>3. ~Ended(k)'
  BY <1>2 DEF Ended
<1> QED BY <1>2, <1>3, MovingKeepsFront

LEMMA SendingKeepsFront ==
    ASSUME IInv, FrontInv, NEW k \in 1 .. Len(operations), ~Ended(k),
           Sends(k), UNCHANGED pump
    PROVE  FrontInv'
<1> DEFINE r == [operations[k] EXCEPT !.phase = "sending", !.during = generation]
<1>1. operations \in Seq(Requests) /\ operations[k] \in Requests
  BY DEF IInv, ShapeOK
<1>2. /\ r.phase = "sending" /\ r.kind = operations[k].kind
      /\ r.previous = operations[k].previous
  BY <1>1 DEF Requests
<1>3. operations' = [operations EXCEPT ![k] = r]
  BY <1>1 DEF Sends
<1> HIDE DEF r
<1> QED BY <1>2, <1>3, GoingOnKeepsFront

LEMMA RequestKeepsFront ==
    ASSUME IInv, FrontInv, NEW k \in DOMAIN operations, Request(k)
    PROVE  FrontInv'
<1>1. k \in 1 .. Len(operations) /\ operations[k] \in Requests
  BY DEF IInv, ShapeOK
<1>2. ~Ended(k)
  BY DEF Request, TurnComes, Answered, Fails, Wakes, Ended
<1>3. ASSUME NEW threw, EndOperation(k, "done", threw) \/ EndOperation(k, "dropped", threw)
      PROVE  FrontInv'
  BY <1>1, <1>2, <1>3, EndingKeepsFront
<1>4. ASSUME Sends(k), UNCHANGED pumps PROVE FrontInv'
  BY <1>1, <1>2, <1>4, SendingKeepsFront DEF pumps
<1>5. CASE TurnComes(k)
  BY <1>3, <1>4, <1>5 DEF TurnComes
<1>6. CASE Answered(k)
  BY <1>3, <1>6 DEF Answered
<1>7. CASE Wakes(k)
  BY <1>3, <1>4, <1>7 DEF Wakes
<1>8. ASSUME NEW transient \in BOOLEAN, NEW reached \in BOOLEAN,
             Fails(k, transient, reached)
      PROVE  FrontInv'
  <2>1. CASE ~(transient /\ MayRetry(k))
    BY <1>3, <1>8, <2>1 DEF Fails
  <2>2. CASE transient /\ MayRetry(k)
    <3> DEFINE r == [operations[k] EXCEPT !.phase = "sleeping",
                                          !.attempt = NextAttempt(k)]
    <3>1. /\ r.phase = "sleeping" /\ r.kind = operations[k].kind
          /\ r.previous = operations[k].previous
      BY <1>1 DEF Requests
    <3>2. operations' = [operations EXCEPT ![k] = r] /\ UNCHANGED pump
      BY <1>8, <2>2 DEF Fails, pumps
    <3> HIDE DEF r
    <3> QED BY <1>1, <1>2, <3>1, <3>2, GoingOnKeepsFront
  <2> QED BY <2>1, <2>2
<1> QED BY <1>5, <1>6, <1>7, <1>8 DEF Request

LEMMA FrontStep == IInv /\ FrontInv /\ [Next]_vars => FrontInv'
<1> SUFFICES ASSUME IInv, FrontInv, [Next]_vars PROVE FrontInv'
  OBVIOUS
<1>1. ASSUME NEW c \in Channels, FlushChannel(c) PROVE FrontInv'
  BY <1>1, DirectKeepsFront DEF FlushChannel, pumps
<1>2. CASE PumpWakes
  <2>1. CASE bulk # <<>> /\ ~closed /\ pumpGeneration = generation
    BY <1>2, <2>1, TakeBatchKeepsFront DEF PumpWakes
  <2>2. CASE ~(bulk # <<>> /\ ~closed /\ pumpGeneration = generation)
    BY <1>2, <2>2, StandingKeepsFront DEF PumpWakes, line
  <2> QED BY <2>1, <2>2
<1>3. ASSUME NEW c \in Channels, Acknowledge(c) PROVE FrontInv'
  BY <1>3, StandingKeepsFront DEF Acknowledge, line, pumps
<1>4. ASSUME NEW c \in Channels, MarkUnread(c) PROVE FrontInv'
  BY <1>4, DirectKeepsFront DEF MarkUnread, pumps
<1>5. ASSUME NEW cs \in SUBSET Channels, MarkSpaceRead(cs) PROVE FrontInv'
  BY <1>5, StartBulkDrainKeepsFront DEF MarkSpaceRead
<1>6. CASE SendNow
  BY <1>6, DirectKeepsFront DEF SendNow, pumps
<1>7. CASE FlushBulk
  BY <1>7, StartBulkDrainKeepsFront DEF FlushBulk
<1>8. CASE Session \/ UNCHANGED vars
  BY <1>8, StandingKeepsFront
  DEF Session, RemoteRewind, BindSession, Close, vars, line, pumps
<1>9. CASE \E k \in DOMAIN operations : Request(k)
  BY <1>9, RequestKeepsFront
<1> QED BY <1>1, <1>2, <1>3, <1>4, <1>5, <1>6, <1>7, <1>8, <1>9
    DEF Next, Timers, User

\* A set of numbers from 1 on that is not empty has a least.
LEMMA LeastExists ==
    ASSUME NEW top \in Nat, NEW T, T \subseteq 1 .. top, T # {}
    PROVE  \E n \in T : \A m \in T : n <= m
<1> DEFINE U == {top - n : n \in T}
<1>1. U \subseteq 0 .. top /\ U # {}
  <2>1. \A n \in T : n \in 1 .. top /\ top - n \in 0 .. top
    OBVIOUS
  <2>2. U \subseteq 0 .. top
    BY <2>1
  <2>3. PICK n \in T : TRUE
    OBVIOUS
  <2>4. top - n \in U
    OBVIOUS
  <2> QED BY <2>2, <2>4
<1>2. PICK x \in U : \A y \in U : y <= x
  <2> HIDE DEF U
  <2> QED BY <1>1, GreatestExists
<1>3. PICK n \in T : x = top - n
  BY <1>2
<1>4. ASSUME NEW m \in T PROVE n <= m
  <2>1. top - m \in U
    OBVIOUS
  <2>2. top - m <= x
    BY <1>2, <2>1
  <2>3. m \in 1 .. top /\ n \in 1 .. top
    OBVIOUS
  <2> QED BY <1>3, <2>2, <2>3
<1> QED BY <1>4

\* Whatever fails, whatever was retried and whichever session ended in between,
\* a request that has not ended has one at or before it that is with the
\* server, sleeps, or has nothing left to wait for, and the pump waits for
\* exactly the one batch that is unanswered: nothing but the transport's answer
\* and the timers is needed for the queue to go on (_serialize, _bulkDrain).
THEOREM QueueNeverJams == Spec => []NeverJams
<1>1. Init => FrontInv
  <2> SUFFICES ASSUME Init PROVE FrontInv
    OBVIOUS
  <2>1. operations = <<>> /\ Len(operations) = 0 /\ pump = "none"
    BY DEF Init
  <2> QED BY <2>1 DEF FrontInv, PreviousInv, PumpInv
<1>2. IInv /\ FrontInv => NeverJams
  <2> SUFFICES ASSUME IInv, FrontInv PROVE NeverJams
    OBVIOUS
  <2>0. PICK l \in Nat : l = Len(operations) /\ DOMAIN operations = 1 .. l
    BY DEF IInv, ShapeOK
  <2>1. ASSUME NEW j \in 1 .. l, ~Ended(j)
        PROVE  \E k \in 1 .. j : Running(k) \/ TurnIsDue(k)
    <3> DEFINE T == {k \in 1 .. j : ~Ended(k)}
    <3>1. PICK k \in T : \A m \in T : k <= m
      <4>1. T \subseteq 1 .. j /\ T # {} /\ j \in Nat
        BY <2>1
      <4> HIDE DEF T
      <4> QED BY <4>1, LeastExists
    <3>2. k \in 1 .. j /\ ~Ended(k) /\ \A m \in 1 .. (k - 1) : Ended(m)
      BY <3>1
    <3>0. l \in Nat /\ k \in 1 .. l /\ operations[k] \in Requests
      BY <2>0, <3>2 DEF IInv, ShapeOK
    <3>3. operations[k].previous \in Nat /\ operations[k].previous < k
      BY <2>0, <3>0 DEF Requests, FrontInv, PreviousInv
    <3>4. operations[k].previous # None => Ended(operations[k].previous)
      BY <3>2, <3>3 DEF None
    <3>5. operations[k].phase \in Phases
      BY <3>0 DEF Requests
    <3> HIDE DEF T
    <3>6. Running(k) \/ TurnIsDue(k)
      BY <3>2, <3>4, <3>5 DEF Phases, Running, TurnIsDue, Ended
    <3> QED BY <3>2, <3>6
  <2> QED BY <2>0, <2>1 DEF NeverJams, FrontInv, PumpInv
<1>3. Spec => []FrontInv
  BY <1>1, FrontStep, LineIsOrdered, PTL DEF Spec
<1> QED BY <1>2, <1>3, LineIsOrdered, PTL

=============================================================================
