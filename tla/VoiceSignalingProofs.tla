------------------------ MODULE VoiceSignalingProofs ------------------------
(***************************************************************************)
(* Proofs about VoiceSignaling, for every set of channels and every bound. *)
(*                                                                         *)
(* That a client is dialed only when the one before it is closed rests on  *)
(* the generation numbers: of the starts in line only the last is current, *)
(* so a start that dials leaves an empty line behind.  A Leave makes every *)
(* start stale and wants no channel, so none becomes current until it is   *)
(* over.  IInv says both.                                                  *)
(*                                                                         *)
(* That the room is where Discord has the account, although nothing in a   *)
(* voice state says what it answers, is a fact about two queues: the       *)
(* service's unanswered requests can be laid along what Discord sent, in   *)
(* order, so that the last of them is for the channel the user wants and   *)
(* the last voice state on its way is of the seat.  SeatInv says so, and a *)
(* move that clears the requests keeps it, since it follows the state.     *)
(*                                                                         *)
(* That a client which asks is heard rests on HeardInv: the mark of a ping *)
(* is not left without its timer.                                          *)
(*                                                                         *)
(* That a wanted channel is served follows the newest token.  Behind it,   *)
(* and once the service holds it, Discord sends nothing of another seat    *)
(* (TokensInv), and it travels beside the voice state of its seat          *)
(* (BesideInv).  What the service holds by then is of the channel wanted   *)
(* (PairInv, AimInv), or of one that a voice state is about to correct     *)
(* (MovedInv), and only a client that connected with it is ready           *)
(* (ReadyInv).  StuckInv puts these together.                              *)
(***************************************************************************)
EXTENDS VoiceSignaling, SequenceTheorems, WellFoundedInduction, TLAPS

Discords == [seat : Places, live : Nat, issued : Nat, sent : Seq(Dispatches)]

Requests == {Ping} \cup {Voice(c) : c \in Places} \cup {Again(c) : c \in Places}

StartSet == [credentials : CredentialsSet, current : BOOLEAN]

\* A line of starts.
IsLine(ss) ==
    /\ ss \in Seq(StartSet)
    /\ \A i \in 1 .. Len(ss) : ss[i].current => i = Len(ss)

NoneCurrent(ss) == \A i \in 1 .. Len(ss) : ~ss[i].current

\* While a Leave closes its client no channel is wanted and no start current.
LeavingIsOut == leaving => desired = NoChannel /\ NoneCurrent(starts)

IInv == TypeOK /\ ClosedFirst /\ NothingAfterClose /\ LeavingIsOut

-----------------------------------------------------------------------------
(* Lemmas about Discord.                                                   *)

LEMMA SendsTyped ==
  ASSUME NEW d \in Discords, NEW m \in Dispatches
  PROVE  Sends(d, m) \in Discords
BY DEF Sends, Discords

LEMMA IssuedTyped ==
  ASSUME NEW d \in Discords
  PROVE  d.issued \in Nat /\ d.issued + 1 \in Nat
BY DEF Discords

LEMMA SeatsTyped ==
  ASSUME NEW d \in Discords, NEW c \in Places
  PROVE  Seats(d, c) \in SUBSET Discords
<1> DEFINE there == [d EXCEPT !.seat = c, !.live = d.issued + 1,
                              !.issued = d.issued + 1]
<1>1. there \in Discords
  BY IssuedTyped DEF Discords
<1>2. [d EXCEPT !.seat = c, !.live = NoToken] \in Discords
  BY DEF Discords, NoToken
<1>3. State(c) \in Dispatches /\ Update(d.issued + 1) \in Dispatches
  BY DEF State, Update, Dispatches, Discords
<1> HIDE DEF there
<1>4. /\ Sends(Sends(there, State(c)), Update(d.issued + 1)) \in Discords
      /\ Sends(Sends(there, Update(d.issued + 1)), State(c)) \in Discords
      /\ Sends([d EXCEPT !.seat = c, !.live = NoToken], State(c))
           \in Discords
  BY <1>1, <1>2, <1>3, SendsTyped
<1> QED BY <1>4 DEF Seats, there

LEMMA ReissuesTyped ==
  ASSUME NEW d \in Discords
  PROVE  Reissues(d) \in Discords
<1>1. [d EXCEPT !.live = d.issued + 1, !.issued = d.issued + 1] \in Discords
  BY IssuedTyped DEF Discords
<1>2. Update(d.live) \in Dispatches /\ Update(d.issued + 1) \in Dispatches
  BY DEF Update, Dispatches, Discords
<1> QED BY <1>1, <1>2, SendsTyped DEF Reissues

LEMMA ActsTyped ==
  ASSUME NEW d \in Discords, NEW request \in Requests
  PROVE  Acts(d, request) \in SUBSET Discords
<1>1. CASE request = Ping
  BY <1>1, ReissuesTyped DEF Acts, Ping
<1>2. CASE request # Ping
  <2>1. request.op # "ping" /\ request.channel \in Places
    BY <1>2 DEF Requests, Voice, Again
  <2>2. Seats(d, request.channel) \in SUBSET Discords
    BY <2>1, SeatsTyped
  <2>3. Sends(d, State(d.seat)) \in Discords
    <3>1. State(d.seat) \in Dispatches
      BY DEF State, Dispatches, Discords
    <3> QED BY <3>1, SendsTyped
  <2> QED BY <2>1, <2>2, <2>3 DEF Acts
<1> QED BY <1>1, <1>2

LEMMA ReachingTyped ==
  ASSUME NEW ds \in SUBSET Discords
  PROVE  Reaching(ds) \in SUBSET Discords
<1>1. ASSUME NEW d \in ds
      PROVE  [d EXCEPT !.sent = <<>>] \in Discords
  <2>1. <<>> \in Seq(Dispatches)
    BY EmptySeq
  <2>2. d \in Discords
    OBVIOUS
  <2> QED BY <2>1, <2>2 DEF Discords
<1> QED BY <1>1 DEF Reaching

LEMMA AskedTyped ==
  ASSUME NEW d \in Discords, NEW request \in Requests
  PROVE  Asked(d, request) \in SUBSET Discords
BY ActsTyped, ReachingTyped DEF Asked

LEMMA AskedBothTyped ==
  ASSUME NEW d \in Discords, NEW r1 \in Requests, NEW r2 \in Requests
  PROVE  AskedBoth(d, r1, r2) \in SUBSET Discords
<1>1. \A e \in Acts(d, r1) : Acts(e, r2) \in SUBSET Discords
  BY ActsTyped
<1>2. UNION {Acts(e, r2) : e \in Acts(d, r1)} \in SUBSET Discords
  BY <1>1
<1> QED BY <1>2, ReachingTyped DEF AskedBoth

-----------------------------------------------------------------------------
(* Lemmas about the requests that are unanswered and the line of starts.   *)

LEMMA LeastIsMember ==
  ASSUME NEW T \in SUBSET Nat, T # {}
  PROVE  Min(T) \in T
<1> DEFINE R == OpToRel(<, Nat)
<1>1. PICK x \in T : \A y \in T : ~ (<<y, x>> \in R)
  <2>1. IsWellFoundedOn(R, Nat)
    BY NatLessThanWellFounded
  <2> HIDE DEF R
  <2> QED BY <2>1, WFMin
<1>2. \A y \in T : ~ (y < x)
  <2> SUFFICES ASSUME NEW y \in T, y < x
               PROVE  FALSE
    OBVIOUS
  <2>1. <<y, x>> \in R
    BY DEF OpToRel
  <2> QED BY <1>1, <2>1
<1>3. \A y \in T : x =< y
  BY <1>2
<1> QED BY <1>3 DEF Min

LEMMA AskingTyped ==
  ASSUME unanswered \in Seq(Places), NEW c
  PROVE  Asking(c) \in 0 .. Len(unanswered)
<1> DEFINE I == {i \in 1 .. Len(unanswered) : unanswered[i] = c}
<1>1. CASE I = {}
  BY <1>1 DEF Asking, SelectInSeq
<1>2. CASE I # {}
  <2>1. I \in SUBSET Nat
    OBVIOUS
  <2>2. Min(I) \in I
    BY <1>2, <2>1, LeastIsMember
  <2> HIDE DEF I
  <2>3. Asking(c) = Min(I)
    BY <1>2 DEF Asking, SelectInSeq, I
  <2> QED BY <2>2, <2>3 DEF I
<1> QED BY <1>1, <1>2

LEMMA AfterTyped ==
  ASSUME unanswered \in Seq(Places), NEW c
  PROVE  After(c) \in Seq(Places)
<1> DEFINE k == Asking(c)
<1>1. k \in Int /\ k >= 0 /\ Len(unanswered) \in Int
  BY AskingTyped
<1> HIDE DEF k
<1>2. \A i \in (k + 1) .. Len(unanswered) : unanswered[i] \in Places
  BY <1>1
<1>3. SubSeq(unanswered, k + 1, Len(unanswered)) \in Seq(Places)
  BY <1>1, <1>2, SubSeqProperties
<1> QED BY <1>3 DEF After, k

LEMMA StaleIsLine ==
  ASSUME NEW ss \in Seq(StartSet)
  PROVE  /\ IsLine(Stale(ss)) /\ NoneCurrent(Stale(ss))
         /\ Len(Stale(ss)) = Len(ss)
         /\ ss = <<>> => Stale(ss) = <<>>
<1>1. Stale(ss) = [i \in 1 .. Len(ss) |-> [ss[i] EXCEPT !.current = FALSE]]
  BY DEF Stale
<1>2. \A i \in 1 .. Len(ss) : /\ [ss[i] EXCEPT !.current = FALSE] \in StartSet
                              /\ ~[ss[i] EXCEPT !.current = FALSE].current
  <2> SUFFICES ASSUME NEW s \in StartSet
               PROVE  /\ [s EXCEPT !.current = FALSE] \in StartSet
                      /\ ~[s EXCEPT !.current = FALSE].current
    BY ElementOfSeq
  <2> QED BY DEF StartSet
<1>3. Stale(ss) \in Seq(StartSet) /\ Len(Stale(ss)) = Len(ss)
  BY <1>1, <1>2
<1>4. \A i \in 1 .. Len(Stale(ss)) : ~Stale(ss)[i].current
  BY <1>1, <1>2, <1>3
<1>5. ss = <<>> => Stale(ss) = <<>>
  BY <1>3, EmptySeq
<1> QED BY <1>3, <1>4, <1>5 DEF IsLine, NoneCurrent

LEMMA QueuedIsLine ==
  ASSUME NEW ss, IsLine(ss), NEW queue \in Seq(CredentialsSet)
  PROVE  /\ IsLine(Queued(ss, queue))
         /\ queue # <<>> => Queued(ss, queue) # <<>>
         /\ queue = <<>> => Queued(ss, queue) = ss
<1>1. CASE queue = <<>>
  BY <1>1 DEF Queued
<1>2. CASE queue # <<>>
  <2> DEFINE n == Len(queue)
             new == [i \in 1 .. n |-> [credentials |-> queue[i],
                                       current |-> i = n]]
             old == Stale(ss)
  <2>1. Queued(ss, queue) = old \o new
    <3>1. DOMAIN queue = 1 .. Len(queue)
      BY LenProperties
    <3> QED BY <1>2, <3>1 DEF Queued
  <2>2. n \in Nat /\ n # 0
    BY <1>2
  <2>3. new \in Seq(StartSet) /\ Len(new) = n
    <3>1. \A i \in 1 .. n :
            [credentials |-> queue[i], current |-> i = n] \in StartSet
      BY DEF StartSet
    <3> QED BY <2>2, <3>1
  <2>4. \A i \in 1 .. n : new[i].current => i = n
    OBVIOUS
  <2>5. old \in Seq(StartSet) /\ \A i \in 1 .. Len(old) : ~old[i].current
    BY StaleIsLine DEF IsLine, NoneCurrent
  <2> HIDE DEF new, old, n
  <2>6. /\ old \o new \in Seq(StartSet)
        /\ Len(old \o new) = Len(old) + n
        /\ \A i \in 1 .. (Len(old) + n) : (old \o new)[i] =
             IF i <= Len(old) THEN old[i] ELSE new[i - Len(old)]
    BY <2>3, <2>5, ConcatProperties
  <2>7. \A i \in 1 .. Len(old \o new) :
          (old \o new)[i].current => i = Len(old \o new)
    <3> SUFFICES ASSUME NEW i \in 1 .. (Len(old) + n),
                        (old \o new)[i].current
                 PROVE  i = Len(old) + n
      BY <2>6
    <3>1. Len(old) \in Nat
      BY <2>5, LenProperties
    <3>2. CASE i <= Len(old)
      BY <2>5, <2>6, <3>1, <3>2
    <3>3. CASE ~(i <= Len(old))
      <4>1. i - Len(old) \in 1 .. n
        BY <2>2, <3>1, <3>3
      <4>2. new[i - Len(old)].current
        BY <2>6, <3>3
      <4>3. i - Len(old) = n
        BY <2>4, <4>1, <4>2
      <4> QED BY <2>2, <3>1, <4>3
    <3> QED BY <3>2, <3>3
  <2>8. old \o new # <<>>
    BY <2>2, <2>5, <2>6
  <2> QED BY <1>2, <2>1, <2>6, <2>7, <2>8 DEF IsLine
<1> QED BY <1>1, <1>2

LEMMA RestIsLine ==
  ASSUME NEW ss, IsLine(ss), NEW i \in 1 .. Len(ss), IsTurn(i)
  PROVE  /\ IsLine(RemoveAt(ss, i))
         /\ ss[i].current => RemoveAt(ss, i) = <<>>
         /\ NoneCurrent(ss) => NoneCurrent(RemoveAt(ss, i))
<1>1. i = 1 /\ ss \in Seq(StartSet) /\ ss # <<>>
  BY DEF IsTurn, IsLine
<1>2. RemoveAt(ss, i) = Tail(ss)
  <2>1. SubSeq(ss, 1, 0) = <<>>
    BY SubSeqEmpty
  <2>2. SubSeq(ss, 2, Len(ss)) = Tail(ss) /\ Tail(ss) \in Seq(StartSet)
    BY <1>1, TailIsSubSeq, HeadTailProperties
  <2>3. <<>> \o Tail(ss) = Tail(ss)
    BY <2>2, ConcatEmptySeq
  <2>4. RemoveAt(ss, i) = SubSeq(ss, 1, 0) \o SubSeq(ss, 2, Len(ss))
    BY <1>1 DEF RemoveAt
  <2> QED BY <2>1, <2>2, <2>3, <2>4
<1>3. /\ Tail(ss) \in Seq(StartSet)
      /\ Len(Tail(ss)) = Len(ss) - 1
      /\ \A j \in 1 .. Len(Tail(ss)) : Tail(ss)[j] = ss[j + 1]
  BY <1>1, HeadTailProperties
<1>4. Len(ss) \in Nat
  BY <1>1, LenProperties
<1>5. IsLine(Tail(ss))
  <2>1. \A j \in 1 .. Len(Tail(ss)) :
          Tail(ss)[j].current => j = Len(Tail(ss))
    <3> SUFFICES ASSUME NEW j \in 1 .. (Len(ss) - 1), Tail(ss)[j].current
                 PROVE  j = Len(ss) - 1
      BY <1>3
    <3>1. j + 1 \in 1 .. Len(ss) /\ ss[j + 1].current
      BY <1>3, <1>4
    <3>2. j + 1 = Len(ss)
      BY <3>1 DEF IsLine
    <3> QED BY <3>2, <1>4
  <2> QED BY <2>1, <1>3 DEF IsLine
<1>6. ss[i].current => Tail(ss) = <<>>
  <2>1. ss[i].current => Len(ss) = 1
    BY <1>1 DEF IsLine
  <2> QED BY <2>1, <1>3, EmptySeq
<1>7. NoneCurrent(ss) => NoneCurrent(Tail(ss))
  BY <1>3, <1>4 DEF NoneCurrent
<1> QED BY <1>2, <1>5, <1>6, <1>7

-----------------------------------------------------------------------------
(* The parts of the type invariant.                                        *)

ClientSet == [credentials : CredentialsSet, conn : Connections]

\* What is neither a sequence nor Discord.
FieldsOK ==
    /\ disposal \in {"none", "cancelled", "closing", "done"}
    /\ desired \in Places
    /\ pinged \in BOOLEAN /\ reissueDue \in BOOLEAN /\ readied \in BOOLEAN
    /\ leaving \in BOOLEAN
    /\ lost \in BOOLEAN /\ ignored \in BOOLEAN
    /\ evicted \in {"no", "told", "crossed"}
    /\ forced \in Nat
    /\ moving \in {"none", "waiting", "late"}
    /\ lastStatus \in Statuses /\ shown \in Statuses
    /\ latest \in CredentialsSet /\ pairing \in CredentialsSet
    /\ client \in ClientSet
    /\ events \in 0 .. MaxEvents

SequencesOK ==
    /\ unanswered \in Seq(Places)
    /\ IsLine(starts)
    /\ discord \in Discords

LEMMA TypeParts == TypeOK <=> FieldsOK /\ SequencesOK
<1>1. starts \in Seq(StartSet) => DOMAIN starts = 1 .. Len(starts)
  BY LenProperties
<1>2. TypeOK => FieldsOK
  BY DEF TypeOK, FieldsOK, ClientSet
<1>3. TypeOK => SequencesOK
  BY <1>1 DEF TypeOK, SequencesOK, IsLine, Discords, StartSet
<1>4. FieldsOK /\ SequencesOK => TypeOK
  BY <1>1 DEF TypeOK, FieldsOK, SequencesOK, ClientSet, IsLine, Discords,
              StartSet
<1> QED BY <1>2, <1>3, <1>4

LEMMA TypePartsNext == TypeOK' <=> FieldsOK' /\ SequencesOK'
BY TypeParts, PTL

LEMMA CredentialsTyped ==
  ASSUME NEW c \in Places, NEW t \in Nat
  PROVE  Credentials(c, t) \in CredentialsSet
BY DEF Credentials, CredentialsSet

LEMMA NothingTyped ==
  NoCredentials \in CredentialsSet /\ NoClient \in ClientSet
<1>1. NoCredentials \in CredentialsSet
  BY CredentialsTyped DEF NoCredentials, NoToken, Places
<1> QED BY <1>1 DEF NoClient, ClientSet, Connections

LEMMA InitEstablishes == Init => IInv
<1> SUFFICES ASSUME Init PROVE IInv
  OBVIOUS
<1>1. FieldsOK
  <2>1. NoChannel \in Places
    BY DEF Places
  <2>2. 0 \in 0 .. MaxEvents
    BY BoundsAssumption
  <2> QED BY <2>1, <2>2, NothingTyped DEF Init, FieldsOK, Statuses
<1>2. SequencesOK
  <2>1. <<>> \in Seq(Places) /\ <<>> \in Seq(StartSet)
        /\ <<>> \in Seq(Dispatches) /\ Len(<<>>) = 0
    BY EmptySeq
  <2> QED BY <2>1 DEF Init, SequencesOK, IsLine, Discords, Places, NoToken
<1>3. ClosedFirst /\ NothingAfterClose /\ LeavingIsOut
  BY DEF Init, ClosedFirst, NothingAfterClose, LeavingIsOut
<1> QED BY <1>1, <1>2, <1>3, TypeParts DEF IInv

-----------------------------------------------------------------------------
(* What the helpers of the service keep.                                   *)

LEMMA AppendTyped ==
  ASSUME NEW rs \in Seq(Places), NEW c \in Places
  PROVE  Append(rs, c) \in Seq(Places)
OBVIOUS

LEMMA AnnounceTyped ==
  ASSUME SequencesOK, NEW c \in Places, Announce(c)
  PROVE  discord' \in Discords /\ unanswered' \in Seq(Places)
<1>1. Voice(c) \in Requests
  BY DEF Requests
<1>2. discord' \in Discords
  BY <1>1, AskedTyped DEF Announce, SequencesOK
<1> QED BY <1>2, AppendTyped DEF Announce, SequencesOK

LEMMA LeaveAndRejoinTyped ==
  ASSUME SequencesOK, NEW c \in Places, LeaveAndRejoin(c)
  PROVE  discord' \in Discords /\ unanswered' \in Seq(Places)
<1>1. Voice(NoChannel) \in Requests /\ Voice(c) \in Requests
  BY DEF Requests, Places
<1>2. discord' \in Discords
  BY <1>1, AskedBothTyped DEF LeaveAndRejoin, SequencesOK
<1>3. <<NoChannel, c>> \in Seq(Places)
  BY DEF Places
<1>4. unanswered' \in Seq(Places)
  BY <1>3, ConcatProperties DEF LeaveAndRejoin, SequencesOK
<1> QED BY <1>2, <1>4

LEMMA RecoverTyped ==
  ASSUME SequencesOK, FieldsOK, Recover
  PROVE  /\ discord' \in Discords /\ unanswered' \in Seq(Places)
         /\ pairing' \in CredentialsSet /\ IsLine(starts')
         /\ NoneCurrent(starts') /\ (starts = <<>> => starts' = <<>>)
         /\ pinged' \in BOOLEAN /\ reissueDue' \in BOOLEAN
<1>1. Ping \in Requests /\ Again(desired) \in Requests
  BY DEF Requests, FieldsOK
<1>2. discord' \in Discords
  BY <1>1, AskedBothTyped DEF Recover, SequencesOK
<1>3. unanswered' \in Seq(Places)
  BY AppendTyped DEF Recover, SequencesOK, FieldsOK
<1>4. pairing' \in CredentialsSet
  BY CredentialsTyped DEF Recover, FieldsOK, NoToken
<1>5. /\ IsLine(starts') /\ NoneCurrent(starts')
      /\ (starts = <<>> => starts' = <<>>)
  BY StaleIsLine DEF Recover, SequencesOK, IsLine
<1> QED BY <1>2, <1>3, <1>4, <1>5 DEF Recover

-----------------------------------------------------------------------------
(* The room.                                                               *)

LEMMA JoinKeeps ==
  ASSUME IInv, NEW c \in Channels, Join(c)
  PROVE  IInv'
<1>1. FieldsOK /\ SequencesOK /\ c \in Places
  BY TypeParts DEF IInv, Places
<1>2. /\ disposal = "none" /\ ~leaving
      /\ UNCHANGED <<disposal, lastStatus, latest, readied, client, leaving>>
      /\ events' \in 0 .. MaxEvents
      /\ evicted' \in {"no", "told", "crossed"}
  BY <1>1, BoundsAssumption DEF Join, Happens, FieldsOK
<1>3. CASE JoinSame(c)
  <2>1. UNCHANGED <<desired, moving, starts, pairing, lost>>
    BY <1>3 DEF JoinSame
  <2>2. discord' \in Discords /\ unanswered' \in Seq(Places)
    <3>1. CASE IsStuck
      BY <1>1, <1>3, <3>1, LeaveAndRejoinTyped DEF JoinSame
    <3>2. CASE ~IsStuck
      BY <1>1, <1>3, <3>2, AnnounceTyped DEF JoinSame
    <3> QED BY <3>1, <3>2
  <2>3. pinged' \in BOOLEAN /\ reissueDue' \in BOOLEAN /\ forced' \in Nat
    <3>1. \/ pinged' = TRUE /\ forced' = 1 /\ reissueDue' = TRUE
          \/ UNCHANGED <<pinged, forced, reissueDue>>
      BY <1>3 DEF JoinSame
    <3>2. /\ pinged \in BOOLEAN /\ reissueDue \in BOOLEAN
          /\ forced \in Nat /\ 1 \in Nat
      BY <1>1 DEF FieldsOK
    <3>3. CASE pinged' = TRUE /\ forced' = 1 /\ reissueDue' = TRUE
      BY <3>2, <3>3
    <3>4. CASE UNCHANGED <<pinged, forced, reissueDue>>
      BY <3>2, <3>4
    <3> QED BY <3>1, <3>3, <3>4
  <2>4. shown' \in Statuses /\ ignored' \in BOOLEAN
    BY <1>1, <1>3 DEF JoinSame, FieldsOK, Statuses
  <2>5. FieldsOK'
    BY <1>1, <1>2, <2>1, <2>3, <2>4 DEF FieldsOK
  <2>6. SequencesOK'
    BY <1>1, <2>1, <2>2 DEF SequencesOK, IsLine
  <2>7. ClosedFirst' /\ NothingAfterClose' /\ LeavingIsOut'
    BY <1>2, <2>1 DEF IInv, ClosedFirst, NothingAfterClose, LeavingIsOut
  <2> QED BY <2>5, <2>6, <2>7, TypePartsNext DEF IInv
<1>4. CASE JoinOther(c)
  <2>1. /\ UNCHANGED <<pinged, reissueDue, ignored>>
        /\ desired' = c /\ forced' = 0 /\ moving' = "none"
        /\ pairing' = NoCredentials /\ shown' = "joining"
        /\ starts' = Stale(starts) /\ Announce(c)
    BY <1>4 DEF JoinOther
  <2>2. lost' \in BOOLEAN
    BY <1>1, <1>4 DEF JoinOther, FieldsOK
  <2>3. FieldsOK'
    BY <1>1, <1>2, <2>1, <2>2, NothingTyped DEF FieldsOK, Statuses
  <2>4. IsLine(starts') /\ (starts = <<>> => starts' = <<>>)
    BY <1>1, <2>1, StaleIsLine DEF SequencesOK, IsLine
  <2>5. SequencesOK'
    BY <1>1, <2>1, <2>4, AnnounceTyped DEF SequencesOK, IsLine
  <2>6. ClosedFirst' /\ NothingAfterClose' /\ LeavingIsOut'
    BY <1>2, <2>1, <2>4 DEF IInv, ClosedFirst, NothingAfterClose, LeavingIsOut
  <2> QED BY <2>3, <2>5, <2>6, TypePartsNext DEF IInv
<1> QED BY <1>3, <1>4 DEF Join

LEMMA LeaveBeginsKeeps ==
  ASSUME IInv, LeaveBegins
  PROVE  IInv'
<1>1. FieldsOK /\ SequencesOK /\ NoChannel \in Places
  BY TypeParts DEF IInv, Places
<1>2. events' \in 0 .. MaxEvents
  BY <1>1, BoundsAssumption DEF LeaveBegins, Happens, FieldsOK
<1>3. FieldsOK'
  BY <1>1, <1>2, NothingTyped DEF LeaveBegins, FieldsOK, Statuses, trouble
<1>4. IsLine(starts') /\ NoneCurrent(starts')
  BY <1>1, StaleIsLine DEF LeaveBegins, SequencesOK, IsLine
<1>5. discord' \in Discords /\ unanswered' \in Seq(Places)
  BY <1>1, AnnounceTyped DEF LeaveBegins
<1>6. SequencesOK'
  BY <1>4, <1>5 DEF SequencesOK, IsLine
<1>7. ClosedFirst' /\ NothingAfterClose'
  BY DEF LeaveBegins, ClosedFirst, NothingAfterClose
<1>8. LeavingIsOut'
  BY <1>4 DEF LeaveBegins, LeavingIsOut, NoneCurrent
<1> QED BY <1>3, <1>6, <1>7, <1>8, TypePartsNext DEF IInv

LEMMA LeaveEndsKeeps ==
  ASSUME IInv, LeaveEnds
  PROVE  IInv'
<1>1. FieldsOK /\ SequencesOK
  BY TypeParts DEF IInv
<1>2. /\ UNCHANGED <<disposal, desired, recovery, lastStatus, pairs,
                     unanswered, clients, evicted, discord, trouble, events>>
      /\ leaving' = FALSE /\ shown' \in Statuses
  BY <1>1 DEF LeaveEnds, Show, FieldsOK, Statuses
<1>3. FieldsOK'
  BY <1>1, <1>2 DEF FieldsOK, recovery, pairs, clients, trouble
<1>4. SequencesOK'
  BY <1>1, <1>2 DEF SequencesOK, IsLine, clients
<1>5. ClosedFirst' /\ NothingAfterClose' /\ LeavingIsOut'
  BY <1>2 DEF IInv, ClosedFirst, NothingAfterClose, LeavingIsOut, recovery,
              clients
<1> QED BY <1>3, <1>4, <1>5, TypePartsNext DEF IInv

-----------------------------------------------------------------------------
(* Dispatches.                                                             *)

LEMMA AcceptKeeps ==
  ASSUME IInv,
         NEW credentials \in CredentialsSet, NEW aimed \in Seq(CredentialsSet),
         NEW mv, Accept(credentials, aimed, mv),
         leaving => /\ aimed = <<>>
                    /\ \/ credentials = NoCredentials
                       \/ desired' # credentials.channel
  PROVE  /\ IsLine(starts') /\ latest' \in CredentialsSet
         /\ readied' \in BOOLEAN /\ lost' \in BOOLEAN
         /\ moving' \in {mv, "none"} /\ client' \in ClientSet
         /\ (starts' # <<>> \/ leaving) => client' = NoClient
         /\ leaving => NoneCurrent(starts')
<1>1. FieldsOK /\ IsLine(starts)
  BY TypeParts DEF IInv, SequencesOK
<1> DEFINE wanted == /\ credentials # NoCredentials
                     /\ desired' = credentials.channel
           repeats == /\ wanted /\ mv # "none" /\ aimed = <<>>
                      /\ RepeatsLive(credentials)
           queue == aimed \o (IF wanted /\ ~repeats THEN <<credentials>>
                              ELSE <<>>)
<1>2. /\ starts' = Queued(starts, queue)
      /\ latest' = IF queue = <<>> THEN latest ELSE Last(queue)
      /\ readied' = (readied /\ queue = <<>>)
      /\ client' = IF starts' = <<>> THEN client ELSE NoClient
      /\ moving' = IF repeats THEN "none" ELSE mv
      /\ lost' = (lost \/ Loses(credentials))
  BY Zenon DEF Accept
<1>3. queue \in Seq(CredentialsSet)
  BY ConcatProperties
<1>4. leaving => queue = <<>>
  BY ConcatEmptySeq
<1> HIDE DEF wanted, repeats, queue
<1>5. /\ IsLine(starts')
      /\ queue = <<>> => starts' = starts
  BY <1>1, <1>2, <1>3, QueuedIsLine
<1>6. latest' \in CredentialsSet
  <2>1. queue # <<>> => queue[Len(queue)] \in CredentialsSet
    BY <1>3, EmptySeq, ElementOfSeq
  <2> QED BY <1>1, <1>2, <2>1 DEF Last, FieldsOK
<1>7. readied' \in BOOLEAN /\ lost' \in BOOLEAN
  BY <1>2, Zenon
<1>8. client' \in ClientSet
  BY <1>1, <1>2, NothingTyped DEF FieldsOK
<1>9. (starts' # <<>> \/ leaving) => client' = NoClient
  BY <1>2 DEF IInv, ClosedFirst
<1>10. leaving => NoneCurrent(starts')
  BY <1>4, <1>5 DEF IInv, LeavingIsOut
<1> QED BY <1>2, <1>5, <1>6, <1>7, <1>8, <1>9, <1>10

LEMMA ArrivedTyped ==
  ASSUME SequencesOK, NEW op, Arrives(op)
  PROVE  /\ disposal = "none" /\ Rest \in Discords
         /\ Head(discord.sent) \in Dispatches
         /\ Head(discord.sent).op = op
<1>1. discord.sent \in Seq(Dispatches) /\ discord.sent # <<>>
  BY DEF Arrives, SequencesOK, Discords
<1>2. Head(discord.sent) \in Dispatches /\ Tail(discord.sent) \in Seq(Dispatches)
  BY <1>1, HeadTailProperties
<1>3. Rest \in Discords
  BY <1>2 DEF Rest, SequencesOK, Discords
<1> QED BY <1>2, <1>3 DEF Arrives

LEMMA CompletedTyped ==
  ASSUME FieldsOK, NEW c \in Places
  PROVE  /\ Completed(c) \in CredentialsSet
         /\ \/ Completed(c) = NoCredentials
            \/ Completed(c).channel = c /\ c # NoChannel
<1>1. pairing.token \in Nat
  BY DEF FieldsOK, CredentialsSet
<1>2. Credentials(c, pairing.token) \in CredentialsSet
  BY <1>1, CredentialsTyped
<1>3. Credentials(c, pairing.token).channel = c
  BY DEF Credentials
<1> QED BY <1>2, <1>3, NothingTyped DEF Completed

LEMMA PairsStateTyped ==
  ASSUME NEW c \in Places, PairsState(c)
  PROVE  pairing' \in CredentialsSet
<1>1. Credentials(c, NoToken) \in CredentialsSet
  BY CredentialsTyped DEF NoToken
<1> QED BY <1>1, NothingTyped DEF PairsState

\* Discord moved the account, or disconnected it.
LEMMA FollowMoveTyped ==
  ASSUME IInv, Arrives("state"), NEW c \in Places, FollowMove(c),
         desired # NoChannel
  PROVE  /\ desired' = c /\ ~leaving
         /\ reissueDue' = FALSE /\ forced' = 0 /\ pinged' = FALSE
         /\ evicted' \in {"no", "told", "crossed"}
         /\ discord' \in Discords /\ unanswered' \in Seq(Places)
         /\ IsLine(starts') /\ latest' \in CredentialsSet
         /\ readied' \in BOOLEAN /\ lost' \in BOOLEAN
         /\ moving' \in {"none", "waiting"} /\ client' \in ClientSet
         /\ starts' # <<>> => client' = NoClient
<1>1. FieldsOK /\ SequencesOK
  BY TypeParts DEF IInv
<1>2. ~leaving
  BY DEF IInv, LeavingIsOut
<1> DEFINE aimed == IF c # NoChannel /\ Reaims(c)
                    THEN <<Credentials(c, latest.token)>> ELSE <<>>
           mv == IF c = NoChannel THEN "none" ELSE "waiting"
<1>3. /\ desired' = c
      /\ reissueDue' = FALSE /\ forced' = 0 /\ pinged' = FALSE
      /\ evicted' = IF c = NoChannel /\ evicted = "no" THEN "told" ELSE evicted
      /\ \/ /\ discord' \in Asked(Rest, Again(c))
            /\ unanswered' = Append(AskedBeforeMove, c)
         \/ discord' = Rest /\ unanswered' = AskedBeforeMove
      /\ Accept(Completed(c), aimed, mv)
  BY DEF FollowMove
<1>4. aimed \in Seq(CredentialsSet)
  <2>1. Credentials(c, latest.token) \in CredentialsSet
    BY <1>1, CredentialsTyped DEF FieldsOK, CredentialsSet
  <2> QED BY <2>1
<1>5. Completed(c) \in CredentialsSet
  BY <1>1, CompletedTyped
<1>6. mv \in {"none", "waiting"}
  OBVIOUS
<1> HIDE DEF aimed, mv
<1>7. /\ IsLine(starts') /\ latest' \in CredentialsSet
      /\ readied' \in BOOLEAN /\ lost' \in BOOLEAN
      /\ moving' \in {mv, "none"} /\ client' \in ClientSet
      /\ (starts' # <<>> \/ leaving) => client' = NoClient
  BY <1>2, <1>3, <1>4, <1>5, AcceptKeeps
<1>8. discord' \in Discords /\ unanswered' \in Seq(Places)
  <2>1. Rest \in Discords /\ Again(c) \in Requests
    BY <1>1, ArrivedTyped DEF Requests
  <2>2. Asked(Rest, Again(c)) \in SUBSET Discords
    BY <2>1, AskedTyped
  <2>3. AskedBeforeMove \in Seq(Places)
    BY EmptySeq DEF AskedBeforeMove
  <2> QED BY <1>3, <2>1, <2>2, <2>3, AppendTyped
<1>9. evicted' \in {"no", "told", "crossed"}
  BY <1>1, <1>3 DEF FieldsOK
<1> QED BY <1>2, <1>3, <1>6, <1>7, <1>8, <1>9

LEMMA KeepPlaceTyped ==
  ASSUME IInv, Arrives("state"), NEW c \in Places, KeepPlace(c)
  PROVE  /\ UNCHANGED <<desired, reissueDue, forced, pinged, evicted>>
         /\ discord' \in Discords /\ unanswered' \in Seq(Places)
         /\ IsLine(starts') /\ latest' \in CredentialsSet
         /\ readied' \in BOOLEAN /\ lost' \in BOOLEAN
         /\ moving' \in {moving, "none"} /\ client' \in ClientSet
         /\ (starts' # <<>> \/ leaving) => client' = NoClient
         /\ leaving => NoneCurrent(starts')
<1>1. FieldsOK /\ SequencesOK
  BY TypeParts DEF IInv
<1>2. /\ unanswered' = IF Answers(c) THEN After(c) ELSE unanswered
      /\ discord' = Rest
      /\ UNCHANGED <<desired, reissueDue, forced, pinged, evicted>>
      /\ Accept(Completed(c), <<>>, moving)
  BY DEF KeepPlace
<1>3. discord' \in Discords /\ unanswered' \in Seq(Places)
  BY <1>1, <1>2, ArrivedTyped, AfterTyped DEF SequencesOK
<1>4. <<>> \in Seq(CredentialsSet)
  BY EmptySeq
<1>5. leaving => \/ Completed(c) = NoCredentials
                 \/ desired' # Completed(c).channel
  BY <1>1, <1>2, CompletedTyped DEF IInv, LeavingIsOut
<1>6. /\ IsLine(starts') /\ latest' \in CredentialsSet
      /\ readied' \in BOOLEAN /\ lost' \in BOOLEAN
      /\ moving' \in {moving, "none"} /\ client' \in ClientSet
      /\ (starts' # <<>> \/ leaving) => client' = NoClient
      /\ leaving => NoneCurrent(starts')
  BY <1>1, <1>2, <1>4, <1>5, CompletedTyped, AcceptKeeps
<1> QED BY <1>2, <1>3, <1>6

LEMMA TakeStateKeeps ==
  ASSUME IInv, TakeState
  PROVE  IInv'
<1> DEFINE c == Head(discord.sent).channel
<1>1. FieldsOK /\ SequencesOK /\ Arrives("state")
  BY TypeParts DEF IInv, TakeState
<1>2. c \in Places
  BY <1>1, ArrivedTyped DEF Dispatches
<1>3. /\ IF Answers(c) \/ desired = NoChannel \/ desired = c
         THEN KeepPlace(c) ELSE FollowMove(c)
      /\ PairsState(c)
      /\ UNCHANGED <<disposal, lastStatus, shown, leaving, ignored, events>>
  BY DEF TakeState
<1>4. disposal = "none"
  BY <1>1, ArrivedTyped
<1> HIDE DEF c
<1>5. pairing' \in CredentialsSet
  BY <1>2, <1>3, PairsStateTyped
<1>6. CASE KeepPlace(c)
  <2>1. /\ UNCHANGED <<desired, reissueDue, forced, pinged, evicted>>
        /\ discord' \in Discords /\ unanswered' \in Seq(Places)
        /\ IsLine(starts') /\ latest' \in CredentialsSet
        /\ readied' \in BOOLEAN /\ lost' \in BOOLEAN
        /\ moving' \in {moving, "none"} /\ client' \in ClientSet
        /\ (starts' # <<>> \/ leaving) => client' = NoClient
        /\ leaving => NoneCurrent(starts')
    BY <1>1, <1>2, <1>6, KeepPlaceTyped
  <2>2. FieldsOK'
    BY <1>1, <1>3, <1>5, <2>1 DEF FieldsOK
  <2>3. SequencesOK'
    BY <2>1 DEF SequencesOK, IsLine
  <2>4. ClosedFirst' /\ NothingAfterClose' /\ LeavingIsOut'
    BY <1>3, <1>4, <2>1
       DEF IInv, ClosedFirst, NothingAfterClose, LeavingIsOut, NoneCurrent
  <2> QED BY <2>2, <2>3, <2>4, TypePartsNext DEF IInv
<1>7. CASE FollowMove(c) /\ desired # NoChannel
  <2>1. /\ desired' = c /\ ~leaving
        /\ reissueDue' = FALSE /\ forced' = 0 /\ pinged' = FALSE
        /\ evicted' \in {"no", "told", "crossed"}
        /\ discord' \in Discords /\ unanswered' \in Seq(Places)
        /\ IsLine(starts') /\ latest' \in CredentialsSet
        /\ readied' \in BOOLEAN /\ lost' \in BOOLEAN
        /\ moving' \in {"none", "waiting"} /\ client' \in ClientSet
        /\ starts' # <<>> => client' = NoClient
    BY <1>1, <1>2, <1>7, FollowMoveTyped
  <2>2. FieldsOK'
    BY <1>1, <1>2, <1>3, <1>5, <2>1 DEF FieldsOK
  <2>3. SequencesOK'
    BY <2>1 DEF SequencesOK, IsLine
  <2>4. ClosedFirst' /\ NothingAfterClose' /\ LeavingIsOut'
    BY <1>3, <1>4, <2>1 DEF ClosedFirst, NothingAfterClose, LeavingIsOut
  <2> QED BY <2>2, <2>3, <2>4, TypePartsNext DEF IInv
<1> QED BY <1>3, <1>6, <1>7

LEMMA TakeUpdateKeeps ==
  ASSUME IInv, TakeUpdate
  PROVE  IInv'
<1> DEFINE t == Head(discord.sent).token
           complete == t # NoToken /\ pairing.channel # NoChannel
           pair == IF complete THEN Credentials(pairing.channel, t)
                   ELSE NoCredentials
<1>1. FieldsOK /\ SequencesOK /\ Arrives("update")
  BY TypeParts DEF IInv, TakeUpdate
<1>2. t \in Nat /\ NoChannel \in Places
  BY <1>1, ArrivedTyped DEF Dispatches, Places
<1>3. disposal = "none" /\ Rest \in Discords
  BY <1>1, ArrivedTyped
<1>4. /\ pairing' = IF complete \/ t = NoToken THEN NoCredentials
                    ELSE Credentials(NoChannel, t)
      /\ discord' = Rest /\ UNCHANGED desired
      /\ Accept(pair, <<>>, moving)
      /\ UNCHANGED <<disposal, pinged, forced, reissueDue, lastStatus,
                     unanswered, room, ignored, events>>
  BY DEF TakeUpdate
<1>5. pairing' \in CredentialsSet
  BY <1>2, <1>4, CredentialsTyped, NothingTyped
<1>6. pair \in CredentialsSet
  <2>1. pairing.channel \in Places
    BY <1>1 DEF FieldsOK, CredentialsSet
  <2> QED BY <1>2, <2>1, CredentialsTyped, NothingTyped
<1>7. leaving => pair = NoCredentials \/ desired' # pair.channel
  <2>1. complete => pair.channel = pairing.channel
    BY DEF Credentials
  <2> QED BY <1>4, <2>1 DEF IInv, LeavingIsOut
<1>8. <<>> \in Seq(CredentialsSet)
  BY EmptySeq
<1> HIDE DEF pair, complete, t
<1>9. /\ IsLine(starts') /\ latest' \in CredentialsSet
      /\ readied' \in BOOLEAN /\ lost' \in BOOLEAN
      /\ moving' \in {moving, "none"} /\ client' \in ClientSet
      /\ (starts' # <<>> \/ leaving) => client' = NoClient
      /\ leaving => NoneCurrent(starts')
  BY <1>4, <1>6, <1>7, <1>8, AcceptKeeps
<1>10. FieldsOK'
  BY <1>1, <1>4, <1>5, <1>9 DEF FieldsOK, room
<1>11. SequencesOK'
  BY <1>1, <1>3, <1>4, <1>9 DEF SequencesOK, IsLine
<1>12. ClosedFirst' /\ NothingAfterClose' /\ LeavingIsOut'
  BY <1>3, <1>4, <1>9
     DEF IInv, ClosedFirst, NothingAfterClose, LeavingIsOut, NoneCurrent, room
<1> QED BY <1>10, <1>11, <1>12, TypePartsNext DEF IInv

-----------------------------------------------------------------------------
(* Starts and timers.                                                      *)

LEMMA StartEndsKeeps ==
  ASSUME IInv, NEW i \in DOMAIN starts, StartEnds(i)
  PROVE  IInv'
<1>1. FieldsOK /\ SequencesOK /\ IsLine(starts)
  BY TypeParts DEF IInv, SequencesOK
<1>2. i \in 1 .. Len(starts) /\ starts # <<>>
  BY <1>1, LenProperties DEF IsLine
<1>3. /\ IsTurn(i) /\ starts' = RemoveAt(starts, i)
      /\ \/ GivesWay(starts[i]) /\ UNCHANGED <<reissueDue, client>>
         \/ /\ ~GivesWay(starts[i]) /\ reissueDue' = FALSE
            /\ client' = [credentials |-> starts[i].credentials,
                          conn |-> "new"]
      /\ UNCHANGED <<disposal, desired, pinged, forced, moving, lastStatus,
                     pairs, unanswered, room, discord, trouble, events>>
  BY Zenon DEF StartEnds
<1>4. /\ IsLine(starts')
      /\ starts[i].current => starts' = <<>>
      /\ NoneCurrent(starts) => NoneCurrent(starts')
  BY <1>1, <1>2, <1>3, RestIsLine
<1>5. starts[i] \in StartSet
  BY <1>1, <1>2, ElementOfSeq DEF IsLine
<1>6. client' \in ClientSet
  BY <1>1, <1>3, <1>5 DEF FieldsOK, ClientSet, StartSet, Connections
<1>7. FieldsOK'
  <2>1. reissueDue' \in BOOLEAN
    BY <1>1, <1>3 DEF FieldsOK
  <2>2. UNCHANGED <<disposal, desired, pinged, forced, moving, lastStatus,
                    latest, readied, pairing, shown, leaving, evicted, lost,
                    ignored, events>>
    BY <1>3 DEF pairs, room, trouble
  <2> QED BY <1>1, <1>6, <2>1, <2>2 DEF FieldsOK
<1>8. SequencesOK'
  BY <1>1, <1>3, <1>4 DEF SequencesOK, IsLine
<1>9. CASE GivesWay(starts[i])
  <2>1. UNCHANGED <<reissueDue, client>>
    BY <1>3, <1>9
  <2>2. ClosedFirst' /\ NothingAfterClose' /\ LeavingIsOut'
    BY <1>2, <1>3, <1>4, <2>1
       DEF IInv, ClosedFirst, NothingAfterClose, LeavingIsOut, NoneCurrent, room
  <2> QED BY <1>7, <1>8, <2>2, TypePartsNext DEF IInv
<1>10. CASE ~GivesWay(starts[i])
  <2>1. disposal = "none" /\ starts[i].current
    BY <1>10 DEF GivesWay
  <2>2. ~leaving /\ starts' = <<>>
    BY <1>2, <1>4, <2>1 DEF IInv, LeavingIsOut, NoneCurrent
  <2>3. ClosedFirst' /\ NothingAfterClose' /\ LeavingIsOut'
    BY <1>3, <2>1, <2>2 DEF ClosedFirst, NothingAfterClose, LeavingIsOut, room
  <2> QED BY <1>7, <1>8, <2>3, TypePartsNext DEF IInv
<1> QED BY <1>9, <1>10

LEMMA StartThrowsKeeps ==
  ASSUME IInv, NEW i \in DOMAIN starts, StartThrows(i)
  PROVE  IInv'
<1>1. FieldsOK /\ SequencesOK /\ IsLine(starts)
  BY TypeParts DEF IInv, SequencesOK
<1>2. i \in 1 .. Len(starts) /\ starts # <<>>
  BY <1>1, LenProperties DEF IsLine
<1>3. /\ IsTurn(i) /\ starts' = RemoveAt(starts, i)
      /\ reissueDue' = FALSE /\ disposal = "none"
      /\ shown' \in {shown, "failure"} /\ events' \in 0 .. MaxEvents
      /\ UNCHANGED <<disposal, desired, pinged, forced, moving, lastStatus,
                     pairs, unanswered, client, leaving, evicted, discord,
                     trouble>>
  BY <1>1, BoundsAssumption
     DEF StartThrows, Show, Happens, GivesWay, FieldsOK
<1>4. /\ IsLine(starts')
      /\ NoneCurrent(starts) => NoneCurrent(starts')
  BY <1>1, <1>2, <1>3, RestIsLine
<1>5. FieldsOK'
  <2>1. shown' \in Statuses /\ reissueDue' \in BOOLEAN
    BY <1>1, <1>3 DEF FieldsOK, Statuses
  <2>2. UNCHANGED <<disposal, desired, pinged, forced, moving, lastStatus,
                    latest, readied, pairing, client, leaving, evicted, lost,
                    ignored>>
    BY <1>3 DEF pairs, trouble
  <2> QED BY <1>1, <1>3, <2>1, <2>2 DEF FieldsOK
<1>6. SequencesOK'
  BY <1>1, <1>3, <1>4 DEF SequencesOK, IsLine
<1>7. ClosedFirst' /\ NothingAfterClose' /\ LeavingIsOut'
  BY <1>2, <1>3, <1>4
     DEF IInv, ClosedFirst, NothingAfterClose, LeavingIsOut, NoneCurrent
<1> QED BY <1>5, <1>6, <1>7, TypePartsNext DEF IInv

LEMMA ForceReissueTyped ==
  ASSUME SequencesOK, FieldsOK, ForceReissue
  PROVE  /\ discord' \in Discords /\ unanswered' \in Seq(Places)
         /\ forced' \in Nat /\ pinged' \in BOOLEAN /\ reissueDue' \in BOOLEAN
         /\ shown' \in Statuses
<1>1. /\ desired \in Places /\ forced + 1 \in Nat
      /\ pinged \in BOOLEAN /\ shown \in Statuses
  BY DEF FieldsOK
<1>2. CASE GivesUp
  BY <1>1, <1>2 DEF ForceReissue, Show, Statuses, SequencesOK
<1>3. CASE ~GivesUp
  <2>1. /\ LeaveAndRejoin(desired) /\ forced' = forced + 1
        /\ reissueDue' = TRUE /\ UNCHANGED <<pinged, shown>>
    BY <1>3 DEF ForceReissue
  <2>2. discord' \in Discords /\ unanswered' \in Seq(Places)
    BY <1>1, <2>1, LeaveAndRejoinTyped
  <2> QED BY <1>1, <2>1, <2>2
<1> QED BY <1>2, <1>3

LEMMA ReissueTimerKeeps ==
  ASSUME IInv, ReissueTimer
  PROVE  IInv'
<1>1. FieldsOK /\ SequencesOK
  BY TypeParts DEF IInv
<1>2. /\ reissueDue
      /\ \/ ForceReissue
         \/ /\ reissueDue' = FALSE
            /\ UNCHANGED <<pinged, forced, discord, unanswered, shown>>
      /\ UNCHANGED <<disposal, desired, moving, lastStatus, pairs, clients,
                     leaving, evicted, trouble>>
      /\ events' \in 0 .. MaxEvents
  BY <1>1, BoundsAssumption DEF ReissueTimer, Waited, Happens, FieldsOK
<1>3. /\ discord' \in Discords /\ unanswered' \in Seq(Places)
      /\ forced' \in Nat /\ pinged' \in BOOLEAN /\ reissueDue' \in BOOLEAN
      /\ shown' \in Statuses
  <2>1. CASE ForceReissue
    BY <1>1, <2>1, ForceReissueTyped
  <2>2. CASE /\ reissueDue' = FALSE
             /\ UNCHANGED <<pinged, forced, discord, unanswered, shown>>
    BY <1>1, <2>2 DEF FieldsOK, SequencesOK
  <2> QED BY <1>2, <2>1, <2>2
<1>4. UNCHANGED <<disposal, desired, moving, lastStatus, latest, readied,
                  pairing, starts, client, leaving, evicted, lost,
                  ignored>>
  BY <1>2 DEF pairs, clients, trouble
<1>5. FieldsOK'
  BY <1>1, <1>2, <1>3, <1>4 DEF FieldsOK
<1>6. SequencesOK'
  BY <1>1, <1>3, <1>4 DEF SequencesOK, IsLine
<1>7. ClosedFirst' /\ NothingAfterClose' /\ LeavingIsOut'
  BY <1>2, <1>4
     DEF IInv, ClosedFirst, NothingAfterClose, LeavingIsOut, NoneCurrent
<1> QED BY <1>5, <1>6, <1>7, TypePartsNext DEF IInv

\* What a recovery, or none, does to what it may touch.
MayRecover ==
    \/ Recover
    \/ UNCHANGED <<reissueDue, discord, unanswered, pairing, starts>>

LEMMA MayRecoverTyped ==
  ASSUME SequencesOK, FieldsOK, MayRecover
  PROVE  /\ SequencesOK'
         /\ reissueDue' \in BOOLEAN /\ pairing' \in CredentialsSet
         /\ starts = <<>> => starts' = <<>>
         /\ NoneCurrent(starts) => NoneCurrent(starts')
<1>1. CASE Recover
  BY <1>1, RecoverTyped DEF SequencesOK, IsLine, NoneCurrent
<1>2. CASE UNCHANGED <<reissueDue, discord, unanswered, pairing, starts>>
  BY <1>2 DEF SequencesOK, FieldsOK, IsLine, NoneCurrent
<1> QED BY <1>1, <1>2 DEF MayRecover

LEMMA MoveTimerKeeps ==
  ASSUME IInv, MoveTimer
  PROVE  IInv'
<1>1. FieldsOK /\ SequencesOK
  BY TypeParts DEF IInv
<1>2. /\ moving = "waiting" /\ moving' = "late"
      /\ \/ Recover
         \/ UNCHANGED <<pinged, reissueDue, discord, unanswered, pairing,
                        starts>>
      /\ UNCHANGED <<disposal, desired, forced, lastStatus, latest, readied,
                     client, room, trouble>>
      /\ events' \in 0 .. MaxEvents
  BY <1>1, BoundsAssumption DEF MoveTimer, Waited, Happens, FieldsOK
<1>3. MayRecover /\ pinged' \in BOOLEAN
  BY <1>1, <1>2, RecoverTyped DEF MayRecover, FieldsOK
<1>4. /\ SequencesOK'
      /\ reissueDue' \in BOOLEAN /\ pairing' \in CredentialsSet
      /\ starts = <<>> => starts' = <<>>
      /\ NoneCurrent(starts) => NoneCurrent(starts')
  BY <1>1, <1>3, MayRecoverTyped
<1>5. UNCHANGED <<disposal, desired, forced, lastStatus, latest, readied,
                  client, shown, leaving, evicted, lost, ignored>>
  BY <1>2 DEF room, trouble
<1>6. FieldsOK'
  BY <1>1, <1>2, <1>3, <1>4, <1>5 DEF FieldsOK
<1>7. ClosedFirst' /\ NothingAfterClose' /\ LeavingIsOut'
  BY <1>2, <1>4, <1>5 DEF IInv, ClosedFirst, NothingAfterClose, LeavingIsOut
<1> QED BY <1>4, <1>6, <1>7, TypePartsNext DEF IInv

-----------------------------------------------------------------------------
(* Clients, Discord and close().                                           *)

\* A client that can report is no client that is closed.
LEMMA ReportsKeeps ==
  ASSUME IInv, NEW status \in Statuses, NEW conn \in Connections,
         client.conn # "none", Reports(status, conn),
         events' \in 0 .. MaxEvents
  PROVE  IInv'
<1>1. FieldsOK /\ SequencesOK
  BY TypeParts DEF IInv
<1>2. client # NoClient
  BY DEF NoClient
<1>3. starts = <<>> /\ ~leaving /\ disposal \notin {"closing", "done"}
  BY <1>2 DEF IInv, ClosedFirst, NothingAfterClose
<1>4. /\ client' = [client EXCEPT !.conn = conn] /\ lastStatus' = status
      /\ \/ Recover
         \/ /\ pinged' = (pinged /\ status = "reconnecting")
            /\ UNCHANGED <<reissueDue, discord, unanswered, pairing, starts>>
      /\ Show(Shown(status))
      /\ \/ forced' = 0 /\ readied' = TRUE
         \/ UNCHANGED <<forced, readied>>
      /\ moving' \in {moving, "none"}
      /\ UNCHANGED <<disposal, desired, latest, leaving, evicted, trouble>>
  BY DEF Reports
<1>5. MayRecover /\ pinged' \in BOOLEAN
  BY <1>1, <1>4, RecoverTyped DEF MayRecover, FieldsOK
<1>6. /\ SequencesOK'
      /\ reissueDue' \in BOOLEAN /\ pairing' \in CredentialsSet
      /\ starts' = <<>>
  BY <1>1, <1>3, <1>5, MayRecoverTyped
<1>7. client' \in ClientSet
  BY <1>1, <1>4 DEF FieldsOK, ClientSet
<1>8. shown' \in Statuses
  BY <1>1, <1>4 DEF Show, Shown, FieldsOK, Statuses
<1>9. readied' \in BOOLEAN /\ forced' \in Nat
  <2>1. readied \in BOOLEAN /\ forced \in Nat /\ 0 \in Nat
    BY <1>1 DEF FieldsOK
  <2>2. CASE forced' = 0 /\ readied' = TRUE
    BY <2>1, <2>2
  <2>3. CASE UNCHANGED <<forced, readied>>
    BY <2>1, <2>3
  <2> QED BY <1>4, <2>2, <2>3
<1>10. UNCHANGED <<disposal, desired, latest, leaving, evicted, lost,
                   ignored>>
  BY <1>4 DEF trouble
<1>11. FieldsOK'
  BY <1>1, <1>4, <1>5, <1>6, <1>7, <1>8, <1>9, <1>10 DEF FieldsOK
<1>12. ClosedFirst' /\ NothingAfterClose' /\ LeavingIsOut'
  BY <1>3, <1>6, <1>10 DEF ClosedFirst, NothingAfterClose, LeavingIsOut
<1> QED BY <1>6, <1>11, <1>12, TypePartsNext DEF IInv

LEMMA ClientKeeps ==
  ASSUME IInv, Client
  PROVE  IInv'
<1>1. FieldsOK /\ events \in 0 .. MaxEvents
  BY TypeParts DEF IInv, FieldsOK
<1>2. ASSUME Happens("client")
      PROVE  events' \in 0 .. MaxEvents
  BY <1>1, <1>2, BoundsAssumption DEF Happens
<1>3. Dialed \in Connections
  BY DEF Dialed, Connections
<1>4. CASE ClientDials
  BY <1>1, <1>3, <1>4, ReportsKeeps DEF ClientDials, Statuses
<1>5. CASE ClientReady
  BY <1>1, <1>5, ReportsKeeps DEF ClientReady, Statuses, Connections
<1>6. CASE ClientRefused
  BY <1>1, <1>6, ReportsKeeps DEF ClientRefused, Statuses, Connections
<1>7. CASE ClientDrops
  BY <1>1, <1>2, <1>7, ReportsKeeps DEF ClientDrops, Statuses, Connections
<1>8. CASE ClientRedials
  BY <1>1, <1>3, <1>8, ReportsKeeps DEF ClientRedials, Statuses
<1>9. CASE ClientFails
  BY <1>1, <1>2, <1>9, ReportsKeeps DEF ClientFails, Statuses, Connections
<1>10. CASE ClientBlamesKey
  <2>1. client.conn \in Connections
    BY <1>1 DEF FieldsOK, ClientSet
  <2> QED BY <1>2, <1>10, <2>1, ReportsKeeps
             DEF ClientBlamesKey, Statuses, Connections
<1>11. CASE ClientNegotiates
  BY <1>1, <1>11, ReportsKeeps DEF ClientNegotiates, Statuses, Connections
<1>12. CASE ClientStirs
  BY <1>1, <1>2, <1>12, ReportsKeeps DEF ClientStirs, Statuses, Connections
<1> QED BY <1>4, <1>5, <1>6, <1>7, <1>8, <1>9, <1>10, <1>11, <1>12 DEF Client

LEMMA UnaskedKeeps ==
  ASSUME IInv, NEW kind, NEW ds \in SUBSET Discords, Unasked(kind, ds)
  PROVE  IInv'
<1>1. FieldsOK /\ SequencesOK
  BY TypeParts DEF IInv
<1>2. /\ discord' \in Discords /\ events' \in 0 .. MaxEvents
      /\ UNCHANGED <<disposal, desired, recovery, lastStatus, pairs,
                     unanswered, clients, room, trouble>>
  BY <1>1, BoundsAssumption DEF Unasked, Happens, FieldsOK
<1>3. UNCHANGED <<disposal, desired, pinged, forced, reissueDue, moving,
                  lastStatus, latest, readied, pairing, unanswered, starts,
                  client, shown, leaving, evicted, lost, ignored>>
  BY <1>2 DEF recovery, pairs, clients, room, trouble
<1>4. FieldsOK'
  BY <1>1, <1>2, <1>3 DEF FieldsOK
<1>5. SequencesOK'
  BY <1>1, <1>2, <1>3 DEF SequencesOK, IsLine
<1>6. ClosedFirst' /\ NothingAfterClose' /\ LeavingIsOut'
  BY <1>3
     DEF IInv, ClosedFirst, NothingAfterClose, LeavingIsOut, NoneCurrent
<1> QED BY <1>4, <1>5, <1>6, TypePartsNext DEF IInv

LEMMA ServerKeeps ==
  ASSUME IInv, Server
  PROVE  IInv'
<1>1. discord \in Discords
  BY TypeParts DEF IInv, SequencesOK
<1>2. ASSUME NEW c \in Places, ModeratorMoves(c)
      PROVE  IInv'
  <2>1. Seats(discord, c) \in SUBSET Discords
    BY <1>1, SeatsTyped
  <2> QED BY <1>2, <2>1, UnaskedKeeps DEF ModeratorMoves
<1>3. CASE ServerForgets
  <2> DEFINE over == [discord EXCEPT !.live = NoToken]
  <2>1. over \in Discords
    BY <1>1 DEF Discords, NoToken
  <2>2. Update(NoToken) \in Dispatches
    BY DEF Update, Dispatches, NoToken
  <2> HIDE DEF over
  <2>3. {over, Sends(over, Update(NoToken))} \in SUBSET Discords
    BY <2>1, <2>2, SendsTyped
  <2>4. Unasked("server", {over, Sends(over, Update(NoToken))})
    BY <1>3 DEF ServerForgets, over
  <2> QED BY <2>3, <2>4, UnaskedKeeps
<1>4. CASE ServerRepeats
  <2>1. Update(discord.live) \in Dispatches
    BY <1>1 DEF Update, Dispatches, Discords
  <2>2. {Sends(discord, Update(discord.live))} \in SUBSET Discords
    BY <1>1, <2>1, SendsTyped
  <2> QED BY <1>4, <2>2, UnaskedKeeps DEF ServerRepeats
<1> QED BY <1>2, <1>3, <1>4 DEF Server

LEMMA CloseKeeps ==
  ASSUME IInv, CloseBegins \/ CloseSweeps \/ CloseEnds
  PROVE  IInv'
<1>1. FieldsOK /\ SequencesOK
  BY TypeParts DEF IInv
<1>2. CASE CloseBegins
  <2>1. [discord EXCEPT !.sent = <<>>] \in Discords
    <3>1. <<>> \in Seq(Dispatches)
      BY EmptySeq
    <3> QED BY <1>1, <3>1 DEF SequencesOK, Discords
  <2>2. /\ disposal' = "cancelled" /\ events' \in 0 .. MaxEvents
        /\ discord' \in Discords
        /\ UNCHANGED <<desired, pinged, forced, reissueDue, moving, lastStatus,
                       latest, readied, pairing, unanswered, starts, client,
                       shown, leaving, evicted, lost, ignored>>
    BY <1>1, <1>2, <2>1, BoundsAssumption
       DEF CloseBegins, Happens, FieldsOK, recovery, pairs, clients, room,
           trouble
  <2>3. FieldsOK'
    BY <1>1, <2>2 DEF FieldsOK
  <2>4. SequencesOK'
    BY <1>1, <2>2 DEF SequencesOK, IsLine
  <2>5. ClosedFirst' /\ NothingAfterClose' /\ LeavingIsOut'
    BY <2>2 DEF IInv, ClosedFirst, NothingAfterClose, LeavingIsOut, NoneCurrent
  <2> QED BY <2>3, <2>4, <2>5, TypePartsNext DEF IInv
<1>3. CASE CloseSweeps
  <2>1. /\ disposal' = "closing" /\ reissueDue' = FALSE
        /\ moving' = "none" /\ client' = NoClient
        /\ UNCHANGED <<desired, pinged, forced, lastStatus, latest, readied,
                       pairing, unanswered, starts, discord, shown, leaving,
                       evicted, lost, ignored, events>>
    BY <1>3 DEF CloseSweeps, pairs, room, trouble
  <2>2. FieldsOK'
    BY <1>1, <2>1, NothingTyped DEF FieldsOK
  <2>3. SequencesOK'
    BY <1>1, <2>1 DEF SequencesOK, IsLine
  <2>4. ClosedFirst' /\ NothingAfterClose' /\ LeavingIsOut'
    BY <2>1 DEF IInv, ClosedFirst, NothingAfterClose, LeavingIsOut, NoneCurrent
  <2> QED BY <2>2, <2>3, <2>4, TypePartsNext DEF IInv
<1>4. CASE CloseEnds
  <2>1. /\ disposal = "closing" /\ disposal' = "done"
        /\ pairing' = NoCredentials
        /\ UNCHANGED <<desired, pinged, forced, reissueDue, moving, lastStatus,
                       latest, readied, unanswered, starts, client, discord,
                       shown, leaving, evicted, lost, ignored, events>>
    BY <1>4 DEF CloseEnds, recovery, clients, room, trouble
  <2>2. FieldsOK'
    BY <1>1, <2>1, NothingTyped DEF FieldsOK
  <2>3. SequencesOK'
    BY <1>1, <2>1 DEF SequencesOK, IsLine
  <2>4. ClosedFirst' /\ NothingAfterClose' /\ LeavingIsOut'
    BY <2>1 DEF IInv, ClosedFirst, NothingAfterClose, LeavingIsOut, NoneCurrent
  <2> QED BY <2>2, <2>3, <2>4, TypePartsNext DEF IInv
<1> QED BY <1>2, <1>3, <1>4

LEMMA StutterKeeps ==
  ASSUME IInv, UNCHANGED vars
  PROVE  IInv'
<1>1. UNCHANGED <<disposal, desired, pinged, forced, reissueDue, moving,
                  lastStatus, latest, readied, pairing, unanswered, starts,
                  client, shown, leaving, evicted, discord, lost,
                  ignored, events>>
  BY DEF vars, recovery, pairs, clients, room, trouble
<1>2. FieldsOK /\ SequencesOK
  BY TypeParts DEF IInv
<1>3. FieldsOK'
  BY <1>1, <1>2 DEF FieldsOK
<1>4. SequencesOK'
  BY <1>1, <1>2 DEF SequencesOK, IsLine
<1>5. ClosedFirst' /\ NothingAfterClose' /\ LeavingIsOut'
  BY <1>1 DEF IInv, ClosedFirst, NothingAfterClose, LeavingIsOut, NoneCurrent
<1> QED BY <1>3, <1>4, <1>5, TypePartsNext DEF IInv

LEMMA NextKeeps == IInv /\ [Next]_vars => IInv'
<1> SUFFICES ASSUME IInv, [Next]_vars
             PROVE  IInv'
  OBVIOUS
<1>1. CASE Room
  BY <1>1, JoinKeeps, LeaveBeginsKeeps, LeaveEndsKeeps DEF Room
<1>2. CASE Starts
  BY <1>2, StartEndsKeeps, StartThrowsKeeps DEF Starts
<1>3. CASE Service /\ ~Starts
  BY <1>3, TakeStateKeeps, TakeUpdateKeeps, ReissueTimerKeeps, MoveTimerKeeps,
     CloseKeeps DEF Service
<1>4. CASE Client
  BY <1>4, ClientKeeps
<1>5. CASE Server
  BY <1>5, ServerKeeps
<1>6. CASE UNCHANGED vars
  BY <1>6, StutterKeeps
<1> QED BY <1>1, <1>2, <1>3, <1>4, <1>5, <1>6 DEF Next, Service

-----------------------------------------------------------------------------
(* The theorems.                                                           *)

\* The strengthened invariant holds in every reachable state.
THEOREM Invariant == Spec => []IInv
BY InitEstablishes, NextKeeps, PTL DEF Spec

\* The service and its room are well typed whatever is pressed, moved or lost,
\* and of the starts in line only the last is current.
THEOREM TypeCorrect == Spec => []TypeOK
<1>1. IInv => TypeOK
  BY DEF IInv
<1> QED BY <1>1, Invariant, PTL

\* However many credentials arrive in a batch, and whatever the user, Discord or
\* a moderator does meanwhile, no client is dialed while the one before it is
\* still closing (_queueVoiceClient, _startVoiceClient, _leave).
THEOREM StartsNeverOverlap == Spec => []ClosedFirst
<1>1. IInv => ClosedFirst
  BY DEF IInv
<1> QED BY <1>1, Invariant, PTL

\* A service that has closed its client starts no other and sets no timer, also
\* when a start was still waiting for a client to close (close).
THEOREM NothingFollowsClose == Spec => []NothingAfterClose
<1>1. IInv => NothingAfterClose
  BY DEF IInv
<1> QED BY <1>1, Invariant, PTL

-----------------------------------------------------------------------------
(* Where Discord has the account.  A request is answered by a voice state, *)
(* unless it changes nothing; a moderator's move is a voice state nobody   *)
(* asked for.  So the unanswered requests can be laid along what Discord   *)
(* has sent: each was made where the account sat then, which is what the   *)
(* last voice state before that place says.  Places before the first       *)
(* dispatch that is still on its way stand for what was taken already.     *)

\* At place p of what was sent the account sat in c: 0 stands for the last voice
\* state taken, which said b, and -1 for one before it, which said x.
Says(b, x, sent, p, c) ==
    IF p = -1 THEN x = c ELSE IF p = 0 THEN b = c
    ELSE sent[p].op = "state" /\ sent[p].channel = c

NoStateAfter(sent, p) == \A q \in 1 .. Len(sent) : p < q => sent[q].op # "state"

\* The account sits where the last voice state says.
SeatedAt(b, seat, sent, p) ==
    Says(b, b, sent, p, seat) /\ NoStateAfter(sent, p)

\* The requests lie along what was sent at the places in at.  One from before the
\* last voice state taken is left only if that answered none and a later one is
\* yet to be answered.
Explains(b, x, at, asked, seat, sent) ==
    /\ \A i \in 1 .. Len(asked) : Says(b, x, sent, at[i], asked[i])
    /\ \A i, j \in 1 .. Len(asked) : i <= j => at[i] <= at[j]
    /\ \A i, j \in 1 .. Len(asked) : ~(at[i] = -1 /\ at[j] = 0)
    /\ \A i \in 1 .. Len(asked) : at[i] = -1 => at[Len(asked)] >= 1
    /\ \E p \in 0 .. Len(sent) : SeatedAt(b, seat, sent, p)

Laid(asked, sent) == [1 .. Len(asked) -> -1 .. Len(sent)]

Explainable(asked, seat, sent) ==
    \E b, x \in Places : \E at \in Laid(asked, sent) :
        Explains(b, x, at, asked, seat, sent)

\* The last request is for the channel wanted; without one, what was taken last
\* said that channel.  Once none is wanted, nothing moves the account any more.
Explained(want, asked, seat, sent) ==
    \E b, x \in Places : \E at \in Laid(asked, sent) :
        /\ Explains(b, x, at, asked, seat, sent)
        /\ asked = <<>> /\ want # NoChannel => want = b
        /\ asked # <<>> => asked[Len(asked)] = want
        /\ asked # <<>> /\ want = NoChannel => NoStateAfter(sent, at[Len(asked)])

SeatInv ==
    disposal = "none" =>
        /\ Explained(desired, unanswered, discord.seat, discord.sent)
        /\ evicted = "no" /\ desired = NoChannel => discord.seat = NoChannel
        /\ evicted # "no" /\ desired = NoChannel => unanswered = <<>>

\* Discord sends a dispatch behind the others.
LEMMA ExplainsLonger ==
  ASSUME NEW sent \in Seq(Dispatches), NEW m \in Dispatches, NEW asked \in Seq(Places),
         NEW b \in Places, NEW x \in Places, NEW at \in Laid(asked, sent), NEW seat, NEW seat2,
         Explains(b, x, at, asked, seat, sent),
         (m.op = "update" /\ seat2 = seat) \/ (m.op = "state" /\ m.channel = seat2)
  PROVE  /\ Explains(b, x, at, asked, seat2, Append(sent, m))
         /\ at \in Laid(asked, Append(sent, m))
         /\ Append(sent, m) \in Seq(Dispatches)
         /\ m.op = "update" => \A p : NoStateAfter(sent, p) => NoStateAfter(Append(sent, m), p)
<1> DEFINE longer == Append(sent, m)
<1>1. /\ longer \in Seq(Dispatches) /\ Len(sent) \in Nat /\ Len(asked) \in Nat
      /\ Len(longer) = Len(sent) + 1 /\ longer[Len(sent) + 1] = m
      /\ \A i \in 1 .. Len(sent) : longer[i] = sent[i]
  BY AppendProperties
<1> HIDE DEF longer
<1>2. /\ \A i \in -1 .. Len(sent) : i = -1 \/ i = 0 \/ i \in 1 .. Len(sent)
      /\ \A i \in 1 .. Len(longer) : i \in 1 .. Len(sent) \/ i = Len(sent) + 1
      /\ Len(sent) + 1 \in 0 .. Len(longer) /\ \A p \in 0 .. Len(sent) : p \in 0 .. Len(longer)
      /\ \A p \in 1 .. Len(longer) : ~(Len(sent) + 1 < p)
      /\ Len(sent) + 1 # 0 /\ Len(sent) + 1 # -1
  BY <1>1
<1>3. at \in Laid(asked, longer)
  <2>1. \A p \in -1 .. Len(sent) : p \in -1 .. Len(longer)
    BY <1>1
  <2>2. -1 .. Len(sent) \subseteq -1 .. Len(longer)
    BY <2>1
  <2> QED BY <2>2 DEF Laid
<1>4. \A p \in -1 .. Len(sent) : \A c : Says(b, x, sent, p, c) => Says(b, x, longer, p, c)
  BY <1>1, <1>2 DEF Says
<1>5. m.op = "update" => \A p : NoStateAfter(sent, p) => NoStateAfter(longer, p)
  BY <1>1, <1>2 DEF NoStateAfter
<1>6. \E p \in 0 .. Len(longer) : SeatedAt(b, seat2, longer, p)
  <2>1. CASE m.op = "update" /\ seat2 = seat
    <3>1. PICK p \in 0 .. Len(sent) : SeatedAt(b, seat, sent, p)
      BY DEF Explains
    <3>2. Says(b, b, longer, p, seat)
      BY <1>1, <3>1 DEF SeatedAt, Says
    <3> QED BY <1>2, <1>5, <2>1, <3>1, <3>2 DEF SeatedAt
  <2>2. CASE m.op = "state" /\ m.channel = seat2
    <3>1. SeatedAt(b, seat2, longer, Len(sent) + 1)
      BY <1>1, <1>2, <2>2 DEF SeatedAt, Says, NoStateAfter
    <3> QED BY <1>2, <3>1
  <2> QED BY <2>1, <2>2
<1>7. \A i \in 1 .. Len(asked) : Says(b, x, longer, at[i], asked[i])
  BY <1>4 DEF Explains, Laid
<1>8. Explains(b, x, at, asked, seat2, longer)
  BY <1>6, <1>7 DEF Explains
<1> QED BY <1>1, <1>3, <1>5, <1>8 DEF longer

\* A request that left the account in c is made there.
LEMMA ExplainsAsked ==
  ASSUME NEW sent \in Seq(Dispatches), NEW asked \in Seq(Places), NEW c \in Places,
         Explainable(asked, c, sent)
  PROVE  Explained(c, Append(asked, c), c, sent)
<1>1. PICK b \in Places, x \in Places, at \in Laid(asked, sent) :
        Explains(b, x, at, asked, c, sent)
  BY DEF Explainable
<1>2. PICK p \in 0 .. Len(sent) : SeatedAt(b, c, sent, p)
  BY <1>1 DEF Explains
<1> DEFINE more == Append(asked, c)
           n == Len(asked)
           at2 == [i \in 1 .. n + 1 |-> IF i = n + 1 THEN p ELSE at[i]]
<1>3. /\ n \in Nat /\ Len(sent) \in Nat /\ Len(more) = n + 1 /\ more[n + 1] = c
      /\ \A i \in 1 .. n : more[i] = asked[i]
      /\ more # <<>>
  BY AppendProperties
<1>4. /\ at2 \in [1 .. n + 1 -> -1 .. Len(sent)] /\ at2[n + 1] = p
      /\ \A i \in 1 .. n : at2[i] = at[i]
      /\ \A i \in 1 .. n : at[i] \in -1 .. Len(sent)
  <2>1. \A i \in 1 .. n : at[i] \in -1 .. Len(sent)
    BY DEF Laid
  <2>2. p \in -1 .. Len(sent)
    BY <1>3
  <2>3. \A i \in 1 .. n + 1 : (i = n + 1 \/ i \in 1 .. n) /\ (i \in 1 .. n => i # n + 1)
    BY <1>3
  <2>4. n + 1 \in 1 .. n + 1 /\ \A i \in 1 .. n : i \in 1 .. n + 1 /\ i # n + 1
    BY <1>3
  <2> HIDE DEF n
  <2> QED BY <2>1, <2>2, <2>3, <2>4
<1> HIDE DEF more, at2, n
<1>5. /\ \A i \in 1 .. n + 1 : i \in 1 .. n \/ i = n + 1
      /\ n + 1 \in 1 .. n + 1
      /\ \A i \in 1 .. n : ~(n + 1 <= i)
      /\ \A i \in 1 .. n : n \in 1 .. n /\ i <= n
  BY <1>3
<1>6. \A i \in 1 .. n : at[i] <= p
  <2> SUFFICES ASSUME NEW i \in 1 .. n, at[i] >= 1 PROVE at[i] <= p
    BY <1>3, <1>4
  <2>1. at[i] \in 1 .. Len(sent) /\ at[i] # -1 /\ at[i] # 0
    BY <1>3, <1>4
  <2>2. Says(b, x, sent, at[i], asked[i])
    BY <1>1 DEF Explains, n
  <2>3. sent[at[i]].op = "state"
    BY <2>1, <2>2 DEF Says
  <2>4. ~(p < at[i])
    BY <1>2, <2>1, <2>3 DEF SeatedAt, NoStateAfter
  <2> QED BY <2>1, <2>4
<1>7. \A i \in 1 .. n : at[i] = -1 => p >= 1
  <2> SUFFICES ASSUME NEW i \in 1 .. n, at[i] = -1 PROVE p >= 1
    OBVIOUS
  <2>1. at[n] >= 1
    BY <1>1 DEF Explains, n
  <2>2. at[n] <= p /\ at[n] \in -1 .. Len(sent)
    BY <1>4, <1>5, <1>6
  <2> QED BY <2>1, <2>2
<1>8. \A i \in 1 .. Len(more) : Says(b, x, sent, at2[i], more[i])
  <2>1. Says(b, x, sent, p, c)
    <3>1. p # -1
      OBVIOUS
    <3> QED BY <1>2, <3>1 DEF SeatedAt, Says
  <2>2. \A i \in 1 .. n : Says(b, x, sent, at[i], asked[i])
    BY <1>1 DEF Explains, n
  <2> QED BY <1>3, <1>4, <1>5, <2>1, <2>2
<1>9. \A i, j \in 1 .. n : i <= j => at[i] <= at[j]
  BY <1>1 DEF Explains, n
<1>10. \A i, j \in 1 .. n : ~(at[i] = -1 /\ at[j] = 0)
  BY <1>1 DEF Explains, n
<1>11. \A i, j \in 1 .. Len(more) : i <= j => at2[i] <= at2[j]
  <2> SUFFICES ASSUME NEW i \in 1 .. n + 1, NEW j \in 1 .. n + 1, i <= j
               PROVE  at2[i] <= at2[j]
    BY <1>3
  <2>1. CASE i \in 1 .. n /\ j \in 1 .. n
    BY <1>4, <1>9, <2>1
  <2>2. CASE i \in 1 .. n /\ j = n + 1
    BY <1>4, <1>6, <2>2
  <2>3. CASE i = n + 1 /\ j = n + 1
    BY <1>4, <2>3
  <2> QED BY <1>5, <2>1, <2>2, <2>3
<1>12. \A i, j \in 1 .. Len(more) : ~(at2[i] = -1 /\ at2[j] = 0)
  <2> SUFFICES ASSUME NEW i \in 1 .. n + 1, NEW j \in 1 .. n + 1, at2[i] = -1, at2[j] = 0
               PROVE  FALSE
    BY <1>3
  <2>1. i \in 1 .. n
    BY <1>4, <1>5
  <2>2. p >= 1 /\ at[i] = -1
    BY <1>4, <1>7, <2>1
  <2> QED BY <1>4, <1>5, <1>10, <2>1, <2>2
<1>13. \A i \in 1 .. Len(more) : at2[i] = -1 => at2[Len(more)] >= 1
  BY <1>3, <1>4, <1>5, <1>7
<1>14. Explains(b, x, at2, more, c, sent)
  BY <1>2, <1>8, <1>11, <1>12, <1>13 DEF Explains
<1>15. NoStateAfter(sent, at2[Len(more)])
  BY <1>2, <1>3, <1>4 DEF SeatedAt
<1>16. at2 \in Laid(more, sent)
  BY <1>3, <1>4 DEF Laid
<1>17. Explained(c, more, c, sent)
  BY <1>3, <1>14, <1>15, <1>16 DEF Explained
<1> QED BY <1>17 DEF more

LEMMA ExplainedIsExplainable ==
  \A want, asked, seat, sent :
     Explained(want, asked, seat, sent) => Explainable(asked, seat, sent)
BY DEF Explained, Explainable

LEMMA ExplainedLonger ==
  ASSUME NEW sent \in Seq(Dispatches), NEW m \in Dispatches, NEW asked \in Seq(Places),
         NEW seat, NEW seat2,
         (m.op = "update" /\ seat2 = seat) \/ (m.op = "state" /\ m.channel = seat2)
  PROVE  /\ Explainable(asked, seat, sent) => Explainable(asked, seat2, Append(sent, m))
         /\ \A want : /\ Explained(want, asked, seat, sent)
                      /\ m.op = "update" \/ want # NoChannel \/ asked = <<>>
                      => Explained(want, asked, seat2, Append(sent, m))
<1>1. ASSUME Explainable(asked, seat, sent) PROVE Explainable(asked, seat2, Append(sent, m))
  BY <1>1, ExplainsLonger DEF Explainable
<1>2. ASSUME NEW want, Explained(want, asked, seat, sent),
             m.op = "update" \/ want # NoChannel \/ asked = <<>>
      PROVE  Explained(want, asked, seat2, Append(sent, m))
  <2>1. PICK b \in Places, x \in Places, at \in Laid(asked, sent) :
          /\ Explains(b, x, at, asked, seat, sent)
          /\ asked = <<>> /\ want # NoChannel => want = b
          /\ asked # <<>> => asked[Len(asked)] = want
          /\ asked # <<>> /\ want = NoChannel => NoStateAfter(sent, at[Len(asked)])
    BY <1>2 DEF Explained
  <2>2. /\ Explains(b, x, at, asked, seat2, Append(sent, m))
        /\ at \in Laid(asked, Append(sent, m))
        /\ m.op = "update" => \A p : NoStateAfter(sent, p) => NoStateAfter(Append(sent, m), p)
    BY <2>1, ExplainsLonger
  <2> QED BY <1>2, <2>1, <2>2 DEF Explained
<1> QED BY <1>1, <1>2

\* The account is seated elsewhere, which the voice state says, before its token
\* or after it.
LEMMA SeatsExplained ==
  ASSUME NEW d \in Discords, NEW c \in Places, NEW e \in Seats(d, c),
         NEW asked \in Seq(Places)
  PROVE  /\ e.seat = c
         /\ Explainable(asked, d.seat, d.sent) => Explainable(asked, c, e.sent)
         /\ \A want : /\ Explained(want, asked, d.seat, d.sent)
                      /\ want # NoChannel \/ asked = <<>>
                      => Explained(want, asked, c, e.sent)
<1> DEFINE said == State(c)
           token == Update(d.issued + 1)
<1>1. /\ said \in Dispatches /\ said.op = "state" /\ said.channel = c
      /\ token \in Dispatches /\ token.op = "update"
  BY IssuedTyped DEF State, Update, Dispatches
<1>2. /\ e.seat = c
      /\ \/ e.sent = Append(d.sent, said)
         \/ e.sent = Append(Append(d.sent, said), token)
         \/ e.sent = Append(Append(d.sent, token), said)
  BY DEF Seats, Sends, Discords
<1>3. d.sent \in Seq(Dispatches)
  BY DEF Discords
<1> HIDE DEF said, token
<1>4. Append(d.sent, said) \in Seq(Dispatches) /\ Append(d.sent, token) \in Seq(Dispatches)
  BY <1>1, <1>3
<1>5. CASE e.sent = Append(d.sent, said)
  BY <1>1, <1>2, <1>3, <1>5, ExplainedLonger
<1>6. CASE e.sent = Append(Append(d.sent, said), token)
  <2>1. /\ Explainable(asked, d.seat, d.sent) => Explainable(asked, c, Append(d.sent, said))
        /\ \A want : /\ Explained(want, asked, d.seat, d.sent)
                     /\ want # NoChannel \/ asked = <<>>
                     => Explained(want, asked, c, Append(d.sent, said))
    BY <1>1, <1>3, ExplainedLonger
  <2>2. /\ Explainable(asked, c, Append(d.sent, said)) => Explainable(asked, c, e.sent)
        /\ \A want : Explained(want, asked, c, Append(d.sent, said)) =>
                     Explained(want, asked, c, e.sent)
    BY <1>1, <1>4, <1>6, ExplainedLonger
  <2> QED BY <1>2, <2>1, <2>2
<1>7. CASE e.sent = Append(Append(d.sent, token), said)
  <2>1. /\ Explainable(asked, d.seat, d.sent) => Explainable(asked, d.seat, Append(d.sent, token))
        /\ \A want : Explained(want, asked, d.seat, d.sent) =>
                     Explained(want, asked, d.seat, Append(d.sent, token))
    BY <1>1, <1>3, ExplainedLonger
  <2>2. /\ Explainable(asked, d.seat, Append(d.sent, token)) => Explainable(asked, c, e.sent)
        /\ \A want : /\ Explained(want, asked, d.seat, Append(d.sent, token))
                     /\ want # NoChannel \/ asked = <<>>
                     => Explained(want, asked, c, e.sent)
    BY <1>1, <1>4, <1>7, ExplainedLonger
  <2> QED BY <1>2, <2>1, <2>2
<1> QED BY <1>2, <1>5, <1>6, <1>7

\* A request leaves the account where it asked for, and is made there.
LEMMA RequestExplained ==
  ASSUME NEW d \in Discords, NEW request \in Requests, request # Ping, NEW e \in Acts(d, request),
         NEW asked \in Seq(Places), Explainable(asked, d.seat, d.sent)
  PROVE  /\ e.seat = request.channel
         /\ Explained(request.channel, Append(asked, request.channel), e.seat, e.sent)
<1> DEFINE c == request.channel
<1>1. request.op # "ping" /\ c \in Places
  BY DEF Requests, Voice, Again
<1>2. e \in Discords
  BY ActsTyped
<1>3. e.seat = c /\ Explainable(asked, c, e.sent)
  <2>1. CASE c # d.seat
    <3>1. e \in Seats(d, c)
      BY <1>1, <2>1 DEF Acts
    <3> QED BY <1>1, <3>1, SeatsExplained
  <2>2. CASE c = d.seat
    <3>1. e = d \/ e = Sends(d, State(d.seat))
      BY <1>1, <2>2 DEF Acts
    <3>2. CASE e = d
      BY <2>2, <3>2
    <3>3. CASE e = Sends(d, State(d.seat))
      <4>1. /\ State(d.seat) \in Dispatches /\ State(d.seat).op = "state"
            /\ State(d.seat).channel = d.seat /\ d.sent \in Seq(Dispatches)
        BY DEF State, Dispatches, Discords
      <4>2. e.seat = d.seat /\ e.sent = Append(d.sent, State(d.seat))
        BY <3>3 DEF Sends, Discords
      <4> QED BY <2>2, <4>1, <4>2, ExplainedLonger
    <3> QED BY <3>1, <3>2, <3>3
  <2> QED BY <2>1, <2>2
<1>4. e.sent \in Seq(Dispatches)
  BY <1>2 DEF Discords
<1> HIDE DEF c
<1>5. Explained(c, Append(asked, c), c, e.sent)
  BY <1>1, <1>3, <1>4, ExplainsAsked
<1> QED BY <1>3, <1>5 DEF c

\* A token, issued again, or over, moves nobody.
LEMMA TokenExplained ==
  ASSUME NEW d \in Discords, NEW t \in Nat, NEW e,
         e.seat = d.seat, e.sent = d.sent \/ e.sent = Append(d.sent, Update(t)),
         NEW want, NEW asked \in Seq(Places), Explained(want, asked, d.seat, d.sent)
  PROVE  Explained(want, asked, e.seat, e.sent)
<1>1. /\ Update(t) \in Dispatches /\ Update(t).op = "update" /\ d.sent \in Seq(Dispatches)
  BY DEF Update, Dispatches, Discords
<1> QED BY <1>1, ExplainedLonger

LEMMA PingExplained ==
  ASSUME NEW d \in Discords, NEW e \in Acts(d, Ping),
         NEW want, NEW asked \in Seq(Places), Explained(want, asked, d.seat, d.sent)
  PROVE  Explained(want, asked, e.seat, e.sent)
<1>1. e = d \/ e = Reissues(d)
  BY DEF Acts, Ping
<1>2. /\ d.live \in Nat /\ d.issued + 1 \in Nat
      /\ Reissues(d).seat = d.seat
      /\ \/ Reissues(d).sent = Append(d.sent, Update(d.live))
         \/ Reissues(d).sent = Append(d.sent, Update(d.issued + 1))
  BY DEF Reissues, Sends, Discords
<1>3. CASE e = d
  BY <1>3
<1>4. CASE e = Reissues(d)
  BY <1>2, <1>4, TokenExplained
<1> QED BY <1>1, <1>3, <1>4

\* What was sent says of later places the same once its head is taken, and of the
\* first place what the head says.
LEMMA SaysOfTail ==
  ASSUME NEW sent \in Seq(Dispatches), sent # <<>>
  PROVE  /\ Tail(sent) \in Seq(Dispatches) /\ Len(sent) \in Nat /\ Len(sent) >= 1
         /\ Len(Tail(sent)) = Len(sent) - 1
         /\ \A b, x, b2, x2, a : \A p \in 2 .. Len(sent) :
               Says(b, x, sent, p, a) => Says(b2, x2, Tail(sent), p - 1, a)
         /\ \A b, x, a : Says(b, x, sent, 1, a) =>
               Head(sent).op = "state" /\ Head(sent).channel = a
         /\ \A p \in 1 .. Len(sent) : NoStateAfter(sent, p) => NoStateAfter(Tail(sent), p - 1)
         /\ NoStateAfter(sent, 0) => NoStateAfter(Tail(sent), 0) /\ Head(sent).op # "state"
<1> DEFINE t == Tail(sent)
           h == Head(sent)
<1>1. /\ t \in Seq(Dispatches) /\ Len(sent) \in Nat /\ Len(sent) >= 1 /\ h = sent[1]
      /\ Len(t) = Len(sent) - 1
      /\ \A i \in 1 .. Len(t) : t[i] = sent[i + 1]
  BY HeadTailProperties
<1> HIDE DEF t, h
<1>2. \A p \in 2 .. Len(sent) : /\ p - 1 \in 1 .. Len(t) /\ (p - 1) + 1 = p
                                /\ p # -1 /\ p # 0 /\ p - 1 # -1 /\ p - 1 # 0
  BY <1>1
<1>3. /\ \A p \in 1 .. Len(sent) : \A q \in 1 .. Len(t) :
            p - 1 < q => q + 1 \in 1 .. Len(sent) /\ p < q + 1
      /\ \A q \in 1 .. Len(t) : q + 1 \in 1 .. Len(sent) /\ 0 < q + 1
      /\ 1 \in 1 .. Len(sent) /\ 0 < 1
  BY <1>1
<1>4. \A b, x, b2, x2, a : \A p \in 2 .. Len(sent) :
        Says(b, x, sent, p, a) => Says(b2, x2, t, p - 1, a)
  BY <1>1, <1>2 DEF Says
<1>5. \A b, x, a : Says(b, x, sent, 1, a) => h.op = "state" /\ h.channel = a
  <2>1. 1 # -1 /\ 1 # 0
    OBVIOUS
  <2> QED BY <1>1, <2>1 DEF Says
<1>6. \A p \in 1 .. Len(sent) : NoStateAfter(sent, p) => NoStateAfter(t, p - 1)
  BY <1>1, <1>3 DEF NoStateAfter
<1>7. NoStateAfter(sent, 0) => NoStateAfter(t, 0) /\ h.op # "state"
  BY <1>1, <1>3 DEF NoStateAfter
<1> QED BY <1>1, <1>4, <1>5, <1>6, <1>7 DEF t, h

LEMMA SeatedOfTail ==
  ASSUME NEW sent \in Seq(Dispatches), sent # <<>>, NEW b, NEW seat, NEW p \in 0 .. Len(sent),
         SeatedAt(b, seat, sent, p)
  PROVE  /\ Head(sent).op = "state" =>
              \E p2 \in 0 .. Len(Tail(sent)) : SeatedAt(Head(sent).channel, seat, Tail(sent), p2)
         /\ Head(sent).op # "state" =>
              \E p2 \in 0 .. Len(Tail(sent)) : SeatedAt(b, seat, Tail(sent), p2)
<1> DEFINE t == Tail(sent)
           h == Head(sent)
           B == IF h.op = "state" THEN h.channel ELSE b
<1>1. /\ Len(sent) \in Nat /\ Len(sent) >= 1 /\ Len(t) = Len(sent) - 1
      /\ \A p1 \in 2 .. Len(sent) : Says(b, b, sent, p1, seat) => Says(B, B, t, p1 - 1, seat)
      /\ Says(b, b, sent, 1, seat) => h.op = "state" /\ h.channel = seat
      /\ \A p1 \in 1 .. Len(sent) : NoStateAfter(sent, p1) => NoStateAfter(t, p1 - 1)
      /\ NoStateAfter(sent, 0) => NoStateAfter(t, 0) /\ h.op # "state"
  BY SaysOfTail
<1> HIDE DEF t, h
<1>2. Says(b, b, sent, p, seat) /\ NoStateAfter(sent, p)
  BY DEF SeatedAt
<1>3. \E p2 \in 0 .. Len(t) : SeatedAt(B, seat, t, p2)
  <2>1. CASE p = 0
    <3>1. b = seat /\ NoStateAfter(t, 0) /\ B = b
      BY <1>1, <1>2, <2>1 DEF Says
    <3>2. SeatedAt(B, seat, t, 0) /\ 0 \in 0 .. Len(t)
      BY <1>1, <3>1 DEF SeatedAt, Says
    <3> QED BY <3>2
  <2>2. CASE p = 1
    <3>1. B = seat /\ NoStateAfter(t, 1 - 1)
      BY <1>1, <1>2, <2>2
    <3>2. SeatedAt(B, seat, t, 0) /\ 0 \in 0 .. Len(t)
      BY <1>1, <3>1 DEF SeatedAt, Says
    <3> QED BY <3>2
  <2>3. CASE p \in 2 .. Len(sent)
    <3>1. p \in 1 .. Len(sent) /\ p - 1 \in 0 .. Len(t)
      BY <1>1, <2>3
    <3>2. SeatedAt(B, seat, t, p - 1)
      BY <1>1, <1>2, <2>3, <3>1 DEF SeatedAt
    <3> QED BY <3>1, <3>2
  <2>4. p = 0 \/ p = 1 \/ p \in 2 .. Len(sent)
    BY <1>1
  <2> QED BY <2>1, <2>2, <2>3, <2>4
<1> QED BY <1>3 DEF t, h

\* A voice state that nothing asked for, or that follows what is wanted, leaves no
\* request behind that could take a later one for its answer.
LEMMA ExplainedAfresh ==
  ASSUME NEW sent \in Seq(Dispatches), sent # <<>>, Head(sent).op = "state",
         Head(sent).channel \in Places,
         NEW asked, NEW seat, Explainable(asked, seat, sent)
  PROVE  Explained(Head(sent).channel, <<>>, seat, Tail(sent))
<1> DEFINE c == Head(sent).channel
           t == Tail(sent)
<1>1. PICK p \in 0 .. Len(sent), b \in Places : SeatedAt(b, seat, sent, p)
  BY DEF Explainable, Explains
<1>2. \E p2 \in 0 .. Len(t) : SeatedAt(c, seat, t, p2)
  BY <1>1, SeatedOfTail
<1> HIDE DEF c, t
<1>3. Len(<<>>) = 0 /\ 1 .. Len(<<>>) = {}
  OBVIOUS
<1>4. [i \in {} |-> 0] \in Laid(<<>>, t)
  BY <1>3 DEF Laid
<1>5. c \in Places
  BY DEF c
<1>6. \A at : Explains(c, c, at, <<>>, seat, t)
  BY <1>2, <1>3 DEF Explains
<1>7. Explained(c, <<>>, seat, t)
  BY <1>4, <1>5, <1>6 DEF Explained
<1> QED BY <1>7 DEF c, t

\* The head answers the request at k: the requests behind it are left.
LEMMA ExplainedAnswered ==
  ASSUME NEW sent \in Seq(Dispatches), sent # <<>>, Head(sent).op = "state",
         Head(sent).channel \in Places,
         NEW asked \in Seq(Places), NEW seat, NEW want, Explained(want, asked, seat, sent),
         NEW k \in 1 .. Len(asked), asked[k] = Head(sent).channel
  PROVE  Explained(want, SubSeq(asked, k + 1, Len(asked)), seat, Tail(sent))
<1> DEFINE c == Head(sent).channel
           t == Tail(sent)
           left == SubSeq(asked, k + 1, Len(asked))
           n == Len(asked)
<1>1. PICK b \in Places, x \in Places, at \in Laid(asked, sent) :
        /\ Explains(b, x, at, asked, seat, sent)
        /\ asked = <<>> /\ want # NoChannel => want = b
        /\ asked # <<>> => asked[n] = want
        /\ asked # <<>> /\ want = NoChannel => NoStateAfter(sent, at[n])
  BY DEF Explained
<1>2. /\ n \in Nat /\ k \in 1 .. n /\ n \in 1 .. n /\ asked # <<>>
      /\ left \in Seq(Places) /\ Len(left) = n - k
      /\ \A i \in 1 .. Len(left) : left[i] = asked[i + k]
  <2>1. n \in Nat /\ k \in 1 .. n /\ n \in 1 .. n /\ asked # <<>>
    BY EmptySeq
  <2>2. \A i \in (k + 1) .. n : asked[i] \in Places
    BY <2>1
  <2>3. left \in Seq(Places)
    BY <2>1, <2>2, SubSeqProperties
  <2>4. /\ Len(left) = IF k + 1 <= n THEN n - (k + 1) + 1 ELSE 0
        /\ \A i \in 1 .. (n - (k + 1) + 1) : left[i] = asked[k + 1 + i - 1]
    BY <2>1, <2>2, SubSeqProperties
  <2>5. \A i \in 1 .. Len(left) : i \in 1 .. (n - (k + 1) + 1) /\ k + 1 + i - 1 = i + k
    BY <2>1, <2>4
  <2> QED BY <2>1, <2>3, <2>4, <2>5
<1>3. /\ t \in Seq(Dispatches) /\ Len(sent) \in Nat /\ Len(sent) >= 1 /\ Len(t) = Len(sent) - 1
      /\ \A a : \A p \in 2 .. Len(sent) : Says(b, x, sent, p, a) => Says(c, c, t, p - 1, a)
      /\ \A a : Says(b, x, sent, 1, a) => c = a
      /\ \A p \in 1 .. Len(sent) : NoStateAfter(sent, p) => NoStateAfter(t, p - 1)
      /\ ~NoStateAfter(sent, 0)
  BY SaysOfTail
<1>4. \A i \in 1 .. n : at[i] \in -1 .. Len(sent) /\ Says(b, x, sent, at[i], asked[i])
  BY <1>1 DEF Explains, Laid
<1>5. /\ \A i, j \in 1 .. n : i <= j => at[i] <= at[j]
      /\ \A i, j \in 1 .. n : ~(at[i] = -1 /\ at[j] = 0)
      /\ \A i \in 1 .. n : at[i] = -1 => at[n] >= 1
  BY <1>1 DEF Explains
<1>6. \E p2 \in 0 .. Len(t) : SeatedAt(c, seat, t, p2)
  BY <1>1, SeatedOfTail DEF Explains
<1>7. asked[k] = c /\ c \in Places
  OBVIOUS
<1> HIDE DEF c, t, left, n
<1> DEFINE at2 == [i \in 1 .. Len(left) |-> IF at[i + k] >= 1 THEN at[i + k] - 1 ELSE 0]
<1>8. \A i \in 1 .. Len(left) : i + k \in 1 .. n /\ k <= i + k
  BY <1>2
<1>9. \A i \in 1 .. Len(left) : /\ at2[i] = IF at[i + k] >= 1 THEN at[i + k] - 1 ELSE 0
                                /\ at2[i] \in 0 .. Len(t)
  BY SMTT(20), <1>2, <1>3, <1>4, <1>8
<1>10. at2 \in Laid(left, t)
  <2>1. \A i \in 1 .. Len(left) : at2[i] \in -1 .. Len(t)
    BY <1>3, <1>9
  <2>2. at2 \in [1 .. Len(left) -> -1 .. Len(t)]
    BY <2>1
  <2> QED BY <2>2 DEF Laid
<1> HIDE DEF at2
<1>11. ASSUME NEW i \in 1 .. Len(left) PROVE Says(c, c, t, at2[i], left[i])
  <2> DEFINE p == at[i + k]
             a == left[i]
  <2>1. /\ p \in -1 .. Len(sent) /\ Says(b, x, sent, p, a) /\ a = asked[i + k]
        /\ at2[i] = IF p >= 1 THEN p - 1 ELSE 0
    BY <1>2, <1>4, <1>8, <1>9
  <2>2. p <= 0 => c = a
    <3> SUFFICES ASSUME p <= 0 PROVE c = a
      OBVIOUS
    <3>1. at[k] <= p /\ at[k] \in -1 .. Len(sent) /\ Says(b, x, sent, at[k], c)
      BY <1>2, <1>4, <1>5, <1>7, <1>8
    <3>2. ~(at[k] = -1 /\ p = 0)
      BY <1>2, <1>5, <1>8
    <3> HIDE DEF p, a
    <3>3. (at[k] = -1 /\ p = -1) \/ (at[k] = 0 /\ p = 0)
      BY <1>3, <2>1, <3>1, <3>2
    <3> QED BY <2>1, <3>1, <3>3 DEF Says
  <2> HIDE DEF p, a
  <2>3. CASE p <= 0
    <3>1. at2[i] = 0
      BY <1>3, <2>1, <2>3
    <3> QED BY <2>2, <2>3, <3>1 DEF Says, a
  <2>4. CASE p = 1
    <3>1. at2[i] = 0 /\ c = a
      BY <1>3, <2>1, <2>4
    <3> QED BY <3>1 DEF Says, a
  <2>5. CASE p \in 2 .. Len(sent)
    <3>1. at2[i] = p - 1
      BY <1>3, <2>1, <2>5
    <3> QED BY <1>3, <2>1, <2>5, <3>1 DEF a
  <2>6. p <= 0 \/ p = 1 \/ p \in 2 .. Len(sent)
    BY <1>3, <2>1
  <2> QED BY <2>3, <2>4, <2>5, <2>6
<1>12. \A i, j \in 1 .. Len(left) : i <= j => at2[i] <= at2[j]
  <2> SUFFICES ASSUME NEW i \in 1 .. Len(left), NEW j \in 1 .. Len(left), i <= j
               PROVE  at2[i] <= at2[j]
    OBVIOUS
  <2>1. i + k <= j + k
    BY <1>2
  <2> DEFINE p == at[i + k]
             r == at[j + k]
  <2>2. p <= r /\ p \in -1 .. Len(sent) /\ r \in -1 .. Len(sent)
    BY <1>4, <1>5, <1>8, <2>1
  <2>3. at2[i] = IF p >= 1 THEN p - 1 ELSE 0
    BY <1>9
  <2>4. at2[j] = IF r >= 1 THEN r - 1 ELSE 0
    BY <1>9
  <2> HIDE DEF p, r
  <2> QED BY <1>3, <2>2, <2>3, <2>4
<1>13. \A i \in 1 .. Len(left) : at2[i] # -1
  BY <1>3, <1>9
<1>14. Explains(c, c, at2, left, seat, t)
  BY <1>6, <1>11, <1>12, <1>13 DEF Explains
<1>15. left = <<>> => want = c
  <2> SUFFICES ASSUME left = <<>> PROVE want = c
    OBVIOUS
  <2>1. Len(left) = 0
    BY EmptySeq
  <2>2. k = n
    BY <1>2, <2>1
  <2> QED BY <1>1, <1>2, <1>7, <2>2
<1>16. ASSUME left # <<>>
       PROVE  /\ left[Len(left)] = want
              /\ want = NoChannel => NoStateAfter(t, at2[Len(left)])
  <2>1. Len(left) # 0 /\ Len(left) \in Nat
    BY <1>2, <1>16, EmptySeq
  <2>2. Len(left) \in 1 .. Len(left) /\ Len(left) + k = n
    BY <1>2, <2>1
  <2>3. left[Len(left)] = want
    BY <1>1, <1>2, <2>2
  <2>4. ASSUME want = NoChannel PROVE NoStateAfter(t, at2[Len(left)])
    <3>1. NoStateAfter(sent, at[n]) /\ at[n] \in -1 .. Len(sent)
      BY <1>1, <1>2, <1>4, <2>4
    <3>2. at[n] # 0 /\ at[n] # -1
      <4>1. at[n] # 0
        BY <1>3, <3>1
      <4>2. at[n] = -1 => at[n] >= 1
        BY <1>2, <1>5
      <4> QED BY <4>1, <4>2
    <3>3. at[n] \in 1 .. Len(sent)
      BY <1>3, <3>1, <3>2
    <3>4. at2[Len(left)] = at[n] - 1
      <4>1. at2[Len(left)] = IF at[Len(left) + k] >= 1 THEN at[Len(left) + k] - 1 ELSE 0
        BY <1>9, <2>2
      <4>2. at[n] >= 1
        BY <1>3, <3>3
      <4> QED BY <2>2, <4>1, <4>2
    <3> QED BY <1>3, <3>1, <3>3, <3>4
  <2> QED BY <2>3, <2>4
<1>17. Explained(want, left, seat, t)
  BY <1>7, <1>10, <1>14, <1>15, <1>16 DEF Explained
<1> QED BY <1>17 DEF left, t, n

\* Nobody in a channel: a voice state that answers nothing is passed over, and the
\* leave is yet to be answered.
LEMMA ExplainedPassedOver ==
  ASSUME NEW sent \in Seq(Dispatches), sent # <<>>, Head(sent).op = "state",
         Head(sent).channel \in Places,
         NEW asked \in Seq(Places), NEW seat, Explained(NoChannel, asked, seat, sent),
         \A i \in 1 .. Len(asked) : asked[i] # Head(sent).channel
  PROVE  Explained(NoChannel, asked, seat, Tail(sent))
<1> DEFINE c == Head(sent).channel
           t == Tail(sent)
           n == Len(asked)
<1>1. PICK b \in Places, x \in Places, at \in Laid(asked, sent) :
        /\ Explains(b, x, at, asked, seat, sent)
        /\ asked # <<>> => asked[n] = NoChannel /\ NoStateAfter(sent, at[n])
  BY DEF Explained
<1> DEFINE x2 == IF \E i \in 1 .. n : at[i] = 0 THEN b ELSE x
<1>2. /\ t \in Seq(Dispatches) /\ Len(sent) \in Nat /\ Len(sent) >= 1 /\ Len(t) = Len(sent) - 1
      /\ \A a : \A p \in 2 .. Len(sent) : Says(b, x, sent, p, a) => Says(c, x2, t, p - 1, a)
      /\ \A a : Says(b, x, sent, 1, a) => c = a
      /\ \A p \in 1 .. Len(sent) : NoStateAfter(sent, p) => NoStateAfter(t, p - 1)
      /\ ~NoStateAfter(sent, 0)
  BY SaysOfTail
<1>3. \A i \in 1 .. n : at[i] \in -1 .. Len(sent) /\ Says(b, x, sent, at[i], asked[i])
  BY <1>1 DEF Explains, Laid
<1>4. /\ \A i, j \in 1 .. n : i <= j => at[i] <= at[j]
      /\ \A i, j \in 1 .. n : ~(at[i] = -1 /\ at[j] = 0)
      /\ \A i \in 1 .. n : at[i] = -1 => at[n] >= 1
  BY <1>1 DEF Explains
<1>5. \E p2 \in 0 .. Len(t) : SeatedAt(c, seat, t, p2)
  BY <1>1, SeatedOfTail DEF Explains
<1>6. n \in Nat /\ x2 \in Places /\ c \in Places
  OBVIOUS
<1>7. \A i \in 1 .. n : asked[i] # c
  OBVIOUS
<1> HIDE DEF c, t, n, x2
<1>8. \A i \in 1 .. n : at[i] # 1
  BY <1>2, <1>3, <1>7
<1> DEFINE at2 == [i \in 1 .. n |-> IF at[i] >= 2 THEN at[i] - 1 ELSE -1]
<1>9. \A i \in 1 .. n : /\ at2[i] = IF at[i] >= 2 THEN at[i] - 1 ELSE -1
                        /\ at2[i] \in -1 .. Len(t) /\ at2[i] # 0
  BY <1>2, <1>3
<1>10. at2 \in Laid(asked, t)
  <2>1. at2 \in [1 .. n -> -1 .. Len(t)]
    BY <1>9
  <2> QED BY <2>1 DEF Laid, n
<1> HIDE DEF at2
<1>11. ASSUME NEW i \in 1 .. n PROVE Says(c, x2, t, at2[i], asked[i])
  <2>1. CASE at[i] \in 2 .. Len(sent)
    <3>1. at2[i] = at[i] - 1
      BY <1>2, <1>9, <2>1
    <3> QED BY <1>2, <1>3, <2>1, <3>1
  <2>2. CASE at[i] = 0
    <3>1. at2[i] = -1 /\ x2 = b /\ b = asked[i]
      BY <1>3, <1>9, <2>2 DEF Says, x2
    <3> QED BY <3>1 DEF Says
  <2>3. CASE at[i] = -1
    <3>1. at2[i] = -1 /\ x2 = x /\ x = asked[i]
      BY <1>3, <1>4, <1>9, <2>3 DEF Says, x2
    <3> QED BY <3>1 DEF Says
  <2>4. at[i] \in 2 .. Len(sent) \/ at[i] = 0 \/ at[i] = -1
    BY SMTT(20), <1>2, <1>3, <1>8
  <2> QED BY <2>1, <2>2, <2>3, <2>4
<1>12. \A i, j \in 1 .. n : i <= j => at2[i] <= at2[j]
  <2> SUFFICES ASSUME NEW i \in 1 .. n, NEW j \in 1 .. n, i <= j PROVE at2[i] <= at2[j]
    OBVIOUS
  <2>1. at[i] <= at[j] /\ at[i] \in -1 .. Len(sent) /\ at[j] \in -1 .. Len(sent)
    BY <1>3, <1>4
  <2> QED BY SMTT(20), <1>2, <1>9, <2>1
<1>13. ASSUME asked # <<>> PROVE /\ at[n] \in 2 .. Len(sent) /\ n \in 1 .. n
                                 /\ at2[n] >= 1 /\ NoStateAfter(t, at2[n])
  <2>1. n \in 1 .. n
    BY <1>13, EmptySeq DEF n
  <2>2. at[n] # 0 /\ at[n] # -1 /\ at[n] # 1 /\ at[n] \in -1 .. Len(sent)
    <3>1. at[n] # 0
      BY <1>1, <1>2, <1>13
    <3>2. at[n] = -1 => at[n] >= 1
      BY <1>4, <2>1
    <3> QED BY <1>3, <1>8, <2>1, <3>1, <3>2
  <2>3. at[n] \in 2 .. Len(sent) /\ at[n] \in 1 .. Len(sent)
    BY <1>2, <2>2
  <2>4. at2[n] = at[n] - 1 /\ at2[n] >= 1
    BY <1>2, <1>9, <2>1, <2>3
  <2> QED BY <1>1, <1>2, <1>13, <2>1, <2>3, <2>4
<1>14. \A i \in 1 .. n : asked # <<>>
  BY EmptySeq DEF n
<1>15. Explains(c, x2, at2, asked, seat, t)
  BY <1>5, <1>9, <1>11, <1>12, <1>13, <1>14 DEF Explains, n
<1>16. Explained(NoChannel, asked, seat, t)
  BY <1>1, <1>6, <1>10, <1>13, <1>15 DEF Explained, n
<1> QED BY <1>16 DEF t

\* A token is taken: it says nothing of the account.
LEMMA ExplainedToken ==
  ASSUME NEW sent \in Seq(Dispatches), sent # <<>>, Head(sent).op = "update",
         NEW asked \in Seq(Places), NEW seat, NEW want, Explained(want, asked, seat, sent)
  PROVE  Explained(want, asked, seat, Tail(sent))
<1> DEFINE t == Tail(sent)
           n == Len(asked)
<1>1. PICK b \in Places, x \in Places, at \in Laid(asked, sent) :
        /\ Explains(b, x, at, asked, seat, sent)
        /\ asked = <<>> /\ want # NoChannel => want = b
        /\ asked # <<>> => asked[n] = want
        /\ asked # <<>> /\ want = NoChannel => NoStateAfter(sent, at[n])
  BY DEF Explained
<1>2. /\ t \in Seq(Dispatches) /\ Len(sent) \in Nat /\ Len(sent) >= 1 /\ Len(t) = Len(sent) - 1
      /\ \A a : \A p \in 2 .. Len(sent) : Says(b, x, sent, p, a) => Says(b, x, t, p - 1, a)
      /\ \A a : ~Says(b, x, sent, 1, a)
      /\ \A p \in 1 .. Len(sent) : NoStateAfter(sent, p) => NoStateAfter(t, p - 1)
      /\ NoStateAfter(sent, 0) => NoStateAfter(t, 0)
  BY SaysOfTail
<1>3. \A i \in 1 .. n : at[i] \in -1 .. Len(sent) /\ Says(b, x, sent, at[i], asked[i])
  BY <1>1 DEF Explains, Laid
<1>4. /\ \A i, j \in 1 .. n : i <= j => at[i] <= at[j]
      /\ \A i, j \in 1 .. n : ~(at[i] = -1 /\ at[j] = 0)
      /\ \A i \in 1 .. n : at[i] = -1 => at[n] >= 1
  BY <1>1 DEF Explains
<1>5. \E p2 \in 0 .. Len(t) : SeatedAt(b, seat, t, p2)
  BY <1>1, SeatedOfTail DEF Explains
<1>6. n \in Nat
  OBVIOUS
<1>7. \A i \in 1 .. n : asked # <<>> /\ n \in 1 .. n
  BY <1>6, EmptySeq
<1>8. asked # <<>> => n \in 1 .. n
  BY <1>6, EmptySeq
<1> HIDE DEF t, n
<1>9. \A i \in 1 .. n : at[i] # 1
  BY <1>2, <1>3
<1> DEFINE at2 == [i \in 1 .. n |-> IF at[i] >= 2 THEN at[i] - 1 ELSE at[i]]
<1>10. \A i \in 1 .. n : /\ at2[i] = IF at[i] >= 2 THEN at[i] - 1 ELSE at[i]
                         /\ at2[i] \in -1 .. Len(t)
                         /\ at[i] \in 2 .. Len(sent) \/ at[i] = 0 \/ at[i] = -1
  BY SMTT(20), <1>2, <1>3, <1>9
<1>11. at2 \in Laid(asked, t)
  <2>1. at2 \in [1 .. n -> -1 .. Len(t)]
    BY <1>10
  <2> QED BY <2>1 DEF Laid, n
<1> HIDE DEF at2
<1>12. \A i \in 1 .. n :
         /\ at2[i] = -1 => at[i] = -1
         /\ at2[i] = 0 => at[i] = 0
         /\ at[i] >= 1 => at2[i] >= 1
  BY <1>2, <1>10
<1>13. ASSUME NEW i \in 1 .. n PROVE Says(b, x, t, at2[i], asked[i])
  <2>1. CASE at[i] \in 2 .. Len(sent)
    <3>1. at2[i] = at[i] - 1
      BY <1>2, <1>10, <2>1
    <3> QED BY <1>2, <1>3, <2>1, <3>1
  <2>2. CASE at[i] = 0 \/ at[i] = -1
    <3>1. at2[i] = at[i]
      BY <1>10, <2>2
    <3> QED BY <1>3, <2>2, <3>1 DEF Says
  <2> QED BY <1>10, <2>1, <2>2
<1>14. \A i, j \in 1 .. n : i <= j => at2[i] <= at2[j]
  <2> SUFFICES ASSUME NEW i \in 1 .. n, NEW j \in 1 .. n, i <= j PROVE at2[i] <= at2[j]
    OBVIOUS
  <2>1. at[i] <= at[j] /\ at[i] \in -1 .. Len(sent) /\ at[j] \in -1 .. Len(sent)
    BY <1>3, <1>4
  <2> QED BY SMTT(20), <1>2, <1>9, <1>10, <2>1
<1>15. Explains(b, x, at2, asked, seat, t)
  <2>1. \A i, j \in 1 .. n : ~(at2[i] = -1 /\ at2[j] = 0)
    BY <1>4, <1>12
  <2>2. \A i \in 1 .. n : at2[i] = -1 => at2[n] >= 1
    BY <1>4, <1>7, <1>12
  <2> QED BY <1>5, <1>13, <1>14, <2>1, <2>2 DEF Explains, n
<1>16. ASSUME asked # <<>>, want = NoChannel PROVE NoStateAfter(t, at2[n])
  <2>1. NoStateAfter(sent, at[n]) /\ n \in 1 .. n
    BY <1>1, <1>8, <1>16
  <2>2. at[n] # -1
    <3>1. at[n] = -1 => at[n] >= 1
      BY <1>4, <2>1
    <3> QED BY <3>1
  <2>3. CASE at[n] = 0
    BY <1>2, <1>10, <2>1, <2>3
  <2>4. CASE at[n] \in 2 .. Len(sent)
    <3>1. at2[n] = at[n] - 1 /\ at[n] \in 1 .. Len(sent)
      BY <1>2, <1>10, <2>1, <2>4
    <3> QED BY <1>2, <2>1, <3>1
  <2> QED BY <1>10, <2>1, <2>2, <2>3, <2>4
<1>17. Explained(want, asked, seat, t)
  BY <1>1, <1>11, <1>15, <1>16 DEF Explained, n
<1> QED BY <1>17 DEF t

\* What Discord sends while the service is open reaches it.
LEMMA ReachingOpen ==
  ASSUME disposal = "none", NEW ds
  PROVE  Reaching(ds) = ds
BY DEF Reaching

\* _answersOwnRequest finds a request for the channel when there is one.
LEMMA AskingFinds ==
  ASSUME unanswered \in Seq(Places), NEW c
  PROVE  /\ Answers(c) => /\ Asking(c) \in 1 .. Len(unanswered)
                          /\ unanswered[Asking(c)] = c
         /\ ~Answers(c) => \A i \in 1 .. Len(unanswered) : unanswered[i] # c
<1> DEFINE I == {i \in 1 .. Len(unanswered) : unanswered[i] = c}
<1>1. CASE I = {}
  <2>1. Asking(c) = 0
    BY <1>1 DEF Asking, SelectInSeq
  <2> QED BY <1>1, <2>1 DEF Answers
<1>2. CASE I # {}
  <2>1. I \in SUBSET Nat
    OBVIOUS
  <2>2. Min(I) \in I
    BY <1>2, <2>1, LeastIsMember
  <2>3. Min(I) \in 1 .. Len(unanswered) /\ unanswered[Min(I)] = c
    BY <2>2
  <2> HIDE DEF I
  <2>4. Asking(c) = Min(I)
    BY <1>2 DEF Asking, SelectInSeq, I
  <2> QED BY <2>3, <2>4 DEF Answers
<1> QED BY <1>1, <1>2

LEMMA AnnounceExplained ==
  ASSUME SequencesOK, disposal = "none", NEW c \in Places, Announce(c),
         Explained(desired, unanswered, discord.seat, discord.sent)
  PROVE  /\ discord'.seat = c
         /\ Explained(c, unanswered', discord'.seat, discord'.sent)
<1>1. /\ Voice(c) \in Requests /\ Voice(c) # Ping /\ Voice(c).channel = c
  BY DEF Requests, Voice, Ping
<1>2. discord' \in Acts(discord, Voice(c)) /\ unanswered' = Append(unanswered, c)
  BY ReachingOpen DEF Announce, Asked
<1>3. Explainable(unanswered, discord.seat, discord.sent)
  BY ExplainedIsExplainable
<1> QED BY <1>1, <1>2, <1>3, RequestExplained DEF SequencesOK

\* A forced reissue and a retry leave and come back.
LEMMA LeaveAndRejoinExplained ==
  ASSUME SequencesOK, disposal = "none", NEW c \in Places, LeaveAndRejoin(c),
         Explained(desired, unanswered, discord.seat, discord.sent)
  PROVE  Explained(c, unanswered', discord'.seat, discord'.sent)
<1>1. /\ Voice(c) \in Requests /\ Voice(c) # Ping /\ Voice(c).channel = c
      /\ Voice(NoChannel) \in Requests /\ Voice(NoChannel) # Ping
      /\ Voice(NoChannel).channel = NoChannel /\ NoChannel \in Places
  BY DEF Requests, Voice, Ping, Places
<1>2. discord' \in UNION {Acts(e, Voice(c)) : e \in Acts(discord, Voice(NoChannel))}
  BY ReachingOpen DEF LeaveAndRejoin, AskedBoth
<1>3. PICK e \in Acts(discord, Voice(NoChannel)) : discord' \in Acts(e, Voice(c))
  BY <1>2
<1>4. discord \in Discords /\ unanswered \in Seq(Places)
  BY DEF SequencesOK
<1>5. e \in Discords
  BY <1>1, <1>4, ActsTyped
<1>6. Explainable(unanswered, discord.seat, discord.sent)
  BY ExplainedIsExplainable
<1> DEFINE left == Append(unanswered, NoChannel)
<1>7. Explained(NoChannel, left, e.seat, e.sent)
  BY <1>1, <1>4, <1>6, RequestExplained
<1>8. left \in Seq(Places)
  BY <1>1, <1>4
<1>9. unanswered' = Append(left, c)
  BY <1>1, <1>4 DEF LeaveAndRejoin
<1> HIDE DEF left
<1>10. Explainable(left, e.seat, e.sent)
  BY <1>7, ExplainedIsExplainable
<1> QED BY <1>1, <1>3, <1>5, <1>8, <1>9, <1>10, RequestExplained

LEMMA RecoverExplained ==
  ASSUME SequencesOK, FieldsOK, disposal = "none", Recover,
         Explained(desired, unanswered, discord.seat, discord.sent)
  PROVE  Explained(desired, unanswered', discord'.seat, discord'.sent)
<1>1. /\ Again(desired) \in Requests /\ Again(desired) # Ping
      /\ Again(desired).channel = desired /\ Ping \in Requests
  BY DEF Requests, Again, Ping, FieldsOK
<1>2. discord' \in UNION {Acts(e, Again(desired)) : e \in Acts(discord, Ping)}
  BY ReachingOpen DEF Recover, AskedBoth
<1>3. PICK e \in Acts(discord, Ping) : discord' \in Acts(e, Again(desired))
  BY <1>2
<1>4. discord \in Discords /\ unanswered \in Seq(Places)
  BY DEF SequencesOK
<1>5. e \in Discords
  BY <1>1, <1>4, ActsTyped
<1>6. Explained(desired, unanswered, e.seat, e.sent)
  BY <1>4, PingExplained
<1>7. Explainable(unanswered, e.seat, e.sent)
  BY <1>6, ExplainedIsExplainable
<1>8. unanswered' = Append(unanswered, desired)
  BY DEF Recover
<1> QED BY <1>1, <1>3, <1>4, <1>5, <1>7, <1>8, RequestExplained

\* A voice state is taken, whether it answers a request or not.
LEMMA KeepPlaceExplained ==
  ASSUME SequencesOK, Arrives("state"), NEW c \in Places, c = Head(discord.sent).channel,
         Answers(c) \/ desired = NoChannel \/ desired = c, KeepPlace(c), SeatInv
  PROVE  SeatInv'
<1>1. /\ discord.sent \in Seq(Dispatches) /\ discord.sent # <<>> /\ disposal = "none"
      /\ Head(discord.sent).op = "state" /\ unanswered \in Seq(Places)
  BY DEF Arrives, SequencesOK, Discords
<1>2. /\ Explained(desired, unanswered, discord.seat, discord.sent)
      /\ evicted = "no" /\ desired = NoChannel => discord.seat = NoChannel
      /\ evicted # "no" /\ desired = NoChannel => unanswered = <<>>
  BY <1>1 DEF SeatInv
<1>3. /\ discord'.seat = discord.seat /\ discord'.sent = Tail(discord.sent)
      /\ unanswered' = IF Answers(c) THEN After(c) ELSE unanswered
      /\ UNCHANGED <<desired, evicted>>
  BY DEF KeepPlace, Rest, SequencesOK, Discords
<1>4. Answers(c) => unanswered # <<>>
  BY <1>1, AskingFinds
<1>5. CASE Answers(c)
  <2>1. Asking(c) \in 1 .. Len(unanswered) /\ unanswered[Asking(c)] = c
    BY <1>1, <1>5, AskingFinds
  <2>2. Explained(desired, After(c), discord.seat, Tail(discord.sent))
    BY <1>1, <1>2, <2>1, ExplainedAnswered DEF After
  <2> QED BY <1>2, <1>3, <1>4, <1>5, <2>2 DEF SeatInv
<1>6. CASE ~Answers(c) /\ desired = NoChannel
  <2>1. \A i \in 1 .. Len(unanswered) : unanswered[i] # c
    BY <1>1, <1>6, AskingFinds
  <2>2. Explained(NoChannel, unanswered, discord.seat, Tail(discord.sent))
    BY <1>1, <1>2, <1>6, <2>1, ExplainedPassedOver
  <2> QED BY <1>2, <1>3, <1>6, <2>2 DEF SeatInv
<1>7. CASE ~Answers(c) /\ desired = c /\ desired # NoChannel
  <2>1. unanswered = <<>>
    <3>1. unanswered # <<>> =>
            unanswered[Len(unanswered)] = desired /\ Len(unanswered) \in 1 .. Len(unanswered)
      BY <1>1, <1>2, EmptySeq DEF Explained
    <3> QED BY <1>1, <1>7, <3>1, AskingFinds
  <2>2. Explained(c, <<>>, discord.seat, Tail(discord.sent))
    BY <1>1, <1>2, ExplainedIsExplainable, ExplainedAfresh
  <2> QED BY <1>3, <1>7, <2>1, <2>2 DEF SeatInv
<1> QED BY <1>5, <1>6, <1>7

LEMMA FollowMoveExplained ==
  ASSUME SequencesOK, Arrives("state"), NEW c \in Places, c = Head(discord.sent).channel,
         FollowMove(c), UNCHANGED disposal, SeatInv
  PROVE  SeatInv'
<1>1. /\ discord.sent \in Seq(Dispatches) /\ discord.sent # <<>> /\ disposal = "none"
      /\ Head(discord.sent).op = "state"
  BY DEF Arrives, SequencesOK, Discords
<1>2. Explainable(unanswered, discord.seat, discord.sent)
  BY <1>1, ExplainedIsExplainable DEF SeatInv
<1>3. /\ Rest \in Discords /\ Rest.seat = discord.seat /\ Rest.sent = Tail(discord.sent)
  BY ArrivedTyped DEF Rest, SequencesOK, Discords
<1>4. Explained(c, <<>>, Rest.seat, Rest.sent)
  BY <1>1, <1>2, <1>3, ExplainedAfresh
<1>5. /\ desired' = c
      /\ c = NoChannel => evicted' # "no"
      /\ \/ /\ discord' \in Asked(Rest, Again(c)) /\ c # NoChannel
            /\ unanswered' = Append(<<>>, c)
         \/ discord' = Rest /\ unanswered' = <<>>
  BY DEF FollowMove, AskedBeforeMove
<1>6. CASE /\ discord' \in Asked(Rest, Again(c)) /\ c # NoChannel
           /\ unanswered' = Append(<<>>, c)
  <2>1. /\ Again(c) \in Requests /\ Again(c) # Ping /\ Again(c).channel = c
    BY DEF Requests, Again, Ping
  <2>2. discord' \in Acts(Rest, Again(c))
    BY <1>1, <1>6, ReachingOpen DEF Asked
  <2>3. <<>> \in Seq(Places) /\ Explainable(<<>>, Rest.seat, Rest.sent)
    BY <1>4, EmptySeq, ExplainedIsExplainable
  <2>4. Explained(c, Append(<<>>, c), discord'.seat, discord'.sent)
    BY <1>3, <2>1, <2>2, <2>3, RequestExplained
  <2> QED BY <1>5, <1>6, <2>4 DEF SeatInv
<1>7. CASE discord' = Rest /\ unanswered' = <<>>
  BY <1>4, <1>5, <1>7 DEF SeatInv
<1> QED BY <1>5, <1>6, <1>7

\* The seat is explained at first, and after every step.
LEMMA SeatStarts == Init => SeatInv
<1> SUFFICES ASSUME Init PROVE SeatInv
  OBVIOUS
<1>1. /\ desired = NoChannel /\ unanswered = <<>> /\ discord.seat = NoChannel
      /\ discord.sent = <<>> /\ NoChannel \in Places
  BY DEF Init, Places
<1>2. Len(<<>>) = 0 /\ 1 .. Len(<<>>) = {} /\ 0 \in 0 .. Len(<<>>)
  OBVIOUS
<1>3. [i \in {} |-> 0] \in Laid(<<>>, <<>>)
  BY <1>2 DEF Laid
<1>4. SeatedAt(NoChannel, NoChannel, <<>>, 0)
  BY <1>2 DEF SeatedAt, Says, NoStateAfter
<1>5. \A at : Explains(NoChannel, NoChannel, at, <<>>, NoChannel, <<>>)
  BY <1>2, <1>4 DEF Explains
<1>6. Explained(NoChannel, <<>>, NoChannel, <<>>)
  BY <1>1, <1>3, <1>5 DEF Explained
<1> QED BY <1>1, <1>6 DEF SeatInv

LEMMA SeatKeeps == IInv /\ SeatInv /\ [Next]_vars => SeatInv'
<1> SUFFICES ASSUME IInv, SeatInv, [Next]_vars, disposal = "none"
             PROVE  SeatInv'
  <2>1. [Next]_vars /\ disposal # "none" => disposal' # "none"
    BY DEF Next, Room, Service, Client, Server, Starts, Join, LeaveBegins, LeaveEnds, TakeState,
           TakeUpdate, ReissueTimer, MoveTimer, StartEnds, StartThrows, Arrives, ClientDials,
           ClientReady, ClientRefused, ClientDrops, ClientRedials, ClientFails, ClientBlamesKey,
           ClientNegotiates, ClientStirs, Reports,
           ServerForgets, ServerRepeats, ModeratorMoves, Unasked, CloseBegins, CloseSweeps,
           CloseEnds, vars
  <2> QED BY <2>1 DEF SeatInv
<1>1. /\ SequencesOK /\ FieldsOK /\ discord \in Discords /\ unanswered \in Seq(Places)
      /\ desired \in Places
  BY TypeParts DEF IInv, SequencesOK, FieldsOK
<1>2. /\ Explained(desired, unanswered, discord.seat, discord.sent)
      /\ evicted = "no" /\ desired = NoChannel => discord.seat = NoChannel
      /\ evicted # "no" /\ desired = NoChannel => unanswered = <<>>
  BY DEF SeatInv
<1>3. ASSUME NEW c \in Channels, Join(c) PROVE SeatInv'
  <2>1. c \in Places /\ c # NoChannel
    BY ChannelsAssumption DEF Places
  <2>2. desired' = c
    BY <1>3 DEF Join, JoinSame, JoinOther
  <2>3. Announce(c) \/ LeaveAndRejoin(c)
    BY <1>3 DEF Join, JoinSame, JoinOther
  <2>4. Explained(c, unanswered', discord'.seat, discord'.sent)
    BY <1>1, <1>2, <2>1, <2>3, AnnounceExplained, LeaveAndRejoinExplained
  <2> QED BY <2>1, <2>2, <2>4 DEF SeatInv
<1>4. CASE LeaveBegins
  <2>1. /\ desired' = NoChannel /\ evicted' = "no" /\ Announce(NoChannel) /\ NoChannel \in Places
    BY <1>4 DEF LeaveBegins, Places
  <2>2. /\ discord'.seat = NoChannel
        /\ Explained(NoChannel, unanswered', discord'.seat, discord'.sent)
    BY <1>1, <1>2, <2>1, AnnounceExplained
  <2> QED BY <2>1, <2>2 DEF SeatInv
<1>5. CASE TakeState
  <2>1. Arrives("state") /\ UNCHANGED disposal
    BY <1>5 DEF TakeState
  <2>2. PICK c \in Places : c = Head(discord.sent).channel
    BY <1>1, <2>1, ArrivedTyped DEF Dispatches, State, Update
  <2>3. \/ (Answers(c) \/ desired = NoChannel \/ desired = c) /\ KeepPlace(c)
        \/ FollowMove(c)
    BY <1>5, <2>2 DEF TakeState
  <2> QED BY <1>1, <2>1, <2>2, <2>3, KeepPlaceExplained, FollowMoveExplained
<1>6. CASE TakeUpdate
  <2>1. /\ Arrives("update") /\ discord' = Rest
        /\ UNCHANGED <<desired, disposal, unanswered, evicted>>
    BY <1>6 DEF TakeUpdate, room
  <2>2. /\ discord.sent \in Seq(Dispatches) /\ discord.sent # <<>>
        /\ Head(discord.sent).op = "update"
        /\ discord'.seat = discord.seat /\ discord'.sent = Tail(discord.sent)
    BY <1>1, <2>1 DEF Arrives, Rest, Discords
  <2>3. Explained(desired, unanswered, discord.seat, Tail(discord.sent))
    BY <1>1, <1>2, <2>2, ExplainedToken
  <2> QED BY <1>2, <2>1, <2>2, <2>3 DEF SeatInv
<1>7. CASE ReissueTimer
  <2>1. UNCHANGED <<disposal, desired, evicted>>
    BY <1>7 DEF ReissueTimer
  <2>2. CASE pinged /\ desired # NoChannel /\ ~GivesUp
    <3>1. LeaveAndRejoin(desired)
      BY <1>7, <2>2 DEF ReissueTimer, ForceReissue
    <3>2. Explained(desired, unanswered', discord'.seat, discord'.sent)
      BY <1>1, <1>2, <3>1, LeaveAndRejoinExplained
    <3> QED BY <2>1, <2>2, <3>2 DEF SeatInv
  <2>3. CASE ~(pinged /\ desired # NoChannel /\ ~GivesUp)
    <3>1. UNCHANGED <<discord, unanswered>>
      BY <1>7, <2>3 DEF ReissueTimer, ForceReissue
    <3> QED BY <1>2, <2>1, <3>1 DEF SeatInv
  <2> QED BY <2>2, <2>3
<1>8. ASSUME UNCHANGED <<disposal, desired, evicted>>,
             (Recover /\ desired # NoChannel) \/ UNCHANGED <<discord, unanswered>>
      PROVE  SeatInv'
  <2>1. CASE Recover /\ desired # NoChannel
    <3>1. Explained(desired, unanswered', discord'.seat, discord'.sent)
      BY <1>1, <1>2, <2>1, RecoverExplained
    <3> QED BY <1>8, <2>1, <3>1 DEF SeatInv
  <2>2. CASE UNCHANGED <<discord, unanswered>>
    BY <1>2, <1>8, <2>2 DEF SeatInv
  <2> QED BY <1>8, <2>1, <2>2
<1>9. CASE MoveTimer
  BY <1>8, <1>9 DEF MoveTimer, room
<1>10. CASE Client
  <2>1. ASSUME NEW status, NEW conn, Reports(status, conn) PROVE SeatInv'
    BY <1>8, <2>1 DEF Reports
  <2> QED BY <1>10, <2>1 DEF Client, ClientDials, ClientReady, ClientRefused, ClientDrops,
                             ClientRedials, ClientFails, ClientBlamesKey, ClientNegotiates,
                             ClientStirs
<1>11. ASSUME NEW c \in Places, ModeratorMoves(c) PROVE SeatInv'
  <2>1. /\ discord.seat # NoChannel /\ discord' \in Seats(discord, c)
        /\ UNCHANGED <<disposal, desired, unanswered, evicted>>
    BY <1>11 DEF ModeratorMoves, Unasked, room
  <2>2. desired # NoChannel \/ (evicted # "no" /\ unanswered = <<>>)
    BY <1>2, <2>1
  <2>3. /\ discord'.seat = c
        /\ Explained(desired, unanswered, c, discord'.sent)
    BY <1>1, <1>2, <2>1, <2>2, SeatsExplained
  <2> QED BY <2>1, <2>2, <2>3 DEF SeatInv
<1>12. CASE ServerForgets \/ ServerRepeats
  <2>1. PICK t \in Nat : /\ discord'.seat = discord.seat
                         /\ \/ discord'.sent = discord.sent
                            \/ discord'.sent = Append(discord.sent, Update(t))
                         /\ UNCHANGED <<disposal, desired, unanswered, evicted>>
    <3>1. CASE ServerForgets
      <4>1. /\ discord'.seat = discord.seat
            /\ discord'.sent = discord.sent \/ discord'.sent = Append(discord.sent, Update(NoToken))
        BY <1>1, <3>1 DEF ServerForgets, Unasked, Sends, Discords
      <4>2. UNCHANGED <<disposal, desired, unanswered, evicted>> /\ NoToken \in Nat
        BY <3>1 DEF ServerForgets, Unasked, room, NoToken
      <4> QED BY <4>1, <4>2
    <3>2. CASE ServerRepeats
      <4>1. /\ discord'.seat = discord.seat
            /\ discord'.sent = Append(discord.sent, Update(discord.live))
            /\ discord.live \in Nat
        BY <1>1, <3>2 DEF ServerRepeats, Unasked, Sends, Discords
      <4>2. UNCHANGED <<disposal, desired, unanswered, evicted>>
        BY <3>2 DEF ServerRepeats, Unasked, room
      <4> QED BY <4>1, <4>2
    <3> QED BY <1>12, <3>1, <3>2
  <2>2. Explained(desired, unanswered, discord'.seat, discord'.sent)
    BY <1>1, <1>2, <2>1, TokenExplained
  <2> QED BY <1>2, <2>1, <2>2 DEF SeatInv
<1>13. CASE LeaveEnds \/ Starts \/ UNCHANGED vars
  <2>1. UNCHANGED <<disposal, desired, evicted, discord, unanswered>>
    BY <1>13 DEF LeaveEnds, Starts, StartEnds, StartThrows, vars, room
  <2> QED BY <1>8, <2>1
<1>14. CASE CloseBegins \/ CloseSweeps \/ CloseEnds
  BY <1>14 DEF CloseBegins, CloseSweeps, CloseEnds, SeatInv
<1> QED BY <1>3, <1>4, <1>5, <1>6, <1>7, <1>9, <1>10, <1>11, <1>12, <1>13, <1>14
        DEF Next, Room, Service, Server

LEMMA SeatHolds == Spec => []SeatInv
BY SeatStarts, SeatKeeps, Invariant, PTL DEF Spec

\* However joins, recoveries, forced reissues and a moderator's moves crossed:
\* once all that Discord sent has arrived, the room is where Discord has the
\* account, unless a disconnect is being told to the room (_followSelfState,
\* _answersOwnRequest).
THEOREM RoomIsWhereSeated == Spec => []SeatAgrees
<1>1. IInv /\ SeatInv => SeatAgrees
  <2> SUFFICES ASSUME IInv, SeatInv, Arrived, evicted = "no", desired # NoChannel
               PROVE  desired = discord.seat
    BY DEF SeatInv, SeatAgrees, Arrived
  <2>1. /\ disposal = "none" /\ discord.sent = <<>> /\ unanswered \in Seq(Places)
    BY TypeParts DEF Arrived, IInv, SequencesOK
  <2>2. PICK b \in Places, x \in Places, at \in Laid(unanswered, <<>>) :
          /\ Explains(b, x, at, unanswered, discord.seat, <<>>)
          /\ unanswered = <<>> /\ desired # NoChannel => desired = b
          /\ unanswered # <<>> => unanswered[Len(unanswered)] = desired
    BY <2>1 DEF SeatInv, Explained
  <2>3. discord.seat = b
    <3>1. PICK p \in 0 .. Len(<<>>) : SeatedAt(b, discord.seat, <<>>, p)
      BY <2>2 DEF Explains
    <3>2. p = 0
      OBVIOUS
    <3> QED BY <3>1, <3>2 DEF SeatedAt, Says
  <2>4. CASE unanswered # <<>>
    <3> DEFINE n == Len(unanswered)
    <3>1. n \in 1 .. n
      BY <2>1, <2>4, EmptySeq
    <3>2. at[n] \in -1 .. Len(<<>>) /\ Says(b, x, <<>>, at[n], unanswered[n])
      BY <2>2, <3>1 DEF Laid, Explains
    <3>3. at[n] = -1 => at[n] >= 1
      BY <2>2, <3>1 DEF Explains
    <3>4. at[n] = 0
      BY <3>2, <3>3
    <3>5. b = unanswered[n]
      BY <3>2, <3>4 DEF Says
    <3> QED BY <2>2, <2>3, <2>4, <3>5
  <2> QED BY <2>2, <2>3, <2>4
<1> QED BY <1>1, Invariant, SeatHolds, PTL

-----------------------------------------------------------------------------
(* A client that asks is heard.                                            *)

\* A ping whose timer is over left a client that was not dialed yet, and that
\* forgets the mark when it is; nobody pings for a channel that is not wanted;
\* and a client that asks has said so last.
HeardInv ==
    /\ pinged => reissueDue \/ client.conn \in {"none", "new"}
    /\ pinged => desired # NoChannel
    /\ client.conn = "asked" => lastStatus = "reconnecting"

\* What AskedIsHeard says of one step.
HearsOn ==
    client'.conn = "asked" /\ disposal' = "none" /\ desired' # NoChannel =>
        \/ Heard'
        \/ shown' = "failure" \/ desired' # desired
        \/ client.conn = "asked" /\ ~Heard

\* What the credentials of a dispatch do to a client: it stays, or it closes.
LEMMA AcceptHears ==
  ASSUME NEW credentials, NEW aimed, NEW mv, Accept(credentials, aimed, mv),
         UNCHANGED lastStatus
  PROVE  /\ client' = client \/ client'.conn = "none"
         /\ moving' = mv \/ lastStatus' = "ready"
BY DEF Accept, RepeatsLive, NoClient

\* A voice state or a token.
LEMMA DispatchHears ==
  ASSUME IInv, HeardInv, TakeState \/ TakeUpdate
  PROVE  HeardInv' /\ HearsOn
<1>1. /\ UNCHANGED <<disposal, lastStatus, shown>>
      /\ client' = client \/ client'.conn = "none"
  <2>1. CASE TakeUpdate
    BY <2>1, AcceptHears DEF TakeUpdate, room
  <2>2. CASE TakeState
    <3>1. UNCHANGED <<disposal, lastStatus, shown>>
      BY <2>2 DEF TakeState
    <3>2. PICK c : FollowMove(c) \/ KeepPlace(c)
      BY <2>2 DEF TakeState
    <3> QED BY <3>1, <3>2, AcceptHears DEF FollowMove, KeepPlace
  <2> QED BY <2>1, <2>2
<1>2. CASE TakeUpdate
  <2>1. UNCHANGED <<desired, pinged, reissueDue>>
        /\ (moving' = moving \/ lastStatus' = "ready")
    BY <1>2, AcceptHears DEF TakeUpdate
  <2> QED BY <1>1, <2>1 DEF HeardInv, HearsOn, Heard
<1>3. ASSUME NEW c, KeepPlace(c) PROVE HeardInv' /\ HearsOn
  <2>1. UNCHANGED <<desired, pinged, reissueDue>>
        /\ (moving' = moving \/ lastStatus' = "ready")
    BY <1>1, <1>3, AcceptHears DEF KeepPlace
  <2> QED BY <1>1, <2>1 DEF HeardInv, HearsOn, Heard
<1>4. ASSUME NEW c, FollowMove(c) PROVE HeardInv' /\ HearsOn
  <2>1. /\ desired' = c /\ pinged' = FALSE
        /\ c # NoChannel => moving' = "waiting" \/ lastStatus' = "ready"
    BY <1>1, <1>4, AcceptHears DEF FollowMove
  <2> QED BY <1>1, <2>1 DEF HeardInv, HearsOn, Heard
<1> QED BY <1>2, <1>3, <1>4 DEF TakeState

\* What the room asks for.
LEMMA RoomHears ==
  ASSUME IInv, HeardInv, Room
  PROVE  HeardInv' /\ HearsOn
<1>1. ASSUME NEW c \in Channels, Join(c) PROVE HeardInv' /\ HearsOn
  <2>1. UNCHANGED <<disposal, lastStatus, client>> /\ c # NoChannel
    BY <1>1, ChannelsAssumption DEF Join
  <2>2. CASE JoinSame(c)
    <3>0. desired' = desired /\ desired = c
      BY <2>2 DEF JoinSame
    <3>1. moving' = moving /\ (\/ UNCHANGED <<pinged, reissueDue>>
                               \/ pinged' = TRUE /\ reissueDue' = TRUE)
      BY <2>2 DEF JoinSame
    <3> QED BY <2>1, <3>0, <3>1 DEF HeardInv, HearsOn, Heard
  <2>3. CASE JoinOther(c)
    BY <2>1, <2>3 DEF JoinOther, HeardInv, HearsOn
  <2> QED BY <1>1, <2>2, <2>3 DEF Join
<1>2. CASE LeaveBegins
  BY <1>2 DEF LeaveBegins, HeardInv, HearsOn, NoClient
<1>3. CASE LeaveEnds
  BY <1>3 DEF LeaveEnds, HeardInv, HearsOn, Heard, recovery, clients
<1> QED BY <1>1, <1>2, <1>3 DEF Room

\* The timers: a ping that brought nothing becomes a rejoin or a failure, and a
\* move that brought nothing becomes a ping.
LEMMA TimersHear ==
  ASSUME IInv, HeardInv, ReissueTimer \/ MoveTimer
  PROVE  HeardInv' /\ HearsOn
<1>1. CASE ReissueTimer
  <2>1. UNCHANGED <<disposal, desired, moving, lastStatus, client>>
    BY <1>1 DEF ReissueTimer, clients
  <2>2. CASE pinged /\ desired # NoChannel /\ GivesUp
    BY <1>1, <2>1, <2>2 DEF ReissueTimer, ForceReissue, Show, HeardInv, HearsOn
  <2>3. CASE pinged /\ desired # NoChannel /\ ~GivesUp
    <3>1. pinged' = pinged /\ reissueDue' = TRUE
      BY <1>1, <2>3 DEF ReissueTimer, ForceReissue
    <3> QED BY <2>1, <2>3, <3>1 DEF HeardInv, HearsOn, Heard
  <2>4. CASE ~pinged \/ desired = NoChannel
    <3>1. ~pinged' \/ desired = NoChannel
      BY <1>1, <2>4 DEF ReissueTimer
    <3>2. pinged' = pinged /\ reissueDue' = FALSE
      BY <1>1, <2>4 DEF ReissueTimer
    <3>3. pinged => client.conn \in {"none", "new"}
      BY <2>4 DEF HeardInv
    <3> QED BY <2>1, <3>1, <3>2, <3>3 DEF HeardInv, HearsOn, Heard
  <2> QED BY <2>2, <2>3, <2>4
<1>2. CASE MoveTimer
  <2>1. UNCHANGED <<disposal, desired, lastStatus, client>>
    BY <1>2 DEF MoveTimer
  <2>2. CASE lastStatus = "reconnecting" /\ ~pinged /\ desired # NoChannel
    BY <1>2, <2>1, <2>2 DEF MoveTimer, Recover, HeardInv, HearsOn, Heard
  <2>3. CASE ~(lastStatus = "reconnecting" /\ ~pinged /\ desired # NoChannel)
    <3>1. UNCHANGED <<pinged, reissueDue>>
      BY <1>2, <2>3 DEF MoveTimer
    <3> QED BY <2>1, <2>3, <3>1 DEF HeardInv, HearsOn, Heard
  <2> QED BY <2>2, <2>3
<1> QED BY <1>1, <1>2

\* A start ends: only a client that was not dialed yet takes a timer away.
LEMMA StartsHear ==
  ASSUME IInv, HeardInv, Starts
  PROVE  HeardInv' /\ HearsOn
<1>1. PICK i \in DOMAIN starts : StartEnds(i) \/ StartThrows(i)
  BY DEF Starts
<1>2. starts # <<>>
  BY <1>1
<1>3. client.conn = "none"
  BY <1>2 DEF IInv, ClosedFirst, NoClient
<1>4. CASE StartEnds(i)
  BY <1>3, <1>4 DEF StartEnds, HeardInv, HearsOn
<1>5. CASE StartThrows(i)
  BY <1>3, <1>5 DEF StartThrows, HeardInv, HearsOn
<1> QED BY <1>1, <1>4, <1>5

\* A report: the mark of a ping goes when the client gets on, and a report that
\* it does not finds the mark, or a move, or begins a recovery.
LEMMA ReportsHear ==
  ASSUME IInv, HeardInv, NEW status, NEW conn, Reports(status, conn),
         client.conn # "none",
         client.conn = "new" => status # "reconnecting",
         conn = "asked" => status = "reconnecting",
         conn \notin {"none", "new"}
  PROVE  HeardInv' /\ HearsOn
<1>1. /\ client'.conn = conn /\ lastStatus' = status
      /\ UNCHANGED <<disposal, desired>>
  <2>1. client \in ClientSet
    BY TypeParts DEF IInv, FieldsOK
  <2> QED BY <2>1 DEF Reports, ClientSet
<1>2. CASE status = "reconnecting" /\ ~pinged /\ ~HoldsForMove /\ desired # NoChannel
  <2>1. pinged' = TRUE /\ reissueDue' = TRUE
    BY <1>2 DEF Reports, Recover
  <2> QED BY <1>1, <1>2, <2>1 DEF HeardInv, HearsOn, Heard
<1>3. CASE ~(status = "reconnecting" /\ ~pinged /\ ~HoldsForMove /\ desired # NoChannel)
  <2>1. /\ pinged' = (pinged /\ status = "reconnecting")
        /\ reissueDue' = reissueDue
    BY <1>3 DEF Reports
  <2>2. pinged' => reissueDue'
    BY <2>1 DEF HeardInv
  <2>3. status = "reconnecting" => moving' = moving
    BY DEF Reports
  <2>4. status = "reconnecting" /\ desired # NoChannel => Heard'
    <3>1. status = "reconnecting" /\ desired # NoChannel =>
              pinged \/ moving = "waiting"
      BY <1>3 DEF HoldsForMove
    <3>2. status = "reconnecting" => (pinged' <=> pinged)
      BY <2>1
    <3> QED BY <2>2, <2>3, <3>1, <3>2 DEF Heard
  <2>5. HeardInv'
    BY <1>1, <2>1, <2>2 DEF HeardInv
  <2> QED BY <1>1, <2>4, <2>5 DEF HearsOn
<1> QED BY <1>2, <1>3

LEMMA ClientHears ==
  ASSUME IInv, HeardInv, Client
  PROVE  HeardInv' /\ HearsOn
<1>1. Dialed \in {"accepted", "refused"}
  BY DEF Dialed
<1>2. CASE ClientDials
  BY <1>1, <1>2, ReportsHear DEF ClientDials
<1>3. CASE ClientReady
  BY <1>3, ReportsHear DEF ClientReady
<1>4. CASE ClientRefused
  BY <1>4, ReportsHear DEF ClientRefused
<1>5. CASE ClientDrops
  BY <1>5, ReportsHear DEF ClientDrops
<1>6. CASE ClientRedials
  <2>1. PICK status \in {"reconnecting", "connecting"} : Reports(status, Dialed)
    BY <1>6 DEF ClientRedials
  <2> QED BY <1>1, <1>6, <2>1, ReportsHear DEF ClientRedials
<1>7. CASE ClientFails
  BY <1>7, ReportsHear DEF ClientFails
<1>8. CASE ClientBlamesKey
  BY <1>8, ReportsHear DEF ClientBlamesKey
<1>9. CASE ClientNegotiates
  BY <1>9, ReportsHear DEF ClientNegotiates
<1>10. CASE ClientStirs
  <2>1. PICK conn \in {"asked", "retrying"} : Reports("reconnecting", conn)
    BY <1>10 DEF ClientStirs
  <2> QED BY <1>10, <2>1, ReportsHear DEF ClientStirs
<1> QED BY <1>2, <1>3, <1>4, <1>5, <1>6, <1>7, <1>8, <1>9, <1>10 DEF Client

LEMMA HearingStep == IInv /\ HeardInv /\ [Next]_vars => HeardInv' /\ HearsOn
<1> SUFFICES ASSUME IInv, HeardInv, [Next]_vars PROVE HeardInv' /\ HearsOn
  OBVIOUS
<1>1. CASE Server \/ CloseBegins \/ CloseEnds \/ UNCHANGED vars
  <2>1. UNCHANGED <<desired, pinged, reissueDue, moving, lastStatus, client>>
    BY <1>1 DEF Server, ServerForgets, ServerRepeats, ModeratorMoves, Unasked,
       CloseBegins, CloseEnds, vars, recovery, clients
  <2> QED BY <2>1 DEF HeardInv, HearsOn, Heard
<1>2. CASE CloseSweeps
  BY <1>2 DEF CloseSweeps, HeardInv, HearsOn, NoClient
<1> QED BY <1>1, <1>2, RoomHears, ClientHears, DispatchHears, TimersHear,
           StartsHear DEF Next, Service

\* A client that asks for other credentials while a channel is wanted has a
\* ping with its timer, or a move with its own, behind it, and keeps it until it
\* is replaced, the room shows a failure or the user joins elsewhere: however
\* often it reports, whichever timer fires and wherever a moderator moves the
\* account (_onClientEvent, _recover, _followSelfState, _forceReissue).
THEOREM ClientIsHeard == Spec => AskedIsHeard
<1>1. Init => HeardInv
  BY DEF Init, HeardInv, NoClient
<1>2. Spec => []HeardInv
  BY <1>1, HearingStep, Invariant, PTL DEF Spec
<1>3. IInv /\ HeardInv /\ [Next]_vars => [HearsOn]_vars
  BY HearingStep
<1> QED BY <1>2, <1>3, Invariant, PTL DEF Spec, AskedIsHeard, HearsOn

-----------------------------------------------------------------------------
(* A wanted channel is served.  These facts are about what Discord d has   *)
(* sent, p being a place in it.                                            *)

StateAt(d, p) == d.sent[p].op = "state"

SaidAt(d, p, c) == d.sent[p].op = "state" /\ d.sent[p].channel = c

NewestAt(d, p) == d.sent[p].op = "update" /\ d.sent[p].token = d.issued

Sent(d) == 1 .. Len(d.sent)

HasState(d) == \E p \in Sent(d) : StateAt(d, p)
HasNewest(d) == \E p \in Sent(d) : NewestAt(d, p)

\* It says nothing of another seat or of an older token.
OfSeat(d, p) ==
    /\ d.sent[p].op = "state" => d.sent[p].channel = d.seat
    /\ d.sent[p].op = "update" => d.sent[p].token \in {NoToken, d.issued}

\* The service has the newest token in hand, or no longer on its way.
InHand(d, K) == d.issued \in K \/ ~HasNewest(d)

\* Behind the newest token, and once the service has it, all that is on its way is
\* of the seat and of that token.  K are the tokens the service holds.
Tokens(d, K) ==
    /\ d.live \in {NoToken, d.issued}
    /\ \A k \in K : k <= d.issued
    /\ \A q \in Sent(d) : d.sent[q].op = "update" => d.sent[q].token <= d.issued
    /\ d.seat # NoChannel => d.issued > 0
    /\ d.seat # NoChannel => \A q \in Sent(d) :
          InHand(d, K) \/ (\E p \in Sent(d) : p < q /\ NewestAt(d, p)) => OfSeat(d, q)

\* The newest token travels next to a voice state of the seat, or with none before it
\* to a room that wants the seat.
Beside(d, w, p) ==
    \/ \E q \in Sent(d) : /\ q < p /\ SaidAt(d, q, d.seat)
                          /\ \A r \in Sent(d) : q < r /\ r < p => ~StateAt(d, r)
    \/ w = d.seat /\ \A r \in Sent(d) : r < p => ~StateAt(d, r)
    \/ p + 1 \in Sent(d) /\ SaidAt(d, p + 1, d.seat)

Adjacent(d, w) ==
    d.seat # NoChannel => \A p \in Sent(d) : NewestAt(d, p) => Beside(d, w, p)

\* What was sent before is still on its way.
Longer(d, e) ==
    /\ Len(d.sent) \in Nat /\ Len(e.sent) \in Nat /\ Len(d.sent) <= Len(e.sent)
    /\ \A p \in Sent(d) : p \in Sent(e) /\ e.sent[p] = d.sent[p]

\* Discord seats the account.
LEMMA SeatedShape ==
  ASSUME NEW d \in Discords, NEW c \in Channels, NEW e \in Seats(d, c)
  PROVE  /\ Longer(d, e) /\ Len(e.sent) = Len(d.sent) + 2
         /\ e.seat = c /\ c # NoChannel /\ e.issued = d.issued + 1 /\ e.live = e.issued
         /\ \E s, u \in {Len(d.sent) + 1, Len(d.sent) + 2} :
               s # u /\ SaidAt(e, s, c) /\ NewestAt(e, u)
<1> DEFINE said == State(c)
           token == Update(d.issued + 1)
           n == Len(d.sent)
<1>1. /\ said \in Dispatches /\ said.op = "state" /\ said.channel = c
      /\ token \in Dispatches /\ token.op = "update" /\ token.token = d.issued + 1
  BY IssuedTyped DEF State, Update, Dispatches, Places
<1>2. c # NoChannel
  BY ChannelsAssumption
<1>3. /\ e.seat = c /\ e.issued = d.issued + 1 /\ e.live = d.issued + 1
      /\ \/ e.sent = Append(Append(d.sent, said), token)
         \/ e.sent = Append(Append(d.sent, token), said)
  BY <1>2 DEF Seats, Sends, Discords
<1>4. d.sent \in Seq(Dispatches) /\ n \in Nat
  BY DEF Discords
<1> HIDE DEF said, token
<1>5. ASSUME NEW a \in Dispatches, NEW b \in Dispatches,
             e.sent = Append(Append(d.sent, a), b)
      PROVE  /\ Len(e.sent) = n + 2 /\ e.sent[n + 1] = a /\ e.sent[n + 2] = b
             /\ \A i \in 1 .. n : e.sent[i] = d.sent[i]
  <2> DEFINE f == Append(d.sent, a)
  <2>1. /\ f \in Seq(Dispatches) /\ Len(f) = n + 1 /\ f[n + 1] = a
        /\ \A i \in 1 .. n : f[i] = d.sent[i]
    BY <1>4, AppendProperties
  <2>0. e.sent = Append(f, b)
    BY <1>5
  <2> HIDE DEF f
  <2>2. /\ Len(Append(f, b)) = Len(f) + 1 /\ Append(f, b)[Len(f) + 1] = b
        /\ \A i \in 1 .. Len(f) : Append(f, b)[i] = f[i]
    BY <2>1, AppendProperties
  <2>3. Len(f) + 1 = n + 2 /\ n + 1 \in 1 .. Len(f) /\ \A i \in 1 .. n : i \in 1 .. Len(f)
    BY <1>4, <2>1
  <2> QED BY ONLY <2>0, <2>1, <2>2, <2>3
<1> HIDE DEF n
<1>6. n + 1 \in {n + 1, n + 2} /\ n + 2 \in {n + 1, n + 2} /\ n + 1 # n + 2
      /\ n <= n + 2 /\ n + 2 \in Nat /\ \A i \in 1 .. n : i \in 1 .. (n + 2)
  BY <1>4
<1>7. CASE e.sent = Append(Append(d.sent, said), token)
  <2>1. /\ Len(e.sent) = n + 2 /\ e.sent[n + 1] = said /\ e.sent[n + 2] = token
        /\ \A i \in 1 .. n : e.sent[i] = d.sent[i]
    BY <1>1, <1>5, <1>7
  <2>2. SaidAt(e, n + 1, c) /\ NewestAt(e, n + 2)
    BY <1>1, <1>3, <2>1 DEF SaidAt, NewestAt
  <2> QED BY <1>2, <1>3, <1>4, <1>6, <2>1, <2>2 DEF Longer, Sent, n
<1>8. CASE e.sent = Append(Append(d.sent, token), said)
  <2>1. /\ Len(e.sent) = n + 2 /\ e.sent[n + 1] = token /\ e.sent[n + 2] = said
        /\ \A i \in 1 .. n : e.sent[i] = d.sent[i]
    BY <1>1, <1>5, <1>8
  <2>2. SaidAt(e, n + 2, c) /\ NewestAt(e, n + 1)
    BY <1>1, <1>3, <2>1 DEF SaidAt, NewestAt
  <2> QED BY <1>2, <1>3, <1>4, <1>6, <2>1, <2>2 DEF Longer, Sent, n
<1> QED BY <1>3, <1>7, <1>8

\* One dispatch goes behind the others.
LEMMA SentShape ==
  ASSUME NEW d \in Discords, NEW m \in Dispatches, NEW e, e.sent = Append(d.sent, m)
  PROVE  /\ Longer(d, e) /\ Len(e.sent) = Len(d.sent) + 1
         /\ e.sent[Len(d.sent) + 1] = m
<1> DEFINE n == Len(d.sent)
<1>1. d.sent \in Seq(Dispatches) /\ n \in Nat
  BY DEF Discords
<1>2. /\ Len(e.sent) = n + 1 /\ e.sent[n + 1] = m
      /\ \A i \in 1 .. n : e.sent[i] = d.sent[i]
  BY <1>1, AppendProperties
<1> HIDE DEF n
<1>3. n <= n + 1 /\ n + 1 \in Nat /\ \A i \in 1 .. n : i \in 1 .. (n + 1)
  BY <1>1
<1> QED BY <1>1, <1>2, <1>3 DEF Longer, Sent, n

\* Discord unseats the account.
LEMMA UnseatedShape ==
  ASSUME NEW d \in Discords, NEW e \in Seats(d, NoChannel)
  PROVE  /\ Longer(d, e) /\ Len(e.sent) = Len(d.sent) + 1
         /\ e.seat = NoChannel /\ e.issued = d.issued /\ e.live = NoToken
         /\ SaidAt(e, Len(d.sent) + 1, NoChannel)
<1>1. /\ State(NoChannel) \in Dispatches
      /\ State(NoChannel).op = "state" /\ State(NoChannel).channel = NoChannel
  BY DEF State, Dispatches, Places
<1>2. /\ e.seat = NoChannel /\ e.issued = d.issued /\ e.live = NoToken
      /\ e.sent = Append(d.sent, State(NoChannel))
  BY DEF Seats, Sends, Discords
<1> QED BY <1>1, <1>2, SentShape DEF SaidAt

\* Discord echoes the seat.
LEMMA EchoedShape ==
  ASSUME NEW d \in Discords, NEW e, e = Sends(d, State(d.seat))
  PROVE  /\ Longer(d, e) /\ Len(e.sent) = Len(d.sent) + 1
         /\ e.seat = d.seat /\ e.issued = d.issued /\ e.live = d.live
         /\ SaidAt(e, Len(d.sent) + 1, d.seat)
<1>1. /\ State(d.seat) \in Dispatches
      /\ State(d.seat).op = "state" /\ State(d.seat).channel = d.seat
  BY DEF State, Dispatches, Discords
<1>2. /\ e.seat = d.seat /\ e.issued = d.issued /\ e.live = d.live
      /\ e.sent = Append(d.sent, State(d.seat))
  BY DEF Sends, Discords
<1> QED BY <1>1, <1>2, SentShape DEF SaidAt

\* Discord issues the token of a seat again, or a new one.
LEMMA ReissuedShape ==
  ASSUME NEW d \in Discords, d.live \in {NoToken, d.issued}, NEW e, e = Reissues(d)
  PROVE  /\ Longer(d, e) /\ Len(e.sent) = Len(d.sent) + 1
         /\ e.seat = d.seat /\ e.live = e.issued
         /\ e.issued = d.issued \/ e.issued = d.issued + 1
         /\ NewestAt(e, Len(d.sent) + 1)
<1>1. /\ Update(d.live) \in Dispatches /\ Update(d.live).op = "update"
      /\ Update(d.live).token = d.live
      /\ Update(d.issued + 1) \in Dispatches /\ Update(d.issued + 1).op = "update"
      /\ Update(d.issued + 1).token = d.issued + 1
  BY DEF Update, Dispatches, Discords
<1>2. CASE d.live # NoToken
  <2>1. /\ e.seat = d.seat /\ e.issued = d.issued /\ e.live = d.issued
        /\ e.sent = Append(d.sent, Update(d.live))
    BY <1>2 DEF Reissues, Sends, Discords
  <2> QED BY <1>1, <1>2, <2>1, SentShape DEF NewestAt
<1>3. CASE d.live = NoToken
  <2>1. /\ e.seat = d.seat /\ e.issued = d.issued + 1 /\ e.live = d.issued + 1
        /\ e.sent = Append(d.sent, Update(d.issued + 1))
    BY <1>3 DEF Reissues, Sends, Discords
  <2> QED BY <1>1, <1>3, <2>1, SentShape DEF NewestAt
<1> QED BY <1>2, <1>3

\* Seats, echoes and issued tokens go behind the tokens before them.
LEMMA TokensSeats ==
  ASSUME NEW d \in Discords, NEW c \in Places, NEW e \in Seats(d, c), NEW K \in SUBSET Nat,
         Tokens(d, K)
  PROVE  Tokens(e, K)
<1>1. CASE c \in Channels
  <2> DEFINE n == Len(d.sent)
  <2>1. /\ Longer(d, e) /\ Len(e.sent) = n + 2 /\ n \in Nat /\ d.issued \in Nat
        /\ e.seat = c /\ c # NoChannel /\ e.issued = d.issued + 1 /\ e.live = e.issued
    BY <1>1, SeatedShape, IssuedTyped DEF Longer
  <2>2. PICK s \in {n + 1, n + 2}, u \in {n + 1, n + 2} :
               s # u /\ SaidAt(e, s, c) /\ NewestAt(e, u)
    BY <1>1, SeatedShape
  <2>3. \A q \in Sent(e) : (q \in Sent(d) /\ e.sent[q] = d.sent[q]) \/ q = s \/ q = u
    BY <2>1, <2>2 DEF Longer, Sent
  <2>4. u \in Sent(e) /\ s \in Sent(e)
    BY <2>1, <2>2 DEF Sent
  <2> HIDE DEF n
  <2>5. \A k \in K : k <= e.issued /\ k # e.issued
    BY <2>1 DEF Tokens
  <2>6. ASSUME NEW q \in Sent(d), e.sent[q] = d.sent[q], e.sent[q].op = "update"
        PROVE  e.sent[q].token <= e.issued /\ e.sent[q].token # e.issued
    <3>1. d.sent[q].op = "update" /\ d.sent[q].token <= d.issued /\ d.sent[q] \in Dispatches
      BY <2>6, ElementOfSeq DEF Tokens, Sent, Discords
    <3>2. d.sent[q].token \in Nat
      BY <3>1 DEF Dispatches
    <3> QED BY <2>1, <2>6, <3>1, <3>2
  <2>7. \A q \in Sent(e) : NewestAt(e, q) => q = u
    BY <2>2, <2>3, <2>6 DEF NewestAt, SaidAt
  <2>8. \A q \in Sent(e) : e.sent[q].op = "update" => e.sent[q].token <= e.issued
    <3>1. e.sent[s].op # "update" /\ e.sent[u].token = e.issued /\ e.issued <= e.issued
      BY <2>1, <2>2 DEF SaidAt, NewestAt
    <3> QED BY <2>3, <2>6, <3>1
  <2>9. ~InHand(e, K)
    BY <2>2, <2>4, <2>5 DEF InHand, HasNewest
  <2>10. ASSUME NEW q \in Sent(e), NEW p \in Sent(e), p < q, NewestAt(e, p)
         PROVE  OfSeat(e, q)
    <3>1. p = u
      BY <2>7, <2>10
    <3>2. q = s
      BY <2>1, <2>2, <2>10, <3>1 DEF Sent
    <3> QED BY <2>1, <2>2, <3>2 DEF OfSeat, SaidAt
  <2>11. e.live \in {NoToken, e.issued} /\ e.issued > 0
    BY <2>1
  <2> QED BY <2>5, <2>8, <2>9, <2>10, <2>11 DEF Tokens
<1>2. CASE c = NoChannel
  <2>1. /\ Longer(d, e) /\ Len(e.sent) = Len(d.sent) + 1
        /\ e.seat = NoChannel /\ e.issued = d.issued /\ e.live = NoToken
        /\ SaidAt(e, Len(d.sent) + 1, NoChannel)
    BY <1>2, UnseatedShape
  <2>2. \A q \in Sent(e) : (q \in Sent(d) /\ e.sent[q] = d.sent[q]) \/ e.sent[q].op = "state"
    BY <2>1 DEF Longer, Sent, SaidAt
  <2>3. \A q \in Sent(e) : e.sent[q].op = "update" => e.sent[q].token <= e.issued
    BY <2>1, <2>2 DEF Tokens
  <2> QED BY <2>1, <2>3 DEF Tokens
<1> QED BY <1>1, <1>2 DEF Places

LEMMA TokensEcho ==
  ASSUME NEW d \in Discords, NEW e, e = Sends(d, State(d.seat)), NEW K, Tokens(d, K)
  PROVE  Tokens(e, K)
<1> DEFINE n == Len(d.sent)
<1>1. /\ Longer(d, e) /\ Len(e.sent) = n + 1 /\ n \in Nat
      /\ e.seat = d.seat /\ e.issued = d.issued /\ e.live = d.live
      /\ SaidAt(e, n + 1, d.seat)
  BY EchoedShape DEF Longer
<1>2. /\ \A q \in Sent(e) : (q \in Sent(d) /\ e.sent[q] = d.sent[q]) \/ q = n + 1
      /\ \A q \in Sent(d) : q \in Sent(e) /\ e.sent[q] = d.sent[q]
  BY <1>1 DEF Longer, Sent
<1> HIDE DEF n
<1>3. \A q \in Sent(e) : e.sent[q].op = "update" => e.sent[q].token <= e.issued
  BY <1>1, <1>2 DEF Tokens, SaidAt
<1>4. \A q \in Sent(e) : NewestAt(e, q) => q \in Sent(d) /\ NewestAt(d, q)
  BY <1>1, <1>2 DEF NewestAt, SaidAt
<1>5. \A q \in Sent(d) : NewestAt(d, q) => NewestAt(e, q)
  BY <1>1, <1>2 DEF NewestAt
<1>6. InHand(e, K) => InHand(d, K)
  BY <1>1, <1>2, <1>5 DEF InHand, HasNewest
<1>7. OfSeat(e, n + 1) /\ \A q \in Sent(d) : OfSeat(d, q) => OfSeat(e, q)
  BY <1>1, <1>2 DEF OfSeat, SaidAt
<1>8. ASSUME NEW q \in Sent(e), d.seat # NoChannel,
             InHand(e, K) \/ \E p \in Sent(e) : p < q /\ NewestAt(e, p)
      PROVE  OfSeat(e, q)
  BY <1>2, <1>4, <1>6, <1>7, <1>8 DEF Tokens
<1> QED BY <1>1, <1>3, <1>8 DEF Tokens

LEMMA TokensReissues ==
  ASSUME NEW d \in Discords, NEW e, e = Reissues(d), NEW K \in SUBSET Nat, Tokens(d, K),
         d.seat # NoChannel
  PROVE  Tokens(e, K)
<1> DEFINE n == Len(d.sent)
<1>1. /\ Longer(d, e) /\ Len(e.sent) = n + 1 /\ n \in Nat /\ d.issued \in Nat
      /\ e.seat = d.seat /\ e.live = e.issued
      /\ e.issued = d.issued \/ e.issued = d.issued + 1
      /\ NewestAt(e, n + 1)
  BY ReissuedShape, IssuedTyped DEF Longer, Tokens
<1>2. /\ \A q \in Sent(e) : (q \in Sent(d) /\ e.sent[q] = d.sent[q]) \/ q = n + 1
      /\ \A q \in Sent(d) : q \in Sent(e) /\ e.sent[q] = d.sent[q] /\ q < n + 1
      /\ n + 1 \in Sent(e)
      /\ \A q, p \in Sent(e) : p < q => p \in Sent(d)
  BY <1>1 DEF Longer, Sent
<1> HIDE DEF n
<1>3. ASSUME NEW q \in Sent(d), d.sent[q].op = "update"
      PROVE  d.sent[q].token \in Nat /\ d.sent[q].token <= d.issued
  <2>1. d.sent[q] \in Dispatches
    BY ElementOfSeq DEF Sent, Discords
  <2> QED BY <1>3, <2>1 DEF Tokens, Dispatches
<1>4. \A q \in Sent(e) : e.sent[q].op = "update" => e.sent[q].token <= e.issued
  <2>1. ASSUME NEW q \in Sent(d), e.sent[q].op = "update" PROVE e.sent[q].token <= e.issued
    BY <1>1, <1>2, <1>3, <2>1
  <2>2. e.sent[n + 1].token <= e.issued
    BY <1>1 DEF NewestAt
  <2> QED BY <1>2, <2>1, <2>2
<1>5. /\ e.live \in {NoToken, e.issued} /\ e.issued > 0
      /\ \A k \in K : k <= e.issued
  <2>1. d.issued > 0 /\ \A k \in K : k \in Nat /\ k <= d.issued
    BY DEF Tokens
  <2>2. \A k \in K : k <= e.issued
    BY <1>1, <2>1
  <2>3. e.issued > 0
    BY <1>1, <2>1
  <2> QED BY <1>1, <2>2, <2>3
<1>6. HasNewest(e) /\ OfSeat(e, n + 1)
  BY <1>1, <1>2 DEF HasNewest, OfSeat, NewestAt
<1>7. ASSUME NEW q \in Sent(e), InHand(e, K) \/ \E p \in Sent(e) : p < q /\ NewestAt(e, p)
      PROVE  OfSeat(e, q)
  <2>1. CASE q = n + 1
    BY <1>6, <2>1
  <2>2. CASE q \in Sent(d) /\ e.issued = d.issued
    <3>1. InHand(e, K) => InHand(d, K)
      BY <1>6, <2>2 DEF InHand
    <3>2. \A p \in Sent(e) : p < q /\ NewestAt(e, p) => p \in Sent(d) /\ NewestAt(d, p)
      BY <1>2, <2>2 DEF NewestAt
    <3>3. OfSeat(d, q)
      BY <1>7, <2>2, <3>1, <3>2 DEF Tokens
    <3> QED BY <1>1, <1>2, <2>2, <3>3 DEF OfSeat
  <2>3. CASE q \in Sent(d) /\ e.issued = d.issued + 1
    <3>1. e.issued \notin K
      BY <1>1, <2>3 DEF Tokens
    <3>2. \A p \in Sent(d) : ~NewestAt(e, p)
      BY <1>1, <1>2, <1>3, <2>3 DEF NewestAt
    <3> QED BY <1>2, <1>6, <1>7, <3>1, <3>2 DEF InHand
  <2> QED BY <1>1, <1>2, <2>1, <2>2, <2>3
<1> QED BY <1>1, <1>4, <1>5, <1>7 DEF Tokens

\* What Discord does with a request keeps the tokens in their order.
LEMMA TokensActs ==
  ASSUME NEW d \in Discords, NEW request \in Requests, NEW e \in Acts(d, request),
         NEW K \in SUBSET Nat, Tokens(d, K)
  PROVE  Tokens(e, K)
<1>1. CASE request = Ping
  BY <1>1, TokensReissues DEF Acts, Ping
<1>2. CASE request # Ping
  <2>1. request.op # "ping" /\ request.channel \in Places
    BY <1>2 DEF Requests, Voice, Again
  <2>2. e = d \/ e = Sends(d, State(d.seat)) \/ e \in Seats(d, request.channel)
    BY <2>1 DEF Acts
  <2> QED BY <2>1, <2>2, TokensEcho, TokensSeats
<1> QED BY <1>1, <1>2

\* Taking the first dispatch, the service holds no token but its own before, none,
\* and the one it took.
LEMMA TokensTail ==
  ASSUME NEW d \in Discords, d.sent # <<>>, NEW K \in SUBSET Nat, Tokens(d, K),
         NEW e, e = [d EXCEPT !.sent = Tail(@)], NEW K2 \in SUBSET Nat,
         \A k \in K2 : \/ k \in K \/ k = NoToken
                       \/ Head(d.sent).op = "update" /\ k = Head(d.sent).token
  PROVE  Tokens(e, K2)
<1> DEFINE h == d.sent[1]
<1>1. /\ e.seat = d.seat /\ e.issued = d.issued /\ e.live = d.live
      /\ e.sent = Tail(d.sent) /\ d.issued \in Nat
  BY DEF Discords
<1>2. /\ d.sent \in Seq(Dispatches) /\ Len(d.sent) \in Nat /\ Len(d.sent) >= 1
      /\ Head(d.sent) = h /\ Len(e.sent) = Len(d.sent) - 1
      /\ \A i \in 1 .. Len(e.sent) : e.sent[i] = d.sent[i + 1]
  BY <1>1, HeadTailProperties DEF Discords
<1>3. /\ \A q \in Sent(e) : q + 1 \in Sent(d) /\ e.sent[q] = d.sent[q + 1] /\ 1 < q + 1
      /\ 1 \in Sent(d)
      /\ \A q \in Sent(d) : q = 1 \/ (q - 1 \in Sent(e) /\ (q - 1) + 1 = q)
      /\ \A q \in Sent(e) : \A p \in Sent(e) : p < q => p + 1 < q + 1
  BY <1>2 DEF Sent
<1> HIDE DEF h
<1>4. /\ \A q \in Sent(e) : NewestAt(e, q) <=> NewestAt(d, q + 1)
      /\ \A q \in Sent(e) : OfSeat(e, q) <=> OfSeat(d, q + 1)
  BY <1>1, <1>3 DEF NewestAt, OfSeat
<1>5. ASSUME NEW q \in Sent(e), e.sent[q].op = "update" PROVE e.sent[q].token <= e.issued
  <2>1. q + 1 \in Sent(d) /\ e.sent[q] = d.sent[q + 1]
    BY <1>3
  <2> QED BY <1>1, <1>5, <2>1 DEF Tokens
<1>6. \A k \in K2 : k <= e.issued
  <2>1. \A k \in K : k <= d.issued
    BY DEF Tokens
  <2>2. h.op = "update" => h.token <= d.issued
    BY <1>3 DEF Tokens, h
  <2>3. NoToken <= d.issued
    BY <1>1 DEF NoToken
  <2> QED BY <1>1, <1>2, <2>1, <2>2, <2>3
<1>7. ASSUME d.seat # NoChannel, NEW q \in Sent(e),
             InHand(e, K2) \/ \E p \in Sent(e) : p < q /\ NewestAt(e, p)
      PROVE  OfSeat(e, q)
  <2>0. d.issued # NoToken
    BY <1>1, <1>7 DEF Tokens, NoToken
  <2>1. CASE NewestAt(d, 1)
    <3>1. OfSeat(d, q + 1)
      BY <1>3, <1>7, <2>1 DEF Tokens
    <3> QED BY <1>4, <3>1
  <2>2. CASE ~NewestAt(d, 1)
    <3>1. ~(h.op = "update" /\ h.token = d.issued)
      BY <2>2 DEF NewestAt, h
    <3>2. d.issued \in K2 => d.issued \in K
      BY <1>2, <2>0, <3>1
    <3>3. HasNewest(d) => HasNewest(e)
      <4> SUFFICES ASSUME NEW p \in Sent(d), NewestAt(d, p) PROVE HasNewest(e)
        BY DEF HasNewest
      <4>1. p - 1 \in Sent(e) /\ (p - 1) + 1 = p
        BY <1>3, <2>2
      <4>2. NewestAt(e, p - 1)
        BY <1>4, <4>1
      <4> QED BY <4>1, <4>2 DEF HasNewest
    <3>4. InHand(e, K2) => InHand(d, K)
      BY <1>1, <3>2, <3>3 DEF InHand
    <3>5. ASSUME NEW p \in Sent(e), p < q, NewestAt(e, p)
          PROVE  p + 1 \in Sent(d) /\ p + 1 < q + 1 /\ NewestAt(d, p + 1)
      BY <1>3, <1>4, <3>5
    <3>6. OfSeat(d, q + 1)
      BY <1>3, <1>7, <3>4, <3>5 DEF Tokens
    <3> QED BY <1>4, <3>6
  <2> QED BY <2>1, <2>2
<1> QED BY <1>1, <1>5, <1>6, <1>7 DEF Tokens

\* A token let go of takes nothing from what is known.
LEMMA TokensFewer ==
  ASSUME NEW d \in Discords, NEW K \in SUBSET Nat, Tokens(d, K), NEW K2 \in SUBSET Nat,
         \A k \in K2 : k \in K \/ k = NoToken
  PROVE  Tokens(d, K2)
<1>1. d.issued \in Nat
  BY DEF Discords
<1>2. \A k \in K2 : k <= d.issued
  <2>1. \A k \in K : k <= d.issued
    BY DEF Tokens
  <2>2. NoToken <= d.issued
    BY <1>1 DEF NoToken
  <2> QED BY <2>1, <2>2
<1>3. d.seat # NoChannel /\ InHand(d, K2) => InHand(d, K)
  BY <1>1 DEF InHand, Tokens, NoToken
<1> QED BY <1>2, <1>3 DEF Tokens

\* An update without a token, and one repeated.
LEMMA TokensToken ==
  ASSUME NEW d \in Discords, NEW t \in {NoToken, d.issued}, NEW K \in SUBSET Nat, Tokens(d, K),
         NEW e, e.sent = Append(d.sent, Update(t)), e.seat = d.seat, e.issued = d.issued,
         e.live \in {NoToken, d.issued}
  PROVE  Tokens(e, K)
<1> DEFINE n == Len(d.sent)
<1>1. /\ Update(t) \in Dispatches /\ Update(t).op = "update" /\ Update(t).token = t
      /\ d.issued \in Nat
  BY DEF Update, Dispatches, Discords, NoToken
<1>2. /\ Longer(d, e) /\ Len(e.sent) = n + 1 /\ n \in Nat
      /\ e.sent[n + 1].op = "update" /\ e.sent[n + 1].token = t
  <2>1. Longer(d, e) /\ Len(e.sent) = n + 1 /\ e.sent[n + 1] = Update(t)
    BY <1>1, SentShape
  <2>2. n \in Nat
    BY <2>1 DEF Longer
  <2> QED BY <1>1, <2>1, <2>2
<1>3. /\ \A q \in Sent(e) : (q \in Sent(d) /\ e.sent[q] = d.sent[q]) \/ q = n + 1
      /\ \A q \in Sent(d) : q \in Sent(e) /\ e.sent[q] = d.sent[q]
      /\ \A q, p \in Sent(e) : p < q => p \in Sent(d)
  BY <1>2 DEF Longer, Sent
<1> HIDE DEF n
<1>4. \A q \in Sent(e) : e.sent[q].op = "update" => e.sent[q].token <= e.issued
  <2>1. t <= e.issued
    BY <1>1 DEF NoToken
  <2>2. \A q \in Sent(d) : e.sent[q].op = "update" => e.sent[q].token <= e.issued
    BY <1>3 DEF Tokens
  <2> QED BY <1>2, <1>3, <2>1, <2>2
<1>5. \A q \in Sent(d) : NewestAt(d, q) <=> NewestAt(e, q)
  BY <1>3 DEF NewestAt
<1>6. InHand(e, K) => InHand(d, K)
  BY <1>3, <1>5 DEF InHand, HasNewest
<1>7. OfSeat(e, n + 1) /\ \A q \in Sent(d) : OfSeat(d, q) => OfSeat(e, q)
  BY <1>2, <1>3 DEF OfSeat
<1>8. ASSUME NEW q \in Sent(e), d.seat # NoChannel,
             InHand(e, K) \/ \E p \in Sent(e) : p < q /\ NewestAt(e, p)
      PROVE  OfSeat(e, q)
  BY <1>3, <1>5, <1>6, <1>7, <1>8 DEF Tokens
<1> QED BY <1>4, <1>8 DEF Tokens

-----------------------------------------------------------------------------
(* The voice state of the seat goes beside the newest token.               *)

\* The last voice state on its way says the seat, or none is and w is the seat.
SeatSaid(d, w) ==
    \/ \E q \in Sent(d) : SaidAt(d, q, d.seat) /\ \A r \in Sent(d) : q < r => ~StateAt(d, r)
    \/ w = d.seat /\ ~HasState(d)

\* What goes behind leaves the newest token beside its voice state.
LEMMA BesideLonger ==
  ASSUME NEW d, NEW e, Longer(d, e), e.seat = d.seat, NEW w, NEW p \in Sent(d), Beside(d, w, p)
  PROVE  Beside(e, w, p)
<1>1. /\ \A q \in Sent(d) : q \in Sent(e) /\ e.sent[q] = d.sent[q]
      /\ \A r \in Sent(e) : r < p => r \in Sent(d)
  BY DEF Longer, Sent
<1>2. \A q \in Sent(d) : /\ SaidAt(e, q, e.seat) <=> SaidAt(d, q, d.seat)
                         /\ StateAt(e, q) <=> StateAt(d, q)
  BY <1>1 DEF SaidAt, StateAt
<1>3. CASE \E q \in Sent(d) : /\ q < p /\ SaidAt(d, q, d.seat)
                              /\ \A r \in Sent(d) : q < r /\ r < p => ~StateAt(d, r)
  BY <1>1, <1>2, <1>3 DEF Beside
<1>4. CASE w = d.seat /\ \A r \in Sent(d) : r < p => ~StateAt(d, r)
  BY <1>1, <1>2, <1>4 DEF Beside
<1>5. CASE p + 1 \in Sent(d) /\ SaidAt(d, p + 1, d.seat)
  BY <1>1, <1>2, <1>5 DEF Beside
<1> QED BY <1>3, <1>4, <1>5 DEF Beside

\* Seats and echoes keep it there.
LEMMA AdjacentSeats ==
  ASSUME NEW d \in Discords, NEW c \in Places, NEW e \in Seats(d, c), NEW K, Tokens(d, K),
         NEW w
  PROVE  Adjacent(e, w)
<1>1. CASE c \in Channels
  <2> DEFINE n == Len(d.sent)
  <2>1. /\ Longer(d, e) /\ Len(e.sent) = n + 2 /\ n \in Nat /\ d.issued \in Nat
        /\ e.seat = c /\ e.issued = d.issued + 1
    BY <1>1, SeatedShape, IssuedTyped DEF Longer
  <2>2. PICK s \in {n + 1, n + 2}, u \in {n + 1, n + 2} :
               s # u /\ SaidAt(e, s, c) /\ NewestAt(e, u)
    BY <1>1, SeatedShape
  <2>3. \A q \in Sent(e) : (q \in Sent(d) /\ e.sent[q] = d.sent[q]) \/ q = s \/ q = u
    BY <2>1, <2>2 DEF Longer, Sent
  <2>4. u \in Sent(e) /\ s \in Sent(e)
    BY <2>1, <2>2 DEF Sent
  <2>5. (s < u /\ \A r \in Sent(e) : ~(s < r /\ r < u)) \/ s = u + 1
    BY <2>1, <2>2 DEF Sent
  <2> HIDE DEF n
  <2>6. ASSUME NEW q \in Sent(d), e.sent[q] = d.sent[q], e.sent[q].op = "update"
        PROVE  e.sent[q].token # e.issued
    <3>1. d.sent[q].op = "update" /\ d.sent[q].token <= d.issued /\ d.sent[q] \in Dispatches
      BY <2>6, ElementOfSeq DEF Tokens, Sent, Discords
    <3>2. d.sent[q].token \in Nat
      BY <3>1 DEF Dispatches
    <3> QED BY <2>1, <2>6, <3>1, <3>2
  <2>7. \A q \in Sent(e) : NewestAt(e, q) => q = u
    BY <2>2, <2>3, <2>6 DEF NewestAt, SaidAt
  <2>8. Beside(e, w, u)
    BY <2>1, <2>2, <2>4, <2>5 DEF Beside
  <2> QED BY <2>7, <2>8 DEF Adjacent
<1>2. CASE c = NoChannel
  BY <1>2, UnseatedShape DEF Adjacent
<1> QED BY <1>1, <1>2 DEF Places

LEMMA AdjacentEcho ==
  ASSUME NEW d \in Discords, NEW e, e = Sends(d, State(d.seat)), NEW w, Adjacent(d, w)
  PROVE  Adjacent(e, w)
<1>1. /\ Longer(d, e) /\ Len(e.sent) = Len(d.sent) + 1
      /\ e.seat = d.seat /\ e.issued = d.issued
      /\ SaidAt(e, Len(d.sent) + 1, d.seat)
  BY EchoedShape
<1>2. ASSUME NEW p \in Sent(e), NewestAt(e, p) PROVE p \in Sent(d) /\ NewestAt(d, p)
  <2>1. p # Len(d.sent) + 1
    BY <1>1, <1>2 DEF NewestAt, SaidAt
  <2>2. p \in Sent(d) /\ e.sent[p] = d.sent[p]
    BY <1>1, <2>1 DEF Longer, Sent
  <2> QED BY <1>1, <1>2, <2>2 DEF NewestAt
<1> QED BY <1>1, <1>2, BesideLonger DEF Adjacent

\* A token goes behind the voice state that said its seat.
LEMMA AdjacentToken ==
  ASSUME NEW d \in Discords, NEW t \in Nat, NEW e, e.sent = Append(d.sent, Update(t)),
         e.seat = d.seat, NEW K, Tokens(d, K),
         \/ e.issued = d.issued
         \/ e.issued = d.issued + 1,
         NEW w, Adjacent(d, w), SeatSaid(d, w) \/ t # e.issued
  PROVE  Adjacent(e, w)
<1> DEFINE n == Len(d.sent)
<1>1. /\ Update(t) \in Dispatches /\ Update(t).op = "update" /\ Update(t).token = t
      /\ d.issued \in Nat
  BY DEF Update, Dispatches, Discords
<1>2. /\ Longer(d, e) /\ Len(e.sent) = n + 1 /\ n \in Nat
      /\ e.sent[n + 1].op = "update" /\ e.sent[n + 1].token = t
  <2>1. Longer(d, e) /\ Len(e.sent) = n + 1 /\ e.sent[n + 1] = Update(t)
    BY <1>1, SentShape
  <2>2. n \in Nat
    BY <2>1 DEF Longer
  <2> QED BY <1>1, <2>1, <2>2
<1>3. /\ \A q \in Sent(e) : (q \in Sent(d) /\ e.sent[q] = d.sent[q]) \/ q = n + 1
      /\ \A q \in Sent(d) : q \in Sent(e) /\ e.sent[q] = d.sent[q] /\ q < n + 1
      /\ \A q \in Sent(e) : q < n + 1 => q \in Sent(d)
  BY <1>2 DEF Longer, Sent
<1> HIDE DEF n
<1>4. ASSUME NEW p \in Sent(d), NewestAt(e, p) PROVE e.issued = d.issued /\ NewestAt(d, p)
  <2>1. d.sent[p] \in Dispatches /\ d.sent[p].op = "update" /\ d.sent[p].token = e.issued
    BY <1>3, <1>4, ElementOfSeq DEF Sent, Discords, NewestAt
  <2>2. d.sent[p].token \in Nat /\ d.sent[p].token <= d.issued
    BY <2>1 DEF Dispatches, Tokens
  <2>3. e.issued = d.issued
    BY <1>1, <2>1, <2>2
  <2> QED BY <2>1, <2>3 DEF NewestAt
<1>5. ASSUME SeatSaid(d, w) PROVE Beside(e, w, n + 1)
  <2>1. \A q \in Sent(d) : /\ SaidAt(e, q, e.seat) <=> SaidAt(d, q, d.seat)
                           /\ StateAt(e, q) <=> StateAt(d, q)
    BY <1>3 DEF SaidAt, StateAt
  <2>2. CASE \E q \in Sent(d) : /\ SaidAt(d, q, d.seat)
                                /\ \A r \in Sent(d) : q < r => ~StateAt(d, r)
    BY <1>3, <2>1, <2>2 DEF Beside
  <2>3. CASE w = d.seat /\ ~HasState(d)
    BY <1>3, <2>1, <2>3 DEF Beside, HasState
  <2> QED BY <1>5, <2>2, <2>3 DEF SeatSaid
<1>6. ASSUME NewestAt(e, n + 1) PROVE SeatSaid(d, w)
  BY <1>2, <1>6 DEF NewestAt
<1> QED BY <1>2, <1>3, <1>4, <1>5, <1>6, BesideLonger DEF Adjacent

\* A request for w.
LEMMA AdjacentActs ==
  ASSUME NEW d \in Discords, NEW request \in Requests, NEW e \in Acts(d, request),
         NEW K, Tokens(d, K), NEW w,
         request = Ping => SeatSaid(d, w),
         Adjacent(d, w) \/ (request # Ping /\ request.channel # d.seat)
  PROVE  Adjacent(e, w)
<1>1. CASE request = Ping
  <2>1. CASE e = d
    BY <1>1, <2>1
  <2>2. CASE e = Reissues(d)
    <3>1. CASE d.live # NoToken
      <4>1. /\ e.seat = d.seat /\ e.issued = d.issued /\ d.live \in Nat
            /\ e.sent = Append(d.sent, Update(d.live))
        BY <2>2, <3>1 DEF Reissues, Sends, Discords
      <4> QED BY <1>1, <4>1, AdjacentToken
    <3>2. CASE d.live = NoToken
      <4>1. /\ e.seat = d.seat /\ e.issued = d.issued + 1 /\ d.issued + 1 \in Nat
            /\ e.sent = Append(d.sent, Update(d.issued + 1))
        BY <2>2, <3>2 DEF Reissues, Sends, Discords
      <4> QED BY <1>1, <4>1, AdjacentToken
    <3> QED BY <3>1, <3>2
  <2> QED BY <1>1, <2>1, <2>2 DEF Acts, Ping
<1>2. CASE request # Ping
  <2>1. request.op # "ping" /\ request.channel \in Places
    BY <1>2 DEF Requests, Voice, Again
  <2>2. CASE request.channel # d.seat
    BY <2>1, <2>2, AdjacentSeats DEF Acts
  <2>3. CASE request.channel = d.seat
    BY <1>2, <2>1, <2>3, AdjacentEcho DEF Acts
  <2> QED BY <2>2, <2>3
<1> QED BY <1>1, <1>2

\* The first dispatch is taken.  A room that did not want the seat follows the voice
\* state of it.
LEMMA AdjacentTail ==
  ASSUME NEW d \in Discords, d.sent # <<>>, NEW e, e = [d EXCEPT !.sent = Tail(@)],
         NEW w, Adjacent(d, w), NEW w2,
         \/ Head(d.sent).op = "update" /\ w2 = w
         \/ /\ Head(d.sent).op = "state"
            /\ \A p \in Sent(d) :
                  /\ d.seat # NoChannel /\ SaidAt(d, 1, d.seat) /\ NewestAt(d, p)
                  /\ \A r \in Sent(d) : 1 < r /\ r < p => ~StateAt(d, r)
                  => w2 = d.seat
  PROVE  Adjacent(e, w2)
<1> DEFINE h == d.sent[1]
<1>1. /\ e.seat = d.seat /\ e.issued = d.issued /\ e.sent = Tail(d.sent)
  BY DEF Discords
<1>2. /\ d.sent \in Seq(Dispatches) /\ Len(d.sent) \in Nat /\ Len(d.sent) >= 1
      /\ Head(d.sent) = h /\ Len(e.sent) = Len(d.sent) - 1
      /\ \A i \in 1 .. Len(e.sent) : e.sent[i] = d.sent[i + 1]
  BY <1>1, HeadTailProperties DEF Discords
<1>3. /\ \A q \in Sent(e) : q + 1 \in Sent(d) /\ e.sent[q] = d.sent[q + 1] /\ 1 < q + 1
      /\ 1 \in Sent(d)
      /\ \A q \in Sent(d) : q = 1 \/ (q - 1 \in Sent(e) /\ (q - 1) + 1 = q)
      /\ \A p, q \in Sent(e) : p < q <=> p + 1 < q + 1
      /\ \A p \in Sent(e) : (p + 1) + 1 \in Sent(d) => p + 1 \in Sent(e)
  BY <1>2 DEF Sent
<1> HIDE DEF h
<1>4. /\ \A q \in Sent(e) : NewestAt(e, q) <=> NewestAt(d, q + 1)
      /\ \A q \in Sent(e) : StateAt(e, q) <=> StateAt(d, q + 1)
      /\ \A q \in Sent(e) : SaidAt(e, q, e.seat) <=> SaidAt(d, q + 1, d.seat)
  BY <1>1, <1>3 DEF NewestAt, StateAt, SaidAt
<1>5. StateAt(d, 1) <=> Head(d.sent).op = "state"
  BY <1>2 DEF StateAt, h
<1>6. ASSUME d.seat # NoChannel, NEW p \in Sent(e), NewestAt(e, p)
      PROVE  Beside(e, w2, p)
  <2>1. p + 1 \in Sent(d) /\ Beside(d, w, p + 1)
    BY <1>3, <1>4, <1>6 DEF Adjacent
  <2>2. ASSUME NEW q \in Sent(d), q < p + 1, SaidAt(d, q, d.seat),
               \A r \in Sent(d) : q < r /\ r < p + 1 => ~StateAt(d, r)
        PROVE  Beside(e, w2, p)
    <3>1. CASE q = 1
      <4>1. Head(d.sent).op = "state" /\ SaidAt(d, 1, d.seat)
        BY <1>2, <2>2, <3>1 DEF SaidAt, h
      <4>2. w2 = d.seat
        BY <1>4, <1>6, <2>1, <2>2, <3>1, <4>1
      <4>3. \A r \in Sent(e) : r < p => ~StateAt(e, r)
        BY <1>3, <1>4, <2>2, <3>1
      <4> QED BY <1>1, <4>2, <4>3 DEF Beside
    <3>2. CASE q # 1
      <4>1. PICK s \in Sent(e) : q = s + 1
        BY <1>3, <3>2
      <4>2. s < p /\ SaidAt(e, s, e.seat)
        BY <1>3, <1>4, <2>2, <4>1
      <4>3. \A r \in Sent(e) : s < r /\ r < p => ~StateAt(e, r)
        BY <1>3, <1>4, <2>2, <4>1
      <4> QED BY <4>2, <4>3 DEF Beside
    <3> QED BY <3>1, <3>2
  <2>3. CASE w = d.seat /\ \A r \in Sent(d) : r < p + 1 => ~StateAt(d, r)
    <3>1. 1 < p + 1
      BY <1>3
    <3>2. ~StateAt(d, 1)
      BY <1>3, <2>3, <3>1
    <3>3. w2 = w
      BY <1>5, <3>2
    <3>4. \A r \in Sent(e) : r < p => ~StateAt(e, r)
      BY <1>3, <1>4, <2>3
    <3> QED BY <1>1, <2>3, <3>3, <3>4 DEF Beside
  <2>4. CASE (p + 1) + 1 \in Sent(d) /\ SaidAt(d, (p + 1) + 1, d.seat)
    BY <1>3, <1>4, <2>4 DEF Beside
  <2> QED BY <2>1, <2>2, <2>3, <2>4 DEF Beside
<1> QED BY <1>1, <1>6 DEF Adjacent

-----------------------------------------------------------------------------
(* What the explained requests say of the wanted channel.                  *)

Wants == disposal = "none" /\ desired # NoChannel /\ evicted = "no"

\* The last voice state on its way says the seat; without one the room is there.
LEMMA SeatIsSaid ==
  ASSUME IInv, SeatInv, Wants
  PROVE  SeatSaid(discord, desired)
<1> DEFINE n == Len(unanswered)
           sent == discord.sent
<1>1. /\ unanswered \in Seq(Places) /\ sent \in Seq(Dispatches) /\ Len(sent) \in Nat
  BY TypeParts DEF IInv, SequencesOK, Discords
<1>2. PICK b \in Places, x \in Places, at \in Laid(unanswered, sent) :
        /\ Explains(b, x, at, unanswered, discord.seat, sent)
        /\ unanswered = <<>> /\ desired # NoChannel => desired = b
        /\ unanswered # <<>> => unanswered[n] = desired
  BY DEF SeatInv, Explained, Wants
<1>3. PICK p \in 0 .. Len(sent) : Says(b, b, sent, p, discord.seat) /\ NoStateAfter(sent, p)
  BY <1>2 DEF Explains, SeatedAt
<1>4. CASE p # 0
  <2>1. p \in Sent(discord) /\ p # -1
    BY <1>1, <1>3, <1>4 DEF Sent
  <2>2. SaidAt(discord, p, discord.seat)
    BY <1>3, <1>4, <2>1 DEF Says, SaidAt
  <2> QED BY <1>3, <2>1, <2>2 DEF NoStateAfter, SeatSaid, StateAt, Sent
<1>5. CASE p = 0
  <2>1. b = discord.seat /\ \A q \in 1 .. Len(sent) : sent[q].op # "state"
    BY <1>1, <1>3, <1>5 DEF Says, NoStateAfter
  <2>2. CASE unanswered # <<>>
    <3>1. n \in 1 .. n
      BY <1>1, <2>2, EmptySeq
    <3>2. /\ at[n] \in -1 .. Len(sent) /\ Says(b, x, sent, at[n], desired)
          /\ at[n] = -1 => at[n] >= 1
      BY <1>2, <2>2, <3>1 DEF Laid, Explains
    <3>3. at[n] = 0 \/ at[n] \in 1 .. Len(sent)
      BY <1>1, <3>2
    <3>4. at[n] \in 1 .. Len(sent) => at[n] # -1 /\ at[n] # 0
      OBVIOUS
    <3>5. b = desired
      BY <2>1, <3>2, <3>3, <3>4 DEF Says
    <3> QED BY <2>1, <3>5 DEF SeatSaid, HasState, StateAt, Sent
  <2>3. CASE unanswered = <<>>
    BY <1>2, <2>1, <2>3 DEF SeatSaid, HasState, StateAt, Sent, Wants
  <2> QED BY <2>2, <2>3
<1> QED BY <1>4, <1>5

\* A voice state that answers a request for another channel than the wanted one has the
\* voice state of that one behind it.
LEMMA WantedIsSaid ==
  ASSUME IInv, SeatInv, Wants, Arrives("state"), Answers(Head(discord.sent).channel),
         Head(discord.sent).channel # desired
  PROVE  \E q \in Sent(discord) : q > 1 /\ SaidAt(discord, q, desired)
<1> DEFINE n == Len(unanswered)
           sent == discord.sent
           c == Head(sent).channel
           k == Asking(c)
<1>1. /\ unanswered \in Seq(Places) /\ sent \in Seq(Dispatches) /\ Len(sent) \in Nat
      /\ sent # <<>> /\ n \in Nat
  BY TypeParts DEF IInv, SequencesOK, Discords, Arrives
<1>2. PICK b \in Places, x \in Places, at \in Laid(unanswered, sent) :
        /\ Explains(b, x, at, unanswered, discord.seat, sent)
        /\ unanswered # <<>> => unanswered[n] = desired
  BY DEF SeatInv, Explained, Wants
<1>3. k \in 1 .. n /\ unanswered[k] = c
  BY <1>1, AskingFinds
<1>4. n \in 1 .. n /\ unanswered[n] = desired /\ k <= n
  BY <1>1, <1>2, <1>3, EmptySeq
<1>5. /\ at[n] \in -1 .. Len(sent) /\ Says(b, x, sent, at[n], desired)
      /\ at[n] = -1 => at[n] >= 1
      /\ at[k] \in -1 .. Len(sent) /\ Says(b, x, sent, at[k], c) /\ at[k] <= at[n]
      /\ ~(at[k] = -1 /\ at[n] = 0)
  BY <1>2, <1>3, <1>4 DEF Laid, Explains
<1> HIDE DEF n, k
<1>6. c # desired /\ sent[1] = Head(sent)
  BY <1>1, HeadTailProperties
<1>7. at[n] # -1
  BY <1>5
<1>8. at[n] # 0
  <2> SUFFICES ASSUME at[n] = 0 PROVE FALSE
    OBVIOUS
  <2>1. at[k] = 0
    BY <1>1, <1>5
  <2> QED BY <1>5, <1>6, <2>1 DEF Says
<1>9. at[n] # 1
  <2> SUFFICES ASSUME at[n] = 1 PROVE FALSE
    OBVIOUS
  <2>1. sent[1].channel = desired
    BY <1>5, <1>7, <1>8 DEF Says
  <2> QED BY <1>6, <2>1
<1>10. at[n] \in Sent(discord) /\ at[n] > 1
  BY <1>1, <1>5, <1>7, <1>8, <1>9 DEF Sent
<1>11. SaidAt(discord, at[n], desired)
  BY <1>5, <1>7, <1>8 DEF Says, SaidAt
<1> QED BY <1>10, <1>11

-----------------------------------------------------------------------------
(* What the credentials of a dispatch put in line.                         *)

\* The last credentials queued are those of the start that is current.
LEMMA QueuedIsCurrent ==
  ASSUME NEW ss, IsLine(ss), NEW queue \in Seq(CredentialsSet), queue # <<>>
  PROVE  \E i \in 1 .. Len(Queued(ss, queue)) :
            /\ Queued(ss, queue)[i].current
            /\ Queued(ss, queue)[i].credentials = Last(queue)
<1> DEFINE n == Len(queue)
           new == [i \in 1 .. n |-> [credentials |-> queue[i], current |-> i = n]]
           old == Stale(ss)
<1>1. Queued(ss, queue) = old \o new
  <2>1. DOMAIN queue = 1 .. Len(queue)
    BY LenProperties
  <2> QED BY <2>1 DEF Queued
<1>2. n \in Nat /\ n # 0 /\ Last(queue) = queue[n]
  BY DEF Last
<1>3. new \in Seq(StartSet) /\ Len(new) = n
  <2>1. \A i \in 1 .. n : [credentials |-> queue[i], current |-> i = n] \in StartSet
    BY DEF StartSet
  <2> QED BY <1>2, <2>1
<1>4. new[n].current /\ new[n].credentials = queue[n]
  <2>1. n \in 1 .. n
    BY <1>2
  <2>2. new[n].current = (n = n) /\ new[n].credentials = queue[n]
    BY <2>1
  <2> QED BY <2>2
<1>5. old \in Seq(StartSet) /\ Len(old) \in Nat
  BY StaleIsLine, LenProperties DEF IsLine
<1> HIDE DEF new, old, n
<1>6. /\ Len(old \o new) = Len(old) + n
      /\ \A i \in 1 .. (Len(old) + n) : (old \o new)[i] =
           IF i <= Len(old) THEN old[i] ELSE new[i - Len(old)]
  BY <1>3, <1>5, ConcatProperties
<1>7. /\ Len(old) + n \in 1 .. Len(old \o new) /\ (Len(old) + n) - Len(old) = n
      /\ ~(Len(old) + n <= Len(old))
  BY <1>2, <1>5, <1>6
<1>8. (old \o new)[Len(old) + n] = new[n]
  BY <1>6, <1>7
<1> QED BY <1>1, <1>2, <1>4, <1>7, <1>8

\* The start that is current is for these credentials.
Starting(ss, credentials) ==
    /\ \E i \in 1 .. Len(ss) : ss[i].current /\ ss[i].credentials = credentials
    /\ \A i \in 1 .. Len(ss) : ss[i].current => ss[i].credentials = credentials

\* The credentials change nothing, or they are what starts.
Unstarted(credentials) ==
    /\ UNCHANGED <<starts, latest, readied, client>>
    /\ \/ credentials = NoCredentials \/ desired' # credentials.channel
       \/ readied /\ latest.token = credentials.token

Started ==
    /\ Starting(starts', latest') /\ starts' # <<>>
    /\ ~readied' /\ client' = NoClient

\* Accept starts credentials, or leaves the line and the client alone.
LEMMA AcceptStarts ==
  ASSUME IInv, NEW credentials \in CredentialsSet,
         NEW aimed, aimed = <<>> \/ \E a \in CredentialsSet : aimed = <<a>>,
         NEW mv, Accept(credentials, aimed, mv)
  PROVE  /\ lost' = (lost \/ Loses(credentials))
         /\ \/ Unstarted(credentials) /\ aimed = <<>>
            \/ /\ Started
               /\ \/ latest' = credentials /\ desired' = credentials.channel
                  \/ aimed = <<latest'>>
<1> DEFINE wanted == /\ credentials # NoCredentials
                     /\ desired' = credentials.channel
           repeats == /\ wanted /\ mv # "none" /\ aimed = <<>>
                      /\ RepeatsLive(credentials)
           queue == aimed \o (IF wanted /\ ~repeats THEN <<credentials>>
                              ELSE <<>>)
<1>1. /\ starts' = Queued(starts, queue)
      /\ latest' = IF queue = <<>> THEN latest ELSE Last(queue)
      /\ readied' = (readied /\ queue = <<>>)
      /\ client' = IF starts' = <<>> THEN client ELSE NoClient
      /\ lost' = (lost \/ Loses(credentials))
  BY Zenon DEF Accept
<1>2. IsLine(starts) /\ readied \in BOOLEAN
  BY TypeParts DEF IInv, SequencesOK, FieldsOK
<1>3. aimed \in Seq(CredentialsSet)
  <2>1. \A a \in CredentialsSet : <<a>> \in Seq(CredentialsSet)
    OBVIOUS
  <2> QED BY <2>1, EmptySeq
<1>4. queue \in Seq(CredentialsSet)
  BY <1>3, ConcatProperties
<1>5. /\ wanted /\ ~repeats => queue = aimed \o <<credentials>>
      /\ ~(wanted /\ ~repeats) => queue = aimed
  <2>1. aimed \o <<>> = aimed
    BY <1>3, ConcatEmptySeq
  <2> QED BY <2>1
<1>6. wanted /\ ~repeats => queue # <<>> /\ Last(queue) = credentials
  <2> SUFFICES ASSUME wanted, ~repeats PROVE queue # <<>> /\ Last(queue) = credentials
    OBVIOUS
  <2>0. queue = aimed \o <<credentials>>
    BY <1>5
  <2>1. CASE aimed = <<>>
    BY <2>0, <2>1, ConcatEmptySeq DEF Last
  <2>2. CASE \E a \in CredentialsSet : aimed = <<a>>
    <3>1. PICK a \in CredentialsSet : aimed = <<a>>
      BY <2>2
    <3> DEFINE one == <<a>>
               two == <<credentials>>
    <3>2. /\ one \in Seq(CredentialsSet) /\ two \in Seq(CredentialsSet)
          /\ Len(one) = 1 /\ Len(two) = 1 /\ two[1] = credentials
      OBVIOUS
    <3>3. queue = one \o two
      BY <2>0, <3>1
    <3> HIDE DEF one, two
    <3>4. /\ Len(one \o two) = Len(one) + Len(two)
          /\ \A i \in 1 .. (Len(one) + Len(two)) : (one \o two)[i] =
               IF i <= Len(one) THEN one[i] ELSE two[i - Len(one)]
      BY <3>2, ConcatProperties
    <3>5. Len(one \o two) = 2 /\ (one \o two)[2] = credentials
      BY <3>2, <3>4
    <3>6. Len(queue) = 2 /\ queue[2] = credentials
      BY <3>3, <3>5
    <3> QED BY <3>6, EmptySeq DEF Last
  <2> QED BY <2>1, <2>2
<1>7. wanted => credentials # NoCredentials /\ desired' = credentials.channel
  OBVIOUS
<1>8. ~wanted => credentials = NoCredentials \/ desired' # credentials.channel
  OBVIOUS
<1>9. repeats => aimed = <<>> /\ readied /\ latest.token = credentials.token
  BY DEF RepeatsLive
<1> HIDE DEF wanted, repeats, queue
<1>10. CASE queue = <<>>
  <2>0. starts' = starts /\ latest' = latest
    BY <1>1, <1>2, <1>4, <1>10, QueuedIsLine
  <2>1. starts' = starts /\ latest' = latest /\ readied' = readied
    BY <1>1, <1>2, <1>10, <2>0, Zenon
  <2>2. client' = client
    BY <1>1, <2>1 DEF IInv, ClosedFirst
  <2>3. ~(wanted /\ ~repeats) /\ aimed = <<>>
    BY <1>5, <1>6, <1>10
  <2> QED BY <1>1, <1>8, <1>9, <2>1, <2>2, <2>3 DEF Unstarted
<1>11. CASE queue # <<>>
  <2>1. /\ latest' = Last(queue) /\ ~readied' /\ IsLine(starts') /\ starts' # <<>>
        /\ starts' = Queued(starts, queue)
    BY <1>1, <1>2, <1>4, <1>11, QueuedIsLine
  <2>2. client' = NoClient
    BY <1>1, <2>1
  <2>3. \E i \in 1 .. Len(starts') : starts'[i].current /\ starts'[i].credentials = latest'
    BY <1>2, <1>4, <1>11, <2>1, QueuedIsCurrent
  <2>4. Starting(starts', latest')
    BY <2>1, <2>3 DEF Starting, IsLine
  <2>5. CASE wanted /\ ~repeats
    BY <1>1, <1>6, <1>7, <2>1, <2>2, <2>4, <2>5 DEF Started
  <2>6. CASE ~(wanted /\ ~repeats)
    <3>1. queue = aimed /\ aimed # <<>>
      BY <1>5, <1>11, <2>6
    <3>2. PICK a \in CredentialsSet : aimed = <<a>>
      BY <3>1
    <3>3. aimed = <<latest'>>
      BY <2>1, <3>1, <3>2 DEF Last
    <3> QED BY <1>1, <2>1, <2>2, <2>4, <3>3 DEF Started
  <2> QED BY <2>5, <2>6
<1> QED BY <1>10, <1>11

-----------------------------------------------------------------------------
(* What the service asks of Discord.                                       *)

\* e is what Discord may be once it was asked, last of all, for w.
AskedFor(d, e, w) ==
    \E last \in Requests :
        /\ last # Ping /\ last.channel = w
        /\ \/ e \in Acts(d, last)
           \/ \E first \in Requests : \E f \in Acts(d, first) : e \in Acts(f, last)

\* The account keeps its seat and its token, loses the seat, or has a newer token.
Reseated(d, e) ==
    \/ e.seat = d.seat /\ e.issued = d.issued
    \/ e.seat = NoChannel
    \/ e.issued > d.issued

\* A request adds to what Discord sent and leaves the account where it asks.
LEMMA ActsGrow ==
  ASSUME NEW d \in Discords, NEW request \in Requests, NEW e \in Acts(d, request),
         NEW K, Tokens(d, K)
  PROVE  /\ e \in Discords /\ Longer(d, e) /\ Reseated(d, e)
         /\ e.issued \in Nat /\ d.issued \in Nat /\ d.issued <= e.issued
         /\ request # Ping => e.seat = request.channel
<1>1. e \in Discords
  BY ActsTyped
<1>2. e.issued \in Nat /\ d.issued \in Nat
  BY <1>1 DEF Discords
<1>3. CASE e = d
  <2>1. Longer(d, e)
    BY <1>3 DEF Longer, Discords
  <2>2. request # Ping => d.seat = request.channel
    <3> SUFFICES ASSUME request # Ping, d.seat # request.channel PROVE FALSE
      OBVIOUS
    <3>1. e \in Seats(d, request.channel) /\ request.channel \in Places
      BY DEF Acts, Requests, Voice, Again
    <3>2. e.seat = request.channel
      BY <3>1, SeatedShape, UnseatedShape DEF Places
    <3> QED BY <1>3, <3>2
  <2> QED BY <1>1, <1>2, <1>3, <2>1, <2>2 DEF Reseated
<1>4. CASE request = Ping /\ e = Reissues(d)
  <2>1. /\ Longer(d, e) /\ e.seat = d.seat
        /\ e.issued = d.issued \/ e.issued = d.issued + 1
    BY <1>4, ReissuedShape DEF Tokens
  <2>2. d.issued <= e.issued /\ (e.issued = d.issued \/ e.issued > d.issued)
    BY <1>2, <2>1
  <2> QED BY <1>1, <1>2, <1>4, <2>1, <2>2 DEF Reseated
<1>5. CASE request # Ping /\ request.channel = d.seat /\ e = Sends(d, State(d.seat))
  <2>1. /\ Longer(d, e) /\ e.seat = d.seat /\ e.issued = d.issued
    BY <1>5, EchoedShape
  <2> QED BY <1>1, <1>2, <1>5, <2>1 DEF Reseated
<1>6. CASE request # Ping /\ e \in Seats(d, request.channel)
  <2>1. request.channel \in Places
    BY <1>6 DEF Requests, Voice, Again
  <2>2. CASE request.channel \in Channels
    <3>1. Longer(d, e) /\ e.seat = request.channel /\ e.issued = d.issued + 1
      BY <1>6, <2>2, SeatedShape
    <3>2. d.issued <= e.issued /\ e.issued > d.issued
      BY <1>2, <3>1
    <3> QED BY <1>1, <1>2, <3>1, <3>2 DEF Reseated
  <2>3. CASE request.channel = NoChannel
    <3>1. Longer(d, e) /\ e.seat = NoChannel /\ e.issued = d.issued
      BY <1>6, <2>3, UnseatedShape
    <3> QED BY <1>1, <1>2, <2>3, <3>1 DEF Reseated
  <2> QED BY <2>1, <2>2, <2>3 DEF Places
<1>7. \/ e = d
      \/ request = Ping /\ e = Reissues(d)
      \/ request # Ping /\ request.channel = d.seat /\ e = Sends(d, State(d.seat))
      \/ request # Ping /\ e \in Seats(d, request.channel)
  <2>1. CASE request = Ping
    BY <2>1 DEF Acts, Ping
  <2>2. CASE request # Ping
    BY <2>2 DEF Acts, Requests, Voice, Again
  <2> QED BY <2>1, <2>2
<1> QED BY <1>3, <1>4, <1>5, <1>6, <1>7

LEMMA LongerTwice ==
  ASSUME NEW d, NEW e, NEW f, Longer(d, e), Longer(e, f)
  PROVE  Longer(d, f)
BY DEF Longer

\* So do one or two, and what held of tokens and voice states holds on.
LEMMA AskedForKeeps ==
  ASSUME NEW d \in Discords, NEW e, NEW w, AskedFor(d, e, w),
         NEW K \in SUBSET Nat, Tokens(d, K)
  PROVE  /\ e \in Discords /\ Longer(d, e) /\ Reseated(d, e) /\ e.seat = w
         /\ e.issued \in Nat /\ d.issued \in Nat
         /\ Tokens(e, K)
         /\ \A v : Adjacent(d, v) /\ SeatSaid(d, v) => Adjacent(e, v)
<1>1. PICK last \in Requests :
        /\ last # Ping /\ last.channel = w
        /\ \/ e \in Acts(d, last)
           \/ \E first \in Requests : \E f \in Acts(d, first) : e \in Acts(f, last)
  BY DEF AskedFor
<1>2. CASE e \in Acts(d, last)
  BY <1>1, <1>2, ActsGrow, TokensActs, AdjacentActs
<1>3. CASE \E first \in Requests : \E f \in Acts(d, first) : e \in Acts(f, last)
  <2>1. PICK first \in Requests : \E f \in Acts(d, first) : e \in Acts(f, last)
    BY <1>3
  <2>2. PICK f \in Acts(d, first) : e \in Acts(f, last)
    BY <2>1
  <2>3. /\ f \in Discords /\ Longer(d, f) /\ Reseated(d, f)
        /\ f.issued \in Nat /\ d.issued \in Nat /\ d.issued <= f.issued /\ Tokens(f, K)
    BY <2>2, ActsGrow, TokensActs
  <2>4. /\ e \in Discords /\ Longer(f, e) /\ Reseated(f, e) /\ e.seat = w
        /\ e.issued \in Nat /\ f.issued <= e.issued /\ Tokens(e, K)
    BY <1>1, <2>2, <2>3, ActsGrow, TokensActs
  <2>5. Longer(d, e)
    BY <2>3, <2>4, LongerTwice
  <2>6. Reseated(d, e)
    <3>1. CASE e.issued > d.issued
      BY <3>1 DEF Reseated
    <3>2. CASE e.issued = d.issued
      <4>1. f.issued = d.issued
        BY <2>3, <2>4, <3>2
      <4>2. /\ f.seat = d.seat \/ f.seat = NoChannel
            /\ e.seat = f.seat \/ e.seat = NoChannel
        BY <2>3, <2>4, <3>2, <4>1 DEF Reseated
      <4> QED BY <3>2, <4>2 DEF Reseated
    <3> QED BY <2>3, <2>4, <3>1, <3>2
  <2>7. ASSUME NEW v, Adjacent(d, v), SeatSaid(d, v) PROVE Adjacent(e, v)
    <3>1. Adjacent(f, v)
      BY <2>2, <2>7, AdjacentActs
    <3> QED BY <1>1, <2>2, <2>3, <3>1, AdjacentActs
  <2> QED BY <2>3, <2>4, <2>5, <2>6, <2>7
<1> QED BY <1>1, <1>2, <1>3

\* The requests of the service are all of this kind.
LEMMA AnnounceAsks ==
  ASSUME SequencesOK, disposal = "none", NEW c \in Places, Announce(c)
  PROVE  /\ discord' \in Acts(discord, Voice(c)) /\ Voice(c) \in Requests
         /\ Voice(c) # Ping /\ Voice(c).channel = c
         /\ AskedFor(discord, discord', c)
<1>1. /\ Voice(c) \in Requests /\ Voice(c) # Ping /\ Voice(c).channel = c
  BY DEF Requests, Voice, Ping
<1>2. discord' \in Acts(discord, Voice(c))
  BY ReachingOpen DEF Announce, Asked
<1> QED BY <1>1, <1>2 DEF AskedFor

LEMMA RejoinAsks ==
  ASSUME SequencesOK, disposal = "none", NEW c \in Places, LeaveAndRejoin(c)
  PROVE  AskedFor(discord, discord', c)
<1>1. /\ Voice(c) \in Requests /\ Voice(c) # Ping /\ Voice(c).channel = c
      /\ Voice(NoChannel) \in Requests
  BY DEF Requests, Voice, Ping, Places
<1>2. discord' \in UNION {Acts(e, Voice(c)) : e \in Acts(discord, Voice(NoChannel))}
  BY ReachingOpen DEF LeaveAndRejoin, AskedBoth
<1>3. PICK e \in Acts(discord, Voice(NoChannel)) : discord' \in Acts(e, Voice(c))
  BY <1>2
<1> QED BY <1>1, <1>3 DEF AskedFor

LEMMA RecoverAsks ==
  ASSUME FieldsOK, disposal = "none", Recover
  PROVE  AskedFor(discord, discord', desired)
<1>1. /\ Again(desired) \in Requests /\ Again(desired) # Ping
      /\ Again(desired).channel = desired /\ Ping \in Requests
  BY DEF Requests, Again, Ping, FieldsOK
<1>2. discord' \in UNION {Acts(e, Again(desired)) : e \in Acts(discord, Ping)}
  BY ReachingOpen DEF Recover, AskedBoth
<1>3. PICK e \in Acts(discord, Ping) : discord' \in Acts(e, Again(desired))
  BY <1>2
<1> QED BY <1>1, <1>3 DEF AskedFor

\* A move that Discord made, followed.
LEMMA FollowAsks ==
  ASSUME IInv, Arrives("state"), NEW c \in Places, FollowMove(c)
  PROVE  /\ Again(c) \in Requests /\ Again(c) # Ping /\ Again(c).channel = c
         /\ \/ discord' = Rest
            \/ discord' \in Acts(Rest, Again(c)) /\ AskedFor(Rest, discord', c)
<1>1. Again(c) \in Requests /\ Again(c) # Ping /\ Again(c).channel = c
  BY DEF Requests, Again, Ping
<1>2. discord' = Rest \/ discord' \in Asked(Rest, Again(c))
  BY DEF FollowMove
<1>3. Asked(Rest, Again(c)) = Acts(Rest, Again(c))
  BY ReachingOpen DEF Asked, Arrives
<1> QED BY <1>1, <1>2, <1>3 DEF AskedFor

-----------------------------------------------------------------------------
(* The steps, by what they do to Discord and to what the service wants.    *)

\* Nothing is asked and nothing taken.
Quiet == UNCHANGED <<discord, desired, evicted, pairing, latest, lost>>

\* A request, for the channel that is wanted then.  A room goes elsewhere by
\* JoinOther alone.
Asks ==
    /\ AskedFor(discord, discord', desired')
    /\ desired' = desired \/ desired' = NoChannel
    /\ desired' # NoChannel => evicted' = evicted \/ evicted' # "no"
    /\ UNCHANGED lost
    /\ \/ pairing' = pairing /\ desired' = desired
       \/ pairing' = NoCredentials
       \/ pairing' = Credentials(desired', NoToken)
    /\ \/ latest' = latest
       \/ latest' = NoCredentials /\ desired' = NoChannel

JoinsOther == \E c \in Channels : Join(c) /\ JoinOther(c)

Moderates == \E c \in Places : ModeratorMoves(c)

StepKind ==
    Quiet \/ Asks \/ JoinsOther \/ TakeState \/ TakeUpdate \/ Moderates
    \/ ServerForgets \/ ServerRepeats

LEMMA ReportsKinds ==
  ASSUME IInv, disposal = "none", NEW status, NEW conn, Reports(status, conn)
  PROVE  Quiet \/ (Asks /\ Recover)
<1>1. FieldsOK
  BY TypeParts DEF IInv
<1>2. UNCHANGED <<desired, latest, evicted, lost>>
  BY DEF Reports, trouble
<1>3. CASE Recover
  <2>1. AskedFor(discord, discord', desired) /\ pairing' = Credentials(desired, NoToken)
    BY <1>1, <1>3, RecoverAsks DEF Recover
  <2> QED BY <1>2, <1>3, <2>1 DEF Asks
<1>4. CASE UNCHANGED <<reissueDue, discord, unanswered, pairing, starts>>
  BY <1>2, <1>4 DEF Quiet
<1> QED BY <1>3, <1>4 DEF Reports

\* Every step of an open service is of one of these kinds.
LEMMA StepKinds ==
  ASSUME IInv, [Next]_vars, disposal = "none", disposal' = "none"
  PROVE  StepKind
<1>1. FieldsOK /\ SequencesOK
  BY TypeParts DEF IInv
<1>2. ASSUME NEW c \in Channels, Join(c), JoinSame(c) PROVE Asks
  <2>1. c \in Places /\ (Announce(c) \/ LeaveAndRejoin(c))
    BY <1>2 DEF JoinSame, Places
  <2>2. AskedFor(discord, discord', c) /\ desired' = c /\ desired = c
    BY <1>1, <1>2, <2>1, AnnounceAsks, RejoinAsks DEF JoinSame
  <2>3. UNCHANGED <<pairing, lost, latest>>
    BY <1>2 DEF Join, JoinSame
  <2>4. evicted' = evicted \/ evicted' # "no"
    BY <1>2 DEF Join
  <2> QED BY <2>2, <2>3, <2>4 DEF Asks
<1>3. CASE LeaveBegins
  <2>1. /\ NoChannel \in Places /\ Announce(NoChannel) /\ desired' = NoChannel
        /\ latest' = NoCredentials /\ pairing' = NoCredentials /\ UNCHANGED lost
    BY <1>3 DEF LeaveBegins, Places, trouble
  <2>2. AskedFor(discord, discord', NoChannel)
    BY <1>1, <2>1, AnnounceAsks
  <2> QED BY <2>1, <2>2 DEF Asks, StepKind
<1>4. CASE LeaveEnds
  BY <1>4 DEF LeaveEnds, Quiet, StepKind, pairs, trouble
<1>5. CASE ReissueTimer
  <2>1. UNCHANGED <<desired, evicted, pairing, latest, lost>>
    BY <1>5 DEF ReissueTimer, pairs, trouble
  <2>2. CASE LeaveAndRejoin(desired)
    <3>1. AskedFor(discord, discord', desired)
      BY <1>1, <2>2, RejoinAsks DEF FieldsOK
    <3> QED BY <2>1, <3>1 DEF Asks, StepKind
  <2>3. CASE UNCHANGED discord
    BY <2>1, <2>3 DEF Quiet, StepKind
  <2> QED BY <1>5, <2>2, <2>3 DEF ReissueTimer, ForceReissue
<1>6. CASE MoveTimer
  <2>1. UNCHANGED <<desired, evicted, latest, lost>>
    BY <1>6 DEF MoveTimer, room, trouble
  <2>2. CASE Recover
    <3>1. AskedFor(discord, discord', desired) /\ pairing' = Credentials(desired, NoToken)
      BY <1>1, <2>2, RecoverAsks DEF Recover
    <3> QED BY <2>1, <3>1 DEF Asks, StepKind
  <2>3. CASE UNCHANGED <<pinged, reissueDue, discord, unanswered, pairing, starts>>
    BY <2>1, <2>3 DEF Quiet, StepKind
  <2> QED BY <1>6, <2>2, <2>3 DEF MoveTimer
<1>7. CASE Starts
  BY <1>7 DEF Starts, StartEnds, StartThrows, Quiet, StepKind, pairs, room, trouble
<1>8. CASE Client
  <2>1. ASSUME NEW status, NEW conn, Reports(status, conn) PROVE StepKind
    BY <2>1, ReportsKinds DEF StepKind
  <2> QED BY <1>8, <2>1 DEF Client, ClientDials, ClientReady, ClientRefused, ClientDrops,
                            ClientRedials, ClientFails, ClientBlamesKey, ClientNegotiates,
                            ClientStirs
<1>9. CASE Server
  BY <1>9 DEF Server, Moderates, StepKind
<1>10. CASE UNCHANGED vars
  BY <1>10 DEF vars, pairs, room, trouble, Quiet, StepKind
<1>11. CASE CloseBegins \/ CloseSweeps \/ CloseEnds
  BY <1>11 DEF CloseBegins, CloseSweeps, CloseEnds
<1>12. ASSUME NEW c \in Channels, Join(c) PROVE StepKind
  <2>1. JoinSame(c) \/ JoinOther(c)
    BY <1>12 DEF Join
  <2> QED BY <1>2, <1>12, <2>1 DEF JoinsOther, StepKind
<1> QED BY <1>3, <1>4, <1>5, <1>6, <1>7, <1>8, <1>9, <1>10, <1>11, <1>12
        DEF Next, Room, Service, StepKind

\* The state a dispatch is taken in.
LEMMA Arriving ==
  ASSUME IInv, NEW op, Arrives(op)
  PROVE  /\ disposal = "none" /\ discord \in Discords /\ Rest \in Discords
         /\ discord.sent # <<>> /\ Head(discord.sent) \in Dispatches
         /\ Head(discord.sent).op = op /\ Head(discord.sent) = discord.sent[1]
         /\ 1 \in Sent(discord) /\ Len(discord.sent) \in Nat
         /\ Rest = [discord EXCEPT !.sent = Tail(@)]
         /\ Rest.seat = discord.seat /\ Rest.issued = discord.issued
         /\ Rest.live = discord.live
         /\ \A p \in Sent(discord) :
               p # 1 => p - 1 \in Sent(Rest) /\ Rest.sent[p - 1] = discord.sent[p]
<1>1. SequencesOK
  BY TypeParts DEF IInv
<1>2. /\ disposal = "none" /\ Rest \in Discords /\ Head(discord.sent) \in Dispatches
      /\ Head(discord.sent).op = op
  BY <1>1, ArrivedTyped
<1>3. discord \in Discords /\ discord.sent # <<>> /\ discord.sent \in Seq(Dispatches)
  BY <1>1 DEF SequencesOK, Arrives, Discords
<1>4. /\ Rest.seat = discord.seat /\ Rest.issued = discord.issued
      /\ Rest.live = discord.live /\ Rest.sent = Tail(discord.sent)
  BY <1>3 DEF Rest, Discords
<1>5. /\ Len(discord.sent) \in Nat /\ Len(discord.sent) >= 1
      /\ Head(discord.sent) = discord.sent[1]
      /\ Len(Rest.sent) = Len(discord.sent) - 1
      /\ \A i \in 1 .. Len(Rest.sent) : Rest.sent[i] = discord.sent[i + 1]
  BY <1>3, <1>4, HeadTailProperties
<1>6. 1 \in Sent(discord)
  BY <1>5 DEF Sent
<1>7. ASSUME NEW p \in Sent(discord), p # 1
      PROVE  p - 1 \in Sent(Rest) /\ Rest.sent[p - 1] = discord.sent[p]
  <2>1. p - 1 \in 1 .. Len(Rest.sent) /\ (p - 1) + 1 = p
    BY <1>5, <1>7 DEF Sent
  <2> QED BY <1>5, <2>1 DEF Sent
<1> QED BY <1>2, <1>3, <1>4, <1>5, <1>6, <1>7 DEF Rest

\* What a voice state may do: the room keeps its place, or follows it.
Keeps(c) ==
    /\ Answers(c) \/ desired = NoChannel \/ desired = c
    /\ discord' = Rest /\ UNCHANGED <<desired, evicted>>
    /\ \/ Unstarted(Completed(c))
       \/ Started /\ latest' = Completed(c) /\ desired = Completed(c).channel

Follows(c) ==
    /\ desired # NoChannel /\ desired # c /\ desired' = c
    /\ c # NoChannel => UNCHANGED evicted
    /\ c = NoChannel => evicted' # "no"
    /\ \/ discord' = Rest
       \/ /\ AskedFor(Rest, discord', c)
          /\ \E request \in Requests : /\ request # Ping /\ request.channel = c
                                       /\ discord' \in Acts(Rest, request)
    /\ \/ /\ Unstarted(Completed(c)) /\ ~(c # NoChannel /\ Reaims(c))
       \/ /\ Started
          /\ \/ latest' = Completed(c) /\ c = Completed(c).channel
             \/ latest' = Credentials(c, latest.token)

\* A voice state is taken.
LEMMA TakesState ==
  ASSUME IInv, TakeState
  PROVE  LET c == Head(discord.sent).channel
         IN  /\ c \in Places /\ Arrives("state") /\ PairsState(c)
             /\ UNCHANGED <<disposal, lastStatus, shown, leaving, ignored>>
             /\ Completed(c) \in CredentialsSet
             /\ lost' = (lost \/ Loses(Completed(c)))
             /\ Keeps(c) \/ Follows(c)
<1> DEFINE c == Head(discord.sent).channel
<1>1. FieldsOK /\ SequencesOK /\ Arrives("state")
  BY TypeParts DEF IInv, TakeState
<1>2. c \in Places
  BY <1>1, ArrivedTyped DEF Dispatches
<1>3. /\ IF Answers(c) \/ desired = NoChannel \/ desired = c
         THEN KeepPlace(c) ELSE FollowMove(c)
      /\ PairsState(c)
      /\ UNCHANGED <<disposal, lastStatus, shown, leaving, ignored, events>>
  BY DEF TakeState
<1> HIDE DEF c
<1>4. Completed(c) \in CredentialsSet
  BY <1>1, <1>2, CompletedTyped
<1>5. CASE KeepPlace(c) /\ (Answers(c) \/ desired = NoChannel \/ desired = c)
  <2>1. /\ discord' = Rest /\ UNCHANGED <<desired, evicted>>
        /\ Accept(Completed(c), <<>>, moving)
    BY <1>5 DEF KeepPlace
  <2>2. ASSUME NEW a PROVE <<>> # <<a>>
    BY EmptySeq
  <2>3. /\ lost' = (lost \/ Loses(Completed(c)))
        /\ \/ Unstarted(Completed(c))
           \/ Started /\ latest' = Completed(c) /\ desired' = Completed(c).channel
    BY <1>4, <2>1, <2>2, AcceptStarts
  <2> QED BY <1>1, <1>2, <1>3, <1>4, <1>5, <2>1, <2>3 DEF Keeps, c
<1>6. CASE FollowMove(c) /\ ~(Answers(c) \/ desired = NoChannel \/ desired = c)
  <2> DEFINE aimed == IF c # NoChannel /\ Reaims(c)
                      THEN <<Credentials(c, latest.token)>> ELSE <<>>
             mv == IF c = NoChannel THEN "none" ELSE "waiting"
  <2>1. /\ desired' = c
        /\ evicted' = IF c = NoChannel /\ evicted = "no" THEN "told" ELSE evicted
        /\ Accept(Completed(c), aimed, mv)
    BY <1>6 DEF FollowMove
  <2>2. Credentials(c, latest.token) \in CredentialsSet
    BY <1>1, <1>2, CredentialsTyped DEF FieldsOK, CredentialsSet
  <2>3. aimed = <<>> \/ \E a \in CredentialsSet : aimed = <<a>>
    BY <2>2
  <2>4. /\ aimed = <<>> => ~(c # NoChannel /\ Reaims(c))
        /\ \A a : aimed = <<a>> => a = Credentials(c, latest.token)
    OBVIOUS
  <2> HIDE DEF aimed, mv
  <2>5. /\ lost' = (lost \/ Loses(Completed(c)))
        /\ \/ Unstarted(Completed(c)) /\ aimed = <<>>
           \/ /\ Started
              /\ \/ latest' = Completed(c) /\ desired' = Completed(c).channel
                 \/ aimed = <<latest'>>
    BY <1>4, <2>1, <2>3, AcceptStarts
  <2>6. \/ discord' = Rest
        \/ /\ AskedFor(Rest, discord', c)
           /\ \E request \in Requests : /\ request # Ping /\ request.channel = c
                                        /\ discord' \in Acts(Rest, request)
    BY <1>1, <1>2, <1>6, FollowAsks
  <2>7. Follows(c)
    <3>1. /\ desired # NoChannel /\ desired # c /\ desired' = c
          /\ c # NoChannel => UNCHANGED evicted
          /\ c = NoChannel => evicted' # "no"
      BY <1>6, <2>1
    <3>2. \/ /\ Unstarted(Completed(c)) /\ ~(c # NoChannel /\ Reaims(c))
          \/ /\ Started
             /\ \/ latest' = Completed(c) /\ c = Completed(c).channel
                \/ latest' = Credentials(c, latest.token)
      BY <2>1, <2>4, <2>5
    <3> QED BY <2>6, <3>1, <3>2 DEF Follows
  <2> QED BY <1>1, <1>2, <1>3, <1>4, <2>5, <2>7 DEF c
<1> QED BY <1>3, <1>5, <1>6

\* A server update is taken.
LEMMA TakesUpdate ==
  ASSUME IInv, TakeUpdate
  PROVE  LET t == Head(discord.sent).token
             complete == t # NoToken /\ pairing.channel # NoChannel
             pair == IF complete THEN Credentials(pairing.channel, t) ELSE NoCredentials
         IN  /\ t \in Nat /\ Arrives("update") /\ discord' = Rest
             /\ UNCHANGED <<disposal, desired, evicted, shown, ignored, pinged, reissueDue>>
             /\ pairing' = IF complete \/ t = NoToken THEN NoCredentials
                           ELSE Credentials(NoChannel, t)
             /\ lost' = (lost \/ Loses(pair))
             /\ \/ Unstarted(pair)
                \/ Started /\ latest' = pair /\ desired = pair.channel
<1> DEFINE t == Head(discord.sent).token
           complete == t # NoToken /\ pairing.channel # NoChannel
           pair == IF complete THEN Credentials(pairing.channel, t) ELSE NoCredentials
<1>1. FieldsOK /\ SequencesOK /\ Arrives("update")
  BY TypeParts DEF IInv, TakeUpdate
<1>2. t \in Nat
  BY <1>1, ArrivedTyped DEF Dispatches
<1>3. /\ pairing' = IF complete \/ t = NoToken THEN NoCredentials
                    ELSE Credentials(NoChannel, t)
      /\ discord' = Rest /\ UNCHANGED desired
      /\ Accept(pair, <<>>, moving)
      /\ UNCHANGED <<disposal, evicted, shown, ignored, pinged, reissueDue>>
  BY DEF TakeUpdate, room
<1>4. pair \in CredentialsSet
  <2>1. pairing.channel \in Places
    BY <1>1 DEF FieldsOK, CredentialsSet
  <2> QED BY <1>2, <2>1, CredentialsTyped, NothingTyped
<1>5. ASSUME NEW a PROVE <<>> # <<a>>
  BY EmptySeq
<1> HIDE DEF pair
<1>6. /\ lost' = (lost \/ Loses(pair))
      /\ \/ Unstarted(pair)
         \/ Started /\ latest' = pair /\ desired' = pair.channel
  BY <1>3, <1>4, <1>5, AcceptStarts
<1> QED BY <1>1, <1>2, <1>3, <1>6 DEF pair

\* Discord sends, or forgets, without being asked.
LEMMA SendsUnasked ==
  ASSUME IInv, Moderates \/ ServerForgets \/ ServerRepeats
  PROVE  /\ UNCHANGED <<disposal, desired, pinged, reissueDue, latest, readied, pairing,
                        starts, client, shown, evicted, lost, ignored>>
         /\ discord \in Discords
         /\ \/ \E c \in Places : c # discord.seat /\ discord' \in Seats(discord, c)
            \/ /\ discord'.seat = discord.seat /\ discord'.issued = discord.issued
               /\ discord'.live \in {NoToken, discord.live}
               /\ \/ discord'.sent = discord.sent
                  \/ discord'.sent = Append(discord.sent, Update(NoToken))
                  \/ discord'.sent = Append(discord.sent, Update(discord.live))
<1>1. discord \in Discords
  BY TypeParts DEF IInv, SequencesOK
<1>2. UNCHANGED <<disposal, desired, pinged, reissueDue, latest, readied, pairing,
                  starts, client, shown, evicted, lost, ignored>>
  BY DEF Moderates, ModeratorMoves, ServerForgets, ServerRepeats, Unasked, recovery,
         pairs, clients, room, trouble
<1>3. CASE Moderates
  BY <1>1, <1>2, <1>3 DEF Moderates, ModeratorMoves, Unasked
<1>4. CASE ServerForgets
  <2>1. /\ discord'.seat = discord.seat /\ discord'.issued = discord.issued
        /\ discord'.live = NoToken
        /\ \/ discord'.sent = discord.sent
           \/ discord'.sent = Append(discord.sent, Update(NoToken))
    BY <1>1, <1>4 DEF ServerForgets, Unasked, Sends, Discords
  <2> QED BY <1>1, <1>2, <2>1
<1>5. CASE ServerRepeats
  <2>1. /\ discord'.seat = discord.seat /\ discord'.issued = discord.issued
        /\ discord'.live = discord.live
        /\ discord'.sent = Append(discord.sent, Update(discord.live))
    BY <1>1, <1>5 DEF ServerRepeats, Unasked, Sends, Discords
  <2> QED BY <1>1, <1>2, <2>1
<1> QED BY <1>3, <1>4, <1>5

\* A service that is open always was.
LEMMA OpenBefore ==
  ASSUME [Next]_vars, disposal' = "none"
  PROVE  disposal = "none"
BY DEF Next, Room, Service, Client, Server, Starts, Join, LeaveBegins, LeaveEnds, TakeState,
       TakeUpdate, ReissueTimer, MoveTimer, StartEnds, StartThrows, Arrives, ClientDials,
       ClientReady, ClientRefused, ClientDrops, ClientRedials, ClientFails, ClientBlamesKey,
       ClientNegotiates, ClientStirs, Reports,
       ServerForgets, ServerRepeats, ModeratorMoves, Unasked, CloseBegins, CloseSweeps,
       CloseEnds, vars

-----------------------------------------------------------------------------
(* The tokens the service holds.                                           *)

Held == {pairing.token, latest.token}

\* They are in order with those on their way.
TokensInv == disposal = "none" => Tokens(discord, Held)

LEMMA HeldTyped ==
  ASSUME IInv
  PROVE  Held \in SUBSET Nat
BY TypeParts DEF IInv, FieldsOK, CredentialsSet, Held

\* A join into another channel.
LEMMA JoinsOtherAsks ==
  ASSUME IInv, disposal = "none", NEW c \in Channels, Join(c), JoinOther(c)
  PROVE  /\ c \in Places /\ c # NoChannel /\ desired # c /\ desired' = c
         /\ pairing' = NoCredentials /\ UNCHANGED <<disposal, latest, readied, client>>
         /\ evicted' = "no" => evicted = "no"
         /\ starts' = Stale(starts)
         /\ lost' = (lost \/ (discord.seat = c /\ Spent))
         /\ AskedFor(discord, discord', c)
         /\ Voice(c) \in Requests /\ Voice(c) # Ping /\ Voice(c).channel = c
         /\ discord' \in Acts(discord, Voice(c))
<1>1. SequencesOK
  BY TypeParts DEF IInv
<1>2. c \in Places /\ c # NoChannel
  BY ChannelsAssumption DEF Places
<1>3. /\ desired # c /\ desired' = c /\ Announce(c)
      /\ pairing' = NoCredentials /\ UNCHANGED <<disposal, latest, readied, client>>
      /\ evicted' = "no" => evicted = "no"
      /\ starts' = Stale(starts)
      /\ lost' = (lost \/ (discord.seat = c /\ Spent))
  BY DEF Join, JoinOther
<1> QED BY <1>1, <1>2, <1>3, AnnounceAsks

\* A token in hand after a dispatch was in hand, or is the one that came.
LEMMA DispatchHolds ==
  ASSUME IInv, TakeState \/ TakeUpdate
  PROVE  /\ discord \in Discords /\ discord.sent # <<>>
         /\ \A k \in Held' : \/ k \in Held \/ k = NoToken
                             \/ Head(discord.sent).op = "update" /\ k = Head(discord.sent).token
<1>1. CASE TakeState
  <2> DEFINE c == Head(discord.sent).channel
  <2>1. Arrives("state") /\ PairsState(c) /\ (Keeps(c) \/ Follows(c))
    BY <1>1, TakesState
  <2> HIDE DEF c
  <2>2. pairing'.token = NoToken
    BY <2>1 DEF PairsState, NoCredentials, Credentials
  <2>3. Completed(c).token \in {NoToken, pairing.token}
    BY DEF Completed, NoCredentials, Credentials
  <2>4. latest' \in {latest, Completed(c), Credentials(c, latest.token)}
    BY <2>1 DEF Keeps, Follows, Unstarted
  <2>5. latest'.token \in {NoToken, pairing.token, latest.token}
    BY <2>3, <2>4 DEF Credentials
  <2> QED BY <2>1, <2>2, <2>5, Arriving DEF Held
<1>2. CASE TakeUpdate
  <2> DEFINE t == Head(discord.sent).token
             complete == t # NoToken /\ pairing.channel # NoChannel
             pair == IF complete THEN Credentials(pairing.channel, t) ELSE NoCredentials
  <2>1. /\ Arrives("update")
        /\ pairing' = IF complete \/ t = NoToken THEN NoCredentials
                      ELSE Credentials(NoChannel, t)
        /\ latest' \in {latest, pair}
    BY <1>2, TakesUpdate DEF Unstarted
  <2>2. pair.token \in {NoToken, t} /\ pairing'.token \in {NoToken, t}
    BY <2>1 DEF NoCredentials, Credentials
  <2> HIDE DEF pair
  <2>3. latest'.token \in {NoToken, t, latest.token}
    BY <2>1, <2>2
  <2> QED BY <2>1, <2>2, <2>3, Arriving DEF Held
<1> QED BY <1>1, <1>2

\* Steps keep the tokens in order.
LEMMA TokensKeep ==
  ASSUME IInv, IInv', TokensInv, [Next]_vars
  PROVE  TokensInv'
<1> SUFFICES ASSUME disposal' = "none" PROVE Tokens(discord', Held')
  BY DEF TokensInv
<1>1. disposal = "none" /\ StepKind /\ Tokens(discord, Held)
  BY OpenBefore, StepKinds DEF TokensInv
<1>2. /\ discord \in Discords /\ discord' \in Discords
      /\ Held \in SUBSET Nat /\ Held' \in SUBSET Nat
  <2>1. Held' \in SUBSET Nat
    BY TypePartsNext DEF IInv, FieldsOK, CredentialsSet, Held
  <2> QED BY <2>1, TypeParts, TypePartsNext, HeldTyped DEF IInv, SequencesOK
<1>3. CASE Quiet
  <2>1. discord' = discord /\ Held' = Held
    BY <1>3 DEF Quiet, Held
  <2> QED BY <1>1, <2>1
<1>4. CASE Asks
  <2>1. Tokens(discord', Held)
    BY <1>1, <1>2, <1>4, AskedForKeeps DEF Asks
  <2>2. /\ pairing'.token = pairing.token \/ pairing'.token = NoToken
        /\ latest'.token = latest.token \/ latest'.token = NoToken
    BY <1>4 DEF Asks, NoCredentials, Credentials
  <2>3. \A k \in Held' : k \in Held \/ k = NoToken
    BY <2>2 DEF Held
  <2> QED BY <1>2, <2>1, <2>3, TokensFewer
<1>5. CASE JoinsOther
  <2>1. PICK c \in Channels : Join(c) /\ JoinOther(c)
    BY <1>5 DEF JoinsOther
  <2>2. /\ AskedFor(discord, discord', c)
        /\ pairing' = NoCredentials /\ latest' = latest
    BY <1>1, <2>1, JoinsOtherAsks
  <2>3. Tokens(discord', Held)
    BY <1>1, <1>2, <2>2, AskedForKeeps
  <2>4. \A k \in Held' : k \in Held \/ k = NoToken
    BY <2>2 DEF Held, NoCredentials, Credentials
  <2> QED BY <1>2, <2>3, <2>4, TokensFewer
<1>6. CASE TakeState \/ TakeUpdate
  <2>1. Tokens(Rest, Held')
    BY <1>1, <1>2, <1>6, DispatchHolds, TokensTail DEF Rest
  <2>2. Rest \in Discords /\ (discord' = Rest \/ \E c : AskedFor(Rest, discord', c))
    <3>1. CASE TakeState
      BY <3>1, TakesState, Arriving DEF Keeps, Follows
    <3>2. CASE TakeUpdate
      BY <3>2, TakesUpdate, Arriving
    <3> QED BY <1>6, <3>1, <3>2
  <2> QED BY <1>2, <2>1, <2>2, AskedForKeeps
<1>7. CASE Moderates \/ ServerForgets \/ ServerRepeats
  <2>1. Held' = Held
    BY <1>7, SendsUnasked DEF Held
  <2>2. CASE \E c \in Places : c # discord.seat /\ discord' \in Seats(discord, c)
    BY <1>1, <1>2, <2>1, <2>2, TokensSeats
  <2>3. CASE /\ discord'.seat = discord.seat /\ discord'.issued = discord.issued
             /\ discord'.live \in {NoToken, discord.live}
             /\ \/ discord'.sent = discord.sent
                \/ discord'.sent = Append(discord.sent, Update(NoToken))
                \/ discord'.sent = Append(discord.sent, Update(discord.live))
    <3>1. /\ discord.live \in {NoToken, discord.issued}
          /\ discord'.live \in {NoToken, discord.issued}
      BY <1>1, <2>3 DEF Tokens
    <3>2. CASE discord'.sent = discord.sent
      BY <1>1, <2>1, <2>3, <3>1, <3>2
         DEF Tokens, InHand, HasNewest, NewestAt, OfSeat, Sent
    <3>3. CASE \E t \in {NoToken, discord.issued} :
                  discord'.sent = Append(discord.sent, Update(t))
      BY <1>1, <1>2, <2>1, <2>3, <3>1, <3>3, TokensToken
    <3> QED BY <2>3, <3>1, <3>2, <3>3
  <2> QED BY <1>7, <2>2, <2>3, SendsUnasked
<1> QED BY <1>1, <1>3, <1>4, <1>5, <1>6, <1>7 DEF StepKind

LEMMA TokensHold == Spec => []TokensInv
<1>1. Init => TokensInv
  <2> SUFFICES ASSUME Init PROVE Tokens(discord, Held)
    BY DEF TokensInv
  <2>1. /\ discord.seat = NoChannel /\ discord.live = NoToken /\ discord.issued = 0
        /\ discord.sent = <<>> /\ Held = {NoToken}
    BY DEF Init, Held, NoCredentials, Credentials
  <2>2. Sent(discord) = {}
    BY <2>1 DEF Sent
  <2> QED BY <2>1, <2>2 DEF Tokens, NoToken
<1>2. IInv /\ IInv' /\ TokensInv /\ [Next]_vars => TokensInv'
  BY TokensKeep
<1> QED BY <1>1, <1>2, Invariant, PTL DEF Spec

-----------------------------------------------------------------------------
(* The credentials a client has.                                           *)

\* The client and the start that is current have the latest credentials, and only a
\* client connects with them.
LineInv ==
    disposal = "none" =>
        /\ \A i \in 1 .. Len(starts) :
              starts[i].current => starts[i].credentials = latest /\ ~readied
        /\ client # NoClient => client.credentials = latest
        /\ readied => client # NoClient

\* What a client says of itself.
LEMMA ClientSays ==
  ASSUME IInv, Client
  PROVE  \E status, conn :
            /\ Reports(status, conn) /\ client.conn # "none" /\ conn # "none"
            /\ status = "ready" => client.conn = "accepted"
            /\ conn \in {"accepted", "ready"} =>
                  client.conn \in {"accepted", "ready"} \/ Connects
<1>1. Dialed # "none" /\ (Dialed \in {"accepted", "ready"} => Connects)
  BY DEF Dialed
<1>2. CASE ClientDials
  BY <1>1, <1>2 DEF ClientDials
<1>3. CASE ClientReady
  BY <1>3 DEF ClientReady
<1>4. CASE ClientRefused
  BY <1>4 DEF ClientRefused
<1>5. CASE ClientDrops
  BY <1>5 DEF ClientDrops
<1>6. CASE ClientRedials
  <2>1. PICK status \in {"reconnecting", "connecting"} : Reports(status, Dialed)
    BY <1>6 DEF ClientRedials
  <2> QED BY <1>1, <1>6, <2>1 DEF ClientRedials
<1>7. CASE ClientFails
  BY <1>7 DEF ClientFails
<1>8. CASE ClientBlamesKey
  BY <1>8 DEF ClientBlamesKey
<1>9. CASE ClientNegotiates
  BY <1>9 DEF ClientNegotiates
<1>10. CASE ClientStirs
  <2>1. PICK conn \in {"asked", "retrying"} : Reports("reconnecting", conn)
    BY <1>10 DEF ClientStirs
  <2> QED BY <1>10, <2>1 DEF ClientStirs
<1> QED BY <1>2, <1>3, <1>4, <1>5, <1>6, <1>7, <1>8, <1>9, <1>10 DEF Client

\* What its report changes.
LEMMA ReportsIs ==
  ASSUME IInv, NEW status, NEW conn, Reports(status, conn),
         client.conn # "none", conn # "none"
  PROVE  /\ client'.credentials = client.credentials /\ client'.conn = conn
         /\ client # NoClient /\ client' # NoClient
         /\ starts = <<>> /\ starts' = <<>> /\ latest' = latest
         /\ readied' => readied \/ status = "ready"
         /\ UNCHANGED disposal
<1>1. client \in ClientSet /\ SequencesOK /\ FieldsOK
  BY TypeParts DEF IInv, FieldsOK
<1>2. /\ client' = [client EXCEPT !.conn = conn] /\ latest' = latest /\ UNCHANGED disposal
      /\ readied' => readied \/ status = "ready"
      /\ Recover \/ UNCHANGED <<reissueDue, discord, unanswered, pairing, starts>>
  BY DEF Reports
<1>3. client # NoClient /\ client' # NoClient
  BY <1>1, <1>2 DEF NoClient, ClientSet
<1>4. starts = <<>>
  BY <1>3 DEF IInv, ClosedFirst
<1>5. starts' = <<>>
  BY <1>1, <1>2, <1>4, MayRecoverTyped DEF MayRecover
<1> QED BY <1>1, <1>2, <1>3, <1>4, <1>5 DEF ClientSet

\* A start that took its turn leaves those behind it.
LEMMA RestOfLine ==
  ASSUME NEW ss, IsLine(ss), NEW i \in 1 .. Len(ss), IsTurn(i)
  PROVE  /\ i = 1 /\ Len(ss) \in Nat
         /\ Len(RemoveAt(ss, i)) = Len(ss) - 1
         /\ \A j \in 1 .. Len(RemoveAt(ss, i)) : RemoveAt(ss, i)[j] = ss[j + 1]
<1>1. i = 1 /\ ss \in Seq(StartSet) /\ ss # <<>>
  BY DEF IsTurn, IsLine
<1>2. RemoveAt(ss, i) = Tail(ss)
  <2>1. SubSeq(ss, 1, 0) = <<>>
    BY SubSeqEmpty
  <2>2. SubSeq(ss, 2, Len(ss)) = Tail(ss) /\ Tail(ss) \in Seq(StartSet)
    BY <1>1, TailIsSubSeq, HeadTailProperties
  <2>3. <<>> \o Tail(ss) = Tail(ss)
    BY <2>2, ConcatEmptySeq
  <2>4. RemoveAt(ss, i) = SubSeq(ss, 1, 0) \o SubSeq(ss, 2, Len(ss))
    BY <1>1 DEF RemoveAt
  <2> QED BY <2>1, <2>2, <2>3, <2>4
<1> QED BY <1>1, <1>2, HeadTailProperties, LenProperties

\* Starts end and throw.
LEMMA StartIs ==
  ASSUME IInv, disposal = "none", Starts
  PROVE  /\ 1 \in 1 .. Len(starts) /\ Len(starts) \in Nat /\ IsLine(starts)
         /\ client = NoClient
         /\ Len(starts') = Len(starts) - 1
         /\ \A j \in 1 .. Len(starts') : starts'[j] = starts[j + 1]
         /\ UNCHANGED <<disposal, desired, pinged, latest, readied, pairing, evicted, discord,
                        lost, ignored>>
         /\ \/ /\ ~starts[1].current \/ desired # starts[1].credentials.channel
               /\ UNCHANGED <<reissueDue, client, shown>>
            \/ /\ starts[1].current /\ starts' = <<>>
               /\ client' = [credentials |-> starts[1].credentials, conn |-> "new"]
            \/ /\ starts[1].current /\ starts' = <<>>
               /\ UNCHANGED client /\ shown' = "failure"
<1>1. IsLine(starts)
  BY TypeParts DEF IInv, SequencesOK
<1>2. PICK i \in DOMAIN starts : StartEnds(i) \/ StartThrows(i)
  BY DEF Starts
<1>3. i \in 1 .. Len(starts) /\ starts # <<>>
  BY <1>1, <1>2, LenProperties DEF IsLine
<1>4. IsTurn(i) /\ starts' = RemoveAt(starts, i)
  BY <1>2 DEF StartEnds, StartThrows
<1>5. /\ i = 1 /\ Len(starts) \in Nat /\ Len(starts') = Len(starts) - 1
      /\ \A j \in 1 .. Len(starts') : starts'[j] = starts[j + 1]
      /\ starts[i].current => starts' = <<>>
  BY <1>1, <1>3, <1>4, RestOfLine, RestIsLine
<1>6. client = NoClient
  BY <1>3 DEF IInv, ClosedFirst
<1>7. UNCHANGED <<disposal, desired, pinged, latest, readied, pairing, evicted, discord,
                  lost, ignored>>
  BY <1>2 DEF StartEnds, StartThrows, pairs, room, trouble
<1>8. \/ GivesWay(starts[i]) /\ UNCHANGED <<reissueDue, client, shown>>
      \/ /\ ~GivesWay(starts[i])
         /\ client' = [credentials |-> starts[i].credentials, conn |-> "new"]
      \/ ~GivesWay(starts[i]) /\ UNCHANGED client /\ shown' = "failure"
  BY <1>2 DEF StartEnds, StartThrows, Show, room
<1>9. ~GivesWay(starts[i]) => starts[i].current
  BY DEF GivesWay
<1>10. GivesWay(starts[i]) => ~starts[i].current \/ desired # starts[i].credentials.channel
  BY DEF GivesWay
<1> QED BY <1>1, <1>3, <1>5, <1>6, <1>7, <1>8, <1>9, <1>10

\* Steps keep the credentials of the line and of the client.
LEMMA LineKeeps ==
  ASSUME IInv, IInv', LineInv, [Next]_vars
  PROVE  LineInv'
<1> SUFFICES ASSUME disposal' = "none" PROVE LineInv'
  BY DEF LineInv
<1>1. /\ disposal = "none" /\ IsLine(starts)
      /\ \A i \in 1 .. Len(starts) :
              starts[i].current => starts[i].credentials = latest /\ ~readied
      /\ client # NoClient => client.credentials = latest
      /\ readied => client # NoClient
  BY OpenBefore, TypeParts DEF LineInv, IInv, SequencesOK
<1>2. ASSUME UNCHANGED <<latest, readied, client>>, starts' = starts \/ starts' = Stale(starts)
      PROVE  LineInv'
  <2>1. NoneCurrent(Stale(starts))
    BY <1>1, StaleIsLine DEF IsLine
  <2> QED BY <1>1, <1>2, <2>1 DEF LineInv, NoneCurrent
<1>3. ASSUME NEW credentials, Unstarted(credentials) PROVE LineInv'
  BY <1>2, <1>3 DEF Unstarted
<1>4. CASE Started
  BY <1>4 DEF Started, Starting, LineInv
<1>5. CASE Room
  <2>1. ASSUME NEW c \in Channels, Join(c) PROVE LineInv'
    <3>1. /\ UNCHANGED <<latest, readied, client>>
          /\ starts' = starts \/ starts' = Stale(starts)
      BY <2>1 DEF Join, JoinSame, JoinOther
    <3> QED BY <1>2, <3>1
  <2>2. CASE LeaveBegins
    <3>1. NoneCurrent(starts') /\ readied' = FALSE /\ client' = NoClient
      BY <1>1, <2>2, StaleIsLine DEF LeaveBegins, IsLine
    <3> QED BY <3>1 DEF LineInv, NoneCurrent
  <2>3. CASE LeaveEnds
    BY <1>2, <2>3 DEF LeaveEnds, pairs, clients
  <2> QED BY <1>5, <2>1, <2>2, <2>3 DEF Room
<1>6. CASE TakeState
  BY <1>3, <1>4, <1>6, TakesState DEF Keeps, Follows
<1>7. CASE TakeUpdate
  BY <1>3, <1>4, <1>7, TakesUpdate
<1>8. CASE ReissueTimer
  BY <1>2, <1>8 DEF ReissueTimer, pairs, clients
<1>9. CASE MoveTimer
  <2>1. UNCHANGED <<latest, readied, client>> /\ (starts' = starts \/ starts' = Stale(starts))
    BY <1>9 DEF MoveTimer, Recover
  <2> QED BY <1>2, <2>1
<1>10. CASE Starts
  <2>1. /\ 1 \in 1 .. Len(starts) /\ Len(starts) \in Nat /\ client = NoClient
        /\ Len(starts') = Len(starts) - 1
        /\ \A j \in 1 .. Len(starts') : starts'[j] = starts[j + 1]
        /\ UNCHANGED <<latest, readied>>
        /\ \/ UNCHANGED client
           \/ /\ starts[1].current /\ starts' = <<>>
              /\ client' = [credentials |-> starts[1].credentials, conn |-> "new"]
    BY <1>1, <1>10, StartIs
  <2>2. ASSUME NEW j \in 1 .. Len(starts'), starts'[j].current
        PROVE  starts'[j].credentials = latest' /\ ~readied'
    <3>1. j + 1 \in 1 .. Len(starts) /\ starts'[j] = starts[j + 1]
      BY <2>1
    <3> QED BY <1>1, <2>1, <2>2, <3>1
  <2>3. CASE UNCHANGED client
    BY <1>1, <2>1, <2>2, <2>3 DEF LineInv
  <2>4. CASE /\ starts[1].current
             /\ client' = [credentials |-> starts[1].credentials, conn |-> "new"]
    <3>1. client'.credentials = latest' /\ ~readied'
      BY <1>1, <2>1, <2>4
    <3> QED BY <2>2, <3>1 DEF LineInv
  <2> QED BY <2>1, <2>3, <2>4
<1>11. CASE Client
  <2>1. PICK status, conn :
            /\ Reports(status, conn) /\ client.conn # "none" /\ conn # "none"
    BY <1>11, ClientSays
  <2>2. /\ client'.credentials = client.credentials /\ client # NoClient /\ client' # NoClient
        /\ starts' = <<>> /\ latest' = latest
    BY <2>1, ReportsIs
  <2>3. 1 .. Len(starts') = {}
    BY <2>2
  <2> QED BY <1>1, <2>2, <2>3 DEF LineInv
<1>12. CASE Server
  BY <1>2, <1>12, SendsUnasked DEF Server, Moderates
<1>13. CASE CloseBegins \/ CloseSweeps \/ CloseEnds
  BY <1>13 DEF CloseBegins, CloseSweeps, CloseEnds
<1>14. CASE UNCHANGED vars
  BY <1>2, <1>14 DEF vars, pairs, clients
<1> QED BY <1>5, <1>6, <1>7, <1>8, <1>9, <1>10, <1>11, <1>12, <1>13, <1>14 DEF Next, Service

LEMMA LineHolds == Spec => []LineInv
<1>1. Init => LineInv
  <2> SUFFICES ASSUME Init PROVE LineInv
    OBVIOUS
  <2>1. 1 .. Len(starts) = {} /\ client = NoClient /\ readied = FALSE
    BY DEF Init
  <2> QED BY <2>1 DEF LineInv
<1>2. IInv /\ IInv' /\ LineInv /\ [Next]_vars => LineInv'
  BY LineKeeps
<1> QED BY <1>1, <1>2, Invariant, PTL DEF Spec

-----------------------------------------------------------------------------
(* What is on its way to a room that wants a channel.                      *)

SaidOf(d, c) == \E q \in Sent(d) : SaidAt(d, q, c)

\* A voice state that waits for its token is of the wanted channel, or that one's is
\* on its way.
PairInv ==
    Wants => pairing.channel \in {NoChannel, desired} \/ SaidOf(discord, desired)

\* What was said stays said.
LEMMA SaidLonger ==
  ASSUME NEW d, NEW e, Longer(d, e), NEW c, SaidOf(d, c)
  PROVE  SaidOf(e, c)
BY DEF Longer, SaidOf, SaidAt

\* What Discord sends unasked goes behind the rest.
LEMMA UnaskedGrows ==
  ASSUME IInv, Moderates \/ ServerForgets \/ ServerRepeats, disposal = "none", TokensInv
  PROVE  Longer(discord, discord') /\ Reseated(discord, discord')
<1>1. discord \in Discords /\ discord' \in Discords \cup {discord'}
  BY TypeParts DEF IInv, SequencesOK
<1>2. /\ discord.issued \in Nat /\ discord.live \in Nat
      /\ Update(NoToken) \in Dispatches /\ Update(discord.live) \in Dispatches
      /\ Longer(discord, discord)
  BY <1>1 DEF Discords, Update, Dispatches, NoToken, Longer
<1>3. CASE \E c \in Places : c # discord.seat /\ discord' \in Seats(discord, c)
  <2>1. PICK c \in Places : discord' \in Seats(discord, c)
    BY <1>3
  <2>2. CASE c \in Channels
    <3>1. Longer(discord, discord') /\ discord'.issued = discord.issued + 1
      BY <1>1, <2>1, <2>2, SeatedShape
    <3>2. discord'.issued > discord.issued
      BY <1>2, <3>1
    <3> QED BY <3>1, <3>2 DEF Reseated
  <2>3. CASE c = NoChannel
    BY <1>1, <2>1, <2>3, UnseatedShape DEF Reseated
  <2> QED BY <2>2, <2>3 DEF Places
<1>4. CASE discord'.seat = discord.seat /\ discord'.issued = discord.issued
  <2>1. Reseated(discord, discord')
    BY <1>4 DEF Reseated
  <2>2. CASE discord'.sent = discord.sent
    BY <1>2, <2>1, <2>2 DEF Longer, Sent
  <2>3. CASE \E m \in Dispatches : discord'.sent = Append(discord.sent, m)
    BY <1>1, <2>1, <2>3, SentShape
  <2>4. \/ discord'.sent = discord.sent
        \/ \E m \in Dispatches : discord'.sent = Append(discord.sent, m)
        \/ \E c \in Places : c # discord.seat /\ discord' \in Seats(discord, c)
    BY <1>2, SendsUnasked
  <2> QED BY <1>3, <2>2, <2>3, <2>4
<1> QED BY <1>3, <1>4, SendsUnasked

\* Steps keep the voice state of the pair wanted.
LEMMA PairKeeps ==
  ASSUME IInv, SeatInv, TokensInv, PairInv, [Next]_vars
  PROVE  PairInv'
<1> SUFFICES ASSUME Wants'
             PROVE  pairing'.channel \in {NoChannel, desired'} \/ SaidOf(discord', desired')
  BY DEF PairInv
<1>1. /\ disposal' = "none" /\ desired' # NoChannel /\ evicted' = "no"
      /\ disposal = "none" /\ StepKind
      /\ discord \in Discords /\ Tokens(discord, Held) /\ Held \in SUBSET Nat
  BY OpenBefore, StepKinds, TypeParts, HeldTyped DEF Wants, IInv, SequencesOK, TokensInv
<1>2. NoCredentials.channel = NoChannel /\ \A c, t : Credentials(c, t).channel = c
  BY DEF NoCredentials, Credentials
<1>3. ASSUME UNCHANGED <<desired, evicted>>
      PROVE  Wants /\ (pairing.channel \in {NoChannel, desired'} \/ SaidOf(discord, desired'))
  BY <1>1, <1>3 DEF PairInv, Wants
<1>4. CASE Quiet
  <2>1. UNCHANGED <<discord, desired, evicted, pairing>>
    BY <1>4 DEF Quiet
  <2> QED BY <1>3, <2>1
<1>5. CASE Asks
  <2>1. Longer(discord, discord')
    BY <1>1, <1>5, AskedForKeeps DEF Asks
  <2>2. UNCHANGED <<desired, evicted>>
    BY <1>1, <1>5 DEF Asks
  <2>3. pairing' = pairing \/ pairing'.channel \in {NoChannel, desired'}
    BY <1>2, <1>5 DEF Asks
  <2> QED BY <1>3, <2>1, <2>2, <2>3, SaidLonger
<1>6. CASE JoinsOther
  BY <1>1, <1>2, <1>6, JoinsOtherAsks DEF JoinsOther
<1>7. CASE TakeState
  <2> DEFINE c == Head(discord.sent).channel
  <2>1. Arrives("state") /\ PairsState(c) /\ (Keeps(c) \/ Follows(c))
    BY <1>7, TakesState
  <2>2. pairing'.channel \in {NoChannel, c}
    BY <1>2, <2>1 DEF PairsState
  <2>3. CASE Follows(c)
    BY <2>2, <2>3 DEF Follows
  <2>4. CASE Keeps(c) /\ c # desired
    <3>1. discord' = Rest /\ UNCHANGED <<desired, evicted>> /\ Wants /\ Answers(c)
      BY <1>1, <1>3, <2>4 DEF Keeps, Wants
    <3>2. PICK q \in Sent(discord) : q > 1 /\ SaidAt(discord, q, desired)
      BY <2>1, <2>4, <3>1, WantedIsSaid
    <3>3. q # 1
      BY <3>2
    <3>4. q - 1 \in Sent(Rest) /\ Rest.sent[q - 1] = discord.sent[q]
      BY <2>1, <3>3, Arriving
    <3>5. SaidAt(discord', q - 1, desired')
      BY <3>1, <3>2, <3>4 DEF SaidAt
    <3> QED BY <3>1, <3>4, <3>5 DEF SaidOf
  <2>5. CASE Keeps(c) /\ c = desired
    BY <2>2, <2>5 DEF Keeps
  <2> QED BY <2>1, <2>3, <2>4, <2>5
<1>8. CASE TakeUpdate
  <2>1. pairing'.channel = NoChannel
    BY <1>2, <1>8, TakesUpdate
  <2> QED BY <2>1
<1>9. CASE Moderates \/ ServerForgets \/ ServerRepeats
  <2>1. UNCHANGED <<desired, evicted, pairing>> /\ Longer(discord, discord')
    BY <1>1, <1>9, SendsUnasked, UnaskedGrows
  <2> QED BY <1>3, <2>1, SaidLonger
<1> QED BY <1>1, <1>4, <1>5, <1>6, <1>7, <1>8, <1>9 DEF StepKind

LEMMA PairHolds == Spec => []PairInv
<1>1. Init => PairInv
  BY DEF Init, PairInv, Wants
<1>2. IInv /\ SeatInv /\ TokensInv /\ PairInv /\ [Next]_vars => PairInv'
  BY PairKeeps
<1> QED BY <1>1, <1>2, Invariant, SeatHolds, TokensHold, PTL DEF Spec

\* The newest token comes beside the voice state of the seat.
BesideInv == Wants => Adjacent(discord, desired)

\* Steps keep the newest token beside the voice state of the seat.
LEMMA BesideKeeps ==
  ASSUME IInv, SeatInv, TokensInv, BesideInv, [Next]_vars
  PROVE  BesideInv'
<1> SUFFICES ASSUME Wants' PROVE Adjacent(discord', desired')
  BY DEF BesideInv
<1>1. /\ disposal' = "none" /\ desired' # NoChannel /\ evicted' = "no"
      /\ disposal = "none" /\ StepKind
      /\ discord \in Discords /\ Tokens(discord, Held) /\ Held \in SUBSET Nat
  BY OpenBefore, StepKinds, TypeParts, HeldTyped DEF Wants, IInv, SequencesOK, TokensInv
<1>2. ASSUME UNCHANGED <<desired, evicted>>
      PROVE  /\ Wants /\ Adjacent(discord, desired) /\ desired' = desired
             /\ SeatSaid(discord, desired)
  BY <1>1, <1>2, SeatIsSaid DEF BesideInv, Wants
<1>3. CASE Quiet
  <2>1. UNCHANGED <<discord, desired, evicted>>
    BY <1>3 DEF Quiet
  <2> QED BY <1>2, <2>1
<1>4. CASE Asks
  <2>1. UNCHANGED <<desired, evicted>> /\ AskedFor(discord, discord', desired')
    BY <1>1, <1>4 DEF Asks
  <2> QED BY <1>1, <1>2, <2>1, AskedForKeeps
<1>5. CASE JoinsOther
  <2>1. PICK c \in Channels : Join(c) /\ JoinOther(c)
    BY <1>5 DEF JoinsOther
  <2>2. /\ desired # c /\ desired' = c /\ c # NoChannel
        /\ evicted' = "no" => evicted = "no"
        /\ Voice(c) \in Requests /\ Voice(c) # Ping /\ Voice(c).channel = c
        /\ discord' \in Acts(discord, Voice(c))
    BY <1>1, <2>1, JoinsOtherAsks
  <2>3. CASE c # discord.seat
    BY <1>1, <2>2, <2>3, AdjacentActs
  <2>4. CASE c = discord.seat
    <3>1. Wants
      BY <1>1, <2>2, <2>4 DEF SeatInv, Wants
    <3>2. Adjacent(discord, desired) /\ desired # discord.seat
      BY <2>2, <2>4, <3>1 DEF BesideInv
    <3>3. Adjacent(discord, c)
      BY <3>2 DEF Adjacent, Beside
    <3> QED BY <1>1, <2>2, <3>3, AdjacentActs
  <2> QED BY <2>3, <2>4
<1>6. CASE TakeState
  <2> DEFINE c == Head(discord.sent).channel
  <2>1. Arrives("state") /\ (Keeps(c) \/ Follows(c))
    BY <1>6, TakesState
  <2>2. /\ Rest \in Discords /\ discord.sent # <<>> /\ Head(discord.sent).op = "state"
        /\ Head(discord.sent) = discord.sent[1] /\ 1 \in Sent(discord)
        /\ Rest = [discord EXCEPT !.sent = Tail(@)]
    BY <2>1, Arriving
  <2>3. SaidAt(discord, 1, discord.seat) => c = discord.seat
    BY <2>2 DEF SaidAt
  <2>4. CASE Follows(c)
    <3>1. UNCHANGED evicted /\ desired' = c /\ Wants
      BY <1>1, <2>4 DEF Follows, Wants
    <3>2. Adjacent(discord, desired)
      BY <3>1 DEF BesideInv
    <3>3. Adjacent(Rest, c)
      BY <1>1, <2>2, <2>3, <3>2, AdjacentTail
    <3>4. CASE discord' = Rest
      BY <3>1, <3>3, <3>4
    <3>5. CASE \E request \in Requests : /\ request # Ping /\ request.channel = c
                                         /\ discord' \in Acts(Rest, request)
      <4>1. Tokens(Rest, {})
        BY <1>1, <2>2, TokensTail
      <4> QED BY <2>2, <3>1, <3>3, <3>5, <4>1, AdjacentActs
    <3> QED BY <2>4, <3>4, <3>5 DEF Follows
  <2>5. CASE Keeps(c)
    <3>1. discord' = Rest /\ UNCHANGED <<desired, evicted>>
      BY <2>5 DEF Keeps
    <3>2. Wants /\ Adjacent(discord, desired)
      BY <1>2, <3>1
    <3>3. ASSUME NEW p \in Sent(discord), discord.seat # NoChannel,
                 SaidAt(discord, 1, discord.seat), NewestAt(discord, p),
                 \A r \in Sent(discord) : 1 < r /\ r < p => ~StateAt(discord, r),
                 desired # discord.seat
          PROVE  FALSE
      <4>1. c = discord.seat /\ Answers(c)
        BY <2>3, <2>5, <3>2, <3>3 DEF Keeps, Wants
      <4>2. PICK q \in Sent(discord) : q > 1 /\ SaidAt(discord, q, desired)
        BY <2>1, <3>2, <3>3, <4>1, WantedIsSaid
      <4>3. q # p /\ ~(q < p)
        BY <3>3, <4>2 DEF SaidAt, NewestAt, StateAt
      <4>4. p < q
        BY <4>3 DEF Sent
      <4>5. OfSeat(discord, q)
        BY <1>1, <3>3, <4>4 DEF Tokens
      <4> QED BY <3>3, <4>2, <4>5 DEF OfSeat, SaidAt
    <3>4. Adjacent(Rest, desired)
      BY <1>1, <2>2, <3>2, <3>3, AdjacentTail
    <3> QED BY <3>1, <3>4
  <2> QED BY <2>1, <2>4, <2>5
<1>7. CASE TakeUpdate
  <2>1. Arrives("update") /\ discord' = Rest /\ UNCHANGED <<desired, evicted>>
    BY <1>7, TakesUpdate
  <2>2. /\ discord.sent # <<>> /\ Head(discord.sent).op = "update"
        /\ Rest = [discord EXCEPT !.sent = Tail(@)]
    BY <2>1, Arriving
  <2>3. Adjacent(Rest, desired)
    BY <1>1, <1>2, <2>1, <2>2, AdjacentTail
  <2> QED BY <2>1, <2>3
<1>8. CASE Moderates \/ ServerForgets \/ ServerRepeats
  <2>1. UNCHANGED <<desired, evicted>>
    BY <1>8, SendsUnasked
  <2>2. CASE \E c \in Places : discord' \in Seats(discord, c)
    BY <1>1, <2>2, AdjacentSeats
  <2>3. CASE /\ discord'.seat = discord.seat /\ discord'.issued = discord.issued
             /\ discord'.sent = discord.sent
    BY <1>2, <2>1, <2>3 DEF Adjacent, Beside, NewestAt, SaidAt, StateAt, Sent
  <2>4. CASE /\ discord'.seat = discord.seat /\ discord'.issued = discord.issued
             /\ \E t \in Nat : discord'.sent = Append(discord.sent, Update(t))
    BY <1>1, <1>2, <2>1, <2>4, AdjacentToken
  <2>5. NoToken \in Nat /\ discord.live \in Nat
    BY <1>1 DEF NoToken, Discords
  <2> QED BY <1>8, <2>2, <2>3, <2>4, <2>5, SendsUnasked
<1> QED BY <1>1, <1>3, <1>4, <1>5, <1>6, <1>7, <1>8 DEF StepKind

LEMMA BesideHolds == Spec => []BesideInv
<1>1. Init => BesideInv
  BY DEF Init, BesideInv, Wants
<1>2. IInv /\ SeatInv /\ TokensInv /\ BesideInv /\ [Next]_vars => BesideInv'
  BY BesideKeeps
<1> QED BY <1>1, <1>2, Invariant, SeatHolds, TokensHold, PTL DEF Spec

-----------------------------------------------------------------------------
(* What the service holds once the newest token has come.                  *)

\* A dispatch that was not the newest token leaves that one where it was, and the
\* voice states behind it.
LEMMA StillSent ==
  ASSUME IInv, NEW op, Arrives(op)
  PROVE  /\ HasNewest(Rest) => HasNewest(discord)
         /\ HasNewest(discord) /\ ~NewestAt(discord, 1) => HasNewest(Rest)
         /\ HasState(discord) /\ op # "state" => HasState(Rest)
         /\ \A c : \A q \in Sent(discord) : q # 1 /\ SaidAt(discord, q, c) => HasState(Rest)
<1>1. /\ Rest.issued = discord.issued
      /\ \A p \in Sent(discord) :
            p # 1 => p - 1 \in Sent(Rest) /\ Rest.sent[p - 1] = discord.sent[p]
      /\ Head(discord.sent).op = op /\ Head(discord.sent) = discord.sent[1]
  BY Arriving
<1>2. ASSUME NEW p \in Sent(Rest)
      PROVE  p + 1 \in Sent(discord) /\ Rest.sent[p] = discord.sent[p + 1]
  <2>1. discord \in Discords /\ discord.sent # <<>> /\ Rest.sent = Tail(discord.sent)
    BY Arriving DEF Discords
  <2>2. /\ Len(Rest.sent) = Len(discord.sent) - 1 /\ Len(discord.sent) \in Nat
        /\ \A i \in 1 .. Len(Rest.sent) : Rest.sent[i] = discord.sent[i + 1]
    BY <2>1, HeadTailProperties DEF Discords
  <2> QED BY <1>2, <2>2 DEF Sent
<1>3. HasNewest(Rest) => HasNewest(discord)
  BY <1>1, <1>2 DEF HasNewest, NewestAt
<1>4. HasNewest(discord) /\ ~NewestAt(discord, 1) => HasNewest(Rest)
  BY <1>1 DEF HasNewest, NewestAt
<1>5. HasState(discord) /\ op # "state" => HasState(Rest)
  BY <1>1 DEF HasState, StateAt
<1>6. \A c : \A q \in Sent(discord) : q # 1 /\ SaidAt(discord, q, c) => HasState(Rest)
  BY <1>1 DEF HasState, StateAt, SaidAt
<1> QED BY <1>3, <1>4, <1>5, <1>6

\* What is on its way once the service has the newest token.
LEMMA HandSays ==
  ASSUME TokensInv, disposal = "none", discord.seat # NoChannel,
         discord.issued \in Held \/ ~HasNewest(discord)
  PROVE  /\ discord.issued > 0
         /\ \A q \in Sent(discord) : OfSeat(discord, q)
BY DEF TokensInv, Tokens, InHand

\* Credentials of the seat with the newest token were wanted, and still are.
AimInv ==
    /\ Wants /\ discord.seat # NoChannel
    /\ latest.token = discord.issued /\ latest.channel = discord.seat
    => desired = discord.seat

\* Steps keep the credentials of the seat wanted.
LEMMA AimKeeps ==
  ASSUME IInv, TokensInv, AimInv, [Next]_vars
  PROVE  AimInv'
<1> SUFFICES ASSUME Wants', discord'.seat # NoChannel, latest'.token = discord'.issued,
                    latest'.channel = discord'.seat
             PROVE  desired' = discord'.seat
  BY DEF AimInv
<1>1. /\ disposal' = "none" /\ desired' # NoChannel /\ evicted' = "no"
      /\ disposal = "none" /\ StepKind
      /\ discord \in Discords /\ Tokens(discord, Held) /\ Held \in SUBSET Nat
  BY OpenBefore, StepKinds, TypeParts, HeldTyped DEF Wants, IInv, SequencesOK, TokensInv
<1>2. CASE /\ UNCHANGED <<desired, evicted, latest>>
           /\ discord'.seat = discord.seat /\ discord'.issued = discord.issued
  BY <1>1, <1>2 DEF AimInv, Wants
<1>3. CASE Quiet
  <2>1. UNCHANGED <<discord, desired, evicted, latest>>
    BY <1>3 DEF Quiet
  <2> QED BY <1>2, <2>1
<1>4. CASE Asks
  BY <1>1, <1>4, AskedForKeeps DEF Asks
<1>5. CASE JoinsOther
  <2>1. PICK c \in Channels : Join(c) /\ JoinOther(c)
    BY <1>5 DEF JoinsOther
  <2> QED BY <1>1, <2>1, JoinsOtherAsks, AskedForKeeps
<1>6. CASE TakeState
  <2> DEFINE c == Head(discord.sent).channel
  <2>1. Arrives("state") /\ (Keeps(c) \/ Follows(c))
    BY <1>6, TakesState
  <2>2. /\ Rest \in Discords /\ Head(discord.sent).op = "state"
        /\ Head(discord.sent) = discord.sent[1] /\ 1 \in Sent(discord)
        /\ Rest = [discord EXCEPT !.sent = Tail(@)] /\ discord.sent # <<>>
        /\ Rest.seat = discord.seat /\ Rest.issued = discord.issued
    BY <2>1, Arriving
  <2>3. Tokens(Rest, {}) /\ {} \in SUBSET Nat
    <3>1. discord.sent # <<>> /\ Rest = [discord EXCEPT !.sent = Tail(@)]
      BY <2>2
    <3>2. {} \in SUBSET Nat
      OBVIOUS
    <3>3. \A k \in {} : k \in Held \/ k = NoToken
      OBVIOUS
    <3> QED BY <1>1, <3>1, <3>2, <3>3, TokensTail
  <2>4. CASE Keeps(c)
    <3>1. /\ UNCHANGED <<desired, evicted>> /\ discord' = Rest
          /\ latest' = latest \/ desired = latest'.channel
      BY <2>4 DEF Keeps, Unstarted
    <3> QED BY <1>2, <2>2, <3>1
  <2>5. CASE Follows(c)
    <3>1. desired' = c
      BY <2>5 DEF Follows
    <3>2. CASE AskedFor(Rest, discord', c)
      BY <2>2, <2>3, <3>1, <3>2, AskedForKeeps
    <3>3. CASE discord' = Rest /\ latest' = latest
      <4>1. discord.seat # NoChannel /\ discord.issued \in Held
        BY <2>2, <3>3 DEF Held
      <4>2. OfSeat(discord, 1)
        BY <1>1, <2>2, <4>1, HandSays
      <4> QED BY <2>2, <3>1, <3>3, <4>2 DEF OfSeat
    <3>4. CASE latest'.channel = c
      BY <3>1, <3>4
    <3>5. \/ latest' = latest \/ latest'.channel = c
      BY <2>5 DEF Follows, Unstarted, Credentials
    <3> QED BY <2>5, <3>2, <3>3, <3>4, <3>5 DEF Follows
  <2> QED BY <2>1, <2>4, <2>5
<1>7. CASE TakeUpdate
  <2>1. /\ Arrives("update") /\ discord' = Rest /\ UNCHANGED <<desired, evicted>>
        /\ latest' = latest \/ desired = latest'.channel
    BY <1>7, TakesUpdate DEF Unstarted
  <2>2. Rest.seat = discord.seat /\ Rest.issued = discord.issued
    BY <2>1, Arriving
  <2> QED BY <1>2, <2>1, <2>2
<1>8. CASE Moderates \/ ServerForgets \/ ServerRepeats
  <2>1. UNCHANGED <<desired, evicted, latest>>
    BY <1>8, SendsUnasked
  <2>2. ASSUME NEW c \in Places, discord' \in Seats(discord, c) PROVE FALSE
    <3>1. CASE c \in Channels
      <4>1. discord'.issued = discord.issued + 1 /\ discord.issued \in Nat
        BY <1>1, <2>2, <3>1, SeatedShape DEF Discords
      <4>2. latest.token \in Held /\ latest.token = discord'.issued
        BY <2>1 DEF Held
      <4> QED BY <1>1, <4>1, <4>2 DEF Tokens
    <3>2. CASE c = NoChannel
      BY <1>1, <2>2, <3>2, UnseatedShape
    <3> QED BY <3>1, <3>2 DEF Places
  <2> QED BY <1>2, <1>8, <2>1, <2>2, SendsUnasked
<1> QED BY <1>1, <1>3, <1>4, <1>5, <1>6, <1>7, <1>8 DEF StepKind

LEMMA AimHolds == Spec => []AimInv
<1>1. Init => AimInv
  BY DEF Init, AimInv, Wants
<1>2. IInv /\ TokensInv /\ AimInv /\ [Next]_vars => AimInv'
  BY AimKeeps
<1> QED BY <1>1, <1>2, Invariant, TokensHold, PTL DEF Spec

\* While the service is open the seat and its tokens change together.
LEMMA StepReseats ==
  ASSUME IInv, TokensInv, [Next]_vars, disposal = "none", disposal' = "none"
  PROVE  Reseated(discord, discord')
<1>1. StepKind /\ discord \in Discords /\ Tokens(discord, Held) /\ Held \in SUBSET Nat
  BY StepKinds, TypeParts, HeldTyped DEF IInv, SequencesOK, TokensInv
<1>2. CASE discord'.seat = discord.seat /\ discord'.issued = discord.issued
  BY <1>2 DEF Reseated
<1>3. CASE \E w : AskedFor(discord, discord', w)
  BY <1>1, <1>3, AskedForKeeps
<1>4. CASE TakeState \/ TakeUpdate
  <2>1. PICK op : Arrives(op)
    BY <1>4 DEF TakeState, TakeUpdate
  <2>2. /\ Rest \in Discords /\ discord.sent # <<>>
        /\ Rest = [discord EXCEPT !.sent = Tail(@)]
        /\ Rest.seat = discord.seat /\ Rest.issued = discord.issued
    BY <2>1, Arriving
  <2>3. {} \in SUBSET Nat /\ \A k \in {} : k \in Held \/ k = NoToken
    OBVIOUS
  <2>4. Tokens(Rest, {})
    <3>1. discord.sent # <<>> /\ Rest = [discord EXCEPT !.sent = Tail(@)]
      BY <2>2
    <3> QED BY <1>1, <2>3, <3>1, TokensTail
  <2>5. discord' = Rest \/ \E c : AskedFor(Rest, discord', c)
    BY <1>4, TakesState, TakesUpdate DEF Keeps, Follows
  <2>6. CASE \E c : AskedFor(Rest, discord', c)
    <3>1. Reseated(Rest, discord')
      BY <2>2, <2>3, <2>4, <2>6, AskedForKeeps
    <3> QED BY <2>2, <3>1 DEF Reseated
  <2> QED BY <1>2, <2>2, <2>5, <2>6
<1>5. CASE Quiet
  BY <1>2, <1>5 DEF Quiet
<1>6. CASE Asks
  BY <1>3, <1>6 DEF Asks
<1>7. CASE JoinsOther
  BY <1>3, <1>7, JoinsOtherAsks DEF JoinsOther
<1>8. CASE Moderates \/ ServerForgets \/ ServerRepeats
  BY <1>8, UnaskedGrows
<1> QED BY <1>1, <1>4, <1>5, <1>6, <1>7, <1>8 DEF StepKind

Accepted == {"accepted", "ready"}

\* Only a client becomes ready, and only the one that connects is accepted.
LEMMA StepClients ==
  ASSUME IInv, [Next]_vars, disposal = "none", disposal' = "none"
  PROVE  \/ ~readied' /\ client'.conn \notin Accepted
         \/ /\ latest' = latest
            /\ readied' => readied \/ client.conn \in Accepted
            /\ client'.conn \in Accepted =>
                  client.conn \in Accepted \/ (Connects /\ client # NoClient)
<1>1. CASE UNCHANGED <<latest, readied, client>>
  BY <1>1
<1>2. CASE ~readied' /\ client' = NoClient
  BY <1>2 DEF NoClient, Accepted
<1>3. ASSUME NEW credentials, Unstarted(credentials)
      PROVE  UNCHANGED <<latest, readied, client>>
  BY <1>3 DEF Unstarted
<1>4. CASE Room
  BY <1>1, <1>2, <1>4 DEF Room, Join, LeaveBegins, LeaveEnds, pairs, clients
<1>5. CASE TakeState \/ TakeUpdate
  <2>1. Started \/ \E credentials : Unstarted(credentials)
    BY <1>5, TakesState, TakesUpdate DEF Keeps, Follows
  <2> QED BY <1>1, <1>2, <1>3, <2>1 DEF Started
<1>6. CASE ReissueTimer \/ MoveTimer
  BY <1>1, <1>6 DEF ReissueTimer, MoveTimer, pairs, clients
<1>7. CASE Starts
  <2>1. /\ UNCHANGED <<latest, readied>>
        /\ client' = client \/ client'.conn = "new"
    BY <1>7, StartIs
  <2>2. "new" \notin Accepted
    BY DEF Accepted
  <2> QED BY <1>1, <2>1, <2>2
<1>8. CASE Client
  <2>1. PICK status, conn :
            /\ Reports(status, conn) /\ client.conn # "none" /\ conn # "none"
            /\ status = "ready" => client.conn = "accepted"
            /\ conn \in {"accepted", "ready"} =>
                  client.conn \in {"accepted", "ready"} \/ Connects
    BY <1>8, ClientSays
  <2>2. /\ client'.conn = conn /\ client # NoClient /\ latest' = latest
        /\ readied' => readied \/ status = "ready"
    BY <2>1, ReportsIs
  <2> QED BY <2>1, <2>2 DEF Accepted
<1>9. CASE Server
  BY <1>1, <1>9, SendsUnasked DEF Server, Moderates
<1>10. CASE CloseBegins \/ CloseSweeps \/ CloseEnds
  BY <1>10 DEF CloseBegins, CloseSweeps, CloseEnds
<1>11. CASE UNCHANGED vars
  BY <1>1, <1>11 DEF vars, pairs, clients
<1> QED BY <1>4, <1>5, <1>6, <1>7, <1>8, <1>9, <1>10, <1>11 DEF Next, Service

\* A client that was accepted with the newest token is in the seat.
ReadyInv ==
    /\ disposal = "none" /\ discord.seat # NoChannel
    /\ latest.token = discord.issued
    /\ readied \/ client.conn \in Accepted
    => latest.channel = discord.seat

\* Steps keep the client that was accepted in the seat.
LEMMA ReadyKeeps ==
  ASSUME IInv, TokensInv, LineInv, ReadyInv, [Next]_vars
  PROVE  ReadyInv'
<1> SUFFICES ASSUME disposal' = "none", discord'.seat # NoChannel,
                    latest'.token = discord'.issued,
                    readied' \/ client'.conn \in Accepted
             PROVE  latest'.channel = discord'.seat
  BY DEF ReadyInv
<1>1. /\ disposal = "none" /\ Reseated(discord, discord')
      /\ latest' = latest
      /\ readied' => readied \/ client.conn \in Accepted
      /\ client'.conn \in Accepted =>
                  client.conn \in Accepted \/ (Connects /\ client # NoClient)
  BY OpenBefore, StepReseats, StepClients
<1>2. latest.token \in Nat /\ discord.issued \in Nat /\ latest.token <= discord.issued
      /\ discord'.issued \in Nat
  <2>1. latest.token \in Nat /\ discord.issued \in Nat
    BY TypeParts DEF IInv, FieldsOK, SequencesOK, Discords, CredentialsSet
  <2>2. latest.token <= discord.issued
    BY <1>1 DEF TokensInv, Tokens, Held
  <2> QED BY <1>1, <2>1, <2>2
<1>3. ~(discord'.issued > discord.issued)
  BY <1>1, <1>2
<1>4. discord'.seat = discord.seat /\ discord'.issued = discord.issued
  BY <1>1, <1>3 DEF Reseated
<1>5. CASE readied \/ client.conn \in Accepted
  BY <1>1, <1>4, <1>5 DEF ReadyInv
<1>6. CASE Connects /\ client # NoClient
  <2>1. client.credentials.channel = discord.seat /\ client.credentials = latest
    BY <1>1, <1>6 DEF Connects, Credentials, LineInv
  <2> QED BY <1>1, <1>4, <2>1
<1> QED BY <1>1, <1>5, <1>6

LEMMA ReadyHolds == Spec => []ReadyInv
<1>1. Init => ReadyInv
  BY DEF Init, ReadyInv
<1>2. IInv /\ TokensInv /\ LineInv /\ ReadyInv /\ [Next]_vars => ReadyInv'
  BY ReadyKeeps
<1> QED BY <1>1, <1>2, Invariant, TokensHold, LineHolds, PTL DEF Spec

\* When the account sits elsewhere and the newest token has come, it waits for the voice
\* state of the seat, or it is the latest with a channel that was wanted before.
MovedInv ==
    Wants /\ discord.seat \notin {NoChannel, desired} /\ ~HasNewest(discord) =>
        \/ lost
        \/ /\ 1 \in Sent(discord) /\ SaidAt(discord, 1, discord.seat)
           /\ pairing = Credentials(NoChannel, discord.issued)
        \/ latest.token = discord.issued /\ latest.channel # discord.seat

\* The newest token comes while another channel than the seat is wanted.
LEMMA NewestComes ==
  ASSUME IInv, TokensInv, BesideInv, PairInv, AimInv, ReadyInv, Wants,
         discord.seat \notin {NoChannel, desired}, TakeUpdate, NewestAt(discord, 1)
  PROVE  \/ /\ 1 \in Sent(Rest) /\ SaidAt(Rest, 1, discord.seat)
            /\ pairing' = Credentials(NoChannel, discord.issued)
         \/ latest'.token = discord.issued /\ latest'.channel # discord.seat
<1> DEFINE t == Head(discord.sent).token
           complete == t # NoToken /\ pairing.channel # NoChannel
           pair == IF complete THEN Credentials(pairing.channel, t) ELSE NoCredentials
<1>1. /\ Arrives("update")
      /\ pairing' = IF complete \/ t = NoToken THEN NoCredentials
                    ELSE Credentials(NoChannel, t)
      /\ \/ Unstarted(pair)
         \/ Started /\ latest' = pair /\ desired = pair.channel
      /\ UNCHANGED desired
  BY TakesUpdate
<1>2. /\ disposal = "none" /\ Head(discord.sent).op = "update"
      /\ Head(discord.sent) = discord.sent[1] /\ 1 \in Sent(discord)
      /\ \A p \in Sent(discord) :
            p # 1 => p - 1 \in Sent(Rest) /\ Rest.sent[p - 1] = discord.sent[p]
  BY <1>1, Arriving
<1>3. /\ discord.seat # NoChannel /\ desired # discord.seat /\ desired # NoChannel
      /\ Tokens(discord, Held) /\ discord.issued \in Nat
  BY <1>2, TypeParts DEF TokensInv, Wants, IInv, SequencesOK, Discords
<1>4. t = discord.issued /\ t # NoToken
  BY <1>2, <1>3 DEF NewestAt, Tokens, NoToken
<1> HIDE DEF t
<1>5. CASE pairing.channel = NoChannel
  <2>1. pairing' = Credentials(NoChannel, discord.issued)
    BY <1>1, <1>4, <1>5
  <2>2. Beside(discord, desired, 1)
    BY <1>2, <1>3 DEF BesideInv, Adjacent
  <2>3. \A q \in Sent(discord) : ~(q < 1)
    BY DEF Sent
  <2>4. 1 + 1 \in Sent(discord) /\ SaidAt(discord, 1 + 1, discord.seat)
    BY <1>3, <2>2, <2>3 DEF Beside
  <2>5. 1 + 1 # 1 /\ (1 + 1) - 1 = 1
    OBVIOUS
  <2>6. 1 \in Sent(Rest) /\ SaidAt(Rest, 1, discord.seat)
    BY <1>2, <2>4, <2>5 DEF SaidAt
  <2> QED BY <2>1, <2>6
<1>6. CASE pairing.channel # NoChannel
  <2>1. pairing.channel = desired
    <3> SUFFICES ASSUME SaidOf(discord, desired) PROVE FALSE
      BY <1>6 DEF PairInv
    <3>1. PICK q \in Sent(discord) : SaidAt(discord, q, desired)
      BY DEF SaidOf
    <3>2. q # 1
      BY <1>2, <3>1 DEF SaidAt
    <3>3. 1 < q
      BY <3>2 DEF Sent
    <3>4. OfSeat(discord, q)
      BY <1>2, <1>3, <3>3 DEF Tokens
    <3> QED BY <1>3, <3>1, <3>4 DEF OfSeat, SaidAt
  <2>2. pair = Credentials(desired, discord.issued)
    BY <1>4, <1>6, <2>1
  <2>3. /\ pair.channel = desired /\ pair.token = discord.issued
        /\ pair # NoCredentials
    BY <1>4, <2>2 DEF Credentials, NoCredentials
  <2> HIDE DEF pair
  <2>4. CASE Unstarted(pair)
    <3>1. readied /\ latest.token = discord.issued
      BY <1>1, <2>3, <2>4 DEF Unstarted
    <3>2. latest.channel = discord.seat
      BY <1>2, <1>3, <3>1 DEF ReadyInv
    <3> QED BY <1>3, <3>1, <3>2 DEF AimInv
  <2> QED BY <1>1, <1>3, <2>3, <2>4
<1> QED BY <1>5, <1>6

\* Steps keep what was known of a move.
LEMMA MovedKeeps ==
  ASSUME IInv, SeatInv, TokensInv, BesideInv, PairInv, AimInv, ReadyInv, MovedInv,
         [Next]_vars
  PROVE  MovedInv'
<1> SUFFICES ASSUME Wants', discord'.seat \notin {NoChannel, desired'},
                    ~HasNewest(discord'), ~lost'
             PROVE  \/ /\ 1 \in Sent(discord') /\ SaidAt(discord', 1, discord'.seat)
                       /\ pairing' = Credentials(NoChannel, discord'.issued)
                    \/ latest'.token = discord'.issued /\ latest'.channel # discord'.seat
  BY DEF MovedInv
<1>1. /\ disposal' = "none" /\ desired' # NoChannel /\ evicted' = "no"
      /\ disposal = "none" /\ StepKind
      /\ discord \in Discords /\ Tokens(discord, Held) /\ Held \in SUBSET Nat
  BY OpenBefore, StepKinds, TypeParts, HeldTyped DEF Wants, IInv, SequencesOK, TokensInv
<1>2. ASSUME UNCHANGED <<desired, evicted, lost>>, discord'.seat = discord.seat,
             ~HasNewest(discord)
      PROVE  /\ Wants /\ discord.seat \notin {NoChannel, desired}
             /\ \/ /\ 1 \in Sent(discord) /\ SaidAt(discord, 1, discord.seat)
                   /\ pairing = Credentials(NoChannel, discord.issued)
                \/ latest.token = discord.issued /\ latest.channel # discord.seat
  BY <1>1, <1>2 DEF MovedInv, Wants
<1>3. CASE Quiet
  <2>1. UNCHANGED <<discord, desired, evicted, lost, latest, pairing>>
    BY <1>3 DEF Quiet
  <2> QED BY <1>2, <2>1
<1>4. CASE Asks
  BY <1>1, <1>4, AskedForKeeps DEF Asks
<1>5. CASE JoinsOther
  <2>1. PICK c \in Channels : Join(c) /\ JoinOther(c)
    BY <1>5 DEF JoinsOther
  <2> QED BY <1>1, <2>1, JoinsOtherAsks, AskedForKeeps
<1>6. CASE TakeState
  <2> DEFINE c == Head(discord.sent).channel
  <2>1. Arrives("state") /\ (Keeps(c) \/ Follows(c))
    BY <1>6, TakesState
  <2>2. /\ Rest \in Discords /\ Head(discord.sent).op = "state"
        /\ Head(discord.sent) = discord.sent[1] /\ 1 \in Sent(discord)
        /\ Rest = [discord EXCEPT !.sent = Tail(@)] /\ discord.sent # <<>>
        /\ Rest.seat = discord.seat /\ Rest.issued = discord.issued
    BY <2>1, Arriving
  <2>3. discord' = Rest
    <3>1. {} \in SUBSET Nat /\ \A k \in {} : k \in Held \/ k = NoToken
      OBVIOUS
    <3>2. Tokens(Rest, {})
      <4>1. discord.sent # <<>> /\ Rest = [discord EXCEPT !.sent = Tail(@)]
        BY <2>2
      <4> QED BY <1>1, <3>1, <4>1, TokensTail
    <3>3. ~(desired' = c /\ AskedFor(Rest, discord', c))
      BY <2>2, <3>1, <3>2, AskedForKeeps
    <3> QED BY <2>1, <3>3 DEF Keeps, Follows
  <2>4. ~HasNewest(discord) /\ discord.seat # NoChannel
    <3>1. ~NewestAt(discord, 1)
      BY <2>2 DEF NewestAt
    <3> QED BY <2>1, <2>2, <2>3, <3>1, StillSent
  <2>5. \A q \in Sent(discord) : OfSeat(discord, q)
    BY <1>1, <2>4, HandSays
  <2>6. c = discord.seat
    BY <2>2, <2>5 DEF OfSeat
  <2>7. CASE Follows(c)
    BY <2>2, <2>3, <2>6, <2>7 DEF Follows
  <2>8. CASE Keeps(c)
    <3>1. UNCHANGED <<desired, evicted>> /\ desired # c /\ Wants
      BY <1>1, <2>2, <2>3, <2>6, <2>8 DEF Keeps, Wants
    <3>2. Answers(c)
      BY <2>8, <3>1 DEF Keeps, Wants
    <3>3. PICK q \in Sent(discord) : SaidAt(discord, q, desired)
      BY <2>1, <3>1, <3>2, WantedIsSaid
    <3> QED BY <2>5, <2>6, <3>1, <3>3 DEF OfSeat, SaidAt
  <2> QED BY <2>1, <2>7, <2>8
<1>7. CASE TakeUpdate
  <2> DEFINE t == Head(discord.sent).token
             complete == t # NoToken /\ pairing.channel # NoChannel
             pair == IF complete THEN Credentials(pairing.channel, t) ELSE NoCredentials
  <2>1. /\ Arrives("update") /\ discord' = Rest /\ UNCHANGED <<desired, evicted>>
        /\ lost' = (lost \/ Loses(pair))
        /\ Unstarted(pair) \/ (Started /\ latest' = pair /\ desired = pair.channel)
    BY <1>7, TakesUpdate
  <2>2. /\ Head(discord.sent).op = "update"
        /\ Head(discord.sent) = discord.sent[1] /\ 1 \in Sent(discord)
        /\ Rest.seat = discord.seat /\ Rest.issued = discord.issued
    BY <2>1, Arriving
  <2>3. Wants /\ discord.seat \notin {NoChannel, desired} /\ ~lost
    BY <1>1, <2>1, <2>2 DEF Wants
  <2>4. CASE NewestAt(discord, 1)
    BY <1>7, <2>1, <2>2, <2>3, <2>4, NewestComes
  <2>5. CASE ~NewestAt(discord, 1)
    <3>1. ~HasNewest(discord) /\ discord.seat # NoChannel
      BY <2>1, <2>3, <2>5, StillSent
    <3>2. OfSeat(discord, 1)
      BY <1>1, <2>2, <3>1, HandSays
    <3>3. t = NoToken
      BY <2>2, <2>5, <3>2 DEF OfSeat, NewestAt
    <3>4. latest.token = discord.issued /\ latest.channel # discord.seat
      BY <2>2, <2>3, <3>1 DEF MovedInv, SaidAt
    <3>5. pair = NoCredentials /\ NoCredentials.channel = NoChannel
      BY <3>3 DEF NoCredentials, Credentials
    <3> HIDE DEF pair
    <3>6. latest' = latest
      BY <2>1, <2>3, <3>5 DEF Unstarted, Wants
    <3> QED BY <2>1, <2>2, <3>4, <3>6
  <2> QED BY <2>4, <2>5
<1>8. CASE Moderates \/ ServerForgets \/ ServerRepeats
  <2>1. UNCHANGED <<desired, evicted, latest, pairing, lost>>
    BY <1>8, SendsUnasked
  <2>2. ASSUME NEW c \in Places, discord' \in Seats(discord, c) PROVE FALSE
    <3>1. CASE c \in Channels
      <4>1. PICK u \in {Len(discord.sent) + 1, Len(discord.sent) + 2} : NewestAt(discord', u)
        BY <1>1, <2>2, <3>1, SeatedShape
      <4>2. Len(discord'.sent) = Len(discord.sent) + 2 /\ Len(discord.sent) \in Nat
        BY <1>1, <2>2, <3>1, SeatedShape DEF Longer
      <4>3. u \in Sent(discord')
        BY <4>2 DEF Sent
      <4> QED BY <4>1, <4>3 DEF HasNewest
    <3>2. CASE c = NoChannel
      BY <1>1, <2>2, <3>2, UnseatedShape
    <3> QED BY <3>1, <3>2 DEF Places
  <2>3. discord'.seat = discord.seat /\ discord'.issued = discord.issued
    BY <1>8, <2>2, SendsUnasked
  <2>4. \A p \in Sent(discord) : p \in Sent(discord') /\ discord'.sent[p] = discord.sent[p]
    BY <1>1, <1>8, UnaskedGrows DEF Longer
  <2>5. ~HasNewest(discord)
    BY <2>3, <2>4 DEF HasNewest, NewestAt
  <2> QED BY <1>2, <2>1, <2>3, <2>4, <2>5 DEF SaidAt
<1> QED BY <1>1, <1>3, <1>4, <1>5, <1>6, <1>7, <1>8 DEF StepKind

LEMMA MovedHolds == Spec => []MovedInv
<1>1. Init => MovedInv
  BY DEF Init, MovedInv, Wants
<1>2. /\ IInv /\ SeatInv /\ TokensInv /\ BesideInv /\ PairInv /\ AimInv /\ ReadyInv
      /\ MovedInv /\ [Next]_vars
      => MovedInv'
  BY MovedKeeps
<1> QED BY <1>1, <1>2, Invariant, SeatHolds, TokensHold, BesideHolds, PairHolds, AimHolds,
           ReadyHolds, PTL DEF Spec

-----------------------------------------------------------------------------
(* A channel that is wanted while no client is there.                      *)

\* Its credentials are coming, or in line to start.
Coming ==
    \/ HasNewest(discord) /\ (HasState(discord) \/ pairing.channel # NoChannel)
    \/ pairing = Credentials(NoChannel, discord.issued) /\ HasState(discord)
    \/ \E i \in 1 .. Len(starts) :
          starts[i].current /\ starts[i].credentials.channel = desired

\* The room was told, nothing noticed, or a ping and its timer are out.
Excused == lost \/ ignored \/ shown = "failure" \/ (pinged /\ reissueDue)

\* Without a client, what serves the channel is coming, or somebody knows better.
StuckInv ==
    Wants /\ client = NoClient /\ discord.seat # NoChannel => Excused \/ Coming

\* What Discord sends behind the rest does not stop what is coming.
LEMMA ComingKeeps ==
  ASSUME Coming, UNCHANGED <<desired, pairing, starts>>, Longer(discord, discord'),
         discord'.issued = discord.issued
  PROVE  Coming'
<1>1. \A p \in Sent(discord) : p \in Sent(discord') /\ discord'.sent[p] = discord.sent[p]
  BY DEF Longer
<1>2. /\ HasNewest(discord) => HasNewest(discord')
      /\ HasState(discord) => HasState(discord')
  BY <1>1 DEF HasNewest, HasState, NewestAt, StateAt
<1> QED BY <1>2 DEF Coming

\* A seat elsewhere brings what a room needs to connect to it.
LEMMA SeatsCome ==
  ASSUME NEW d \in Discords, NEW c \in Places, NEW e \in Seats(d, c), e.seat # NoChannel
  PROVE  HasNewest(e) /\ HasState(e)
<1>1. c \in Channels
  BY UnseatedShape DEF Places
<1>2. PICK s, u \in {Len(d.sent) + 1, Len(d.sent) + 2} : SaidAt(e, s, c) /\ NewestAt(e, u)
  BY <1>1, SeatedShape
<1>3. Len(e.sent) = Len(d.sent) + 2 /\ Len(d.sent) \in Nat
  BY <1>1, SeatedShape DEF Longer
<1>4. s \in Sent(e) /\ u \in Sent(e)
  BY <1>3 DEF Sent
<1> QED BY <1>2, <1>4 DEF HasNewest, HasState, SaidAt, StateAt

\* A request does that, or finds the account there already.
LEMMA RequestComes ==
  ASSUME NEW d \in Discords, NEW request \in Requests, request # Ping,
         NEW e \in Acts(d, request), e.seat # NoChannel
  PROVE  \/ HasNewest(e) /\ HasState(e)
         \/ /\ Longer(d, e) /\ e.issued = d.issued /\ e.seat = d.seat
            /\ d.seat = request.channel
<1>1. request.op # "ping" /\ request.channel \in Places
  BY DEF Requests, Voice, Again
<1>2. Longer(d, d)
  BY DEF Longer, Discords
<1>3. \/ request.channel = d.seat /\ (e = d \/ e = Sends(d, State(d.seat)))
      \/ e \in Seats(d, request.channel)
  BY <1>1 DEF Acts
<1> QED BY <1>1, <1>2, <1>3, EchoedShape, SeatsCome

\* Each kind of step leaves something coming, or leaves an excuse.
LEMMA JoinComes ==
  ASSUME IInv, SeatInv, StuckInv, disposal = "none", NEW c \in Channels, Join(c),
         Wants', client' = NoClient, discord'.seat # NoChannel, ~Excused'
  PROVE  Coming'
<1>1. discord \in Discords /\ SequencesOK /\ FieldsOK /\ c \in Places /\ c # NoChannel
  BY TypeParts, ChannelsAssumption DEF IInv, SequencesOK, Places
<1>2. ASSUME HasNewest(discord'), HasState(discord') PROVE Coming'
  BY <1>2 DEF Coming
<1>3. /\ evicted = "no" /\ client = NoClient
      /\ lost' = FALSE /\ ignored' = FALSE /\ shown' # "failure" /\ ~(pinged' /\ reissueDue')
  <2>1. evicted' = "no" => evicted = "no"
    BY DEF Join
  <2>2. lost' \in BOOLEAN /\ ignored' \in BOOLEAN
    BY <1>1 DEF Join, JoinSame, JoinOther, FieldsOK
  <2> QED BY <2>1, <2>2 DEF Join, Wants, Excused
<1>4. CASE JoinSame(c)
  <2>1. ~IsStuck /\ Announce(c) /\ UNCHANGED <<pinged, reissueDue>>
    BY <1>3, <1>4 DEF JoinSame
  <2>2. UNCHANGED <<desired, starts, pairing, lost>> /\ desired = c
    BY <1>4 DEF JoinSame
  <2>3. UNCHANGED <<shown, ignored>>
    BY <1>3, <1>4, <2>1 DEF JoinSame
  <2>4. discord' \in Acts(discord, Voice(c)) /\ Voice(c) \in Requests /\ Voice(c) # Ping
    BY <1>1, <2>1, AnnounceAsks
  <2>5. CASE Longer(discord, discord') /\ discord'.issued = discord.issued
             /\ discord'.seat = discord.seat
    <3>1. Wants /\ ~Excused
      BY <1>1, <1>3, <2>1, <2>2, <2>3 DEF Wants, Excused
    <3>2. Coming
      BY <1>3, <2>5, <3>1 DEF StuckInv
    <3> QED BY <2>2, <2>5, <3>2, ComingKeeps
  <2> QED BY <1>1, <1>2, <2>4, <2>5, RequestComes
<1>5. CASE JoinOther(c)
  <2>1. /\ desired # c /\ lost' = (lost \/ (discord.seat = c /\ Spent))
        /\ discord' \in Acts(discord, Voice(c)) /\ Voice(c) \in Requests /\ Voice(c) # Ping
        /\ Voice(c).channel = c
    BY <1>5, JoinsOtherAsks
  <2>2. CASE /\ Longer(discord, discord') /\ discord'.issued = discord.issued
             /\ discord'.seat = discord.seat /\ discord.seat = c
    <3>1. ~Spent
      BY <1>3, <2>1, <2>2
    <3>2. HasNewest(discord)
      <4>1. Update(discord.issued) \in {discord.sent[i] : i \in DOMAIN discord.sent}
        BY <3>1 DEF Spent, ToSet
      <4>2. PICK i \in DOMAIN discord.sent : discord.sent[i] = Update(discord.issued)
        BY <4>1
      <4>3. i \in Sent(discord)
        BY <1>1, <4>2, LenProperties DEF Sent, Discords
      <4>4. NewestAt(discord, i)
        BY <4>2 DEF NewestAt, Update
      <4> QED BY <4>3, <4>4 DEF HasNewest
    <3>3. Wants
      BY <1>1, <1>3, <2>2 DEF SeatInv, Wants
    <3>4. SeatSaid(discord, desired) /\ desired # discord.seat
      BY <2>1, <2>2, <3>3, SeatIsSaid
    <3>5. HasState(discord)
      BY <3>4 DEF SeatSaid, HasState, SaidAt, StateAt
    <3>6. \A p \in Sent(discord) : p \in Sent(discord') /\ discord'.sent[p] = discord.sent[p]
      BY <2>2 DEF Longer
    <3>7. HasNewest(discord') /\ HasState(discord')
      BY <2>2, <3>2, <3>5, <3>6 DEF HasNewest, HasState, NewestAt, StateAt
    <3> QED BY <1>2, <3>7
  <2> QED BY <1>1, <1>2, <2>1, <2>2, RequestComes
<1> QED BY <1>4, <1>5 DEF Join

\* Credentials that do not start while no client is there.
LEMMA UnstartedIs ==
  ASSUME IInv, LineInv, disposal = "none", client' = NoClient, NEW credentials,
         Unstarted(credentials)
  PROVE  /\ UNCHANGED <<starts, latest, readied, client>> /\ ~readied
         /\ credentials = NoCredentials \/ desired' # credentials.channel
BY DEF Unstarted, LineInv

LEMMA StartedComes ==
  ASSUME Started, latest'.channel = desired'
  PROVE  Coming'
BY DEF Started, Starting, Coming

LEMMA StateComes ==
  ASSUME IInv, SeatInv, TokensInv, LineInv, MovedInv, StuckInv, TakeState,
         Wants', client' = NoClient, discord'.seat # NoChannel, ~Excused'
  PROVE  Coming'
<1> DEFINE c == Head(discord.sent).channel
<1>1. /\ c \in Places /\ Arrives("state") /\ PairsState(c)
      /\ UNCHANGED <<disposal, shown, ignored>>
      /\ lost' = (lost \/ Loses(Completed(c)))
      /\ Keeps(c) \/ Follows(c)
  BY TakesState
<1>2. /\ Rest \in Discords /\ Head(discord.sent).op = "state" /\ discord.sent # <<>>
      /\ Head(discord.sent) = discord.sent[1] /\ 1 \in Sent(discord)
      /\ Rest = [discord EXCEPT !.sent = Tail(@)] /\ disposal = "none"
      /\ Rest.seat = discord.seat /\ Rest.issued = discord.issued
  BY <1>1, Arriving
<1>3. discord \in Discords /\ Tokens(discord, Held) /\ discord.issued \in Nat
  BY <1>2, TypeParts DEF TokensInv, IInv, SequencesOK, Discords
<1>4. ~lost
  BY <1>1 DEF Excused
<1>5. ~NewestAt(discord, 1)
  BY <1>2 DEF NewestAt
<1>6. NoCredentials.channel = NoChannel /\ NoCredentials.token = NoToken
      /\ \A x, t : Credentials(x, t).channel = x /\ Credentials(x, t).token = t
  BY DEF NoCredentials, Credentials
<1>7. desired' # NoChannel /\ evicted' = "no" /\ disposal' = "none"
  BY DEF Wants
<1>8. CASE Follows(c)
  <2>1. /\ desired # NoChannel /\ desired # c /\ desired' = c /\ c # NoChannel
        /\ UNCHANGED evicted
    BY <1>7, <1>8 DEF Follows
  <2>2. CASE /\ Started
             /\ \/ latest' = Completed(c) /\ c = Completed(c).channel
                \/ latest' = Credentials(c, latest.token)
    <3>1. latest'.channel = c
      BY <1>6, <2>2
    <3> QED BY <2>1, <2>2, <3>1, StartedComes
  <2>3. CASE Unstarted(Completed(c)) /\ ~(c # NoChannel /\ Reaims(c))
    <3>1. /\ latest' = latest /\ ~readied /\ client = NoClient
          /\ Completed(c) = NoCredentials \/ desired' # Completed(c).channel
      BY <1>2, <2>3, UnstartedIs
    <3>2. pairing.token = NoToken
      BY <1>6, <2>1, <3>1 DEF Completed
    <3>3. pairing'.channel = c /\ c # NoChannel
      BY <1>1, <1>6, <2>1, <3>2 DEF PairsState
    <3>4. HasNewest(discord') => Coming'
      BY <3>3 DEF Coming
    <3>5. CASE HasNewest(discord') \/ (HasNewest(discord') /\ HasState(discord'))
      BY <3>4, <3>5
    <3>6. CASE /\ discord'.seat = discord.seat /\ discord'.issued = discord.issued
               /\ Longer(Rest, discord')
      <4>1. HasNewest(Rest) => HasNewest(discord')
        BY <1>2, <3>6 DEF HasNewest, NewestAt, Longer
      <4>2. CASE HasNewest(discord)
        BY <1>1, <1>5, <3>4, <4>1, <4>2, StillSent
      <4>3. CASE ~HasNewest(discord)
        <5>1. discord.seat # NoChannel
          BY <3>6
        <5>2. OfSeat(discord, 1) /\ discord.issued > 0
          BY <1>2, <4>3, <5>1, HandSays
        <5>3. c = discord.seat
          BY <1>2, <5>2 DEF OfSeat
        <5>4. Wants /\ discord.seat \notin {NoChannel, desired}
          BY <1>2, <1>7, <2>1, <5>1, <5>3 DEF Wants
        <5>5. discord.issued # NoToken
          BY <5>2 DEF NoToken
        <5>6. pairing # Credentials(NoChannel, discord.issued)
          BY <1>6, <3>2, <5>5
        <5>7. latest.token = discord.issued /\ latest.channel # discord.seat
          BY <1>4, <4>3, <5>4, <5>6 DEF MovedInv
        <5>8. latest # NoCredentials /\ latest.channel # c
          BY <1>6, <5>3, <5>5, <5>7
        <5>9. Reaims(c)
          BY <3>1, <5>8 DEF Reaims
        <5> QED BY <2>1, <2>3, <5>9
      <4> QED BY <4>2, <4>3
    <3>7. CASE discord' = Rest
      <4>1. Longer(Rest, Rest)
        BY <1>2 DEF Longer, Discords
      <4> QED BY <1>2, <3>6, <3>7, <4>1
    <3>8. CASE \E request \in Requests : /\ request # Ping /\ request.channel = c
                                         /\ discord' \in Acts(Rest, request)
      BY <1>2, <3>5, <3>6, <3>8, RequestComes
    <3> QED BY <1>8, <3>7, <3>8 DEF Follows
  <2> QED BY <1>8, <2>2, <2>3 DEF Follows
<1>9. CASE Keeps(c)
  <2>1. /\ Answers(c) \/ desired = NoChannel \/ desired = c
        /\ discord' = Rest /\ UNCHANGED <<desired, evicted>> /\ Wants
    BY <1>2, <1>7, <1>9 DEF Keeps, Wants
  <2>2. UNCHANGED <<pinged, reissueDue>>
    <3>1. KeepPlace(c)
      BY <2>1 DEF TakeState
    <3> QED BY <3>1 DEF KeepPlace
  <2>3. ~Excused
    BY <1>1, <1>4, <2>2 DEF Excused
  <2>4. CASE Started /\ latest' = Completed(c) /\ desired = Completed(c).channel
    BY <2>1, <2>4, StartedComes
  <2>5. CASE Unstarted(Completed(c))
    <3>1. /\ UNCHANGED <<starts, client>> /\ client = NoClient
          /\ Completed(c) = NoCredentials \/ desired # Completed(c).channel
      BY <1>2, <2>1, <2>5, UnstartedIs
    <3>2. Coming /\ discord.seat # NoChannel
      BY <1>2, <2>1, <2>3, <3>1 DEF StuckInv
    <3>3. CASE \E i \in 1 .. Len(starts) :
                  starts[i].current /\ starts[i].credentials.channel = desired
      BY <2>1, <3>1, <3>3 DEF Coming
    <3>4. HasNewest(discord) => HasNewest(discord')
      BY <1>1, <1>5, <2>1, StillSent
    <3>5. pairing = Credentials(NoChannel, discord.issued) => pairing.token # NoToken
      <4>1. discord.issued > 0
        BY <1>3, <3>2 DEF Tokens
      <4> QED BY <1>6, <4>1 DEF NoToken
    <3>6. CASE c = desired
      <4>1. c # NoChannel
        BY <2>1, <3>6 DEF Wants
      <4>2. pairing.token = NoToken
        BY <1>6, <3>1, <3>6, <4>1 DEF Completed
      <4>3. pairing'.channel # NoChannel
        BY <1>1, <1>6, <4>1, <4>2 DEF PairsState
      <4> QED BY <3>2, <3>3, <3>4, <3>5, <4>2, <4>3 DEF Coming
    <3>7. CASE c # desired
      <4>1. PICK q \in Sent(discord) : q > 1 /\ SaidAt(discord, q, desired)
        BY <1>1, <2>1, <3>7, WantedIsSaid DEF Wants
      <4>2. q # 1
        BY <4>1
      <4>3. HasState(discord')
        BY <1>1, <2>1, <4>1, <4>2, StillSent
      <4>4. CASE HasNewest(discord)
        BY <3>4, <4>3, <4>4 DEF Coming
      <4>5. CASE pairing = Credentials(NoChannel, discord.issued) /\ ~HasNewest(discord)
        <5>1. OfSeat(discord, 1) /\ OfSeat(discord, q)
          BY <1>2, <3>2, <4>5, HandSays
        <5> QED BY <1>2, <3>7, <4>1, <5>1 DEF OfSeat, SaidAt
      <4> QED BY <3>2, <3>3, <4>4, <4>5 DEF Coming
    <3> QED BY <3>6, <3>7
  <2> QED BY <1>9, <2>4, <2>5 DEF Keeps
<1> QED BY <1>1, <1>8, <1>9

LEMMA UpdateComes ==
  ASSUME IInv, SeatInv, TokensInv, PairInv, LineInv, StuckInv, TakeUpdate,
         Wants', client' = NoClient, discord'.seat # NoChannel, ~Excused'
  PROVE  Coming'
<1> DEFINE t == Head(discord.sent).token
           complete == t # NoToken /\ pairing.channel # NoChannel
           pair == IF complete THEN Credentials(pairing.channel, t) ELSE NoCredentials
<1>1. /\ Arrives("update") /\ discord' = Rest
      /\ UNCHANGED <<disposal, desired, evicted, shown, ignored, pinged, reissueDue>>
      /\ pairing' = IF complete \/ t = NoToken THEN NoCredentials
                    ELSE Credentials(NoChannel, t)
      /\ lost' = (lost \/ Loses(pair))
      /\ \/ Unstarted(pair)
         \/ Started /\ latest' = pair /\ desired = pair.channel
  BY TakesUpdate
<1>2. /\ disposal = "none" /\ Head(discord.sent).op = "update"
      /\ Head(discord.sent) = discord.sent[1] /\ 1 \in Sent(discord)
      /\ Head(discord.sent) \in Dispatches
      /\ Rest.seat = discord.seat /\ Rest.issued = discord.issued
  BY <1>1, Arriving
<1>3. Wants /\ ~Excused /\ ~lost' /\ ~Loses(pair) /\ discord.seat # NoChannel
  BY <1>1, <1>2 DEF Wants, Excused
<1>4. /\ Tokens(discord, Held) /\ discord.issued > 0
      /\ NoCredentials.token = NoToken
      /\ \A x, k : Credentials(x, k).channel = x /\ Credentials(x, k).token = k
  BY <1>2, <1>3 DEF TokensInv, Tokens, NoCredentials, Credentials
<1>5. CASE Started /\ latest' = pair /\ desired = pair.channel
  BY <1>1, <1>5, StartedComes
<1>6. CASE Unstarted(pair)
  <2>1. /\ UNCHANGED <<starts, client>> /\ client = NoClient
        /\ pair = NoCredentials \/ desired # pair.channel
    <3> HIDE DEF pair
    <3> QED BY <1>1, <1>2, <1>6, UnstartedIs
  <2>2. t # NoToken
    <3> SUFFICES ASSUME t = NoToken PROVE FALSE
      OBVIOUS
    <3>1. Head(discord.sent) = Update(NoToken)
      BY <1>2 DEF Dispatches, Update
    <3> QED BY <1>3, <2>1, <3>1 DEF Loses
  <2>3. pairing.channel # NoChannel => desired # pairing.channel
    <3> SUFFICES ASSUME pairing.channel # NoChannel PROVE desired # pairing.channel
      OBVIOUS
    <3>1. pair = Credentials(pairing.channel, t)
      BY <2>2
    <3> QED BY <1>4, <2>1, <2>2, <3>1
  <2>4. pairing.channel # NoChannel =>
           \E q \in Sent(discord) : q # 1 /\ SaidAt(discord, q, desired)
    <3> SUFFICES ASSUME pairing.channel # NoChannel
                 PROVE  \E q \in Sent(discord) : q # 1 /\ SaidAt(discord, q, desired)
      OBVIOUS
    <3>1. SaidOf(discord, desired)
      BY <1>3, <2>3 DEF PairInv
    <3> QED BY <1>2, <3>1 DEF SaidOf, SaidAt
  <2>5. HasState(discord) => HasState(discord')
    <3>1. "update" # "state"
      OBVIOUS
    <3> QED BY <1>1, <3>1, StillSent
  <2>6. Coming
    BY <1>3, <2>1 DEF StuckInv
  <2>7. CASE \E i \in 1 .. Len(starts) :
                starts[i].current /\ starts[i].credentials.channel = desired
    BY <1>1, <2>1, <2>7 DEF Coming
  <2>8. CASE HasNewest(discord) /\ (HasState(discord) \/ pairing.channel # NoChannel)
    <3>1. HasState(discord)
      BY <2>4, <2>8 DEF HasState, SaidAt, StateAt
    <3>2. CASE ~NewestAt(discord, 1)
      BY <1>1, <2>5, <2>8, <3>1, <3>2, StillSent DEF Coming
    <3>3. CASE NewestAt(discord, 1)
      <4>1. t = discord.issued
        BY <1>2, <3>3 DEF NewestAt
      <4>2. CASE pairing.channel = NoChannel
        <5>1. pairing' = Credentials(NoChannel, discord'.issued)
          BY <1>1, <1>2, <2>2, <4>1, <4>2
        <5> QED BY <2>5, <3>1, <5>1 DEF Coming
      <4>3. CASE pairing.channel # NoChannel
        <5>1. PICK q \in Sent(discord) : q # 1 /\ SaidAt(discord, q, desired)
          BY <2>4, <4>3
        <5>2. 1 < q
          BY <5>1 DEF Sent
        <5>3. OfSeat(discord, q)
          BY <1>2, <1>3, <1>4, <3>3, <5>2 DEF Tokens
        <5>4. desired = discord.seat
          BY <5>1, <5>3 DEF OfSeat, SaidAt
        <5>5. pair = Credentials(pairing.channel, discord.issued)
          BY <2>2, <4>1, <4>3
        <5>6. pair.token = discord.issued /\ pair.token # NoToken
              /\ pair.channel = pairing.channel
          BY <1>4, <2>2, <4>1, <5>5
        <5>7. pairing.channel \in {desired', discord.seat}
          BY <1>3, <5>6 DEF Loses
        <5> QED BY <1>1, <2>3, <4>3, <5>4, <5>7
      <4> QED BY <4>2, <4>3
    <3> QED BY <3>2, <3>3
  <2>9. CASE pairing = Credentials(NoChannel, discord.issued) /\ HasState(discord)
    <3>1. pairing.channel = NoChannel /\ pairing.token = discord.issued
      BY <1>4, <2>9
    <3>2. OfSeat(discord, 1)
      BY <1>2, <1>3, <3>1, HandSays DEF Held
    <3>3. t = discord.issued
      BY <1>2, <2>2, <3>2 DEF OfSeat
    <3>4. pairing' = Credentials(NoChannel, discord'.issued)
      BY <1>1, <1>2, <2>2, <3>1, <3>3
    <3> QED BY <2>5, <2>9, <3>4 DEF Coming
  <2> QED BY <2>6, <2>7, <2>8, <2>9 DEF Coming
<1> QED BY <1>1, <1>5, <1>6

\* The steps that ask Discord for nothing and leave what is coming.
LEMMA SameComes ==
  ASSUME StuckInv, Wants, client = NoClient, ~Excused, discord.seat # NoChannel,
         UNCHANGED <<desired, discord, pairing, starts>>
  PROVE  Coming'
BY DEF StuckInv, Coming

LEMMA StartComes ==
  ASSUME IInv, StuckInv, disposal = "none", Starts,
         Wants', client' = NoClient, discord'.seat # NoChannel, ~Excused'
  PROVE  Coming'
<1>1. /\ client = NoClient /\ Len(starts) \in Nat
      /\ Len(starts') = Len(starts) - 1
      /\ \A j \in 1 .. Len(starts') : starts'[j] = starts[j + 1]
      /\ UNCHANGED <<disposal, desired, pinged, pairing, evicted, discord, lost, ignored>>
      /\ \/ /\ ~starts[1].current \/ desired # starts[1].credentials.channel
            /\ UNCHANGED <<reissueDue, client, shown>>
         \/ client' = [credentials |-> starts[1].credentials, conn |-> "new"]
         \/ shown' = "failure"
  BY StartIs
<1>2. client' # [credentials |-> starts[1].credentials, conn |-> "new"]
  BY DEF NoClient
<1>3. /\ ~starts[1].current \/ desired # starts[1].credentials.channel
      /\ UNCHANGED <<reissueDue, client, shown>>
  BY <1>1, <1>2 DEF Excused
<1>4. Wants /\ ~Excused /\ discord.seat # NoChannel
  BY <1>1, <1>3 DEF Wants, Excused
<1>5. Coming
  BY <1>1, <1>4 DEF StuckInv
<1>6. CASE \E i \in 1 .. Len(starts) :
              starts[i].current /\ starts[i].credentials.channel = desired
  <2>1. PICK i \in 1 .. Len(starts) :
              starts[i].current /\ starts[i].credentials.channel = desired
    BY <1>6
  <2>2. i # 1
    BY <1>3, <2>1
  <2>3. i - 1 \in 1 .. Len(starts') /\ (i - 1) + 1 = i
    BY <1>1, <2>2
  <2>4. starts'[i - 1] = starts[i]
    BY <1>1, <2>3
  <2> QED BY <1>1, <2>1, <2>3, <2>4 DEF Coming
<1> QED BY <1>1, <1>5, <1>6 DEF Coming

LEMMA TimerComes ==
  ASSUME IInv, StuckInv, disposal = "none", ReissueTimer \/ MoveTimer,
         Wants', client' = NoClient, discord'.seat # NoChannel, ~Excused'
  PROVE  Coming'
<1>1. UNCHANGED <<disposal, desired, evicted, client, lost, ignored>>
  BY DEF ReissueTimer, MoveTimer, room, trouble, clients
<1>2. Wants /\ client = NoClient /\ desired # NoChannel
  BY <1>1 DEF Wants
<1>3. CASE ReissueTimer
  <2>1. UNCHANGED <<pairing, starts>> /\ reissueDue
    BY <1>3 DEF ReissueTimer, pairs, clients
  <2>2. CASE ForceReissue /\ pinged
    <3>1. shown' = "failure" \/ (pinged' /\ reissueDue')
      BY <2>2 DEF ForceReissue, Show
    <3> QED BY <3>1 DEF Excused
  <2>3. CASE ~pinged /\ UNCHANGED <<pinged, discord, shown>>
    <3>1. ~Excused
      BY <1>1, <2>3 DEF Excused
    <3> QED BY <1>1, <1>2, <2>1, <2>3, <3>1, SameComes
  <2> QED BY <1>2, <1>3, <2>2, <2>3 DEF ReissueTimer
<1>4. CASE MoveTimer
  <2>1. CASE Recover
    BY <2>1 DEF Recover, Excused
  <2>2. CASE UNCHANGED <<pinged, reissueDue, discord, unanswered, pairing, starts>>
    <3>1. ~Excused
      BY <1>1, <1>4, <2>2 DEF Excused, MoveTimer, room
    <3> QED BY <1>1, <1>2, <2>2, <3>1, SameComes
  <2> QED BY <1>4, <2>1, <2>2 DEF MoveTimer
<1> QED BY <1>3, <1>4

LEMMA ServerComes ==
  ASSUME IInv, TokensInv, StuckInv, disposal = "none",
         Moderates \/ ServerForgets \/ ServerRepeats,
         Wants', client' = NoClient, discord'.seat # NoChannel, ~Excused'
  PROVE  Coming'
<1>1. /\ UNCHANGED <<disposal, desired, pinged, reissueDue, pairing, starts, client, shown,
                     evicted, lost, ignored>>
      /\ discord \in Discords
      /\ \/ \E c \in Places : discord' \in Seats(discord, c)
         \/ discord'.seat = discord.seat /\ discord'.issued = discord.issued
  BY SendsUnasked
<1>2. CASE \E c \in Places : discord' \in Seats(discord, c)
  BY <1>1, <1>2, SeatsCome DEF Coming
<1>3. CASE discord'.seat = discord.seat /\ discord'.issued = discord.issued
  <2>1. Wants /\ ~Excused /\ client = NoClient
    BY <1>1 DEF Wants, Excused
  <2>2. Coming
    BY <1>3, <2>1 DEF StuckInv
  <2>3. Longer(discord, discord')
    BY UnaskedGrows
  <2> QED BY <1>1, <1>3, <2>2, <2>3, ComingKeeps
<1> QED BY <1>1, <1>2, <1>3

LEMMA StuckKeeps ==
  ASSUME IInv, SeatInv, TokensInv, PairInv, LineInv, MovedInv, StuckInv, [Next]_vars
  PROVE  StuckInv'
<1> SUFFICES ASSUME Wants', client' = NoClient, discord'.seat # NoChannel, ~Excused'
             PROVE  Coming'
  BY DEF StuckInv
<1>1. disposal = "none" /\ disposal' = "none" /\ desired' # NoChannel
  BY OpenBefore DEF Wants
<1>2. CASE UNCHANGED vars
  <2>1. UNCHANGED <<disposal, desired, pinged, reissueDue, pairing, starts, client, shown,
                    evicted, discord, lost, ignored>>
    BY <1>2 DEF vars, recovery, pairs, clients, room, trouble
  <2>2. Wants /\ ~Excused
    BY <2>1 DEF Wants, Excused
  <2> QED BY <2>1, <2>2, SameComes
<1>3. CASE Room
  <2>1. ~LeaveBegins
    BY <1>1 DEF LeaveBegins
  <2>2. ~LeaveEnds
    BY <1>1 DEF LeaveEnds, IInv, LeavingIsOut
  <2>3. PICK c \in Channels : Join(c)
    BY <1>3, <2>1, <2>2 DEF Room
  <2> QED BY <1>1, <2>3, JoinComes
<1>4. CASE TakeState
  BY <1>4, StateComes
<1>5. CASE TakeUpdate
  BY <1>5, UpdateComes
<1>6. CASE ReissueTimer \/ MoveTimer
  BY <1>1, <1>6, TimerComes
<1>7. CASE Starts
  BY <1>1, <1>7, StartComes
<1>8. CASE Client
  BY <1>8, ClientSays, ReportsIs
<1>9. CASE Server
  BY <1>1, <1>9, ServerComes DEF Server, Moderates
<1>10. CASE CloseBegins \/ CloseSweeps \/ CloseEnds
  BY <1>1, <1>10 DEF CloseBegins, CloseSweeps, CloseEnds
<1> QED BY <1>2, <1>3, <1>4, <1>5, <1>6, <1>7, <1>8, <1>9, <1>10 DEF Next, Service

\* Nothing on its way, no client and no start: a channel that is wanted has a ping and
\* its timer out, the room shows that it failed, or one of two things happened that
\* nothing notices.  So however joins, moves and recoveries crossed, the service never
\* drops credentials the channel still needs (_acceptVoiceState, _acceptServerUpdate,
\* _reaimCredentials).
THEOREM WantedChannelIsServed == Spec => []WantedIsServed
<1>1. Init => StuckInv
  BY DEF Init, StuckInv, Wants
<1>2. /\ IInv /\ SeatInv /\ TokensInv /\ PairInv /\ LineInv /\ MovedInv
      /\ StuckInv /\ [Next]_vars
      => StuckInv'
  BY StuckKeeps
<1>3. IInv /\ SeatAgrees /\ StuckInv => WantedIsServed
  <2> SUFFICES ASSUME IInv, SeatAgrees, StuckInv, Arrived, evicted = "no",
                      desired # NoChannel, client = NoClient, starts = <<>>
               PROVE  Excused
    BY DEF WantedIsServed, Excused
  <2>1. Wants /\ discord.seat # NoChannel
    BY DEF SeatAgrees, Arrived, Wants
  <2>2. Sent(discord) = {} /\ 1 .. Len(starts) = {}
    BY DEF Arrived, Sent
  <2>3. ~Coming
    BY <2>2 DEF Coming, HasNewest, HasState
  <2> QED BY <2>1, <2>3 DEF StuckInv
<1> QED BY <1>1, <1>2, <1>3, Invariant, SeatHolds, RoomIsWhereSeated, TokensHold, PairHolds,
           LineHolds, MovedHolds, PTL DEF Spec

=============================================================================
