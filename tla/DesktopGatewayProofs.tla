------------------------ MODULE DesktopGatewayProofs ------------------------
(***************************************************************************)
(* Proofs about the gateway session, for any number of sockets, sessions,  *)
(* dispatches and faults.                                                  *)
(*                                                                         *)
(* Types, quiet and the status stream need nothing but the actions.  That  *)
(* a way back is always left rests on turns: on an open link the parties   *)
(* speak one after the other, and what ends a link is the last the client  *)
(* takes from it (TurnInv).  That nothing is passed over, and nothing      *)
(* handed on twice, rests on what the current socket still brings: the     *)
(* dispatches from where the client stands, in order and without a gap     *)
(* (FlowInv).  That a fresh session knows what the user wants rests on the *)
(* last word on its way about each intent (ToldInv).  That the client      *)
(* keeps the feed GatewayFeed describes adds that whatever may still be    *)
(* handed on belongs to the latest session of which anything was           *)
(* (LatestInv).                                                            *)
(***************************************************************************)
EXTENDS DesktopGateway, SequenceTheorems, TLAPS

-----------------------------------------------------------------------------
(* Frames and queues.                                                      *)

\* Sockets are not the absent socket.
LEMMA SocketsExist == NoSocket \notin Sockets
BY DEF NoSocket, Sockets

\* The frames the model builds are frames.
LEMMA FramesTyped ==
    /\ Op("hello") \in ServerFrames
    /\ Op("heartbeat") \in ServerFrames
    /\ Op("reconnect") \in ServerFrames
    /\ \A n \in Sessions, k \in 1 .. MaxEvents : Dispatch(n, k) \in ServerFrames
    /\ InvalidSession(FALSE) \in ServerFrames
    /\ Done(TRUE) \in ServerFrames /\ Done(FALSE) \in ServerFrames
    /\ Op("identify") \in ClientFrames
    /\ \A n \in Sessions, k \in 0 .. MaxEvents : Resume(n, k) \in ClientFrames
    /\ \A on, off \in SUBSET Intents : Intent(on, off) \in ClientFrames
BY DEF Op, Dispatch, InvalidSession, Done, Resume, Intent, ServerFrames,
       ClientFrames

\* A single frame is a sequence of frames, and so is none.
LEMMA SingleFramesTyped ==
    /\ <<Done(TRUE)>> \in Seq(ServerFrames)
    /\ <<Done(FALSE)>> \in Seq(ServerFrames)
    /\ <<InvalidSession(FALSE)>> \in Seq(ServerFrames)
    /\ <<>> \in Seq(ClientFrames)
<1>1. \A frame \in ServerFrames : <<frame>> \in Seq(ServerFrames)
  OBVIOUS
<1>2. QED
  BY <1>1, FramesTyped DEF Done, InvalidSession

\* What a handler reads of a dispatch is a session and a number of it.
LEMMA DispatchFields ==
    ASSUME NEW frame \in ServerFrames, frame.op = "dispatch"
    PROVE  frame.session \in Sessions /\ frame.n \in 1 .. MaxEvents
BY DEF ServerFrames

\* What the server reads of a resume.
LEMMA ResumeFields ==
    ASSUME NEW frame \in ClientFrames, frame.op = "resume"
    PROVE  frame.session \in Sessions /\ frame.n \in 0 .. MaxEvents
BY DEF ClientFrames

\* The numbers a replay gives its dispatches: those after the one it was asked
\* from, up to the RESUMED that ends it.
LEMMA ReplayNumbers ==
    ASSUME NEW max \in Nat, NEW last \in Nat, last < max, NEW from \in 0 .. max
    PROVE  /\ (last + 1) - from \in Int
           /\ \A k \in 1 .. ((last + 1) - from) : from + k \in 1 .. max
OBVIOUS

\* What the server reads of an intent.
LEMMA IntentFields ==
    ASSUME NEW frame \in ClientFrames, frame.op = "intent"
    PROVE  frame.on \in SUBSET Intents /\ frame.off \in SUBSET Intents
BY DEF ClientFrames

\* Queues stay queues when one of them loses its head or gains a tail.
LEMMA QueuesTyped ==
    ASSUME NEW T, NEW q \in [Sockets -> Seq(T)], NEW s \in Sockets
    PROVE  /\ q[s] # <<>> => /\ Head(q[s]) \in T
                             /\ [q EXCEPT ![s] = Tail(@)] \in [Sockets -> Seq(T)]
           /\ \A f \in Seq(T) : [q EXCEPT ![s] = @ \o f] \in [Sockets -> Seq(T)]
           /\ \A f \in Seq(T) : [q EXCEPT ![s] = f] \in [Sockets -> Seq(T)]
<1>1. q[s] # <<>> => Head(q[s]) \in T /\ Tail(q[s]) \in Seq(T)
  BY HeadTailProperties
<1>2. \A f \in Seq(T) : q[s] \o f \in Seq(T)
  BY ConcatProperties
<1>3. QED
  BY <1>1, <1>2

-----------------------------------------------------------------------------
(* Helpers of the socket owner.                                            *)

\* The part of the type that _send and _scheduleReconnect may write.
OutcomeTyped ==
    /\ status \in Statuses
    /\ heart \in Hearts
    /\ socket \in Sockets \cup {NoSocket}
    /\ reconnectDue \in BOOLEAN
    /\ wire \in [Sockets -> Transports]
    /\ toClient \in [Sockets -> Seq(ServerFrames)]

\* A close of the current socket leaves its links well-typed.
LEMMA HungUpTyped ==
    ASSUME TypeOK, NEW q \in [Sockets -> Seq(ServerFrames)]
    PROVE  /\ HungUpWire \in [Sockets -> Transports]
           /\ HungUpQueue(q) \in [Sockets -> Seq(ServerFrames)]
<1>1. HungUpWire \in [Sockets -> Transports]
  BY DEF HungUpWire, TypeOK, Transports
<1>2. ASSUME NEW s \in Sockets
      PROVE  Append(q[s], Done(FALSE)) \in Seq(ServerFrames)
  BY FramesTyped, AppendProperties
<1>3. QED
  BY <1>1, <1>2 DEF HungUpQueue

\* _scheduleReconnect, ignored or not, leaves well-typed what it writes.
LEMMA ScheduleTyped ==
    ASSUME TypeOK, NEW q \in [Sockets -> Seq(ServerFrames)],
           NEW st \in Statuses, NEW kept \in Hearts, NEW left \in Hearts,
           ScheduleReconnect(q, st, kept, left)
    PROVE  OutcomeTyped'
<1>1. CASE ReconnectIgnored
  BY <1>1 DEF ScheduleReconnect, OutcomeTyped, TypeOK, Emitted
<1>2. CASE ~ReconnectIgnored
  BY <1>2, HungUpTyped
     DEF ScheduleReconnect, OutcomeTyped, TypeOK, Emitted, Statuses
<1>3. QED
  BY <1>1, <1>2

\* _send, delivered, swallowed or thrown back, leaves well-typed what it writes.
LEMMA SendTyped ==
    ASSUME TypeOK, NEW q \in [Sockets -> Seq(ServerFrames)],
           NEW frames \in Seq(ClientFrames), NEW st \in Statuses,
           NEW kept \in Hearts, NEW left \in Hearts,
           Send(q, frames, st, kept, left)
    PROVE  OutcomeTyped' /\ toServer' \in [Sockets -> Seq(ClientFrames)]
<1>1. CASE ScheduleReconnect(q, st, kept, left) /\ UNCHANGED toServer
  BY <1>1, ScheduleTyped DEF TypeOK
<1>2. CASE /\ status' = Emitted(st) /\ heart' = kept /\ toClient' = q
           /\ toServer' = [s \in Sockets |->
                             IF s = socket /\ wire[s] = "open"
                             THEN toServer[s] \o frames ELSE toServer[s]]
           /\ UNCHANGED <<socket, reconnectDue, wire>>
  <2>1. OutcomeTyped'
    BY <1>2 DEF OutcomeTyped, TypeOK, Emitted
  <2>2. \A s \in Sockets : toServer[s] \o frames \in Seq(ClientFrames)
    BY ConcatProperties DEF TypeOK
  <2>3. QED
    BY <1>2, <2>1, <2>2 DEF TypeOK
<1>3. QED
  BY <1>1, <1>2 DEF Send

\* The opening of a session: what is sent, and what becomes of the protocol.
LEMMA OpeningTyped ==
    ASSUME TypeOK
    PROVE  /\ OpeningFrame \in ClientFrames
           /\ CanResume => ResumeFrame \in ClientFrames
           /\ Opening \/ Identify \/ Resuming =>
                /\ state' \in ProtocolStates
                /\ sequence' \in 0 .. MaxEvents \cup {NoSequence}
                /\ sessionId' \in Sessions \cup {NoSession}
<1>1. CanResume => ResumeFrame \in ClientFrames
  BY FramesTyped DEF TypeOK, CanResume, ResumeFrame
<1>2. OpeningFrame \in ClientFrames
  BY <1>1, FramesTyped DEF OpeningFrame
<1>3. QED
  BY <1>1, <1>2, BoundsAssumption
     DEF Opening, Identify, Resuming, TypeOK, ProtocolStates

-----------------------------------------------------------------------------
(* The type invariant, action by action.                                   *)

\* _open leaves well-typed what it writes.
LEMMA OpenTyped ==
    ASSUME TypeOK, NEW closed \in BOOLEAN, Open(closed)
    PROVE  dialing' \in BOOLEAN /\ status' \in Statuses
BY DEF Open, Emitted, TypeOK, Statuses

\* Initially every variable has its type.
LEMMA InitTyped == ASSUME Init PROVE TypeOK
<1>1. /\ closing \in BOOLEAN /\ disposal \in {"none", "awaiting", "done"}
      /\ dialing \in BOOLEAN /\ overtaken \in BOOLEAN /\ swallowed \in BOOLEAN
      /\ reconnectDue \in BOOLEAN
      /\ heart \in Hearts /\ status \in Statuses /\ state \in ProtocolStates
      /\ snapshot \in BOOLEAN /\ desired \in SUBSET Intents
  BY DEF Init, Hearts, Statuses, ProtocolStates
<1>2. /\ socket \in Sockets \cup {NoSocket}
      /\ sequence \in 0 .. MaxEvents \cup {NoSequence}
      /\ sessionId \in Sessions \cup {NoSession}
  BY DEF Init
<1>3. unacked \in 0 .. Tolerance
  BY ToleranceAssumption DEF Init
<1>4. /\ wire \in [Sockets -> Transports]
      /\ toClient \in [Sockets -> Seq(ServerFrames)]
      /\ held \in [Sockets -> BOOLEAN]
      /\ toServer \in [Sockets -> Seq(ClientFrames)]
      /\ owed \in [Sockets -> BOOLEAN]
  BY DEF Init, Transports
<1>5. /\ bound \in [Sockets -> Sessions \cup {NoSession}]
      /\ log \in [Sessions -> Seq(DispatchNames)]
      /\ alive \in SUBSET Sessions
      /\ known \in [Sessions -> SUBSET Intents]
      /\ credential \in BOOLEAN
      /\ delivered \in [Sessions -> Seq(1 .. MaxEvents)]
      /\ misread \in [Sessions -> SUBSET (1 .. MaxEvents)]
      /\ forgone \in [Sessions -> SUBSET (1 .. MaxEvents)]
  BY DEF Init
<1>6. faults \in 0 .. MaxFaults /\ connects \in 0 .. MaxConnects /\ toggles \in 0 .. MaxToggles
  BY BoundsAssumption DEF Init
<1>7. QED
  BY <1>1, <1>2, <1>3, <1>4, <1>5, <1>6 DEF TypeOK

\* The calls of the user keep the types.
LEMMA UserTyped == ASSUME TypeOK, User PROVE TypeOK'
<1> USE DEF driver, protocol, links, server, history, calls, bounds
<1>1. CASE Connect
  <2>1. dialing' \in BOOLEAN /\ status' \in Statuses
    BY <1>1, OpenTyped DEF Connect
  <2>2. connects' \in 0 .. MaxConnects /\ faults' \in 0 .. MaxFaults
    BY <1>1, BoundsAssumption DEF Connect, TypeOK
  <2>3. QED
    BY <1>1, <2>1, <2>2 DEF Connect, TypeOK
<1>2. CASE CloseBegin
  <2>1. toClient \in [Sockets -> Seq(ServerFrames)]
    BY DEF TypeOK
  <2>2. QED
    BY <1>2, <2>1, HungUpTyped DEF CloseBegin, TypeOK, Hearts
<1>3. CASE CloseEnd
  BY <1>3 DEF CloseEnd, TypeOK, Statuses
<1>4. ASSUME NEW i \in Intents, NEW want \in BOOLEAN, SetIntent(i, want)
      PROVE  TypeOK'
  <2>1. desired' \in SUBSET Intents /\ toggles' \in 0 .. MaxToggles
    BY <1>4, BoundsAssumption DEF SetIntent, TypeOK
  <2>2. IntentFrame(i, want) \in ClientFrames
    <3>1. i \in Rooms => {i} \in SUBSET Intents
      BY DEF Intents
    <3>2. \A now : now \cap Channels \in SUBSET Intents /\ Channels \ now \in SUBSET Intents
      BY DEF Intents
    <3>3. QED
      BY <3>1, <3>2, FramesTyped DEF IntentFrame
  <2>3. <<IntentFrame(i, want)>> \in Seq(ClientFrames)
    BY <2>2
  <2>4. OutcomeTyped' /\ toServer' \in [Sockets -> Seq(ClientFrames)]
    <3>1. Send(toClient, <<IntentFrame(i, want)>>, status, heart, "off")
      BY <1>4 DEF SetIntent
    <3>2. /\ toClient \in [Sockets -> Seq(ServerFrames)]
          /\ status \in Statuses /\ heart \in Hearts /\ "off" \in Hearts
      BY DEF TypeOK, Hearts
    <3>3. QED
      BY <2>3, <3>1, <3>2, SendTyped
  <2>5. QED
    BY <1>4, <2>1, <2>4 DEF SetIntent, OutcomeTyped, TypeOK
<1>5. QED
  BY <1>1, <1>2, <1>3, <1>4 DEF User

\* Timers and ended dials keep the types.
LEMMA TimersTyped == ASSUME TypeOK, Timers PROVE TypeOK'
<1> USE DEF driver, protocol, links, server, history, calls, bounds
<1>1. CASE ReconnectTimer
  <2>1. dialing' \in BOOLEAN /\ status' \in Statuses
    BY <1>1, OpenTyped DEF ReconnectTimer, TypeOK
  <2>2. QED
    BY <1>1, <2>1 DEF ReconnectTimer, TypeOK
<1>2. CASE HeartbeatTimer
  <2> DEFINE left == IF heart = "initial" THEN "periodic" ELSE "off"
  <2>1. "periodic" \in Hearts /\ left \in Hearts
    BY DEF Hearts
  <2>2. CASE HasExceededTolerance
    <3>1. OutcomeTyped'
      BY <1>2, <2>1, <2>2, ScheduleTyped DEF HeartbeatTimer, TypeOK
    <3>2. QED
      BY SMTT(20), <1>2, <2>2, <3>1, BoundsAssumption
         DEF HeartbeatTimer, OutcomeTyped, TypeOK, ProtocolStates
  <2>3. CASE ~HasExceededTolerance
    <3>1. OutcomeTyped' /\ toServer' \in [Sockets -> Seq(ClientFrames)]
      <4>1. Send(toClient, <<>>, status, "periodic", left)
        BY <1>2, <2>3 DEF HeartbeatTimer
      <4>2. <<>> \in Seq(ClientFrames)
        OBVIOUS
      <4>3. toClient \in [Sockets -> Seq(ServerFrames)] /\ status \in Statuses
        BY DEF TypeOK
      <4>4. QED
        BY <2>1, <4>1, <4>2, <4>3, SendTyped
    <3>2. unacked' \in 0 .. Tolerance
      BY <1>2, <2>3, ToleranceAssumption
         DEF HeartbeatTimer, HasExceededTolerance, TypeOK
    <3>3. owed' \in [Sockets -> BOOLEAN]
      BY <1>2, <2>3 DEF HeartbeatTimer, TypeOK
    <3>4. QED
      BY <1>2, <2>3, <3>1, <3>2, <3>3 DEF HeartbeatTimer, OutcomeTyped, TypeOK
  <2>4. QED
    BY <2>2, <2>3
<1>3. CASE DialSucceeds
  <2>1. CASE closing
    BY <1>3, <2>1 DEF DialSucceeds, TypeOK
  <2>2. CASE ~closing
    <3>1. <<Op("hello")>> \in Seq(ServerFrames)
      BY FramesTyped
    <3>2. PICK s \in Sockets :
            /\ socket' = s
            /\ wire' = [wire EXCEPT ![s] = "open"]
            /\ toClient' = [toClient EXCEPT ![s] = <<Op("hello")>>]
            /\ held' = [held EXCEPT ![s] = FALSE]
            /\ toServer' = [toServer EXCEPT ![s] = <<>>]
            /\ owed' = [owed EXCEPT ![s] = FALSE]
            /\ bound' = [bound EXCEPT ![s] = NoSession]
      BY <1>3, <2>2 DEF DialSucceeds
    <3>3. /\ socket' \in Sockets
          /\ wire' \in [Sockets -> Transports]
          /\ toClient' \in [Sockets -> Seq(ServerFrames)]
          /\ toServer' \in [Sockets -> Seq(ClientFrames)]
          /\ held' \in [Sockets -> BOOLEAN] /\ owed' \in [Sockets -> BOOLEAN]
          /\ bound' \in [Sockets -> Sessions \cup {NoSession}]
      BY <3>1, <3>2 DEF TypeOK, Transports
    <3>4. QED
      BY <1>3, <3>3 DEF DialSucceeds, TypeOK
  <2>3. QED
    BY <2>1, <2>2
<1>4. CASE DialFails
  <2>1. OutcomeTyped'
    BY <1>4, ScheduleTyped DEF DialFails, TypeOK, Hearts
  <2>2. QED
    <3>1. faults' \in 0 .. MaxFaults
      BY <1>4, BoundsAssumption DEF DialFails, TypeOK
    <3>2. dialing' \in BOOLEAN
      BY <1>4 DEF DialFails
    <3>3. QED
      BY <1>4, <2>1, <3>1, <3>2 DEF DialFails, OutcomeTyped, TypeOK
<1>5. CASE OvertakenCloses
  BY <1>5 DEF OvertakenCloses, TypeOK
<1>6. QED
  BY <1>1, <1>2, <1>3, <1>4, <1>5 DEF Timers

\* What a step takes from a queue is a frame, and the rest is a queue still.
LEMMA TakenTyped ==
    ASSUME TypeOK, NEW s \in Sockets
    PROVE  /\ Waiting(s) => /\ Next1(s) \in ServerFrames
                            /\ Popped(s) \in [Sockets -> Seq(ServerFrames)]
           /\ Unheld(s) \in [Sockets -> BOOLEAN]
<1>1. toClient \in [Sockets -> Seq(ServerFrames)] /\ held \in [Sockets -> BOOLEAN]
  BY DEF TypeOK
<1>2. Waiting(s) => /\ Next1(s) \in ServerFrames
                    /\ Popped(s) \in [Sockets -> Seq(ServerFrames)]
  BY <1>1, QueuesTyped DEF Waiting, Next1, Popped
<1>3. Unheld(s) \in [Sockets -> BOOLEAN]
  BY <1>1 DEF Unheld
<1>4. QED
  BY <1>2, <1>3

\* A step of a socket's queue keeps the types.
LEMMA SocketStepTyped == ASSUME TypeOK, NEW s \in Sockets, SocketStep(s) PROVE TypeOK'
<1> USE DEF driver, protocol, links, server, history, calls, bounds
<1>h. status \in Statuses /\ heart \in Hearts /\ "off" \in Hearts /\ "initial" \in Hearts
  BY DEF TypeOK, Hearts
<1>u. Unheld(s) \in [Sockets -> BOOLEAN]
  BY TakenTyped
<1>1. CASE SkipStaleFrame(s)
  <2>1. Popped(s) \in [Sockets -> Seq(ServerFrames)]
    BY <1>1, TakenTyped DEF SkipStaleFrame
  <2>2. QED
    BY SMTT(20), <1>1, <1>u, <2>1 DEF SkipStaleFrame, TypeOK
<1>2. CASE HoldLargeFrame(s)
  BY <1>2 DEF HoldLargeFrame, TypeOK
<1>3. CASE AcceptHello(s)
  <2>1. Popped(s) \in [Sockets -> Seq(ServerFrames)]
    BY <1>3, TakenTyped DEF AcceptHello, Takes
  <2>2. <<OpeningFrame>> \in Seq(ClientFrames)
    BY OpeningTyped
  <2>3. OutcomeTyped' /\ toServer' \in [Sockets -> Seq(ClientFrames)]
    <3>1. Send(Popped(s), <<OpeningFrame>>, status, "initial", "off")
      BY <1>3 DEF AcceptHello
    <3>2. QED
      BY <1>h, <2>1, <2>2, <3>1, SendTyped
  <2>4. /\ state' \in ProtocolStates
        /\ sequence' \in 0 .. MaxEvents \cup {NoSequence}
        /\ sessionId' \in Sessions \cup {NoSession}
    BY <1>3, OpeningTyped DEF AcceptHello
  <2>5. unacked' \in 0 .. Tolerance
    BY <1>3, ToleranceAssumption DEF AcceptHello
  <2>6. QED
    BY <1>3, <1>u, <2>3, <2>4, <2>5 DEF AcceptHello, Takes, OutcomeTyped, TypeOK
<1>4. CASE AcceptAck(s)
  <2>1. unacked' \in 0 .. Tolerance
    BY <1>4, ToleranceAssumption DEF AcceptAck
  <2>2. QED
    BY SMTT(20), <1>4, <2>1 DEF AcceptAck, TypeOK
<1>5. CASE AcceptHeartbeatRequest(s)
  <2>1. Popped(s) \in [Sockets -> Seq(ServerFrames)]
    BY <1>5, TakenTyped DEF AcceptHeartbeatRequest, Takes
  <2>2. <<>> \in Seq(ClientFrames)
    OBVIOUS
  <2>3. OutcomeTyped' /\ toServer' \in [Sockets -> Seq(ClientFrames)]
    <3>1. Send(Popped(s), <<>>, status, heart, "off")
      BY <1>5 DEF AcceptHeartbeatRequest
    <3>2. QED
      BY <1>h, <2>1, <2>2, <3>1, SendTyped
  <2>4. QED
    BY <1>5, <1>u, <2>3 DEF AcceptHeartbeatRequest, Takes, OutcomeTyped, TypeOK
<1>6. CASE AcceptReconnect(s)
  <2>1. Popped(s) \in [Sockets -> Seq(ServerFrames)]
    BY <1>6, TakenTyped DEF AcceptReconnect, Takes
  <2>2. OutcomeTyped'
    BY <1>6, <1>h, <2>1, ScheduleTyped DEF AcceptReconnect
  <2>3. QED
    BY <1>6, <1>u, <2>2
       DEF AcceptReconnect, Takes, OutcomeTyped, TypeOK, ProtocolStates
<1>7. CASE AcceptInvalidSession(s)
  <2>1. Popped(s) \in [Sockets -> Seq(ServerFrames)]
    BY <1>7, TakenTyped DEF AcceptInvalidSession, Takes
  <2>2. CASE ResumesAgain(s)
    <3>1. <<ResumeFrame>> \in Seq(ClientFrames)
      BY <2>2, OpeningTyped DEF ResumesAgain
    <3>2. Resuming /\ Send(Popped(s), <<ResumeFrame>>, status, heart, "off")
      BY <1>7, <2>2 DEF AcceptInvalidSession
    <3>3. OutcomeTyped' /\ toServer' \in [Sockets -> Seq(ClientFrames)]
      BY <1>h, <2>1, <3>1, <3>2, SendTyped
    <3>4. QED
      BY <1>7, <1>u, <3>2, <3>3, OpeningTyped
         DEF AcceptInvalidSession, Takes, OutcomeTyped, TypeOK
  <2>3. CASE ~ResumesAgain(s)
    <3>1. <<Op("identify")>> \in Seq(ClientFrames)
      BY FramesTyped
    <3>2. Identify /\ Send(Popped(s), <<Op("identify")>>, status, heart, "off")
      BY <1>7, <2>3 DEF AcceptInvalidSession
    <3>3. OutcomeTyped' /\ toServer' \in [Sockets -> Seq(ClientFrames)]
      BY <1>h, <2>1, <3>1, <3>2, SendTyped
    <3>4. QED
      BY <1>7, <1>u, <3>2, <3>3, OpeningTyped
         DEF AcceptInvalidSession, Takes, OutcomeTyped, TypeOK
  <2>4. QED
    BY <2>2, <2>3
<1>8. CASE AcceptDispatch(s)
  <2> DEFINE frame == Next1(s)
             name  == log[frame.session][frame.n]
  <2>1. Popped(s) \in [Sockets -> Seq(ServerFrames)]
    BY <1>8, TakenTyped DEF AcceptDispatch, Takes
  <2>2. frame.session \in Sessions /\ frame.n \in 1 .. MaxEvents
    BY <1>8, TakenTyped, DispatchFields DEF AcceptDispatch, Takes
  <2>3. sequence' \in 0 .. MaxEvents \cup {NoSequence}
    BY <1>8, <2>2, BoundsAssumption DEF AcceptDispatch
  <2>4. delivered' \in [Sessions -> Seq(1 .. MaxEvents)]
    <3>1. Append(delivered[frame.session], frame.n) \in Seq(1 .. MaxEvents)
      BY <2>2, AppendProperties DEF TypeOK
    <3>2. QED
      BY <1>8, <2>2, <3>1 DEF AcceptDispatch, TypeOK
  <2>5. /\ state' \in ProtocolStates /\ sessionId' \in Sessions \cup {NoSession}
        /\ snapshot' \in BOOLEAN
    BY <1>8, <2>2 DEF AcceptDispatch, TypeOK, ProtocolStates
  <2>6. OutcomeTyped' /\ toServer' \in [Sockets -> Seq(ClientFrames)]
    <3>1. CASE name = "READY"
      <4>1. <<ReplayFrame>> \in Seq(ClientFrames)
        <5>1. desired \in SUBSET Intents /\ Channels \ desired \in SUBSET Intents
          BY DEF TypeOK, Intents
        <5>2. ReplayFrame \in ClientFrames
          BY <5>1, FramesTyped DEF ReplayFrame
        <5>3. QED
          BY <5>2
      <4>2. Send(Popped(s), <<ReplayFrame>>, "connected", heart, "off")
        BY <1>8, <3>1 DEF AcceptDispatch
      <4>3. "connected" \in Statuses
        BY DEF Statuses
      <4>4. QED
        BY <1>h, <2>1, <4>1, <4>2, <4>3, SendTyped
    <3>2. CASE name = "RESUMED"
      BY <1>8, <2>1, <3>2
         DEF AcceptDispatch, OutcomeTyped, Emitted, TypeOK, Statuses
    <3>3. CASE name = "EVENT"
      BY <1>8, <2>1, <3>3 DEF AcceptDispatch, OutcomeTyped, NothingSent, TypeOK
    <3>4. QED
      BY <1>8, <3>1, <3>2, <3>3 DEF AcceptDispatch
  <2>7. QED
    BY <1>8, <1>u, <2>3, <2>4, <2>5, <2>6
       DEF AcceptDispatch, Takes, OutcomeTyped, TypeOK
<1>9. CASE LoseFrame(s)
  <2>1. Popped(s) \in [Sockets -> Seq(ServerFrames)]
    BY <1>9, TakenTyped DEF LoseFrame
  <2>2. OutcomeTyped'
    BY <1>9, <1>h, <2>1, ScheduleTyped DEF LoseFrame
  <2>3. forgone' \in [Sessions -> SUBSET (1 .. MaxEvents)]
    <3>1. Next1(s).op = "dispatch" =>
            Next1(s).session \in Sessions /\ Next1(s).n \in 1 .. MaxEvents
      BY <1>9, TakenTyped, DispatchFields DEF LoseFrame
    <3>2. QED
      BY <1>9, <3>1 DEF LoseFrame, TypeOK
  <2>4. faults' \in 0 .. MaxFaults
    BY <1>9, BoundsAssumption DEF LoseFrame, TypeOK
  <2>5. QED
    BY <1>9, <1>u, <2>2, <2>3, <2>4 DEF LoseFrame, OutcomeTyped, TypeOK
<1>10. CASE MisreadFrame(s)
  <2>1. Popped(s) \in [Sockets -> Seq(ServerFrames)]
    BY <1>10, TakenTyped DEF MisreadFrame
  <2>2. /\ state' \in ProtocolStates
        /\ sequence' \in 0 .. MaxEvents \cup {NoSequence}
        /\ sessionId' \in Sessions \cup {NoSession}
        /\ misread' \in [Sessions -> SUBSET (1 .. MaxEvents)]
    <3>1. CASE Next1(s).op = "dispatch"
      <4>1. Next1(s).session \in Sessions /\ Next1(s).n \in 1 .. MaxEvents
        BY <1>10, <3>1, TakenTyped, DispatchFields DEF MisreadFrame
      <4>2. sequence' \in {sequence, Next1(s).n}
        BY <1>10, <3>1 DEF MisreadFrame
      <4>3. misread' = [misread EXCEPT ![Next1(s).session] = @ \cup {Next1(s).n}]
        BY <1>10, <3>1 DEF MisreadFrame
      <4>4. sequence' \in 0 .. MaxEvents \cup {NoSequence}
        BY <4>1, <4>2, BoundsAssumption DEF TypeOK
      <4>5. misread' \in [Sessions -> SUBSET (1 .. MaxEvents)]
        BY <4>1, <4>3 DEF TypeOK
      <4>6. state' \in ProtocolStates /\ sessionId' \in Sessions \cup {NoSession}
        BY <1>10, <3>1, <4>1 DEF MisreadFrame, TypeOK, ProtocolStates
      <4>7. QED
        BY <4>4, <4>5, <4>6
    <3>2. CASE Next1(s).op # "dispatch"
      BY <1>10, <3>2 DEF MisreadFrame, TypeOK
    <3>3. QED
      BY <3>1, <3>2
  <2>3. faults' \in 0 .. MaxFaults
    BY <1>10, BoundsAssumption DEF MisreadFrame, TypeOK
  <2>4. QED
    BY <1>10, <1>u, <2>1, <2>2, <2>3 DEF MisreadFrame, NothingSent, TypeOK
<1>11. CASE AcceptDone(s)
  <2>1. Popped(s) \in [Sockets -> Seq(ServerFrames)]
    BY <1>11, TakenTyped DEF AcceptDone, Takes
  <2>2. OutcomeTyped'
    <3>1. CASE Next1(s).rejected
      BY <1>11, <2>1, <3>1
         DEF AcceptDone, OutcomeTyped, Emitted, TypeOK, Statuses
    <3>2. CASE ~Next1(s).rejected
      BY <1>11, <1>h, <2>1, <3>2, ScheduleTyped DEF AcceptDone
    <3>3. QED
      BY <3>1, <3>2
  <2>3. QED
    BY <1>11, <1>u, <2>2 DEF AcceptDone, Takes, OutcomeTyped, TypeOK
<1>12. QED
  BY <1>1, <1>2, <1>3, <1>4, <1>5, <1>6, <1>7, <1>8, <1>9, <1>10, <1>11
     DEF SocketStep, TakeFrame

\* The server and the network keep the types.
LEMMA ExternalTyped == ASSUME TypeOK, External PROVE TypeOK'
<1> USE DEF driver, protocol, links, server, history, calls, bounds
<1>f. Fault => faults' \in 0 .. MaxFaults
  BY BoundsAssumption DEF Fault, TypeOK
<1>q. /\ toClient \in [Sockets -> Seq(ServerFrames)]
      /\ toServer \in [Sockets -> Seq(ClientFrames)]
  BY DEF TypeOK
<1>a. ASSUME NEW s \in Sockets, NEW frames \in Seq(ServerFrames)
      PROVE  Answered(s, frames) \in [Sockets -> Seq(ServerFrames)]
  BY <1>q, QueuesTyped DEF Answered
<1>r. ASSUME NEW s \in Sockets, NEW op, Reads(s, op)
      PROVE  /\ Head(toServer[s]) \in ClientFrames /\ Head(toServer[s]).op = op
             /\ Read(s) \in [Sockets -> Seq(ClientFrames)]
  BY <1>q, <1>r, QueuesTyped DEF Reads, Read
<1>1. ASSUME NEW s \in Sockets, ServerIdentifies(s) PROVE TypeOK'
  <2>1. Read(s) \in [Sockets -> Seq(ClientFrames)]
    BY <1>1, <1>r DEF ServerIdentifies
  <2>0. /\ toServer' = Read(s)
        /\ UNCHANGED <<driver, protocol, snapshot, desired, held, owed, known,
                       credential, history, bounds>>
    BY <1>1 DEF ServerIdentifies
  <2>2. CASE credential
    <3>1. PICK n \in Sessions :
            /\ log' = [log EXCEPT ![n] = <<"READY">>]
            /\ bound' = [bound EXCEPT ![s] = n]
            /\ alive' = alive \cup {n}
            /\ toClient' = Answered(s, <<Dispatch(n, 1)>>)
            /\ UNCHANGED wire
      BY <1>1, <2>2 DEF ServerIdentifies
    <3>2. <<Dispatch(n, 1)>> \in Seq(ServerFrames)
      BY FramesTyped, BoundsAssumption
    <3>3. toClient' \in [Sockets -> Seq(ServerFrames)]
      BY <1>a, <3>1, <3>2
    <3>4. /\ log' \in [Sessions -> Seq(DispatchNames)]
          /\ bound' \in [Sockets -> Sessions \cup {NoSession}]
          /\ alive' \in SUBSET Sessions
      BY <3>1 DEF TypeOK, DispatchNames
    <3>5. QED
      BY ZenonT(60), <2>0, <2>1, <3>1, <3>3, <3>4 DEF TypeOK
  <2>3. CASE ~credential
    <3>1. <<Done(TRUE)>> \in Seq(ServerFrames)
      BY SingleFramesTyped
    <3>2. toClient' \in [Sockets -> Seq(ServerFrames)]
      BY <1>1, <1>a, <2>3, <3>1 DEF ServerIdentifies
    <3>3. wire' \in [Sockets -> Transports]
      BY <1>1, <2>3 DEF ServerIdentifies, TypeOK, Transports
    <3>4. /\ log' \in [Sessions -> Seq(DispatchNames)]
          /\ bound' \in [Sockets -> Sessions \cup {NoSession}]
          /\ alive' \in SUBSET Sessions
      BY <1>1, <2>3 DEF ServerIdentifies, TypeOK
    <3>5. toServer' \in [Sockets -> Seq(ClientFrames)]
      BY <2>0, <2>1
    <3>6. QED
      BY ZenonT(60), <2>0, <3>2, <3>3, <3>4, <3>5 DEF TypeOK
  <2>4. QED
    BY <2>2, <2>3
<1>2. ASSUME NEW s \in Sockets, ServerResumes(s) PROVE TypeOK'
  <2> DEFINE n == Head(toServer[s]).session
             from == Head(toServer[s]).n
             resumed == Append(log[n], "RESUMED")
             replay == [k \in 1 .. (Len(resumed) - from) |-> Dispatch(n, from + k)]
  <2>1. Read(s) \in [Sockets -> Seq(ClientFrames)]
    BY <1>2, <1>r DEF ServerResumes
  <2>0. /\ toServer' = Read(s)
        /\ UNCHANGED <<driver, protocol, snapshot, desired, held, owed, alive,
                       known, credential, history, bounds>>
    BY <1>2 DEF ServerResumes
  <2>2. n \in Sessions /\ from \in 0 .. MaxEvents
    BY <1>2, <1>r, ResumeFields DEF ServerResumes
  <2>3. CASE ~credential /\ toClient' = Answered(s, <<Done(TRUE)>>)
             /\ wire' = [wire EXCEPT ![s] = "ended"] /\ UNCHANGED <<log, bound>>
    <3>1. <<Done(TRUE)>> \in Seq(ServerFrames)
      BY SingleFramesTyped
    <3>2. toClient' \in [Sockets -> Seq(ServerFrames)]
      BY <1>a, <2>3, <3>1
    <3>3. wire' \in [Sockets -> Transports]
      BY <2>3 DEF TypeOK, Transports
    <3>4. /\ log' \in [Sessions -> Seq(DispatchNames)]
          /\ bound' \in [Sockets -> Sessions \cup {NoSession}]
      BY <2>3 DEF TypeOK
    <3>5. toServer' \in [Sockets -> Seq(ClientFrames)]
      BY <2>0, <2>1
    <3>6. QED
      BY ZenonT(60), <2>0, <3>2, <3>3, <3>4, <3>5 DEF TypeOK
  <2>4. CASE /\ credential /\ n \in alive /\ Len(log[n]) < MaxEvents
             /\ log' = [log EXCEPT ![n] = resumed]
             /\ bound' = [t \in Sockets |->
                            IF t = s THEN n
                            ELSE IF bound[t] = n THEN NoSession ELSE bound[t]]
             /\ toClient' = Answered(s, replay)
             /\ UNCHANGED wire
    <3>1. resumed \in Seq(DispatchNames) /\ Len(resumed) = Len(log[n]) + 1
      BY <2>2, AppendProperties DEF TypeOK, DispatchNames
    <3>2. Len(log[n]) \in Nat /\ Len(log[n]) < MaxEvents
      BY <2>2, <2>4, LenProperties DEF TypeOK
    <3>3. /\ Len(resumed) - from \in Int
          /\ \A k \in 1 .. (Len(resumed) - from) : from + k \in 1 .. MaxEvents
      BY <2>2, <3>1, <3>2, ReplayNumbers, BoundsAssumption
    <3>4. \A k \in 1 .. (Len(resumed) - from) : Dispatch(n, from + k) \in ServerFrames
      BY <2>2, <3>3, FramesTyped
    <3>5. replay \in Seq(ServerFrames)
      <4>1. CASE Len(resumed) - from \in Nat
        <5>1. replay \in [1 .. (Len(resumed) - from) -> ServerFrames]
          BY <3>4
        <5>2. QED
          BY <4>1, <5>1, SeqDef
      <4>2. CASE Len(resumed) - from \notin Nat
        <5>1. 1 .. (Len(resumed) - from) = {}
          BY <3>3, <4>2
        <5>2. replay = <<>>
          BY <5>1
        <5>3. QED
          BY <5>2, EmptySeq
      <4>3. QED
        BY <4>1, <4>2
    <3>6. toClient' \in [Sockets -> Seq(ServerFrames)]
      BY <1>a, <2>4, <3>5
    <3>7. /\ log' \in [Sessions -> Seq(DispatchNames)]
          /\ bound' \in [Sockets -> Sessions \cup {NoSession}]
      BY <2>2, <2>4, <3>1 DEF TypeOK
    <3>8. QED
      BY ZenonT(60), <2>0, <2>1, <2>4, <3>6, <3>7 DEF TypeOK
  <2>5. CASE /\ toClient' = Answered(s, <<InvalidSession(FALSE)>>)
             /\ UNCHANGED <<log, bound, wire>>
    <3>1. <<InvalidSession(FALSE)>> \in Seq(ServerFrames)
      BY SingleFramesTyped
    <3>2. toClient' \in [Sockets -> Seq(ServerFrames)]
      BY <1>a, <2>5, <3>1
    <3>3. QED
      BY ZenonT(60), <2>0, <2>1, <2>5, <3>2 DEF TypeOK
  <2>6. QED
    BY <1>2, <2>3, <2>4, <2>5 DEF ServerResumes
<1>3. ASSUME NEW s \in Sockets, ServerReadsIntent(s) PROVE TypeOK'
  <2>1. Read(s) \in [Sockets -> Seq(ClientFrames)]
    BY <1>3, <1>r DEF ServerReadsIntent
  <2>2. Head(toServer[s]).on \in SUBSET Intents
    BY <1>3, <1>r, IntentFields DEF ServerReadsIntent
  <2>3. known' \in [Sessions -> SUBSET Intents]
    BY <1>3, <2>2 DEF ServerReadsIntent, TypeOK
  <2>4. QED
    BY SMTT(20), <1>3, <2>1, <2>3 DEF ServerReadsIntent, TypeOK
<1>4. ASSUME NEW s \in Sockets, ServerAsks(s) PROVE TypeOK'
  <2>1. PICK frame \in {Op("heartbeat"), Op("reconnect")}
                       \cup [op : {"invalid"}, resumable : BOOLEAN] :
          /\ toClient' = Answered(s, <<frame>>)
          /\ bound' = IF frame.op = "invalid"
                      THEN [bound EXCEPT ![s] = NoSession] ELSE bound
          /\ alive' = IF frame = InvalidSession(FALSE)
                      THEN alive \ {bound[s]} ELSE alive
    BY <1>4 DEF ServerAsks
  <2>2. frame \in ServerFrames
    BY FramesTyped DEF ServerFrames
  <2>3. <<frame>> \in Seq(ServerFrames)
    BY <2>2
  <2>4. toClient' \in [Sockets -> Seq(ServerFrames)]
    BY <1>a, <2>1, <2>3
  <2>5. /\ bound' \in [Sockets -> Sessions \cup {NoSession}]
        /\ alive' \in SUBSET Sessions
    BY <2>1 DEF TypeOK
  <2>6. QED
    BY ZenonT(30), <1>4, <1>f, <2>4, <2>5 DEF ServerAsks, TypeOK
<1>5. ASSUME NEW s \in Sockets, EndLink(s), faults' \in 0 .. MaxFaults PROVE TypeOK'
  <2>1. <<Done(FALSE)>> \in Seq(ServerFrames) /\ <<>> \in Seq(ClientFrames)
    BY SingleFramesTyped
  <2>2. toClient' \in [Sockets -> Seq(ServerFrames)]
    BY <1>5, <1>a, <2>1 DEF EndLink
  <2>3. toServer' \in [Sockets -> Seq(ClientFrames)]
    BY <1>5, <1>q, <2>1 DEF EndLink
  <2>4. QED
    BY ZenonT(30), <1>5, <2>2, <2>3 DEF EndLink, TypeOK, Transports
<1>6. ASSUME NEW s \in Sockets, ServerCloses(s) \/ ServerDropsIdle(s) \/ BrokenLinkEnds(s)
      PROVE  TypeOK'
  BY <1>5, <1>6, <1>f DEF ServerCloses, ServerDropsIdle, BrokenLinkEnds, TypeOK
<1>7. ASSUME NEW s \in Sockets, LinkBreaks(s) PROVE TypeOK'
  <2>1. PICK k \in (IF held[s] THEN 1 ELSE 0) .. Len(toClient[s]) :
          toClient' = [toClient EXCEPT ![s] = SubSeq(@, 1, k)]
    BY <1>7 DEF LinkBreaks
  <2>2. SubSeq(toClient[s], 1, k) \in Seq(ServerFrames)
    <3>1. k \in Int /\ k <= Len(toClient[s])
      BY <1>q, LenProperties
    <3>2. \A i \in 1 .. k : toClient[s][i] \in ServerFrames
      BY <1>q, <3>1, ElementOfSeq, LenProperties
    <3>3. QED
      BY <3>1, <3>2, SubSeqProperties
  <2>3. toClient' \in [Sockets -> Seq(ServerFrames)]
    BY <1>q, <2>1, <2>2
  <2>4. /\ toServer' \in [Sockets -> Seq(ClientFrames)]
        /\ wire' \in [Sockets -> Transports] /\ owed' \in [Sockets -> BOOLEAN]
    BY <1>7 DEF LinkBreaks, TypeOK, Transports
  <2>5. QED
    BY <1>7, <1>f, <2>3, <2>4 DEF LinkBreaks, TypeOK
<1>8. ASSUME NEW n \in Sessions, ServerDispatches(n) PROVE TypeOK'
  <2>1. Len(log[n]) + 1 \in 1 .. MaxEvents
    <3>1. Len(log[n]) \in Nat
      BY LenProperties DEF TypeOK
    <3>2. QED
      BY <1>8, <3>1, BoundsAssumption DEF ServerDispatches
  <2>2. \A s \in Sockets :
          Append(toClient[s], Dispatch(n, Len(log[n]) + 1)) \in Seq(ServerFrames)
    BY <1>q, <2>1, FramesTyped, AppendProperties
  <2>3. toClient' \in [Sockets -> Seq(ServerFrames)]
    BY <1>8, <1>q, <2>2 DEF ServerDispatches
  <2>4. log' \in [Sessions -> Seq(DispatchNames)]
    BY <1>8, AppendProperties DEF ServerDispatches, TypeOK, DispatchNames
  <2>5. QED
    BY <1>8, <2>3, <2>4 DEF ServerDispatches, TypeOK
<1>9. ASSUME NEW n \in Sessions, SessionExpires(n) PROVE TypeOK'
  BY SMTT(20), <1>9, <1>f DEF SessionExpires, TypeOK
<1>10. CASE CredentialIsRevoked
  BY ZenonT(30), <1>10, <1>f DEF CredentialIsRevoked, TypeOK
<1>11. QED
  BY <1>1, <1>2, <1>3, <1>4, <1>6, <1>7, <1>8, <1>9, <1>10
     DEF External, ServerReads

\* Every reachable state is well-typed: counters stay within their bounds, no
\* more heartbeats than the tolerance go unanswered, and no frame names a
\* session or a number that does not exist.
THEOREM TypeCorrect == Spec => []TypeOK
<1>1. Init => TypeOK
  BY InitTyped
<1>2. TypeOK /\ [Next]_vars => TypeOK'
  <2>1. SUFFICES ASSUME TypeOK, [Next]_vars PROVE TypeOK'
    OBVIOUS
  <2>2. CASE Next
    BY <2>1, <2>2, UserTyped, TimersTyped, SocketStepTyped, ExternalTyped DEF Next
  <2>3. CASE UNCHANGED vars
    BY <2>1, <2>3
       DEF vars, driver, protocol, links, server, history, calls, bounds, TypeOK
  <2>4. QED
    BY <2>1, <2>2, <2>3
<1>3. QED
  BY <1>1, <1>2, PTL DEF Spec

-----------------------------------------------------------------------------
(* close() is final for everything that was in flight.                     *)

\* A step of the current socket cannot be one of a closing client.
LEMMA CurrentSocketIsOpen ==
    ASSUME QuietAfterClose, NEW s \in Sockets, IsCurrent(s)
    PROVE  ~closing
BY SocketsExist DEF QuietAfterClose, IsCurrent

\* No action lets go of what close() settled, except a new connect().
LEMMA QuietStep ==
    ASSUME TypeOK, QuietAfterClose, [Next]_vars
    PROVE  QuietAfterClose'
<1> USE DEF driver, protocol, links, server, history, calls, bounds
<1>1. CASE Connect
  BY <1>1 DEF Connect, QuietAfterClose
<1>2. ASSUME NEW i \in Intents, NEW want \in BOOLEAN, SetIntent(i, want)
      PROVE  QuietAfterClose'
  <2>1. CASE closing
    <3>1. ~IsOpen
      BY <2>1 DEF QuietAfterClose, IsOpen
    <3>2. QED
      BY <1>2, <3>1 DEF SetIntent, Send, QuietAfterClose
  <2>2. CASE ~closing
    BY <1>2, <2>2 DEF SetIntent, QuietAfterClose
  <2>3. QED
    BY <2>1, <2>2 DEF TypeOK
<1>3. CASE CloseBegin \/ CloseEnd
  BY <1>3 DEF CloseBegin, CloseEnd, QuietAfterClose
<1>4. CASE ReconnectTimer
  BY <1>4 DEF ReconnectTimer, QuietAfterClose
<1>5. CASE HeartbeatTimer
  <2>1. ~closing /\ closing' = closing
    BY <1>5 DEF HeartbeatTimer, QuietAfterClose
  <2>2. QED
    BY <2>1 DEF QuietAfterClose
<1>6. CASE DialSucceeds \/ OvertakenCloses
  BY <1>6 DEF DialSucceeds, OvertakenCloses, QuietAfterClose
<1>7. CASE DialFails
  BY <1>7 DEF DialFails, ScheduleReconnect, ReconnectIgnored, QuietAfterClose
<1>8. ASSUME NEW s \in Sockets, SocketStep(s) PROVE QuietAfterClose'
  <2>1. CASE SkipStaleFrame(s)
    BY <2>1 DEF SkipStaleFrame, QuietAfterClose
  <2>2. CASE ~SkipStaleFrame(s)
    <3>1. IsCurrent(s) /\ closing' = closing
      BY <1>8, <2>2
         DEF SocketStep, TakeFrame, Takes, HoldLargeFrame, AcceptHello, AcceptAck,
             AcceptHeartbeatRequest, AcceptReconnect, AcceptInvalidSession,
             AcceptDispatch, LoseFrame, MisreadFrame, AcceptDone
    <3>2. QED
      BY <3>1, CurrentSocketIsOpen DEF QuietAfterClose
  <2>3. QED
    BY <2>1, <2>2
<1>9. CASE External
  <2>1. ASSUME NEW s \in Sockets, ServerReads(s) PROVE QuietAfterClose'
    BY <2>1 DEF ServerReads, ServerIdentifies, ServerResumes,
                ServerReadsIntent, QuietAfterClose
  <2>2. ASSUME NEW s \in Sockets,
               \/ ServerAsks(s) \/ ServerCloses(s) \/ ServerDropsIdle(s)
               \/ LinkBreaks(s) \/ BrokenLinkEnds(s)
        PROVE  QuietAfterClose'
    BY <2>2 DEF ServerAsks, EndLink, ServerCloses, ServerDropsIdle,
                LinkBreaks, BrokenLinkEnds, QuietAfterClose
  <2>3. ASSUME NEW n \in Sessions, ServerDispatches(n) \/ SessionExpires(n)
        PROVE  QuietAfterClose'
    BY <2>3 DEF ServerDispatches, SessionExpires, QuietAfterClose
  <2>4. CASE CredentialIsRevoked
    BY <2>4 DEF CredentialIsRevoked, QuietAfterClose
  <2>5. QED
    BY <1>9, <2>1, <2>2, <2>3, <2>4 DEF External
<1>10. CASE UNCHANGED vars
  BY <1>10 DEF vars, QuietAfterClose
<1>11. QED
  BY <1>1, <1>2, <1>3, <1>4, <1>5, <1>6, <1>7, <1>8, <1>9, <1>10
     DEF Next, User, Timers

\* Once close() has run, no dial, timer, worker or frame that was in flight
\* brings a socket or a timer back: only a new connect() does.
THEOREM ClosedStaysQuiet == Spec => []QuietAfterClose
<1>1. Init => QuietAfterClose
  BY DEF Init, QuietAfterClose
<1>2. TypeOK /\ QuietAfterClose /\ [Next]_vars => QuietAfterClose'
  BY QuietStep
<1>3. QED
  BY <1>1, <1>2, TypeCorrect, PTL DEF Spec

-----------------------------------------------------------------------------
(* The status stream and the socket.                                       *)

\* A reconnect either is ignored, and keeps the socket, or is announced.
LEMMA ScheduleIsAnnounced ==
    ASSUME TypeOK, disposal = "none", NEW q, NEW st, NEW kept, NEW left,
           ScheduleReconnect(q, st, kept, left)
    PROVE  \/ status' = st /\ socket' = socket
           \/ status' = "reconnecting"
BY DEF ScheduleReconnect, Emitted

\* So does a send.
LEMMA SendIsAnnounced ==
    ASSUME TypeOK, disposal = "none", NEW q, NEW frames, NEW st, NEW kept, NEW left,
           Send(q, frames, st, kept, left)
    PROVE  \/ status' = st /\ socket' = socket
           \/ status' = "reconnecting"
BY ScheduleIsAnnounced DEF Send, Emitted

\* No action announces a connection without one, nor drops one in silence.
LEMMA AttachedStep ==
    ASSUME TypeOK, ConnectedMeansAttached, [Next]_vars
    PROVE  ConnectedMeansAttached'
<1> SUFFICES ASSUME status' = "connected", disposal' = "none"
             PROVE  socket' # NoSocket
  BY DEF ConnectedMeansAttached
<1> USE DEF driver, protocol, links, server, history, calls, bounds
<1>1. CASE Connect
  BY <1>1 DEF Connect, Open, Emitted, ConnectedMeansAttached
<1>2. ASSUME NEW i \in Intents, NEW want \in BOOLEAN, SetIntent(i, want)
      PROVE  socket' # NoSocket
  BY <1>2, SendIsAnnounced DEF SetIntent, ConnectedMeansAttached
<1>3. CASE CloseBegin \/ CloseEnd
  BY <1>3 DEF CloseBegin, CloseEnd
<1>4. CASE ReconnectTimer
  BY <1>4 DEF ReconnectTimer, Open, Emitted, ConnectedMeansAttached
<1>5. CASE HeartbeatTimer
  <2>1. disposal = "none"
    BY <1>5 DEF HeartbeatTimer
  <2>2. status = "connected" /\ socket' = socket
    <3>1. CASE HasExceededTolerance
      BY <1>5, <2>1, <3>1, ScheduleIsAnnounced DEF HeartbeatTimer
    <3>2. CASE ~HasExceededTolerance
      BY <1>5, <2>1, <3>2, SendIsAnnounced DEF HeartbeatTimer
    <3>3. QED
      BY <3>1, <3>2
  <2>3. QED
    BY <2>1, <2>2 DEF ConnectedMeansAttached
<1>6. CASE DialSucceeds \/ OvertakenCloses
  BY <1>6, SocketsExist DEF DialSucceeds, OvertakenCloses,
                            ConnectedMeansAttached
<1>7. CASE DialFails
  BY <1>7, ScheduleIsAnnounced DEF DialFails, ConnectedMeansAttached
<1>8. ASSUME NEW s \in Sockets, SocketStep(s) PROVE socket' # NoSocket
  <2>1. disposal = "none"
    BY <1>8
       DEF SocketStep, TakeFrame, SkipStaleFrame, HoldLargeFrame, AcceptHello,
           AcceptAck, AcceptHeartbeatRequest, AcceptReconnect, AcceptInvalidSession,
           AcceptDispatch, LoseFrame, MisreadFrame, AcceptDone
  <2>2. CASE SkipStaleFrame(s)
    BY <2>1, <2>2 DEF SkipStaleFrame, ConnectedMeansAttached
  <2>3. CASE IsCurrent(s)
    <3>1. socket # NoSocket
      BY <2>3, SocketsExist DEF IsCurrent
    <3>2. socket' = socket
      <4>1. CASE AcceptHello(s) \/ AcceptHeartbeatRequest(s) \/ AcceptInvalidSession(s)
        BY <2>1, <4>1, SendIsAnnounced
           DEF AcceptHello, AcceptHeartbeatRequest, AcceptInvalidSession
      <4>2. CASE AcceptReconnect(s) \/ LoseFrame(s)
        BY <2>1, <4>2, ScheduleIsAnnounced DEF AcceptReconnect, LoseFrame
      <4>3. CASE AcceptDispatch(s)
        BY <2>1, <4>3, SendIsAnnounced DEF AcceptDispatch, NothingSent
      <4>4. CASE AcceptDone(s)
        BY <2>1, <4>4, ScheduleIsAnnounced DEF AcceptDone
      <4>5. CASE HoldLargeFrame(s) \/ AcceptAck(s) \/ MisreadFrame(s)
        BY <4>5 DEF HoldLargeFrame, AcceptAck, MisreadFrame, NothingSent
      <4>6. CASE SkipStaleFrame(s)
        BY <4>6 DEF SkipStaleFrame
      <4>7. QED
        BY <1>8, <4>1, <4>2, <4>3, <4>4, <4>5, <4>6 DEF SocketStep, TakeFrame
    <3>3. QED
      BY <3>1, <3>2
  <2>4. CASE ~SkipStaleFrame(s) /\ ~IsCurrent(s)
    BY <1>8, <2>4
       DEF SocketStep, TakeFrame, Takes, HoldLargeFrame, AcceptHello, AcceptAck,
           AcceptHeartbeatRequest, AcceptReconnect, AcceptInvalidSession,
           AcceptDispatch, LoseFrame, MisreadFrame, AcceptDone
  <2>5. QED
    BY <2>2, <2>3, <2>4
<1>9. CASE External
  BY ZenonT(30), <1>9
     DEF External, ServerReads, ServerIdentifies, ServerResumes, ServerReadsIntent,
         ServerDispatches, ServerAsks, EndLink, ServerCloses, ServerDropsIdle,
         LinkBreaks, BrokenLinkEnds, SessionExpires, CredentialIsRevoked,
         ConnectedMeansAttached
<1>10. CASE UNCHANGED vars
  BY <1>10 DEF vars, ConnectedMeansAttached
<1>11. QED
  BY <1>1, <1>2, <1>3, <1>4, <1>5, <1>6, <1>7, <1>8, <1>9, <1>10
     DEF Next, User, Timers

\* As long as the client is not being closed, a status of connected comes with
\* a socket: every way to lose one says so on the stream in the same step.
THEOREM ConnectedIsAttached == Spec => []ConnectedMeansAttached
<1>1. Init => ConnectedMeansAttached
  BY DEF Init, ConnectedMeansAttached
<1>2. TypeOK /\ ConnectedMeansAttached /\ [Next]_vars => ConnectedMeansAttached'
  BY AttachedStep
<1>3. QED
  BY <1>1, <1>2, TypeCorrect, PTL DEF Spec

-----------------------------------------------------------------------------
(* Whose turn it is on a link.  A socket's done event is the last thing it *)
(* brings, and comes exactly when its transport has ended.  On an open one *)
(* the parties take turns: a frame that asks the client to open a session  *)
(* is followed by nothing until the client has answered, its answer by     *)
(* nothing until the server has read it, and a session is carried only     *)
(* after that.                                                             *)

\* Frames that ask the client to open a session, and the frames that do so.
Greets(frame) == frame.op \in {"hello", "invalid"}
Opens(frame) == frame.op \in {"identify", "resume"}

\* A link whose transport is w, with q on its way to the client and out on its
\* way to the server, that carries the session b, while the credential is c: only
\* a bad one is rejected.
InTurn(w, q, out, b, c) ==
    /\ \A i \in 1 .. Len(q) : q[i].op = "done" => i = Len(q) /\ w = "ended"
    /\ w = "ended" /\ Len(q) > 0 => q[Len(q)].op = "done"
    /\ \A i \in 1 .. Len(q) : q[i].op = "done" /\ q[i].rejected => ~c
    /\ \A i, j \in 1 .. Len(q) : Greets(q[i]) /\ i < j => q[j].op = "done"
    /\ w = "open" =>
          /\ \A i \in 1 .. Len(out) : Opens(out[i]) =>
                /\ q = <<>> /\ b = NoSession
                /\ \A j \in 1 .. Len(out) : Opens(out[j]) => i = j
          /\ \A i \in 1 .. Len(q) : Greets(q[i]) =>
                b = NoSession /\ \A j \in 1 .. Len(out) : ~Opens(out[j])

TurnInv ==
    \A s \in Sockets :
        InTurn(wire[s], toClient[s], toServer[s], bound[s], credential)

\* What Head, Tail and Append do, place by place.
LEMMA TailPlaces ==
    ASSUME NEW T, NEW q \in Seq(T), q # <<>>
    PROVE  /\ Len(q) \in Nat /\ Len(q) >= 1 /\ Head(q) = q[1] /\ q[1] \in T
           /\ Tail(q) \in Seq(T) /\ Len(Tail(q)) = Len(q) - 1
           /\ \A i \in 1 .. Len(Tail(q)) : Tail(q)[i] = q[i + 1]
BY HeadTailProperties

LEMMA AppendPlaces ==
    ASSUME NEW T, NEW q \in Seq(T), NEW f \in T
    PROVE  /\ Append(q, f) \in Seq(T) /\ Len(q) \in Nat
           /\ Append(q, f) = q \o <<f>>
           /\ Len(Append(q, f)) = Len(q) + 1 /\ Append(q, f)[Len(q) + 1] = f
           /\ \A i \in 1 .. Len(q) : Append(q, f)[i] = q[i]
BY AppendProperties

LEMMA EmptyPlaces == \A T : <<>> \in Seq(T) /\ Len(<<>>) = 0 /\ 1 .. Len(<<>>) = {}
OBVIOUS

\* The client takes a frame.
LEMMA TurnTaken ==
    ASSUME NEW c, NEW w, NEW b, NEW out, NEW q \in Seq(ServerFrames), q # <<>>,
           InTurn(w, q, out, b, c)
    PROVE  /\ InTurn(w, Tail(q), out, b, c)
           /\ w = "ended" /\ Head(q).op # "done" => Tail(q) # <<>>
<1>1. /\ Len(q) \in Nat /\ Len(q) >= 1 /\ Head(q) = q[1]
      /\ Tail(q) \in Seq(ServerFrames) /\ Len(Tail(q)) = Len(q) - 1
      /\ \A i \in 1 .. Len(Tail(q)) : Tail(q)[i] = q[i + 1]
  BY TailPlaces
<1>2. \A i \in 1 .. Len(out) : w = "open" => ~Opens(out[i])
  BY DEF InTurn
<1>3. InTurn(w, Tail(q), out, b, c)
  <2>1. \A i \in 1 .. Len(Tail(q)) : i + 1 \in 1 .. Len(q)
    BY <1>1
  <2>5. Len(q) > 0
    BY <1>1
  <2>6. w = "ended" => q[Len(q)].op = "done"
    BY <2>5 DEF InTurn
  <2>7. Len(Tail(q)) > 0 =>
           Len(Tail(q)) \in 1 .. Len(Tail(q)) /\ Len(Tail(q)) + 1 = Len(q)
    BY <1>1
  <2>8. Len(Tail(q)) > 0 => Tail(q)[Len(Tail(q))] = q[Len(q)]
    BY <1>1, <2>7
  <2>2. \A i \in 1 .. Len(Tail(q)) :
           Tail(q)[i].op = "done" => i = Len(Tail(q)) /\ w = "ended"
    <3> SUFFICES ASSUME NEW i \in 1 .. Len(Tail(q)), Tail(q)[i].op = "done"
                 PROVE  i = Len(Tail(q)) /\ w = "ended"
      OBVIOUS
    <3>1. i + 1 \in 1 .. Len(q) /\ q[i + 1].op = "done"
      BY <1>1, <2>1
    <3>2. i + 1 = Len(q)
      BY <3>1 DEF InTurn
    <3>3. i \in Nat /\ Len(q) \in Nat /\ Len(Tail(q)) = Len(q) - 1
      BY <1>1
    <3>4. i = Len(Tail(q))
      BY <3>2, <3>3
    <3>5. w = "ended"
      BY <3>1 DEF InTurn
    <3> QED BY <3>4, <3>5
  <2>3. \A i, j \in 1 .. Len(Tail(q)) :
           Greets(Tail(q)[i]) /\ i < j => Tail(q)[j].op = "done"
    <3> SUFFICES ASSUME NEW i \in 1 .. Len(Tail(q)), NEW j \in 1 .. Len(Tail(q)),
                        Greets(Tail(q)[i]), i < j
                 PROVE  Tail(q)[j].op = "done"
      OBVIOUS
    <3>1. Greets(q[i + 1]) /\ i + 1 < j + 1 /\ Tail(q)[j] = q[j + 1]
      BY <1>1
    <3> QED BY <2>1, <3>1 DEF InTurn
  <2>4. w = "open" => \A i \in 1 .. Len(Tail(q)) : Greets(Tail(q)[i]) => b = NoSession
    BY <1>1, <2>1 DEF InTurn
  <2> QED BY <1>2, <2>2, <2>3, <2>4, <2>6, <2>8 DEF InTurn
<1>4. w = "ended" /\ Head(q).op # "done" => Tail(q) # <<>>
  <2>0. Len(q) > 0
    BY <1>1
  <2>1. w = "ended" => q[Len(q)].op = "done"
    BY <2>0 DEF InTurn
  <2>3. w = "ended" /\ Head(q).op # "done" => Len(q) # 1
    BY <1>1, <2>1
  <2>2. Len(q) # 1 => Len(Tail(q)) # 0
    BY <1>1
  <2> QED BY <2>2, <2>3, EmptyPlaces
<1> QED BY <1>3, <1>4

\* It answers a frame that asks for a session, which it does only when nothing
\* else has come or gone.
LEMMA TurnAnswered ==
    ASSUME NEW c, NEW w, NEW b, NEW out \in Seq(ClientFrames), NEW q \in Seq(ServerFrames),
           q # <<>>, InTurn(w, q, out, b, c), Greets(Head(q)), NEW f \in ClientFrames
    PROVE  /\ w = "open" => Tail(q) = <<>> /\ b = NoSession
           /\ w = "open" => \A i \in 1 .. Len(out) : ~Opens(out[i])
           /\ w = "open" => InTurn(w, Tail(q), out \o <<f>>, b, c)
           /\ \A i \in 1 .. Len(Tail(q)) : Tail(q)[i].op = "done"
<1>1. /\ Len(q) \in Nat /\ Len(q) >= 1 /\ Head(q) = q[1]
      /\ Tail(q) \in Seq(ServerFrames) /\ Len(Tail(q)) = Len(q) - 1
      /\ \A i \in 1 .. Len(Tail(q)) : Tail(q)[i] = q[i + 1]
  BY TailPlaces
<1>2. /\ out \o <<f>> = Append(out, f) /\ Len(out) \in Nat
      /\ Len(Append(out, f)) = Len(out) + 1 /\ Append(out, f)[Len(out) + 1] = f
      /\ \A i \in 1 .. Len(out) : Append(out, f)[i] = out[i]
  BY AppendPlaces
<1>3. \A i \in 1 .. Len(Tail(q)) : Tail(q)[i].op = "done"
  <2>1. Greets(q[1]) /\ 1 \in 1 .. Len(q)
    BY <1>1
  <2>2. \A i \in 1 .. Len(Tail(q)) : i + 1 \in 1 .. Len(q) /\ 1 < i + 1
    BY <1>1
  <2> QED BY <1>1, <2>1, <2>2 DEF InTurn
<1>4. CASE w = "open"
  <2>1. \A i \in 1 .. Len(q) : q[i].op # "done"
    BY <1>4 DEF InTurn
  <2>2. Len(Tail(q)) = 0
    <3> SUFFICES ASSUME Len(Tail(q)) # 0 PROVE FALSE
      OBVIOUS
    <3>1. 1 \in 1 .. Len(Tail(q)) /\ 2 \in 1 .. Len(q) /\ Tail(q)[1] = q[2]
      BY <1>1
    <3> QED BY <1>3, <2>1, <3>1
  <2>3. Tail(q) = <<>>
    BY <1>1, <2>2, EmptySeq
  <2>4. b = NoSession /\ \A i \in 1 .. Len(out) : ~Opens(out[i])
    BY <1>1, <1>4 DEF InTurn
  <2>5. InTurn(w, Tail(q), out \o <<f>>, b, c)
    <3> HIDE DEF Opens, Greets
    <3> QED BY <1>2, <1>4, <2>2, <2>3, <2>4 DEF InTurn
  <2> QED BY <1>3, <2>3, <2>4, <2>5
<1> QED BY <1>3, <1>4

\* It writes a frame of another kind.
LEMMA TurnWritten ==
    ASSUME NEW c, NEW w, NEW b, NEW out \in Seq(ClientFrames), NEW q,
           InTurn(w, q, out, b, c), NEW f \in ClientFrames, ~Opens(f)
    PROVE  InTurn(w, q, out \o <<f>>, b, c)
<1>1. /\ out \o <<f>> = Append(out, f) /\ Len(out) \in Nat
      /\ Len(Append(out, f)) = Len(out) + 1 /\ Append(out, f)[Len(out) + 1] = f
      /\ \A i \in 1 .. Len(out) : Append(out, f)[i] = out[i]
  BY AppendPlaces
<1> QED BY <1>1 DEF InTurn

\* Either side ends the link.
LEMMA TurnEnded ==
    ASSUME NEW c, NEW w, w # "ended", NEW b, NEW out, NEW q \in Seq(ServerFrames),
           InTurn(w, q, out, b, c), NEW f \in ServerFrames, f.op = "done", f.rejected => ~c,
           NEW out2, NEW b2
    PROVE  InTurn("ended", Append(q, f), out2, b2, c)
<1>1. /\ Len(Append(q, f)) = Len(q) + 1 /\ Append(q, f)[Len(q) + 1] = f
      /\ \A i \in 1 .. Len(q) : Append(q, f)[i] = q[i]
      /\ Len(q) \in Nat
  BY AppendPlaces
<1> QED BY <1>1 DEF InTurn, Greets

\* The server reads a frame.
LEMMA TurnRead ==
    ASSUME NEW c, NEW w, NEW b, NEW out \in Seq(ClientFrames), out # <<>>, NEW q,
           InTurn(w, q, out, b, c)
    PROVE  InTurn(w, q, Tail(out), b, c)
<1>1. /\ Len(out) \in Nat /\ Len(Tail(out)) = Len(out) - 1
      /\ \A i \in 1 .. Len(Tail(out)) : Tail(out)[i] = out[i + 1]
  BY TailPlaces
<1> QED BY <1>1 DEF InTurn

\* It answers an opening: with what the session has to say, or by refusing it.
LEMMA TurnOpened ==
    ASSUME NEW c, NEW b, NEW out \in Seq(ClientFrames), out # <<>>, NEW q,
           InTurn("open", q, out, b, c), Opens(Head(out))
    PROVE  /\ q = <<>> /\ b = NoSession
           /\ \A i \in 1 .. Len(Tail(out)) : ~Opens(Tail(out)[i])
           /\ \A q2, b2 :
                 (\A i \in 1 .. Len(q2) : q2[i].op = "dispatch") =>
                 InTurn("open", q2, Tail(out), b2, c)
           /\ InTurn("open", <<InvalidSession(FALSE)>>, Tail(out), NoSession, c)
<1>1. /\ Len(out) \in Nat /\ Len(out) >= 1 /\ Head(out) = out[1]
      /\ Len(Tail(out)) = Len(out) - 1
      /\ \A i \in 1 .. Len(Tail(out)) : Tail(out)[i] = out[i + 1]
  BY TailPlaces
<1>2. q = <<>> /\ b = NoSession
  BY <1>1 DEF InTurn
<1>3. \A i \in 1 .. Len(Tail(out)) : ~Opens(Tail(out)[i])
  <2> SUFFICES ASSUME NEW i \in 1 .. Len(Tail(out)), Opens(Tail(out)[i]) PROVE FALSE
    OBVIOUS
  <2>1. 1 \in 1 .. Len(out) /\ i + 1 \in 1 .. Len(out)
        /\ Opens(out[1]) /\ Opens(out[i + 1])
    BY <1>1
  <2>2. \A h, j \in 1 .. Len(out) : Opens(out[h]) /\ Opens(out[j]) => h = j
    BY DEF InTurn
  <2>3. 1 = i + 1
    BY <2>1, <2>2
  <2> QED BY <2>3
<1>4. ASSUME NEW q2, NEW b2, \A i \in 1 .. Len(q2) : q2[i].op = "dispatch"
      PROVE  InTurn("open", q2, Tail(out), b2, c)
  <2> HIDE DEF Opens
  <2> QED BY <1>3, <1>4 DEF InTurn, Greets
<1>5. InTurn("open", <<InvalidSession(FALSE)>>, Tail(out), NoSession, c)
  <2> DEFINE q2 == <<InvalidSession(FALSE)>>
  <2>1. Len(q2) = 1 /\ q2[1].op = "invalid"
    BY DEF InvalidSession
  <2> HIDE DEF q2, Opens
  <2>2. \A i \in 1 .. Len(q2) : i = 1 /\ q2[i].op # "done"
    BY <2>1
  <2>3. InTurn("open", q2, Tail(out), NoSession, c)
    BY <1>3, <2>1, <2>2 DEF InTurn
  <2> QED BY <2>3 DEF q2
<1> QED BY <1>2, <1>3, <1>4, <1>5

\* It says something of the session the link carries, or lets it go.
LEMMA TurnSpoken ==
    ASSUME NEW c, NEW b, b # NoSession, NEW out, NEW q \in Seq(ServerFrames),
           InTurn("open", q, out, b, c), NEW f \in ServerFrames, f.op # "done"
    PROVE  /\ f.op # "hello" /\ f.op # "invalid" => InTurn("open", Append(q, f), out, b, c)
           /\ f.op # "hello" => InTurn("open", Append(q, f), out, NoSession, c)
<1>1. /\ Len(Append(q, f)) = Len(q) + 1 /\ Append(q, f)[Len(q) + 1] = f
      /\ \A i \in 1 .. Len(q) : Append(q, f)[i] = q[i]
      /\ Len(q) \in Nat
  BY AppendPlaces
<1>2. /\ \A i \in 1 .. Len(q) : q[i].op # "done" /\ ~Greets(q[i])
      /\ \A i \in 1 .. Len(out) : ~Opens(out[i])
  BY DEF InTurn
<1> HIDE DEF Opens
<1> QED BY <1>1, <1>2 DEF InTurn, Greets

\* The session a link carries is taken elsewhere; the link breaks; a new link.
LEMMA TurnElse ==
    /\ \A w, q, out, b, c : InTurn(w, q, out, b, c) => InTurn(w, q, out, NoSession, c)
    /\ \A q \in Seq(ServerFrames) : \A out, b, c : InTurn("open", q, out, b, c) =>
          \A k \in 0 .. Len(q) : \A out2, b2 : InTurn("broken", SubSeq(q, 1, k), out2, b2, c)
    /\ \A c : InTurn("open", <<Op("hello")>>, <<>>, NoSession, c)
    /\ \A w, q, out, b, c : InTurn(w, q, out, b, c) => InTurn(w, q, out, b, FALSE)
<1>1. \A w, q, out, b, c : InTurn(w, q, out, b, c) => InTurn(w, q, out, NoSession, c)
  BY DEF InTurn
<1>2. ASSUME NEW q \in Seq(ServerFrames), NEW out, NEW b, NEW c, InTurn("open", q, out, b, c),
             NEW k \in 0 .. Len(q), NEW out2, NEW b2
      PROVE  InTurn("broken", SubSeq(q, 1, k), out2, b2, c)
  <2>1. /\ Len(q) \in Nat /\ Len(SubSeq(q, 1, k)) = k
        /\ \A i \in 1 .. k : SubSeq(q, 1, k)[i] = q[i] /\ i \in 1 .. Len(q)
    OBVIOUS
  <2> QED BY <1>2, <2>1 DEF InTurn
<1>3. ASSUME NEW c PROVE InTurn("open", <<Op("hello")>>, <<>>, NoSession, c)
  <2> DEFINE q == <<Op("hello")>>
  <2>1. Len(q) = 1 /\ q[1].op = "hello" /\ 1 .. Len(<<>>) = {}
    BY EmptyPlaces DEF Op
  <2> HIDE DEF q
  <2>2. \A i \in 1 .. Len(q) : i = 1 /\ q[i].op # "done"
    BY <2>1
  <2>3. InTurn("open", q, <<>>, NoSession, c)
    BY <2>1, <2>2 DEF InTurn
  <2> QED BY <2>3 DEF q
<1>4. \A w, q, out, b, c : InTurn(w, q, out, b, c) => InTurn(w, q, out, b, FALSE)
  BY DEF InTurn
<1> QED BY <1>1, <1>2, <1>3, <1>4

-----------------------------------------------------------------------------
(* What a handler of the socket owner does to the links: it keeps the      *)
(* current socket, or lets it go and asks for a reconnect.                 *)

Stays(q) == toClient' = q /\ UNCHANGED <<socket, reconnectDue, wire>>

Drops(q) ==
    /\ socket' = NoSocket /\ reconnectDue' = TRUE
    /\ wire' = HungUpWire /\ toClient' = HungUpQueue(q)

\* The frames written, if the transport takes them.
Written(frames) ==
    [s \in Sockets |-> IF s = socket /\ wire[s] = "open"
                       THEN toServer[s] \o frames ELSE toServer[s]]

LEMMA ScheduleMoves ==
    ASSUME NEW q, NEW st, NEW kept, NEW left, ScheduleReconnect(q, st, kept, left)
    PROVE  (Stays(q) /\ ReconnectIgnored) \/ (Drops(q) /\ ~ReconnectIgnored)
BY DEF ScheduleReconnect, Stays, Drops

LEMMA SendMoves ==
    ASSUME NEW q, NEW frames, NEW st, NEW kept, NEW left,
           Send(q, frames, st, kept, left)
    PROVE  \/ Stays(q) /\ toServer' = Written(frames)
           \/ Stays(q) /\ UNCHANGED toServer /\ wire[socket] = "broken"
           \/ Drops(q) /\ UNCHANGED toServer
BY ScheduleMoves DEF Send, Stays, Written

\* Letting the current socket go ends its link, if it was not over already.
LEMMA DropsInTurn ==
    ASSUME TypeOK, NEW q \in [Sockets -> Seq(ServerFrames)],
           wire' = HungUpWire, toClient' = HungUpQueue(q),
           UNCHANGED <<toServer, bound, credential>>,
           \A s \in Sockets : InTurn(wire[s], q[s], toServer[s], bound[s], credential)
    PROVE  TurnInv'
<1> SUFFICES ASSUME NEW s \in Sockets
             PROVE  InTurn(wire'[s], toClient'[s], toServer[s], bound[s], credential)
  BY DEF TurnInv
<1>1. CASE s = socket /\ wire[s] # "ended"
  <2>1. wire'[s] = "ended" /\ toClient'[s] = Append(q[s], Done(FALSE))
    BY <1>1 DEF HungUpWire, HungUpQueue
  <2>2. Done(FALSE) \in ServerFrames /\ Done(FALSE).op = "done" /\ ~Done(FALSE).rejected
    BY FramesTyped DEF Done
  <2> QED BY <1>1, <2>1, <2>2, TurnEnded
<1>2. CASE ~(s = socket /\ wire[s] # "ended")
  <2>1. wire'[s] = wire[s] /\ toClient'[s] = q[s]
    BY <1>2 DEF HungUpWire, HungUpQueue, TypeOK
  <2> QED BY <2>1
<1> QED BY <1>1, <1>2

\* Taking a frame leaves every link in turn, and an ended one with its done.
LEMMA PoppedInTurn ==
    ASSUME TypeOK, TurnInv, NEW s \in Sockets, Waiting(s)
    PROVE  /\ Popped(s) \in [Sockets -> Seq(ServerFrames)]
           /\ \A t \in Sockets :
                 InTurn(wire[t], Popped(s)[t], toServer[t], bound[t], credential)
           /\ Next1(s).op # "done" /\ wire[s] = "ended" => Popped(s)[s] # <<>>
<1>1. toClient[s] \in Seq(ServerFrames) /\ toClient[s] # <<>>
      /\ InTurn(wire[s], toClient[s], toServer[s], bound[s], credential)
  BY DEF TypeOK, TurnInv, Waiting
<1>2. InTurn(wire[s], Tail(toClient[s]), toServer[s], bound[s], credential)
      /\ (wire[s] = "ended" /\ Head(toClient[s]).op # "done" => Tail(toClient[s]) # <<>>)
  BY <1>1, TurnTaken
<1>3. Popped(s)[s] = Tail(toClient[s])
      /\ \A t \in Sockets : t # s => Popped(s)[t] = toClient[t]
  BY DEF Popped, TypeOK
<1> QED BY <1>2, <1>3, TakenTyped DEF TurnInv, Next1

\* So do the frames that are no opening.
LEMMA WrittenInTurn ==
    ASSUME TypeOK, NEW q,
           \A s \in Sockets : InTurn(wire[s], q[s], toServer[s], bound[s], credential),
           NEW frames, \/ frames = <<>>
                       \/ \E f \in ClientFrames : ~Opens(f) /\ frames = <<f>>,
           NEW s \in Sockets
    PROVE  InTurn(wire[s], q[s], Written(frames)[s], bound[s], credential)
<1>1. toServer[s] \in Seq(ClientFrames)
  BY DEF TypeOK
<1>2. toServer[s] \o <<>> = toServer[s]
  BY <1>1
<1>3. CASE frames = <<>>
  BY <1>2, <1>3 DEF Written
<1>4. CASE \E f \in ClientFrames : ~Opens(f) /\ frames = <<f>>
  BY <1>1, <1>4, TurnWritten DEF Written
<1> QED BY <1>3, <1>4

\* A handler that writes no opening, or that only asks for a reconnect.
LEMMA HandlerInTurn ==
    ASSUME TypeOK, NEW q \in [Sockets -> Seq(ServerFrames)],
           \A s \in Sockets : InTurn(wire[s], q[s], toServer[s], bound[s], credential),
           UNCHANGED <<bound, credential>>,
           NEW frames, \/ frames = <<>>
                       \/ \E f \in ClientFrames : ~Opens(f) /\ frames = <<f>>,
           \/ \E st, kept, left : Send(q, frames, st, kept, left)
           \/ /\ UNCHANGED toServer
              /\ \E st, kept, left : ScheduleReconnect(q, st, kept, left)
    PROVE  TurnInv'
<1>1. \/ Stays(q) /\ toServer' = Written(frames)
      \/ Stays(q) /\ UNCHANGED toServer
      \/ Drops(q) /\ UNCHANGED toServer
  BY SendMoves, ScheduleMoves
<1>2. CASE Stays(q) /\ toServer' = Written(frames)
  <2>1. \A s \in Sockets : InTurn(wire[s], q[s], Written(frames)[s], bound[s], credential)
    BY WrittenInTurn
  <2> QED BY <1>2, <2>1 DEF Stays, TurnInv
<1>3. CASE Stays(q) /\ UNCHANGED toServer
  BY <1>3 DEF Stays, TurnInv
<1>4. CASE Drops(q) /\ UNCHANGED toServer
  BY <1>4, DropsInTurn DEF Drops
<1> QED BY <1>1, <1>2, <1>3, <1>4

\* A handler that answers a frame which asks for a session with an opening.
LEMMA OpeningInTurn ==
    ASSUME TypeOK, TurnInv, NEW s \in Sockets, Waiting(s), IsCurrent(s),
           Greets(Next1(s)), NEW f \in ClientFrames,
           NEW st, NEW kept, NEW left, Send(Popped(s), <<f>>, st, kept, left),
           UNCHANGED <<bound, credential>>
    PROVE  TurnInv'
<1>1. /\ Popped(s) \in [Sockets -> Seq(ServerFrames)]
      /\ \A t \in Sockets :
            InTurn(wire[t], Popped(s)[t], toServer[t], bound[t], credential)
  BY PoppedInTurn
<1>2. CASE Stays(Popped(s)) /\ toServer' = Written(<<f>>)
  <2>1. ASSUME NEW t \in Sockets
        PROVE  InTurn(wire[t], Popped(s)[t], Written(<<f>>)[t], bound[t], credential)
    <3>1. CASE t = s /\ wire[s] = "open"
      <4>1. toClient[s] \in Seq(ServerFrames) /\ toServer[s] \in Seq(ClientFrames)
        BY DEF TypeOK
      <4>2. InTurn(wire[s], Tail(toClient[s]), toServer[s] \o <<f>>, bound[s], credential)
        BY <3>1, <4>1, TurnAnswered DEF TurnInv, Waiting, Next1
      <4>3. Popped(s)[s] = Tail(toClient[s])
        BY DEF Popped, TypeOK
      <4> QED BY <3>1, <4>2, <4>3 DEF Written, IsCurrent
    <3>2. CASE ~(t = s /\ wire[s] = "open")
      BY <1>1, <3>2 DEF Written, IsCurrent
    <3> QED BY <3>1, <3>2
  <2> QED BY <1>2, <2>1 DEF Stays, TurnInv
<1>3. CASE Stays(Popped(s)) /\ UNCHANGED toServer
  BY <1>1, <1>3 DEF Stays, TurnInv
<1>4. CASE Drops(Popped(s)) /\ UNCHANGED toServer
  BY <1>1, <1>4, DropsInTurn DEF Drops
<1> QED BY <1>2, <1>3, <1>4, SendMoves

\* One link changes and the others do not.
LEMMA OneLinkInTurn ==
    ASSUME TypeOK, TurnInv, NEW s \in Sockets, UNCHANGED credential,
           \A t \in Sockets : t # s =>
              /\ wire'[t] = wire[t] /\ toClient'[t] = toClient[t]
              /\ toServer'[t] = toServer[t] /\ bound'[t] = bound[t],
           InTurn(wire'[s], toClient'[s], toServer'[s], bound'[s], credential)
    PROVE  TurnInv'
BY DEF TurnInv

\* The intents are no openings.
LEMMA IntentsAreFrames ==
    ASSUME TypeOK
    PROVE  /\ ReplayFrame \in ClientFrames /\ ~Opens(ReplayFrame)
           /\ \A i \in Intents, want \in BOOLEAN :
                 IntentFrame(i, want) \in ClientFrames /\ ~Opens(IntentFrame(i, want))
<1>1. desired \in SUBSET Intents /\ Channels \subseteq Intents
  BY DEF TypeOK, Intents
<1>2. ReplayFrame \in ClientFrames
  BY <1>1, FramesTyped DEF ReplayFrame
<1>3. ASSUME NEW i \in Intents, NEW want \in BOOLEAN
      PROVE  IntentFrame(i, want) \in ClientFrames
  <2>1. i \in Rooms => {i} \in SUBSET Intents
    BY DEF Intents
  <2>2. \A now : now \cap Channels \in SUBSET Intents /\ Channels \ now \in SUBSET Intents
    BY <1>1
  <2> QED BY <2>1, <2>2, FramesTyped DEF IntentFrame
<1> QED BY <1>2, <1>3 DEF ReplayFrame, IntentFrame, Intent, Opens

LEMMA SocketStepInTurn ==
    ASSUME TypeOK, TurnInv, NEW s \in Sockets, SocketStep(s)
    PROVE  TurnInv'
<1> USE DEF server
<1>0. Waiting(s) =>
         /\ Popped(s) \in [Sockets -> Seq(ServerFrames)]
         /\ \A t \in Sockets :
               InTurn(wire[t], Popped(s)[t], toServer[t], bound[t], credential)
  BY PoppedInTurn
<1>1. CASE SkipStaleFrame(s)
  BY <1>0, <1>1 DEF SkipStaleFrame, TurnInv
<1>2. CASE HoldLargeFrame(s) \/ AcceptAck(s)
  BY <1>2 DEF HoldLargeFrame, AcceptAck, TurnInv
<1>3. CASE AcceptHello(s)
  BY <1>3, OpeningInTurn, OpeningTyped DEF AcceptHello, Takes, Greets
<1>4. CASE AcceptHeartbeatRequest(s)
  BY <1>0, <1>4, HandlerInTurn DEF AcceptHeartbeatRequest, Takes
<1>5. CASE AcceptReconnect(s)
  BY <1>0, <1>5, HandlerInTurn DEF AcceptReconnect, Takes
<1>6. CASE AcceptInvalidSession(s)
  <2>1. PICK f \in ClientFrames : Send(Popped(s), <<f>>, status, heart, "off")
    BY <1>6, OpeningTyped, FramesTyped DEF AcceptInvalidSession, ResumesAgain
  <2> QED BY <1>6, <2>1, OpeningInTurn DEF AcceptInvalidSession, Takes, Greets
<1>7. CASE AcceptDispatch(s)
  <2>1. \/ Send(Popped(s), <<ReplayFrame>>, "connected", heart, "off")
        \/ toClient' = Popped(s) /\ UNCHANGED <<wire, toServer>>
    BY <1>7 DEF AcceptDispatch, NothingSent
  <2>2. CASE toClient' = Popped(s) /\ UNCHANGED <<wire, toServer>>
    BY <1>0, <1>7, <2>2 DEF AcceptDispatch, Takes, TurnInv
  <2>3. CASE Send(Popped(s), <<ReplayFrame>>, "connected", heart, "off")
    BY <1>0, <1>7, <2>3, HandlerInTurn, IntentsAreFrames DEF AcceptDispatch, Takes
  <2> QED BY <2>1, <2>2, <2>3
<1>8. CASE LoseFrame(s)
  BY <1>0, <1>8, HandlerInTurn DEF LoseFrame
<1>9. CASE MisreadFrame(s)
  BY <1>0, <1>9 DEF MisreadFrame, NothingSent, TurnInv
<1>10. CASE AcceptDone(s)
  <2>1. CASE Next1(s).rejected
    BY <1>0, <1>10, <2>1 DEF AcceptDone, Takes, TurnInv
  <2>2. CASE ~Next1(s).rejected
    BY <1>0, <1>10, <2>2, HandlerInTurn DEF AcceptDone, Takes
  <2> QED BY <2>1, <2>2
<1> QED BY <1>1, <1>2, <1>3, <1>4, <1>5, <1>6, <1>7, <1>8, <1>9, <1>10
    DEF SocketStep, TakeFrame

LEMMA CallsAndTimersInTurn ==
    ASSUME TypeOK, TurnInv, User \/ Timers
    PROVE  TurnInv'
<1> USE DEF server
<1>0. /\ toClient \in [Sockets -> Seq(ServerFrames)]
      /\ \A t \in Sockets :
            InTurn(wire[t], toClient[t], toServer[t], bound[t], credential)
  BY DEF TypeOK, TurnInv
<1>1. CASE Connect \/ CloseEnd \/ ReconnectTimer \/ OvertakenCloses
  BY <1>1 DEF Connect, CloseEnd, ReconnectTimer, OvertakenCloses, links,
              TurnInv
<1>2. ASSUME NEW i \in Intents, NEW want \in BOOLEAN, SetIntent(i, want)
      PROVE  TurnInv'
  BY <1>0, <1>2, HandlerInTurn, IntentsAreFrames DEF SetIntent
<1>3. CASE CloseBegin
  BY <1>0, <1>3, DropsInTurn DEF CloseBegin
<1>4. CASE HeartbeatTimer
  BY <1>0, <1>4, HandlerInTurn DEF HeartbeatTimer
<1>5. CASE DialFails
  BY <1>0, <1>5, HandlerInTurn DEF DialFails
<1>6. CASE DialSucceeds
  <2>1. CASE closing
    BY <1>6, <2>1 DEF DialSucceeds, links, TurnInv
  <2>2. CASE ~closing
    <3>1. PICK s \in Sockets :
            /\ wire' = [wire EXCEPT ![s] = "open"]
            /\ toClient' = [toClient EXCEPT ![s] = <<Op("hello")>>]
            /\ toServer' = [toServer EXCEPT ![s] = <<>>]
            /\ bound' = [bound EXCEPT ![s] = NoSession]
      BY <1>6, <2>2 DEF DialSucceeds
    <3>2. InTurn("open", <<Op("hello")>>, <<>>, NoSession, credential)
      BY TurnElse
    <3>3. UNCHANGED credential
      BY <1>6 DEF DialSucceeds
    <3> QED BY <3>1, <3>2, <3>3, OneLinkInTurn DEF TypeOK
  <2> QED BY <2>1, <2>2
<1> QED BY <1>1, <1>2, <1>3, <1>4, <1>5, <1>6 DEF User, Timers

LEMMA LinkEndsInTurn ==
    ASSUME TypeOK, TurnInv, NEW s \in Sockets, wire[s] # "ended", EndLink(s)
    PROVE  TurnInv'
<1>1. /\ Done(FALSE) \in ServerFrames /\ Done(FALSE).op = "done" /\ ~Done(FALSE).rejected
      /\ toClient[s] \in Seq(ServerFrames)
  BY FramesTyped DEF Done, TypeOK
<1>2. InTurn("ended", Append(toClient[s], Done(FALSE)), <<>>, bound[s], credential)
  BY <1>1, TurnEnded DEF TurnInv
<1>3. toClient[s] \o <<Done(FALSE)>> = Append(toClient[s], Done(FALSE))
  <2>1. \A q \in Seq(ServerFrames), f \in ServerFrames : Append(q, f) = q \o <<f>>
    BY AppendPlaces
  <2> QED BY <1>1, <2>1
<1> QED BY <1>2, <1>3, OneLinkInTurn DEF EndLink, Answered, server, TypeOK

LEMMA ServerReadsInTurn ==
    ASSUME TypeOK, TurnInv, NEW s \in Sockets, ServerReads(s)
    PROVE  TurnInv'
<1> DEFINE out == toServer[s]
<1>0. /\ out \in Seq(ClientFrames) /\ toClient[s] \in Seq(ServerFrames)
      /\ InTurn(wire[s], toClient[s], out, bound[s], credential) /\ out # <<>>
  BY DEF TypeOK, TurnInv, ServerReads, ServerIdentifies, ServerResumes,
         ServerReadsIntent, Reads
<1>1. toServer' = [toServer EXCEPT ![s] = Tail(out)] /\ UNCHANGED credential
  BY DEF ServerReads, ServerIdentifies, ServerResumes, ServerReadsIntent, Read
<1>2. CASE ServerReadsIntent(s)
  BY <1>0, <1>1, <1>2, TurnRead, OneLinkInTurn DEF ServerReadsIntent, TypeOK
<1>3. CASE ~ServerReadsIntent(s)
  <2>0. ServerIdentifies(s) \/ ServerResumes(s)
    BY <1>3 DEF ServerReads
  <2>1. /\ Opens(Head(out)) /\ wire[s] = "open"
        /\ toClient[s] = <<>> /\ bound[s] = NoSession
        /\ \A q2, b2 :
              (\A i \in 1 .. Len(q2) : q2[i].op = "dispatch") =>
              InTurn("open", q2, Tail(out), b2, credential)
        /\ InTurn("open", <<InvalidSession(FALSE)>>, Tail(out), NoSession, credential)
    <3>1. Opens(Head(out)) /\ wire[s] = "open"
      BY <2>0 DEF ServerIdentifies, ServerResumes, Reads, Opens
    <3>2. InTurn("open", toClient[s], out, bound[s], credential)
      BY <1>0, <3>1
    <3> HIDE DEF out
    <3>3. out \in Seq(ClientFrames) /\ out # <<>> /\ Opens(Head(out))
      BY <1>0, <3>1
    <3>4. toClient[s] = <<>> /\ bound[s] = NoSession
      <4>1. 1 \in 1 .. Len(out) /\ Opens(out[1])
        BY <3>3, TailPlaces
      <4> QED BY <3>2, <4>1 DEF InTurn
    <3>5. \A q2, b2 :
             (\A i \in 1 .. Len(q2) : q2[i].op = "dispatch") =>
             InTurn("open", q2, Tail(out), b2, credential)
      BY ONLY <3>2, <3>3, TurnOpened
    <3>6. InTurn("open", <<InvalidSession(FALSE)>>, Tail(out), NoSession, credential)
      BY ONLY <3>2, <3>3, TurnOpened
    <3> QED BY <3>1, <3>3, <3>4, <3>5, <3>6
  <2>2. \A f : <<>> \o f = toClient[s] \o f
    BY <2>1
  <2>3. CASE /\ ~credential /\ toClient' = Answered(s, <<Done(TRUE)>>)
             /\ wire' = [wire EXCEPT ![s] = "ended"] /\ UNCHANGED bound
    <3>1. Done(TRUE) \in ServerFrames /\ Done(TRUE).op = "done"
      BY FramesTyped DEF Done
    <3>2. InTurn("ended", Append(toClient[s], Done(TRUE)), Tail(out), bound[s], credential)
      BY <1>0, <2>1, <2>3, <3>1, TurnEnded
    <3>3. toClient[s] \o <<Done(TRUE)>> = Append(toClient[s], Done(TRUE))
      BY ZenonT(30), <1>0, <3>1, AppendPlaces
    <3> QED BY ZenonT(30), <1>1, <2>3, <3>2, <3>3, OneLinkInTurn DEF Answered, TypeOK
  <2>4. CASE \E n \in Sessions : /\ toClient' = Answered(s, <<Dispatch(n, 1)>>)
                                 /\ bound' = [bound EXCEPT ![s] = n] /\ UNCHANGED wire
    <3>1. PICK n \in Sessions : /\ toClient' = Answered(s, <<Dispatch(n, 1)>>)
                                /\ bound' = [bound EXCEPT ![s] = n]
      BY <2>4
    <3>2. toClient'[s] = <<Dispatch(n, 1)>>
      BY <2>1, <3>1 DEF Answered, TypeOK
    <3>3. \A i \in 1 .. Len(toClient'[s]) : toClient'[s][i].op = "dispatch"
      BY <3>2 DEF Dispatch
    <3>4. InTurn("open", toClient'[s], Tail(out), n, credential)
      BY <2>1, <3>3
    <3>5. wire'[s] = "open" /\ toServer'[s] = Tail(out) /\ bound'[s] = n
      BY <1>1, <2>1, <2>4, <3>1 DEF TypeOK
    <3>6. InTurn(wire'[s], toClient'[s], toServer'[s], bound'[s], credential)
      BY <3>4, <3>5
    <3> QED BY <1>1, <2>4, <3>1, <3>6, OneLinkInTurn DEF Answered, TypeOK
  <2>5. CASE \E n \in Sessions, from \in Nat, to \in Nat :
              /\ toClient' = Answered(s, [k \in 1 .. (to - from) |-> Dispatch(n, from + k)])
              /\ bound' = [t \in Sockets |->
                             IF t = s THEN n
                             ELSE IF bound[t] = n THEN NoSession ELSE bound[t]]
              /\ UNCHANGED wire
    <3>1. PICK n \in Sessions, from \in Nat, to \in Nat :
              /\ toClient' = Answered(s, [k \in 1 .. (to - from) |-> Dispatch(n, from + k)])
              /\ bound' = [t \in Sockets |->
                             IF t = s THEN n
                             ELSE IF bound[t] = n THEN NoSession ELSE bound[t]]
      BY <2>5
    <3> DEFINE replay == [k \in 1 .. (to - from) |-> Dispatch(n, from + k)]
    <3>2. replay \in Seq({Dispatch(n, k) : k \in Nat}) /\ DOMAIN replay = 1 .. Len(replay)
      <4>1. PICK l \in Nat : 1 .. (to - from) = 1 .. l
        <5>1. CASE to - from \in Nat
          BY <5>1
        <5>2. CASE to - from \notin Nat
          <6>1. 1 .. (to - from) = 1 .. 0
            BY <5>2
          <6> QED BY <6>1
        <5> QED BY <5>1, <5>2
      <4>2. replay = [k \in 1 .. l |-> Dispatch(n, from + k)]
        BY <4>1
      <4>3. \A k \in 1 .. l : Dispatch(n, from + k) \in {Dispatch(n, h) : h \in Nat}
        OBVIOUS
      <4>4. /\ [k \in 1 .. l |-> Dispatch(n, from + k)] \in Seq({Dispatch(n, h) : h \in Nat})
            /\ DOMAIN [k \in 1 .. l |-> Dispatch(n, from + k)] = 1 .. l
            /\ Len([k \in 1 .. l |-> Dispatch(n, from + k)]) = l
        BY <4>3
      <4> QED BY <4>2, <4>4
    <3>3. toClient'[s] = replay
      <4>1. toClient'[s] = toClient[s] \o replay
        BY <3>1 DEF Answered, TypeOK
      <4> HIDE DEF replay
      <4> QED BY <2>1, <3>2, <4>1
    <3>4. \A i \in 1 .. Len(replay) : replay[i].op = "dispatch"
      BY <3>2 DEF Dispatch
    <3>5. InTurn("open", toClient'[s], Tail(out), n, credential)
      <4> HIDE DEF replay
      <4> QED BY <2>1, <3>3, <3>4
    <3>6. ASSUME NEW t \in Sockets
          PROVE  InTurn(wire'[t], toClient'[t], toServer'[t], bound'[t], credential)
      <4>1. CASE t = s
        BY <1>1, <2>1, <2>5, <3>1, <3>5, <4>1 DEF TypeOK
      <4>2. CASE t # s
        <5>1. /\ toClient'[t] = toClient[t] /\ toServer'[t] = toServer[t]
              /\ wire'[t] = wire[t] /\ bound'[t] \in {bound[t], NoSession}
          BY <1>1, <2>5, <3>1, <4>2 DEF Answered, TypeOK
        <5> QED BY <5>1, TurnElse DEF TurnInv
      <4> QED BY <4>1, <4>2
    <3> QED BY <1>1, <3>6 DEF TurnInv
  <2>6. CASE toClient' = Answered(s, <<InvalidSession(FALSE)>>) /\ UNCHANGED <<bound, wire>>
    <3>1. toClient'[s] = <<InvalidSession(FALSE)>>
      <4>1. toClient'[s] = toClient[s] \o <<InvalidSession(FALSE)>>
        BY <2>6 DEF Answered, TypeOK
      <4>2. \A f : <<>> \o <<f>> = <<f>>
        OBVIOUS
      <4> QED BY <2>1, <4>1, <4>2
    <3> QED BY <1>1, <2>1, <2>6, <3>1, OneLinkInTurn DEF Answered, TypeOK
  <2>7. CASE ServerIdentifies(s)
    BY <2>3, <2>4, <2>7 DEF ServerIdentifies
  <2>8. CASE ServerResumes(s)
    <3>1. /\ Head(out).session \in Sessions /\ Head(out).n \in Nat
          /\ Len(Append(log[Head(out).session], "RESUMED")) \in Nat
      <4>1. Head(out) \in ClientFrames /\ Head(out).op = "resume"
        BY <1>0, <2>8, TailPlaces DEF ServerResumes, Reads
      <4>2. Head(out).session \in Sessions /\ Head(out).n \in Nat
        BY <4>1, ResumeFields, BoundsAssumption
      <4> QED BY <4>2 DEF TypeOK, DispatchNames
    <3> QED BY <2>3, <2>5, <2>6, <2>8, <3>1 DEF ServerResumes
  <2> QED BY <2>0, <2>7, <2>8
<1> QED BY <1>2, <1>3

LEMMA NetworkInTurn ==
    ASSUME TypeOK, TurnInv, External
    PROVE  TurnInv'
<1> USE DEF server
<1>1. ASSUME NEW s \in Sockets, ServerAsks(s) PROVE TurnInv'
  <2>1. PICK frame \in {Op("heartbeat"), Op("reconnect")}
                       \cup [op : {"invalid"}, resumable : BOOLEAN] :
          /\ toClient' = Answered(s, <<frame>>)
          /\ bound' = IF frame.op = "invalid"
                      THEN [bound EXCEPT ![s] = NoSession] ELSE bound
    BY <1>1 DEF ServerAsks
  <2>2. frame \in ServerFrames /\ frame.op \in {"heartbeat", "reconnect", "invalid"}
    BY FramesTyped DEF ServerFrames, Op
  <2>3. /\ wire[s] = "open" /\ bound[s] # NoSession /\ toClient[s] \in Seq(ServerFrames)
        /\ UNCHANGED <<wire, toServer, credential>>
    BY <1>1 DEF ServerAsks, TypeOK
  <2>4. InTurn("open", Append(toClient[s], frame), toServer[s], bound'[s], credential)
    BY ZenonT(30), <2>1, <2>2, <2>3, TurnSpoken DEF TurnInv, TypeOK
  <2>5. toClient[s] \o <<frame>> = Append(toClient[s], frame)
    BY <2>2, <2>3, AppendPlaces
  <2> QED BY ZenonT(30), <2>1, <2>3, <2>4, <2>5, OneLinkInTurn DEF Answered, TypeOK
<1>2. ASSUME NEW n \in Sessions, ServerDispatches(n) PROVE TurnInv'
  <2>1. /\ UNCHANGED <<wire, toServer, bound, credential>>
        /\ toClient' = [s \in Sockets |->
                          IF wire[s] = "open" /\ bound[s] = n
                          THEN Append(toClient[s], Dispatch(n, Len(log[n]) + 1))
                          ELSE toClient[s]]
    BY <1>2 DEF ServerDispatches
  <2>2. Dispatch(n, Len(log[n]) + 1) \in ServerFrames
    BY <1>2, FramesTyped, BoundsAssumption DEF ServerDispatches, TypeOK
  <2>3. Dispatch(n, Len(log[n]) + 1).op = "dispatch" /\ n # NoSession
    BY DEF Dispatch, Sessions, NoSession
  <2>4. ASSUME NEW s \in Sockets
        PROVE  InTurn(wire[s], toClient'[s], toServer[s], bound[s], credential)
    <3>1. toClient[s] \in Seq(ServerFrames)
          /\ InTurn(wire[s], toClient[s], toServer[s], bound[s], credential)
      BY DEF TypeOK, TurnInv
    <3>2. CASE wire[s] = "open" /\ bound[s] = n
      BY <2>1, <2>2, <2>3, <3>1, <3>2, TurnSpoken
    <3>3. CASE ~(wire[s] = "open" /\ bound[s] = n)
      BY <2>1, <3>1, <3>3
    <3> QED BY <3>2, <3>3
  <2> QED BY <2>1, <2>4 DEF TurnInv
<1>3. ASSUME NEW s \in Sockets, ServerCloses(s) \/ ServerDropsIdle(s) \/ BrokenLinkEnds(s)
      PROVE  TurnInv'
  BY <1>3, LinkEndsInTurn DEF ServerCloses, ServerDropsIdle, BrokenLinkEnds
<1>4. ASSUME NEW s \in Sockets, LinkBreaks(s) PROVE TurnInv'
  <2>1. PICK k \in (IF held[s] THEN 1 ELSE 0) .. Len(toClient[s]) :
          toClient' = [toClient EXCEPT ![s] = SubSeq(@, 1, k)]
    BY <1>4 DEF LinkBreaks
  <2>2. k \in 0 .. Len(toClient[s]) /\ toClient[s] \in Seq(ServerFrames)
    BY DEF TypeOK
  <2>3. InTurn("open", toClient[s], toServer[s], bound[s], credential)
    BY <1>4 DEF LinkBreaks, TurnInv
  <2>4. InTurn("broken", SubSeq(toClient[s], 1, k), <<>>, bound[s], credential)
    BY <2>2, <2>3, TurnElse
  <2> QED BY <1>4, <2>1, <2>4, OneLinkInTurn DEF LinkBreaks, TypeOK
<1>5. ASSUME NEW n \in Sessions, SessionExpires(n) PROVE TurnInv'
  BY <1>5 DEF SessionExpires, links, TurnInv
<1>6. CASE CredentialIsRevoked
  BY <1>6, TurnElse DEF CredentialIsRevoked, links, TurnInv
<1> QED BY <1>1, <1>2, <1>3, <1>4, <1>5, <1>6, ServerReadsInTurn DEF External

LEMMA TurnsHold == Spec => []TurnInv
<1>1. Init => TurnInv
  BY EmptyPlaces DEF Init, TurnInv, InTurn
<1>2. TypeOK /\ TurnInv /\ [Next]_vars => TurnInv'
  <2> SUFFICES ASSUME TypeOK, TurnInv, [Next]_vars PROVE TurnInv'
    OBVIOUS
  <2>1. CASE UNCHANGED vars
    BY <2>1 DEF vars, links, server, TurnInv
  <2> QED BY <2>1, SocketStepInTurn, CallsAndTimersInTurn, NetworkInTurn DEF Next
<1> QED BY <1>1, <1>2, TypeCorrect, PTL DEF Spec

-----------------------------------------------------------------------------
(* A way back.                                                             *)

\* A handler that keeps the socket, and what its ended link still brings, keeps
\* the client's way back; one that lets the socket go has asked for another.
LEMMA WayIsKept ==
    ASSUME TypeOK, NeverStranded, UNCHANGED <<closing, dialing, overtaken, credential, connects, swallowed>>,
           NEW q,
           \/ /\ Stays(q)
              /\ \/ closing \/ reconnectDue \/ ~credential
                 \/ socket # NoSocket /\ wire[socket] = "ended" /\ Waiting(socket)
                       => q[socket] # <<>>
           \/ Drops(q)
    PROVE  NeverStranded'
BY DEF Stays, Drops, NeverStranded, Waiting

\* A handler that takes no frame keeps it.
LEMMA SendingKeepsAWay ==
    ASSUME TypeOK, NeverStranded, UNCHANGED <<closing, dialing, overtaken, credential, connects, swallowed>>,
           \/ \E frames, st, kept, left : Send(toClient, frames, st, kept, left)
           \/ \E st, kept, left : ScheduleReconnect(toClient, st, kept, left)
    PROVE  NeverStranded'
<1>1. Stays(toClient) \/ Drops(toClient)
  BY SendMoves, ScheduleMoves
<1> QED BY <1>1, WayIsKept DEF Waiting

\* A handler that takes a frame other than the last of its link keeps it.
LEMMA TakingKeepsAWay ==
    ASSUME TypeOK, TurnInv, NeverStranded,
           UNCHANGED <<closing, dialing, overtaken, credential, connects, swallowed>>,
           NEW s \in Sockets, Waiting(s), IsCurrent(s), Next1(s).op # "done",
           \/ Stays(Popped(s))
           \/ \E frames, st, kept, left : Send(Popped(s), frames, st, kept, left)
           \/ \E st, kept, left : ScheduleReconnect(Popped(s), st, kept, left)
    PROVE  NeverStranded'
<1>1. Stays(Popped(s)) \/ Drops(Popped(s))
  BY SendMoves, ScheduleMoves
<1>2. wire[s] = "ended" => Popped(s)[s] # <<>>
  BY PoppedInTurn
<1> QED BY <1>1, <1>2, WayIsKept DEF IsCurrent

\* A link that brings more, or does not end, keeps it.
LEMMA NetworkKeepsAWay ==
    ASSUME TypeOK, NeverStranded,
           UNCHANGED <<closing, dialing, overtaken, swallowed, reconnectDue, socket, connects>>,
           credential' => credential,
           \A s \in Sockets :
              /\ wire'[s] = "ended" => wire[s] = "ended" \/ toClient'[s] # <<>>
              /\ wire'[s] = "ended" /\ toClient[s] # <<>> => toClient'[s] # <<>>
    PROVE  NeverStranded'
BY DEF NeverStranded, Waiting, TypeOK

\* What is added to a queue is there.
LEMMA AnsweredWaits ==
    ASSUME TypeOK, NEW s \in Sockets, NEW frames \in Seq(ServerFrames),
           NEW t \in Sockets
    PROVE  /\ toClient[t] # <<>> => Answered(s, frames)[t] # <<>>
           /\ frames # <<>> => Answered(s, frames)[s] # <<>>
<1>1. /\ \A q \in Seq(ServerFrames) : q # <<>> => q \o frames # <<>>
      /\ \A q \in Seq(ServerFrames) : frames # <<>> => q \o frames # <<>>
  OBVIOUS
<1>2. toClient[s] \in Seq(ServerFrames) /\ toClient[t] \in Seq(ServerFrames)
  BY DEF TypeOK
<1>3. Answered(s, frames)[s] = toClient[s] \o frames
      /\ (t # s => Answered(s, frames)[t] = toClient[t])
  BY DEF Answered, TypeOK
<1> QED BY <1>1, <1>2, <1>3

LEMMA SocketStepKeepsAWay ==
    ASSUME TypeOK, TurnInv, NeverStranded, NEW s \in Sockets, SocketStep(s)
    PROVE  NeverStranded'
<1> USE DEF driver, server, bounds, calls
<1>1. CASE SkipStaleFrame(s)
  BY <1>1 DEF SkipStaleFrame, NeverStranded, Waiting, Popped, IsCurrent, TypeOK
<1>2. CASE HoldLargeFrame(s) \/ AcceptAck(s)
  BY <1>2 DEF HoldLargeFrame, AcceptAck, NeverStranded, Waiting
<1>3. CASE AcceptHello(s)
  BY <1>3, TakingKeepsAWay DEF AcceptHello, Takes
<1>4. CASE AcceptHeartbeatRequest(s)
  BY <1>4, TakingKeepsAWay DEF AcceptHeartbeatRequest, Takes
<1>5. CASE AcceptReconnect(s)
  BY <1>5, TakingKeepsAWay DEF AcceptReconnect, Takes
<1>6. CASE AcceptInvalidSession(s)
  BY <1>6, TakingKeepsAWay DEF AcceptInvalidSession, Takes
<1>7. CASE AcceptDispatch(s)
  BY <1>7, TakingKeepsAWay DEF AcceptDispatch, Takes, NothingSent, Stays
<1>8. CASE LoseFrame(s)
  BY <1>8, TakingKeepsAWay DEF LoseFrame
<1>9. CASE MisreadFrame(s)
  BY <1>9, TakingKeepsAWay DEF MisreadFrame, NothingSent, Stays
<1>10. CASE AcceptDone(s)
  <2>1. UNCHANGED <<closing, dialing, overtaken, credential, connects, swallowed>>
    BY <1>10 DEF AcceptDone
  <2>2. CASE Next1(s).rejected
    <3>1. Stays(Popped(s))
      BY <1>10, <2>2 DEF AcceptDone, Stays
    <3>2. ~credential
      <4>1. toClient[s] \in Seq(ServerFrames) /\ toClient[s] # <<>>
            /\ Head(toClient[s]).op = "done" /\ Head(toClient[s]).rejected
        BY <1>10, <2>2 DEF AcceptDone, Takes, Waiting, Next1, TypeOK
      <4>2. Head(toClient[s]) = toClient[s][1] /\ 1 \in 1 .. Len(toClient[s])
        BY <4>1, TailPlaces
      <4> QED BY <4>1, <4>2 DEF TurnInv, InTurn
    <3> QED BY <2>1, <3>1, <3>2, WayIsKept
  <2>3. CASE ~Next1(s).rejected
    <3>1. \/ Stays(Popped(s)) /\ (closing \/ reconnectDue)
          \/ Drops(Popped(s))
      BY <1>10, <2>3, ScheduleMoves DEF AcceptDone, ReconnectIgnored
    <3> QED BY <2>1, <3>1, WayIsKept
  <2> QED BY <2>2, <2>3
<1> QED BY <1>1, <1>2, <1>3, <1>4, <1>5, <1>6, <1>7, <1>8, <1>9, <1>10
    DEF SocketStep, TakeFrame

LEMMA NetworkStepKeepsAWay ==
    ASSUME TypeOK, NeverStranded, External
    PROVE  NeverStranded'
<1> USE DEF driver, server, links, bounds, calls
<1>0. /\ toClient \in [Sockets -> Seq(ServerFrames)] /\ wire \in [Sockets -> Transports]
      /\ <<Done(TRUE)>> \in Seq(ServerFrames) /\ <<Done(TRUE)>> # <<>>
      /\ <<Done(FALSE)>> \in Seq(ServerFrames) /\ <<Done(FALSE)>> # <<>>
  BY SingleFramesTyped DEF TypeOK
<1>1. ASSUME NEW s \in Sockets, ServerReads(s) PROVE NeverStranded'
  <2>1. UNCHANGED <<closing, dialing, overtaken, swallowed, reconnectDue, socket, connects, credential>>
    BY <1>1 DEF ServerReads, ServerIdentifies, ServerResumes, ServerReadsIntent
  <2>2. \/ UNCHANGED <<wire, toClient>>
        \/ toClient' = Answered(s, <<Done(TRUE)>>) /\ wire' = [wire EXCEPT ![s] = "ended"]
        \/ wire[s] = "open" /\ UNCHANGED wire
           /\ \A t \in Sockets : t # s => toClient'[t] = toClient[t]
    BY <1>0, <1>1
       DEF ServerReads, ServerIdentifies, ServerResumes, ServerReadsIntent, Answered
  <2>3. CASE UNCHANGED <<wire, toClient>>
    BY <2>1, <2>3, NetworkKeepsAWay
  <2>4. CASE toClient' = Answered(s, <<Done(TRUE)>>) /\ wire' = [wire EXCEPT ![s] = "ended"]
    BY <1>0, <2>1, <2>4, AnsweredWaits, NetworkKeepsAWay
  <2>5. CASE /\ wire[s] = "open" /\ UNCHANGED wire
             /\ \A t \in Sockets : t # s => toClient'[t] = toClient[t]
    BY <2>1, <2>5, NetworkKeepsAWay
  <2> QED BY <2>2, <2>3, <2>4, <2>5
<1>2. ASSUME NEW s \in Sockets, EndLink(s) PROVE NeverStranded'
  BY <1>0, <1>2, AnsweredWaits, NetworkKeepsAWay DEF EndLink
<1>3. ASSUME NEW s \in Sockets,
             ServerCloses(s) \/ ServerDropsIdle(s) \/ BrokenLinkEnds(s)
      PROVE  NeverStranded'
  BY <1>2, <1>3 DEF ServerCloses, ServerDropsIdle, BrokenLinkEnds
<1>4. ASSUME NEW s \in Sockets, ServerAsks(s) \/ LinkBreaks(s) PROVE NeverStranded'
  <2>1. /\ UNCHANGED <<closing, dialing, overtaken, swallowed, reconnectDue, socket, connects, credential>>
        /\ wire'[s] # "ended"
        /\ \A t \in Sockets : t # s => toClient'[t] = toClient[t] /\ wire'[t] = wire[t]
    BY <1>0, <1>4 DEF ServerAsks, LinkBreaks, Answered
  <2> QED BY <2>1, NetworkKeepsAWay
<1>5. ASSUME NEW n \in Sessions, ServerDispatches(n) PROVE NeverStranded'
  <2>1. /\ UNCHANGED <<closing, dialing, overtaken, swallowed, reconnectDue, socket, connects, credential, wire>>
        /\ \A t \in Sockets : wire[t] = "ended" => toClient'[t] = toClient[t]
    BY <1>5 DEF ServerDispatches
  <2> QED BY <2>1, NetworkKeepsAWay
<1>6. ASSUME NEW n \in Sessions, SessionExpires(n) PROVE NeverStranded'
  BY <1>6, NetworkKeepsAWay DEF SessionExpires
<1>7. CASE CredentialIsRevoked
  BY <1>7, NetworkKeepsAWay DEF CredentialIsRevoked
<1> QED BY <1>1, <1>3, <1>4, <1>5, <1>6, <1>7 DEF External

\* An overtaken dial was let in by a client that was closing, and one that is
\* not any more was asked to connect since.
OvertakenInv == overtaken => closing \/ swallowed

LEMMA OvertakenHolds == Spec => []OvertakenInv
<1>1. Init => OvertakenInv
  BY DEF Init, OvertakenInv
<1>2. OvertakenInv /\ [Next]_vars => OvertakenInv'
  <2> SUFFICES ASSUME OvertakenInv, [Next]_vars PROVE OvertakenInv'
    OBVIOUS
  <2> USE DEF OvertakenInv, driver, bounds, calls
  <2>1. CASE Connect
    BY <2>1 DEF Connect
  <2>2. CASE CloseBegin \/ CloseEnd
    BY <2>2 DEF CloseBegin, CloseEnd
  <2>3. ASSUME NEW i \in Intents, NEW want \in BOOLEAN, SetIntent(i, want)
        PROVE  OvertakenInv'
    BY <2>3 DEF SetIntent
  <2>4. CASE Timers
    BY <2>4 DEF Timers, ReconnectTimer, HeartbeatTimer, DialSucceeds,
                OvertakenCloses, DialFails
  <2>5. ASSUME NEW s \in Sockets, SocketStep(s) PROVE OvertakenInv'
    BY <2>5
       DEF SocketStep, TakeFrame, SkipStaleFrame, HoldLargeFrame, AcceptHello,
           AcceptAck, AcceptHeartbeatRequest, AcceptReconnect,
           AcceptInvalidSession, AcceptDispatch, LoseFrame, MisreadFrame,
           AcceptDone
  <2>6. CASE External
    BY <2>6
       DEF External, ServerReads, ServerIdentifies, ServerResumes,
           ServerReadsIntent, ServerDispatches, ServerAsks, EndLink,
           ServerCloses, ServerDropsIdle, LinkBreaks, BrokenLinkEnds,
           SessionExpires, CredentialIsRevoked
  <2>7. CASE UNCHANGED vars
    BY <2>7 DEF vars
  <2> QED
    BY <2>1, <2>2, <2>3, <2>4, <2>5, <2>6, <2>7 DEF Next, User
<1> QED BY <1>1, <1>2, PTL DEF Spec

LEMMA CallsAndTimersKeepAWay ==
    ASSUME TypeOK, OvertakenInv, NeverStranded, User \/ Timers
    PROVE  NeverStranded'
<1> USE DEF driver, server, bounds, calls
<1>1. CASE Connect
  BY <1>1 DEF Connect, Open, NeverStranded
<1>2. CASE CloseBegin \/ CloseEnd
  BY <1>2 DEF CloseBegin, CloseEnd, links, NeverStranded, Waiting
<1>3. ASSUME NEW i \in Intents, NEW want \in BOOLEAN, SetIntent(i, want)
      PROVE  NeverStranded'
  BY <1>3, SendingKeepsAWay DEF SetIntent
<1>4. CASE ReconnectTimer
  BY <1>4 DEF ReconnectTimer, Open, OvertakenInv, NeverStranded
<1>5. CASE HeartbeatTimer
  BY <1>5, SendingKeepsAWay DEF HeartbeatTimer
<1>6. CASE DialFails
  <2>1. \/ Stays(toClient) /\ (closing \/ reconnectDue)
        \/ Drops(toClient)
    BY <1>6, ScheduleMoves DEF DialFails, ReconnectIgnored
  <2>2. UNCHANGED <<closing, overtaken, credential, connects, swallowed>>
    BY <1>6 DEF DialFails
  <2> QED BY <2>1, <2>2 DEF Stays, Drops, NeverStranded
<1>7. CASE DialSucceeds
  <2>1. CASE closing
    BY <1>7, <2>1 DEF DialSucceeds, NeverStranded
  <2>2. CASE ~closing
    <3>1. PICK s \in Sockets : socket' = s /\ wire' = [wire EXCEPT ![s] = "open"]
      BY <1>7, <2>2 DEF DialSucceeds
    <3>2. socket' # NoSocket /\ wire'[socket'] = "open"
      BY <3>1, SocketsExist DEF TypeOK
    <3> QED BY <3>2 DEF NeverStranded
  <2> QED BY <2>1, <2>2
<1>8. CASE OvertakenCloses
  BY <1>8 DEF OvertakenCloses, OvertakenInv, NeverStranded
<1> QED BY <1>1, <1>2, <1>3, <1>4, <1>5, <1>6, <1>7, <1>8 DEF User, Timers

\* After connect() a client that is not being closed always has a way back: a
\* dial that may attach, a reconnect that is due, or a socket that is not over
\* for it, whose end is still to come as the last frame it takes.  Only a
\* rejected credential leaves it none, and a connect() swallowed by a dial that
\* close() overtook, until the next one.
THEOREM NeverLeftStranded == Spec => []NeverStranded
<1>1. Init => NeverStranded
  BY DEF Init, NeverStranded
<1>2. TypeOK /\ TurnInv /\ OvertakenInv /\ NeverStranded /\ [Next]_vars
         => NeverStranded'
  <2> SUFFICES ASSUME TypeOK, TurnInv, OvertakenInv, NeverStranded,
                      [Next]_vars
               PROVE  NeverStranded'
    OBVIOUS
  <2>1. CASE UNCHANGED vars
    BY <2>1 DEF vars, driver, server, links, bounds, calls, NeverStranded, Waiting
  <2> QED BY <2>1, SocketStepKeepsAWay, NetworkStepKeepsAWay, CallsAndTimersKeepAWay
      DEF Next
<1> QED BY <1>1, <1>2, TypeCorrect, TurnsHold, OvertakenHolds, PTL DEF Spec

-----------------------------------------------------------------------------
(* What the current socket brings of its session.  Its dispatches continue *)
(* where those handed on stop, in order and without a gap, and while the   *)
(* socket carries a session nothing that session said is missing.          *)

\* How far the server has counted in each session, the numbers handed on, and
\* those the client will not ask for again: handed on, misread or forgone.
Lengths == [n \in Sessions |-> Len(log[n])]
Handed == [n \in Sessions |-> Range(delivered[n])]
Accounted == [n \in Sessions |-> Range(delivered[n]) \cup misread[n] \cup forgone[n]]

\* A queue q continues, for a client whose session is sid, sessions of the lengths
\* L of which the numbers R were handed on and C are accounted for.
InLine(q, sid, L, R, C) ==
    \A i \in 1 .. Len(q) : q[i].op = "dispatch" =>
        /\ sid \in {NoSession, q[i].session}
        /\ q[i].n <= L[q[i].session]
        /\ \A d \in R[q[i].session] : d < q[i].n
        /\ \A j \in 1 .. Len(q) : j < i /\ q[j].op = "dispatch" =>
              q[j].session = q[i].session /\ q[j].n < q[i].n
        /\ \A k \in 1 .. MaxEvents : k < q[i].n =>
              \/ k \in C[q[i].session]
              \/ \E j \in 1 .. Len(q) : j < i /\ q[j] = Dispatch(q[i].session, k)

\* A queue q holds all of the session b that is not accounted for.
Complete(q, b, sid, L, C) ==
    b # NoSession =>
        /\ sid \in {NoSession, b}
        /\ \A i \in 1 .. Len(q) : q[i].op = "dispatch" => q[i].session = b
        /\ \A k \in 1 .. MaxEvents : k <= L[b] =>
              k \in C[b] \/ \E j \in 1 .. Len(q) : q[j] = Dispatch(b, k)

FlowInv ==
    disposal # "done" /\ socket # NoSocket =>
        /\ InLine(toClient[socket], sessionId, Lengths, Handed, Accounted)
        /\ wire[socket] = "open" =>
              Complete(toClient[socket], bound[socket], sessionId, Lengths, Accounted)

\* A session a link carries has begun, and no other link carries it.
BoundInv ==
    /\ \A s \in Sockets : bound[s] # NoSession => log[bound[s]] # <<>>
    /\ \A s, t \in Sockets : bound[s] = bound[t] /\ bound[s] # NoSession => s = t

\* The opening on its way on the current socket is of the client's session, at
\* the number the client has reached.
OpensAsIs(out, sid, seq) ==
    \A i \in 1 .. Len(out) :
        /\ out[i].op = "identify" => sid = NoSession
        /\ out[i].op = "resume" => out[i].session = sid /\ out[i].n = seq

OpeningInv ==
    socket # NoSocket /\ wire[socket] = "open" =>
        OpensAsIs(toServer[socket], sessionId, sequence)

\* What was handed on exists, in order, and of the client's own session it is
\* no later than the number it resumes from.
AccountInv ==
    /\ \A n \in Sessions : \A d \in Handed[n] : d <= Lengths[n]
    /\ DeliveredInOrder
    /\ disposal # "done" /\ sessionId # NoSession =>
          /\ \A d \in Handed[sessionId] : d <= sequence
          /\ \A k \in 1 .. MaxEvents : k <= sequence => k \in Accounted[sessionId]

\* A dispatch is what it says of itself.
LEMMA DispatchIs ==
    /\ \A f \in ServerFrames : f.op = "dispatch" =>
          f.session \in Sessions /\ f.n \in 1 .. MaxEvents /\ f = Dispatch(f.session, f.n)
    /\ \A n, k : /\ Dispatch(n, k).op = "dispatch" /\ Dispatch(n, k).session = n
                 /\ Dispatch(n, k).n = k
    /\ NoSession \notin Sessions
BY DEF ServerFrames, Dispatch, Sessions, NoSession

\* The client takes a frame: what is behind it continues where it stops.  The
\* numbers handed on may grow by the one it brings, which is accounted for; a
\* session may be named by it.
LEMMA LineTaken ==
    ASSUME NEW q \in Seq(ServerFrames), q # <<>>, NEW sid, NEW L, NEW R, NEW C,
           InLine(q, sid, L, R, C), NEW f, f = Head(q),
           NEW sid2, sid2 = sid \/ (f.op = "dispatch" /\ sid2 = f.session),
           NEW R2, \A n \in Sessions : \A d \in R2[n] :
                      d \in R[n] \/ (f.op = "dispatch" /\ n = f.session /\ d = f.n),
           NEW C2, \A n \in Sessions : \A k \in C[n] : k \in C2[n],
           f.op = "dispatch" => f.n \in C2[f.session]
    PROVE  /\ InLine(Tail(q), sid2, L, R2, C2)
           /\ \A b \in Sessions : Complete(q, b, sid, L, C) => Complete(Tail(q), b, sid2, L, C2)
           /\ f.op = "dispatch" =>
                 /\ sid \in {NoSession, f.session} /\ f.n <= L[f.session]
                 /\ \A d \in R[f.session] : d < f.n
                 /\ \A k \in 1 .. MaxEvents : k <= f.n => k \in C2[f.session]
<1>1. /\ Len(q) \in Nat /\ Len(q) >= 1 /\ f = q[1] /\ f \in ServerFrames
      /\ Tail(q) \in Seq(ServerFrames) /\ Len(Tail(q)) = Len(q) - 1
      /\ \A i \in 1 .. Len(Tail(q)) : Tail(q)[i] = q[i + 1]
  BY TailPlaces
<1>2. \A i \in 1 .. Len(q) : q[i] \in ServerFrames
  OBVIOUS
<1>3. /\ 1 \in 1 .. Len(q)
      /\ \A i \in 1 .. Len(Tail(q)) : i \in Nat /\ i + 1 \in 1 .. Len(q) /\ 1 < i + 1
      /\ \A j \in 1 .. Len(q) : j = 1 \/ (j - 1 \in 1 .. Len(Tail(q)) /\ (j - 1) + 1 = j)
  BY <1>1
<1>4. ASSUME NEW s, NEW k, k \in C2[s] \/ ~(f.op = "dispatch" /\ f.session = s /\ f.n = k),
             NEW m \in Nat, \E j \in 1 .. Len(q) : j < m + 1 /\ q[j] = Dispatch(s, k)
      PROVE  k \in C2[s] \/ \E j \in 1 .. Len(Tail(q)) : j < m /\ Tail(q)[j] = Dispatch(s, k)
  <2>1. PICK j \in 1 .. Len(q) : j < m + 1 /\ q[j] = Dispatch(s, k)
    BY <1>4
  <2>2. CASE j = 1
    BY <1>1, <1>4, <2>1, <2>2, DispatchIs
  <2>3. CASE j - 1 \in 1 .. Len(Tail(q)) /\ (j - 1) + 1 = j
    <3>1. j - 1 < m /\ Tail(q)[j - 1] = Dispatch(s, k)
      BY <1>1, <2>1, <2>3
    <3> QED BY <2>3, <3>1
  <2> QED BY <1>3, <2>2, <2>3
<1>5. InLine(Tail(q), sid2, L, R2, C2)
  <2> SUFFICES ASSUME NEW i \in 1 .. Len(Tail(q)), q[i + 1].op = "dispatch"
               PROVE
        /\ sid2 \in {NoSession, q[i + 1].session}
        /\ q[i + 1].n <= L[q[i + 1].session]
        /\ \A d \in R2[q[i + 1].session] : d < q[i + 1].n
        /\ \A j \in 1 .. Len(Tail(q)) : j < i /\ q[j + 1].op = "dispatch" =>
              q[j + 1].session = q[i + 1].session /\ q[j + 1].n < q[i + 1].n
        /\ \A k \in 1 .. MaxEvents : k < q[i + 1].n =>
              \/ k \in C2[q[i + 1].session]
              \/ \E j \in 1 .. Len(Tail(q)) :
                    j < i /\ Tail(q)[j] = Dispatch(q[i + 1].session, k)
    BY <1>1 DEF InLine
  <2> DEFINE g == q[i + 1]
  <2>1. /\ g \in ServerFrames /\ g.op = "dispatch" /\ g.session \in Sessions /\ g.n \in Nat
        /\ i + 1 \in 1 .. Len(q) /\ i \in Nat
    BY <1>2, <1>3, DispatchIs, BoundsAssumption
  <2>2. /\ sid \in {NoSession, g.session} /\ g.n <= L[g.session]
        /\ \A d \in R[g.session] : d < g.n
        /\ \A j \in 1 .. Len(q) : j < i + 1 /\ q[j].op = "dispatch" =>
              q[j].session = g.session /\ q[j].n < g.n
        /\ \A k \in 1 .. MaxEvents : k < g.n =>
              \/ k \in C[g.session]
              \/ \E j \in 1 .. Len(q) : j < i + 1 /\ q[j] = Dispatch(g.session, k)
    BY <2>1 DEF InLine
  <2>3. f.op = "dispatch" => f.session = g.session /\ f.n < g.n
    BY <1>1, <1>3, <2>2
  <2>4. sid2 \in {NoSession, g.session}
    BY <2>2, <2>3
  <2>5. \A d \in R2[g.session] : d < g.n
    BY <2>1, <2>2, <2>3
  <2>6. \A j \in 1 .. Len(Tail(q)) : j < i /\ q[j + 1].op = "dispatch" =>
           q[j + 1].session = g.session /\ q[j + 1].n < g.n
    <3>1. \A j \in 1 .. Len(Tail(q)) : j < i => j + 1 \in 1 .. Len(q) /\ j + 1 < i + 1
      BY <1>3
    <3> HIDE DEF g
    <3> QED BY <2>2, <3>1
  <2>7. ASSUME NEW k \in 1 .. MaxEvents, k < g.n
        PROVE  \/ k \in C2[g.session]
               \/ \E j \in 1 .. Len(Tail(q)) : j < i /\ Tail(q)[j] = Dispatch(g.session, k)
    <3>1. CASE k \in C[g.session]
      BY <2>1, <3>1
    <3>2. CASE \E j \in 1 .. Len(q) : j < i + 1 /\ q[j] = Dispatch(g.session, k)
      <4>1. k \in C2[g.session] \/ ~(f.op = "dispatch" /\ f.session = g.session /\ f.n = k)
        OBVIOUS
      <4> HIDE DEF g
      <4> QED BY <1>4, <2>1, <3>2, <4>1
    <3> QED BY <2>2, <2>7, <3>1, <3>2
  <2> QED BY <2>2, <2>4, <2>5, <2>6, <2>7
<1>6. ASSUME NEW b \in Sessions, Complete(q, b, sid, L, C)
      PROVE  Complete(Tail(q), b, sid2, L, C2)
  <2>1. /\ sid \in {NoSession, b}
        /\ \A i \in 1 .. Len(q) : q[i].op = "dispatch" => q[i].session = b
        /\ \A k \in 1 .. MaxEvents : k <= L[b] =>
              k \in C[b] \/ \E j \in 1 .. Len(q) : q[j] = Dispatch(b, k)
    BY <1>6, DispatchIs DEF Complete
  <2>2. sid2 \in {NoSession, b}
    BY <1>1, <1>3, <2>1
  <2>3. \A i \in 1 .. Len(Tail(q)) : Tail(q)[i].op = "dispatch" => Tail(q)[i].session = b
    BY <1>1, <1>3, <2>1
  <2>4. ASSUME NEW k \in 1 .. MaxEvents, k <= L[b]
        PROVE  k \in C2[b] \/ \E j \in 1 .. Len(Tail(q)) : Tail(q)[j] = Dispatch(b, k)
    <3>1. CASE k \in C[b]
      BY <3>1
    <3>2. CASE \E j \in 1 .. Len(q) : q[j] = Dispatch(b, k)
      <4>1. \E j \in 1 .. Len(q) : j < Len(q) + 1 /\ q[j] = Dispatch(b, k)
        BY <1>1, <3>2
      <4>2. k \in C2[b] \/ ~(f.op = "dispatch" /\ f.session = b /\ f.n = k)
        OBVIOUS
      <4> QED BY <1>1, <1>4, <4>1, <4>2
    <3> QED BY <2>1, <2>4, <3>1, <3>2
  <2> QED BY <2>2, <2>3, <2>4 DEF Complete
<1>7. ASSUME f.op = "dispatch"
      PROVE  /\ sid \in {NoSession, f.session} /\ f.n <= L[f.session]
             /\ \A d \in R[f.session] : d < f.n
             /\ \A k \in 1 .. MaxEvents : k <= f.n => k \in C2[f.session]
  <2>1. f.session \in Sessions /\ f.n \in 1 .. MaxEvents
    BY <1>1, <1>7, DispatchIs
  <2>2. /\ sid \in {NoSession, f.session} /\ f.n <= L[f.session]
        /\ \A d \in R[f.session] : d < f.n
        /\ \A k \in 1 .. MaxEvents : k < f.n =>
              \/ k \in C[f.session]
              \/ \E j \in 1 .. Len(q) : j < 1 /\ q[j] = Dispatch(f.session, k)
    BY <1>1, <1>3, <1>7 DEF InLine
  <2>3. \A k \in 1 .. MaxEvents : k <= f.n => k \in C2[f.session]
    <3> SUFFICES ASSUME NEW k \in 1 .. MaxEvents, k <= f.n PROVE k \in C2[f.session]
      OBVIOUS
    <3>1. CASE k = f.n
      BY <1>7, <3>1
    <3>2. CASE k < f.n
      <4>1. k \in C[f.session]
        BY <1>1, <2>2, <3>2
      <4> QED BY <2>1, <4>1
    <3> QED BY <2>1, <3>1, <3>2
  <2> QED BY <2>2, <2>3
<1> QED BY <1>5, <1>6, <1>7

\* A frame that is no dispatch comes behind it, or what was on its way is cut off.
LEMMA LineFollowed ==
    ASSUME NEW q \in Seq(ServerFrames), NEW f \in ServerFrames, f.op # "dispatch",
           NEW sid, NEW L, NEW R, NEW C
    PROVE  /\ InLine(q, sid, L, R, C) => InLine(Append(q, f), sid, L, R, C)
           /\ \A b : Complete(q, b, sid, L, C) => Complete(Append(q, f), b, sid, L, C)
<1>1. /\ Len(Append(q, f)) = Len(q) + 1 /\ Append(q, f)[Len(q) + 1] = f
      /\ \A i \in 1 .. Len(q) : Append(q, f)[i] = q[i]
      /\ Len(q) \in Nat
  BY AppendPlaces
<1> DEFINE p == Append(q, f)
<1>2. /\ \A i \in 1 .. Len(p) : p[i].op = "dispatch" => i \in 1 .. Len(q) /\ p[i] = q[i]
      /\ \A i \in 1 .. Len(q) : i \in 1 .. Len(p) /\ p[i] = q[i]
  BY <1>1
<1> HIDE DEF p
<1>3. InLine(q, sid, L, R, C) => InLine(p, sid, L, R, C)
  BY <1>2 DEF InLine
<1>4. \A b : Complete(q, b, sid, L, C) => Complete(p, b, sid, L, C)
  BY <1>2 DEF Complete
<1> QED BY <1>3, <1>4 DEF p

LEMMA LineCut ==
    ASSUME NEW q \in Seq(ServerFrames), NEW k \in 0 .. Len(q),
           NEW sid, NEW L, NEW R, NEW C, InLine(q, sid, L, R, C)
    PROVE  InLine(SubSeq(q, 1, k), sid, L, R, C)
<1> DEFINE p == SubSeq(q, 1, k)
<1>1. /\ Len(q) \in Nat /\ Len(p) = k
      /\ \A i \in 1 .. k : p[i] = q[i] /\ i \in 1 .. Len(q)
  OBVIOUS
<1>2. \A i \in 1 .. Len(p), j \in 1 .. Len(q) : j < i => j \in 1 .. Len(p)
  BY <1>1
<1> HIDE DEF p
<1>3. InLine(p, sid, L, R, C)
  BY <1>1, <1>2 DEF InLine
<1> QED BY <1>3 DEF p

\* The sessions grow elsewhere.
LEMMA LineOutgrown ==
    ASSUME NEW q \in Seq(ServerFrames), NEW sid, NEW R, NEW C,
           NEW L, NEW L2, L \in [Sessions -> Nat], L2 \in [Sessions -> Nat],
           \A n \in Sessions : L[n] <= L2[n]
    PROVE  /\ InLine(q, sid, L, R, C) => InLine(q, sid, L2, R, C)
           /\ \A b \in Sessions : L2[b] = L[b] /\ Complete(q, b, sid, L, C)
                 => Complete(q, b, sid, L2, C)
<1>1. InLine(q, sid, L, R, C) => InLine(q, sid, L2, R, C)
  <2>1. \A i \in 1 .. Len(q) : q[i].op = "dispatch" =>
           q[i].session \in Sessions /\ q[i].n \in Nat
    BY DispatchIs, BoundsAssumption
  <2> QED BY <2>1 DEF InLine
<1> QED BY <1>1 DEF Complete

\* A queue without dispatches continues anything.
LEMMA LineIsFree ==
    /\ \A q, sid, L, R, C : (\A i \in 1 .. Len(q) : q[i].op # "dispatch") =>
          InLine(q, sid, L, R, C)
    /\ \A q, sid, L, C : Complete(q, NoSession, sid, L, C)
BY DEF InLine, Complete

\* The session a socket carries says something more.
LEMMA LineGrows ==
    ASSUME NEW q \in Seq(ServerFrames), NEW b \in Sessions, NEW sid,
           NEW L \in [Sessions -> Nat], NEW R, NEW C,
           InLine(q, sid, L, R, C), Complete(q, b, sid, L, C),
           \A d \in R[b] : d \in Nat /\ d <= L[b],
           NEW L2 \in [Sessions -> Nat], L2[b] = L[b] + 1, L2[b] \in 1 .. MaxEvents,
           \A n \in Sessions : L[n] <= L2[n]
    PROVE  /\ InLine(Append(q, Dispatch(b, L2[b])), sid, L2, R, C)
           /\ Complete(Append(q, Dispatch(b, L2[b])), b, sid, L2, C)
<1> DEFINE f == Dispatch(b, L2[b])
<1> DEFINE p == Append(q, f)
<1>0. f \in ServerFrames /\ f.op = "dispatch" /\ f.session = b /\ f.n = L2[b]
  BY FramesTyped, DispatchIs
<1>1. /\ Len(p) = Len(q) + 1 /\ p[Len(q) + 1] = f
      /\ \A i \in 1 .. Len(q) : p[i] = q[i]
      /\ Len(q) \in Nat /\ p \in Seq(ServerFrames)
  BY <1>0, AppendPlaces
<1>2. /\ \A i \in 1 .. Len(p) : i \in 1 .. Len(q) \/ i = Len(q) + 1
      /\ \A i \in 1 .. Len(q) : i \in 1 .. Len(p) /\ i < Len(q) + 1
      /\ \A i \in 1 .. Len(q), j \in 1 .. Len(p) : j < i => j \in 1 .. Len(q)
      /\ Len(q) + 1 \in 1 .. Len(p)
  BY <1>1
<1>3. /\ sid \in {NoSession, b}
      /\ \A i \in 1 .. Len(q) : q[i].op = "dispatch" => q[i].session = b
      /\ \A k \in 1 .. MaxEvents : k <= L[b] =>
            k \in C[b] \/ \E j \in 1 .. Len(q) : q[j] = Dispatch(b, k)
  BY DispatchIs DEF Complete
<1>4. \A k \in 1 .. MaxEvents : k < L2[b] => k <= L[b]
  OBVIOUS
<1>5. \A i \in 1 .. Len(q) : q[i].op = "dispatch" => q[i].n < L2[b]
  <2>1. \A i \in 1 .. Len(q) : q[i].op = "dispatch" =>
           q[i].n <= L[b] /\ q[i].n \in 1 .. MaxEvents
    BY <1>3, DispatchIs DEF InLine
  <2> QED BY <2>1
<1>6. \A k \in 1 .. MaxEvents : k <= L2[b] => k < L2[b] \/ k = L2[b]
  OBVIOUS
<1>7. \A d \in R[b] : d < L2[b]
  OBVIOUS
<1>8. InLine(q, sid, L2, R, C)
  BY LineOutgrown
<1>9. InLine(p, sid, L2, R, C)
  <2> SUFFICES ASSUME NEW i \in 1 .. Len(p), p[i].op = "dispatch"
               PROVE
        /\ sid \in {NoSession, p[i].session}
        /\ p[i].n <= L2[p[i].session]
        /\ \A d \in R[p[i].session] : d < p[i].n
        /\ \A j \in 1 .. Len(p) : j < i /\ p[j].op = "dispatch" =>
              p[j].session = p[i].session /\ p[j].n < p[i].n
        /\ \A k \in 1 .. MaxEvents : k < p[i].n =>
              \/ k \in C[p[i].session]
              \/ \E j \in 1 .. Len(p) : j < i /\ p[j] = Dispatch(p[i].session, k)
    BY DEF InLine
  <2>1. CASE i \in 1 .. Len(q)
    <3> HIDE DEF p
    <3>1. p[i] = q[i] /\ q[i].op = "dispatch"
      BY <1>1, <2>1
    <3>2. /\ sid \in {NoSession, q[i].session}
          /\ q[i].n <= L2[q[i].session]
          /\ \A d \in R[q[i].session] : d < q[i].n
          /\ \A j \in 1 .. Len(q) : j < i /\ q[j].op = "dispatch" =>
                q[j].session = q[i].session /\ q[j].n < q[i].n
          /\ \A k \in 1 .. MaxEvents : k < q[i].n =>
                \/ k \in C[q[i].session]
                \/ \E j \in 1 .. Len(q) : j < i /\ q[j] = Dispatch(q[i].session, k)
      BY <1>8, <2>1, <3>1 DEF InLine
    <3>3. \A j \in 1 .. Len(p) : j < i /\ p[j].op = "dispatch" =>
             p[j].session = q[i].session /\ p[j].n < q[i].n
      BY <1>1, <1>2, <2>1, <3>2
    <3>4. \A k \in 1 .. MaxEvents : k < q[i].n =>
             \/ k \in C[q[i].session]
             \/ \E j \in 1 .. Len(p) : j < i /\ p[j] = Dispatch(q[i].session, k)
      BY <1>1, <1>2, <3>2
    <3> QED BY <3>1, <3>2, <3>3, <3>4
  <2>2. CASE i = Len(q) + 1
    <3>1. p[i] = f
      BY <1>1, <2>2
    <3>2. sid \in {NoSession, p[i].session}
      BY <1>0, <1>3, <3>1
    <3>3. p[i].n <= L2[p[i].session]
      <4>1. L2[b] <= L2[b]
        OBVIOUS
      <4> HIDE DEF p, f
      <4> QED BY <1>0, <3>1, <4>1
    <3>4. \A d \in R[p[i].session] : d < p[i].n
      BY <1>0, <1>7, <3>1
    <3>5. \A j \in 1 .. Len(p) : j < i => j \in 1 .. Len(q)
      BY <1>1, <2>2
    <3>6. \A j \in 1 .. Len(p) : j < i /\ p[j].op = "dispatch" =>
             p[j].session = p[i].session /\ p[j].n < p[i].n
      <4> HIDE DEF p, f
      <4> QED BY <1>0, <1>1, <1>3, <1>5, <3>1, <3>5
    <3>7. \A k \in 1 .. MaxEvents : k < p[i].n =>
             \/ k \in C[p[i].session]
             \/ \E j \in 1 .. Len(p) : j < i /\ p[j] = Dispatch(p[i].session, k)
      <4> HIDE DEF p, f
      <4> QED BY <1>0, <1>1, <1>2, <1>3, <1>4, <2>2, <3>1
    <3> QED BY <3>2, <3>3, <3>4, <3>6, <3>7
  <2> QED BY <1>2, <2>1, <2>2
<1>10. Complete(p, b, sid, L2, C)
  <2>1. \A i \in 1 .. Len(p) : p[i].op = "dispatch" => p[i].session = b
    <3> HIDE DEF p, f
    <3> QED BY <1>0, <1>1, <1>2, <1>3
  <2>2. ASSUME NEW k \in 1 .. MaxEvents, k <= L2[b]
        PROVE  k \in C[b] \/ \E j \in 1 .. Len(p) : p[j] = Dispatch(b, k)
    <3>1. CASE k = L2[b]
      BY <1>1, <1>2, <3>1
    <3>2. CASE k < L2[b]
      <4> HIDE DEF p, f
      <4> QED BY <1>1, <1>2, <1>3, <1>4, <3>2
    <3> QED BY <1>6, <2>2, <3>1, <3>2
  <2> HIDE DEF p, f
  <2> QED BY <1>3, <2>1, <2>2 DEF Complete
<1> QED BY <1>9, <1>10

\* A session is opened afresh: its READY is all there is of it.
LEMMA LineBegins ==
    ASSUME NEW b \in Sessions, NEW L, L[b] = 1, NEW R, R[b] = {}, NEW C
    PROVE  /\ InLine(<<Dispatch(b, 1)>>, NoSession, L, R, C)
           /\ Complete(<<Dispatch(b, 1)>>, b, NoSession, L, C)
<1> DEFINE p == <<Dispatch(b, 1)>>
<1>1. Len(p) = 1 /\ p[1] = Dispatch(b, 1) /\ 1 \in 1 .. Len(p)
      /\ \A i \in 1 .. Len(p) : i = 1
  OBVIOUS
<1>2. /\ \A k \in 1 .. MaxEvents : ~(k < 1) /\ (k <= 1 => k = 1)
      /\ ~(1 < 1) /\ 1 <= 1
  OBVIOUS
<1> HIDE DEF p
<1>3. InLine(p, NoSession, L, R, C)
  BY <1>1, <1>2, DispatchIs DEF InLine
<1>4. Complete(p, b, NoSession, L, C)
  BY <1>1, <1>2, DispatchIs DEF Complete
<1> QED BY <1>3, <1>4 DEF p

\* A session is resumed: the replay is what it said after the number the client
\* has reached.
LEMMA LineContinues ==
    ASSUME NEW b \in Sessions, NEW from \in Nat, NEW L, L[b] \in 0 .. MaxEvents,
           NEW R, \A d \in R[b] : d \in Nat /\ d <= from,
           NEW C, \A k \in 1 .. MaxEvents : k <= from => k \in C[b],
           NEW l \in Nat, l > 0 => l = L[b] - from, l = 0 => L[b] <= from,
           NEW p, Len(p) = l,
           \A i \in 1 .. l : p[i] = Dispatch(b, from + i)
    PROVE  InLine(p, b, L, R, C) /\ Complete(p, b, b, L, C)
<1>1. \A i \in 1 .. l : /\ Dispatch(b, from + i).op = "dispatch"
                        /\ Dispatch(b, from + i).session = b
                        /\ Dispatch(b, from + i).n = from + i
  BY DispatchIs
<1>5. \A i \in 1 .. l : /\ p[i].op = "dispatch" /\ p[i].session = b
                        /\ p[i].n = from + i
  BY <1>1
<1>6. \A i \in 1 .. l : /\ from + i \in Nat /\ from + i <= L[b]
                        /\ \A d \in R[b] : d < from + i
                        /\ \A j \in 1 .. l : j < i => from + j < from + i
  OBVIOUS
<1>7. ASSUME NEW k \in 1 .. MaxEvents
      PROVE  \/ k \in C[b]
             \/ k > L[b]
             \/ \E j \in 1 .. l : j = k - from /\ p[j] = Dispatch(b, k)
  <2>1. CASE k <= from
    BY <2>1
  <2>2. CASE k > from /\ k <= L[b]
    <3>1. k - from \in 1 .. l /\ from + (k - from) = k
      BY <2>2
    <3> QED BY <3>1
  <2>3. k <= from \/ (k > from /\ k <= L[b]) \/ k > L[b]
    OBVIOUS
  <2> QED BY <2>1, <2>2, <2>3
<1>8. InLine(p, b, L, R, C)
  <2> SUFFICES ASSUME NEW i \in 1 .. l
               PROVE
        /\ b \in {NoSession, p[i].session}
        /\ p[i].n <= L[p[i].session]
        /\ \A d \in R[p[i].session] : d < p[i].n
        /\ \A j \in 1 .. l : j < i /\ p[j].op = "dispatch" =>
              p[j].session = p[i].session /\ p[j].n < p[i].n
        /\ \A k \in 1 .. MaxEvents : k < p[i].n =>
              \/ k \in C[p[i].session]
              \/ \E j \in 1 .. l : j < i /\ p[j] = Dispatch(p[i].session, k)
    BY DEF InLine
  <2>1. ASSUME NEW k \in 1 .. MaxEvents, k < from + i
        PROVE  k \in C[b] \/ \E j \in 1 .. l : j < i /\ p[j] = Dispatch(b, k)
    <3>1. ~(k > L[b]) /\ k - from < i
      BY <1>6, <2>1
    <3> QED BY <1>7, <3>1
  <2> QED BY <1>5, <1>6, <2>1
<1>9. Complete(p, b, b, L, C)
  <2>1. ASSUME NEW k \in 1 .. MaxEvents, k <= L[b]
        PROVE  k \in C[b] \/ \E j \in 1 .. l : p[j] = Dispatch(b, k)
    <3>1. ~(k > L[b])
      BY <2>1
    <3> QED BY <1>7, <3>1
  <2> QED BY <1>5, <2>1 DEF Complete
<1> QED BY <1>8, <1>9

LEMMA LineResumes ==
    ASSUME NEW b \in Sessions, NEW from \in Nat, NEW L, L[b] \in 0 .. MaxEvents,
           NEW R, \A d \in R[b] : d \in Nat /\ d <= from,
           NEW C, \A k \in 1 .. MaxEvents : k <= from => k \in C[b]
    PROVE  /\ InLine([k \in 1 .. (L[b] - from) |-> Dispatch(b, from + k)], b, L, R, C)
           /\ Complete([k \in 1 .. (L[b] - from) |-> Dispatch(b, from + k)], b, b, L, C)
<1> DEFINE Replay(l) == [k \in 1 .. l |-> Dispatch(b, from + k)]
<1>1. PICK l \in Nat : /\ 1 .. (L[b] - from) = 1 .. l
                       /\ l > 0 => l = L[b] - from
                       /\ l = 0 => L[b] <= from
  <2>1. CASE L[b] - from > 0
    <3>1. L[b] - from \in Nat
      BY <2>1
    <3> QED BY <3>1
  <2>2. CASE ~(L[b] - from > 0)
    <3>1. 1 .. (L[b] - from) = 1 .. 0 /\ L[b] <= from
      BY <2>2
    <3> QED BY <3>1
  <2> QED BY <2>1, <2>2
<1>2. /\ Len(Replay(l)) = l
      /\ \A i \in 1 .. l : Replay(l)[i] = Dispatch(b, from + i)
  OBVIOUS
<1>3. [k \in 1 .. (L[b] - from) |-> Dispatch(b, from + k)] = Replay(l)
  BY <1>1
<1> HIDE DEF Replay
<1>4. InLine(Replay(l), b, L, R, C) /\ Complete(Replay(l), b, b, L, C)
  BY <1>1, <1>2, LineContinues
<1> QED BY <1>3, <1>4

-----------------------------------------------------------------------------
(* Which link carries a session, and what its opening names.               *)

LEMMA BoundStep ==
    ASSUME TypeOK, BoundInv, [Next]_vars
    PROVE  BoundInv'
<1> USE DEF server
<1>0. /\ bound \in [Sockets -> Sessions \cup {NoSession}]
      /\ log \in [Sessions -> Seq(DispatchNames)]
      /\ \A q \in Seq(DispatchNames), e \in DispatchNames : Append(q, e) # <<>>
  <2>1. \A q \in Seq(DispatchNames), e \in DispatchNames : Append(q, e) # <<>>
    BY AppendProperties
  <2> QED BY <2>1 DEF TypeOK
<1>1. CASE UNCHANGED <<bound, log>>
  BY <1>1 DEF BoundInv
<1>2. CASE DialSucceeds
  <2>1. CASE closing
    BY <1>1, <1>2, <2>1 DEF DialSucceeds
  <2>2. CASE ~closing
    <3>1. PICK s \in Sockets : bound' = [bound EXCEPT ![s] = NoSession] /\ UNCHANGED log
      BY <1>2, <2>2 DEF DialSucceeds
    <3> QED BY <1>0, <3>1 DEF BoundInv
  <2> QED BY <2>1, <2>2
<1>3. ASSUME NEW s \in Sockets, ServerIdentifies(s) PROVE BoundInv'
  <2>1. CASE ~credential
    BY <1>1, <1>3, <2>1 DEF ServerIdentifies
  <2>2. CASE credential
    <3>1. PICK n \in Sessions : /\ log[n] = <<>> /\ log' = [log EXCEPT ![n] = <<"READY">>]
                                /\ bound' = [bound EXCEPT ![s] = n]
      BY <1>3, <2>2 DEF ServerIdentifies
    <3>2. <<"READY">> # <<>>
      OBVIOUS
    <3> QED BY <1>0, <3>1, <3>2 DEF BoundInv
  <2> QED BY <2>1, <2>2
<1>4. ASSUME NEW s \in Sockets, ServerResumes(s) PROVE BoundInv'
  <2>1. CASE UNCHANGED <<log, bound>>
    BY <1>1, <2>1
  <2>2. CASE ~UNCHANGED <<log, bound>>
    <3> DEFINE n == Head(toServer[s]).session
    <3>1. n \in Sessions
      <4>1. Head(toServer[s]) \in ClientFrames /\ Head(toServer[s]).op = "resume"
        BY <1>4, TailPlaces DEF ServerResumes, Reads, TypeOK
      <4> QED BY <4>1, ResumeFields
    <3>2. /\ log' = [log EXCEPT ![n] = Append(log[n], "RESUMED")]
          /\ bound' = [t \in Sockets |->
                         IF t = s THEN n ELSE IF bound[t] = n THEN NoSession ELSE bound[t]]
      BY <1>4, <2>2 DEF ServerResumes
    <3>3. Append(log[n], "RESUMED") # <<>>
      BY <1>0, <3>1 DEF DispatchNames
    <3> HIDE DEF n
    <3> QED BY <1>0, <3>1, <3>2, <3>3 DEF BoundInv
  <2> QED BY <2>1, <2>2
<1>5. ASSUME NEW n \in Sessions, ServerDispatches(n) PROVE BoundInv'
  <2>1. /\ log' = [log EXCEPT ![n] = Append(log[n], "EVENT")] /\ UNCHANGED bound
        /\ Append(log[n], "EVENT") # <<>>
    BY <1>0, <1>5 DEF ServerDispatches, DispatchNames
  <2> QED BY <1>0, <2>1 DEF BoundInv
<1>6. ASSUME NEW s \in Sockets, ServerAsks(s) PROVE BoundInv'
  <2>1. UNCHANGED log /\ (bound' = bound \/ bound' = [bound EXCEPT ![s] = NoSession])
    BY <1>6 DEF ServerAsks
  <2> QED BY <1>0, <2>1 DEF BoundInv
<1>7. CASE \/ User \/ ReconnectTimer \/ HeartbeatTimer \/ DialFails
           \/ OvertakenCloses
  BY <1>1, <1>7 DEF User, Connect, CloseBegin, CloseEnd, SetIntent, ReconnectTimer,
                    HeartbeatTimer, DialFails, OvertakenCloses
<1>8. ASSUME NEW s \in Sockets, SocketStep(s) PROVE BoundInv'
  BY <1>1, <1>8
     DEF SocketStep, TakeFrame, SkipStaleFrame, HoldLargeFrame, AcceptHello, AcceptAck,
         AcceptHeartbeatRequest, AcceptReconnect, AcceptInvalidSession, AcceptDispatch,
         LoseFrame, MisreadFrame, AcceptDone
<1>9. ASSUME NEW s \in Sockets,
             \/ ServerReadsIntent(s) \/ ServerCloses(s) \/ ServerDropsIdle(s)
             \/ LinkBreaks(s) \/ BrokenLinkEnds(s)
      PROVE  BoundInv'
  BY <1>1, <1>9 DEF ServerReadsIntent, ServerCloses, ServerDropsIdle, LinkBreaks,
                    BrokenLinkEnds, EndLink
<1>10. ASSUME NEW n \in Sessions, SessionExpires(n) PROVE BoundInv'
  BY <1>1, <1>10 DEF SessionExpires
<1>11. CASE CredentialIsRevoked
  BY <1>1, <1>11 DEF CredentialIsRevoked
<1>12. CASE UNCHANGED vars
  BY <1>1, <1>12 DEF vars
<1> QED BY <1>2, <1>3, <1>4, <1>5, <1>6, <1>7, <1>8, <1>9, <1>10, <1>11, <1>12
    DEF Next, Timers, External, ServerReads

LEMMA BoundHolds == Spec => []BoundInv
<1>1. Init => BoundInv
  BY DEF Init, BoundInv
<1> QED BY <1>1, BoundStep, TypeCorrect, PTL DEF Spec

\* A handler that writes no opening leaves the one on its way as it is, if the
\* session does.
LEMMA OpeningIsKept ==
    ASSUME TypeOK, OpeningInv, UNCHANGED <<sessionId, sequence>>,
           NEW q, NEW frames, \/ frames = <<>>
                              \/ \E f \in ClientFrames : ~Opens(f) /\ frames = <<f>>,
           \/ Stays(q) /\ UNCHANGED toServer
           \/ \E st, kept, left : Send(q, frames, st, kept, left)
           \/ /\ UNCHANGED toServer
              /\ \E st, kept, left : ScheduleReconnect(q, st, kept, left)
    PROVE  OpeningInv'
<1>1. \/ Stays(q) /\ toServer' = Written(frames)
      \/ Stays(q) /\ UNCHANGED toServer
      \/ Drops(q)
  BY SendMoves, ScheduleMoves
<1>2. CASE Stays(q) /\ toServer' = Written(frames)
  <2> SUFFICES ASSUME socket # NoSocket, wire[socket] = "open"
               PROVE  OpensAsIs(toServer'[socket], sessionId, sequence)
    BY <1>2 DEF Stays, OpeningInv
  <2>1. toServer[socket] \in Seq(ClientFrames) /\ socket \in Sockets
        /\ OpensAsIs(toServer[socket], sessionId, sequence)
    BY DEF TypeOK, OpeningInv
  <2>2. toServer'[socket] = toServer[socket] \o frames
    BY <1>2, <2>1 DEF Written
  <2>3. CASE frames = <<>>
    BY <2>1, <2>2, <2>3
  <2>4. ASSUME NEW f \in ClientFrames, ~Opens(f), frames = <<f>>
        PROVE  OpensAsIs(toServer'[socket], sessionId, sequence)
    <3> DEFINE out == toServer[socket]
    <3>1. /\ out \o <<f>> = Append(out, f) /\ Len(Append(out, f)) = Len(out) + 1
          /\ Append(out, f)[Len(out) + 1] = f /\ Len(out) \in Nat
          /\ \A i \in 1 .. Len(out) : Append(out, f)[i] = out[i]
      BY <2>1, AppendPlaces
    <3>2. toServer'[socket] = Append(out, f)
      BY <2>2, <2>4, <3>1
    <3>3. f.op # "identify" /\ f.op # "resume"
      BY <2>4 DEF Opens
    <3>4. \A i \in 1 .. Len(Append(out, f)) : i \in 1 .. Len(out) \/ i = Len(out) + 1
      BY <3>1
    <3>5. OpensAsIs(out, sessionId, sequence)
      BY <2>1
    <3> HIDE DEF out
    <3> QED BY <3>1, <3>2, <3>3, <3>4, <3>5 DEF OpensAsIs
  <2> QED BY <2>3, <2>4
<1>3. CASE Stays(q) /\ UNCHANGED toServer
  BY <1>3 DEF Stays, OpeningInv
<1>4. CASE Drops(q)
  BY <1>4 DEF Drops, OpeningInv
<1> QED BY <1>1, <1>2, <1>3, <1>4

\* A handler that takes something has no opening on its way.
LEMMA NoOpeningOnItsWay ==
    ASSUME TypeOK, TurnInv, NEW s \in Sockets, Waiting(s), wire[s] = "open"
    PROVE  \A i \in 1 .. Len(toServer[s]) : ~Opens(toServer[s][i])
BY DEF TurnInv, InTurn, Waiting

\* A handler that answers with an opening builds it from what it leaves behind.
LEMMA OpeningIsSent ==
    ASSUME TypeOK, TurnInv, NEW s \in Sockets, Waiting(s), IsCurrent(s),
           NEW f \in ClientFrames,
           f.op = "identify" => sessionId' = NoSession,
           f.op = "resume" => f.session = sessionId' /\ f.n = sequence',
           NEW q, NEW st, NEW kept, NEW left, Send(q, <<f>>, st, kept, left)
    PROVE  OpeningInv'
<1>1. \/ Stays(q) /\ toServer' = Written(<<f>>)
      \/ Stays(q) /\ wire[socket] = "broken"
      \/ Drops(q)
  BY SendMoves
<1>2. CASE Stays(q) /\ toServer' = Written(<<f>>)
  <2> SUFFICES ASSUME wire[s] = "open"
               PROVE  OpensAsIs(toServer'[s], sessionId', sequence')
    BY <1>2 DEF Stays, OpeningInv, IsCurrent
  <2> DEFINE out == toServer[s]
  <2>1. out \in Seq(ClientFrames) /\ toServer'[s] = out \o <<f>>
        /\ \A i \in 1 .. Len(out) : ~Opens(out[i])
    BY <1>2, NoOpeningOnItsWay DEF Written, IsCurrent, TypeOK
  <2> HIDE DEF out
  <2>2. /\ toServer'[s] = Append(out, f) /\ Len(Append(out, f)) = Len(out) + 1
        /\ Append(out, f)[Len(out) + 1] = f /\ Len(out) \in Nat
        /\ \A i \in 1 .. Len(out) : Append(out, f)[i] = out[i]
    BY <2>1, AppendPlaces
  <2>3. \A i \in 1 .. Len(Append(out, f)) : i \in 1 .. Len(out) \/ i = Len(out) + 1
    BY <2>2
  <2> QED BY <2>1, <2>2, <2>3 DEF OpensAsIs, Opens
<1>3. CASE Stays(q) /\ wire[socket] = "broken"
  BY <1>3 DEF Stays, OpeningInv
<1>4. CASE Drops(q)
  BY <1>4 DEF Drops, OpeningInv
<1> QED BY <1>1, <1>2, <1>3, <1>4

LEMMA OpeningTaken ==
    ASSUME TypeOK, TurnInv, OpeningInv, NEW s \in Sockets, SocketStep(s)
    PROVE  OpeningInv'
<1> USE DEF driver, protocol
<1>1. CASE SkipStaleFrame(s)
  BY <1>1 DEF SkipStaleFrame, OpeningInv
<1>2. CASE HoldLargeFrame(s) \/ AcceptAck(s)
  BY <1>2 DEF HoldLargeFrame, AcceptAck, OpeningInv
<1>3. CASE AcceptHello(s)
  <2>1. /\ OpeningFrame \in ClientFrames /\ Waiting(s) /\ IsCurrent(s)
        /\ Opening /\ Send(Popped(s), <<OpeningFrame>>, status, "initial", "off")
    BY <1>3, OpeningTyped DEF AcceptHello, Takes
  <2>2. /\ OpeningFrame.op = "identify" => sessionId' = NoSession
        /\ OpeningFrame.op = "resume" =>
              OpeningFrame.session = sessionId' /\ OpeningFrame.n = sequence'
    <3>1. CASE CanResume
      <4>1. OpeningFrame = Resume(sessionId, sequence) /\ UNCHANGED <<sessionId, sequence>>
        BY <2>1, <3>1 DEF OpeningFrame, ResumeFrame, Opening, Resuming
      <4> QED BY <4>1 DEF Resume
    <3>2. CASE ~CanResume
      <4>1. OpeningFrame = Op("identify") /\ sessionId' = NoSession
        BY <2>1, <3>2 DEF OpeningFrame, Opening, Identify
      <4> QED BY <4>1 DEF Op
    <3> QED BY <3>1, <3>2
  <2> QED BY <2>1, <2>2, OpeningIsSent
<1>4. CASE AcceptHeartbeatRequest(s)
  BY <1>4, OpeningIsKept DEF AcceptHeartbeatRequest
<1>5. CASE AcceptReconnect(s)
  <2>1. /\ UNCHANGED <<sessionId, sequence, toServer>>
        /\ ScheduleReconnect(Popped(s), status, heart, "off")
    BY <1>5 DEF AcceptReconnect
  <2> QED BY <2>1, OpeningIsKept
<1>6. CASE AcceptInvalidSession(s)
  <2>1. Waiting(s) /\ IsCurrent(s)
    BY <1>6 DEF AcceptInvalidSession, Takes
  <2>2. CASE ResumesAgain(s)
    <3>1. /\ ResumeFrame \in ClientFrames /\ UNCHANGED <<sessionId, sequence>>
          /\ Send(Popped(s), <<ResumeFrame>>, status, heart, "off")
      BY <1>6, <2>2, OpeningTyped DEF AcceptInvalidSession, ResumesAgain, Resuming
    <3>2. ResumeFrame.op = "resume" /\ ResumeFrame.session = sessionId
          /\ ResumeFrame.n = sequence
      BY DEF ResumeFrame, Resume
    <3> QED BY <2>1, <3>1, <3>2, OpeningIsSent
  <2>3. CASE ~ResumesAgain(s)
    <3>1. /\ Op("identify") \in ClientFrames /\ sessionId' = NoSession
          /\ Send(Popped(s), <<Op("identify")>>, status, heart, "off")
      BY <1>6, <2>3, FramesTyped DEF AcceptInvalidSession, Identify
    <3>2. Op("identify").op = "identify"
      BY DEF Op
    <3> QED BY <2>1, <3>1, <3>2, OpeningIsSent
  <2> QED BY <2>2, <2>3
<1>7. CASE AcceptDispatch(s)
  <2>0. Waiting(s) /\ IsCurrent(s)
    BY <1>7 DEF AcceptDispatch, Takes
  <2>1. \/ Stays(Popped(s)) /\ UNCHANGED toServer
        \/ Send(Popped(s), <<ReplayFrame>>, "connected", heart, "off")
    BY <1>7 DEF AcceptDispatch, Stays, NothingSent
  <2>2. ReplayFrame \in ClientFrames /\ ~Opens(ReplayFrame)
    BY IntentsAreFrames
  <2>3. CASE wire[s] = "open" /\ socket' = socket /\ wire' = wire
    <3>1. /\ toServer[s] \in Seq(ClientFrames)
          /\ \A i \in 1 .. Len(toServer[s]) : ~Opens(toServer[s][i])
      BY <2>0, <2>3, NoOpeningOnItsWay DEF TypeOK
    <3>2. UNCHANGED toServer \/ toServer' = Written(<<ReplayFrame>>)
      BY <2>1, SendMoves
    <3>3. \A i \in 1 .. Len(toServer'[s]) : ~Opens(toServer'[s][i])
      <4>1. CASE UNCHANGED toServer
        BY <3>1, <4>1
      <4>2. CASE toServer' = Written(<<ReplayFrame>>)
        <5>1. toServer'[s] = toServer[s] \o <<ReplayFrame>>
          BY <2>0, <2>3, <4>2 DEF Written, IsCurrent
        <5> DEFINE out == toServer[s]
        <5>2. /\ toServer'[s] = Append(out, ReplayFrame)
              /\ Len(Append(out, ReplayFrame)) = Len(out) + 1
              /\ Append(out, ReplayFrame)[Len(out) + 1] = ReplayFrame /\ Len(out) \in Nat
              /\ \A i \in 1 .. Len(out) : Append(out, ReplayFrame)[i] = out[i]
          BY <2>2, <3>1, <5>1, AppendPlaces
        <5>3. \A i \in 1 .. Len(out) : ~Opens(out[i])
          BY <3>1
        <5> HIDE DEF out
        <5>4. \A i \in 1 .. Len(Append(out, ReplayFrame)) : i \in 1 .. Len(out) \/ i = Len(out) + 1
          BY <5>2
        <5> QED BY <2>2, <5>2, <5>3, <5>4
      <4> QED BY <3>2, <4>1, <4>2
    <3> QED BY <2>0, <2>3, <3>3 DEF OpeningInv, OpensAsIs, Opens, IsCurrent
  <2>4. CASE ~(wire[s] = "open" /\ socket' = socket /\ wire' = wire)
    <3>1. Stays(Popped(s)) \/ Drops(Popped(s))
      BY <2>1, SendMoves
    <3> QED BY <2>0, <2>4, <3>1 DEF Stays, Drops, OpeningInv, IsCurrent
  <2> QED BY <2>3, <2>4
<1>8. CASE LoseFrame(s)
  BY <1>8, OpeningIsKept DEF LoseFrame
<1>9. CASE MisreadFrame(s)
  <2>1. Waiting(s) /\ IsCurrent(s) /\ UNCHANGED <<toServer, wire, socket>>
    BY <1>9 DEF MisreadFrame, NothingSent
  <2> QED BY <2>1, NoOpeningOnItsWay DEF OpeningInv, OpensAsIs, Opens, IsCurrent
<1>10. CASE AcceptDone(s)
  <2>1. UNCHANGED <<sessionId, sequence, toServer>>
    BY <1>10 DEF AcceptDone
  <2>2. \/ Stays(Popped(s))
        \/ ScheduleReconnect(Popped(s), status, heart, "off")
    BY <1>10 DEF AcceptDone, Stays
  <2> QED BY <2>1, <2>2, OpeningIsKept
<1> QED BY <1>1, <1>2, <1>3, <1>4, <1>5, <1>6, <1>7, <1>8, <1>9, <1>10
    DEF SocketStep, TakeFrame

LEMMA OpeningElsewhere ==
    ASSUME TypeOK, OpeningInv, User \/ Timers \/ External
    PROVE  OpeningInv'
<1> USE DEF driver, protocol, links
<1>1. CASE Connect \/ CloseEnd \/ ReconnectTimer \/ OvertakenCloses
  BY <1>1 DEF Connect, CloseEnd, ReconnectTimer, OvertakenCloses, OpeningInv
<1>2. CASE CloseBegin
  BY <1>2 DEF CloseBegin, OpeningInv
<1>3. ASSUME NEW i \in Intents, NEW want \in BOOLEAN, SetIntent(i, want)
      PROVE  OpeningInv'
  BY <1>3, OpeningIsKept, IntentsAreFrames DEF SetIntent
<1>4. CASE HeartbeatTimer
  BY <1>4, OpeningIsKept DEF HeartbeatTimer
<1>5. CASE DialFails
  BY <1>5, OpeningIsKept DEF DialFails
<1>6. CASE DialSucceeds
  <2>1. CASE closing
    BY <1>6, <2>1 DEF DialSucceeds, OpeningInv
  <2>2. CASE ~closing
    <3>1. PICK s \in Sockets : socket' = s /\ toServer' = [toServer EXCEPT ![s] = <<>>]
      BY <1>6, <2>2 DEF DialSucceeds
    <3>2. toServer'[socket'] = <<>>
      BY <3>1 DEF TypeOK
    <3> QED BY <3>2, EmptyPlaces DEF OpeningInv, OpensAsIs
  <2> QED BY <2>1, <2>2
<1>7. ASSUME NEW s \in Sockets, ServerReads(s) PROVE OpeningInv'
  <2>1. /\ toServer' = [toServer EXCEPT ![s] = Tail(toServer[s])] /\ toServer[s] # <<>>
        /\ UNCHANGED <<socket, sessionId, sequence>>
        /\ \A t \in Sockets : wire'[t] = "open" => wire[t] = "open"
    BY <1>7 DEF ServerReads, ServerIdentifies, ServerResumes, ServerReadsIntent, Read, Reads,
                TypeOK
  <2>2. /\ toServer[s] \in Seq(ClientFrames)
        /\ \A t \in Sockets : t # s => toServer'[t] = toServer[t]
        /\ toServer'[s] = Tail(toServer[s])
    BY <2>1 DEF TypeOK
  <2>3. /\ Len(toServer[s]) \in Nat /\ Len(Tail(toServer[s])) = Len(toServer[s]) - 1
        /\ \A i \in 1 .. Len(Tail(toServer[s])) : Tail(toServer[s])[i] = toServer[s][i + 1]
    BY <2>1, <2>2, TailPlaces
  <2>4. \A i \in 1 .. Len(Tail(toServer[s])) : i + 1 \in 1 .. Len(toServer[s])
    BY <2>3
  <2>5. \A sid, seq : OpensAsIs(toServer[s], sid, seq) => OpensAsIs(toServer'[s], sid, seq)
    BY <2>2, <2>3, <2>4 DEF OpensAsIs
  <2> QED BY <2>1, <2>2, <2>5 DEF OpeningInv, TypeOK
<1>8. ASSUME NEW s \in Sockets, EndLink(s) \/ LinkBreaks(s) PROVE OpeningInv'
  <2>1. /\ UNCHANGED <<socket, sessionId, sequence>> /\ wire'[s] # "open"
        /\ \A t \in Sockets : t # s => wire'[t] = wire[t] /\ toServer'[t] = toServer[t]
    BY <1>8 DEF EndLink, LinkBreaks, TypeOK
  <2> QED BY <2>1 DEF OpeningInv, TypeOK
<1>9. ASSUME NEW s \in Sockets, ServerAsks(s) PROVE OpeningInv'
  BY <1>9 DEF ServerAsks, OpeningInv
<1>10. ASSUME NEW n \in Sessions, ServerDispatches(n) \/ SessionExpires(n) PROVE OpeningInv'
  BY <1>10 DEF ServerDispatches, SessionExpires, OpeningInv
<1>11. CASE CredentialIsRevoked
  BY <1>11 DEF CredentialIsRevoked, OpeningInv
<1> QED BY <1>1, <1>2, <1>3, <1>4, <1>5, <1>6, <1>7, <1>8, <1>9, <1>10, <1>11
    DEF User, Timers, External, ServerCloses, ServerDropsIdle, BrokenLinkEnds

LEMMA OpeningHolds == Spec => []OpeningInv
<1>1. Init => OpeningInv
  BY DEF Init, OpeningInv
<1>2. TypeOK /\ TurnInv /\ OpeningInv /\ [Next]_vars => OpeningInv'
  <2> SUFFICES ASSUME TypeOK, TurnInv, OpeningInv, [Next]_vars PROVE OpeningInv'
    OBVIOUS
  <2>1. CASE UNCHANGED vars
    BY <2>1 DEF vars, driver, protocol, links, OpeningInv
  <2> QED BY <2>1, OpeningTaken, OpeningElsewhere DEF Next
<1> QED BY <1>1, <1>2, TypeCorrect, TurnsHold, PTL DEF Spec

-----------------------------------------------------------------------------
(* Nothing of a session is passed over, or handed on twice.                *)

LEMMA SessionsTyped ==
    ASSUME TypeOK
    PROVE  /\ Lengths \in [Sessions -> Nat]
           /\ \A n \in Sessions : Lengths[n] = Len(log[n])
           /\ \A n \in Sessions : Handed[n] = Range(delivered[n])
           /\ \A n \in Sessions :
                 Accounted[n] = Range(delivered[n]) \cup misread[n] \cup forgone[n]
           /\ \A n \in Sessions : \A d \in Handed[n] : d \in 1 .. MaxEvents /\ d \in Nat
BY SMTT(20), BoundsAssumption DEF Lengths, Handed, Accounted, TypeOK, Range, DispatchNames

\* Steps that take nothing from the current socket and say nothing.
LEMMA FlowUntouched ==
    ASSUME TypeOK, FlowInv, AccountInv,
           UNCHANGED <<disposal, sessionId, sequence, log, history>>,
           \/ socket' = NoSocket
           \/ /\ socket' = socket
              /\ toClient'[socket] = toClient[socket] /\ bound'[socket] = bound[socket]
              /\ wire'[socket] = "open" => wire[socket] = "open"
    PROVE  FlowInv' /\ AccountInv'
<1>1. Lengths' = Lengths /\ Handed' = Handed /\ Accounted' = Accounted
  BY DEF Lengths, Handed, Accounted, history
<1>2. AccountInv'
  BY <1>1 DEF AccountInv, DeliveredInOrder, history
<1>3. FlowInv'
  BY <1>1 DEF FlowInv
<1> QED BY <1>2, <1>3

\* A handler that takes nothing.
LEMMA FlowWhileSending ==
    ASSUME TypeOK, FlowInv, AccountInv,
           UNCHANGED <<disposal, sessionId, sequence, log, bound, history>>,
           \/ \E frames, st, kept, left : Send(toClient, frames, st, kept, left)
           \/ \E st, kept, left : ScheduleReconnect(toClient, st, kept, left)
    PROVE  FlowInv' /\ AccountInv'
<1>1. Stays(toClient) \/ Drops(toClient)
  BY SendMoves, ScheduleMoves
<1> QED BY <1>1, FlowUntouched DEF Stays, Drops

\* A handler that takes a frame, and hands on or gives up at most what it brings.
LEMMA FlowTaken ==
    ASSUME TypeOK, FlowInv, disposal # "done", NEW s \in Sockets, Waiting(s), IsCurrent(s),
           UNCHANGED <<disposal, log, bound>>, NEW f, f = Next1(s),
           sessionId' = sessionId \/ (f.op = "dispatch" /\ sessionId' = f.session),
           \A n \in Sessions : \A d \in Handed'[n] :
              d \in Handed[n] \/ (f.op = "dispatch" /\ n = f.session /\ d = f.n),
           \A n \in Sessions : \A k \in Accounted[n] : k \in Accounted'[n],
           f.op = "dispatch" => \/ f.n \in Accounted'[f.session]
                                \/ Drops(Popped(s)),
           Stays(Popped(s)) \/ Drops(Popped(s))
    PROVE  /\ FlowInv'
           /\ f.op = "dispatch" =>
                 /\ f.session \in Sessions /\ f.n \in 1 .. MaxEvents
                 /\ sessionId \in {NoSession, f.session} /\ f.n <= Lengths[f.session]
                 /\ \A d \in Handed[f.session] : d < f.n
                 /\ f.n \in Accounted'[f.session] =>
                       \A k \in 1 .. MaxEvents : k <= f.n => k \in Accounted'[f.session]
<1> DEFINE q == toClient[s]
<1>1. /\ q \in Seq(ServerFrames) /\ q # <<>> /\ f = Head(q) /\ f \in ServerFrames
      /\ s = socket /\ s # NoSocket
  BY SocketsExist, TailPlaces DEF Waiting, IsCurrent, Next1, TypeOK
<1>2. Lengths' = Lengths
  BY DEF Lengths
<1>3. InLine(q, sessionId, Lengths, Handed, Accounted)
  BY <1>1 DEF FlowInv
<1>4. wire[s] = "open" => Complete(q, bound[s], sessionId, Lengths, Accounted)
  BY <1>1 DEF FlowInv
<1>5. f.op = "dispatch" => f.session \in Sessions /\ f.n \in 1 .. MaxEvents
  BY <1>1, DispatchFields
<1>6. Popped(s)[s] = Tail(q)
  BY DEF Popped, TypeOK
<1> DEFINE accounted == f.op = "dispatch" => f.n \in Accounted'[f.session]
<1>7. ASSUME accounted
      PROVE  /\ InLine(Tail(q), sessionId', Lengths, Handed', Accounted')
             /\ \A b \in Sessions : Complete(q, b, sessionId, Lengths, Accounted) =>
                   Complete(Tail(q), b, sessionId', Lengths, Accounted')
             /\ f.op = "dispatch" => \A k \in 1 .. MaxEvents : k <= f.n => k \in Accounted'[f.session]
  <2>1. f.op = "dispatch" => f.n \in Accounted'[f.session]
    BY <1>7
  <2> HIDE DEF q, accounted
  <2> QED BY SMTT(20), <1>1, <1>3, <2>1, LineTaken
<1>8. f.op = "dispatch" =>
         /\ sessionId \in {NoSession, f.session} /\ f.n <= Lengths[f.session]
         /\ \A d \in Handed[f.session] : d < f.n
  <2>1. q[1] = f /\ 1 \in 1 .. Len(q)
    BY <1>1, TailPlaces
  <2> HIDE DEF q
  <2> QED BY <1>3, <2>1 DEF InLine
<1>9. CASE Drops(Popped(s))
  <2>1. FlowInv'
    BY <1>9 DEF Drops, FlowInv
  <2> QED BY <1>5, <1>7, <1>8, <2>1
<1>10. CASE Stays(Popped(s)) /\ accounted
  <2>1. bound[s] \in Sessions => bound[s] # NoSession
    BY DispatchIs
  <2>2. wire[s] = "open" => Complete(Tail(q), bound[s], sessionId', Lengths, Accounted')
    <3>1. CASE bound[s] \in Sessions
      <4> HIDE DEF q, accounted
      <4> QED BY <1>4, <1>7, <1>10, <3>1
    <3>2. CASE bound[s] = NoSession
      BY <3>2, LineIsFree
    <3> QED BY <3>1, <3>2 DEF TypeOK
  <2>3. FlowInv'
    <3>1. /\ socket' = s /\ wire'[s] = wire[s] /\ toClient'[s] = Tail(q) /\ bound'[s] = bound[s]
      BY <1>1, <1>6, <1>10 DEF Stays
    <3>2. InLine(Tail(q), sessionId', Lengths, Handed', Accounted')
      BY <1>7, <1>10
    <3> HIDE DEF q, accounted
    <3> QED BY <1>2, <2>2, <3>1, <3>2 DEF FlowInv
  <2> QED BY <1>5, <1>7, <1>8, <1>10, <2>3
<1> QED BY <1>9, <1>10

\* A handler that takes a frame which is no dispatch.
LEMMA FlowSkips ==
    ASSUME TypeOK, FlowInv, AccountInv, NEW s \in Sockets, Waiting(s), IsCurrent(s),
           UNCHANGED <<disposal, log, bound, history, sessionId, sequence>>,
           Next1(s).op # "dispatch",
           \/ Stays(Popped(s))
           \/ \E frames, st, kept, left : Send(Popped(s), frames, st, kept, left)
           \/ \E st, kept, left : ScheduleReconnect(Popped(s), st, kept, left)
    PROVE  FlowInv' /\ AccountInv'
<1>1. Lengths' = Lengths /\ Handed' = Handed /\ Accounted' = Accounted
  BY DEF Lengths, Handed, Accounted, history
<1>2. AccountInv'
  BY <1>1 DEF AccountInv, DeliveredInOrder, history
<1>3. Stays(Popped(s)) \/ Drops(Popped(s))
  BY SendMoves, ScheduleMoves
<1>4. CASE disposal = "done"
  BY <1>2, <1>4 DEF FlowInv
<1>5. CASE disposal # "done"
  BY <1>1, <1>2, <1>3, <1>5, FlowTaken
<1> QED BY <1>4, <1>5

\* A handler that opens a session: only the end of the link can be behind the
\* frame that asked for it.
LEMMA FlowOpens ==
    ASSUME TypeOK, TurnInv, AccountInv, NEW s \in Sockets, Waiting(s), IsCurrent(s),
           UNCHANGED <<disposal, log, bound, history>>,
           \/ sessionId' = NoSession
           \/ UNCHANGED <<sessionId, sequence>>,
           Greets(Next1(s)), NEW frames, NEW st, NEW kept, NEW left,
           Send(Popped(s), frames, st, kept, left)
    PROVE  FlowInv' /\ AccountInv'
<1>1. Lengths' = Lengths /\ Handed' = Handed /\ Accounted' = Accounted
  BY DEF Lengths, Handed, Accounted, history
<1>2. AccountInv'
  BY <1>1 DEF AccountInv, DeliveredInOrder, history
<1>3. Stays(Popped(s)) \/ Drops(Popped(s))
  BY SendMoves
<1>4. CASE Drops(Popped(s))
  BY <1>2, <1>4 DEF Drops, FlowInv
<1>5. CASE Stays(Popped(s))
  <2>1. /\ \A i \in 1 .. Len(Tail(toClient[s])) : Tail(toClient[s])[i].op = "done"
        /\ wire[s] = "open" => bound[s] = NoSession
    <3>1. /\ toClient[s] \in Seq(ServerFrames) /\ toClient[s] # <<>>
          /\ toServer[s] \in Seq(ClientFrames)
          /\ InTurn(wire[s], toClient[s], toServer[s], bound[s], credential)
          /\ Greets(Head(toClient[s])) /\ Op("identify") \in ClientFrames
      BY FramesTyped DEF TypeOK, TurnInv, Waiting, Next1
    <3>2. \A i \in 1 .. Len(Tail(toClient[s])) : Tail(toClient[s])[i].op = "done"
      BY ONLY <3>1, TurnAnswered
    <3>3. wire[s] = "open" => bound[s] = NoSession
      BY <3>1, TailPlaces DEF InTurn
    <3> QED BY <3>2, <3>3
  <2>2. /\ socket' = s /\ wire'[s] = wire[s] /\ bound'[s] = bound[s]
        /\ toClient'[s] = Tail(toClient[s])
    BY <1>5 DEF Stays, IsCurrent, Popped, TypeOK
  <2>3. \A i \in 1 .. Len(Tail(toClient[s])) : Tail(toClient[s])[i].op # "dispatch"
    BY <2>1
  <2>4. InLine(toClient'[s], sessionId', Lengths', Handed', Accounted')
    BY <2>2, <2>3, LineIsFree
  <2>5. wire'[s] = "open" => Complete(toClient'[s], bound'[s], sessionId', Lengths', Accounted')
    BY <2>1, <2>2, LineIsFree
  <2> QED BY <1>2, <2>2, <2>4, <2>5 DEF FlowInv
<1> QED BY <1>3, <1>4, <1>5

\* A dispatch that is handed on is handed on after every earlier one of its
\* session, all of which are accounted for.
LEMMA DispatchHandedOn ==
    ASSUME TypeOK, FlowInv, AccountInv, NEW s \in Sockets, AcceptDispatch(s)
    PROVE  FlowInv' /\ AccountInv'
<1> DEFINE f == Next1(s)
<1>0. /\ Waiting(s) /\ IsCurrent(s) /\ f.op = "dispatch" /\ sequence' = f.n
      /\ UNCHANGED <<disposal, log, bound, misread, forgone>>
      /\ sessionId' = sessionId \/ sessionId' = f.session
      /\ delivered' = IF disposal = "done" THEN delivered
                      ELSE [delivered EXCEPT ![f.session] = Append(@, f.n)]
  BY DEF AcceptDispatch, Takes, server
<1>1. Stays(Popped(s)) \/ Drops(Popped(s))
  <2>1. \/ Stays(Popped(s))
        \/ Send(Popped(s), <<ReplayFrame>>, "connected", heart, "off")
    BY DEF AcceptDispatch, Stays, NothingSent
  <2> QED BY <2>1, SendMoves
<1>2. f.session \in Sessions /\ f.n \in 1 .. MaxEvents /\ f.n \in Nat
  BY <1>0, TakenTyped, DispatchFields, BoundsAssumption
<1>3. Lengths' = Lengths
  BY <1>0 DEF Lengths
<1>4. CASE disposal = "done"
  <2>1. Handed' = Handed /\ delivered' = delivered
    BY <1>0, <1>4 DEF Handed
  <2> QED BY <1>0, <1>3, <1>4, <2>1 DEF FlowInv, AccountInv, DeliveredInOrder
<1>5. CASE disposal # "done"
  <2> DEFINE old == delivered[f.session]
  <2>1. /\ old \in Seq(1 .. MaxEvents) /\ Append(old, f.n) \in Seq(1 .. MaxEvents)
        /\ Len(Append(old, f.n)) = Len(old) + 1 /\ Append(old, f.n)[Len(old) + 1] = f.n
        /\ \A i \in 1 .. Len(old) : Append(old, f.n)[i] = old[i]
        /\ Len(old) \in Nat
        /\ DOMAIN old = 1 .. Len(old) /\ DOMAIN Append(old, f.n) = 1 .. (Len(old) + 1)
    <3>1. \A q \in Seq(1 .. MaxEvents), n \in 1 .. MaxEvents :
             /\ Append(q, n) \in Seq(1 .. MaxEvents) /\ Len(q) \in Nat
             /\ Len(Append(q, n)) = Len(q) + 1 /\ Append(q, n)[Len(q) + 1] = n
             /\ \A i \in 1 .. Len(q) : Append(q, n)[i] = q[i]
      BY AppendPlaces
    <3>2. old \in Seq(1 .. MaxEvents)
      BY <1>2 DEF TypeOK
    <3> HIDE DEF f, old
    <3>3. Append(old, f.n) \in Seq(1 .. MaxEvents)
      BY <1>2, <3>1, <3>2
    <3>4. /\ DOMAIN old = 1 .. Len(old)
          /\ DOMAIN Append(old, f.n) = 1 .. Len(Append(old, f.n))
      BY <3>2, <3>3
    <3> QED BY <1>2, <3>1, <3>2, <3>3, <3>4
  <2>2. /\ delivered'[f.session] = Append(old, f.n)
        /\ \A n \in Sessions : n # f.session => delivered'[n] = delivered[n]
    BY <1>0, <1>2, <1>5 DEF TypeOK
  <2>3. /\ \A d \in Range(Append(old, f.n)) : d \in Range(old) \/ d = f.n
        /\ \A d \in Range(old) : d \in Range(Append(old, f.n))
        /\ f.n \in Range(Append(old, f.n))
    <3> HIDE DEF f, old
    <3>1. \A i \in 1 .. (Len(old) + 1) : i \in 1 .. Len(old) \/ i = Len(old) + 1
      BY <2>1
    <3>2. Len(old) + 1 \in 1 .. (Len(old) + 1)
          /\ \A i \in 1 .. Len(old) : i \in 1 .. (Len(old) + 1)
      BY <2>1
    <3> QED BY <2>1, <3>1, <3>2 DEF Range
  <2>4. \A n \in Sessions : \A d \in Handed'[n] :
           d \in Handed[n] \/ (n = f.session /\ d = f.n)
    BY <1>2, <2>2, <2>3 DEF Handed
  <2>5. /\ \A n \in Sessions : \A k \in Accounted[n] : k \in Accounted'[n]
        /\ f.n \in Accounted'[f.session]
    BY <1>0, <1>2, <2>2, <2>3 DEF Accounted
  <2>6. /\ FlowInv' /\ sessionId \in {NoSession, f.session} /\ f.n <= Lengths[f.session]
        /\ \A d \in Handed[f.session] : d < f.n
        /\ \A k \in 1 .. MaxEvents : k <= f.n => k \in Accounted'[f.session]
    <3>1. FlowInv' /\ (f.op = "dispatch" =>
                         /\ sessionId \in {NoSession, f.session} /\ f.n <= Lengths[f.session]
                         /\ \A d \in Handed[f.session] : d < f.n
                         /\ f.n \in Accounted'[f.session] =>
                              \A k \in 1 .. MaxEvents : k <= f.n => k \in Accounted'[f.session])
      BY <1>0, <1>1, <1>5, <2>4, <2>5, FlowTaken
    <3> HIDE DEF f
    <3> QED BY <1>0, <2>5, <3>1
  <2>7. \A n \in Sessions : \A d \in Handed'[n] : d <= Lengths'[n]
    <3> HIDE DEF f, old
    <3> QED BY <1>3, <2>4, <2>6 DEF AccountInv
  <2>8. DeliveredInOrder'
    <3> SUFFICES ASSUME NEW n \in Sessions, NEW i \in DOMAIN delivered'[n],
                        NEW j \in DOMAIN delivered'[n], i < j
                 PROVE  delivered'[n][i] < delivered'[n][j]
      BY DEF DeliveredInOrder
    <3>1. CASE n # f.session
      BY <2>2, <3>1 DEF AccountInv, DeliveredInOrder
    <3>2. CASE n = f.session
      <4>1. /\ i \in 1 .. (Len(old) + 1) /\ j \in 1 .. (Len(old) + 1)
            /\ delivered'[n] = Append(old, f.n)
        BY <2>1, <2>2, <3>2
      <4>2. i \in 1 .. Len(old)
        BY <2>1, <4>1
      <4>3. CASE j \in 1 .. Len(old)
        <5>1. old[i] < old[j]
          BY <1>2, <2>1, <4>2, <4>3 DEF AccountInv, DeliveredInOrder
        <5> HIDE DEF f, old
        <5> QED BY <2>1, <4>1, <4>2, <4>3, <5>1
      <4>4. CASE j = Len(old) + 1
        <5>1. old[i] \in Handed[f.session]
          BY <1>2, <2>1, <4>2 DEF Handed, Range
        <5>2. old[i] < f.n
          BY <2>6, <5>1
        <5> HIDE DEF f, old
        <5> QED BY <2>1, <4>1, <4>2, <4>4, <5>2
      <4> QED BY <2>1, <4>1, <4>3, <4>4
    <3> QED BY <3>1, <3>2
  <2>9. disposal' # "done" /\ sessionId' # NoSession =>
           /\ \A d \in Handed'[sessionId'] : d <= sequence'
           /\ \A k \in 1 .. MaxEvents : k <= sequence' => k \in Accounted'[sessionId']
    <3> HIDE DEF f, old
    <3>1. sessionId' # NoSession => sessionId' = f.session
      BY <1>0, <2>6
    <3>2. \A d \in Handed'[f.session] : d <= f.n
      <4>1. \A d \in Handed[f.session] : d \in Nat
        BY <1>2, SessionsTyped
      <4> QED BY <1>2, <2>4, <2>6, <4>1
    <3> QED BY <1>0, <2>6, <3>1, <3>2
  <2> QED BY <2>6, <2>7, <2>8, <2>9 DEF AccountInv
<1> QED BY <1>4, <1>5

\* A dispatch whose frame cannot be decoded goes with its socket, or is forgone.
LEMMA FrameLost ==
    ASSUME TypeOK, FlowInv, AccountInv, NEW s \in Sockets, LoseFrame(s)
    PROVE  FlowInv' /\ AccountInv'
<1> DEFINE f == Next1(s)
<1>0. /\ Waiting(s) /\ IsCurrent(s)
      /\ UNCHANGED <<disposal, log, bound, delivered, misread, sessionId, sequence>>
      /\ ScheduleReconnect(Popped(s), status, heart, "off")
      /\ forgone' = IF ReconnectIgnored /\ f.op = "dispatch"
                    THEN [forgone EXCEPT ![f.session] = @ \cup {f.n}] ELSE forgone
  BY DEF LoseFrame, server, protocol
<1>1. (Stays(Popped(s)) /\ ReconnectIgnored) \/ Drops(Popped(s))
  BY <1>0, ScheduleMoves
<1>2. f.op = "dispatch" => f.session \in Sessions
  BY <1>0, TakenTyped, DispatchFields
<1>3. /\ Lengths' = Lengths /\ Handed' = Handed
      /\ \A n \in Sessions : \A k \in Accounted[n] : k \in Accounted'[n]
      /\ f.op = "dispatch" => f.n \in Accounted'[f.session] \/ Drops(Popped(s))
  <2>1. Lengths' = Lengths /\ Handed' = Handed
    BY <1>0 DEF Lengths, Handed
  <2>2. \A n \in Sessions : forgone[n] \subseteq forgone'[n]
    BY <1>0, <1>2 DEF TypeOK
  <2>3. \A n \in Sessions : \A k \in Accounted[n] : k \in Accounted'[n]
    BY <1>0, <2>2 DEF Accounted
  <2>4. f.op = "dispatch" /\ ReconnectIgnored => f.n \in forgone'[f.session]
    BY <1>0, <1>2 DEF TypeOK
  <2>5. f.op = "dispatch" /\ ReconnectIgnored => f.n \in Accounted'[f.session]
    BY <1>2, <2>4 DEF Accounted
  <2> QED BY <1>1, <2>1, <2>3, <2>5
<1>4. AccountInv'
  <2>1. sessionId # NoSession => sessionId \in Sessions
    BY DEF TypeOK
  <2> HIDE DEF f
  <2> QED BY <1>0, <1>3, <2>1 DEF AccountInv, DeliveredInOrder
<1>5. CASE disposal = "done"
  BY <1>0, <1>4, <1>5 DEF FlowInv
<1>6. CASE disposal # "done"
  BY <1>0, <1>1, <1>3, <1>4, <1>6, FlowTaken
<1> QED BY <1>5, <1>6

\* A frame that does not decode is skipped, counted or not.
LEMMA FrameMisread ==
    ASSUME TypeOK, FlowInv, AccountInv, NEW s \in Sockets, MisreadFrame(s)
    PROVE  FlowInv' /\ AccountInv'
<1> DEFINE f == Next1(s)
<1>0. /\ Waiting(s) /\ IsCurrent(s) /\ Stays(Popped(s))
      /\ UNCHANGED <<disposal, log, bound, delivered, forgone>>
  BY DEF MisreadFrame, NothingSent, Stays, server
<1>1. CASE f.op # "dispatch"
  <2>1. UNCHANGED <<sessionId, sequence, history>>
    BY <1>0, <1>1 DEF MisreadFrame, history
  <2> QED BY <1>0, <1>1, <2>1, FlowSkips
<1>2. CASE f.op = "dispatch"
  <2>1. /\ f.session \in Sessions /\ f.n \in 1 .. MaxEvents /\ f.n \in Nat
        /\ misread' = [misread EXCEPT ![f.session] = @ \cup {f.n}]
    BY <1>0, <1>2, TakenTyped, DispatchFields, BoundsAssumption DEF MisreadFrame
  <2>2. \/ UNCHANGED sessionId /\ sequence' \in {sequence, f.n}
        \/ sessionId' = f.session /\ sequence' = f.n
    BY <1>2 DEF MisreadFrame
  <2>3. /\ Lengths' = Lengths /\ Handed' = Handed
        /\ \A n \in Sessions : \A k \in Accounted[n] : k \in Accounted'[n]
        /\ f.n \in Accounted'[f.session]
    <3>1. Lengths' = Lengths /\ Handed' = Handed
      BY <1>0 DEF Lengths, Handed
    <3>2. /\ \A n \in Sessions : misread[n] \subseteq misread'[n]
          /\ f.n \in misread'[f.session]
      BY <2>1 DEF TypeOK
    <3> HIDE DEF f
    <3> QED BY <1>0, <2>1, <3>1, <3>2 DEF Accounted
  <2>4. CASE disposal = "done"
    BY <1>0, <2>3, <2>4 DEF FlowInv, AccountInv, DeliveredInOrder
  <2>5. CASE disposal # "done"
    <3>1. /\ FlowInv' /\ sessionId \in {NoSession, f.session}
          /\ \A d \in Handed[f.session] : d < f.n
          /\ \A k \in 1 .. MaxEvents : k <= f.n => k \in Accounted'[f.session]
      <4>1. /\ FlowInv'
            /\ f.op = "dispatch" =>
                 /\ sessionId \in {NoSession, f.session}
                 /\ \A d \in Handed[f.session] : d < f.n
                 /\ f.n \in Accounted'[f.session] =>
                      \A k \in 1 .. MaxEvents : k <= f.n => k \in Accounted'[f.session]
        BY <1>0, <1>2, <2>2, <2>3, <2>5, FlowTaken
      <4> HIDE DEF f
      <4> QED BY <1>2, <2>3, <4>1
    <3> HIDE DEF f
    <3>2. sessionId' # NoSession =>
             \/ sessionId' = f.session /\ sequence' = f.n
             \/ UNCHANGED <<sessionId, sequence>> /\ sessionId \in Sessions
      BY <2>2, <3>1 DEF TypeOK
    <3>3. \A d \in Handed[f.session] : d <= f.n
      <4>1. \A d \in Handed[f.session] : d \in Nat
        BY <2>1, SessionsTyped
      <4> QED BY <2>1, <3>1, <4>1
    <3>4. AccountInv'
      BY <1>0, <2>3, <3>1, <3>2, <3>3 DEF AccountInv, DeliveredInOrder
    <3> QED BY <3>1, <3>4
  <2> QED BY <2>4, <2>5
<1> QED BY <1>1, <1>2

LEMMA SocketStepFlows ==
    ASSUME TypeOK, TurnInv, FlowInv, AccountInv, NEW s \in Sockets, SocketStep(s)
    PROVE  FlowInv' /\ AccountInv'
<1> USE DEF driver, protocol, server
<1>1. CASE SkipStaleFrame(s)
  <2>1. /\ UNCHANGED <<disposal, sessionId, sequence, log, history, socket, bound, wire>>
        /\ \A t \in Sockets : t # s => toClient'[t] = toClient[t]
    BY <1>1 DEF SkipStaleFrame, Popped, TypeOK
  <2>2. socket = NoSocket \/ (socket \in Sockets /\ socket # s)
    BY <1>1 DEF SkipStaleFrame, IsCurrent, TypeOK
  <2> QED BY <2>1, <2>2, FlowUntouched
<1>2. CASE HoldLargeFrame(s) \/ AcceptAck(s)
  BY <1>2, FlowUntouched DEF HoldLargeFrame, AcceptAck
<1>3. CASE AcceptHello(s)
  <2>1. sessionId' = NoSession \/ UNCHANGED <<sessionId, sequence>>
    BY <1>3 DEF AcceptHello, Opening, Identify, Resuming
  <2> QED BY <1>3, <2>1, FlowOpens DEF AcceptHello, Takes, Greets
<1>4. CASE AcceptHeartbeatRequest(s)
  BY <1>4, FlowSkips DEF AcceptHeartbeatRequest, Takes
<1>5. CASE AcceptReconnect(s)
  BY <1>5, FlowSkips DEF AcceptReconnect, Takes
<1>6. CASE AcceptInvalidSession(s)
  BY <1>6, FlowOpens DEF AcceptInvalidSession, Takes, Greets, Identify, Resuming
<1>7. CASE AcceptDispatch(s)
  BY <1>7, DispatchHandedOn
<1>8. CASE LoseFrame(s)
  BY <1>8, FrameLost
<1>9. CASE MisreadFrame(s)
  BY <1>9, FrameMisread
<1>10. CASE AcceptDone(s)
  BY <1>10, FlowSkips DEF AcceptDone, Takes, Stays
<1> QED BY <1>1, <1>2, <1>3, <1>4, <1>5, <1>6, <1>7, <1>8, <1>9, <1>10
    DEF SocketStep, TakeFrame

LEMMA CallsAndTimersFlow ==
    ASSUME TypeOK, FlowInv, AccountInv, User \/ Timers
    PROVE  FlowInv' /\ AccountInv'
<1> USE DEF protocol, server, links
<1>1. CASE Connect \/ ReconnectTimer \/ OvertakenCloses
  BY <1>1, FlowUntouched DEF Connect, ReconnectTimer, OvertakenCloses
<1>2. CASE CloseBegin
  <2>1. Lengths' = Lengths /\ Handed' = Handed /\ Accounted' = Accounted
    BY <1>2 DEF CloseBegin, Lengths, Handed, Accounted, history
  <2>2. AccountInv'
    BY <1>2, <2>1 DEF CloseBegin, AccountInv, DeliveredInOrder, history
  <2> QED BY <1>2, <2>2 DEF CloseBegin, FlowInv
<1>3. CASE CloseEnd
  <2>1. Lengths' = Lengths /\ Handed' = Handed
    BY <1>3 DEF CloseEnd, Lengths, Handed, history
  <2> QED BY <1>3, <2>1 DEF CloseEnd, FlowInv, AccountInv, DeliveredInOrder, history
<1>4. ASSUME NEW i \in Intents, NEW want \in BOOLEAN, SetIntent(i, want)
      PROVE  FlowInv' /\ AccountInv'
  BY <1>4, FlowWhileSending DEF SetIntent
<1>5. CASE HeartbeatTimer
  BY <1>5, FlowWhileSending DEF HeartbeatTimer
<1>6. CASE DialFails
  BY <1>6, FlowWhileSending DEF DialFails
<1>7. CASE DialSucceeds
  <2>1. CASE closing
    BY <1>7, <2>1, FlowUntouched DEF DialSucceeds
  <2>2. CASE ~closing
    <3>1. PICK s \in Sockets : /\ socket' = s
                               /\ toClient' = [toClient EXCEPT ![s] = <<Op("hello")>>]
                               /\ bound' = [bound EXCEPT ![s] = NoSession]
      BY <1>7, <2>2 DEF DialSucceeds
    <3>2. UNCHANGED <<disposal, sessionId, sequence, log, history>>
      BY <1>7 DEF DialSucceeds
    <3>3. /\ Lengths' = Lengths /\ Handed' = Handed /\ Accounted' = Accounted
          /\ toClient'[s] = <<Op("hello")>> /\ bound'[s] = NoSession
      BY <3>1, <3>2 DEF Lengths, Handed, Accounted, history, TypeOK
    <3>4. AccountInv'
      BY <3>2, <3>3 DEF AccountInv, DeliveredInOrder, history
    <3>5. \A i \in 1 .. Len(<<Op("hello")>>) : <<Op("hello")>>[i].op # "dispatch"
      <4>1. \A i \in 1 .. 1 : <<Op("hello")>>[i] = Op("hello")
        OBVIOUS
      <4>2. Len(<<Op("hello")>>) = 1 /\ Op("hello").op = "hello"
        BY DEF Op
      <4> QED BY <4>1, <4>2
    <3> QED BY <3>1, <3>3, <3>4, <3>5, LineIsFree DEF FlowInv
  <2> QED BY <2>1, <2>2
<1> QED BY <1>1, <1>2, <1>3, <1>4, <1>5, <1>6, <1>7 DEF User, Timers

\* What the server and the network do to the current socket's queue.
LEMMA FlowOutside ==
    ASSUME TypeOK, TypeOK', FlowInv, AccountInv,
           UNCHANGED <<disposal, sessionId, sequence, history, socket>>,
           \A n \in Sessions : Lengths[n] <= Lengths'[n],
           disposal # "done" /\ socket # NoSocket =>
              \/ /\ InLine(toClient'[socket], sessionId, Lengths', Handed, Accounted)
                 /\ wire'[socket] = "open" =>
                       Complete(toClient'[socket], bound'[socket], sessionId, Lengths', Accounted)
              \/ /\ toClient'[socket] = toClient[socket]
                 /\ wire'[socket] = "open" => wire[socket] = "open"
                 /\ \/ bound'[socket] = NoSession
                    \/ /\ bound'[socket] = bound[socket]
                       /\ Lengths'[bound[socket]] = Lengths[bound[socket]]
              \/ /\ \E f \in ServerFrames :
                       f.op # "dispatch" /\ toClient'[socket] = Append(toClient[socket], f)
                 /\ wire'[socket] = "open" => wire[socket] = "open"
                 /\ bound'[socket] \in {NoSession, bound[socket]}
                 /\ Lengths' = Lengths
    PROVE  FlowInv' /\ AccountInv'
<1>1. /\ Lengths \in [Sessions -> Nat] /\ Lengths' \in [Sessions -> Nat]
      /\ Handed' = Handed /\ Accounted' = Accounted
  BY SMTT(20) DEF Lengths, Handed, Accounted, history, TypeOK, DispatchNames
<1>2. AccountInv'
  <2>1. \A n \in Sessions : \A d \in Handed[n] : d \in Nat
    BY SessionsTyped
  <2>2. \A n \in Sessions : \A d \in Handed[n] : d <= Lengths'[n]
    BY <1>1, <2>1 DEF AccountInv
  <2> QED BY <1>1, <2>2 DEF AccountInv, DeliveredInOrder, history
<1>3. FlowInv'
  <2> SUFFICES ASSUME disposal # "done", socket # NoSocket
               PROVE
        /\ InLine(toClient'[socket], sessionId, Lengths', Handed, Accounted)
        /\ wire'[socket] = "open" =>
              Complete(toClient'[socket], bound'[socket], sessionId, Lengths', Accounted)
    BY <1>1 DEF FlowInv
  <2> DEFINE q == toClient[socket]
             b == bound[socket]
  <2>1. /\ q \in Seq(ServerFrames) /\ b \in Sessions \cup {NoSession}
        /\ InLine(q, sessionId, Lengths, Handed, Accounted)
        /\ wire[socket] = "open" => Complete(q, b, sessionId, Lengths, Accounted)
    BY DEF FlowInv, TypeOK
  <2>2. \A p, L : Complete(p, NoSession, sessionId, L, Accounted)
    BY LineIsFree
  <2>3. ASSUME /\ toClient'[socket] = q
               /\ wire'[socket] = "open" => wire[socket] = "open"
               /\ \/ bound'[socket] = NoSession
                  \/ bound'[socket] = b /\ Lengths'[b] = Lengths[b]
        PROVE  /\ InLine(toClient'[socket], sessionId, Lengths', Handed, Accounted)
               /\ wire'[socket] = "open" =>
                     Complete(toClient'[socket], bound'[socket], sessionId, Lengths', Accounted)
    <3> HIDE DEF q, b
    <3>1. InLine(q, sessionId, Lengths', Handed, Accounted)
      BY <1>1, <2>1, LineOutgrown
    <3>2. b \in Sessions /\ Lengths'[b] = Lengths[b] /\ wire[socket] = "open" =>
             Complete(q, b, sessionId, Lengths', Accounted)
      BY <1>1, <2>1, LineOutgrown
    <3> QED BY <2>1, <2>2, <2>3, <3>1, <3>2
  <2>4. ASSUME NEW f \in ServerFrames, f.op # "dispatch", toClient'[socket] = Append(q, f),
               wire'[socket] = "open" => wire[socket] = "open",
               bound'[socket] \in {NoSession, b}, Lengths' = Lengths
        PROVE  /\ InLine(toClient'[socket], sessionId, Lengths', Handed, Accounted)
               /\ wire'[socket] = "open" =>
                     Complete(toClient'[socket], bound'[socket], sessionId, Lengths', Accounted)
    <3> HIDE DEF q, b
    <3>1. InLine(Append(q, f), sessionId, Lengths, Handed, Accounted)
      BY <2>1, <2>4, LineFollowed
    <3>2. wire[socket] = "open" => Complete(Append(q, f), b, sessionId, Lengths, Accounted)
      BY <2>1, <2>4, LineFollowed
    <3> QED BY <2>2, <2>4, <3>1, <3>2
  <2> QED BY <2>3, <2>4
<1> QED BY <1>2, <1>3

\* A socket that has just asked for a session has nothing else on its way.
LEMMA AskedAlone ==
    ASSUME TypeOK, TurnInv, NEW s \in Sockets, wire[s] = "open", toServer[s] # <<>>,
           Opens(Head(toServer[s]))
    PROVE  toClient[s] = <<>> /\ bound[s] = NoSession
<1> DEFINE out == toServer[s]
<1>1. /\ Head(out) = out[1] /\ 1 \in 1 .. Len(out)
      /\ InTurn("open", toClient[s], out, bound[s], credential)
  BY TailPlaces DEF TypeOK, TurnInv
<1> HIDE DEF out
<1>2. Opens(Head(out))
  BY DEF out
<1> QED BY <1>1, <1>2 DEF InTurn

\* The server ends a link: its last frame follows the others.
LEMMA FlowEnds ==
    ASSUME TypeOK, TypeOK', FlowInv, AccountInv, NEW s \in Sockets, NEW f \in ServerFrames,
           f.op = "done", toClient' = Answered(s, <<f>>),
           wire' = [wire EXCEPT ![s] = "ended"], UNCHANGED <<log, bound>>,
           UNCHANGED <<disposal, sessionId, sequence, history, socket>>
    PROVE  FlowInv' /\ AccountInv'
<1>1. Lengths' = Lengths /\ \A n \in Sessions : Lengths[n] <= Lengths[n]
  BY SessionsTyped DEF Lengths
<1>2. /\ toClient'[s] = Append(toClient[s], f) /\ wire'[s] = "ended"
      /\ \A t \in Sockets : t # s => toClient'[t] = toClient[t] /\ wire'[t] = wire[t]
  BY AppendPlaces DEF Answered, TypeOK
<1>3. socket = NoSocket \/ socket \in Sockets
  BY DEF TypeOK
<1> QED BY <1>1, <1>2, <1>3, FlowOutside

\* A fresh session: only a client without one has asked for it.
LEMMA FreshSessionFlows ==
    ASSUME TypeOK, TypeOK', TurnInv, OpeningInv, BoundInv, FlowInv, AccountInv,
           NEW s \in Sockets, ServerIdentifies(s)
    PROVE  FlowInv' /\ AccountInv'
<1>0. UNCHANGED <<disposal, sessionId, sequence, history, socket>>
  BY DEF ServerIdentifies, driver, protocol
<1>1. CASE ~credential
  <2>1. Done(TRUE) \in ServerFrames /\ Done(TRUE).op = "done"
    BY FramesTyped DEF Done
  <2> QED BY <1>0, <1>1, <2>1, FlowEnds DEF ServerIdentifies
<1>2. CASE credential
  <2>1. PICK n \in Sessions : /\ log[n] = <<>> /\ log' = [log EXCEPT ![n] = <<"READY">>]
                              /\ bound' = [bound EXCEPT ![s] = n]
                              /\ toClient' = Answered(s, <<Dispatch(n, 1)>>)
                              /\ UNCHANGED wire
    BY <1>2 DEF ServerIdentifies
  <2>2. /\ Lengths' = [Lengths EXCEPT ![n] = 1] /\ Lengths[n] = 0
        /\ Lengths \in [Sessions -> Nat] /\ Lengths'[n] = 1
        /\ \A m \in Sessions : m # n => Lengths'[m] = Lengths[m]
    <3>1. Len(<<>>) = 0 /\ Len(<<"READY">>) = 1
      OBVIOUS
    <3>2. Lengths \in [Sessions -> Nat] /\ Lengths[n] = 0
      BY <2>1, <3>1, SessionsTyped
    <3>3. \A m \in Sessions : Len(log'[m]) = IF m = n THEN 1 ELSE Len(log[m])
      BY <2>1, <3>1 DEF TypeOK
    <3>4. Lengths' = [Lengths EXCEPT ![n] = 1]
      BY <3>3 DEF Lengths
    <3> QED BY <3>2, <3>4
  <2>3. \A m \in Sessions : Lengths[m] <= Lengths'[m]
    BY <2>2
  <2>4. Handed[n] = {}
    <3>1. \A d \in Handed[n] : d <= 0 /\ d \in 1 .. MaxEvents
      BY <2>2, SessionsTyped DEF AccountInv
    <3>2. \A d \in Handed[n] : FALSE
      BY <3>1
    <3> QED BY <3>2
  <2>5. CASE socket = s
    <3>1. wire[s] = "open" /\ toServer[s] # <<>> /\ Head(toServer[s]).op = "identify"
      BY DEF ServerIdentifies, Reads
    <3>2. toClient[s] = <<>>
      BY <3>1, AskedAlone DEF Opens
    <3>3. sessionId = NoSession
      <4>1. Head(toServer[s]) = toServer[s][1] /\ 1 \in 1 .. Len(toServer[s])
        BY <3>1, TailPlaces DEF TypeOK
      <4> QED BY <2>5, <3>1, <4>1, SocketsExist DEF OpeningInv, OpensAsIs
    <3>4. toClient'[s] = <<Dispatch(n, 1)>> /\ bound'[s] = n
      BY <2>1, <3>2 DEF Answered, TypeOK
    <3>5. /\ InLine(toClient'[s], sessionId, Lengths', Handed, Accounted)
          /\ Complete(toClient'[s], bound'[s], sessionId, Lengths', Accounted)
      <4>1. /\ InLine(<<Dispatch(n, 1)>>, NoSession, Lengths', Handed, Accounted)
            /\ Complete(<<Dispatch(n, 1)>>, n, NoSession, Lengths', Accounted)
        BY <2>2, <2>4, LineBegins
      <4> QED BY <3>3, <3>4, <4>1
    <3> QED BY <1>0, <2>3, <2>5, <3>5, FlowOutside
  <2>6. CASE socket \in Sockets /\ socket # s
    <3>1. /\ toClient'[socket] = toClient[socket] /\ bound'[socket] = bound[socket]
          /\ wire' = wire
      BY <2>1, <2>6 DEF Answered, TypeOK
    <3>2. bound[socket] = NoSession \/ Lengths'[bound[socket]] = Lengths[bound[socket]]
      BY <2>1, <2>2, <2>6 DEF BoundInv, TypeOK
    <3> QED BY <1>0, <2>3, <3>1, <3>2, FlowOutside
  <2>7. CASE socket = NoSocket
    BY <1>0, <2>3, <2>7, FlowOutside
  <2> QED BY <2>5, <2>6, <2>7 DEF TypeOK
<1> QED BY <1>1, <1>2

\* A resumed session: the replay starts behind the number the client named, up to
\* which everything is accounted for.
LEMMA ResumedSessionFlows ==
    ASSUME TypeOK, TypeOK', TurnInv, OpeningInv, BoundInv, FlowInv, AccountInv,
           NEW s \in Sockets, ServerResumes(s)
    PROVE  FlowInv' /\ AccountInv'
<1> DEFINE n == Head(toServer[s]).session
           from == Head(toServer[s]).n
<1>0. UNCHANGED <<disposal, sessionId, sequence, history, socket>>
  BY DEF ServerResumes, driver, protocol
<1>1. /\ wire[s] = "open" /\ toServer[s] # <<>> /\ Head(toServer[s]).op = "resume"
      /\ n \in Sessions /\ from \in Nat
      /\ Head(toServer[s]) = toServer[s][1] /\ 1 \in 1 .. Len(toServer[s])
  <2>1. wire[s] = "open" /\ toServer[s] # <<>> /\ Head(toServer[s]).op = "resume"
    BY DEF ServerResumes, Reads
  <2>2. /\ Head(toServer[s]) \in ClientFrames
        /\ Head(toServer[s]) = toServer[s][1] /\ 1 \in 1 .. Len(toServer[s])
    BY <2>1, TailPlaces DEF TypeOK
  <2> QED BY <2>1, <2>2, ResumeFields, BoundsAssumption
<1>2. toClient[s] = <<>> /\ bound[s] = NoSession
  BY <1>1, AskedAlone DEF Opens
<1>3. CASE toClient' = Answered(s, <<Done(TRUE)>>) /\ wire' = [wire EXCEPT ![s] = "ended"]
           /\ UNCHANGED <<log, bound>>
  <2>1. Done(TRUE) \in ServerFrames /\ Done(TRUE).op = "done"
    BY FramesTyped DEF Done
  <2> QED BY <1>0, <1>3, <2>1, FlowEnds
<1>4. CASE toClient' = Answered(s, <<InvalidSession(FALSE)>>) /\ UNCHANGED <<log, bound, wire>>
  <2>1. InvalidSession(FALSE) \in ServerFrames /\ InvalidSession(FALSE).op # "dispatch"
    BY FramesTyped DEF InvalidSession
  <2>2. Lengths' = Lengths /\ \A m \in Sessions : Lengths[m] <= Lengths[m]
    BY <1>4, SessionsTyped DEF Lengths
  <2>3. /\ toClient'[s] = Append(toClient[s], InvalidSession(FALSE))
        /\ \A t \in Sockets : t # s => toClient'[t] = toClient[t]
    <3>1. \A q \in Seq(ServerFrames), f \in ServerFrames : Append(q, f) = q \o <<f>>
      BY AppendPlaces
    <3>2. /\ toClient'[s] = toClient[s] \o <<InvalidSession(FALSE)>>
          /\ \A t \in Sockets : t # s => toClient'[t] = toClient[t]
      BY <1>4 DEF Answered, TypeOK
    <3> QED BY <2>1, <3>1, <3>2 DEF TypeOK
  <2>4. socket = NoSocket \/ socket \in Sockets
    BY DEF TypeOK
  <2> QED BY <1>0, <1>4, <2>1, <2>2, <2>3, <2>4, FlowOutside
<1>5. CASE /\ log' = [log EXCEPT ![n] = Append(log[n], "RESUMED")]
           /\ Len(log[n]) < MaxEvents
           /\ bound' = [t \in Sockets |->
                          IF t = s THEN n ELSE IF bound[t] = n THEN NoSession ELSE bound[t]]
           /\ toClient' = Answered(s, [k \in 1 .. (Len(Append(log[n], "RESUMED")) - from) |->
                                         Dispatch(n, from + k)])
           /\ UNCHANGED wire
  <2> HIDE DEF n, from
  <2>1. /\ Lengths \in [Sessions -> Nat] /\ Len(Append(log[n], "RESUMED")) = Lengths[n] + 1
        /\ Lengths'[n] = Lengths[n] + 1 /\ Lengths'[n] \in 0 .. MaxEvents
        /\ \A m \in Sessions : m # n => Lengths'[m] = Lengths[m]
    <3>1. /\ Lengths \in [Sessions -> Nat] /\ Lengths[n] = Len(log[n])
          /\ log[n] \in Seq(DispatchNames) /\ "RESUMED" \in DispatchNames
      BY <1>1, SessionsTyped DEF TypeOK, DispatchNames
    <3>2. Len(Append(log[n], "RESUMED")) = Lengths[n] + 1
      BY <3>1, AppendPlaces
    <3>3. \A m \in Sessions : Len(log'[m]) = IF m = n THEN Lengths[n] + 1 ELSE Len(log[m])
      BY <1>5, <3>2 DEF TypeOK
    <3>4. \A m \in Sessions : Lengths'[m] = IF m = n THEN Lengths[n] + 1 ELSE Lengths[m]
      BY <3>3 DEF Lengths
    <3>5. Lengths[n] + 1 \in 0 .. MaxEvents
      BY SMTT(20), <1>1, <1>5, <3>1, BoundsAssumption
    <3> QED BY <1>1, <3>1, <3>2, <3>4, <3>5
  <2>2. \A m \in Sessions : Lengths[m] <= Lengths'[m]
    BY <1>1, <2>1
  <2>3. CASE socket = s /\ disposal # "done"
    <3>1. sessionId = n /\ sequence = from /\ n # NoSession
      BY <1>1, <2>3, SocketsExist, DispatchIs DEF OpeningInv, OpensAsIs, n, from
    <3>2. \A d \in Handed[n] : d \in Nat /\ d <= from
      BY <1>1, <2>3, <3>1, SessionsTyped DEF AccountInv
    <3>3. \A k \in 1 .. MaxEvents : k <= from => k \in Accounted[n]
      BY <1>1, <2>3, <3>1 DEF AccountInv
    <3> DEFINE replay == [k \in 1 .. (Lengths'[n] - from) |-> Dispatch(n, from + k)]
    <3>4. InLine(replay, n, Lengths', Handed, Accounted)
          /\ Complete(replay, n, n, Lengths', Accounted)
      BY <1>1, <2>1, <3>2, <3>3, LineResumes
    <3>5. toClient'[s] = <<>> \o replay
      BY <1>2, <1>5, <2>1 DEF Answered, TypeOK
    <3>6. \E T : replay \in Seq(T)
      <4>1. PICK l \in Nat : 1 .. (Lengths'[n] - from) = 1 .. l
        <5>1. CASE Lengths'[n] - from \in Nat
          BY <5>1
        <5>2. CASE Lengths'[n] - from \notin Nat
          <6>1. 1 .. (Lengths'[n] - from) = 1 .. 0
            BY <1>1, <2>1, <5>2
          <6> QED BY <6>1
        <5> QED BY <5>1, <5>2
      <4>2. replay = [k \in 1 .. l |-> Dispatch(n, from + k)]
        BY <4>1
      <4>3. [k \in 1 .. l |-> Dispatch(n, from + k)] \in Seq({Dispatch(n, from + k) : k \in 1 .. l})
        OBVIOUS
      <4> QED BY <4>2, <4>3
    <3>7. toClient'[s] = replay
      <4> HIDE DEF replay
      <4> QED BY <3>5, <3>6
    <3>8. bound'[s] = n
      BY <1>5
    <3> HIDE DEF replay
    <3> QED BY <1>0, <2>2, <2>3, <3>1, <3>4, <3>7, <3>8, FlowOutside
  <2>4. CASE socket \in Sockets /\ socket # s
    <3>1. /\ toClient'[socket] = toClient[socket] /\ wire' = wire
          /\ \/ bound'[socket] = NoSession
             \/ bound'[socket] = bound[socket] /\ bound[socket] # n
      BY <1>5, <2>4 DEF Answered, TypeOK
    <3>2. bound'[socket] = NoSession \/ Lengths'[bound[socket]] = Lengths[bound[socket]]
      BY <2>1, <2>4, <3>1 DEF TypeOK
    <3> QED BY <1>0, <2>2, <3>1, <3>2, FlowOutside
  <2>5. CASE socket = NoSocket \/ disposal = "done"
    BY <1>0, <2>2, <2>5, FlowOutside
  <2> QED BY <2>3, <2>4, <2>5 DEF TypeOK
<1> QED BY <1>3, <1>4, <1>5 DEF ServerResumes

\* Something happens in a session: the socket that carries it is told, and no
\* other has anything of it to come that it could overtake.
LEMMA DispatchFlows ==
    ASSUME TypeOK, TypeOK', FlowInv, AccountInv, NEW n \in Sessions, ServerDispatches(n)
    PROVE  FlowInv' /\ AccountInv'
<1>0. /\ UNCHANGED <<disposal, sessionId, sequence, history, socket>>
      /\ UNCHANGED <<wire, bound>>
      /\ log' = [log EXCEPT ![n] = Append(log[n], "EVENT")]
      /\ toClient' = [s \in Sockets |->
                        IF wire[s] = "open" /\ bound[s] = n
                        THEN Append(toClient[s], Dispatch(n, Len(log[n]) + 1))
                        ELSE toClient[s]]
      /\ Len(log[n]) < MaxEvents
  BY DEF ServerDispatches, driver, protocol
<1>1. /\ Lengths \in [Sessions -> Nat] /\ Lengths' \in [Sessions -> Nat]
      /\ Lengths'[n] = Lengths[n] + 1 /\ Lengths'[n] \in 1 .. MaxEvents
      /\ Lengths[n] = Len(log[n])
      /\ \A m \in Sessions : m # n => Lengths'[m] = Lengths[m]
  <2>1. /\ Lengths \in [Sessions -> Nat] /\ Lengths[n] = Len(log[n])
        /\ log[n] \in Seq(DispatchNames) /\ "EVENT" \in DispatchNames
    BY SessionsTyped DEF TypeOK, DispatchNames
  <2>2. Len(Append(log[n], "EVENT")) = Lengths[n] + 1
    BY <2>1, AppendPlaces
  <2>3. \A m \in Sessions : Len(log'[m]) = IF m = n THEN Lengths[n] + 1 ELSE Len(log[m])
    BY <1>0, <2>2 DEF TypeOK
  <2>4. \A m \in Sessions : Lengths'[m] = IF m = n THEN Lengths[n] + 1 ELSE Lengths[m]
    BY <2>3 DEF Lengths
  <2>5. Lengths[n] + 1 \in 1 .. MaxEvents
    BY <1>0, <2>1, BoundsAssumption
  <2>6. Lengths' \in [Sessions -> Nat]
    BY DEF Lengths, TypeOK, DispatchNames
  <2> QED BY <2>1, <2>4, <2>5, <2>6
<1>2. \A m \in Sessions : Lengths[m] <= Lengths'[m]
  BY <1>1
<1>3. CASE socket \in Sockets /\ wire[socket] = "open" /\ bound[socket] = n /\ disposal # "done"
  <2>1. toClient'[socket] = Append(toClient[socket], Dispatch(n, Lengths'[n]))
        /\ toClient[socket] \in Seq(ServerFrames)
    BY <1>0, <1>1, <1>3 DEF TypeOK
  <2>2. /\ InLine(toClient[socket], sessionId, Lengths, Handed, Accounted)
        /\ Complete(toClient[socket], n, sessionId, Lengths, Accounted)
    BY <1>3, SocketsExist DEF FlowInv
  <2>3. \A d \in Handed[n] : d \in Nat /\ d <= Lengths[n]
    BY SessionsTyped DEF AccountInv
  <2>4. /\ InLine(toClient'[socket], sessionId, Lengths', Handed, Accounted)
        /\ Complete(toClient'[socket], n, sessionId, Lengths', Accounted)
    <3> DEFINE q == toClient[socket]
    <3>1. /\ q \in Seq(ServerFrames)
          /\ InLine(q, sessionId, Lengths, Handed, Accounted)
          /\ Complete(q, n, sessionId, Lengths, Accounted)
      BY <2>1, <2>2
    <3> HIDE DEF q
    <3>2. /\ InLine(Append(q, Dispatch(n, Lengths'[n])), sessionId, Lengths', Handed, Accounted)
          /\ Complete(Append(q, Dispatch(n, Lengths'[n])), n, sessionId, Lengths', Accounted)
      BY <1>1, <1>2, <2>3, <3>1, LineGrows
    <3> QED BY <2>1, <3>2 DEF q
  <2> QED BY <1>0, <1>2, <1>3, <2>4, FlowOutside
<1>4. CASE socket \in Sockets /\ ~(wire[socket] = "open" /\ bound[socket] = n)
  <2>1. toClient'[socket] = toClient[socket]
    BY <1>0, <1>4
  <2>2. CASE wire[socket] = "open"
    <3>1. bound[socket] = NoSession \/ Lengths'[bound[socket]] = Lengths[bound[socket]]
      BY <1>1, <1>4, <2>2 DEF TypeOK
    <3> QED BY <1>0, <1>2, <2>1, <3>1, FlowOutside
  <2>3. CASE wire[socket] # "open"
    <3>1. CASE disposal # "done" /\ socket # NoSocket
      <4>1. InLine(toClient[socket], sessionId, Lengths', Handed, Accounted)
        <5>1. toClient[socket] \in Seq(ServerFrames)
              /\ InLine(toClient[socket], sessionId, Lengths, Handed, Accounted)
          BY <1>4, <3>1 DEF FlowInv, TypeOK
        <5> QED BY <1>1, <1>2, <5>1, LineOutgrown
      <4> QED BY <1>0, <1>2, <2>1, <2>3, <4>1, FlowOutside
    <3>2. CASE ~(disposal # "done" /\ socket # NoSocket)
      BY <1>0, <1>2, <3>2, FlowOutside
    <3> QED BY <3>1, <3>2
  <2> QED BY <2>2, <2>3
<1>5. CASE socket = NoSocket \/ disposal = "done"
  BY <1>0, <1>2, <1>5, FlowOutside
<1> QED BY <1>3, <1>4, <1>5 DEF TypeOK

LEMMA NetworkFlows ==
    ASSUME TypeOK, TypeOK', TurnInv, OpeningInv, BoundInv, FlowInv, AccountInv, External
    PROVE  FlowInv' /\ AccountInv'
<1> USE DEF driver, protocol, links
<1>0. /\ \A n \in Sessions : Lengths[n] <= Lengths[n]
      /\ socket = NoSocket \/ socket \in Sockets
  <2>1. \A n \in Sessions : Lengths[n] \in Nat
    BY SessionsTyped
  <2>2. \A n \in Sessions : Lengths[n] <= Lengths[n]
    BY <2>1
  <2> QED BY <2>2 DEF TypeOK
<1>1. ASSUME NEW s \in Sockets, ServerReads(s) PROVE FlowInv' /\ AccountInv'
  <2>1. CASE ServerReadsIntent(s)
    BY <2>1, FlowUntouched DEF ServerReadsIntent
  <2> QED BY <1>1, <2>1, FreshSessionFlows, ResumedSessionFlows DEF ServerReads
<1>2. ASSUME NEW s \in Sockets, EndLink(s) PROVE FlowInv' /\ AccountInv'
  <2>1. Done(FALSE) \in ServerFrames /\ Done(FALSE).op = "done"
    BY FramesTyped DEF Done
  <2> QED BY <1>2, <2>1, FlowEnds DEF EndLink, server
<1>3. ASSUME NEW s \in Sockets, ServerCloses(s) \/ ServerDropsIdle(s) \/ BrokenLinkEnds(s)
      PROVE  FlowInv' /\ AccountInv'
  BY <1>2, <1>3 DEF ServerCloses, ServerDropsIdle, BrokenLinkEnds
<1>4. ASSUME NEW s \in Sockets, ServerAsks(s) PROVE FlowInv' /\ AccountInv'
  <2>1. PICK frame \in {Op("heartbeat"), Op("reconnect")}
                       \cup [op : {"invalid"}, resumable : BOOLEAN] :
          /\ toClient' = Answered(s, <<frame>>)
          /\ bound' = IF frame.op = "invalid"
                      THEN [bound EXCEPT ![s] = NoSession] ELSE bound
    BY <1>4 DEF ServerAsks
  <2>2. frame \in ServerFrames /\ frame.op # "dispatch"
    BY FramesTyped DEF ServerFrames, Op
  <2>3. /\ UNCHANGED <<disposal, sessionId, sequence, history, socket>>
        /\ UNCHANGED <<wire, log>> /\ Lengths' = Lengths
    BY <1>4 DEF ServerAsks, Lengths
  <2>4. /\ toClient'[s] = Append(toClient[s], frame)
        /\ bound'[s] \in {NoSession, bound[s]}
        /\ \A t \in Sockets : t # s => toClient'[t] = toClient[t] /\ bound'[t] = bound[t]
    <3>1. \A q \in Seq(ServerFrames), f \in ServerFrames : Append(q, f) = q \o <<f>>
      BY AppendPlaces
    <3>2. /\ toClient'[s] = toClient[s] \o <<frame>>
          /\ \A t \in Sockets : t # s => toClient'[t] = toClient[t]
      BY <2>1 DEF Answered, TypeOK
    <3>3. /\ bound'[s] \in {NoSession, bound[s]}
          /\ \A t \in Sockets : t # s => bound'[t] = bound[t]
      BY <2>1 DEF TypeOK
    <3> QED BY <2>2, <3>1, <3>2, <3>3 DEF TypeOK
  <2>5. CASE socket = s
    BY <1>0, <2>2, <2>3, <2>4, <2>5, FlowOutside
  <2>6. CASE socket \in Sockets /\ socket # s
    BY <1>0, <2>3, <2>4, <2>6, FlowOutside
  <2>7. CASE socket = NoSocket
    BY <1>0, <2>3, <2>7, FlowOutside
  <2> QED BY <1>0, <2>5, <2>6, <2>7
<1>5. ASSUME NEW s \in Sockets, LinkBreaks(s) PROVE FlowInv' /\ AccountInv'
  <2>1. PICK k \in (IF held[s] THEN 1 ELSE 0) .. Len(toClient[s]) :
          toClient' = [toClient EXCEPT ![s] = SubSeq(@, 1, k)]
    BY <1>5 DEF LinkBreaks
  <2>2. /\ k \in 0 .. Len(toClient[s]) /\ toClient[s] \in Seq(ServerFrames)
        /\ toClient'[s] = SubSeq(toClient[s], 1, k) /\ wire'[s] = "broken"
        /\ \A t \in Sockets : t # s => toClient'[t] = toClient[t] /\ wire'[t] = wire[t]
    BY <1>5, <2>1 DEF LinkBreaks, TypeOK
  <2>3. /\ UNCHANGED <<disposal, sessionId, sequence, log, history, socket>>
        /\ UNCHANGED <<log, bound>> /\ Lengths' = Lengths
    BY <1>5 DEF LinkBreaks, server, Lengths
  <2>4. CASE socket = s /\ disposal # "done"
    <3>1. InLine(toClient[s], sessionId, Lengths, Handed, Accounted)
      BY <2>4, SocketsExist DEF FlowInv
    <3>2. InLine(toClient'[s], sessionId, Lengths', Handed, Accounted)
      BY <2>2, <2>3, <3>1, LineCut
    <3> QED BY <1>0, <2>2, <2>3, <2>4, <3>2, FlowOutside
  <2>5. CASE socket \in Sockets /\ socket # s
    BY <2>2, <2>3, <2>5, FlowUntouched
  <2>6. CASE socket = NoSocket \/ disposal = "done"
    BY <1>0, <2>3, <2>6, FlowOutside
  <2> QED BY <1>0, <2>4, <2>5, <2>6
<1>6. ASSUME NEW n \in Sessions, ServerDispatches(n) PROVE FlowInv' /\ AccountInv'
  BY <1>6, DispatchFlows
<1>7. ASSUME NEW n \in Sessions, SessionExpires(n) PROVE FlowInv' /\ AccountInv'
  BY <1>7, FlowUntouched DEF SessionExpires
<1>8. CASE CredentialIsRevoked
  BY <1>8, FlowUntouched DEF CredentialIsRevoked
<1> QED BY <1>1, <1>3, <1>4, <1>5, <1>6, <1>7, <1>8 DEF External

LEMMA FlowStep ==
    ASSUME TypeOK, TurnInv, OpeningInv, BoundInv, FlowInv, AccountInv, [Next]_vars
    PROVE  FlowInv' /\ AccountInv'
<1>1. CASE UNCHANGED vars
  BY <1>1, FlowUntouched DEF vars, driver, protocol, links, server
<1>2. CASE External
  BY <1>2, ExternalTyped, NetworkFlows
<1> QED BY <1>1, <1>2, SocketStepFlows, CallsAndTimersFlow DEF Next

LEMMA FlowHolds == Spec => [](FlowInv /\ AccountInv)
<1>1. Init => FlowInv /\ AccountInv
  <2>1. ASSUME Init
        PROVE  /\ \A n \in Sessions : delivered[n] = <<>>
               /\ sessionId = NoSession /\ socket = NoSocket
    BY <2>1 DEF Init
  <2>2. \A T : DOMAIN <<>> = {} /\ Range(<<>>) = {}
    BY DEF Range
  <2> QED BY <2>1, <2>2 DEF FlowInv, AccountInv, Handed, DeliveredInOrder
<1>2. (/\ TypeOK /\ TurnInv /\ OpeningInv /\ BoundInv
       /\ (FlowInv /\ AccountInv) /\ [Next]_vars) => (FlowInv /\ AccountInv)'
  BY FlowStep
<1> QED BY <1>1, <1>2, TypeCorrect, TurnsHold, OpeningHolds, BoundHolds, PTL DEF Spec

\* While a session lasts, every dispatch up to the number the client would resume
\* from has been handed on, or could not be read, or was lost while a reconnect
\* was due: whatever was still being decoded or on its way when a socket was
\* replaced comes back with the replay.
THEOREM NothingPassedOver == Spec => []CountedIsDelivered
<1>1. TypeOK /\ AccountInv => CountedIsDelivered
  <2> SUFFICES ASSUME TypeOK, AccountInv, disposal # "done", sessionId # NoSession,
                      NEW k \in 1 .. sequence
               PROVE  k \in Range(delivered[sessionId]) \cup misread[sessionId]
                               \cup forgone[sessionId]
    BY DEF CountedIsDelivered, Counted
  <2>1. sessionId \in Sessions
    BY DEF TypeOK
  <2>2. sequence \in 0 .. MaxEvents
    <3>1. CASE sequence = NoSequence
      <4>1. 1 .. sequence = {}
        BY <3>1 DEF NoSequence
      <4> QED BY <4>1
    <3> QED BY <3>1 DEF TypeOK
  <2>3. k \in 1 .. MaxEvents /\ k <= sequence
    BY <2>2, BoundsAssumption
  <2>4. k \in Accounted[sessionId]
    BY <2>3 DEF AccountInv
  <2> QED BY <2>1, <2>4 DEF Accounted
<1> QED BY <1>1, TypeCorrect, FlowHolds, PTL

\* No dispatch of a session is handed on twice or out of order, across resumes,
\* replaced sockets, and frames a worker decodes.
THEOREM HandedOnInOrder == Spec => []DeliveredInOrder
<1>1. AccountInv => DeliveredInOrder
  BY DEF AccountInv
<1> QED BY <1>1, FlowHolds, PTL

-----------------------------------------------------------------------------
(* What a session was told.  The last word on its way about each intent is *)
(* what the user wants now, and a session that was never resumed knows, of *)
(* the intents nothing is on its way about, no more than the user wants,   *)
(* and no less once READY has repeated them.                               *)

Mentions(frame, i) == frame.op = "intent" /\ i \in frame.on \cup frame.off

\* The frames out mention i for the last time at place j, or not at all.
LastMention(out, i, j) ==
    Mentions(out[j], i) /\ \A h \in 1 .. Len(out) : j < h => ~Mentions(out[h], i)

Unsaid(out, i) == \A j \in 1 .. Len(out) : ~Mentions(out[j], i)

Told(out, want) ==
    \A i \in Intents : \A j \in 1 .. Len(out) : LastMention(out, i, j) =>
        /\ i \in out[j].on => i \in want
        /\ i \in want => i \in out[j].on

\* A session knows `told` of what the user wants, all of it if `repeated`.
Knows(out, told, want, repeated) ==
    \A i \in Intents : Unsaid(out, i) =>
        /\ i \in told => i \in want
        /\ repeated /\ i \in want => i \in told

Fresh(n) == "RESUMED" \notin Range(log[n])
Repeated(n) == n = sessionId /\ misread[n] = {}

ToldInv ==
    disposal # "done" /\ socket # NoSocket /\ wire[socket] = "open" =>
        /\ Told(toServer[socket], desired)
        /\ \A b \in Sessions : bound[socket] = b /\ Fresh(b) =>
              Knows(toServer[socket], known[b], desired, Repeated(b))

\* A session that has not begun was told nothing.
UntoldInv == \A n \in Sessions : log[n] = <<>> => known[n] = {}

\* The client writes a frame that says of the intents it mentions what the user
\* wants by then; about the others nothing has changed.
LEMMA ToldWritten ==
    ASSUME NEW out \in Seq(ClientFrames), NEW f \in ClientFrames,
           NEW want, NEW want2,
           \A i \in Intents : Mentions(f, i) =>
              (i \in f.on => i \in want2) /\ (i \in want2 => i \in f.on),
           \A i \in Intents : ~Mentions(f, i) =>
              (i \in want => i \in want2) /\ (i \in want2 => i \in want)
    PROVE  /\ Told(out, want) => Told(out \o <<f>>, want2)
           /\ \A told, repeated, repeated2 :
                 Knows(out, told, want, repeated) /\
                 (repeated2 => repeated \/ \A i \in Intents : i \in want2 => Mentions(f, i))
                    => Knows(out \o <<f>>, told, want2, repeated2)
<1> DEFINE p == Append(out, f)
<1>1. /\ out \o <<f>> = p /\ Len(p) = Len(out) + 1 /\ p[Len(out) + 1] = f
      /\ \A j \in 1 .. Len(out) : p[j] = out[j]
      /\ Len(out) \in Nat
  BY AppendPlaces
<1>2. /\ \A j \in 1 .. Len(p) : j \in 1 .. Len(out) \/ j = Len(out) + 1
      /\ \A j \in 1 .. Len(out) : j \in 1 .. Len(p) /\ j < Len(out) + 1
      /\ Len(out) + 1 \in 1 .. Len(p)
  BY <1>1
<1> HIDE DEF p
<1>3. ASSUME Told(out, want) PROVE Told(p, want2)
  <2> SUFFICES ASSUME NEW i \in Intents, NEW j \in 1 .. Len(p), LastMention(p, i, j)
               PROVE  (i \in p[j].on => i \in want2) /\ (i \in want2 => i \in p[j].on)
    BY DEF Told
  <2>1. CASE j = Len(out) + 1
    BY <1>1, <2>1 DEF LastMention
  <2>2. CASE j \in 1 .. Len(out)
    <3>1. ~Mentions(f, i) /\ LastMention(out, i, j) /\ p[j] = out[j]
      BY <1>1, <1>2, <2>2 DEF LastMention
    <3> QED BY <1>3, <2>2, <3>1 DEF Told
  <2> QED BY <1>2, <2>1, <2>2
<1>4. ASSUME NEW told, NEW repeated, NEW repeated2, Knows(out, told, want, repeated),
             repeated2 => repeated \/ \A i \in Intents : i \in want2 => Mentions(f, i)
      PROVE  Knows(p, told, want2, repeated2)
  <2> SUFFICES ASSUME NEW i \in Intents, Unsaid(p, i)
               PROVE  /\ i \in told => i \in want2
                      /\ repeated2 /\ i \in want2 => i \in told
    BY DEF Knows
  <2>1. Unsaid(out, i) /\ ~Mentions(f, i)
    BY <1>1, <1>2 DEF Unsaid
  <2> QED BY <1>4, <2>1 DEF Knows
<1> QED BY <1>1, <1>3, <1>4

\* The server reads a frame, and remembers what it says.
LEMMA ToldRead ==
    ASSUME NEW out \in Seq(ClientFrames), out # <<>>, NEW want, Told(out, want)
    PROVE  /\ Told(Tail(out), want)
           /\ \A told, repeated : Knows(out, told, want, repeated) =>
                 /\ Head(out).op = "intent" =>
                       Knows(Tail(out), (told \ Head(out).off) \cup Head(out).on, want, repeated)
                 /\ Head(out).op # "intent" => Knows(Tail(out), told, want, repeated)
<1> DEFINE p == Tail(out)
           f == Head(out)
<1>1. /\ Len(out) \in Nat /\ Len(out) >= 1 /\ f = out[1] /\ Len(p) = Len(out) - 1
      /\ \A j \in 1 .. Len(p) : p[j] = out[j + 1]
  BY TailPlaces
<1>2. /\ \A j \in 1 .. Len(p) : j + 1 \in 1 .. Len(out) /\ 1 < j + 1
      /\ \A j \in 1 .. Len(out) : j = 1 \/ (j - 1 \in 1 .. Len(p) /\ (j - 1) + 1 = j)
      /\ \A j, h \in 1 .. Len(p) : j + 1 < h + 1 => j < h
      /\ \A j \in 1 .. Len(p), h \in 1 .. Len(out) : j + 1 < h => h # 1 /\ j < h - 1
      /\ 1 \in 1 .. Len(out)
  BY <1>1
<1> HIDE DEF p, f
<1>3. Told(p, want)
  <2> SUFFICES ASSUME NEW i \in Intents, NEW j \in 1 .. Len(p), LastMention(p, i, j)
               PROVE  (i \in p[j].on => i \in want) /\ (i \in want => i \in p[j].on)
    BY DEF Told
  <2>1. p[j] = out[j + 1] /\ j + 1 \in 1 .. Len(out)
    BY <1>1, <1>2
  <2>2. ASSUME NEW h \in 1 .. Len(out), j + 1 < h PROVE ~Mentions(out[h], i)
    <3>1. h - 1 \in 1 .. Len(p) /\ (h - 1) + 1 = h /\ j < h - 1
      BY <1>2, <2>2
    <3>2. p[h - 1] = out[h]
      BY <1>1, <3>1
    <3> QED BY <3>1, <3>2 DEF LastMention
  <2>3. LastMention(out, i, j + 1)
    BY <2>1, <2>2 DEF LastMention
  <2> QED BY <2>1, <2>3 DEF Told
<1>4. ASSUME NEW i \in Intents, Unsaid(p, i)
      PROVE  \A h \in 1 .. Len(out) : 1 < h => ~Mentions(out[h], i)
  <2> SUFFICES ASSUME NEW h \in 1 .. Len(out), 1 < h PROVE ~Mentions(out[h], i)
    OBVIOUS
  <2>1. h - 1 \in 1 .. Len(p) /\ (h - 1) + 1 = h
    BY <1>2
  <2> QED BY <1>1, <1>4, <2>1 DEF Unsaid
<1>5. ASSUME NEW i \in Intents, Unsaid(p, i), ~Mentions(f, i) PROVE Unsaid(out, i)
  <2> SUFFICES ASSUME NEW h \in 1 .. Len(out) PROVE ~Mentions(out[h], i)
    BY DEF Unsaid
  <2>1. h = 1 \/ 1 < h
    OBVIOUS
  <2> QED BY <1>1, <1>4, <1>5, <2>1
<1>6. ASSUME NEW i \in Intents, Unsaid(p, i), Mentions(f, i)
      PROVE  (i \in f.on => i \in want) /\ (i \in want => i \in f.on)
  <2>1. LastMention(out, i, 1)
    BY <1>1, <1>4, <1>6 DEF LastMention
  <2> QED BY <1>1, <1>2, <2>1 DEF Told
<1>7. ASSUME NEW told, NEW repeated, Knows(out, told, want, repeated)
      PROVE  /\ f.op = "intent" => Knows(p, (told \ f.off) \cup f.on, want, repeated)
             /\ f.op # "intent" => Knows(p, told, want, repeated)
  <2>1. CASE f.op = "intent"
    <3> SUFFICES ASSUME NEW i \in Intents, Unsaid(p, i)
                 PROVE  /\ i \in (told \ f.off) \cup f.on => i \in want
                        /\ repeated /\ i \in want => i \in (told \ f.off) \cup f.on
      BY <2>1 DEF Knows
    <3>1. CASE Mentions(f, i)
      BY <1>6, <3>1 DEF Mentions
    <3>2. CASE ~Mentions(f, i)
      <4>1. i \notin f.on /\ i \notin f.off
        BY <2>1, <3>2 DEF Mentions
      <4>2. Unsaid(out, i)
        BY <1>5, <3>2
      <4> QED BY <1>7, <4>1, <4>2 DEF Knows
    <3> QED BY <3>1, <3>2
  <2>2. CASE f.op # "intent"
    <3>1. \A i \in Intents : Unsaid(p, i) => Unsaid(out, i)
      BY <1>5, <2>2 DEF Mentions
    <3> QED BY <1>7, <2>2, <3>1 DEF Knows
  <2> QED BY <2>1, <2>2
<1> QED BY <1>3, <1>7 DEF p, f

\* Nothing is on its way, and a session that was told nothing knows nothing.
LEMMA ToldNothing ==
    /\ \A want : Told(<<>>, want)
    /\ \A out, want : Knows(out, {}, want, FALSE)
    /\ \A out, told, want, repeated, repeated2 :
          Knows(out, told, want, repeated) /\ (repeated2 => repeated) =>
          Knows(out, told, want, repeated2)
BY EmptyPlaces DEF Told, Knows

LEMMA UntoldStep ==
    ASSUME TypeOK, BoundInv, UntoldInv, [Next]_vars
    PROVE  UntoldInv'
<1> USE DEF server
<1>0. \A q \in Seq(DispatchNames), e \in DispatchNames : Append(q, e) # <<>>
  BY AppendProperties
<1>1. ASSUME UNCHANGED known, \A n \in Sessions : log'[n] = <<>> => log[n] = <<>>
      PROVE  UntoldInv'
  BY <1>1 DEF UntoldInv
<1>2. CASE UNCHANGED <<known, log>>
  BY <1>1, <1>2
<1>3. ASSUME NEW s \in Sockets, ServerReads(s) PROVE UntoldInv'
  <2>1. CASE ServerReadsIntent(s)
    <3>1. /\ UNCHANGED log
          /\ \A n \in Sessions : n # bound[s] => known'[n] = known[n]
      BY <2>1 DEF ServerReadsIntent
    <3>2. \A n \in Sessions : log[n] = <<>> => n # bound[s]
      BY DispatchIs DEF BoundInv
    <3> QED BY <3>1, <3>2 DEF UntoldInv
  <2>2. CASE ServerIdentifies(s)
    <3>1. <<"READY">> # <<>>
      OBVIOUS
    <3> QED BY <1>1, <2>2, <3>1 DEF ServerIdentifies, TypeOK
  <2>3. CASE ServerResumes(s)
    <3> DEFINE n == Head(toServer[s]).session
    <3>1. n \in Sessions
      <4>1. Head(toServer[s]) \in ClientFrames /\ Head(toServer[s]).op = "resume"
        BY <2>3, TailPlaces DEF ServerResumes, Reads, TypeOK
      <4> QED BY <4>1, ResumeFields
    <3>2. UNCHANGED log \/ log' = [log EXCEPT ![n] = Append(log[n], "RESUMED")]
      BY <2>3 DEF ServerResumes
    <3>3. Append(log[n], "RESUMED") # <<>> /\ UNCHANGED known
      BY <1>0, <2>3, <3>1 DEF ServerResumes, TypeOK, DispatchNames
    <3> HIDE DEF n
    <3> QED BY <1>1, <3>1, <3>2, <3>3 DEF TypeOK
  <2> QED BY <1>3, <2>1, <2>2, <2>3 DEF ServerReads
<1>4. ASSUME NEW n \in Sessions, ServerDispatches(n) PROVE UntoldInv'
  <2>1. /\ log' = [log EXCEPT ![n] = Append(log[n], "EVENT")] /\ UNCHANGED known
        /\ Append(log[n], "EVENT") # <<>>
    BY <1>0, <1>4 DEF ServerDispatches, DispatchNames, TypeOK
  <2> QED BY <1>1, <2>1 DEF TypeOK
<1>5. CASE User \/ Timers
  BY <1>2, <1>5 DEF User, Connect, CloseBegin, CloseEnd, SetIntent, Timers, ReconnectTimer,
                    HeartbeatTimer, DialSucceeds, OvertakenCloses, DialFails
<1>6. ASSUME NEW s \in Sockets, SocketStep(s) PROVE UntoldInv'
  BY <1>2, <1>6
     DEF SocketStep, TakeFrame, SkipStaleFrame, HoldLargeFrame, AcceptHello, AcceptAck,
         AcceptHeartbeatRequest, AcceptReconnect, AcceptInvalidSession, AcceptDispatch,
         LoseFrame, MisreadFrame, AcceptDone
<1>7. ASSUME NEW s \in Sockets,
             \/ ServerAsks(s) \/ ServerCloses(s) \/ ServerDropsIdle(s)
             \/ LinkBreaks(s) \/ BrokenLinkEnds(s)
      PROVE  UntoldInv'
  BY <1>2, <1>7 DEF ServerAsks, ServerCloses, ServerDropsIdle, LinkBreaks,
                    BrokenLinkEnds, EndLink
<1>8. ASSUME NEW n \in Sessions, SessionExpires(n) PROVE UntoldInv'
  BY <1>2, <1>8 DEF SessionExpires
<1>9. CASE CredentialIsRevoked
  BY <1>2, <1>9 DEF CredentialIsRevoked
<1>10. CASE UNCHANGED vars
  BY <1>2, <1>10 DEF vars
<1> QED BY <1>3, <1>4, <1>5, <1>6, <1>7, <1>8, <1>9, <1>10 DEF Next, External

LEMMA UntoldHolds == Spec => []UntoldInv
<1>1. Init => UntoldInv
  BY DEF Init, UntoldInv
<1> QED BY <1>1, UntoldStep, TypeCorrect, BoundHolds, PTL DEF Spec

\* Steps that write nothing, tell the server nothing and give the client's session
\* no other name.
LEMMA ToldUntouched ==
    ASSUME TypeOK, ToldInv, UNCHANGED desired, disposal' # "done" => disposal # "done",
           \/ socket' = NoSocket
           \/ wire'[socket'] # "open"
           \/ /\ socket' = socket /\ wire'[socket] = wire[socket]
              /\ toServer'[socket] = toServer[socket]
              /\ \A b \in Sessions : bound'[socket] = b =>
                    /\ bound[socket] = b /\ known'[b] = known[b]
                    /\ Fresh(b)' => Fresh(b)
                    /\ Repeated(b)' => Repeated(b)
    PROVE  ToldInv'
<1>1. CASE socket' = NoSocket \/ wire'[socket'] # "open" \/ disposal' = "done"
  BY <1>1 DEF ToldInv
<1>2. CASE /\ socket' = socket /\ wire'[socket] = wire[socket] /\ disposal # "done"
           /\ toServer'[socket] = toServer[socket] /\ socket # NoSocket
           /\ wire[socket] = "open"
           /\ \A b \in Sessions : bound'[socket] = b =>
                 /\ bound[socket] = b /\ known'[b] = known[b]
                 /\ Fresh(b)' => Fresh(b)
                 /\ Repeated(b)' => Repeated(b)
  <2>1. /\ Told(toServer[socket], desired)
        /\ \A b \in Sessions : bound[socket] = b /\ Fresh(b) =>
              Knows(toServer[socket], known[b], desired, Repeated(b))
    BY <1>2 DEF ToldInv
  <2>2. ASSUME NEW b \in Sessions, bound'[socket] = b, Fresh(b)'
        PROVE  Knows(toServer[socket], known'[b], desired, Repeated(b)')
    <3>1. /\ Knows(toServer[socket], known[b], desired, Repeated(b)) /\ known'[b] = known[b]
          /\ Repeated(b)' => Repeated(b)
      BY <1>2, <2>1, <2>2
    <3> QED BY <3>1, ToldNothing
  <2> QED BY <1>2, <2>1, <2>2 DEF ToldInv
<1> QED BY <1>1, <1>2

\* A handler that writes no frame.
LEMMA ToldNoMore ==
    ASSUME TypeOK, ToldInv, UNCHANGED <<desired, disposal, bound, log, known>>,
           \A b \in Sessions : Repeated(b)' => Repeated(b), NEW q,
           \/ Stays(q) /\ UNCHANGED toServer
           \/ \E st, kept, left : Send(q, <<>>, st, kept, left)
           \/ /\ UNCHANGED toServer
              /\ \E st, kept, left : ScheduleReconnect(q, st, kept, left)
    PROVE  ToldInv'
<1>1. \/ Stays(q) /\ toServer' = Written(<<>>)
      \/ Stays(q) /\ UNCHANGED toServer
      \/ Drops(q)
  BY SendMoves, ScheduleMoves
<1>2. CASE Stays(q) /\ (toServer' = Written(<<>>) \/ UNCHANGED toServer)
  <2>1. socket \in Sockets => toServer'[socket] = toServer[socket]
    <3>1. \A out \in Seq(ClientFrames) : out \o <<>> = out
      OBVIOUS
    <3> QED BY <1>2, <3>1 DEF Written, TypeOK
  <2> QED BY <1>2, <2>1, ToldUntouched DEF Stays, Fresh, TypeOK
<1>3. CASE Drops(q)
  BY <1>3, ToldUntouched DEF Drops
<1> QED BY <1>1, <1>2, <1>3

\* A handler that writes a frame which says what the user wants by then.
LEMMA ToldMore ==
    ASSUME TypeOK, ToldInv, UNCHANGED <<disposal, bound, log, known>>,
           NEW f \in ClientFrames,
           \A i \in Intents : Mentions(f, i) =>
              (i \in f.on => i \in desired') /\ (i \in desired' => i \in f.on),
           \A i \in Intents : ~Mentions(f, i) =>
              (i \in desired => i \in desired') /\ (i \in desired' => i \in desired),
           \A b \in Sessions : bound[socket] = b /\ Repeated(b)' =>
              Repeated(b) \/ \A i \in Intents : i \in desired' => Mentions(f, i),
           NEW q, NEW st, NEW kept, NEW left, Send(q, <<f>>, st, kept, left)
    PROVE  ToldInv'
<1>1. \/ Stays(q) /\ toServer' = Written(<<f>>)
      \/ Stays(q) /\ wire[socket] = "broken"
      \/ Drops(q)
  BY SendMoves
<1>2. CASE Stays(q) /\ toServer' = Written(<<f>>)
  <2> SUFFICES ASSUME disposal # "done", socket # NoSocket, wire[socket] = "open"
               PROVE  /\ Told(toServer'[socket], desired')
                      /\ \A b \in Sessions : bound[socket] = b /\ Fresh(b)' =>
                            Knows(toServer'[socket], known[b], desired', Repeated(b)')
    BY <1>2 DEF ToldInv, Stays
  <2> DEFINE out == toServer[socket]
  <2>1. /\ out \in Seq(ClientFrames) /\ toServer'[socket] = out \o <<f>>
        /\ Told(out, desired)
        /\ \A b \in Sessions : bound[socket] = b /\ Fresh(b) =>
              Knows(out, known[b], desired, Repeated(b))
    BY <1>2 DEF ToldInv, Written, TypeOK
  <2> HIDE DEF out
  <2>2. Told(out \o <<f>>, desired')
    BY <2>1, ToldWritten
  <2>3. ASSUME NEW b \in Sessions, bound[socket] = b, Fresh(b)'
        PROVE  Knows(out \o <<f>>, known[b], desired', Repeated(b)')
    <3>1. /\ Knows(out, known[b], desired, Repeated(b))
          /\ Repeated(b)' => Repeated(b) \/ \A i \in Intents : i \in desired' => Mentions(f, i)
      BY <2>1, <2>3 DEF Fresh
    <3> HIDE DEF Mentions
    <3> QED BY <2>1, <3>1, ToldWritten
  <2> QED BY <2>1, <2>2, <2>3
<1>3. CASE Stays(q) /\ wire[socket] = "broken"
  BY <1>3 DEF Stays, ToldInv
<1>4. CASE Drops(q)
  BY <1>4 DEF Drops, ToldInv
<1> QED BY <1>1, <1>2, <1>3, <1>4

\* An opening mentions nothing; READY is answered with all the user wants; a call
\* of the user with what changes.
LEMMA FramesMention ==
    /\ \A f, i : Opens(f) => ~Mentions(f, i)
    /\ \A i \in Intents : Mentions(ReplayFrame, i) =>
          (i \in ReplayFrame.on => i \in desired) /\ (i \in desired => i \in ReplayFrame.on)
    /\ \A i : i \in desired => Mentions(ReplayFrame, i)
<1>1. \A f, i : Opens(f) => ~Mentions(f, i)
  BY DEF Opens, Mentions
<1>2. /\ ReplayFrame.op = "intent" /\ ReplayFrame.on = desired
      /\ ReplayFrame.off = Channels \ desired
  BY DEF ReplayFrame, Intent
<1> QED BY <1>1, <1>2 DEF Mentions

LEMMA CallMentions ==
    ASSUME TypeOK, NEW i \in Intents, NEW want \in BOOLEAN,
           desired' = IF want THEN desired \cup {i} ELSE desired \ {i},
           NEW j \in Intents
    PROVE  /\ Mentions(IntentFrame(i, want), j) =>
                 /\ j \in IntentFrame(i, want).on => j \in desired'
                 /\ j \in desired' => j \in IntentFrame(i, want).on
           /\ ~Mentions(IntentFrame(i, want), j) =>
                 (j \in desired => j \in desired') /\ (j \in desired' => j \in desired)
<1> DEFINE f == IntentFrame(i, want)
<1>1. CASE i \in Rooms
  <2>1. /\ f.op = "intent" /\ f.on = (IF want THEN {i} ELSE {})
        /\ f.off = (IF want THEN {} ELSE {i})
    BY <1>1 DEF IntentFrame, Intent
  <2>2. \A k : Mentions(f, k) => k = i
    BY <2>1 DEF Mentions
  <2>3. Mentions(f, i)
    BY <2>1 DEF Mentions
  <2> HIDE DEF f
  <2>4. (i \in f.on => want) /\ (want => i \in f.on) /\ (want => i \in desired')
        /\ (i \in desired' => want)
    BY <2>1
  <2>5. j # i => (j \in desired => j \in desired') /\ (j \in desired' => j \in desired)
    OBVIOUS
  <2>6. /\ Mentions(f, j) => (j \in f.on => j \in desired') /\ (j \in desired' => j \in f.on)
        /\ ~Mentions(f, j) =>
              (j \in desired => j \in desired') /\ (j \in desired' => j \in desired)
    BY <2>2, <2>3, <2>4, <2>5
  <2> QED BY <2>6 DEF f
<1>2. CASE i \notin Rooms
  <2>1. /\ f.op = "intent" /\ f.on = desired' \cap Channels /\ f.off = Channels \ desired'
        /\ i \in Channels
    BY <1>2 DEF IntentFrame, Intent, Intents
  <2>2. \A k : (Mentions(f, k) => k \in Channels) /\ (k \in Channels => Mentions(f, k))
    BY <2>1 DEF Mentions
  <2> HIDE DEF f
  <2>3. j # i => (j \in desired => j \in desired') /\ (j \in desired' => j \in desired)
    OBVIOUS
  <2>4. /\ Mentions(f, j) => (j \in f.on => j \in desired') /\ (j \in desired' => j \in f.on)
        /\ ~Mentions(f, j) =>
              (j \in desired => j \in desired') /\ (j \in desired' => j \in desired)
    BY <2>1, <2>2, <2>3
  <2> QED BY <2>4 DEF f
<1> QED BY <1>1, <1>2

\* A repetition is not undone by a step that names no session, or names one whose
\* READY it could not read.
LEMMA RepeatedKept ==
    ASSUME TypeOK,
           \/ UNCHANGED sessionId /\ \A n \in Sessions : misread[n] \subseteq misread'[n]
           \/ sessionId' = NoSession
           \/ \E n \in Sessions : sessionId' = n /\ misread'[n] # {}
    PROVE  \A b \in Sessions : Repeated(b)' => Repeated(b)
BY DispatchIs DEF Repeated

LEMMA SocketStepTells ==
    ASSUME TypeOK, ToldInv, NEW s \in Sockets, SocketStep(s)
    PROVE  ToldInv'
<1> USE DEF driver, protocol, server, history
<1>0. /\ UNCHANGED <<desired, disposal, bound, log, known>>
      /\ \A b : Fresh(b)' = Fresh(b)
  BY DEF SocketStep, TakeFrame, SkipStaleFrame, HoldLargeFrame, AcceptHello, AcceptAck,
         AcceptHeartbeatRequest, AcceptReconnect, AcceptInvalidSession, AcceptDispatch,
         LoseFrame, MisreadFrame, AcceptDone, Fresh
<1>1. CASE SkipStaleFrame(s) \/ HoldLargeFrame(s) \/ AcceptAck(s)
  <2>1. UNCHANGED <<socket, wire, toServer, sessionId, misread>>
    BY <1>1 DEF SkipStaleFrame, HoldLargeFrame, AcceptAck
  <2> QED BY <1>0, <2>1, ToldUntouched DEF Repeated
<1>2. CASE AcceptHeartbeatRequest(s) \/ AcceptReconnect(s) \/ LoseFrame(s) \/ AcceptDone(s)
  <2>1. UNCHANGED <<sessionId, misread>>
    BY <1>2 DEF AcceptHeartbeatRequest, AcceptReconnect, LoseFrame, AcceptDone
  <2>2. \A b \in Sessions : Repeated(b)' => Repeated(b)
    BY <2>1 DEF Repeated
  <2>3. \/ Stays(Popped(s)) /\ UNCHANGED toServer
        \/ \E st, kept, left : Send(Popped(s), <<>>, st, kept, left)
        \/ /\ UNCHANGED toServer
           /\ \E st, kept, left : ScheduleReconnect(Popped(s), st, kept, left)
    <3>1. CASE AcceptHeartbeatRequest(s)
      BY <3>1 DEF AcceptHeartbeatRequest
    <3>2. CASE AcceptReconnect(s)
      BY <3>2 DEF AcceptReconnect
    <3>3. CASE LoseFrame(s)
      BY <3>3 DEF LoseFrame
    <3>4. CASE AcceptDone(s)
      BY <3>4 DEF AcceptDone, Stays
    <3> QED BY <1>2, <3>1, <3>2, <3>3, <3>4
  <2> QED BY <1>0, <2>2, <2>3, ToldNoMore
<1>3. CASE AcceptHello(s)
  <2>1. /\ OpeningFrame \in ClientFrames /\ Opens(OpeningFrame)
        /\ Send(Popped(s), <<OpeningFrame>>, status, "initial", "off")
    BY <1>3, OpeningTyped DEF AcceptHello, OpeningFrame, ResumeFrame, Resume, Op, Opens
  <2>2. \A b \in Sessions : Repeated(b)' => Repeated(b)
    BY <1>3, RepeatedKept DEF AcceptHello, Opening, Identify, Resuming
  <2> QED BY <1>0, <2>1, <2>2, FramesMention, ToldMore
<1>4. CASE AcceptInvalidSession(s)
  <2>1. \A b \in Sessions : Repeated(b)' => Repeated(b)
    BY <1>4, RepeatedKept DEF AcceptInvalidSession, Identify, Resuming
  <2>2. PICK f \in ClientFrames : Opens(f) /\ Send(Popped(s), <<f>>, status, heart, "off")
    <3>1. CASE ResumesAgain(s)
      <4>1. /\ ResumeFrame \in ClientFrames
            /\ Send(Popped(s), <<ResumeFrame>>, status, heart, "off")
        BY <1>4, <3>1, OpeningTyped DEF AcceptInvalidSession, ResumesAgain
      <4>2. Opens(ResumeFrame)
        BY DEF ResumeFrame, Resume, Opens
      <4> QED BY <4>1, <4>2
    <3>2. CASE ~ResumesAgain(s)
      <4>1. /\ Op("identify") \in ClientFrames
            /\ Send(Popped(s), <<Op("identify")>>, status, heart, "off")
        BY <1>4, <3>2, FramesTyped DEF AcceptInvalidSession
      <4>2. Opens(Op("identify"))
        BY DEF Op, Opens
      <4> QED BY <4>1, <4>2
    <3> QED BY <3>1, <3>2
  <2> QED BY <1>0, <2>1, <2>2, FramesMention, ToldMore
<1>5. CASE AcceptDispatch(s)
  <2>1. \/ Send(Popped(s), <<ReplayFrame>>, "connected", heart, "off")
        \/ /\ Stays(Popped(s)) /\ UNCHANGED <<toServer, sessionId>>
    BY <1>5 DEF AcceptDispatch, Stays, NothingSent
  <2>2. UNCHANGED misread
    BY <1>5 DEF AcceptDispatch
  <2>3. CASE Send(Popped(s), <<ReplayFrame>>, "connected", heart, "off")
    BY <1>0, <2>3, FramesMention, IntentsAreFrames, ToldMore
  <2>4. CASE Stays(Popped(s)) /\ UNCHANGED <<toServer, sessionId>>
    <3>1. \A b \in Sessions : Repeated(b)' => Repeated(b)
      BY <2>2, <2>4 DEF Repeated
    <3> QED BY <1>0, <2>4, <3>1, ToldNoMore
  <2> QED BY <2>1, <2>3, <2>4
<1>6. CASE MisreadFrame(s)
  <2>1. UNCHANGED <<socket, wire, toServer>>
    BY <1>6 DEF MisreadFrame, NothingSent
  <2>2. \A b \in Sessions : Repeated(b)' => Repeated(b)
    <3>1. CASE Next1(s).op # "dispatch"
      BY <1>6, <3>1 DEF MisreadFrame, Repeated
    <3>2. CASE Next1(s).op = "dispatch"
      <4> DEFINE n == Next1(s).session
                 k == Next1(s).n
      <4>1. n \in Sessions
        <5>1. Next1(s) \in ServerFrames
          BY <1>6, TailPlaces DEF MisreadFrame, Waiting, Next1, TypeOK
        <5> QED BY <3>2, <5>1, DispatchIs
      <4>2. /\ misread' = [misread EXCEPT ![n] = misread[n] \cup {k}]
            /\ UNCHANGED sessionId \/ sessionId' = n
        BY <1>6, <3>2 DEF MisreadFrame
      <4> HIDE DEF n, k
      <4>3. /\ k \in misread'[n] /\ \A m \in Sessions : misread[m] \subseteq misread'[m]
        BY <4>1, <4>2 DEF TypeOK
      <4> QED BY <4>1, <4>2, <4>3, RepeatedKept
    <3> QED BY <3>1, <3>2
  <2> QED BY <1>0, <2>1, <2>2, ToldUntouched
<1> QED BY <1>1, <1>2, <1>3, <1>4, <1>5, <1>6 DEF SocketStep, TakeFrame

LEMMA CallsAndTimersTell ==
    ASSUME TypeOK, ToldInv, User \/ Timers
    PROVE  ToldInv'
<1> USE DEF protocol, server, links, history
<1>1. CASE Connect \/ ReconnectTimer \/ OvertakenCloses
  BY <1>1, ToldUntouched DEF Connect, ReconnectTimer, OvertakenCloses, Fresh,
                             Repeated
<1>2. CASE CloseBegin
  BY <1>2 DEF CloseBegin, ToldInv
<1>3. CASE CloseEnd
  BY <1>3 DEF CloseEnd, ToldInv
<1>4. ASSUME NEW i \in Intents, NEW want \in BOOLEAN, SetIntent(i, want)
      PROVE  ToldInv'
  <2>1. /\ UNCHANGED <<disposal, bound, log, known, sessionId, misread>>
        /\ desired' = IF want THEN desired \cup {i} ELSE desired \ {i}
        /\ Send(toClient, <<IntentFrame(i, want)>>, status, heart, "off")
    BY <1>4 DEF SetIntent
  <2>2. \A b \in Sessions : Repeated(b)' => Repeated(b)
    BY <2>1 DEF Repeated
  <2>3. IntentFrame(i, want) \in ClientFrames
    BY IntentsAreFrames
  <2>4. \A j \in Intents :
           /\ Mentions(IntentFrame(i, want), j) =>
                 /\ j \in IntentFrame(i, want).on => j \in desired'
                 /\ j \in desired' => j \in IntentFrame(i, want).on
           /\ ~Mentions(IntentFrame(i, want), j) =>
                 (j \in desired => j \in desired') /\ (j \in desired' => j \in desired)
    BY <2>1, CallMentions
  <2> DEFINE f == IntentFrame(i, want)
  <2> HIDE DEF f
  <2>5. f \in ClientFrames /\ Send(toClient, <<f>>, status, heart, "off")
    BY <2>1, <2>3 DEF f
  <2>6. \A j \in Intents :
           /\ Mentions(f, j) => (j \in f.on => j \in desired') /\ (j \in desired' => j \in f.on)
           /\ ~Mentions(f, j) =>
                 (j \in desired => j \in desired') /\ (j \in desired' => j \in desired)
    BY <2>4 DEF f
  <2> QED BY <2>1, <2>2, <2>5, <2>6, ToldMore
<1>5. CASE HeartbeatTimer
  <2>1. /\ UNCHANGED <<desired, disposal, bound, log, known, sessionId, misread>>
        /\ \/ \E st, kept, left : Send(toClient, <<>>, st, kept, left)
           \/ /\ UNCHANGED toServer
              /\ \E st, kept, left : ScheduleReconnect(toClient, st, kept, left)
    BY <1>5 DEF HeartbeatTimer
  <2>2. \A b \in Sessions : Repeated(b)' => Repeated(b)
    BY <2>1 DEF Repeated
  <2> QED BY <2>1, <2>2, ToldNoMore
<1>6. CASE DialFails
  <2>1. /\ UNCHANGED <<desired, disposal, bound, log, known, sessionId, misread, toServer>>
        /\ \E st, kept, left : ScheduleReconnect(toClient, st, kept, left)
    BY <1>6 DEF DialFails
  <2>2. \A b \in Sessions : Repeated(b)' => Repeated(b)
    BY <2>1 DEF Repeated
  <2> QED BY <2>1, <2>2, ToldNoMore
<1>7. CASE DialSucceeds
  <2>1. CASE closing
    BY <1>7, <2>1, ToldUntouched DEF DialSucceeds, Fresh, Repeated
  <2>2. CASE ~closing
    <3>1. PICK s \in Sockets : /\ socket' = s
                               /\ toServer' = [toServer EXCEPT ![s] = <<>>]
                               /\ bound' = [bound EXCEPT ![s] = NoSession]
      BY <1>7, <2>2 DEF DialSucceeds
    <3>2. toServer'[s] = <<>> /\ bound'[s] \notin Sessions
      BY <3>1, DispatchIs DEF TypeOK
    <3> QED BY <3>1, <3>2, ToldNothing DEF ToldInv
  <2> QED BY <2>1, <2>2
<1> QED BY <1>1, <1>2, <1>3, <1>4, <1>5, <1>6, <1>7 DEF User, Timers

\* A session that goes on is not fresh for that.
LEMMA FreshStays ==
    ASSUME TypeOK, NEW n \in Sessions, NEW e \in DispatchNames,
           log' = [log EXCEPT ![n] = Append(log[n], e)]
    PROVE  /\ \A b \in Sessions : Fresh(b)' => Fresh(b)
           /\ e = "RESUMED" => ~Fresh(n)'
<1>1. log[n] \in Seq(DispatchNames) /\ log'[n] = Append(log[n], e)
      /\ \A b \in Sessions : b # n => log'[b] = log[b]
  BY DEF TypeOK
<1>2. Range(Append(log[n], e)) = Range(log[n]) \cup {e}
  <2> DEFINE q == log[n]
  <2>1. /\ q \in Seq(DispatchNames) /\ Len(q) \in Nat
        /\ Len(Append(q, e)) = Len(q) + 1 /\ Append(q, e)[Len(q) + 1] = e
        /\ \A i \in 1 .. Len(q) : Append(q, e)[i] = q[i]
        /\ DOMAIN q = 1 .. Len(q) /\ DOMAIN Append(q, e) = 1 .. Len(Append(q, e))
    BY <1>1, AppendPlaces
  <2> HIDE DEF q
  <2>2. /\ \A i \in 1 .. Len(Append(q, e)) : i \in 1 .. Len(q) \/ i = Len(q) + 1
        /\ \A i \in 1 .. Len(q) : i \in 1 .. Len(Append(q, e))
        /\ Len(q) + 1 \in 1 .. Len(Append(q, e))
    BY <2>1
  <2>3. Range(Append(q, e)) = Range(q) \cup {e}
    BY <2>1, <2>2 DEF Range
  <2> QED BY <2>3 DEF q
<1>3. ASSUME NEW b \in Sessions PROVE Range(log[b]) \subseteq Range(log'[b])
  BY <1>1, <1>2
<1> QED BY <1>1, <1>2, <1>3 DEF Fresh

\* The server opens a session nobody told anything yet.
LEMMA IdentifyTells ==
    ASSUME TypeOK, TurnInv, OpeningInv, BoundInv, UntoldInv, ToldInv, NEW s \in Sockets,
           ServerIdentifies(s)
    PROVE  ToldInv'
<1> USE DEF driver, protocol, history
<1>1. /\ UNCHANGED <<desired, disposal, socket, known, sessionId, misread>>
      /\ toServer' = [toServer EXCEPT ![s] = Tail(toServer[s])]
      /\ wire[s] = "open" /\ toServer[s] # <<>> /\ Head(toServer[s]).op = "identify"
  BY DEF ServerIdentifies, Read, Reads
<1>2. toServer[s] \in Seq(ClientFrames) /\ toServer'[s] = Tail(toServer[s])
  BY <1>1 DEF TypeOK
<1>3. CASE wire'[s] # "open"
  <2>1. /\ UNCHANGED <<log, bound>>
        /\ \A t \in Sockets : t # s => wire'[t] = wire[t] /\ toServer'[t] = toServer[t]
    BY <1>1, <1>3 DEF ServerIdentifies, TypeOK
  <2> QED BY <1>1, <1>3, <2>1, ToldUntouched DEF Fresh, Repeated, TypeOK
<1>4. CASE wire'[s] = "open"
  <2>1. PICK n \in Sessions : /\ log[n] = <<>> /\ log' = [log EXCEPT ![n] = <<"READY">>]
                              /\ bound' = [bound EXCEPT ![s] = n] /\ UNCHANGED wire
    BY <1>1, <1>4 DEF ServerIdentifies, TypeOK
  <2>2. /\ bound'[s] = n /\ \A t \in Sockets : t # s => bound'[t] = bound[t]
        /\ \A b \in Sessions : b # n => log'[b] = log[b]
        /\ \A t \in Sockets : t # s => toServer'[t] = toServer[t]
    BY <1>1, <2>1 DEF TypeOK
  <2>3. CASE socket = s
    <3>1. known[n] = {}
      BY <2>1 DEF UntoldInv
    <3>2. sessionId = NoSession
      <4>1. OpensAsIs(toServer[s], sessionId, sequence)
        BY <1>1, <2>3, SocketsExist DEF OpeningInv
      <4>2. Head(toServer[s]) = toServer[s][1] /\ 1 \in 1 .. Len(toServer[s])
        BY <1>1, <1>2, TailPlaces
      <4> QED BY <1>1, <4>1, <4>2 DEF OpensAsIs
    <3>3. ~Repeated(n)
      BY <3>2, DispatchIs DEF Repeated
    <3>4. disposal # "done" => Told(Tail(toServer[s]), desired)
      <4>1. disposal # "done" => Told(toServer[s], desired)
        BY <1>1, <2>3, SocketsExist DEF ToldInv
      <4> QED BY <1>1, <1>2, <4>1, ToldRead
    <3>5. Knows(Tail(toServer[s]), known[n], desired, Repeated(n))
      <4>1. Knows(Tail(toServer[s]), {}, desired, FALSE)
        BY ToldNothing
      <4>2. Knows(Tail(toServer[s]), known[n], desired, FALSE)
        BY <3>1, <4>1
      <4> QED BY <3>3, <4>2, ToldNothing
    <3>6. \A b \in Sessions : Repeated(b)' = Repeated(b)
      BY <1>1 DEF Repeated
    <3> QED BY <1>1, <1>2, <2>1, <2>2, <2>3, <3>4, <3>5, <3>6 DEF ToldInv
  <2>4. CASE socket # s
    <3>1. \A t \in Sockets : bound[t] # n
      BY <2>1, DispatchIs DEF BoundInv
    <3>2. \A b \in Sessions : Repeated(b)' = Repeated(b)
      BY <1>1 DEF Repeated
    <3>3. \A b \in Sessions : b # n => Fresh(b)' = Fresh(b)
      BY <2>2 DEF Fresh
    <3>4. CASE socket = NoSocket
      BY <1>1, <3>4 DEF ToldInv
    <3>5. CASE socket \in Sockets
      BY <1>1, <2>1, <2>2, <2>4, <3>1, <3>2, <3>3, <3>5, ToldUntouched
    <3> QED BY <3>4, <3>5 DEF TypeOK
  <2> QED BY <2>3, <2>4
<1> QED BY <1>3, <1>4

\* The server resumes a session, which is not fresh any more, or refuses.
LEMMA ResumeTells ==
    ASSUME TypeOK, ToldInv, NEW s \in Sockets, ServerResumes(s)
    PROVE  ToldInv'
<1> USE DEF driver, protocol, history
<1> DEFINE n == Head(toServer[s]).session
<1>1. /\ UNCHANGED <<desired, disposal, socket, known, sessionId, misread>>
      /\ toServer' = [toServer EXCEPT ![s] = Tail(toServer[s])]
      /\ wire[s] = "open" /\ toServer[s] # <<>> /\ Head(toServer[s]).op = "resume"
  BY DEF ServerResumes, Read, Reads
<1>2. /\ toServer[s] \in Seq(ClientFrames) /\ toServer'[s] = Tail(toServer[s])
      /\ \A t \in Sockets : t # s => toServer'[t] = toServer[t]
  BY <1>1 DEF TypeOK
<1>3. n \in Sessions
  <2>1. Head(toServer[s]) \in ClientFrames
    BY <1>1, <1>2, TailPlaces
  <2> QED BY <1>1, <2>1, ResumeFields
<1>4. \A b \in Sessions : Repeated(b)' = Repeated(b)
  BY <1>1 DEF Repeated
<1>5. \/ /\ UNCHANGED <<log, bound>> /\ wire' = [wire EXCEPT ![s] = "ended"]
      \/ UNCHANGED <<log, bound, wire>>
      \/ /\ log' = [log EXCEPT ![n] = Append(log[n], "RESUMED")] /\ UNCHANGED wire
         /\ bound' = [t \in Sockets |-> IF t = s THEN n
                                        ELSE IF bound[t] = n THEN NoSession ELSE bound[t]]
  BY DEF ServerResumes
<1> HIDE DEF n
<1>6. \A b \in Sessions : Fresh(b)' => Fresh(b)
  BY <1>3, <1>5, FreshStays DEF Fresh, DispatchNames
<1>7. CASE socket = s /\ wire' = wire
  <2>1. CASE disposal = "done"
    BY <1>1, <2>1 DEF ToldInv
  <2>2. CASE disposal # "done"
    <3>1. /\ Told(toServer[s], desired)
          /\ \A b \in Sessions : bound[s] = b /\ Fresh(b) =>
                Knows(toServer[s], known[b], desired, Repeated(b))
      BY <1>1, <1>7, <2>2, SocketsExist DEF ToldInv
    <3>2. Told(Tail(toServer[s]), desired)
      BY <1>1, <1>2, <3>1, ToldRead
    <3>3. ASSUME NEW b \in Sessions, bound'[s] = b, Fresh(b)'
          PROVE  Knows(Tail(toServer[s]), known[b], desired, Repeated(b)')
      <4>1. bound[s] = b
        <5>1. CASE log' = [log EXCEPT ![n] = Append(log[n], "RESUMED")]
                   /\ bound'[s] = n
          BY <1>3, <3>3, <5>1, FreshStays DEF DispatchNames
        <5>2. CASE UNCHANGED bound
          BY <3>3, <5>2
        <5> QED BY <1>5, <5>1, <5>2
      <4>2. Knows(toServer[s], known[b], desired, Repeated(b))
        BY <1>6, <3>1, <3>3, <4>1
      <4>3. Knows(Tail(toServer[s]), known[b], desired, Repeated(b))
        BY <1>1, <1>2, <3>1, <4>2, ToldRead
      <4> QED BY <1>4, <4>3
    <3> QED BY <1>1, <1>2, <1>7, <3>2, <3>3 DEF ToldInv
  <2> QED BY <2>1, <2>2
<1>8. CASE socket \in Sockets /\ ~(socket = s /\ wire' = wire)
  <2>1. wire'[socket] # "open" \/
        (/\ wire'[socket] = wire[socket] /\ toServer'[socket] = toServer[socket]
         /\ bound'[socket] \in {NoSession, bound[socket]})
    BY <1>2, <1>5, <1>8 DEF TypeOK
  <2> QED BY <1>1, <1>4, <1>6, <1>8, <2>1, DispatchIs, ToldUntouched
<1>9. CASE socket = NoSocket
  BY <1>1, <1>9 DEF ToldInv
<1> QED BY <1>7, <1>8, <1>9 DEF TypeOK

\* The server learns what it is told, of the session the socket carries.
LEMMA IntentTells ==
    ASSUME TypeOK, BoundInv, ToldInv, NEW s \in Sockets, ServerReadsIntent(s)
    PROVE  ToldInv'
<1> USE DEF driver, protocol, history
<1>1. /\ UNCHANGED <<desired, disposal, socket, sessionId, misread, log, bound, wire>>
      /\ toServer' = [toServer EXCEPT ![s] = Tail(toServer[s])]
      /\ toServer[s] # <<>> /\ Head(toServer[s]).op = "intent"
      /\ \A n \in Sessions : n # bound[s] => known'[n] = known[n]
      /\ \A n \in Sessions : n = bound[s] =>
            known'[n] = (known[n] \ Head(toServer[s]).off) \cup Head(toServer[s]).on
  BY DEF ServerReadsIntent, Read, Reads
<1>2. /\ toServer[s] \in Seq(ClientFrames) /\ toServer'[s] = Tail(toServer[s])
      /\ \A t \in Sockets : t # s => toServer'[t] = toServer[t]
  BY <1>1 DEF TypeOK
<1>3. \A b \in Sessions : Repeated(b)' = Repeated(b) /\ Fresh(b)' = Fresh(b)
  BY <1>1 DEF Repeated, Fresh
<1>4. CASE socket = s /\ wire[s] = "open" /\ disposal # "done"
  <2>1. /\ Told(toServer[s], desired)
        /\ \A b \in Sessions : bound[s] = b /\ Fresh(b) =>
              Knows(toServer[s], known[b], desired, Repeated(b))
    BY <1>4, SocketsExist DEF ToldInv
  <2>2. Told(Tail(toServer[s]), desired)
    BY <1>1, <1>2, <2>1, ToldRead
  <2>3. ASSUME NEW b \in Sessions, bound[s] = b, Fresh(b)
        PROVE  Knows(Tail(toServer[s]), known'[b], desired, Repeated(b))
    <3>1. Knows(toServer[s], known[b], desired, Repeated(b))
      BY <2>1, <2>3
    <3>2. Knows(Tail(toServer[s]), (known[b] \ Head(toServer[s]).off) \cup Head(toServer[s]).on,
                desired, Repeated(b))
      BY <1>1, <1>2, <2>1, <3>1, ToldRead
    <3> QED BY <1>1, <2>3, <3>2
  <2> QED BY <1>1, <1>2, <1>3, <1>4, <2>2, <2>3 DEF ToldInv
<1>5. CASE socket \in Sockets /\ socket # s
  <2>1. \A b \in Sessions : bound[socket] = b => b # bound[s]
    BY <1>5, DispatchIs DEF BoundInv
  <2> QED BY <1>1, <1>2, <1>3, <1>5, <2>1, ToldUntouched
<1>6. CASE socket = NoSocket \/ (socket = s /\ (wire[s] # "open" \/ disposal = "done"))
  BY <1>1, <1>6 DEF ToldInv
<1> QED BY <1>4, <1>5, <1>6 DEF TypeOK

LEMMA NetworkTells ==
    ASSUME TypeOK, TurnInv, OpeningInv, BoundInv, UntoldInv, ToldInv, External
    PROVE  ToldInv'
<1> USE DEF driver, protocol, links, server, history
<1>1. ASSUME NEW s \in Sockets, ServerReads(s) PROVE ToldInv'
  BY <1>1, IdentifyTells, ResumeTells, IntentTells DEF ServerReads
<1>2. ASSUME NEW s \in Sockets, EndLink(s) \/ LinkBreaks(s) PROVE ToldInv'
  <2>1. /\ UNCHANGED <<desired, disposal, socket, bound, log, known, sessionId, misread>>
        /\ wire'[s] # "open"
        /\ \A t \in Sockets : t # s => wire'[t] = wire[t] /\ toServer'[t] = toServer[t]
    BY <1>2 DEF EndLink, LinkBreaks, TypeOK
  <2> QED BY <2>1, ToldUntouched DEF Fresh, Repeated, TypeOK
<1>3. ASSUME NEW s \in Sockets, ServerAsks(s) PROVE ToldInv'
  <2>1. UNCHANGED <<desired, disposal, socket, wire, toServer, log, known, sessionId, misread>>
    BY <1>3 DEF ServerAsks
  <2>2. \A t \in Sockets : bound'[t] \in {NoSession, bound[t]}
    BY <1>3 DEF ServerAsks, TypeOK
  <2> QED BY <2>1, <2>2, DispatchIs, ToldUntouched DEF Fresh, Repeated, TypeOK
<1>4. ASSUME NEW n \in Sessions, ServerDispatches(n) PROVE ToldInv'
  <2>1. /\ UNCHANGED <<desired, disposal, socket, wire, toServer, bound, known, sessionId,
                       misread>>
        /\ log' = [log EXCEPT ![n] = Append(log[n], "EVENT")]
    BY <1>4 DEF ServerDispatches
  <2>2. \A b \in Sessions : Fresh(b)' => Fresh(b)
    BY <2>1, FreshStays DEF DispatchNames
  <2> QED BY <2>1, <2>2, ToldUntouched DEF Repeated
<1>5. ASSUME NEW n \in Sessions, SessionExpires(n) PROVE ToldInv'
  BY <1>5, ToldUntouched DEF SessionExpires, Fresh, Repeated
<1>6. CASE CredentialIsRevoked
  BY <1>6, ToldUntouched DEF CredentialIsRevoked, Fresh, Repeated
<1> QED BY <1>1, <1>2, <1>3, <1>4, <1>5, <1>6
    DEF External, ServerCloses, ServerDropsIdle, BrokenLinkEnds

LEMMA ToldHolds == Spec => []ToldInv
<1>1. Init => ToldInv
  BY DEF Init, ToldInv
<1>2. /\ TypeOK /\ TurnInv /\ OpeningInv /\ BoundInv /\ UntoldInv /\ ToldInv /\ [Next]_vars
      => ToldInv'
  <2> SUFFICES ASSUME TypeOK, TurnInv, OpeningInv, BoundInv, UntoldInv, ToldInv, [Next]_vars
               PROVE  ToldInv'
    OBVIOUS
  <2>1. CASE UNCHANGED vars
    BY <2>1, ToldUntouched
       DEF vars, driver, protocol, links, server, history, Fresh, Repeated
  <2> QED BY <2>1, SocketStepTells, CallsAndTimersTell, NetworkTells DEF Next
<1> QED BY <1>1, <1>2, TypeCorrect, TurnsHold, OpeningHolds, BoundHolds, UntoldHolds, PTL
    DEF Spec

\* A session that was never resumed, whose READY was read, and that has nothing
\* left to read, knows exactly what the user wants, whatever was set, and on which
\* socket, while there was no session to tell.
THEOREM FreshSessionKnowsAll == Spec => []FreshSessionIsTold
<1>1. TypeOK /\ ToldInv => FreshSessionIsTold
  <2> SUFFICES ASSUME TypeOK, ToldInv, Settled, Fresh(sessionId), misread[sessionId] = {}
               PROVE  known[sessionId] = desired
    BY DEF FreshSessionIsTold, Fresh
  <2>1. sessionId \in Sessions /\ Repeated(sessionId)
    BY DEF Settled, TypeOK, Repeated
  <2>2. Knows(<<>>, known[sessionId], desired, TRUE)
    <3>1. Knows(toServer[socket], known[sessionId], desired, Repeated(sessionId))
          /\ toServer[socket] = <<>>
      BY <2>1 DEF Settled, ToldInv
    <3>2. Repeated(sessionId) = TRUE \/ ~Repeated(sessionId)
      BY DEF Repeated
    <3> QED BY <2>1, <3>1, ToldNothing
  <2>3. \A i : Unsaid(<<>>, i)
    BY EmptyPlaces DEF Unsaid
  <2>4. \A i \in Intents : (i \in known[sessionId] => i \in desired)
                           /\ (i \in desired => i \in known[sessionId])
    BY <2>2, <2>3 DEF Knows
  <2>5. known[sessionId] \subseteq Intents /\ desired \subseteq Intents
    BY <2>1 DEF TypeOK
  <2> QED BY <2>4, <2>5
<1> QED BY <1>1, TypeCorrect, ToldHolds, PTL

-----------------------------------------------------------------------------
(* The feed.  Sessions begin one after the other, and whatever the client  *)
(* may still hand on or resume belongs to no session earlier than one it   *)
(* has handed on.                                                          *)

\* Nothing handed on, in D, is of a session later than n.
IsLatest(n, D) == \A m \in Sessions : n < m => D[m] = <<>>

\* A queue brings dispatches of such sessions only.
Brings(q, D) ==
    \A i \in 1 .. Len(q) : q[i].op = "dispatch" => IsLatest(q[i].session, D)

\* A session that can be resumed has begun, and so has every one before one
\* that has.
BegunInv ==
    /\ \A n \in alive : log[n] # <<>>
    /\ \A m, n \in Sessions : m < n /\ log[n] # <<>> => log[m] # <<>>

LatestInv ==
    disposal # "done" =>
        /\ sessionId # NoSession => IsLatest(sessionId, delivered)
        /\ socket # NoSocket =>
              /\ Brings(toClient[socket], delivered)
              /\ wire[socket] = "open" /\ bound[socket] # NoSession =>
                    IsLatest(bound[socket], delivered)

\* The server's part of a step: a session gets longer by one, or none does.
Lengthens(n, e) ==
    /\ log' = [log EXCEPT ![n] = Append(log[n], e)]
    /\ \A m \in Sessions : m < n => log[m] # <<>>
    /\ UNCHANGED <<disposal, history>>

LEMMA SessionsNumbered == \A n \in Sessions : n \in Nat /\ n # NoSession
BY BoundsAssumption DEF Sessions, NoSession

LEMMA LogLengthens ==
    ASSUME TypeOK, BegunInv, [Next]_vars
    PROVE  /\ \/ UNCHANGED log
              \/ \E n \in Sessions, e \in DispatchNames : Lengthens(n, e)
           /\ \A n \in alive' : n \in alive \/ (n \in Sessions /\ log'[n] # <<>>)
<1> USE DEF server
<1>0. /\ log \in [Sessions -> Seq(DispatchNames)] /\ alive \subseteq Sessions
      /\ {"READY", "RESUMED", "EVENT"} \subseteq DispatchNames
  BY DEF TypeOK, DispatchNames
<1>1. CASE UNCHANGED log /\ alive' \subseteq alive
  BY <1>1
<1>2. ASSUME NEW s \in Sockets, ServerIdentifies(s), credential
      PROVE  \E n \in Sessions :
                /\ Lengthens(n, "READY")
                /\ log'[n] # <<>> /\ alive' = alive \cup {n}
  <2>1. PICK n \in Sessions :
           /\ log[n] = <<>> /\ \A m \in Sessions : log[m] = <<>> => n <= m
           /\ log' = [log EXCEPT ![n] = <<"READY">>]
           /\ alive' = alive \cup {n}
    BY <1>2 DEF ServerIdentifies
  <2>2. Append(log[n], "READY") = <<"READY">> /\ log'[n] = <<"READY">> /\ <<"READY">> # <<>>
    BY <1>0, <2>1
  <2>3. \A m \in Sessions : m < n => log[m] # <<>>
    <3>1. \A m \in Sessions : m < n => ~(n <= m)
      BY SessionsNumbered
    <3> QED BY <2>1, <3>1
  <2>4. UNCHANGED <<disposal, history>>
    BY <1>2 DEF ServerIdentifies, driver
  <2>5. Lengthens(n, "READY")
    BY <2>1, <2>2, <2>3, <2>4 DEF Lengthens
  <2> QED BY <2>1, <2>2, <2>5
<1>3. ASSUME NEW n \in Sessions, log[n] # <<>>, UNCHANGED <<disposal, history>>, alive' = alive,
             NEW e \in DispatchNames, log' = [log EXCEPT ![n] = Append(log[n], e)]
      PROVE  Lengthens(n, e) /\ alive' = alive
  BY <1>3 DEF Lengthens, BegunInv
<1>4. ASSUME NEW s \in Sockets, ServerReads(s)
      PROVE  \/ UNCHANGED log /\ alive' \subseteq alive
             \/ \E n \in Sessions, e \in DispatchNames :
                   /\ Lengthens(n, e)
                   /\ alive' = alive \/ (log'[n] # <<>> /\ alive' = alive \cup {n})
  <2>1. CASE ServerIdentifies(s) /\ ~credential
    BY <2>1 DEF ServerIdentifies
  <2>2. CASE ServerIdentifies(s) /\ credential
    BY <1>0, <1>2, <2>2
  <2>3. CASE ServerResumes(s)
    <3> DEFINE n == Head(toServer[s]).session
    <3>1. n \in Sessions
      <4>1. Head(toServer[s]) \in ClientFrames /\ Head(toServer[s]).op = "resume"
        BY <2>3, TailPlaces DEF ServerResumes, Reads, TypeOK
      <4> QED BY <4>1, ResumeFields
    <3>2. /\ UNCHANGED <<disposal, history, alive>>
          /\ \/ UNCHANGED log
             \/ n \in alive /\ log' = [log EXCEPT ![n] = Append(log[n], "RESUMED")]
      BY <2>3 DEF ServerResumes, driver
    <3> HIDE DEF n
    <3>3. n \in alive => log[n] # <<>>
      BY DEF BegunInv
    <3> QED BY <1>0, <1>3, <3>1, <3>2, <3>3
  <2>4. CASE ServerReadsIntent(s)
    BY <2>4 DEF ServerReadsIntent
  <2> QED BY <1>4, <2>1, <2>2, <2>3, <2>4 DEF ServerReads
<1>5. ASSUME NEW n \in Sessions, ServerDispatches(n)
      PROVE  \E e \in DispatchNames : Lengthens(n, e) /\ alive' = alive
  <2>1. /\ UNCHANGED <<disposal, history, alive>> /\ log[n] # <<>>
        /\ log' = [log EXCEPT ![n] = Append(log[n], "EVENT")]
    BY <1>5 DEF ServerDispatches, driver, BegunInv
  <2> QED BY <1>0, <1>3, <2>1
<1>6. ASSUME NEW s \in Sockets,
             \/ ServerAsks(s) \/ ServerCloses(s) \/ ServerDropsIdle(s)
             \/ LinkBreaks(s) \/ BrokenLinkEnds(s)
      PROVE  UNCHANGED log /\ alive' \subseteq alive
  BY <1>6 DEF ServerAsks, ServerCloses, ServerDropsIdle, LinkBreaks, BrokenLinkEnds, EndLink
<1>7. ASSUME NEW n \in Sessions, SessionExpires(n) PROVE UNCHANGED log /\ alive' \subseteq alive
  BY <1>7 DEF SessionExpires
<1>8. CASE CredentialIsRevoked
  BY <1>1, <1>8 DEF CredentialIsRevoked
<1>9. CASE User \/ Timers
  <2>1. UNCHANGED <<log, alive>>
    BY <1>9 DEF User, Timers, Connect, CloseBegin, CloseEnd, SetIntent, ReconnectTimer,
                HeartbeatTimer, DialSucceeds, OvertakenCloses, DialFails
  <2> QED BY <1>1, <2>1
<1>10. ASSUME NEW s \in Sockets, SocketStep(s) PROVE UNCHANGED <<log, alive>>
  BY <1>10
     DEF SocketStep, TakeFrame, SkipStaleFrame, HoldLargeFrame, AcceptHello, AcceptAck,
         AcceptHeartbeatRequest, AcceptReconnect, AcceptInvalidSession, AcceptDispatch,
         LoseFrame, MisreadFrame, AcceptDone
<1>11. CASE UNCHANGED vars
  BY <1>1, <1>11 DEF vars
<1>12. CASE \E s \in Sockets : ServerReads(s)
  BY <1>1, <1>4, <1>12
<1>13. CASE \E n \in Sessions : ServerDispatches(n)
  BY <1>5, <1>13
<1>14. CASE External
  BY <1>1, <1>6, <1>7, <1>8, <1>12, <1>13, <1>14 DEF External
<1> QED BY <1>1, <1>9, <1>10, <1>11, <1>14 DEF Next

LEMMA BegunHolds == Spec => []BegunInv
<1>1. Init => BegunInv
  BY DEF Init, BegunInv
<1>2. TypeOK /\ BegunInv /\ [Next]_vars => BegunInv'
  <2> SUFFICES ASSUME TypeOK, BegunInv, [Next]_vars PROVE BegunInv'
    OBVIOUS
  <2>1. \A n \in alive' : n \in alive \/ (n \in Sessions /\ log'[n] # <<>>)
    BY LogLengthens
  <2>2. CASE UNCHANGED log
    BY <2>1, <2>2 DEF BegunInv
  <2>3. ASSUME NEW n \in Sessions, NEW e \in DispatchNames, Lengthens(n, e) PROVE BegunInv'
    <3>1. Append(log[n], e) # <<>> /\ \A m \in Sessions : m < n => log[m] # <<>>
      <4>1. log[n] \in Seq(DispatchNames)
        BY DEF TypeOK
      <4>2. Append(log[n], e) # <<>>
        BY ONLY <2>3, <4>1, AppendProperties
      <4> QED BY <2>3, <4>2 DEF Lengthens
    <3>2. /\ log'[n] # <<>>
          /\ \A m \in Sessions : m # n => log'[m] = log[m]
      BY <2>3, <3>1 DEF Lengthens, TypeOK
    <3>3. alive \subseteq Sessions
      BY DEF TypeOK
    <3> QED BY <2>1, <3>1, <3>2, <3>3 DEF BegunInv
  <2> QED BY <2>2, <2>3, LogLengthens
<1> QED BY <1>1, <1>2, TypeCorrect, PTL DEF Spec

\* What stays, is cut off, or gets a frame, brings no more than that.
LEMMA BringsKept ==
    ASSUME NEW D, NEW q \in Seq(ServerFrames)
    PROVE  /\ \A f \in ServerFrames : Brings(q, D) /\ (f.op = "dispatch" => IsLatest(f.session, D))
                 => Brings(Append(q, f), D)
           /\ q # <<>> /\ Brings(q, D) => Brings(Tail(q), D)
           /\ \A k \in 0 .. Len(q) : Brings(q, D) => Brings(SubSeq(q, 1, k), D)
           /\ Brings(<<>>, D)
<1>1. ASSUME NEW f \in ServerFrames, Brings(q, D), f.op = "dispatch" => IsLatest(f.session, D)
      PROVE  Brings(Append(q, f), D)
  <2>1. /\ Len(Append(q, f)) = Len(q) + 1 /\ Append(q, f)[Len(q) + 1] = f /\ Len(q) \in Nat
        /\ \A i \in 1 .. Len(q) : Append(q, f)[i] = q[i]
    BY AppendPlaces
  <2>2. \A i \in 1 .. Len(Append(q, f)) : i \in 1 .. Len(q) \/ i = Len(q) + 1
    BY <2>1
  <2> QED BY <1>1, <2>1, <2>2 DEF Brings
<1>2. ASSUME q # <<>>, Brings(q, D) PROVE Brings(Tail(q), D)
  <2>1. /\ Len(Tail(q)) = Len(q) - 1 /\ Len(q) \in Nat
        /\ \A i \in 1 .. Len(Tail(q)) : Tail(q)[i] = q[i + 1]
    BY <1>2, TailPlaces
  <2>2. \A i \in 1 .. Len(Tail(q)) : i + 1 \in 1 .. Len(q)
    BY <2>1
  <2> QED BY <1>2, <2>1, <2>2 DEF Brings
<1>3. ASSUME NEW k \in 0 .. Len(q), Brings(q, D) PROVE Brings(SubSeq(q, 1, k), D)
  <2>1. /\ Len(SubSeq(q, 1, k)) = k
        /\ \A i \in 1 .. k : SubSeq(q, 1, k)[i] = q[i] /\ i \in 1 .. Len(q)
    OBVIOUS
  <2> QED BY <1>3, <2>1 DEF Brings
<1>4. Brings(<<>>, D)
  BY EmptyPlaces DEF Brings
<1> QED BY <1>1, <1>2, <1>3, <1>4

\* A step that hands nothing on.
LEMMA LatestKept ==
    ASSUME LatestInv, UNCHANGED delivered, disposal' # "done" => disposal # "done",
           \/ sessionId' \in {NoSession, sessionId}
           \/ disposal # "done" => IsLatest(sessionId', delivered),
           disposal # "done" /\ socket' # NoSocket =>
              /\ Brings(toClient'[socket'], delivered)
              /\ wire'[socket'] = "open" /\ bound'[socket'] # NoSession =>
                    IsLatest(bound'[socket'], delivered)
    PROVE  LatestInv'
<1>1. \A n : IsLatest(n, delivered) => IsLatest(n, delivered')
  BY DEF IsLatest
<1>2. \A q : Brings(q, delivered) => Brings(q, delivered')
  BY DEF Brings, IsLatest
<1> SUFFICES ASSUME disposal' # "done"
             PROVE
        /\ sessionId' # NoSession => IsLatest(sessionId', delivered')
        /\ socket' # NoSocket =>
              /\ Brings(toClient'[socket'], delivered')
              /\ wire'[socket'] = "open" /\ bound'[socket'] # NoSession =>
                    IsLatest(bound'[socket'], delivered')
  BY DEF LatestInv
<1>3. sessionId' # NoSession => IsLatest(sessionId', delivered')
  BY <1>1 DEF LatestInv
<1> QED BY <1>1, <1>2, <1>3

\* A step that leaves the current socket's link as it is, or lets the socket go.
LEMMA LatestUntouched ==
    ASSUME LatestInv, UNCHANGED delivered, disposal' # "done" => disposal # "done",
           sessionId' \in {NoSession, sessionId},
           \/ socket' = NoSocket
           \/ /\ socket' = socket
              /\ toClient'[socket] = toClient[socket] /\ bound'[socket] = bound[socket]
              /\ wire'[socket] = "open" => wire[socket] = "open"
    PROVE  LatestInv'
<1>1. disposal # "done" /\ socket' # NoSocket =>
              /\ Brings(toClient'[socket'], delivered)
              /\ wire'[socket'] = "open" /\ bound'[socket'] # NoSession =>
                    IsLatest(bound'[socket'], delivered)
  BY DEF LatestInv
<1> QED BY <1>1, LatestKept

\* A handler that takes a frame and hands nothing on, or one that takes nothing.
LEMMA LatestTaken ==
    ASSUME TypeOK, LatestInv, UNCHANGED <<disposal, delivered, bound>>,
           NEW s \in Sockets, IsCurrent(s), Waiting(s),
           Stays(Popped(s)) \/ Drops(Popped(s)),
           \/ sessionId' \in {NoSession, sessionId}
           \/ Next1(s).op = "dispatch" /\ sessionId' = Next1(s).session
    PROVE  LatestInv'
<1>1. /\ s = socket /\ s # NoSocket /\ toClient[s] \in Seq(ServerFrames) /\ toClient[s] # <<>>
      /\ Popped(s)[s] = Tail(toClient[s])
  BY SocketsExist DEF IsCurrent, Waiting, Popped, TypeOK
<1>2. disposal # "done" => Brings(toClient[s], delivered)
  BY <1>1 DEF LatestInv
<1>3. \/ sessionId' \in {NoSession, sessionId}
      \/ disposal # "done" => IsLatest(sessionId', delivered)
  <2>1. Next1(s) = toClient[s][1] /\ 1 \in 1 .. Len(toClient[s])
    BY <1>1, TailPlaces DEF Next1
  <2> QED BY <1>2, <2>1 DEF Brings
<1>4. disposal # "done" => Brings(Tail(toClient[s]), delivered)
  BY <1>1, <1>2, BringsKept
<1>5. CASE Drops(Popped(s))
  BY <1>3, <1>5, LatestKept DEF Drops
<1>6. CASE Stays(Popped(s))
  <2>1. socket' = s /\ toClient'[s] = Tail(toClient[s]) /\ wire' = wire
    BY <1>1, <1>6 DEF Stays
  <2>2. disposal # "done" /\ wire[s] = "open" /\ bound[s] # NoSession => IsLatest(bound[s], delivered)
    BY <1>1 DEF LatestInv
  <2> QED BY <1>3, <1>4, <2>1, <2>2, LatestKept
<1> QED BY <1>5, <1>6

LEMMA LatestWhileSending ==
    ASSUME LatestInv, UNCHANGED <<disposal, sessionId, delivered, bound>>,
           \/ \E frames, st, kept, left : Send(toClient, frames, st, kept, left)
           \/ \E st, kept, left : ScheduleReconnect(toClient, st, kept, left)
    PROVE  LatestInv'
<1>1. Stays(toClient) \/ Drops(toClient)
  BY SendMoves, ScheduleMoves
<1> QED BY <1>1, LatestUntouched DEF Stays, Drops

\* The next dispatch the current socket brings is the next of its session.
LEMMA NextInLine ==
    ASSUME TypeOK, FlowInv, LatestInv, disposal # "done", NEW s \in Sockets,
           IsCurrent(s), Waiting(s), NEW f, f = Next1(s), f.op = "dispatch"
    PROVE  /\ f.session \in Sessions /\ f.n \in 1 .. MaxEvents /\ f.n <= Len(log[f.session])
           /\ \A d \in Range(delivered[f.session]) : d < f.n
           /\ \A k \in 1 .. MaxEvents : k < f.n => k \in Accounted[f.session]
           /\ IsLatest(f.session, delivered)
           /\ sessionId \in {NoSession, f.session}
           /\ \A i \in 1 .. Len(toClient[s]) :
                 toClient[s][i].op = "dispatch" => toClient[s][i].session = f.session
           /\ wire[s] = "open" /\ bound[s] # NoSession => bound[s] = f.session
<1> DEFINE q == toClient[s]
<1>1. /\ s = socket /\ s # NoSocket /\ q \in Seq(ServerFrames) /\ q # <<>> /\ f = q[1]
      /\ 1 \in 1 .. Len(q) /\ Len(q) \in Nat
      /\ f.session \in Sessions /\ f.n \in 1 .. MaxEvents
  <2>1. s = socket /\ s # NoSocket /\ q \in Seq(ServerFrames) /\ q # <<>> /\ f = Head(q)
    BY SocketsExist DEF IsCurrent, Waiting, Next1, TypeOK
  <2> QED BY <2>1, TailPlaces, DispatchFields
<1>2. /\ InLine(q, sessionId, Lengths, Handed, Accounted)
      /\ wire[s] = "open" => Complete(q, bound[s], sessionId, Lengths, Accounted)
      /\ Brings(q, delivered)
  BY <1>1 DEF FlowInv, LatestInv
<1>3. /\ Lengths[f.session] = Len(log[f.session])
      /\ Handed[f.session] = Range(delivered[f.session])
  BY <1>1, SessionsTyped
<1> HIDE DEF q
<1>4. /\ sessionId \in {NoSession, f.session} /\ f.n <= Lengths[f.session]
      /\ \A d \in Handed[f.session] : d < f.n
      /\ \A k \in 1 .. MaxEvents : k < f.n =>
            \/ k \in Accounted[f.session]
            \/ \E j \in 1 .. Len(q) : j < 1 /\ q[j] = Dispatch(f.session, k)
  BY <1>1, <1>2 DEF InLine
<1>5. \A k \in 1 .. MaxEvents : k < f.n => k \in Accounted[f.session]
  <2>1. \A j \in 1 .. Len(q) : ~(j < 1)
    BY <1>1
  <2> QED BY <1>4, <2>1
<1>6. IsLatest(f.session, delivered)
  BY <1>1, <1>2 DEF Brings
<1>7. ASSUME NEW i \in 1 .. Len(q), q[i].op = "dispatch" PROVE q[i].session = f.session
  <2>1. CASE i = 1
    BY <1>1, <2>1
  <2>2. CASE i # 1
    <3>1. 1 < i
      BY <1>1, <2>2
    <3> QED BY <1>1, <1>2, <1>7, <3>1 DEF InLine
  <2> QED BY <2>1, <2>2
<1>8. wire[s] = "open" /\ bound[s] # NoSession => bound[s] = f.session
  BY <1>1, <1>2 DEF Complete
<1> QED BY <1>1, <1>3, <1>4, <1>5, <1>6, <1>7, <1>8 DEF q

\* What is handed on is of a session no earlier than any before it, and so is
\* everything that may follow it.
LEMMA LatestHandedOn ==
    ASSUME TypeOK, FlowInv, LatestInv, NEW s \in Sockets, AcceptDispatch(s)
    PROVE  LatestInv'
<1> DEFINE f == Next1(s)
<1>0. /\ Waiting(s) /\ IsCurrent(s) /\ f.op = "dispatch"
      /\ UNCHANGED <<disposal, bound>>
      /\ sessionId' = sessionId \/ sessionId' = f.session
      /\ delivered' = IF disposal = "done" THEN delivered
                      ELSE [delivered EXCEPT ![f.session] = Append(@, f.n)]
  BY DEF AcceptDispatch, Takes, server
<1>1. Stays(Popped(s)) \/ Drops(Popped(s))
  <2>1. \/ Stays(Popped(s))
        \/ Send(Popped(s), <<ReplayFrame>>, "connected", heart, "off")
    BY DEF AcceptDispatch, Stays, NothingSent
  <2> QED BY <2>1, SendMoves
<1>2. CASE disposal = "done"
  BY <1>0, <1>2 DEF LatestInv
<1>3. CASE disposal # "done"
  <2>1. /\ f.session \in Sessions /\ IsLatest(f.session, delivered)
        /\ sessionId \in {NoSession, f.session}
        /\ \A i \in 1 .. Len(toClient[s]) :
              toClient[s][i].op = "dispatch" => toClient[s][i].session = f.session
        /\ wire[s] = "open" /\ bound[s] # NoSession => bound[s] = f.session
    BY <1>0, <1>3, NextInLine
  <2>2. \A m \in Sessions : m # f.session => delivered'[m] = delivered[m]
    BY <1>0, <1>3, <2>1 DEF TypeOK
  <2>3. IsLatest(f.session, delivered')
    BY <2>1, <2>2, SessionsNumbered DEF IsLatest
  <2>4. /\ s = socket /\ toClient[s] \in Seq(ServerFrames) /\ toClient[s] # <<>>
        /\ Popped(s)[s] = Tail(toClient[s])
    BY <1>0 DEF IsCurrent, Waiting, Popped, TypeOK
  <2> HIDE DEF f
  <2>5. Brings(toClient[s], delivered')
    BY <2>1, <2>3 DEF Brings
  <2>6. Brings(Tail(toClient[s]), delivered')
    BY <2>4, <2>5, BringsKept
  <2>7. sessionId' # NoSession => IsLatest(sessionId', delivered')
    BY <1>0, <2>1, <2>3
  <2>8. CASE Drops(Popped(s))
    BY <2>7, <2>8 DEF LatestInv, Drops
  <2>9. CASE Stays(Popped(s))
    <3>1. socket' = s /\ toClient'[s] = Tail(toClient[s]) /\ wire' = wire
      BY <2>4, <2>9 DEF Stays
    <3> QED BY <1>0, <2>1, <2>3, <2>6, <2>7, <3>1 DEF LatestInv
  <2> QED BY <1>1, <2>8, <2>9
<1> QED BY <1>2, <1>3

LEMMA SocketStepIsLatest ==
    ASSUME TypeOK, FlowInv, LatestInv, NEW s \in Sockets, SocketStep(s)
    PROVE  LatestInv'
<1> USE DEF driver, protocol, server, history
<1>1. CASE SkipStaleFrame(s)
  <2>1. /\ UNCHANGED <<disposal, sessionId, delivered, socket, bound, wire>>
        /\ \A t \in Sockets : t # s => toClient'[t] = toClient[t]
    BY <1>1 DEF SkipStaleFrame, Popped, TypeOK
  <2>2. socket = NoSocket \/ (socket \in Sockets /\ socket # s)
    BY <1>1 DEF SkipStaleFrame, IsCurrent, TypeOK
  <2> QED BY <2>1, <2>2, LatestUntouched
<1>2. CASE HoldLargeFrame(s) \/ AcceptAck(s)
  BY <1>2, LatestUntouched DEF HoldLargeFrame, AcceptAck
<1>3. CASE AcceptHello(s) \/ AcceptInvalidSession(s)
  <2>1. sessionId' \in {NoSession, sessionId}
    BY <1>3 DEF AcceptHello, AcceptInvalidSession, Opening, Identify, Resuming
  <2>2. Stays(Popped(s)) \/ Drops(Popped(s))
    BY <1>3, SendMoves DEF AcceptHello, AcceptInvalidSession
  <2> QED BY <1>3, <2>1, <2>2, LatestTaken DEF AcceptHello, AcceptInvalidSession, Takes
<1>4. CASE AcceptHeartbeatRequest(s)
  BY <1>4, SendMoves, LatestTaken DEF AcceptHeartbeatRequest, Takes
<1>5. CASE AcceptReconnect(s)
  BY <1>5, ScheduleMoves, LatestTaken DEF AcceptReconnect, Takes
<1>6. CASE AcceptDispatch(s)
  BY <1>6, LatestHandedOn
<1>7. CASE LoseFrame(s)
  BY <1>7, ScheduleMoves, LatestTaken DEF LoseFrame
<1>8. CASE MisreadFrame(s)
  <2>1. \/ sessionId' \in {NoSession, sessionId}
        \/ Next1(s).op = "dispatch" /\ sessionId' = Next1(s).session
    BY <1>8 DEF MisreadFrame
  <2> QED BY <1>8, <2>1, LatestTaken DEF MisreadFrame, NothingSent, Stays
<1>9. CASE AcceptDone(s)
  <2>1. Stays(Popped(s)) \/ Drops(Popped(s))
    BY <1>9, ScheduleMoves DEF AcceptDone, Stays
  <2> QED BY <1>9, <2>1, LatestTaken DEF AcceptDone, Takes
<1> QED BY <1>1, <1>2, <1>3, <1>4, <1>5, <1>6, <1>7, <1>8, <1>9 DEF SocketStep, TakeFrame

LEMMA CallsAndTimersAreLatest ==
    ASSUME TypeOK, LatestInv, User \/ Timers
    PROVE  LatestInv'
<1> USE DEF protocol, server, links, history
<1>1. CASE Connect \/ ReconnectTimer \/ OvertakenCloses
  BY <1>1, LatestUntouched DEF Connect, ReconnectTimer, OvertakenCloses
<1>2. CASE CloseBegin
  BY <1>2, LatestUntouched DEF CloseBegin
<1>3. CASE CloseEnd
  BY <1>3 DEF CloseEnd, LatestInv
<1>4. ASSUME NEW i \in Intents, NEW want \in BOOLEAN, SetIntent(i, want) PROVE LatestInv'
  BY <1>4, LatestWhileSending DEF SetIntent
<1>5. CASE HeartbeatTimer
  BY <1>5, LatestWhileSending DEF HeartbeatTimer
<1>6. CASE DialFails
  BY <1>6, LatestWhileSending DEF DialFails
<1>7. CASE DialSucceeds
  <2>1. CASE closing
    BY <1>7, <2>1, LatestUntouched DEF DialSucceeds
  <2>2. CASE ~closing
    <3>1. PICK s \in Sockets : /\ socket' = s
                               /\ toClient' = [toClient EXCEPT ![s] = <<Op("hello")>>]
                               /\ bound' = [bound EXCEPT ![s] = NoSession]
      BY <1>7, <2>2 DEF DialSucceeds
    <3>2. UNCHANGED <<disposal, sessionId, delivered>>
      BY <1>7 DEF DialSucceeds
    <3>3. toClient'[s] = <<Op("hello")>> /\ bound'[s] = NoSession
      BY <3>1 DEF TypeOK
    <3>4. Brings(<<Op("hello")>>, delivered)
      <4>1. /\ Len(<<Op("hello")>>) = 1 /\ Op("hello").op = "hello"
            /\ \A i \in 1 .. 1 : <<Op("hello")>>[i] = Op("hello")
        BY DEF Op
      <4> QED BY <4>1 DEF Brings
    <3> QED BY <3>1, <3>2, <3>3, <3>4, LatestKept
  <2> QED BY <2>1, <2>2
<1> QED BY <1>1, <1>2, <1>3, <1>4, <1>5, <1>6, <1>7 DEF User, Timers

\* What the server and the network do to the current socket's link.
LEMMA LatestOutside ==
    ASSUME LatestInv, UNCHANGED <<disposal, sessionId, delivered, socket>>,
           disposal # "done" /\ socket # NoSocket =>
              /\ \/ toClient'[socket] = toClient[socket]
                 \/ Brings(toClient'[socket], delivered)
              /\ wire'[socket] = "open" =>
                    \/ wire[socket] = "open" /\ bound'[socket] \in {NoSession, bound[socket]}
                    \/ IsLatest(bound'[socket], delivered)
    PROVE  LatestInv'
<1>1. disposal # "done" /\ socket' # NoSocket =>
              /\ Brings(toClient'[socket'], delivered)
              /\ wire'[socket'] = "open" /\ bound'[socket'] # NoSession =>
                    IsLatest(bound'[socket'], delivered)
  BY DEF LatestInv
<1> QED BY <1>1, LatestKept

\* One more frame for one socket, of a session that is not behind.
LEMMA LatestAnswered ==
    ASSUME TypeOK, LatestInv, UNCHANGED <<disposal, sessionId, delivered, socket>>,
           NEW s \in Sockets, NEW f \in ServerFrames, toClient' = Answered(s, <<f>>),
           f.op = "dispatch" => IsLatest(f.session, delivered),
           \A t \in Sockets : wire'[t] = "open" => wire[t] = "open",
           \A t \in Sockets : \/ bound'[t] \in {NoSession, bound[t]}
                              \/ t = s /\ IsLatest(bound'[t], delivered)
    PROVE  LatestInv'
<1>1. /\ toClient'[s] = Append(toClient[s], f) /\ toClient[s] \in Seq(ServerFrames)
      /\ \A t \in Sockets : t # s => toClient'[t] = toClient[t]
  BY AppendPlaces DEF Answered, TypeOK
<1>2. disposal # "done" /\ socket = s => Brings(toClient'[socket], delivered)
  <2>1. disposal # "done" /\ socket = s => Brings(toClient[s], delivered)
    BY SocketsExist DEF LatestInv
  <2> QED BY <1>1, <2>1, BringsKept
<1>3. socket # NoSocket => socket \in Sockets
  BY DEF TypeOK
<1> QED BY <1>1, <1>2, <1>3, LatestOutside

LEMMA FreshSessionIsLatest ==
    ASSUME TypeOK, BegunInv, AccountInv, LatestInv, NEW s \in Sockets, ServerIdentifies(s)
    PROVE  LatestInv'
<1>0. UNCHANGED <<disposal, sessionId, delivered, socket>>
  BY DEF ServerIdentifies, driver, protocol, history
<1>1. CASE ~credential
  <2>1. Done(TRUE) \in ServerFrames /\ Done(TRUE).op # "dispatch"
    BY FramesTyped DEF Done
  <2>2. /\ toClient' = Answered(s, <<Done(TRUE)>>) /\ UNCHANGED bound
        /\ \A t \in Sockets : wire'[t] = "open" => wire[t] = "open"
    BY <1>1 DEF ServerIdentifies, TypeOK
  <2> QED BY <1>0, <2>1, <2>2, LatestAnswered
<1>2. CASE credential
  <2>1. PICK n \in Sessions :
           /\ log[n] = <<>> /\ \A m \in Sessions : log[m] = <<>> => n <= m
           /\ bound' = [bound EXCEPT ![s] = n]
           /\ toClient' = Answered(s, <<Dispatch(n, 1)>>)
           /\ UNCHANGED wire
    BY <1>2 DEF ServerIdentifies
  <2>2. ASSUME NEW m \in Sessions, n < m PROVE delivered[m] = <<>>
    <3>1. log[m] = <<>>
      BY <2>1, <2>2 DEF BegunInv
    <3>2. Lengths[m] = 0
      BY <3>1, EmptyPlaces, SessionsTyped
    <3>3. \A d \in Handed[m] : d <= 0 /\ d \in 1 .. MaxEvents
      BY <3>2, SessionsTyped DEF AccountInv
    <3>4. Range(delivered[m]) = {}
      <4>1. \A d \in 1 .. MaxEvents : ~(d <= 0)
        OBVIOUS
      <4> QED BY <3>3, <4>1 DEF Handed
    <3>5. delivered[m] \in Seq(1 .. MaxEvents)
      BY DEF TypeOK
    <3>6. DOMAIN delivered[m] = {}
      <4>1. \A i \in DOMAIN delivered[m] : delivered[m][i] \in Range(delivered[m])
        BY DEF Range
      <4> QED BY <3>4, <4>1
    <3>7. Len(delivered[m]) = 0
      <4>1. DOMAIN delivered[m] = 1 .. Len(delivered[m]) /\ Len(delivered[m]) \in Nat
        BY <3>5
      <4>2. 1 \notin 1 .. Len(delivered[m])
        BY <3>6, <4>1
      <4> QED BY <4>1, <4>2
    <3> QED BY <3>5, <3>7
  <2>3. IsLatest(n, delivered)
    BY <2>2 DEF IsLatest
  <2>4. /\ Dispatch(n, 1) \in ServerFrames /\ Dispatch(n, 1).session = n
        /\ \A t \in Sockets : bound'[t] = IF t = s THEN n ELSE bound[t]
    BY <2>1, FramesTyped, BoundsAssumption, DispatchIs DEF TypeOK
  <2> QED BY <1>0, <2>1, <2>3, <2>4, LatestAnswered
<1> QED BY <1>1, <1>2

\* A resume names the client's own session, and the replay brings nothing else.
LEMMA ResumedSessionIsLatest ==
    ASSUME TypeOK, OpeningInv, FlowInv', LatestInv, NEW s \in Sockets, ServerResumes(s)
    PROVE  LatestInv'
<1> DEFINE n == Head(toServer[s]).session
           from == Head(toServer[s]).n
           replay == [k \in 1 .. (Len(Append(log[n], "RESUMED")) - from) |->
                        Dispatch(n, from + k)]
<1>0. UNCHANGED <<disposal, sessionId, delivered, socket>>
  BY DEF ServerResumes, driver, protocol, history
<1>1. /\ wire[s] = "open" /\ toServer[s] # <<>> /\ Head(toServer[s]).op = "resume"
      /\ n \in Sessions /\ from \in Nat
      /\ Head(toServer[s]) = toServer[s][1] /\ 1 \in 1 .. Len(toServer[s])
  <2>1. wire[s] = "open" /\ toServer[s] # <<>> /\ Head(toServer[s]).op = "resume"
    BY DEF ServerResumes, Reads
  <2>2. /\ Head(toServer[s]) \in ClientFrames
        /\ Head(toServer[s]) = toServer[s][1] /\ 1 \in 1 .. Len(toServer[s])
    BY <2>1, TailPlaces DEF TypeOK
  <2> QED BY <2>1, <2>2, ResumeFields, BoundsAssumption
<1>2. CASE toClient' = Answered(s, <<Done(TRUE)>>) /\ UNCHANGED bound
           /\ wire' = [wire EXCEPT ![s] = "ended"]
  <2>1. Done(TRUE) \in ServerFrames /\ Done(TRUE).op # "dispatch"
    BY FramesTyped DEF Done
  <2>2. \A t \in Sockets : wire'[t] = "open" => wire[t] = "open"
    BY <1>2 DEF TypeOK
  <2> QED BY <1>0, <1>2, <2>1, <2>2, LatestAnswered
<1>3. CASE toClient' = Answered(s, <<InvalidSession(FALSE)>>) /\ UNCHANGED <<bound, wire>>
  <2>1. InvalidSession(FALSE) \in ServerFrames /\ InvalidSession(FALSE).op # "dispatch"
    BY FramesTyped DEF InvalidSession
  <2> QED BY <1>0, <1>3, <2>1, LatestAnswered
<1>4. CASE /\ bound' = [t \in Sockets |->
                          IF t = s THEN n ELSE IF bound[t] = n THEN NoSession ELSE bound[t]]
           /\ toClient' = Answered(s, replay) /\ UNCHANGED wire
  <2>1. CASE socket = s
    <3>1. n = sessionId
      BY <1>1, <2>1, SocketsExist DEF OpeningInv, OpensAsIs
    <3>2. disposal # "done" => IsLatest(n, delivered)
      BY <1>1, <3>1, SessionsNumbered DEF LatestInv
    <3>3. disposal # "done" =>
             \A i \in 1 .. Len(toClient'[s]) :
                toClient'[s][i].op = "dispatch" => toClient'[s][i].session = n
      <4>1. bound'[s] = n /\ wire'[s] = "open" /\ n # NoSession
        BY <1>1, <1>4, SessionsNumbered
      <4> HIDE DEF n, from, replay
      <4> QED BY <1>0, <2>1, <4>1, SocketsExist DEF FlowInv, Complete
    <3>4. bound'[s] = n
      BY <1>4
    <3> HIDE DEF n, from, replay
    <3>5. disposal # "done" => Brings(toClient'[s], delivered)
      BY <3>2, <3>3 DEF Brings
    <3> QED BY <1>0, <2>1, <3>2, <3>4, <3>5, LatestOutside
  <2>2. CASE socket # s
    <3>1. socket # NoSocket =>
             /\ toClient'[socket] = toClient[socket] /\ wire'[socket] = wire[socket]
             /\ bound'[socket] \in {NoSession, bound[socket]}
      BY <1>4, <2>2 DEF Answered, TypeOK
    <3> QED BY <1>0, <3>1, LatestOutside
  <2> QED BY <2>1, <2>2
<1> QED BY <1>2, <1>3, <1>4 DEF ServerResumes

LEMMA NetworkIsLatest ==
    ASSUME TypeOK, OpeningInv, BegunInv, FlowInv', AccountInv, LatestInv, External
    PROVE  LatestInv'
<1> USE DEF driver, protocol, links, server, history
<1>0. socket # NoSocket => socket \in Sockets
  BY DEF TypeOK
<1>1. ASSUME NEW s \in Sockets, ServerReads(s) PROVE LatestInv'
  <2>1. CASE ServerReadsIntent(s)
    BY <2>1, LatestUntouched DEF ServerReadsIntent
  <2> QED BY <1>1, <2>1, FreshSessionIsLatest, ResumedSessionIsLatest DEF ServerReads
<1>2. ASSUME NEW s \in Sockets, EndLink(s) PROVE LatestInv'
  <2>1. Done(FALSE) \in ServerFrames /\ Done(FALSE).op # "dispatch"
    BY FramesTyped DEF Done
  <2>2. \A t \in Sockets : wire'[t] = "open" => wire[t] = "open"
    BY <1>2 DEF EndLink, TypeOK
  <2> QED BY <1>2, <2>1, <2>2, LatestAnswered DEF EndLink
<1>3. ASSUME NEW s \in Sockets, ServerCloses(s) \/ ServerDropsIdle(s) \/ BrokenLinkEnds(s)
      PROVE  LatestInv'
  BY <1>2, <1>3 DEF ServerCloses, ServerDropsIdle, BrokenLinkEnds
<1>4. ASSUME NEW s \in Sockets, ServerAsks(s) PROVE LatestInv'
  <2>1. PICK frame \in {Op("heartbeat"), Op("reconnect")}
                       \cup [op : {"invalid"}, resumable : BOOLEAN] :
          /\ toClient' = Answered(s, <<frame>>)
          /\ bound' = IF frame.op = "invalid"
                      THEN [bound EXCEPT ![s] = NoSession] ELSE bound
    BY <1>4 DEF ServerAsks
  <2>2. frame \in ServerFrames /\ frame.op # "dispatch"
    BY FramesTyped DEF ServerFrames, Op
  <2>3. UNCHANGED <<disposal, sessionId, delivered, socket, wire>>
    BY <1>4 DEF ServerAsks
  <2>4. \A t \in Sockets : bound'[t] \in {NoSession, bound[t]}
    BY <2>1 DEF TypeOK
  <2> QED BY <2>1, <2>2, <2>3, <2>4, LatestAnswered
<1>5. ASSUME NEW s \in Sockets, LinkBreaks(s) PROVE LatestInv'
  <2>1. PICK k \in (IF held[s] THEN 1 ELSE 0) .. Len(toClient[s]) :
          toClient' = [toClient EXCEPT ![s] = SubSeq(@, 1, k)]
    BY <1>5 DEF LinkBreaks
  <2>2. /\ k \in 0 .. Len(toClient[s]) /\ toClient[s] \in Seq(ServerFrames)
        /\ toClient'[s] = SubSeq(toClient[s], 1, k)
        /\ \A t \in Sockets : t # s => toClient'[t] = toClient[t]
        /\ \A t \in Sockets : wire'[t] = "open" => wire[t] = "open"
    BY <1>5, <2>1 DEF LinkBreaks, TypeOK
  <2>3. UNCHANGED <<disposal, sessionId, delivered, socket, bound>>
    BY <1>5 DEF LinkBreaks
  <2>4. disposal # "done" /\ socket = s => Brings(toClient'[s], delivered)
    <3>1. disposal # "done" /\ socket = s => Brings(toClient[s], delivered)
      BY SocketsExist DEF LatestInv
    <3> QED BY <2>2, <3>1, BringsKept
  <2> QED BY <1>0, <2>2, <2>3, <2>4, LatestOutside
<1>6. ASSUME NEW n \in Sessions, ServerDispatches(n) PROVE LatestInv'
  <2>1. /\ UNCHANGED <<disposal, sessionId, delivered, socket, wire, bound>>
        /\ toClient' = [s \in Sockets |->
                          IF wire[s] = "open" /\ bound[s] = n
                          THEN Append(toClient[s], Dispatch(n, Len(log[n]) + 1))
                          ELSE toClient[s]]
        /\ Len(log[n]) < MaxEvents
    BY <1>6 DEF ServerDispatches
  <2>2. CASE /\ socket \in Sockets /\ wire[socket] = "open" /\ bound[socket] = n
             /\ disposal # "done"
    <3> DEFINE f == Dispatch(n, Len(log[n]) + 1)
               q == toClient[socket]
    <3>1. f \in ServerFrames /\ f.session = n
      <4>1. Len(log[n]) + 1 \in 1 .. MaxEvents
        BY <2>1, BoundsAssumption, SessionsTyped
      <4> QED BY <4>1, FramesTyped, DispatchIs
    <3>2. q \in Seq(ServerFrames) /\ Brings(q, delivered) /\ IsLatest(n, delivered)
      BY <2>2, SocketsExist, SessionsNumbered DEF LatestInv, TypeOK
    <3>3. toClient'[socket] = Append(q, f)
      BY <2>1, <2>2
    <3> HIDE DEF f, q
    <3>4. Brings(Append(q, f), delivered)
      BY <3>1, <3>2, BringsKept
    <3> QED BY <2>1, <2>2, <3>3, <3>4, LatestOutside
  <2>3. CASE ~(/\ socket \in Sockets /\ wire[socket] = "open" /\ bound[socket] = n
               /\ disposal # "done")
    <3>1. disposal # "done" /\ socket \in Sockets => toClient'[socket] = toClient[socket]
      BY <2>1, <2>3
    <3> QED BY <1>0, <2>1, <3>1, LatestOutside
  <2> QED BY <2>2, <2>3
<1>7. ASSUME NEW n \in Sessions, SessionExpires(n) PROVE LatestInv'
  BY <1>7, LatestUntouched DEF SessionExpires
<1>8. CASE CredentialIsRevoked
  BY <1>8, LatestUntouched DEF CredentialIsRevoked
<1> QED BY <1>1, <1>3, <1>4, <1>5, <1>6, <1>7, <1>8 DEF External

LEMMA LatestHolds == Spec => []LatestInv
<1>1. Init => LatestInv
  BY DEF Init, LatestInv
<1>2. (/\ TypeOK /\ OpeningInv /\ BegunInv /\ (FlowInv /\ AccountInv)
       /\ (FlowInv /\ AccountInv)' /\ LatestInv /\ [Next]_vars) => LatestInv'
  <2>1. ASSUME LatestInv, UNCHANGED vars PROVE LatestInv'
    BY <2>1, LatestUntouched DEF vars, driver, protocol, links, server, history
  <2> QED BY <2>1, SocketStepIsLatest, CallsAndTimersAreLatest, NetworkIsLatest DEF Next
<1> QED BY <1>1, <1>2, TypeCorrect, OpeningHolds, BegunHolds, FlowHolds, PTL DEF Spec

\* A step that neither says nor reads anything.
LEMMA FeedRests ==
    ASSUME UNCHANGED <<log, delivered, misread, forgone>>,
           (disposal' = "done") = (disposal = "done")
    PROVE  UNCHANGED Feed!vars
BY DEF Feed!vars

LEMMA FeedPublishes ==
    ASSUME TypeOK, NEW n \in Sessions, NEW e \in DispatchNames, Lengthens(n, e)
    PROVE  Feed!Next
<1>1. /\ Len(Append(log[n], e)) = Len(log[n]) + 1
      /\ \A m \in Sessions : Len(log[m]) \in Nat /\ (log[m] # <<>> => Len(log[m]) > 0)
  BY AppendPlaces DEF TypeOK
<1>2. [m \in Sessions |-> Len(log'[m])]
         = [[m \in Sessions |-> Len(log[m])] EXCEPT ![n] = @ + 1]
  <2>1. \A m \in Sessions : Len(log'[m]) = IF m = n THEN Len(log[m]) + 1 ELSE Len(log[m])
    BY <1>1 DEF Lengthens, TypeOK
  <2> QED BY <2>1
<1>3. \A m \in Sessions : m < n => [k \in Sessions |-> Len(log[k])][m] > 0
  BY <1>1 DEF Lengthens
<1>4. UNCHANGED <<delivered, misread, forgone, disposal>>
  BY DEF Lengthens, history
<1>5. Feed!Publish(n)
  BY <1>2, <1>3, <1>4 DEF Feed!Publish
<1> QED BY <1>5 DEF Feed!Next

\* What the current socket brings next is what the feed has next.
LEMMA FeedIsNext ==
    ASSUME TypeOK, FlowInv, LatestInv, disposal # "done", NEW s \in Sockets,
           IsCurrent(s), Waiting(s), NEW f, f = Next1(s), f.op = "dispatch"
    PROVE  Feed!IsNext(f.session, f.n)
<1>1. /\ f.session \in Sessions /\ f.n \in 1 .. MaxEvents /\ f.n <= Len(log[f.session])
      /\ \A d \in Range(delivered[f.session]) : d < f.n
      /\ \A k \in 1 .. MaxEvents : k < f.n => k \in Accounted[f.session]
      /\ IsLatest(f.session, delivered)
  BY NextInLine
<1>2. Len(log[f.session]) \in Nat /\ MaxEvents \in Nat
  BY <1>1, BoundsAssumption DEF TypeOK
<1>3. f.n \in 1 .. [n \in Sessions |-> Len(log[n])][f.session]
  BY <1>1, <1>2
<1>4. ASSUME NEW j \in 1 .. (f.n - 1)
      PROVE  j \in Range(delivered[f.session])
                     \cup [n \in Sessions |-> misread[n] \cup forgone[n]][f.session]
  <2>1. j \in 1 .. MaxEvents /\ j < f.n
    BY <1>1, <1>2
  <2>2. j \in Accounted[f.session]
    BY <1>1, <2>1
  <2> QED BY <1>1, <2>2 DEF Accounted
<1>5. \A m \in Sessions : f.session < m => delivered[m] = <<>>
  BY <1>1 DEF IsLatest
<1>6. \A d \in Range(delivered[f.session]) : d < f.n
  BY <1>1
<1>7. \A n, k : (/\ k \in 1 .. [m \in Sessions |-> Len(log[m])][n]
                 /\ \A d \in Range(delivered[n]) : d < k
                 /\ \A j \in 1 .. (k - 1) :
                       j \in Range(delivered[n])
                               \cup [m \in Sessions |-> misread[m] \cup forgone[m]][n]
                 /\ \A m \in Sessions : n < m => delivered[m] = <<>>)
                   => Feed!IsNext(n, k)
  BY DEF Feed!IsNext, Feed!Range, Range
<1> QED BY <1>3, <1>4, <1>5, <1>6, <1>7

LEMMA FeedHandsOn ==
    ASSUME TypeOK, FlowInv, LatestInv, NEW s \in Sockets, AcceptDispatch(s)
    PROVE  [Feed!Next]_(Feed!vars)
<1> DEFINE f == Next1(s)
<1>1. /\ Waiting(s) /\ IsCurrent(s) /\ f.op = "dispatch"
      /\ UNCHANGED <<disposal, log, misread, forgone>>
      /\ delivered' = IF disposal = "done" THEN delivered
                      ELSE [delivered EXCEPT ![f.session] = Append(@, f.n)]
  BY DEF AcceptDispatch, Takes, server
<1>2. CASE disposal = "done"
  BY <1>1, <1>2, FeedRests
<1>3. CASE disposal # "done"
  <2>1. Feed!IsNext(f.session, f.n) /\ f.session \in Sessions
    BY <1>1, <1>3, FeedIsNext, NextInLine
  <2> HIDE DEF f
  <2>2. Feed!HandOn(f.session, f.n)
    BY <1>1, <1>3, <2>1 DEF Feed!HandOn
  <2>3. f.n \in 1 .. MaxEvents
    BY <1>1, <1>3, NextInLine DEF f
  <2> QED BY <2>1, <2>2, <2>3 DEF Feed!Next
<1> QED BY <1>2, <1>3

\* A dispatch whose frame is given up or does not decode.
LEMMA FeedMisses ==
    ASSUME TypeOK, FlowInv, LatestInv, NEW s \in Sockets, IsCurrent(s), Waiting(s),
           NEW f, f = Next1(s), f.op = "dispatch", UNCHANGED <<disposal, log, delivered>>,
           \/ /\ misread' = [misread EXCEPT ![f.session] = @ \cup {f.n}]
              /\ UNCHANGED forgone
           \/ /\ forgone' = [forgone EXCEPT ![f.session] = @ \cup {f.n}]
              /\ UNCHANGED misread
    PROVE  [Feed!Next]_(Feed!vars)
<1>1. f.session \in Sessions /\ f.n \in 1 .. MaxEvents
  BY TakenTyped, DispatchFields
<1>2. disposal # "done" => Feed!IsNext(f.session, f.n)
  BY FeedIsNext
<1>3. \A n \in Sessions : misread'[n] \cup forgone'[n] =
         IF n = f.session THEN (misread[n] \cup forgone[n]) \cup {f.n}
         ELSE misread[n] \cup forgone[n]
  BY <1>1 DEF TypeOK
<1>4. [n \in Sessions |-> misread'[n] \cup forgone'[n]]
         = [[n \in Sessions |-> misread[n] \cup forgone[n]]
              EXCEPT ![f.session] = @ \cup {f.n}]
  BY <1>1, <1>3
<1>5. Feed!Miss(f.session, f.n)
  BY <1>2, <1>4 DEF Feed!Miss
<1> QED BY <1>1, <1>5 DEF Feed!Next

\* Every step of the client, its user, the server and the network is one of the
\* feed, or none at all.
LEMMA FeedStep ==
    ASSUME TypeOK, BegunInv, FlowInv, LatestInv, [Next]_vars
    PROVE  [Feed!Next]_(Feed!vars)
<1> USE DEF history, server
<1>1. ASSUME NEW n \in Sessions, NEW e \in DispatchNames, Lengthens(n, e)
      PROVE  [Feed!Next]_(Feed!vars)
  BY <1>1, FeedPublishes
<1>2. CASE UNCHANGED vars
  BY <1>2, FeedRests DEF vars, driver
<1>3. CASE External
  <2>1. UNCHANGED <<disposal, delivered, misread, forgone>>
    BY <1>3 DEF External, ServerReads, ServerIdentifies, ServerResumes, ServerReadsIntent,
                ServerDispatches, ServerAsks, ServerCloses, ServerDropsIdle, LinkBreaks,
                BrokenLinkEnds, EndLink, SessionExpires, CredentialIsRevoked, driver
  <2> QED BY <1>1, <2>1, LogLengthens, FeedRests
<1>4. CASE CloseEnd
  <2>1. /\ ~(disposal = "done") /\ disposal' = "done"
        /\ UNCHANGED <<log, delivered, misread, forgone>>
    BY <1>4 DEF CloseEnd
  <2>2. Feed!Close
    BY <2>1 DEF Feed!Close
  <2> QED BY <2>2 DEF Feed!Next
<1>5. CASE (User /\ ~CloseEnd) \/ Timers
  <2>1. /\ UNCHANGED <<log, delivered, misread, forgone>>
        /\ (disposal' = "done") = (disposal = "done")
    BY <1>5 DEF User, Timers, Connect, CloseBegin, SetIntent, ReconnectTimer,
                HeartbeatTimer, DialSucceeds, OvertakenCloses, DialFails
  <2> QED BY <2>1, FeedRests
<1>6. ASSUME NEW s \in Sockets, SocketStep(s) PROVE [Feed!Next]_(Feed!vars)
  <2>1. CASE AcceptDispatch(s)
    BY <2>1, FeedHandsOn
  <2>2. CASE LoseFrame(s)
    <3>1. /\ Waiting(s) /\ IsCurrent(s) /\ UNCHANGED <<disposal, log, delivered, misread>>
          /\ \/ UNCHANGED forgone
             \/ /\ Next1(s).op = "dispatch"
                /\ forgone' = [forgone EXCEPT ![Next1(s).session] = @ \cup {Next1(s).n}]
      BY <2>2 DEF LoseFrame
    <3> QED BY <3>1, FeedRests, FeedMisses
  <2>3. CASE MisreadFrame(s)
    <3>1. /\ Waiting(s) /\ IsCurrent(s) /\ UNCHANGED <<disposal, log, delivered, forgone>>
          /\ \/ UNCHANGED misread
             \/ /\ Next1(s).op = "dispatch"
                /\ misread' = [misread EXCEPT ![Next1(s).session] = @ \cup {Next1(s).n}]
      BY <2>3 DEF MisreadFrame
    <3> QED BY <3>1, FeedRests, FeedMisses
  <2>4. CASE \/ SkipStaleFrame(s) \/ HoldLargeFrame(s) \/ AcceptAck(s)
             \/ AcceptHello(s) \/ AcceptHeartbeatRequest(s)
             \/ AcceptReconnect(s) \/ AcceptInvalidSession(s) \/ AcceptDone(s)
    <3>1. UNCHANGED <<disposal, log, delivered, misread, forgone>>
      BY <2>4
         DEF SkipStaleFrame, HoldLargeFrame, AcceptHello, AcceptAck, AcceptHeartbeatRequest,
             AcceptReconnect, AcceptInvalidSession, AcceptDone, driver
    <3> QED BY <3>1, FeedRests
  <2> QED BY <1>6, <2>1, <2>2, <2>3, <2>4 DEF SocketStep, TakeFrame
<1> QED BY <1>2, <1>3, <1>4, <1>5, <1>6 DEF Next

\* The gateway session implements the feed: whatever its sockets, dials, timers
\* and workers do, in every order, each dispatch handed on is the next of its
\* session, all before it were handed on or could not be read, and none comes
\* after one of a later session, across resumes, replaced sockets and new
\* sessions (_listenTo, _acceptDecoding, accept, identify, resume).
THEOREM GatewayKeepsFeed == Spec => KeepsFeed
<1>1. Init => Feed!Init
  <2> SUFFICES ASSUME Init PROVE Feed!Init
    OBVIOUS
  <2>1. \A n \in Sessions : log[n] = <<>> /\ misread[n] = {} /\ forgone[n] = {}
    BY DEF Init
  <2>2. \A n \in Sessions : Len(log[n]) = 0 /\ misread[n] \cup forgone[n] = {}
    BY <2>1, EmptyPlaces
  <2>3. /\ [n \in Sessions |-> Len(log[n])] = [n \in Sessions |-> 0]
        /\ [n \in Sessions |-> misread[n] \cup forgone[n]] = [n \in Sessions |-> {}]
    BY <2>2
  <2>4. delivered = [n \in Sessions |-> <<>>] /\ (disposal = "done") = FALSE
    BY DEF Init
  <2> QED BY <2>3, <2>4 DEF Feed!Init
<1>2. TypeOK /\ BegunInv /\ (FlowInv /\ AccountInv) /\ LatestInv /\ [Next]_vars
         => [Feed!Next]_(Feed!vars)
  BY FeedStep
<1> QED BY <1>1, <1>2, TypeCorrect, BegunHolds, FlowHolds, LatestHolds,
           PTL DEF Spec, Feed!Spec, KeepsFeed

=============================================================================
