------------------------------ MODULE SocialSdk ------------------------------
(***************************************************************************)
(* The runner's bridge to the Discord Social SDK                           *)
(* (src/windows/runner/discord_social_sdk_*.cpp): authentication, the      *)
(* activity lobby and its invites, the activity call, and the requests     *)
(* that only pass through.                                                 *)
(*                                                                         *)
(* One thread runs the interface's method calls and the SDK's answers, in  *)
(* whichever order they come.  A chain is what one method call, or one     *)
(* expiring token, sets going: requests to the SDK one after another, each *)
(* answered once, also after a sign-out.  A lobby and the secret that      *)
(* joins it have the number of the chain that asked for them.              *)
(***************************************************************************)
EXTENDS Naturals

CONSTANT MaxChains      \* method calls that wait, and expiring tokens

ASSUME ChainsAssumption == MaxChains \in Nat \ {0}

VARIABLES
    chains,      \* chains started
    at,          \* the request a chain waits for
    waiting,     \* chains whose method call is not answered
    status,      \* the SDK client's connection
    token,       \* the SDK has a token that can expire
    pending,     \* pending_auth_result_
    grant,       \* grant_.IsComplete()
    refreshing,  \* refresh_in_flight_
    robbed,      \* an expiry took the grant of the pending authentication
    signed,      \* the interface takes itself for signed in
    starting,    \* session_starting_
    activeLobby, \* active_lobby_id_
    secret,      \* active_lobby_secret_
    presence,    \* the lobby whose invites are open, and the secret published
    call         \* the lobby of call_

sdkVars == <<chains, at, waiting>>
authVars == <<status, token, pending, grant, refreshing, robbed, signed>>
activityVars == <<starting, activeLobby, secret, presence>>
bridgeVars == <<sdkVars, authVars, activityVars, call>>

Chains == 1..MaxChains
None == 0

BridgeInit ==
    /\ chains = 0
    /\ at = [n \in Chains |-> "none"]
    /\ waiting = {}
    /\ status = "offline" /\ token = FALSE
    /\ pending = None /\ grant = FALSE /\ refreshing = FALSE
    /\ robbed = FALSE /\ signed = FALSE
    /\ starting = FALSE /\ activeLobby = None /\ secret = None
    /\ presence = [lobby |-> None, secret |-> None]
    /\ call = None

\* A new chain with its first request.
Ask(request) ==
    /\ chains < MaxChains
    /\ chains' = chains + 1
    /\ at' = [at EXCEPT ![chains + 1] = request]

Goes(n, request) == at' = [at EXCEPT ![n] = request]

-----------------------------------------------------------------------------
(* Authentication                                                           *)

\* Authorize and RestoreSession, refused while one of them or a refresh is
\* under way.  The interface asks for them signed out, one at a time.
StartAuthentication(request) ==
    /\ ~signed
    /\ pending = None /\ ~refreshing
    /\ Ask(request)
    /\ waiting' = waiting \union {chains'}
    /\ pending' = chains'
    /\ robbed' = FALSE

Authorize ==
    /\ StartAuthentication("authorize")
    /\ UNCHANGED <<status, token, grant, refreshing, signed, activityVars,
                   call>>

RestoreSession ==
    /\ StartAuthentication("refresh")
    /\ refreshing' = TRUE
    /\ UNCHANGED <<status, token, grant, signed, activityVars, call>>

\* The pending call is answered, whichever attempt the answer belongs to.
AnswerPending(success) ==
    /\ waiting' = waiting \ {pending}
    /\ pending' = None
    /\ robbed' = FALSE
    /\ signed' = IF pending = None THEN signed ELSE success

\* Mutant: the answer is let go before it was given.
CompleteForgets ==
    IF grant THEN pending' = None /\ UNCHANGED <<waiting, robbed, signed>>
             ELSE UNCHANGED <<waiting, pending, robbed, signed>>

CompleteAuthentication ==
    IF grant THEN AnswerPending(TRUE)
             ELSE UNCHANGED <<waiting, pending, robbed, signed>>

FailAuthentication == refreshing' = FALSE /\ AnswerPending(FALSE)

ResetSession ==
    /\ starting' = FALSE /\ activeLobby' = None /\ secret' = None
    /\ call' = None
    /\ UNCHANGED presence

NotifyAuthenticationExpired ==
    /\ grant' = FALSE
    /\ signed' = FALSE
    /\ robbed' = (pending # None)
    /\ ResetSession
    /\ UNCHANGED <<waiting, pending>>

\* The answer to Authorize: the code is exchanged for a token.
AuthorizeAnswer(n) ==
    /\ at[n] = "authorize"
    /\ \/ /\ Goes(n, "token")
          /\ UNCHANGED <<waiting, authVars>>
       \/ /\ Goes(n, "done")
          /\ FailAuthentication
          /\ UNCHANGED <<status, token, grant>>
    /\ UNCHANGED <<chains, activityVars, call>>

Background(n) == at[n] \in {"expiring", "updateExpiring"}

\* HandleTokenExchange.  An answer is a grant or a failure.
HandleTokenExchange(n) ==
    /\ at[n] \in {"token", "refresh", "expiring"}
    /\ \/ /\ Goes(n, IF Background(n) THEN "updateExpiring" ELSE "update")
          /\ grant' = TRUE
          /\ refreshing' = FALSE
          /\ UNCHANGED <<waiting, pending, robbed, signed, activityVars,
                         call>>
       \/ /\ Background(n)
          /\ Goes(n, "done")
          /\ refreshing' = FALSE
          /\ NotifyAuthenticationExpired
       \/ /\ ~Background(n)
          /\ Goes(n, "done")
          /\ FailAuthentication
          /\ UNCHANGED <<grant, activityVars, call>>
    /\ UNCHANGED <<chains, status, token>>

\* The answer to UpdateToken: a session that is up is told of its new grant,
\* or completes; another one connects.
UpdateAnswer(n) ==
    /\ at[n] \in {"update", "updateExpiring"}
    /\ Goes(n, "done")
    /\ \/ /\ Background(n)
          /\ token' = TRUE
          /\ signed' = TRUE             \* NotifyGrantChanged
          /\ UNCHANGED <<waiting, status, pending, grant, refreshing, robbed,
                         activityVars, call>>
       \/ /\ Background(n)
          /\ NotifyAuthenticationExpired
          /\ UNCHANGED <<status, token, refreshing>>
       \/ /\ ~Background(n)
          /\ token' = TRUE
          /\ IF status = "ready"
             THEN CompleteAuthentication /\ UNCHANGED status
             ELSE /\ status' = "connecting"
                  /\ UNCHANGED <<waiting, pending, robbed, signed>>
          /\ UNCHANGED <<grant, refreshing, activityVars, call>>
       \/ /\ ~Background(n)
          /\ FailAuthentication
          /\ UNCHANGED <<status, token, grant, activityVars, call>>
    /\ UNCHANGED chains

StatusReady ==
    /\ status = "connecting"
    /\ status' = "ready"
    /\ CompleteAuthentication
    /\ UNCHANGED <<chains, at, token, grant, refreshing, activityVars, call>>

\* With an error: the SDK lost its connection or never had one.
StatusDisconnected ==
    /\ status \in {"connecting", "ready"}
    /\ status' = "offline"
    /\ IF pending # None THEN FailAuthentication
       ELSE UNCHANGED <<waiting, pending, robbed, signed, refreshing>>
    /\ UNCHANGED <<chains, at, token, grant, activityVars, call>>

\* RefreshExpiringToken: a refresh that is under way, or no grant to refresh
\* with, counts as expired.
RefreshExpiringToken ==
    /\ token
    /\ IF refreshing \/ ~grant
       THEN /\ NotifyAuthenticationExpired
            /\ UNCHANGED <<chains, at, refreshing>>
       ELSE /\ Ask("expiring")
            /\ refreshing' = TRUE
            /\ UNCHANGED <<waiting, pending, grant, robbed, signed,
                           activityVars, call>>
    /\ UNCHANGED <<status, token>>

\* Requests that are out stay out, and are answered later.
Disconnect ==
    /\ waiting' = waiting \ {pending}
    /\ pending' = None /\ robbed' = FALSE
    /\ signed' = FALSE
    /\ grant' = FALSE /\ refreshing' = FALSE
    /\ status' = "offline" /\ token' = FALSE
    /\ ResetSession
    /\ UNCHANGED <<chains, at>>

-----------------------------------------------------------------------------
(* Activity lobbies and invites                                             *)

Ready == signed /\ status = "ready"

\* SendInvite: into the lobby there is, or one that is created first.  While
\* one is being created the next invite is refused.
SendInvite ==
    /\ Ready
    /\ activeLobby # None \/ ~starting
    /\ Ask(IF activeLobby # None THEN "invite" ELSE "create")
    /\ waiting' = waiting \union {chains'}
    /\ IF activeLobby # None THEN UNCHANGED <<starting, secret>>
       ELSE starting' = TRUE /\ secret' = chains'
    /\ UNCHANGED <<authVars, activeLobby, presence, call>>

\* Mutant: a lobby that cannot be made leaves the bridge busy.
CreateAnswerStaysBusy(n) ==
    /\ at[n] = "create"
    /\ \/ /\ Goes(n, "presence")
          /\ activeLobby' = n
          /\ presence' = [lobby |-> n, secret |-> secret]
          /\ UNCHANGED <<waiting, starting, secret>>
       \/ /\ Goes(n, "done")
          /\ activeLobby' = None
          /\ waiting' = waiting \ {n}
          /\ UNCHANGED <<starting, secret, presence>>
    /\ UNCHANGED <<chains, authVars, call>>

\* The lobby exists: Rich Presence publishes the secret that joins it.
CreateAnswer(n) ==
    /\ at[n] = "create"
    /\ \/ /\ Goes(n, "presence")
          /\ activeLobby' = n
          /\ presence' = [lobby |-> n, secret |-> secret]
          /\ UNCHANGED <<waiting, starting, secret>>
       \/ /\ Goes(n, "done")
          /\ starting' = FALSE /\ activeLobby' = None /\ secret' = None
          /\ waiting' = waiting \ {n}
          /\ UNCHANGED presence
    /\ UNCHANGED <<chains, authVars, call>>

PresenceAnswer(n) ==
    /\ at[n] = "presence"
    /\ starting' = FALSE
    /\ \/ /\ Goes(n, "invite")
          /\ UNCHANGED <<waiting, activeLobby, secret>>
       \/ /\ Goes(n, "done")
          /\ activeLobby' = None /\ secret' = None
          /\ waiting' = waiting \ {n}
    /\ UNCHANGED <<chains, authVars, presence, call>>

AcceptInvite ==
    /\ Ready
    /\ Ask("accept")
    /\ waiting' = waiting \union {chains'}
    /\ UNCHANGED <<authVars, activityVars, call>>

\* The invite names a secret: its lobby is joined, and takes the place of
\* the one there was.
AcceptAnswer(n) ==
    /\ \/ at[n] = "accept" /\ Goes(n, "join")
          /\ UNCHANGED <<waiting, activeLobby, secret>>
       \/ at[n] = "join" /\ Goes(n, "done")
          /\ waiting' = waiting \ {n}
          /\ activeLobby' = n /\ secret' = n
       \/ at[n] \in {"accept", "join"} /\ Goes(n, "done")
          /\ waiting' = waiting \ {n}
          /\ UNCHANGED <<activeLobby, secret>>
    /\ UNCHANGED <<chains, authVars, starting, presence, call>>

-----------------------------------------------------------------------------
(* The activity call, and requests that only pass through                   *)

\* DiscordSocialSdkCallBridge::Start, in the lobby the interface is in.
StartCall ==
    /\ Ready
    /\ activeLobby # None /\ call = None
    /\ call' = activeLobby
    /\ UNCHANGED <<sdkVars, authVars, activityVars>>

Leave ==
    /\ Ready
    /\ call # None
    /\ Ask("leave")
    /\ waiting' = waiting \union {chains'}
    /\ UNCHANGED <<authVars, activityVars, call>>

\* The call that is there by now goes.
LeaveAnswer(n) ==
    /\ at[n] = "leave"
    /\ Goes(n, "done")
    /\ waiting' = waiting \ {n}
    /\ call' \in {call, None}
    /\ UNCHANGED <<chains, authVars, activityVars>>

\* A request that changes nothing here until it is answered.
Relay(request) ==
    /\ Ready
    /\ Ask(request)
    /\ waiting' = waiting \union {chains'}
    /\ UNCHANGED <<authVars, activityVars, call>>

\* Conversations, their messages, and sending, editing and deleting one.
AskChat == Relay("chat")

\* Friend requests, the other changes of a relationship, the online status.
AskRelationship == Relay("relationship")

Answered(n, request) ==
    /\ at[n] = request
    /\ Goes(n, "done")
    /\ waiting' = waiting \ {n}
    /\ UNCHANGED <<chains, authVars, activityVars, call>>

ChatAnswer(n) == Answered(n, "chat")
RelationshipAnswer(n) == Answered(n, "relationship")
InviteAnswer(n) == Answered(n, "invite")

SdkAnswers(n) ==
    \/ AuthorizeAnswer(n) \/ HandleTokenExchange(n) \/ UpdateAnswer(n)
    \/ CreateAnswer(n) \/ PresenceAnswer(n) \/ AcceptAnswer(n)
    \/ InviteAnswer(n) \/ LeaveAnswer(n)
    \/ ChatAnswer(n) \/ RelationshipAnswer(n)

BridgeNext ==
    \/ Authorize \/ RestoreSession \/ Disconnect
    \/ StatusReady \/ StatusDisconnected \/ RefreshExpiringToken
    \/ SendInvite \/ AcceptInvite \/ StartCall \/ Leave
    \/ AskChat \/ AskRelationship
    \/ \E n \in Chains : SdkAnswers(n)

BridgeSpec == BridgeInit /\ [][BridgeNext]_bridgeVars

\* The SDK answers every request, and a connection comes up or fails.
BridgeFairSpec ==
    /\ BridgeSpec
    /\ WF_bridgeVars(StatusReady \/ StatusDisconnected)
    /\ \A n \in Chains : WF_bridgeVars(SdkAnswers(n))

-----------------------------------------------------------------------------
(* Properties                                                               *)

Requests == {"authorize", "token", "refresh", "expiring", "update",
             "updateExpiring", "create", "presence", "invite", "accept",
             "join", "leave", "chat", "relationship"}

BridgeTypeOK ==
    /\ chains \in 0..MaxChains
    /\ at \in [Chains -> Requests \union {"none", "done"}]
    /\ waiting \subseteq 1..chains
    /\ status \in {"offline", "connecting", "ready"}
    /\ {token, grant, refreshing, robbed, signed, starting} \subseteq BOOLEAN
    /\ pending \in waiting \union {None}
    /\ activeLobby \in 0..chains /\ secret \in 0..chains /\ call \in 0..chains
    /\ presence \in [lobby : 0..chains, secret : 0..chains]

\* Every method call is answered, whatever the SDK answers and in whichever
\* order: also one whose session was reset, whose attempt was failed by
\* another one's answer, or whose client connects on its second try.  The
\* exception is an authentication whose grant a late expiry took away: it is
\* left waiting when the client gets ready.
EveryCallAnswered ==
    \A n \in Chains :
        n \in waiting ~> (n \notin waiting \/ (pending = n /\ robbed))

\* A bridge that refuses invites because a lobby is being created is really
\* waiting for one: resets, failures and other lobbies in between never leave
\* it busy with nothing.
BusyIsHonest ==
    starting => \E n \in Chains : at[n] \in {"create", "presence"}

\* A secret published with a lobby is never the one of another lobby: who is
\* invited joins where he was asked to.
PublishesItsSecret == presence.secret \in {None, presence.lobby}

=============================================================================
