----------------------------- MODULE PushDelivery -----------------------------
(***************************************************************************)
(* Push notifications: the registrations of server/app/push_tokens, the    *)
(* sends of server/app/notifications over FCM, and the phones that         *)
(* register and unregister.  A token is the address of one phone; FCM      *)
(* gives it up for good when the app is removed or the token is renewed.   *)
(***************************************************************************)
EXTENDS Naturals, FiniteSets

CONSTANTS
    Subscribers,    \* accounts
    Tokens,         \* device tokens
    Nobody,         \* no account
    Sends,          \* sends that may be under way at once
    BearerLife,     \* life of an OAuth bearer, in times a post may take at most
    BearerMargin,   \* a bearer with less than this left is not reused
    MaxChanges      \* bound: changes on the phones and in the table

ASSUME PushAssumption ==
    /\ Nobody \notin Subscribers
    /\ BearerLife \in Nat /\ BearerMargin \in Nat /\ BearerMargin < BearerLife
    /\ MaxChanges \in Nat

VARIABLES
    provider,       \* "mock" or "fcm", chosen when the server starts
    tokenRow,       \* push_tokens: the owner of each token
    living,         \* FCM knows the token
    signedIn,       \* who is signed in on the phone of a token
    registering,    \* registrations under way from that phone
    send,
    bearer,         \* time left of the cached bearer, 0 for none
    changes,
    leaving,        \* phones whose logout has made its DELETE and goes on
    cause,          \* history: why a phone has the row of a session it left
    heard,          \* history: the last push a phone has shown
    pruned          \* history: tokens pruned as dead

pushVars == <<provider, tokenRow, living, signedIn, registering, send, bearer, changes,
              leaving, cause, heard, pruned>>

Somebody == Subscribers \cup {Nobody}
Providers == {"mock", "fcm"}
\* "request": the DELETE failed or was not made; "late": a registration arrived
\* after it.
Causes == {"none", "request", "late"}
\* FcmV1Provider begins without a cached bearer.
NoBearer == 0
IdleSend == [pc |-> "idle", audience |-> {}, todo |-> {}, asked |-> {}, delivered |-> {},
             invalid |-> {}, failed |-> {}, moved |-> {}, left |-> 0, posted |-> 0,
             waited |-> FALSE]
SendType == [pc : {"idle", "lookup", "auth", "post", "prune"}, audience : SUBSET Subscribers,
             todo : SUBSET Tokens, asked : SUBSET Tokens, delivered : SUBSET Tokens,
             invalid : SUBSET Tokens, failed : SUBSET Tokens, moved : SUBSET Tokens,
             left : 0..BearerLife, posted : Nat, waited : BOOLEAN]
Silence == [who |-> Nobody, audience |-> {}, moved |-> TRUE, cause |-> "none"]
HeardType == [who : Somebody, audience : SUBSET Subscribers, moved : BOOLEAN, cause : Causes]

PushTypeOK ==
    /\ provider \in Providers
    /\ tokenRow \in [Tokens -> Somebody] /\ signedIn \in [Tokens -> Somebody]
    /\ living \in [Tokens -> BOOLEAN]
    /\ registering \in [Tokens -> SUBSET Subscribers]
    /\ send \in [Sends -> SendType]
    /\ bearer \in 0..BearerLife /\ changes \in 0..MaxChanges
    /\ leaving \subseteq Tokens /\ pruned \subseteq Tokens
    /\ cause \in [Tokens -> Causes] /\ heard \in HeardType

\* build_notifications: FCM when its project and credentials are there, and the
\* mock provider, which only logs, in every other case.
BuildNotifications(wantsFcm, project, credentials) ==
    IF wantsFcm /\ project /\ credentials THEN "fcm" ELSE "mock"

PushInit ==
    /\ \E w, p, c \in BOOLEAN : provider = BuildNotifications(w, p, c)
    /\ tokenRow = [t \in Tokens |-> Nobody] /\ signedIn = [t \in Tokens |-> Nobody]
    /\ living = [t \in Tokens |-> TRUE]
    /\ registering = [t \in Tokens |-> {}]
    /\ send = [s \in Sends |-> IdleSend]
    /\ bearer = NoBearer /\ changes = 0
    /\ leaving = {} /\ cause = [t \in Tokens |-> "none"] /\ pruned = {} /\ heard = Silence

-----------------------------------------------------------------------------
(* The phones and the table. *)

PhoneFrame == UNCHANGED <<provider, bearer, heard, pruned>>

\* The queries of PushTokensRepository: the row of a token, whoever owns it; the
\* row if the user owns it; the tokens of an audience.
DeleteByToken(t) == [tokenRow EXCEPT ![t] = Nobody]
DeleteOwn(t, u) == IF tokenRow[t] = u THEN DeleteByToken(t) ELSE tokenRow
TokensForUsers(audience) == {t \in Tokens : tokenRow[t] \in audience}

Change == changes < MaxChanges /\ changes' = changes + 1
\* A send that has looked the token up goes on with what it saw.
Move(t) == send' = [s \in Sends |-> IF t \in send[s].todo
                                    THEN [send[s] EXCEPT !.moved = @ \cup {t}] ELSE send[s]]

SignIn(t, u) ==
    /\ living[t] /\ signedIn[t] = Nobody /\ Change
    /\ signedIn' = [signedIn EXCEPT ![t] = u]
    /\ Move(t)
    /\ UNCHANGED <<tokenRow, living, registering, leaving, cause>> /\ PhoneFrame

\* useNotifications, signed in with notifications on: the request carries the
\* session of that moment, and the sign-out does not call it back.
BeginRegister(t) ==
    /\ living[t] /\ signedIn[t] # Nobody /\ signedIn[t] \notin registering[t] /\ Change
    /\ registering' = [registering EXCEPT ![t] = @ \cup {signedIn[t]}]
    /\ UNCHANGED <<tokenRow, living, signedIn, send, leaving, cause>> /\ PhoneFrame

\* register_token and upsert: a token has one row, and its owner is the last
\* account that registered it.
Upsert(t, u) ==
    /\ u \in registering[t]
    /\ registering' = [registering EXCEPT ![t] = @ \ {u}]
    /\ tokenRow' = [tokenRow EXCEPT ![t] = u]
    /\ cause' = [cause EXCEPT ![t] = IF signedIn[t] = u /\ t \notin leaving THEN "none" ELSE "late"]
    /\ Move(t)
    /\ UNCHANGED <<living, signedIn, changes, leaving>> /\ PhoneFrame

RegisterFails(t, u) ==
    /\ u \in registering[t]
    /\ registering' = [registering EXCEPT ![t] = @ \ {u}]
    /\ UNCHANGED <<tokenRow, living, signedIn, send, changes, leaving, cause>> /\ PhoneFrame

\* delete_token: the row of the caller and his token.
DeleteToken(t) == tokenRow' = DeleteOwn(t, signedIn[t])

UnregisterKeepsTheRow(t) ==
    /\ signedIn[t] # Nobody /\ t \notin leaving /\ Change
    /\ leaving' = leaving \cup {t}
    /\ UNCHANGED <<tokenRow, cause, living, signedIn, registering, send>> /\ PhoneFrame
\* logout: the DELETE of the push token, which may fail or not be made, and after
\* which the phone goes on with its user until the session is closed.
Unregister(t) ==
    /\ signedIn[t] # Nobody /\ t \notin leaving /\ Change
    /\ leaving' = leaving \cup {t}
    /\ \/ DeleteToken(t) /\ UNCHANGED cause
       \/ /\ cause' = [cause EXCEPT ![t] = IF @ = "none" THEN "request" ELSE @]
          /\ UNCHANGED tokenRow
    /\ UNCHANGED <<living, signedIn, registering, send>> /\ PhoneFrame

\* The rest of logout: remoteLogout has answered or failed, and the user is gone.
SignOut(t) ==
    /\ t \in leaving
    /\ leaving' = leaving \ {t} /\ signedIn' = [signedIn EXCEPT ![t] = Nobody]
    /\ Move(t)
    /\ UNCHANGED <<tokenRow, living, registering, changes, cause>> /\ PhoneFrame

\* The admin's delete_push_token, by id.
AdminDeleteToken(t) ==
    /\ tokenRow[t] # Nobody /\ Change
    /\ tokenRow' = DeleteByToken(t)
    /\ UNCHANGED <<living, signedIn, registering, send, leaving, cause>> /\ PhoneFrame

TokenDies(t) ==
    /\ living[t] /\ Change
    /\ living' = [living EXCEPT ![t] = FALSE]
    /\ UNCHANGED <<tokenRow, signedIn, registering, send, leaving, cause>> /\ PhoneFrame

-----------------------------------------------------------------------------
(* A send. *)

SendFrame == UNCHANGED <<provider, living, signedIn, registering, changes, leaving, cause>>
SetSend(s, r) == send' = [send EXCEPT ![s] = r]

\* _deliver, to an audience.
BeginSend(s, audience) ==
    /\ send[s].pc = "idle"
    /\ SetSend(s, [IdleSend EXCEPT !.pc = "lookup", !.audience = audience])
    /\ UNCHANGED <<tokenRow, bearer, heard, pruned>> /\ SendFrame

\* _audience: the protected user and his guardians, or he alone when their lookup
\* fails.
Audiences(u) == {guards \cup {u} : guards \in SUBSET Subscribers}

\* notify_emergency_created and notify_emergency_updated.
NotifyEmergency(s, u) == \E audience \in Audiences(u) : BeginSend(s, audience)

\* send_to_users, each of them once.
SendToUsers(s, users) == BeginSend(s, users)

\* The admin's send_push: to everybody, or to the users it names; naming nobody
\* is a conflict.
AdminSendPush(s) ==
    \E users \in {Subscribers} \cup (SUBSET Subscribers \ {{}}) : SendToUsers(s, users)

\* The tokens of the audience, or none when the query fails; without any,
\* send_to_tokens returns before it asks for a bearer.
LookUp(s) ==
    /\ send[s].pc = "lookup"
    /\ \E found \in {{}, TokensForUsers(send[s].audience)} :
          SetSend(s, [send[s] EXCEPT !.pc = IF found = {} THEN "prune" ELSE "auth",
                                     !.todo = found, !.asked = found])
    /\ UNCHANGED <<tokenRow, bearer, heard, pruned>> /\ SendFrame

\* MockNotificationProvider: nothing is sent and everything is delivered.
MockSend(s) ==
    /\ provider = "mock" /\ send[s].pc = "auth"
    /\ SetSend(s, [send[s] EXCEPT !.pc = "prune", !.delivered = send[s].todo, !.todo = {}])
    /\ UNCHANGED <<tokenRow, bearer, heard, pruned>> /\ SendFrame

ReuseToTheEnd(left) == left > 0
\* The cached bearer is good until 300 seconds before it expires.
Reusable(left) == left > BearerMargin

\* _access_token: the cached bearer, or a new one, or every token has failed.
Authorise(s) ==
    /\ provider = "fcm" /\ send[s].pc = "auth"
    /\ \/ /\ Reusable(bearer)
          /\ SetSend(s, [send[s] EXCEPT !.pc = "post", !.left = bearer])
          /\ UNCHANGED bearer
       \/ /\ ~ Reusable(bearer)
          /\ SetSend(s, [send[s] EXCEPT !.pc = "post", !.left = BearerLife])
          /\ bearer' = BearerLife
       \/ /\ ~ Reusable(bearer)
          /\ SetSend(s, [send[s] EXCEPT !.pc = "prune", !.failed = send[s].todo, !.todo = {}])
          /\ UNCHANGED bearer
    /\ UNCHANGED <<tokenRow, heard, pruned>> /\ SendFrame

PrunesBadPayload(code, atToken) == code \in {"UNREGISTERED", "INVALID_ARGUMENT"}
\* _is_dead_token, of the error and whether its violation names the token.
IsDeadToken(code, atToken) ==
    code = "UNREGISTERED" \/ (code = "INVALID_ARGUMENT" /\ atToken)

\* What FCM answers of a token: a dead one is unregistered or invalid itself,
\* and any post may fail for its payload, the bearer, or the service.
FcmAnswers(t, left) ==
    [code : {"UNAVAILABLE"}, atToken : {FALSE}]
    \cup [code : {"INVALID_ARGUMENT"}, atToken : {FALSE}]
    \cup (IF left = 0 THEN {}
          ELSE IF living[t] THEN [code : {"OK"}, atToken : {FALSE}]
          ELSE [code : {"UNREGISTERED"}, atToken : {FALSE}]
               \cup [code : {"INVALID_ARGUMENT"}, atToken : {TRUE}])

StopOnError(s, t, a) ==
    /\ SetSend(s, [send[s] EXCEPT !.pc = "prune", !.todo = {}, !.failed = @ \cup {t}])
    /\ UNCHANGED heard
Sort(s, t, a) ==
    LET next == [send[s] EXCEPT !.todo = @ \ {t}, !.posted = @ + 1, !.waited = FALSE] IN
    CASE a.code = "OK" ->
           /\ SetSend(s, [next EXCEPT !.delivered = @ \cup {t}])
           /\ heard' = [who |-> signedIn[t], audience |-> send[s].audience,
                        moved |-> t \in send[s].moved, cause |-> cause[t]]
      [] a.code # "OK" /\ IsDeadToken(a.code, a.atToken) ->
           SetSend(s, [next EXCEPT !.invalid = @ \cup {t}]) /\ UNCHANGED heard
      [] OTHER ->
           SetSend(s, [next EXCEPT !.failed = @ \cup {t}]) /\ UNCHANGED heard

\* send_to_tokens, one token: an error is noted and the loop goes on.
Post(s, t) ==
    /\ send[s].pc = "post" /\ t \in send[s].todo
    /\ \E a \in FcmAnswers(t, send[s].left) : Sort(s, t, a)
    /\ UNCHANGED <<tokenRow, bearer, pruned>> /\ SendFrame

EndPosts(s) ==
    /\ send[s].pc = "post" /\ send[s].todo = {}
    /\ SetSend(s, [send[s] EXCEPT !.pc = "prune"])
    /\ UNCHANGED <<tokenRow, bearer, heard, pruned>> /\ SendFrame

\* _deliver prunes the dead tokens one by one, whoever owns them by now, and a
\* prune that fails is passed over.
PruneToken(s, t) ==
    /\ send[s].pc = "prune" /\ t \in send[s].invalid
    /\ SetSend(s, [send[s] EXCEPT !.invalid = @ \ {t}, !.asked = @ \ {t}])
    /\ \/ /\ tokenRow' = DeleteByToken(t) /\ pruned' = pruned \cup {t}
       \/ UNCHANGED <<tokenRow, pruned>>
    /\ UNCHANGED <<bearer, heard>> /\ SendFrame

EndSend(s) ==
    /\ send[s].pc = "prune" /\ send[s].invalid = {}
    /\ SetSend(s, IdleSend)
    /\ UNCHANGED <<tokenRow, bearer, heard, pruned>> /\ SendFrame

\* A post takes at most one unit, its timeout of 15 seconds; the unit follows the
\* step of its post.
TimeGoesBy ==
    /\ \A s \in Sends : send[s].pc = "post" => ~ send[s].waited /\ send[s].posted > 0
    /\ bearer # NoBearer /\ bearer' = bearer - 1
    /\ send' = [s \in Sends |-> IF send[s].pc = "post"
                                THEN [send[s] EXCEPT !.left = IF @ = 0 THEN 0 ELSE @ - 1,
                                                     !.waited = TRUE]
                                ELSE send[s]]
    /\ UNCHANGED <<provider, tokenRow, living, signedIn, registering, changes, leaving, cause,
                   heard, pruned>>

SendStep(s) ==
    \/ LookUp(s) \/ MockSend(s) \/ Authorise(s) \/ EndPosts(s) \/ EndSend(s)
    \/ \E t \in Tokens : Post(s, t) \/ PruneToken(s, t)

PushNext ==
    \/ \E t \in Tokens :
          \/ \E u \in Subscribers : SignIn(t, u) \/ Upsert(t, u) \/ RegisterFails(t, u)
          \/ BeginRegister(t) \/ Unregister(t) \/ SignOut(t) \/ AdminDeleteToken(t) \/ TokenDies(t)
    \/ \E s \in Sends : \/ \E u \in Subscribers : NotifyEmergency(s, u)
                        \/ AdminSendPush(s) \/ SendStep(s)
    \/ TimeGoesBy

PushSpec == PushInit /\ [][PushNext]_pushVars

-----------------------------------------------------------------------------
(* Properties. *)

\* Only a token that FCM has given up is pruned: an error of the payload, the
\* bearer or the service never costs a phone its registration, though the row
\* is deleted by its token whoever registered it since.
PrunedWereDead == \A t \in pruned : ~ living[t]

\* Every token looked up ends in one of delivered, invalid and failed, whichever
\* of the posts before it failed.
EveryTokenAccounted ==
    \A s \in Sends :
        LET r == send[s]
            parts == <<r.todo, r.delivered, r.invalid, r.failed>> IN
        /\ UNION {parts[i] : i \in 1..4} = r.asked
        /\ \A i, j \in 1..4 : i # j => parts[i] \cap parts[j] = {}
        /\ r.pc \in {"lookup", "prune"} => r.todo = {}

\* What a send does with a token is what FCM says of it: no token is left out,
\* none is in two lists, and no living one is pruned.
SendsAccounted == EveryTokenAccounted /\ PrunedWereDead

\* A send of as many posts as the margin allows for does not run out of its
\* bearer, however old the cached one was and however slow each post is.
BearerLasts ==
    \A s \in Sends : send[s].pc = "post" /\ send[s].posted <= BearerMargin => send[s].left > 0

\* A phone shows a push of an account it is not signed in to only if it changed
\* hands after the lookup, or has a row its session left behind: the DELETE of its
\* logout failed or was not made, or a registration arrived after it.
StrangersExplained == heard.who \in heard.audience \/ heard.moved \/ heard.cause # "none"

\* logout, on the DELETE: "so the server does not keep pushing to a now-logged-out
\* user".  A phone whose DELETE was answered shows no push of the account it left.
UnregisteredHearsNothing ==
    heard.who \in heard.audience \/ heard.moved \/ heard.cause = "request"
=============================================================================
