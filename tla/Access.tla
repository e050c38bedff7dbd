------------------------------- MODULE Access -------------------------------
(***************************************************************************)
(* Who is let in: the dependencies of server/app/core/deps that every      *)
(* route runs before its handler.  The access token proves an account      *)
(* until it expires and is kept nowhere; the account and its role are read *)
(* from the database once for each request.                                *)
(***************************************************************************)
EXTENDS Naturals, FiniteSets

CONSTANTS
    Holders,        \* accounts
    Visits,         \* requests that may be under way at once
    AccessLife,     \* life of an access token, in ticks
    LastTick,       \* bound: the clock
    MaxTurns        \* bound: changes of an account, tokens issued

ASSUME AccessAssumption == AccessLife \in Nat \ {0} /\ LastTick \in Nat /\ MaxTurns \in Nat

VARIABLES
    tick,
    account,        \* of each holder: "admin", "user", "disabled" or "deleted"
    session,        \* has a refresh token that is not revoked
    endedAt,        \* history: when the sessions were last ended
    issued,         \* access tokens and refresh tokens, with their time of issue
    request,
    turns

accessVars == <<tick, account, session, endedAt, issued, request, turns>>

TokenType == [of : Holders, type : {"access", "refresh"}, born : 0..LastTick]
NoToken == [of |-> "nobody", type |-> "none", born |-> 0]
\* at: "decode", "account", "admitted", or the status of the answer; late and
\* lateAdmin: history, no active account, or no admin, at any time since the
\* request began.
RequestType == [at : {"idle", "decode", "account", "admitted", "200", "401", "403", "404"},
                token : TokenType \cup {NoToken}, admin : BOOLEAN, decoded : 0..LastTick,
                late : BOOLEAN, lateAdmin : BOOLEAN]
NoRequest == [at |-> "idle", token |-> NoToken, admin |-> FALSE, decoded |-> 0,
              late |-> FALSE, lateAdmin |-> FALSE]

AccessTypeOK ==
    /\ tick \in 0..LastTick
    /\ account \in [Holders -> {"admin", "user", "disabled", "deleted"}]
    /\ session \in [Holders -> BOOLEAN]
    /\ endedAt \in [Holders -> 0..LastTick]
    /\ issued \subseteq TokenType
    /\ request \in [Visits -> RequestType]
    /\ turns \in 0..MaxTurns

AccessInit ==
    /\ tick = 0 /\ account \in [Holders -> {"admin", "user"}]
    /\ session = [u \in Holders |-> FALSE] /\ endedAt = [u \in Holders |-> 0]
    /\ issued = {} /\ request = [r \in Visits |-> NoRequest] /\ turns = 0

Active(u) == account[u] \in {"admin", "user"}
Turn == turns < MaxTurns /\ turns' = turns + 1
SetRequest(r, q) == request' = [request EXCEPT ![r] = q]

-----------------------------------------------------------------------------
(* Tokens and accounts. *)

\* create_access_token and create_refresh_token, after a login or for a session
\* that refreshes.
Issue(u) ==
    /\ Active(u) /\ Turn
    /\ session' = [session EXCEPT ![u] = TRUE]
    /\ issued' = issued \cup {[of |-> u, type |-> k, born |-> tick] : k \in {"access", "refresh"}}
    /\ UNCHANGED <<tick, account, endedAt, request>>

\* logout_all, and the admin's reset and suspension: the refresh tokens.
EndSessions(u) ==
    /\ session[u] /\ Turn
    /\ session' = [session EXCEPT ![u] = FALSE]
    /\ endedAt' = [endedAt EXCEPT ![u] = tick]
    /\ UNCHANGED <<tick, account, issued, request>>

\* What the admin makes of an account; the requests under way go on.
AccountTurns(u, a) ==
    /\ account[u] \notin {a, "deleted"} /\ Turn
    /\ account' = [account EXCEPT ![u] = a]
    /\ request' = [r \in Visits |->
                     IF request[r].token.of # u THEN request[r]
                     ELSE [request[r] EXCEPT !.late = @ /\ a \notin {"admin", "user"},
                                             !.lateAdmin = @ /\ a # "admin"]]
    /\ UNCHANGED <<tick, session, endedAt, issued>>

TickOn ==
    /\ tick < LastTick /\ tick' = tick + 1
    /\ UNCHANGED <<account, session, endedAt, issued, request, turns>>

-----------------------------------------------------------------------------
(* A request. *)

RequestFrame == UNCHANGED <<tick, account, session, endedAt, issued, turns>>

\* HTTPBearer: without a token there is nothing to decode.
BeginRequest(r, t, admin) ==
    /\ request[r].at = "idle" /\ t \in issued
    /\ SetRequest(r, [at |-> "decode", token |-> t, admin |-> admin, decoded |-> 0,
                      late |-> ~Active(t.of), lateAdmin |-> account[t.of] # "admin"])
    /\ RequestFrame

WithoutBearer(r) ==
    /\ request[r].at = "idle"
    /\ SetRequest(r, [NoRequest EXCEPT !.at = "401"])
    /\ RequestFrame

\* decode_token: the signature, the expiry, and the type of the token.
AnyAge(t) == t.type = "access"
Decodes(t) == t.type = "access" /\ tick < t.born + AccessLife
Decode(r) ==
    /\ request[r].at = "decode"
    /\ SetRequest(r, IF Decodes(request[r].token)
                     THEN [request[r] EXCEPT !.at = "account", !.decoded = tick]
                     ELSE [NoRequest EXCEPT !.at = "401"])
    /\ RequestFrame

\* get_by_id with _reject_disabled, and get_current_admin on the same row.
NotDeleted(u) == account[u] # "deleted"
LetIn(u) == account[u] \notin {"deleted", "disabled"}
CheckAccount(r) ==
    LET u == request[r].token.of IN
    /\ request[r].at = "account"
    /\ SetRequest(r, IF ~LetIn(u) THEN [NoRequest EXCEPT !.at = "401"]
                     ELSE IF request[r].admin /\ account[u] # "admin"
                     THEN [NoRequest EXCEPT !.at = "403"]
                     ELSE [request[r] EXCEPT !.at = "admitted"])
    /\ RequestFrame

\* The UPDATE of a profile: RETURNING gives no row of an account that is gone.
Updated(u) == account[u] # "deleted"

\* The handler, get_me or update_me, which read the account again: one that was
\* let in and has been suspended since is served, and a deleted one is not found.
Handle(r) ==
    /\ request[r].at = "admitted"
    /\ SetRequest(r, [NoRequest EXCEPT !.at = IF Updated(request[r].token.of)
                                              THEN "200" ELSE "404"])
    /\ RequestFrame

Answered(r) ==
    /\ request[r].at \in {"200", "401", "403", "404"}
    /\ SetRequest(r, NoRequest)
    /\ RequestFrame

AccessNext ==
    \/ \E u \in Holders : Issue(u) \/ EndSessions(u)
    \/ \E u \in Holders, a \in {"admin", "user", "disabled", "deleted"} : AccountTurns(u, a)
    \/ \E r \in Visits :
          \/ \E t \in issued, admin \in BOOLEAN : BeginRequest(r, t, admin)
          \/ WithoutBearer(r) \/ Decode(r) \/ CheckAccount(r) \/ Handle(r) \/ Answered(r)
    \/ TickOn

AccessSpec == AccessInit /\ [][AccessNext]_accessVars

-----------------------------------------------------------------------------
(* Properties. *)

\* A suspended or deleted account is let in nowhere from the moment of the
\* change, and a demoted one to no admin route: who is let in was entitled at
\* some moment of the request.  Sessions that end take longer: a token of theirs
\* is good for less than the life of a token after the end.
AccessEnds ==
    \A r \in Visits :
        LET q == request[r] IN
        q.at = "admitted" =>
            /\ ~q.late
            /\ q.admin => ~q.lateAdmin
            /\ q.token.born <= endedAt[q.token.of]
                 => q.decoded < endedAt[q.token.of] + AccessLife

=============================================================================
