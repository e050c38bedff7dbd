----------------------------- MODULE AuthSessions -----------------------------
(***************************************************************************)
(* Accounts and refresh tokens: server/app/auth/service.py over the table  *)
(* refresh_tokens, and the admin operations that end sessions.  Every SQL  *)
(* statement commits on its own; between two of them the event loop may    *)
(* run another handler, so a request is a process with one action per      *)
(* await.  Access tokens are stateless: they count here only as what lets  *)
(* a user call logout-all.                                                 *)
(*                                                                         *)
(* The audit row an admin operation writes last changes none of this state *)
(* and has no action here.                                                 *)
(***************************************************************************)
EXTENDS Naturals, FiniteSets

CONSTANTS
    Users,          \* accounts
    Tokens,         \* refresh tokens (jti values), each minted once
    Requests,       \* request slots: how many handlers may overlap
    NoToken,        \* the parent of a token minted by a login
    MaxPassword,    \* passwords of an account, numbered in the order of resets
    MaxCrashes      \* server restarts in a behaviour

ASSUME ConstantsAssumption ==
    /\ NoToken \notin Tokens
    /\ MaxPassword \in Nat
    /\ MaxCrashes \in Nat

VARIABLES
    account,        \* the users table
    tok,            \* the refresh_tokens table, and where each token came from
    req,            \* the handlers in flight
    crashes,        \* restarts so far
    dead            \* history: sessions that a revocation found alive

tables == <<account, tok>>
vars == <<tables, req, crashes, dead>>

Account == [exists: BOOLEAN, disabled: BOOLEAN, pwd: Nat]

\* status and owner are columns (a cascaded delete makes the row "gone");
\* root is the token of the login the session began with, parent the token it
\* was exchanged for, pwd the password that login gave.
Token == [status: {"live", "revoked", "gone"}, expired: BOOLEAN,
          owner: Users, root: Tokens, parent: Tokens \cup {NoToken}, pwd: Nat]
Unminted == [status |-> "none"]

Pcs == {"insert", "rotate", "write", "revokeAll", "delete"}
Ops == {"login", "refresh", "logoutAll", "disable", "enable", "forceLogout",
        "reset", "delete"}
AdminOps == {"disable", "enable", "forceLogout", "reset", "delete"}
\* user is the account the handler works for or on, tok the token presented.
Call == [pc: Pcs, op: Ops, user: Users, tok: Tokens \cup {NoToken}, pwd: Nat]
Idle == [pc |-> "idle"]

-----------------------------------------------------------------------------
(* Control inside a handler and the statements on refresh_tokens *)

Live(r) == req[r].pc # "idle"
At(r, pc) == req[r].pc = pc
Goto(r, pc) == req' = [req EXCEPT ![r].pc = pc]
Answer(r) == req' = [req EXCEPT ![r] = Idle]
Start(r, pc, op, u, t, p) ==
    /\ ~Live(r)
    /\ req' = [req EXCEPT ![r] =
                 [pc |-> pc, op |-> op, user |-> u, tok |-> t, pwd |-> p]]

Minted(t) == tok[t].status # "none"
Usable(t) == tok[t].status = "live"
UsableOf(u) == {t \in Tokens : Usable(t) /\ tok[t].owner = u}

\* UPDATE ... SET revoked_at = now() WHERE <one of T> AND revoked_at IS NULL.
Revoke(T) ==
    /\ tok' = [t \in Tokens |-> IF t \in T /\ Usable(t)
                                THEN [tok[t] EXCEPT !.status = "revoked"]
                                ELSE tok[t]]
    /\ dead' = dead \cup {tok[t].root : t \in {x \in T : Usable(x)}}

-----------------------------------------------------------------------------
(* AuthService.login *)

\* The password is verified against the row the first await returned.
Login(r) == \E u \in Users :
    /\ account[u].exists /\ ~account[u].disabled
    /\ Start(r, "insert", "login", u, NoToken, account[u].pwd)
    /\ UNCHANGED <<tables, crashes, dead>>

-----------------------------------------------------------------------------
(* AuthService.refresh *)

\* Any token ever minted may be presented, and by several requests at once: a
\* client that lost the answer retries with the token it still has.  It must
\* decode (not expired) and its row must exist and not be revoked.
RefreshRead(r) == \E t \in Tokens :
    /\ Usable(t) /\ ~tok[t].expired
    /\ Start(r, "rotate", "refresh", tok[t].owner, t, tok[t].pwd)
    /\ UNCHANGED <<tables, crashes, dead>>

\* revoke_by_jti_hash says whether this request is the one that revoked it.
RotateUnchecked(r) ==
    /\ At(r, "rotate")
    /\ tok' = [tok EXCEPT ![req[r].tok].status = "revoked"]
    /\ Goto(r, "insert")
    /\ UNCHANGED <<account, crashes, dead>>

Rotate(r) ==
    /\ At(r, "rotate") /\ Usable(req[r].tok)
    /\ tok' = [tok EXCEPT ![req[r].tok].status = "revoked"]
    /\ Goto(r, "insert")
    /\ UNCHANGED <<account, crashes, dead>>

RotateLost(r) ==
    /\ At(r, "rotate") /\ ~Usable(req[r].tok)
    /\ Answer(r)
    /\ UNCHANGED <<tables, crashes, dead>>

\* _issue_pair: the row of a new jti, the last await of login and refresh.
NewToken(r, t) ==
    [status |-> "live", expired |-> FALSE, owner |-> req[r].user,
     root |-> IF req[r].tok = NoToken THEN t ELSE tok[req[r].tok].root,
     parent |-> req[r].tok, pwd |-> req[r].pwd]

InsertUnowned(r) ==
    /\ At(r, "insert")
    /\ \E t \in Tokens :
        /\ ~Minted(t)
        /\ tok' = [tok EXCEPT ![t] = NewToken(r, t)]
    /\ Answer(r)
    /\ UNCHANGED <<account, crashes, dead>>

Insert(r) ==
    /\ At(r, "insert") /\ account[req[r].user].exists
    /\ \E t \in Tokens :
        /\ ~Minted(t)
        /\ tok' = [tok EXCEPT ![t] = NewToken(r, t)]
    /\ Answer(r)
    /\ UNCHANGED <<account, crashes, dead>>

\* The foreign key user_id fails: the answer is an error.
InsertFails(r) ==
    /\ At(r, "insert") /\ ~account[req[r].user].exists
    /\ Answer(r)
    /\ UNCHANGED <<tables, crashes, dead>>

-----------------------------------------------------------------------------
(* AuthService.logout and logout_all *)

\* One statement on the token presented, which must decode; its outcome is
\* not looked at.
Logout == \E t \in Tokens :
    /\ Minted(t) /\ ~tok[t].expired
    /\ Revoke({t})
    /\ UNCHANGED <<account, req, crashes>>

\* get_current_user: whoever was once issued a pair may hold an access token;
\* the account is read afresh and refused when disabled or gone.
LogoutAll(r) == \E u \in Users :
    /\ \E t \in Tokens : Minted(t) /\ tok[t].owner = u
    /\ account[u].exists /\ ~account[u].disabled
    /\ Start(r, "revokeAll", "logoutAll", u, NoToken, 0)
    /\ UNCHANGED <<tables, crashes, dead>>

-----------------------------------------------------------------------------
(* AdminService: set_disabled, force_logout, reset_password, delete_user *)

\* The statement that follows the existence check of each operation.
FirstStatement(op) ==
    IF op \in {"disable", "enable", "reset"} THEN "write" ELSE "revokeAll"

\* get_by_id found the target, who is not the admin.
AdminStart(r) == \E u \in Users, op \in AdminOps :
    /\ account[u].exists
    /\ op = "reset" => account[u].pwd < MaxPassword
    /\ Start(r, FirstStatement(op), op, u, NoToken, 0)
    /\ UNCHANGED <<tables, crashes, dead>>

\* set_disabled answers 404 when the row has gone; reset_password does not
\* look at the result of its UPDATE.
NeverRevokes(r) == Answer(r)
AfterWrite(r) ==
    IF req[r].op \in {"disable", "reset"}
    THEN Goto(r, "revokeAll") ELSE Answer(r)

Written(r) ==
    LET a == account[req[r].user]
    IN CASE req[r].op = "disable" -> [a EXCEPT !.disabled = TRUE]
         [] req[r].op = "enable"  -> [a EXCEPT !.disabled = FALSE]
         [] OTHER                 -> [a EXCEPT !.pwd = @ + 1]

Write(r) ==
    /\ At(r, "write") /\ account[req[r].user].exists
    /\ account' = [account EXCEPT ![req[r].user] = Written(r)]
    /\ AfterWrite(r)
    /\ UNCHANGED <<tok, crashes, dead>>

WriteMisses(r) ==
    /\ At(r, "write") /\ ~account[req[r].user].exists
    /\ IF req[r].op = "reset" THEN Goto(r, "revokeAll") ELSE Answer(r)
    /\ UNCHANGED <<tables, crashes, dead>>

\* revoke_all_for_user.
RevokeAll(r) ==
    /\ At(r, "revokeAll")
    /\ Revoke(UsableOf(req[r].user))
    /\ IF req[r].op = "delete" THEN Goto(r, "delete") ELSE Answer(r)
    /\ UNCHANGED <<account, crashes>>

\* DELETE FROM users, which cascades to the tokens; a second delete finds
\* nothing.
Delete(r) ==
    /\ At(r, "delete")
    /\ account' = [account EXCEPT ![req[r].user].exists = FALSE]
    /\ tok' = [t \in Tokens |-> IF Minted(t) /\ tok[t].owner = req[r].user
                                THEN [tok[t] EXCEPT !.status = "gone"]
                                ELSE tok[t]]
    /\ Answer(r)
    /\ UNCHANGED <<crashes, dead>>

-----------------------------------------------------------------------------
(* The environment *)

\* expires_at passes: only a token that could still be used is of interest.
Expire == \E t \in Tokens :
    /\ Usable(t) /\ ~tok[t].expired
    /\ tok' = [tok EXCEPT ![t].expired = TRUE]
    /\ UNCHANGED <<account, req, crashes, dead>>

\* A restart: statements are durable, handlers are not.
Crash ==
    /\ crashes < MaxCrashes
    /\ crashes' = crashes + 1
    /\ req' = [r \in Requests |-> Idle]
    /\ UNCHANGED <<tables, dead>>

-----------------------------------------------------------------------------

Init ==
    /\ account = [u \in Users |-> [exists |-> TRUE, disabled |-> FALSE, pwd |-> 1]]
    /\ tok = [t \in Tokens |-> Unminted]
    /\ req = [r \in Requests |-> Idle]
    /\ crashes = 0
    /\ dead = {}

Handler(r) ==
    \/ Login(r) \/ RefreshRead(r) \/ Rotate(r) \/ RotateLost(r)
    \/ Insert(r) \/ InsertFails(r)
    \/ LogoutAll(r) \/ AdminStart(r) \/ Write(r) \/ WriteMisses(r)
    \/ RevokeAll(r) \/ Delete(r)

Next == (\E r \in Requests : Handler(r)) \/ Logout \/ Expire \/ Crash

Spec == Init /\ [][Next]_vars

-----------------------------------------------------------------------------
(* Properties *)

\* The tables and the handlers keep their shape.
TypeOK ==
    /\ account \in [Users -> Account]
    /\ tok \in [Tokens -> Token \cup {Unminted}]
    /\ req \in [Requests -> Call \cup {Idle}]
    /\ crashes \in Nat
    /\ dead \subseteq Tokens

\* Rotation is single-use: whatever requests overlap, restart or retry, a
\* refresh token is exchanged for at most one other.
SingleUse == \A s, t \in Tokens :
    Minted(s) /\ Minted(t) /\ s # t /\ tok[s].parent = tok[t].parent
        => tok[s].parent = NoToken

\* A handler that has consumed a token and not yet stored its successor.
Carries(r, s) ==
    At(r, "insert") /\ req[r].tok # NoToken /\ tok[req[r].tok].root = s

\* A session lives in one place: one usable token, or one rotation under way.
OneHolder == \A s \in Tokens :
    /\ \A t1, t2 \in Tokens :
        Usable(t1) /\ Usable(t2) /\ tok[t1].root = s /\ tok[t2].root = s => t1 = t2
    /\ \A r1, r2 \in Requests : Carries(r1, s) /\ Carries(r2, s) => r1 = r2
    /\ \A t \in Tokens, r \in Requests :
        ~(Usable(t) /\ tok[t].root = s /\ Carries(r, s))

\* A session that a logout or a revocation found alive never yields a usable
\* token again, even to a refresh that had read the token before.
DeadStayDead ==
    /\ \A t \in Tokens : Usable(t) => tok[t].root \notin dead
    /\ \A r \in Requests, s \in dead : ~Carries(r, s)

\* A usable token belongs to an account that exists: what a login or a refresh
\* stores while the account is being deleted does not outlive it.
NoOrphans == \A t \in Tokens : Usable(t) => account[tok[t].owner].exists

\* With nothing in flight, a suspended account has no usable refresh token.
Quiet == \A r \in Requests : ~Live(r)
SuspendedHasNoSession == Quiet =>
    \A t \in Tokens : Usable(t) => ~account[tok[t].owner].disabled

\* With nothing in flight, no session opened with an earlier password is left.
ResetEndsSessions == Quiet =>
    \A t \in Tokens : Usable(t) => tok[t].pwd = account[tok[t].owner].pwd

\* The tables implement the contract: a session is open while a usable token
\* or a rotation under way carries it.
Open(s) ==
    \/ \E t \in Tokens : Usable(t) /\ tok[t].root = s
    \/ \E r \in Requests : Carries(r, s)
Began(s) == Minted(s) /\ tok[s].root = s
Phase(s) == IF ~Began(s) THEN "unused" ELSE IF Open(s) THEN "open" ELSE "closed"
Current(s) == {t \in Tokens : Usable(t) /\ tok[t].root = s}
SpentTokens == {t \in Tokens : tok[t].status \in {"revoked", "gone"}}
Contract == INSTANCE SessionContract WITH
    phase <- [s \in Tokens |-> Phase(s)],
    current <- [s \in Tokens |-> Current(s)],
    spent <- SpentTokens
KeepsContract == Contract!Spec
=============================================================================
