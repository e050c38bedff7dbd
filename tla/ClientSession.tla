----------------------------- MODULE ClientSession -----------------------------
(***************************************************************************)
(* The session of the phone app: client/src/services/api.ts and session.ts *)
(* with the hooks that use them.  Four asynchronous functions share the    *)
(* access token and the refresh token: the restore of a cold start, the    *)
(* single-flight refresh after a 401, login and logout.  Each is a task    *)
(* with one action between two awaits.  The server is what SessionContract *)
(* promises: a refresh token is exchanged once.                            *)
(***************************************************************************)
EXTENDS Naturals, Sequences

CONSTANTS
    Users, Tokens,
    NoUser, NoToken,
    MaxKills,       \* times the app is killed and started again
    MaxFailures     \* requests that fail for a reason of their own

ASSUME ConstantsAssumption ==
    /\ NoUser \notin Users /\ NoToken \notin Tokens
    /\ MaxKills \in Nat /\ MaxFailures \in Nat

VARIABLES
    owner,          \* of the refresh tokens the server has given out
    alive,          \* the tokens the server would exchange
    access,         \* whose access token is in memory
    fresh,          \* it has not expired
    mem,            \* memoryToken
    disk,           \* the token in SecureStore
    queue,          \* what SecureStore has not done yet, in order
    profile,        \* state.user: who the app shows as signed in
    saved,          \* the profile in AsyncStorage
    socket,         \* the realtime connection is wanted
    asking,         \* an API call is under way that the server will refuse
    task,
    kills, failures,
    lost            \* history: tokens given up, whose successor went missing,
                    \* or read from SecureStore too late

server == <<owner, alive>>
memory == <<access, fresh, mem>>
storage == <<disk, queue, saved>>
screen == <<profile, socket>>
bounds == <<kills, failures, lost>>
vars == <<server, memory, storage, screen, asking, task, bounds>>

Tasks == {"restore", "refresh", "login", "logout"}
Pcs == {"load", "reading", "asked", "ok", "refused", "failed", "saving", "saved",
        "clearing", "cleared"}
\* tok is the token presented, got the one received, user who logs in.
Task == [pc: Pcs, tok: Tokens \cup {NoToken}, got: Tokens \cup {NoToken},
         user: Users \cup {NoUser}]
Idle == [pc |-> "idle"]
\* A read, or the write of a token (NoToken: its deletion).
Access == [op: {"read", "write"}, task: Tasks, tok: Tokens \cup {NoToken}]
Read(p) == [op |-> "read", task |-> p, tok |-> NoToken]
Write(p, t) == [op |-> "write", task |-> p, tok |-> t]

-----------------------------------------------------------------------------
(* Control inside a task *)

Live(p) == task[p].pc # "idle"
At(p, pc) == task[p].pc = pc
Goto(p, pc) == task' = [task EXCEPT ![p].pc = pc]
End(p) == task' = [task EXCEPT ![p] = Idle]
Begun(pc, u) == [pc |-> pc, tok |-> NoToken, got |-> NoToken, user |-> u]
Start(p, pc, u) == ~Live(p) /\ task' = [task EXCEPT ![p] = Begun(pc, u)]

\* The effect of useRealtime, which runs when the user changes or a session
\* event is emitted.
WantsSocket(u, a) == u # NoUser /\ a # NoUser
Show(u) ==
    /\ profile' = u
    /\ socket' = IF u # profile THEN WantsSocket(u, access) ELSE socket

-----------------------------------------------------------------------------
(* Starting a task *)

\* The app is signed in, and its call carries no token or an expired one.
SendCall ==
    /\ profile # NoUser /\ ~asking
    /\ access = NoUser \/ ~fresh
    /\ asking' = TRUE
    /\ UNCHANGED <<server, memory, storage, screen, task, bounds>>

\* apiFetch: a 401 starts refreshAccessToken or waits for the one in flight.
Denied ==
    /\ asking /\ asking' = FALSE
    /\ IF Live("refresh") THEN UNCHANGED task
       ELSE Start("refresh", "load", NoUser)
    /\ UNCHANGED <<server, memory, storage, screen, bounds>>

Login == \E u \in Users :
    /\ profile = NoUser
    /\ Start("login", "asked", u)
    /\ UNCHANGED <<server, memory, storage, screen, asking, bounds>>

Logout ==
    /\ profile # NoUser
    /\ Start("logout", "load", NoUser)
    /\ UNCHANGED <<server, memory, storage, screen, asking, bounds>>

\* clearSession: memory at once, SecureStore when its turn comes.
ClearKeepsMemory(p) ==
    /\ access' = NoUser /\ fresh' = FALSE /\ UNCHANGED mem
    /\ queue' = Append(queue, Write(p, NoToken))
    /\ Goto(p, "clearing")
Clear(p) ==
    /\ access' = NoUser /\ fresh' = FALSE /\ mem' = NoToken
    /\ queue' = Append(queue, Write(p, NoToken))
    /\ Goto(p, "clearing")

\* loadRefreshToken: the token in memory, or else the one SecureStore has.
Present(p, t) == task' = [task EXCEPT ![p].pc = "asked", ![p].tok = t]
Load(p) ==
    /\ At(p, "load")
    /\ IF mem # NoToken
       THEN Present(p, mem) /\ UNCHANGED queue
       ELSE Goto(p, "reading") /\ queue' = Append(queue, Read(p))
    /\ UNCHANGED <<server, memory, disk, saved, screen, asking, bounds>>

\* SecureStore answers a read, and memoryToken becomes the answer whatever it
\* has become meanwhile.  Without a token a logout only clears, and the others
\* have nothing to do.
AnswerRead ==
    /\ queue # <<>> /\ Head(queue).op = "read"
    /\ LET p == Head(queue).task
           overtaken == \E i \in 2..Len(queue) : queue[i].op = "write" IN
       IF disk # NoToken
       THEN /\ mem' = disk /\ Present(p, disk)
            /\ lost' = IF overtaken THEN lost \cup {disk} ELSE lost
            /\ queue' = Tail(queue) /\ UNCHANGED <<access, fresh>>
       ELSE IF p = "logout"
       THEN /\ access' = NoUser /\ fresh' = FALSE /\ mem' = NoToken
            /\ queue' = Append(Tail(queue), Write(p, NoToken))
            /\ Goto(p, "clearing") /\ UNCHANGED lost
       ELSE End(p) /\ queue' = Tail(queue) /\ UNCHANGED <<memory, lost>>
    /\ UNCHANGED <<server, disk, saved, screen, asking, kills, failures>>

-----------------------------------------------------------------------------
(* The server *)

\* A new token for u.
Mint(p, u, old) == \E t \in Tokens :
    /\ owner[t] = NoUser
    /\ owner' = [owner EXCEPT ![t] = u]
    /\ alive' = (alive \ old) \cup {t}
    /\ task' = [task EXCEPT ![p].pc = "ok", ![p].got = t]

Serve(p) ==
    /\ At(p, "asked")
    /\ IF p = "login" THEN Mint(p, task[p].user, {}) /\ UNCHANGED lost
       ELSE IF p = "logout"
       THEN /\ alive' = alive \ {task[p].tok}
            /\ lost' = lost \cup {task[p].tok}
            /\ Goto(p, "ok") /\ UNCHANGED owner
       ELSE IF task[p].tok \in alive
       THEN Mint(p, owner[task[p].tok], {task[p].tok}) /\ UNCHANGED lost
       ELSE Goto(p, "refused") /\ UNCHANGED <<server, lost>>
    /\ UNCHANGED <<memory, storage, screen, asking, kills, failures>>

\* The request or its answer is lost; or the answer is an error that says
\* nothing of the token (429, 5xx).
Fail(p) ==
    /\ failures < MaxFailures /\ failures' = failures + 1
    /\ \/ At(p, "asked") /\ (Goto(p, "failed") \/ Goto(p, "refused")) /\ UNCHANGED lost
       \/ /\ At(p, "ok") /\ Goto(p, "failed")
          /\ lost' = lost \cup ({task[p].tok} \ {NoToken})
    /\ UNCHANGED <<server, memory, storage, screen, asking, kills>>

\* Suspension, a password reset or a logout elsewhere.
RevokedElsewhere(u) ==
    /\ failures < MaxFailures /\ failures' = failures + 1
    /\ LET T == {t \in alive : owner[t] = u} IN
       alive' = alive \ T /\ lost' = lost \cup T
    /\ UNCHANGED <<owner, memory, storage, screen, asking, task, kills>>

Expire ==
    /\ fresh /\ fresh' = FALSE
    /\ UNCHANGED <<server, access, mem, storage, screen, asking, task, bounds>>

-----------------------------------------------------------------------------
(* What the tasks do with the answer *)

ReceiveOkUnsaved(p) ==
    /\ At(p, "ok") /\ p # "logout"
    /\ access' = owner[task[p].got] /\ fresh' = TRUE /\ UNCHANGED mem
    /\ queue' = Append(queue, Write(p, task[p].got))
    /\ Goto(p, "saving")
    /\ UNCHANGED <<server, disk, saved, screen, asking, bounds>>

\* setAccessToken and saveRefreshToken.
ReceiveOk(p) ==
    /\ At(p, "ok") /\ p # "logout"
    /\ access' = owner[task[p].got] /\ fresh' = TRUE /\ mem' = task[p].got
    /\ queue' = Append(queue, Write(p, task[p].got))
    /\ Goto(p, "saving")
    /\ UNCHANGED <<server, disk, saved, screen, asking, bounds>>

\* Any answer but a 2xx makes a restore and a refresh clear the session; a
\* logout clears it whatever the answer.
ReceiveRefused(p) ==
    /\ p # "login"
    /\ At(p, "refused") \/ (p = "logout" /\ (At(p, "ok") \/ At(p, "failed")))
    /\ Clear(p)
    /\ UNCHANGED <<server, disk, saved, screen, asking, bounds>>

GiveUp(p) ==
    /\ (At(p, "failed") /\ p # "logout") \/ (At(p, "refused") /\ p = "login")
    /\ End(p)
    /\ UNCHANGED <<server, memory, storage, screen, asking, bounds>>

\* SecureStore does the next write and the task that asked for it goes on.
Flush ==
    /\ queue # <<>> /\ Head(queue).op = "write"
    /\ LET w == Head(queue) IN
       /\ disk' = w.tok /\ queue' = Tail(queue)
       /\ Goto(w.task, IF At(w.task, "saving") THEN "saved" ELSE "cleared")
    /\ UNCHANGED <<server, memory, saved, screen, asking, bounds>>

\* A refresh emits "restored"; login shows the user; a restore asks for
\* /users/me first, which may fail.
Saved(p) ==
    /\ At(p, "saved") /\ End(p)
    /\ \/ /\ p = "refresh" /\ socket' = WantsSocket(profile, access)
          /\ UNCHANGED profile
       \/ p = "login" /\ Show(task[p].user)
       \/ p = "restore" /\ Show(owner[task[p].got])
       \/ p = "restore" /\ UNCHANGED screen
    /\ UNCHANGED <<server, memory, storage, asking, bounds>>

\* "lost", or the logout action: the store forgets the user.
Cleared(p) ==
    /\ At(p, "cleared") /\ End(p)
    /\ profile' = NoUser /\ socket' = FALSE
    /\ UNCHANGED <<server, memory, storage, asking, bounds>>

\* A reconnect with an expired access token is refused for good.
SocketRefused ==
    /\ socket /\ ~fresh /\ socket' = FALSE
    /\ UNCHANGED <<server, memory, storage, profile, asking, task, bounds>>

-----------------------------------------------------------------------------
(* The app process *)

\* AppStore writes the state it shows.
Persist ==
    /\ saved # profile /\ saved' = profile
    /\ UNCHANGED <<server, memory, disk, queue, screen, asking, task, bounds>>

ColdStart(u) == [p \in Tasks |->
    IF p = "restore" /\ u # NoUser THEN Begun("load", NoUser) ELSE Idle]

\* Memory and what SecureStore has not done are gone.  The app shows the saved profile,
\* and _layout.tsx has useGuardiansSync call the API without a token while
\* useSessionRestore restores the session.
Kill ==
    /\ kills < MaxKills /\ kills' = kills + 1
    /\ access' = NoUser /\ fresh' = FALSE /\ mem' = NoToken
    /\ queue' = <<>> /\ asking' = (saved # NoUser)
    /\ profile' = saved /\ socket' = FALSE
    /\ task' = ColdStart(saved)
    /\ lost' = lost \cup ({task[p].tok : p \in {q \in Tasks : At(q, "ok") \/ At(q, "saving")}}
                          \ {NoToken})
    /\ UNCHANGED <<server, disk, saved, failures>>

\* A start of the app that was left signed out, or signed in with its token.
Init ==
    /\ \E u \in Users \cup {NoUser} : \E t \in Tokens \cup {NoToken} :
         /\ u = NoUser <=> t = NoToken
         /\ owner = [x \in Tokens |-> IF x = t THEN u ELSE NoUser]
         /\ alive = {t} \ {NoToken}
         /\ disk = t /\ saved = u /\ profile = u /\ asking = (u # NoUser)
         /\ task = ColdStart(u)
    /\ access = NoUser /\ fresh = FALSE /\ mem = NoToken /\ queue = <<>>
    /\ socket = FALSE
    /\ kills = 0 /\ failures = 0 /\ lost = {}

Step(p) ==
    \/ Load(p) \/ Serve(p) \/ Fail(p) \/ ReceiveOk(p) \/ ReceiveRefused(p)
    \/ GiveUp(p) \/ Saved(p) \/ Cleared(p)

Next ==
    \/ SendCall \/ Denied \/ Login \/ Logout
    \/ \E p \in Tasks : Step(p)
    \/ \E u \in Users : RevokedElsewhere(u)
    \/ Expire \/ AnswerRead \/ Flush \/ SocketRefused \/ Persist \/ Kill

Spec == Init /\ [][Next]_vars

-----------------------------------------------------------------------------
(* Properties *)

\* A token the app holds is dead only when its successor is on the way to it,
\* when it was given up, when the answer with its successor went missing, or
\* when a slow read of SecureStore put it back: no other overlap of restore,
\* refresh, login and logout makes the app keep a token in place of the newer
\* one it received.
OnTheWay(t) == \E p \in Tasks : (At(p, "ok") \/ At(p, "saving")) /\ task[p].tok = t
Explained(t) == t = NoToken \/ t \in alive \cup lost \/ OnTheWay(t)
DeadTokensExplained ==
    Explained(mem) /\ Explained(disk)

\* "The server rejected the refresh token - the session is gone for good"
\* (api.ts:119): a session that is cleared on an answer has no token alive.
ClearsOnAnswer(p) == p # "logout" /\ At(p, "refused") /\ At(p, "clearing")'
RejectedStep == \A p \in Tasks : ClearsOnAnswer(p) =>
    \A t \in alive : owner[t] # owner[task[p].tok]
RejectedMeansGone == [][RejectedStep]_vars

\* With nothing in flight, an app that shows nobody as signed in holds no token,
\* and the server would accept none.
Quiet == ~asking /\ \A p \in Tasks : ~Live(p)
SignedOutIsClean == Quiet /\ profile = NoUser =>
    mem = NoToken /\ disk = NoToken /\ access = NoUser /\ alive = {}
=============================================================================
