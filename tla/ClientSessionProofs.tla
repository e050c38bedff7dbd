-------------------------- MODULE ClientSessionProofs --------------------------
(***************************************************************************)
(* Proofs about ClientSession and MCClientSession, for any users, tokens   *)
(* and bounds.                                                             *)
(***************************************************************************)
EXTENDS MCClientSession, TLAPS

\* The shape of the state, for any users, tokens and bounds.
ClientTypeOK ==
    /\ owner \in [Tokens -> Users \cup {NoUser}] /\ alive \in SUBSET Tokens
    /\ access \in Users \cup {NoUser} /\ fresh \in BOOLEAN
    /\ mem \in Tokens \cup {NoToken} /\ disk \in Tokens \cup {NoToken}
    /\ queue \in Seq(Access)
    /\ profile \in Users \cup {NoUser} /\ saved \in Users \cup {NoUser}
    /\ socket \in BOOLEAN /\ asking \in BOOLEAN
    /\ task \in [Tasks -> Task \cup {Idle}]
    /\ kills \in Nat /\ failures \in Nat /\ lost \in SUBSET Tokens

\* What a task carries at each await.
Carries(p) ==
    /\ At(p, "asked") /\ p # "login" => task[p].tok # NoToken
    /\ (At(p, "ok") /\ p # "logout") \/ At(p, "saving") \/ At(p, "saved") =>
           p # "logout" /\ task[p].got # NoToken
    /\ At(p, "ok") /\ p = "logout" => task[p].tok \in lost
    /\ Live(p) /\ p = "login" => task[p].user # NoUser

\* Every token in sight was given out by the server.
Owned(t) == t = NoToken \/ owner[t] # NoUser
AllOwned ==
    /\ Owned(mem) /\ Owned(disk) /\ \A t \in alive : Owned(t)
    /\ \A p \in Tasks : Live(p) => Owned(task[p].tok) /\ Owned(task[p].got)
    /\ \A i \in 1..Len(queue) : Owned(queue[i].tok)

\* SecureStore owes each task that waits for it one operation, and owes
\* nothing to any other.
Owed(e) ==
    \/ e.op = "read" /\ At(e.task, "reading") /\ e.tok = NoToken
    \/ e.op = "write" /\ At(e.task, "saving") /\ e.tok = task[e.task].got
    \/ e.op = "write" /\ At(e.task, "clearing") /\ e.tok = NoToken
QueueIsOwed ==
    /\ \A i \in 1..Len(queue) : Owed(queue[i])
    /\ \A i, j \in 1..Len(queue) : queue[i].task = queue[j].task => i = j
    /\ \A p \in Tasks : At(p, "saving") => \E i \in 1..Len(queue) : queue[i].task = p

\* A token that is still in an answer is known to nobody, so it is good.
Unseen(p) ==
    At(p, "ok") /\ p # "logout" =>
        /\ task[p].got \in alive \cup lost
        /\ task[p].got # mem /\ task[p].got # disk
        /\ \A i \in 1..Len(queue) : queue[i].tok # task[p].got
        /\ \A q \in Tasks : Live(q) =>
               task[q].tok # task[p].got /\ (q # p => task[q].got # task[p].got)

\* A token whose successor is on its way to SecureStore is in memory only after
\* a slow read, and is not written behind its successor.
Replaced(p) ==
    At(p, "saving") /\ task[p].tok # NoToken =>
        /\ task[p].got # task[p].tok
        /\ mem = task[p].tok => task[p].tok \in lost
        /\ \A i, j \in 1..Len(queue) :
               queue[i].task = p /\ i < j => queue[j].tok # task[p].tok

AllExplained ==
    /\ DeadTokensExplained
    /\ \A i \in 1..Len(queue) : Explained(queue[i].tok)

CInv ==
    /\ ClientTypeOK /\ AllOwned /\ QueueIsOwed /\ AllExplained
    /\ \A p \in Tasks : Carries(p) /\ Unseen(p) /\ Replaced(p)


-----------------------------------------------------------------------------
(* Sequences and tasks *)

LEMMA QueueEnds == ASSUME NEW s \in Seq(Access), s # <<>>
    PROVE /\ Tail(s) \in Seq(Access) /\ Head(s) = s[1] /\ Head(s) \in Access
          /\ Len(s) \in Nat \ {0} /\ Len(Tail(s)) = Len(s) - 1
          /\ \A i \in 1..Len(Tail(s)) : Tail(s)[i] = s[i + 1]
    OBVIOUS

LEMMA QueueGrows == ASSUME NEW s \in Seq(Access), NEW e \in Access
    PROVE /\ Append(s, e) \in Seq(Access) /\ Len(Append(s, e)) = Len(s) + 1
          /\ Len(s) \in Nat /\ Append(s, e)[Len(s) + 1] = e
          /\ \A i \in 1..Len(s) : Append(s, e)[i] = s[i]
    OBVIOUS

LEMMA Entries == ASSUME NEW s \in Seq(Access), NEW i \in 1..Len(s)
    PROVE /\ s[i] \in Access /\ s[i].op \in {"read", "write"}
          /\ s[i].task \in Tasks /\ s[i].tok \in Tokens \cup {NoToken}
<1>1. s[i] \in Access OBVIOUS
<1> QED BY <1>1 DEF Access

LEMMA LiveTask == ASSUME ClientTypeOK, NEW p \in Tasks, Live(p)
    PROVE /\ task[p] \in Task /\ task[p].pc \in Pcs
          /\ task[p].tok \in Tokens \cup {NoToken}
          /\ task[p].got \in Tokens \cup {NoToken}
          /\ task[p].user \in Users \cup {NoUser}
    BY DEF ClientTypeOK, Live, Idle, Task

\* The tasks, when only the control of p moves.
Moves(p, pc) ==
    /\ task' \in [Tasks -> Task \cup {Idle}]
    /\ \A q \in Tasks \ {p} : task'[q] = task[q]
    /\ task'[p].pc = pc /\ task'[p].tok = task[p].tok
    /\ task'[p].got = task[p].got /\ task'[p].user = task[p].user

LEMMA GotoMoves == ASSUME ClientTypeOK, NEW p \in Tasks, Live(p), NEW pc \in Pcs, Goto(p, pc)
    PROVE Moves(p, pc)
    BY LiveTask DEF ClientTypeOK, Goto, Moves, Task

LEMMA EndsIdle == ASSUME ClientTypeOK, NEW p \in Tasks, End(p)
    PROVE /\ task' \in [Tasks -> Task \cup {Idle}]
          /\ \A q \in Tasks \ {p} : task'[q] = task[q]
          /\ task'[p].pc = "idle"
    BY DEF ClientTypeOK, End, Idle

LEMMA StartsTask == ASSUME ClientTypeOK, NEW p \in Tasks, NEW pc \in Pcs,
                           NEW u \in Users \cup {NoUser}, Start(p, pc, u)
    PROVE /\ task' \in [Tasks -> Task \cup {Idle}] /\ ~Live(p)
          /\ \A q \in Tasks \ {p} : task'[q] = task[q]
          /\ task'[p].pc = pc /\ task'[p].tok = NoToken
          /\ task'[p].got = NoToken /\ task'[p].user = u
    BY DEF ClientTypeOK, Start, Begun, Task

LEMMA PresentsToken == ASSUME ClientTypeOK, NEW p \in Tasks, Live(p), NEW t \in Tokens,
                              Present(p, t)
    PROVE /\ task' \in [Tasks -> Task \cup {Idle}]
          /\ \A q \in Tasks \ {p} : task'[q] = task[q]
          /\ task'[p].pc = "asked" /\ task'[p].tok = t
          /\ task'[p].got = task[p].got /\ task'[p].user = task[p].user
    BY LiveTask DEF ClientTypeOK, Present, Task, Pcs

-----------------------------------------------------------------------------
(* The steps that touch neither a token nor SecureStore *)

Waiting == {"reading", "ok", "saving", "clearing"}
\* Only task p moves, and it is not at an await of SecureStore or of an answer.
Calm(p) ==
    /\ UNCHANGED <<owner, alive, mem, disk, queue, lost>>
    /\ task' \in [Tasks -> Task \cup {Idle}]
    /\ \A q \in Tasks \ {p} : task'[q] = task[q]
    /\ task[p].pc \notin Waiting /\ task'[p].pc \notin Waiting
    /\ task'[p].pc # "idle" =>
         /\ task'[p].tok \in {NoToken, mem} \/ (Live(p) /\ task'[p].tok = task[p].tok)
         /\ task'[p].got = NoToken \/ (Live(p) /\ task'[p].got = task[p].got)
    /\ Carries(p)'

SessionCalls ==
    /\ access' \in Users \cup {NoUser} /\ fresh' \in BOOLEAN
    /\ profile' \in Users \cup {NoUser} /\ saved' \in Users \cup {NoUser}
    /\ socket' \in BOOLEAN /\ asking' \in BOOLEAN
    /\ kills' \in Nat /\ failures' \in Nat

LEMMA CalmStep == ASSUME CInv, NEW p \in Tasks, Calm(p), SessionCalls PROVE CInv'
<1>1. ClientTypeOK'
    BY DEF CInv, ClientTypeOK, Calm, SessionCalls
<1>2. AllOwned'
    BY DEF CInv, AllOwned, Owned, Calm, Live
<1>3. QueueIsOwed'
    <2>1. \A i \in 1..Len(queue) : queue[i].task \in Tasks \ {p}
        BY Entries DEF CInv, ClientTypeOK, QueueIsOwed, Owed, Calm, Waiting, At
    <2> QED BY <2>1 DEF CInv, QueueIsOwed, Owed, Calm, Waiting, At
<1>4. AllExplained'
    <2>1. \A t : OnTheWay(t) => OnTheWay(t)'
        BY DEF OnTheWay, Calm, Waiting, At
    <2>2. \A t : Explained(t) => Explained(t)'
        BY <2>1 DEF Explained, Calm
    <2>3. \A t : Explained(t)' <=> (t = NoToken \/ t \in alive' \cup lost' \/ OnTheWay(t)')
        BY DEF Explained
    <2> QED BY <2>2 DEF CInv, AllExplained, DeadTokensExplained, Calm
<1>5. ASSUME NEW q \in Tasks PROVE Carries(q)' /\ Unseen(q)' /\ Replaced(q)'
    <2>1. Carries(q)'
        BY DEF CInv, Carries, Calm, At, Live
    <2>2. Unseen(q)'
        <3>1. At(q, "ok")' => q # p /\ At(q, "ok")
            BY DEF Calm, Waiting, At
        <3>2. CASE At(q, "ok") /\ q # p /\ q # "logout"
            <4>1. Unseen(q) /\ Carries(q) BY DEF CInv
            <4> QED BY <3>2, <4>1 DEF Unseen, Carries, Calm, At, Live
        <3> QED BY <3>1, <3>2 DEF Unseen
    <2>3. Replaced(q)'
        BY DEF CInv, Replaced, Calm, Waiting, At
    <2> QED BY <2>1, <2>2, <2>3
<1> QED BY <1>1, <1>2, <1>3, <1>4, <1>5 DEF CInv

\* No task moves, and neither does a token.
LEMMA StillStep ==
    ASSUME CInv, SessionCalls, UNCHANGED <<owner, alive, mem, disk, queue, lost, task>>
    PROVE CInv'
<1>1. ClientTypeOK'
    BY DEF CInv, ClientTypeOK, SessionCalls
<1>2. AllOwned' /\ QueueIsOwed'
    BY DEF CInv, AllOwned, Owned, QueueIsOwed, Owed, At, Live
<1>3. AllExplained'
    BY DEF CInv, AllExplained, DeadTokensExplained, Explained, OnTheWay, At
<1>4. ASSUME NEW q \in Tasks PROVE Carries(q)' /\ Unseen(q)' /\ Replaced(q)'
    BY DEF CInv, Carries, Unseen, Replaced, At, Live
<1> QED BY <1>1, <1>2, <1>3, <1>4 DEF CInv

LEMMA CallsStay == ASSUME ClientTypeOK, UNCHANGED <<access, fresh, profile, saved, socket, asking, kills, failures>>
    PROVE SessionCalls
    BY DEF ClientTypeOK, SessionCalls

LEMMA QuietSteps ==
    ASSUME CInv, SendCall \/ Expire \/ SocketRefused \/ Persist PROVE CInv'
<1>1. SessionCalls /\ UNCHANGED <<owner, alive, mem, disk, queue, lost, task>>
    BY DEF CInv, ClientTypeOK, SessionCalls, SendCall, Expire, SocketRefused, Persist,
           server, memory, storage, screen, bounds
<1> QED BY <1>1, StillStep

LEMMA StartStep ==
    ASSUME CInv, SessionCalls, UNCHANGED <<owner, alive, mem, disk, queue, lost>>,
           NEW p \in Tasks, NEW pc \in {"load", "asked"}, NEW u \in Users \cup {NoUser},
           p = "login" <=> pc = "asked", p = "login" => u # NoUser, Start(p, pc, u)
    PROVE CInv'
<1>1. Calm(p)
    BY StartsTask DEF CInv, Calm, Waiting, Carries, At, Live, Pcs, Tasks
<1> QED BY <1>1, CalmStep

LEMMA BeginSteps == ASSUME CInv, Denied \/ Login \/ Logout PROVE CInv'
<1>1. CASE Denied
    <2>1. SessionCalls /\ UNCHANGED <<owner, alive, mem, disk, queue, lost>>
        BY <1>1 DEF CInv, ClientTypeOK, SessionCalls, Denied,
                    server, memory, storage, screen, bounds
    <2>2. CASE Live("refresh")
        BY <1>1, <2>1, <2>2, StillStep DEF Denied
    <2>3. CASE ~Live("refresh")
        BY <1>1, <2>1, <2>3, StartStep DEF Denied, Tasks
    <2> QED BY <2>2, <2>3
<1>2. CASE Login
    <2>1. SessionCalls /\ UNCHANGED <<owner, alive, mem, disk, queue, lost>>
        BY <1>2 DEF CInv, ClientTypeOK, SessionCalls, Login,
                    server, memory, storage, screen, bounds
    <2>2. PICK u \in Users : Start("login", "asked", u) BY <1>2 DEF Login
    <2> QED BY <2>1, <2>2, StartStep, ConstantsAssumption DEF Tasks
<1>3. CASE Logout
    <2>1. SessionCalls /\ UNCHANGED <<owner, alive, mem, disk, queue, lost>>
        BY <1>3 DEF CInv, ClientTypeOK, SessionCalls, Logout,
                    server, memory, storage, screen, bounds
    <2>2. Start("logout", "load", NoUser) BY <1>3 DEF Logout
    <2> QED BY <2>1, <2>2, StartStep DEF Tasks
<1> QED BY <1>1, <1>2, <1>3

LEMMA CalmEnd == ASSUME CInv, SessionCalls, UNCHANGED <<owner, alive, mem, disk, queue, lost>>,
                        NEW p \in Tasks, task[p].pc \notin Waiting, End(p)
    PROVE CInv'
<1>1. Calm(p)
    BY EndsIdle DEF CInv, Calm, Waiting, Carries, At, Live
<1> QED BY <1>1, CalmStep

LEMMA CalmMove == ASSUME CInv, SessionCalls, UNCHANGED <<owner, alive, mem, disk, queue, lost>>,
                         NEW p \in Tasks, At(p, "asked"), NEW pc \in {"failed", "refused"},
                         Goto(p, pc)
    PROVE CInv'
<1>1. Live(p) BY DEF At, Live
<1>2. Moves(p, pc) BY <1>1, GotoMoves DEF CInv, Pcs
<1>3. Calm(p)
    BY <1>1, <1>2 DEF CInv, Moves, Calm, Waiting, Carries, At, Live
<1> QED BY <1>3, CalmStep

LEMMA GiveUpStep == ASSUME CInv, NEW p \in Tasks, GiveUp(p) PROVE CInv'
<1>1. SessionCalls /\ UNCHANGED <<owner, alive, mem, disk, queue, lost>>
    BY CallsStay DEF CInv, GiveUp, server, memory, storage, screen, bounds
<1> QED BY <1>1, CalmEnd DEF GiveUp, Waiting, At

LEMMA SavedStep == ASSUME CInv, NEW p \in Tasks, Saved(p) PROVE CInv'
<1>1. Live(p) /\ task[p].pc \notin Waiting /\ End(p)
    BY DEF Saved, At, Live, Waiting
<1>2. task[p].user \in Users \cup {NoUser}
    BY <1>1, LiveTask DEF CInv
<1>3. p # "logout" /\ task[p].got \in Tokens
    BY <1>1, LiveTask DEF CInv, Carries, Saved
<1>4. SessionCalls /\ UNCHANGED <<owner, alive, mem, disk, queue, lost>>
    BY <1>2, <1>3 DEF CInv, ClientTypeOK, SessionCalls, Saved, Show, WantsSocket,
                      server, memory, storage, screen, bounds
<1> QED BY <1>1, <1>4, CalmEnd

LEMMA ClearedStep == ASSUME CInv, NEW p \in Tasks, Cleared(p) PROVE CInv'
<1>1. SessionCalls /\ UNCHANGED <<owner, alive, mem, disk, queue, lost>>
    BY DEF CInv, ClientTypeOK, SessionCalls, Cleared, server, memory, storage, bounds
<1> QED BY <1>1, CalmEnd DEF Cleared, Waiting, At

-----------------------------------------------------------------------------
(* SecureStore *)

Others(p) ==
    /\ task' \in [Tasks -> Task \cup {Idle}]
    /\ \A q \in Tasks \ {p} : task'[q] = task[q]

\* A task that SecureStore owed nothing asks for an operation.
LEMMA OwedNext ==
    ASSUME ClientTypeOK, QueueIsOwed, NEW p \in Tasks, NEW e \in Access, e.task = p,
           task[p].pc \notin {"reading", "saving", "clearing"}, Others(p), Owed(e)',
           queue' = Append(queue, e)
    PROVE QueueIsOwed'
<1>1. queue \in Seq(Access) BY DEF ClientTypeOK
<1>2. \A i \in 1..Len(queue) : queue[i].task \in Tasks \ {p} /\ queue[i] \in Access
    BY <1>1, Entries DEF QueueIsOwed, Owed, At
<1>3. \A i \in 1..Len(queue') :
        \/ i = Len(queue) + 1 /\ queue'[i] = e
        \/ i \in 1..Len(queue) /\ queue'[i] = queue[i]
    BY <1>1, QueueGrows
<1>4. \A i \in 1..Len(queue) : Owed(queue[i])'
    <2>1. ASSUME NEW i \in 1..Len(queue), NEW x \in Access, x = queue[i] PROVE Owed(x)'
        BY <2>1, <1>2 DEF QueueIsOwed, Owed, Others, At
    <2>2. \A i \in 1..Len(queue) : queue'[i] = queue[i] /\ queue[i] \in Access
        BY <1>1, <1>2, QueueGrows
    <2> QED BY <2>1, <2>2 DEF Owed
<1>5. \A i \in 1..Len(queue') : Owed(queue[i])'
    BY <1>3, <1>4 DEF Owed, At
<1>6. \A i, j \in 1..Len(queue') : queue'[i].task = queue'[j].task => i = j
    BY <1>2, <1>3 DEF QueueIsOwed
<1>7. \A q \in Tasks : At(q, "saving")' => \E i \in 1..Len(queue') : queue'[i].task = q
    <2>1. \A i \in 1..Len(queue) : i \in 1..Len(queue') /\ queue'[i] = queue[i]
        BY <1>1, QueueGrows
    <2>2. Len(queue) + 1 \in 1..Len(queue') /\ queue'[Len(queue) + 1] = e
        BY <1>1, QueueGrows
    <2>3. ASSUME NEW q \in Tasks, At(q, "saving")'
          PROVE \E i \in 1..Len(queue') : queue'[i].task = q
        <3>1. CASE q = p BY <3>1, <2>2
        <3>2. CASE q # p
            BY <3>2, <2>3, <2>1 DEF QueueIsOwed, At, Others
        <3> QED BY <3>1, <3>2
    <2> QED BY <2>3
<1> QED BY <1>5, <1>6, <1>7 DEF QueueIsOwed

\* SecureStore has done the first operation it owed.
LEMMA OwedDone ==
    ASSUME ClientTypeOK, QueueIsOwed, queue # <<>>, NEW p \in Tasks, Head(queue).task = p,
           Others(p), task'[p].pc # "saving", queue' = Tail(queue)
    PROVE /\ QueueIsOwed'
          /\ \A i \in 1..Len(queue') : queue'[i].task # p
<1>1. queue \in Seq(Access) BY DEF ClientTypeOK
<1>2. /\ Head(queue) = queue[1] /\ Len(queue) \in Nat \ {0} /\ Len(queue') = Len(queue) - 1
      /\ \A i \in 1..Len(queue') : i + 1 \in 1..Len(queue) /\ queue'[i] = queue[i + 1]
    BY <1>1, QueueEnds
<1>3. \A i \in 1..Len(queue') : queue'[i].task \in Tasks \ {p}
    <2>1. ASSUME NEW i \in 1..Len(queue') PROVE queue'[i].task \in Tasks \ {p}
        <3>1. queue[i + 1].task \in Tasks BY <1>1, <1>2, Entries
        <3>2. queue[i + 1].task # queue[1].task
            BY <1>2 DEF QueueIsOwed
        <3> QED BY <3>1, <3>2, <1>2
    <2> QED BY <2>1
<1>4. \A i \in 1..Len(queue') : Owed(queue[i])'
    <2>1. ASSUME NEW i \in 1..Len(queue'), NEW x, x = queue[i + 1] PROVE Owed(x)'
        BY <2>1, <1>2, <1>3 DEF QueueIsOwed, Owed, Others, At
    <2> QED BY <2>1, <1>2 DEF Owed
<1>5. \A i, j \in 1..Len(queue') : queue'[i].task = queue'[j].task => i = j
    BY <1>2 DEF QueueIsOwed
<1>6. ASSUME NEW q \in Tasks, At(q, "saving")'
      PROVE \E i \in 1..Len(queue') : queue'[i].task = q
    <2>1. q # p /\ At(q, "saving") BY <1>6 DEF At, Others
    <2>2. PICK i \in 1..Len(queue) : queue[i].task = q BY <2>1 DEF QueueIsOwed
    <2>3. i - 1 \in 1..Len(queue') /\ queue'[i - 1] = queue[i]
        BY <2>1, <2>2, <1>2
    <2> QED BY <2>2, <2>3
<1> QED BY <1>3, <1>4, <1>5, <1>6 DEF QueueIsOwed

-----------------------------------------------------------------------------
\* What a step does not forget stays explained.
LEMMA StaysExplained ==
    ASSUME \A t : OnTheWay(t) => OnTheWay(t)' \/ t \in lost' \cup {NoToken},
           alive \cup lost \subseteq alive' \cup lost'
    PROVE \A t : Explained(t) => t = NoToken \/ t \in alive' \cup lost' \/ OnTheWay(t)'
    BY DEF Explained

\* A task asks SecureStore for a read, for the write of the token it received or
\* for a deletion, and memory keeps its token or takes that one.
LEMMA AsksStep ==
    ASSUME CInv, SessionCalls, UNCHANGED <<owner, alive, disk, lost>>,
           NEW p \in Tasks, NEW pc \in {"reading", "saving", "clearing"}, Moves(p, pc),
           NEW e \in Access, e.task = p, Owed(e)', queue' = Append(queue, e),
           mem' \in {mem, e.tok}, pc = "saving" => mem' = e.tok,
           task[p].pc \in {"load", "ok", "refused", "failed"},
           pc = "saving" <=> task[p].pc = "ok" /\ p # "logout"
    PROVE CInv'
<1>1. Live(p) /\ task[p].pc \notin {"reading", "saving", "clearing"} BY DEF Live
<1>2. queue \in Seq(Access) BY DEF CInv, ClientTypeOK
<1>3. queue' \in Seq(Access) /\ Len(queue) \in Nat /\ Len(queue') = Len(queue) + 1
    BY <1>2, QueueGrows
<1>4. ASSUME NEW i \in 1..Len(queue')
      PROVE \/ i = Len(queue) + 1 /\ queue'[i] = e
            \/ i \in 1..Len(queue) /\ queue'[i] = queue[i]
    BY <1>2, <1>3, QueueGrows
<1>5. \A q \in Tasks : Carries(q) /\ Unseen(q) /\ Replaced(q) BY DEF CInv
<1>6. IF pc = "saving" THEN e.tok = task[p].got /\ e.tok # NoToken ELSE e.tok = NoToken
    BY <1>5 DEF Owed, Moves, At, Carries
<1>7. \A q \in Tasks : Live(q) =>
        /\ e.tok # NoToken => task[q].tok # e.tok
        /\ At(q, "ok") /\ q # p /\ q # "logout" => task[q].got # e.tok
    BY <1>1, <1>5, <1>6 DEF Unseen, Carries, At, Live
<1>8. e.tok = NoToken \/ (e.tok \in alive \cup lost /\ Owned(e.tok))
    BY <1>1, <1>5, <1>6 DEF CInv, AllOwned, Unseen, At
<1>9. ClientTypeOK'
    <2>1. e.tok \in Tokens \cup {NoToken} BY DEF Access
    <2> QED BY <1>3, <2>1 DEF CInv, ClientTypeOK, SessionCalls, Moves
<1>10. AllOwned'
    <2>1. \A i \in 1..Len(queue') : Owned(queue[i].tok)'
        BY <1>4, <1>8 DEF CInv, AllOwned, Owned
    <2>2. \A q \in Tasks : (Live(q) => Owned(task[q].tok) /\ Owned(task[q].got))'
        BY <1>1 DEF CInv, AllOwned, Owned, Moves, Live
    <2> QED BY <1>8, <2>1, <2>2 DEF CInv, AllOwned, Owned
<1>11. QueueIsOwed'
    BY <1>1, OwedNext DEF CInv, Others, Moves
<1>12. AllExplained'
    <2>1. \A t : OnTheWay(t) => OnTheWay(t)' \/ t \in lost' \cup {NoToken}
        BY <1>5 DEF OnTheWay, Carries, At, Moves
    <2>2. \A t : Explained(t) => t = NoToken \/ t \in alive' \cup lost' \/ OnTheWay(t)'
        BY <2>1, StaysExplained
    <2> QED BY <2>2, <1>4, <1>8 DEF CInv, AllExplained, DeadTokensExplained, Explained
<1>13. ASSUME NEW q \in Tasks PROVE Carries(q)' /\ Unseen(q)' /\ Replaced(q)'
    <2>1. Carries(q)' BY <1>1, <1>5, <1>6 DEF Carries, Moves, At, Live
    <2>2. Unseen(q)'
        <3>1. CASE At(q, "ok") /\ q # p /\ q # "logout"
            <4>1. Live(q) BY <3>1 DEF At, Live
            <4>2. \A i \in 1..Len(queue') : queue'[i].tok # task[q].got
                BY <3>1, <4>1, <1>4, <1>5, <1>7 DEF Unseen, Carries, At
            <4>3. \A x \in Tasks : (Live(x) => task[x].tok # task[q].got
                                    /\ (x # q => task[x].got # task[q].got))'
                BY <3>1, <1>1, <1>5 DEF Unseen, Moves, At, Live
            <4> QED BY <3>1, <4>1, <4>2, <4>3, <1>5, <1>7 DEF Unseen, Carries, Moves, At
        <3> QED BY <3>1 DEF Unseen, Moves, At
    <2>3. Replaced(q)'
        <3>1. CASE At(q, "saving") /\ q # p /\ task[q].tok # NoToken
            <4>1. Live(q) BY <3>1 DEF At, Live
            <4>2. e.tok # task[q].tok BY <3>1, <4>1, <1>7
            <4>3. ASSUME NEW i \in 1..Len(queue'), NEW j \in 1..Len(queue'),
                         queue'[i].task = q, i < j
                  PROVE queue'[j].tok # task[q].tok
                <5>1. i # Len(queue) + 1 BY <4>3, <1>3
                <5>2. i \in 1..Len(queue) /\ queue'[i] = queue[i] BY <5>1, <1>4
                <5>3. CASE j = Len(queue) + 1 BY <5>3, <4>2, <1>4
                <5>4. CASE j # Len(queue) + 1
                    <6>1. j \in 1..Len(queue) /\ queue'[j] = queue[j] BY <5>4, <1>4
                    <6> QED BY <6>1, <5>2, <4>3, <3>1, <1>5 DEF Replaced
                <5> QED BY <5>3, <5>4
            <4> QED BY <3>1, <4>2, <4>3, <1>5 DEF Replaced, Moves, At
        <3>2. CASE q = p /\ pc = "saving" /\ task[p].tok # NoToken
            <4>1. e.tok = task[p].got /\ mem' = e.tok /\ e.tok # task[p].tok
                BY <3>2, <1>1, <1>6, <1>7
            <4>2. \A i \in 1..Len(queue) : queue[i].task # p
                BY <1>1, <1>2, Entries DEF CInv, QueueIsOwed, Owed, At
            <4>3. ASSUME NEW i \in 1..Len(queue'), NEW j \in 1..Len(queue'),
                         queue'[i].task = p, i < j
                  PROVE FALSE
                BY <4>2, <4>3, <1>3, <1>4
            <4> QED BY <3>2, <4>1, <4>3 DEF Replaced, Moves, At
        <3> QED BY <3>1, <3>2 DEF Replaced, Moves, At
    <2> QED BY <2>1, <2>2, <2>3
<1> QED BY <1>9, <1>10, <1>11, <1>12, <1>13 DEF CInv

LEMMA LoadStep == ASSUME CInv, NEW p \in Tasks, Load(p) PROVE CInv'
<1>0. Live(p) /\ task[p].pc = "load" BY DEF Load, At, Live
<1>1. SessionCalls /\ UNCHANGED <<owner, alive, mem, disk, lost>>
    BY CallsStay DEF CInv, Load, server, memory, screen, bounds
<1>2. CASE mem # NoToken
    <2>1. mem \in Tokens /\ Present(p, mem) /\ UNCHANGED queue
        BY <1>2 DEF CInv, ClientTypeOK, Load
    <2>2. Calm(p)
        BY <1>0, <1>1, <1>2, <2>1, PresentsToken
           DEF CInv, Calm, Waiting, Carries, At, Live
    <2> QED BY <2>2, <1>1, CalmStep
<1>3. CASE mem = NoToken
    <2>1. Goto(p, "reading") /\ queue' = Append(queue, Read(p))
        BY <1>3 DEF Load
    <2>2. Moves(p, "reading") BY <1>0, <2>1, GotoMoves DEF CInv, Pcs
    <2>3. Read(p) \in Access /\ Read(p).task = p /\ Owed(Read(p))'
        BY <2>2 DEF Read, Access, Owed, Moves, At
    <2> QED BY <1>0, <1>1, <2>1, <2>2, <2>3, AsksStep
<1> QED BY <1>2, <1>3

LEMMA AnswerReadStep == ASSUME CInv, AnswerRead PROVE CInv'
<1> DEFINE p == Head(queue).task
           overtaken == \E i \in 2..Len(queue) : queue[i].op = "write"
<1>1. queue \in Seq(Access) /\ queue # <<>> /\ Head(queue).op = "read"
    BY DEF CInv, ClientTypeOK, AnswerRead
<1>2. /\ Head(queue) = queue[1] /\ Head(queue) \in Access /\ Len(queue) \in Nat \ {0}
      /\ Tail(queue) \in Seq(Access) /\ Len(Tail(queue)) = Len(queue) - 1
      /\ \A i \in 1..Len(Tail(queue)) :
            i + 1 \in 1..Len(queue) /\ Tail(queue)[i] = queue[i + 1]
    BY <1>1, QueueEnds
<1>3. 1 \in 1..Len(queue) BY <1>2
<1>4. p \in Tasks /\ task[p].pc = "reading" /\ Live(p)
    <2>1. p \in Tasks BY <1>2 DEF Access
    <2>2. Owed(queue[1]) BY <1>3 DEF CInv, QueueIsOwed
    <2> QED BY <2>1, <2>2, <1>1, <1>2 DEF Owed, At, Live
<1>5. PICK r \in Tasks : r = p BY <1>4
<1>6. ASSUME NEW q \in Tasks, At(q, "saving")
      PROVE q # r /\ \E i \in 2..Len(queue) : queue[i].task = q /\ queue[i].op = "write"
    <2>1. PICK i \in 1..Len(queue) : queue[i].task = q BY <1>6 DEF CInv, QueueIsOwed
    <2>2. queue[i].op = "write" BY <1>6, <2>1 DEF CInv, QueueIsOwed, Owed, At
    <2>3. i # 1 BY <2>2, <1>1, <1>2
    <2>4. q # r BY <1>6, <1>4, <1>5 DEF At
    <2> QED BY <1>2, <2>1, <2>2, <2>3, <2>4
<1>7. \A q \in Tasks : Carries(q) /\ Unseen(q) /\ Replaced(q) BY DEF CInv
<1>8. CASE disk # NoToken
    <2>1. /\ mem' = disk /\ Present(r, disk) /\ disk \in Tokens
          /\ lost' = IF overtaken THEN lost \cup {disk} ELSE lost
          /\ queue' = Tail(queue)
          /\ UNCHANGED <<access, fresh, owner, alive, disk>>
        BY <1>1, <1>8, <1>5 DEF CInv, ClientTypeOK, AnswerRead, server
    <2>2. SessionCalls
        BY <2>1, CallsStay DEF CInv, AnswerRead, screen
    <2>3. /\ Others(r) /\ task'[r].pc = "asked" /\ task'[r].tok = disk
          /\ task'[r].got = task[r].got /\ task'[r].user = task[r].user
        BY <2>1, <1>4, <1>5, PresentsToken DEF CInv, Others
    <2>4. ClientTypeOK'
        BY <1>2, <2>1, <2>2, <2>3 DEF CInv, ClientTypeOK, SessionCalls, Others
    <2>5. AllOwned'
        BY <1>2, <1>4, <1>5, <2>1, <2>3 DEF CInv, AllOwned, Owned, Others, Live
    <2>6. QueueIsOwed'
        BY <1>1, <1>5, <2>1, <2>3, OwedDone DEF CInv
    <2>7. AllExplained'
        <3>1. \A t : OnTheWay(t) => OnTheWay(t)'
            BY <1>4, <1>5, <2>3 DEF OnTheWay, At, Others
        <3>2. \A t : Explained(t) => t = NoToken \/ t \in alive' \cup lost' \/ OnTheWay(t)'
            BY <3>1, <2>1, StaysExplained
        <3> QED BY <3>2, <2>1, <1>2 DEF CInv, AllExplained, DeadTokensExplained, Explained
    <2>8. ASSUME NEW q \in Tasks PROVE Carries(q)' /\ Unseen(q)' /\ Replaced(q)'
        <3>1. Carries(q)'
            BY <1>4, <1>5, <1>7, <1>8, <2>1, <2>3 DEF Carries, Others, At, Live
        <3>2. Unseen(q)'
            <4>1. CASE At(q, "ok") /\ q # r /\ q # "logout"
                BY <4>1, <1>2, <1>4, <1>5, <1>7, <2>1, <2>3
                   DEF Unseen, Carries, Others, At, Live
            <4> QED BY <4>1, <2>3 DEF Unseen, Others, At
        <3>3. Replaced(q)'
            <4>1. CASE At(q, "saving") /\ q # r /\ task[q].tok # NoToken
                <5>1. \A i, j \in 1..Len(queue') :
                        queue'[i].task = q /\ i < j => queue'[j].tok # task[q].tok
                    BY <4>1, <1>2, <1>7, <2>1 DEF Replaced
                <5>2. disk = task[q].tok => task[q].tok \in lost'
                    BY <4>1, <1>6, <2>1
                <5> QED BY <4>1, <5>1, <5>2, <1>7, <2>1, <2>3 DEF Replaced, Others, At
            <4> QED BY <4>1, <1>6, <2>3 DEF Replaced, Others, At
        <3> QED BY <3>1, <3>2, <3>3
    <2> QED BY <2>4, <2>5, <2>6, <2>7, <2>8 DEF CInv
<1>9. CASE disk = NoToken /\ p = "logout"
    <2>1. /\ mem' = NoToken /\ access' = NoUser /\ fresh' = FALSE
          /\ queue' = Append(Tail(queue), Write(r, NoToken))
          /\ Goto(r, "clearing")
          /\ UNCHANGED <<owner, alive, disk, lost>>
        BY <1>1, <1>9, <1>5 DEF AnswerRead, server
    <2>2. SessionCalls
        BY <2>1 DEF CInv, ClientTypeOK, SessionCalls, AnswerRead, screen
    <2>3. Moves(r, "clearing") /\ Others(r)
        BY <2>1, <1>4, <1>5, GotoMoves DEF CInv, Pcs, Others, Moves
    <2>4. /\ Write(r, NoToken) \in Access /\ Write(r, NoToken).op = "write"
          /\ Write(r, NoToken).task = r /\ Write(r, NoToken).tok = NoToken
        BY DEF Write, Access
    <2>51. PICK s \in Seq(Access) : s = Tail(queue) BY <1>2
    <2>52. queue' = Append(s, Write(r, NoToken)) BY <2>51, <2>1
    <2>53. queue' \in Seq(Access) /\ Len(queue') = Len(queue)
        BY <2>51, <2>52, <2>4, <1>2, QueueGrows
    <2>5. ASSUME NEW i \in 1..Len(queue')
          PROVE \/ i = Len(queue) /\ queue'[i] = Write(r, NoToken)
                \/ i # Len(queue) /\ i + 1 \in 1..Len(queue) /\ queue'[i] = queue[i + 1]
        <3>1. Len(s) + 1 = Len(queue) BY <2>51, <1>2
        <3>2. CASE i = Len(queue)
            <4>1. queue'[Len(s) + 1] = Write(r, NoToken) BY <2>52, <2>4, QueueGrows
            <4> QED BY <3>1, <3>2, <4>1
        <3>3. CASE i # Len(queue)
            <4>1. i \in 1..Len(s) BY <3>1, <3>3, <2>53, <1>2
            <4>2. queue'[i] = s[i] BY <4>1, <2>52, <2>4, QueueGrows
            <4>3. s[i] = queue[i + 1] /\ i + 1 \in 1..Len(queue)
                BY <4>1, <2>51, <1>2
            <4> QED BY <3>3, <4>2, <4>3
        <3> QED BY <3>2, <3>3
    <2>6. ClientTypeOK'
        BY <2>1, <2>2, <2>3, <2>53 DEF CInv, ClientTypeOK, SessionCalls, Moves
    <2>7. AllOwned'
        <3>1. \A i \in 1..Len(queue') : Owned(queue[i].tok)'
            BY <2>1, <2>4, <2>5 DEF CInv, AllOwned, Owned
        <3>2. \A q \in Tasks : (Live(q) => Owned(task[q].tok) /\ Owned(task[q].got))'
            BY <1>4, <1>5, <2>1, <2>3 DEF CInv, AllOwned, Owned, Moves, Live
        <3> QED BY <2>1, <3>1, <3>2 DEF CInv, AllOwned, Owned
    <2>8. QueueIsOwed'
        <3>1. \A i \in 2..Len(queue) : queue[i].task \in Tasks \ {r}
            <4>1. ASSUME NEW i \in 2..Len(queue) PROVE queue[i].task \in Tasks \ {r}
                <5>1. i \in 1..Len(queue) BY <1>2
                <5>2. queue[i].task \in Tasks BY <5>1, <1>1, Entries
                <5>3. queue[i].task # queue[1].task
                    BY <5>1, <1>3 DEF CInv, QueueIsOwed
                <5> QED BY <5>2, <5>3, <1>2, <1>5
            <4> QED BY <4>1
        <3>2. ASSUME NEW i \in 1..Len(queue'), NEW e, e = queue'[i] PROVE Owed(e)'
            <4>1. CASE e = Write(r, NoToken)
                BY <4>1, <2>3, <2>4 DEF Owed, Moves, At
            <4>2. CASE i + 1 \in 1..Len(queue) /\ e = queue[i + 1]
                <5>1. Owed(queue[i + 1]) BY <4>2 DEF CInv, QueueIsOwed
                <5>2. queue[i + 1].task \in Tasks \ {r} BY <4>2, <3>1, <1>2
                <5> QED BY <5>1, <5>2, <4>2, <2>3 DEF Owed, Moves, At
            <4> QED BY <4>1, <4>2, <2>5, <3>2
        <3>3. \A i \in 1..Len(queue') : Owed(queue[i])'
            BY <3>2 DEF Owed
        <3>4. \A i, j \in 1..Len(queue') : queue'[i].task = queue'[j].task => i = j
            <4>1. \A i \in 1..Len(queue) : i + 1 \in 1..Len(queue) => i + 1 \in 2..Len(queue)
                BY <1>2
            <4> QED BY <4>1, <3>1, <2>4, <2>5, <2>53, <1>2 DEF CInv, QueueIsOwed
        <3>5. ASSUME NEW q \in Tasks, At(q, "saving")'
              PROVE \E i \in 1..Len(queue') : queue'[i].task = q
            <4>1. q # r /\ At(q, "saving") BY <3>5, <2>3 DEF At, Moves
            <4>2. PICK i \in 2..Len(queue) : queue[i].task = q BY <4>1, <1>6
            <4>3. i - 1 \in 1..Len(queue') /\ i - 1 # Len(queue) /\ (i - 1) + 1 = i
                BY <1>2, <2>53
            <4>4. queue'[i - 1] = queue[i] BY <4>3, <2>5
            <4> QED BY <4>2, <4>3, <4>4
        <3> QED BY <3>3, <3>4, <3>5 DEF QueueIsOwed
    <2>9. AllExplained'
        <3>1. \A t : OnTheWay(t) => OnTheWay(t)'
            BY <1>4, <1>5, <2>3 DEF OnTheWay, At, Moves
        <3>2. \A t : Explained(t) => t = NoToken \/ t \in alive' \cup lost' \/ OnTheWay(t)'
            BY <3>1, <2>1, StaysExplained
        <3> QED BY <3>2, <2>1, <2>4, <2>5
                DEF CInv, AllExplained, DeadTokensExplained, Explained
    <2>10. ASSUME NEW q \in Tasks PROVE Carries(q)' /\ Unseen(q)' /\ Replaced(q)'
        <3>1. Carries(q)'
            BY <1>4, <1>5, <1>7, <2>1, <2>3 DEF Carries, Moves, At, Live
        <3>2. Unseen(q)'
            <4>1. CASE At(q, "ok") /\ q # r /\ q # "logout"
                <5>1. \A i \in 1..Len(queue') : queue'[i].tok # task[q].got
                    BY <4>1, <1>7, <2>4, <2>5 DEF Unseen, Carries, At
                <5>2. \A x \in Tasks : (Live(x) => task[x].tok # task[q].got
                                        /\ (x # q => task[x].got # task[q].got))'
                    BY <4>1, <1>4, <1>5, <1>7, <2>3 DEF Unseen, Moves, At, Live
                <5> QED BY <4>1, <5>1, <5>2, <1>7, <2>1, <2>3
                        DEF Unseen, Carries, Moves, At
            <4> QED BY <4>1, <2>3 DEF Unseen, Moves, At
        <3>3. Replaced(q)'
            <4>1. CASE At(q, "saving") /\ q # r /\ task[q].tok # NoToken
                <5>1. \A i, j \in 1..Len(queue') :
                        queue'[i].task = q /\ i < j => queue'[j].tok # task[q].tok
                    <6>1. ASSUME NEW i \in 1..Len(queue'), NEW j \in 1..Len(queue'),
                                 queue'[i].task = q, i < j
                          PROVE queue'[j].tok # task[q].tok
                        <7>1. CASE j = Len(queue)
                            BY <7>1, <4>1, <2>4, <2>5
                        <7>2. CASE j # Len(queue)
                            <8>1. i # Len(queue) BY <6>1, <2>53, <1>2
                            <8>2. /\ i + 1 \in 1..Len(queue) /\ queue'[i] = queue[i + 1]
                                  /\ j + 1 \in 1..Len(queue) /\ queue'[j] = queue[j + 1]
                                BY <7>2, <8>1, <2>5
                            <8>3. i + 1 < j + 1 BY <6>1, <2>53, <1>2
                            <8> QED BY <8>2, <8>3, <6>1, <4>1, <1>7 DEF Replaced
                        <7> QED BY <7>1, <7>2
                    <6> QED BY <6>1
                <5> QED BY <4>1, <5>1, <1>7, <2>1, <2>3 DEF Replaced, Moves, At
            <4> QED BY <4>1, <1>6, <2>3 DEF Replaced, Moves, At
        <3> QED BY <3>1, <3>2, <3>3
    <2> QED BY <2>6, <2>7, <2>8, <2>9, <2>10 DEF CInv
<1>10. CASE disk = NoToken /\ p # "logout"
    <2>1. End(r) /\ queue' = Tail(queue) /\ UNCHANGED <<owner, alive, access, fresh, mem, disk, lost>>
        BY <1>1, <1>10, <1>5 DEF AnswerRead, server, memory
    <2>2. SessionCalls
        BY <2>1, CallsStay DEF CInv, AnswerRead, screen
    <2>3. Others(r) /\ task'[r].pc = "idle"
        BY <2>1, EndsIdle DEF CInv, Others
    <2>4. ClientTypeOK'
        BY <1>2, <2>1, <2>2, <2>3 DEF CInv, ClientTypeOK, SessionCalls, Others
    <2>5. AllOwned'
        BY <1>2, <2>1, <2>3 DEF CInv, AllOwned, Owned, Others, Live
    <2>6. QueueIsOwed'
        BY <1>1, <1>5, <2>1, <2>3, OwedDone DEF CInv
    <2>7. AllExplained'
        <3>1. \A t : OnTheWay(t) => OnTheWay(t)'
            BY <1>4, <1>5, <2>3 DEF OnTheWay, At, Others
        <3>2. \A t : Explained(t) => t = NoToken \/ t \in alive' \cup lost' \/ OnTheWay(t)'
            BY <3>1, <2>1, StaysExplained
        <3> QED BY <3>2, <2>1, <1>2 DEF CInv, AllExplained, DeadTokensExplained, Explained
    <2>8. ASSUME NEW q \in Tasks PROVE Carries(q)' /\ Unseen(q)' /\ Replaced(q)'
        <3>1. Carries(q)' BY <1>7, <2>1, <2>3 DEF Carries, Others, At, Live
        <3>2. Unseen(q)'
            <4>1. CASE At(q, "ok") /\ q # r /\ q # "logout"
                BY <4>1, <1>2, <1>7, <2>1, <2>3 DEF Unseen, Carries, Others, At, Live
            <4> QED BY <4>1, <2>3 DEF Unseen, Others, At
        <3>3. Replaced(q)'
            <4>1. CASE At(q, "saving") /\ q # r /\ task[q].tok # NoToken
                <5>1. \A i, j \in 1..Len(queue') :
                        queue'[i].task = q /\ i < j => queue'[j].tok # task[q].tok
                    BY <4>1, <1>2, <1>7, <2>1 DEF Replaced
                <5> QED BY <4>1, <5>1, <1>7, <2>1, <2>3 DEF Replaced, Others, At
            <4> QED BY <4>1, <1>6, <2>3 DEF Replaced, Others, At
        <3> QED BY <3>1, <3>2, <3>3
    <2> QED BY <2>4, <2>5, <2>6, <2>7, <2>8 DEF CInv
<1> QED BY <1>8, <1>9, <1>10

LEMMA ReceiveOkStep == ASSUME CInv, NEW p \in Tasks, ReceiveOk(p) PROVE CInv'
<1>1. Live(p) /\ task[p].pc = "ok" /\ p # "logout" BY DEF ReceiveOk, At, Live
<1>2. PICK g \in Tokens : g = task[p].got
    BY <1>1, LiveTask DEF CInv, Carries, At
<1>3. Moves(p, "saving") BY <1>1, GotoMoves DEF CInv, ReceiveOk, Pcs
<1>4. /\ queue' = Append(queue, Write(p, g)) /\ mem' = g
      /\ UNCHANGED <<owner, alive, disk, lost>>
    BY <1>2 DEF ReceiveOk, server, bounds
<1>5. SessionCalls
    BY <1>2 DEF CInv, ClientTypeOK, SessionCalls, ReceiveOk, screen, bounds
<1>6. /\ Write(p, g) \in Access /\ Write(p, g).task = p /\ Write(p, g).tok = g
      /\ Owed(Write(p, g))'
    BY <1>2, <1>3 DEF Write, Access, Owed, Moves, At
<1> QED BY <1>1, <1>3, <1>4, <1>5, <1>6, AsksStep

LEMMA ReceiveRefusedStep == ASSUME CInv, NEW p \in Tasks, ReceiveRefused(p) PROVE CInv'
<1>1. /\ Live(p) /\ task[p].pc \in {"ok", "refused", "failed"}
      /\ task[p].pc = "ok" => p = "logout"
    BY DEF ReceiveRefused, At, Live
<1>2. Moves(p, "clearing") BY <1>1, GotoMoves DEF CInv, ReceiveRefused, Clear, Pcs
<1>3. /\ queue' = Append(queue, Write(p, NoToken)) /\ mem' = NoToken
      /\ UNCHANGED <<owner, alive, disk, lost>>
    BY DEF ReceiveRefused, Clear, server, bounds
<1>4. SessionCalls
    BY DEF CInv, ClientTypeOK, SessionCalls, ReceiveRefused, Clear, screen, bounds
<1>5. /\ Write(p, NoToken) \in Access /\ Write(p, NoToken).task = p
      /\ Write(p, NoToken).tok = NoToken /\ Owed(Write(p, NoToken))'
    BY <1>2 DEF Write, Access, Owed, Moves, At
<1> QED BY <1>1, <1>2, <1>3, <1>4, <1>5, AsksStep

LEMMA FlushStep == ASSUME CInv, Flush PROVE CInv'
<1> DEFINE w == Head(queue)
<1>1. queue \in Seq(Access) /\ queue # <<>> /\ w.op = "write"
    BY DEF CInv, ClientTypeOK, Flush
<1>2. /\ w = queue[1] /\ w \in Access /\ Len(queue) \in Nat \ {0}
      /\ Tail(queue) \in Seq(Access) /\ Len(Tail(queue)) = Len(queue) - 1
      /\ \A i \in 1..Len(Tail(queue)) :
            i + 1 \in 1..Len(queue) /\ Tail(queue)[i] = queue[i + 1]
    BY <1>1, QueueEnds
<1>3. 1 \in 1..Len(queue) BY <1>2
<1>4. PICK r \in Tasks : r = w.task BY <1>2 DEF Access
<1>5. PICK t \in Tokens \cup {NoToken} : t = w.tok BY <1>2 DEF Access
<1>6. \/ At(r, "saving") /\ t = task[r].got
      \/ At(r, "clearing") /\ t = NoToken
    BY <1>1, <1>2, <1>3, <1>4, <1>5 DEF CInv, QueueIsOwed, Owed
<1>7. Live(r) BY <1>6 DEF At, Live
<1>8. PICK pc \in {"saved", "cleared"} :
        pc = IF At(r, "saving") THEN "saved" ELSE "cleared"
    OBVIOUS
<1>9. Moves(r, pc)
    BY <1>4, <1>7, <1>8, GotoMoves DEF CInv, Flush, Pcs
<1>10. queue' = Tail(queue) /\ disk' = t /\ UNCHANGED <<owner, alive, mem, lost>>
    BY <1>5 DEF Flush, server, memory, bounds
<1>11. SessionCalls
    BY CallsStay DEF CInv, Flush, memory, screen, bounds
<1>12. \A q \in Tasks : Carries(q) /\ Unseen(q) /\ Replaced(q) BY DEF CInv
<1>13. ClientTypeOK'
    BY <1>2, <1>9, <1>10, <1>11 DEF CInv, ClientTypeOK, SessionCalls, Moves
<1>14. AllOwned'
    <2>1. Owned(t) BY <1>2, <1>3, <1>5 DEF CInv, AllOwned
    <2> QED BY <1>2, <1>7, <1>9, <1>10, <2>1 DEF CInv, AllOwned, Owned, Moves, Live
<1>15. QueueIsOwed'
    BY <1>1, <1>4, <1>9, <1>10, OwedDone DEF CInv, Others, Moves
<1>16. AllExplained'
    <2>1. \A i \in 1..Len(queue') : i + 1 \in 1..Len(queue) /\ queue'[i] = queue[i + 1]
        BY <1>2, <1>10
    <2>2. Explained(t) BY <1>2, <1>3, <1>5 DEF CInv, AllExplained
    <2>3. CASE At(r, "saving") /\ task[r].tok # NoToken
        <3>1. \A x : OnTheWay(x) => x = task[r].tok \/ OnTheWay(x)'
            BY <2>3, <1>9 DEF OnTheWay, Moves, At
        <3>2. \A x : x # task[r].tok /\ Explained(x)
                 => x = NoToken \/ x \in alive' \cup lost' \/ OnTheWay(x)'
            BY <3>1, <1>10 DEF Explained
        <3>3. t # task[r].tok /\ (mem = task[r].tok => mem \in lost)
            BY <2>3, <1>6, <1>12 DEF Replaced, At
        <3>4. ASSUME NEW i \in 1..Len(queue') PROVE queue'[i].tok # task[r].tok
            <4>1. i + 1 \in 1..Len(queue) /\ 1 < i + 1 BY <2>1, <1>2
            <4>2. queue[1].task = r BY <1>2, <1>4
            <4>3. queue[i + 1].tok # task[r].tok
                BY <2>3, <4>1, <4>2, <1>3, <1>12 DEF Replaced
            <4> QED BY <4>3, <2>1
        <3> QED BY <3>2, <3>3, <3>4, <2>1, <2>2, <1>10
                DEF CInv, AllExplained, DeadTokensExplained, Explained
    <2>4. CASE ~(At(r, "saving") /\ task[r].tok # NoToken)
        <3>1. \A x : OnTheWay(x) => OnTheWay(x)' \/ x \in lost' \cup {NoToken}
            BY <2>4, <1>6, <1>9 DEF OnTheWay, Moves, At
        <3>2. \A x : Explained(x) => x = NoToken \/ x \in alive' \cup lost' \/ OnTheWay(x)'
            BY <3>1, <1>10, StaysExplained
        <3> QED BY <3>2, <2>1, <2>2, <1>10
                DEF CInv, AllExplained, DeadTokensExplained, Explained
    <2> QED BY <2>3, <2>4
<1>17. ASSUME NEW q \in Tasks PROVE Carries(q)' /\ Unseen(q)' /\ Replaced(q)'
    <2>1. Carries(q)'
        BY <1>6, <1>7, <1>8, <1>9, <1>10, <1>12 DEF Carries, Moves, At, Live
    <2>2. Unseen(q)'
        <3>1. CASE At(q, "ok") /\ q # r /\ q # "logout"
            <4>1. t # task[q].got
                BY <3>1, <1>2, <1>3, <1>5, <1>12 DEF Unseen
            <4> QED BY <3>1, <4>1, <1>2, <1>7, <1>9, <1>10, <1>12
                    DEF Unseen, Moves, At, Live
        <3> QED BY <3>1, <1>8, <1>9 DEF Unseen, Moves, At
    <2>3. Replaced(q)'
        <3>1. CASE At(q, "saving") /\ q # r /\ task[q].tok # NoToken
            <4>1. \A i, j \in 1..Len(queue') :
                    queue'[i].task = q /\ i < j => queue'[j].tok # task[q].tok
                BY <3>1, <1>2, <1>10, <1>12 DEF Replaced
            <4> QED BY <3>1, <4>1, <1>9, <1>10, <1>12 DEF Replaced, Moves, At
        <3> QED BY <3>1, <1>8, <1>9 DEF Replaced, Moves, At
    <2> QED BY <2>1, <2>2, <2>3
<1> QED BY <1>13, <1>14, <1>15, <1>16, <1>17 DEF CInv

-----------------------------------------------------------------------------
(* The server *)

\* A task that SecureStore owes nothing goes on.
LEMMA OwedStays ==
    ASSUME ClientTypeOK, QueueIsOwed, UNCHANGED queue, NEW p \in Tasks, Others(p),
           task[p].pc \notin {"reading", "saving", "clearing"}, task'[p].pc # "saving"
    PROVE QueueIsOwed'
<1>1. \A i \in 1..Len(queue) : queue[i].task \in Tasks \ {p}
    BY Entries DEF ClientTypeOK, QueueIsOwed, Owed, At
<1> QED BY <1>1 DEF QueueIsOwed, Owed, Others, At

LEMMA MintStep ==
    ASSUME CInv, SessionCalls, UNCHANGED <<mem, disk, queue, lost>>,
           NEW p \in Tasks, p # "logout", At(p, "asked"),
           NEW x, x = task[p].tok, NEW old \in SUBSET {x}, NoToken \notin old,
           NEW u \in Users, Mint(p, u, old)
    PROVE CInv'
<1>1. PICK t \in Tokens :
        /\ owner[t] = NoUser
        /\ owner' = [owner EXCEPT ![t] = u]
        /\ alive' = (alive \ old) \cup {t}
        /\ task' = [task EXCEPT ![p].pc = "ok", ![p].got = t]
    BY DEF Mint
<1>2. Live(p) BY DEF At, Live
<1>3. /\ Others(p) /\ task'[p].pc = "ok" /\ task'[p].tok = x /\ task'[p].got = t
      /\ task'[p].user = task[p].user
    BY <1>1, <1>2, LiveTask DEF CInv, ClientTypeOK, Others, Task, Pcs
<1>4. \A q \in Tasks : Carries(q) /\ Unseen(q) /\ Replaced(q) BY DEF CInv
<1>5. \A y : Owned(y) /\ y \in Tokens \cup {NoToken} => y # t
    BY <1>1, ConstantsAssumption DEF Owned
<1>6. /\ mem # t /\ disk # t
      /\ \A q \in Tasks : Live(q) => task[q].tok # t /\ task[q].got # t
      /\ \A i \in 1..Len(queue) : queue[i].tok # t
    <2>1. \A q \in Tasks : Live(q) => task[q].tok # t /\ task[q].got # t
        BY <1>5, LiveTask DEF CInv, AllOwned
    <2>2. \A i \in 1..Len(queue) : queue[i].tok # t
        BY <1>5, Entries DEF CInv, AllOwned, ClientTypeOK
    <2> QED BY <1>5, <2>1, <2>2 DEF CInv, AllOwned, ClientTypeOK
<1>7. ClientTypeOK'
    BY <1>1, <1>3 DEF CInv, ClientTypeOK, SessionCalls, Others
<1>8. AllOwned'
    <2>1. \A y \in Tokens \cup {NoToken} : Owned(y) => y = NoToken \/ owner'[y] # NoUser
        BY <1>1, ConstantsAssumption DEF CInv, ClientTypeOK, Owned
    <2>2. owner'[t] # NoUser
        BY <1>1, ConstantsAssumption DEF CInv, ClientTypeOK
    <2>3. \A q \in Tasks : (Live(q) => Owned(task[q].tok) /\ Owned(task[q].got))'
        <3>1. ASSUME NEW q \in Tasks, q # p, Live(q)
              PROVE Owned(task[q].tok)' /\ Owned(task[q].got)'
            BY <3>1, <1>3, <2>1, LiveTask DEF CInv, AllOwned, Owned, Others
        <3>2. Owned(task[p].tok)' /\ Owned(task[p].got)'
            <4>1. x \in Tokens \cup {NoToken} /\ Owned(x)
                BY <1>2, LiveTask DEF CInv, AllOwned
            <4> QED BY <4>1, <1>3, <2>1, <2>2 DEF Owned
        <3> QED BY <3>1, <3>2, <1>3 DEF Others, Live
    <2>4. \A i \in 1..Len(queue') : Owned(queue[i].tok)'
        BY <2>1, Entries DEF CInv, AllOwned, ClientTypeOK, Owned
    <2>5. Owned(mem)' /\ Owned(disk)'
        BY <2>1 DEF CInv, AllOwned, ClientTypeOK, Owned
    <2>6. \A y \in alive' : Owned(y)'
        BY <1>1, <2>1, <2>2 DEF CInv, AllOwned, ClientTypeOK, Owned
    <2> QED BY <2>3, <2>4, <2>5, <2>6 DEF AllOwned
<1>9. QueueIsOwed'
    BY <1>3, OwedStays DEF CInv, At
<1>10. AllExplained'
    <2>1. \A y : OnTheWay(y) => OnTheWay(y)'
        BY <1>3 DEF OnTheWay, Others, At
    <2>2. x \in old => OnTheWay(x)'
        BY <1>3 DEF OnTheWay, At
    <2>3. \A y : Explained(y) => y = NoToken \/ y \in alive' \cup lost' \/ OnTheWay(y)'
        BY <1>1, <2>1, <2>2 DEF Explained
    <2> QED BY <2>3 DEF CInv, AllExplained, DeadTokensExplained, Explained
<1>11. ASSUME NEW q \in Tasks PROVE Carries(q)' /\ Unseen(q)' /\ Replaced(q)'
    <2>1. Carries(q)'
        BY <1>2, <1>3, <1>4, ConstantsAssumption DEF Carries, Others, At, Live
    <2>2. Unseen(q)'
        <3>1. CASE q = p
            BY <3>1, <1>1, <1>2, <1>3, <1>6 DEF Unseen, Others, At, Live
        <3>2. CASE At(q, "ok") /\ q # p /\ q # "logout"
            <4>1. task[q].got \in alive' \cup lost'
                BY <3>2, <1>1, <1>2, <1>4 DEF Unseen, At
            <4>2. \A y \in Tasks : (Live(y) => task[y].tok # task[q].got
                                    /\ (y # q => task[y].got # task[q].got))'
                <5>1. Live(q) BY <3>2 DEF At, Live
                <5> QED BY <3>2, <5>1, <1>2, <1>3, <1>4, <1>6 DEF Unseen, Others, At, Live
            <4> QED BY <3>2, <4>1, <4>2, <1>3, <1>4 DEF Unseen, Others, At
        <3> QED BY <3>1, <3>2, <1>3 DEF Unseen, Others, At
    <2>3. Replaced(q)'
        BY <1>3, <1>4 DEF Replaced, Others, At
    <2> QED BY <2>1, <2>2, <2>3
<1> QED BY <1>7, <1>8, <1>9, <1>10, <1>11 DEF CInv

\* Tokens die and are given up, and a task goes on without its answer, or a
\* logout with it.
LEMMA LossStep ==
    ASSUME CInv, SessionCalls, UNCHANGED <<owner, mem, disk, queue>>,
           alive' \subseteq alive, lost \subseteq lost', lost' \subseteq Tokens,
           alive \subseteq alive' \cup lost',
           NEW p \in Tasks, Others(p),
           \/ UNCHANGED task
           \/ \E pc \in {"ok", "failed"} :
                /\ Moves(p, pc) /\ task[p].pc \in {"asked", "ok"}
                /\ task[p].pc = "ok" => task[p].tok \in lost' \cup {NoToken}
                /\ pc = "ok" => p = "logout" /\ task[p].tok \in lost'
    PROVE CInv'
<1>1. \A q \in Tasks : Carries(q) /\ Unseen(q) /\ Replaced(q) BY DEF CInv
<1>2. ClientTypeOK'
    BY DEF CInv, ClientTypeOK, SessionCalls, Others
<1>3. AllOwned'
    <2>1. \A q \in Tasks : Live(q)' => Live(q) /\ task'[q].tok = task[q].tok /\ task'[q].got = task[q].got
        BY DEF Others, Moves, Live
    <2> QED BY <2>1 DEF CInv, AllOwned, Owned
<1>4. QueueIsOwed'
    <2>1. CASE UNCHANGED task BY <2>1 DEF CInv, QueueIsOwed, Owed, At
    <2>2. CASE task[p].pc \in {"asked", "ok"} /\ task'[p].pc # "saving"
        BY <2>2, OwedStays DEF CInv
    <2> QED BY <2>1, <2>2 DEF Moves
<1>5. AllExplained'
    <2>1. \A t : OnTheWay(t) => OnTheWay(t)' \/ t \in lost' \cup {NoToken}
        BY DEF OnTheWay, Others, Moves, At
    <2>2. \A t : Explained(t) => t = NoToken \/ t \in alive' \cup lost' \/ OnTheWay(t)'
        BY <2>1, StaysExplained
    <2> QED BY <2>2 DEF CInv, AllExplained, DeadTokensExplained, Explained
<1>6. ASSUME NEW q \in Tasks PROVE Carries(q)' /\ Unseen(q)' /\ Replaced(q)'
    <2>1. Carries(q)' BY <1>1 DEF Carries, Others, Moves, At, Live
    <2>2. Unseen(q)' BY <1>1 DEF Unseen, Others, Moves, At, Live
    <2>3. Replaced(q)' BY <1>1 DEF Replaced, Others, Moves, At
    <2> QED BY <2>1, <2>2, <2>3
<1> QED BY <1>2, <1>3, <1>4, <1>5, <1>6 DEF CInv

LEMMA ServeStep == ASSUME CInv, NEW p \in Tasks, Serve(p) PROVE CInv'
<1>1. Live(p) /\ At(p, "asked") BY DEF Serve, At, Live
<1>2. SessionCalls /\ UNCHANGED <<mem, disk, queue>>
    BY CallsStay DEF CInv, Serve, memory, storage, screen
<1>3. Carries(p) /\ task[p].tok \in Tokens \cup {NoToken} /\ task[p].user \in Users \cup {NoUser}
    BY <1>1, LiveTask DEF CInv
<1>4. CASE p = "login"
    <2>1. PICK u \in Users : u = task[p].user BY <1>1, <1>3, <1>4 DEF Carries
    <2>2. Mint(p, u, {}) /\ UNCHANGED lost BY <1>4, <2>1 DEF Serve
    <2> QED BY <1>1, <1>2, <1>4, <2>2, MintStep
<1>5. CASE p = "logout"
    <2>1. /\ alive' = alive \ {task[p].tok} /\ lost' = lost \cup {task[p].tok}
          /\ Goto(p, "ok") /\ UNCHANGED owner
        BY <1>5 DEF Serve
    <2>2. task[p].tok \in Tokens BY <1>1, <1>3, <1>5 DEF Carries
    <2>3. Moves(p, "ok") /\ Others(p)
        BY <1>1, <2>1, GotoMoves DEF CInv, Pcs, Moves, Others
    <2>4. lost' \subseteq Tokens BY <2>1, <2>2 DEF CInv, ClientTypeOK
    <2> QED BY <1>1, <1>2, <1>5, <2>1, <2>3, <2>4, LossStep DEF At
<1>6. CASE p \notin {"login", "logout"} /\ task[p].tok \in alive
    <2>1. PICK x \in Tokens : x = task[p].tok BY <1>6 DEF CInv, ClientTypeOK
    <2>2. PICK u \in Users : u = owner[x]
        <3>1. owner[x] \in Users \cup {NoUser} BY <2>1 DEF CInv, ClientTypeOK
        <3>2. owner[x] # NoUser
            BY <1>6, <2>1, ConstantsAssumption DEF CInv, AllOwned, Owned
        <3> QED BY <3>1, <3>2
    <2>3. Mint(p, u, {x}) /\ UNCHANGED lost BY <1>6, <2>1, <2>2 DEF Serve
    <2> QED BY <1>1, <1>2, <1>6, <2>1, <2>3, MintStep, ConstantsAssumption
<1>7. CASE p \notin {"login", "logout"} /\ task[p].tok \notin alive
    BY <1>1, <1>2, <1>7, CalmMove DEF Serve, server
<1> QED BY <1>4, <1>5, <1>6, <1>7

LEMMA FailStep == ASSUME CInv, NEW p \in Tasks, Fail(p) PROVE CInv'
<1>1. SessionCalls /\ UNCHANGED <<owner, alive, mem, disk, queue>>
    BY DEF CInv, ClientTypeOK, SessionCalls, Fail, server, memory, storage, screen
<1>2. CASE At(p, "asked") /\ (Goto(p, "failed") \/ Goto(p, "refused")) /\ UNCHANGED lost
    BY <1>1, <1>2, CalmMove
<1>3. CASE /\ At(p, "ok") /\ Goto(p, "failed")
           /\ lost' = lost \cup ({task[p].tok} \ {NoToken})
    <2>1. Live(p) BY <1>3 DEF At, Live
    <2>2. Moves(p, "failed") /\ Others(p)
        BY <1>3, <2>1, GotoMoves DEF CInv, Pcs, Moves, Others
    <2>3. lost' \subseteq Tokens
        BY <1>3, <2>1, LiveTask DEF CInv, ClientTypeOK
    <2> QED BY <1>1, <1>3, <2>2, <2>3, LossStep DEF At
<1> QED BY <1>2, <1>3 DEF Fail

LEMMA RevokedStep == ASSUME CInv, NEW u \in Users, RevokedElsewhere(u) PROVE CInv'
<1>1. SessionCalls /\ UNCHANGED <<owner, mem, disk, queue, task>>
    BY DEF CInv, ClientTypeOK, SessionCalls, RevokedElsewhere, memory, storage, screen
<1>2. Others("login") /\ "login" \in Tasks
    BY <1>1 DEF CInv, ClientTypeOK, Others, Tasks
<1>3. /\ alive' \subseteq alive /\ lost \subseteq lost' /\ lost' \subseteq Tokens
      /\ alive \subseteq alive' \cup lost'
    BY DEF CInv, ClientTypeOK, RevokedElsewhere
<1> QED BY <1>1, <1>2, <1>3, LossStep

-----------------------------------------------------------------------------
(* The app process *)

LEMMA ColdTasks == ASSUME NEW u \in Users \cup {NoUser}
    PROVE /\ ColdStart(u) \in [Tasks -> Task \cup {Idle}]
          /\ \A p \in Tasks :
               \/ ColdStart(u)[p].pc = "idle"
               \/ /\ p = "restore" /\ u # NoUser /\ ColdStart(u)[p].pc = "load"
                  /\ ColdStart(u)[p].tok = NoToken /\ ColdStart(u)[p].got = NoToken
    BY DEF ColdStart, Begun, Idle, Task, Pcs

\* A process that has just started.
LEMMA ColdInv ==
    ASSUME ClientTypeOK, Owned(disk), \A t \in alive : Owned(t), Explained(disk),
           mem = NoToken, queue = <<>>, NEW u \in Users \cup {NoUser}, task = ColdStart(u)
    PROVE CInv
<1>1. AllOwned /\ QueueIsOwed
    BY ColdTasks DEF AllOwned, Owned, QueueIsOwed, At, Live
<1>2. AllExplained
    BY DEF AllExplained, DeadTokensExplained, Explained
<1>3. \A p \in Tasks : Carries(p) /\ Unseen(p) /\ Replaced(p)
    BY ColdTasks DEF Carries, Unseen, Replaced, At, Live
<1> QED BY <1>1, <1>2, <1>3 DEF CInv

LEMMA InitHolds == Init => CInv
<1> SUFFICES ASSUME Init PROVE CInv
    OBVIOUS
<1>1. PICK u \in Users \cup {NoUser} : \E t \in Tokens \cup {NoToken} :
         /\ u = NoUser <=> t = NoToken
         /\ owner = [x \in Tokens |-> IF x = t THEN u ELSE NoUser]
         /\ alive = {t} \ {NoToken}
         /\ disk = t /\ saved = u /\ profile = u /\ asking = (u # NoUser)
         /\ task = ColdStart(u)
    BY DEF Init
<1>2. PICK t \in Tokens \cup {NoToken} :
         /\ u = NoUser <=> t = NoToken
         /\ owner = [x \in Tokens |-> IF x = t THEN u ELSE NoUser]
         /\ alive = {t} \ {NoToken}
         /\ disk = t /\ saved = u /\ profile = u /\ asking = (u # NoUser)
         /\ task = ColdStart(u)
    BY <1>1
<1>3. ClientTypeOK
    <2>1. task \in [Tasks -> Task \cup {Idle}] BY <1>2, ColdTasks
    <2>2. owner \in [Tokens -> Users \cup {NoUser}] BY <1>2
    <2>3. asking \in BOOLEAN BY <1>2
    <2>4. queue \in Seq(Access) BY DEF Init
    <2>5. /\ alive \in SUBSET Tokens /\ disk \in Tokens \cup {NoToken}
          /\ saved \in Users \cup {NoUser} /\ profile \in Users \cup {NoUser}
        BY <1>2
    <2> QED BY <2>1, <2>2, <2>3, <2>4, <2>5 DEF Init, ClientTypeOK
<1>4. Owned(disk) /\ Explained(disk) /\ \A x \in alive : Owned(x)
    BY <1>2 DEF Owned, Explained
<1> QED BY <1>2, <1>3, <1>4, ColdInv DEF Init

LEMMA KillStep == ASSUME CInv, Kill PROVE CInv'
<1> DEFINE T == {task[p].tok : p \in {q \in Tasks : At(q, "ok") \/ At(q, "saving")}}
<1>1. /\ mem' = NoToken /\ queue' = <<>> /\ task' = ColdStart(saved)
      /\ lost' = lost \cup (T \ {NoToken})
      /\ UNCHANGED <<owner, alive, disk>>
    BY DEF Kill, server
<1>2. T \subseteq Tokens \cup {NoToken}
    BY LiveTask DEF CInv, At, Live
<1>3. PICK u \in Users \cup {NoUser} : u = saved BY DEF CInv, ClientTypeOK
<1>4. task' = ColdStart(u) BY <1>1, <1>3
<1>5. ClientTypeOK'
    <2>1. task' \in [Tasks -> Task \cup {Idle}] BY <1>4, ColdTasks
    <2>2. asking' \in BOOLEAN BY DEF Kill
    <2>3. queue' \in Seq(Access) BY <1>1
    <2>4. lost' \in SUBSET Tokens BY <1>1, <1>2 DEF CInv, ClientTypeOK
    <2>5. /\ access' \in Users \cup {NoUser} /\ fresh' \in BOOLEAN /\ socket' \in BOOLEAN
          /\ profile' \in Users \cup {NoUser} /\ saved' \in Users \cup {NoUser}
          /\ kills' \in Nat /\ failures' \in Nat
        <3>1. /\ access' = NoUser /\ fresh' = FALSE /\ socket' = FALSE
              /\ profile' = saved /\ UNCHANGED <<saved, failures>> /\ kills' = kills + 1
            BY DEF Kill
        <3>2. saved \in Users \cup {NoUser} /\ kills \in Nat /\ failures \in Nat
            BY DEF CInv, ClientTypeOK
        <3>3. fresh' \in BOOLEAN /\ socket' \in BOOLEAN BY <3>1, Zenon
        <3>4. kills' \in Nat /\ failures' \in Nat BY <3>1, <3>2
        <3>5. /\ access' \in Users \cup {NoUser} /\ profile' \in Users \cup {NoUser}
              /\ saved' \in Users \cup {NoUser}
            BY <3>1, <3>2, Zenon
        <3> QED BY <3>3, <3>4, <3>5
    <2> QED BY <1>1, <2>1, <2>2, <2>3, <2>4, <2>5 DEF CInv, ClientTypeOK
<1>6. AllOwned' /\ QueueIsOwed'
    BY <1>1, <1>4, ColdTasks DEF CInv, AllOwned, Owned, QueueIsOwed, At, Live
<1>7. AllExplained'
    <2>1. \A t : OnTheWay(t) => t \in T BY DEF OnTheWay
    <2> QED BY <1>1, <2>1 DEF CInv, AllExplained, DeadTokensExplained, Explained
<1>8. ASSUME NEW q \in Tasks PROVE Carries(q)' /\ Unseen(q)' /\ Replaced(q)'
    BY <1>1, <1>4, ColdTasks DEF Carries, Unseen, Replaced, At, Live
<1> QED BY <1>5, <1>6, <1>7, <1>8 DEF CInv

-----------------------------------------------------------------------------
LEMMA NextHolds == ASSUME CInv, [Next]_vars PROVE CInv'
<1>1. CASE \E p \in Tasks : Step(p)
    <2>1. PICK p \in Tasks : Step(p) BY <1>1
    <2> QED BY <2>1, LoadStep, ServeStep, FailStep, ReceiveOkStep, ReceiveRefusedStep,
               GiveUpStep, SavedStep, ClearedStep DEF Step
<1>2. CASE \E u \in Users : RevokedElsewhere(u) BY <1>2, RevokedStep
<1>3. CASE SendCall \/ Expire \/ SocketRefused \/ Persist BY <1>3, QuietSteps
<1>4. CASE Denied \/ Login \/ Logout BY <1>4, BeginSteps
<1>5. CASE AnswerRead BY <1>5, AnswerReadStep
<1>6. CASE Flush BY <1>6, FlushStep
<1>7. CASE Kill BY <1>7, KillStep
<1>8. CASE UNCHANGED vars
    <2>1. SessionCalls /\ UNCHANGED <<owner, alive, mem, disk, queue, lost, task>>
        BY <1>8, CallsStay DEF CInv, vars, server, memory, storage, screen, bounds
    <2> QED BY <2>1, StillStep
<1> QED BY <1>1, <1>2, <1>3, <1>4, <1>5, <1>6, <1>7, <1>8 DEF Next

LEMMA SpecHolds == Spec => []CInv
    BY InitHolds, NextHolds, PTL DEF Spec

\* The session of the phone app keeps its shape, for any users, tokens and bounds.
THEOREM TypeCorrect == Spec => []ClientTypeOK
<1>1. CInv => ClientTypeOK BY DEF CInv
<1> QED BY <1>1, SpecHolds, PTL

\* No overlap of restore, refresh, login and logout, with kills, failed requests
\* and revocations between any two steps, makes the app hold a dead refresh token
\* for a reason other than the three that DeadTokensExplained names.
THEOREM DeadTokensAlwaysExplained == Spec => []DeadTokensExplained
<1>1. CInv => DeadTokensExplained BY DEF CInv, AllExplained
<1> QED BY <1>1, SpecHolds, PTL

-----------------------------------------------------------------------------
(* One task at a time *)

\* The first moments of a start that finds a session.
Opening ==
    /\ At("restore", "load") /\ asking /\ queue = <<>> /\ profile # NoUser
    /\ \A p \in Tasks \ {"restore"} : ~Live(p)

OneBusy == \A p, q \in Tasks : Busy(p) /\ Busy(q) => p = q

\* Memory, SecureStore and the server agree on the token, and the screen with them.
Agree ==
    /\ queue = <<>> /\ disk = mem /\ alive = {mem} \ {NoToken}
    /\ mem = NoToken <=> profile = NoUser
    /\ profile = NoUser => access = NoUser

\* The one task that runs and what it has done so far.
Phase(p) ==
    /\ p # "restore"
    /\ p = "login" <=> profile = NoUser
    /\ \/ At(p, "load") /\ p # "login" /\ Agree
       \/ At(p, "asked") /\ Agree /\ (p # "login" => task[p].tok = mem)
       \/ /\ At(p, "ok") /\ queue = <<>> /\ disk = mem
          /\ alive = IF p = "logout" THEN {} ELSE {task[p].got}
       \/ /\ At(p, "saving") /\ queue = <<Write(p, task[p].got)>>
          /\ mem = task[p].got /\ alive = {task[p].got}
       \/ /\ At(p, "saved") /\ queue = <<>>
          /\ mem = task[p].got /\ disk = mem /\ alive = {mem}
       \/ /\ At(p, "clearing") /\ p = "logout" /\ queue = <<Write(p, NoToken)>>
          /\ mem = NoToken /\ access = NoUser /\ alive = {}
       \/ /\ At(p, "cleared") /\ p = "logout" /\ queue = <<>>
          /\ mem = NoToken /\ disk = NoToken /\ access = NoUser /\ alive = {}

OneTask ==
    /\ OneBusy
    /\ asking => profile # NoUser
    /\ (\A p \in Tasks : ~Live(p)) => Agree
    /\ \A p \in Tasks : Live(p) => Phase(p)

AloneInv == Alone => Opening \/ OneTask

LEMMA AloneBefore == ASSUME CInv, MCNext, Alone'
    PROVE Alone /\ kills' = 0 /\ failures' = 0 /\ OneBusy'
<1>1. ~overlap' /\ kills' = 0 /\ failures' = 0 BY DEF Alone
<1>2. ~overlap /\ ~\E p, q \in Tasks : p # q /\ Busy(p)' /\ Busy(q)'
    BY <1>1 DEF MCNext
<1>3. kills \in Nat /\ failures \in Nat BY DEF CInv, ClientTypeOK
<1>4. kills = 0 /\ failures = 0
    <2>1. kills' \in {kills, kills + 1} /\ failures' \in {failures, failures + 1}
        <3>1. CASE \E p \in Tasks : Step(p)
            BY <3>1 DEF Step, Load, Serve, Fail, ReceiveOk, ReceiveRefused, GiveUp, Saved,
                        Cleared, bounds
        <3>2. CASE SendCall \/ Denied \/ Login \/ Logout
                   \/ Expire \/ AnswerRead \/ Flush \/ SocketRefused \/ Persist
            BY <3>2 DEF SendCall, Denied, Login, Logout, Expire, AnswerRead, Flush,
                        SocketRefused, Persist, bounds
        <3>3. CASE (\E u \in Users : RevokedElsewhere(u)) \/ Kill
            BY <3>3 DEF RevokedElsewhere, Kill
        <3> QED BY <3>1, <3>2, <3>3 DEF MCNext, Next
    <2> QED BY <1>1, <1>3, <2>1
<1> QED BY <1>1, <1>2, <1>4 DEF Alone, OneBusy

\* While nothing fails, no answer is lost and the process goes on.
LEMMA CalmNext ==
    ASSUME CInv, Next, kills = 0, failures = 0, kills' = 0, failures' = 0
    PROVE \/ SendCall \/ Denied \/ Login \/ Logout
          \/ \E p \in Tasks :
               \/ Load(p) \/ Serve(p) \/ ReceiveOk(p) \/ ReceiveRefused(p)
               \/ GiveUp(p) \/ Saved(p) \/ Cleared(p)
          \/ Expire \/ AnswerRead \/ Flush \/ SocketRefused \/ Persist
    BY DEF Next, Step, Fail, RevokedElsewhere, Kill

\* Two tasks of a start that finds a session are under way at its first step.
LEMMA OpeningEnds == ASSUME CInv, Opening, Alone, MCNext, Alone' PROVE FALSE
<1>1. kills = 0 /\ failures = 0 BY DEF Alone
<1>2. kills' = 0 /\ failures' = 0 /\ OneBusy' BY AloneBefore
<1>3. task["restore"].pc = "load" /\ "restore" \in Tasks /\ "refresh" \in Tasks
    BY DEF Opening, At, Tasks
<1>4. ~(Live("restore")' /\ (Live("refresh")' \/ asking'))
    BY <1>2, <1>3 DEF OneBusy, Busy
<1>5. \A p \in Tasks : task[p].pc \in {"idle", "load"} /\ (p # "restore" => ~Live(p))
    BY DEF Opening, At, Live
<1>6. asking /\ queue = <<>> /\ profile # NoUser BY DEF Opening
<1>7. CASE Denied
    <2>1. ~Live("refresh") BY <1>3, <1>5
    <2>2. Start("refresh", "load", NoUser) BY <1>7, <2>1 DEF Denied
    <2>3. task'["refresh"].pc = "load" /\ task'["restore"] = task["restore"]
        BY <1>3, <2>2, StartsTask DEF CInv, Pcs
    <2> QED BY <1>3, <1>4, <2>3 DEF Live
<1>8. CASE Logout
    <2>1. Start("logout", "load", NoUser) /\ asking' = asking BY <1>8 DEF Logout
    <2>2. "logout" \in Tasks /\ "logout" # "restore" BY DEF Tasks
    <2>3. task'["restore"] = task["restore"]
        BY <1>3, <2>1, <2>2, StartsTask DEF CInv, Pcs
    <2> QED BY <1>3, <1>4, <1>6, <2>1, <2>3 DEF Live
<1>9. CASE \E p \in Tasks : Load(p)
    <2>1. PICK p \in Tasks : Load(p) BY <1>9
    <2>2. task'["restore"].pc \in {"load", "asked", "reading"} /\ asking' = asking
        <3>1. p = "restore" /\ Live(p) /\ asking' = asking
            BY <2>1, <1>5 DEF Load, At, Live
        <3>2. CASE mem # NoToken
            <4>1. mem \in Tokens /\ Present(p, mem)
                BY <2>1, <3>2 DEF Load, CInv, ClientTypeOK
            <4> QED BY <3>1, <4>1, PresentsToken DEF CInv
        <3>3. CASE mem = NoToken
            <4>1. Goto(p, "reading") BY <2>1, <3>3 DEF Load
            <4> QED BY <3>1, <4>1, GotoMoves DEF CInv, Pcs, Moves
        <3> QED BY <3>1, <3>2, <3>3
    <2> QED BY <1>4, <1>6, <2>2 DEF Live
<1>10. ASSUME NEW p \in Tasks
       PROVE ~(Serve(p) \/ ReceiveOk(p) \/ ReceiveRefused(p) \/ GiveUp(p) \/ Saved(p) \/ Cleared(p))
    BY <1>5 DEF Serve, ReceiveOk, ReceiveRefused, GiveUp, Saved, Cleared, At
<1>11. CASE Expire \/ SocketRefused \/ Persist
    BY <1>11, <1>3, <1>4, <1>6 DEF Expire, SocketRefused, Persist, Live
<1>12. ~(SendCall \/ Login \/ AnswerRead \/ Flush)
    BY <1>6 DEF SendCall, Login, AnswerRead, Flush
<1>13. Next BY DEF MCNext
<1> QED BY <1>1, <1>2, <1>7, <1>8, <1>9, <1>10, <1>11, <1>12, <1>13, CalmNext

\* The only task that runs.
LEMMA OnlyTask == ASSUME OneBusy, NEW p \in Tasks, Live(p)
    PROVE /\ \A q \in Tasks : q # p => ~Live(q)
          /\ asking => p = "refresh"
    BY DEF OneBusy, Busy, Tasks

\* A task goes on, and with it its phase.
LEMMA PhaseMoves ==
    ASSUME OneTask, OneBusy', NEW p \in Tasks, Others(p), Live(p), Live(p)', Phase(p)',
           UNCHANGED <<profile, asking>>
    PROVE OneTask'
<1>1. \A q \in Tasks : q # p => ~Live(q) BY OnlyTask DEF OneTask
<1> QED BY <1>1 DEF OneTask, Others, Live

\* A task ends, and memory, SecureStore and the server agree.
LEMMA PhaseEnds ==
    ASSUME OneTask, OneBusy', NEW p \in Tasks, Others(p), Live(p), ~Live(p)', Agree',
           UNCHANGED asking, profile' # NoUser \/ p # "refresh"
    PROVE OneTask'
<1>1. (\A q \in Tasks : q # p => ~Live(q)) /\ (asking => p = "refresh")
    BY OnlyTask DEF OneTask
<1> QED BY <1>1 DEF OneTask, Others, Live

\* A task starts when nothing else runs.
LEMMA PhaseStarts ==
    ASSUME OneTask, OneBusy', NEW p \in Tasks, Others(p), ~Live(p), Live(p)', Phase(p)',
           asking' => profile' # NoUser
    PROVE OneTask'
<1>1. \A q \in Tasks : q # p => ~Live(q)'
    BY DEF OneBusy, Busy
<1> QED BY <1>1 DEF OneTask, Others, Live

\* Nothing is under way but what starts now.
LEMMA NothingElse ==
    ASSUME OneTask, OneBusy', NEW p \in Tasks, Others(p), ~Live(p), Live(p)'
    PROVE Agree
<1>1. \A q \in Tasks : q # p => ~Live(q)' BY DEF OneBusy, Busy
<1>2. \A q \in Tasks : ~Live(q) BY <1>1 DEF Others, Live
<1> QED BY <1>2 DEF OneTask

LEMMA SingleWrite == ASSUME queue = <<>>, NEW p \in Tasks, NEW t \in Tokens \cup {NoToken},
                            queue' = Append(queue, Write(p, t))
    PROVE queue' = <<Write(p, t)>>
    OBVIOUS

LEMMA OneTaskStep == ASSUME CInv, OneTask, Alone, MCNext, Alone' PROVE OneTask'
<1>1. kills = 0 /\ failures = 0 BY DEF Alone
<1>2. kills' = 0 /\ failures' = 0 /\ OneBusy' BY AloneBefore
<1>3. Next BY DEF MCNext
<1>4. CASE SendCall \/ Expire \/ SocketRefused \/ Persist
    <2>1. /\ UNCHANGED <<task, queue, disk, mem, alive, profile, access>>
          /\ asking' => profile # NoUser
        BY <1>4 DEF SendCall, Expire, SocketRefused, Persist, OneTask,
                    server, memory, storage, screen
    <2>2. Agree => Agree' BY <2>1 DEF Agree
    <2>3. \A p \in Tasks : (Live(p)' => Live(p)) /\ (Live(p) => Live(p)')
        BY <2>1 DEF Live
    <2>4. ASSUME NEW p \in Tasks, Phase(p) PROVE Phase(p)'
        BY <2>1, <2>4 DEF Phase, Agree, At
    <2> QED BY <1>2, <2>1, <2>2, <2>3, <2>4 DEF OneTask
<1>5. CASE Denied
    <2>1. /\ asking /\ asking' = FALSE /\ profile # NoUser
          /\ UNCHANGED <<queue, disk, mem, alive, profile, access>>
        BY <1>5 DEF Denied, OneTask, server, memory, storage, screen
    <2>2. CASE Live("refresh")
        <3>1. UNCHANGED task BY <1>5, <2>2 DEF Denied
        <3>2. "refresh" \in Tasks /\ Others("refresh")
            BY <3>1 DEF CInv, ClientTypeOK, Others, Tasks
        <3>3. Phase("refresh")'
            BY <2>1, <2>2, <3>1, <3>2 DEF OneTask, Phase, Agree, At
        <3>4. \A q \in Tasks : q # "refresh" => ~Live(q)
            BY <2>2, <3>2, OnlyTask DEF OneTask
        <3> QED BY <1>2, <2>1, <2>2, <3>1, <3>2, <3>3, <3>4 DEF OneTask, Live
    <2>3. CASE ~Live("refresh")
        <3>1. Start("refresh", "load", NoUser) BY <1>5, <2>3 DEF Denied
        <3>2. "refresh" \in Tasks /\ Others("refresh") /\ task'["refresh"].pc = "load"
            BY <3>1, StartsTask DEF CInv, Others, Tasks, Pcs
        <3>3. Agree BY <1>2, <2>3, <3>2, NothingElse DEF Live
        <3>4. Phase("refresh")' BY <2>1, <3>2, <3>3 DEF Phase, Agree, At
        <3> QED BY <1>2, <2>1, <2>3, <3>2, <3>4, PhaseStarts DEF Live
    <2> QED BY <2>2, <2>3
<1>6. CASE Login
    <2>1. PICK u \in Users : Start("login", "asked", u) BY <1>6 DEF Login
    <2>2. profile = NoUser /\ UNCHANGED <<queue, disk, mem, alive, profile, access, asking>>
        BY <1>6 DEF Login, server, memory, storage, screen
    <2>3. /\ "login" \in Tasks /\ Others("login") /\ ~Live("login")
          /\ task'["login"].pc = "asked"
        BY <2>1, StartsTask DEF CInv, Others, Tasks, Pcs
    <2>4. Agree BY <1>2, <2>3, NothingElse DEF Live
    <2>5. Phase("login")' BY <2>2, <2>3, <2>4 DEF Phase, Agree, At
    <2>6. ~asking' BY <2>2 DEF OneTask
    <2> QED BY <1>2, <2>3, <2>5, <2>6, PhaseStarts DEF Live
<1>7. CASE Logout
    <2>1. Start("logout", "load", NoUser) BY <1>7 DEF Logout
    <2>2. profile # NoUser /\ UNCHANGED <<queue, disk, mem, alive, profile, access, asking>>
        BY <1>7 DEF Logout, server, memory, storage, screen
    <2>3. /\ "logout" \in Tasks /\ Others("logout") /\ ~Live("logout")
          /\ task'["logout"].pc = "load"
        BY <2>1, StartsTask DEF CInv, Others, Tasks, Pcs
    <2>4. Agree BY <1>2, <2>3, NothingElse DEF Live
    <2>5. Phase("logout")' BY <2>2, <2>3, <2>4 DEF Phase, Agree, At
    <2> QED BY <1>2, <2>2, <2>3, <2>5, PhaseStarts DEF Live
<1>8. ASSUME NEW p \in Tasks, Load(p) PROVE OneTask'
    <2>1. Live(p) /\ task[p].pc = "load" BY <1>8 DEF Load, At, Live
    <2>2. p \notin {"restore", "login"} /\ Agree /\ profile # NoUser
        BY <2>1 DEF OneTask, Phase, At
    <2>3. mem \in Tokens BY <2>2 DEF Agree, CInv, ClientTypeOK
    <2>4. /\ Present(p, mem)
          /\ UNCHANGED <<queue, disk, mem, alive, profile, access, asking>>
        BY <1>8, <2>3, ConstantsAssumption DEF Load, server, memory, screen
    <2>5. Others(p) /\ task'[p].pc = "asked" /\ task'[p].tok = mem
        BY <2>1, <2>3, <2>4, PresentsToken DEF CInv, Others
    <2>6. Phase(p)' BY <2>2, <2>4, <2>5 DEF Phase, Agree, At
    <2> QED BY <1>2, <2>1, <2>4, <2>5, <2>6, PhaseMoves DEF Live
<1>9. ASSUME NEW p \in Tasks, Serve(p) PROVE OneTask'
    <2>1. Live(p) /\ task[p].pc = "asked" BY <1>9 DEF Serve, At, Live
    <2>2. /\ p # "restore" /\ Agree /\ (p = "login" <=> profile = NoUser)
          /\ p # "login" => task[p].tok = mem
        BY <2>1 DEF OneTask, Phase, At
    <2>3. UNCHANGED <<queue, disk, mem, profile, access, asking>>
        BY <1>9 DEF Serve, memory, storage, screen
    <2>4. CASE p = "logout"
        <3>1. alive' = alive \ {task[p].tok} /\ Goto(p, "ok") BY <1>9, <2>4 DEF Serve
        <3>2. Moves(p, "ok") /\ Others(p)
            BY <2>1, <3>1, GotoMoves DEF CInv, Pcs, Moves, Others
        <3>3. alive' = {} BY <2>2, <2>4, <3>1 DEF Agree
        <3>4. Phase(p)' BY <2>2, <2>3, <2>4, <3>2, <3>3 DEF Phase, Agree, At, Moves
        <3> QED BY <1>2, <2>1, <2>3, <3>2, <3>4, PhaseMoves DEF Live, Moves
    <2>5. CASE p # "logout"
        <3>1. \E t \in Tokens : alive' = {t}
                 /\ task' = [task EXCEPT ![p].pc = "ok", ![p].got = t]
            <4>1. CASE p = "login"
                <5>1. PICK t \in Tokens :
                        /\ alive' = (alive \ {}) \cup {t}
                        /\ task' = [task EXCEPT ![p].pc = "ok", ![p].got = t]
                    BY <1>9, <4>1 DEF Serve, Mint
                <5>2. alive = {} BY <2>2, <4>1 DEF Agree
                <5> QED BY <5>1, <5>2
            <4>2. CASE p # "login"
                <5>1. task[p].tok = mem /\ mem # NoToken /\ mem \in alive
                    BY <2>2, <4>2 DEF Agree
                <5>2. PICK t \in Tokens :
                        /\ alive' = (alive \ {mem}) \cup {t}
                        /\ task' = [task EXCEPT ![p].pc = "ok", ![p].got = t]
                    BY <1>9, <2>5, <4>2, <5>1 DEF Serve, Mint
                <5>3. alive' = {t} BY <2>2, <5>2 DEF Agree
                <5> QED BY <5>2, <5>3
            <4> QED BY <4>1, <4>2
        <3>2. PICK t \in Tokens : alive' = {t}
                 /\ task' = [task EXCEPT ![p].pc = "ok", ![p].got = t]
            BY <3>1
        <3>3. Others(p) /\ task'[p].pc = "ok" /\ task'[p].got = t
            BY <2>1, <3>2, LiveTask DEF CInv, ClientTypeOK, Others, Task, Pcs
        <3>4. Phase(p)' BY <2>2, <2>3, <2>5, <3>2, <3>3 DEF Phase, Agree, At
        <3> QED BY <1>2, <2>1, <2>3, <3>3, <3>4, PhaseMoves DEF Live
    <2> QED BY <2>4, <2>5
<1>10. ASSUME NEW p \in Tasks, ReceiveOk(p) PROVE OneTask'
    <2>1. Live(p) /\ task[p].pc = "ok" /\ p # "logout" BY <1>10 DEF ReceiveOk, At, Live
    <2>2. /\ p # "restore" /\ queue = <<>> /\ alive = {task[p].got}
          /\ p = "login" <=> profile = NoUser
        BY <2>1 DEF OneTask, Phase, At
    <2>3. PICK g \in Tokens \cup {NoToken} : g = task[p].got
        BY <2>1, LiveTask DEF CInv
    <2>4. /\ queue' = Append(queue, Write(p, g)) /\ mem' = g
          /\ UNCHANGED <<disk, alive, profile, asking>>
        BY <1>10, <2>3 DEF ReceiveOk, server, screen
    <2>5. Moves(p, "saving") /\ Others(p)
        BY <1>10, <2>1, GotoMoves DEF CInv, Pcs, ReceiveOk, Moves, Others
    <2>6. queue' = <<Write(p, g)>> BY <2>2, <2>4, SingleWrite
    <2>7. Phase(p)' BY <2>1, <2>2, <2>3, <2>4, <2>5, <2>6 DEF Phase, At, Moves
    <2> QED BY <1>2, <2>1, <2>4, <2>5, <2>7, PhaseMoves DEF Live, Moves
<1>11. ASSUME NEW p \in Tasks, ReceiveRefused(p) PROVE OneTask'
    <2>1. Live(p) /\ task[p].pc \in {"ok", "refused", "failed"}
        BY <1>11 DEF ReceiveRefused, At, Live
    <2>2. p = "logout" /\ queue = <<>> /\ alive = {} /\ profile # NoUser
        BY <1>11, <2>1 DEF OneTask, Phase, At, ReceiveRefused
    <2>3. /\ queue' = Append(queue, Write(p, NoToken)) /\ mem' = NoToken /\ access' = NoUser
          /\ UNCHANGED <<disk, alive, profile, asking>>
        BY <1>11 DEF ReceiveRefused, Clear, server, screen
    <2>4. Moves(p, "clearing") /\ Others(p)
        BY <1>11, <2>1, GotoMoves DEF CInv, Pcs, ReceiveRefused, Clear, Moves, Others
    <2>5. queue' = <<Write(p, NoToken)>> BY <2>2, <2>3, SingleWrite
    <2>6. Phase(p)' BY <2>2, <2>3, <2>4, <2>5 DEF Phase, At, Moves
    <2> QED BY <1>2, <2>1, <2>3, <2>4, <2>6, PhaseMoves DEF Live, Moves
<1>12. ASSUME NEW p \in Tasks PROVE ~GiveUp(p)
    BY DEF GiveUp, OneTask, Phase, At, Live
<1>13. ASSUME NEW p \in Tasks, Saved(p) PROVE OneTask'
    <2>1. Live(p) /\ task[p].pc = "saved" /\ End(p) BY <1>13 DEF Saved, At, Live
    <2>2. /\ p \notin {"restore"} /\ queue = <<>> /\ mem = task[p].got /\ disk = mem
          /\ alive = {mem} /\ (p = "login" <=> profile = NoUser)
        BY <2>1 DEF OneTask, Phase, At
    <2>3. mem # NoToken /\ (p = "login" => task[p].user # NoUser)
        BY <2>1, <2>2 DEF CInv, Carries, At
    <2>4. UNCHANGED <<queue, disk, mem, alive, asking>> /\ profile' # NoUser
        BY <1>13, <2>2, <2>3 DEF Saved, Show, server, memory, storage
    <2>5. Others(p) /\ task'[p].pc = "idle"
        BY <2>1, EndsIdle DEF CInv, Others
    <2>6. Agree' BY <2>2, <2>3, <2>4 DEF Agree
    <2> QED BY <1>2, <2>1, <2>4, <2>5, <2>6, PhaseEnds DEF Live
<1>14. ASSUME NEW p \in Tasks, Cleared(p) PROVE OneTask'
    <2>1. Live(p) /\ task[p].pc = "cleared" /\ End(p) BY <1>14 DEF Cleared, At, Live
    <2>2. /\ p = "logout" /\ queue = <<>> /\ mem = NoToken /\ disk = NoToken
          /\ access = NoUser /\ alive = {}
        BY <2>1 DEF OneTask, Phase, At
    <2>3. UNCHANGED <<queue, disk, mem, alive, access, asking>> /\ profile' = NoUser
        BY <1>14 DEF Cleared, server, memory, storage
    <2>4. Others(p) /\ task'[p].pc = "idle"
        BY <2>1, EndsIdle DEF CInv, Others
    <2>5. Agree' BY <2>2, <2>3 DEF Agree
    <2> QED BY <1>2, <2>1, <2>2, <2>3, <2>4, <2>5, PhaseEnds DEF Live
<1>15. \/ queue = <<>>
       \/ \E p \in Tasks : /\ Live(p) /\ Phase(p) /\ queue = <<Write(p, queue[1].tok)>>
                           /\ At(p, "saving") \/ At(p, "clearing")
    <2>1. CASE \A p \in Tasks : ~Live(p) BY <2>1 DEF OneTask, Agree
    <2>2. ASSUME NEW p \in Tasks, Live(p)
          PROVE \/ queue = <<>>
                \/ /\ Phase(p) /\ queue = <<Write(p, queue[1].tok)>>
                   /\ At(p, "saving") \/ At(p, "clearing")
        BY <2>2 DEF OneTask, Phase, Agree, Write
    <2> QED BY <2>1, <2>2
<1>16. CASE AnswerRead
    BY <1>15, <1>16 DEF AnswerRead, Write
<1>17. CASE Flush
    <2>1. PICK p \in Tasks : /\ Live(p) /\ Phase(p) /\ queue = <<Write(p, queue[1].tok)>>
                             /\ At(p, "saving") \/ At(p, "clearing")
        BY <1>15, <1>17 DEF Flush
    <2>2. PICK e : e = Write(p, queue[1].tok) OBVIOUS
    <2>3. queue = <<e>> /\ e.task = p /\ e.tok = queue[1].tok BY <2>1, <2>2 DEF Write
    <2>4. Head(queue) = e /\ Tail(queue) = <<>> BY <2>3
    <2>5. /\ disk' = e.tok /\ queue' = <<>>
          /\ Goto(p, IF At(p, "saving") THEN "saved" ELSE "cleared")
          /\ UNCHANGED <<mem, alive, profile, access, asking>>
        BY <1>17, <2>3, <2>4 DEF Flush, server, memory, screen
    <2>6. CASE At(p, "saving")
        <3>1. Moves(p, "saved") /\ Others(p)
            BY <2>1, <2>5, <2>6, GotoMoves DEF CInv, Pcs, Moves, Others
        <3>2. /\ queue = <<Write(p, task[p].got)>> /\ mem = task[p].got
              /\ alive = {task[p].got} /\ p # "restore" /\ (p = "login" <=> profile = NoUser)
            BY <2>1, <2>6 DEF Phase, At
        <3>3. e.tok = task[p].got BY <2>3, <3>2 DEF Write
        <3>4. Phase(p)' BY <2>5, <3>1, <3>2, <3>3 DEF Phase, At, Moves
        <3> QED BY <1>2, <2>1, <2>5, <3>1, <3>4, PhaseMoves DEF Live, Moves
    <2>7. CASE At(p, "clearing")
        <3>1. Moves(p, "cleared") /\ Others(p)
            BY <2>1, <2>5, <2>7, GotoMoves DEF CInv, Pcs, Moves, Others, At
        <3>2. /\ queue = <<Write(p, NoToken)>> /\ p = "logout" /\ mem = NoToken
              /\ access = NoUser /\ alive = {} /\ profile # NoUser
            BY <2>1, <2>7 DEF Phase, At
        <3>3. e.tok = NoToken BY <2>3, <3>2 DEF Write
        <3>4. Phase(p)' BY <2>5, <3>1, <3>2, <3>3 DEF Phase, At, Moves
        <3> QED BY <1>2, <2>1, <2>5, <3>1, <3>4, PhaseMoves DEF Live, Moves
    <2> QED BY <2>1, <2>6, <2>7
<1> QED BY <1>1, <1>2, <1>3, <1>4, <1>5, <1>6, <1>7, <1>8, <1>9, <1>10, <1>11, <1>12,
           <1>13, <1>14, <1>16, <1>17, CalmNext

-----------------------------------------------------------------------------
LEMMA AloneInitHolds == MCInit => CInv /\ AloneInv
<1> SUFFICES ASSUME MCInit PROVE CInv /\ AloneInv
    OBVIOUS
<1>1. CInv BY InitHolds DEF MCInit
<1>2. PICK u \in Users \cup {NoUser} : \E t \in Tokens \cup {NoToken} :
         /\ u = NoUser <=> t = NoToken
         /\ alive = {t} \ {NoToken} /\ disk = t /\ profile = u
         /\ asking = (u # NoUser) /\ task = ColdStart(u)
    BY DEF MCInit, Init
<1>3. PICK t \in Tokens \cup {NoToken} :
         /\ u = NoUser <=> t = NoToken
         /\ alive = {t} \ {NoToken} /\ disk = t /\ profile = u
         /\ asking = (u # NoUser) /\ task = ColdStart(u)
    BY <1>2
<1>4. mem = NoToken /\ access = NoUser /\ queue = <<>> BY DEF MCInit, Init
<1>5. \A p \in Tasks : \/ ~Live(p)
                       \/ p = "restore" /\ u # NoUser /\ At(p, "load")
    BY <1>3, ColdTasks DEF Live, At
<1>6. CASE u = NoUser
    <2>1. ~asking /\ \A p \in Tasks : ~Live(p) BY <1>3, <1>5, <1>6
    <2>2. Agree BY <1>3, <1>4, <1>6 DEF Agree
    <2>3. OneTask BY <2>1, <2>2 DEF OneTask, OneBusy, Busy
    <2> QED BY <1>1, <2>3 DEF AloneInv
<1>7. CASE u # NoUser
    <2>1. At("restore", "load")
        BY <1>3, <1>7 DEF ColdStart, Begun, At, Tasks
    <2>2. asking /\ profile # NoUser BY <1>3, <1>7
    <2>3. \A p \in Tasks \ {"restore"} : ~Live(p) BY <1>5
    <2>4. Opening BY <1>4, <2>1, <2>2, <2>3 DEF Opening
    <2> QED BY <1>1, <2>4 DEF AloneInv
<1> QED BY <1>6, <1>7

LEMMA AloneNextHolds == ASSUME CInv /\ AloneInv, [MCNext]_<<vars, overlap>>
    PROVE (CInv /\ AloneInv)'
<1>1. CASE MCNext
    <2>1. CInv' BY <1>1, NextHolds DEF MCNext
    <2>2. ASSUME Alone' PROVE OneTask'
        <3>1. Alone BY <1>1, <2>2, AloneBefore
        <3> QED BY <1>1, <2>2, <3>1, OpeningEnds, OneTaskStep DEF AloneInv
    <2> QED BY <2>1, <2>2 DEF AloneInv
<1>2. CASE UNCHANGED <<vars, overlap>>
    <2>1. CInv' BY <1>2, NextHolds
    <2>2. UNCHANGED <<task, queue, disk, mem, alive, profile, access, asking, overlap, kills, failures>>
        BY <1>2 DEF vars, server, memory, storage, screen, bounds
    <2>3. (Alone' => Alone) /\ (Opening => Opening')
        BY <2>2 DEF Alone, Opening, At, Live
    <2>4. OneTask => OneTask'
        BY <2>2 DEF OneTask, OneBusy, Busy, Agree, Phase, At, Live
    <2> QED BY <2>1, <2>3, <2>4 DEF AloneInv
<1> QED BY <1>1, <1>2

\* From a start that is signed out, as long as one task runs at a time and nothing
\* fails, an app that shows nobody as signed in has left no token behind, neither
\* on the phone nor at the server, after any number of logins and logouts.
THEOREM SignedOutIsCleanAlone == MCSpec => []AloneSignedOutIsClean
<1>1. CInv /\ AloneInv => AloneSignedOutIsClean
    <2> SUFFICES ASSUME AloneInv, Alone, Quiet, profile = NoUser
                 PROVE mem = NoToken /\ disk = NoToken /\ access = NoUser /\ alive = {}
        BY DEF AloneSignedOutIsClean, SignedOutIsClean
    <2>1. ~Opening BY DEF Opening
    <2>2. Agree BY <2>1 DEF AloneInv, OneTask, Quiet
    <2> QED BY <2>2 DEF Agree
<1> QED BY <1>1, AloneInitHolds, AloneNextHolds, PTL DEF MCSpec

\* As long as one task runs at a time and nothing fails, the server refuses no
\* token the app presents, so nobody is signed out by an answer: the overlap of a
\* start is what does it.
THEOREM NobodyRefusedAlone == MCSpec => [](Alone => \A p \in Tasks : ~At(p, "refused"))
<1>1. CInv /\ AloneInv => (Alone => \A p \in Tasks : ~At(p, "refused"))
    <2> SUFFICES ASSUME AloneInv, Alone, NEW p \in Tasks, At(p, "refused") PROVE FALSE
        OBVIOUS
    <2>1. Live(p) BY DEF At, Live
    <2>2. CASE Opening BY <2>1, <2>2 DEF Opening, At
    <2>3. CASE OneTask BY <2>1, <2>3 DEF OneTask, Phase, At
    <2> QED BY <2>2, <2>3 DEF AloneInv
<1> QED BY <1>1, AloneInitHolds, AloneNextHolds, PTL DEF MCSpec

=============================================================================
