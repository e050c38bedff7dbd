-------------------------- MODULE AuthSessionsProofs --------------------------
(***************************************************************************)
(* Proofs about AuthSessions, for any accounts, tokens and request slots   *)
(* and any bounds.                                                         *)
(***************************************************************************)
EXTENDS MCAuthSessions, TLAPS

LEMMA TypeInit == Init => TypeOK
BY ConstantsAssumption DEF Init, TypeOK, Account, Idle, Unminted

LEMMA LiveIsCall ==
    ASSUME TypeOK, NEW r \in Requests, Live(r)
    PROVE  req[r] \in Call
BY DEF TypeOK, Live, Idle

LEMMA MintedIsToken ==
    ASSUME TypeOK, NEW t \in Tokens, Minted(t)
    PROVE  tok[t] \in Token
BY DEF TypeOK, Minted, Unminted

\* The three ways a handler moves.
LEMMA StartType ==
    ASSUME TypeOK, NEW r \in Requests, NEW pc \in Pcs, NEW op \in Ops,
           NEW u \in Users, NEW t \in Tokens \cup {NoToken}, NEW p \in Nat,
           Start(r, pc, op, u, t, p)
    PROVE  req' \in [Requests -> Call \cup {Idle}]
BY DEF TypeOK, Start, Call

LEMMA GotoType ==
    ASSUME TypeOK, NEW r \in Requests, Live(r), NEW pc \in Pcs, Goto(r, pc)
    PROVE  req' \in [Requests -> Call \cup {Idle}]
<1>1. [req[r] EXCEPT !.pc = pc] \in Call
  BY LiveIsCall DEF Call
<1> QED BY <1>1 DEF TypeOK, Goto

LEMMA AnswerType ==
    ASSUME TypeOK, NEW r \in Requests, Answer(r)
    PROVE  req' \in [Requests -> Call \cup {Idle}]
BY DEF TypeOK, Answer

\* What a revocation does to the table.
LEMMA RevokeType ==
    ASSUME TypeOK, NEW T \in SUBSET Tokens, Revoke(T)
    PROVE  tok' \in [Tokens -> Token \cup {Unminted}] /\ dead' \subseteq Tokens
<1>1. \A t \in Tokens : Usable(t) => tok[t] \in Token
  BY MintedIsToken DEF Usable, Minted
<1>2. \A t \in Tokens : Usable(t) => [tok[t] EXCEPT !.status = "revoked"] \in Token
  BY <1>1 DEF Token
<1>3. \A t \in Tokens : Usable(t) => tok[t].root \in Tokens
  BY <1>1 DEF Token
<1> QED BY <1>2, <1>3 DEF TypeOK, Revoke

LEMMA NewTokenType ==
    ASSUME TypeOK, NEW r \in Requests, Live(r), NEW t \in Tokens,
           req[r].tok # NoToken => Minted(req[r].tok)
    PROVE  NewToken(r, t) \in Token
<1>1. req[r] \in Call
  BY LiveIsCall
<1>2. req[r].tok # NoToken => tok[req[r].tok].root \in Tokens
  BY <1>1, MintedIsToken DEF Call, Token
<1> QED BY <1>1, <1>2 DEF NewToken, Token, Call

-----------------------------------------------------------------------------
(* The inductive invariant *)

\* The session of a token began with a login.
Rooted == \A t \in Tokens : Minted(t) => Began(tok[t].root)

\* A token that was exchanged is spent and in the same session.
ParentsSpent == \A t \in Tokens : Minted(t) /\ tok[t].parent # NoToken =>
    /\ tok[t].parent \in Tokens
    /\ Minted(tok[t].parent) /\ ~Usable(tok[t].parent)
    /\ tok[tok[t].parent].root = tok[t].root

\* What a refresh knows of the token it presents; once it has consumed the
\* token, nobody has exchanged it and nobody else will.
Presented == \A r \in Requests :
    /\ At(r, "rotate") => req[r].tok # NoToken
    /\ (At(r, "rotate") \/ At(r, "insert")) /\ req[r].tok # NoToken =>
         Minted(req[r].tok) /\ tok[req[r].tok].owner = req[r].user
    /\ At(r, "insert") /\ req[r].tok # NoToken =>
         /\ ~Usable(req[r].tok)
         /\ \A t \in Tokens : Minted(t) => tok[t].parent # req[r].tok

DeadBegan == \A s \in dead : Began(s)

IInv ==
    /\ TypeOK /\ Rooted /\ ParentsSpent /\ Presented /\ DeadBegan
    /\ SingleUse /\ OneHolder /\ DeadStayDead /\ NoOrphans

LEMMA InvInit == Init => IInv
<1> SUFFICES ASSUME Init PROVE IInv
  OBVIOUS
<1>1. \A t \in Tokens : ~Minted(t) /\ ~Usable(t)
  BY DEF Init, Minted, Usable, Unminted
<1>2. \A r \in Requests : req[r].pc = "idle"
  BY DEF Init, Idle
<1>3. dead = {}
  BY DEF Init
<1> QED
  BY <1>1, <1>2, <1>3, TypeInit DEF IInv, Rooted, ParentsSpent, Presented,
     DeadBegan, SingleUse, OneHolder, DeadStayDead, NoOrphans, At, Carries

LEMMA TypeStep == IInv /\ [Next]_vars => TypeOK'
<1> SUFFICES ASSUME IInv, [Next]_vars PROVE TypeOK'
  OBVIOUS
<1> USE DEF IInv
<1>1. ASSUME NEW r \in Requests, Login(r) PROVE TypeOK'
  <2>1. PICK u \in Users : Start(r, "insert", "login", u, NoToken, account[u].pwd)
    BY <1>1 DEF Login
  <2>2. account[u].pwd \in Nat
    BY DEF TypeOK, Account
  <2>3. req' \in [Requests -> Call \cup {Idle}]
    BY <2>1, <2>2, StartType DEF Pcs, Ops
  <2> QED BY <1>1, <2>3 DEF Login, tables, TypeOK
<1>2. ASSUME NEW r \in Requests, RefreshRead(r) PROVE TypeOK'
  <2>1. PICK t \in Tokens :
          Usable(t) /\ Start(r, "rotate", "refresh", tok[t].owner, t, tok[t].pwd)
    BY <1>2 DEF RefreshRead
  <2>2. tok[t].owner \in Users /\ tok[t].pwd \in Nat
    BY <2>1, MintedIsToken DEF Usable, Minted, Token
  <2>3. req' \in [Requests -> Call \cup {Idle}]
    BY <2>1, <2>2, StartType DEF Pcs, Ops
  <2> QED BY <1>2, <2>3 DEF RefreshRead, tables, TypeOK
<1>3. ASSUME NEW r \in Requests, Rotate(r) PROVE TypeOK'
  <2>1. Live(r) /\ req[r] \in Call
    BY <1>3, LiveIsCall DEF Rotate, At, Live
  <2>2. req[r].tok \in Tokens
    BY <1>3, <2>1 DEF Rotate, Presented, Call
  <2>3. [tok[req[r].tok] EXCEPT !.status = "revoked"] \in Token
    BY <1>3, <2>2, MintedIsToken DEF Rotate, Usable, Minted, Token
  <2>4. tok' \in [Tokens -> Token \cup {Unminted}]
    BY <1>3, <2>2, <2>3 DEF Rotate, TypeOK
  <2>5. req' \in [Requests -> Call \cup {Idle}]
    BY <1>3, <2>1, GotoType DEF Rotate, Pcs
  <2> QED BY <1>3, <2>4, <2>5 DEF Rotate, TypeOK
<1>4. ASSUME NEW r \in Requests, RotateLost(r) \/ InsertFails(r) PROVE TypeOK'
  BY <1>4, AnswerType DEF RotateLost, InsertFails, tables, TypeOK
<1>5. ASSUME NEW r \in Requests, Insert(r) PROVE TypeOK'
  <2>1. PICK t \in Tokens : tok' = [tok EXCEPT ![t] = NewToken(r, t)]
    BY <1>5 DEF Insert
  <2>2. NewToken(r, t) \in Token
    BY <1>5, NewTokenType DEF Insert, At, Live, Presented
  <2>3. tok' \in [Tokens -> Token \cup {Unminted}]
    BY <2>1, <2>2 DEF TypeOK
  <2>4. req' \in [Requests -> Call \cup {Idle}]
    BY <1>5, AnswerType DEF Insert
  <2> QED BY <1>5, <2>3, <2>4 DEF Insert, TypeOK
<1>6. ASSUME NEW r \in Requests, LogoutAll(r) PROVE TypeOK'
  <2>1. PICK u \in Users : Start(r, "revokeAll", "logoutAll", u, NoToken, 0)
    BY <1>6 DEF LogoutAll
  <2>2. req' \in [Requests -> Call \cup {Idle}]
    BY <2>1, StartType DEF Pcs, Ops
  <2> QED BY <1>6, <2>2 DEF LogoutAll, tables, TypeOK
<1>7. ASSUME NEW r \in Requests, AdminStart(r) PROVE TypeOK'
  <2>1. PICK u \in Users, op \in AdminOps :
          Start(r, FirstStatement(op), op, u, NoToken, 0)
    BY <1>7 DEF AdminStart
  <2>2. FirstStatement(op) \in Pcs /\ op \in Ops
    BY DEF FirstStatement, Pcs, Ops, AdminOps
  <2>3. req' \in [Requests -> Call \cup {Idle}]
    BY <2>1, <2>2, StartType
  <2> QED BY <1>7, <2>3 DEF AdminStart, tables, TypeOK
<1>8. ASSUME NEW r \in Requests, Write(r) PROVE TypeOK'
  <2>1. Live(r) /\ req[r] \in Call
    BY <1>8, LiveIsCall DEF Write, At, Live
  <2>2. account[req[r].user] \in Account
    BY <2>1 DEF TypeOK, Call
  <2>3. Written(r) \in Account
    <3>1. \A a \in Account : [a EXCEPT !.disabled = TRUE] \in Account
      BY DEF Account
    <3>2. \A a \in Account : [a EXCEPT !.disabled = FALSE] \in Account
      BY DEF Account
    <3>3. \A a \in Account : [a EXCEPT !.pwd = a.pwd + 1] \in Account
      BY DEF Account
    <3> QED BY <2>2, <3>1, <3>2, <3>3 DEF Written
  <2>4. account' \in [Users -> Account]
    BY <1>8, <2>1, <2>3 DEF Write, TypeOK, Call
  <2>5. req' \in [Requests -> Call \cup {Idle}]
    BY <1>8, <2>1, GotoType, AnswerType DEF Write, AfterWrite, Pcs
  <2> QED BY <1>8, <2>4, <2>5 DEF Write, TypeOK
<1>9. ASSUME NEW r \in Requests, WriteMisses(r) PROVE TypeOK'
  <2>1. req' \in [Requests -> Call \cup {Idle}]
    BY <1>9, GotoType, AnswerType DEF WriteMisses, At, Live, Pcs
  <2> QED BY <1>9, <2>1 DEF WriteMisses, tables, TypeOK
<1>10. ASSUME NEW r \in Requests, RevokeAll(r) PROVE TypeOK'
  <2>1. req' \in [Requests -> Call \cup {Idle}]
    BY <1>10, GotoType, AnswerType DEF RevokeAll, At, Live, Pcs
  <2>2. tok' \in [Tokens -> Token \cup {Unminted}] /\ dead' \subseteq Tokens
    BY <1>10, RevokeType DEF RevokeAll, UsableOf
  <2> QED BY <1>10, <2>1, <2>2 DEF RevokeAll, TypeOK
<1>11. ASSUME NEW r \in Requests, Delete(r) PROVE TypeOK'
  <2>1. req[r] \in Call
    BY <1>11, LiveIsCall DEF Delete, At, Live
  <2>2. account' \in [Users -> Account]
    BY <1>11, <2>1 DEF Delete, TypeOK, Call, Account
  <2>3. \A t \in Tokens : Minted(t) => [tok[t] EXCEPT !.status = "gone"] \in Token
    BY MintedIsToken DEF Token
  <2>4. tok' \in [Tokens -> Token \cup {Unminted}]
    BY <1>11, <2>3 DEF Delete, TypeOK
  <2>5. req' \in [Requests -> Call \cup {Idle}]
    BY <1>11, AnswerType DEF Delete
  <2> QED BY <1>11, <2>2, <2>4, <2>5 DEF Delete, TypeOK
<1>12. ASSUME Logout PROVE TypeOK'
  <2>1. tok' \in [Tokens -> Token \cup {Unminted}] /\ dead' \subseteq Tokens
    BY <1>12, RevokeType DEF Logout
  <2> QED BY <1>12, <2>1 DEF Logout, TypeOK
<1>13. ASSUME Expire PROVE TypeOK'
  <2>1. PICK t \in Tokens : Usable(t) /\ tok' = [tok EXCEPT ![t].expired = TRUE]
    BY <1>13 DEF Expire
  <2>2. [tok[t] EXCEPT !.expired = TRUE] \in Token
    BY <2>1, MintedIsToken DEF Usable, Minted, Token
  <2>3. tok' \in [Tokens -> Token \cup {Unminted}]
    BY <2>1, <2>2 DEF TypeOK
  <2> QED BY <1>13, <2>3 DEF Expire, TypeOK
<1>14. CASE Crash
  BY <1>14 DEF Crash, tables, TypeOK
<1>15. CASE UNCHANGED vars
  BY <1>15 DEF vars, tables, TypeOK
<1> QED
  BY <1>1, <1>2, <1>3, <1>4, <1>5, <1>6, <1>7, <1>8, <1>9, <1>10, <1>11, <1>12,
     <1>13, <1>14, <1>15 DEF Next, Handler

-----------------------------------------------------------------------------
(* Most actions only take usability away, and put no handler on a token.   *)

Milder ==
    /\ \A t \in Tokens :
        /\ Minted(t)' <=> Minted(t)
        /\ Usable(t)' => Usable(t) /\ account'[tok[t].owner].exists
        /\ Minted(t) => /\ tok'[t].root = tok[t].root
                        /\ tok'[t].parent = tok[t].parent
                        /\ tok'[t].owner = tok[t].owner
    /\ \A r \in Requests :
        \/ req'[r].pc = req[r].pc /\ req'[r].tok = req[r].tok /\ req'[r].user = req[r].user
        \/ req'[r].pc = "insert" /\ req'[r].tok = NoToken
        \/ req'[r].pc \notin {"rotate", "insert"}
    /\ \A s \in dead' \ dead : \E t \in Tokens :
        Usable(t) /\ ~Usable(t)' /\ tok[t].root = s

LEMMA MilderKeeps ==
    ASSUME IInv, TypeOK', Milder
    PROVE  IInv'
<1> USE DEF IInv
<1>1. \A t \in Tokens : Minted(t) => tok[t].root \in Tokens /\ Minted(tok[t].root)
  BY MintedIsToken DEF Token, Rooted, Began
<1>2. \A r \in Requests, s \in Tokens : Carries(r, s)' => Carries(r, s)
  <2> SUFFICES ASSUME NEW r \in Requests, NEW s \in Tokens, Carries(r, s)'
               PROVE  Carries(r, s)
    OBVIOUS
  <2>1. req[r].pc = "insert" /\ req[r].tok = req'[r].tok /\ req[r].tok # NoToken
    BY DEF Milder, Carries, At
  <2>2. req[r] \in Call
    BY <2>1, LiveIsCall DEF Live
  <2>3. Minted(req[r].tok) /\ req[r].tok \in Tokens
    BY <2>1, <2>2 DEF Presented, At, Call
  <2> QED BY <2>1, <2>3 DEF Milder, Carries, At
<1>3. Rooted'
  BY <1>1 DEF Milder, Rooted, Began
<1>4. ParentsSpent'
  BY DEF Milder, ParentsSpent
<1>5. Presented'
  <2> SUFFICES ASSUME NEW r \in Requests
      PROVE  /\ At(r, "rotate")' => req'[r].tok # NoToken
             /\ (At(r, "rotate") \/ At(r, "insert"))' /\ req'[r].tok # NoToken =>
                  Minted(req[r].tok)' /\ tok'[req'[r].tok].owner = req'[r].user
             /\ At(r, "insert")' /\ req'[r].tok # NoToken =>
                  /\ ~Usable(req[r].tok)'
                  /\ \A t \in Tokens : Minted(t)' => tok'[t].parent # req'[r].tok
    BY DEF Presented
  <2>1. CASE ~(At(r, "rotate") \/ At(r, "insert"))' \/ (At(r, "insert")' /\ req'[r].tok = NoToken)
    BY <2>1 DEF At
  <2>2. CASE (At(r, "rotate") \/ At(r, "insert"))' /\ ~(At(r, "insert")' /\ req'[r].tok = NoToken)
    <3>1. req'[r].pc = req[r].pc /\ req'[r].tok = req[r].tok /\ req'[r].user = req[r].user
      BY <2>2 DEF Milder, At
    <3>2. At(r, "rotate") \/ At(r, "insert")
      BY <2>2, <3>1 DEF At
    <3>3. req[r].tok # NoToken
      BY <2>2, <3>1, <3>2 DEF Presented, At
    <3>4. req[r].tok \in Tokens
      BY <3>2, <3>3, LiveIsCall DEF At, Live, Call
    <3>5. Minted(req[r].tok) /\ tok[req[r].tok].owner = req[r].user
      BY <3>2, <3>3 DEF Presented
    <3>6. At(r, "insert") =>
            ~Usable(req[r].tok) /\ \A t \in Tokens : Minted(t) => tok[t].parent # req[r].tok
      BY <3>3 DEF Presented
    <3> QED BY <3>1, <3>3, <3>4, <3>5, <3>6 DEF Milder, At
  <2> QED BY <2>1, <2>2
<1>6. DeadBegan'
  <2> SUFFICES ASSUME NEW s \in dead' PROVE Began(s)'
    BY DEF DeadBegan
  <2>1. s \in Tokens
    BY DEF TypeOK
  <2>2. Began(s)
    BY DEF Milder, DeadBegan, Rooted, Usable, Minted
  <2> QED BY <2>1, <2>2 DEF Began, Milder
<1>7. SingleUse'
  BY DEF Milder, SingleUse
<1>8. OneHolder'
  <2>1. \A t \in Tokens : Usable(t)' => Usable(t) /\ tok'[t].root = tok[t].root
    BY DEF Milder, Usable, Minted
  <2> QED BY <1>2, <2>1 DEF OneHolder
<1>9. DeadStayDead'
  <2>1. \A t \in Tokens : Usable(t)' => Usable(t) /\ tok'[t].root = tok[t].root
    BY DEF Milder, Usable, Minted
  <2>2. ASSUME NEW t \in Tokens, Usable(t)' PROVE tok'[t].root \notin dead'
    <3>1. tok[t].root \notin dead /\ tok[t].root \in Tokens
      BY <2>1, <2>2, <1>1 DEF DeadStayDead, Usable, Minted
    <3>2. \A x \in Tokens : Usable(x) /\ tok[x].root = tok[t].root => x = t
      BY <2>1, <2>2, <3>1 DEF OneHolder
    <3> QED BY <2>1, <2>2, <3>1, <3>2 DEF Milder
  <2>3. ASSUME NEW r \in Requests, NEW s \in dead', Carries(r, s)' PROVE FALSE
    <3>1. s \in Tokens /\ Carries(r, s)
      BY <2>3, <1>2 DEF TypeOK
    <3>2. s \notin dead
      BY <3>1 DEF DeadStayDead
    <3>3. \A x \in Tokens : ~(Usable(x) /\ tok[x].root = s)
      BY <3>1 DEF OneHolder
    <3> QED BY <3>2, <3>3 DEF Milder
  <2> QED BY <2>2, <2>3 DEF DeadStayDead
<1>10. NoOrphans'
  BY DEF Milder, NoOrphans, Usable, Minted
<1> QED BY <1>3, <1>4, <1>5, <1>6, <1>7, <1>8, <1>9, <1>10

LEMMA RevokeEffect ==
    ASSUME IInv, NEW T \in SUBSET Tokens, Revoke(T)
    PROVE  /\ \A t \in Tokens :
               /\ Minted(t)' <=> Minted(t)
               /\ Usable(t)' => Usable(t)
               /\ t \in T => ~Usable(t)'
               /\ ~Usable(t) => tok'[t] = tok[t]
               /\ Minted(t) => /\ tok'[t].root = tok[t].root
                               /\ tok'[t].parent = tok[t].parent
                               /\ tok'[t].owner = tok[t].owner
           /\ \A t \in Tokens : t \notin T => tok'[t] = tok[t]
           /\ \A s \in dead' \ dead : \E t \in Tokens :
                Usable(t) /\ ~Usable(t)' /\ tok[t].root = s
           /\ \A t \in T : Usable(t) => tok[t].root \in dead'
<1>1. \A t \in Tokens : tok'[t] = IF t \in T /\ Usable(t)
                                  THEN [tok[t] EXCEPT !.status = "revoked"] ELSE tok[t]
  BY DEF Revoke
<1>2. \A t \in Tokens : Usable(t) => tok[t] \in Token
  BY MintedIsToken DEF IInv, Usable, Minted
<1>3. \A x \in Token : LET y == [x EXCEPT !.status = "revoked"]
        IN y.status = "revoked" /\ y.root = x.root /\ y.parent = x.parent /\ y.owner = x.owner
  BY DEF Token
<1>4. \A t \in Tokens :
        IF t \in T /\ Usable(t)
        THEN /\ tok'[t].status = "revoked" /\ tok'[t].root = tok[t].root
             /\ tok'[t].parent = tok[t].parent /\ tok'[t].owner = tok[t].owner
        ELSE tok'[t] = tok[t]
  BY <1>1, <1>2, <1>3
<1>5. dead' = dead \cup {tok[t].root : t \in {x \in T : Usable(x)}}
  BY DEF Revoke
<1> QED BY <1>4, <1>5 DEF Usable, Minted

\* What the actions other than RefreshRead, Rotate and Insert do.
Mild ==
    \/ \E r \in Requests :
        \/ Login(r) \/ RotateLost(r) \/ InsertFails(r) \/ LogoutAll(r)
        \/ AdminStart(r) \/ Write(r) \/ WriteMisses(r) \/ RevokeAll(r) \/ Delete(r)
    \/ Logout \/ Expire \/ Crash \/ UNCHANGED vars

LEMMA MildIsMilder ==
    ASSUME IInv, Mild
    PROVE  Milder
<1> USE DEF IInv
<1>1. \A t \in Tokens : Usable(t) => account[tok[t].owner].exists
  BY DEF NoOrphans
<1>2. ASSUME NEW r \in Requests, Answer(r)
      PROVE  \A q \in Requests :
        \/ req'[q].pc = req[q].pc /\ req'[q].tok = req[q].tok /\ req'[q].user = req[q].user
        \/ req'[q].pc \notin {"rotate", "insert"}
  BY <1>2 DEF Answer, Idle, TypeOK
<1>3. ASSUME NEW r \in Requests, NEW pc, pc \notin {"rotate", "insert"},
             Live(r), Goto(r, pc)
      PROVE  \A q \in Requests :
        \/ req'[q].pc = req[q].pc /\ req'[q].tok = req[q].tok /\ req'[q].user = req[q].user
        \/ req'[q].pc \notin {"rotate", "insert"}
  <2>1. req[r] \in Call
    BY <1>3, LiveIsCall
  <2>2. req'[r].pc = pc /\ \A q \in Requests : q # r => req'[q] = req[q]
    BY <1>3, <2>1 DEF Goto, TypeOK, Call
  <2> QED BY <1>3, <2>2
<1>4. ASSUME NEW r \in Requests, NEW pc, NEW op, NEW u, NEW p,
             pc \notin {"rotate"}, Start(r, pc, op, u, NoToken, p)
      PROVE  \A q \in Requests :
        \/ req'[q].pc = req[q].pc /\ req'[q].tok = req[q].tok /\ req'[q].user = req[q].user
        \/ req'[q].pc = "insert" /\ req'[q].tok = NoToken
        \/ req'[q].pc \notin {"rotate", "insert"}
  BY <1>4 DEF Start, TypeOK
<1>5. CASE \E r \in Requests : Login(r)
  BY <1>1, <1>4, <1>5 DEF Login, tables, Milder, Minted, Usable
<1>6. CASE \E r \in Requests : RotateLost(r) \/ InsertFails(r)
  BY <1>1, <1>2, <1>6 DEF RotateLost, InsertFails, tables, Milder, Minted, Usable
<1>7. CASE \E r \in Requests : LogoutAll(r)
  BY <1>1, <1>4, <1>7 DEF LogoutAll, tables, Milder, Minted, Usable
<1>8. CASE \E r \in Requests : AdminStart(r)
  <2>1. \A op : FirstStatement(op) \notin {"rotate", "insert"}
    BY DEF FirstStatement
  <2> QED BY <1>1, <1>4, <1>8, <2>1 DEF AdminStart, tables, Milder, Minted, Usable
<1>9. CASE \E r \in Requests : Write(r)
  <2>1. PICK r \in Requests : Write(r)
    BY <1>9
  <2>2. Live(r) /\ req[r] \in Call
    BY <2>1, LiveIsCall DEF Write, At, Live
  <2>3. \A a \in Account : /\ [a EXCEPT !.disabled = TRUE].exists = a.exists
                           /\ [a EXCEPT !.disabled = FALSE].exists = a.exists
                           /\ [a EXCEPT !.pwd = a.pwd + 1].exists = a.exists
    BY DEF Account
  <2>4. account[req[r].user] \in Account
    BY <2>2 DEF TypeOK, Call
  <2>5. Written(r).exists = account[req[r].user].exists
    BY <2>3, <2>4 DEF Written
  <2>6. \A u \in Users : account'[u].exists = account[u].exists
    BY <2>1, <2>2, <2>5 DEF Write, TypeOK, Call
  <2>7. \A t \in Tokens : Usable(t) => tok[t].owner \in Users
    BY MintedIsToken DEF Usable, Minted, Token
  <2>8. \A q \in Requests :
        \/ req'[q].pc = req[q].pc /\ req'[q].tok = req[q].tok /\ req'[q].user = req[q].user
        \/ req'[q].pc \notin {"rotate", "insert"}
    BY <2>1, <2>2, <1>2, <1>3 DEF Write, AfterWrite
  <2> QED BY <1>1, <2>1, <2>6, <2>7, <2>8 DEF Write, Milder, Minted, Usable
<1>10. CASE \E r \in Requests : WriteMisses(r)
  BY <1>1, <1>2, <1>3, <1>10 DEF WriteMisses, At, Live, tables, Milder, Minted, Usable
<1>11. CASE \E r \in Requests : RevokeAll(r)
  <2>1. PICK r \in Requests : RevokeAll(r)
    BY <1>11
  <2>2. Live(r) /\ UsableOf(req[r].user) \in SUBSET Tokens
    BY <2>1 DEF RevokeAll, At, Live, UsableOf
  <2>3. \A q \in Requests :
        \/ req'[q].pc = req[q].pc /\ req'[q].tok = req[q].tok /\ req'[q].user = req[q].user
        \/ req'[q].pc \notin {"rotate", "insert"}
    BY <2>1, <2>2, <1>2, <1>3 DEF RevokeAll
  <2> QED BY <1>1, <2>1, <2>2, <2>3, RevokeEffect DEF RevokeAll, Milder
<1>12. CASE \E r \in Requests : Delete(r)
  <2>1. PICK r \in Requests : Delete(r)
    BY <1>12
  <2>2. \A t \in Tokens : Minted(t) => tok[t] \in Token
    BY MintedIsToken
  <2>3. \A x \in Token : LET y == [x EXCEPT !.status = "gone"]
        IN y.status = "gone" /\ y.root = x.root /\ y.parent = x.parent /\ y.owner = x.owner
    BY DEF Token
  <2>4. \A t \in Tokens :
        IF Minted(t) /\ tok[t].owner = req[r].user
        THEN /\ tok'[t].status = "gone" /\ tok'[t].root = tok[t].root
             /\ tok'[t].parent = tok[t].parent /\ tok'[t].owner = tok[t].owner
        ELSE tok'[t] = tok[t]
    BY <2>1, <2>2, <2>3 DEF Delete
  <2>5. \A u \in Users : u # req[r].user => account'[u] = account[u]
    BY <2>1 DEF Delete, TypeOK
  <2>6. \A t \in Tokens : Usable(t) => tok[t].owner \in Users
    BY <2>2 DEF Usable, Minted, Token
  <2> QED BY <1>1, <1>2, <2>1, <2>4, <2>5, <2>6 DEF Delete, Milder, Minted, Usable
<1>13. CASE Logout
  <2>1. PICK t \in Tokens : Revoke({t})
    BY <1>13 DEF Logout
  <2> QED BY <1>1, <1>13, <2>1, RevokeEffect DEF Logout, Milder
<1>14. CASE Expire
  <2>1. PICK t \in Tokens : Usable(t) /\ tok' = [tok EXCEPT ![t].expired = TRUE]
    BY <1>14 DEF Expire
  <2>2. tok[t] \in Token
    BY <2>1, MintedIsToken DEF Usable, Minted
  <2>3. /\ tok'[t].status = tok[t].status /\ tok'[t].root = tok[t].root
        /\ tok'[t].parent = tok[t].parent /\ tok'[t].owner = tok[t].owner
        /\ \A x \in Tokens : x # t => tok'[x] = tok[x]
    BY <2>1, <2>2 DEF Token, TypeOK
  <2> QED BY <1>1, <1>14, <2>3 DEF Expire, Milder, Minted, Usable
<1>15. CASE Crash
  BY <1>1, <1>15 DEF Crash, tables, Idle, Milder, Minted, Usable
<1>16. CASE UNCHANGED vars
  BY <1>1, <1>16 DEF vars, tables, Milder, Minted, Usable
<1> QED
  BY <1>5, <1>6, <1>7, <1>8, <1>9, <1>10, <1>11, <1>12, <1>13, <1>14, <1>15, <1>16
  DEF Mild

-----------------------------------------------------------------------------
(* The three actions that make a session move. *)

LEMMA RefreshReadKeeps ==
    ASSUME IInv, TypeOK', NEW r \in Requests, RefreshRead(r)
    PROVE  IInv'
<1> USE DEF IInv
<1>1. PICK t \in Tokens :
        Usable(t) /\ Start(r, "rotate", "refresh", tok[t].owner, t, tok[t].pwd)
  BY DEF RefreshRead
<1>2. tok' = tok /\ dead' = dead /\ account' = account
  BY DEF RefreshRead, tables
<1>3. /\ req'[r].pc = "rotate" /\ req'[r].tok = t /\ req'[r].user = tok[t].owner
      /\ \A q \in Requests : q # r => req'[q] = req[q]
  BY <1>1 DEF Start, TypeOK
<1>4. Minted(t) /\ t # NoToken
  BY <1>1, ConstantsAssumption DEF Usable, Minted
<1>5. \A q \in Requests, s \in Tokens : Carries(q, s)' => Carries(q, s)
  BY <1>2, <1>3 DEF Carries, At
<1>6. Presented'
  <2>1. \A q \in Requests : q # r => (At(q, "rotate")' <=> At(q, "rotate"))
                                  /\ (At(q, "insert")' <=> At(q, "insert"))
    BY <1>3 DEF At
  <2> QED BY <1>2, <1>3, <1>4, <2>1 DEF Presented, Usable, Minted, At
<1>7. Rooted' /\ ParentsSpent' /\ DeadBegan' /\ SingleUse' /\ NoOrphans'
  BY <1>2 DEF Rooted, ParentsSpent, DeadBegan, SingleUse, NoOrphans, Began, Minted, Usable
<1>8. OneHolder'
  BY <1>2, <1>5 DEF OneHolder, Usable
<1>9. DeadStayDead'
  BY <1>2, <1>5 DEF DeadStayDead, Usable, TypeOK
<1> QED BY <1>6, <1>7, <1>8, <1>9

\* A rotation consumes its token and becomes the carrier of its session.
LEMMA RotateEffect ==
    ASSUME IInv, NEW r \in Requests, Rotate(r)
    PROVE  LET c == req[r].tok IN
           /\ c \in Tokens /\ c # NoToken /\ Usable(c) /\ ~Usable(c)'
           /\ tok'[c].status = "revoked" /\ tok'[c].root = tok[c].root
           /\ tok'[c].parent = tok[c].parent /\ tok'[c].owner = tok[c].owner
           /\ \A t \in Tokens : t # c => tok'[t] = tok[t]
           /\ tok[c].root \in Tokens /\ tok[c].owner = req[r].user
           /\ req'[r].pc = "insert" /\ req'[r].tok = c /\ req'[r].user = req[r].user
           /\ \A q \in Requests : q # r => req'[q] = req[q]
           /\ dead' = dead /\ account' = account
<1>1. req[r] \in Call /\ TypeOK
  BY LiveIsCall DEF IInv, Rotate, At, Live
<1>2. req[r].tok # NoToken /\ tok[req[r].tok].owner = req[r].user
  BY DEF IInv, Presented, Rotate
<1>3. req[r].tok \in Tokens
  BY <1>1, <1>2 DEF Call
<1>4. tok[req[r].tok] \in Token
  BY <1>1, <1>3, MintedIsToken DEF Rotate, Usable, Minted
<1>5. \A x \in Token : LET y == [x EXCEPT !.status = "revoked"]
        IN y.status = "revoked" /\ y.root = x.root /\ y.parent = x.parent /\ y.owner = x.owner
  BY DEF Token
<1>6. /\ tok'[req[r].tok] = [tok[req[r].tok] EXCEPT !.status = "revoked"]
      /\ \A t \in Tokens : t # req[r].tok => tok'[t] = tok[t]
  BY <1>1, <1>3 DEF Rotate, TypeOK
<1>7. /\ req'[r].pc = "insert" /\ req'[r].tok = req[r].tok /\ req'[r].user = req[r].user
      /\ \A q \in Requests : q # r => req'[q] = req[q]
  BY <1>1 DEF Rotate, Goto, TypeOK, Call
<1>8. Usable(req[r].tok) /\ dead' = dead /\ account' = account
  BY DEF Rotate
<1>9. tok[req[r].tok].root \in Tokens
  BY <1>4 DEF Token
<1>10. /\ tok'[req[r].tok].status = "revoked"
       /\ tok'[req[r].tok].root = tok[req[r].tok].root
       /\ tok'[req[r].tok].parent = tok[req[r].tok].parent
       /\ tok'[req[r].tok].owner = tok[req[r].tok].owner
  BY <1>4, <1>5, <1>6
<1> QED BY <1>2, <1>3, <1>6, <1>7, <1>8, <1>9, <1>10 DEF Usable

LEMMA RotateKeeps ==
    ASSUME IInv, TypeOK', NEW r \in Requests, Rotate(r)
    PROVE  IInv'
<1> USE DEF IInv
<1>1. PICK c \in Tokens :
        /\ c = req[r].tok /\ c # NoToken /\ Usable(c) /\ ~Usable(c)'
        /\ tok'[c].status = "revoked" /\ tok'[c].root = tok[c].root
        /\ tok'[c].parent = tok[c].parent /\ tok'[c].owner = tok[c].owner
        /\ \A t \in Tokens : t # c => tok'[t] = tok[t]
        /\ tok[c].root \in Tokens /\ tok[c].owner = req[r].user
        /\ req'[r].pc = "insert" /\ req'[r].tok = c /\ req'[r].user = req[r].user
        /\ \A q \in Requests : q # r => req'[q] = req[q]
        /\ dead' = dead /\ account' = account
  BY RotateEffect
<1>2. \A t \in Tokens :
        /\ Minted(t)' <=> Minted(t)
        /\ Usable(t)' <=> Usable(t) /\ t # c
        /\ tok'[t].root = tok[t].root /\ tok'[t].parent = tok[t].parent
        /\ tok'[t].owner = tok[t].owner
  BY <1>1 DEF Minted, Usable
<1>3. \A t \in Tokens : Minted(t) => tok[t].parent # c
  BY <1>1 DEF ParentsSpent
<1>4. \A q \in Requests, s \in Tokens :
        Carries(q, s)' <=> Carries(q, s) \/ (q = r /\ s = tok[c].root)
  <2> SUFFICES ASSUME NEW q \in Requests, NEW s \in Tokens
               PROVE Carries(q, s)' <=> Carries(q, s) \/ (q = r /\ s = tok[c].root)
    OBVIOUS
  <2>1. CASE q = r
    BY <1>1, <2>1 DEF Carries, At, Rotate
  <2>2. CASE q # r
    <3>1. At(q, "insert") /\ req[q].tok # NoToken => req[q].tok \in Tokens
      BY LiveIsCall DEF At, Live, Call
    <3> QED BY <1>1, <1>2, <2>2, <3>1 DEF Carries, At
  <2> QED BY <2>1, <2>2
<1>5. Rooted'
  BY <1>2, MintedIsToken DEF Rooted, Began, Token
<1>6. ParentsSpent'
  BY <1>2 DEF ParentsSpent
<1>7. DeadBegan' /\ SingleUse' /\ NoOrphans'
  BY <1>1, <1>2 DEF DeadBegan, SingleUse, NoOrphans, Began, TypeOK
<1>8. Presented'
  <2> SUFFICES ASSUME NEW q \in Requests
      PROVE  /\ At(q, "rotate")' => req'[q].tok # NoToken
             /\ (At(q, "rotate") \/ At(q, "insert"))' /\ req'[q].tok # NoToken =>
                  Minted(req[q].tok)' /\ tok'[req'[q].tok].owner = req'[q].user
             /\ At(q, "insert")' /\ req'[q].tok # NoToken =>
                  /\ ~Usable(req[q].tok)'
                  /\ \A t \in Tokens : Minted(t)' => tok'[t].parent # req'[q].tok
    BY DEF Presented
  <2>1. CASE q = r
    BY <1>1, <1>2, <1>3, <2>1 DEF At, Usable, Minted
  <2>2. CASE q # r
    <3>1. req'[q] = req[q]
      BY <1>1, <2>2
    <3>2. At(q, "rotate") \/ At(q, "insert") => req[q].tok \in Tokens \cup {NoToken}
      BY LiveIsCall DEF At, Live, Call
    <3> QED BY <1>2, <3>1, <3>2 DEF At, Presented
  <2> QED BY <2>1, <2>2
<1>9. OneHolder'
  BY <1>1, <1>2, <1>4 DEF OneHolder
<1>10. DeadStayDead'
  BY <1>1, <1>2, <1>4 DEF DeadStayDead, TypeOK
<1> QED BY <1>5, <1>6, <1>7, <1>8, <1>9, <1>10

\* A new token opens a session (a login) or continues the one its handler
\* carries (a refresh).
LEMMA InsertEffect ==
    ASSUME IInv, NEW r \in Requests, Insert(r)
    PROVE  \E n \in Tokens :
           /\ ~Minted(n) /\ tok' = [tok EXCEPT ![n] = NewToken(r, n)]
           /\ Minted(n)' /\ Usable(n)' /\ tok'[n].owner = req[r].user
           /\ tok'[n].parent = req[r].tok
           /\ req[r].tok = NoToken => tok'[n].root = n
           /\ req[r].tok # NoToken =>
                /\ Carries(r, tok'[n].root) /\ tok'[n].root = tok[req[r].tok].root
                /\ req[r].tok \in Tokens
           /\ \A t \in Tokens : t # n => tok'[t] = tok[t]
           /\ req'[r] = Idle /\ \A q \in Requests : q # r => req'[q] = req[q]
           /\ dead' = dead /\ account' = account
           /\ account[req[r].user].exists
<1>1. req[r] \in Call /\ TypeOK
  BY LiveIsCall DEF IInv, Insert, At, Live
<1>2. PICK n \in Tokens : ~Minted(n) /\ tok' = [tok EXCEPT ![n] = NewToken(r, n)]
  BY DEF Insert
<1>3. tok'[n] = NewToken(r, n) /\ \A t \in Tokens : t # n => tok'[t] = tok[t]
  BY <1>1, <1>2 DEF TypeOK
<1>4. /\ Minted(n)' /\ Usable(n)' /\ tok'[n].owner = req[r].user
      /\ tok'[n].parent = req[r].tok
      /\ tok'[n].root = IF req[r].tok = NoToken THEN n ELSE tok[req[r].tok].root
  BY <1>3 DEF NewToken, Minted, Usable
<1>5. req'[r] = Idle /\ \A q \in Requests : q # r => req'[q] = req[q]
  BY <1>1 DEF Insert, Answer, TypeOK
<1>6. req[r].tok # NoToken => req[r].tok \in Tokens
  BY <1>1 DEF Call
<1>7. At(r, "insert") /\ dead' = dead /\ account' = account /\ account[req[r].user].exists
  BY DEF Insert
<1> QED BY <1>2, <1>3, <1>4, <1>5, <1>6, <1>7 DEF Carries

LEMMA InsertKeeps ==
    ASSUME IInv, TypeOK', NEW r \in Requests, Insert(r)
    PROVE  IInv'
<1> USE DEF IInv
<1>1. PICK n \in Tokens :
           /\ ~Minted(n) /\ tok' = [tok EXCEPT ![n] = NewToken(r, n)]
           /\ Minted(n)' /\ Usable(n)' /\ tok'[n].owner = req[r].user
           /\ tok'[n].parent = req[r].tok
           /\ req[r].tok = NoToken => tok'[n].root = n
           /\ req[r].tok # NoToken =>
                /\ Carries(r, tok'[n].root) /\ tok'[n].root = tok[req[r].tok].root
                /\ req[r].tok \in Tokens
           /\ \A t \in Tokens : t # n => tok'[t] = tok[t]
           /\ req'[r] = Idle /\ \A q \in Requests : q # r => req'[q] = req[q]
           /\ dead' = dead /\ account' = account
           /\ account[req[r].user].exists
  BY InsertEffect
<1>2. At(r, "insert") /\ (req[r].tok # NoToken =>
         Minted(req[r].tok) /\ ~Usable(req[r].tok) /\ req[r].tok # n
         /\ \A t \in Tokens : Minted(t) => tok[t].parent # req[r].tok)
  BY <1>1 DEF Insert, Presented
<1>3. \A t \in Tokens :
        /\ Minted(t)' <=> Minted(t) \/ t = n
        /\ Usable(t)' <=> Usable(t) \/ t = n
        /\ t # n => /\ tok'[t].root = tok[t].root /\ tok'[t].parent = tok[t].parent
                    /\ tok'[t].owner = tok[t].owner
  BY <1>1 DEF Minted, Usable
<1>4. \A t \in Tokens : Minted(t) =>
        /\ t # n /\ tok[t].root \in Tokens /\ tok[t].root # n
        /\ tok[t].parent # n /\ Began(tok[t].root)
  BY <1>1, ConstantsAssumption, MintedIsToken DEF Rooted, Began, Token, ParentsSpent
<1>5. \A q \in Requests, s \in Tokens : Carries(q, s)' <=> Carries(q, s) /\ q # r
  <2> SUFFICES ASSUME NEW q \in Requests, NEW s \in Tokens
               PROVE Carries(q, s)' <=> Carries(q, s) /\ q # r
    OBVIOUS
  <2>1. CASE q = r
    BY <1>1, <2>1 DEF Carries, At, Idle
  <2>2. CASE q # r
    <3>1. At(q, "insert") /\ req[q].tok # NoToken =>
            req[q].tok \in Tokens /\ Minted(req[q].tok) /\ req[q].tok # n
      BY <1>1, LiveIsCall DEF At, Live, Call, Presented
    <3> QED BY <1>1, <1>3, <2>2, <3>1 DEF Carries, At
  <2> QED BY <2>1, <2>2
<1>6. \A t \in Tokens : Usable(t) => Minted(t)
  BY DEF Usable, Minted
<1>7. \A q \in Requests, s \in Tokens : Carries(q, s) => s # n /\ Began(s)
  <2> SUFFICES ASSUME NEW q \in Requests, NEW s \in Tokens, Carries(q, s)
               PROVE s # n /\ Began(s)
    OBVIOUS
  <2>1. req[q].tok \in Tokens /\ Minted(req[q].tok)
    BY LiveIsCall DEF Carries, At, Live, Call, Presented
  <2> QED BY <1>4, <2>1 DEF Carries
<1>8. Rooted'
  <2> SUFFICES ASSUME NEW t \in Tokens, Minted(t)' PROVE Began(tok[t].root)'
    BY DEF Rooted
  <2>1. CASE t # n
    BY <1>1, <1>3, <1>4, <2>1 DEF Began
  <2>2. CASE t = n /\ req[r].tok = NoToken
    BY <1>1, <2>2 DEF Began
  <2>3. CASE t = n /\ req[r].tok # NoToken
    BY <1>1, <1>2, <1>3, <1>4, <2>3 DEF Began
  <2> QED BY <2>1, <2>2, <2>3
<1>9. ParentsSpent'
  <2> SUFFICES ASSUME NEW t \in Tokens, Minted(t)', tok'[t].parent # NoToken
               PROVE  /\ tok'[t].parent \in Tokens
                      /\ Minted(tok[t].parent)' /\ ~Usable(tok[t].parent)'
                      /\ tok'[tok'[t].parent].root = tok'[t].root
    BY DEF ParentsSpent
  <2>1. CASE t = n
    BY <1>1, <1>2, <1>3, <2>1 DEF Minted, Usable
  <2>2. CASE t # n
    <3>1. Minted(t) /\ tok'[t] = tok[t]
      BY <1>1, <1>3, <2>2
    <3>2. /\ tok[t].parent \in Tokens /\ Minted(tok[t].parent)
          /\ ~Usable(tok[t].parent) /\ tok[tok[t].parent].root = tok[t].root
          /\ tok[t].parent # n
      BY <1>4, <2>2, <3>1 DEF ParentsSpent
    <3> QED BY <1>1, <3>1, <3>2 DEF Minted, Usable
  <2> QED BY <2>1, <2>2
<1>10. DeadBegan'
  BY <1>1, <1>3 DEF DeadBegan, Began, TypeOK
<1>11. SingleUse'
  BY <1>1, <1>2, <1>3 DEF SingleUse
<1>12. NoOrphans'
  BY <1>1, <1>3 DEF NoOrphans
<1>13. Presented'
  <2> SUFFICES ASSUME NEW q \in Requests
      PROVE  /\ At(q, "rotate")' => req'[q].tok # NoToken
             /\ (At(q, "rotate") \/ At(q, "insert"))' /\ req'[q].tok # NoToken =>
                  Minted(req[q].tok)' /\ tok'[req'[q].tok].owner = req'[q].user
             /\ At(q, "insert")' /\ req'[q].tok # NoToken =>
                  /\ ~Usable(req[q].tok)'
                  /\ \A t \in Tokens : Minted(t)' => tok'[t].parent # req'[q].tok
    BY DEF Presented
  <2>1. CASE q = r
    BY <1>1, <2>1 DEF At, Idle
  <2>2. CASE q # r
    <3>1. req'[q] = req[q]
      BY <1>1, <2>2
    <3>2. (At(q, "rotate") \/ At(q, "insert")) /\ req[q].tok # NoToken =>
            /\ req[q].tok \in Tokens /\ Minted(req[q].tok) /\ req[q].tok # n
            /\ tok[req[q].tok].owner = req[q].user
      BY <1>1, LiveIsCall DEF At, Live, Call, Presented
    <3>3. At(q, "insert") /\ req[q].tok # NoToken => req[q].tok # req[r].tok
      BY <1>2, <2>2, <3>2, <1>4 DEF OneHolder, Carries
    <3> QED BY <1>1, <1>3, <3>1, <3>2, <3>3 DEF At, Presented
  <2> QED BY <2>1, <2>2
<1>14. OneHolder'
  <2>1. req[r].tok = NoToken => tok'[n].root = n
    BY <1>1
  <2>2. req[r].tok # NoToken => tok'[n].root \in Tokens /\ Carries(r, tok'[n].root)
    BY <1>1, <1>2, <1>4
  <2>3. \A t \in Tokens : Usable(t) => t # n /\ tok[t].root # tok'[n].root
    BY <1>4, <1>6, <2>1, <2>2 DEF OneHolder
  <2>4. \A q \in Requests : q # r => ~Carries(q, tok'[n].root)
    BY <1>7, <2>1, <2>2 DEF OneHolder
  <2>5. \A a, b \in Tokens, s \in Tokens :
          Usable(a)' /\ Usable(b)' /\ tok'[a].root = s /\ tok'[b].root = s => a = b
    BY <1>3, <2>3 DEF OneHolder
  <2>6. \A t \in Tokens, q \in Requests, s \in Tokens :
          ~(Usable(t)' /\ tok'[t].root = s /\ Carries(q, s)')
    BY <1>3, <1>5, <2>4 DEF OneHolder
  <2>7. \A q1, q2 \in Requests, s \in Tokens : Carries(q1, s)' /\ Carries(q2, s)' => q1 = q2
    BY <1>5 DEF OneHolder
  <2> QED BY <2>5, <2>6, <2>7 DEF OneHolder
<1>15. DeadStayDead'
  <2>1. n \notin dead
    BY <1>1 DEF DeadBegan, Began
  <2>2. tok'[n].root \notin dead
    BY <1>1, <2>1 DEF DeadStayDead
  <2> QED BY <1>1, <1>3, <1>5, <2>2 DEF DeadStayDead, TypeOK
<1> QED BY <1>8, <1>9, <1>10, <1>11, <1>12, <1>13, <1>14, <1>15

LEMMA InvStep == IInv /\ [Next]_vars => IInv'
<1> SUFFICES ASSUME IInv, [Next]_vars PROVE IInv'
  OBVIOUS
<1>1. TypeOK'
  BY TypeStep
<1>2. \/ Mild
      \/ \E r \in Requests : RefreshRead(r) \/ Rotate(r) \/ Insert(r)
  BY DEF Next, Handler, Mild
<1> QED BY <1>1, <1>2, MildIsMilder, MilderKeeps, RefreshReadKeeps, RotateKeeps, InsertKeeps

LEMMA Invariance == Spec => []IInv
<1>1. IInv /\ [Next]_vars => IInv'
  BY InvStep
<1> QED BY <1>1, InvInit, PTL DEF Spec

-----------------------------------------------------------------------------
(* The results *)

\* Type correctness of the tables and the handlers of AuthSessions.
THEOREM TypeCorrect == Spec => []TypeOK
BY Invariance, PTL DEF IInv

\* Rotation is single-use: two overlapping refreshes, or a retry after a lost
\* answer, never exchange one token twice (auth/service.py, refresh).
THEOREM RotationIsSingleUse == Spec => []SingleUse
BY Invariance, PTL DEF IInv

\* A session has at most one usable token or one rotation under way.
THEOREM SessionsHaveOneHolder == Spec => []OneHolder
BY Invariance, PTL DEF IInv

\* A session that a logout or revoke_all_for_user found usable stays closed,
\* whatever refresh had already read its token.
THEOREM RevokedSessionsStayDead == Spec => []DeadStayDead
BY Invariance, PTL DEF IInv

\* No usable token outlives its account, although logins and refreshes overlap
\* delete_user.
THEOREM NoTokenOutlivesItsAccount == Spec => []NoOrphans
BY Invariance, PTL DEF IInv

-----------------------------------------------------------------------------
(* AuthSessions implements SessionContract. *)

LEMMA ContractInit == Init => Contract!Init
<1> SUFFICES ASSUME Init PROVE Contract!Init
  OBVIOUS
<1>1. \A t \in Tokens : tok[t].status = "none"
  BY DEF Init, Unminted
<1> QED BY <1>1 DEF Contract!Init, Phase, Current, SpentTokens, Began, Minted, Usable

\* Only tokens minted and not usable are spent.
LEMMA Statuses ==
    ASSUME IInv, NEW t \in Tokens
    PROVE  /\ t \in SpentTokens <=> Minted(t) /\ ~Usable(t)
           /\ Usable(t) => Minted(t)
           /\ Minted(t) => tok[t].root \in Tokens /\ Began(tok[t].root)
BY MintedIsToken DEF IInv, SpentTokens, Minted, Usable, Token, Rooted

LEMMA CarriersBegan ==
    ASSUME IInv, NEW r \in Requests, NEW s \in Tokens, Carries(r, s)
    PROVE  Began(s) /\ req[r].tok \in Tokens /\ Minted(req[r].tok)
<1>1. req[r].tok \in Tokens /\ Minted(req[r].tok)
  BY LiveIsCall DEF IInv, Carries, At, Live, Call, Presented
<1> QED BY <1>1, Statuses DEF Carries

\* A step that only closes sessions: the set is the sessions that were open
\* and are no longer.
LEMMA ClosingStep ==
    ASSUME IInv, IInv', Mild
    PROVE  [Contract!Next]_(Contract!vars)
<1> USE DEF IInv
<1>0. PICK S \in SUBSET Tokens : \A s \in Tokens : s \in S <=> (Open(s) /\ ~(Open(s)'))
  <2> WITNESS {s \in Tokens : Open(s) /\ ~(Open(s)')} \in SUBSET Tokens
  <2> QED OBVIOUS
<1>1. Milder
  BY MildIsMilder
<1>2. \A t \in Tokens : /\ Minted(t)' <=> Minted(t)
                        /\ Usable(t)' => Usable(t)
                        /\ Minted(t) => tok'[t].root = tok[t].root
  BY <1>1 DEF Milder
<1>3. \A s \in Tokens : Began(s)' <=> Began(s)
  BY <1>2 DEF Began
<1>4. \A r \in Requests, s \in Tokens : Carries(r, s)' => Carries(r, s)
  <2> SUFFICES ASSUME NEW r \in Requests, NEW s \in Tokens, Carries(r, s)'
               PROVE  Carries(r, s)
    OBVIOUS
  <2>1. req[r].pc = "insert" /\ req[r].tok = req'[r].tok /\ req[r].tok # NoToken
    BY <1>1 DEF Milder, Carries, At
  <2>2. Minted(req[r].tok) /\ req[r].tok \in Tokens
    BY <2>1, LiveIsCall DEF Live, Presented, At, Call
  <2> QED BY <1>2, <2>1, <2>2 DEF Carries, At
<1>5. \A s \in Tokens : Open(s)' => Open(s)
  BY <1>2, <1>4, Statuses DEF Open
<1>6. \A s \in Tokens : Open(s) => Began(s)
  BY CarriersBegan, Statuses DEF Open
<1>7. \A s \in Tokens : Phase(s)' = IF s \in S THEN "closed" ELSE Phase(s)
  BY <1>0, <1>3, <1>5, <1>6 DEF Phase
<1>8. \A s \in Tokens : Current(s)' = IF s \in S THEN {} ELSE Current(s)
  <2> SUFFICES ASSUME NEW s \in Tokens
               PROVE Current(s)' = IF s \in S THEN {} ELSE Current(s)
    OBVIOUS
  <2>1. \A t \in Tokens : Usable(t)' /\ tok'[t].root = s => Usable(t) /\ tok[t].root = s
    BY <1>2, Statuses
  <2>2. CASE s \in S
    BY <1>0, <2>2 DEF Current, Open
  <2>3. CASE s \notin S
    <3>1. \A t \in Tokens : Usable(t) /\ tok[t].root = s => Usable(t)' /\ tok'[t].root = s
      <4> SUFFICES ASSUME NEW t \in Tokens, Usable(t), tok[t].root = s
                   PROVE Usable(t)' /\ tok'[t].root = s
        OBVIOUS
      <4>1. Open(s)'
        BY <1>0, <2>3 DEF Open
      <4>2. \A r \in Requests : ~Carries(r, s)'
        BY <1>4 DEF OneHolder
      <4>3. PICK x \in Tokens : Usable(x)' /\ tok'[x].root = s
        BY <4>1, <4>2 DEF Open
      <4>4. x = t
        BY <2>1, <4>3 DEF OneHolder
      <4> QED BY <4>3, <4>4
    <3> QED BY <2>1, <2>3, <3>1 DEF Current
  <2> QED BY <2>2, <2>3
<1>9. SpentTokens' = SpentTokens \cup UNION {Current(s) : s \in S}
  <2>1. \A t \in Tokens : t \in SpentTokens <=> Minted(t) /\ ~Usable(t)
    BY Statuses
  <2>2. \A t \in Tokens : t \in SpentTokens' <=> Minted(t)' /\ ~Usable(t)'
    BY MintedIsToken DEF SpentTokens, Minted, Usable, TypeOK, Token, Unminted
  <2>3. \A t \in Tokens : Usable(t) /\ ~Usable(t)' <=> \E s \in S : t \in Current(s)
    <3> SUFFICES ASSUME NEW t \in Tokens
                 PROVE Usable(t) /\ ~Usable(t)' <=> \E s \in S : t \in Current(s)
      OBVIOUS
    <3>1. ASSUME NEW s \in S, t \in Current(s) PROVE Usable(t) /\ ~Usable(t)'
      <4>1. s \in Tokens /\ Usable(t) /\ tok[t].root = s /\ Current(s)' = {}
        BY <3>1, <1>8 DEF Current
      <4>2. tok'[t].root = s
        BY <4>1, <1>2, Statuses
      <4> QED BY <4>1, <4>2 DEF Current
    <3>2. ASSUME Usable(t), ~Usable(t)' PROVE \E s \in S : t \in Current(s)
      <4>1. tok[t].root \in Tokens /\ t \in Current(tok[t].root)
        BY <3>2, Statuses DEF Current
      <4>2. t \notin Current(tok[t].root)'
        BY <3>2, <1>2, Statuses DEF Current
      <4>3. tok'[t].root = tok[t].root
        BY <3>2, <1>2, Statuses
      <4>4. tok[t].root \in S
        BY <1>8, <3>2, <4>1 DEF Current
      <4> QED BY <4>1, <4>4
    <3> QED BY <3>1, <3>2
  <2>4. SpentTokens \subseteq Tokens /\ SpentTokens' \subseteq Tokens
        /\ \A s \in Tokens : Current(s) \subseteq Tokens
    BY DEF SpentTokens, Current
  <2> QED BY <1>2, <2>1, <2>2, <2>3, <2>4, Statuses
<1>10. \A s \in S : Phase(s) = "open"
  BY <1>0, <1>6 DEF Phase
<1>11. Contract!Close(S)
  BY <1>7, <1>8, <1>9, <1>10 DEF Contract!Close
<1> QED BY <1>11 DEF Contract!Next

LEMMA RotateMaps ==
    ASSUME IInv, NEW r \in Requests, Rotate(r)
    PROVE  Contract!Consume(tok[req[r].tok].root, req[r].tok)
<1> USE DEF IInv
<1>1. PICK c \in Tokens :
        /\ c = req[r].tok /\ c # NoToken /\ Usable(c) /\ ~Usable(c)'
        /\ tok'[c].status = "revoked" /\ tok'[c].root = tok[c].root
        /\ \A t \in Tokens : t # c => tok'[t] = tok[t]
        /\ tok[c].root \in Tokens
        /\ req'[r].pc = "insert" /\ req'[r].tok = c
        /\ \A q \in Requests : q # r => req'[q] = req[q]
  BY RotateEffect
<1>2. PICK k \in Tokens : k = tok[c].root
  BY <1>1
<1>3. \A t \in Tokens :
        /\ Minted(t)' <=> Minted(t)
        /\ Usable(t)' <=> Usable(t) /\ t # c
        /\ tok'[t].root = tok[t].root
  BY <1>1 DEF Minted, Usable
<1>4. Open(k) /\ Open(k)' /\ Began(k)
  BY <1>1, <1>2, <1>3, Statuses DEF Open, Carries, At
<1>5. \A s \in Tokens : s # k => (Open(s)' <=> Open(s))
  <2>1. \A q \in Requests, s \in Tokens : s # k => (Carries(q, s)' <=> Carries(q, s))
    <3> SUFFICES ASSUME NEW q \in Requests, NEW s \in Tokens, s # k
                 PROVE Carries(q, s)' <=> Carries(q, s)
      OBVIOUS
    <3>1. CASE q = r
      BY <1>1, <1>2, <3>1 DEF Carries, At, Rotate
    <3>2. CASE q # r
      <4>1. At(q, "insert") /\ req[q].tok # NoToken => req[q].tok \in Tokens
        BY LiveIsCall DEF At, Live, Call
      <4> QED BY <1>1, <1>3, <3>2, <4>1 DEF Carries, At
    <3> QED BY <3>1, <3>2
  <2> QED BY <1>2, <1>3, <2>1 DEF Open
<1>6. \A s \in Tokens : Phase(s)' = Phase(s)
  BY <1>3, <1>4, <1>5 DEF Phase, Began
<1>7. Phase(k) = "open"
  BY <1>4 DEF Phase
<1>8. Current(k) = {c} /\ Current(k)' = {}
  <2>1. \A t \in Tokens : Usable(t) /\ tok[t].root = k <=> t = c
    BY <1>1, <1>2 DEF OneHolder
  <2> QED BY <1>3, <2>1 DEF Current
<1>9. \A s \in Tokens : s # k => Current(s)' = Current(s)
  BY <1>2, <1>3 DEF Current
<1>10. SpentTokens' = SpentTokens \cup {c}
  BY <1>1 DEF SpentTokens
<1> QED
  BY <1>1, <1>2, <1>6, <1>7, <1>8, <1>9, <1>10 DEF Contract!Consume

LEMMA InsertMaps ==
    ASSUME IInv, NEW r \in Requests, Insert(r)
    PROVE  \E s, n \in Tokens : Contract!Open(s) \/ Contract!Mint(s, n)
<1> USE DEF IInv
<1>1. PICK n \in Tokens :
           /\ ~Minted(n) /\ Minted(n)' /\ Usable(n)'
           /\ req[r].tok = NoToken => tok'[n].root = n
           /\ req[r].tok # NoToken =>
                /\ Carries(r, tok'[n].root) /\ tok'[n].root = tok[req[r].tok].root
                /\ req[r].tok \in Tokens
           /\ \A t \in Tokens : t # n => tok'[t] = tok[t]
           /\ req'[r] = Idle /\ \A q \in Requests : q # r => req'[q] = req[q]
  BY InsertEffect
<1>2. \A t \in Tokens :
        /\ Minted(t)' <=> Minted(t) \/ t = n
        /\ Usable(t)' <=> Usable(t) \/ t = n
        /\ t # n => tok'[t].root = tok[t].root
  BY <1>1 DEF Minted, Usable
<1>3. \A t \in Tokens : Minted(t) => t # n /\ tok[t].root \in Tokens /\ tok[t].root # n
  BY <1>1, Statuses DEF Began
<1>4. SpentTokens' = SpentTokens
  <2>1. n \notin SpentTokens
    BY <1>1, Statuses
  <2>2. n \notin SpentTokens'
    BY <1>1 DEF SpentTokens, Usable
  <2> QED BY <1>1, <2>1, <2>2 DEF SpentTokens
<1>5. ~Began(n) /\ n \notin SpentTokens /\ \A s \in Tokens : n \notin Current(s)
  BY <1>1, Statuses DEF Began, Current
<1>6. \A q \in Requests, s \in Tokens : Carries(q, s)' <=> Carries(q, s) /\ q # r
  <2> SUFFICES ASSUME NEW q \in Requests, NEW s \in Tokens
               PROVE Carries(q, s)' <=> Carries(q, s) /\ q # r
    OBVIOUS
  <2>1. CASE q = r
    BY <1>1, <2>1 DEF Carries, At, Idle
  <2>2. CASE q # r
    <3>1. Carries(q, s) => req[q].tok \in Tokens /\ req[q].tok # n
      BY <1>3, CarriersBegan
    <3>2. At(q, "insert") /\ req[q].tok # NoToken => req[q].tok \in Tokens /\ req[q].tok # n
      BY <1>3, LiveIsCall DEF At, Live, Call, Presented
    <3> QED BY <1>1, <1>2, <2>2, <3>2 DEF Carries, At
  <2> QED BY <2>1, <2>2
<1>7. CASE req[r].tok = NoToken
  <2>a. \A s \in Tokens : s # n => \A t \in Tokens :
          Usable(t)' /\ tok'[t].root = s <=> Usable(t) /\ tok[t].root = s
    BY <1>1, <1>2, <1>7, Statuses
  <2>b. \A s \in Tokens : ~Carries(r, s)
    BY <1>7 DEF Carries
  <2>1. \A s \in Tokens : s # n => (Began(s)' <=> Began(s)) /\ (Open(s)' <=> Open(s))
    <3>1. \A s \in Tokens : s # n => (Began(s)' <=> Began(s))
      BY <1>2 DEF Began
    <3>2. \A s \in Tokens : s # n => (Open(s)' <=> Open(s))
      BY <1>6, <2>a, <2>b DEF Open
    <3> QED BY <3>1, <3>2
  <2>2. Began(n)' /\ Open(n)'
    BY <1>1, <1>2, <1>7 DEF Began, Open
  <2>3. \A s \in Tokens : Phase(s)' = IF s = n THEN "open" ELSE Phase(s)
    BY <2>1, <2>2 DEF Phase
  <2>4. \A s \in Tokens : Current(s)' = IF s = n THEN {n} ELSE Current(s)
    <3>1. \A s \in Tokens : s # n => Current(s)' = Current(s)
      BY <2>a DEF Current
    <3>2. \A t \in Tokens : Usable(t)' /\ tok'[t].root = n <=> t = n
      BY <1>1, <1>2, <1>3, <1>7, Statuses
    <3>3. Current(n)' = {n}
      BY <3>2 DEF Current
    <3> QED BY <3>1, <3>3
  <2>5. Phase(n) = "unused"
    BY <1>5 DEF Phase
  <2>6. Contract!Fresh(n)
    BY <1>5 DEF Contract!Fresh
  <2>7. Contract!Open(n)
    BY <1>4, <2>3, <2>4, <2>5, <2>6 DEF Contract!Open
  <2> QED BY <2>7
<1>8. CASE req[r].tok # NoToken
  <2>1. PICK k \in Tokens : k = tok'[n].root /\ Carries(r, k)
    <3>1. Minted(req[r].tok)
      BY <1>8 DEF Insert, Presented
    <3> QED BY <1>1, <1>3, <1>8, <3>1
  <2>2. Began(k) /\ k # n
    BY <1>1, <2>1, CarriersBegan DEF Began
  <2>3. Current(k) = {}
    BY <2>1 DEF OneHolder, Current
  <2>4. \A s \in Tokens : Began(s)' <=> Began(s)
    BY <1>1, <1>2, <2>1, <2>2 DEF Began
  <2>5. Open(k) /\ Open(k)'
    BY <1>1, <2>1 DEF Open
  <2>6. \A s \in Tokens : s # k => (Open(s)' <=> Open(s))
    <3>1. \A s \in Tokens : s # k => ~Carries(r, s)
      BY <2>1 DEF Carries
    <3>2. \A s \in Tokens : s # k => \A t \in Tokens :
            Usable(t)' /\ tok'[t].root = s <=> Usable(t) /\ tok[t].root = s
      BY <1>1, <1>2, <2>1, Statuses
    <3> QED BY <1>6, <3>1, <3>2 DEF Open
  <2>7. \A s \in Tokens : Phase(s)' = Phase(s)
    BY <2>4, <2>5, <2>6 DEF Phase
  <2>8. \A s \in Tokens : Current(s)' = IF s = k THEN {n} ELSE Current(s)
    <3>1. \A s \in Tokens : s # k => Current(s)' = Current(s)
      BY <1>1, <1>2, <2>1, Statuses DEF Current
    <3>2. \A t \in Tokens : Usable(t)' /\ tok'[t].root = k <=> t = n
      BY <1>1, <1>2, <2>1, <2>3 DEF Current
    <3>3. Current(k)' = {n}
      BY <3>2 DEF Current
    <3> QED BY <3>1, <3>3
  <2>9. Phase(k) = "open" /\ Phase(n) = "unused"
    BY <1>5, <2>2, <2>5 DEF Phase
  <2>10. Contract!Fresh(n)
    BY <1>5 DEF Contract!Fresh
  <2>11. Contract!Mint(k, n)
    BY <1>4, <2>3, <2>7, <2>8, <2>9, <2>10 DEF Contract!Mint
  <2> QED BY <2>11
<1> QED BY <1>7, <1>8

LEMMA RefreshReadMaps ==
    ASSUME IInv, NEW r \in Requests, RefreshRead(r)
    PROVE  UNCHANGED Contract!vars
<1>1. tok' = tok
  BY DEF RefreshRead, tables
<1>2. \A q \in Requests, s \in Tokens : Carries(q, s)' <=> Carries(q, s)
  BY <1>1 DEF RefreshRead, Start, Live, Carries, At, IInv, TypeOK
<1>3. \A s \in Tokens : Phase(s)' = Phase(s)
  BY <1>1, <1>2 DEF Phase, Began, Minted, Open, Usable
<1>4. \A s \in Tokens : Current(s)' = Current(s)
  BY <1>1 DEF Current, Usable
<1>5. SpentTokens' = SpentTokens
  BY <1>1 DEF SpentTokens
<1> QED BY <1>3, <1>4, <1>5 DEF Contract!vars

LEMMA ContractStep == IInv /\ IInv' /\ [Next]_vars => [Contract!Next]_(Contract!vars)
<1> SUFFICES ASSUME IInv, IInv', [Next]_vars
             PROVE  [Contract!Next]_(Contract!vars)
  OBVIOUS
<1>1. CASE Mild
  BY <1>1, ClosingStep
<1>2. CASE \E r \in Requests : RefreshRead(r)
  BY <1>2, RefreshReadMaps
<1>3. CASE \E r \in Requests : Rotate(r)
  <2>1. PICK r \in Requests : Rotate(r)
    BY <1>3
  <2>2. req[r].tok \in Tokens /\ tok[req[r].tok].root \in Tokens
    BY <2>1, RotateEffect
  <2> QED BY <2>1, <2>2, RotateMaps DEF Contract!Next
<1>4. CASE \E r \in Requests : Insert(r)
  BY <1>4, InsertMaps DEF Contract!Next
<1> QED BY <1>1, <1>2, <1>3, <1>4 DEF Next, Handler, Mild

\* The two tables and the requests in flight implement the contract of
\* rotating tokens: sessions open once, pass to fresh tokens, never reopen.
THEOREM ImplementsContract == Spec => KeepsContract
<1>1. IInv /\ IInv' /\ [Next]_vars => [Contract!Next]_(Contract!vars)
  BY ContractStep
<1> QED BY <1>1, Invariance, ContractInit, PTL DEF Spec, KeepsContract, Contract!Spec

-----------------------------------------------------------------------------
(* One request at a time so far: what a handler has read of the account is  *)
(* in force, and so is every usable token that is not about to be revoked.  *)

OneLive == \A q, r \in Requests : Live(q) /\ Live(r) => q = r
Ending(u) == \E r \in Requests : At(r, "revokeAll") /\ req[r].user = u
InForce(u, p) == ~account[u].disabled /\ p = account[u].pwd
Fresh(r) ==
    /\ At(r, "rotate") \/ At(r, "insert") => InForce(req[r].user, req[r].pwd)
    /\ At(r, "write") => req[r].op \in {"disable", "enable", "reset"}
UsableInForce == \A t \in Tokens :
    Usable(t) => InForce(tok[t].owner, tok[t].pwd) \/ Ending(tok[t].owner)

AloneInv ==
    /\ overlap \in BOOLEAN
    /\ ~overlap => OneLive
    /\ Alone => (\A r \in Requests : Fresh(r)) /\ UsableInForce

\* No token becomes usable or changes hands.
NoneAdded == \A t \in Tokens :
    Usable(t)' => Usable(t) /\ tok'[t].owner = tok[t].owner /\ tok'[t].pwd = tok[t].pwd

LEMMA ForceKept ==
    ASSUME TypeOK, UsableInForce, NoneAdded,
           \A u \in Users : \A p : InForce(u, p) => InForce(u, p)' \/ Ending(u)',
           \A t \in Tokens : Usable(t)' =>
             \A v : v = tok[t].owner /\ Ending(v) => Ending(v)'
    PROVE  UsableInForce'
<1> SUFFICES ASSUME NEW t \in Tokens, Usable(t)'
             PROVE  (InForce(tok[t].owner, tok[t].pwd) \/ Ending(tok[t].owner))'
    BY DEF UsableInForce
<1>1. Usable(t) /\ tok'[t].owner = tok[t].owner /\ tok'[t].pwd = tok[t].pwd
      BY DEF NoneAdded
<1>2. PICK u, p : u = tok[t].owner /\ p = tok[t].pwd
      OBVIOUS
<1>3. u \in Users
      BY <1>1, <1>2, MintedIsToken DEF Usable, Minted, Token
<1>4. InForce(u, p) \/ Ending(u)
      BY <1>1, <1>2 DEF UsableInForce
<1>5. InForce(u, p)' \/ Ending(u)'
      BY <1>2, <1>3, <1>4
<1> QED BY <1>1, <1>2, <1>5 DEF InForce, Ending

LEMMA OnlyOne ==
    ASSUME OneLive, OneLive', NEW r \in Requests, Live(r) \/ Live(r)',
           \A q \in Requests : q # r => req'[q] = req[q]
    PROVE  /\ \A q \in Requests : q # r => ~Live(q) /\ ~Live(q)'
           /\ Fresh(r)' => \A q \in Requests : Fresh(q)'
           /\ ~At(r, "revokeAll") => \A u : ~Ending(u)
<1>1. \A q \in Requests : q # r => ~Live(q) /\ ~Live(q)'
      BY DEF OneLive, Live
<1>2. ASSUME NEW q \in Requests, ~Live(q)' PROVE Fresh(q)'
      BY <1>2 DEF Fresh, At, Live
<1>3. ASSUME ~At(r, "revokeAll"), NEW u PROVE ~Ending(u)
      BY <1>1, <1>3 DEF Ending, At, Live
<1> QED BY <1>1, <1>2, <1>3

LEMMA StartFresh ==
    ASSUME TypeOK, OneLive, OneLive', UsableInForce,
           NEW r \in Requests, NEW pc \in Pcs, NEW op, NEW u \in Users, NEW t, NEW p,
           Start(r, pc, op, u, t, p), UNCHANGED tables,
           pc \in {"rotate", "insert"} => InForce(u, p),
           pc = "write" => op \in {"disable", "enable", "reset"}
    PROVE  (\A q \in Requests : Fresh(q)') /\ UsableInForce'
<1>1. /\ req'[r] = [pc |-> pc, op |-> op, user |-> u, tok |-> t, pwd |-> p]
      /\ \A q \in Requests : q # r => req'[q] = req[q]
      /\ ~Live(r)
      BY DEF Start, TypeOK
<1>2. account' = account /\ tok' = tok
      BY DEF tables
<1>3. Live(r)' /\ Fresh(r)'
      BY <1>1, <1>2 DEF Live, Fresh, At, InForce, Pcs
<1>4. \A v : ~Ending(v)
      BY <1>1, <1>3, OnlyOne DEF At, Live
<1>5. UsableInForce'
      BY <1>2, <1>4, ForceKept DEF NoneAdded, Usable, InForce
<1> QED BY <1>1, <1>3, <1>5, OnlyOne

\* r goes on, or answers, at a point where it revokes nothing.
LEMMA MoveFresh ==
    ASSUME TypeOK, OneLive, OneLive', UsableInForce, NEW r \in Requests, Live(r),
           \A q \in Requests : q # r => req'[q] = req[q],
           ~At(r, "revokeAll"), account' = account, NoneAdded, Fresh(r)'
    PROVE  (\A q \in Requests : Fresh(q)') /\ UsableInForce'
<1>1. \A v : ~Ending(v)
      BY OnlyOne
<1>2. UsableInForce'
      BY <1>1, ForceKept DEF InForce
<1> QED BY <1>2, OnlyOne

LEMMA AnswerSlot ==
    ASSUME TypeOK, NEW r \in Requests, Answer(r)
    PROVE  Fresh(r)' /\ \A q \in Requests : q # r => req'[q] = req[q]
BY DEF TypeOK, Answer, Fresh, At, Idle

LEMMA GotoSlot ==
    ASSUME TypeOK, NEW r \in Requests, Live(r), NEW pc, Goto(r, pc)
    PROVE  /\ req'[r].pc = pc /\ req'[r].op = req[r].op /\ req'[r].user = req[r].user
           /\ req'[r].pwd = req[r].pwd
           /\ \A q \in Requests : q # r => req'[q] = req[q]
BY LiveIsCall DEF TypeOK, Goto, Call

LEMMA InsertFresh ==
    ASSUME IInv, OneLive, OneLive', UsableInForce, NEW r \in Requests, Fresh(r), Insert(r)
    PROVE  (\A q \in Requests : Fresh(q)') /\ UsableInForce'
<1>1. TypeOK /\ Live(r) /\ Answer(r) /\ account' = account /\ At(r, "insert")
      BY DEF IInv, Insert, At, Live
<1>2. PICK n \in Tokens : tok' = [tok EXCEPT ![n] = NewToken(r, n)]
      BY DEF Insert
<1>3. /\ \A t \in Tokens : t # n => tok'[t] = tok[t]
      /\ tok'[n].owner = req[r].user /\ tok'[n].pwd = req[r].pwd
      BY <1>1, <1>2 DEF NewToken, TypeOK
<1>4. \A v : ~Ending(v)
      BY <1>1, AnswerSlot, OnlyOne DEF At
<1>5. ASSUME NEW t \in Tokens, Usable(t)'
      PROVE  (InForce(tok[t].owner, tok[t].pwd))'
  <2>1. CASE t = n
        BY <1>1, <1>3, <2>1 DEF Fresh, InForce
  <2>2. CASE t # n
        BY <1>1, <1>3, <1>4, <1>5, <2>2 DEF UsableInForce, Usable, InForce
  <2> QED BY <2>1, <2>2
<1>6. UsableInForce'
      BY <1>5 DEF UsableInForce
<1> QED BY <1>1, <1>6, AnswerSlot, OnlyOne

LEMMA WriteFresh ==
    ASSUME IInv, OneLive, OneLive', UsableInForce, NEW r \in Requests, Fresh(r), Write(r)
    PROVE  (\A q \in Requests : Fresh(q)') /\ UsableInForce'
<1>1. /\ TypeOK /\ Live(r) /\ req[r] \in Call /\ tok' = tok /\ ~At(r, "revokeAll")
      /\ req[r].op \in {"disable", "enable", "reset"} /\ AfterWrite(r)
      BY LiveIsCall DEF IInv, Write, At, Live, Fresh
<1>2. PICK u \in Users : u = req[r].user
      BY <1>1 DEF Call
<1>3. /\ account' = [account EXCEPT ![u] = Written(r)] /\ account[u] \in Account
      /\ account'[u] = Written(r)
      /\ \A v \in Users : v # u => account'[v] = account[v]
      BY <1>1, <1>2 DEF Write, TypeOK
<1>4. CASE req[r].op = "enable"
  <2>1. Answer(r)
        BY <1>1, <1>4 DEF AfterWrite
  <2>2. ~account'[u].disabled /\ account'[u].pwd = account[u].pwd
        BY <1>2, <1>3, <1>4 DEF Written, Account
  <2>3. \A v \in Users : \A p : InForce(v, p) => InForce(v, p)'
        BY <1>3, <2>2 DEF InForce
  <2>4. \A v : ~Ending(v)
        BY <1>1, <2>1, AnswerSlot, OnlyOne
  <2>5. UsableInForce'
        BY <1>1, <2>3, <2>4, ForceKept DEF NoneAdded, Usable
  <2> QED BY <1>1, <2>1, <2>5, AnswerSlot, OnlyOne
<1>5. CASE req[r].op # "enable"
  <2>1. Goto(r, "revokeAll")
        BY <1>1, <1>5 DEF AfterWrite
  <2>2. /\ req'[r].pc = "revokeAll" /\ req'[r].user = u
        /\ \A q \in Requests : q # r => req'[q] = req[q]
        BY <1>1, <1>2, <2>1, GotoSlot
  <2>3. Ending(u)' /\ Fresh(r)'
        BY <2>2 DEF Ending, Fresh, At
  <2>4. \A v \in Users : \A p : InForce(v, p) => InForce(v, p)' \/ Ending(v)'
        BY <1>3, <2>3 DEF InForce
  <2>5. \A v : ~Ending(v)
        BY <1>1, <2>2, OnlyOne
  <2>6. UsableInForce'
        BY <1>1, <2>4, <2>5, ForceKept DEF NoneAdded, Usable
  <2> QED BY <1>1, <2>2, <2>3, <2>6, OnlyOne
<1> QED BY <1>4, <1>5

LEMMA RevokeAllFresh ==
    ASSUME IInv, OneLive, OneLive', UsableInForce, NEW r \in Requests, RevokeAll(r)
    PROVE  (\A q \in Requests : Fresh(q)') /\ UsableInForce'
<1>1. TypeOK /\ Live(r) /\ account' = account /\ req[r] \in Call
      BY LiveIsCall DEF IInv, RevokeAll, At, Live
<1>2. Fresh(r)' /\ \A q \in Requests : q # r => req'[q] = req[q]
  <2>1. CASE req[r].op = "delete"
        BY <1>1, <2>1, GotoSlot DEF RevokeAll, Fresh, At
  <2>2. CASE req[r].op # "delete"
        BY <1>1, <2>2, AnswerSlot DEF RevokeAll
  <2> QED BY <2>1, <2>2
<1>3. PICK u : u = req[r].user
      OBVIOUS
<1>4. tok' = [t \in Tokens |-> IF t \in UsableOf(u) /\ Usable(t)
                               THEN [tok[t] EXCEPT !.status = "revoked"] ELSE tok[t]]
      BY <1>3 DEF RevokeAll, Revoke
<1>5. ASSUME NEW t \in Tokens, Usable(t)'
      PROVE  Usable(t) /\ tok'[t] = tok[t] /\ tok[t].owner # u
  <2>1. Usable(t) => tok[t] \in Token
        BY <1>1, MintedIsToken DEF Usable, Minted
  <2>2. ~(t \in UsableOf(u) /\ Usable(t))
        BY <1>4, <1>5, <2>1 DEF Usable, Token
  <2> QED BY <1>4, <1>5, <2>2 DEF UsableOf, Usable
<1>6. \A v : Ending(v) => v = u
      BY <1>1, <1>2, <1>3, OnlyOne DEF Ending, At, Live
<1>7. UsableInForce'
      BY <1>1, <1>5, <1>6, ForceKept DEF NoneAdded, InForce
<1> QED BY <1>1, <1>2, <1>7, OnlyOne

LEMMA DeleteFresh ==
    ASSUME IInv, OneLive, OneLive', UsableInForce, NEW r \in Requests, Delete(r)
    PROVE  (\A q \in Requests : Fresh(q)') /\ UsableInForce'
<1>1. /\ TypeOK /\ Live(r) /\ Answer(r) /\ ~At(r, "revokeAll")
      /\ req[r].user \in Users
      BY LiveIsCall DEF IInv, Delete, At, Live, Call
<1>2. \A v \in Users : account'[v].disabled = account[v].disabled /\ account'[v].pwd = account[v].pwd
      BY <1>1 DEF Delete, TypeOK, Account
<1>3. NoneAdded
  <2>1. ASSUME NEW t \in Tokens, Usable(t)' PROVE tok'[t] = tok[t]
    <3>1. Minted(t) => tok[t] \in Token
          BY <1>1, MintedIsToken
    <3> QED BY <2>1, <3>1 DEF Delete, Usable, Token
  <2> QED BY <2>1 DEF NoneAdded, Usable
<1>4. \A v : ~Ending(v)
      BY <1>1, AnswerSlot, OnlyOne
<1>5. UsableInForce'
      BY <1>1, <1>2, <1>3, <1>4, ForceKept DEF InForce
<1> QED BY <1>1, <1>5, AnswerSlot, OnlyOne

LEMMA AloneStepFresh ==
    ASSUME IInv, AloneInv, Alone, Alone', OneLive', Next
    PROVE  (\A r \in Requests : Fresh(r)') /\ UsableInForce'
<1>1. TypeOK /\ OneLive /\ UsableInForce /\ \A r \in Requests : Fresh(r)
      BY DEF IInv, AloneInv, Alone
<1>2. ~Crash
      BY <1>1 DEF Crash, Alone, TypeOK
<1>3. ASSUME NEW r \in Requests, Login(r) PROVE (\A q \in Requests : Fresh(q)') /\ UsableInForce'
  <2>1. PICK u \in Users : ~account[u].disabled /\ Start(r, "insert", "login", u, NoToken, account[u].pwd)
        BY <1>3 DEF Login
  <2>2. InForce(u, account[u].pwd) /\ UNCHANGED tables
        BY <1>3, <2>1 DEF InForce, Login
  <2> QED BY <1>1, <2>1, <2>2, StartFresh DEF Pcs
<1>4. ASSUME NEW r \in Requests, RefreshRead(r)
      PROVE  (\A q \in Requests : Fresh(q)') /\ UsableInForce'
  <2>1. PICK t \in Tokens : Usable(t) /\ Start(r, "rotate", "refresh", tok[t].owner, t, tok[t].pwd)
        BY <1>4 DEF RefreshRead
  <2>2. /\ tok[t].owner \in Users /\ UNCHANGED tables /\ ~Live(r)
        /\ Live(r)' /\ \A q \in Requests : q # r => req'[q] = req[q]
        BY <1>1, <1>4, <2>1, MintedIsToken
        DEF RefreshRead, Usable, Minted, Token, Start, Live, TypeOK
  <2>3. InForce(tok[t].owner, tok[t].pwd)
        BY <1>1, <2>1, <2>2, OnlyOne DEF UsableInForce, At, Live
  <2> QED BY <1>1, <2>1, <2>2, <2>3, StartFresh DEF Pcs
<1>5. ASSUME NEW r \in Requests, Rotate(r)
      PROVE  (\A q \in Requests : Fresh(q)') /\ UsableInForce'
  <2>1. Live(r) /\ Goto(r, "insert") /\ ~At(r, "revokeAll") /\ account' = account
        BY <1>5 DEF Rotate, At, Live
  <2>2. /\ req'[r].pc = "insert" /\ req'[r].user = req[r].user /\ req'[r].pwd = req[r].pwd
        /\ \A q \in Requests : q # r => req'[q] = req[q]
        BY <1>1, <2>1, GotoSlot
  <2>3. Fresh(r)'
        BY <1>1, <1>5, <2>1, <2>2 DEF Fresh, At, InForce, Rotate
  <2>4. NoneAdded
    <3>1. ASSUME NEW t \in Tokens, Usable(t)' PROVE tok'[t] = tok[t]
          BY <1>1, <1>5, <3>1, MintedIsToken DEF Rotate, Usable, Minted, Token, TypeOK
    <3> QED BY <3>1 DEF NoneAdded, Usable
  <2> QED BY <1>1, <2>1, <2>2, <2>3, <2>4, MoveFresh
<1>6. ASSUME NEW r \in Requests, RotateLost(r) \/ InsertFails(r)
      PROVE  (\A q \in Requests : Fresh(q)') /\ UsableInForce'
  <2>1. Live(r) /\ Answer(r) /\ ~At(r, "revokeAll") /\ account' = account /\ tok' = tok
        BY <1>6 DEF RotateLost, InsertFails, At, Live, tables
  <2>2. NoneAdded
        BY <2>1 DEF NoneAdded, Usable
  <2> QED BY <1>1, <2>1, <2>2, AnswerSlot, MoveFresh
<1>7. ASSUME NEW r \in Requests, LogoutAll(r)
      PROVE  (\A q \in Requests : Fresh(q)') /\ UsableInForce'
  <2>1. PICK u \in Users : Start(r, "revokeAll", "logoutAll", u, NoToken, 0)
        BY <1>7 DEF LogoutAll
  <2>2. UNCHANGED tables
        BY <1>7 DEF LogoutAll
  <2> QED BY <1>1, <2>1, <2>2, StartFresh DEF Pcs
<1>8. ASSUME NEW r \in Requests, AdminStart(r)
      PROVE  (\A q \in Requests : Fresh(q)') /\ UsableInForce'
  <2>1. PICK u \in Users, op \in AdminOps : Start(r, FirstStatement(op), op, u, NoToken, 0)
        BY <1>8 DEF AdminStart
  <2>2. /\ UNCHANGED tables /\ FirstStatement(op) \in Pcs
        /\ FirstStatement(op) \notin {"rotate", "insert"}
        /\ FirstStatement(op) = "write" => op \in {"disable", "enable", "reset"}
        BY <1>8 DEF AdminStart, FirstStatement, Pcs
  <2> QED BY <1>1, <2>1, <2>2, StartFresh
<1>9. ASSUME NEW r \in Requests, WriteMisses(r)
      PROVE  (\A q \in Requests : Fresh(q)') /\ UsableInForce'
  <2>1. Live(r) /\ ~At(r, "revokeAll") /\ account' = account /\ tok' = tok
        BY <1>9 DEF WriteMisses, At, Live, tables
  <2>2. NoneAdded
        BY <2>1 DEF NoneAdded, Usable
  <2>3. Fresh(r)' /\ \A q \in Requests : q # r => req'[q] = req[q]
    <3>1. CASE req[r].op = "reset"
          BY <1>1, <1>9, <2>1, <3>1, GotoSlot DEF WriteMisses, Fresh, At
    <3>2. CASE req[r].op # "reset"
          BY <1>1, <1>9, <3>2, AnswerSlot DEF WriteMisses
    <3> QED BY <3>1, <3>2
  <2> QED BY <1>1, <2>1, <2>2, <2>3, MoveFresh
<1>10. ASSUME Logout \/ Expire PROVE (\A q \in Requests : Fresh(q)') /\ UsableInForce'
  <2>1. account' = account /\ req' = req
        BY <1>10 DEF Logout, Expire
  <2>2. NoneAdded
    <3>1. \A t \in Tokens : Usable(t) => tok[t] \in Token
          BY <1>1, MintedIsToken DEF Usable, Minted
    <3>2. CASE Logout
      <4>1. PICK x \in Tokens : Revoke({x})
            BY <3>2 DEF Logout
      <4> QED BY <3>1, <4>1 DEF Revoke, NoneAdded, Usable, Token
    <3>3. CASE Expire
      <4>1. PICK x \in Tokens : Usable(x) /\ tok' = [tok EXCEPT ![x].expired = TRUE]
            BY <3>3 DEF Expire
      <4> QED BY <1>1, <3>1, <4>1 DEF NoneAdded, Usable, Token, TypeOK
    <3> QED BY <1>10, <3>2, <3>3
  <2>3. \A u : /\ Ending(u) => Ending(u)'
               /\ \A p : u \in Users /\ InForce(u, p) => InForce(u, p)'
        BY <2>1 DEF Ending, At, InForce
  <2>4. \A r \in Requests : Fresh(r)'
        BY <1>1, <2>1 DEF Fresh, At, InForce
  <2> QED BY <1>1, <2>2, <2>3, <2>4, ForceKept
<1> QED BY <1>1, <1>2, <1>3, <1>4, <1>5, <1>6, <1>7, <1>8, <1>9, <1>10,
           InsertFresh, WriteFresh, RevokeAllFresh, DeleteFresh DEF Next, Handler

LEMMA AloneStep ==
    ASSUME IInv, AloneInv, [MCNext]_<<vars, overlap>>
    PROVE  AloneInv'
<1>1. CASE UNCHANGED <<vars, overlap>>
  <2>1. UNCHANGED <<account, tok, req, crashes, overlap>>
        BY <1>1 DEF vars, tables
  <2>2. OneLive => OneLive'
        BY <2>1 DEF OneLive, Live
  <2>3. \A r \in Requests : Fresh(r) => Fresh(r)'
        BY <2>1 DEF Fresh, At, InForce
  <2>4. UsableInForce => UsableInForce'
        BY <2>1 DEF UsableInForce, Usable, InForce, Ending, At
  <2> QED BY <2>1, <2>2, <2>3, <2>4 DEF AloneInv, Alone
<1>2. CASE MCNext
  <2>1. /\ overlap' \in BOOLEAN /\ (overlap => overlap')
        /\ ~overlap' => \A q, r \in Requests : ~(q # r /\ Live(q)' /\ Live(r)')
        BY <1>2 DEF AloneInv, MCNext
  <2>2. ~overlap' => OneLive'
        BY <2>1 DEF OneLive
  <2>3. ASSUME Alone' PROVE (\A r \in Requests : Fresh(r)') /\ UsableInForce'
    <3>1. ~overlap /\ ~overlap' /\ crashes' = 0 /\ crashes \in Nat
          BY <2>1, <2>3 DEF Alone, IInv, TypeOK
    <3>2. crashes' = crashes \/ crashes' = crashes + 1
      <4>1. Next
            BY <1>2 DEF MCNext
      <4> QED BY <4>1 DEF Next, Handler, Login, RefreshRead, Rotate, RotateLost, Insert,
                          InsertFails, LogoutAll, AdminStart, Write, WriteMisses, RevokeAll,
                          Delete, Logout, Expire, Crash
    <3>3. crashes = 0
          BY <3>1, <3>2
    <3> QED BY <1>2, <2>2, <2>3, <3>1, <3>3, AloneStepFresh DEF Alone, MCNext
  <2> QED BY <2>1, <2>2, <2>3 DEF AloneInv
<1> QED BY <1>1, <1>2

LEMMA AloneInit == MCInit => AloneInv
<1> SUFFICES ASSUME MCInit PROVE AloneInv
    OBVIOUS
<1>1. /\ \A r \in Requests : req[r].pc = "idle"
      /\ \A t \in Tokens : ~Usable(t)
      /\ overlap = FALSE
      BY DEF MCInit, Init, Idle, Unminted, Usable
<1> QED BY <1>1 DEF AloneInv, OneLive, Fresh, UsableInForce, Live, At

\* Requests that do not overlap, on a server that is not restarted: once the
\* handlers are done a suspended account has no usable refresh token, and after
\* a password reset no session opened with an earlier password is left.
THEOREM SessionsEndAlone == MCSpec => []AloneSessionsEnd
<1>1. MCInit => IInv /\ AloneInv
      BY InvInit, AloneInit DEF MCInit
<1>2. IInv /\ [MCNext]_<<vars, overlap>> => IInv'
      BY InvStep DEF MCNext, vars
<1>3. IInv /\ AloneInv /\ [MCNext]_<<vars, overlap>> => AloneInv'
      BY AloneStep
<1>4. AloneInv => AloneSessionsEnd
  <2> SUFFICES ASSUME AloneInv, Alone, Quiet, NEW t \in Tokens, Usable(t)
               PROVE  ~account[tok[t].owner].disabled /\ tok[t].pwd = account[tok[t].owner].pwd
      BY DEF AloneSessionsEnd, SuspendedHasNoSession, ResetEndsSessions
  <2>1. ~Ending(tok[t].owner)
        BY DEF Ending, Quiet, At, Live
  <2> QED BY <2>1 DEF AloneInv, UsableInForce, InForce
<1> QED BY <1>1, <1>2, <1>3, <1>4, PTL DEF MCSpec

=============================================================================
