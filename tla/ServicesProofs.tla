---------------------------- MODULE ServicesProofs ----------------------------
(***************************************************************************)
(* Proofs about services that share no state: Access (who is let in),      *)
(* Realtime (who hears), PushDelivery (what becomes of a token),           *)
(* PhoneRealtime (one socket), LiveLocation (what goes up when sharing is  *)
(* off), SosFeed (what the page shows) and Listing (what a walk of pages   *)
(* meets), for any accounts, requests, sockets, emits, tokens, sends,      *)
(* commits, incidents, users and pages.                                    *)
(***************************************************************************)
EXTENDS MCServices, ServerProofs, TrackingProofs, FiniteSetTheorems, TLAPS

-----------------------------------------------------------------------------
(* Access: what a request under way knows of its token and its account. *)

Entitled(q) ==
    /\ q.at \in {"decode", "account", "admitted"} =>
          /\ q.token \in TokenType
          /\ q.late => ~ Active(q.token.of)
          /\ q.lateAdmin => account[q.token.of] # "admin"
    /\ q.at \in {"account", "admitted"} => q.decoded < q.token.born + AccessLife
    /\ q.at = "admitted" => ~ q.late /\ (q.admin => ~ q.lateAdmin)

AccessInv == AccessTypeOK /\ \A r \in Visits : Entitled(request[r])

LEMMA NoRequestTyped == NoRequest \in RequestType
<1>1. 0 \in 0..LastTick
      BY AccessAssumption
<1> QED BY <1>1 DEF NoRequest, RequestType

LEMMA RequestSteps ==
    ASSUME AccessInv, NEW r \in Visits, NEW q \in RequestType, SetRequest(r, q), Entitled(q),
           UNCHANGED <<tick, account, session, endedAt, issued, turns>>
    PROVE  AccessInv'
<1>1. /\ request'[r] = q /\ \A s \in Visits \ {r} : request'[s] = request[s]
      /\ request' \in [Visits -> RequestType]
      BY DEF SetRequest, AccessInv, AccessTypeOK
<1>2. AccessTypeOK'
      BY <1>1 DEF AccessInv, AccessTypeOK
<1>3. ASSUME NEW s \in Visits PROVE Entitled(request[s])'
  <2>1. Entitled(request'[s])
        BY <1>1 DEF AccessInv
  <2> QED BY <2>1 DEF Entitled, Active
<1> QED BY <1>2, <1>3 DEF AccessInv

LEMMA AnswerEntitled ==
    ASSUME NEW at \in {"200", "401", "403", "404", "idle"}
    PROVE  /\ [NoRequest EXCEPT !.at = at] \in RequestType
           /\ Entitled([NoRequest EXCEPT !.at = at])
<1> DEFINE q == [NoRequest EXCEPT !.at = at]
<1>1. q \in RequestType /\ q.at = at
      BY NoRequestTyped DEF RequestType
<1> HIDE DEF q
<1>2. Entitled(q)
      BY <1>1 DEF Entitled
<1> QED BY <1>1, <1>2 DEF q

LEMMA AccessInitHolds == AccessInit => AccessInv
<1> SUFFICES ASSUME AccessInit PROVE AccessInv
    OBVIOUS
<1>1. /\ tick \in 0..LastTick /\ turns \in 0..MaxTurns /\ issued \subseteq TokenType
      /\ account \in [Holders -> {"admin", "user", "disabled", "deleted"}]
      /\ session \in [Holders -> BOOLEAN] /\ endedAt \in [Holders -> 0..LastTick]
      BY AccessAssumption DEF AccessInit
<1>2. request \in [Visits -> RequestType]
      BY NoRequestTyped DEF AccessInit
<1>3. ASSUME NEW r \in Visits PROVE Entitled(request[r])
      BY DEF AccessInit, NoRequest, Entitled
<1> QED BY <1>1, <1>2, <1>3 DEF AccessInv, AccessTypeOK

LEMMA AccessTurns ==
    ASSUME AccessInv, NEW u \in Holders, NEW a \in {"admin", "user", "disabled", "deleted"},
           AccountTurns(u, a)
    PROVE  AccessInv'
<1> DEFINE new(q) == IF q.token.of # u THEN q
                     ELSE [q EXCEPT !.late = @ /\ a \notin {"admin", "user"},
                                    !.lateAdmin = @ /\ a # "admin"]
<1>1. ASSUME NEW q \in RequestType
      PROVE  /\ new(q) \in RequestType /\ new(q).at = q.at /\ new(q).token = q.token
             /\ new(q).decoded = q.decoded /\ new(q).admin = q.admin
             /\ new(q).late => q.late
             /\ new(q).lateAdmin => q.lateAdmin
             /\ q.token.of = u => /\ new(q).late => a \notin {"admin", "user"}
                                  /\ new(q).lateAdmin => a # "admin"
  <2>1. CASE q.token.of # u
        BY <2>1
  <2>2. CASE q.token.of = u
        BY <2>2 DEF RequestType
  <2> QED BY <2>1, <2>2
<1>2. /\ request' = [r \in Visits |-> new(request[r])]
      /\ account' = [account EXCEPT ![u] = a] /\ UNCHANGED <<tick, session, endedAt, issued>>
      BY DEF AccountTurns
<1>0. turns' \in 0..MaxTurns
  <2>1. turns < MaxTurns /\ turns' = turns + 1
        BY DEF AccountTurns, Turn
  <2>2. turns \in 0..MaxTurns
        BY DEF AccessInv, AccessTypeOK
  <2> QED BY <2>1, <2>2, AccessAssumption
<1> HIDE DEF new
<1>3. \A r \in Visits : request[r] \in RequestType /\ request'[r] = new(request[r])
      BY <1>2 DEF AccessInv, AccessTypeOK
<1>4. AccessTypeOK'
  <2>1. request' \in [Visits -> RequestType]
        BY <1>1, <1>2, <1>3
  <2> QED BY <1>0, <1>2, <2>1 DEF AccessInv, AccessTypeOK
<1>5. ASSUME NEW r \in Visits PROVE Entitled(request[r])'
  <2> DEFINE q == request[r]
  <2>1. Entitled(q) /\ q \in RequestType /\ request'[r] = new(q)
        BY <1>3 DEF AccessInv
  <2> HIDE DEF q
  <2>2. q.at \in {"decode", "account", "admitted"} /\ new(q).late => account'[q.token.of] \notin {"admin", "user"}
    <3> SUFFICES ASSUME q.at \in {"decode", "account", "admitted"}, new(q).late
                 PROVE  account'[q.token.of] \notin {"admin", "user"}
        OBVIOUS
    <3>1. q.token.of \in Holders /\ ~ Active(q.token.of)
          BY <1>1, <2>1 DEF Entitled, TokenType
    <3>2. q.token.of = u => a \notin {"admin", "user"}
          BY <1>1, <2>1
    <3> QED BY <1>2, <3>1, <3>2 DEF Active, AccessInv, AccessTypeOK
  <2>3. q.at \in {"decode", "account", "admitted"} /\ new(q).lateAdmin => account'[q.token.of] # "admin"
    <3> SUFFICES ASSUME q.at \in {"decode", "account", "admitted"}, new(q).lateAdmin
                 PROVE  account'[q.token.of] # "admin"
        OBVIOUS
    <3>1. q.token.of \in Holders /\ account[q.token.of] # "admin"
          BY <1>1, <2>1 DEF Entitled, TokenType
    <3>2. q.token.of = u => a # "admin"
          BY <1>1, <2>1
    <3> QED BY <1>2, <3>1, <3>2 DEF AccessInv, AccessTypeOK
  <2>4. /\ new(q).at = q.at /\ new(q).token = q.token /\ new(q).decoded = q.decoded
        /\ new(q).admin = q.admin /\ (new(q).late => q.late) /\ (new(q).lateAdmin => q.lateAdmin)
        BY <1>1, <2>1
  <2> QED BY <2>1, <2>2, <2>3, <2>4 DEF Entitled, Active
<1> QED BY <1>4, <1>5 DEF AccessInv

LEMMA AccessStep == AccessInv /\ [AccessNext]_accessVars => AccessInv'
<1> SUFFICES ASSUME AccessInv, [AccessNext]_accessVars PROVE AccessInv'
    OBVIOUS
<1> USE AccessAssumption
<1>1. CASE UNCHANGED accessVars
      BY <1>1 DEF accessVars, AccessInv, AccessTypeOK, Entitled, Active
<1>2. ASSUME NEW u \in Holders, Issue(u) PROVE AccessInv'
  <2>1. /\ UNCHANGED <<tick, account, endedAt, request>>
        /\ session' \in [Holders -> BOOLEAN] /\ turns' \in 0..MaxTurns
        BY <1>2 DEF Issue, Turn, AccessInv, AccessTypeOK
  <2>2. issued' \subseteq TokenType
        BY <1>2 DEF Issue, AccessInv, AccessTypeOK, TokenType
  <2> QED BY <2>1, <2>2 DEF AccessInv, AccessTypeOK, Entitled, Active
<1>3. ASSUME NEW u \in Holders, EndSessions(u) PROVE AccessInv'
  <2>1. /\ UNCHANGED <<tick, account, issued, request>>
        /\ session' \in [Holders -> BOOLEAN] /\ turns' \in 0..MaxTurns
        /\ endedAt' \in [Holders -> 0..LastTick]
        BY <1>3 DEF EndSessions, Turn, AccessInv, AccessTypeOK
  <2> QED BY <2>1 DEF AccessInv, AccessTypeOK, Entitled, Active
<1>4. ASSUME NEW u \in Holders, NEW a \in {"admin", "user", "disabled", "deleted"},
             AccountTurns(u, a)
      PROVE  AccessInv'
      BY <1>4, AccessTurns
<1>5. ASSUME NEW r \in Visits, NEW t \in issued, NEW admin \in BOOLEAN, BeginRequest(r, t, admin)
      PROVE  AccessInv'
  <2> DEFINE q == [at |-> "decode", token |-> t, admin |-> admin, decoded |-> 0,
                   late |-> ~Active(t.of), lateAdmin |-> account[t.of] # "admin"]
  <2>1. t \in TokenType
        BY DEF AccessInv, AccessTypeOK
  <2>2. /\ q \in RequestType /\ q.at = "decode" /\ q.token = t
        /\ q.late = (~Active(t.of)) /\ q.lateAdmin = (account[t.of] # "admin")
        BY <2>1 DEF RequestType, Active
  <2>3. SetRequest(r, q) /\ RequestFrame
        BY <1>5 DEF BeginRequest
  <2> HIDE DEF q
  <2>4. Entitled(q)
        BY <2>1, <2>2 DEF Entitled
  <2> QED BY <2>2, <2>3, <2>4, RequestSteps DEF RequestFrame
<1>6. ASSUME NEW r \in Visits, WithoutBearer(r) PROVE AccessInv'
      BY <1>6, AnswerEntitled, RequestSteps DEF WithoutBearer, RequestFrame
<1>7. ASSUME NEW r \in Visits, Decode(r) PROVE AccessInv'
  <2>1. /\ request[r] \in RequestType /\ Entitled(request[r]) /\ request[r].at = "decode"
        /\ RequestFrame /\ tick \in 0..LastTick
        BY <1>7 DEF Decode, AccessInv, AccessTypeOK
  <2>2. CASE Decodes(request[r].token)
    <3> DEFINE q == [request[r] EXCEPT !.at = "account", !.decoded = tick]
    <3>1. /\ q \in RequestType /\ q.at = "account" /\ q.decoded = tick
          /\ q.token = request[r].token /\ q.late = request[r].late
          /\ q.lateAdmin = request[r].lateAdmin
          BY <2>1 DEF RequestType
    <3>2. SetRequest(r, q)
          BY <1>7, <2>2 DEF Decode
    <3> HIDE DEF q
    <3>3. Entitled(q)
          BY <2>1, <2>2, <3>1 DEF Entitled, Decodes
    <3> QED BY <2>1, <3>1, <3>2, <3>3, RequestSteps DEF RequestFrame
  <2>3. CASE ~ Decodes(request[r].token)
    <3>1. SetRequest(r, [NoRequest EXCEPT !.at = "401"])
          BY <1>7, <2>3 DEF Decode
    <3> QED BY <2>1, <3>1, AnswerEntitled, RequestSteps DEF RequestFrame
  <2> QED BY <2>2, <2>3
<1>8. ASSUME NEW r \in Visits, CheckAccount(r) PROVE AccessInv'
  <2> DEFINE u == request[r].token.of
  <2>1. /\ request[r] \in RequestType /\ Entitled(request[r]) /\ request[r].at = "account"
        /\ RequestFrame
        BY <1>8 DEF CheckAccount, AccessInv, AccessTypeOK
  <2>2. CASE ~ LetIn(u)
    <3>1. SetRequest(r, [NoRequest EXCEPT !.at = "401"])
          BY <1>8, <2>2 DEF CheckAccount
    <3> QED BY <2>1, <3>1, AnswerEntitled, RequestSteps DEF RequestFrame
  <2>3. CASE LetIn(u) /\ request[r].admin /\ account[u] # "admin"
    <3>1. SetRequest(r, [NoRequest EXCEPT !.at = "403"])
          BY <1>8, <2>3 DEF CheckAccount
    <3> QED BY <2>1, <3>1, AnswerEntitled, RequestSteps DEF RequestFrame
  <2>4. CASE LetIn(u) /\ ~ (request[r].admin /\ account[u] # "admin")
    <3> DEFINE q == [request[r] EXCEPT !.at = "admitted"]
    <3>1. /\ q \in RequestType /\ q.at = "admitted" /\ q.decoded = request[r].decoded
          /\ q.token = request[r].token /\ q.late = request[r].late
          /\ q.lateAdmin = request[r].lateAdmin /\ q.admin = request[r].admin
          BY <2>1 DEF RequestType
    <3>2. SetRequest(r, q)
          BY <1>8, <2>4 DEF CheckAccount
    <3>3. u \in Holders /\ Active(u)
          BY <2>1, <2>4 DEF Entitled, TokenType, LetIn, Active, AccessInv, AccessTypeOK
    <3> HIDE DEF q
    <3>4. Entitled(q)
          BY <2>1, <2>4, <3>1, <3>3 DEF Entitled
    <3> QED BY <2>1, <3>1, <3>2, <3>4, RequestSteps DEF RequestFrame
  <2> QED BY <2>2, <2>3, <2>4
<1>9. ASSUME NEW r \in Visits, Handle(r) PROVE AccessInv'
  <2>1. CASE Updated(request[r].token.of)
        BY <1>9, <2>1, AnswerEntitled, RequestSteps DEF Handle, RequestFrame
  <2>2. CASE ~ Updated(request[r].token.of)
        BY <1>9, <2>2, AnswerEntitled, RequestSteps DEF Handle, RequestFrame
  <2> QED BY <2>1, <2>2
<1>10. ASSUME NEW r \in Visits, Answered(r) PROVE AccessInv'
  <2>1. Entitled(NoRequest)
        BY DEF Entitled, NoRequest
  <2> QED BY <1>10, <2>1, NoRequestTyped, RequestSteps DEF Answered, RequestFrame
<1>11. CASE TickOn
  <2>1. UNCHANGED <<account, session, endedAt, issued, request, turns>> /\ tick' \in 0..LastTick
        BY <1>11 DEF TickOn, AccessInv, AccessTypeOK
  <2> QED BY <2>1 DEF AccessInv, AccessTypeOK, Entitled, Active
<1> QED BY <1>1, <1>2, <1>3, <1>4, <1>5, <1>6, <1>7, <1>8, <1>9, <1>10, <1>11 DEF AccessNext

\* Who is let in was entitled at some moment of the request, an admin route asks
\* for an admin, and a token of an ended session is good for less than its life.
THEOREM LetInWereEntitled == AccessSpec => []AccessEnds
<1>1. AccessInit => AccessInv
      BY AccessInitHolds
<1>2. AccessInv /\ [AccessNext]_accessVars => AccessInv'
      BY AccessStep
<1>3. AccessInv => AccessEnds
  <2> SUFFICES ASSUME AccessInv, NEW r \in Visits, request[r].at = "admitted"
               PROVE  /\ ~request[r].late
                      /\ request[r].admin => ~request[r].lateAdmin
                      /\ request[r].token.born <= endedAt[request[r].token.of]
                           => request[r].decoded < endedAt[request[r].token.of] + AccessLife
      BY DEF AccessEnds
  <2>1. Entitled(request[r]) /\ request[r] \in RequestType
        BY DEF AccessInv, AccessTypeOK
  <2>2. request[r].token \in TokenType /\ request[r].decoded \in Nat
        BY <2>1 DEF Entitled, RequestType
  <2>3. endedAt[request[r].token.of] \in Nat /\ request[r].token.born \in Nat
        BY <2>2 DEF TokenType, AccessInv, AccessTypeOK
  <2> QED BY <2>1, <2>2, <2>3, AccessAssumption DEF Entitled
<1> QED BY <1>1, <1>2, <1>3, PTL DEF AccessSpec

-----------------------------------------------------------------------------
(* Realtime: the registries, the handshakes and the snapshots of the emits. *)

\* The role a handshake read is the one of the account, until the admin changes it.
RoleWasRead ==
    \A s \in Sockets :
        sock[s].at \in {"accepting", "open"} /\ sock[s].admin
          => standing[sock[s].user] = "admin" \/ s \in outdated

\* An emit drops only sockets that failed it, and has tried, holds, or will take
\* up each socket of its snapshot.
SnapshotKept(r) ==
    /\ r.dead \subseteq failedOn
    /\ r.due = r.tried \cup r.todo \cup r.rest

RealtimeInv ==
    /\ RealtimeTypeOK /\ RegistriesAgree /\ DeafAfterFailure /\ RoleWasRead
    /\ \A e \in Emits : emit[e].at # "idle" => SnapshotKept(emit[e])
    /\ \A e \in Emits : emit[e].dead \subseteq failedOn

LEMMA RealtimeInitHolds == RealtimeInit => RealtimeInv
<1> SUFFICES ASSUME RealtimeInit PROVE RealtimeInv
    OBVIOUS
<1>1. PICK a \in Accounts :
          /\ sock = [s \in Sockets |-> [at |-> "free", user |-> a, admin |-> FALSE, peer |-> "up"]]
          /\ emit = [e \in Emits |-> [at |-> "idle", owner |-> a, rest |-> {}, todo |-> {},
                                      dead |-> {}, tried |-> {}, due |-> {}]]
      BY DEF RealtimeInit
<1>2. sock \in [Sockets -> SocketType]
      BY <1>1 DEF SocketType
<1>3. emit \in [Emits -> EmitType]
      BY <1>1 DEF EmitType
<1>4. /\ standing \in [Accounts -> {"admin", "user", "disabled"}]
      /\ connections = [b \in Accounts |-> {}] /\ adminConnections = [b \in Accounts |-> {}]
      /\ peerMoves \in 0..MaxPeerMoves /\ failedOn = {} /\ outdated = {}
      BY RealtimeAssumption DEF RealtimeInit
<1>5. RealtimeTypeOK
      BY <1>2, <1>3, <1>4 DEF RealtimeTypeOK
<1>6. RegistriesAgree /\ DeafAfterFailure /\ RoleWasRead
      BY <1>1, <1>4 DEF RegistriesAgree, DeafAfterFailure, RoleWasRead
<1> QED BY <1>1, <1>5, <1>6 DEF RealtimeInv

\* A step on one socket that leaves it out of the registries, where it was not,
\* and what it is forgotten by.
LEMMA UnlistedSocket ==
    ASSUME RealtimeInv, NEW s \in Sockets, NEW r \in SocketType, SetSocket(s, r),
           sock[s].at # "open", r.at # "open",
           r.at = "accepting" /\ r.admin => standing[r.user] = "admin" \/ s \in outdated',
           \A u \in Sockets \ {s} : /\ u \in outdated => u \in outdated'
                                    /\ u \in failedOn => u \in failedOn',
           \A e \in Emits : emit[e].dead \subseteq failedOn',
           outdated' \subseteq Sockets, failedOn' \subseteq Sockets,
           peerMoves' \in 0..MaxPeerMoves, UNCHANGED <<standing, connections, adminConnections, emit>>
    PROVE  RealtimeInv'
<1>1. /\ sock'[s] = r /\ \A u \in Sockets \ {s} : sock'[u] = sock[u]
      /\ sock' \in [Sockets -> SocketType]
      BY DEF SetSocket, RealtimeInv, RealtimeTypeOK
<1>2. RealtimeTypeOK'
      BY <1>1 DEF RealtimeInv, RealtimeTypeOK
<1>3. \A a \in Accounts : s \notin connections[a] /\ connections[a] \subseteq Sockets
      BY DEF RealtimeInv, RegistriesAgree, RealtimeTypeOK
<1>4. RegistriesAgree'
  <2> SUFFICES ASSUME NEW a \in Accounts
               PROVE  /\ \A u \in connections[a] : sock'[u].at = "open" /\ sock'[u].user = a
                      /\ adminConnections[a] = {u \in connections[a] : sock'[u].admin}
      BY DEF RegistriesAgree
  <2>1. \A u \in connections[a] : sock'[u] = sock[u]
        BY <1>1, <1>3
  <2> QED BY <2>1 DEF RealtimeInv, RegistriesAgree
<1>5. DeafAfterFailure'
      BY <1>1 DEF RealtimeInv, DeafAfterFailure
<1>6. RoleWasRead'
      BY <1>1 DEF RealtimeInv, RoleWasRead
<1>7. \A e \in Emits : emit'[e].at # "idle" => SnapshotKept(emit[e])'
      BY DEF RealtimeInv, SnapshotKept
<1> QED BY <1>2, <1>4, <1>5, <1>6, <1>7 DEF RealtimeInv

\* Disconnecting sockets that failed, or that are not open any more.
LEMMA Disconnecting ==
    ASSUME RealtimeInv, NEW a \in Accounts, NEW gone \in SUBSET Sockets, Disconnect(a, gone)
    PROVE  /\ connections' \in [Accounts -> SUBSET Sockets]
           /\ adminConnections' \in [Accounts -> SUBSET Sockets]
           /\ connections'[a] = connections[a] \ gone
           /\ adminConnections'[a] = adminConnections[a] \ gone
           /\ \A b \in Accounts \ {a} : /\ connections'[b] = connections[b]
                                        /\ adminConnections'[b] = adminConnections[b]
  BY DEF Disconnect, RealtimeInv, RealtimeTypeOK

\* A step of an emit that leaves the sockets and the registries alone.
LEMMA EmitOnly ==
    ASSUME RealtimeInv, NEW e \in Emits, NEW r \in EmitType, SetEmit(e, r),
           failedOn \subseteq failedOn', failedOn' \subseteq Sockets,
           r.dead \subseteq failedOn',
           r.at # "idle" => r.due = r.tried \cup r.todo \cup r.rest,
           UNCHANGED <<standing, sock, connections, adminConnections, peerMoves, outdated>>
    PROVE  RealtimeInv'
<1>1. /\ emit'[e] = r /\ \A f \in Emits \ {e} : emit'[f] = emit[f]
      /\ emit' \in [Emits -> EmitType]
      BY DEF SetEmit, RealtimeInv, RealtimeTypeOK
<1>2. RealtimeTypeOK'
      BY <1>1 DEF RealtimeInv, RealtimeTypeOK
<1>3. RegistriesAgree' /\ DeafAfterFailure' /\ RoleWasRead'
      BY DEF RealtimeInv, RegistriesAgree, DeafAfterFailure, RoleWasRead
<1>4. \A f \in Emits : emit'[f].dead \subseteq failedOn'
      BY <1>1 DEF RealtimeInv
<1>5. \A f \in Emits : emit'[f].at # "idle" => SnapshotKept(emit[f])'
      BY <1>1, <1>4 DEF RealtimeInv, SnapshotKept
<1> QED BY <1>2, <1>3, <1>4, <1>5 DEF RealtimeInv

\* The sockets: one step of a connection each.
LEMMA SocketSteps ==
    ASSUME RealtimeInv, NEW s \in Sockets,
           \/ \E a \in Accounts : OpenConnection(s, a)
           \/ \E good \in BOOLEAN : Authenticate(s, good)
           \/ Refuse(s) \/ Release(s)
    PROVE  RealtimeInv'
<1>1. sock[s] \in SocketType /\ peerMoves \in 0..MaxPeerMoves
      BY DEF RealtimeInv, RealtimeTypeOK
<1>2. CASE \E a \in Accounts : OpenConnection(s, a)
  <2>1. PICK a \in Accounts : OpenConnection(s, a)
        BY <1>2
  <2> DEFINE r == [at |-> "handshake", user |-> a, admin |-> FALSE, peer |-> "up"]
  <2>2. r \in SocketType /\ r.at = "handshake"
        BY DEF SocketType
  <2>3. /\ SetSocket(s, r) /\ sock[s].at = "free" /\ \A e \in Emits : s \notin emit[e].dead
        /\ failedOn' = failedOn \ {s} /\ outdated' = outdated \ {s}
        /\ UNCHANGED <<standing, connections, adminConnections, emit>>
        BY <2>1 DEF OpenConnection, Registries
  <2>4. peerMoves' \in 0..MaxPeerMoves
    <3>1. peerMoves < MaxPeerMoves /\ peerMoves' = peerMoves + 1
          BY <2>1 DEF OpenConnection, PeerMove
    <3> QED BY <1>1, <3>1, RealtimeAssumption
  <2>5. \A e \in Emits : emit[e].dead \subseteq failedOn'
        BY <2>3 DEF RealtimeInv
  <2>6. failedOn' \subseteq Sockets /\ outdated' \subseteq Sockets
        BY <2>3 DEF RealtimeInv, RealtimeTypeOK
  <2> HIDE DEF r
  <2> QED BY <2>2, <2>3, <2>4, <2>5, <2>6, UnlistedSocket
<1>3. CASE \E good \in BOOLEAN : Authenticate(s, good)
  <2> DEFINE yes == [sock[s] EXCEPT !.at = "accepting", !.admin = standing[sock[s].user] = "admin"]
             no == [sock[s] EXCEPT !.at = "refused"]
  <2>1. /\ yes \in SocketType /\ yes.at = "accepting" /\ yes.user = sock[s].user
        /\ yes.admin = (standing[sock[s].user] = "admin")
        /\ no \in SocketType /\ no.at = "refused"
        BY <1>1 DEF SocketType
  <2>2. /\ SetSocket(s, yes) \/ SetSocket(s, no)
        /\ sock[s].at = "handshake"
        /\ UNCHANGED <<standing, connections, adminConnections, emit, peerMoves, failedOn, outdated>>
        BY <1>3 DEF Authenticate, Registries
  <2>3. /\ \A e \in Emits : emit[e].dead \subseteq failedOn'
        /\ failedOn' \subseteq Sockets /\ outdated' \subseteq Sockets
        BY <2>2 DEF RealtimeInv, RealtimeTypeOK
  <2> HIDE DEF yes, no
  <2>4. CASE SetSocket(s, yes)
        BY <1>1, <2>1, <2>2, <2>3, <2>4, UnlistedSocket
  <2>5. CASE SetSocket(s, no)
        BY <1>1, <2>1, <2>2, <2>3, <2>5, UnlistedSocket
  <2> QED BY <2>2, <2>4, <2>5
<1>4. CASE Refuse(s) \/ Release(s)
  <2> DEFINE r == [sock[s] EXCEPT !.at = "free"]
  <2>1. r \in SocketType /\ r.at = "free"
        BY <1>1 DEF SocketType
  <2>2. /\ SetSocket(s, r) /\ sock[s].at # "open"
        /\ UNCHANGED <<standing, connections, adminConnections, emit, peerMoves, failedOn, outdated>>
        BY <1>4 DEF Refuse, Release, Registries
  <2>3. /\ \A e \in Emits : emit[e].dead \subseteq failedOn'
        /\ failedOn' \subseteq Sockets /\ outdated' \subseteq Sockets
        BY <2>2 DEF RealtimeInv, RealtimeTypeOK
  <2> HIDE DEF r
  <2> QED BY <1>1, <2>1, <2>2, <2>3, UnlistedSocket
<1> QED BY <1>2, <1>3, <1>4

LEMMA ConnectKeeps ==
    ASSUME RealtimeInv, NEW s \in Sockets, Connect(s)
    PROVE  RealtimeInv'
<1>1. /\ sock[s] \in SocketType /\ sock[s].at = "accepting" /\ sock[s].user \in Accounts
      /\ UNCHANGED <<standing, emit, peerMoves, failedOn, outdated>>
      BY DEF Connect, RealtimeInv, RealtimeTypeOK, SocketType
<1>2. CASE sock[s].peer = "gone"
  <2> DEFINE r == [sock[s] EXCEPT !.at = "ended"]
  <2>1. r \in SocketType /\ r.at = "ended"
        BY <1>1 DEF SocketType
  <2>2. SetSocket(s, r) /\ UNCHANGED <<connections, adminConnections>>
        BY <1>2 DEF Connect, Registries
  <2>3. /\ \A e \in Emits : emit[e].dead \subseteq failedOn'
        /\ failedOn' \subseteq Sockets /\ outdated' \subseteq Sockets /\ peerMoves' \in 0..MaxPeerMoves
        BY <1>1 DEF RealtimeInv, RealtimeTypeOK
  <2> HIDE DEF r
  <2> QED BY <1>1, <2>1, <2>2, <2>3, UnlistedSocket
<1>3. CASE sock[s].peer # "gone"
  <2> DEFINE a == sock[s].user
             r == [sock[s] EXCEPT !.at = "open"]
  <2>1. r \in SocketType /\ r.at = "open" /\ r.user = a /\ r.admin = sock[s].admin
        BY <1>1 DEF SocketType
  <2>2. /\ SetSocket(s, r) /\ connections' = [connections EXCEPT ![a] = @ \cup {s}]
        /\ adminConnections' = IF sock[s].admin
                               THEN [adminConnections EXCEPT ![a] = @ \cup {s}]
                               ELSE adminConnections
        BY <1>3 DEF Connect
  <2> HIDE DEF r
  <2>3. /\ sock'[s] = r /\ \A u \in Sockets \ {s} : sock'[u] = sock[u]
        /\ sock' \in [Sockets -> SocketType]
        BY <2>1, <2>2 DEF SetSocket, RealtimeInv, RealtimeTypeOK
  <2>4. /\ connections' \in [Accounts -> SUBSET Sockets]
        /\ adminConnections' \in [Accounts -> SUBSET Sockets]
        /\ connections'[a] = connections[a] \cup {s}
        /\ adminConnections'[a] = IF r.admin THEN adminConnections[a] \cup {s} ELSE adminConnections[a]
        /\ \A b \in Accounts \ {a} : /\ connections'[b] = connections[b]
                                     /\ adminConnections'[b] = adminConnections[b]
        BY <1>1, <2>1, <2>2 DEF RealtimeInv, RealtimeTypeOK
  <2>5. RealtimeTypeOK'
        BY <1>1, <2>3, <2>4 DEF RealtimeInv, RealtimeTypeOK
  <2>6. \A b \in Accounts : connections[b] \subseteq Sockets \ {s}
        BY <1>1 DEF RealtimeInv, RegistriesAgree, RealtimeTypeOK
  <2>7. RegistriesAgree'
    <3> SUFFICES ASSUME NEW b \in Accounts
                 PROVE  /\ \A u \in connections'[b] : sock'[u].at = "open" /\ sock'[u].user = b
                        /\ adminConnections'[b] = {u \in connections'[b] : sock'[u].admin}
        BY DEF RegistriesAgree
    <3>1. \A u \in connections[b] : sock'[u] = sock[u]
          BY <2>3, <2>6
    <3>2. /\ \A u \in connections[b] : sock[u].at = "open" /\ sock[u].user = b
          /\ adminConnections[b] = {u \in connections[b] : sock[u].admin}
          BY DEF RealtimeInv, RegistriesAgree
    <3>3. CASE b = a
          BY <1>1, <2>1, <2>3, <2>4, <3>1, <3>2, <3>3
    <3>4. CASE b # a
          BY <2>4, <3>1, <3>2, <3>4
    <3> QED BY <3>3, <3>4
  <2>8. DeafAfterFailure'
    <3> SUFFICES ASSUME NEW u \in Sockets, sock'[u].at = "open", u \notin connections'[sock'[u].user]
                 PROVE  u \in failedOn'
        BY DEF DeafAfterFailure
    <3>1. u # s
          BY <2>1, <2>3, <2>4
    <3>2. sock'[u] = sock[u] /\ sock[u].user \in Accounts
          BY <2>3, <3>1 DEF RealtimeInv, RealtimeTypeOK, SocketType
    <3>3. u \notin connections[sock[u].user]
          BY <2>4, <3>2
    <3> QED BY <1>1, <3>2, <3>3 DEF RealtimeInv, DeafAfterFailure
  <2>9. RoleWasRead'
    <3> SUFFICES ASSUME NEW u \in Sockets, sock'[u].at \in {"accepting", "open"}, sock'[u].admin
                 PROVE  standing[sock'[u].user] = "admin" \/ u \in outdated
        BY <1>1 DEF RoleWasRead
    <3> QED BY <1>1, <2>1, <2>3 DEF RealtimeInv, RoleWasRead
  <2>10. \A e \in Emits : (emit'[e].at # "idle" => SnapshotKept(emit[e])') /\ emit'[e].dead \subseteq failedOn'
        BY <1>1 DEF RealtimeInv, SnapshotKept
  <2> QED BY <2>5, <2>7, <2>8, <2>9, <2>10 DEF RealtimeInv
<1> QED BY <1>2, <1>3

LEMMA EndpointEndsKeeps ==
    ASSUME RealtimeInv, NEW s \in Sockets, EndpointEnds(s)
    PROVE  RealtimeInv'
<1> DEFINE a == sock[s].user
           r == [sock[s] EXCEPT !.at = "ended"]
<1>1. /\ sock[s] \in SocketType /\ a \in Accounts /\ Disconnect(a, {s}) /\ SetSocket(s, r)
      /\ UNCHANGED <<standing, emit, peerMoves, failedOn, outdated>>
      BY DEF EndpointEnds, RealtimeInv, RealtimeTypeOK, SocketType
<1>2. r \in SocketType /\ r.at = "ended"
      BY <1>1 DEF SocketType
<1> HIDE DEF r
<1>3. /\ sock'[s] = r /\ \A u \in Sockets \ {s} : sock'[u] = sock[u]
      /\ sock' \in [Sockets -> SocketType]
      BY <1>1, <1>2 DEF SetSocket, RealtimeInv, RealtimeTypeOK
<1>4. /\ connections' \in [Accounts -> SUBSET Sockets]
      /\ adminConnections' \in [Accounts -> SUBSET Sockets]
      /\ connections'[a] = connections[a] \ {s}
      /\ adminConnections'[a] = adminConnections[a] \ {s}
      /\ \A b \in Accounts \ {a} : /\ connections'[b] = connections[b]
                                   /\ adminConnections'[b] = adminConnections[b]
      BY <1>1, Disconnecting
<1>5. RealtimeTypeOK'
      BY <1>1, <1>3, <1>4 DEF RealtimeInv, RealtimeTypeOK
<1>6. RegistriesAgree'
  <2> SUFFICES ASSUME NEW b \in Accounts
               PROVE  /\ \A u \in connections'[b] : sock'[u].at = "open" /\ sock'[u].user = b
                      /\ adminConnections'[b] = {u \in connections'[b] : sock'[u].admin}
      BY DEF RegistriesAgree
  <2>1. /\ \A u \in connections[b] : u \in Sockets /\ sock[u].at = "open" /\ sock[u].user = b
        /\ adminConnections[b] = {u \in connections[b] : sock[u].admin}
        BY DEF RealtimeInv, RegistriesAgree, RealtimeTypeOK
  <2>2. \A u \in connections'[b] : u # s /\ u \in connections[b] /\ sock'[u] = sock[u]
        BY <1>3, <1>4, <2>1
  <2>3. connections'[b] = connections[b] \ {s} /\ adminConnections'[b] = adminConnections[b] \ {s}
        BY <1>4, <2>1
  <2> QED BY <2>1, <2>2, <2>3
<1>7. DeafAfterFailure'
  <2> SUFFICES ASSUME NEW u \in Sockets, sock'[u].at = "open", u \notin connections'[sock'[u].user]
               PROVE  u \in failedOn'
      BY DEF DeafAfterFailure
  <2>1. u # s /\ sock'[u] = sock[u] /\ sock[u].user \in Accounts
        BY <1>2, <1>3 DEF RealtimeInv, RealtimeTypeOK, SocketType
  <2>2. u \notin connections[sock[u].user]
        BY <1>4, <2>1
  <2> QED BY <1>1, <2>1, <2>2 DEF RealtimeInv, DeafAfterFailure
<1>8. RoleWasRead'
  <2> SUFFICES ASSUME NEW u \in Sockets, sock'[u].at \in {"accepting", "open"}, sock'[u].admin
               PROVE  standing[sock'[u].user] = "admin" \/ u \in outdated
      BY <1>1 DEF RoleWasRead
  <2> QED BY <1>2, <1>3 DEF RealtimeInv, RoleWasRead
<1>9. \A e \in Emits : (emit'[e].at # "idle" => SnapshotKept(emit[e])') /\ emit'[e].dead \subseteq failedOn'
      BY <1>1 DEF RealtimeInv, SnapshotKept
<1> QED BY <1>5, <1>6, <1>7, <1>8, <1>9 DEF RealtimeInv

LEMMA PeerTurnsKeeps ==
    ASSUME RealtimeInv, NEW s \in Sockets, NEW p \in {"up", "stalled", "gone"}, PeerTurns(s, p)
    PROVE  RealtimeInv'
<1> DEFINE r == [sock[s] EXCEPT !.peer = p]
<1>1. /\ sock[s] \in SocketType /\ SetSocket(s, r) /\ peerMoves \in 0..MaxPeerMoves
      /\ peerMoves < MaxPeerMoves /\ peerMoves' = peerMoves + 1
      /\ UNCHANGED <<standing, connections, adminConnections, emit, failedOn, outdated>>
      BY DEF PeerTurns, PeerMove, Registries, RealtimeInv, RealtimeTypeOK
<1>2. peerMoves' \in 0..MaxPeerMoves
      BY <1>1, RealtimeAssumption
<1>3. r \in SocketType /\ r.at = sock[s].at /\ r.user = sock[s].user /\ r.admin = sock[s].admin
      BY <1>1 DEF SocketType
<1> HIDE DEF r
<1>4. /\ sock' \in [Sockets -> SocketType]
      /\ \A u \in Sockets : /\ sock'[u].at = sock[u].at /\ sock'[u].user = sock[u].user
                            /\ sock'[u].admin = sock[u].admin
      BY <1>1, <1>3 DEF SetSocket, RealtimeInv, RealtimeTypeOK
<1>5. RealtimeTypeOK'
      BY <1>1, <1>2, <1>4 DEF RealtimeInv, RealtimeTypeOK
<1>6. RegistriesAgree'
  <2> SUFFICES ASSUME NEW b \in Accounts
               PROVE  /\ \A u \in connections[b] : sock'[u].at = "open" /\ sock'[u].user = b
                      /\ adminConnections[b] = {u \in connections[b] : sock'[u].admin}
      BY <1>1 DEF RegistriesAgree
  <2>1. connections[b] \subseteq Sockets
        BY DEF RealtimeInv, RealtimeTypeOK
  <2> QED BY <1>4, <2>1 DEF RealtimeInv, RegistriesAgree
<1>7. DeafAfterFailure' /\ RoleWasRead'
      BY <1>1, <1>4 DEF RealtimeInv, DeafAfterFailure, RoleWasRead
<1>8. \A e \in Emits : (emit'[e].at # "idle" => SnapshotKept(emit[e])') /\ emit'[e].dead \subseteq failedOn'
      BY <1>1 DEF RealtimeInv, SnapshotKept
<1> QED BY <1>5, <1>6, <1>7, <1>8 DEF RealtimeInv

LEMMA StandingChangesKeeps ==
    ASSUME RealtimeInv, NEW a \in Accounts, NEW role \in {"admin", "user", "disabled"},
           StandingChanges(a, role)
    PROVE  RealtimeInv'
<1>1. /\ standing' = [standing EXCEPT ![a] = role]
      /\ outdated' = outdated \cup
                     {s \in Sockets : sock[s].at \in {"accepting", "open"} /\ sock[s].user = a}
      /\ peerMoves < MaxPeerMoves /\ peerMoves' = peerMoves + 1 /\ peerMoves \in 0..MaxPeerMoves
      /\ UNCHANGED <<sock, connections, adminConnections, emit, failedOn>>
      BY DEF StandingChanges, PeerMove, Registries, RealtimeInv, RealtimeTypeOK
<1>2. peerMoves' \in 0..MaxPeerMoves
      BY <1>1, RealtimeAssumption
<1>3. RealtimeTypeOK'
      BY <1>1, <1>2 DEF RealtimeInv, RealtimeTypeOK
<1>4. RegistriesAgree' /\ DeafAfterFailure'
      BY <1>1 DEF RealtimeInv, RegistriesAgree, DeafAfterFailure
<1>5. RoleWasRead'
  <2> SUFFICES ASSUME NEW u \in Sockets, sock[u].at \in {"accepting", "open"}, sock[u].admin
               PROVE  standing'[sock[u].user] = "admin" \/ u \in outdated'
      BY <1>1 DEF RoleWasRead
  <2>1. sock[u].user \in Accounts
        BY DEF RealtimeInv, RealtimeTypeOK, SocketType
  <2>2. CASE sock[u].user = a
        BY <1>1, <2>2
  <2>3. CASE sock[u].user # a
        BY <1>1, <2>1, <2>3 DEF RealtimeInv, RoleWasRead, RealtimeTypeOK
  <2> QED BY <2>2, <2>3
<1>6. \A e \in Emits : (emit'[e].at # "idle" => SnapshotKept(emit[e])') /\ emit'[e].dead \subseteq failedOn'
      BY <1>1 DEF RealtimeInv, SnapshotKept
<1> QED BY <1>3, <1>4, <1>5, <1>6 DEF RealtimeInv

\* The emits.
LEMMA BeginEmitKeeps ==
    ASSUME RealtimeInv, NEW e \in Emits, NEW a \in Accounts, BeginEmit(e, a)
    PROVE  RealtimeInv'
<1> DEFINE r == [at |-> "users", owner |-> a, rest |-> {}, todo |-> connections[a], dead |-> {},
                 tried |-> {}, due |-> connections[a]]
<1>1. /\ r \in EmitType /\ r.dead = {} /\ r.due = r.tried \cup r.todo \cup r.rest
      BY DEF EmitType, RealtimeInv, RealtimeTypeOK
<1>2. /\ SetEmit(e, r) /\ failedOn' = failedOn /\ failedOn' \subseteq Sockets
      /\ UNCHANGED <<standing, sock, connections, adminConnections, peerMoves, outdated>>
      BY DEF BeginEmit, Registries, EndpointFrame, RealtimeInv, RealtimeTypeOK
<1> HIDE DEF r
<1> QED BY <1>1, <1>2, EmitOnly

LEMMA SendKeeps ==
    ASSUME RealtimeInv, NEW e \in Emits, NEW s \in Sockets, Send(e, s)
    PROVE  RealtimeInv'
<1>1. PICK result \in SendMayGive(s) :
          /\ SetEmit(e, NotesTheDead(emit[e], s, result))
          /\ failedOn' = IF result = "dead" THEN failedOn \cup {s} ELSE failedOn
      BY DEF Send
<1> DEFINE r == NotesTheDead(emit[e], s, result)
<1>2. /\ emit[e] \in EmitType /\ s \in emit[e].todo /\ failedOn \subseteq Sockets
      /\ emit[e].dead \subseteq failedOn
      /\ emit[e].at # "idle" => emit[e].due = emit[e].tried \cup emit[e].todo \cup emit[e].rest
      /\ UNCHANGED <<standing, sock, connections, adminConnections, peerMoves, outdated>>
      BY DEF Send, Registries, EndpointFrame, RealtimeInv, RealtimeTypeOK, SnapshotKept
<1>3. /\ r \in EmitType /\ r.at = emit[e].at /\ r.due = emit[e].due /\ r.rest = emit[e].rest
      /\ r.tried = emit[e].tried \cup {s} /\ r.todo = emit[e].todo \ {s}
      /\ r.dead = IF result = "dead" THEN emit[e].dead \cup {s} ELSE emit[e].dead
      BY <1>2 DEF NotesTheDead, EmitType
<1>4. SetEmit(e, r)
      BY <1>1
<1> HIDE DEF r
<1>5. failedOn \subseteq failedOn' /\ failedOn' \subseteq Sockets /\ r.dead \subseteq failedOn'
      BY <1>1, <1>2, <1>3
<1>6. r.at # "idle" => r.due = r.tried \cup r.todo \cup r.rest
      BY <1>2, <1>3
<1> QED BY <1>2, <1>3, <1>4, <1>5, <1>6, EmitOnly

LEMMA DropDeadKeeps ==
    ASSUME RealtimeInv, NEW e \in Emits, DropDead(e)
    PROVE  RealtimeInv'
<1> DEFINE gone == emit[e].dead
           r == [emit[e] EXCEPT !.dead = {}]
<1>1. /\ emit[e] \in EmitType /\ gone \in SUBSET Sockets /\ gone \subseteq failedOn
      /\ failedOn \subseteq Sockets
      /\ emit[e].at # "idle" => emit[e].due = emit[e].tried \cup emit[e].todo \cup emit[e].rest
      /\ SetEmit(e, r)
      /\ UNCHANGED <<standing, sock, failedOn, peerMoves, outdated>>
      BY DEF DropDead, EndpointFrame, RealtimeInv, RealtimeTypeOK, EmitType, SnapshotKept
<1>2. PICK s \in gone : Disconnect(sock[s].user, gone)
      BY DEF DropDead
<1>3. /\ r \in EmitType /\ r.at = emit[e].at /\ r.due = emit[e].due /\ r.rest = emit[e].rest
      /\ r.tried = emit[e].tried /\ r.todo = emit[e].todo /\ r.dead = {}
      BY <1>1 DEF EmitType
<1>4. sock[s].user \in Accounts
      BY <1>1, <1>2 DEF RealtimeInv, RealtimeTypeOK, SocketType
<1> HIDE DEF r, gone
<1>5. /\ connections' \in [Accounts -> SUBSET Sockets]
      /\ adminConnections' \in [Accounts -> SUBSET Sockets]
      /\ \A b \in Accounts :
            \/ /\ connections'[b] = connections[b] \ gone
               /\ adminConnections'[b] = adminConnections[b] \ gone
            \/ /\ connections'[b] = connections[b]
               /\ adminConnections'[b] = adminConnections[b]
      BY <1>1, <1>2, <1>4, Disconnecting
<1>6. /\ emit'[e] = r /\ \A f \in Emits \ {e} : emit'[f] = emit[f]
      /\ emit' \in [Emits -> EmitType]
      BY <1>1, <1>3 DEF SetEmit, RealtimeInv, RealtimeTypeOK
<1>7. RealtimeTypeOK'
      BY <1>1, <1>5, <1>6 DEF RealtimeInv, RealtimeTypeOK
<1>8. RegistriesAgree'
  <2> SUFFICES ASSUME NEW b \in Accounts
               PROVE  /\ \A u \in connections'[b] : sock[u].at = "open" /\ sock[u].user = b
                      /\ adminConnections'[b] = {u \in connections'[b] : sock[u].admin}
      BY <1>1 DEF RegistriesAgree
  <2>1. /\ \A u \in connections[b] : sock[u].at = "open" /\ sock[u].user = b
        /\ adminConnections[b] = {u \in connections[b] : sock[u].admin}
        BY DEF RealtimeInv, RegistriesAgree
  <2> QED BY <1>5, <2>1
<1>9. DeafAfterFailure'
  <2> SUFFICES ASSUME NEW u \in Sockets, sock[u].at = "open", u \notin connections'[sock[u].user]
               PROVE  u \in failedOn
      BY <1>1 DEF DeafAfterFailure
  <2>1. sock[u].user \in Accounts
        BY DEF RealtimeInv, RealtimeTypeOK, SocketType
  <2>2. u \notin connections[sock[u].user] \/ u \in gone
        BY <1>5, <2>1
  <2> QED BY <1>1, <2>2 DEF RealtimeInv, DeafAfterFailure
<1>10. RoleWasRead'
       BY <1>1 DEF RealtimeInv, RoleWasRead
<1>11. \A f \in Emits : emit'[f].dead \subseteq failedOn'
       BY <1>1, <1>3, <1>6 DEF RealtimeInv
<1>12. \A f \in Emits : emit'[f].at # "idle" => SnapshotKept(emit[f])'
       BY <1>1, <1>3, <1>6, <1>11 DEF RealtimeInv, SnapshotKept
<1> QED BY <1>7, <1>8, <1>9, <1>10, <1>11, <1>12 DEF RealtimeInv

LEMMA PhasesKeep ==
    ASSUME RealtimeInv, NEW e \in Emits, BeginAdmins(e) \/ NextAdmin(e) \/ EndEmit(e)
    PROVE  RealtimeInv'
<1>1. /\ emit[e] \in EmitType /\ emit[e].dead \subseteq failedOn /\ failedOn \subseteq Sockets
      /\ emit[e].at # "idle" => emit[e].due = emit[e].tried \cup emit[e].todo \cup emit[e].rest
      /\ failedOn' = failedOn /\ AccountDone(e)
      /\ UNCHANGED <<standing, sock, connections, adminConnections, peerMoves, outdated>>
      BY DEF BeginAdmins, NextAdmin, EndEmit, Registries, EndpointFrame, RealtimeInv,
             RealtimeTypeOK, SnapshotKept
<1>2. CASE BeginAdmins(e)
  <2> DEFINE all == UNION {adminConnections[a] : a \in Accounts}
             r == [emit[e] EXCEPT !.at = "admins", !.rest = all, !.due = all, !.tried = {}]
  <2>1. all \in SUBSET Sockets
        BY DEF RealtimeInv, RealtimeTypeOK
  <2>2. SetEmit(e, r)
        BY <1>2 DEF BeginAdmins
  <2> HIDE DEF all
  <2>3. /\ r \in EmitType /\ r.dead = emit[e].dead /\ r.due = all /\ r.tried = {}
        /\ r.todo = emit[e].todo /\ r.rest = all
        BY <1>1, <2>1 DEF EmitType
  <2> HIDE DEF r
  <2>4. r.due = r.tried \cup r.todo \cup r.rest
        BY <1>1, <2>3 DEF AccountDone
  <2> QED BY <1>1, <2>2, <2>3, <2>4, EmitOnly
<1>3. CASE NextAdmin(e)
  <2>1. PICK s \in emit[e].rest :
            LET his == {t \in emit[e].rest : sock[t].user = sock[s].user} IN
            SetEmit(e, [emit[e] EXCEPT !.rest = @ \ his, !.todo = his])
        BY <1>3 DEF NextAdmin
  <2> DEFINE his == {t \in emit[e].rest : sock[t].user = sock[s].user}
             r == [emit[e] EXCEPT !.rest = @ \ his, !.todo = his]
  <2>2. SetEmit(e, r) /\ his \subseteq emit[e].rest
        BY <2>1
  <2> HIDE DEF his
  <2>3. /\ r \in EmitType /\ r.dead = emit[e].dead /\ r.due = emit[e].due /\ r.at = emit[e].at
        /\ r.tried = emit[e].tried /\ r.todo = his /\ r.rest = emit[e].rest \ his
        BY <1>1, <2>2 DEF EmitType
  <2> HIDE DEF r
  <2>4. emit[e].at # "idle"
        BY <1>3 DEF NextAdmin
  <2>5. r.due = r.tried \cup r.todo \cup r.rest
        BY <1>1, <2>2, <2>3, <2>4 DEF AccountDone
  <2> QED BY <1>1, <2>2, <2>3, <2>5, EmitOnly
<1>4. CASE EndEmit(e)
  <2> DEFINE r == [emit[e] EXCEPT !.at = "idle", !.tried = {}, !.due = {}]
  <2>1. r \in EmitType /\ r.at = "idle" /\ r.dead = emit[e].dead
        BY <1>1 DEF EmitType
  <2>2. SetEmit(e, r)
        BY <1>4 DEF EndEmit
  <2> HIDE DEF r
  <2> QED BY <1>1, <2>1, <2>2, EmitOnly
<1> QED BY <1>2, <1>3, <1>4

LEMMA RealtimeStep == RealtimeInv /\ [RealtimeNext]_realtimeVars => RealtimeInv'
<1> SUFFICES ASSUME RealtimeInv, [RealtimeNext]_realtimeVars PROVE RealtimeInv'
    OBVIOUS
<1>1. CASE UNCHANGED realtimeVars
      BY <1>1 DEF realtimeVars, RealtimeInv, RealtimeTypeOK, RegistriesAgree, DeafAfterFailure,
                  RoleWasRead, SnapshotKept
<1>2. ASSUME NEW s \in Sockets,
             \/ \E a \in Accounts : OpenConnection(s, a)
             \/ \E good \in BOOLEAN : Authenticate(s, good)
             \/ Refuse(s) \/ Connect(s) \/ EndpointEnds(s) \/ Release(s)
             \/ \E p \in {"up", "stalled", "gone"} : PeerTurns(s, p)
      PROVE  RealtimeInv'
      BY <1>2, SocketSteps, ConnectKeeps, EndpointEndsKeeps, PeerTurnsKeeps
<1>3. ASSUME NEW a \in Accounts, NEW role \in {"admin", "user", "disabled"}, StandingChanges(a, role)
      PROVE  RealtimeInv'
      BY <1>3, StandingChangesKeeps
<1>4. ASSUME NEW e \in Emits, NEW a \in Accounts, BeginEmit(e, a) PROVE RealtimeInv'
      BY <1>4, BeginEmitKeeps
<1>5. ASSUME NEW e \in Emits, ServerStep(e) PROVE RealtimeInv'
      BY <1>5, SendKeeps, DropDeadKeeps, PhasesKeep DEF ServerStep
<1> QED BY <1>1, <1>2, <1>3, <1>4, <1>5 DEF RealtimeNext

LEMMA RealtimeInvariant == RealtimeSpec => []RealtimeInv
<1>1. RealtimeInit => RealtimeInv
      BY RealtimeInitHolds
<1>2. RealtimeInv /\ [RealtimeNext]_realtimeVars => RealtimeInv'
      BY RealtimeStep
<1> QED BY <1>1, <1>2, PTL DEF RealtimeSpec

LEMMA RegistriesFollow == RealtimeInv => RegistriesExplained
<1> SUFFICES ASSUME RealtimeInv PROVE ListenersExplained
    BY DEF RegistriesExplained, RealtimeInv
<1> SUFFICES ASSUME NEW a \in Accounts, NEW s \in adminConnections[a]
             PROVE  standing[a] = "admin" \/ s \in outdated
    BY DEF ListenersExplained
<1>1. s \in connections[a] /\ sock[s].admin /\ s \in Sockets
      BY DEF RealtimeInv, RegistriesAgree, RealtimeTypeOK
<1>2. sock[s].at = "open" /\ sock[s].user = a
      BY <1>1 DEF RealtimeInv, RegistriesAgree
<1> QED BY <1>1, <1>2 DEF RealtimeInv, RoleWasRead

\* The two registries agree and hold open sockets only, an open socket that is in
\* neither is one a send has failed on, and whoever gets the admin events is an
\* admin or has been changed since its handshake.
THEOREM RegistriesHold == RealtimeSpec => []RegistriesExplained
BY RegistriesFollow, RealtimeInvariant, PTL

LEMMA TriedFollows == RealtimeInv => DeadStopsNobody
    BY DEF RealtimeInv, SnapshotKept, DeadStopsNobody, AccountDone

\* Every socket of the snapshot has been sent to before the next phase of an emit
\* and before its handler returns, whichever of them were dead.
THEOREM EverySocketTried == RealtimeSpec => []DeadStopsNobody
BY TriedFollows, RealtimeInvariant, PTL

-----------------------------------------------------------------------------
(* PushDelivery: the rows of the phones, and the tokens of a send. *)

\* The row of a phone names who is signed in on it, and has not yet left, or
\* there is a cause for it.
RowExplained(t) ==
    \/ tokenRow[t] = Nobody
    \/ tokenRow[t] = signedIn[t] /\ t \notin leaving
    \/ cause[t] # "none"
RowsExplained == \A t \in Tokens : RowExplained(t)

\* A send has each token it asked for in one of its sets; while it posts, its
\* bearer lasts for what the margin has left.
Orderly(r) ==
    /\ r.asked = r.todo \cup r.delivered \cup r.invalid \cup r.failed
    /\ r.todo \cap r.delivered = {} /\ r.todo \cap r.invalid = {} /\ r.todo \cap r.failed = {}
    /\ r.delivered \cap r.invalid = {} /\ r.delivered \cap r.failed = {}
    /\ r.invalid \cap r.failed = {}
    /\ r.pc \in {"lookup", "prune"} => r.todo = {}
    /\ r.pc \in {"lookup", "auth"} =>
          r.delivered = {} /\ r.invalid = {} /\ r.failed = {} /\ r.posted = 0
    /\ r.pc = "post" /\ r.posted <= BearerMargin =>
          /\ r.left + r.posted > BearerMargin
          /\ ~ r.waited /\ r.posted > 0 => r.left + r.posted > BearerMargin + 1

\* Whom a token still to be sent to belongs to is known or explained, and a
\* token found invalid is dead.
Told(r) ==
    /\ \A t \in r.todo : signedIn[t] \in r.audience \/ t \in r.moved \/ cause[t] # "none"
    /\ \A t \in r.invalid : ~ living[t]

PushInv ==
    /\ PushTypeOK /\ RowsExplained /\ PrunedWereDead /\ StrangersExplained
    /\ \A s \in Sends : Orderly(send[s]) /\ Told(send[s])

LEMMA LookUpBegins ==
    ASSUME NEW audience \in SUBSET Subscribers
    PROVE  LET r == [IdleSend EXCEPT !.pc = "lookup", !.audience = audience] IN
           r \in SendType /\ Orderly(r) /\ Told(r)
<1> DEFINE r == [IdleSend EXCEPT !.pc = "lookup", !.audience = audience]
<1>1. IdleSend \in SendType
      BY PushAssumption DEF IdleSend, SendType
<1>2. r \in SendType
      BY <1>1 DEF SendType
<1>3. /\ r.pc = "lookup" /\ r.todo = {} /\ r.delivered = {} /\ r.invalid = {} /\ r.failed = {}
      /\ r.asked = {} /\ r.posted = 0
      BY DEF IdleSend
<1> HIDE DEF r
<1>4. Orderly(r) /\ Told(r)
      BY <1>3 DEF Orderly, Told
<1> QED BY <1>2, <1>4 DEF r

LEMMA PushInitHolds == PushInit => PushInv
<1> SUFFICES ASSUME PushInit PROVE PushInv
    OBVIOUS
<1>1. provider \in Providers
      BY DEF PushInit, BuildNotifications, Providers
<1>2. IdleSend \in SendType
      BY PushAssumption DEF IdleSend, SendType
<1>3. IdleSend \in SendType /\ Orderly(IdleSend) /\ Told(IdleSend)
      BY <1>2 DEF IdleSend, Orderly, Told
<1>4. heard \in HeardType
      BY DEF PushInit, Silence, Somebody, HeardType, Causes
<1>5. PushTypeOK
  <2>1. /\ tokenRow \in [Tokens -> Somebody] /\ signedIn \in [Tokens -> Somebody]
        /\ living \in [Tokens -> BOOLEAN] /\ registering \in [Tokens -> SUBSET Subscribers]
        /\ leaving = {} /\ cause \in [Tokens -> Causes] /\ pruned = {}
        BY DEF PushInit, Somebody, Causes
  <2>2. bearer \in 0..BearerLife /\ changes \in 0..MaxChanges
        BY PushAssumption DEF PushInit, NoBearer
  <2>3. send \in [Sends -> SendType]
        BY <1>3 DEF PushInit
  <2> QED BY <1>1, <1>4, <2>1, <2>2, <2>3 DEF PushTypeOK
<1>6. RowsExplained /\ PrunedWereDead /\ StrangersExplained
      BY DEF PushInit, RowsExplained, RowExplained, PrunedWereDead, StrangersExplained, Silence
<1>7. \A s \in Sends : Orderly(send[s]) /\ Told(send[s])
      BY <1>3 DEF PushInit
<1> QED BY <1>5, <1>6, <1>7 DEF PushInv

LEMMA Moving ==
    ASSUME PushInv, NEW t \in Tokens, Move(t) \/ UNCHANGED send
    PROVE  /\ send' \in [Sends -> SendType]
           /\ \A s \in Sends :
                 /\ Orderly(send'[s])
                 /\ send'[s].todo = send[s].todo /\ send'[s].invalid = send[s].invalid
                 /\ send'[s].audience = send[s].audience
                 /\ send[s].moved \subseteq send'[s].moved
                 /\ Move(t) /\ t \in send[s].todo => t \in send'[s].moved
<1>1. CASE UNCHANGED send /\ ~ Move(t)
      BY <1>1 DEF PushInv, PushTypeOK
<1>2. CASE Move(t)
  <2> DEFINE new(r) == IF t \in r.todo THEN [r EXCEPT !.moved = @ \cup {t}] ELSE r
  <2>1. ASSUME NEW r \in SendType, Orderly(r)
        PROVE  /\ new(r) \in SendType /\ Orderly(new(r))
               /\ new(r).todo = r.todo /\ new(r).invalid = r.invalid
               /\ new(r).audience = r.audience /\ r.moved \subseteq new(r).moved
               /\ t \in r.todo => t \in new(r).moved
    <3>1. CASE t \in r.todo
      <4> DEFINE q == [r EXCEPT !.moved = @ \cup {t}]
      <4>1. /\ q \in SendType /\ q.pc = r.pc /\ q.todo = r.todo /\ q.asked = r.asked
            /\ q.delivered = r.delivered /\ q.invalid = r.invalid /\ q.failed = r.failed
            /\ q.left = r.left /\ q.posted = r.posted /\ q.waited = r.waited
            /\ q.audience = r.audience /\ q.moved = r.moved \cup {t}
            BY DEF SendType
      <4>2. new(r) = q
            BY <3>1
      <4> HIDE DEF q, new
      <4>3. Orderly(q)
            BY <2>1, <4>1 DEF Orderly
      <4> QED BY <4>1, <4>2, <4>3
    <3>2. CASE t \notin r.todo
          BY <2>1, <3>2
    <3> QED BY <3>1, <3>2
  <2>2. send' = [s \in Sends |-> new(send[s])]
        BY <1>2 DEF Move
  <2>3. \A s \in Sends : send[s] \in SendType /\ Orderly(send[s])
        BY DEF PushInv, PushTypeOK
  <2> HIDE DEF new
  <2> QED BY <2>1, <2>2, <2>3
<1> QED BY <1>1, <1>2

\* What a phone or the table may change, as far as the sends are concerned.
LEMMA PhoneSteps ==
    ASSUME PushInv, NEW t \in Tokens, Move(t) \/ UNCHANGED send, PhoneFrame,
           tokenRow' \in [Tokens -> Somebody], signedIn' \in [Tokens -> Somebody],
           living' \in [Tokens -> BOOLEAN], registering' \in [Tokens -> SUBSET Subscribers],
           changes' \in 0..MaxChanges, leaving' \subseteq Tokens, cause' \in [Tokens -> Causes],
           \A u \in Tokens \ {t} : /\ tokenRow'[u] = tokenRow[u] /\ signedIn'[u] = signedIn[u]
                                   /\ u \in leaving' <=> u \in leaving
                                   /\ cause'[u] = cause[u],
           \A u \in Tokens : living'[u] => living[u],
           RowExplained(t)',
           \/ Move(t)
           \/ signedIn'[t] = signedIn[t] /\ (cause[t] # "none" => cause'[t] # "none")
    PROVE  PushInv'
<1>1. /\ send' \in [Sends -> SendType]
      /\ \A s \in Sends :
            /\ Orderly(send'[s])
            /\ send'[s].todo = send[s].todo /\ send'[s].invalid = send[s].invalid
            /\ send'[s].audience = send[s].audience
            /\ send[s].moved \subseteq send'[s].moved
            /\ Move(t) /\ t \in send[s].todo => t \in send'[s].moved
      BY Moving
<1>2. PushTypeOK'
      BY <1>1 DEF PhoneFrame, PushInv, PushTypeOK
<1>3. RowsExplained'
      BY DEF PushInv, RowsExplained, RowExplained
<1>4. PrunedWereDead' /\ StrangersExplained'
      BY DEF PhoneFrame, PushInv, PushTypeOK, PrunedWereDead, StrangersExplained
<1>5. ASSUME NEW s \in Sends PROVE Orderly(send[s])' /\ Told(send[s])'
  <2>1. Orderly(send[s])'
        BY <1>1 DEF Orderly
  <2>2. Told(send[s]) /\ send[s].todo \subseteq Tokens /\ send[s].invalid \subseteq Tokens
        BY DEF PushInv, PushTypeOK, SendType
  <2>3. Told(send[s])'
        BY <1>1, <2>2 DEF Told
  <2> QED BY <2>1, <2>3
<1> QED BY <1>2, <1>3, <1>4, <1>5 DEF PushInv

\* A step of one send, and what it may change beside it.
LEMMA SendOnly ==
    ASSUME PushInv, NEW s \in Sends, NEW r \in SendType, SetSend(s, r), Orderly(r), Told(r),
           SendFrame, bearer' \in 0..BearerLife,
           tokenRow' = tokenRow \/ \E t \in Tokens : tokenRow' = DeleteByToken(t),
           heard' \in HeardType,
           heard'.who \in heard'.audience \/ heard'.moved \/ heard'.cause # "none",
           pruned' \subseteq Tokens, \A t \in pruned' : ~ living[t]
    PROVE  PushInv'
<1>1. /\ send'[s] = r /\ \A u \in Sends \ {s} : send'[u] = send[u]
      /\ send' \in [Sends -> SendType]
      BY DEF SetSend, PushInv, PushTypeOK
<1>2. UNCHANGED <<provider, living, signedIn, registering, changes, leaving, cause>>
      BY DEF SendFrame
<1>3. /\ tokenRow' \in [Tokens -> Somebody]
      /\ \A t \in Tokens : tokenRow'[t] = tokenRow[t] \/ tokenRow'[t] = Nobody
      BY DEF PushInv, PushTypeOK, DeleteByToken, Somebody
<1>4. PushTypeOK'
      BY <1>1, <1>2, <1>3 DEF PushInv, PushTypeOK
<1>5. RowsExplained'
      BY <1>2, <1>3 DEF PushInv, RowsExplained, RowExplained
<1>6. PrunedWereDead' /\ StrangersExplained'
      BY <1>2 DEF PrunedWereDead, StrangersExplained
<1>7. ASSUME NEW u \in Sends PROVE Orderly(send[u])' /\ Told(send[u])'
  <2>1. Orderly(send'[u]) /\ Told(send'[u])
        BY <1>1 DEF PushInv
  <2> QED BY <1>2, <2>1 DEF Orderly, Told
<1> QED BY <1>4, <1>5, <1>6, <1>7 DEF PushInv

\* The same, of a step that leaves the history alone.
LEMMA QuietSend ==
    ASSUME PushInv, NEW s \in Sends, NEW r \in SendType, SetSend(s, r), Orderly(r), Told(r),
           SendFrame, bearer' \in 0..BearerLife, UNCHANGED <<tokenRow, heard, pruned>>
    PROVE  PushInv'
<1>1. /\ heard' \in HeardType
      /\ heard'.who \in heard'.audience \/ heard'.moved \/ heard'.cause # "none"
      /\ pruned' \subseteq Tokens /\ \A t \in pruned' : ~ living[t]
      BY DEF PushInv, PushTypeOK, StrangersExplained, PrunedWereDead
<1> QED BY <1>1, SendOnly

LEMMA BeginSendKeeps ==
    ASSUME PushInv, NEW s \in Sends, NEW audience \in SUBSET Subscribers, BeginSend(s, audience)
    PROVE  PushInv'
<1> DEFINE r == [IdleSend EXCEPT !.pc = "lookup", !.audience = audience]
<1>1. r \in SendType /\ Orderly(r) /\ Told(r)
      BY LookUpBegins
<1>2. /\ SetSend(s, r) /\ SendFrame /\ UNCHANGED <<tokenRow, heard, pruned>>
      /\ bearer' \in 0..BearerLife
      BY DEF BeginSend, PushInv, PushTypeOK
<1> HIDE DEF r
<1> QED BY <1>1, <1>2, QuietSend

LEMMA LookUpKeeps ==
    ASSUME PushInv, NEW s \in Sends, LookUp(s)
    PROVE  PushInv'
<1>1. PICK found \in {{}, TokensForUsers(send[s].audience)} :
          SetSend(s, [send[s] EXCEPT !.pc = IF found = {} THEN "prune" ELSE "auth",
                                     !.todo = found, !.asked = found])
      BY DEF LookUp
<1> DEFINE q == send[s]
           r == [q EXCEPT !.pc = IF found = {} THEN "prune" ELSE "auth",
                          !.todo = found, !.asked = found]
<1>2. /\ q \in SendType /\ Orderly(q) /\ q.pc = "lookup" /\ SetSend(s, r) /\ SendFrame
      /\ UNCHANGED <<tokenRow, heard, pruned>> /\ bearer' \in 0..BearerLife
      BY <1>1 DEF LookUp, PushInv, PushTypeOK
<1>3. found \in SUBSET Tokens /\ \A t \in found : tokenRow[t] \in q.audience
      BY DEF TokensForUsers
<1>4. \A t \in found : signedIn[t] \in q.audience \/ cause[t] # "none"
  <2>1. Nobody \notin q.audience
        BY <1>2, PushAssumption DEF SendType
  <2> QED BY <1>3, <2>1 DEF PushInv, RowsExplained, RowExplained
<1> HIDE DEF q
<1>5. /\ r \in SendType /\ r.todo = found /\ r.asked = found /\ r.audience = q.audience
      /\ r.delivered = q.delivered /\ r.invalid = q.invalid /\ r.failed = q.failed
      /\ r.posted = q.posted /\ r.moved = q.moved
      /\ r.pc = IF found = {} THEN "prune" ELSE "auth"
      BY <1>2, <1>3 DEF SendType
<1> HIDE DEF r
<1>6. Orderly(r)
      BY <1>2, <1>5 DEF Orderly
<1>7. Told(r)
      BY <1>2, <1>4, <1>5 DEF Told, Orderly
<1> QED BY <1>2, <1>5, <1>6, <1>7, QuietSend

LEMMA MockSendKeeps ==
    ASSUME PushInv, NEW s \in Sends, MockSend(s)
    PROVE  PushInv'
<1> DEFINE q == send[s]
           r == [q EXCEPT !.pc = "prune", !.delivered = q.todo, !.todo = {}]
<1>1. /\ q \in SendType /\ Orderly(q) /\ Told(q) /\ q.pc = "auth" /\ SetSend(s, r) /\ SendFrame
      /\ UNCHANGED <<tokenRow, heard, pruned>> /\ bearer' \in 0..BearerLife
      BY DEF MockSend, PushInv, PushTypeOK
<1> HIDE DEF q
<1>2. /\ r \in SendType /\ r.pc = "prune" /\ r.todo = {} /\ r.asked = q.asked
      /\ r.delivered = q.todo /\ r.invalid = q.invalid /\ r.failed = q.failed
      BY <1>1 DEF SendType
<1> HIDE DEF r
<1>3. Orderly(r) /\ Told(r)
      BY <1>1, <1>2 DEF Orderly, Told
<1> QED BY <1>1, <1>2, <1>3, QuietSend

LEMMA AuthoriseKeeps ==
    ASSUME PushInv, NEW s \in Sends, Authorise(s)
    PROVE  PushInv'
<1> DEFINE q == send[s]
           posts(n) == [q EXCEPT !.pc = "post", !.left = n]
           fails == [q EXCEPT !.pc = "prune", !.failed = q.todo, !.todo = {}]
<1>1. /\ q \in SendType /\ Orderly(q) /\ Told(q) /\ q.pc = "auth" /\ SendFrame
      /\ UNCHANGED <<tokenRow, heard, pruned>> /\ bearer \in 0..BearerLife
      BY DEF Authorise, PushInv, PushTypeOK
<1>2. \/ Reusable(bearer) /\ SetSend(s, posts(bearer)) /\ bearer' = bearer
      \/ SetSend(s, posts(BearerLife)) /\ bearer' = BearerLife
      \/ SetSend(s, fails) /\ bearer' = bearer
      BY DEF Authorise
<1> HIDE DEF q
<1>3. ASSUME NEW n \in 0..BearerLife, n > BearerMargin, SetSend(s, posts(n)), bearer' \in 0..BearerLife
      PROVE  PushInv'
  <2>1. /\ posts(n) \in SendType /\ posts(n).pc = "post" /\ posts(n).todo = q.todo
        /\ posts(n).asked = q.asked /\ posts(n).delivered = q.delivered
        /\ posts(n).invalid = q.invalid /\ posts(n).failed = q.failed
        /\ posts(n).left = n /\ posts(n).posted = q.posted
        /\ posts(n).moved = q.moved /\ posts(n).audience = q.audience
        BY <1>1, <1>3 DEF SendType
  <2> HIDE DEF posts
  <2>2. Orderly(posts(n)) /\ Told(posts(n))
        BY <1>1, <1>3, <2>1, PushAssumption DEF Orderly, Told
  <2> QED BY <1>1, <1>3, <2>1, <2>2, QuietSend
<1>4. ASSUME SetSend(s, fails), bearer' = bearer PROVE PushInv'
  <2>1. /\ fails \in SendType /\ fails.pc = "prune" /\ fails.todo = {}
        /\ fails.asked = q.asked /\ fails.delivered = q.delivered
        /\ fails.invalid = q.invalid /\ fails.failed = q.todo
        BY <1>1 DEF SendType
  <2> HIDE DEF fails
  <2>2. Orderly(fails) /\ Told(fails)
        BY <1>1, <2>1 DEF Orderly, Told
  <2> QED BY <1>1, <1>4, <2>1, <2>2, QuietSend
<1>5. BearerLife \in 0..BearerLife /\ BearerLife > BearerMargin
      BY PushAssumption
<1> HIDE DEF posts, fails
<1> QED BY <1>1, <1>2, <1>3, <1>4, <1>5 DEF Reusable

\* A token whose answer is in goes from todo to one of the other sets.
LEMMA SortedOnce ==
    ASSUME NEW q \in SendType, Orderly(q), Told(q), q.pc = "post", NEW t \in q.todo, NEW r \in SendType,
           r.pc = "post", r.todo = q.todo \ {t}, r.asked = q.asked, r.posted = q.posted + 1,
           r.left = q.left, r.audience = q.audience, r.moved = q.moved,
           \/ /\ r.delivered = q.delivered \cup {t} /\ r.invalid = q.invalid /\ r.failed = q.failed
           \/ /\ r.invalid = q.invalid \cup {t} /\ r.delivered = q.delivered /\ r.failed = q.failed
              /\ ~ living[t]
           \/ /\ r.failed = q.failed \cup {t} /\ r.delivered = q.delivered /\ r.invalid = q.invalid
    PROVE  Orderly(r) /\ Told(r)
<1>1. Told(r)
      BY DEF Told
<1>2. q.posted \in Nat /\ q.left \in Nat
  <2>1. q.posted \in Nat /\ q.left \in 0..BearerLife
        BY DEF SendType
  <2> QED BY <2>1, PushAssumption
<1>3. r.posted <= BearerMargin => r.left + r.posted > BearerMargin + 1
      BY <1>2, PushAssumption DEF Orderly
<1>4. r.posted <= BearerMargin => r.left + r.posted > BearerMargin
      BY <1>2, <1>3, PushAssumption
<1>5. /\ r.asked = r.todo \cup r.delivered \cup r.invalid \cup r.failed
      /\ r.todo \cap r.delivered = {} /\ r.todo \cap r.invalid = {} /\ r.todo \cap r.failed = {}
      /\ r.delivered \cap r.invalid = {} /\ r.delivered \cap r.failed = {}
      /\ r.invalid \cap r.failed = {}
      BY DEF Orderly
<1> QED BY <1>1, <1>3, <1>4, <1>5 DEF Orderly

LEMMA PostKeeps ==
    ASSUME PushInv, NEW s \in Sends, NEW t \in Tokens, Post(s, t)
    PROVE  PushInv'
<1> DEFINE q == send[s]
           next == [q EXCEPT !.todo = @ \ {t}, !.posted = @ + 1, !.waited = FALSE]
           got == [next EXCEPT !.delivered = @ \cup {t}]
           dead == [next EXCEPT !.invalid = @ \cup {t}]
           lost == [next EXCEPT !.failed = @ \cup {t}]
           shown == [who |-> signedIn[t], audience |-> q.audience,
                     moved |-> t \in q.moved, cause |-> cause[t]]
<1>1. /\ q \in SendType /\ Orderly(q) /\ Told(q) /\ q.pc = "post" /\ t \in q.todo /\ SendFrame
      /\ UNCHANGED <<tokenRow, pruned>> /\ bearer' \in 0..BearerLife
      BY DEF Post, PushInv, PushTypeOK
<1>2. PICK a \in FcmAnswers(t, q.left) : Sort(s, t, a)
      BY DEF Post
<1>3. \/ SetSend(s, got) /\ heard' = shown
      \/ a.code # "OK" /\ IsDeadToken(a.code, a.atToken) /\ SetSend(s, dead) /\ heard' = heard
      \/ SetSend(s, lost) /\ heard' = heard
      BY <1>2 DEF Sort
<1>4. a.code # "OK" /\ IsDeadToken(a.code, a.atToken) => ~ living[t]
      BY DEF FcmAnswers, IsDeadToken
<1> HIDE DEF q
<1>p. q.posted + 1 \in Nat
      BY <1>1 DEF SendType
<1>n. next = [q EXCEPT !.todo = q.todo \ {t}, !.posted = q.posted + 1, !.waited = FALSE]
      OBVIOUS
<1>d. DOMAIN q = {"pc", "audience", "todo", "asked", "delivered", "invalid", "failed",
                  "moved", "left", "posted", "waited"}
      BY <1>1 DEF SendType
<1> HIDE DEF next
<1>m. next \in SendType
      BY <1>1, <1>p, <1>n DEF SendType
<1>5. /\ next \in SendType /\ next.pc = "post" /\ next.todo = q.todo \ {t} /\ next.asked = q.asked
      /\ next.posted = q.posted + 1 /\ next.left = q.left /\ next.audience = q.audience
      /\ next.moved = q.moved /\ next.delivered = q.delivered /\ next.invalid = q.invalid
      /\ next.failed = q.failed
      BY <1>1, <1>n, <1>d, <1>m
<1>6. CASE SetSend(s, got) /\ heard' = shown
  <2>1. /\ got \in SendType /\ got.pc = "post" /\ got.todo = q.todo \ {t} /\ got.asked = q.asked
        /\ got.posted = q.posted + 1 /\ got.left = q.left /\ got.audience = q.audience
        /\ got.moved = q.moved /\ got.delivered = q.delivered \cup {t} /\ got.invalid = q.invalid
        /\ got.failed = q.failed
        BY <1>5 DEF SendType
  <2> HIDE DEF got
  <2>2. Orderly(got) /\ Told(got)
        BY <1>1, <2>1, SortedOnce
  <2>3. signedIn[t] \in Somebody /\ q.audience \in SUBSET Subscribers /\ cause[t] \in Causes
        BY <1>1 DEF SendType, PushInv, PushTypeOK
  <2>4. /\ heard' \in HeardType
        /\ heard'.who = signedIn[t] /\ heard'.audience = q.audience
        /\ heard'.moved = (t \in q.moved) /\ heard'.cause = cause[t]
        BY <1>6, <2>3 DEF HeardType
  <2>5. heard'.who \in heard'.audience \/ heard'.moved \/ heard'.cause # "none"
        BY <1>1, <2>4 DEF Told
  <2>6. pruned' \subseteq Tokens /\ \A u \in pruned' : ~ living[u]
        BY <1>1 DEF PushInv, PushTypeOK, PrunedWereDead
  <2> QED BY <1>1, <1>6, <2>1, <2>2, <2>4, <2>5, <2>6, SendOnly
<1>7. CASE a.code # "OK" /\ IsDeadToken(a.code, a.atToken) /\ SetSend(s, dead) /\ heard' = heard
  <2>1. /\ dead \in SendType /\ dead.pc = "post" /\ dead.todo = q.todo \ {t} /\ dead.asked = q.asked
        /\ dead.posted = q.posted + 1 /\ dead.left = q.left /\ dead.audience = q.audience
        /\ dead.moved = q.moved /\ dead.delivered = q.delivered /\ dead.invalid = q.invalid \cup {t}
        /\ dead.failed = q.failed
        BY <1>5 DEF SendType
  <2> HIDE DEF dead
  <2>2. Orderly(dead) /\ Told(dead)
        BY <1>1, <1>4, <1>7, <2>1, SortedOnce
  <2> QED BY <1>1, <1>7, <2>1, <2>2, QuietSend
<1>8. CASE SetSend(s, lost) /\ heard' = heard
  <2>1. /\ lost \in SendType /\ lost.pc = "post" /\ lost.todo = q.todo \ {t} /\ lost.asked = q.asked
        /\ lost.posted = q.posted + 1 /\ lost.left = q.left /\ lost.audience = q.audience
        /\ lost.moved = q.moved /\ lost.delivered = q.delivered /\ lost.invalid = q.invalid
        /\ lost.failed = q.failed \cup {t}
        BY <1>5 DEF SendType
  <2> HIDE DEF lost
  <2>2. Orderly(lost) /\ Told(lost)
        BY <1>1, <2>1, SortedOnce
  <2> QED BY <1>1, <1>8, <2>1, <2>2, QuietSend
<1> QED BY <1>3, <1>6, <1>7, <1>8

LEMMA EndPostsKeeps ==
    ASSUME PushInv, NEW s \in Sends, EndPosts(s)
    PROVE  PushInv'
<1> DEFINE q == send[s]
           r == [q EXCEPT !.pc = "prune"]
<1>1. /\ q \in SendType /\ Orderly(q) /\ Told(q) /\ q.todo = {} /\ SetSend(s, r) /\ SendFrame
      /\ UNCHANGED <<tokenRow, heard, pruned>> /\ bearer' \in 0..BearerLife
      BY DEF EndPosts, PushInv, PushTypeOK
<1> HIDE DEF q
<1>2. /\ r \in SendType /\ r.pc = "prune" /\ r.todo = {} /\ r.asked = q.asked
      /\ r.delivered = q.delivered /\ r.invalid = q.invalid /\ r.failed = q.failed
      BY <1>1 DEF SendType
<1> HIDE DEF r
<1>3. Orderly(r) /\ Told(r)
      BY <1>1, <1>2 DEF Orderly, Told
<1> QED BY <1>1, <1>2, <1>3, QuietSend

LEMMA PruneTokenKeeps ==
    ASSUME PushInv, NEW s \in Sends, NEW t \in Tokens, PruneToken(s, t)
    PROVE  PushInv'
<1> DEFINE q == send[s]
           r == [q EXCEPT !.invalid = @ \ {t}, !.asked = @ \ {t}]
<1>1. /\ q \in SendType /\ Orderly(q) /\ Told(q) /\ q.pc = "prune" /\ t \in q.invalid
      /\ SetSend(s, r) /\ SendFrame
      /\ UNCHANGED heard /\ bearer' \in 0..BearerLife
      BY DEF PruneToken, PushInv, PushTypeOK
<1> HIDE DEF q
<1>2. /\ r \in SendType /\ r.pc = "prune" /\ r.todo = q.todo /\ r.asked = q.asked \ {t}
      /\ r.delivered = q.delivered /\ r.invalid = q.invalid \ {t} /\ r.failed = q.failed
      /\ r.audience = q.audience /\ r.moved = q.moved
      BY <1>1 DEF SendType
<1> HIDE DEF r
<1>3. Orderly(r)
      BY <1>1, <1>2 DEF Orderly
<1>4. Told(r)
      BY <1>1, <1>2 DEF Told
<1>5. /\ tokenRow' = tokenRow \/ tokenRow' = DeleteByToken(t)
      /\ pruned' = pruned \cup {t} \/ pruned' = pruned
      BY DEF PruneToken
<1>6. ~ living[t]
      BY <1>1 DEF Told
<1>7. pruned' \subseteq Tokens /\ \A u \in pruned' : ~ living[u]
      BY <1>5, <1>6 DEF PushInv, PushTypeOK, PrunedWereDead
<1>8. /\ heard' \in HeardType
      /\ heard'.who \in heard'.audience \/ heard'.moved \/ heard'.cause # "none"
      BY <1>1 DEF PushInv, PushTypeOK, StrangersExplained
<1> QED BY <1>1, <1>2, <1>3, <1>4, <1>5, <1>7, <1>8, SendOnly

LEMMA EndSendKeeps ==
    ASSUME PushInv, NEW s \in Sends, EndSend(s)
    PROVE  PushInv'
<1>1. /\ SetSend(s, IdleSend) /\ SendFrame
      /\ UNCHANGED <<tokenRow, heard, pruned>> /\ bearer' \in 0..BearerLife
      BY DEF EndSend, PushInv, PushTypeOK
<1>2. IdleSend \in SendType
      BY PushAssumption DEF IdleSend, SendType
<1>3. Orderly(IdleSend) /\ Told(IdleSend)
      BY DEF IdleSend, Orderly, Told
<1> QED BY <1>1, <1>2, <1>3, QuietSend

LEMMA TimeKeeps ==
    ASSUME PushInv, TimeGoesBy
    PROVE  PushInv'
<1> DEFINE aged(q) == [q EXCEPT !.left = IF @ = 0 THEN 0 ELSE @ - 1, !.waited = TRUE]
<1>1. /\ \A s \in Sends : send[s].pc = "post" => ~ send[s].waited /\ send[s].posted > 0
      /\ send' = [s \in Sends |-> IF send[s].pc = "post" THEN aged(send[s]) ELSE send[s]]
      /\ UNCHANGED <<provider, tokenRow, living, signedIn, registering, changes, leaving, cause,
                     heard, pruned>>
      /\ bearer # NoBearer /\ bearer' = bearer - 1 /\ bearer \in 0..BearerLife
      BY DEF TimeGoesBy, PushInv, PushTypeOK
<1>2. bearer' \in 0..BearerLife
  <2>1. bearer # 0 /\ bearer' = bearer - 1 /\ bearer \in 0..BearerLife
        BY <1>1 DEF NoBearer
  <2> QED BY <2>1, PushAssumption
<1>3. ASSUME NEW q \in SendType, Orderly(q), Told(q), q.pc = "post", ~ q.waited, q.posted > 0
      PROVE  aged(q) \in SendType /\ Orderly(aged(q)) /\ Told(aged(q))
  <2>1. q.left \in 0..BearerLife /\ q.posted \in Nat
        BY DEF SendType
  <2> DEFINE n == IF q.left = 0 THEN 0 ELSE q.left - 1
  <2>2. n \in 0..BearerLife /\ aged(q) = [q EXCEPT !.left = n, !.waited = TRUE]
        BY <2>1, PushAssumption
  <2>n. (q.left = 0 /\ n = 0) \/ (q.left > 0 /\ n = q.left - 1)
        BY <2>1, PushAssumption
  <2> HIDE DEF n, aged
  <2>t. [q EXCEPT !.left = n, !.waited = TRUE] \in SendType
        BY <2>2 DEF SendType
  <2>f. DOMAIN q = {"pc", "audience", "todo", "asked", "delivered", "invalid", "failed",
                    "moved", "left", "posted", "waited"}
        BY DEF SendType
  <2>3. /\ aged(q) \in SendType /\ aged(q).pc = "post" /\ aged(q).todo = q.todo
        /\ aged(q).asked = q.asked /\ aged(q).posted = q.posted /\ aged(q).waited
        /\ aged(q).delivered = q.delivered /\ aged(q).invalid = q.invalid
        /\ aged(q).failed = q.failed /\ aged(q).audience = q.audience /\ aged(q).moved = q.moved
        /\ aged(q).left = n
        BY <1>3, <2>2, <2>t, <2>f
  <2>4. q.posted <= BearerMargin => aged(q).left + q.posted > BearerMargin
        BY <1>3, <2>1, <2>n, <2>3, PushAssumption DEF Orderly
  <2>5. Orderly(aged(q)) /\ Told(aged(q))
        BY <1>3, <2>3, <2>4 DEF Orderly, Told
  <2> QED BY <2>3, <2>5
<1> HIDE DEF aged
<1>4. ASSUME NEW s \in Sends
      PROVE  send'[s] \in SendType /\ Orderly(send'[s]) /\ Told(send'[s])
  <2>1. send[s] \in SendType /\ Orderly(send[s]) /\ Told(send[s])
        BY DEF PushInv, PushTypeOK
  <2>2. CASE send[s].pc = "post"
        BY <1>1, <1>3, <2>1, <2>2
  <2>3. CASE send[s].pc # "post"
        BY <1>1, <2>1, <2>3
  <2> QED BY <2>2, <2>3
<1>5. PushTypeOK'
  <2>1. send' \in [Sends -> SendType]
        BY <1>1, <1>4
  <2> QED BY <1>1, <1>2, <2>1 DEF PushInv, PushTypeOK
<1>6. RowsExplained' /\ PrunedWereDead' /\ StrangersExplained'
      BY <1>1 DEF PushInv, RowsExplained, RowExplained, PrunedWereDead, StrangersExplained
<1>7. ASSUME NEW s \in Sends PROVE Orderly(send[s])' /\ Told(send[s])'
      BY <1>1, <1>4 DEF Orderly, Told
<1> QED BY <1>5, <1>6, <1>7 DEF PushInv

LEMMA ChangeTyped ==
    ASSUME PushInv, Change
    PROVE  changes' \in 0..MaxChanges
<1>1. changes < MaxChanges /\ changes' = changes + 1
      BY DEF Change
<1>2. changes \in 0..MaxChanges
      BY DEF PushInv, PushTypeOK
<1> QED BY <1>1, <1>2, PushAssumption

LEMMA PhonesKeep ==
    ASSUME PushInv, NEW t \in Tokens,
           \/ \E u \in Subscribers : SignIn(t, u) \/ Upsert(t, u) \/ RegisterFails(t, u)
           \/ BeginRegister(t) \/ Unregister(t) \/ SignOut(t) \/ AdminDeleteToken(t) \/ TokenDies(t)
    PROVE  PushInv'
<1>1. /\ tokenRow \in [Tokens -> Somebody] /\ signedIn \in [Tokens -> Somebody]
      /\ living \in [Tokens -> BOOLEAN] /\ registering \in [Tokens -> SUBSET Subscribers]
      /\ changes \in 0..MaxChanges /\ leaving \subseteq Tokens /\ cause \in [Tokens -> Causes]
      /\ RowExplained(t)
      /\ Nobody \in Somebody /\ Subscribers \subseteq Somebody
      BY DEF PushInv, PushTypeOK, RowsExplained, Somebody
<1>2. ASSUME NEW u \in Subscribers, SignIn(t, u) PROVE PushInv'
  <2>1. /\ signedIn[t] = Nobody /\ signedIn' = [signedIn EXCEPT ![t] = u] /\ Move(t)
        /\ UNCHANGED <<tokenRow, living, registering, leaving, cause>> /\ PhoneFrame
        /\ changes' \in 0..MaxChanges
        BY <1>2, ChangeTyped DEF SignIn
  <2>2. /\ signedIn' \in [Tokens -> Somebody] /\ signedIn'[t] = u
        /\ \A v \in Tokens \ {t} : signedIn'[v] = signedIn[v]
        BY <1>1, <2>1
  <2>8. RowExplained(t)'
        BY <1>1, <2>1, <2>2 DEF RowExplained
  <2>9. /\ tokenRow' = tokenRow /\ cause' = cause /\ leaving' = leaving
        /\ living' = living /\ registering' = registering
        BY <2>1
  <2> QED BY <1>1, <2>1, <2>2, <2>8, <2>9, PhoneSteps
<1>3. ASSUME NEW u \in Subscribers, Upsert(t, u) PROVE PushInv'
  <2>1. /\ registering' = [registering EXCEPT ![t] = @ \ {u}]
        /\ tokenRow' = [tokenRow EXCEPT ![t] = u]
        /\ cause' = [cause EXCEPT ![t] = IF signedIn[t] = u /\ t \notin leaving THEN "none" ELSE "late"]
        /\ Move(t) /\ UNCHANGED <<living, signedIn, changes, leaving>> /\ PhoneFrame
        BY <1>3 DEF Upsert
  <2>2. /\ tokenRow' \in [Tokens -> Somebody] /\ tokenRow'[t] = u
        /\ \A v \in Tokens \ {t} : tokenRow'[v] = tokenRow[v]
        /\ registering' \in [Tokens -> SUBSET Subscribers]
        BY <1>1, <2>1
  <2>3. /\ cause' \in [Tokens -> Causes] /\ \A v \in Tokens \ {t} : cause'[v] = cause[v]
        /\ RowExplained(t)'
        BY <1>1, <2>1, <2>2 DEF Causes, RowExplained
  <2> QED BY <1>1, <2>1, <2>2, <2>3, PhoneSteps
<1>4. ASSUME NEW u \in Subscribers, RegisterFails(t, u) PROVE PushInv'
  <2>1. /\ registering' = [registering EXCEPT ![t] = @ \ {u}]
        /\ UNCHANGED <<tokenRow, living, signedIn, send, changes, leaving, cause>> /\ PhoneFrame
        BY <1>4 DEF RegisterFails
  <2>2. registering' \in [Tokens -> SUBSET Subscribers]
        BY <1>1, <2>1
  <2>8. RowExplained(t)'
        BY <1>1, <2>1 DEF RowExplained
  <2>9. /\ tokenRow' = tokenRow /\ signedIn' = signedIn /\ cause' = cause
        /\ leaving' = leaving /\ changes' \in 0..MaxChanges /\ UNCHANGED send
        /\ living' = living
        BY <1>1, <2>1
  <2> QED BY <1>1, <2>1, <2>2, <2>8, <2>9, PhoneSteps
<1>5. ASSUME BeginRegister(t) PROVE PushInv'
  <2>1. /\ registering' = [registering EXCEPT ![t] = @ \cup {signedIn[t]}]
        /\ signedIn[t] # Nobody /\ changes' \in 0..MaxChanges
        /\ UNCHANGED <<tokenRow, living, signedIn, send, leaving, cause>> /\ PhoneFrame
        BY <1>5, ChangeTyped DEF BeginRegister
  <2>2. signedIn[t] \in Subscribers
        BY <1>1, <2>1 DEF Somebody
  <2>3. registering' \in [Tokens -> SUBSET Subscribers]
        BY <1>1, <2>1, <2>2
  <2>8. RowExplained(t)'
        BY <1>1, <2>1 DEF RowExplained
  <2>9. /\ tokenRow' = tokenRow /\ signedIn' = signedIn /\ cause' = cause
        /\ leaving' = leaving /\ changes' \in 0..MaxChanges /\ UNCHANGED send
        /\ living' = living
        BY <1>1, <2>1
  <2> QED BY <1>1, <2>1, <2>3, <2>8, <2>9, PhoneSteps
<1>6. ASSUME Unregister(t) PROVE PushInv'
  <2>1. /\ leaving' = leaving \cup {t} /\ changes' \in 0..MaxChanges
        /\ UNCHANGED <<living, signedIn, registering, send>> /\ PhoneFrame
        /\ \/ tokenRow' = DeleteOwn(t, signedIn[t]) /\ cause' = cause
           \/ /\ cause' = [cause EXCEPT ![t] = IF @ = "none" THEN "request" ELSE @]
              /\ tokenRow' = tokenRow
        BY <1>6, ChangeTyped DEF Unregister, DeleteToken
  <2>2. leaving' \subseteq Tokens /\ \A v \in Tokens \ {t} : v \in leaving' <=> v \in leaving
        BY <1>1, <2>1
  <2>3. CASE tokenRow' = DeleteOwn(t, signedIn[t]) /\ cause' = cause
    <3>1. /\ tokenRow' \in [Tokens -> Somebody]
          /\ \A v \in Tokens \ {t} : tokenRow'[v] = tokenRow[v]
          /\ tokenRow'[t] = Nobody \/ (tokenRow'[t] = tokenRow[t] /\ tokenRow[t] # signedIn[t])
          BY <1>1, <2>3 DEF DeleteOwn, DeleteByToken
    <3>2. RowExplained(t)'
          BY <1>1, <2>1, <2>3, <3>1 DEF RowExplained
    <3> QED BY <1>1, <2>1, <2>2, <2>3, <3>1, <3>2, PhoneSteps
  <2>4. CASE /\ cause' = [cause EXCEPT ![t] = IF @ = "none" THEN "request" ELSE @]
             /\ tokenRow' = tokenRow
    <3>1. /\ cause' \in [Tokens -> Causes] /\ cause'[t] # "none"
          /\ \A v \in Tokens \ {t} : cause'[v] = cause[v]
          BY <1>1, <2>4 DEF Causes
    <3>2. RowExplained(t)'
          BY <3>1 DEF RowExplained
    <3> QED BY <1>1, <2>1, <2>2, <2>4, <3>1, <3>2, PhoneSteps
  <2> QED BY <2>1, <2>3, <2>4
<1>9. ASSUME SignOut(t) PROVE PushInv'
  <2>1. /\ t \in leaving /\ leaving' = leaving \ {t}
        /\ signedIn' = [signedIn EXCEPT ![t] = Nobody]
        /\ Move(t) /\ UNCHANGED <<tokenRow, living, registering, changes, cause>> /\ PhoneFrame
        BY <1>9 DEF SignOut
  <2>2. /\ signedIn' \in [Tokens -> Somebody] /\ leaving' \subseteq Tokens
        /\ \A v \in Tokens \ {t} : signedIn'[v] = signedIn[v] /\ (v \in leaving' <=> v \in leaving)
        BY <1>1, <2>1
  <2>3. RowExplained(t)'
        BY <1>1, <2>1 DEF RowExplained
  <2> QED BY <1>1, <2>1, <2>2, <2>3, PhoneSteps
<1>7. ASSUME AdminDeleteToken(t) PROVE PushInv'
  <2>1. /\ tokenRow' = DeleteByToken(t) /\ changes' \in 0..MaxChanges
        /\ UNCHANGED <<living, signedIn, registering, send, leaving, cause>> /\ PhoneFrame
        BY <1>7, ChangeTyped DEF AdminDeleteToken
  <2>2. /\ tokenRow' \in [Tokens -> Somebody] /\ tokenRow'[t] = Nobody
        /\ \A v \in Tokens \ {t} : tokenRow'[v] = tokenRow[v]
        BY <1>1, <2>1 DEF DeleteByToken
  <2>8. RowExplained(t)'
        BY <1>1, <2>1, <2>2 DEF RowExplained
  <2>9. /\ signedIn' = signedIn /\ cause' = cause /\ leaving' = leaving
        /\ living' = living /\ registering' = registering /\ UNCHANGED send
        BY <2>1
  <2> QED BY <1>1, <2>1, <2>2, <2>8, <2>9, PhoneSteps
<1>8. ASSUME TokenDies(t) PROVE PushInv'
  <2>1. /\ living' = [living EXCEPT ![t] = FALSE] /\ changes' \in 0..MaxChanges
        /\ UNCHANGED <<tokenRow, signedIn, registering, send, leaving, cause>> /\ PhoneFrame
        BY <1>8, ChangeTyped DEF TokenDies
  <2>2. living' \in [Tokens -> BOOLEAN] /\ \A u \in Tokens : living'[u] => living[u]
        BY <1>1, <2>1
  <2>8. RowExplained(t)'
        BY <1>1, <2>1 DEF RowExplained
  <2>9. /\ tokenRow' = tokenRow /\ signedIn' = signedIn /\ cause' = cause
        /\ leaving' = leaving /\ changes' \in 0..MaxChanges /\ UNCHANGED send
        /\ registering' = registering
        BY <1>1, <2>1
  <2> QED BY <1>1, <2>1, <2>2, <2>8, <2>9, PhoneSteps
<1> QED BY <1>2, <1>3, <1>4, <1>5, <1>6, <1>7, <1>8, <1>9

LEMMA PushStep == PushInv /\ [PushNext]_pushVars => PushInv'
<1> SUFFICES ASSUME PushInv, [PushNext]_pushVars PROVE PushInv'
    OBVIOUS
<1>1. CASE UNCHANGED pushVars
      BY <1>1 DEF pushVars, PushInv, PushTypeOK, RowsExplained, RowExplained, PrunedWereDead, StrangersExplained,
                  Orderly, Told
<1>2. ASSUME NEW t \in Tokens,
             \/ \E u \in Subscribers : SignIn(t, u) \/ Upsert(t, u) \/ RegisterFails(t, u)
             \/ BeginRegister(t) \/ Unregister(t) \/ SignOut(t) \/ AdminDeleteToken(t) \/ TokenDies(t)
      PROVE  PushInv'
      BY <1>2, PhonesKeep
<1>3. ASSUME NEW s \in Sends, NEW u \in Subscribers, NotifyEmergency(s, u) PROVE PushInv'
  <2>1. PICK audience \in Audiences(u) : BeginSend(s, audience)
        BY <1>3 DEF NotifyEmergency
  <2>2. audience \in SUBSET Subscribers
        BY DEF Audiences
  <2> QED BY <2>1, <2>2, BeginSendKeeps
<1>4. ASSUME NEW s \in Sends, AdminSendPush(s) PROVE PushInv'
      BY <1>4, BeginSendKeeps DEF AdminSendPush, SendToUsers
<1>5. ASSUME NEW s \in Sends, SendStep(s) PROVE PushInv'
      BY <1>5, LookUpKeeps, MockSendKeeps, AuthoriseKeeps, EndPostsKeeps, EndSendKeeps, PostKeeps,
         PruneTokenKeeps DEF SendStep
<1>6. CASE TimeGoesBy
      BY <1>6, TimeKeeps
<1> QED BY <1>1, <1>2, <1>3, <1>4, <1>5, <1>6 DEF PushNext

LEMMA PushInvariant == PushSpec => []PushInv
<1>1. PushInit => PushInv
      BY PushInitHolds
<1>2. PushInv /\ [PushNext]_pushVars => PushInv'
      BY PushStep
<1> QED BY <1>1, <1>2, PTL DEF PushSpec

\* Every token a send looked up is in one of its sets, whichever post failed, and
\* only a token FCM has given up is pruned, whoever registered it meanwhile.
THEOREM TokensAccounted == PushSpec => []SendsAccounted
<1>1. PushInv => SendsAccounted
  <2> SUFFICES ASSUME PushInv PROVE EveryTokenAccounted
      BY DEF SendsAccounted, PushInv
  <2> SUFFICES ASSUME NEW s \in Sends
               PROVE  LET r == send[s]
                          parts == <<r.todo, r.delivered, r.invalid, r.failed>> IN
                      /\ UNION {parts[i] : i \in 1..4} = r.asked
                      /\ \A i, j \in 1..4 : i # j => parts[i] \cap parts[j] = {}
                      /\ r.pc \in {"lookup", "prune"} => r.todo = {}
      BY DEF EveryTokenAccounted
  <2> DEFINE r == send[s]
             parts == <<r.todo, r.delivered, r.invalid, r.failed>>
  <2>1. Orderly(r)
        BY DEF PushInv
  <2>2. 1..4 = {1, 2, 3, 4}
        OBVIOUS
  <2>3. parts[1] = r.todo /\ parts[2] = r.delivered /\ parts[3] = r.invalid /\ parts[4] = r.failed
        OBVIOUS
  <2> HIDE DEF r, parts
  <2>4. UNION {parts[i] : i \in 1..4} = r.asked
    <3>1. \A t : t \in UNION {parts[i] : i \in 1..4} <=> \E i \in {1, 2, 3, 4} : t \in parts[i]
          BY <2>2
    <3>2. \A t : (\E i \in {1, 2, 3, 4} : t \in parts[i]) <=> t \in r.asked
          BY <2>1, <2>3 DEF Orderly
    <3> QED BY <3>1, <3>2
  <2>5. \A i, j \in 1..4 : i # j => parts[i] \cap parts[j] = {}
        BY <2>1, <2>2, <2>3 DEF Orderly
  <2>6. r.pc \in {"lookup", "prune"} => r.todo = {}
        BY <2>1 DEF Orderly
  <2> QED BY <2>4, <2>5, <2>6 DEF r, parts
<1> QED BY <1>1, PushInvariant, PTL

\* A phone shows the push of another account only if it changed hands after the
\* lookup, or has a row its session left behind.
THEOREM StrangersAreExplained == PushSpec => []StrangersExplained
<1>1. PushInv => StrangersExplained
      BY DEF PushInv
<1> QED BY <1>1, PushInvariant, PTL

\* The margin is enough: a send of at most BearerMargin posts, each as slow as
\* its timeout, has its bearer to the end.
THEOREM BearersLast == PushSpec => []BearerLasts
<1>1. PushInv => BearerLasts
  <2> SUFFICES ASSUME PushInv, NEW s \in Sends, send[s].pc = "post", send[s].posted <= BearerMargin
               PROVE  send[s].left > 0
      BY DEF BearerLasts
  <2>1. Orderly(send[s]) /\ send[s].left \in 0..BearerLife /\ send[s].posted \in Nat
        BY DEF PushInv, PushTypeOK, SendType
  <2>2. send[s].left + send[s].posted > BearerMargin
        BY <2>1 DEF Orderly
  <2> QED BY <2>1, <2>2, PushAssumption
<1> QED BY <1>1, PushInvariant, PTL

-----------------------------------------------------------------------------
(* PhoneRealtime: only the current socket is alive, and it is somebody's. *)

CurrentIsSomebodys ==
    /\ PhoneTypeOK
    /\ \A s \in PhoneSockets : SocketLive(s) => s = current
    /\ wanted \/ current # 0 => somebody

\* What the session and the bounds do meanwhile.
SessionTyped ==
    /\ somebody' \in BOOLEAN
    /\ token' \in {"none", "fresh", "expired"}
    /\ stirs' \in 0..MaxStirs /\ turnedAway' \in BOOLEAN

LEMMA StirTyped == PhoneTypeOK /\ Stir => stirs' \in 0..MaxStirs
<1> QED BY PhoneAssumption DEF PhoneTypeOK, Stir

LEMMA ConnectKeepsOne ==
    ASSUME CurrentIsSomebodys, NEW held, ConnectRealtime(held), somebody', SessionTyped,
           retryTimer' \in BOOLEAN
    PROVE  CurrentIsSomebodys'
<1>1. CASE InUse
      BY <1>1 DEF ConnectRealtime, CurrentIsSomebodys, PhoneTypeOK, SessionTyped, SocketLive
<1>2. CASE ~InUse
  <2>1. PICK s \in PhoneSockets :
           /\ wanted' = TRUE /\ current' = s
           /\ wire' = [wire EXCEPT ![s] = "connecting"]
           /\ offered' = [offered EXCEPT ![s] = (held = "fresh")]
        BY <1>2 DEF ConnectRealtime, NewSocket, Unused
  <2>2. PhoneTypeOK'
    <3>1. wire' \in [PhoneSockets -> WireStates] /\ current' \in 0..LastSocket
          BY <2>1, PhoneAssumption DEF CurrentIsSomebodys, PhoneTypeOK, WireStates, PhoneSockets
    <3>2. offered' \in [PhoneSockets -> BOOLEAN]
          BY <2>1 DEF CurrentIsSomebodys, PhoneTypeOK
    <3> QED BY <2>1, <3>1, <3>2 DEF PhoneTypeOK, SessionTyped
  <2>3. ASSUME NEW t \in PhoneSockets, t # s PROVE ~SocketLive(t)'
    <3>1. wire'[t] = wire[t]
          BY <2>1, <2>3 DEF CurrentIsSomebodys, PhoneTypeOK
    <3>2. t = current => wire[t] \notin {"connecting", "open"}
          BY <1>2 DEF InUse, PhoneSockets
    <3> QED BY <3>1, <3>2 DEF SocketLive, CurrentIsSomebodys
  <2> QED BY <2>1, <2>2, <2>3 DEF CurrentIsSomebodys
<1> QED BY <1>1, <1>2

LEMMA DisconnectLeavesNone ==
    ASSUME CurrentIsSomebodys, DisconnectRealtime, SessionTyped
    PROVE  CurrentIsSomebodys'
<1>1. \A s \in PhoneSockets :
          wire'[s] = IF s = current /\ wire[s] \in {"connecting", "open"} THEN "leaving" ELSE wire[s]
      BY DEF DisconnectRealtime
<1>2. PhoneTypeOK'
  <2>1. wire' \in [PhoneSockets -> WireStates]
        BY DEF DisconnectRealtime, CurrentIsSomebodys, PhoneTypeOK, WireStates
  <2>2. current' \in 0..LastSocket
        BY PhoneAssumption DEF DisconnectRealtime
  <2>3. wanted' \in BOOLEAN /\ retryTimer' \in BOOLEAN /\ offered' \in [PhoneSockets -> BOOLEAN]
        BY DEF DisconnectRealtime, CurrentIsSomebodys, PhoneTypeOK
  <2> QED BY <2>1, <2>2, <2>3 DEF PhoneTypeOK, SessionTyped
<1>3. ASSUME NEW s \in PhoneSockets PROVE ~SocketLive(s)'
      BY <1>1 DEF CurrentIsSomebodys, SocketLive
<1> QED BY <1>2, <1>3 DEF DisconnectRealtime, CurrentIsSomebodys

LEMMA EffectKeepsOne ==
    ASSUME CurrentIsSomebodys, NEW user \in BOOLEAN, NEW held \in {"none", "fresh", "expired"},
           Effect(user, held), stirs' \in 0..MaxStirs
    PROVE  CurrentIsSomebodys'
<1>1. SessionTyped
      BY DEF Effect, SessionTyped, CurrentIsSomebodys, PhoneTypeOK
<1>2. CASE user /\ held # "none"
  <2>1. ConnectRealtime(held) /\ UNCHANGED retryTimer /\ somebody' = user
        BY <1>2 DEF Effect
  <2>2. somebody' /\ retryTimer' \in BOOLEAN
        BY <1>2, <2>1 DEF CurrentIsSomebodys, PhoneTypeOK
  <2> QED BY <1>1, <2>1, <2>2, ConnectKeepsOne
<1>3. CASE ~(user /\ held # "none")
      BY <1>1, <1>3, DisconnectLeavesNone DEF Effect
<1> QED BY <1>2, <1>3

\* The network, the server and a close end or answer sockets; they make none.
LEMMA SocketEventKeepsOne ==
    ASSUME CurrentIsSomebodys, NEW s \in PhoneSockets, NEW w \in WireStates, SocketLive(s) \/ w = "closed",
           wire' = [wire EXCEPT ![s] = w], w = "open" => SocketLive(s), w # "connecting",
           UNCHANGED <<somebody, token, offered>>, SessionTyped,
           retryTimer' \in BOOLEAN, UNCHANGED wanted \/ wanted' = FALSE,
           current' = current \/ (current' = 0 /\ current = s /\ w = "closed")
    PROVE  CurrentIsSomebodys'
<1>1. /\ wire' \in [PhoneSockets -> WireStates]
      /\ wire'[s] = w /\ \A t \in PhoneSockets : t # s => wire'[t] = wire[t]
      BY DEF CurrentIsSomebodys, PhoneTypeOK
<1>2. current' \in 0..LastSocket /\ wanted' \in BOOLEAN
  <2>1. current' \in 0..LastSocket
        BY PhoneAssumption DEF CurrentIsSomebodys, PhoneTypeOK
  <2>2. wanted' \in BOOLEAN
        BY Zenon DEF CurrentIsSomebodys, PhoneTypeOK
  <2> QED BY <2>1, <2>2
<1>3. PhoneTypeOK'
      BY <1>1, <1>2 DEF CurrentIsSomebodys, PhoneTypeOK, SessionTyped
<1>4. ASSUME NEW t \in PhoneSockets, SocketLive(t)' PROVE t = current'
  <2>1. SocketLive(t) /\ (t = s => w # "closed")
        BY <1>1, <1>4 DEF SocketLive
  <2> QED BY <2>1 DEF CurrentIsSomebodys
<1>5. wanted' \/ current' # 0 => somebody'
      BY DEF CurrentIsSomebodys
<1> QED BY <1>3, <1>4, <1>5 DEF CurrentIsSomebodys

LEMMA PhoneStepKeepsOne == CurrentIsSomebodys /\ [PhoneNext]_phoneVars => CurrentIsSomebodys'
<1> SUFFICES ASSUME CurrentIsSomebodys, [PhoneNext]_phoneVars PROVE CurrentIsSomebodys'
    OBVIOUS
<1> USE DEF CurrentIsSomebodys
<1>1. PhoneTypeOK
      OBVIOUS
<1>2. CASE SignsInPhone \/ Restored \/ SignsOutPhone
      BY <1>1, <1>2, StirTyped, EffectKeepsOne DEF SignsInPhone, Restored, SignsOutPhone, PhoneTypeOK
<1>3. CASE RestoredSilently \/ TokenCleared
  <2>1. /\ UNCHANGED <<somebody, wanted, retryTimer, current, wire, offered, turnedAway>>
        /\ token' \in {"none", "fresh", "expired"}
        BY <1>1, <1>3 DEF RestoredSilently, TokenCleared, PhoneTypeOK
  <2>2. stirs' \in 0..MaxStirs
        BY <1>1, <1>3, StirTyped DEF RestoredSilently, TokenCleared
  <2> QED BY <1>1, <2>1, <2>2 DEF PhoneTypeOK, SocketLive
<1>4. CASE RetryTimer
  <2>1. SessionTyped /\ retryTimer' \in BOOLEAN
        BY <1>1, <1>4 DEF RetryTimer, SessionTyped, PhoneTypeOK
  <2>2. CASE wanted /\ token # "none"
        BY <1>1, <1>4, <2>1, <2>2, ConnectKeepsOne DEF RetryTimer
  <2>3. CASE ~(wanted /\ token # "none")
        BY <1>1, <1>4, <2>1, <2>3 DEF RetryTimer, PhoneTypeOK, SessionTyped, SocketLive
  <2> QED BY <2>2, <2>3
<1>5. CASE PhoneTokenExpires
  <2>1. stirs' \in 0..MaxStirs
        BY <1>1, <1>5, StirTyped DEF PhoneTokenExpires
  <2> QED BY <1>1, <1>5, <2>1 DEF PhoneTokenExpires, NetworkFrame, PhoneTypeOK, SocketLive
<1>6. ASSUME NEW s \in PhoneSockets, OnPhoneClose(s) PROVE CurrentIsSomebodys'
  <2>1. /\ wire' = [wire EXCEPT ![s] = "closed"]
        /\ current' = IF current = s THEN 0 ELSE current
        /\ UNCHANGED <<somebody, token, offered, stirs, turnedAway>>
        BY <1>6 DEF OnPhoneClose
  <2>2. (UNCHANGED wanted \/ wanted' = FALSE) /\ retryTimer' \in BOOLEAN
        BY <1>1, <1>6 DEF OnPhoneClose, PhoneTypeOK
  <2>3. SessionTyped
        BY <1>1, <1>6 DEF OnPhoneClose, SessionTyped, PhoneTypeOK
  <2> HIDE DEF CurrentIsSomebodys
  <2> QED BY <2>1, <2>2, <2>3, SocketEventKeepsOne DEF WireStates
<1>7. ASSUME NEW s \in PhoneSockets, PhoneHandshake(s) \/ RefusedAnyway(s) \/ PhoneLinkLost(s)
      PROVE  CurrentIsSomebodys'
  <2>1. PICK w \in {"open", "refused", "lost"} :
           /\ SocketLive(s) /\ wire' = [wire EXCEPT ![s] = w]
           /\ UNCHANGED <<somebody, wanted, retryTimer, current, offered, token>>
           /\ turnedAway' = turnedAway \/ turnedAway' = TRUE
        BY <1>7 DEF PhoneHandshake, RefusedAnyway, PhoneLinkLost, NetworkFrame, SocketLive
  <2>2. stirs' \in 0..MaxStirs
        BY <1>1, <1>7, StirTyped DEF PhoneHandshake, RefusedAnyway, PhoneLinkLost, PhoneTypeOK
  <2>3. SessionTyped /\ retryTimer' \in BOOLEAN
        BY <1>1, <2>1, <2>2 DEF SessionTyped, PhoneTypeOK
  <2> HIDE DEF CurrentIsSomebodys
  <2> QED BY <2>1, <2>3, SocketEventKeepsOne DEF WireStates
<1>8. CASE UNCHANGED phoneVars
      BY <1>1, <1>8 DEF phoneVars, PhoneTypeOK, SocketLive
<1> QED BY <1>2, <1>3, <1>4, <1>5, <1>6, <1>7, <1>8 DEF PhoneNext

LEMMA PhoneInitHolds == PhoneInit => CurrentIsSomebodys
<1> SUFFICES ASSUME PhoneInit PROVE CurrentIsSomebodys
    OBVIOUS
<1>1. PhoneTypeOK
  <2>1. wire \in [PhoneSockets -> WireStates] /\ offered \in [PhoneSockets -> BOOLEAN]
        BY DEF PhoneInit, WireStates
  <2>2. current \in 0..LastSocket /\ stirs \in 0..MaxStirs
        BY PhoneAssumption DEF PhoneInit
  <2> QED BY <2>1, <2>2 DEF PhoneInit, PhoneTypeOK
<1> QED BY <1>1 DEF PhoneInit, CurrentIsSomebodys, SocketLive

LEMMA OneSocketFollows == CurrentIsSomebodys => OneLiveSocket
<1> SUFFICES ASSUME CurrentIsSomebodys, NEW s \in PhoneSockets, SocketLive(s)
             PROVE  s = current /\ somebody
    BY DEF OneLiveSocket
<1> QED BY DEF CurrentIsSomebodys, PhoneSockets

\* OneLiveSocket, for any number of sockets, sign-ins, losses and refusals: the
\* phone never has a connection that it could not close or that is nobody's.
THEOREM OneSocketIsLive == PhoneSpec => []OneLiveSocket
BY OneSocketFollows, PhoneInitHolds, PhoneStepKeepsOne, PTL DEF PhoneSpec

-----------------------------------------------------------------------------
(* LiveLocation: what an earlier run may still do is marked late. *)

\* The latest commit's effect is the one that is wanted, and all earlier ones
\* are cancelled.
CommitsInOrder ==
    /\ \A r \in Runs : /\ r < latest => effect[r].cancelled
                       /\ r > latest => effect[r].kind = "none" /\ ~effect[r].late
                       /\ effect[r].late => effect[r].cancelled
    /\ ~effect[latest].cancelled
    /\ effect[latest].kind = IF Wanted THEN "start" ELSE "stop"

WatchesKnown == \A r \in watching : effect[r].kind = "start" /\ (r = latest \/ effect[r].late)

\* Updates that nobody wants are late, or about to be stopped.
UpdatesEnd ==
    updates # 0 /\ ~Wanted =>
        effect[updates].late \/ effect[latest].at # "done" \/ faults > 0

UpdatesMissed ==
    Wanted /\ updates = 0 /\ effect[latest].at \in {"watch", "done"} =>
        effect[latest].denied \/ undone = latest

SentExplained ==
    sent.wanted \/ sent.stopping \/ (sent.by \in Runs /\ effect[sent.by].late) \/ faults > 0

SharingInv ==
    SharingTypeOK /\ CommitsInOrder /\ WatchesKnown /\ UpdatesEnd /\ UpdatesMissed /\ SentExplained

LEMMA SharingInitHolds == SharingInit => SharingInv
<1> SUFFICES ASSUME SharingInit PROVE SharingInv
    OBVIOUS
<1> DEFINE e(r) == effect[r]
<1>0. 1 \in Runs /\ latest = 1
      BY SharingAssumption DEF Runs, SharingInit
<1>1. \A r \in Runs : /\ e(r) \in EffectType
                      /\ ~e(r).cancelled \/ e(r).kind = "none"
                      /\ ~e(r).late
                      /\ r # 1 => e(r).kind = "none"
                      /\ r = 1 => e(r).kind = "stop" /\ ~e(r).cancelled
      BY DEF SharingInit, Stopping, Begun, EffectType
<1>2. SharingTypeOK
  <2>1. effect \in [Runs -> EffectType]
        BY <1>1 DEF SharingInit
  <2>2. updates \in 0..LastRun /\ undone \in 0..LastRun /\ faults \in 0..MaxFaults
        BY SharingAssumption DEF SharingInit
  <2>3. sent \in SentType
        BY SharingAssumption DEF SharingInit, SentType
  <2> QED BY <1>0, <2>1, <2>2, <2>3 DEF SharingTypeOK, SharingInit
<1>3. CommitsInOrder
      BY <1>0, <1>1 DEF CommitsInOrder, SharingInit, Wanted, Runs
<1>4. ~Wanted /\ watching = {} /\ sent.wanted
  <2>1. present = FALSE /\ watching = {}
        BY DEF SharingInit
  <2>2. sent.wanted
        BY DEF SharingInit
  <2> QED BY <2>1, <2>2 DEF Wanted
<1>5. effect[latest].at # "done"
      BY <1>0 DEF SharingInit, Stopping, Begun
<1>6. WatchesKnown /\ UpdatesEnd /\ UpdatesMissed /\ SentExplained
      BY <1>4, <1>5 DEF WatchesKnown, UpdatesEnd, UpdatesMissed, SentExplained
<1> QED BY <1>2, <1>3, <1>6 DEF SharingInv

LEMMA CommitKeeps ==
    ASSUME SharingInv, NEW user \in BOOLEAN, NEW switches \in BOOLEAN, Commit(user, switches)
    PROVE  SharingInv'
<1> DEFINE e == IF user /\ switches THEN Started ELSE Stopping
           n == latest + 1
<1>1. latest \in Runs /\ n \in Runs /\ n # latest /\ latest' = n
      BY SharingAssumption DEF Commit, SharingInv, SharingTypeOK, Runs
<1>2. /\ e \in EffectType /\ ~e.cancelled /\ ~e.late
      /\ e.at = IF user /\ switches THEN "foreground" ELSE "asked"
      /\ e.kind = IF user /\ switches THEN "start" ELSE "stop"
      BY DEF Started, Stopping, Begun, EffectType
<1>3. Wanted' = (user /\ switches)
      BY DEF Commit, Wanted
<1> HIDE DEF e
<1>4. /\ effect' = [effect EXCEPT ![latest] = Cleaned, ![n] = e]
      /\ effect \in [Runs -> EffectType]
      BY DEF Commit, e, SharingInv, SharingTypeOK
<1>5. /\ Cleaned \in EffectType /\ Cleaned.cancelled
      /\ Cleaned.kind = effect[latest].kind /\ Cleaned.late = effect[latest].late
      BY <1>1, <1>4 DEF Cleaned, EffectType
<1> HIDE DEF n
<1>6. /\ effect' \in [Runs -> EffectType]
      /\ effect'[n] = e /\ effect'[latest] = Cleaned
      /\ \A r \in Runs : r # latest /\ r # n => effect'[r] = effect[r]
      BY <1>1, <1>2, <1>4, <1>5
<1>7. SharingTypeOK'
      BY <1>1, <1>6 DEF Commit, SharingInv, SharingTypeOK, Remaining
<1>8. CommitsInOrder'
  <2>1. ASSUME NEW r \in Runs
        PROVE  /\ r < latest' => effect'[r].cancelled
               /\ r > latest' => effect'[r].kind = "none" /\ ~effect'[r].late
               /\ effect'[r].late => effect'[r].cancelled
        BY <1>1, <1>2, <1>5, <1>6 DEF SharingInv, CommitsInOrder, Runs, n
  <2> QED BY <2>1, <1>1, <1>2, <1>3, <1>6 DEF CommitsInOrder
<1>9. ASSUME NEW r \in Runs, effect[r].late PROVE effect'[r].late
  <2>1. r # n
        BY <1>1, <1>9 DEF SharingInv, CommitsInOrder, Runs, n
  <2> QED BY <1>5, <1>6, <1>9, <2>1
<1>10. WatchesKnown'
  <2>1. ASSUME NEW r \in watching' PROVE effect'[r].kind = "start" /\ effect'[r].late
    <3>1. r \in Runs /\ r \in watching /\ r # latest
          BY <2>1 DEF Commit, Remaining, SharingInv, SharingTypeOK
    <3>2. effect[r].kind = "start" /\ effect[r].late
          BY <3>1 DEF SharingInv, WatchesKnown
    <3>3. r # n
          BY <1>1, <3>1, <3>2 DEF SharingInv, CommitsInOrder, Runs, n
    <3> QED BY <1>6, <3>1, <3>2, <3>3
  <2> QED BY <2>1 DEF WatchesKnown
<1>11. UpdatesEnd' /\ UpdatesMissed'
      BY <1>1, <1>2, <1>3, <1>6 DEF UpdatesEnd, UpdatesMissed
<1>12. SentExplained'
      BY <1>9 DEF Commit, SharingInv, SentExplained
<1> QED BY <1>7, <1>8, <1>10, <1>11, <1>12 DEF SharingInv

\* A step of one run: it keeps what it is, and what is late stays late.
Steps(r) ==
    /\ effect' \in [Runs -> EffectType]
    /\ \A s \in Runs \ {r} : effect'[s] = effect[s]
    /\ effect'[r].kind = effect[r].kind /\ effect'[r].cancelled = effect[r].cancelled
    /\ effect[r].late => effect'[r].late
    /\ effect'[r].late => effect'[r].cancelled
    /\ updates' \in 0..LastRun /\ undone' \in 0..LastRun
    /\ faults' \in 0..MaxFaults /\ (faults > 0 => faults' > 0)
    /\ CommitFrame

LEMMA StepKeeps ==
    ASSUME SharingInv, NEW r \in Runs, effect[r].kind # "none", Steps(r),
           \A s \in watching' : \/ s \in watching
                                \/ /\ s = r /\ effect[r].kind = "start"
                                   /\ effect[r].cancelled => effect'[r].late,
           UpdatesEnd', UpdatesMissed'
    PROVE  SharingInv'
<1>0. latest \in Runs /\ latest' = latest /\ Wanted' = Wanted /\ r <= latest
      BY DEF Steps, CommitFrame, SharingInv, SharingTypeOK, CommitsInOrder, Wanted, Runs
<1>1. \A s \in Runs : /\ effect'[s].kind = effect[s].kind /\ effect'[s].cancelled = effect[s].cancelled
                      /\ effect[s].late => effect'[s].late
                      /\ effect'[s].late => effect'[s].cancelled
      BY DEF Steps, SharingInv, CommitsInOrder
<1>2. SharingTypeOK'
      BY DEF Steps, CommitFrame, SharingInv, SharingTypeOK
<1>3. CommitsInOrder'
  <2>1. \A s \in Runs : s > latest => effect'[s] = effect[s]
        BY <1>0 DEF Steps, Runs
  <2> QED BY <1>0, <1>1, <2>1 DEF SharingInv, CommitsInOrder
<1>4. WatchesKnown'
  <2> SUFFICES ASSUME NEW s \in watching'
               PROVE  effect'[s].kind = "start" /\ (s = latest \/ effect'[s].late)
      BY <1>0 DEF WatchesKnown
  <2>1. CASE s \in watching
        BY <1>1, <2>1 DEF SharingInv, SharingTypeOK, WatchesKnown
  <2>2. CASE s = r /\ effect[r].kind = "start" /\ (effect[r].cancelled => effect'[r].late)
    <3>1. s = latest \/ effect[s].cancelled
          BY <1>0, <2>2 DEF SharingInv, CommitsInOrder, Runs
    <3> QED BY <1>1, <2>2, <3>1
  <2> QED BY <2>1, <2>2
<1>5. SentExplained'
      BY <1>1 DEF Steps, CommitFrame, SharingInv, SentExplained
<1> QED BY <1>2, <1>3, <1>4, <1>5 DEF SharingInv

\* A step of a start: it may come to updates or a watch of its own, marked late
\* if it was cancelled, and ends without updates only when denied.
LEMMA StartKeeps ==
    ASSUME SharingInv, NEW r \in Runs, effect[r].kind = "start", Steps(r), UNCHANGED undone,
           UNCHANGED updates \/ (updates' = r /\ (effect[r].cancelled => effect'[r].late)),
           UNCHANGED watching
             \/ (watching' = watching \cup {r} /\ (effect[r].cancelled => effect'[r].late)),
           \/ effect[r].at = "watch" /\ (effect[r].denied => effect'[r].denied)
           \/ effect'[r].at \in {"watch", "done"} /\ ~effect[r].cancelled
                => effect'[r].denied \/ updates' # 0
    PROVE  SharingInv'
<1>0. latest \in Runs /\ latest' = latest /\ Wanted' = Wanted /\ r <= latest
      BY DEF Steps, CommitFrame, SharingInv, SharingTypeOK, CommitsInOrder, Wanted, Runs
<1>1. r = latest => Wanted /\ ~effect[r].cancelled
      BY DEF SharingInv, CommitsInOrder
<1>2. r # latest => effect[r].cancelled /\ effect'[latest] = effect[latest]
      BY <1>0 DEF Steps, SharingInv, CommitsInOrder, Runs
<1>3. UpdatesEnd'
  <2> SUFFICES ASSUME updates' # 0, ~Wanted
               PROVE  effect'[updates'].late \/ effect'[latest].at # "done" \/ faults' > 0
      BY <1>0 DEF UpdatesEnd
  <2>1. CASE UNCHANGED updates
    <3>1. updates \in Runs
          BY <2>1 DEF SharingInv, SharingTypeOK, Runs
    <3>2. effect[updates].late => effect'[updates].late
          BY <3>1 DEF Steps
    <3> QED BY <1>1, <1>2, <2>1, <3>2 DEF SharingInv, UpdatesEnd, Steps
  <2>2. CASE updates' = r /\ (effect[r].cancelled => effect'[r].late)
        BY <1>1, <1>2, <2>2
  <2> QED BY <2>1, <2>2
<1>4. UpdatesMissed'
  <2> SUFFICES ASSUME Wanted, updates' = 0, effect'[latest].at \in {"watch", "done"}
               PROVE  effect'[latest].denied \/ undone = latest
      BY <1>0 DEF UpdatesMissed
  <2>1. r # 0 /\ UNCHANGED updates
        BY DEF Runs
  <2> QED BY <1>1, <1>2, <2>1 DEF SharingInv, UpdatesMissed
<1>5. \A s \in watching' : s \in watching \/ (s = r /\ (effect[r].cancelled => effect'[r].late))
      OBVIOUS
<1> QED BY <1>3, <1>4, <1>5, StepKeeps

\* A step of a stop: it ends what runs, and says so to a start that relied on it.
LEMMA StopKeeps ==
    ASSUME SharingInv, NEW r \in Runs, effect[r].kind = "stop", Steps(r), UNCHANGED watching,
           effect'[r].at = "done" => updates' = 0 \/ faults' > 0,
           \/ UNCHANGED <<updates, undone>>
           \/ updates' = 0 /\ undone' = IF Relied(r) THEN latest ELSE undone
    PROVE  SharingInv'
<1>0. latest \in Runs /\ latest' = latest /\ Wanted' = Wanted /\ r <= latest
      BY DEF Steps, CommitFrame, SharingInv, SharingTypeOK, CommitsInOrder, Wanted, Runs
<1>1. r = latest => ~Wanted
      BY DEF SharingInv, CommitsInOrder
<1>2. r # latest => r < latest /\ effect'[latest] = effect[latest]
      BY <1>0 DEF Steps, Runs
<1>3. UpdatesEnd'
  <2> SUFFICES ASSUME updates' # 0, ~Wanted
               PROVE  effect'[updates'].late \/ effect'[latest].at # "done" \/ faults' > 0
      BY <1>0 DEF UpdatesEnd
  <2>1. updates' = updates /\ updates \in Runs
        BY DEF SharingInv, SharingTypeOK, Runs
  <2>2. effect[updates].late => effect'[updates].late
        BY <2>1 DEF Steps
  <2> QED BY <1>2, <2>1, <2>2 DEF SharingInv, UpdatesEnd, Steps
<1>4. UpdatesMissed'
  <2> SUFFICES ASSUME Wanted, updates' = 0, effect'[latest].at \in {"watch", "done"}
               PROVE  effect'[latest].denied \/ undone' = latest
      BY <1>0 DEF UpdatesMissed
  <2>1. effect[latest].kind = "start" /\ r < latest /\ effect'[latest] = effect[latest]
        BY <1>1, <1>2 DEF SharingInv, CommitsInOrder
  <2>2. Relied(r)
        BY <2>1 DEF Relied
  <2> QED BY <2>1, <2>2 DEF SharingInv, UpdatesMissed
<1>5. \A s \in watching' : s \in watching
      OBVIOUS
<1> QED BY <1>3, <1>4, <1>5, StepKeeps

\* Where a run goes with its step, and what is known of it then.
Moves(r, at, denied, late) ==
    effect' = [effect EXCEPT ![r].at = at, ![r].denied = denied, ![r].late = late]

LEMMA WrittenMoves ==
    ASSUME SharingTypeOK, NEW r \in Runs, NEW at
    PROVE  /\ Go(r, at) => Moves(r, at, effect[r].denied, effect[r].late)
           /\ Refused(r, at) => Moves(r, at, TRUE, effect[r].late)
<1>1. effect \in [Runs -> EffectType]
      BY DEF SharingTypeOK
<1>2. Go(r, at) => Moves(r, at, effect[r].denied, effect[r].late)
      BY <1>1 DEF Go, Moves, EffectType
<1>3. Refused(r, at) => Moves(r, at, TRUE, effect[r].late)
      BY <1>1 DEF Refused, Moves, EffectType
<1> QED BY <1>2, <1>3

LEMMA GoSteps ==
    ASSUME SharingInv, NEW r \in Runs, CommitFrame,
           NEW at \in {"foreground", "background", "asked", "starting", "watch", "stopping", "done"},
           NEW late \in BOOLEAN, NEW denied \in BOOLEAN,
           Moves(r, at, denied, late),
           effect[r].late => late, late => effect[r].cancelled,
           updates' \in 0..LastRun, undone' \in 0..LastRun,
           UNCHANGED faults \/ Fault
    PROVE  /\ Steps(r)
           /\ effect'[r].at = at /\ effect'[r].denied = denied /\ effect'[r].late = late
<1>1. effect \in [Runs -> EffectType] /\ faults \in 0..MaxFaults
      BY DEF SharingInv, SharingTypeOK
<1>2. /\ effect'[r] = [effect[r] EXCEPT !.at = at, !.denied = denied, !.late = late]
      /\ effect'[r] \in EffectType
      BY <1>1 DEF Moves, EffectType
<1>3. effect' \in [Runs -> EffectType] /\ \A s \in Runs \ {r} : effect'[s] = effect[s]
      BY <1>1, <1>2 DEF Moves
<1>4. /\ effect'[r].kind = effect[r].kind /\ effect'[r].cancelled = effect[r].cancelled
      /\ effect'[r].at = at /\ effect'[r].denied = denied /\ effect'[r].late = late
      BY <1>1, <1>2 DEF EffectType
<1>5. faults' \in 0..MaxFaults /\ (faults > 0 => faults' > 0)
      BY <1>1, SharingAssumption DEF Fault
<1> QED BY <1>3, <1>4, <1>5 DEF Steps

LEMMA SharingStep == SharingInv /\ [SharingNext]_sharingVars => SharingInv'
<1> SUFFICES ASSUME SharingInv, [SharingNext]_sharingVars PROVE SharingInv'
    OBVIOUS
<1>0. /\ SharingTypeOK /\ updates \in 0..LastRun /\ undone \in 0..LastRun /\ latest \in Runs
      /\ present \in BOOLEAN /\ sharing \in BOOLEAN
      /\ \A r \in Runs : /\ effect[r].denied \in BOOLEAN /\ effect[r].late \in BOOLEAN
                         /\ effect[r].cancelled \in BOOLEAN /\ r \in 0..LastRun
                         /\ effect[r].late => effect[r].cancelled
      BY DEF SharingInv, SharingTypeOK, EffectType, CommitsInOrder, Runs
<1>1. CASE SignsIn \/ SignsOut \/ Switches \/ \E switches \in BOOLEAN : Hydrates(switches)
      BY <1>0, <1>1, CommitKeeps DEF SignsIn, SignsOut, Switches, Hydrates
<1>2. CASE TokenChanges \/ UNCHANGED sharingVars
  <2>1. /\ UNCHANGED <<present, sharing, latest, effect, watching, updates, faults, undone, sent>>
        /\ bearing' \in BOOLEAN
        BY <1>0, <1>2 DEF TokenChanges, sharingVars, SharingTypeOK
  <2> QED BY <2>1 DEF SharingInv, SharingTypeOK, CommitsInOrder, WatchesKnown, UpdatesEnd,
                UpdatesMissed, SentExplained, Wanted
<1>3. ASSUME NEW r \in Runs, NEW granted \in BOOLEAN, ForegroundAnswers(r, granted)
      PROVE  SharingInv'
  <2>1. PICK at \in {"background", "done"}, denied \in BOOLEAN :
           /\ Moves(r, at, denied, effect[r].late)
           /\ at = "done" => denied \/ effect[r].cancelled
    <3>1. \/ effect[r].cancelled /\ Go(r, "done")
          \/ Go(r, "background")
          \/ Refused(r, "done")
          BY <1>3 DEF ForegroundAnswers
    <3> QED BY <1>0, <3>1, WrittenMoves
  <2>2. /\ effect[r].kind = "start" /\ UNCHANGED <<watching, updates, faults, undone>>
        /\ CommitFrame
        BY <1>3 DEF ForegroundAnswers, EffectAt
  <2>3. Steps(r) /\ effect'[r].at = at /\ effect'[r].denied = denied
        BY <1>0, <2>1, <2>2, GoSteps
  <2> QED BY <2>1, <2>2, <2>3, StartKeeps
<1>4. ASSUME NEW r \in Runs, NEW granted \in BOOLEAN, BackgroundAnswers(r, granted)
      PROVE  SharingInv'
  <2>1. PICK at \in {"asked", "watch", "done"}, denied \in BOOLEAN :
           /\ Moves(r, at, denied, effect[r].late)
           /\ at # "asked" => denied \/ effect[r].cancelled
    <3>1. \/ effect[r].cancelled /\ Go(r, "done")
          \/ Go(r, "asked")
          \/ Refused(r, AfterBackground(r))
          BY <1>4 DEF BackgroundAnswers
    <3>2. AfterBackground(r) \in {"watch", "done"}
          BY DEF AfterBackground
    <3> QED BY <1>0, <3>1, <3>2, WrittenMoves
  <2>2. /\ effect[r].kind = "start" /\ UNCHANGED <<watching, updates, faults, undone>>
        /\ CommitFrame
        BY <1>4 DEF BackgroundAnswers, EffectAt
  <2>3. Steps(r) /\ effect'[r].at = at /\ effect'[r].denied = denied
        BY <1>0, <2>1, <2>2, GoSteps
  <2> QED BY <2>1, <2>2, <2>3, StartKeeps
<1>5. ASSUME NEW r \in Runs, SeesUpdates(r) PROVE SharingInv'
  <2>1. PICK at \in {"starting", "watch", "done"} :
           /\ Moves(r, at, effect[r].denied, effect[r].late)
           /\ at # "starting" => updates # 0
    <3>1. \/ updates # 0 /\ Go(r, AfterBackground(r))
          \/ Go(r, "starting")
          BY <1>5 DEF SeesUpdates
    <3>2. AfterBackground(r) \in {"watch", "done"}
          BY DEF AfterBackground
    <3> QED BY <1>0, <3>1, <3>2, WrittenMoves
  <2>2. /\ effect[r].kind = "start" /\ UNCHANGED <<watching, updates, undone>>
        /\ CommitFrame /\ (UNCHANGED faults \/ Fault)
        BY <1>5 DEF SeesUpdates, EffectAt
  <2>3. Steps(r) /\ effect'[r].at = at
        BY <1>0, <2>1, <2>2, GoSteps
  <2> QED BY <2>1, <2>2, <2>3, StartKeeps
<1>6. ASSUME NEW r \in Runs, StartsUpdates(r) PROVE SharingInv'
  <2>1. PICK at \in {"watch", "done"}, denied \in BOOLEAN, late \in BOOLEAN :
           /\ Moves(r, at, denied, late)
           /\ effect[r].late => late
           /\ late => effect[r].cancelled
           /\ \/ updates' = r /\ late = effect[r].cancelled
              \/ UNCHANGED updates /\ denied
    <3>1. CASE /\ updates' = r
               /\ effect' = [effect EXCEPT ![r].at = AfterBackground(r), ![r].late = effect[r].cancelled]
      <4>1. Moves(r, AfterBackground(r), effect[r].denied, effect[r].cancelled)
            BY <1>0, <3>1 DEF Moves, SharingTypeOK, EffectType
      <4> QED BY <1>0, <3>1, <4>1 DEF AfterBackground
    <3>2. CASE Refused(r, AfterBackground(r)) /\ UNCHANGED updates
      <4> QED BY <1>0, <3>2, WrittenMoves DEF AfterBackground
    <3> QED BY <1>6, <3>1, <3>2 DEF StartsUpdates
  <2>2. /\ effect[r].kind = "start" /\ UNCHANGED <<watching, undone>>
        /\ CommitFrame /\ (UNCHANGED faults \/ Fault)
        BY <1>6 DEF StartsUpdates, EffectAt
  <2>3. updates' \in 0..LastRun /\ undone' \in 0..LastRun
        BY <1>0, <2>1, <2>2
  <2>4. Steps(r) /\ effect'[r].denied = denied /\ effect'[r].late = late
        BY <1>0, <2>1, <2>2, <2>3, GoSteps
  <2>5. updates' = 0 => denied
        BY <2>1 DEF Runs
  <2> QED BY <2>1, <2>2, <2>4, <2>5, StartKeeps
<1>7. ASSUME NEW r \in Runs, Watches(r) PROVE SharingInv'
  <2>1. PICK denied \in BOOLEAN, late \in BOOLEAN :
           /\ Moves(r, "done", denied, late)
           /\ effect[r].late => late
           /\ late => effect[r].cancelled
           /\ effect[r].denied => denied
           /\ \/ watching' = watching \cup {r} /\ (effect[r].cancelled => late)
              \/ UNCHANGED watching
    <3>1. CASE /\ watching' = watching \cup {r}
               /\ effect' = [effect EXCEPT ![r].at = "done", ![r].late = @ \/ effect[r].cancelled]
      <4>1. Moves(r, "done", effect[r].denied, effect[r].late \/ effect[r].cancelled)
            BY <1>0, <3>1 DEF Moves, SharingTypeOK, EffectType
      <4> QED BY <1>0, <3>1, <4>1
    <3>2. CASE Refused(r, "done") /\ UNCHANGED watching
      <4> QED BY <1>0, <3>2, WrittenMoves
    <3> QED BY <1>7, <3>1, <3>2 DEF Watches
  <2>2. /\ effect[r].kind = "start" /\ effect[r].at = "watch" /\ UNCHANGED <<updates, undone>>
        /\ CommitFrame /\ (UNCHANGED faults \/ Fault)
        BY <1>7 DEF Watches, EffectAt
  <2>3. Steps(r) /\ effect'[r].denied = denied /\ effect'[r].late = late
        BY <1>0, <2>1, <2>2, GoSteps
  <2> QED BY <2>1, <2>2, <2>3, StartKeeps
<1>8. ASSUME NEW r \in Runs, AsksToStop(r) \/ StopsUpdates(r) PROVE SharingInv'
  <2>1. PICK at \in {"stopping", "done"} :
           /\ Moves(r, at, effect[r].denied, effect[r].late)
           /\ at = "done" => updates' = 0 \/ Fault
    <3>1. \/ Go(r, "stopping")
          \/ Go(r, "done") /\ (updates' = 0 \/ Fault)
          BY <1>8 DEF AsksToStop, StopsUpdates
    <3> QED BY <1>0, <3>1, WrittenMoves
  <2>2. /\ effect[r].kind = "stop" /\ UNCHANGED watching
        /\ CommitFrame /\ (UNCHANGED faults \/ Fault)
        /\ \/ UNCHANGED <<updates, undone>>
           \/ updates' = 0 /\ undone' = IF Relied(r) THEN latest ELSE undone
        BY <1>8 DEF AsksToStop, StopsUpdates, EffectAt
  <2>3. updates' \in 0..LastRun /\ undone' \in 0..LastRun
        BY <1>0, <2>2, SharingAssumption DEF Runs
  <2>4. Steps(r) /\ effect'[r].at = at
        BY <1>0, <2>1, <2>2, <2>3, GoSteps
  <2>5. Fault => faults' > 0
        BY <1>0 DEF Fault, SharingTypeOK
  <2> QED BY <2>1, <2>2, <2>4, <2>5, StopKeeps
<1>9. ASSUME NEW r \in Runs, WatchUploads(r) \/ TaskUploads(r) PROVE SharingInv'
  <2>1. PICK stopping \in BOOLEAN :
           /\ sent' = [by |-> r, wanted |-> Wanted, stopping |-> stopping]
           /\ UNCHANGED <<present, sharing, bearing, latest, effect, watching, updates, faults, undone>>
           /\ \/ r \in watching
              \/ r = updates /\ stopping = StopUnderWay
        BY <1>9 DEF WatchUploads, TaskUploads, UploadFix, StopUnderWay
  <2>2. Wanted \/ stopping \/ effect[r].late \/ faults > 0
    <3> SUFFICES ASSUME ~Wanted PROVE stopping \/ effect[r].late \/ faults > 0
        OBVIOUS
    <3>1. effect[latest].kind = "stop"
          BY DEF SharingInv, CommitsInOrder
    <3>2. CASE r \in watching
          BY <3>1, <3>2 DEF SharingInv, WatchesKnown
    <3>3. CASE r = updates /\ stopping = StopUnderWay
      <4>1. effect[updates].late \/ effect[latest].at # "done" \/ faults > 0
            BY <3>3 DEF SharingInv, UpdatesEnd, Runs
      <4> QED BY <1>0, <3>1, <3>3, <4>1 DEF StopUnderWay
    <3> QED BY <2>1, <3>2, <3>3
  <2>3. /\ sent'.by = r /\ sent'.wanted = Wanted /\ sent'.stopping = stopping
        /\ sent' \in SentType
        BY <1>0, <2>1 DEF SentType, Wanted
  <2>4. SentExplained'
        BY <2>1, <2>2, <2>3 DEF SentExplained
  <2> QED BY <2>1, <2>3, <2>4 DEF SharingInv, SharingTypeOK, CommitsInOrder, WatchesKnown,
                UpdatesEnd, UpdatesMissed, Wanted
<1> QED BY <1>1, <1>2, <1>3, <1>4, <1>5, <1>6, <1>7, <1>8, <1>9 DEF SharingNext

\* SharingExplained, for any number of commits and native calls that throw: what
\* goes up while sharing is off was begun too late, is about to be stopped or
\* could not be; and updates are missing only when denied or undone.
THEOREM SharingIsExplained == SharingSpec => []SharingExplained
<1>1. SharingInv => SharingExplained
  <2> SUFFICES ASSUME SharingInv PROVE UploadsExplained /\ UpdatesExplained
      BY DEF SharingExplained
  <2>1. UploadsExplained
        BY DEF SharingInv, SentExplained, UploadsExplained
  <2>2. UpdatesExplained
        BY DEF SharingInv, SharingTypeOK, UpdatesMissed, UpdatesExplained, AtRestSharing
  <2> QED BY <2>1, <2>2
<1> QED BY <1>1, SharingInitHolds, SharingStep, PTL DEF SharingSpec


-----------------------------------------------------------------------------
(* SosFeed: whatever the order of the events and the answers, an incident on *)
(* which the page is wrong has an event on its way or an excuse.             *)

EventsHappened == \A event \in unsent : event.status <= status[event.incident]
AnswerIsBehind == \A i \in Incidents : fetch.seen[i] <= status[i]

ShownRightly(i) ==
    /\ status[i] = 0 => i \notin shows
    /\ status[i] = 1 /\ i \notin shows => excuse[i] # {} \/ Opening(i) \in unsent
    /\ status[i] = 2 /\ i \in shows =>
         excuse[i] \cap (Excuses \ {"beyond"}) # {} \/ Closing(i) \in unsent

FeedInv ==
    /\ FeedTypeOK /\ EventsHappened /\ AnswerIsBehind
    /\ \A i \in Incidents : ShownRightly(i)

LEMMA FeedInitHolds == FeedInit => FeedInv
<1> SUFFICES ASSUME FeedInit PROVE FeedInv
    OBVIOUS
<1>1. fetch = [at |-> "asked", seen |-> [i \in Incidents |-> 0]]
      BY DEF FeedInit, NoAnswer
<1>2. FeedTypeOK
  <2>1. fetch \in [at : {"idle", "asked", "answered"}, seen : [Incidents -> 0..2]]
        BY <1>1
  <2>2. excuse \in [Incidents -> SUBSET Excuses] /\ lapses \in 0..MaxLapses
        BY FeedAssumption DEF FeedInit, Excuses
  <2>3. tokenFresh \in BOOLEAN
        BY Zenon DEF FeedInit
  <2> QED BY <2>1, <2>2, <2>3 DEF FeedInit, FeedTypeOK
<1>3. EventsHappened /\ AnswerIsBehind
      BY <1>1 DEF FeedInit, EventsHappened, AnswerIsBehind
<1>4. ASSUME NEW i \in Incidents PROVE ShownRightly(i)
      BY DEF FeedInit, ShownRightly
<1> QED BY <1>2, <1>3, <1>4 DEF FeedInv

\* The page and its excuses are left alone, and so are the incidents.
LEMMA FeedFrame ==
    ASSUME FeedInv, FeedTypeOK', UNCHANGED <<status, unsent, shows, excuse>>,
           \A i \in Incidents : fetch'.seen[i] \in {0, fetch.seen[i], status[i]}
    PROVE  FeedInv'
<1>1. EventsHappened'
      BY DEF FeedInv, EventsHappened
<1>2. AnswerIsBehind'
      BY DEF FeedInv, AnswerIsBehind, FeedTypeOK
<1>3. \A i \in Incidents : ShownRightly(i)'
      BY DEF FeedInv, ShownRightly
<1> QED BY <1>1, <1>2, <1>3 DEF FeedInv

\* An incident gets its next status, and its event is on its way.
LEMMA FeedCommit ==
    ASSUME FeedInv, NEW i \in Incidents, NEW s \in 1..2, status[i] = s - 1,
           status' = [status EXCEPT ![i] = s],
           unsent' = unsent \cup {[incident |-> i, status |-> s]}, PageFrame
    PROVE  FeedInv'
<1>0. FeedTypeOK
      BY DEF FeedInv
<1>1. FeedTypeOK'
      BY <1>0 DEF FeedTypeOK, PageFrame
<1>2. \A j \in Incidents : status[j] <= status'[j]
      BY <1>0 DEF FeedTypeOK
<1>3. EventsHappened'
  <2> SUFFICES ASSUME NEW event \in unsent' PROVE event.status <= status'[event.incident]
      BY DEF EventsHappened
  <2>1. CASE event = [incident |-> i, status |-> s]
        BY <1>0, <2>1 DEF FeedTypeOK
  <2>2. CASE event \in unsent
    <3>1. event.status \in 1..2 /\ event.incident \in Incidents
          BY <1>0, <2>2 DEF FeedTypeOK
    <3>2. status[event.incident] \in 0..2 /\ status'[event.incident] \in 0..2
          BY <1>0, <1>1, <3>1 DEF FeedTypeOK
    <3>3. event.status <= status[event.incident] /\ status[event.incident] <= status'[event.incident]
          BY <1>2, <2>2, <3>1 DEF FeedInv, EventsHappened
    <3> QED BY <3>1, <3>2, <3>3
  <2> QED BY <2>1, <2>2
<1>4. AnswerIsBehind'
  <2> SUFFICES ASSUME NEW j \in Incidents PROVE fetch'.seen[j] <= status'[j]
      BY DEF AnswerIsBehind
  <2>1. fetch'.seen[j] <= status[j] /\ fetch'.seen[j] \in 0..2
        BY <1>0 DEF FeedInv, AnswerIsBehind, PageFrame, FeedTypeOK
  <2>2. status[j] \in 0..2 /\ status'[j] \in 0..2
        BY <1>0, <1>1 DEF FeedTypeOK
  <2> QED BY <1>2, <2>1, <2>2
<1>5. ASSUME NEW j \in Incidents PROVE ShownRightly(j)'
  <2>1. CASE j # i
        BY <1>0, <2>1 DEF FeedInv, ShownRightly, FeedTypeOK, PageFrame
  <2>2. CASE j = i
        BY <1>0, <2>2 DEF FeedInv, ShownRightly, FeedTypeOK, PageFrame, Opening, Closing
  <2> QED BY <2>1, <2>2
<1> QED BY <1>1, <1>3, <1>4, <1>5 DEF FeedInv

LEMMA FeedEvent ==
    ASSUME FeedInv, NEW event \in unsent, EventArrives(event)
    PROVE  FeedInv'
<1> DEFINE i == event.incident
           overtaken == event.status < status[i] /\ Closing(i) \notin unsent
<1>0. FeedTypeOK /\ i \in Incidents /\ event.status \in 1..2 /\ status[i] \in 0..2
      /\ event = [incident |-> i, status |-> event.status]
      BY DEF FeedInv, FeedTypeOK
<1>1. event.status <= status[i]
      BY DEF FeedInv, EventsHappened
<1>2. CASE link = "up"
  <2>1. /\ shows' = Merge(shows, event)
        /\ excuse' = [excuse EXCEPT ![i] = IF overtaken THEN @ \cup {"overtaken"}
                                           ELSE IF event.status = status[i] THEN {} ELSE @]
        BY <1>2 DEF EventArrives
  <2> HIDE DEF overtaken
  <2>2. shows' = IF event.status = 1 THEN shows \cup {i} ELSE shows \ {i}
        BY <2>1 DEF Merge
  <2>3. excuse'[i] \in SUBSET Excuses /\ \A j \in Incidents \ {i} : excuse'[j] = excuse[j]
        BY <1>0, <2>1 DEF FeedTypeOK, Excuses
  <2>4. FeedTypeOK'
    <3>1. excuse' \in [Incidents -> SUBSET Excuses]
          BY <1>0, <2>1, <2>3 DEF FeedTypeOK
    <3> QED BY <1>0, <2>2, <3>1 DEF FeedTypeOK, EventArrives
  <2>5. EventsHappened' /\ AnswerIsBehind'
        BY DEF EventArrives, FeedInv, EventsHappened, AnswerIsBehind
  <2>6. ASSUME NEW j \in Incidents PROVE ShownRightly(j)'
    <3>1. CASE j # i
      <4>1. (Opening(j) \in unsent' <=> Opening(j) \in unsent) /\ (Closing(j) \in unsent' <=> Closing(j) \in unsent)
            BY <1>0, <3>1 DEF EventArrives, Opening, Closing
      <4> QED BY <1>0, <2>2, <2>3, <3>1, <4>1 DEF FeedInv, ShownRightly, EventArrives
    <3>2. CASE j = i /\ event.status = 1
      <4>1. event = Opening(i) /\ status' = status /\ (Closing(i) \in unsent' <=> Closing(i) \in unsent)
            BY <1>0, <3>2 DEF Opening, Closing, EventArrives
      <4>2. status[i] \in 1..2 /\ i \in shows'
            BY <1>0, <1>1, <2>2, <3>2
      <4>3. status[i] = 2 /\ Closing(i) \notin unsent => overtaken
            BY <3>2 DEF overtaken
      <4>4. overtaken => "overtaken" \in excuse'[i]
            BY <1>0, <2>1 DEF FeedTypeOK
      <4> QED BY <3>2, <4>1, <4>2, <4>3, <4>4 DEF ShownRightly, Excuses
    <3>3. CASE j = i /\ event.status = 2
      <4>1. status[i] = 2 /\ status' = status /\ i \notin shows'
            BY <1>0, <1>1, <2>2, <3>3 DEF EventArrives
      <4> QED BY <3>3, <4>1 DEF ShownRightly
    <3> QED BY <1>0, <3>1, <3>2, <3>3
  <2> QED BY <2>4, <2>5, <2>6 DEF FeedInv
<1>3. CASE link # "up"
  <2>1. shows' = shows /\ excuse' = [excuse EXCEPT ![i] = @ \cup {"missed"}]
        BY <1>3 DEF EventArrives
  <2>2. FeedTypeOK'
        BY <1>0, <2>1 DEF FeedTypeOK, EventArrives, Excuses
  <2>3. EventsHappened' /\ AnswerIsBehind'
        BY DEF EventArrives, FeedInv, EventsHappened, AnswerIsBehind
  <2>4. ASSUME NEW j \in Incidents PROVE ShownRightly(j)'
    <3>1. CASE j # i
      <4>1. (Opening(j) \in unsent' <=> Opening(j) \in unsent) /\ (Closing(j) \in unsent' <=> Closing(j) \in unsent)
            BY <1>0, <3>1 DEF EventArrives, Opening, Closing
      <4> QED BY <1>0, <2>1, <3>1, <4>1 DEF FeedInv, ShownRightly, EventArrives, FeedTypeOK
    <3>2. CASE j = i
      <4>1. "missed" \in excuse'[i]
            BY <1>0, <2>1 DEF FeedTypeOK
      <4> QED BY <2>1, <3>2, <4>1 DEF FeedInv, ShownRightly, EventArrives, Excuses
    <3> QED BY <3>1, <3>2
  <2> QED BY <2>2, <2>3, <2>4 DEF FeedInv
<1> QED BY <1>2, <1>3

LEMMA FeedApply == FeedInv /\ ApplyList => FeedInv'
<1> SUFFICES ASSUME FeedInv, ApplyList PROVE FeedInv'
    OBVIOUS
<1> DEFINE Missing(i) == IF fetch.seen[i] = 0 /\ status[i] # 0 /\ Opening(i) \notin unsent
                         THEN IF InPage(i) THEN {"stale"} ELSE {"beyond"} ELSE {}
           Lingering(i) == IF fetch.seen[i] = 1 /\ status[i] = 2 /\ Closing(i) \notin unsent
                           THEN {"stale"} ELSE {}
<1>0. FeedTypeOK
      BY DEF FeedInv
<1>1. excuse' = [i \in Incidents |-> Missing(i) \cup Lingering(i)]
      BY DEF ApplyList
<1>2. FeedTypeOK'
  <2>1. excuse' \in [Incidents -> SUBSET Excuses]
        BY <1>1 DEF Excuses
  <2>2. fetch' \in [at : {"idle", "asked", "answered"}, seen : [Incidents -> 0..2]]
        BY DEF ApplyList, NoAnswer
  <2>3. shows' \subseteq Incidents
        BY DEF ApplyList, Shown
  <2> QED BY <1>0, <2>1, <2>2, <2>3 DEF FeedTypeOK, ApplyList
<1>3. EventsHappened'
      BY DEF ApplyList, FeedInv, EventsHappened
<1>4. AnswerIsBehind'
      BY <1>0 DEF ApplyList, NoAnswer, AnswerIsBehind, FeedTypeOK
<1>5. ASSUME NEW i \in Incidents PROVE ShownRightly(i)'
  <2>1. fetch.seen[i] <= status[i] /\ fetch.seen[i] \in 0..2 /\ status[i] \in 0..2
        BY <1>0 DEF FeedInv, AnswerIsBehind, FeedTypeOK
  <2>2. status' = status /\ unsent' = unsent /\ (i \in shows' <=> fetch.seen[i] = 1)
        BY DEF ApplyList, Shown
  <2>3. status[i] = 1 /\ i \notin shows' => fetch.seen[i] = 0
        BY <2>1, <2>2
  <2>4. status[i] = 0 => i \notin shows'
        BY <2>1, <2>2
  <2>5. fetch.seen[i] = 0 /\ status[i] = 1 /\ Opening(i) \notin unsent => excuse'[i] # {}
        BY <1>1
  <2>6. fetch.seen[i] = 1 /\ status[i] = 2 /\ Closing(i) \notin unsent => "stale" \in excuse'[i]
        BY <1>1
  <2> QED BY <2>2, <2>3, <2>4, <2>5, <2>6 DEF ShownRightly, Excuses
<1> QED BY <1>2, <1>3, <1>4, <1>5 DEF FeedInv

LEMMA FeedStep == FeedInv /\ [FeedNext]_feedVars => FeedInv'
<1> SUFFICES ASSUME FeedInv, [FeedNext]_feedVars PROVE FeedInv'
    OBVIOUS
<1>0. FeedTypeOK
      BY DEF FeedInv
<1>1. ASSUME NEW i \in Incidents, CreateIncident(i) PROVE FeedInv'
    <2>1. /\ status[i] = 1 - 1 /\ 1 \in 1..2
        /\ status' = [status EXCEPT ![i] = 1]
        /\ unsent' = unsent \cup {[incident |-> i, status |-> 1]} /\ PageFrame
        BY <1>1 DEF CreateIncident, Opening
  <2> QED BY <2>1, FeedCommit
<1>2. ASSUME NEW i \in Incidents, CloseIncident(i) PROVE FeedInv'
    <2>1. /\ status[i] = 2 - 1 /\ 2 \in 1..2
        /\ status' = [status EXCEPT ![i] = 2]
        /\ unsent' = unsent \cup {[incident |-> i, status |-> 2]} /\ PageFrame
        BY <1>2 DEF CloseIncident, Closing
  <2> QED BY <2>1, FeedCommit
<1>3. CASE AnswerList
  <2>1. fetch'.at = "answered" /\ \A i \in Incidents : fetch'.seen[i] \in {0, status[i]}
        BY <1>3 DEF AnswerList
  <2>2. FeedTypeOK'
        BY <1>0, <1>3 DEF AnswerList, FeedTypeOK
  <2> QED BY <1>3, <2>1, <2>2, FeedFrame DEF AnswerList
<1>4. CASE AskForList \/ ListFails
  <2>1. \A i \in Incidents : fetch'.seen[i] = 0
        BY <1>4 DEF AskForList, ListFails, NoAnswer
  <2>2. FeedTypeOK'
    <3>1. fetch' \in [at : {"idle", "asked", "answered"}, seen : [Incidents -> 0..2]]
          BY <1>4 DEF AskForList, ListFails, NoAnswer
    <3>2. lapses' \in 0..MaxLapses
          BY <1>0, <1>4, FeedAssumption DEF AskForList, ListFails, FeedTypeOK
    <3>3. tokenFresh' \in BOOLEAN
          BY <1>0, <1>4, Zenon DEF AskForList, ListFails, FeedTypeOK
    <3> QED BY <1>0, <1>4, <3>1, <3>2, <3>3 DEF AskForList, ListFails, FeedTypeOK
  <2> QED BY <1>4, <2>1, <2>2, FeedFrame DEF AskForList, ListFails
<1>5. CASE ConnectPage \/ Handshake \/ OnClose \/ LinkLost \/ ServerDropsSocket \/ TokenExpires
  <2>1. UNCHANGED <<status, unsent, shows, excuse, fetch>>
        BY <1>5 DEF ConnectPage, Handshake, OnClose, LinkLost, ServerDropsSocket, TokenExpires, LinkFrame
  <2>2. FeedTypeOK'
    <3>1. lapses' \in 0..MaxLapses
          BY <1>0, <1>5, FeedAssumption DEF ConnectPage, Handshake, OnClose, LinkLost,
             ServerDropsSocket, TokenExpires, Lapse, FeedTypeOK
    <3>2. link' \in {"down", "opening", "refused", "up", "deaf"}
          BY <1>0, <1>5 DEF ConnectPage, Handshake, OnClose, LinkLost, ServerDropsSocket,
             TokenExpires, AfterClose, FeedTypeOK
    <3>3. tokenFresh' \in BOOLEAN
          BY <1>0, <1>5, Zenon DEF ConnectPage, Handshake, OnClose, LinkLost,
             ServerDropsSocket, TokenExpires, FeedTypeOK
    <3> QED BY <1>0, <2>1, <3>1, <3>2, <3>3 DEF FeedTypeOK
  <2> QED BY <2>1, <2>2, FeedFrame
<1>6. CASE UNCHANGED feedVars
      BY <1>0, <1>6, FeedFrame DEF feedVars, FeedTypeOK
<1> QED BY <1>1, <1>2, <1>3, <1>4, <1>5, <1>6, FeedEvent, FeedApply DEF FeedNext

LEMMA FeedInvariant == FeedSpec => []FeedInv
BY FeedInitHolds, FeedStep, PTL DEF FeedSpec

LEMMA MonitorFollows == FeedInv => MonitorExplained
<1> SUFFICES ASSUME FeedInv, Quiet, NEW i \in Incidents
             PROVE  /\ status[i] = 1 /\ i \notin shows => excuse[i] # {}
                    /\ status[i] # 1 /\ i \in shows => excuse[i] \cap (Excuses \ {"beyond"}) # {}
    BY DEF MonitorExplained
<1>1. status[i] \in 0..2 /\ ShownRightly(i) /\ unsent = {}
      BY DEF FeedInv, FeedTypeOK, Quiet
<1> QED BY <1>1 DEF ShownRightly

\* However the events of two handlers overtake one another, connections drop and
\* fetches cross them, a quiet page is wrong about an incident only for one of
\* the four reasons.
THEOREM MonitorIsExplained == FeedSpec => []MonitorExplained
BY MonitorFollows, FeedInvariant, PTL

-----------------------------------------------------------------------------
(* Listing: while nothing comes, what was seen lies before the offset; while *)
(* nothing goes, what was there all along and is not seen lies from it on.   *)

SeenIsBehind ==
    ~walk.came => \A k \in walk.seen \cap rows : Position(k) < walk.offset

StableIsAhead ==
    ~walk.removed /\ walk.limit <= ServiceMost =>
        \A k \in walk.stable \ walk.seen : Position(k) >= walk.offset

\* The count a client was told is still enough when its SELECT runs.
ToldEnough ==
    walk.at = "counted" /\ ~walk.late /\ ~walk.removed => Cardinality(rows) <= walk.total

\* What is left to a walk that is over.
EndsWhole ==
    walk.at = "done" /\ ~walk.removed /\ ~walk.late /\ walk.limit <= ServiceMost
        => walk.stable \subseteq walk.seen

ListingInv ==
    /\ ListingTypeOK /\ walk.stable \subseteq rows
    /\ SeenIsBehind /\ StableIsAhead /\ ToldEnough /\ EndsWhole
    /\ walk.repeated => walk.came

LEMMA KeysFinite ==
    ASSUME NEW S \in SUBSET RowKeys
    PROVE  IsFiniteSet(S) /\ Cardinality(S) \in Nat
<1>1. IsFiniteSet(RowKeys)
      BY ListingAssumption, FS_Interval DEF RowKeys
<1> QED BY <1>1, FS_Subset, FS_CardinalityType

LEMMA FewerKeys ==
    ASSUME NEW T \in SUBSET RowKeys, NEW S \in SUBSET T
    PROVE  Cardinality(S) <= Cardinality(T)
BY KeysFinite, FS_Subset

LEMMA KeysBelow ==
    ASSUME NEW S \in SUBSET RowKeys, NEW k
    PROVE  Cardinality({j \in S : j < k}) \in Nat
BY KeysFinite

\* A row of the list is not at the end of it.
LEMMA PositionInside ==
    ASSUME rows \subseteq RowKeys, NEW k \in rows
    PROVE  Position(k) < Cardinality(rows)
<1> DEFINE before == {j \in rows : j < k}
<1>1. before \subseteq rows /\ before # rows /\ IsFiniteSet(rows)
  <2>1. k \in Nat /\ k \notin before
        BY DEF RowKeys
  <2> QED BY <2>1, KeysFinite
<1>2. Cardinality(before) <= Cardinality(rows) /\ Cardinality(before) # Cardinality(rows)
      BY <1>1, FS_Subset
<1>3. Cardinality(before) \in Nat /\ Cardinality(rows) \in Nat
      BY KeysFinite
<1> QED BY <1>2, <1>3 DEF Position

LEMMA PositionGrows ==
    ASSUME rows \subseteq rows', rows' \subseteq RowKeys, NEW k
    PROVE  Position(k) <= Position(k)'
<1>1. {j \in rows : j < k} \subseteq {j \in rows' : j < k} /\ {j \in rows' : j < k} \subseteq RowKeys
      OBVIOUS
<1> QED BY <1>1, FewerKeys DEF Position

LEMMA PositionShrinks ==
    ASSUME rows' \subseteq rows, rows \subseteq RowKeys, NEW k
    PROVE  Position(k)' <= Position(k)
<1>1. {j \in rows' : j < k} \subseteq {j \in rows : j < k} /\ {j \in rows : j < k} \subseteq RowKeys
      OBVIOUS
<1> QED BY <1>1, FewerKeys DEF Position

LEMMA NoWalkTyped ==
    /\ NoWalk \in WalkType
    /\ NoWalk.at = "idle" /\ NoWalk.seen = {} /\ NoWalk.stable = {} /\ NoWalk.offset = 0
    /\ NoWalk.came = FALSE /\ NoWalk.repeated = FALSE
<1>1. 1 \in 1..HistoryMost
      BY ListingAssumption
<1>2. UsersList \in Lists
      BY DEF Lists
<1> QED BY <1>1, <1>2 DEF NoWalk, WalkType

LEMMA ListingInitHolds == ListingInit => ListingInv
<1> SUFFICES ASSUME ListingInit PROVE ListingInv
    OBVIOUS
<1>1. ListingTypeOK
      BY NoWalkTyped, ListingAssumption DEF ListingInit, ListingTypeOK
<1> QED BY <1>1, NoWalkTyped DEF ListingInit, ListingInv, SeenIsBehind, StableIsAhead,
        ToldEnough, EndsWhole

LEMMA InsertKeeps ==
    ASSUME ListingInv, NEW k \in RowKeys, Insert(k)
    PROVE  ListingInv'
<1>0. /\ ListingTypeOK /\ walk \in WalkType
      /\ walk' = [walk EXCEPT !.late = @ \/ walk.at = "counted", !.came = TRUE]
      BY DEF ListingInv, ListingTypeOK, Insert
<1>1. /\ walk'.at = walk.at /\ walk'.limit = walk.limit /\ walk'.offset = walk.offset
      /\ walk'.total = walk.total /\ walk'.seen = walk.seen /\ walk'.stable = walk.stable
      /\ walk'.removed = walk.removed /\ walk'.came = TRUE /\ walk'.list = walk.list
      /\ walk'.repeated = walk.repeated
      BY <1>0 DEF WalkType
<1>2. walk'.late = (walk.late \/ walk.at = "counted")
      BY <1>0 DEF WalkType
<1>3. rows \subseteq rows' /\ rows' \subseteq RowKeys
      BY <1>0 DEF Insert, ListingTypeOK
<1>4. ListingTypeOK'
  <2>1. (walk.late \/ walk.at = "counted") \in BOOLEAN
        BY Zenon
  <2>2. walk' \in WalkType
        BY <1>0, <2>1 DEF WalkType
  <2>3. churn' \in 0..MaxChurn
        BY <1>0, ListingAssumption DEF Insert, ListingTypeOK
  <2> QED BY <1>0, <2>2, <2>3 DEF Insert, ListingTypeOK
<1>5. walk'.stable \subseteq rows' /\ SeenIsBehind'
      BY <1>1, <1>3 DEF ListingInv, SeenIsBehind
<1>6. StableIsAhead'
  <2> SUFFICES ASSUME ~walk'.removed, walk'.limit <= ServiceMost, NEW j \in walk'.stable \ walk'.seen
               PROVE  Position(j)' >= walk'.offset
      BY DEF StableIsAhead
  <2>1. Position(j) >= walk.offset
        BY <1>1 DEF ListingInv, StableIsAhead
  <2>2. Position(j) \in Nat /\ Position(j)' \in Nat /\ walk.offset \in Nat
        BY <1>0, <1>3, KeysBelow DEF Position, ListingTypeOK, WalkType
  <2> QED BY <1>1, <1>3, <2>1, <2>2, PositionGrows
<1>7. ToldEnough'
      BY <1>1, <1>2 DEF ToldEnough
<1>8. EndsWhole'
      BY <1>1, <1>2 DEF ListingInv, EndsWhole
<1> QED BY <1>1, <1>4, <1>5, <1>6, <1>7, <1>8 DEF ListingInv

LEMMA DeleteKeeps ==
    ASSUME ListingInv, NEW k \in RowKeys, Delete(k)
    PROVE  ListingInv'
<1>0. /\ ListingTypeOK /\ walk \in WalkType
      /\ walk' = [walk EXCEPT !.stable = @ \ {k}, !.removed = TRUE]
      BY DEF ListingInv, ListingTypeOK, Delete
<1>1. /\ walk'.at = walk.at /\ walk'.limit = walk.limit /\ walk'.offset = walk.offset
      /\ walk'.seen = walk.seen /\ walk'.stable = walk.stable \ {k}
      /\ walk'.removed = TRUE /\ walk'.came = walk.came
      /\ walk'.repeated = walk.repeated
      BY <1>0 DEF WalkType
<1>2. rows' = rows \ {k} /\ rows \subseteq RowKeys
      BY <1>0 DEF Delete, ListingTypeOK
<1>3. ListingTypeOK'
  <2>1. walk' \in WalkType
        BY <1>0 DEF WalkType
  <2>2. churn' \in 0..MaxChurn
        BY <1>0, ListingAssumption DEF Delete, ListingTypeOK
  <2> QED BY <1>0, <2>1, <2>2 DEF Delete, ListingTypeOK
<1>4. walk'.stable \subseteq rows'
      BY <1>1, <1>2 DEF ListingInv
<1>5. SeenIsBehind'
  <2> SUFFICES ASSUME ~walk'.came, NEW j \in walk'.seen \cap rows'
               PROVE  Position(j)' < walk'.offset
      BY DEF SeenIsBehind
  <2>1. Position(j) < walk.offset
        BY <1>1, <1>2 DEF ListingInv, SeenIsBehind
  <2>2. Position(j) \in Nat /\ Position(j)' \in Nat /\ walk.offset \in Nat
        BY <1>0, <1>2, KeysBelow DEF Position, ListingTypeOK, WalkType
  <2> QED BY <1>1, <1>2, <2>1, <2>2, PositionShrinks
<1> QED BY <1>1, <1>3, <1>4, <1>5 DEF ListingInv, StableIsAhead, ToldEnough, EndsWhole

LEMMA SelectKeeps == ListingInv /\ Select => ListingInv'
<1> SUFFICES ASSUME ListingInv, Select PROVE ListingInv'
    OBVIOUS
<1> DEFINE page == Page(Clamp(walk.limit), walk.offset)
           next == walk.offset + walk.limit
<1>0. ListingTypeOK /\ walk \in WalkType /\ walk.at = "counted" /\ UNCHANGED <<rows, used, churn>>
      BY DEF ListingInv, ListingTypeOK, Select, Rows
<1>1. walk' = [walk EXCEPT !.seen = @ \cup page,
                           !.repeated = @ \/ page \cap walk.seen # {},
                           !.at = IF next >= walk.total THEN "done" ELSE "page",
                           !.offset = next]
      BY DEF Select
<1>2. page = {k \in rows : Position(k) >= walk.offset /\ Position(k) < walk.offset + Clamp(walk.limit)}
      BY DEF Page
<1> HIDE DEF page
<1>3. /\ walk.limit \in Nat /\ Clamp(walk.limit) \in Nat /\ Clamp(walk.limit) <= walk.limit
      /\ walk.limit <= ServiceMost => Clamp(walk.limit) = walk.limit
      /\ walk.offset \in Nat /\ next \in Nat /\ walk.total \in Nat
      BY <1>0, ListingAssumption DEF WalkType, Clamp, Smallest
<1>4. /\ walk'.seen = walk.seen \cup page /\ walk'.stable = walk.stable
      /\ walk'.limit = walk.limit /\ walk'.offset = next /\ walk'.came = walk.came
      /\ walk'.removed = walk.removed /\ walk'.late = walk.late
      /\ walk'.at = IF next >= walk.total THEN "done" ELSE "page"
      BY <1>0, <1>1 DEF WalkType
<1>5. walk'.repeated = (walk.repeated \/ page \cap walk.seen # {})
      BY <1>0, <1>1 DEF WalkType
<1>6. \A k \in rows : Position(k) \in Nat
      BY <1>0, KeysBelow DEF Position, ListingTypeOK
<1>7. ListingTypeOK'
  <2>1. (walk.repeated \/ page \cap walk.seen # {}) \in BOOLEAN
        BY Zenon
  <2>2. walk.seen \cup page \in SUBSET RowKeys
        BY <1>0, <1>2 DEF ListingTypeOK, WalkType
  <2> HIDE DEF next
  <2>3. walk' \in WalkType
        BY <1>0, <1>1, <1>3, <2>1, <2>2 DEF WalkType
  <2> QED BY <1>0, <2>3 DEF ListingTypeOK
<1>8. SeenIsBehind'
  <2> SUFFICES ASSUME ~walk.came, NEW k \in (walk.seen \cup page) \cap rows PROVE Position(k) < next
      BY <1>0, <1>4 DEF SeenIsBehind, Position
  <2>1. k \in walk.seen => Position(k) < walk.offset
        BY DEF ListingInv, SeenIsBehind
  <2>2. k \in page => Position(k) < walk.offset + Clamp(walk.limit)
        BY <1>2
  <2> QED BY <1>3, <1>6, <2>1, <2>2
<1>9. ASSUME ~walk.removed, walk.limit <= ServiceMost, NEW k \in walk.stable \ (walk.seen \cup page)
      PROVE  k \in rows /\ Position(k) >= next
  <2>1. k \in rows /\ Position(k) >= walk.offset
        BY <1>9 DEF ListingInv, StableIsAhead
  <2> QED BY <1>2, <1>3, <1>6, <1>9, <2>1
<1>10. StableIsAhead'
      BY <1>0, <1>4, <1>9 DEF StableIsAhead, Position
<1>11. EndsWhole'
  <2> SUFFICES ASSUME walk'.at = "done", ~walk.removed, ~walk.late, walk.limit <= ServiceMost,
                      NEW k \in walk.stable \ (walk.seen \cup page)
               PROVE  FALSE
      BY <1>4 DEF EndsWhole
  <2>1. k \in rows /\ Position(k) >= next /\ next >= walk.total
        BY <1>4, <1>9
  <2>2. Cardinality(rows) <= walk.total /\ Cardinality(rows) \in Nat
        BY <1>0, KeysFinite DEF ListingInv, ToldEnough, ListingTypeOK
  <2>3. Position(k) < Cardinality(rows)
        BY <1>0, <2>1, PositionInside DEF ListingTypeOK
  <2> QED BY <1>3, <1>6, <2>1, <2>2, <2>3
<1>12. walk'.repeated => walk'.came
  <2>1. ASSUME ~walk.came, NEW k \in page \cap walk.seen PROVE FALSE
    <3>1. k \in rows /\ Position(k) >= walk.offset /\ Position(k) < walk.offset
          BY <1>2, <2>1 DEF ListingInv, SeenIsBehind
    <3> QED BY <1>3, <1>6, <3>1
  <2> QED BY <1>4, <1>5, <2>1 DEF ListingInv
<1>13. walk'.stable \subseteq rows' /\ ToldEnough'
      BY <1>0, <1>4 DEF ListingInv, ToldEnough
<1> QED BY <1>7, <1>8, <1>10, <1>11, <1>12, <1>13 DEF ListingInv

LEMMA ListingStep == ListingInv /\ [ListingNext]_listingVars => ListingInv'
<1> SUFFICES ASSUME ListingInv, [ListingNext]_listingVars PROVE ListingInv'
    OBVIOUS
<1>0. ListingTypeOK /\ walk \in WalkType /\ rows \subseteq RowKeys
      BY DEF ListingInv, ListingTypeOK
<1>1. ASSUME NEW list \in Lists, NEW limit \in 1..HistoryMost, BeginWalk(list, limit)
      PROVE  ListingInv'
  <2>1. walk' = [NoWalk EXCEPT !.at = "page", !.list = list, !.limit = limit, !.stable = rows]
        /\ UNCHANGED <<rows, used, churn>>
        BY <1>1 DEF BeginWalk, Rows
  <2>2. /\ walk' \in WalkType /\ walk'.at = "page" /\ walk'.seen = {} /\ walk'.offset = 0
        /\ walk'.stable = rows /\ walk'.repeated = FALSE
        BY <1>0, <2>1, NoWalkTyped DEF WalkType
  <2>3. \A k : Position(k)' \in Nat
        BY <1>0, <2>1, KeysBelow DEF Position
  <2> QED BY <1>0, <2>1, <2>2, <2>3 DEF ListingInv, ListingTypeOK, SeenIsBehind, StableIsAhead,
             ToldEnough, EndsWhole
<1>2. CASE Request
  <2>1. PICK at \in {"checked", "refused"} : walk' = [walk EXCEPT !.at = at]
        BY <1>2 DEF Request
  <2>2. /\ walk' \in WalkType /\ walk'.at = at /\ walk'.seen = walk.seen
        /\ walk'.offset = walk.offset /\ walk'.stable = walk.stable /\ walk'.limit = walk.limit
        /\ walk'.repeated = walk.repeated /\ walk'.came = walk.came /\ walk'.removed = walk.removed
        BY <1>0, <2>1 DEF WalkType
  <2> QED BY <1>2, <2>2 DEF Request, Rows, ListingInv, ListingTypeOK, SeenIsBehind, StableIsAhead,
             ToldEnough, EndsWhole, Position
<1>3. CASE Count
  <2>1. walk' = [walk EXCEPT !.at = "counted", !.total = Cardinality(rows), !.late = FALSE]
        BY <1>3 DEF Count
  <2>2. Cardinality(rows) \in Nat
        BY <1>0, KeysFinite
  <2>3. /\ walk' \in WalkType /\ walk'.at = "counted" /\ walk'.seen = walk.seen
        /\ walk'.offset = walk.offset /\ walk'.stable = walk.stable /\ walk'.limit = walk.limit
        /\ walk'.repeated = walk.repeated /\ walk'.came = walk.came /\ walk'.removed = walk.removed
        /\ walk'.total = Cardinality(rows)
        BY <1>0, <2>1, <2>2 DEF WalkType
  <2> QED BY <1>3, <2>2, <2>3 DEF Count, Rows, ListingInv, ListingTypeOK, SeenIsBehind,
             StableIsAhead, ToldEnough, EndsWhole, Position
<1>4. CASE EndWalk
      BY <1>4, NoWalkTyped DEF EndWalk, Rows, ListingInv, ListingTypeOK, SeenIsBehind,
         StableIsAhead, ToldEnough, EndsWhole
<1>5. CASE UNCHANGED listingVars
      BY <1>5 DEF listingVars, ListingInv, ListingTypeOK, SeenIsBehind, StableIsAhead,
         ToldEnough, EndsWhole, Position
<1> QED BY <1>1, <1>2, <1>3, <1>4, <1>5, InsertKeeps, DeleteKeeps, SelectKeeps DEF ListingNext

LEMMA ListingInvariant == ListingSpec => []ListingInv
BY ListingInitHolds, ListingStep, PTL DEF ListingSpec

\* Whatever comes and goes between the statements and the pages, a walk to the
\* end misses a row that was there all along only when a row went, one came
\* after the last count, or its limit was above the clamp; and a row is shown
\* twice only when one came.
THEOREM WalksAreExplained == ListingSpec => []WalkExplained
<1>1. ListingInv => WalkExplained
      BY ListingAssumption DEF ListingInv, ListingTypeOK, WalkType, EndsWhole, WalkExplained
<1> QED BY <1>1, ListingInvariant, PTL


-----------------------------------------------------------------------------
(* The services side by side: one takes a step, the others stay.           *)

\* What each service keeps, all of them at once.
ServicesInv ==
    /\ LimiterTypeOK /\ StartupInv /\ PushInv /\ RealtimeInv /\ FeedInv
    /\ TrackingInv /\ ListingInv /\ AccessInv /\ SharingInv /\ CurrentIsSomebodys

LEMMA EachServiceSteps ==
    ASSUME [ServicesNext]_servicesVars
    PROVE  /\ [LimiterNext]_limiterVars /\ [StartupNext]_startupVars
           /\ [PushNext]_pushVars /\ [RealtimeNext]_realtimeVars
           /\ [FeedNext]_feedVars /\ [TrackingNext]_trackingVars
           /\ [ListingNext]_listingVars /\ [AccessNext]_accessVars
           /\ [SharingNext]_sharingVars /\ [PhoneNext]_phoneVars
<1>1. CASE UNCHANGED servicesVars
      BY <1>1 DEF servicesVars
<1>2. CASE Limiter
      BY <1>2 DEF Limiter
<1>3. CASE StartupRuns
      BY <1>3 DEF StartupRuns
<1>4. CASE Push
      BY <1>4 DEF Push
<1>5. CASE RealtimeRuns
      BY <1>5 DEF RealtimeRuns
<1>6. CASE FeedRuns
      BY <1>6 DEF FeedRuns
<1>7. CASE TrackingRuns
      BY <1>7 DEF TrackingRuns
<1>8. CASE ListingRuns
      BY <1>8 DEF ListingRuns
<1>9. CASE AccessRuns
      BY <1>9 DEF AccessRuns
<1>10. CASE SharingRuns
      BY <1>10 DEF SharingRuns
<1>11. CASE PhoneRuns
      BY <1>11 DEF PhoneRuns
<1> QED BY <1>1, <1>2, <1>3, <1>4, <1>5, <1>6, <1>7, <1>8, <1>9, <1>10, <1>11 DEF ServicesNext

LEMMA ServicesInvariant == ServicesSpec => []ServicesInv
<1>1. ServicesInit => ServicesInv
      BY TypeInit, StartupInitInv, PushInitHolds, RealtimeInitHolds, FeedInitHolds,
         TrackingInitHolds, ListingInitHolds, AccessInitHolds, SharingInitHolds, PhoneInitHolds
      DEF ServicesInit, ServicesInv
<1>2. ServicesInv /\ [ServicesNext]_servicesVars => ServicesInv'
  <2> SUFFICES ASSUME ServicesInv, [ServicesNext]_servicesVars PROVE ServicesInv'
      OBVIOUS
  <2>1. LimiterTypeOK' /\ StartupInv'
        BY EachServiceSteps, TypeStep, StartupStep DEF ServicesInv
  <2>2. PushInv' /\ RealtimeInv'
        BY EachServiceSteps, PushStep, RealtimeStep DEF ServicesInv
  <2>3. FeedInv' /\ TrackingInv'
        BY EachServiceSteps, FeedStep, TrackingStep DEF ServicesInv
  <2>4. ListingInv' /\ AccessInv'
        BY EachServiceSteps, ListingStep, AccessStep DEF ServicesInv
  <2>5. SharingInv' /\ CurrentIsSomebodys'
        BY EachServiceSteps, SharingStep, PhoneStepKeepsOne DEF ServicesInv
  <2> QED BY <2>1, <2>2, <2>3, <2>4, <2>5 DEF ServicesInv
<1> QED BY <1>1, <1>2, PTL DEF ServicesSpec

\* ServicesTypeOK, for any values of all the services' constants: whichever
\* service runs, its state and every other service's stay of their types.
THEOREM ServicesTypeCorrect == ServicesSpec => []ServicesTypeOK
<1>1. ServicesInv => ServicesTypeOK
      BY DEF ServicesInv, ServicesTypeOK, StartupInv, PushInv, RealtimeInv, FeedInv,
             TrackingInv, ListingInv, AccessInv, SharingInv, CurrentIsSomebodys
<1> QED BY <1>1, ServicesInvariant, PTL

\* No promise is lost by putting the services side by side: a behaviour of all of
\* them is, for each, one of its initial state and its steps, so whatever a service
\* always promises by itself it promises there too.  What the fairness of Realtime,
\* SosFeed and PhoneRealtime promises is not in it.
THEOREM EachServiceIsWhole ==
    ServicesSpec => /\ LimiterSpec /\ StartupSpec /\ PushSpec /\ TrackingSpec
                    /\ ListingSpec /\ AccessSpec /\ SharingSpec
                    /\ RealtimeInit /\ [][RealtimeNext]_realtimeVars
                    /\ FeedInit /\ [][FeedNext]_feedVars
                    /\ PhoneInit /\ [][PhoneNext]_phoneVars
<1>1. ServicesInit => /\ LimiterInit /\ StartupInit /\ PushInit /\ TrackingInit
                      /\ ListingInit /\ AccessInit /\ SharingInit
                      /\ RealtimeInit /\ FeedInit /\ PhoneInit
      BY DEF ServicesInit
<1>2. [ServicesNext]_servicesVars =>
          /\ [LimiterNext]_limiterVars /\ [StartupNext]_startupVars /\ [PushNext]_pushVars
          /\ [TrackingNext]_trackingVars /\ [ListingNext]_listingVars
          /\ [AccessNext]_accessVars /\ [SharingNext]_sharingVars
          /\ [RealtimeNext]_realtimeVars /\ [FeedNext]_feedVars /\ [PhoneNext]_phoneVars
      BY EachServiceSteps
<1> QED BY <1>1, <1>2, PTL DEF ServicesSpec, LimiterSpec, StartupSpec, PushSpec, TrackingSpec,
                               ListingSpec, AccessSpec, SharingSpec

\* The invariants of the services, all at once and for any values of all their
\* constants, under the specification in which TLC chooses the one that runs.
ServicesPromises ==
    /\ WindowHolds /\ MigrationsHold /\ PromotionHolds
    /\ SendsAccounted /\ StrangersExplained /\ BearerLasts
    /\ RegistriesExplained /\ DeadStopsNobody /\ MonitorExplained
    /\ StampProvesSecret /\ LatestCatchesUp /\ WalkExplained
    /\ AccessEnds /\ SharingExplained /\ OneLiveSocket

\* ServicesPromises, in every state of the services side by side.
THEOREM ServicesKeepPromises == ServicesSpec => []ServicesPromises
<1>1. ServicesInv => /\ RegistriesExplained /\ DeadStopsNobody
                     /\ MonitorExplained /\ OneLiveSocket
      BY RegistriesFollow, TriedFollows, MonitorFollows, OneSocketFollows DEF ServicesInv
<1>2. /\ WindowHolds /\ MigrationsHold /\ PromotionHolds
      /\ SendsAccounted /\ StrangersExplained /\ BearerLasts
      /\ StampProvesSecret /\ LatestCatchesUp /\ WalkExplained
      /\ AccessEnds /\ SharingExplained
      /\ RegistriesExplained /\ DeadStopsNobody /\ MonitorExplained /\ OneLiveSocket
      => ServicesPromises
      BY DEF ServicesPromises
<1> QED BY <1>1, <1>2, EachServiceIsWhole, ServicesInvariant, LimiterWindowHolds,
           MigrationsAlwaysHold, PromotionIsKept, TokensAccounted, StrangersAreExplained,
           BearersLast, OnlyProvenPairsStamp, LatestIsNotStuck, WalksAreExplained, LetInWereEntitled,
           SharingIsExplained, PTL

=============================================================================
