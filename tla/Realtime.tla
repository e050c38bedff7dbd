------------------------------- MODULE Realtime -------------------------------
(***************************************************************************)
(* Realtime connections: the WebSocket endpoint of server/app/websocket,   *)
(* the two registries of its ConnectionManager, and the events that the    *)
(* handlers of emergencies/service send through them.  One event loop runs *)
(* every coroutine, so a step here is what runs between two awaits; the    *)
(* blocks under the manager's lock hold no await and are steps of their    *)
(* own.                                                                    *)
(***************************************************************************)
EXTENDS Naturals, FiniteSets

CONSTANTS
    Accounts,
    Sockets,        \* WebSocket objects
    Emits,          \* handlers that may be emitting at once
    MaxPeerMoves    \* bound: connections opened, peers stalling or leaving, roles changed

ASSUME RealtimeAssumption == MaxPeerMoves \in Nat

VARIABLES
    standing,       \* of an account, in the database: "admin", "user" or "disabled"
    sock,
    connections,    \* _connections
    adminConnections, \* _admin_connections
    emit,
    peerMoves,
    failedOn,       \* history: sockets a send has failed on
    outdated        \* history: sockets whose account changed after their handshake

realtimeVars == <<standing, sock, connections, adminConnections, emit, peerMoves, failedOn,
                  outdated>>

\* at: "free" for an object not in use, "handshake", "accepting", "refused"
\* (accepted to be closed with 4401), "open", "ended" (the endpoint has
\* returned).  peer: whether the other side reads.
SocketType == [at : {"free", "handshake", "accepting", "refused", "open", "ended"},
               user : Accounts, admin : BOOLEAN, peer : {"up", "stalled", "gone"}]
\* at: the phase of _emit_event; rest: sockets of the snapshot whose account
\* has not had its turn; todo, dead: the locals of _send for the account that
\* has it; tried and due: history, the sockets this phase has sent to, and was to.
EmitType == [at : {"idle", "users", "admins"}, owner : Accounts, rest : SUBSET Sockets,
             todo : SUBSET Sockets, dead : SUBSET Sockets, tried : SUBSET Sockets,
             due : SUBSET Sockets]

RealtimeTypeOK ==
    /\ standing \in [Accounts -> {"admin", "user", "disabled"}]
    /\ sock \in [Sockets -> SocketType]
    /\ connections \in [Accounts -> SUBSET Sockets]
    /\ adminConnections \in [Accounts -> SUBSET Sockets]
    /\ emit \in [Emits -> EmitType]
    /\ peerMoves \in 0..MaxPeerMoves
    /\ failedOn \subseteq Sockets /\ outdated \subseteq Sockets

RealtimeInit ==
    /\ standing \in [Accounts -> {"admin", "user"}]
    /\ \E a \in Accounts :
          /\ sock = [s \in Sockets |-> [at |-> "free", user |-> a, admin |-> FALSE, peer |-> "up"]]
          /\ emit = [e \in Emits |-> [at |-> "idle", owner |-> a, rest |-> {}, todo |-> {},
                                      dead |-> {}, tried |-> {}, due |-> {}]]
    /\ connections = [a \in Accounts |-> {}]
    /\ adminConnections = [a \in Accounts |-> {}]
    /\ peerMoves = 0 /\ failedOn = {} /\ outdated = {}

SetSocket(s, r) == sock' = [sock EXCEPT ![s] = r]
PeerMove == peerMoves < MaxPeerMoves /\ peerMoves' = peerMoves + 1
Registries == <<connections, adminConnections>>

-----------------------------------------------------------------------------
(* The endpoint of one connection. *)

\* An object is used again when no emit holds it any more.
OpenConnection(s, a) ==
    /\ sock[s].at = "free" /\ PeerMove
    /\ \A e \in Emits : s \notin emit[e].rest \cup emit[e].todo \cup emit[e].dead
    /\ SetSocket(s, [at |-> "handshake", user |-> a, admin |-> FALSE, peer |-> "up"])
    /\ failedOn' = failedOn \ {s} /\ outdated' = outdated \ {s}
    /\ UNCHANGED <<standing, Registries, emit>>

\* authenticate_ws_token: the token, then the account as it is now.
TokenPasses(a, tokenGood) == tokenGood /\ standing[a] # "disabled"

\* ws_endpoint, with the role as it is now.  Who is refused is accepted all the
\* same, to be told 4401.
Authenticate(s, tokenGood) ==
    LET a == sock[s].user IN
    /\ sock[s].at = "handshake"
    /\ SetSocket(s, IF TokenPasses(a, tokenGood)
                    THEN [sock[s] EXCEPT !.at = "accepting", !.admin = standing[a] = "admin"]
                    ELSE [sock[s] EXCEPT !.at = "refused"])
    /\ UNCHANGED <<standing, Registries, emit, peerMoves, failedOn, outdated>>

Refuse(s) ==
    /\ sock[s].at = "refused"
    /\ SetSocket(s, [sock[s] EXCEPT !.at = "free"])
    /\ UNCHANGED <<standing, Registries, emit, peerMoves, failedOn, outdated>>

\* connect: the accept, which raises when the peer has left, and both registries
\* under the lock.
Connect(s) ==
    LET a == sock[s].user IN
    /\ sock[s].at = "accepting"
    /\ IF sock[s].peer = "gone"
       THEN /\ SetSocket(s, [sock[s] EXCEPT !.at = "ended"])
            /\ UNCHANGED Registries
       ELSE /\ SetSocket(s, [sock[s] EXCEPT !.at = "open"])
            /\ connections' = [connections EXCEPT ![a] = @ \cup {s}]
            /\ adminConnections' = IF sock[s].admin
                                   THEN [adminConnections EXCEPT ![a] = @ \cup {s}]
                                   ELSE adminConnections
    /\ UNCHANGED <<standing, emit, peerMoves, failedOn, outdated>>

\* disconnect, of a set of sockets of one account.
ForgetsAdmins(a, gone) == /\ connections' = [connections EXCEPT ![a] = @ \ gone]
                          /\ UNCHANGED adminConnections
Disconnect(a, gone) ==
    /\ connections' = [connections EXCEPT ![a] = @ \ gone]
    /\ adminConnections' = [adminConnections EXCEPT ![a] = @ \ gone]

\* The finally of ws_endpoint, once receive_text has raised.
EndpointEnds(s) ==
    /\ sock[s].at = "open" /\ sock[s].peer = "gone"
    /\ SetSocket(s, [sock[s] EXCEPT !.at = "ended"])
    /\ Disconnect(sock[s].user, {s})
    /\ UNCHANGED <<standing, emit, peerMoves, failedOn, outdated>>

Release(s) ==
    /\ sock[s].at = "ended"
    /\ SetSocket(s, [sock[s] EXCEPT !.at = "free"])
    /\ UNCHANGED <<standing, Registries, emit, peerMoves, failedOn, outdated>>

\* The other side stops reading, reads again, or leaves.
PeerTurns(s, p) ==
    /\ sock[s].at \in {"accepting", "open"} /\ sock[s].peer # "gone" /\ p # sock[s].peer
    /\ PeerMove
    /\ SetSocket(s, [sock[s] EXCEPT !.peer = p])
    /\ UNCHANGED <<standing, Registries, emit, failedOn, outdated>>

\* The admin changes an account; nothing tells its sockets.
StandingChanges(a, r) ==
    /\ standing[a] # r /\ PeerMove
    /\ standing' = [standing EXCEPT ![a] = r]
    /\ outdated' = outdated \cup
                   {s \in Sockets : sock[s].at \in {"accepting", "open"} /\ sock[s].user = a}
    /\ UNCHANGED <<sock, Registries, emit, failedOn>>

-----------------------------------------------------------------------------
(* The events. *)

SetEmit(e, r) == emit' = [emit EXCEPT ![e] = r]
EndpointFrame == UNCHANGED <<standing, peerMoves, outdated>>

\* _emit_event to the owner: send_to_user reads its sockets under the lock.
BeginEmit(e, a) ==
    /\ emit[e].at = "idle"
    /\ SetEmit(e, [at |-> "users", owner |-> a, rest |-> {}, todo |-> connections[a], dead |-> {},
                   tried |-> {}, due |-> connections[a]])
    /\ UNCHANGED <<sock, Registries, failedOn>> /\ EndpointFrame

\* What awaiting send_json under the 5 seconds of wait_for may come to: an open
\* peer gets the event, a stalled one fills its buffer or times out, one that
\* has left is written to or raises, an endpoint that returned raises.
WaitsForThePeer(s) ==
    IF sock[s].at # "open" THEN {"dead"}
    ELSE IF sock[s].peer = "up" THEN {"got"}
    ELSE IF sock[s].peer = "stalled" THEN {} ELSE {"buffered", "dead"}
SendMayGive(s) ==
    IF sock[s].at # "open" THEN {"dead"}
    ELSE IF sock[s].peer = "up" THEN {"got"} ELSE {"buffered", "dead"}

\* _send, one socket: a failed one is noted and the next has its turn.
NotesTheDead(r, s, result) ==
    [r EXCEPT !.tried = @ \cup {s},
              !.todo = @ \ {s},
              !.dead = IF result = "dead" THEN @ \cup {s} ELSE @]

Send(e, s) ==
    /\ s \in emit[e].todo
    /\ \E result \in SendMayGive(s) :
          /\ SetEmit(e, NotesTheDead(emit[e], s, result))
          /\ failedOn' = IF result = "dead" THEN failedOn \cup {s} ELSE failedOn
    /\ UNCHANGED <<sock, Registries>> /\ EndpointFrame

\* The loop over dead: disconnect, which closes nothing.
DropDead(e) ==
    /\ emit[e].todo = {} /\ emit[e].dead # {}
    /\ \E s \in emit[e].dead : Disconnect(sock[s].user, emit[e].dead)
    /\ SetEmit(e, [emit[e] EXCEPT !.dead = {}])
    /\ UNCHANGED <<sock, failedOn>> /\ EndpointFrame

AccountDone(e) == emit[e].todo = {} /\ emit[e].dead = {}

\* broadcast_to_admins: every admin socket of this moment, account by account.
BeginAdmins(e) ==
    /\ emit[e].at = "users" /\ AccountDone(e)
    /\ LET all == UNION {adminConnections[a] : a \in Accounts} IN
       SetEmit(e, [emit[e] EXCEPT !.at = "admins", !.rest = all, !.due = all, !.tried = {}])
    /\ UNCHANGED <<sock, Registries, failedOn>> /\ EndpointFrame

NextAdmin(e) ==
    /\ emit[e].at = "admins" /\ AccountDone(e)
    /\ \E s \in emit[e].rest :
          LET his == {t \in emit[e].rest : sock[t].user = sock[s].user} IN
          SetEmit(e, [emit[e] EXCEPT !.rest = @ \ his, !.todo = his])
    /\ UNCHANGED <<sock, Registries, failedOn>> /\ EndpointFrame

EndEmit(e) ==
    /\ emit[e].at = "admins" /\ AccountDone(e) /\ emit[e].rest = {}
    /\ SetEmit(e, [emit[e] EXCEPT !.at = "idle", !.tried = {}, !.due = {}])
    /\ UNCHANGED <<sock, Registries, failedOn>> /\ EndpointFrame

ServerStep(e) ==
    \/ \E s \in Sockets : Send(e, s)
    \/ DropDead(e) \/ BeginAdmins(e) \/ NextAdmin(e) \/ EndEmit(e)

RealtimeNext ==
    \/ \E s \in Sockets :
          \/ \E a \in Accounts : OpenConnection(s, a)
          \/ \E good \in BOOLEAN : Authenticate(s, good)
          \/ Refuse(s) \/ Connect(s) \/ EndpointEnds(s) \/ Release(s)
          \/ \E p \in {"up", "stalled", "gone"} : PeerTurns(s, p)
    \/ \E a \in Accounts, r \in {"admin", "user", "disabled"} : StandingChanges(a, r)
    \/ \E e \in Emits, a \in Accounts : BeginEmit(e, a)
    \/ \E e \in Emits : ServerStep(e)

\* The event loop runs every coroutine that is ready, and wait_for ends a send
\* within 5 seconds whatever the peer does.
RealtimeFairness == \A e \in Emits : WF_realtimeVars(ServerStep(e))

RealtimeSpec == RealtimeInit /\ [][RealtimeNext]_realtimeVars /\ RealtimeFairness

-----------------------------------------------------------------------------
(* Properties. *)

\* Both registries hold sockets whose endpoint runs, under their own account,
\* and they agree: an open admin socket is in both or in neither.
RegistriesAgree ==
    \A a \in Accounts :
        /\ \A s \in connections[a] : sock[s].at = "open" /\ sock[s].user = a
        /\ adminConnections[a] = {s \in connections[a] : sock[s].admin}

\* A socket that is open and hears nothing any more is one a send has failed on:
\* manager.disconnect takes it out of the registries and leaves it open.
DeafAfterFailure ==
    \A s \in Sockets : sock[s].at = "open" /\ s \notin connections[sock[s].user] => s \in failedOn

\* Whoever gets the admin events is an admin, or was one when the socket was
\* opened and has been changed since: only the handshake reads the role.
ListenersExplained ==
    \A a \in Accounts : \A s \in adminConnections[a] : standing[a] = "admin" \/ s \in outdated

\* Who is in the registries, who is not any more, and who of those is an admin.
RegistriesExplained == RegistriesAgree /\ DeafAfterFailure /\ ListenersExplained

\* One dead socket takes the event from nobody else: before the next phase, and
\* before the handler returns, every socket of the snapshot has been tried.
DeadStopsNobody ==
    \A e \in Emits :
        emit[e].at # "idle" /\ AccountDone(e) /\ emit[e].rest = {} => emit[e].tried = emit[e].due

\* However many peers stall, the handler that emits goes on to its end.
EmitsEnd == \A e \in Emits : emit[e].at # "idle" ~> emit[e].at = "idle"

=============================================================================
