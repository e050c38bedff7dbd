---------------------------- MODULE PhoneRealtime ----------------------------
(***************************************************************************)
(* The realtime client of the phone app: client/src/services/realtime.ts   *)
(* with its sockets and its one timer, and the effect of useRealtime       *)
(* (hooks/useServices.ts) that connects and disconnects it.  ws.close()    *)
(* and a loss are seen when onclose is called, later; a socket the module  *)
(* has let go of may still have its own to come.                           *)
(***************************************************************************)
EXTENDS Naturals, FiniteSets

CONSTANTS
    LastSocket,     \* WebSocket objects, used again when closed
    MaxStirs        \* bound: sign-ins and -outs, refreshes, losses, tokens that expire

ASSUME PhoneAssumption == LastSocket \in Nat \ {0} /\ MaxStirs \in Nat

VARIABLES
    somebody,       \* state.user
    token,          \* access token in memory: "none", "fresh" or "expired"
    wanted,
    retryTimer,     \* is set
    current,        \* the module's socket, 0 for null
    wire,
    offered,        \* the token of each socket had not expired
    stirs,
    turnedAway      \* history: the server has refused a good token

phoneVars == <<somebody, token, wanted, retryTimer, current, wire, offered, stirs, turnedAway>>

PhoneSockets == 1..LastSocket

\* "refused" and "lost" are closed by the server, with 4401, or by the network,
\* "leaving" by the phone: their onclose is to come.
WireStates == {"closed", "connecting", "open", "refused", "lost", "leaving"}

PhoneTypeOK ==
    /\ somebody \in BOOLEAN /\ wanted \in BOOLEAN /\ retryTimer \in BOOLEAN
    /\ token \in {"none", "fresh", "expired"}
    /\ current \in 0..LastSocket
    /\ wire \in [PhoneSockets -> WireStates]
    /\ offered \in [PhoneSockets -> BOOLEAN]
    /\ stirs \in 0..MaxStirs /\ turnedAway \in BOOLEAN

\* Mounted, with or without a stored user; the tokens are not restored yet.
PhoneInit ==
    /\ somebody \in BOOLEAN /\ token = "none"
    /\ wanted = FALSE /\ retryTimer = FALSE /\ current = 0
    /\ wire = [s \in PhoneSockets |-> "closed"]
    /\ offered = [s \in PhoneSockets |-> FALSE]
    /\ stirs = 0 /\ turnedAway = FALSE

-----------------------------------------------------------------------------
(* realtime.ts *)

\* readyState of the current socket is OPEN or CONNECTING: it stays so until
\* its close is told.
InUse == current # 0 /\ wire[current] \in {"connecting", "open", "refused", "lost"}
Unused == {s \in PhoneSockets : wire[s] = "closed" /\ s # current}

NewSocket(held) ==
    \E s \in Unused :
        /\ \A t \in Unused : s <= t
        /\ wanted' = TRUE /\ current' = s
        /\ wire' = [wire EXCEPT ![s] = "connecting"]
        /\ offered' = [offered EXCEPT ![s] = (held = "fresh")]

\* connectRealtime.
ConnectAgain(held) == NewSocket(held)
ConnectRealtime(held) ==
    IF InUse THEN UNCHANGED <<wanted, current, wire, offered>> ELSE NewSocket(held)

\* disconnectRealtime.
DisconnectRealtime ==
    /\ wanted' = FALSE /\ retryTimer' = FALSE /\ current' = 0
    /\ wire' = [s \in PhoneSockets |->
                  IF s = current /\ wire[s] \in {"connecting", "open"} THEN "leaving" ELSE wire[s]]
    /\ UNCHANGED offered

\* onclose: AUTH_CLOSE_CODES end the attempts, whichever socket it is of; anything
\* else sets the timer, if the connection is wanted and none is set.
AnyCloseIsTerminal(s) == TRUE
Terminal(s) == wire[s] = "refused"
OnPhoneClose(s) ==
    /\ wire[s] \in {"refused", "lost", "leaving"}
    /\ wire' = [wire EXCEPT ![s] = "closed"]
    /\ current' = IF current = s THEN 0 ELSE current
    /\ IF Terminal(s) THEN wanted' = FALSE /\ UNCHANGED retryTimer
       ELSE retryTimer' = (retryTimer \/ wanted) /\ UNCHANGED wanted
    /\ UNCHANGED <<somebody, token, offered, stirs, turnedAway>>

\* The timer of scheduleReconnect: with the token of now, if there is one.
RetryTimer ==
    /\ retryTimer
    /\ retryTimer' = FALSE
    /\ IF wanted /\ token # "none" THEN ConnectRealtime(token)
       ELSE UNCHANGED <<wanted, current, wire, offered>>
    /\ UNCHANGED <<somebody, token, stirs, turnedAway>>

-----------------------------------------------------------------------------
(* The session, and the effect of useRealtime. *)

Stir == stirs < MaxStirs /\ stirs' = stirs + 1

\* A connectRealtime that finds a socket in use does not renew wanted.
Effect(user, held) ==
    /\ somebody' = user /\ token' = held /\ UNCHANGED turnedAway
    /\ IF user /\ held # "none" THEN ConnectRealtime(held) /\ UNCHANGED retryTimer
       ELSE DisconnectRealtime

\* A login sets the token before the user.
SignsInPhone == ~somebody /\ Stir /\ Effect(TRUE, "fresh")

\* A refresh after a 401, with its session event: also one that ends after a
\* logout.
Restored == Stir /\ Effect(somebody, "fresh")

\* useSessionRestore sets the token, whenever its answer comes, and tells nobody;
\* the same user logged in again is no change of the effect.
RestoredSilently ==
    /\ somebody /\ Stir
    /\ token' = "fresh"
    /\ UNCHANGED <<somebody, wanted, retryTimer, current, wire, offered, turnedAway>>

\* clearSession, of a logout or a refused refresh; the user goes later.
TokenCleared ==
    /\ token # "none" /\ Stir
    /\ token' = "none"
    /\ UNCHANGED <<somebody, wanted, retryTimer, current, wire, offered, turnedAway>>

SignsOutPhone == somebody /\ token = "none" /\ Stir /\ Effect(FALSE, "none")

-----------------------------------------------------------------------------
(* The network and the server. *)

NetworkFrame == UNCHANGED <<somebody, wanted, retryTimer, current, offered>>

\* ws_endpoint takes a token that has not expired, and closes with 4401.
PhoneHandshake(s) ==
    /\ wire[s] = "connecting"
    /\ wire' = [wire EXCEPT ![s] = IF offered[s] THEN "open" ELSE "refused"]
    /\ UNCHANGED <<token, stirs, turnedAway>> /\ NetworkFrame

\* The account was suspended, or the token expired on its way.
RefusedAnyway(s) ==
    /\ wire[s] = "connecting" /\ Stir
    /\ wire' = [wire EXCEPT ![s] = "refused"] /\ turnedAway' = TRUE
    /\ UNCHANGED token /\ NetworkFrame

PhoneLinkLost(s) ==
    /\ wire[s] \in {"connecting", "open"} /\ Stir
    /\ wire' = [wire EXCEPT ![s] = "lost"]
    /\ UNCHANGED <<token, turnedAway>> /\ NetworkFrame

PhoneTokenExpires ==
    /\ token = "fresh" /\ Stir
    /\ token' = "expired"
    /\ UNCHANGED <<wire, turnedAway>> /\ NetworkFrame

PhoneNext ==
    \/ SignsInPhone \/ Restored \/ RestoredSilently \/ TokenCleared \/ SignsOutPhone
    \/ RetryTimer \/ PhoneTokenExpires
    \/ \E s \in PhoneSockets :
          OnPhoneClose(s) \/ PhoneHandshake(s) \/ RefusedAnyway(s) \/ PhoneLinkLost(s)

\* Closes are told, handshakes answered, and timers run.
PhoneFairness ==
    /\ \A s \in PhoneSockets : WF_phoneVars(OnPhoneClose(s) \/ PhoneHandshake(s))
    /\ WF_phoneVars(RetryTimer)

PhoneSpec == PhoneInit /\ [][PhoneNext]_phoneVars /\ PhoneFairness

-----------------------------------------------------------------------------
(* Properties. *)

SocketLive(s) == wire[s] \in {"connecting", "open"}

\* The phone has one connection at most, and it is the one it can close: events
\* come once, and a phone with nobody signed in hears none, whatever timer,
\* refresh or close was under way when they left.
OneLiveSocket ==
    \A s \in PhoneSockets : SocketLive(s) => s = current /\ somebody

Connected == current # 0 /\ wire[current] = "open"

\* A wanted connection that is lost comes back, whatever timer is set and whatever
\* socket still has its close to come, while the token stays good and no socket is
\* refused.
LossIsRetried ==
    (current # 0 /\ wire[current] = "lost" /\ wanted)
        ~> (Connected \/ token # "fresh" \/ \E s \in PhoneSockets : wire[s] = "refused")


=============================================================================
