---------------------------- MODULE SessionContract ----------------------------
(***************************************************************************)
(* What rotating refresh tokens promise, without the requests that move    *)
(* them: a session is named by the token of its login, is opened once, has *)
(* at most one current token, passes to a token nobody used before, and    *)
(* once closed never opens again.                                          *)
(***************************************************************************)
CONSTANT Tokens

VARIABLES
    phase,      \* of the session each token would open
    current,    \* the tokens that may still be exchanged, per session
    spent       \* the tokens that will never be accepted again

vars == <<phase, current, spent>>

Init ==
    /\ phase = [s \in Tokens |-> "unused"]
    /\ current = [s \in Tokens |-> {}]
    /\ spent = {}

\* A token nobody holds and nobody held.
Fresh(t) == t \notin spent /\ \A s \in Tokens : t \notin current[s]

Open(s) ==
    /\ phase[s] = "unused" /\ Fresh(s)
    /\ phase' = [phase EXCEPT ![s] = "open"]
    /\ current' = [current EXCEPT ![s] = {s}]
    /\ UNCHANGED spent

\* The first half of a rotation.
Consume(s, t) ==
    /\ phase[s] = "open" /\ current[s] = {t}
    /\ current' = [current EXCEPT ![s] = {}]
    /\ spent' = spent \cup {t}
    /\ UNCHANGED phase

\* The second half; a token that opened a session cannot continue another.
Mint(s, t) ==
    /\ phase[s] = "open" /\ current[s] = {}
    /\ Fresh(t) /\ phase[t] = "unused"
    /\ current' = [current EXCEPT ![s] = {t}]
    /\ UNCHANGED <<phase, spent>>

\* Logout, revocation, a deleted account, a rotation that never ends.
Close(S) ==
    /\ \A s \in S : phase[s] = "open"
    /\ phase' = [s \in Tokens |-> IF s \in S THEN "closed" ELSE phase[s]]
    /\ current' = [s \in Tokens |-> IF s \in S THEN {} ELSE current[s]]
    /\ spent' = spent \cup UNION {current[s] : s \in S}

Next ==
    \/ \E s \in Tokens : Open(s)
    \/ \E s, t \in Tokens : Consume(s, t) \/ Mint(s, t)
    \/ \E S \in SUBSET Tokens : Close(S)

Spec == Init /\ [][Next]_vars
================================================================================
