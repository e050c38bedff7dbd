--------------------------- MODULE MCAuthSessions ---------------------------
(* Small instances of AuthSessions. *)
EXTENDS AuthSessions, TLC

CONSTANTS u1, t1, t2, t3, r1, r2

OneUser == {u1}
ThreeTokens == {t1, t2, t3}
TwoSlots == {r1, r2}
SlotSymmetry == Permutations(ThreeTokens) \cup Permutations(TwoSlots)

\* History, for the properties that hold while requests do not overlap: two
\* handlers have been in flight at once.
VARIABLE overlap

MCInit == Init /\ overlap = FALSE
MCNext ==
    /\ Next
    /\ overlap' = (overlap \/ \E q, r \in Requests : q # r /\ Live(q)' /\ Live(r)')
MCSpec == MCInit /\ [][MCNext]_<<vars, overlap>>

\* One request at a time so far, and no restart.
Alone == ~overlap /\ crashes = 0

\* SuspendedHasNoSession and ResetEndsSessions, when requests do not overlap:
\* suspending an account revokes what it holds, login and refresh refuse it from
\* then on, and after a password reset only the new password opens sessions.
AloneSessionsEnd == Alone => SuspendedHasNoSession /\ ResetEndsSessions

=============================================================================
