--------------------------- MODULE MCClientSession ---------------------------
(* Small instances of ClientSession. *)
EXTENDS ClientSession, TLC

CONSTANTS u1, u2, t1, t2, t3

OneUser == {u1}
TwoUsers == {u1, u2}
ThreeTokens == {t1, t2, t3}
TokenSymmetry == Permutations(ThreeTokens)

\* History, for the properties that hold while the tasks do not overlap.
VARIABLE overlap

Busy(p) == Live(p) \/ (p = "refresh" /\ asking)
MCInit == Init /\ overlap = FALSE
MCNext ==
    /\ Next
    /\ overlap' = (overlap \/ \E p, q \in Tasks : p # q /\ Busy(p)' /\ Busy(q)')
MCSpec == MCInit /\ [][MCNext]_<<vars, overlap>>

\* One task at a time so far, and nothing failed or was killed.
Alone == ~overlap /\ failures = 0 /\ kills = 0

\* SignedOutIsClean, while tasks do not overlap and no request fails: a logout
\* ends the session on the phone and on the server.
AloneSignedOutIsClean == Alone => SignedOutIsClean
=============================================================================
