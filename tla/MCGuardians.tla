----------------------------- MODULE MCGuardians -----------------------------
(* Small instances of Guardians. *)
EXTENDS Guardians

\* History, for the properties that hold while requests do not overlap: two
\* handlers have been in flight at once.
VARIABLE linkOverlap

MCLinkInit == LinkInit /\ linkOverlap = FALSE
MCLinkNext ==
    /\ LinkNext
    /\ linkOverlap' = (linkOverlap
                        \/ \E q, r \in LinkRequests : q # r /\ LinkLive(q)' /\ LinkLive(r)')
MCLinkSpec == MCLinkInit /\ [][MCLinkNext]_<<linkVars, linkOverlap>>

\* One request at a time so far, and no restart.
LinksAlone == ~linkOverlap /\ linkCrashes = 0

\* InvitesReachAccounts, when requests do not overlap: an invite is linked when
\* it is sent, or when the account it names registers.
AloneInvitesReachAccounts == LinksAlone => InvitesReachAccounts

\* FollowsRulesStep, when requests do not overlap: the transition table checked
\* against the row that was read is kept by the row that is written.
AloneFollowsRules == [][LinksAlone' => FollowsRulesStep]_linkVars

=============================================================================
