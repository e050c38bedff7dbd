---------------------------- MODULE MCAdminControl ----------------------------
(* Small instances of AdminControl. *)
EXTENDS AdminControl

\* History, for the properties that hold while requests do not overlap: two
\* handlers have been in flight at once.
VARIABLE adminOverlap

MCAdminInit == AdminInit /\ adminOverlap = FALSE
MCAdminNext ==
    /\ AdminNext
    /\ adminOverlap' = (adminOverlap
                         \/ \E q, r \in AdminRequests : q # r /\ AdminLive(q)' /\ AdminLive(r)')
MCAdminSpec == MCAdminInit /\ [][MCAdminNext]_<<adminVars, adminOverlap>>

\* One request at a time so far, and no restart.
AdminAlone == ~adminOverlap /\ adminCrashes = 0

\* EveryMutationAudited and TrailTellsState, when requests do not overlap and
\* nothing restarts: the audit rows are all there, in the order of the changes.
AloneTrailIsComplete == AdminAlone => EveryMutationAudited /\ TrailTellsState

=============================================================================
