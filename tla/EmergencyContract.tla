-------------------------- MODULE EmergencyContract --------------------------
(***************************************************************************)
(* What the emergencies component promises about one incident, without the *)
(* requests that carry it out: an incident opens active, moves between     *)
(* statuses, and every move leaves one entry on its trail.                 *)
(*                                                                         *)
(*   Spec      the promise of the transition table (_ALLOWED): a closed    *)
(*             incident never moves again.                                 *)
(*   WeakSpec  what is left when two requests may act on the same reading  *)
(*             of the row: any move that does not go back to "active".     *)
(***************************************************************************)
EXTENDS Naturals, Sequences

CONSTANTS Emergencies

VARIABLES
    status,     \* status[e]: "none" before the incident, "gone" once erased
    trail       \* trail[e]: the statuses it was given, in order

vars == <<status, trail>>

Statuses == {"active", "acknowledged", "resolved", "cancelled"}
Closed == {"resolved", "cancelled"}

\* The transition table of the service.
Allowed(from) ==
    CASE from = "active"       -> {"acknowledged", "resolved", "cancelled"}
      [] from = "acknowledged" -> {"resolved", "cancelled"}
      [] OTHER                 -> {}

Init ==
    /\ status = [e \in Emergencies |-> "none"]
    /\ trail = [e \in Emergencies |-> <<>>]

Open(e) ==
    /\ status[e] = "none"
    /\ status' = [status EXCEPT ![e] = "active"]
    /\ trail' = [trail EXCEPT ![e] = <<"active">>]

Move(e, to) ==
    /\ status[e] \in Statuses
    /\ status' = [status EXCEPT ![e] = to]
    /\ trail' = [trail EXCEPT ![e] = Append(@, to)]

\* The owner's account is deleted and the incidents go with it.
Erase(es) ==
    /\ \A e \in es : status[e] \in Statuses
    /\ status' = [e \in Emergencies |-> IF e \in es THEN "gone" ELSE status[e]]
    /\ trail' = [e \in Emergencies |-> IF e \in es THEN <<>> ELSE trail[e]]

LegalNext ==
    \/ \E e \in Emergencies : Open(e) \/ \E to \in Allowed(status[e]) : Move(e, to)
    \/ \E es \in SUBSET Emergencies : Erase(es)

WeakNext ==
    \/ \E e \in Emergencies : Open(e) \/ \E to \in Statuses \ {"active"} : Move(e, to)
    \/ \E es \in SUBSET Emergencies : Erase(es)

Spec == Init /\ [][LegalNext]_vars
WeakSpec == Init /\ [][WeakNext]_vars
=============================================================================
