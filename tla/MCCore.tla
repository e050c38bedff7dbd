-------------------------------- MODULE MCCore --------------------------------
(***************************************************************************)
(* Incidents, guardianships and the admin portal with overlapping requests *)
(* and a restart, side by side: each initial state chooses the one that    *)
(* runs, from all of its own initial states, and the others stay where     *)
(* they start.  The slots of all three are the same model values.          *)
(***************************************************************************)
EXTENDS Emergencies, MCGuardians, MCAdminControl, TLC

VARIABLE acting

coreVars == <<vars, linkVars, linkOverlap, adminVars, adminOverlap, acting>>

CoreInit ==
    /\ acting \in {"incidents", "links", "admin"}
    /\ Init /\ MCLinkInit /\ MCAdminInit
    /\ acting # "incidents" => devices = {} /\ guards = {}

Incidents == acting = "incidents" /\ Next
             /\ UNCHANGED <<linkVars, linkOverlap, adminVars, adminOverlap, acting>>
Guardianships == acting = "links" /\ MCLinkNext
             /\ UNCHANGED <<vars, adminVars, adminOverlap, acting>>
Administration == acting = "admin" /\ MCAdminNext
             /\ UNCHANGED <<vars, linkVars, linkOverlap, acting>>

CoreNext == Incidents \/ Guardianships \/ Administration

CoreSpec == CoreInit /\ [][CoreNext]_coreVars

SlotSymmetry == Permutations(Requests)
=============================================================================
