-------------------------------- MODULE MCFair --------------------------------
(***************************************************************************)
(* What the scheduling makes happen in the end: incidents, one request at  *)
(* a time, beside the services around the core.  Each initial state        *)
(* chooses which of the two runs, and the other stays where it starts.     *)
(***************************************************************************)
EXTENDS Emergencies, MCServices

VARIABLE turn

fairVars == <<vars, servicesVars, turn>>

FairInit ==
    /\ turn \in {"incidents", "services"}
    /\ Init /\ ServicesInit
    /\ turn # "incidents" => devices = {} /\ guards = {}
    /\ turn # "services" => running = "limiter"

IncidentsRun == turn = "incidents" /\ Next /\ UNCHANGED <<servicesVars, turn>>
ServicesRun == turn = "services" /\ ServicesNext /\ UNCHANGED <<vars, turn>>

\* FairSpec and ServicesSpec, of the one that runs.
FairlySpec ==
    /\ FairInit /\ [][IncidentsRun \/ ServicesRun]_fairVars
    /\ \A r \in Requests : WF_vars(turn = "incidents" /\ Step(r))
    /\ ServicesFairness
=============================================================================
