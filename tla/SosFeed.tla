------------------------------- MODULE SosFeed -------------------------------
(***************************************************************************)
(* The live SOS monitor of the admin portal (admin/src/hooks/useSosFeed):  *)
(* one list of open incidents, fed by a fetch when the page opens and      *)
(* after an action of the admin, and by the events of one WebSocket.  The  *)
(* events are sent by the handlers of emergencies/service after their      *)
(* commit, so those of two handlers arrive in any order.                   *)
(***************************************************************************)
EXTENDS Naturals, FiniteSets

CONSTANTS
    LastIncident,   \* incidents are numbered as they are created
    PageLimit,      \* the limit of the fetch: the newest are returned
    MaxLapses       \* bound: connections lost or dropped, tokens that expire

ASSUME FeedAssumption == LastIncident \in Nat /\ PageLimit \in Nat \ {0} /\ MaxLapses \in Nat

VARIABLES
    status,         \* 0 not created, 1 open, 2 closed
    unsent,         \* events committed and not sent yet
    link,           \* "down", "opening", "refused", "up", or "deaf": the server
                    \* has dropped a socket that the page believes connected
    tokenFresh,     \* the access token the page holds has not expired
    shows,          \* open: the incidents on the page
    fetch,          \* "idle", or what the server answered, on its way
    lapses,
    excuse          \* history: why the page may be wrong about an incident

feedVars == <<status, unsent, link, tokenFresh, shows, fetch, lapses, excuse>>

Incidents == 1..LastIncident
Excuses == {"missed", "overtaken", "stale", "beyond"}
Opening(i) == [incident |-> i, status |-> 1]
Closing(i) == [incident |-> i, status |-> 2]
NoAnswer == [at |-> "idle", seen |-> [i \in Incidents |-> 0]]

FeedTypeOK ==
    /\ status \in [Incidents -> 0..2]
    /\ unsent \subseteq [incident : Incidents, status : 1..2]
    /\ link \in {"down", "opening", "refused", "up", "deaf"}
    /\ tokenFresh \in BOOLEAN
    /\ shows \subseteq Incidents
    /\ fetch \in [at : {"idle", "asked", "answered"}, seen : [Incidents -> 0..2]]
    /\ lapses \in 0..MaxLapses
    /\ excuse \in [Incidents -> SUBSET Excuses]

FeedInit ==
    /\ status \in [Incidents -> 0..2]
    /\ \A i, j \in Incidents : i < j /\ status[i] = 0 => status[j] = 0
    /\ unsent = {} /\ link = "down" /\ tokenFresh = TRUE
    /\ shows = {} /\ fetch = [NoAnswer EXCEPT !.at = "asked"]
    /\ lapses = 0
    /\ excuse = [i \in Incidents |-> IF status[i] = 0 THEN {} ELSE {"missed"}]

-----------------------------------------------------------------------------
(* The server. *)

PageFrame == UNCHANGED <<link, tokenFresh, shows, fetch, lapses, excuse>>

\* create and update_status commit, and then send their event.
CreateIncident(i) ==
    /\ status[i] = 0 /\ \A j \in Incidents : j < i => status[j] # 0
    /\ status' = [status EXCEPT ![i] = 1]
    /\ unsent' = unsent \cup {Opening(i)}
    /\ PageFrame

CloseIncident(i) ==
    /\ status[i] = 1
    /\ status' = [status EXCEPT ![i] = 2]
    /\ unsent' = unsent \cup {Closing(i)}
    /\ PageFrame

\* list_emergencies: the newest of all, open or not, up to the limit.
InPage(i) == Cardinality({j \in Incidents : j > i /\ status[j] # 0}) < PageLimit
AnswerList ==
    /\ fetch.at = "asked"
    /\ fetch' = [at |-> "answered",
                 seen |-> [i \in Incidents |-> IF InPage(i) THEN status[i] ELSE 0]]
    /\ UNCHANGED <<status, unsent, link, tokenFresh, shows, lapses, excuse>>

-----------------------------------------------------------------------------
(* The page. *)

\* handleEvent: a closed incident leaves the list, an open one enters it.
KeepsTheClosed(shown, event) ==
    IF event.status = 1 THEN shown \cup {event.incident} ELSE shown
Merge(shown, event) ==
    IF event.status = 1 THEN shown \cup {event.incident} ELSE shown \ {event.incident}

\* An event comes to the page, or to nobody when the page is not connected.
EventArrives(event) ==
    LET i == event.incident
        overtaken == event.status < status[i] /\ Closing(i) \notin unsent
    IN
    /\ event \in unsent
    /\ unsent' = unsent \ {event}
    /\ IF link = "up"
       THEN /\ shows' = Merge(shows, event)
            /\ excuse' = [excuse EXCEPT ![i] = IF overtaken THEN @ \cup {"overtaken"}
                                               ELSE IF event.status = status[i] THEN {} ELSE @]
       ELSE /\ UNCHANGED shows
            /\ excuse' = [excuse EXCEPT ![i] = @ \cup {"missed"}]
    /\ UNCHANGED <<status, link, tokenFresh, fetch, lapses>>

\* refresh: asked after an action of the admin (LiveSOS), 401 answered by a new
\* token; its answer replaces the list, whatever came in meanwhile.
AskForList ==
    /\ fetch.at = "idle"
    /\ fetch' = [NoAnswer EXCEPT !.at = "asked"]
    /\ tokenFresh' = TRUE
    /\ UNCHANGED <<status, unsent, link, shows, lapses, excuse>>

Shown(seen) == {i \in Incidents : seen[i] = 1}
ApplyList ==
    /\ fetch.at = "answered"
    /\ fetch' = NoAnswer
    /\ shows' = Shown(fetch.seen)
    /\ excuse' = [i \in Incidents |->
                    (IF fetch.seen[i] = 0 /\ status[i] # 0 /\ Opening(i) \notin unsent
                     THEN IF InPage(i) THEN {"stale"} ELSE {"beyond"} ELSE {})
                    \cup (IF fetch.seen[i] = 1 /\ status[i] = 2 /\ Closing(i) \notin unsent
                          THEN {"stale"} ELSE {})]
    /\ UNCHANGED <<status, unsent, link, tokenFresh, lapses>>

ListFails ==
    /\ fetch.at # "idle" /\ lapses < MaxLapses /\ lapses' = lapses + 1
    /\ fetch' = NoAnswer
    /\ UNCHANGED <<status, unsent, link, tokenFresh, shows, excuse>>

LinkFrame == UNCHANGED <<status, unsent, shows, fetch, excuse>>

\* connect, at once or when the timer of onclose has run: with the token the
\* page holds, expired or not.
ConnectPage ==
    /\ link = "down"
    /\ link' = "opening"
    /\ UNCHANGED <<tokenFresh, lapses>> /\ LinkFrame

Handshake ==
    /\ link = "opening"
    /\ link' = IF tokenFresh THEN "up" ELSE "refused"
    /\ UNCHANGED <<tokenFresh, lapses>> /\ LinkFrame

\* onclose sets the timer, after a refusal as after a loss.
GivesUpWhenRefused == IF link = "refused" THEN "refused" ELSE "down"
AfterClose == "down"
OnClose ==
    /\ link = "refused"
    /\ link' = AfterClose
    /\ UNCHANGED <<tokenFresh, lapses>> /\ LinkFrame

\* The network or the server closes the socket, or the server drops it after a
\* send that timed out and leaves it open.
Lapse == lapses < MaxLapses /\ lapses' = lapses + 1
LinkLost ==
    /\ link \in {"opening", "up", "deaf"} /\ Lapse
    /\ link' = AfterClose
    /\ UNCHANGED tokenFresh /\ LinkFrame

ServerDropsSocket ==
    /\ link = "up" /\ Lapse
    /\ link' = "deaf"
    /\ UNCHANGED tokenFresh /\ LinkFrame

TokenExpires ==
    /\ tokenFresh /\ Lapse
    /\ tokenFresh' = FALSE
    /\ UNCHANGED link /\ LinkFrame

FeedNext ==
    \/ \E i \in Incidents : CreateIncident(i) \/ CloseIncident(i)
    \/ AnswerList \/ AskForList \/ ApplyList \/ ListFails
    \/ \E event \in unsent : EventArrives(event)
    \/ ConnectPage \/ Handshake \/ OnClose
    \/ LinkLost \/ ServerDropsSocket \/ TokenExpires

\* Timers and handshakes come to an end, and handlers send what they committed.
FeedFairness ==
    /\ WF_feedVars(ConnectPage \/ Handshake \/ OnClose)
    /\ WF_feedVars(\E event \in unsent : EventArrives(event))
    /\ WF_feedVars(AnswerList \/ ApplyList)

FeedSpec == FeedInit /\ [][FeedNext]_feedVars /\ FeedFairness

-----------------------------------------------------------------------------
(* Properties. *)

Quiet == unsent = {} /\ fetch.at = "idle"

\* A quiet page misses an open incident only when its event was not received, a
\* newer event was handled before it, a list older than it was applied over it,
\* or the list stopped short of it; it shows a closed one for the first three.
MonitorExplained ==
    Quiet => \A i \in Incidents :
                /\ status[i] = 1 /\ i \notin shows => excuse[i] # {}
                /\ status[i] # 1 /\ i \in shows => excuse[i] \cap (Excuses \ {"beyond"}) # {}

\* A page whose token is good is connected again in the end, or believes so; the
\* refused handshakes of an expired one do not end the attempts.
MonitorReturns == []<>(tokenFresh => link \in {"up", "deaf"})

=============================================================================
