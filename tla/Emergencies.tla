----------------------------- MODULE Emergencies -----------------------------
(***************************************************************************)
(* The SOS incidents of the server: server/app/emergencies/service.py over *)
(* the tables of migration 005, the deliveries it triggers and the admin   *)
(* transitions that reuse it.  Every handler is a coroutine; at each await *)
(* the event loop may run another one, so a request is a process with one  *)
(* action per await.  A slot of Requests that has answered is reused.      *)
(***************************************************************************)
EXTENDS Naturals, Sequences, FiniteSets

CONSTANTS
    Users,          \* accounts
    Protected,      \* the accounts that raise incidents
    Admins,         \* the accounts with role admin
    Emergencies,    \* identifiers of incidents, each used once
    Requests,       \* request slots: how many handlers may overlap
    NoOne,          \* SQL NULL in a user column
    MaxEvents,      \* no update starts on an incident with this many events
    MaxCrashes      \* server restarts in a behaviour

ASSUME ConstantsAssumption ==
    /\ Admins \subseteq Users
    /\ Protected \subseteq Users
    /\ NoOne \notin Users
    /\ MaxEvents \in Nat
    /\ MaxCrashes \in Nat

VARIABLES
    users,          \* accounts that exist
    devices,        \* users that own a paired tag (at most one each)
    guards,         \* accepted guardianships, <<protected, guardian>>
    row,            \* the emergencies table
    log,            \* emergency_events, in commit order
    req,            \* the handlers in flight
    emitted,        \* how often each message went to a WebSocket channel
    audits,         \* what the emergency.* rows of admin_audit_log say
    crashes,        \* restarts so far
    everGuards      \* history: every guardianship that was ever accepted

tables == <<users, devices, guards, row, log>>
vars == <<tables, req, emitted, audits, crashes, everGuards>>

Statuses == {"active", "acknowledged", "resolved", "cancelled"}
Closed == {"resolved", "cancelled"}

AnyStatus(from) == Statuses

\* The transition table.
Allowed(from) ==
    CASE from = "active"       -> {"acknowledged", "resolved", "cancelled"}
      [] from = "acknowledged" -> {"resolved", "cancelled"}
      [] OTHER                 -> {}

\* The statuses the admin actions of that name ask for.
AdminTargets == {"acknowledged", "resolved", "cancelled"}

Row == [status: Statuses \cup {"none", "gone"}, owner: Users \cup {NoOne},
        resolved: BOOLEAN]
Event == [actor: Users \cup {NoOne}, from: Statuses \cup {"none"},
          to: Statuses, at: Nat]
Message == Emergencies \X Statuses
Channels == {"owner", "admins"}

NoRow == [status |-> "none", owner |-> NoOne, resolved |-> FALSE]
Exists(e) == row[e].status \in Statuses
Ops == {"create", "update", "admin"}
Pcs == {"read", "check", "begin", "commit", "emitUser", "emitAdmin",
        "audience", "send", "audit"}
Idle == [pc |-> "idle"]
Call == [pc: Pcs, op: Ops, actor: Users, em: Emergencies, to: Statuses,
         seen: Statuses \cup {"none"}, dev: BOOLEAN, at: Nat,
         aud: SUBSET Users]

-----------------------------------------------------------------------------
(* Control inside a handler *)

Live(r) == req[r].pc # "idle"
At(r, pc) == req[r].pc = pc
Goto(r, pc) == req' = [req EXCEPT ![r].pc = pc]
Answer(r) == req' = [req EXCEPT ![r] = Idle]

\* After the commit a user's handler emits, answers and leaves the push to a
\* background task; an admin's handler has no background task, so it delivers
\* the push first, then emits, then writes its audit row.
PushOnly(op) == "audience"
AfterCommit(op) == IF op = "admin" THEN "audience" ELSE "emitUser"
SendEndsHandler(r) == IF req[r].op = "admin" THEN Goto(r, "audit") ELSE Answer(r)
AfterSend(r) == IF req[r].op = "admin" THEN Goto(r, "emitUser") ELSE Answer(r)
AfterEmit(op) == IF op = "admin" THEN "audit" ELSE "audience"

AnyoneMayAct(u, owner) == TRUE

\* Owners and accepted guardians read an incident and change its status.
MayAct(u, owner) == u = owner \/ <<owner, u>> \in guards

\* A transaction starts: now(), the created_at of the event it will insert, is
\* this instant, kept as the number of events the incident has by then.
Begin(r) ==
    /\ At(r, "begin")
    /\ req' = [req EXCEPT ![r].pc = "commit", ![r].at = Len(log[req[r].em])]
    /\ UNCHANGED <<tables, emitted, audits, crashes, everGuards>>

EventFromNew(r) ==
    [actor |-> req[r].actor, from |-> req[r].to, to |-> req[r].to,
     at |-> req[r].at]

\* The audit event a transaction inserts, stamped with the transaction's start.
EventOf(r) ==
    [actor |-> req[r].actor, from |-> req[r].seen, to |-> req[r].to,
     at |-> req[r].at]

-----------------------------------------------------------------------------
(* EmergenciesService.create *)

\* The router has authenticated the owner; the device check is the first
\* await of the handler.  A device that is not the caller's is refused.
StartCreate(r) ==
    /\ ~Live(r)
    /\ \E u \in users \cap Protected, e \in Emergencies, d \in BOOLEAN :
        /\ row[e].status = "none"
        /\ \A q \in Requests : Live(q) => req[q].em # e
        /\ d => u \in devices
        /\ req' = [req EXCEPT ![r] =
             [pc |-> "begin", op |-> "create", actor |-> u, em |-> e,
              to |-> "active", seen |-> "none", dev |-> d, at |-> 0, aud |-> {}]]
    /\ UNCHANGED <<tables, emitted, audits, crashes, everGuards>>

\* The foreign keys of the insert: the owner, and the device if one is named.
KeysHold(r) ==
    /\ req[r].actor \in users
    /\ req[r].dev => req[r].actor \in devices

CommitCreateNoEvent(r) ==
    /\ At(r, "commit") /\ req[r].op = "create" /\ KeysHold(r)
    /\ row' = [row EXCEPT ![req[r].em] =
         [status |-> "active", owner |-> req[r].actor, resolved |-> FALSE]]
    /\ Goto(r, AfterCommit("create"))
    /\ UNCHANGED <<users, devices, guards, log, emitted, audits, crashes, everGuards>>

\* One transaction inserts the incident and its first event.
CommitCreate(r) ==
    /\ At(r, "commit") /\ req[r].op = "create" /\ KeysHold(r)
    /\ row' = [row EXCEPT ![req[r].em] =
         [status |-> "active", owner |-> req[r].actor, resolved |-> FALSE]]
    /\ log' = [log EXCEPT ![req[r].em] = Append(@, EventOf(r))]
    /\ Goto(r, AfterCommit("create"))
    /\ UNCHANGED <<users, devices, guards, emitted, audits, crashes, everGuards>>

\* A key is gone: the insert fails, the transaction is rolled back, 500.
CreateFails(r) ==
    /\ At(r, "commit") /\ req[r].op = "create" /\ ~KeysHold(r)
    /\ Answer(r)
    /\ UNCHANGED <<tables, emitted, audits, crashes, everGuards>>

-----------------------------------------------------------------------------
(* EmergenciesService.update_status, from the user routes and the admin ones *)

\* What the routes ask for: the user ones any status, the admin ones their own.
Requested(op) == IF op = "admin" THEN AdminTargets ELSE Statuses

StartUpdate(r) ==
    /\ ~Live(r)
    /\ \E u \in users, e \in Emergencies, op \in {"update", "admin"} :
       \E to \in Requested(op) :
        /\ row[e].status # "none"
        /\ Len(log[e]) < MaxEvents
        /\ op = "admin" => u \in Admins
        /\ req' = [req EXCEPT ![r] =
             [pc |-> "read", op |-> op, actor |-> u, em |-> e, to |-> to,
              seen |-> "none", dev |-> FALSE, at |-> 0, aud |-> {}]]
    /\ UNCHANGED <<tables, emitted, audits, crashes, everGuards>>

\* get_by_id, outside any transaction; an erased incident is a 404.
Read(r) ==
    /\ At(r, "read")
    /\ LET e == req[r].em IN
         IF Exists(e)
         THEN req' = [req EXCEPT ![r].pc = "check", ![r].seen = row[e].status]
         ELSE Answer(r)
    /\ UNCHANGED <<tables, emitted, audits, crashes, everGuards>>

RefusalsAudited(q) ==
    CASE q.op = "update" /\ ~MayAct(q.actor, row[q.em].owner) -> "idle"
      [] q.to \in Allowed(q.seen) -> "begin"
      [] OTHER -> IF q.op = "admin" THEN "audit" ELSE "idle"

\* Where the handler goes once it knows the row q.seen and the guardianships:
\* refuse (403, 422), answer unchanged (an admin still audits), or go on.
Decision(q) ==
    CASE q.op = "update" /\ ~MayAct(q.actor, row[q.em].owner) -> "idle"
      [] q.to = q.seen -> IF q.op = "admin" THEN "audit" ELSE "idle"
      [] OTHER -> IF q.to \in Allowed(q.seen) THEN "begin" ELSE "idle"

\* The guardian lookup is an await of its own; nothing is read again after it.
Check(r) ==
    /\ At(r, "check")
    /\ IF Decision(req[r]) = "idle" THEN Answer(r) ELSE Goto(r, Decision(req[r]))
    /\ UNCHANGED <<tables, emitted, audits, crashes, everGuards>>

\* UPDATE ... WHERE id = $1: whatever the status is by now.
Overwrite(current, to) ==
    [current EXCEPT !.status = to, !.resolved = @ \/ to \in Closed]

\* One transaction overwrites the status and inserts the event; the row lock
\* that UPDATE takes makes the two atomic for every other request.
CommitUpdate(r) ==
    /\ At(r, "commit") /\ req[r].op # "create"
    /\ Exists(req[r].em) /\ req[r].actor \in users
    /\ row' = [row EXCEPT ![req[r].em] = Overwrite(@, req[r].to)]
    /\ log' = [log EXCEPT ![req[r].em] = Append(@, EventOf(r))]
    /\ Goto(r, AfterCommit(req[r].op))
    /\ UNCHANGED <<users, devices, guards, emitted, audits, crashes, everGuards>>

\* The incident is gone (404) or its actor is (foreign key of the event, 500):
\* the transaction is rolled back.
UpdateFails(r) ==
    /\ At(r, "commit") /\ req[r].op # "create"
    /\ ~(Exists(req[r].em) /\ req[r].actor \in users)
    /\ Answer(r)
    /\ UNCHANGED <<tables, emitted, audits, crashes, everGuards>>

-----------------------------------------------------------------------------
(* Deliveries: all best effort, all after the commit *)

MessageOf(r) == <<req[r].em, req[r].to>>
Emit(channel, m) == emitted' = [emitted EXCEPT ![channel][m] = @ + 1]

\* The owner's channel; the service names no other user.
EmitUser(r) ==
    /\ At(r, "emitUser")
    /\ Emit("owner", MessageOf(r))
    /\ Goto(r, "emitAdmin")
    /\ UNCHANGED <<tables, audits, crashes, everGuards>>

EmitAdmin(r) ==
    /\ At(r, "emitAdmin")
    /\ Emit("admins", MessageOf(r))
    /\ Goto(r, AfterEmit(req[r].op))
    /\ UNCHANGED <<tables, audits, crashes, everGuards>>

EverybodyInvited(owner) == Users

\* Owner plus accepted guardians at this moment; the owner alone if the
\* lookup fails.
Audience(owner) == {owner} \cup {u \in Users : <<owner, u>> \in guards}

FindAudience(r) ==
    /\ At(r, "audience")
    /\ \E aud \in {{row[req[r].em].owner}, Audience(row[req[r].em].owner)} :
         req' = [req EXCEPT ![r].pc = "send", ![r].aud = aud \cap Users]
    /\ UNCHANGED <<tables, emitted, audits, crashes, everGuards>>

\* The provider takes the message for the audience or fails, which is logged.
SendPush(r) ==
    /\ At(r, "send")
    /\ AfterSend(r)
    /\ UNCHANGED <<tables, emitted, audits, crashes, everGuards>>

\* Best effort too: without its actor the row cannot be inserted.
Audit(r) ==
    /\ At(r, "audit")
    /\ audits' = IF req[r].actor \in users THEN audits \cup {MessageOf(r)} ELSE audits
    /\ Answer(r)
    /\ UNCHANGED <<tables, emitted, crashes, everGuards>>

-----------------------------------------------------------------------------
(* The other components, and the machine *)

GuardianAccepted(p, g) ==
    /\ {p, g} \subseteq users /\ p # g
    /\ <<p, g>> \notin guards
    /\ guards' = guards \cup {<<p, g>>}
    /\ everGuards' = everGuards \cup {<<p, g>>}
    /\ UNCHANGED <<users, devices, row, log, req, emitted, audits, crashes>>

GuardianRemoved(p, g) ==
    /\ <<p, g>> \in guards
    /\ guards' = guards \ {<<p, g>>}
    /\ UNCHANGED <<users, devices, row, log, req, emitted, audits, crashes, everGuards>>

DeviceDeleted(u) ==
    /\ u \in devices
    /\ devices' = devices \ {u}
    /\ UNCHANGED <<users, guards, row, log, req, emitted, audits, crashes, everGuards>>

\* ON DELETE SET NULL on the events' actor.
Anonymous(events, u) ==
    [i \in DOMAIN events |->
        IF events[i].actor = u THEN [events[i] EXCEPT !.actor = NoOne] ELSE events[i]]

\* DELETE FROM users: the account's incidents (with their events), devices and
\* guardianships go with it; its events on other incidents lose their actor.
DeleteUser(u) ==
    /\ u \in users
    /\ users' = users \ {u}
    /\ devices' = devices \ {u}
    /\ guards' = {p \in guards : u \notin {p[1], p[2]}}
    /\ row' = [e \in Emergencies |->
         IF Exists(e) /\ row[e].owner = u THEN [row[e] EXCEPT !.status = "gone"]
         ELSE row[e]]
    /\ log' = [e \in Emergencies |->
         IF row[e].owner = u THEN <<>>
         ELSE Anonymous(log[e], u)]
    /\ UNCHANGED <<req, emitted, audits, crashes, everGuards>>

\* The process restarts: handlers and background tasks in flight are lost.
Crash ==
    /\ crashes < MaxCrashes
    /\ crashes' = crashes + 1
    /\ req' = [r \in Requests |-> Idle]
    /\ UNCHANGED <<tables, emitted, audits, everGuards>>

-----------------------------------------------------------------------------

Init ==
    /\ users = Users
    /\ devices \in SUBSET Protected
    /\ guards \in SUBSET {p \in Protected \X Users : p[1] # p[2]}
    /\ row = [e \in Emergencies |-> NoRow]
    /\ log = [e \in Emergencies |-> <<>>]
    /\ req = [r \in Requests |-> Idle]
    /\ emitted = [c \in Channels |-> [m \in Message |-> 0]]
    /\ audits = {}
    /\ crashes = 0
    /\ everGuards = guards

\* The steps a handler takes once it has been called.
Step(r) ==
    \/ Begin(r) \/ CommitCreate(r) \/ CreateFails(r)
    \/ Read(r) \/ Check(r) \/ CommitUpdate(r) \/ UpdateFails(r)
    \/ EmitUser(r) \/ EmitAdmin(r)
    \/ FindAudience(r) \/ SendPush(r) \/ Audit(r)

Next ==
    \/ \E r \in Requests : StartCreate(r) \/ StartUpdate(r) \/ Step(r)
    \/ \E p \in Protected, g \in Users : GuardianAccepted(p, g) \/ GuardianRemoved(p, g)
    \/ \E u \in Users : DeviceDeleted(u) \/ DeleteUser(u)
    \/ Crash

Spec == Init /\ [][Next]_vars

\* The event loop resumes a coroutine whose await is over.
FairSpec == Spec /\ \A r \in Requests : WF_vars(Step(r))
-----------------------------------------------------------------------------
(* Properties *)

Trail(e) == [i \in DOMAIN log[e] |-> log[e][i].to]
StatusOf == [e \in Emergencies |-> row[e].status]
TrailOf == [e \in Emergencies |-> Trail(e)]
Contract == INSTANCE EmergencyContract WITH status <- StatusOf, trail <- TrailOf

\* Every table row, event, handler and delivery has the shape the code gives it.
TypeOK ==
    /\ users \subseteq Users /\ devices \subseteq Users
    /\ guards \subseteq Users \X Users /\ everGuards \subseteq Users \X Users
    /\ row \in [Emergencies -> Row]
    /\ log \in [Emergencies -> Seq(Event)]
    /\ req \in [Requests -> {Idle} \cup Call]
    /\ emitted \in [Channels -> [Message -> Nat]]
    /\ audits \subseteq Message
    /\ crashes \in Nat

\* "Status change and its audit event commit together": whatever requests
\* overlap, fail or die, the last event of an incident is its status, and an
\* incident without a row has no event.
LogEndsAtStatus ==
    \A e \in Emergencies :
        IF Exists(e)
        THEN log[e] # <<>> /\ log[e][Len(log[e])].to = row[e].status
        ELSE log[e] = <<>>

\* The history starts with the owner's creation, and every later event is a
\* transition of the table, even when it overwrote a status it had not read.
EventsAreAllowedMoves ==
    \A e \in Emergencies : \A i \in DOMAIN log[e] :
        IF i = 1 THEN log[e][i].from = "none" /\ log[e][i].to = "active"
        ELSE log[e][i].to \in Contract!Allowed(log[e][i].from)

\* Only the owner, an admin, or somebody who was once an accepted guardian of
\* the owner ever moved an incident.
ActorsWereEntitled ==
    \A e \in Emergencies : \A i \in DOMAIN log[e] :
        \/ log[e][i].actor \in Admins \cup {NoOne, row[e].owner}
        \/ <<row[e].owner, log[e][i].actor>> \in everGuards

\* An admin audit row tells the truth: the incident did get that status.
AuditsAreTrue ==
    \A m \in audits : Exists(m[1]) => \E i \in DOMAIN log[m[1]] : log[m[1]][i].to = m[2]

\* Without a restart, once no handler runs each committed event of an incident
\* was emitted exactly once to the owner's channel and once to the admins'.
AnnouncedOnce ==
    (crashes = 0 /\ \A r \in Requests : ~Live(r)) =>
        \A m \in Message, c \in Channels : Exists(m[1]) =>
            emitted[c][m] = Cardinality({i \in DOMAIN log[m[1]] : log[m[1]][i].to = m[2]})

\* A push about an incident goes to nobody outside the owner and the people
\* the owner had, at some time, as accepted guardians.
PushStaysInCircle ==
    \A r \in Requests : At(r, "send") =>
        \A u \in req[r].aud :
            \/ u = row[req[r].em].owner
            \/ <<row[req[r].em].owner, u>> \in everGuards

\* No overlap of requests brings a closed or acknowledged incident back to
\* active.
NeverReactivated ==
    [][\A e \in Emergencies :
        Exists(e) /\ row[e].status # "active" => row'[e].status # "active"]_vars

\* Every incident's record is one of the moves the weak contract lists.
KeepsWeakContract == Contract!WeakSpec

\* One request at a time, the record obeys the transition table.
KeepsContract == Contract!Spec

\* One request at a time, each event starts where the previous one ended, and
\* its transaction starts after the previous one's, so that the timeline's
\* ORDER BY created_at shows the events in the order they were committed.
TimelineChains ==
    \A e \in Emergencies : \A i, j \in DOMAIN log[e] :
        /\ j = i + 1 => log[e][j].from = log[e][i].to
        /\ log[e][j].at = j - 1

\* "terminal state cannot change" (tests/test_emergencies.py:40).
TerminalIsFinal ==
    [][\A e \in Emergencies :
        row[e].status \in Closed => row'[e].status \in {row[e].status, "gone"}]_vars

\* Unless the server restarts, a stored SOS is emitted to its owner's channel
\* and to the admins' live monitor.
SosIsAnnounced ==
    \A e \in Emergencies :
        Exists(e) ~> \/ crashes > 0
                     \/ \A c \in Channels : emitted[c][<<e, "active">>] = 1
=============================================================================
