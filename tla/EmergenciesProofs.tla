-------------------------- MODULE EmergenciesProofs --------------------------
(***************************************************************************)
(* Proofs about Emergencies, for any sets of accounts, incidents and       *)
(* request slots and any bounds.                                           *)
(***************************************************************************)
EXTENDS Emergencies, SequenceTheorems, FiniteSetTheorems, TLAPS

LEMMA TypeInit == Init => TypeOK
BY ConstantsAssumption DEF Init, TypeOK, Row, NoRow, Statuses, Idle, Message, Channels

LEMMA LiveIsCall ==
    ASSUME TypeOK, NEW r \in Requests, Live(r)
    PROVE  req[r] \in Call
BY DEF TypeOK, Live, Idle

\* The effect of the two ways a handler moves on its slot.
LEMMA GotoType ==
    ASSUME TypeOK, NEW r \in Requests, Live(r), NEW pc \in Pcs, Goto(r, pc)
    PROVE  req' \in [Requests -> {Idle} \cup Call]
<1>1. req[r] \in Call
  BY LiveIsCall
<1>2. [req[r] EXCEPT !.pc = pc] \in Call
  BY <1>1 DEF Call
<1> QED BY <1>2 DEF TypeOK, Goto

LEMMA AnswerType ==
    ASSUME TypeOK, NEW r \in Requests, Answer(r)
    PROVE  req' \in [Requests -> {Idle} \cup Call]
BY DEF TypeOK, Answer

LEMMA EventType ==
    ASSUME NEW r \in Requests, req[r] \in Call
    PROVE  EventOf(r) \in Event
BY DEF EventOf, Call, Event

\* Forgetting an actor keeps the events and what they say of the statuses.
LEMMA AnonymousType ==
    ASSUME NEW events \in Seq(Event), NEW u
    PROVE  /\ Anonymous(events, u) \in Seq(Event)
           /\ Len(Anonymous(events, u)) = Len(events)
           /\ \A i \in 1..Len(events) :
                Anonymous(events, u)[i].to = events[i].to
                /\ Anonymous(events, u)[i].from = events[i].from
<1>1. DOMAIN events = 1..Len(events) /\ Len(events) \in Nat
  OBVIOUS
<1>2. \A i \in 1..Len(events) : events[i] \in Event
  OBVIOUS
<1>3. \A ev \in Event : LET new == [ev EXCEPT !.actor = NoOne] IN
        new \in Event /\ new.to = ev.to /\ new.from = ev.from
  BY DEF Event
<1> QED BY <1>1, <1>2, <1>3 DEF Anonymous

LEMMA TypeStep == TypeOK /\ [Next]_vars => TypeOK'
<1> SUFFICES ASSUME TypeOK, [Next]_vars PROVE TypeOK'
  OBVIOUS
<1>1. ASSUME NEW r \in Requests, StartCreate(r) PROVE TypeOK'
  <2>1. PICK u \in users \cap Protected, e \in Emergencies, d \in BOOLEAN :
          req' = [req EXCEPT ![r] =
             [pc |-> "begin", op |-> "create", actor |-> u, em |-> e,
              to |-> "active", seen |-> "none", dev |-> d, at |-> 0, aud |-> {}]]
    BY <1>1 DEF StartCreate
  <2>2. [pc |-> "begin", op |-> "create", actor |-> u, em |-> e, to |-> "active",
         seen |-> "none", dev |-> d, at |-> 0, aud |-> {}] \in Call
    BY DEF TypeOK, Call, Pcs, Ops, Statuses
  <2>3. req' \in [Requests -> {Idle} \cup Call]
    BY <2>1, <2>2 DEF TypeOK
  <2> QED BY <1>1, <2>3 DEF StartCreate, tables, TypeOK
<1>2. ASSUME NEW r \in Requests, StartUpdate(r) PROVE TypeOK'
  <2>1. PICK u \in users, e \in Emergencies, op \in {"update", "admin"}, to \in Statuses :
          req' = [req EXCEPT ![r] =
             [pc |-> "read", op |-> op, actor |-> u, em |-> e, to |-> to,
              seen |-> "none", dev |-> FALSE, at |-> 0, aud |-> {}]]
    BY <1>2 DEF StartUpdate, Requested, AdminTargets, Statuses
  <2>2. [pc |-> "read", op |-> op, actor |-> u, em |-> e, to |-> to,
         seen |-> "none", dev |-> FALSE, at |-> 0, aud |-> {}] \in Call
    BY DEF TypeOK, Call, Pcs, Ops, Statuses
  <2>3. req' \in [Requests -> {Idle} \cup Call]
    BY <2>1, <2>2 DEF TypeOK
  <2> QED BY <1>2, <2>3 DEF StartUpdate, tables, TypeOK
<1>3. ASSUME NEW r \in Requests, Step(r) PROVE TypeOK'
  <2>1. CASE Begin(r)
    <3>1. req[r] \in Call
      BY <2>1, LiveIsCall DEF Begin, At, Live
    <3>2. Len(log[req[r].em]) \in Nat
      BY <3>1 DEF TypeOK, Call
    <3>3. req' \in [Requests -> {Idle} \cup Call]
      BY <2>1, <3>1, <3>2 DEF Begin, TypeOK, Call, Pcs
    <3> QED BY <2>1, <3>3 DEF Begin, tables, TypeOK
  <2>2. CASE CommitCreate(r)
    <3>1. req[r] \in Call /\ Live(r)
      BY <2>2, LiveIsCall DEF CommitCreate, At, Live
    <3>2. row' \in [Emergencies -> Row]
      BY <2>2, <3>1 DEF CommitCreate, TypeOK, Call, Row, Statuses
    <3>3. log' \in [Emergencies -> Seq(Event)]
      BY <2>2, <3>1, EventType DEF CommitCreate, TypeOK, Call
    <3>4. req' \in [Requests -> {Idle} \cup Call]
      BY <2>2, <3>1, GotoType DEF CommitCreate, AfterCommit, Pcs
    <3> QED BY <2>2, <3>2, <3>3, <3>4 DEF CommitCreate, TypeOK
  <2>3. CASE CreateFails(r)
    BY <2>3, AnswerType DEF CreateFails, tables, TypeOK
  <2>4. CASE Read(r)
    <3>1. req[r] \in Call
      BY <2>4, LiveIsCall DEF Read, At, Live
    <3>2. CASE Exists(req[r].em)
      <4>1. req' = [req EXCEPT ![r].pc = "check", ![r].seen = row[req[r].em].status]
        BY <2>4, <3>2 DEF Read
      <4>2. req' \in [Requests -> {Idle} \cup Call]
        BY <4>1, <3>1, <3>2 DEF TypeOK, Call, Pcs, Exists
      <4> QED BY <2>4, <4>2 DEF Read, tables, TypeOK
    <3>3. CASE ~Exists(req[r].em)
      BY <2>4, <3>3, AnswerType DEF Read, tables, TypeOK
    <3> QED BY <3>2, <3>3
  <2>5. CASE Check(r)
    <3>1. req[r] \in Call /\ Live(r)
      BY <2>5, LiveIsCall DEF Check, At, Live
    <3>2. Decision(req[r]) \in {"idle", "audit", "begin"}
      BY DEF Decision
    <3>3. req' \in [Requests -> {Idle} \cup Call]
      BY <2>5, <3>1, <3>2, GotoType, AnswerType DEF Check, Pcs
    <3> QED BY <2>5, <3>3 DEF Check, tables, TypeOK
  <2>6. CASE CommitUpdate(r)
    <3>1. req[r] \in Call /\ Live(r)
      BY <2>6, LiveIsCall DEF CommitUpdate, At, Live
    <3>2. row[req[r].em] \in Row
      BY <3>1 DEF TypeOK, Call
    <3>3. Overwrite(row[req[r].em], req[r].to) \in Row
      BY <3>1, <3>2 DEF Overwrite, Row, Call
    <3>4. row' \in [Emergencies -> Row]
      BY <2>6, <3>1, <3>3 DEF CommitUpdate, TypeOK, Call
    <3>5. log' \in [Emergencies -> Seq(Event)]
      BY <2>6, <3>1, EventType DEF CommitUpdate, TypeOK, Call
    <3>6. req' \in [Requests -> {Idle} \cup Call]
      BY <2>6, <3>1, GotoType DEF CommitUpdate, AfterCommit, Pcs
    <3> QED BY <2>6, <3>4, <3>5, <3>6 DEF CommitUpdate, TypeOK
  <2>7. CASE UpdateFails(r)
    BY <2>7, AnswerType DEF UpdateFails, tables, TypeOK
  <2>8. CASE EmitUser(r)
    <3>1. req[r] \in Call /\ Live(r)
      BY <2>8, LiveIsCall DEF EmitUser, At, Live
    <3>2. MessageOf(r) \in Message
      BY <3>1 DEF MessageOf, Message, Call
    <3>3. emitted' \in [Channels -> [Message -> Nat]]
      BY <2>8, <3>2 DEF EmitUser, Emit, TypeOK, Channels
    <3>4. req' \in [Requests -> {Idle} \cup Call]
      BY <2>8, <3>1, GotoType DEF EmitUser, Pcs
    <3> QED BY <2>8, <3>3, <3>4 DEF EmitUser, tables, TypeOK
  <2>9. CASE EmitAdmin(r)
    <3>1. req[r] \in Call /\ Live(r)
      BY <2>9, LiveIsCall DEF EmitAdmin, At, Live
    <3>2. MessageOf(r) \in Message
      BY <3>1 DEF MessageOf, Message, Call
    <3>3. emitted' \in [Channels -> [Message -> Nat]]
      BY <2>9, <3>2 DEF EmitAdmin, Emit, TypeOK, Channels
    <3>4. req' \in [Requests -> {Idle} \cup Call]
      BY <2>9, <3>1, GotoType DEF EmitAdmin, AfterEmit, Pcs
    <3> QED BY <2>9, <3>3, <3>4 DEF EmitAdmin, tables, TypeOK
  <2>10. CASE FindAudience(r)
    <3>1. req[r] \in Call
      BY <2>10, LiveIsCall DEF FindAudience, At, Live
    <3>2. PICK aud : req' = [req EXCEPT ![r].pc = "send", ![r].aud = aud \cap Users]
      BY <2>10 DEF FindAudience
    <3>3. req' \in [Requests -> {Idle} \cup Call]
      BY <3>1, <3>2 DEF TypeOK, Call, Pcs
    <3> QED BY <2>10, <3>3 DEF FindAudience, tables, TypeOK
  <2>11. CASE SendPush(r)
    <3>1. Live(r)
      BY <2>11 DEF SendPush, At, Live
    <3>2. req' \in [Requests -> {Idle} \cup Call]
      BY <2>11, <3>1, GotoType, AnswerType DEF SendPush, AfterSend, Pcs
    <3> QED BY <2>11, <3>2 DEF SendPush, tables, TypeOK
  <2>12. CASE Audit(r)
    <3>1. req[r] \in Call
      BY <2>12, LiveIsCall DEF Audit, At, Live
    <3>2. audits' \subseteq Message
      BY <2>12, <3>1 DEF Audit, TypeOK, MessageOf, Message, Call
    <3> QED BY <2>12, <3>2, AnswerType DEF Audit, tables, TypeOK
  <2> QED BY <1>3, <2>1, <2>2, <2>3, <2>4, <2>5, <2>6, <2>7, <2>8, <2>9, <2>10, <2>11, <2>12 DEF Step
<1>4. ASSUME NEW p \in Protected, NEW g \in Users, GuardianAccepted(p, g) PROVE TypeOK'
  BY <1>4, ConstantsAssumption DEF GuardianAccepted, TypeOK
<1>5. ASSUME NEW p \in Protected, NEW g \in Users, GuardianRemoved(p, g) PROVE TypeOK'
  BY <1>5 DEF GuardianRemoved, TypeOK
<1>6. ASSUME NEW u \in Users, DeviceDeleted(u) PROVE TypeOK'
  BY <1>6 DEF DeviceDeleted, TypeOK
<1>7. ASSUME NEW u \in Users, DeleteUser(u) PROVE TypeOK'
  <2>1. row' \in [Emergencies -> Row]
    BY <1>7 DEF DeleteUser, TypeOK, Row
  <2>2. ASSUME NEW e \in Emergencies PROVE Anonymous(log[e], u) \in Seq(Event)
    BY AnonymousType DEF TypeOK
  <2>3. log' \in [Emergencies -> Seq(Event)]
    BY <1>7, <2>2 DEF DeleteUser
  <2> QED BY <1>7, <2>1, <2>3 DEF DeleteUser, TypeOK
<1>8. ASSUME Crash PROVE TypeOK'
  BY <1>8 DEF Crash, tables, TypeOK
<1>9. CASE UNCHANGED vars
  BY <1>9 DEF vars, tables, TypeOK
<1> QED BY <1>1, <1>2, <1>3, <1>4, <1>5, <1>6, <1>7, <1>8, <1>9 DEF Next

\* The state of the emergencies component always has the shape of its tables.
THEOREM TypeCorrect == Spec => []TypeOK
BY TypeInit, TypeStep, PTL DEF Spec

-----------------------------------------------------------------------------
(* The inductive invariant.  What the events say follows from what the       *)
(* handlers carry between their awaits: a creation carries "none" to         *)
(* "active" for an incident nobody else knows, and an update that is past    *)
(* its check carries a move of the table, however old the status it read.    *)

CallDecided(c) ==
    c.pc # "idle" =>
        /\ c.op = "create" => /\ c.to = "active" /\ c.seen = "none"
                              /\ c.pc \notin {"read", "check"}
        /\ c.op # "create" /\ c.pc \in {"begin", "commit"} => c.to \in Allowed(c.seen)

CallsDecided == \A r \in Requests : CallDecided(req[r])

Creating(r) == Live(r) /\ req[r].op = "create" /\ req[r].pc \in {"begin", "commit"}

FreshIncidents ==
    \A r \in Requests : Creating(r) =>
        /\ row[req[r].em].status = "none"
        /\ \A q \in Requests \ {r} : Live(q) => req[q].em # req[r].em

IInv ==
    /\ TypeOK
    /\ LogEndsAtStatus
    /\ EventsAreAllowedMoves
    /\ CallsDecided
    /\ FreshIncidents

LEMMA SameTable == \A from : Allowed(from) = Contract!Allowed(from)
BY DEF Allowed, Contract!Allowed

LEMMA InvInit == Init => IInv
<1> SUFFICES ASSUME Init PROVE IInv
  OBVIOUS
<1>1. \A r \in Requests : req[r].pc = "idle"
  BY DEF Init, Idle
<1> QED BY <1>1, TypeInit DEF Init, IInv, LogEndsAtStatus, EventsAreAllowedMoves,
        CallsDecided, CallDecided, FreshIncidents, Creating, Live, Exists, NoRow, Statuses

\* A handler past its commit, or done, carries nothing that must be kept.
LEMMA MoveOn ==
    ASSUME TypeOK, CallsDecided, NEW r \in Requests, Live(r),
           \/ Answer(r)
           \/ \E pc \in Pcs \ {"begin", "commit", "read", "check"} : Goto(r, pc)
    PROVE  CallsDecided'
<1>1. \A q \in Requests \ {r} : req'[q] = req[q]
  BY DEF Answer, Goto, TypeOK
<1>2. req[r] \in Call
  BY LiveIsCall
<1>3. CASE Answer(r)
  BY <1>1, <1>3 DEF Answer, TypeOK, CallsDecided, CallDecided, Idle
<1>4. ASSUME NEW pc \in Pcs \ {"begin", "commit", "read", "check"}, Goto(r, pc)
      PROVE  CallsDecided'
  <2>1. req'[r] = [req[r] EXCEPT !.pc = pc]
    BY <1>4 DEF Goto, TypeOK
  <2>2. CallDecided(req'[r])
    BY <1>2, <2>1, <1>4 DEF CallsDecided, CallDecided, Live, Call
  <2> QED BY <1>1, <2>2 DEF CallsDecided
<1> QED BY <1>3, <1>4

LEMMA CallsStep == TypeOK /\ CallsDecided /\ [Next]_vars => CallsDecided'
<1> SUFFICES ASSUME TypeOK, CallsDecided, [Next]_vars PROVE CallsDecided'
  OBVIOUS
<1>1. ASSUME NEW r \in Requests, StartCreate(r) PROVE CallsDecided'
  BY <1>1 DEF StartCreate, TypeOK, CallsDecided, CallDecided
<1>2. ASSUME NEW r \in Requests, StartUpdate(r) PROVE CallsDecided'
  BY <1>2 DEF StartUpdate, TypeOK, CallsDecided, CallDecided
<1>3. ASSUME NEW r \in Requests, Step(r) PROVE CallsDecided'
  <2>0. Live(r)
    BY <1>3 DEF Step, Begin, CommitCreate, CreateFails, Read, Check, CommitUpdate,
       UpdateFails, EmitUser, EmitAdmin, FindAudience, SendPush, Audit, At, Live
  <2>1. req[r] \in Call
    BY <2>0, LiveIsCall
  <2>2. CASE Begin(r)
    <3>1. req'[r] = [req[r] EXCEPT !.pc = "commit", !.at = Len(log[req[r].em])]
      BY <2>2 DEF Begin, TypeOK
    <3>2. /\ req'[r].pc = "commit" /\ req'[r].op = req[r].op
          /\ req'[r].to = req[r].to /\ req'[r].seen = req[r].seen
      BY <2>1, <3>1 DEF Call
    <3>3. CallDecided(req'[r])
      BY <2>2, <3>2 DEF Begin, At, CallsDecided, CallDecided
    <3> QED BY <2>2, <3>3 DEF Begin, TypeOK, CallsDecided
  <2>3. CASE Read(r)
    <3>1. CASE Exists(req[r].em)
      <4>1. req'[r] = [req[r] EXCEPT !.pc = "check", !.seen = row[req[r].em].status]
        BY <2>3, <3>1 DEF Read, TypeOK
      <4>2. CallDecided(req'[r])
        BY <2>1, <2>3, <4>1 DEF Read, At, CallsDecided, CallDecided, Call
      <4> QED BY <2>3, <3>1, <4>2 DEF Read, TypeOK, CallsDecided
    <3>2. CASE ~Exists(req[r].em)
      BY <2>0, <2>3, <3>2, MoveOn DEF Read
    <3> QED BY <3>1, <3>2
  <2>4. CASE Check(r)
    <3>1. CASE Decision(req[r]) = "idle"
      BY <2>0, <2>4, <3>1, MoveOn DEF Check
    <3>2. CASE Decision(req[r]) = "audit"
      <4>1. Goto(r, "audit")
        BY <2>4, <3>2 DEF Check
      <4> QED BY <2>0, <4>1, MoveOn DEF Pcs
    <3>3. CASE Decision(req[r]) = "begin"
      <4>1. req[r].to \in Allowed(req[r].seen)
        BY <3>3 DEF Decision
      <4>2. req' = [req EXCEPT ![r].pc = "begin"]
        BY <2>4, <3>3 DEF Check, Goto
      <4>3. req'[r] = [req[r] EXCEPT !.pc = "begin"]
        BY <4>2 DEF TypeOK
      <4>4. CallDecided(req'[r])
        BY <2>1, <2>4, <4>1, <4>3 DEF Check, At, CallsDecided, CallDecided, Call
      <4> QED BY <4>2, <4>4 DEF TypeOK, CallsDecided
    <3> QED BY <3>1, <3>2, <3>3 DEF Decision
  <2>5. CASE CommitCreate(r) \/ CommitUpdate(r)
    BY <2>0, <2>5, MoveOn DEF CommitCreate, CommitUpdate, AfterCommit, Pcs
  <2>6. CASE CreateFails(r) \/ UpdateFails(r) \/ Audit(r)
    BY <2>0, <2>6, MoveOn DEF CreateFails, UpdateFails, Audit
  <2>7. CASE EmitUser(r) \/ EmitAdmin(r) \/ SendPush(r)
    BY <2>0, <2>7, MoveOn DEF EmitUser, EmitAdmin, SendPush, AfterSend, AfterEmit, Pcs
  <2>8. CASE FindAudience(r)
    <3>1. PICK aud : req' = [req EXCEPT ![r].pc = "send", ![r].aud = aud \cap Users]
      BY <2>8 DEF FindAudience
    <3>2. req'[r] = [req[r] EXCEPT !.pc = "send", !.aud = aud \cap Users]
      BY <3>1 DEF TypeOK
    <3>3. CallDecided(req'[r])
      BY <2>0, <2>1, <3>2 DEF CallsDecided, CallDecided, Call, Live
    <3> QED BY <3>1, <3>3 DEF TypeOK, CallsDecided
  <2> QED BY <1>3, <2>2, <2>3, <2>4, <2>5, <2>6, <2>7, <2>8 DEF Step
<1>4. CASE UNCHANGED req
  BY <1>4 DEF CallsDecided
<1>5. ASSUME Crash PROVE CallsDecided'
  BY <1>5 DEF Crash, CallsDecided, CallDecided, Idle
<1> QED BY <1>1, <1>2, <1>3, <1>4, <1>5 DEF Next, vars, GuardianAccepted,
        GuardianRemoved, DeviceDeleted, DeleteUser

\* What a step of handler r does to the slots: the others are untouched, and r
\* is answered or keeps its operation and its incident.
LEMMA StepEffect ==
    ASSUME TypeOK, CallsDecided, NEW r \in Requests, Step(r)
    PROVE  /\ Live(r)
           /\ \A q \in Requests \ {r} : req'[q] = req[q]
           /\ \/ req'[r] = Idle
              \/ /\ req'[r].op = req[r].op /\ req'[r].em = req[r].em
                 /\ Creating(r)' => Creating(r)
<1>1. Live(r)
  BY DEF Step, Begin, CommitCreate, CreateFails, Read, Check, CommitUpdate,
     UpdateFails, EmitUser, EmitAdmin, FindAudience, SendPush, Audit, At, Live
<1>2. req[r] \in Call
  BY <1>1, LiveIsCall
<1>3. ASSUME NEW pc, Goto(r, pc)
      PROVE  /\ \A q \in Requests \ {r} : req'[q] = req[q]
             /\ req'[r].op = req[r].op /\ req'[r].em = req[r].em /\ req'[r].pc = pc
  BY <1>2, <1>3 DEF Goto, TypeOK, Call
<1>4. ASSUME Answer(r)
      PROVE  /\ \A q \in Requests \ {r} : req'[q] = req[q]
             /\ req'[r] = Idle
  BY <1>4 DEF Answer, TypeOK
<1>5. CASE Begin(r)
  <2>1. req'[r] = [req[r] EXCEPT !.pc = "commit", !.at = Len(log[req[r].em])]
    BY <1>5 DEF Begin, TypeOK
  <2>2. req'[r].op = req[r].op /\ req'[r].em = req[r].em
    BY <1>2, <2>1 DEF Call
  <2> QED BY <1>1, <1>5, <2>2 DEF Begin, At, Creating, Live, TypeOK
<1>6. CASE Read(r)
  <2>1. CASE Exists(req[r].em)
    <3>1. req'[r] = [req[r] EXCEPT !.pc = "check", !.seen = row[req[r].em].status]
      BY <1>6, <2>1 DEF Read, TypeOK
    <3>2. req'[r].op = req[r].op /\ req'[r].em = req[r].em /\ req'[r].pc = "check"
      BY <1>2, <3>1 DEF Call
    <3> QED BY <1>1, <1>6, <2>1, <3>2 DEF Read, Creating, TypeOK
  <2>2. CASE ~Exists(req[r].em)
    BY <1>1, <1>4, <1>6, <2>2 DEF Read
  <2> QED BY <2>1, <2>2
<1>7. CASE Check(r)
  <2>1. req[r].op # "create"
    BY <1>7 DEF Check, At, CallsDecided, CallDecided
  <2>2. Answer(r) \/ Goto(r, Decision(req[r]))
    BY <1>7 DEF Check
  <2>3. CASE Answer(r)
    BY <1>1, <1>4, <2>3
  <2>4. CASE Goto(r, Decision(req[r]))
    <3>1. /\ \A q \in Requests \ {r} : req'[q] = req[q]
          /\ req'[r].op = req[r].op /\ req'[r].em = req[r].em
      BY <1>3, <2>4
    <3>2. ~ Creating(r)'
      BY <2>1, <3>1 DEF Creating
    <3> QED BY <1>1, <3>1, <3>2
  <2> QED BY <2>2, <2>3, <2>4
<1>8. CASE FindAudience(r)
  <2>1. PICK aud : req' = [req EXCEPT ![r].pc = "send", ![r].aud = aud \cap Users]
    BY <1>8 DEF FindAudience
  <2>2. req'[r] = [req[r] EXCEPT !.pc = "send", !.aud = aud \cap Users]
    BY <2>1 DEF TypeOK
  <2>3. req'[r].op = req[r].op /\ req'[r].em = req[r].em /\ req'[r].pc = "send"
    BY <1>2, <2>2 DEF Call
  <2> QED BY <1>1, <2>1, <2>3 DEF Creating, TypeOK
<1>9. CASE CreateFails(r) \/ UpdateFails(r) \/ Audit(r)
  BY <1>1, <1>4, <1>9 DEF CreateFails, UpdateFails, Audit
<1>10. CASE CommitCreate(r) \/ CommitUpdate(r) \/ EmitUser(r) \/ EmitAdmin(r) \/ SendPush(r)
  <2>1. \/ Answer(r)
        \/ \E pc \in {"audience", "emitUser", "emitAdmin", "audit"} : Goto(r, pc)
    BY <1>10 DEF CommitCreate, CommitUpdate, EmitUser, EmitAdmin, SendPush,
       AfterCommit, AfterEmit, AfterSend
  <2>2. CASE Answer(r)
    BY <1>1, <1>4, <2>2
  <2>3. ASSUME NEW pc \in {"audience", "emitUser", "emitAdmin", "audit"}, Goto(r, pc)
        PROVE  /\ \A q \in Requests \ {r} : req'[q] = req[q]
               /\ req'[r].op = req[r].op /\ req'[r].em = req[r].em
               /\ ~ Creating(r)'
    BY <1>3, <2>3 DEF Creating
  <2> QED BY <1>1, <2>1, <2>2, <2>3
<1> QED BY <1>5, <1>6, <1>7, <1>8, <1>9, <1>10 DEF Step

LEMMA FreshStep ==
    TypeOK /\ CallsDecided /\ FreshIncidents /\ [Next]_vars => FreshIncidents'
<1> SUFFICES ASSUME TypeOK, CallsDecided, FreshIncidents, [Next]_vars PROVE FreshIncidents'
  OBVIOUS
<1>1. ASSUME NEW r \in Requests, StartCreate(r) PROVE FreshIncidents'
  <2>1. PICK e \in Emergencies :
          /\ row[e].status = "none"
          /\ \A q \in Requests : Live(q) => req[q].em # e
          /\ req'[r].em = e
          /\ \A q \in Requests \ {r} : req'[q] = req[q]
    BY <1>1 DEF StartCreate, TypeOK
  <2> QED BY <1>1, <2>1 DEF StartCreate, tables, FreshIncidents, Creating, Live
<1>2. ASSUME NEW r \in Requests, StartUpdate(r) PROVE FreshIncidents'
  <2>1. PICK e \in Emergencies :
          /\ row[e].status # "none"
          /\ req'[r].em = e /\ req'[r].op # "create"
          /\ \A q \in Requests \ {r} : req'[q] = req[q]
    BY <1>2 DEF StartUpdate, TypeOK
  <2> QED BY <1>2, <2>1 DEF StartUpdate, tables, FreshIncidents, Creating, Live
<1>3. ASSUME NEW r \in Requests, Step(r) PROVE FreshIncidents'
  <2> SUFFICES ASSUME NEW x \in Requests, Creating(x)'
               PROVE  /\ row'[req'[x].em].status = "none"
                      /\ \A q \in Requests \ {x} : Live(q)' => req'[q].em # req'[x].em
    BY DEF FreshIncidents
  <2>1. Creating(x) /\ req'[x].em = req[x].em
    BY <1>3, StepEffect DEF Creating, Live, Idle
  <2>2. \A q \in Requests \ {x} : Live(q)' => req'[q].em # req'[x].em
    BY <1>3, <2>1, StepEffect DEF FreshIncidents, Live, Idle
  <2>3. CASE UNCHANGED row
    BY <2>1, <2>2, <2>3 DEF FreshIncidents
  <2>4. CASE CommitCreate(r) \/ CommitUpdate(r)
    <3>1. x # r
      <4>1. PICK pc \in {"audience", "emitUser"} : Goto(r, pc)
        BY <2>4 DEF CommitCreate, CommitUpdate, AfterCommit
      <4>2. req[r] \in Call
        BY <1>3, StepEffect, LiveIsCall
      <4>3. req'[r].pc = pc
        BY <4>1, <4>2 DEF Goto, TypeOK, Call
      <4> QED BY <4>3 DEF Creating
    <3>2. req[x].em # req[r].em
      BY <1>3, <2>1, <3>1, StepEffect DEF FreshIncidents
    <3>3. row'[req[x].em] = row[req[x].em]
      <4>1. req[x] \in Call
        BY <2>1, LiveIsCall DEF Creating
      <4>2. req[x].em \in Emergencies
        BY <4>1 DEF Call
      <4> QED BY <2>4, <3>2, <4>2 DEF CommitCreate, CommitUpdate, TypeOK
    <3> QED BY <2>1, <2>2, <3>3 DEF FreshIncidents
  <2> QED BY <1>3, <2>3, <2>4 DEF Step, Begin, CreateFails, Read, Check, UpdateFails,
             EmitUser, EmitAdmin, FindAudience, SendPush, Audit, tables
<1>4. ASSUME NEW u \in Users, DeleteUser(u) PROVE FreshIncidents'
  <2>1. UNCHANGED req
    BY <1>4 DEF DeleteUser
  <2>2. \A r \in Requests : Creating(r) => req[r].em \in Emergencies
    BY LiveIsCall DEF Creating, Call
  <2>3. \A e \in Emergencies : row[e].status = "none" => row'[e].status = "none"
    BY <1>4 DEF DeleteUser, Exists, Statuses
  <2> QED BY <2>1, <2>2, <2>3 DEF FreshIncidents, Creating, Live
<1>5. ASSUME Crash PROVE FreshIncidents'
  BY <1>5 DEF Crash, FreshIncidents, Creating, Live, Idle
<1>6. CASE UNCHANGED <<row, req>>
  BY <1>6 DEF FreshIncidents, Creating, Live
<1> QED BY <1>1, <1>2, <1>3, <1>4, <1>5, <1>6 DEF Next, vars, tables, GuardianAccepted,
        GuardianRemoved, DeviceDeleted

\* The events after a step: the two properties of the log are preserved together.
LEMMA LogStep ==
    TypeOK /\ CallsDecided /\ FreshIncidents /\ LogEndsAtStatus /\ EventsAreAllowedMoves
      /\ [Next]_vars => LogEndsAtStatus' /\ EventsAreAllowedMoves'
<1> SUFFICES ASSUME TypeOK, CallsDecided, FreshIncidents, LogEndsAtStatus,
                    EventsAreAllowedMoves, [Next]_vars
             PROVE  LogEndsAtStatus' /\ EventsAreAllowedMoves'
  OBVIOUS
<1>1. ASSUME NEW r \in Requests, CommitCreate(r)
      PROVE  LogEndsAtStatus' /\ EventsAreAllowedMoves'
  <2> DEFINE e == req[r].em
  <2>1. Live(r) /\ Creating(r) /\ req[r] \in Call
    BY <1>1, LiveIsCall DEF CommitCreate, At, Live, Creating
  <2>2. e \in Emergencies /\ EventOf(r) \in Event
    BY <2>1, EventType DEF Call
  <2>3. log[e] = <<>>
    BY <2>1, <2>2 DEF FreshIncidents, LogEndsAtStatus, Exists, Statuses
  <2>4. EventOf(r).from = "none" /\ EventOf(r).to = "active"
    BY <2>1 DEF Creating, CallsDecided, CallDecided, EventOf, Live
  <2>5. log'[e] = <<EventOf(r)>> /\ row'[e].status = "active"
    BY <1>1, <2>2, <2>3 DEF CommitCreate, TypeOK
  <2>6. \A f \in Emergencies \ {e} : log'[f] = log[f] /\ row'[f] = row[f]
    BY <1>1 DEF CommitCreate, TypeOK
  <2>7. LogEndsAtStatus'
    <3>1. ASSUME NEW f \in Emergencies
          PROVE  IF Exists(f)' THEN log'[f] # <<>> /\ log'[f][Len(log'[f])].to = row'[f].status
                 ELSE log'[f] = <<>>
      BY <2>2, <2>4, <2>5, <2>6 DEF LogEndsAtStatus, Exists, Statuses
    <3> QED BY <3>1 DEF LogEndsAtStatus
  <2>8. EventsAreAllowedMoves'
    BY <2>2, <2>4, <2>5, <2>6 DEF EventsAreAllowedMoves
  <2> QED BY <2>7, <2>8
<1>2. ASSUME NEW r \in Requests, CommitUpdate(r)
      PROVE  LogEndsAtStatus' /\ EventsAreAllowedMoves'
  <2> DEFINE e == req[r].em
  <2>1. Live(r) /\ req[r] \in Call
    BY <1>2, LiveIsCall DEF CommitUpdate, At, Live
  <2>2. e \in Emergencies /\ EventOf(r) \in Event /\ req[r].to \in Statuses
    BY <2>1, EventType DEF Call
  <2>3. log[e] \in Seq(Event) /\ log[e] # <<>> /\ row[e] \in Row
    BY <1>2, <2>2 DEF CommitUpdate, LogEndsAtStatus, TypeOK
  <2>4. EventOf(r).to = req[r].to /\ EventOf(r).to \in Contract!Allowed(EventOf(r).from)
    BY <1>2, <2>1, SameTable DEF CommitUpdate, At, CallsDecided, CallDecided, EventOf
  <2>5. log'[e] = Append(log[e], EventOf(r)) /\ row'[e] = Overwrite(row[e], req[r].to)
    BY <1>2, <2>2 DEF CommitUpdate, TypeOK
  <2>6. row'[e].status = req[r].to
    BY <2>3, <2>5 DEF Overwrite, Row
  <2>7. \A f \in Emergencies \ {e} : log'[f] = log[f] /\ row'[f] = row[f]
    BY <1>2 DEF CommitUpdate, TypeOK
  <2>8. /\ Len(log'[e]) = Len(log[e]) + 1 /\ Len(log[e]) \in Nat \ {0}
        /\ DOMAIN log'[e] = 1..(Len(log[e]) + 1) /\ DOMAIN log[e] = 1..Len(log[e])
        /\ log'[e][Len(log[e]) + 1] = EventOf(r)
        /\ \A i \in 1..Len(log[e]) : log'[e][i] = log[e][i]
    BY <2>2, <2>3, <2>5
  <2>9. LogEndsAtStatus'
    BY <2>2, <2>4, <2>6, <2>7, <2>8 DEF LogEndsAtStatus, Exists
  <2>10. EventsAreAllowedMoves'
    <3> SUFFICES ASSUME NEW f \in Emergencies, NEW i \in DOMAIN log'[f]
                 PROVE  IF i = 1 THEN log'[f][i].from = "none" /\ log'[f][i].to = "active"
                        ELSE log'[f][i].to \in Contract!Allowed(log'[f][i].from)
      BY DEF EventsAreAllowedMoves
    <3>1. CASE f = e /\ i = Len(log[e]) + 1
      <4>1. i # 1 /\ log'[f][i] = EventOf(r)
        BY <2>8, <3>1
      <4> QED BY <2>4, <4>1
    <3>2. CASE f = e /\ i # Len(log[e]) + 1
      <4>1. i \in 1..(Len(log[e]) + 1) /\ Len(log[e]) \in Nat
        BY <2>8, <3>2
      <4>2. i \in 1..Len(log[e])
        BY <3>2, <4>1
      <4>3. i \in DOMAIN log[e] /\ log'[e][i] = log[e][i]
        BY <2>8, <4>2
      <4> QED BY <3>2, <4>3 DEF EventsAreAllowedMoves
    <3>3. CASE f # e
      <4>1. log'[f] = log[f]
        BY <2>7, <3>3
      <4> QED BY <4>1 DEF EventsAreAllowedMoves
    <3> QED BY <3>1, <3>2, <3>3
  <2> QED BY <2>9, <2>10
<1>3. ASSUME NEW u \in Users, DeleteUser(u)
      PROVE  LogEndsAtStatus' /\ EventsAreAllowedMoves'
  <2> SUFFICES ASSUME NEW e \in Emergencies
               PROVE  /\ IF Exists(e)' THEN log'[e] # <<>> /\ log'[e][Len(log'[e])].to = row'[e].status
                         ELSE log'[e] = <<>>
                      /\ \A i \in DOMAIN log'[e] :
                           IF i = 1 THEN log'[e][i].from = "none" /\ log'[e][i].to = "active"
                           ELSE log'[e][i].to \in Contract!Allowed(log'[e][i].from)
    BY DEF LogEndsAtStatus, EventsAreAllowedMoves
  <2>1. row[e] \in Row /\ log[e] \in Seq(Event)
    BY DEF TypeOK
  <2>2. CASE row[e].owner = u
    <3>1. log'[e] = <<>>
      BY <1>3, <2>2 DEF DeleteUser
    <3>2. ~ Exists(e)'
      BY <1>3, <2>1, <2>2 DEF DeleteUser, Exists, Statuses, Row
    <3> QED BY <3>1, <3>2
  <2>3. CASE row[e].owner # u
    <3>1. log'[e] = Anonymous(log[e], u) /\ row'[e] = row[e]
      BY <1>3, <2>3 DEF DeleteUser
    <3>2. /\ log'[e] \in Seq(Event) /\ Len(log'[e]) = Len(log[e])
          /\ \A i \in 1..Len(log[e]) : log'[e][i].to = log[e][i].to /\ log'[e][i].from = log[e][i].from
      BY <2>1, <3>1, AnonymousType
    <3>3. DOMAIN log'[e] = 1..Len(log[e]) /\ DOMAIN log[e] = 1..Len(log[e]) /\ Len(log[e]) \in Nat
      BY <2>1, <3>2
    <3>4. (log[e] = <<>> <=> Len(log[e]) = 0) /\ (log'[e] = <<>> <=> Len(log[e]) = 0)
      BY <2>1, <3>2
    <3> QED BY <3>1, <3>2, <3>3, <3>4 DEF LogEndsAtStatus, EventsAreAllowedMoves, Exists
  <2> QED BY <2>2, <2>3
<1>4. CASE UNCHANGED <<row, log>>
  BY <1>4 DEF LogEndsAtStatus, EventsAreAllowedMoves, Exists
<1> QED BY <1>1, <1>2, <1>3, <1>4 DEF Next, Step, vars, tables, StartCreate, StartUpdate,
        Begin, CreateFails, Read, Check, UpdateFails, EmitUser, EmitAdmin, FindAudience,
        SendPush, Audit, GuardianAccepted, GuardianRemoved, DeviceDeleted, Crash

LEMMA InvStep == IInv /\ [Next]_vars => IInv'
BY TypeStep, CallsStep, FreshStep, LogStep DEF IInv

LEMMA Invariance == Spec => []IInv
BY InvInit, InvStep, PTL DEF Spec

\* Whatever requests overlap, fail or die, an incident's last event is its
\* status, and an incident without a row has no event.
THEOREM LogAlwaysEndsAtStatus == Spec => []LogEndsAtStatus
BY Invariance, PTL DEF IInv

\* Every event ever written is the creation or a move of the transition table.
THEOREM EventsAlwaysAllowed == Spec => []EventsAreAllowedMoves
BY Invariance, PTL DEF IInv

\* No overlap of requests moves an incident back to active.
THEOREM NeverBackToActive == Spec => NeverReactivated
<1>1. ASSUME IInv, [Next]_vars, NEW e \in Emergencies, Exists(e), row[e].status # "active"
      PROVE  row'[e].status # "active"
  <2>1. ASSUME NEW r \in Requests, CommitCreate(r) PROVE row'[e].status # "active"
    <3>1. req[r].em # e
      BY <1>1, <2>1 DEF IInv, CommitCreate, At, Live, FreshIncidents, Creating, Exists, Statuses
    <3> QED BY <1>1, <2>1, <3>1 DEF CommitCreate, IInv, TypeOK
  <2>2. ASSUME NEW r \in Requests, CommitUpdate(r) PROVE row'[e].status # "active"
    <3>1. Live(r) /\ req[r].to \in Allowed(req[r].seen)
      BY <1>1, <2>2 DEF IInv, CommitUpdate, At, Live, CallsDecided, CallDecided
    <3>2. req[r].to # "active"
      BY <3>1 DEF Allowed
    <3>3. row[e] \in Row
      BY <1>1 DEF IInv, TypeOK
    <3> QED BY <1>1, <2>2, <3>2, <3>3 DEF CommitUpdate, Overwrite, IInv, TypeOK, Row
  <2>3. ASSUME NEW u \in Users, DeleteUser(u) PROVE row'[e].status # "active"
    <3>1. row[e] \in Row
      BY <1>1 DEF IInv, TypeOK
    <3> QED BY <1>1, <2>3, <3>1 DEF DeleteUser, Row
  <2>4. CASE UNCHANGED row
    BY <1>1, <2>4
  <2> QED BY <1>1, <2>1, <2>2, <2>3, <2>4 DEF Next, Step, vars, tables, StartCreate,
          StartUpdate, Begin, CreateFails, Read, Check, UpdateFails, EmitUser, EmitAdmin,
          FindAudience, SendPush, Audit, GuardianAccepted, GuardianRemoved, DeviceDeleted, Crash
<1>2. IInv /\ [Next]_vars =>
        [\A e \in Emergencies :
           Exists(e) /\ row[e].status # "active" => row'[e].status # "active"]_vars
  BY <1>1
<1> QED BY <1>2, Invariance, PTL DEF Spec, NeverReactivated

-----------------------------------------------------------------------------
(* The tables implement the weak contract. *)

\* A step that touches the record of one incident only.
LEMMA OneRecord ==
    ASSUME NEW e \in Emergencies, NEW s, NEW STATE t,
           row'[e].status = s, Trail(e)' = t,
           \A f \in Emergencies \ {e} : row'[f] = row[f] /\ log'[f] = log[f]
    PROVE  /\ StatusOf' = [StatusOf EXCEPT ![e] = s]
           /\ TrailOf' = [TrailOf EXCEPT ![e] = t]
<1>1. \A f \in Emergencies \ {e} : Trail(f)' = Trail(f)
  BY DEF Trail
<1>2. StatusOf' = [StatusOf EXCEPT ![e] = s]
  BY DEF StatusOf
<1>3. TrailOf' = [TrailOf EXCEPT ![e] = t]
  BY <1>1 DEF TrailOf
<1> QED BY <1>2, <1>3

LEMMA TrailType ==
    ASSUME NEW e \in Emergencies, log[e] \in Seq(Event)
    PROVE  /\ Trail(e) \in Seq(Statuses) /\ Len(Trail(e)) = Len(log[e])
           /\ \A i \in 1..Len(log[e]) : Trail(e)[i] = log[e][i].to
<1>1. /\ DOMAIN log[e] = 1..Len(log[e]) /\ Len(log[e]) \in Nat
      /\ \A i \in DOMAIN log[e] : log[e][i] \in Event
  OBVIOUS
<1> QED BY <1>1 DEF Trail, Event

LEMMA ContractInit == Init => Contract!Init
BY DEF Init, Contract!Init, StatusOf, TrailOf, Trail, NoRow

\* What a step does to the records: one opens, one moves as a handler that is
\* past its check asks, those of an account are erased, or none changes.
RecordNext ==
    \/ \E e \in Emergencies : Contract!Open(e)
    \/ \E r \in Requests, e \in Emergencies, to \in Statuses \ {"active"} :
         CommitUpdate(r) /\ e = req[r].em /\ to = req[r].to /\ Contract!Move(e, to)
    \/ \E es \in SUBSET Emergencies : Contract!Erase(es)

\* Only the incidents whose row or log changes change in the abstract state.
LEMMA RecordStep == IInv /\ [Next]_vars => [RecordNext]_(Contract!vars)
<1> SUFFICES ASSUME IInv, [Next]_vars PROVE [RecordNext]_(Contract!vars)
  OBVIOUS
<1>0. TypeOK
  BY DEF IInv
<1>1. ASSUME NEW r \in Requests, CommitCreate(r) PROVE RecordNext
  <2>1. Live(r) /\ Creating(r) /\ req[r] \in Call
    BY <1>0, <1>1, LiveIsCall DEF CommitCreate, At, Live, Creating
  <2> PICK e \in Emergencies : e = req[r].em
    BY <2>1 DEF Call
  <2>2. e \in Emergencies /\ row[e].status = "none"
    BY <2>1 DEF IInv, FreshIncidents
  <2>3. log[e] = <<>> /\ EventOf(r).to = "active"
    BY <2>1, <2>2 DEF IInv, LogEndsAtStatus, Exists, Statuses, Creating, CallsDecided,
       CallDecided, EventOf, Live
  <2>4. row'[e].status = "active" /\ log'[e] = <<EventOf(r)>>
    BY <1>0, <1>1, <2>2, <2>3 DEF CommitCreate, TypeOK
  <2>5. \A f \in Emergencies \ {e} : row'[f] = row[f] /\ log'[f] = log[f]
    BY <1>0, <1>1 DEF CommitCreate, TypeOK
  <2>6. Trail(e)' = <<"active">>
    <3>1. DOMAIN log'[e] = {1} /\ log'[e][1].to = "active"
      BY <2>3, <2>4
    <3>2. Trail(e)' = [i \in {1} |-> "active"]
      BY <3>1 DEF Trail
    <3> QED BY <3>2
  <2>7. Contract!Open(e)
    BY <2>2, <2>4, <2>5, <2>6, OneRecord DEF Contract!Open, StatusOf
  <2> QED BY <2>2, <2>7 DEF RecordNext
<1>2. ASSUME NEW r \in Requests, CommitUpdate(r) PROVE RecordNext
  <2>1. Live(r) /\ req[r] \in Call
    BY <1>0, <1>2, LiveIsCall DEF CommitUpdate, At, Live
  <2> PICK e \in Emergencies, to \in Statuses : e = req[r].em /\ to = req[r].to
    BY <2>1 DEF Call
  <2>2. e \in Emergencies /\ to \in Statuses \ {"active"} /\ EventOf(r) \in Event /\ EventOf(r).to = to
    BY <1>2, <2>1, EventType DEF IInv, CommitUpdate, At, CallsDecided, CallDecided, Allowed, EventOf, Call
  <2>3. row[e] \in Row /\ log[e] \in Seq(Event)
    BY <1>0, <2>2 DEF TypeOK
  <2>4. row'[e].status = to /\ log'[e] = Append(log[e], EventOf(r))
    BY <1>0, <1>2, <2>2, <2>3 DEF CommitUpdate, TypeOK, Overwrite, Row
  <2>5. \A f \in Emergencies \ {e} : row'[f] = row[f] /\ log'[f] = log[f]
    BY <1>0, <1>2 DEF CommitUpdate, TypeOK
  <2>6. Trail(e)' = Append(Trail(e), to)
    <3>1. log'[e] \in Seq(Event) /\ Len(log'[e]) = Len(log[e]) + 1 /\ Len(log[e]) \in Nat
          /\ log'[e][Len(log[e]) + 1] = EventOf(r)
          /\ \A i \in 1..Len(log[e]) : log'[e][i] = log[e][i]
      BY <2>2, <2>3, <2>4
    <3>2. /\ Trail(e) \in Seq(Statuses) /\ Len(Trail(e)) = Len(log[e])
          /\ \A i \in 1..Len(log[e]) : Trail(e)[i] = log[e][i].to
      BY <2>2, <2>3, TrailType
    <3>3. /\ Trail(e)' \in Seq(Statuses) /\ Len(Trail(e)') = Len(log[e]) + 1
          /\ \A i \in 1..Len(log[e]) + 1 : Trail(e)'[i] = log'[e][i].to
      <4>1. /\ DOMAIN log'[e] = 1..(Len(log[e]) + 1)
            /\ \A i \in DOMAIN log'[e] : log'[e][i] \in Event
        BY <3>1
      <4> QED BY <3>1, <4>1 DEF Trail, Event
    <3>4. /\ Append(Trail(e), to) \in Seq(Statuses)
          /\ Len(Append(Trail(e), to)) = Len(log[e]) + 1
          /\ Append(Trail(e), to)[Len(log[e]) + 1] = to
          /\ \A i \in 1..Len(log[e]) : Append(Trail(e), to)[i] = log[e][i].to
      BY <2>2, <3>1, <3>2
    <3>5. ASSUME NEW i \in 1..Len(log[e]) + 1 PROVE Trail(e)'[i] = Append(Trail(e), to)[i]
      <4>1. CASE i = Len(log[e]) + 1
        BY <2>2, <3>1, <3>3, <3>4, <4>1
      <4>2. CASE i # Len(log[e]) + 1
        <5>1. i \in 1..Len(log[e])
          BY <3>1, <4>2
        <5>2. Trail(e)'[i] = log'[e][i].to /\ log'[e][i] = log[e][i]
          BY <3>1, <3>3, <5>1
        <5> QED BY <3>4, <5>1, <5>2
      <4> QED BY <4>1, <4>2
    <3> QED BY <3>3, <3>4, <3>5, SeqEqual
  <2>7. row[e].status \in Statuses
    BY <1>2 DEF CommitUpdate, Exists
  <2>8. Contract!Move(e, to)
    BY <2>2, <2>4, <2>5, <2>6, <2>7, OneRecord DEF Contract!Move, Contract!Statuses, Statuses, StatusOf, TrailOf
  <2> QED BY <1>2, <2>2, <2>8 DEF RecordNext
<1>3. ASSUME NEW u \in Users, DeleteUser(u) PROVE RecordNext
  <2> DEFINE es == {e \in Emergencies : Exists(e) /\ row[e].owner = u}
  <2>1. ASSUME NEW e \in Emergencies
        PROVE  /\ row'[e].status = IF e \in es THEN "gone" ELSE row[e].status
               /\ Trail(e)' = IF e \in es THEN <<>> ELSE Trail(e)
    <3>1. row[e] \in Row /\ log[e] \in Seq(Event)
      BY <1>0 DEF TypeOK
    <3>2. row'[e].status = IF e \in es THEN "gone" ELSE row[e].status
      BY <1>3, <3>1 DEF DeleteUser, Row
    <3>3. CASE row[e].owner = u
      <4>1. log'[e] = <<>>
        BY <1>3, <3>3 DEF DeleteUser
      <4>2. e \notin es => log[e] = <<>>
        BY <3>3 DEF IInv, LogEndsAtStatus
      <4> QED BY <3>2, <4>1, <4>2 DEF Trail
    <3>4. CASE row[e].owner # u
      <4>1. log'[e] = Anonymous(log[e], u)
        BY <1>3, <3>4 DEF DeleteUser
      <4>2. /\ DOMAIN log'[e] = DOMAIN log[e]
            /\ \A i \in DOMAIN log[e] : log'[e][i].to = log[e][i].to
        BY <3>1, <4>1, AnonymousType
      <4> QED BY <3>2, <3>4, <4>2 DEF Trail
    <3> QED BY <3>3, <3>4
  <2>2. Contract!Erase(es)
    BY <2>1 DEF Contract!Erase, Contract!Statuses, Statuses, Exists, StatusOf, TrailOf
  <2> QED BY <2>2 DEF RecordNext
<1>4. CASE UNCHANGED <<row, log>>
  BY <1>4 DEF Contract!vars, StatusOf, TrailOf, Trail
<1> QED BY <1>1, <1>2, <1>3, <1>4 DEF Next, Step, vars, tables, StartCreate, StartUpdate,
        Begin, CreateFails, Read, Check, UpdateFails, EmitUser, EmitAdmin, FindAudience,
        SendPush, Audit, GuardianAccepted, GuardianRemoved, DeviceDeleted, Crash

LEMMA ContractStep == IInv /\ [Next]_vars => [Contract!WeakNext]_(Contract!vars)
BY RecordStep DEF RecordNext, Contract!WeakNext, Contract!Statuses, Statuses

\* Every incident's record implements the weak contract: it opens active, moves
\* to another status with one event per move, or is erased with its account.
THEOREM ImplementsWeakContract == Spec => KeepsWeakContract
BY ContractInit, ContractStep, Invariance, PTL DEF Spec, KeepsWeakContract, Contract!WeakSpec

-----------------------------------------------------------------------------
(* Who moved an incident, who was told, and what the admins' audit says.     *)
(*                                                                           *)
(* The three properties speak of the tables after handlers that read them    *)
(* several awaits earlier, so the invariant says what a handler may still    *)
(* rely on when it acts: the incident it works on has been created, the      *)
(* person it acts for was entitled when it was checked (and a guardianship   *)
(* that ends stays in everGuards), and the status it reports did happen.     *)

After == {"emitUser", "emitAdmin", "audience", "send", "audit"}

Entitled(u, e) ==
    u \in Admins \/ u = row[e].owner \/ <<row[e].owner, u>> \in everGuards

Reached(e, s) == \E i \in DOMAIN log[e] : log[e][i].to = s

GuardsRemembered == guards \subseteq everGuards

\* Only a creation that has not committed works on an incident that is not there.
KnownIncidents ==
    \A r \in Requests : Live(r) /\ ~Creating(r) => row[req[r].em].status # "none"

EntitledCall(r) ==
    /\ Live(r) /\ req[r].op = "admin" => req[r].actor \in Admins
    /\ req[r].op # "create" /\ req[r].pc \in {"begin", "commit"}
         => Entitled(req[r].actor, req[r].em)

EntitledCalls == \A r \in Requests : Live(r) => EntitledCall(r)

\* What a handler has read or written of a status is in the incident's history.
TrueCall(r) ==
    Exists(req[r].em) => /\ req[r].pc \in After => Reached(req[r].em, req[r].to)
                         /\ req[r].pc = "check" => Reached(req[r].em, req[r].seen)

TrueCalls == \A r \in Requests : Live(r) => TrueCall(r)

AuditedIncidents ==
    \A m \in audits : /\ row[m[1]].status # "none"
                      /\ Exists(m[1]) => Reached(m[1], m[2])

CInv ==
    /\ IInv
    /\ GuardsRemembered
    /\ KnownIncidents
    /\ EntitledCalls
    /\ ActorsWereEntitled
    /\ TrueCalls
    /\ AuditedIncidents
    /\ PushStaysInCircle

LEMMA CInvInit == Init => CInv
<1> SUFFICES ASSUME Init PROVE CInv
  OBVIOUS
<1>1. \A r \in Requests : req[r].pc = "idle"
  BY DEF Init, Idle
<1>2. \A e \in Emergencies : log[e] = <<>>
  BY DEF Init
<1> QED BY <1>1, <1>2, InvInit DEF Init, CInv, GuardsRemembered, KnownIncidents,
        EntitledCalls, ActorsWereEntitled, TrueCalls, AuditedIncidents,
        PushStaysInCircle, Live, At

-----------------------------------------------------------------------------
(* What a step of a handler does to its slot. *)

Carries(r) ==
    /\ req'[r] \in Call
    /\ req'[r].op = req[r].op /\ req'[r].actor = req[r].actor
    /\ req'[r].em = req[r].em /\ req'[r].to = req[r].to

LEMMA GotoCarries ==
    ASSUME TypeOK, NEW r \in Requests, Live(r), NEW pc \in Pcs, Goto(r, pc)
    PROVE  /\ Carries(r) /\ req'[r].pc = pc
           /\ req'[r].seen = req[r].seen /\ req'[r].aud = req[r].aud
           /\ \A q \in Requests \ {r} : req'[q] = req[q]
<1>1. req[r] \in Call
  BY LiveIsCall
<1>2. req'[r] = [req[r] EXCEPT !.pc = pc]
  BY DEF Goto, TypeOK
<1> QED BY <1>1, <1>2 DEF Goto, TypeOK, Carries, Call

LEMMA AnswerClears ==
    ASSUME TypeOK, NEW r \in Requests, Answer(r)
    PROVE  req'[r] = Idle /\ \A q \in Requests \ {r} : req'[q] = req[q]
BY DEF Answer, TypeOK

LEMMA BeginCarries ==
    ASSUME TypeOK, NEW r \in Requests, Begin(r)
    PROVE  /\ Carries(r) /\ req'[r].pc = "commit"
           /\ req'[r].seen = req[r].seen /\ req'[r].at = Len(log[req[r].em])
           /\ \A q \in Requests \ {r} : req'[q] = req[q]
<1>1. req[r] \in Call
  BY LiveIsCall DEF Begin, At, Live
<1>2. req'[r] = [req[r] EXCEPT !.pc = "commit", !.at = Len(log[req[r].em])]
  BY DEF Begin, TypeOK
<1>3. Len(log[req[r].em]) \in Nat
  BY <1>1 DEF TypeOK, Call
<1> QED BY <1>1, <1>2, <1>3 DEF Begin, TypeOK, Carries, Call, Pcs

LEMMA ReadCarries ==
    ASSUME TypeOK, NEW r \in Requests, Read(r), Exists(req[r].em)
    PROVE  /\ Carries(r) /\ req'[r].pc = "check"
           /\ req'[r].seen = row[req[r].em].status
           /\ \A q \in Requests \ {r} : req'[q] = req[q]
<1>1. req[r] \in Call
  BY LiveIsCall DEF Read, At, Live
<1>2. req'[r] = [req[r] EXCEPT !.pc = "check", !.seen = row[req[r].em].status]
  BY DEF Read, TypeOK
<1> QED BY <1>1, <1>2 DEF Read, Exists, TypeOK, Carries, Call, Pcs

LEMMA AudienceCarries ==
    ASSUME TypeOK, NEW r \in Requests, FindAudience(r)
    PROVE  /\ Carries(r) /\ req'[r].pc = "send"
           /\ req'[r].aud \subseteq Audience(row[req[r].em].owner) \cap Users
           /\ \A q \in Requests \ {r} : req'[q] = req[q]
<1>1. req[r] \in Call
  BY LiveIsCall DEF FindAudience, At, Live
<1>2. PICK aud \in {{row[req[r].em].owner}, Audience(row[req[r].em].owner)} :
         req' = [req EXCEPT ![r].pc = "send", ![r].aud = aud \cap Users]
  BY DEF FindAudience
<1>3. req'[r] = [req[r] EXCEPT !.pc = "send", !.aud = aud \cap Users]
  BY <1>2 DEF TypeOK
<1>4. aud \subseteq Audience(row[req[r].em].owner)
  BY DEF Audience
<1> QED BY <1>1, <1>2, <1>3, <1>4 DEF TypeOK, Carries, Call, Pcs

\* The handler answers or goes on with the call it carries; which steps lead
\* past the check and past the commit.
LEMMA StepShape ==
    ASSUME TypeOK, CallsDecided, NEW r \in Requests, Step(r)
    PROVE  /\ Live(r) /\ req[r] \in Call
           /\ \A q \in Requests \ {r} : req'[q] = req[q]
           /\ \/ req'[r] = Idle
              \/ /\ Carries(r)
                 /\ \/ /\ req[r].pc \in After /\ req'[r].pc \in After
                       /\ UNCHANGED <<row, log>>
                    \/ (CommitCreate(r) \/ CommitUpdate(r)) /\ req'[r].pc \in After
                    \/ Read(r) /\ Exists(req[r].em) /\ req'[r].pc = "check"
                       /\ req'[r].seen = row[req[r].em].status
                    \/ Check(r) /\ Decision(req[r]) = "begin" /\ req'[r].pc = "begin"
                       /\ req'[r].seen = req[r].seen
                    \/ Check(r) /\ Decision(req[r]) = "audit" /\ req'[r].pc = "audit"
                    \/ Begin(r) /\ req'[r].pc = "commit" /\ req'[r].seen = req[r].seen
<1>1. Live(r) /\ req[r] \in Call /\ \A q \in Requests \ {r} : req'[q] = req[q]
  BY StepEffect, LiveIsCall
<1>2. CASE Begin(r)
  BY <1>1, <1>2, BeginCarries
<1>3. CASE Read(r)
  <2>1. CASE Exists(req[r].em)
    BY <1>1, <1>3, <2>1, ReadCarries
  <2>2. CASE ~Exists(req[r].em)
    BY <1>1, <1>3, <2>2, AnswerClears DEF Read
  <2> QED BY <2>1, <2>2
<1>4. CASE Check(r)
  <2>1. CASE Decision(req[r]) = "idle"
    BY <1>1, <1>4, <2>1, AnswerClears DEF Check
  <2>2. CASE Decision(req[r]) = "begin"
    BY <1>1, <1>4, <2>2, GotoCarries DEF Check, Pcs
  <2>3. CASE Decision(req[r]) = "audit"
    BY <1>1, <1>4, <2>3, GotoCarries DEF Check, Pcs
  <2> QED BY <2>1, <2>2, <2>3 DEF Decision
<1>5. CASE FindAudience(r)
  <2>1. req[r].pc \in After /\ UNCHANGED <<row, log>>
    BY <1>5 DEF FindAudience, At, After, tables
  <2> QED BY <1>1, <1>5, <2>1, AudienceCarries DEF After
<1>6. CASE CreateFails(r) \/ UpdateFails(r) \/ Audit(r)
  BY <1>1, <1>6, AnswerClears DEF CreateFails, UpdateFails, Audit
<1>7. CASE CommitCreate(r) \/ CommitUpdate(r)
  <2>1. PICK pc \in {"audience", "emitUser"} : Goto(r, pc)
    BY <1>7 DEF CommitCreate, CommitUpdate, AfterCommit
  <2> QED BY <1>1, <1>7, <2>1, GotoCarries DEF Pcs, After
<1>8. CASE EmitUser(r) \/ EmitAdmin(r) \/ SendPush(r)
  <2>1. req[r].pc \in After /\ UNCHANGED <<row, log>>
    BY <1>8 DEF EmitUser, EmitAdmin, SendPush, At, After, tables
  <2>2. Answer(r) \/ \E pc \in {"audience", "emitUser", "emitAdmin", "audit"} : Goto(r, pc)
    BY <1>8 DEF EmitUser, EmitAdmin, SendPush, AfterEmit, AfterSend
  <2>3. CASE Answer(r)
    BY <1>1, <2>3, AnswerClears
  <2>4. ASSUME NEW pc \in {"audience", "emitUser", "emitAdmin", "audit"}, Goto(r, pc)
        PROVE  Carries(r) /\ req'[r].pc \in After
    BY <1>1, <2>4, GotoCarries DEF Pcs, After
  <2> QED BY <1>1, <2>1, <2>2, <2>3, <2>4
<1> QED BY <1>2, <1>3, <1>4, <1>5, <1>6, <1>7, <1>8 DEF Step

-----------------------------------------------------------------------------
(* What a step does to the tables of one incident. *)

Opens(r, e) ==
    /\ CommitCreate(r) /\ e = req[r].em /\ row[e].status = "none"
    /\ log'[e] = <<EventOf(r)>>
    /\ row'[e].status = "active" /\ row'[e].owner = req[r].actor

Moves(r, e) ==
    /\ CommitUpdate(r) /\ e = req[r].em
    /\ log'[e] = Append(log[e], EventOf(r))
    /\ row'[e].status = req[r].to /\ row'[e].owner = row[e].owner

Erases(e) ==
    /\ log'[e] = <<>>
    /\ row'[e].status \notin Statuses /\ (row'[e].status = "none" <=> row[e].status = "none")
    /\ row'[e].owner = row[e].owner

Forgets(u, e) ==
    /\ DeleteUser(u) /\ row'[e] = row[e]
    /\ log'[e] = Anonymous(log[e], u)

LEMMA DeletionEffect ==
    ASSUME TypeOK, NEW e \in Emergencies, NEW u \in Users, DeleteUser(u)
    PROVE  Erases(e) \/ Forgets(u, e)
<1>0. row[e] \in Row
  BY DEF TypeOK
<1>1. CASE row[e].owner = u
  <2>1. log'[e] = <<>>
    BY <1>1 DEF DeleteUser
  <2>2. row'[e] = IF Exists(e) THEN [row[e] EXCEPT !.status = "gone"] ELSE row[e]
    BY <1>1 DEF DeleteUser
  <2>3. /\ row'[e].status \notin Statuses /\ row'[e].owner = row[e].owner
        /\ row'[e].status = "none" <=> row[e].status = "none"
    BY <1>0, <2>2 DEF Exists, Row, Statuses
  <2> QED BY <2>1, <2>3 DEF Erases
<1>2. CASE row[e].owner # u
  BY <1>2 DEF DeleteUser, Forgets
<1> QED BY <1>1, <1>2

LEMMA TableEffect ==
    ASSUME IInv, [Next]_vars, NEW e \in Emergencies
    PROVE  \/ UNCHANGED <<row[e], log[e]>>
           \/ \E r \in Requests : Opens(r, e) \/ Moves(r, e)
           \/ Erases(e)
           \/ \E u \in Users : Forgets(u, e)
<1>0. TypeOK /\ row[e] \in Row
  BY DEF IInv, TypeOK
<1>1. ASSUME NEW r \in Requests, CommitCreate(r)
      PROVE  UNCHANGED <<row[e], log[e]>> \/ Opens(r, e)
  <2>1. CASE e = req[r].em
    <3>1. row[e].status = "none"
      BY <1>1, <2>1 DEF IInv, FreshIncidents, Creating, CommitCreate, At, Live
    <3>2. log[e] = <<>>
      BY <3>1 DEF IInv, LogEndsAtStatus, Exists, Statuses
    <3>3. log'[e] = <<EventOf(r)>>
      BY <1>0, <1>1, <2>1, <3>2 DEF CommitCreate, TypeOK
    <3>4. row'[e].status = "active" /\ row'[e].owner = req[r].actor
      BY <1>0, <1>1, <2>1 DEF CommitCreate, TypeOK
    <3> QED BY <1>1, <2>1, <3>1, <3>3, <3>4 DEF Opens
  <2>2. CASE e # req[r].em
    BY <1>0, <1>1, <2>2 DEF CommitCreate, TypeOK
  <2> QED BY <2>1, <2>2
<1>2. ASSUME NEW r \in Requests, CommitUpdate(r)
      PROVE  UNCHANGED <<row[e], log[e]>> \/ Moves(r, e)
  <2>1. CASE e = req[r].em
    <3>1. log'[e] = Append(log[e], EventOf(r))
      BY <1>0, <1>2, <2>1 DEF CommitUpdate, TypeOK
    <3>2. row'[e] = Overwrite(row[e], req[r].to)
      BY <1>0, <1>2, <2>1 DEF CommitUpdate, TypeOK
    <3>3. row'[e].status = req[r].to /\ row'[e].owner = row[e].owner
      BY <1>0, <3>2 DEF Overwrite, Row
    <3> QED BY <1>2, <2>1, <3>1, <3>3 DEF Moves
  <2>2. CASE e # req[r].em
    BY <1>0, <1>2, <2>2 DEF CommitUpdate, TypeOK
  <2> QED BY <2>1, <2>2
<1>3. ASSUME NEW u \in Users, DeleteUser(u)
      PROVE  Erases(e) \/ Forgets(u, e)
  BY <1>0, <1>3, DeletionEffect
<1>4. CASE UNCHANGED <<row, log>>
  BY <1>4
<1> QED BY <1>1, <1>2, <1>3, <1>4 DEF Next, Step, vars, tables, StartCreate, StartUpdate,
        Begin, CreateFails, Read, Check, UpdateFails, EmitUser, EmitAdmin, FindAudience,
        SendPush, Audit, GuardianAccepted, GuardianRemoved, DeviceDeleted, Crash

\* An event added at the end is there, and so are the others.
LEMMA AppendedEvent ==
    ASSUME NEW events \in Seq(Event), NEW ev \in Event
    PROVE  /\ DOMAIN Append(events, ev) = 1..(Len(events) + 1) /\ DOMAIN events = 1..Len(events)
           /\ Len(events) \in Nat
           /\ Append(events, ev)[Len(events) + 1] = ev
           /\ \A i \in 1..Len(events) : Append(events, ev)[i] = events[i]
OBVIOUS

LEMMA ForgottenActors ==
    ASSUME NEW events \in Seq(Event), NEW u, NEW i \in DOMAIN Anonymous(events, u)
    PROVE  /\ i \in DOMAIN events
           /\ Anonymous(events, u)[i].actor \in {NoOne, events[i].actor}
           /\ Anonymous(events, u)[i].to = events[i].to
           /\ Anonymous(events, u)[i].from = events[i].from
           /\ Anonymous(events, u)[i].at = events[i].at
<1>1. DOMAIN Anonymous(events, u) = DOMAIN events /\ i \in DOMAIN events
  BY DEF Anonymous
<1>2. events[i] \in Event
  BY <1>1
<1> QED BY <1>1, <1>2 DEF Anonymous, Event

\* An incident once created stays so, keeps its owner, and, until it is erased,
\* keeps every status of its history; only a creation brings one to be.
LEMMA HistoryGrows ==
    ASSUME IInv, [Next]_vars, NEW e \in Emergencies, row[e].status # "none"
    PROVE  /\ row'[e].status # "none" /\ row'[e].owner = row[e].owner
           /\ Exists(e)' => Exists(e)
           /\ Exists(e)' => \A s : Reached(e, s) => Reached(e, s)'
<1>0. TypeOK /\ log[e] \in Seq(Event)
  BY DEF IInv, TypeOK
<1>1. CASE UNCHANGED <<row[e], log[e]>>
  BY <1>1 DEF Exists, Reached
<1>2. ASSUME NEW r \in Requests, Opens(r, e) PROVE FALSE
  BY <1>2 DEF Opens
<1>3. ASSUME NEW r \in Requests, Moves(r, e)
      PROVE  /\ row'[e].status # "none" /\ row'[e].owner = row[e].owner
             /\ Exists(e) /\ \A s : Reached(e, s) => Reached(e, s)'
  <2>1. req[r] \in Call /\ Exists(e)
    BY <1>0, <1>3, LiveIsCall DEF Moves, CommitUpdate, At, Live
  <2>2. EventOf(r) \in Event /\ req[r].to \in Statuses
    BY <2>1, EventType DEF Call
  <2>3. \A s : Reached(e, s) => Reached(e, s)'
    BY <1>0, <1>3, <2>2, AppendedEvent DEF Moves, Reached
  <2> QED BY <1>3, <2>1, <2>2, <2>3 DEF Moves, Statuses
<1>4. CASE Erases(e)
  BY <1>4 DEF Erases, Exists
<1>5. ASSUME NEW u \in Users, Forgets(u, e)
      PROVE  row'[e] = row[e] /\ \A s : Reached(e, s) => Reached(e, s)'
  <2>1. /\ DOMAIN log'[e] = DOMAIN log[e]
        /\ \A i \in DOMAIN log[e] : log'[e][i].to = log[e][i].to
    BY <1>0, <1>5, AnonymousType DEF Forgets
  <2> QED BY <1>5, <2>1 DEF Forgets, Reached
<1> QED BY <1>1, <1>2, <1>3, <1>4, <1>5, TableEffect DEF Exists

-----------------------------------------------------------------------------
(* What a step does to one slot, and each part of the invariant. *)

Starts(r) ==
    /\ ~Live(r) /\ req'[r] \in Call /\ UNCHANGED <<row, log, everGuards>>
    /\ \/ req'[r].pc = "begin" /\ req'[r].op = "create"
       \/ /\ req'[r].pc = "read" /\ req'[r].op # "create"
          /\ req'[r].op = "admin" => req'[r].actor \in Admins
          /\ row[req'[r].em].status # "none"

LEMMA SlotEffect ==
    ASSUME TypeOK, CallsDecided, [Next]_vars, NEW r \in Requests
    PROVE  req'[r] = req[r] \/ req'[r] = Idle \/ Starts(r) \/ (Step(r) /\ Carries(r))
<1>1. ASSUME NEW q \in Requests, StartCreate(q) PROVE req'[r] = req[r] \/ Starts(r)
  <2>1. PICK u \in users \cap Protected, e \in Emergencies, d \in BOOLEAN :
          req' = [req EXCEPT ![q] =
             [pc |-> "begin", op |-> "create", actor |-> u, em |-> e,
              to |-> "active", seen |-> "none", dev |-> d, at |-> 0, aud |-> {}]]
    BY <1>1 DEF StartCreate
  <2>2. [pc |-> "begin", op |-> "create", actor |-> u, em |-> e, to |-> "active",
         seen |-> "none", dev |-> d, at |-> 0, aud |-> {}] \in Call
    BY DEF TypeOK, Call, Pcs, Ops, Statuses
  <2> QED BY <1>1, <2>1, <2>2 DEF StartCreate, Starts, tables, TypeOK
<1>2. ASSUME NEW q \in Requests, StartUpdate(q) PROVE req'[r] = req[r] \/ Starts(r)
  <2>1. PICK u \in users, e \in Emergencies, op \in {"update", "admin"}, to \in Statuses :
          /\ op = "admin" => u \in Admins
          /\ row[e].status # "none"
          /\ req' = [req EXCEPT ![q] =
             [pc |-> "read", op |-> op, actor |-> u, em |-> e, to |-> to,
              seen |-> "none", dev |-> FALSE, at |-> 0, aud |-> {}]]
    BY <1>2 DEF StartUpdate, Requested, AdminTargets, Statuses
  <2>2. [pc |-> "read", op |-> op, actor |-> u, em |-> e, to |-> to,
         seen |-> "none", dev |-> FALSE, at |-> 0, aud |-> {}] \in Call
    BY DEF TypeOK, Call, Pcs, Ops, Statuses
  <2> QED BY <1>2, <2>1, <2>2 DEF StartUpdate, Starts, tables, TypeOK
<1>3. ASSUME NEW q \in Requests, Step(q)
      PROVE  req'[r] = req[r] \/ req'[r] = Idle \/ (Step(r) /\ Carries(r))
  BY <1>3, StepShape
<1>4. ASSUME Crash PROVE req'[r] = Idle
  BY <1>4 DEF Crash
<1>5. CASE UNCHANGED req
  BY <1>5
<1> QED BY <1>1, <1>2, <1>3, <1>4, <1>5 DEF Next, vars, GuardianAccepted, GuardianRemoved,
        DeviceDeleted, DeleteUser

LEMMA GuardsStep == GuardsRemembered /\ [Next]_vars => GuardsRemembered' /\ everGuards \subseteq everGuards'
BY DEF GuardsRemembered, Next, Step, vars, tables, StartCreate, StartUpdate, Begin,
   CommitCreate, CreateFails, Read, Check, CommitUpdate, UpdateFails, EmitUser, EmitAdmin,
   FindAudience, SendPush, Audit, GuardianAccepted, GuardianRemoved, DeviceDeleted,
   DeleteUser, Crash

LEMMA KnownStep == CInv /\ [Next]_vars => KnownIncidents'
<1> SUFFICES ASSUME CInv, [Next]_vars, NEW r \in Requests, Live(r)', ~Creating(r)'
             PROVE  row'[req'[r].em].status # "none"
  BY DEF KnownIncidents
<1>0. TypeOK /\ CallsDecided /\ IInv
  BY DEF CInv, IInv
<1>1. CASE req'[r] = req[r]
  <2>1. Live(r) /\ ~Creating(r) /\ req[r] \in Call
    BY <1>0, <1>1, LiveIsCall DEF Live, Creating
  <2>2. req[r].em \in Emergencies /\ row[req[r].em].status # "none"
    BY <2>1 DEF CInv, KnownIncidents, Call
  <2> QED BY <1>0, <1>1, <2>2, HistoryGrows
<1>2. CASE req'[r] = Idle
  BY <1>2 DEF Live, Idle
<1>3. CASE Starts(r)
  BY <1>3 DEF Starts, Creating, Live
<1>4. CASE Step(r) /\ Carries(r)
  <2>1. Live(r) /\ req[r] \in Call /\ req[r].em \in Emergencies
    BY <1>0, <1>4, StepShape DEF Call
  <2>2. CASE CommitCreate(r)
    <3>1. row'[req[r].em].status = "active"
      BY <1>0, <2>1, <2>2 DEF CommitCreate, TypeOK
    <3> QED BY <1>4, <3>1 DEF Carries
  <2>3. CASE ~CommitCreate(r)
    <3>1. ~Creating(r)
      <4>1. req'[r] # Idle
        BY DEF Live, Idle
      <4>2. Begin(r) => Creating(r)' \/ req[r].op # "create"
        BY <1>0, BeginCarries DEF Creating, Carries, Live
      <4>3. CommitUpdate(r) => req[r].op # "create"
        BY DEF CommitUpdate
      <4>4. Read(r) \/ Check(r) => ~Creating(r)
        BY DEF Read, Check, At, Creating
      <4>5. req[r].pc \in After => ~Creating(r)
        BY DEF After, Creating
      <4> QED BY <1>0, <1>4, <2>3, <4>1, <4>2, <4>3, <4>4, <4>5, StepShape DEF Creating
    <3>2. row[req[r].em].status # "none"
      BY <2>1, <3>1 DEF CInv, KnownIncidents
    <3> QED BY <1>0, <1>4, <2>1, <3>2, HistoryGrows DEF Carries
  <2> QED BY <2>2, <2>3
<1> QED BY <1>0, <1>1, <1>2, <1>3, <1>4, SlotEffect

\* An incident that is there keeps whoever was entitled to act on it.
LEMMA StillEntitled ==
    ASSUME CInv, [Next]_vars, NEW e \in Emergencies, row[e].status # "none",
           NEW u, Entitled(u, e)
    PROVE  Entitled(u, e)'
<1>1. row'[e].owner = row[e].owner
  BY HistoryGrows DEF CInv
<1>2. everGuards \subseteq everGuards'
  BY GuardsStep DEF CInv
<1> QED BY <1>1, <1>2 DEF Entitled

LEMMA EntitledStep == CInv /\ [Next]_vars => EntitledCalls'
<1> SUFFICES ASSUME CInv, [Next]_vars, NEW r \in Requests, Live(r)'
             PROVE  EntitledCall(r)'
  BY DEF EntitledCalls
<1>0. TypeOK /\ CallsDecided /\ IInv
  BY DEF CInv, IInv
<1>1. CASE req'[r] = req[r]
  <2>1. Live(r) /\ req[r] \in Call /\ EntitledCall(r)
    BY <1>0, <1>1, LiveIsCall DEF Live, CInv, EntitledCalls
  <2>2. CASE req[r].op # "create" /\ req[r].pc \in {"begin", "commit"}
    <3>1. req[r].em \in Emergencies /\ row[req[r].em].status # "none"
      BY <2>1, <2>2 DEF CInv, KnownIncidents, Creating, Call
    <3>2. Entitled(req[r].actor, req[r].em)'
      BY <1>1, <2>1, <2>2, <3>1, StillEntitled DEF EntitledCall, Entitled
    <3> QED BY <1>1, <2>1, <3>2 DEF EntitledCall, Live, Entitled
  <2>3. CASE ~(req[r].op # "create" /\ req[r].pc \in {"begin", "commit"})
    BY <1>1, <2>1, <2>3 DEF EntitledCall, Live
  <2> QED BY <2>2, <2>3
<1>2. CASE req'[r] = Idle
  BY <1>2 DEF Live, Idle
<1>3. CASE Starts(r)
  BY <1>3 DEF Starts, EntitledCall, Live
<1>4. CASE Step(r) /\ Carries(r)
  <2>1. Live(r) /\ req[r] \in Call /\ req[r].em \in Emergencies /\ EntitledCall(r)
    BY <1>0, <1>4, StepShape DEF Call, CInv, EntitledCalls
  <2> PICK e, u : e \in Emergencies /\ e = req[r].em /\ u = req[r].actor
    BY <2>1
  <2>2. ASSUME req'[r].op # "create", req'[r].pc \in {"begin", "commit"}
        PROVE  Entitled(u, e)'
    <3>1. Begin(r) \/ (Check(r) /\ Decision(req[r]) = "begin")
      BY <1>0, <2>1, <2>2, <1>4, StepShape DEF After, Live, Idle
    <3>2. req[r].op # "create" /\ row[req[r].em].status # "none"
      BY <1>4, <2>1, <2>2 DEF Carries, CInv, KnownIncidents, Creating
    <3>3. Entitled(req[r].actor, req[r].em)
      <4>1. CASE Begin(r)
        BY <2>1, <3>2, <4>1 DEF Begin, At, EntitledCall
      <4>2. CASE Check(r) /\ Decision(req[r]) = "begin"
        <5>1. CASE req[r].op = "admin"
          BY <2>1, <5>1 DEF EntitledCall, Entitled
        <5>2. CASE req[r].op = "update"
          BY <4>2, <5>2 DEF Decision, MayAct, Entitled, CInv, GuardsRemembered
        <5> QED BY <2>1, <3>2, <5>1, <5>2 DEF Call, Ops
      <4> QED BY <3>1, <4>1, <4>2
    <3> QED BY <2>1, <3>2, <3>3, StillEntitled
  <2> QED BY <1>4, <2>1, <2>2 DEF Carries, EntitledCall, Entitled, Live
<1> QED BY <1>0, <1>1, <1>2, <1>3, <1>4, SlotEffect

LEMMA ActorsStep == CInv /\ [Next]_vars => ActorsWereEntitled'
<1> SUFFICES ASSUME CInv, [Next]_vars, NEW e \in Emergencies, NEW i \in DOMAIN log'[e]
             PROVE  \/ log'[e][i].actor \in Admins \cup {NoOne, row'[e].owner}
                    \/ <<row'[e].owner, log'[e][i].actor>> \in everGuards'
  BY DEF ActorsWereEntitled
<1>0. TypeOK /\ CallsDecided /\ IInv /\ log[e] \in Seq(Event) /\ everGuards \subseteq everGuards'
  BY GuardsStep DEF CInv, IInv, TypeOK
<1>1. CASE UNCHANGED <<row[e], log[e]>>
  BY <1>0, <1>1 DEF CInv, ActorsWereEntitled
<1>2. ASSUME NEW r \in Requests, Opens(r, e)
      PROVE  log'[e][i].actor = row'[e].owner
  BY <1>2 DEF Opens, EventOf
<1>3. ASSUME NEW r \in Requests, Moves(r, e)
      PROVE  \/ log'[e][i].actor \in Admins \cup {NoOne, row'[e].owner}
             \/ <<row'[e].owner, log'[e][i].actor>> \in everGuards'
  <2>1. Live(r) /\ req[r] \in Call /\ EntitledCall(r)
    BY <1>0, <1>3, LiveIsCall DEF Moves, CommitUpdate, At, Live, CInv, EntitledCalls
  <2>2. Entitled(req[r].actor, e)
    BY <1>3, <2>1 DEF Moves, CommitUpdate, At, EntitledCall
  <2>3. EventOf(r) \in Event /\ EventOf(r).actor = req[r].actor
    BY <2>1, EventType DEF EventOf
  <2>4. /\ i \in DOMAIN log[e] => log'[e][i] = log[e][i]
        /\ i \notin DOMAIN log[e] => log'[e][i] = EventOf(r)
    BY <1>0, <1>3, <2>3, AppendedEvent DEF Moves
  <2>5. row'[e].owner = row[e].owner
    BY <1>3 DEF Moves
  <2>6. CASE i \in DOMAIN log[e]
    BY <1>0, <2>4, <2>5, <2>6 DEF CInv, ActorsWereEntitled
  <2>7. CASE i \notin DOMAIN log[e]
    BY <1>0, <2>2, <2>3, <2>4, <2>5, <2>7 DEF Entitled
  <2> QED BY <2>6, <2>7
<1>4. CASE Erases(e)
  BY <1>4 DEF Erases
<1>5. ASSUME NEW u \in Users, Forgets(u, e)
      PROVE  \/ log'[e][i].actor \in Admins \cup {NoOne, row'[e].owner}
             \/ <<row'[e].owner, log'[e][i].actor>> \in everGuards'
  <2>1. i \in DOMAIN log[e] /\ log'[e][i].actor \in {NoOne, log[e][i].actor}
    BY <1>0, <1>5, ForgottenActors DEF Forgets
  <2> QED BY <1>0, <1>5, <2>1 DEF Forgets, CInv, ActorsWereEntitled
<1> QED BY <1>0, <1>1, <1>2, <1>3, <1>4, <1>5, TableEffect

\* A handler's report stays true while its incident is there.
LEMMA StillReached ==
    ASSUME CInv, [Next]_vars, NEW e \in Emergencies, row[e].status # "none",
           NEW s, Exists(e) => Reached(e, s)
    PROVE  Exists(e)' => Reached(e, s)'
BY HistoryGrows DEF CInv

LEMMA LastIsReached ==
    ASSUME LogEndsAtStatus, TypeOK, NEW e \in Emergencies, Exists(e)
    PROVE  Reached(e, row[e].status)
<1>1. log[e] \in Seq(Event) /\ log[e] # <<>> /\ log[e][Len(log[e])].to = row[e].status
  BY DEF LogEndsAtStatus, TypeOK
<1>2. Len(log[e]) \in DOMAIN log[e]
  BY <1>1
<1> QED BY <1>1, <1>2 DEF Reached

LEMMA TrueStep == CInv /\ [Next]_vars => TrueCalls'
<1> SUFFICES ASSUME CInv, [Next]_vars, NEW r \in Requests, Live(r)'
             PROVE  TrueCall(r)'
  BY DEF TrueCalls
<1>0. TypeOK /\ CallsDecided /\ IInv
  BY DEF CInv, IInv
<1>1. CASE req'[r] = req[r]
  <2>1. Live(r) /\ req[r] \in Call /\ TrueCall(r)
    BY <1>0, <1>1, LiveIsCall DEF Live, CInv, TrueCalls
  <2> PICK e, to, seen : e \in Emergencies /\ e = req[r].em /\ to = req[r].to /\ seen = req[r].seen
    BY <2>1 DEF Call
  <2>2. req[r].pc \in After \cup {"check"} => row[e].status # "none"
    BY <2>1 DEF CInv, KnownIncidents, Creating, After
  <2>3. req[r].pc \in After => (Exists(e)' => Reached(e, to)')
    BY <2>1, <2>2, StillReached DEF TrueCall
  <2>4. req[r].pc = "check" => (Exists(e)' => Reached(e, seen)')
    BY <2>1, <2>2, StillReached DEF TrueCall
  <2> QED BY <1>1, <2>3, <2>4 DEF TrueCall, Reached, Exists
<1>2. CASE req'[r] = Idle
  BY <1>2 DEF Live, Idle
<1>3. CASE Starts(r)
  BY <1>3 DEF Starts, TrueCall, After
<1>4. CASE Step(r) /\ Carries(r)
  <2>1. Live(r) /\ req[r] \in Call /\ TrueCall(r) /\ req'[r] # Idle
    BY <1>0, <1>4, StepShape DEF CInv, TrueCalls, Live, Idle
  <2> PICK e, to, seen :
          /\ e \in Emergencies /\ to \in Statuses
          /\ e = req[r].em /\ to = req[r].to /\ seen = req[r].seen
    BY <2>1 DEF Call
  <2>2. ASSUME req'[r].pc \in After PROVE Exists(e)' => Reached(e, to)'
    <3>1. CASE req[r].pc \in After
      <4>1. row[e].status # "none" /\ (Exists(e) => Reached(e, to))
        BY <2>1, <3>1 DEF CInv, KnownIncidents, Creating, TrueCall, After
      <4> QED BY <4>1, StillReached
    <3>2. CASE CommitCreate(r) \/ CommitUpdate(r)
      <4>1. log'[e] = Append(log[e], EventOf(r)) /\ log[e] \in Seq(Event)
        BY <1>0, <3>2 DEF CommitCreate, CommitUpdate, TypeOK
      <4>2. EventOf(r) \in Event /\ EventOf(r).to = to
        BY <2>1, EventType DEF EventOf
      <4>3. /\ Len(log[e]) + 1 \in DOMAIN log'[e]
            /\ log'[e][Len(log[e]) + 1].to = to
        BY <4>1, <4>2, AppendedEvent
      <4> QED BY <4>3 DEF Reached
    <3>3. CASE Check(r) /\ Decision(req[r]) = "audit"
      <4>1. to = seen /\ req[r].pc = "check"
        BY <3>3 DEF Decision, Check, At
      <4>2. row[e].status # "none" /\ (Exists(e) => Reached(e, to))
        BY <2>1, <4>1 DEF CInv, KnownIncidents, Creating, TrueCall
      <4> QED BY <4>2, StillReached
    <3> QED BY <1>0, <1>4, <2>1, <2>2, <3>1, <3>2, <3>3, StepShape DEF After
  <2>3. ASSUME req'[r].pc = "check"
        PROVE  \E i \in DOMAIN log'[e] : log'[e][i].to = req'[r].seen
    <3>1. Read(r) /\ Exists(e) /\ req'[r].seen = row[e].status
      BY <1>0, <1>4, <2>1, <2>3, StepShape DEF After
    <3>2. UNCHANGED <<row, log>>
      BY <3>1 DEF Read, tables
    <3>3. Reached(e, row[e].status)
      BY <1>0, <3>1, LastIsReached DEF IInv
    <3> QED BY <3>1, <3>2, <3>3 DEF Reached
  <2> QED BY <1>4, <2>1, <2>2, <2>3 DEF Carries, TrueCall, Reached, Exists
<1> QED BY <1>0, <1>1, <1>2, <1>3, <1>4, SlotEffect

LEMMA AuditedStep == CInv /\ [Next]_vars => AuditedIncidents'
<1> SUFFICES ASSUME CInv, [Next]_vars, NEW m \in audits'
             PROVE  row'[m[1]].status # "none" /\ (Exists(m[1])' => Reached(m[1], m[2])')
  BY DEF AuditedIncidents
<1>0. TypeOK /\ CallsDecided /\ IInv
  BY DEF CInv, IInv
<1>1. \/ m \in audits
      \/ \E r \in Requests : Audit(r) /\ m = MessageOf(r)
  BY DEF Next, Step, vars, tables, StartCreate, StartUpdate, Begin, CommitCreate, CreateFails,
     Read, Check, CommitUpdate, UpdateFails, EmitUser, EmitAdmin, FindAudience, SendPush,
     Audit, GuardianAccepted, GuardianRemoved, DeviceDeleted, DeleteUser, Crash
<1>2. m \in Message /\ row[m[1]].status # "none" /\ (Exists(m[1]) => Reached(m[1], m[2]))
  <2>1. CASE m \in audits
    BY <1>0, <2>1 DEF CInv, AuditedIncidents, TypeOK
  <2>2. ASSUME NEW r \in Requests, Audit(r), m = MessageOf(r)
        PROVE  m \in Message /\ row[m[1]].status # "none" /\ (Exists(m[1]) => Reached(m[1], m[2]))
    <3>1. Live(r) /\ req[r] \in Call /\ TrueCall(r) /\ req[r].pc \in After /\ ~Creating(r)
      BY <1>0, <2>2, LiveIsCall DEF Audit, At, Live, CInv, TrueCalls, After, Creating
    <3>2. m = <<req[r].em, req[r].to>> /\ m \in Message
      BY <2>2, <3>1 DEF MessageOf, Message, Call
    <3> QED BY <3>1, <3>2 DEF CInv, KnownIncidents, TrueCall
  <2> QED BY <1>1, <2>1, <2>2
<1> PICK e \in Emergencies, s \in Statuses : m = <<e, s>>
  BY <1>2 DEF Message
<1>3. m[1] = e /\ m[2] = s
  OBVIOUS
<1>4. row'[e].status # "none" /\ (Exists(e)' => Reached(e, s)')
  BY <1>0, <1>2, <1>3, HistoryGrows, StillReached
<1> QED BY <1>3, <1>4

LEMMA PushStep == CInv /\ [Next]_vars => PushStaysInCircle'
<1> SUFFICES ASSUME CInv, [Next]_vars, NEW r \in Requests, At(r, "send")', NEW u \in req'[r].aud
             PROVE  \/ u = row'[req'[r].em].owner
                    \/ <<row'[req'[r].em].owner, u>> \in everGuards'
  BY DEF PushStaysInCircle
<1>0. TypeOK /\ CallsDecided /\ IInv /\ GuardsRemembered /\ everGuards \subseteq everGuards'
  BY GuardsStep DEF CInv, IInv
<1>1. CASE req'[r] = req[r]
  <2>1. Live(r) /\ req[r] \in Call /\ ~Creating(r) /\ At(r, "send")
    BY <1>0, <1>1, LiveIsCall DEF Live, At, Creating
  <2>2. req[r].em \in Emergencies /\ row[req[r].em].status # "none"
    BY <2>1 DEF CInv, KnownIncidents, Call
  <2>3. row'[req[r].em].owner = row[req[r].em].owner
    BY <1>0, <2>2, HistoryGrows
  <2> QED BY <1>0, <1>1, <2>1, <2>3 DEF CInv, PushStaysInCircle
<1>2. CASE req'[r] = Idle
  BY <1>2 DEF At, Idle
<1>3. CASE Starts(r)
  BY <1>3 DEF Starts, At
<1>4. CASE Step(r) /\ Carries(r)
  <2>1. Live(r) /\ req[r] \in Call
    BY <1>0, <1>4, StepShape
  <2>2. FindAudience(r)
    <3>1. /\ Check(r) => req'[r].pc # "send" 
          /\ Begin(r) => req'[r].pc # "send"
          /\ Read(r) => req'[r].pc # "send"
      <4>1. Check(r) => \/ Answer(r)
                        \/ \E pc \in {"begin", "audit"} : Goto(r, pc)
        BY DEF Check, Decision
      <4>2. ASSUME NEW pc \in {"begin", "audit"}, Goto(r, pc) PROVE req'[r].pc = pc
        BY <1>0, <2>1, <4>2, GotoCarries DEF Pcs
      <4>3. Read(r) => Answer(r) \/ req'[r].pc = "check"
        BY <1>0, ReadCarries DEF Read
      <4> QED BY <1>0, <4>1, <4>2, <4>3, BeginCarries, AnswerClears DEF Idle
    <3>2. ASSUME NEW pc \in {"audience", "emitUser", "emitAdmin", "audit"}, Goto(r, pc)
          PROVE  req'[r].pc # "send"
      BY <1>0, <2>1, <3>2, GotoCarries DEF Pcs
    <3>3. Answer(r) => req'[r].pc # "send"
      BY <1>0, AnswerClears DEF Idle
    <3> QED BY <1>4, <3>1, <3>2, <3>3 DEF Step, CommitCreate, CommitUpdate, CreateFails,
               UpdateFails, EmitUser, EmitAdmin, SendPush, Audit, AfterCommit, AfterEmit,
               AfterSend, At
  <2>3. req'[r].em = req[r].em /\ u \in Audience(row[req[r].em].owner) /\ UNCHANGED row
    BY <1>0, <2>2, AudienceCarries DEF Carries, FindAudience, tables
  <2> QED BY <1>0, <2>3 DEF Audience, GuardsRemembered
<1> QED BY <1>0, <1>1, <1>2, <1>3, <1>4, SlotEffect

LEMMA CInvStep == CInv /\ [Next]_vars => CInv'
BY InvStep, GuardsStep, KnownStep, EntitledStep, ActorsStep, TrueStep, AuditedStep, PushStep
   DEF CInv

LEMMA CInvariance == Spec => []CInv
BY CInvInit, CInvStep, PTL DEF Spec

\* Whatever is removed, revoked or restarted between a handler's check and its
\* commit, only the owner, an admin, or somebody the owner once accepted as a
\* guardian ever moved an incident.
THEOREM OnlyEntitledActors == Spec => []ActorsWereEntitled
BY CInvariance, PTL DEF CInv

\* An emergency.* row of the audit log never names a status the incident did
\* not get, also when the handler had nothing to change or lost a race.
THEOREM AuditsAlwaysTrue == Spec => []AuditsAreTrue
<1>1. CInv => AuditsAreTrue
  BY DEF CInv, AuditedIncidents, AuditsAreTrue, Reached
<1> QED BY <1>1, CInvariance, PTL

\* The people a push about an incident goes to were found while they were the
\* owner or an accepted guardian, however long ago that was.
THEOREM PushAlwaysInCircle == Spec => []PushStaysInCircle
BY CInvariance, PTL DEF CInv

-----------------------------------------------------------------------------
(* Every committed event is announced once.                                  *)
(*                                                                           *)
(* The count that stays true at every step: on each channel, what was        *)
(* emitted about a status of an incident, and what the handlers in flight    *)
(* still owe about it, make up the events of its history with that status.   *)

\* r has committed and not emitted to c yet.  A user's handler emits at once;
\* an admin's has its push before that.
Owes(r, c) ==
    \/ req[r].pc = "emitUser"
    \/ req[r].pc = "emitAdmin" /\ c = "admins"
    \/ req[r].pc \in {"audience", "send"} /\ req[r].op = "admin"

Concerns(r, e, s) == req[r].em = e /\ req[r].to = s
Owing(c, e, s) == {r \in Requests : Owes(r, c) /\ Concerns(r, e, s)}
Given(e, s) == {i \in DOMAIN log[e] : log[e][i].to = s}

Counted(c, e, s) ==
    /\ IsFiniteSet(Owing(c, e, s))
    /\ row[e].status = "none" => emitted[c][<<e, s>>] = 0
    /\ Exists(e) => emitted[c][<<e, s>>] + Cardinality(Owing(c, e, s)) = Cardinality(Given(e, s))

AllCounted ==
    crashes = 0 => \A c \in Channels, e \in Emergencies, s \in Statuses : Counted(c, e, s)

LEMMA CountedInit == Init => AllCounted
<1> SUFFICES ASSUME Init, NEW c \in Channels, NEW e \in Emergencies, NEW s \in Statuses
             PROVE  Counted(c, e, s)
  BY DEF AllCounted
<1>1. Owing(c, e, s) = {}
  BY DEF Init, Idle, Owing, Owes
<1>2. row[e].status = "none" /\ emitted[c][<<e, s>>] = 0
  BY DEF Init, NoRow, Message
<1> QED BY <1>1, <1>2, FS_EmptySet DEF Counted, Exists, Statuses

LEMMA GivenFinite ==
    ASSUME NEW events \in Seq(Event), NEW s
    PROVE  IsFiniteSet({i \in DOMAIN events : events[i].to = s})
<1>1. DOMAIN events = 1..Len(events) /\ Len(events) \in Nat
  OBVIOUS
<1>2. IsFiniteSet(1..Len(events))
  BY <1>1, FS_Interval
<1> QED BY <1>1, <1>2, FS_Subset

\* One more event: one more of its status, as many of the others.
LEMMA GivenGrows ==
    ASSUME TypeOK, NEW e \in Emergencies, NEW s, NEW ev \in Event,
           log'[e] = Append(log[e], ev)
    PROVE  /\ Cardinality(Given(e, s)) \in Nat
           /\ Cardinality(Given(e, s)') = Cardinality(Given(e, s)) + (IF ev.to = s THEN 1 ELSE 0)
<1>1. /\ log[e] \in Seq(Event)
      /\ DOMAIN log'[e] = 1..(Len(log[e]) + 1) /\ DOMAIN log[e] = 1..Len(log[e])
      /\ Len(log[e]) \in Nat
      /\ log'[e][Len(log[e]) + 1] = ev
      /\ \A i \in 1..Len(log[e]) : log'[e][i] = log[e][i]
  BY AppendedEvent DEF TypeOK
<1>2. IsFiniteSet(Given(e, s)) /\ Cardinality(Given(e, s)) \in Nat
  BY <1>1, GivenFinite, FS_CardinalityType DEF Given
<1>3. Given(e, s)' = IF ev.to = s THEN Given(e, s) \cup {Len(log[e]) + 1} ELSE Given(e, s)
  BY <1>1 DEF Given
<1>4. Len(log[e]) + 1 \notin Given(e, s)
  BY <1>1 DEF Given
<1>5. Cardinality(Given(e, s) \cup {Len(log[e]) + 1}) = Cardinality(Given(e, s)) + 1
  BY <1>2, <1>4, FS_AddElement
<1> QED BY <1>2, <1>3, <1>5

\* A handler starts or stops owing: the others owe what they owed.
LEMMA OwingGrows ==
    ASSUME NEW c, NEW e, NEW s, NEW r \in Requests, IsFiniteSet(Owing(c, e, s)),
           \A q \in Requests \ {r} : req'[q] = req[q],
           ~Owes(r, c), Owes(r, c)'
    PROVE  /\ IsFiniteSet(Owing(c, e, s)') /\ Cardinality(Owing(c, e, s)) \in Nat
           /\ Cardinality(Owing(c, e, s)') =
                Cardinality(Owing(c, e, s)) + (IF Concerns(r, e, s)' THEN 1 ELSE 0)
<1>1. r \notin Owing(c, e, s)
  BY DEF Owing
<1>2. Owing(c, e, s)' = IF Concerns(r, e, s)' THEN Owing(c, e, s) \cup {r} ELSE Owing(c, e, s)
  BY DEF Owing, Owes, Concerns
<1>3. Cardinality(Owing(c, e, s)) \in Nat
  BY FS_CardinalityType
<1>4. /\ IsFiniteSet(Owing(c, e, s) \cup {r})
      /\ Cardinality(Owing(c, e, s) \cup {r}) = Cardinality(Owing(c, e, s)) + 1
  BY <1>1, FS_AddElement
<1> QED BY <1>2, <1>3, <1>4

LEMMA OwingShrinks ==
    ASSUME NEW c, NEW e, NEW s, NEW r \in Requests, IsFiniteSet(Owing(c, e, s)),
           \A q \in Requests \ {r} : req'[q] = req[q],
           Owes(r, c), ~Owes(r, c)'
    PROVE  /\ IsFiniteSet(Owing(c, e, s)') /\ Cardinality(Owing(c, e, s)') \in Nat
           /\ Cardinality(Owing(c, e, s)) =
                Cardinality(Owing(c, e, s)') + (IF Concerns(r, e, s) THEN 1 ELSE 0)
<1>1. Owing(c, e, s)' = Owing(c, e, s) \ {r}
  BY DEF Owing, Owes, Concerns
<1>2. r \in Owing(c, e, s) <=> Concerns(r, e, s)
  BY DEF Owing
<1>3. /\ IsFiniteSet(Owing(c, e, s) \ {r})
      /\ Cardinality(Owing(c, e, s) \ {r}) =
           IF r \in Owing(c, e, s) THEN Cardinality(Owing(c, e, s)) - 1
           ELSE Cardinality(Owing(c, e, s))
  BY FS_RemoveElement
<1>4. Cardinality(Owing(c, e, s)) \in Nat /\ Cardinality(Owing(c, e, s) \ {r}) \in Nat
  BY <1>3, FS_CardinalityType
<1> QED BY <1>1, <1>2, <1>3, <1>4

LEMMA OwingStays ==
    ASSUME NEW c, NEW e, NEW s, NEW r \in Requests,
           \A q \in Requests \ {r} : req'[q] = req[q],
           (~Owes(r, c) /\ ~Owes(r, c)') \/ (Owes(r, c) /\ Owes(r, c)' /\ Carries(r))
    PROVE  Owing(c, e, s)' = Owing(c, e, s)
BY DEF Owing, Owes, Concerns, Carries

\* A commit makes its handler owe both channels one emission.
LEMMA CommitOwes ==
    ASSUME TypeOK, CallsDecided, NEW r \in Requests, CommitCreate(r) \/ CommitUpdate(r),
           NEW c \in Channels
    PROVE  /\ ~Owes(r, c) /\ Owes(r, c)' /\ Carries(r)
           /\ \A q \in Requests \ {r} : req'[q] = req[q]
<1>1. Live(r) /\ Goto(r, AfterCommit(req[r].op)) /\ req[r].pc = "commit"
  BY DEF CommitCreate, CommitUpdate, At, Live
<1>2. /\ Carries(r) /\ req'[r].pc = AfterCommit(req[r].op)
      /\ \A q \in Requests \ {r} : req'[q] = req[q]
  BY <1>1, GotoCarries DEF AfterCommit, Pcs
<1> QED BY <1>1, <1>2 DEF Owes, AfterCommit, Carries

LEMMA OwedIsKnown ==
    ASSUME CInv, NEW c, NEW r \in Requests, Owes(r, c)
    PROVE  Live(r) /\ req[r] \in Call /\ row[req[r].em].status # "none"
<1>1. Live(r) /\ ~Creating(r)
  BY DEF Owes, Live, Creating
<1> QED BY <1>1, LiveIsCall DEF CInv, IInv, KnownIncidents

\* What the other steps of a handler leave owed.
LEMMA OtherStepsOwe ==
    ASSUME TypeOK, CallsDecided, NEW r \in Requests, NEW c \in Channels,
           \/ Begin(r) \/ CreateFails(r) \/ Read(r) \/ Check(r) \/ UpdateFails(r)
           \/ FindAudience(r) \/ SendPush(r) \/ Audit(r)
    PROVE  (~Owes(r, c) /\ ~Owes(r, c)') \/ (Owes(r, c) /\ Owes(r, c)' /\ Carries(r))
<1>1. CASE CreateFails(r) \/ UpdateFails(r) \/ Audit(r)
  <2>1. req[r].pc \in {"commit", "audit"} /\ req'[r] = Idle
    BY <1>1, AnswerClears DEF CreateFails, UpdateFails, Audit, At
  <2> QED BY <2>1 DEF Owes, Idle
<1>2. CASE Begin(r)
  BY <1>2, BeginCarries DEF Owes, Begin, At
<1>3. CASE Read(r)
  <2>1. req[r].pc = "read" /\ (req'[r] = Idle \/ req'[r].pc = "check")
    BY <1>3, ReadCarries, AnswerClears DEF Read, At
  <2> QED BY <2>1 DEF Owes, Idle
<1>4. CASE Check(r)
  <2>1. req[r].pc = "check" /\ Live(r)
    BY <1>4 DEF Check, At, Live
  <2>2. Answer(r) \/ \E pc \in {"begin", "audit"} : Goto(r, pc)
    BY <1>4 DEF Check, Decision
  <2>3. ASSUME NEW pc \in {"begin", "audit"}, Goto(r, pc) PROVE req'[r].pc = pc
    BY <2>1, <2>3, GotoCarries DEF Pcs
  <2>4. req'[r] = Idle \/ req'[r].pc \in {"begin", "audit"}
    BY <2>2, <2>3, AnswerClears
  <2> QED BY <2>1, <2>4 DEF Owes, Idle
<1>5. CASE FindAudience(r)
  BY <1>5, AudienceCarries DEF Owes, FindAudience, At, Carries
<1>6. CASE SendPush(r)
  <2>1. req[r].pc = "send" /\ Live(r)
    BY <1>6 DEF SendPush, At, Live
  <2>2. CASE req[r].op = "admin"
    BY <1>6, <2>1, <2>2, GotoCarries DEF SendPush, AfterSend, Owes, Pcs
  <2>3. CASE req[r].op # "admin"
    BY <1>6, <2>1, <2>3, AnswerClears DEF SendPush, AfterSend, Owes, Idle
  <2> QED BY <2>2, <2>3
<1> QED BY <1>1, <1>2, <1>3, <1>4, <1>5, <1>6

LEMMA CountedStep == CInv /\ AllCounted /\ [Next]_vars => AllCounted'
<1> SUFFICES ASSUME CInv, AllCounted, [Next]_vars, crashes' = 0,
                    NEW c \in Channels, NEW e \in Emergencies, NEW s \in Statuses
             PROVE  Counted(c, e, s)'
  BY DEF AllCounted
<1>0. /\ TypeOK /\ CallsDecided /\ IInv
      /\ emitted[c] \in [Message -> Nat] /\ <<e, s>> \in Message
      /\ log[e] \in Seq(Event)
  BY DEF CInv, IInv, TypeOK, Message
<1>1. crashes = 0 /\ ~Crash
  <2>1. crashes' = crashes \/ Crash
    BY DEF Next, Step, vars, tables, StartCreate, StartUpdate, Begin, CommitCreate,
       CreateFails, Read, Check, CommitUpdate, UpdateFails, EmitUser, EmitAdmin, FindAudience,
       SendPush, Audit, GuardianAccepted, GuardianRemoved, DeviceDeleted, DeleteUser
  <2>2. crashes \in Nat /\ (Crash => crashes' = crashes + 1)
    BY <1>0 DEF TypeOK, Crash
  <2>3. ~Crash
    BY <2>2
  <2> QED BY <2>1, <2>3
<1>2. Counted(c, e, s)
  BY <1>1 DEF AllCounted
<1>3. Owing(c, e, s) # {} => row[e].status # "none"
  BY OwedIsKnown DEF Owing, Concerns
<1>4. ASSUME Owing(c, e, s)' = Owing(c, e, s), emitted' = emitted, UNCHANGED <<row[e], log[e]>>
      PROVE  Counted(c, e, s)'
  BY <1>2, <1>4 DEF Counted, Exists, Given
<1>5. ASSUME NEW r \in Requests, CommitCreate(r) \/ CommitUpdate(r) PROVE Counted(c, e, s)'
  <2>1. /\ ~Owes(r, c) /\ Owes(r, c)' /\ Carries(r)
        /\ \A q \in Requests \ {r} : req'[q] = req[q]
    BY <1>0, <1>5, CommitOwes
  <2>2. /\ IsFiniteSet(Owing(c, e, s)') /\ Cardinality(Owing(c, e, s)) \in Nat
        /\ Cardinality(Owing(c, e, s)') =
             Cardinality(Owing(c, e, s)) + (IF Concerns(r, e, s)' THEN 1 ELSE 0)
    BY <1>2, <2>1, OwingGrows DEF Counted
  <2>3. emitted' = emitted
    BY <1>5 DEF CommitCreate, CommitUpdate
  <2>4. CASE req[r].em # e
    <3>1. UNCHANGED <<row[e], log[e]>>
      BY <1>0, <1>5, <2>4 DEF CommitCreate, CommitUpdate, TypeOK
    <3>2. ~Concerns(r, e, s)'
      BY <2>1, <2>4 DEF Concerns, Carries
    <3> QED BY <1>2, <2>2, <2>3, <3>1, <3>2 DEF Counted, Exists, Given
  <2>5. CASE req[r].em = e
    <3>1. req[r] \in Call /\ EventOf(r) \in Event /\ EventOf(r).to = req[r].to
      BY <1>0, <1>5, LiveIsCall, EventType DEF CommitCreate, CommitUpdate, At, Live, EventOf
    <3>2. log'[e] = Append(log[e], EventOf(r))
      BY <1>0, <1>5, <2>5 DEF CommitCreate, CommitUpdate, TypeOK
    <3>3. /\ Cardinality(Given(e, s)) \in Nat
          /\ Cardinality(Given(e, s)') =
               Cardinality(Given(e, s)) + (IF EventOf(r).to = s THEN 1 ELSE 0)
      BY <1>0, <3>1, <3>2, GivenGrows
    <3>4. Concerns(r, e, s)' <=> EventOf(r).to = s
      BY <2>1, <2>5, <3>1 DEF Concerns, Carries
    <3>5. emitted[c][<<e, s>>] + Cardinality(Owing(c, e, s)) = Cardinality(Given(e, s))
      <4>1. CASE CommitCreate(r)
        <5>1. row[e].status = "none"
          BY <2>5, <4>1 DEF CInv, IInv, FreshIncidents, Creating, CommitCreate, At, Live
        <5>2. emitted[c][<<e, s>>] = 0 /\ Owing(c, e, s) = {}
          BY <1>2, <1>3, <5>1 DEF Counted
        <5>3. log[e] = <<>>
          BY <1>0, <5>1 DEF IInv, LogEndsAtStatus, Exists, Statuses
        <5>4. Given(e, s) = {}
          BY <5>3 DEF Given
        <5> QED BY <5>2, <5>4, FS_EmptySet
      <4>2. CASE CommitUpdate(r)
        BY <1>2, <2>5, <4>2 DEF CommitUpdate, Counted
      <4> QED BY <1>5, <4>1, <4>2
    <3>6. row'[e].status # "none"
      <4>1. CASE CommitCreate(r)
        BY <1>0, <2>5, <4>1 DEF CommitCreate, TypeOK
      <4>2. CASE CommitUpdate(r)
        BY <1>0, <2>5, <4>2, HistoryGrows DEF CommitUpdate, Exists, Statuses
      <4> QED BY <1>5, <4>1, <4>2
    <3>7. emitted[c][<<e, s>>] \in Nat
      BY <1>0
    <3>8. emitted'[c][<<e, s>>] + Cardinality(Owing(c, e, s)') = Cardinality(Given(e, s)')
      BY <2>2, <2>3, <3>3, <3>4, <3>5, <3>7
    <3> QED BY <2>2, <3>6, <3>8 DEF Counted
  <2> QED BY <2>4, <2>5
<1>6. ASSUME NEW r \in Requests, NEW x \in Channels, Emit(x, MessageOf(r)), Owes(r, c),
             x = c <=> ~Owes(r, c)', x # c => Carries(r), UNCHANGED <<row, log>>,
             \A q \in Requests \ {r} : req'[q] = req[q]
      PROVE  Counted(c, e, s)'
  <2>1. CASE x # c
    <3>1. emitted'[c] = emitted[c]
      BY <1>0, <1>6, <2>1 DEF Emit, TypeOK
    <3>2. Owing(c, e, s)' = Owing(c, e, s)
      BY <1>6, <2>1, OwingStays
    <3> QED BY <1>2, <1>6, <3>1, <3>2 DEF Counted, Exists, Given
  <2>2. CASE x = c
    <3>1. /\ IsFiniteSet(Owing(c, e, s)') /\ Cardinality(Owing(c, e, s)') \in Nat
          /\ Cardinality(Owing(c, e, s)) =
               Cardinality(Owing(c, e, s)') + (IF Concerns(r, e, s) THEN 1 ELSE 0)
      BY <1>2, <1>6, <2>2, OwingShrinks DEF Counted
    <3>2. req[r] \in Call /\ row[req[r].em].status # "none"
      BY <1>6, OwedIsKnown
    <3>3. MessageOf(r) \in Message /\ (MessageOf(r) = <<e, s>> <=> Concerns(r, e, s))
      BY <3>2 DEF MessageOf, Message, Concerns, Call
    <3>4. emitted'[c][<<e, s>>] = emitted[c][<<e, s>>] + (IF Concerns(r, e, s) THEN 1 ELSE 0)
      <4> PICK m \in Message : m = MessageOf(r)
        BY <3>3
      <4>1. emitted' = [emitted EXCEPT ![c][m] = @ + 1]
        BY <1>6, <2>2 DEF Emit
      <4>2. emitted'[c] = [emitted[c] EXCEPT ![m] = @ + 1]
        BY <1>0, <4>1 DEF TypeOK
      <4>3. emitted'[c][<<e, s>>] = IF m = <<e, s>> THEN emitted[c][<<e, s>>] + 1
                                    ELSE emitted[c][<<e, s>>]
        BY <1>0, <4>2
      <4>4. emitted[c][<<e, s>>] \in Nat
        BY <1>0
      <4> QED BY <3>3, <4>3, <4>4
    <3>5. emitted[c][<<e, s>>] \in Nat
      BY <1>0
    <3>6. emitted'[c][<<e, s>>] + Cardinality(Owing(c, e, s)') =
            emitted[c][<<e, s>>] + Cardinality(Owing(c, e, s))
      BY <3>1, <3>4, <3>5
    <3>7. Concerns(r, e, s) => row[e].status # "none"
      BY <3>2 DEF Concerns
    <3> QED BY <1>2, <1>6, <3>1, <3>4, <3>5, <3>6, <3>7 DEF Counted, Exists, Given
  <2> QED BY <2>1, <2>2
<1>7. ASSUME NEW r \in Requests, EmitUser(r) PROVE Counted(c, e, s)'
  <2>1. Live(r) /\ req[r].pc = "emitUser"
    BY <1>7 DEF EmitUser, At, Live
  <2>2. Carries(r) /\ req'[r].pc = "emitAdmin" /\ \A q \in Requests \ {r} : req'[q] = req[q]
    BY <1>0, <1>7, <2>1, GotoCarries DEF EmitUser, Pcs
  <2>3. Owes(r, c) /\ ("owner" = c <=> ~Owes(r, c)')
    BY <2>1, <2>2 DEF Owes, Channels
  <2> QED BY <1>6, <1>7, <2>2, <2>3 DEF EmitUser, Channels, tables
<1>8. ASSUME NEW r \in Requests, EmitAdmin(r) PROVE Counted(c, e, s)'
  <2>1. Live(r) /\ req[r].pc = "emitAdmin"
    BY <1>8 DEF EmitAdmin, At, Live
  <2>2. /\ Carries(r) /\ req'[r].pc = AfterEmit(req[r].op)
        /\ \A q \in Requests \ {r} : req'[q] = req[q]
    BY <1>0, <1>8, <2>1, GotoCarries DEF EmitAdmin, AfterEmit, Pcs
  <2>3. ~Owes(r, c)' /\ (Owes(r, c) <=> c = "admins")
    BY <2>1, <2>2 DEF Owes, AfterEmit, Carries
  <2>4. CASE c = "admins"
    BY <1>6, <1>8, <2>2, <2>3, <2>4 DEF EmitAdmin, Channels, tables
  <2>5. CASE c # "admins"
    <3>1. Owing(c, e, s)' = Owing(c, e, s)
      BY <2>2, <2>3, <2>5, OwingStays
    <3>2. emitted'[c] = emitted[c] /\ UNCHANGED <<row, log>>
      BY <1>0, <1>8, <2>5 DEF EmitAdmin, Emit, TypeOK, tables
    <3> QED BY <1>2, <3>1, <3>2 DEF Counted, Exists, Given
  <2> QED BY <2>4, <2>5
<1>9. ASSUME NEW r \in Requests, 
             \/ Begin(r) \/ CreateFails(r) \/ Read(r) \/ Check(r) \/ UpdateFails(r)
             \/ FindAudience(r) \/ SendPush(r) \/ Audit(r)
      PROVE  Counted(c, e, s)'
  <2>1. \A q \in Requests \ {r} : req'[q] = req[q]
    BY <1>0, <1>9, StepShape DEF Step
  <2>2. Owing(c, e, s)' = Owing(c, e, s)
    BY <1>0, <1>9, <2>1, OtherStepsOwe, OwingStays
  <2>3. emitted' = emitted /\ UNCHANGED <<row, log>>
    BY <1>9 DEF Begin, CreateFails, Read, Check, UpdateFails, FindAudience, SendPush, Audit, tables
  <2> QED BY <1>4, <2>2, <2>3
<1>10. ASSUME NEW r \in Requests, StartCreate(r) \/ StartUpdate(r) PROVE Counted(c, e, s)'
  <2>1. /\ req[r].pc = "idle" /\ req'[r].pc \in {"begin", "read"}
        /\ \A q \in Requests \ {r} : req'[q] = req[q]
        /\ emitted' = emitted /\ UNCHANGED <<row, log>>
    BY <1>0, <1>10 DEF StartCreate, StartUpdate, Live, TypeOK, tables
  <2>2. Owing(c, e, s)' = Owing(c, e, s)
    BY <2>1, OwingStays DEF Owes
  <2> QED BY <1>4, <2>1, <2>2
<1>11. ASSUME NEW u \in Users, DeleteUser(u) PROVE Counted(c, e, s)'
  <2>1. req' = req /\ emitted' = emitted
    BY <1>11 DEF DeleteUser
  <2>2. Owing(c, e, s)' = Owing(c, e, s)
    BY <2>1 DEF Owing, Owes, Concerns
  <2>3. CASE Erases(e)
    BY <1>2, <2>1, <2>2, <2>3 DEF Erases, Counted, Exists
  <2>4. ASSUME NEW v \in Users, Forgets(v, e) PROVE Counted(c, e, s)'
    <3>1. /\ DOMAIN log'[e] = DOMAIN log[e] /\ row'[e] = row[e]
          /\ \A i \in DOMAIN log[e] : log'[e][i].to = log[e][i].to
      BY <1>0, <2>4, AnonymousType DEF Forgets
    <3>2. Given(e, s)' = Given(e, s)
      BY <3>1 DEF Given
    <3> QED BY <1>2, <2>1, <2>2, <3>1, <3>2 DEF Counted, Exists
  <2> QED BY <1>0, <1>11, <2>3, <2>4, DeletionEffect
<1>12. CASE UNCHANGED <<row, log, req, emitted>>
  BY <1>4, <1>12 DEF Owing, Owes, Concerns
<1> QED BY <1>1, <1>5, <1>7, <1>8, <1>9, <1>10, <1>11, <1>12 DEF Next, Step, vars, tables,
        GuardianAccepted, GuardianRemoved, DeviceDeleted

LEMMA CountedInvariance == Spec => [](CInv /\ AllCounted)
<1>1. Init => CInv /\ AllCounted
  BY CInvInit, CountedInit
<1>2. CInv /\ AllCounted /\ [Next]_vars => (CInv /\ AllCounted)'
  BY CInvStep, CountedStep
<1> QED BY <1>1, <1>2, PTL DEF Spec

\* Unless the server restarts, once the handlers are done each event of an
\* incident that is there has been emitted exactly once to each channel,
\* however many handlers overlapped and in whatever order they emitted.
THEOREM AlwaysAnnouncedOnce == Spec => []AnnouncedOnce
<1>1. ASSUME CInv, AllCounted, crashes = 0, \A r \in Requests : ~Live(r),
             NEW m \in Message, NEW c \in Channels, Exists(m[1])
      PROVE  emitted[c][m] = Cardinality({i \in DOMAIN log[m[1]] : log[m[1]][i].to = m[2]})
  <2> PICK e \in Emergencies, s \in Statuses : m = <<e, s>>
    BY DEF Message
  <2>1. m[1] = e /\ m[2] = s
    OBVIOUS
  <2>2. Counted(c, e, s)
    BY <1>1 DEF AllCounted
  <2>3. Owing(c, e, s) = {}
    BY <1>1 DEF Owing, Owes, Live
  <2>4. emitted[c][<<e, s>>] \in Nat
    BY <1>1 DEF CInv, IInv, TypeOK
  <2> QED BY <1>1, <2>1, <2>2, <2>3, <2>4, FS_EmptySet DEF Counted, Given
<1>2. CInv /\ AllCounted => AnnouncedOnce
  BY <1>1 DEF AnnouncedOnce
<1> QED BY <1>2, CountedInvariance, PTL

-----------------------------------------------------------------------------
(* One request at a time.  A handler that runs alone acts on the status it   *)
(* read, so the table of transitions holds between the events and not only   *)
(* inside each; the accounts and guardianships may still come and go.        *)

SerialCall(r) ==
    /\ req[r].op # "create" /\ req[r].pc \in {"check", "begin", "commit"} /\ Exists(req[r].em)
         => req[r].seen = row[req[r].em].status
    /\ req[r].pc = "commit" /\ (req[r].op = "create" \/ Exists(req[r].em))
         => req[r].at = Len(log[req[r].em])

SerialCalls == \A r \in Requests : Live(r) => SerialCall(r)

LEMMA SerialCallsStep ==
    ASSUME \A r, q \in Requests : r = q
    PROVE  IInv /\ SerialCalls /\ [Next]_vars => SerialCalls'
<1> SUFFICES ASSUME IInv, SerialCalls, [Next]_vars, NEW r \in Requests, Live(r)'
             PROVE  SerialCall(r)'
  BY DEF SerialCalls
<1>0. TypeOK /\ CallsDecided
  BY DEF IInv
<1>1. CASE Step(r)
  <2>1. Live(r) /\ SerialCall(r) /\ req'[r] # Idle
    BY <1>0, <1>1, StepShape DEF SerialCalls, Live, Idle
  <2>2. CASE req'[r].pc \in After \/ req'[r].pc = "audit"
    BY <2>2 DEF SerialCall, After
  <2>3. CASE Read(r) /\ Exists(req[r].em) /\ Carries(r) /\ req'[r].pc = "check"
             /\ req'[r].seen = row[req[r].em].status
    BY <2>3 DEF SerialCall, Carries, Read, tables, Exists
  <2>4. CASE Check(r) /\ Carries(r) /\ req'[r].pc = "begin" /\ req'[r].seen = req[r].seen
    BY <2>1, <2>4 DEF SerialCall, Carries, Check, At, tables, Exists
  <2>5. CASE Begin(r)
    <3>1. /\ Carries(r) /\ req'[r].pc = "commit" /\ req[r].pc = "begin"
          /\ req'[r].seen = req[r].seen /\ req'[r].at = Len(log[req[r].em])
          /\ UNCHANGED <<row, log>>
      BY <1>0, <2>5, BeginCarries DEF Begin, At, tables
    <3> QED BY <2>1, <3>1 DEF SerialCall, Carries, Exists
  <2> QED BY <1>0, <1>1, <2>1, <2>2, <2>3, <2>4, <2>5, StepShape DEF After
<1>2. CASE StartCreate(r) \/ StartUpdate(r)
  <2>1. (req'[r].pc = "begin" /\ req'[r].op = "create") \/ req'[r].pc = "read"
    BY <1>0, <1>2 DEF StartCreate, StartUpdate, TypeOK
  <2> QED BY <2>1 DEF SerialCall
<1>3. ASSUME NEW u \in Users, DeleteUser(u) PROVE SerialCall(r)'
  <2>1. req' = req /\ Live(r) /\ SerialCall(r) /\ req[r] \in Call
    BY <1>0, <1>3, LiveIsCall DEF DeleteUser, Live, SerialCalls
  <2> PICK e \in Emergencies : e = req[r].em
    BY <2>1 DEF Call
  <2>2. CASE Erases(e)
    <3>1. req[r].op = "create" /\ req[r].pc = "commit" => Len(log[e]) = 0
      BY <2>1 DEF IInv, FreshIncidents, Creating, LogEndsAtStatus, Exists, Statuses
    <3>2. Len(log'[e]) = 0 /\ row'[e].status \notin Statuses
      BY <2>2 DEF Erases
    <3> QED BY <2>1, <3>1, <3>2 DEF SerialCall, Exists
  <2>3. ASSUME NEW v \in Users, Forgets(v, e) PROVE SerialCall(r)'
    <3>1. Len(log'[e]) = Len(log[e]) /\ row'[e] = row[e]
      BY <1>0, <2>3, AnonymousType DEF Forgets, TypeOK
    <3> QED BY <2>1, <3>1 DEF SerialCall, Exists
  <2> QED BY <1>0, <1>3, <2>2, <2>3, DeletionEffect
<1>4. CASE Crash
  BY <1>4 DEF Crash, Live, Idle
<1>5. CASE UNCHANGED <<req, row, log>>
  BY <1>5 DEF SerialCalls, SerialCall, Live, Exists
<1> QED BY <1>1, <1>2, <1>3, <1>4, <1>5 DEF Next, vars, tables, GuardianAccepted,
        GuardianRemoved, DeviceDeleted

LEMMA TimelineStep ==
    IInv /\ SerialCalls /\ TimelineChains /\ [Next]_vars => TimelineChains'
<1> SUFFICES ASSUME IInv, SerialCalls, TimelineChains, [Next]_vars, NEW e \in Emergencies,
                    NEW i \in DOMAIN log'[e], NEW j \in DOMAIN log'[e]
             PROVE  /\ j = i + 1 => log'[e][j].from = log'[e][i].to
                    /\ log'[e][j].at = j - 1
  BY DEF TimelineChains
<1>0. TypeOK /\ log[e] \in Seq(Event)
  BY DEF IInv, TypeOK
<1>1. CASE UNCHANGED <<row[e], log[e]>>
  BY <1>1 DEF TimelineChains
<1>2. ASSUME NEW r \in Requests, Opens(r, e)
      PROVE  i = 1 /\ j = 1 /\ log'[e][j].at = 0
  <2>1. log[e] = <<>>
    BY <1>2 DEF Opens, IInv, LogEndsAtStatus, Exists, Statuses
  <2>2. req[r].at = 0
    BY <1>2, <2>1 DEF Opens, CommitCreate, At, SerialCalls, SerialCall, Live
  <2> QED BY <1>2, <2>2 DEF Opens, EventOf
<1>3. ASSUME NEW r \in Requests, Moves(r, e)
      PROVE  /\ j = i + 1 => log'[e][j].from = log'[e][i].to
             /\ log'[e][j].at = j - 1
  <2>1. Live(r) /\ req[r] \in Call /\ Exists(e) /\ SerialCall(r)
    BY <1>0, <1>3, LiveIsCall DEF Moves, CommitUpdate, At, Live, SerialCalls
  <2>2. req[r].seen = row[e].status /\ req[r].at = Len(log[e])
    BY <1>3, <2>1 DEF Moves, CommitUpdate, At, SerialCall
  <2>3. /\ EventOf(r) \in Event /\ EventOf(r).at = Len(log[e])
        /\ EventOf(r).from = log[e][Len(log[e])].to /\ Len(log[e]) \in Nat \ {0}
    BY <1>0, <2>1, <2>2, EventType DEF EventOf, IInv, LogEndsAtStatus
  <2>4. /\ DOMAIN log'[e] = 1..(Len(log[e]) + 1) /\ DOMAIN log[e] = 1..Len(log[e])
        /\ log'[e][Len(log[e]) + 1] = EventOf(r)
        /\ \A k \in 1..Len(log[e]) : log'[e][k] = log[e][k]
    BY <1>0, <1>3, <2>3, AppendedEvent DEF Moves
  <2>5. CASE j \in DOMAIN log[e]
    <3>1. j = i + 1 => i \in DOMAIN log[e]
      BY <2>3, <2>4, <2>5
    <3> QED BY <2>4, <2>5, <3>1 DEF TimelineChains
  <2>6. CASE j \notin DOMAIN log[e]
    <3>1. j = Len(log[e]) + 1 /\ log'[e][j] = EventOf(r)
      BY <2>3, <2>4, <2>6
    <3>2. j = i + 1 => i = Len(log[e]) /\ log'[e][i] = log[e][i]
      BY <2>3, <2>4, <3>1
    <3> QED BY <2>3, <3>1, <3>2
  <2> QED BY <2>5, <2>6
<1>4. CASE Erases(e)
  BY <1>4 DEF Erases
<1>5. ASSUME NEW u \in Users, Forgets(u, e)
      PROVE  /\ j = i + 1 => log'[e][j].from = log'[e][i].to
             /\ log'[e][j].at = j - 1
  <2>1. /\ i \in DOMAIN log[e] /\ log'[e][i].to = log[e][i].to
        /\ j \in DOMAIN log[e] /\ log'[e][j].from = log[e][j].from
        /\ log'[e][j].at = log[e][j].at
    BY <1>0, <1>5, ForgottenActors DEF Forgets
  <2> QED BY <2>1 DEF TimelineChains
<1> QED BY <1>0, <1>1, <1>2, <1>3, <1>4, <1>5, TableEffect

LEMMA SerialInit == Init => SerialCalls /\ TimelineChains
BY DEF Init, Idle, SerialCalls, Live, TimelineChains

LEMMA SerialInvariance ==
    ASSUME \A r, q \in Requests : r = q
    PROVE  Spec => [](IInv /\ SerialCalls /\ TimelineChains)
<1>1. Init => IInv /\ SerialCalls /\ TimelineChains
  BY InvInit, SerialInit
<1>2. IInv /\ SerialCalls /\ TimelineChains /\ [Next]_vars
        => (IInv /\ SerialCalls /\ TimelineChains)'
  BY InvStep, SerialCallsStep, TimelineStep
<1> QED BY <1>1, <1>2, PTL DEF Spec

\* When requests do not overlap, each event starts from the status the one
\* before it gave, and their times are in the order of their commits.
THEOREM TimelineChainsOneAtATime ==
    ASSUME \A r, q \in Requests : r = q
    PROVE  Spec => []TimelineChains
BY SerialInvariance, PTL

LEMMA SerialContractStep ==
    ASSUME \A r, q \in Requests : r = q, IInv, SerialCalls, [Next]_vars
    PROVE  [Contract!LegalNext]_(Contract!vars)
<1>1. ASSUME NEW r \in Requests, NEW e \in Emergencies, NEW to,
             CommitUpdate(r), e = req[r].em, to = req[r].to, Contract!Move(e, to)
      PROVE  Contract!LegalNext
  <2>1. Live(r) /\ SerialCall(r) /\ to \in Allowed(req[r].seen)
    BY <1>1 DEF CommitUpdate, At, Live, SerialCalls, IInv, CallsDecided, CallDecided
  <2>2. req[r].seen = row[e].status
    BY <1>1, <2>1 DEF CommitUpdate, At, SerialCall
  <2>3. to \in Contract!Allowed(StatusOf[e])
    BY <2>1, <2>2, SameTable DEF StatusOf
  <2> QED BY <1>1, <2>3 DEF Contract!LegalNext
<1> QED BY <1>1, RecordStep DEF RecordNext, Contract!LegalNext

\* When requests do not overlap, every incident's record implements the strong
\* contract: it moves along the table of transitions only.
THEOREM ImplementsContractOneAtATime ==
    ASSUME \A r, q \in Requests : r = q
    PROVE  Spec => KeepsContract
<1>1. IInv /\ SerialCalls /\ [Next]_vars => [Contract!LegalNext]_(Contract!vars)
  BY SerialContractStep
<1> QED BY <1>1, ContractInit, SerialInvariance, PTL DEF Spec, KeepsContract, Contract!Spec

\* When requests do not overlap, a closed incident keeps the outcome it was given
\* until its owner's account is deleted: overlap is the only way to reopen the
\* decision, by a transition checked on a row that has changed since.
THEOREM TerminalIsFinalOneAtATime ==
    ASSUME \A r, q \in Requests : r = q
    PROVE  Spec => TerminalIsFinal
<1> DEFINE Keeps == \A e \in Emergencies :
             row[e].status \in Closed => row'[e].status \in {row[e].status, "gone"}
<1>1. ASSUME IInv, SerialCalls, [Next]_vars PROVE [Keeps]_vars
  <2> SUFFICES ASSUME NEW e \in Emergencies, row[e].status \in Closed
               PROVE  row'[e].status \in {row[e].status, "gone"}
    OBVIOUS
  <2>1. [Contract!LegalNext]_(Contract!vars) BY <1>1, SerialContractStep
  <2>2. StatusOf[e] = row[e].status /\ StatusOf'[e] = row'[e].status
    BY DEF StatusOf
  <2>3. StatusOf[e] \in {"resolved", "cancelled"} BY <2>2 DEF Closed
  <2>4. StatusOf'[e] \in {StatusOf[e], "gone"}
    <3>1. CASE UNCHANGED Contract!vars BY <3>1 DEF Contract!vars
    <3>2. ASSUME NEW f \in Emergencies, Contract!Open(f) PROVE StatusOf'[e] = StatusOf[e]
      BY <3>2, <2>3 DEF Contract!Open, StatusOf
    <3>3. ASSUME NEW f \in Emergencies, NEW to \in Contract!Allowed(StatusOf[f]),
                 Contract!Move(f, to)
          PROVE  StatusOf'[e] = StatusOf[e]
      BY <3>3, <2>3 DEF Contract!Move, Contract!Allowed, StatusOf
    <3>4. ASSUME NEW es \in SUBSET Emergencies, Contract!Erase(es)
          PROVE  StatusOf'[e] \in {StatusOf[e], "gone"}
      BY <3>4 DEF Contract!Erase
    <3> QED BY <2>1, <3>1, <3>2, <3>3, <3>4 DEF Contract!LegalNext
  <2> QED BY <2>2, <2>4
<1>2. IInv /\ SerialCalls /\ [Next]_vars => [Keeps]_vars
  BY <1>1
<1> QED BY <1>2, SerialInvariance, PTL DEF Spec, TerminalIsFinal

=============================================================================
