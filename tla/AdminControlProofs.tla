-------------------------- MODULE AdminControlProofs --------------------------
(***************************************************************************)
(* Proofs about AdminControl, for any accounts, request slots and bounds.  *)
(***************************************************************************)
EXTENDS MCAdminControl, TLAPS

LEMMA Appended ==
    ASSUME NEW S, NEW s \in Seq(S), NEW e \in S
    PROVE  /\ Append(s, e) \in Seq(S)
           /\ Len(Append(s, e)) = Len(s) + 1
           /\ \A i \in 1..Len(s) : Append(s, e)[i] = s[i]
           /\ Append(s, e)[Len(s) + 1] = e
OBVIOUS

LEMMA LiveIsCall ==
    ASSUME AdminTypeOK, NEW r \in AdminRequests, AdminLive(r)
    PROVE  adminReq[r] \in AdminCall
BY DEF AdminTypeOK, AdminLive, AdminIdle

LEMMA ChangedType ==
    ASSUME NEW op \in AllOps, NEW row \in User
    PROVE  Changed(op, row) \in User
BY DEF Changed, User, Gone, AllOps

\* What answering and recording do to the slots.
LEMMA AnswerSlot ==
    ASSUME AdminTypeOK, NEW r \in AdminRequests, AdminAnswer(r)
    PROVE  /\ adminReq' \in [AdminRequests -> AdminCall \cup {AdminIdle}]
           /\ adminReq'[r] = AdminIdle
           /\ \A q \in AdminRequests : q # r => adminReq'[q] = adminReq[q]
BY DEF AdminTypeOK, AdminAnswer

LEMMA RecordSlot ==
    ASSUME AdminTypeOK, NEW r \in AdminRequests, AdminLive(r), NEW pc \in AdminPcs, Record(r, pc)
    PROVE  /\ adminReq' \in [AdminRequests -> AdminCall \cup {AdminIdle}]
           /\ adminReq'[r].pc = pc /\ adminReq'[r].n = Len(effects) + 1 /\ adminReq'[r].op = adminReq[r].op
           /\ adminReq'[r].actor = adminReq[r].actor /\ adminReq'[r].target = adminReq[r].target
           /\ \A q \in AdminRequests : q # r => adminReq'[q] = adminReq[q]
<1>1. adminReq[r] \in AdminCall /\ Len(effects) + 1 \in Nat
  BY LiveIsCall DEF AdminTypeOK
<1>2. LET c == [adminReq[r] EXCEPT !.pc = pc, !.n = Len(effects) + 1] IN
        /\ c \in AdminCall /\ c.pc = pc /\ c.n = Len(effects) + 1 /\ c.op = adminReq[r].op
        /\ c.actor = adminReq[r].actor /\ c.target = adminReq[r].target
  BY <1>1 DEF AdminCall
<1>3. adminReq'[r] = [adminReq[r] EXCEPT !.pc = pc, !.n = Len(effects) + 1]
  BY DEF AdminTypeOK, Record
<1>4. \A q \in AdminRequests : q # r => adminReq'[q] = adminReq[q]
  BY DEF AdminTypeOK, Record
<1>5. adminReq' \in [AdminRequests -> AdminCall \cup {AdminIdle}]
  <2>1. DOMAIN adminReq' = AdminRequests /\ \A q \in AdminRequests : adminReq'[q] \in AdminCall \cup {AdminIdle}
    BY <1>2, <1>3, <1>4 DEF AdminTypeOK, Record
  <2>2. adminReq' = [q \in AdminRequests |-> adminReq'[q]]
    BY DEF AdminTypeOK, Record
  <2> QED BY <2>1, <2>2
<1> QED BY <1>2, <1>3, <1>4, <1>5

LEMMA PcSlot ==
    ASSUME AdminTypeOK, NEW r \in AdminRequests, AdminLive(r), NEW pc \in AdminPcs,
           adminReq' = [adminReq EXCEPT ![r].pc = pc]
    PROVE  /\ adminReq' \in [AdminRequests -> AdminCall \cup {AdminIdle}]
           /\ adminReq'[r] = [adminReq[r] EXCEPT !.pc = pc]
           /\ adminReq'[r].pc = pc /\ adminReq'[r].n = adminReq[r].n /\ adminReq'[r].op = adminReq[r].op
           /\ adminReq'[r].actor = adminReq[r].actor /\ adminReq'[r].target = adminReq[r].target
           /\ \A q \in AdminRequests : q # r => adminReq'[q] = adminReq[q]
<1>1. adminReq[r] \in AdminCall
  BY LiveIsCall
<1>2. LET c == [adminReq[r] EXCEPT !.pc = pc] IN
        /\ c \in AdminCall /\ c.pc = pc /\ c.n = adminReq[r].n /\ c.op = adminReq[r].op
        /\ c.actor = adminReq[r].actor /\ c.target = adminReq[r].target
  BY <1>1 DEF AdminCall
<1>3. adminReq'[r] = [adminReq[r] EXCEPT !.pc = pc]
  BY DEF AdminTypeOK
<1>4. \A q \in AdminRequests : q # r => adminReq'[q] = adminReq[q]
  BY DEF AdminTypeOK
<1>5. adminReq' \in [AdminRequests -> AdminCall \cup {AdminIdle}]
  BY <1>2, <1>3, <1>4 DEF AdminTypeOK
<1> QED BY <1>2, <1>3, <1>4, <1>5

-----------------------------------------------------------------------------
(* The inductive invariant *)

\* A handler has made its change exactly from that statement on.
Numbering == \A r \in AdminRequests : AdminLive(r) =>
    /\ adminReq[r].pc = "read" => adminReq[r].n = 0
    /\ adminReq[r].pc = "write" => adminReq[r].n = 0
    /\ adminReq[r].pc = "revoke" => (adminReq[r].n = 0 <=> adminReq[r].op \in {"delete", "logout"})
    /\ adminReq[r].pc = "audit" => adminReq[r].n # 0

\* Effect e is what call c has to report.
Tells(e, c) == e.actor = c.actor /\ e.op = c.op /\ e.target = c.target

\* The effect a handler remembers is its own, and not in the trail yet.
Owned == \A r \in AdminRequests : AdminLive(r) /\ adminReq[r].n # 0 =>
    /\ adminReq[r].n \in Changes
    /\ Tells(effects[adminReq[r].n], adminReq[r])
    /\ ~Audited(adminReq[r].n)
    /\ \A q \in AdminRequests : AdminLive(q) /\ adminReq[q].n = adminReq[r].n => q = r

\* What was reported and not made is for want of the account.
MissesExplained == \A n \in Changes :
    effects[n].made \/ (effects[n].op \in Blind /\ ~user[effects[n].target].there)

IInv == /\ AdminTypeOK /\ Numbering /\ Owned /\ MissesExplained
        /\ TrailIsTrue /\ GapsExplained

LEMMA InvInit == AdminInit => IInv
<1> SUFFICES ASSUME AdminInit PROVE IInv
  OBVIOUS
<1>1. audit = <<>> /\ effects = <<>> /\ \A r \in AdminRequests : adminReq[r].pc = "idle"
  BY DEF AdminInit, AdminIdle
<1>2. AdminTypeOK
  BY AdminAssumption DEF AdminInit, AdminTypeOK, User, AdminIdle
<1>3. Len(audit) = 0 /\ Len(effects) = 0
  BY <1>1
<1> QED BY <1>1, <1>2, <1>3
  DEF IInv, Numbering, Owned, MissesExplained, TrailIsTrue, GapsExplained, AdminLive, Changes

\* A step of the portal that makes no change and writes nothing to the trail.
Quietly ==
    /\ effects' = effects /\ audit' = audit /\ user' = user /\ lost' = lost
    /\ \A r \in AdminRequests :
         \/ /\ adminReq'[r].pc # "idle" => adminReq'[r].n = adminReq[r].n /\ AdminLive(r)
                 /\ adminReq'[r].actor = adminReq[r].actor /\ adminReq'[r].op = adminReq[r].op
                 /\ adminReq'[r].target = adminReq[r].target
            /\ AdminLive(r) /\ adminReq[r].n # 0 => adminReq'[r].pc # "idle"
         \/ adminReq'[r].n = 0 /\ (AdminLive(r) => adminReq[r].n = 0)

LEMMA QuietlyKeeps ==
    ASSUME IInv, AdminTypeOK', Numbering', Quietly
    PROVE  IInv'
<1> USE DEF IInv
<1>1. Changes' = Changes
  BY DEF Quietly, Changes
<1>2. \A n : Audited(n)' <=> Audited(n)
  BY DEF Quietly, Audited
<1>3. \A r \in AdminRequests : AdminLive(r)' /\ adminReq'[r].n # 0 =>
        /\ AdminLive(r) /\ adminReq'[r].n = adminReq[r].n /\ adminReq'[r].actor = adminReq[r].actor
        /\ adminReq'[r].op = adminReq[r].op /\ adminReq'[r].target = adminReq[r].target
  BY DEF Quietly, AdminLive
<1>4. \A r \in AdminRequests : AdminLive(r) /\ adminReq[r].n # 0 => AdminLive(r)' /\ adminReq'[r].n = adminReq[r].n
  BY DEF Quietly, AdminLive
<1>5. Owned' /\ MissesExplained'
  BY <1>1, <1>2, <1>3 DEF Owned, Tells, MissesExplained, Quietly
<1>6. TrailIsTrue'
  BY <1>1 DEF TrailIsTrue, Quietly
<1>7. \A n \in Changes : Pending(n) => Pending(n)'
  BY <1>4 DEF Pending, Changes
<1>8. GapsExplained'
  BY <1>1, <1>2, <1>7 DEF GapsExplained, Quietly
<1> QED BY <1>5, <1>6, <1>8

LEMMA BeginKeeps ==
    ASSUME IInv, NEW r \in AdminRequests, AdminBegin(r)
    PROVE  IInv'
<1> USE DEF IInv
<1>1. PICK actor \in Accounts, op \in AdminOps, target \in Accounts :
        adminReq' = [adminReq EXCEPT ![r] = [pc |-> FirstStep(op), actor |-> actor,
                                             op |-> op, target |-> target, n |-> 0]]
  BY DEF AdminBegin
<1>2. ~AdminLive(r) /\ starts' = starts + 1
      /\ UNCHANGED <<user, audit, adminCrashes, effects, lost>>
  BY DEF AdminBegin
<1>3. op \in AllOps /\ FirstStep(op) \in {"read", "write"}
  BY AdminAssumption DEF FirstStep
<1>4. /\ adminReq' \in [AdminRequests -> AdminCall \cup {AdminIdle}]
      /\ adminReq'[r].n = 0 /\ adminReq'[r].pc \in {"read", "write"}
      /\ \A q \in AdminRequests : q # r => adminReq'[q] = adminReq[q]
  BY <1>1, <1>3 DEF AdminTypeOK, AdminCall, AdminPcs
<1>5. AdminTypeOK'
  BY <1>2, <1>4 DEF AdminTypeOK
<1>6. Numbering'
  BY <1>4 DEF Numbering, AdminLive
<1>7. Quietly
  BY <1>2, <1>4 DEF Quietly, AdminLive
<1> QED BY <1>5, <1>6, <1>7, QuietlyKeeps

LEMMA AnswerKeeps ==
    ASSUME IInv, NEW r \in AdminRequests, AdminLive(r), adminReq[r].n = 0, AdminAnswer(r),
           UNCHANGED <<user, audit, starts, adminCrashes, effects, lost>>
    PROVE  IInv'
<1> USE DEF IInv
<1>1. /\ adminReq' \in [AdminRequests -> AdminCall \cup {AdminIdle}]
      /\ adminReq'[r] = AdminIdle
      /\ \A q \in AdminRequests : q # r => adminReq'[q] = adminReq[q]
  BY AnswerSlot
<1>2. AdminTypeOK'
  BY <1>1 DEF AdminTypeOK
<1>3. Numbering'
  BY <1>1 DEF Numbering, AdminLive, AdminIdle
<1>4. Quietly
  BY <1>1 DEF Quietly, AdminLive, AdminIdle
<1> QED BY <1>2, <1>3, <1>4, QuietlyKeeps

LEMMA PcKeeps ==
    ASSUME IInv, NEW r \in AdminRequests, AdminLive(r), NEW pc \in AdminPcs,
           adminReq' = [adminReq EXCEPT ![r].pc = pc], Numbering',
           UNCHANGED <<user, audit, starts, adminCrashes, effects, lost>>
    PROVE  IInv'
<1> USE DEF IInv
<1>1. /\ adminReq' \in [AdminRequests -> AdminCall \cup {AdminIdle}]
      /\ adminReq'[r].pc = pc /\ adminReq'[r].n = adminReq[r].n /\ adminReq'[r].op = adminReq[r].op
      /\ adminReq'[r].actor = adminReq[r].actor /\ adminReq'[r].target = adminReq[r].target
      /\ \A q \in AdminRequests : q # r => adminReq'[q] = adminReq[q]
  BY PcSlot
<1>2. AdminTypeOK'
  BY <1>1 DEF AdminTypeOK
<1>3. pc # "idle"
  BY DEF AdminPcs
<1>4. Quietly
  BY <1>1, <1>3 DEF Quietly, AdminLive
<1> QED BY <1>2, <1>4, QuietlyKeeps

LEMMA ReadTargetKeeps ==
    ASSUME IInv, NEW r \in AdminRequests, ReadTarget(r)
    PROVE  IInv'
<1> USE DEF IInv
<1>1. AdminLive(r) /\ adminReq[r].n = 0 /\ adminReq[r].pc = "read"
  BY DEF ReadTarget, AdminAt, AdminLive, Numbering
<1>2. adminReq[r] \in AdminCall
  BY <1>1, LiveIsCall
<1>3. CASE user[adminReq[r].target].there
  <2>1. AfterRead(adminReq[r].op) \in AdminPcs
    BY DEF AfterRead, AdminPcs
  <2>2. adminReq' = [adminReq EXCEPT ![r].pc = AfterRead(adminReq[r].op)]
    BY <1>3 DEF ReadTarget
  <2>3. /\ adminReq'[r].pc = AfterRead(adminReq[r].op) /\ adminReq'[r].n = 0 /\ adminReq'[r].op = adminReq[r].op
        /\ \A q \in AdminRequests : q # r => adminReq'[q] = adminReq[q]
    BY <1>1, <2>1, <2>2, PcSlot
  <2>4. Numbering'
    BY <2>3 DEF Numbering, AdminLive, AfterRead
  <2> QED BY <1>1, <2>1, <2>2, <2>4, PcKeeps DEF ReadTarget
<1>4. CASE ~user[adminReq[r].target].there
  BY <1>1, <1>4, AnswerKeeps DEF ReadTarget
<1> QED BY <1>3, <1>4

-----------------------------------------------------------------------------
(* The change itself *)

LEMMA RecordKeeps ==
    ASSUME IInv, NEW r \in AdminRequests, AdminLive(r), adminReq[r].n = 0,
           NEW pc \in {"revoke", "audit"}, Record(r, pc),
           pc = "revoke" => adminReq[r].op \notin {"delete", "logout"},
           user[adminReq[r].target].there \/ adminReq[r].op \in Blind,
           user' \in [Accounts -> User],
           \A u \in Accounts : ~user[u].there => ~user'[u].there,
           audit' \in Seq(Entry), Len(audit') = Len(audit),
           \A i \in 1..Len(audit) :
             /\ audit'[i].n = audit[i].n /\ audit'[i].op = audit[i].op
             /\ audit'[i].target = audit[i].target
             /\ audit'[i].signed => /\ audit[i].signed
                                    /\ LET a == effects[audit[i].n].actor IN
                                       user[a].there => user'[a].there,
           UNCHANGED <<starts, adminCrashes, lost>>
    PROVE  IInv'
<1> USE DEF IInv
<1>0. adminReq[r] \in AdminCall
  BY LiveIsCall
<1>1. /\ effects' \in Seq(Effect) /\ Len(effects') = Len(effects) + 1
      /\ \A n \in 1..Len(effects) : effects'[n] = effects[n]
      /\ Tells(effects'[Len(effects) + 1], adminReq[r])
      /\ effects'[Len(effects) + 1].made = user[adminReq[r].target].there
  <2> DEFINE e == [actor |-> adminReq[r].actor, op |-> adminReq[r].op, target |-> adminReq[r].target,
                   made |-> user[adminReq[r].target].there]
  <2>1. e \in Effect
    BY <1>0 DEF Effect, AdminCall, User, AdminTypeOK
  <2>2. Tells(e, adminReq[r]) /\ e.made = user[adminReq[r].target].there
    BY DEF Tells
  <2>3. effects' = Append(effects, e)
    BY DEF Record
  <2> HIDE DEF e
  <2> QED BY <2>1, <2>2, <2>3, Appended DEF AdminTypeOK
<1>2. Len(effects) \in Nat
  BY DEF AdminTypeOK
<1>3. /\ adminReq' \in [AdminRequests -> AdminCall \cup {AdminIdle}]
      /\ adminReq'[r].pc = pc /\ adminReq'[r].n = Len(effects) + 1 /\ adminReq'[r].op = adminReq[r].op
      /\ adminReq'[r].actor = adminReq[r].actor /\ adminReq'[r].target = adminReq[r].target
      /\ \A q \in AdminRequests : q # r => adminReq'[q] = adminReq[q]
  <2>1. pc \in AdminPcs
    BY DEF AdminPcs
  <2> QED BY <2>1, RecordSlot
<1>4. AdminTypeOK'
  BY <1>1, <1>3 DEF AdminTypeOK
<1>5. Numbering'
  BY <1>2, <1>3 DEF Numbering, AdminLive
<1>6. Changes' = Changes \cup {Len(effects) + 1} /\ Len(effects) + 1 \notin Changes
  BY <1>1, <1>2 DEF Changes
<1>7. \A n : Audited(n)' <=> Audited(n)
  BY DEF Audited
<1>8. ~Audited(Len(effects) + 1)
  BY <1>6 DEF Audited, TrailIsTrue
<1>9. \A q \in AdminRequests : q # r /\ AdminLive(q) /\ adminReq[q].n # 0 => adminReq[q].n \in Changes
  BY DEF Owned
<1>10. Owned'
  <2> SUFFICES ASSUME NEW q \in AdminRequests, AdminLive(q)', adminReq'[q].n # 0
               PROVE  /\ adminReq'[q].n \in Changes'
                      /\ Tells(effects'[adminReq'[q].n], adminReq'[q])
                      /\ ~Audited(adminReq[q].n)'
                      /\ \A p \in AdminRequests : AdminLive(p)' /\ adminReq'[p].n = adminReq'[q].n => p = q
    BY DEF Owned
  <2>1. CASE q = r
    <3>1. adminReq'[q].n = Len(effects) + 1
      BY <1>3, <2>1
    <3>5. effects'[adminReq'[q].n] = effects'[Len(effects) + 1]
      BY <3>1
    <3>6. /\ adminReq'[q].actor = adminReq[r].actor /\ adminReq'[q].op = adminReq[r].op
          /\ adminReq'[q].target = adminReq[r].target
      BY <1>3, <2>1
    <3>2. Tells(effects'[adminReq'[q].n], adminReq'[q])
      BY <1>1, <3>5, <3>6 DEF Tells
    <3>3. adminReq'[q].n \in Changes' /\ ~Audited(adminReq[q].n)'
      BY <1>6, <1>8, <3>1 DEF Audited
    <3>4. ASSUME NEW p \in AdminRequests, AdminLive(p)', adminReq'[p].n = adminReq'[q].n, p # q PROVE FALSE
      <4>1. adminReq'[p] = adminReq[p] /\ AdminLive(p)
        BY <1>3, <2>1, <3>4 DEF AdminLive
      <4>2. adminReq[p].n = Len(effects) + 1 /\ adminReq[p].n # 0
        BY <1>2, <3>1, <3>4, <4>1
      <4> QED BY <1>6, <1>9, <2>1, <3>4, <4>1, <4>2
    <3> QED BY <3>2, <3>3, <3>4
  <2>2. CASE q # r
    <3>1. adminReq'[q] = adminReq[q] /\ AdminLive(q) /\ adminReq[q].n \in Changes
      BY <1>3, <1>9, <2>2 DEF AdminLive
    <3>2. adminReq'[r].n # adminReq[q].n
      BY <1>3, <1>6, <3>1
    <3>3. ASSUME NEW p \in AdminRequests, AdminLive(p)', adminReq'[p].n = adminReq'[q].n PROVE p = q
      <4>1. p # r
        BY <3>1, <3>2, <3>3
      <4>2. adminReq'[p] = adminReq[p] /\ AdminLive(p)
        BY <1>3, <3>3, <4>1 DEF AdminLive
      <4>3. adminReq[q].n # 0 /\ adminReq[p].n = adminReq[q].n
        BY <3>1, <3>3, <4>2
      <4> QED BY <3>1, <4>2, <4>3 DEF Owned
    <3>4. effects'[adminReq[q].n] = effects[adminReq[q].n]
      BY <1>1, <3>1 DEF Changes
    <3>5. /\ adminReq[q].n # 0 /\ ~Audited(adminReq[q].n)
          /\ Tells(effects[adminReq[q].n], adminReq[q])
      BY <3>1 DEF Owned
    <3>6. adminReq'[q].n \in Changes' /\ ~Audited(adminReq[q].n)'
      BY <1>6, <3>1, <3>5 DEF Audited
    <3>7. Tells(effects'[adminReq'[q].n], adminReq'[q])
      BY <3>1, <3>4, <3>5
    <3> QED BY <3>3, <3>6, <3>7
  <2> QED BY <2>1, <2>2
<1>13. MissesExplained'
  <2> SUFFICES ASSUME NEW n \in Changes'
               PROVE  \/ effects'[n].made
                      \/ effects'[n].op \in Blind /\ ~user'[effects'[n].target].there
    BY DEF MissesExplained
  <2>1. CASE n = Len(effects) + 1
    <3>1. adminReq[r].target \in Accounts
      BY <1>0 DEF AdminCall
    <3> QED BY <1>1, <2>1, <3>1 DEF Tells
  <2>2. CASE n \in Changes
    <3>1. effects'[n] = effects[n] /\ effects[n] \in Effect
      BY <1>1, <1>2, <2>2 DEF Changes, AdminTypeOK
    <3>2. effects[n].target \in Accounts
      BY <3>1 DEF Effect
    <3> QED BY <2>2, <3>1, <3>2 DEF MissesExplained
  <2> QED BY <1>6, <2>1, <2>2
<1>11. TrailIsTrue'
  <2>1. \A i \in 1..Len(audit) : effects'[audit[i].n] = effects[audit[i].n]
    BY <1>1 DEF TrailIsTrue, Changes
  <2>2. \A i \in 1..Len(audit)' :
          /\ audit'[i].n \in Changes'
          /\ effects'[audit'[i].n].op = audit'[i].op
          /\ effects'[audit'[i].n].target = audit'[i].target
    BY <1>6, <2>1 DEF TrailIsTrue
  <2>5. \A i \in 1..Len(audit)' :
          \/ effects'[audit'[i].n].made
          \/ /\ effects'[audit'[i].n].op \in Blind
             /\ ~user'[effects'[audit'[i].n].target].there
    BY <1>13, <2>2 DEF MissesExplained
  <2>3. \A i \in 1..Len(audit)' :
          audit'[i].signed => user'[effects'[audit'[i].n].actor].there
    BY <2>1 DEF TrailIsTrue
  <2>4. \A i, j \in 1..Len(audit)' : audit'[i].n = audit'[j].n => i = j
    BY DEF TrailIsTrue
  <2> QED BY <2>2, <2>3, <2>4, <2>5 DEF TrailIsTrue
<1>12. GapsExplained'
  <2> SUFFICES ASSUME NEW n \in Changes'
               PROVE  \/ Audited(n)' \/ Pending(n)' \/ n \in lost'
                      \/ ~user'[effects'[n].actor].there
    BY DEF GapsExplained
  <2>1. CASE n = Len(effects) + 1
    <3>1. AdminLive(r)'
      BY <1>3 DEF AdminLive
    <3> QED BY <1>3, <2>1, <3>1 DEF Pending
  <2>2. CASE n \in Changes
    <3>0. effects[n] \in Effect
      BY <1>2, <2>2 DEF Changes, AdminTypeOK
    <3>1. effects'[n] = effects[n] /\ effects[n].actor \in Accounts
      BY <1>1, <2>2, <3>0 DEF Changes, Effect
    <3>2. Pending(n) => Pending(n)'
      <4> SUFFICES ASSUME NEW q \in AdminRequests, AdminLive(q), adminReq[q].n = n PROVE Pending(n)'
        BY DEF Pending
      <4>1. q # r
        BY <2>2 DEF Changes
      <4> QED BY <1>3, <4>1 DEF Pending, AdminLive
    <3> QED BY <1>7, <2>2, <3>1, <3>2 DEF GapsExplained
  <2> QED BY <1>6, <2>1, <2>2
<1> QED BY <1>4, <1>5, <1>10, <1>11, <1>12, <1>13

LEMMA WriteUserKeeps ==
    ASSUME IInv, NEW r \in AdminRequests, WriteUser(r)
    PROVE  IInv'
<1> USE DEF IInv
<1>1. AdminLive(r) /\ adminReq[r].n = 0 /\ adminReq[r].pc = "write"
  BY DEF WriteUser, AdminAt, AdminLive, Numbering
<1>2. adminReq[r] \in AdminCall
  BY <1>1, LiveIsCall
<1>3. CASE ~user[adminReq[r].target].there /\ adminReq[r].op # "reset"
  BY <1>1, <1>3, AnswerKeeps DEF WriteUser, Misses
<1>5. CASE ~user[adminReq[r].target].there /\ adminReq[r].op = "reset"
  <2>1. Record(r, "revoke") /\ UNCHANGED <<user, audit, starts, adminCrashes, lost>>
    BY <1>5 DEF WriteUser, Misses
  <2>2. adminReq[r].op \in Blind
    BY <1>5 DEF Blind
  <2> QED BY <1>1, <1>5, <2>1, <2>2, RecordKeeps DEF AdminTypeOK
<1>4. CASE user[adminReq[r].target].there
  <2>1. adminReq[r].target \in Accounts /\ user[adminReq[r].target] \in User
    BY <1>2 DEF AdminCall, AdminTypeOK
  <2>2. Changed(adminReq[r].op, user[adminReq[r].target]) \in User
    BY <1>2, <2>1, ChangedType DEF AdminCall
  <2>3. user' = [user EXCEPT ![adminReq[r].target] = Changed(adminReq[r].op, user[adminReq[r].target])]
    BY <1>4 DEF WriteUser
  <2>4. user' \in [Accounts -> User]
    BY <2>2, <2>3 DEF AdminTypeOK
  <2>5. \A u \in Accounts : ~user[u].there => ~user'[u].there
    BY <1>4, <2>3 DEF AdminTypeOK
  <2>6. Record(r, AfterWrite(adminReq[r].op))
    BY <1>4 DEF WriteUser
  <2>7. /\ AfterWrite(adminReq[r].op) \in {"revoke", "audit"}
        /\ AfterWrite(adminReq[r].op) = "revoke" => adminReq[r].op \notin {"delete", "logout"}
    BY DEF AfterWrite
  <2>8. audit' = [i \in DOMAIN audit |->
          IF adminReq[r].op = "delete" /\ effects[audit[i].n].actor = adminReq[r].target
          THEN [audit[i] EXCEPT !.signed = FALSE] ELSE audit[i]]
    BY <1>4 DEF WriteUser
  <2>9. DOMAIN audit = 1..Len(audit) /\ \A i \in 1..Len(audit) : audit[i] \in Entry
    BY DEF AdminTypeOK
  <2>10. \A e \in Entry : LET f == [e EXCEPT !.signed = FALSE] IN
           f \in Entry /\ f.n = e.n /\ f.op = e.op /\ f.target = e.target /\ ~f.signed
    BY DEF Entry
  <2>11. \A i \in 1..Len(audit) : audit'[i] \in Entry
    BY <2>8, <2>9, <2>10
  <2>12. audit' \in Seq(Entry) /\ Len(audit') = Len(audit)
    <3>1. audit' \in [1..Len(audit) -> Entry]
      BY <2>8, <2>9, <2>11
    <3>2. Len(audit) \in Nat
      BY DEF AdminTypeOK
    <3> QED BY <3>1, <3>2
  <2>13. \A i \in 1..Len(audit) :
           /\ audit'[i].n = audit[i].n /\ audit'[i].op = audit[i].op
           /\ audit'[i].target = audit[i].target
           /\ audit'[i].signed => audit[i].signed
    BY <2>8, <2>9, <2>10
  <2>14. ASSUME NEW i \in 1..Len(audit), audit'[i].signed,
                user[effects[audit[i].n].actor].there
         PROVE  user'[effects[audit[i].n].actor].there
    <3>1. effects[audit[i].n] \in Effect
      BY DEF TrailIsTrue, Changes, AdminTypeOK
    <3>2. effects[audit[i].n].actor \in Accounts
      BY <3>1 DEF Effect
    <3>3. CASE effects[audit[i].n].actor # adminReq[r].target
      BY <2>3, <2>14, <3>2, <3>3 DEF AdminTypeOK
    <3>4. CASE effects[audit[i].n].actor = adminReq[r].target
      <4>1. adminReq[r].op # "delete"
        BY <2>8, <2>9, <2>10, <2>14, <3>4
      <4>2. Changed(adminReq[r].op, user[adminReq[r].target]).there = user[adminReq[r].target].there
        BY <2>1, <4>1 DEF Changed, User
      <4> QED BY <2>1, <2>3, <2>14, <3>4, <4>2 DEF AdminTypeOK
    <3> QED BY <3>3, <3>4
  <2>15. \A i \in 1..Len(audit) :
             /\ audit'[i].n = audit[i].n /\ audit'[i].op = audit[i].op
             /\ audit'[i].target = audit[i].target
             /\ audit'[i].signed => /\ audit[i].signed
                                    /\ LET a == effects[audit[i].n].actor IN
                                       user[a].there => user'[a].there
    BY <2>13, <2>14
  <2> QED BY <1>1, <1>4, <2>4, <2>5, <2>6, <2>7, <2>12, <2>15, RecordKeeps DEF WriteUser
<1> QED BY <1>3, <1>4, <1>5

LEMMA RevokeKeeps ==
    ASSUME IInv, NEW r \in AdminRequests, Revoke(r)
    PROVE  IInv'
<1> USE DEF IInv
<1>1. AdminLive(r) /\ adminReq[r].pc = "revoke"
  BY DEF Revoke, AdminAt, AdminLive
<1>2. CASE adminReq[r].op = "logout"
  <2>1. adminReq[r].n = 0
    BY <1>1, <1>2 DEF Numbering
  <2>2. Record(r, "audit") /\ UNCHANGED <<user, audit, starts, adminCrashes, lost>>
    BY <1>2 DEF Revoke
  <2>3. adminReq[r].op \in Blind
    BY <1>2 DEF Blind
  <2> QED BY <1>1, <2>1, <2>2, <2>3, RecordKeeps DEF AdminTypeOK
<1>3. CASE adminReq[r].op # "logout"
  <2>1. AfterRevoke(adminReq[r].op) \in AdminPcs
    BY DEF AfterRevoke, AdminPcs
  <2>2. adminReq' = [adminReq EXCEPT ![r].pc = AfterRevoke(adminReq[r].op)]
    BY <1>3 DEF Revoke
  <2>3. /\ adminReq'[r].pc = AfterRevoke(adminReq[r].op) /\ adminReq'[r].n = adminReq[r].n
        /\ adminReq'[r].op = adminReq[r].op
        /\ \A q \in AdminRequests : q # r => adminReq'[q] = adminReq[q]
    BY <1>1, <2>1, <2>2, PcSlot
  <2>4. adminReq[r].n = 0 <=> adminReq[r].op = "delete"
    BY <1>1, <1>3 DEF Numbering
  <2>5. Numbering'
    BY <2>3, <2>4 DEF Numbering, AdminLive, AfterRevoke
  <2> QED BY <1>1, <1>3, <2>1, <2>2, <2>5, PcKeeps DEF Revoke
<1> QED BY <1>2, <1>3

-----------------------------------------------------------------------------
(* The trail *)

LEMMA AuditKeeps ==
    ASSUME IInv, NEW r \in AdminRequests, WriteAudit(r)
    PROVE  IInv'
<1> USE DEF IInv
<1>1. AdminLive(r) /\ adminReq[r].n # 0
  BY DEF WriteAudit, AdminAt, AdminLive, Numbering
<1>2. adminReq[r] \in AdminCall
  BY <1>1, LiveIsCall
<1>3. /\ adminReq' \in [AdminRequests -> AdminCall \cup {AdminIdle}]
      /\ adminReq'[r] = AdminIdle
      /\ \A q \in AdminRequests : q # r => adminReq'[q] = adminReq[q]
  BY AnswerSlot DEF WriteAudit
<1>4. UNCHANGED <<user, starts, adminCrashes, effects, lost>> /\ Changes' = Changes
  BY DEF WriteAudit, Changes
<1>5. /\ adminReq[r].n \in Changes /\ ~Audited(adminReq[r].n)
      /\ Tells(effects[adminReq[r].n], adminReq[r])
  BY <1>1 DEF Owned
<1>6. Numbering'
  BY <1>3 DEF Numbering, AdminLive, AdminIdle
<1>7. ASSUME NEW q \in AdminRequests, AdminLive(q)' PROVE q # r /\ adminReq'[q] = adminReq[q] /\ AdminLive(q)
  BY <1>3, <1>7 DEF AdminLive, AdminIdle
<1>8. ASSUME NEW n, n # adminReq[r].n, Pending(n) PROVE Pending(n)'
  BY <1>3, <1>8 DEF Pending, AdminLive
<1>9. CASE user[adminReq[r].actor].there
  <2> DEFINE e == [n |-> adminReq[r].n, op |-> adminReq[r].op, target |-> adminReq[r].target,
                   signed |-> TRUE]
  <2>1. e \in Entry
    BY <1>2 DEF Entry, AdminCall
  <2>2. audit' = Append(audit, e)
    BY <1>9 DEF WriteAudit
  <2>3. /\ audit' \in Seq(Entry) /\ Len(audit') = Len(audit) + 1
        /\ \A i \in 1..Len(audit) : audit'[i] = audit[i]
        /\ audit'[Len(audit) + 1] = e
    BY <2>1, <2>2, Appended DEF AdminTypeOK
  <2>4. Len(audit) \in Nat /\ 1..Len(audit') = 1..Len(audit) \cup {Len(audit) + 1}
    BY <2>3 DEF AdminTypeOK
  <2>5. AdminTypeOK'
    BY <1>3, <1>4, <2>3 DEF AdminTypeOK
  <2>6. \A i \in 1..Len(audit) : audit[i].n # adminReq[r].n
    BY <1>5 DEF Audited
  <2>7. Owned'
    <3> SUFFICES ASSUME NEW q \in AdminRequests, AdminLive(q)', adminReq'[q].n # 0
                 PROVE  /\ adminReq'[q].n \in Changes'
                        /\ Tells(effects'[adminReq'[q].n], adminReq'[q])
                        /\ ~Audited(adminReq[q].n)'
                        /\ \A p \in AdminRequests : AdminLive(p)' /\ adminReq'[p].n = adminReq'[q].n => p = q
      BY DEF Owned
    <3>1. q # r /\ adminReq'[q] = adminReq[q] /\ AdminLive(q) /\ adminReq[q].n # 0
      BY <1>7
    <3>2. adminReq[q].n # adminReq[r].n
      BY <1>1, <3>1 DEF Owned
    <3>3. ~Audited(adminReq[q].n)
      BY <3>1 DEF Owned
    <3>4. ~Audited(adminReq[q].n)'
      BY <2>3, <2>4, <3>1, <3>2, <3>3 DEF Audited
    <3>5. \A p \in AdminRequests : AdminLive(p)' => adminReq'[p] = adminReq[p] /\ AdminLive(p)
      BY <1>7
    <3>6. \A p \in AdminRequests : AdminLive(p)' /\ adminReq'[p].n = adminReq'[q].n => p = q
      BY <3>1, <3>5 DEF Owned
    <3>7. /\ adminReq[q].n \in Changes
          /\ Tells(effects[adminReq[q].n], adminReq[q])
      BY <3>1 DEF Owned
    <3>8. adminReq'[q].n \in Changes' /\ effects'[adminReq'[q].n] = effects[adminReq[q].n]
      BY <1>4, <3>1, <3>7
    <3> QED BY <3>1, <3>4, <3>6, <3>7, <3>8
  <2>8. TrailIsTrue'
    <3>3. /\ effects[adminReq[r].n].op = adminReq[r].op /\ effects[adminReq[r].n].target = adminReq[r].target
          /\ effects[adminReq[r].n].actor = adminReq[r].actor
          /\ \/ effects[adminReq[r].n].made
             \/ effects[adminReq[r].n].op \in Blind /\ ~user[effects[adminReq[r].n].target].there
      BY <1>5 DEF Tells, MissesExplained
    <3>1. \A i \in 1..Len(audit') :
            /\ audit'[i].n \in Changes'
            /\ effects'[audit'[i].n].op = audit'[i].op
            /\ effects'[audit'[i].n].target = audit'[i].target
            /\ \/ effects'[audit'[i].n].made
               \/ /\ effects'[audit'[i].n].op \in Blind
                  /\ ~user'[effects'[audit'[i].n].target].there
            /\ audit'[i].signed => user'[effects'[audit'[i].n].actor].there
      BY <1>4, <1>5, <1>9, <2>3, <2>4, <3>3 DEF TrailIsTrue
    <3>2. \A i, j \in 1..Len(audit') : audit'[i].n = audit'[j].n => i = j
      BY <2>3, <2>4, <2>6 DEF TrailIsTrue
    <3> QED BY <3>1, <3>2 DEF TrailIsTrue
  <2>9. \A n : Audited(n) \/ n = adminReq[r].n => Audited(n)'
    BY <2>3, <2>4 DEF Audited
  <2>10. GapsExplained'
    BY <1>4, <1>8, <2>9 DEF GapsExplained
  <2>11. MissesExplained'
    BY <1>4 DEF MissesExplained
  <2> QED BY <1>6, <2>5, <2>7, <2>8, <2>10, <2>11
<1>10. CASE ~user[adminReq[r].actor].there
  <2>1. audit' = audit
    BY <1>10 DEF WriteAudit
  <2>2. AdminTypeOK'
    BY <1>3, <1>4, <2>1 DEF AdminTypeOK
  <2>3. \A n : Audited(n)' <=> Audited(n)
    BY <2>1 DEF Audited
  <2>4. Owned'
    BY <1>4, <1>7, <2>1 DEF Owned, Tells, Audited
  <2>5. TrailIsTrue'
    BY <1>4, <2>1 DEF TrailIsTrue
  <2>8. ~user'[effects'[adminReq[r].n].actor].there
    BY <1>4, <1>5, <1>10 DEF Tells
  <2>9. \A n : Pending(n) => n = adminReq[r].n \/ Pending(n)'
    BY <1>8
  <2>6. GapsExplained'
    BY <1>4, <2>3, <2>8, <2>9 DEF GapsExplained
  <2>7. MissesExplained'
    BY <1>4 DEF MissesExplained
  <2> QED BY <1>6, <2>2, <2>4, <2>5, <2>6, <2>7
<1> QED BY <1>9, <1>10

LEMMA RestartKeeps ==
    ASSUME IInv, Restart
    PROVE  IInv'
<1> USE DEF IInv
<1>1. PICK P \in {{}, Promoted} :
        user' = [u \in Accounts |-> IF u \in P THEN [user[u] EXCEPT !.admin = TRUE]
                                    ELSE user[u]]
  BY DEF Restart
<1>2. \A row \in User : LET x == [row EXCEPT !.admin = TRUE] IN
        x \in User /\ x.there = row.there
  BY DEF User
<1>3. \A u \in Accounts : user'[u] \in User /\ user'[u].there = user[u].there
  BY <1>1, <1>2 DEF AdminTypeOK
<1>4. user' \in [Accounts -> User]
  BY <1>1, <1>3
<1>5. /\ adminReq' = [r \in AdminRequests |-> AdminIdle] /\ UNCHANGED <<audit, starts, effects>>
      /\ adminCrashes' = adminCrashes + 1
      /\ lost' = lost \cup {adminReq[r].n : r \in {q \in AdminRequests : AdminLive(q) /\ adminReq[q].n # 0}}
  BY DEF Restart
<1>6. \A r \in AdminRequests : AdminLive(r) => adminReq[r].n \in Nat
  BY LiveIsCall DEF AdminCall
<1>7. lost' \subseteq Nat
  BY <1>5, <1>6 DEF AdminTypeOK
<1>8. AdminTypeOK'
  BY <1>4, <1>5, <1>7 DEF AdminTypeOK
<1>9. \A r \in AdminRequests : ~AdminLive(r)'
  BY <1>5 DEF AdminLive, AdminIdle
<1>10. Numbering' /\ Owned'
  BY <1>9 DEF Numbering, Owned
<1>11. \A n \in Changes : effects[n] \in Effect
  BY DEF AdminTypeOK, Changes
<1>12. \A n \in Changes : effects[n].actor \in Accounts
  BY <1>11 DEF Effect
<1>13. TrailIsTrue'
  <2>1. \A i \in 1..Len(audit) : effects[audit[i].n] \in Effect
    BY <1>11 DEF TrailIsTrue
  <2>2. \A i \in 1..Len(audit) : effects[audit[i].n].target \in Accounts
    BY <2>1 DEF Effect
  <2> QED BY <1>3, <1>5, <1>12, <2>2 DEF TrailIsTrue, Changes
<1>14. \A n \in Changes : Pending(n) => n \in lost'
  BY <1>5 DEF Pending, Changes, AdminTypeOK
<1>15. \A n : Audited(n)' <=> Audited(n)
  BY <1>5 DEF Audited
<1>16. Changes' = Changes /\ effects' = effects /\ lost \subseteq lost'
  BY <1>5 DEF Changes
<1>18. \A n \in Changes : effects[n].target \in Accounts
  BY <1>11 DEF Effect
<1>19. MissesExplained'
  BY <1>3, <1>16, <1>18 DEF MissesExplained
<1>17. GapsExplained'
  BY <1>3, <1>12, <1>14, <1>15, <1>16 DEF GapsExplained
<1> QED BY <1>8, <1>10, <1>13, <1>17, <1>19

LEMMA StutterKeeps ==
    ASSUME IInv, UNCHANGED adminVars
    PROVE  IInv'
<1> USE DEF IInv
<1>1. AdminTypeOK' /\ Numbering'
  BY DEF adminVars, AdminTypeOK, Numbering, AdminLive
<1>2. Quietly
  BY DEF adminVars, Quietly, AdminLive
<1> QED BY <1>1, <1>2, QuietlyKeeps

LEMMA InvNext == IInv /\ [AdminNext]_adminVars => IInv'
<1> SUFFICES ASSUME IInv, [AdminNext]_adminVars PROVE IInv'
  OBVIOUS
<1>1. CASE \E r \in AdminRequests : AdminBegin(r)
  BY <1>1, BeginKeeps
<1>2. CASE \E r \in AdminRequests : ReadTarget(r)
  BY <1>2, ReadTargetKeeps
<1>3. CASE \E r \in AdminRequests : WriteUser(r)
  BY <1>3, WriteUserKeeps
<1>4. CASE \E r \in AdminRequests : Revoke(r)
  BY <1>4, RevokeKeeps
<1>5. CASE \E r \in AdminRequests : WriteAudit(r)
  BY <1>5, AuditKeeps
<1>6. CASE Restart
  BY <1>6, RestartKeeps
<1>7. CASE UNCHANGED adminVars
  BY <1>7, StutterKeeps
<1> QED BY <1>1, <1>2, <1>3, <1>4, <1>5, <1>6, <1>7 DEF AdminNext

LEMMA Invariant == AdminSpec => []IInv
BY InvInit, InvNext, PTL DEF AdminSpec

\* The tables and handlers keep their shape (AdminTypeOK), for any accounts.
THEOREM TypeCorrect == AdminSpec => []AdminTypeOK
<1>1. IInv => AdminTypeOK
  BY DEF IInv
<1> QED BY <1>1, Invariant, PTL

\* An entry of admin_audit_log always tells of a change the portal made, once,
\* whatever overlaps and whenever the server restarts, or of a password reset or
\* a forced logout of an account deleted since the handler found it: those two
\* handlers report a change without looking whether there was anybody left.
THEOREM TrailAlwaysTrue == AdminSpec => []TrailIsTrue
<1>1. IInv => TrailIsTrue
  BY DEF IInv
<1> QED BY <1>1, Invariant, PTL

\* A change is missing from the trail only for one of the three reasons of
\* GapsExplained: the best-effort insert of _audit loses nothing else.
THEOREM GapsAlwaysExplained == AdminSpec => []GapsExplained
<1>1. IInv => GapsExplained
  BY DEF IInv
<1> QED BY <1>1, Invariant, PTL

-----------------------------------------------------------------------------
(* One request at a time *)

\* The actor of the request in flight is still an admin: it is the admin who
\* remains, since nobody acts on the own account.
StillAdmin ==
    /\ AdminTypeOK /\ AlwaysAnAdmin
    /\ \A r \in AdminRequests : AdminLive(r) =>
         IsAdmin(adminReq[r].actor) /\ MayTarget(adminReq[r].actor, adminReq[r].op, adminReq[r].target)

LEMMA StillAdminNext ==
    ASSUME \A r, q \in AdminRequests : r = q,
           StillAdmin, AdminTypeOK', [AdminNext]_adminVars
    PROVE  StillAdmin'
<1> USE DEF StillAdmin
<1>1. ASSUME NEW r \in AdminRequests, AdminBegin(r) PROVE StillAdmin'
  <2>1. PICK actor \in Accounts, op \in AdminOps, target \in Accounts :
          /\ IsAdmin(actor) /\ MayTarget(actor, op, target)
          /\ adminReq' = [adminReq EXCEPT ![r] = [pc |-> FirstStep(op), actor |-> actor,
                            op |-> op, target |-> target, n |-> 0]]
    BY <1>1 DEF AdminBegin
  <2>2. user' = user
    BY <1>1 DEF AdminBegin
  <2>3. adminReq'[r].actor = actor /\ adminReq'[r].op = op /\ adminReq'[r].target = target
    BY <2>1 DEF AdminTypeOK
  <2> QED BY <2>1, <2>2, <2>3 DEF AlwaysAnAdmin, IsAdmin
<1>2. ASSUME NEW r \in AdminRequests, AdminLive(r), user' = user, NEW pc \in AdminPcs,
             adminReq' = [adminReq EXCEPT ![r].pc = pc] \/ AdminAnswer(r) \/ Record(r, pc)
      PROVE  StillAdmin'
  <2>1. AdminLive(r)' => /\ adminReq'[r].actor = adminReq[r].actor /\ adminReq'[r].op = adminReq[r].op
                         /\ adminReq'[r].target = adminReq[r].target
    <3>1. CASE adminReq' = [adminReq EXCEPT ![r].pc = pc]
      BY <1>2, <3>1, PcSlot
    <3>2. CASE AdminAnswer(r)
      BY <3>2, AnswerSlot DEF AdminLive, AdminIdle
    <3>3. CASE Record(r, pc)
      BY <1>2, <3>3, RecordSlot
    <3> QED BY <1>2, <3>1, <3>2, <3>3
  <2> QED BY <1>2, <2>1 DEF AlwaysAnAdmin, IsAdmin
<1>3. ASSUME NEW r \in AdminRequests, ReadTarget(r) PROVE StillAdmin'
  <2>1. AdminLive(r) /\ user' = user /\ AfterRead(adminReq[r].op) \in AdminPcs
    BY <1>3 DEF ReadTarget, AdminAt, AdminLive, AfterRead, AdminPcs
  <2>2. adminReq' = [adminReq EXCEPT ![r].pc = AfterRead(adminReq[r].op)] \/ AdminAnswer(r)
    BY <1>3 DEF ReadTarget
  <2> QED BY <1>2, <2>1, <2>2
<1>4. ASSUME NEW r \in AdminRequests, Revoke(r) PROVE StillAdmin'
  <2>1. AdminLive(r) /\ user' = user /\ AfterRevoke(adminReq[r].op) \in AdminPcs /\ "audit" \in AdminPcs
    BY <1>4 DEF Revoke, AdminAt, AdminLive, AfterRevoke, AdminPcs
  <2>2. adminReq' = [adminReq EXCEPT ![r].pc = AfterRevoke(adminReq[r].op)] \/ Record(r, "audit")
    BY <1>4 DEF Revoke
  <2> QED BY <1>2, <2>1, <2>2
<1>5. ASSUME NEW r \in AdminRequests, WriteAudit(r) PROVE StillAdmin'
  BY <1>2, <1>5 DEF WriteAudit, AdminAt, AdminLive, AdminPcs
<1>6. ASSUME NEW r \in AdminRequests, WriteUser(r) PROVE StillAdmin'
  <2>1. AdminLive(r) /\ AfterWrite(adminReq[r].op) \in AdminPcs
    BY <1>6 DEF WriteUser, AdminAt, AdminLive, AfterWrite, AdminPcs
  <2>2. CASE ~user[adminReq[r].target].there
    <3>1. (AdminAnswer(r) \/ Record(r, "revoke")) /\ user' = user /\ "revoke" \in AdminPcs
      BY <1>6, <2>2 DEF WriteUser, Misses, AdminPcs
    <3> QED BY <1>2, <2>1, <3>1
  <2>3. CASE user[adminReq[r].target].there
    <3>1. /\ user' = [user EXCEPT ![adminReq[r].target] =
                        Changed(adminReq[r].op, user[adminReq[r].target])]
          /\ Record(r, AfterWrite(adminReq[r].op))
      BY <1>6, <2>3 DEF WriteUser
    <3>2. /\ adminReq'[r].actor = adminReq[r].actor /\ adminReq'[r].op = adminReq[r].op
          /\ adminReq'[r].target = adminReq[r].target
      BY <2>1, <3>1, RecordSlot
    <3>3. adminReq[r] \in AdminCall /\ adminReq[r].target \in Accounts /\ adminReq[r].actor \in Accounts
      BY <2>1, LiveIsCall DEF AdminCall
    <3>4. CASE adminReq[r].actor # adminReq[r].target
      <4>1. user'[adminReq[r].actor] = user[adminReq[r].actor]
        BY <3>1, <3>3, <3>4 DEF AdminTypeOK
      <4>2. IsAdmin(adminReq[r].actor)'
        BY <2>1, <3>2, <4>1 DEF IsAdmin
      <4> QED BY <2>1, <3>2, <3>3, <4>1, <4>2 DEF AlwaysAnAdmin, IsAdmin, MayTarget
    <3>5. CASE adminReq[r].actor = adminReq[r].target
      <4>1. adminReq[r].op \in {"update", "logout", "reset"}
        BY <2>1, <3>3, <3>5 DEF MayTarget, AdminCall, AllOps
      <4>2. user' = user
        BY <3>1, <3>3, <4>1 DEF Changed, AdminTypeOK
      <4> QED BY <1>2, <2>1, <3>1, <4>2
    <3> QED BY <3>4, <3>5
  <2> QED BY <2>2, <2>3
<1>7. ASSUME Restart PROVE StillAdmin'
  <2>1. PICK P \in {{}, Promoted} :
          user' = [u \in Accounts |-> IF u \in P THEN [user[u] EXCEPT !.admin = TRUE]
                                      ELSE user[u]]
    BY <1>7 DEF Restart
  <2>2. \A row \in User : LET x == [row EXCEPT !.admin = TRUE] IN
          x.there = row.there /\ x.disabled = row.disabled /\ x.admin
    BY DEF User
  <2>3. \A u \in Accounts : IsAdmin(u) => IsAdmin(u)'
    BY <2>1, <2>2 DEF IsAdmin, AdminTypeOK
  <2>4. \A r \in AdminRequests : ~AdminLive(r)'
    BY <1>7 DEF Restart, AdminLive, AdminIdle
  <2> QED BY <2>3, <2>4 DEF AlwaysAnAdmin
<1>8. ASSUME UNCHANGED adminVars PROVE StillAdmin'
  BY <1>8 DEF adminVars, AlwaysAnAdmin, IsAdmin, AdminLive
<1> QED BY <1>1, <1>3, <1>4, <1>5, <1>6, <1>7, <1>8 DEF AdminNext

\* When requests do not overlap, the guards against acting on the own account
\* are enough: whatever the admins do to one another, one of them is left.
THEOREM NoLockoutOneAtATime ==
    ASSUME \A r, q \in AdminRequests : r = q
    PROVE  AdminSpec => []AlwaysAnAdmin
<1>1. AdminInit => StillAdmin
  <2> SUFFICES ASSUME AdminInit PROVE StillAdmin
    OBVIOUS
  <2>1. AdminTypeOK
    BY InvInit DEF IInv
  <2>2. PICK u \in FirstAdmins : u \in Accounts
    BY AdminAssumption
  <2>3. IsAdmin(u)
    BY <2>2 DEF AdminInit, IsAdmin
  <2> QED BY <2>1, <2>2, <2>3 DEF StillAdmin, AlwaysAnAdmin, AdminInit, AdminLive, AdminIdle
<1>2. StillAdmin /\ AdminTypeOK' /\ [AdminNext]_adminVars => StillAdmin'
  BY StillAdminNext
<1>3. StillAdmin => AlwaysAnAdmin
  BY DEF StillAdmin
<1> QED BY <1>1, <1>2, <1>3, TypeCorrect, PTL DEF AdminSpec

-----------------------------------------------------------------------------
(* One request at a time so far: the trail is complete, and read from its   *)
(* beginning it tells the table, but for the change not audited yet.        *)

OneLive == \A q, r \in AdminRequests : AdminLive(q) /\ AdminLive(r) => q = r
Owes(r) == AdminLive(r) /\ adminReq[r].n # 0

\* The caller is an account still, and does not work on itself.
CallersThere == \A r \in AdminRequests : AdminLive(r) =>
    /\ user[adminReq[r].actor].there
    /\ MayTarget(adminReq[r].actor, adminReq[r].op, adminReq[r].target)

AllTold == \A n \in Changes : Audited(n) \/ Pending(n)

\* f is what the trail a tells of account u, entry after entry.
IsReplay(f, a, u) ==
    f = [k \in 0..Len(a) |->
           IF k = 0 THEN [there |-> TRUE, admin |-> u \in FirstAdmins, disabled |-> FALSE]
           ELSE IF a[k].target = u THEN After(a[k].op, f[k - 1]) ELSE f[k - 1]]

\* row, with the change a handler still owes to the trail, is the row of u.
Told(u, row) ==
    /\ (\A r \in AdminRequests : Owes(r) => adminReq[r].target # u) => row = user[u]
    /\ \A r \in AdminRequests : Owes(r) /\ adminReq[r].target = u => After(adminReq[r].op, row) = user[u]

TrailTold == \A u \in Accounts :
    /\ \E f : IsReplay(f, audit, u)
    /\ \A f : IsReplay(f, audit, u) => Told(u, f[Len(audit)])

AloneInv ==
    /\ adminOverlap \in BOOLEAN
    /\ ~adminOverlap => OneLive
    /\ AdminAlone => CallersThere /\ AllTold /\ TrailTold

LEMMA ReplayExtends ==
    ASSUME NEW a \in Seq(Entry), NEW e \in Entry, NEW u
    PROVE  LET b == Append(a, e)
               Now(row) == IF e.target = u THEN After(e.op, row) ELSE row IN
           /\ (\E f : IsReplay(f, a, u)) => \E g : IsReplay(g, b, u)
           /\ \A g : IsReplay(g, b, u) =>
                \E f : IsReplay(f, a, u) /\ g[Len(b)] = Now(f[Len(a)])
<1> DEFINE b == Append(a, e)
           Now(row) == IF e.target = u THEN After(e.op, row) ELSE row
<1>1. Len(a) \in Nat /\ Len(b) = Len(a) + 1 /\ b[Len(a) + 1] = e
      BY Appended
<1>2. \A k \in 1..Len(a) : b[k] = a[k]
      BY Appended
<1> HIDE DEF b
<1>3. ASSUME NEW f, IsReplay(f, a, u) PROVE \E g : IsReplay(g, b, u)
  <2> DEFINE g == [k \in 0..Len(b) |-> IF k = Len(b) THEN Now(f[Len(a)]) ELSE f[k]]
  <2>1. g = [k \in 0..Len(b) |->
               IF k = 0 THEN [there |-> TRUE, admin |-> u \in FirstAdmins, disabled |-> FALSE]
               ELSE IF b[k].target = u THEN After(b[k].op, g[k - 1]) ELSE g[k - 1]]
    <3> SUFFICES ASSUME NEW k \in 0..Len(b)
                 PROVE  g[k] = IF k = 0 THEN [there |-> TRUE, admin |-> u \in FirstAdmins, disabled |-> FALSE]
                               ELSE IF b[k].target = u THEN After(b[k].op, g[k - 1]) ELSE g[k - 1]
        OBVIOUS
    <3>1. CASE k = 0
          BY <1>1, <1>3, <3>1 DEF IsReplay
    <3>2. CASE k = Len(b)
      <4>1. k # 0 /\ k - 1 = Len(a) /\ k - 1 \in 0..Len(b) /\ k - 1 # Len(b) /\ b[k] = e
            BY <1>1, <3>2
      <4>2. g[k - 1] = f[Len(a)] /\ g[k] = Now(f[Len(a)])
            BY <4>1, <3>2
      <4> QED BY <4>1, <4>2
    <3>3. CASE k # 0 /\ k # Len(b)
      <4>1. k \in 1..Len(a) /\ k - 1 \in 0..Len(b) /\ k - 1 # Len(b) /\ k \in 0..Len(a)
            BY <1>1, <3>3
      <4>2. g[k] = f[k] /\ g[k - 1] = f[k - 1] /\ b[k] = a[k]
            BY <1>2, <4>1, <3>3
      <4>3. f[k] = IF a[k].target = u THEN After(a[k].op, f[k - 1]) ELSE f[k - 1]
            BY <1>3, <4>1, <3>3 DEF IsReplay
      <4> QED BY <4>2, <4>3, <3>3
    <3> QED BY <3>1, <3>2, <3>3
  <2> HIDE DEF g
  <2>2. IsReplay(g, b, u)
        BY <2>1 DEF IsReplay
  <2> QED BY <2>2
<1>4. ASSUME NEW g, IsReplay(g, b, u)
      PROVE  \E f : IsReplay(f, a, u) /\ g[Len(b)] = Now(f[Len(a)])
  <2> DEFINE f == [k \in 0..Len(a) |-> g[k]]
  <2>1. f = [k \in 0..Len(a) |->
               IF k = 0 THEN [there |-> TRUE, admin |-> u \in FirstAdmins, disabled |-> FALSE]
               ELSE IF a[k].target = u THEN After(a[k].op, f[k - 1]) ELSE f[k - 1]]
    <3> SUFFICES ASSUME NEW k \in 0..Len(a)
                 PROVE  f[k] = IF k = 0 THEN [there |-> TRUE, admin |-> u \in FirstAdmins, disabled |-> FALSE]
                               ELSE IF a[k].target = u THEN After(a[k].op, f[k - 1]) ELSE f[k - 1]
        OBVIOUS
    <3>1. k \in 0..Len(b) /\ f[k] = g[k]
          BY <1>1
    <3>2. CASE k = 0
          BY <1>4, <3>1, <3>2 DEF IsReplay
    <3>3. CASE k # 0
      <4>1. k - 1 \in 0..Len(a) /\ b[k] = a[k]
            BY <1>1, <1>2, <3>3
      <4>2. g[k] = IF b[k].target = u THEN After(b[k].op, g[k - 1]) ELSE g[k - 1]
            BY <1>4, <3>1, <3>3 DEF IsReplay
      <4> QED BY <3>1, <3>3, <4>1, <4>2
    <3> QED BY <3>2, <3>3
  <2>2. f[Len(a)] = g[Len(a)]
        BY <1>1
  <2>3. Len(b) \in 0..Len(b) /\ Len(b) # 0 /\ Len(b) - 1 = Len(a) /\ b[Len(b)] = e
        BY <1>1
  <2>4. g[Len(b)] = IF b[Len(b)].target = u THEN After(b[Len(b)].op, g[Len(b) - 1]) ELSE g[Len(b) - 1]
        BY <1>4, <2>3 DEF IsReplay
  <2> HIDE DEF f
  <2>5. IsReplay(f, a, u) /\ g[Len(b)] = Now(f[Len(a)])
        BY <2>1, <2>2, <2>3, <2>4 DEF IsReplay
  <2> QED BY <2>5
<1> QED BY <1>3, <1>4 DEF b

\* A deletion unsigns entries; what they tell stays.
LEMMA ReplaySame ==
    ASSUME NEW a, NEW b, NEW f, NEW u, Len(a) \in Nat, Len(b) = Len(a),
           \A i \in 1..Len(a) : b[i].op = a[i].op /\ b[i].target = a[i].target
    PROVE  IsReplay(f, b, u) <=> IsReplay(f, a, u)
<1>1. \A k \in 0..Len(a) : k # 0 => k \in 1..Len(a)
      OBVIOUS
<1> QED BY <1>1 DEF IsReplay

LEMMA AfterIsChanged ==
    ASSUME NEW op \in AllOps, NEW row \in User
    PROVE  After(op, row) = Changed(op, row)
BY DEF After, Changed, User, Gone, AllOps

LEMMA ReplayStands ==
    ASSUME NEW u \in Accounts, \E f : IsReplay(f, audit, u)
    PROVE  \E f : IsReplay(f, audit, u) /\ Replay(u) = f[Len(audit)]
<1> DEFINE f == CHOOSE f : IsReplay(f, audit, u)
<1>1. IsReplay(f, audit, u)
      OBVIOUS
<1>2. Replay(u) = f[Len(audit)]
      BY DEF Replay, IsReplay
<1> QED BY <1>1, <1>2

\* Nothing is changed, nothing written to the trail, and what is owed stays.
LEMMA NothingTold ==
    ASSUME AllTold, TrailTold, user' = user, audit' = audit, effects' = effects,
           \A r \in AdminRequests :
             /\ Owes(r)' <=> Owes(r)
             /\ Owes(r) => /\ adminReq'[r].n = adminReq[r].n /\ adminReq'[r].op = adminReq[r].op
                           /\ adminReq'[r].target = adminReq[r].target
    PROVE  AllTold' /\ TrailTold'
<1>1. ASSUME NEW n \in Changes' PROVE Audited(n)' \/ Pending(n)'
  <2>1. n \in Changes /\ (Audited(n) => Audited(n)')
        BY <1>1 DEF Changes, Audited
  <2>2. n # 0
        BY <2>1 DEF Changes
  <2>3. ASSUME NEW r \in AdminRequests, AdminLive(r), adminReq[r].n = n PROVE Pending(n)'
        BY <2>2, <2>3 DEF Owes, Pending
  <2> QED BY <2>1, <2>3 DEF AllTold, Pending
<1>2. ASSUME NEW u \in Accounts, NEW row, Told(u, row) PROVE Told(u, row)'
      BY <1>2 DEF Told
<1>3. TrailTold'
      BY <1>2 DEF TrailTold
<1> QED BY <1>1, <1>3 DEF AllTold

\* A handler makes its change and owes it from then on.
LEMMA ChangeIsOwed ==
    ASSUME IInv, OneLive, AllTold, TrailTold, OneLive',
           NEW r \in AdminRequests, AdminLive(r), adminReq[r].n = 0, NEW pc \in {"revoke", "audit"},
           Record(r, pc),
           user' = [user EXCEPT ![adminReq[r].target] = Changed(adminReq[r].op, user[adminReq[r].target])],
           Len(audit') = Len(audit),
           \A i \in 1..Len(audit) : /\ audit'[i].n = audit[i].n /\ audit'[i].op = audit[i].op
                                    /\ audit'[i].target = audit[i].target
    PROVE  AllTold' /\ TrailTold'
<1>1. AdminTypeOK /\ adminReq[r] \in AdminCall /\ Len(effects) \in Nat /\ Len(audit) \in Nat
      BY LiveIsCall DEF IInv, AdminTypeOK
<1>2. /\ adminReq'[r].pc = pc /\ adminReq'[r].n = Len(effects) + 1 /\ adminReq'[r].op = adminReq[r].op
      /\ adminReq'[r].target = adminReq[r].target
      BY <1>1, RecordSlot DEF AdminPcs
<1>3. Owes(r)'
      BY <1>1, <1>2 DEF Owes, AdminLive
<1>4. \A q \in AdminRequests : q # r => ~AdminLive(q) /\ ~AdminLive(q)'
      BY <1>3 DEF OneLive, Owes
<1>5. Len(effects') = Len(effects) + 1
  <2>1. [actor |-> adminReq[r].actor, op |-> adminReq[r].op, target |-> adminReq[r].target,
         made |-> user[adminReq[r].target].there] \in Effect
        BY <1>1 DEF Effect, AdminCall, User, AdminTypeOK
  <2> QED BY <1>1, <2>1, Appended DEF Record, AdminTypeOK
<1>6. ASSUME NEW n \in Changes' PROVE Audited(n)' \/ Pending(n)'
  <2>1. CASE n = Len(effects) + 1
        BY <1>2, <1>3, <2>1 DEF Pending, Owes
  <2>2. CASE n # Len(effects) + 1
    <3>1. n \in Changes /\ n # 0
          BY <1>1, <1>5, <1>6, <2>2 DEF Changes
    <3>2. ~Pending(n)
          BY <1>4, <3>1 DEF Pending
    <3>3. Audited(n)
          BY <3>1, <3>2 DEF AllTold
    <3> QED BY <3>3 DEF Audited
  <2> QED BY <2>1, <2>2
<1>7. ASSUME NEW u \in Accounts
      PROVE  /\ \E f : IsReplay(f, audit', u)
             /\ \A f : IsReplay(f, audit', u) =>
                  \A row : row = f[Len(audit')] => Told(u, row)'
  <2>1. \A f : IsReplay(f, audit', u) <=> IsReplay(f, audit, u)
        BY <1>1, ReplaySame
  <2>2. \A q \in AdminRequests : ~Owes(q)
        BY <1>4 DEF Owes
  <2>3. \A f : IsReplay(f, audit, u) => f[Len(audit)] = user[u]
        BY <2>2 DEF TrailTold, Told
  <2>4. user[u] \in User /\ adminReq[r].op \in AllOps
        BY <1>1 DEF AdminTypeOK, AdminCall
  <2>5. user'[u] = IF adminReq[r].target = u THEN After(adminReq[r].op, user[u]) ELSE user[u]
        BY <1>1, <2>4, AfterIsChanged DEF AdminTypeOK
  <2>6. ASSUME NEW row, row = user[u] PROVE Told(u, row)'
    <3>1. CASE adminReq[r].target = u
          BY <1>2, <1>3, <1>4, <2>5, <2>6, <3>1 DEF Told, Owes
    <3>2. CASE adminReq[r].target # u
          BY <1>2, <1>3, <1>4, <2>5, <2>6, <3>2 DEF Told, Owes
    <3> QED BY <3>1, <3>2
  <2> QED BY <2>1, <2>3, <2>6 DEF TrailTold
<1>8. TrailTold'
      BY <1>7 DEF TrailTold
<1> QED BY <1>6, <1>8 DEF AllTold

\* The audit row pays it back.
LEMMA AuditPays ==
    ASSUME IInv, OneLive, CallersThere, AllTold, TrailTold, NEW r \in AdminRequests, WriteAudit(r)
    PROVE  AllTold' /\ TrailTold'
<1> DEFINE e == [n |-> adminReq[r].n, op |-> adminReq[r].op, target |-> adminReq[r].target, signed |-> TRUE]
<1>1. AdminTypeOK /\ AdminLive(r) /\ Owes(r) /\ adminReq[r] \in AdminCall
      BY LiveIsCall DEF IInv, Numbering, WriteAudit, AdminAt, AdminLive, Owes
<1>2. e \in Entry /\ audit \in Seq(Entry) /\ Len(audit) \in Nat
      BY <1>1 DEF Entry, AdminCall, AdminTypeOK
<1>3. audit' = Append(audit, e)
      BY <1>1 DEF CallersThere, WriteAudit
<1>4. \A q \in AdminRequests : q # r => ~AdminLive(q)
      BY <1>1 DEF OneLive
<1>5. \A q \in AdminRequests : ~AdminLive(q)'
      BY <1>1, <1>4, AnswerSlot DEF WriteAudit, AdminLive, AdminIdle
<1>6. user' = user /\ effects' = effects
      BY DEF WriteAudit
<1> HIDE DEF e
<1>7. /\ Len(audit') = Len(audit) + 1 /\ audit'[Len(audit) + 1] = e
      /\ \A i \in 1..Len(audit) : audit'[i] = audit[i]
      BY <1>2, <1>3, Appended
<1>8. ASSUME NEW n \in Changes' PROVE Audited(n)'
  <2>1. n \in Changes
        BY <1>6, <1>8 DEF Changes
  <2>2. CASE Audited(n)
        BY <1>2, <1>7, <2>2 DEF Audited
  <2>3. CASE Pending(n)
    <3>1. adminReq[r].n = n
          BY <1>4, <2>3 DEF Pending
    <3>2. audit'[Len(audit) + 1].n = n /\ Len(audit) + 1 \in 1..Len(audit')
          BY <1>2, <1>7, <3>1 DEF e
    <3> QED BY <3>2 DEF Audited
  <2> QED BY <2>1, <2>2, <2>3 DEF AllTold
<1>9. ASSUME NEW u \in Accounts
      PROVE  /\ \E g : IsReplay(g, audit', u)
             /\ \A g : IsReplay(g, audit', u) =>
                  \A row : row = g[Len(audit')] => Told(u, row)'
  <2>1. /\ \E g : IsReplay(g, audit', u)
        /\ \A g : IsReplay(g, audit', u) =>
             \E f : /\ IsReplay(f, audit, u)
                    /\ g[Len(audit')] = IF e.target = u THEN After(e.op, f[Len(audit)])
                                        ELSE f[Len(audit)]
        BY <1>2, <1>3, ReplayExtends DEF TrailTold
  <2>2. \A f : IsReplay(f, audit, u) => Told(u, f[Len(audit)])
        BY DEF TrailTold
  <2>3. e.target = adminReq[r].target /\ e.op = adminReq[r].op
        BY DEF e
  <2>4. ASSUME NEW row, Told(u, row)
        PROVE  user[u] = IF e.target = u THEN After(e.op, row) ELSE row
    <3>1. CASE adminReq[r].target = u
          BY <1>1, <2>3, <2>4, <3>1 DEF Told
    <3>2. CASE adminReq[r].target # u
          BY <1>4, <2>3, <2>4, <3>2 DEF Told, Owes
    <3> QED BY <3>1, <3>2
  <2>5. ASSUME NEW row, row = user[u] PROVE Told(u, row)'
        BY <1>5, <1>6, <2>5 DEF Told, Owes
  <2> QED BY <2>1, <2>2, <2>4, <2>5
<1>10. TrailTold'
      BY <1>9 DEF TrailTold
<1> QED BY <1>8, <1>10 DEF AllTold

LEMMA AloneActionKeeps ==
    ASSUME IInv, OneLive, CallersThere, AllTold, TrailTold, OneLive',
           NEW r \in AdminRequests,
           AdminBegin(r) \/ ReadTarget(r) \/ WriteUser(r) \/ Revoke(r) \/ WriteAudit(r)
    PROVE  CallersThere' /\ AllTold' /\ TrailTold'
<1>1. AdminTypeOK
      BY DEF IInv
<1>2. CASE AdminBegin(r)
  <2>1. PICK actor \in Accounts, op \in AdminOps, target \in Accounts :
          /\ ~AdminLive(r) /\ IsAdmin(actor) /\ MayTarget(actor, op, target)
          /\ adminReq' = [adminReq EXCEPT ![r] = [pc |-> FirstStep(op), actor |-> actor,
                                                  op |-> op, target |-> target, n |-> 0]]
          /\ UNCHANGED <<user, audit, effects>>
        BY <1>2 DEF AdminBegin
  <2>2. /\ adminReq'[r].n = 0 /\ adminReq'[r].actor = actor /\ adminReq'[r].op = op /\ adminReq'[r].target = target
        /\ adminReq'[r].pc # "idle" /\ \A q \in AdminRequests : q # r => adminReq'[q] = adminReq[q]
        BY <1>1, <2>1 DEF AdminTypeOK, FirstStep
  <2>3. \A q \in AdminRequests : q # r => ~AdminLive(q)'
        BY <2>2 DEF OneLive, AdminLive
  <2>4. CallersThere'
        BY <2>1, <2>2, <2>3 DEF CallersThere, IsAdmin, MayTarget
  <2>5. AllTold' /\ TrailTold'
        BY <2>1, <2>2, NothingTold DEF Owes, AdminLive
  <2> QED BY <2>4, <2>5
<1>3. CASE ReadTarget(r)
  <2>1. AdminLive(r) /\ adminReq[r].n = 0 /\ adminReq[r] \in AdminCall
        BY <1>3, LiveIsCall DEF IInv, Numbering, ReadTarget, AdminAt, AdminLive
  <2>2. CASE user[adminReq[r].target].there
    <3>1. /\ adminReq'[r].pc # "idle" /\ adminReq'[r].n = 0 /\ adminReq'[r].op = adminReq[r].op
          /\ adminReq'[r].actor = adminReq[r].actor /\ adminReq'[r].target = adminReq[r].target
          /\ \A q \in AdminRequests : q # r => adminReq'[q] = adminReq[q]
          BY <1>1, <1>3, <2>1, <2>2, PcSlot DEF ReadTarget, AfterRead, AdminPcs
    <3>2. user' = user /\ audit' = audit /\ effects' = effects
          BY <1>3 DEF ReadTarget
    <3>3. CallersThere'
          BY <2>1, <3>1, <3>2 DEF CallersThere, AdminLive, MayTarget
    <3>4. AllTold' /\ TrailTold'
          BY <2>1, <3>1, <3>2, NothingTold DEF Owes, AdminLive
    <3> QED BY <3>3, <3>4
  <2>3. CASE ~user[adminReq[r].target].there
    <3>1. adminReq'[r] = AdminIdle /\ \A q \in AdminRequests : q # r => adminReq'[q] = adminReq[q]
          BY <1>1, <1>3, <2>3, AnswerSlot DEF ReadTarget
    <3>2. user' = user /\ audit' = audit /\ effects' = effects
          BY <1>3 DEF ReadTarget
    <3>3. CallersThere'
          BY <3>1, <3>2 DEF CallersThere, AdminLive, MayTarget, AdminIdle
    <3>4. AllTold' /\ TrailTold'
          BY <2>1, <3>1, <3>2, NothingTold DEF Owes, AdminLive, AdminIdle
    <3> QED BY <3>3, <3>4
  <2> QED BY <2>2, <2>3
<1>4. CASE WriteUser(r)
  <2>1. AdminLive(r) /\ adminReq[r].n = 0 /\ adminReq[r] \in AdminCall
        BY <1>4, LiveIsCall DEF IInv, Numbering, WriteUser, AdminAt, AdminLive
  <2>2. CASE user[adminReq[r].target].there
    <3> DEFINE pc == AfterWrite(adminReq[r].op)
    <3>1. /\ user' = [user EXCEPT ![adminReq[r].target] = Changed(adminReq[r].op, user[adminReq[r].target])]
          /\ Record(r, pc) /\ pc \in {"revoke", "audit"} /\ pc \in AdminPcs
          BY <1>4, <2>2 DEF WriteUser, AfterWrite, AdminPcs
    <3>2. DOMAIN audit = 1..Len(audit) /\ Len(audit) \in Nat /\ \A i \in 1..Len(audit) : audit[i] \in Entry
          BY <1>1 DEF AdminTypeOK
    <3>3. audit' = [i \in 1..Len(audit) |->
                      IF adminReq[r].op = "delete" /\ effects[audit[i].n].actor = adminReq[r].target
                      THEN [audit[i] EXCEPT !.signed = FALSE] ELSE audit[i]]
          BY <1>4, <2>2, <3>2 DEF WriteUser
    <3>4. Len(audit') = Len(audit)
          BY <3>2, <3>3
    <3>5. \A i \in 1..Len(audit) : /\ audit'[i].n = audit[i].n /\ audit'[i].op = audit[i].op
                                   /\ audit'[i].target = audit[i].target
          BY <3>2, <3>3 DEF Entry
    <3>6. AllTold' /\ TrailTold'
          BY <2>1, <3>1, <3>4, <3>5, ChangeIsOwed
    <3>7. /\ adminReq'[r].actor = adminReq[r].actor /\ adminReq'[r].op = adminReq[r].op
          /\ adminReq'[r].target = adminReq[r].target /\ \A q \in AdminRequests : q # r => adminReq'[q] = adminReq[q]
          BY <1>1, <2>1, <3>1, RecordSlot
    <3>8. \A q \in AdminRequests : q # r => ~AdminLive(q)'
          BY <2>1, <3>7 DEF OneLive, AdminLive
    <3>9. user'[adminReq[r].actor].there
      <4>1. user[adminReq[r].actor].there /\ MayTarget(adminReq[r].actor, adminReq[r].op, adminReq[r].target)
            BY <2>1 DEF CallersThere
      <4>2. /\ adminReq[r].actor \in Accounts /\ adminReq[r].target \in Accounts /\ adminReq[r].op \in AllOps
            /\ user[adminReq[r].target] \in User
            BY <1>1, <2>1 DEF AdminCall, AdminTypeOK
      <4>3. CASE adminReq[r].op = "delete"
            BY <1>1, <3>1, <4>1, <4>2, <4>3 DEF MayTarget, AdminTypeOK
      <4>4. CASE adminReq[r].op # "delete"
        <5>1. Changed(adminReq[r].op, user[adminReq[r].target]).there = user[adminReq[r].target].there
              BY <4>2, <4>4 DEF Changed, AllOps, User
        <5> QED BY <1>1, <3>1, <4>1, <4>2, <5>1 DEF AdminTypeOK
      <4> QED BY <4>3, <4>4
    <3>10. CallersThere'
          BY <2>1, <3>7, <3>8, <3>9 DEF CallersThere, MayTarget
    <3> QED BY <3>6, <3>10
  <2>3. CASE ~user[adminReq[r].target].there /\ adminReq[r].op # "reset"
    <3>1. adminReq'[r] = AdminIdle /\ \A q \in AdminRequests : q # r => adminReq'[q] = adminReq[q]
          BY <1>1, <1>4, <2>3, AnswerSlot DEF WriteUser, Misses
    <3>2. user' = user /\ audit' = audit /\ effects' = effects
          BY <1>4, <2>3 DEF WriteUser, Misses
    <3>3. CallersThere'
          BY <3>1, <3>2 DEF CallersThere, AdminLive, MayTarget, AdminIdle
    <3>4. AllTold' /\ TrailTold'
          BY <2>1, <3>1, <3>2, NothingTold DEF Owes, AdminLive, AdminIdle
    <3> QED BY <3>3, <3>4
  <2>4. CASE ~user[adminReq[r].target].there /\ adminReq[r].op = "reset"
    <3>1. Record(r, "revoke") /\ user' = user /\ audit' = audit
          BY <1>4, <2>4 DEF WriteUser, Misses
    <3>2. user' = [user EXCEPT ![adminReq[r].target] = Changed(adminReq[r].op, user[adminReq[r].target])]
          BY <1>1, <2>1, <2>4, <3>1 DEF Changed, AdminTypeOK, AdminCall
    <3>3. AllTold' /\ TrailTold'
          BY <2>1, <3>1, <3>2, ChangeIsOwed
    <3>4. /\ adminReq'[r].actor = adminReq[r].actor /\ adminReq'[r].op = adminReq[r].op
          /\ adminReq'[r].target = adminReq[r].target /\ \A q \in AdminRequests : q # r => adminReq'[q] = adminReq[q]
          BY <1>1, <2>1, <3>1, RecordSlot DEF AdminPcs
    <3>5. CallersThere'
          BY <2>1, <3>1, <3>4 DEF CallersThere, MayTarget, AdminLive
    <3> QED BY <3>3, <3>5
  <2> QED BY <2>2, <2>3, <2>4
<1>5. CASE Revoke(r)
  <2>1. AdminLive(r) /\ adminReq[r] \in AdminCall /\ user' = user /\ audit' = audit
        BY <1>5, LiveIsCall DEF IInv, Revoke, AdminAt, AdminLive
  <2>2. CASE adminReq[r].op = "logout"
    <3>1. adminReq[r].n = 0 /\ Record(r, "audit")
          BY <1>5, <2>2 DEF IInv, Numbering, Revoke, AdminAt, AdminLive
    <3>2. Changed(adminReq[r].op, user[adminReq[r].target]) = user[adminReq[r].target]
          BY <2>2 DEF Changed
    <3>3. user' = [user EXCEPT ![adminReq[r].target] = Changed(adminReq[r].op, user[adminReq[r].target])]
          BY <1>1, <2>1, <3>2 DEF AdminTypeOK, AdminCall
    <3>4. AllTold' /\ TrailTold'
          BY <2>1, <3>1, <3>3, ChangeIsOwed
    <3>5. /\ adminReq'[r].actor = adminReq[r].actor /\ adminReq'[r].op = adminReq[r].op
          /\ adminReq'[r].target = adminReq[r].target /\ \A q \in AdminRequests : q # r => adminReq'[q] = adminReq[q]
          BY <1>1, <2>1, <3>1, RecordSlot DEF AdminPcs
    <3>6. CallersThere'
          BY <2>1, <3>5 DEF CallersThere, MayTarget, AdminLive
    <3> QED BY <3>4, <3>6
  <2>3. CASE adminReq[r].op # "logout"
    <3>1. adminReq' = [adminReq EXCEPT ![r].pc = AfterRevoke(adminReq[r].op)] /\ effects' = effects
          BY <1>5, <2>3 DEF Revoke
    <3>2. /\ adminReq'[r].pc # "idle" /\ adminReq'[r].n = adminReq[r].n /\ adminReq'[r].op = adminReq[r].op
          /\ adminReq'[r].actor = adminReq[r].actor /\ adminReq'[r].target = adminReq[r].target
          /\ \A q \in AdminRequests : q # r => adminReq'[q] = adminReq[q]
          BY <1>1, <2>1, <3>1, PcSlot DEF AfterRevoke, AdminPcs
    <3>3. CallersThere'
          BY <2>1, <3>2 DEF CallersThere, AdminLive, MayTarget
    <3>4. AllTold' /\ TrailTold'
          BY <2>1, <3>1, <3>2, NothingTold DEF Owes, AdminLive
    <3> QED BY <3>3, <3>4
  <2> QED BY <2>2, <2>3
<1>6. CASE WriteAudit(r)
  <2>1. AllTold' /\ TrailTold'
        BY <1>6, AuditPays
  <2>2. AdminLive(r) /\ adminReq'[r] = AdminIdle /\ user' = user /\ \A q \in AdminRequests : q # r => adminReq'[q] = adminReq[q]
        BY <1>1, <1>6, AnswerSlot DEF WriteAudit, AdminAt, AdminLive
  <2>3. CallersThere'
        BY <2>2 DEF CallersThere, AdminLive, MayTarget, AdminIdle
  <2> QED BY <2>1, <2>3
<1> QED BY <1>2, <1>3, <1>4, <1>5, <1>6

LEMMA AloneInit == MCAdminInit => AloneInv
<1> SUFFICES ASSUME MCAdminInit PROVE AloneInv
    OBVIOUS
<1>1. /\ \A r \in AdminRequests : ~AdminLive(r)
      /\ Len(audit) = 0 /\ Len(effects) = 0 /\ adminOverlap = FALSE
      BY DEF MCAdminInit, AdminInit, AdminLive, AdminIdle
<1>2. ASSUME NEW u \in Accounts
      PROVE  /\ \E f : IsReplay(f, audit, u)
             /\ \A f : IsReplay(f, audit, u) => Told(u, f[Len(audit)])
  <2>1. user[u] = [there |-> TRUE, admin |-> u \in FirstAdmins, disabled |-> FALSE]
        BY DEF MCAdminInit, AdminInit
  <2>2. ASSUME NEW f, IsReplay(f, audit, u) PROVE f[Len(audit)] = user[u]
        BY <1>1, <2>1, <2>2 DEF IsReplay
  <2>3. ASSUME NEW row, row = user[u] PROVE Told(u, row)
        BY <1>1, <2>3 DEF Told, Owes
  <2>4. IsReplay([k \in 0..Len(audit) |->
                    [there |-> TRUE, admin |-> u \in FirstAdmins, disabled |-> FALSE]], audit, u)
        BY <1>1 DEF IsReplay
  <2> QED BY <2>2, <2>3, <2>4
<1>3. CallersThere /\ AllTold /\ OneLive
      BY <1>1 DEF CallersThere, AllTold, OneLive, Changes
<1> QED BY <1>1, <1>2, <1>3 DEF AloneInv, TrailTold

LEMMA AloneStep == IInv /\ AloneInv /\ [MCAdminNext]_<<adminVars, adminOverlap>> => AloneInv'
<1> SUFFICES ASSUME IInv, AloneInv, [MCAdminNext]_<<adminVars, adminOverlap>> PROVE AloneInv'
    OBVIOUS
<1>1. CASE UNCHANGED <<adminVars, adminOverlap>>
  <2>1. UNCHANGED <<user, audit, adminReq, adminCrashes, effects, adminOverlap>>
        BY <1>1 DEF adminVars
  <2>2. CallersThere /\ AllTold /\ TrailTold => CallersThere' /\ AllTold' /\ TrailTold'
        BY <2>1, NothingTold DEF CallersThere, Owes, AdminLive
  <2>3. OneLive => OneLive'
        BY <2>1 DEF OneLive, AdminLive
  <2> QED BY <2>1, <2>2, <2>3 DEF AloneInv, AdminAlone
<1>2. CASE MCAdminNext
  <2>1. /\ adminOverlap' \in BOOLEAN /\ (adminOverlap => adminOverlap')
        /\ ~adminOverlap' => \A q, r \in AdminRequests : ~(q # r /\ AdminLive(q)' /\ AdminLive(r)')
        BY <1>2 DEF AloneInv, MCAdminNext
  <2>2. ~adminOverlap' => OneLive'
        BY <2>1 DEF OneLive
  <2>3. ASSUME AdminAlone' PROVE CallersThere' /\ AllTold' /\ TrailTold'
    <3>1. ~adminOverlap /\ ~adminOverlap' /\ adminCrashes' = 0 /\ adminCrashes \in Nat
          BY <2>1, <2>3 DEF AdminAlone, IInv, AdminTypeOK
    <3>2. ~Restart
          BY <3>1 DEF Restart
    <3>3. PICK r \in AdminRequests :
            AdminBegin(r) \/ ReadTarget(r) \/ WriteUser(r) \/ Revoke(r) \/ WriteAudit(r)
          BY <1>2, <3>2 DEF MCAdminNext, AdminNext
    <3>4. adminCrashes = 0
          BY <3>1, <3>3 DEF AdminBegin, ReadTarget, WriteUser, Revoke, WriteAudit
    <3> QED BY <2>2, <3>1, <3>3, <3>4, AloneActionKeeps DEF AloneInv, AdminAlone
  <2> QED BY <2>1, <2>2, <2>3 DEF AloneInv
<1> QED BY <1>1, <1>2

\* While requests do not overlap and nothing restarts, every change is in the
\* trail and the trail alone tells who is there, suspended and an admin: for
\* any accounts and however many requests there were (TrailTellsState).
THEOREM TrailIsCompleteAlone == MCAdminSpec => []AloneTrailIsComplete
<1>1. IInv /\ [MCAdminNext]_<<adminVars, adminOverlap>> => IInv'
      BY InvNext DEF MCAdminNext, adminVars
<1>2. IInv /\ AloneInv => AloneTrailIsComplete
  <2> SUFFICES ASSUME AloneInv, AdminAlone, AdminQuiet
               PROVE  /\ \A n \in Changes : Audited(n)
                      /\ \A u \in Accounts : Replay(u) = user[u]
      BY DEF AloneTrailIsComplete, EveryMutationAudited, TrailTellsState
  <2>1. \A n \in Changes : Audited(n)
        BY DEF AloneInv, AllTold, Pending, AdminQuiet
  <2>2. ASSUME NEW u \in Accounts PROVE Replay(u) = user[u]
    <3>1. PICK f : IsReplay(f, audit, u) /\ Replay(u) = f[Len(audit)]
          BY ReplayStands DEF AloneInv, TrailTold
    <3>2. Told(u, f[Len(audit)])
          BY <3>1 DEF AloneInv, TrailTold
    <3> QED BY <3>1, <3>2 DEF Told, Owes, AdminQuiet
  <2> QED BY <2>1, <2>2
<1>3. MCAdminInit => IInv /\ AloneInv
      BY InvInit, AloneInit DEF MCAdminInit
<1> QED BY <1>1, <1>2, <1>3, AloneStep, PTL DEF MCAdminSpec

=============================================================================
