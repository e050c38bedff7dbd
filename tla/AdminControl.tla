----------------------------- MODULE AdminControl -----------------------------
(***************************************************************************)
(* The admin portal's power over accounts and the trail it leaves:         *)
(* server/app/admin/service.py behind core/deps.get_current_admin, over    *)
(* the users table and admin_audit_log, with the ADMIN_EMAILS promotion of *)
(* a restart.  A request is one process with one action per SQL statement; *)
(* each statement commits on its own.  The refresh tokens it revokes are   *)
(* those of AuthSessions and are not kept here.                            *)
(***************************************************************************)
EXTENDS Naturals, Sequences

CONSTANTS
    Accounts,       \* accounts that exist at the beginning
    FirstAdmins,    \* those that begin with the role admin
    Bootstrap,      \* the accounts ADMIN_EMAILS names
    AdminOps,       \* the operations the portal is used for
    AdminRequests,  \* request slots: how many handlers may overlap
    MaxStarts,      \* requests admitted in a behaviour
    MaxAdminCrashes \* server restarts in a behaviour

AllOps == {"update", "disable", "enable", "promote", "demote", "delete",
           "logout", "reset"}

ASSUME AdminAssumption ==
    /\ FirstAdmins \subseteq Accounts /\ FirstAdmins # {}
    /\ Bootstrap \subseteq Accounts
    /\ AdminOps \subseteq AllOps
    /\ MaxStarts \in Nat /\ MaxAdminCrashes \in Nat

VARIABLES
    user,           \* the users table
    audit,          \* admin_audit_log, in the order of its inserts
    adminReq,       \* the handlers in flight
    starts,         \* requests admitted so far
    adminCrashes,   \* restarts so far
    effects,        \* history: what the operations report, in the order of
                    \* the statements that carry them out
    lost            \* history: changes whose handler a restart ended

adminVars == <<user, audit, adminReq, starts, adminCrashes, effects, lost>>

User == [there: BOOLEAN, admin: BOOLEAN, disabled: BOOLEAN]
Gone == [there |-> FALSE, admin |-> FALSE, disabled |-> FALSE]

\* get_current_user and get_current_admin let this account through.
IsAdmin(u) == user[u].there /\ user[u].admin /\ ~user[u].disabled

\* made: the statement found the account it was for.
Effect == [actor: Accounts, op: AllOps, target: Accounts, made: BOOLEAN]
\* n is the effect the entry is about; signed, whether actor_user_id still
\* names the actor (ON DELETE SET NULL).
Entry == [n: Nat, op: AllOps, target: Accounts, signed: BOOLEAN]

AdminPcs == {"read", "write", "revoke", "audit"}
\* n is the effect of this handler, 0 before it has one.
AdminCall == [pc: AdminPcs, actor: Accounts, op: AllOps, target: Accounts, n: Nat]
AdminIdle == [pc |-> "idle"]

-----------------------------------------------------------------------------
(* Control inside a handler *)

AdminLive(r) == adminReq[r].pc # "idle"
AdminAt(r, pc) == adminReq[r].pc = pc
AdminAnswer(r) == adminReq' = [adminReq EXCEPT ![r] = AdminIdle]

\* update_user is one UPDATE; every other operation reads its target first.
FirstStep(op) == IF op = "update" THEN "write" ELSE "read"
AfterRead(op) == IF op \in {"delete", "logout"} THEN "revoke" ELSE "write"
AfterWrite(op) == IF op \in {"disable", "reset"} THEN "revoke" ELSE "audit"
AfterRevoke(op) == IF op = "delete" THEN "write" ELSE "audit"

\* What req[r] will report, numbered and remembered until it is audited.
Record(r, pc) ==
    /\ effects' = Append(effects, [actor |-> adminReq[r].actor, op |-> adminReq[r].op,
                                   target |-> adminReq[r].target,
                                   made |-> user[adminReq[r].target].there])
    /\ adminReq' = [adminReq EXCEPT ![r].pc = pc, ![r].n = Len(effects) + 1]

-----------------------------------------------------------------------------
(* The operations *)

\* What they make of the target's row.
Changed(op, row) ==
    CASE op = "disable" -> [row EXCEPT !.disabled = TRUE]
      [] op = "enable"  -> [row EXCEPT !.disabled = FALSE]
      [] op = "promote" -> [row EXCEPT !.admin = TRUE]
      [] op = "demote"  -> [row EXCEPT !.admin = FALSE]
      [] op = "delete"  -> Gone
      [] OTHER          -> row

\* An admin does not disable, enable, promote, demote or delete the own account.
MayTarget(actor, op, target) ==
    op \in {"disable", "enable", "promote", "demote", "delete"} => actor # target

AdminBegin(r) == \E actor \in Accounts, op \in AdminOps, target \in Accounts :
    /\ ~AdminLive(r) /\ starts < MaxStarts
    /\ IsAdmin(actor)
    /\ MayTarget(actor, op, target)
    /\ starts' = starts + 1
    /\ adminReq' = [adminReq EXCEPT ![r] = [pc |-> FirstStep(op), actor |-> actor,
                                            op |-> op, target |-> target, n |-> 0]]
    /\ UNCHANGED <<user, audit, adminCrashes, effects, lost>>

\* get_by_id: an account that is gone is answered 404.
ReadTarget(r) ==
    /\ AdminAt(r, "read")
    /\ IF user[adminReq[r].target].there
       THEN adminReq' = [adminReq EXCEPT ![r].pc = AfterRead(adminReq[r].op)]
       ELSE AdminAnswer(r)
    /\ UNCHANGED <<user, audit, starts, adminCrashes, effects, lost>>

\* The statement found no row: the answer is 404, except that reset_password
\* does not look at the result of its UPDATE and goes on.
MissesIgnored(r) == Record(r, AfterWrite(adminReq[r].op))
Misses(r) ==
    IF adminReq[r].op = "reset" THEN Record(r, "revoke")
    ELSE AdminAnswer(r) /\ UNCHANGED effects

\* The UPDATE or DELETE of the row; a deletion takes the actor out of the
\* entries that account signed.
WriteUser(r) ==
    LET u == adminReq[r].target IN
    /\ AdminAt(r, "write")
    /\ IF user[u].there
       THEN /\ user' = [user EXCEPT ![u] = Changed(adminReq[r].op, user[u])]
            /\ Record(r, AfterWrite(adminReq[r].op))
            /\ audit' = [i \in DOMAIN audit |->
                 IF adminReq[r].op = "delete" /\ effects[audit[i].n].actor = u
                 THEN [audit[i] EXCEPT !.signed = FALSE] ELSE audit[i]]
       ELSE Misses(r) /\ UNCHANGED <<user, audit>>
    /\ UNCHANGED <<starts, adminCrashes, lost>>

\* revoke_all_for_user, which for a forced logout is the change itself; nobody
\* looks at how many rows it revoked.
Revoke(r) ==
    /\ AdminAt(r, "revoke")
    /\ IF adminReq[r].op = "logout"
       THEN Record(r, "audit")
       ELSE /\ adminReq' = [adminReq EXCEPT ![r].pc = AfterRevoke(adminReq[r].op)]
            /\ UNCHANGED effects
    /\ UNCHANGED <<user, audit, starts, adminCrashes, lost>>

AuditOfOthers(r) ==
    /\ AdminAt(r, "audit")
    /\ audit' = IF user[adminReq[r].actor].there /\ adminReq[r].actor # adminReq[r].target
                THEN Append(audit, [n |-> adminReq[r].n, op |-> adminReq[r].op,
                                    target |-> adminReq[r].target, signed |-> TRUE])
                ELSE audit
    /\ AdminAnswer(r)
    /\ UNCHANGED <<user, starts, adminCrashes, effects, lost>>

\* _audit: the insert fails when the actor is no longer an account, which is
\* logged and otherwise ignored.
WriteAudit(r) ==
    /\ AdminAt(r, "audit")
    /\ audit' = IF user[adminReq[r].actor].there
                THEN Append(audit, [n |-> adminReq[r].n, op |-> adminReq[r].op,
                                    target |-> adminReq[r].target, signed |-> TRUE])
                ELSE audit
    /\ AdminAnswer(r)
    /\ UNCHANGED <<user, starts, adminCrashes, effects, lost>>

-----------------------------------------------------------------------------

\* What promote_by_emails would promote.
Promoted == {u \in Bootstrap : user[u].there}

\* Requests in flight end where they are; the new process promotes the
\* accounts of ADMIN_EMAILS before it serves, unless that statement fails.
Restart ==
    /\ adminCrashes < MaxAdminCrashes
    /\ adminCrashes' = adminCrashes + 1
    /\ lost' = lost \cup {adminReq[r].n : r \in {q \in AdminRequests :
                                                 AdminLive(q) /\ adminReq[q].n # 0}}
    /\ adminReq' = [r \in AdminRequests |-> AdminIdle]
    /\ \E P \in {{}, Promoted} :
         user' = [u \in Accounts |-> IF u \in P THEN [user[u] EXCEPT !.admin = TRUE]
                                     ELSE user[u]]
    /\ UNCHANGED <<audit, starts, effects>>

AdminInit ==
    /\ user = [u \in Accounts |-> [there |-> TRUE, admin |-> u \in FirstAdmins, disabled |-> FALSE]]
    /\ audit = <<>> /\ effects = <<>> /\ lost = {}
    /\ adminReq = [r \in AdminRequests |-> AdminIdle]
    /\ starts = 0 /\ adminCrashes = 0

AdminNext ==
    \/ \E r \in AdminRequests :
         AdminBegin(r) \/ ReadTarget(r) \/ WriteUser(r) \/ Revoke(r) \/ WriteAudit(r)
    \/ Restart

AdminSpec == AdminInit /\ [][AdminNext]_adminVars

-----------------------------------------------------------------------------
(* Properties *)

\* The tables and the handlers keep their shape.
AdminTypeOK ==
    /\ user \in [Accounts -> User]
    /\ audit \in Seq(Entry) /\ effects \in Seq(Effect)
    /\ adminReq \in [AdminRequests -> AdminCall \cup {AdminIdle}]
    /\ starts \in Nat /\ adminCrashes \in Nat /\ lost \subseteq Nat

\* The portal never locks everybody out: somebody can still use it.
AlwaysAnAdmin == \E u \in Accounts : IsAdmin(u)

Changes == 1..Len(effects)
Audited(n) == \E i \in 1..Len(audit) : audit[i].n = n
Pending(n) == \E r \in AdminRequests : AdminLive(r) /\ adminReq[r].n = n

\* The two operations that report success without looking for the account.
Blind == {"reset", "logout"}

\* An entry of the trail tells of a change that was made, by whom unless that
\* account is gone, and no change is told twice.  The exception is a password
\* reset or a forced logout of an account that was deleted after it was found.
TrailIsTrue ==
    /\ \A i \in 1..Len(audit) :
         LET e == effects[audit[i].n] IN
         /\ audit[i].n \in Changes
         /\ e.op = audit[i].op /\ e.target = audit[i].target
         /\ e.made \/ (e.op \in Blind /\ ~user[e.target].there)
         /\ audit[i].signed => user[e.actor].there
    /\ \A i, j \in 1..Len(audit) : audit[i].n = audit[j].n => i = j

\* A change is missing from the trail only while its handler runs, or because
\* a restart ended it or the actor's own account was deleted meanwhile.
GapsExplained == \A n \in Changes :
    \/ Audited(n) \/ Pending(n) \/ n \in lost
    \/ ~user[effects[n].actor].there

\* With nothing in flight, every change is in the trail.
AdminQuiet == \A r \in AdminRequests : ~AdminLive(r)
EveryMutationAudited == AdminQuiet => \A n \in Changes : Audited(n)

\* With nothing in flight, the trail read from its beginning tells which
\* accounts are there, suspended and admins.
After(op, row) ==
    [there    |-> row.there /\ op # "delete",
     admin    |-> (row.admin \/ op = "promote") /\ op \notin {"demote", "delete"},
     disabled |-> (row.disabled \/ op = "disable") /\ op \notin {"enable", "delete"}]
Replay(u) ==
    LET upto[k \in 0..Len(audit)] ==
          IF k = 0 THEN [there |-> TRUE, admin |-> u \in FirstAdmins, disabled |-> FALSE]
          ELSE IF audit[k].target = u THEN After(audit[k].op, upto[k - 1])
          ELSE upto[k - 1]
    IN upto[Len(audit)]
TrailTellsState == AdminQuiet => \A u \in Accounts : Replay(u) = user[u]
=============================================================================
