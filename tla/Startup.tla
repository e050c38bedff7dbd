-------------------------------- MODULE Startup --------------------------------
(***************************************************************************)
(* Bringing the server up: the migration job of server/app/db/migrate.py,  *)
(* which a deployment runs beside the servers, and the lifespan of the     *)
(* application in server/app/main.py, over one database that may be down.  *)
(* Migrations are numbered by the order of their file names; a release     *)
(* carries the first so many of them, and releases overlap.                *)
(***************************************************************************)
EXTENDS Naturals, FiniteSets

CONSTANTS
    Jobs,           \* migration jobs that may run at the same time
    Servers,        \* server processes
    LastMigration,  \* migrations of the newest release
    RolesMigration, \* the migration that adds users.role (009_user_roles)
    MaxCuts,        \* bound: jobs cut off or servers stopped
    MaxOutages      \* bound: times the database goes down

ASSUME StartupAssumption ==
    /\ LastMigration \in Nat \ {0}
    /\ RolesMigration \in 1..LastMigration
    /\ MaxCuts \in Nat
    /\ MaxOutages \in Nat

VARIABLES
    database,       \* "up" or "down"
    applied,        \* schema_migrations
    ran,            \* history: how often the SQL of a migration was committed
    job,            \* the jobs
    server,         \* the servers
    listed,         \* the account of an ADMIN_EMAILS address
    cuts, outages,  \* so far
    demoted         \* history: an admin took the role of the account away

startupVars == <<database, applied, ran, job, server, listed, cuts, outages, demoted>>

Migrations == 1..LastMigration

JobOff == [pc |-> "off", files |-> 0, done |-> {}, next |-> 1]
JobType == [pc : {"off", "read", "loop", "complete", "failed"}, files : 0..LastMigration,
            done : SUBSET Migrations, next : 1..(LastMigration + 1)]

\* The settings of a process: what of them decides how it starts.
Settings == [is_production : BOOLEAN, insecure_secret : BOOLEAN]
Off == [pc |-> "off", pool |-> FALSE, promoted |-> FALSE]
ServerType == [pc : {"off", "created", "bootstrap", "serving", "refused"}, pool : BOOLEAN,
               promoted : BOOLEAN]

\* What an address of ADMIN_EMAILS may be: admin_emails is the list of them.
ListedAccounts == {"absent", "user", "admin"}

StartupTypeOK ==
    /\ database \in {"up", "down"}
    /\ applied \subseteq Migrations
    /\ ran \in [Migrations -> Nat]
    /\ job \in [Jobs -> JobType]
    /\ server \in [Servers -> ServerType]
    /\ listed \in ListedAccounts
    /\ cuts \in 0..MaxCuts /\ outages \in 0..MaxOutages
    /\ demoted \in BOOLEAN

StartupInit ==
    /\ database = "up"
    /\ applied = {}
    /\ ran = [v \in Migrations |-> 0]
    /\ job = [j \in Jobs |-> JobOff]
    /\ server = [s \in Servers |-> Off]
    /\ listed = "absent"
    /\ cuts = 0 /\ outages = 0
    /\ demoted = FALSE

-----------------------------------------------------------------------------
(* The migration job. *)

Up == database = "up"

\* create_pool, which opens a connection at once: it raises while there is no
\* database behind the URL.
PoolOpens == Up

SetJob(j, r) == job' = [job EXCEPT ![j] = r]
JobFrame == UNCHANGED <<database, server, listed, cuts, outages, demoted>>

\* run_migrations of a release of n files: the pool opens or the job fails.  A
\* deployment may run it again, and need not.
StartJob(j, n) ==
    /\ job[j].pc \in {"off", "failed"} \/ (job[j].pc = "complete" /\ job[j].files < n)
    /\ PoolOpens
    /\ SetJob(j, [pc |-> "read", files |-> n, done |-> {}, next |-> 1])
    /\ UNCHANGED <<applied, ran>> /\ JobFrame

\* ensure_migrations_table and applied_versions.
ReadApplied(j) ==
    /\ job[j].pc = "read" /\ Up
    /\ SetJob(j, [job[j] EXCEPT !.pc = "loop", !.done = applied])
    /\ UNCHANGED <<applied, ran>> /\ JobFrame

FinishedLate(j) == job[j].next > job[j].files + 1
Finished(j) == job[j].next > job[j].files

AppliesUnkeyed(j) ==
    LET v == job[j].next IN
    /\ job[j].pc = "loop" /\ ~ Finished(j) /\ Up
    /\ SetJob(j, [job[j] EXCEPT !.next = v + 1])
    /\ IF v \in job[j].done
       THEN UNCHANGED <<applied, ran>>
       ELSE ran' = [ran EXCEPT ![v] = @ + 1] /\ applied' = applied \cup {v}
    /\ JobFrame
\* One file: skipped when it was done at the start, else its SQL and its row in
\* one transaction, which the primary key aborts, and the job with it, when
\* another job has committed that version since.
ApplyNext(j) ==
    LET v == job[j].next IN
    /\ job[j].pc = "loop" /\ ~ Finished(j) /\ Up
    /\ \/ /\ v \in job[j].done
          /\ SetJob(j, [job[j] EXCEPT !.next = v + 1]) /\ UNCHANGED <<applied, ran>>
       \/ /\ v \notin job[j].done /\ v \in applied
          /\ SetJob(j, [job[j] EXCEPT !.pc = "failed"]) /\ UNCHANGED <<applied, ran>>
       \/ /\ v \notin job[j].done /\ v \notin applied
          /\ ran' = [ran EXCEPT ![v] = @ + 1]
          /\ applied' = applied \cup {v}
          /\ SetJob(j, [job[j] EXCEPT !.next = v + 1])
    /\ JobFrame

EndJob(j) ==
    /\ job[j].pc = "loop" /\ Finished(j)
    /\ SetJob(j, [job[j] EXCEPT !.pc = "complete"])
    /\ UNCHANGED <<applied, ran>> /\ JobFrame

\* The job is killed, loses its connection or times out: what it had not
\* committed is rolled back.
CutJob(j) ==
    /\ job[j].pc \in {"read", "loop"} /\ cuts < MaxCuts
    /\ SetJob(j, [job[j] EXCEPT !.pc = "failed"])
    /\ cuts' = cuts + 1
    /\ UNCHANGED <<database, applied, ran, server, listed, outages, demoted>>

-----------------------------------------------------------------------------
(* The server. *)

SetServer(s, r) == server' = [server EXCEPT ![s] = r]
ServerFrame == UNCHANGED <<database, applied, ran, job, outages, demoted>>

\* create_app: a production server does not start on the default secret.
CreateApp(s) ==
    /\ server[s].pc = "off"
    /\ \E settings \in Settings :
          SetServer(s, [Off EXCEPT !.pc = IF settings.insecure_secret /\ settings.is_production
                                          THEN "refused" ELSE "created"])
    /\ UNCHANGED <<listed, cuts>> /\ ServerFrame

\* lifespan, up to the bootstrap: a database that is down leaves the process
\* without a pool, and it goes on.
OpenPool(s) ==
    /\ server[s].pc = "created"
    /\ SetServer(s, [server[s] EXCEPT !.pc = "bootstrap", !.pool = PoolOpens])
    /\ UNCHANGED <<listed, cuts>> /\ ServerFrame

BootstrapsWithoutTheUpdate(s) ==
    LET works == server[s].pool /\ Up /\ RolesMigration \in applied IN
    /\ server[s].pc = "bootstrap"
    /\ SetServer(s, [server[s] EXCEPT !.pc = "serving",
                                      !.promoted = works /\ listed # "absent"])
    /\ UNCHANGED <<listed, cuts>> /\ ServerFrame
\* _bootstrap_admins, whose failures are logged and no more: without a pool, a
\* database or the roles there is nobody to promote.
BootstrapAdmins(s) ==
    LET works == server[s].pool /\ Up /\ RolesMigration \in applied IN
    /\ server[s].pc = "bootstrap"
    /\ SetServer(s, [server[s] EXCEPT !.pc = "serving",
                                      !.promoted = works /\ listed # "absent"])
    /\ listed' = IF works /\ listed = "user" THEN "admin" ELSE listed
    /\ UNCHANGED cuts /\ ServerFrame

\* The process is stopped, and its supervisor may start it again.
StopServer(s) ==
    /\ server[s].pc \notin {"off", "refused"} /\ cuts < MaxCuts
    /\ SetServer(s, Off)
    /\ cuts' = cuts + 1
    /\ UNCHANGED listed /\ ServerFrame

\* What /ready says: the pool is there and the database answers it.
Ready(s) == server[s].pool /\ Up

\* Whether a request gets an answer that names a user: his row has a role.
Answers(s) == server[s].pc = "serving" /\ Ready(s) /\ RolesMigration \in applied

\* The address registers, with the default role.
RegisterListed(s) ==
    /\ Answers(s) /\ listed = "absent"
    /\ listed' = "user"
    /\ UNCHANGED <<server, cuts>> /\ ServerFrame

\* bootstrap_admin.py: the same promotion, run by hand.
PromoteByHand ==
    /\ PoolOpens /\ RolesMigration \in applied /\ listed = "user"
    /\ listed' = "admin"
    /\ UNCHANGED <<server, cuts>> /\ ServerFrame

\* Another admin demotes the account in the portal.
DemoteListed(s) ==
    /\ Answers(s) /\ listed = "admin" /\ ~ demoted
    /\ listed' = "user" /\ demoted' = TRUE
    /\ UNCHANGED <<database, applied, ran, job, server, cuts, outages>>

-----------------------------------------------------------------------------
DatabaseFails ==
    /\ Up /\ outages < MaxOutages
    /\ database' = "down" /\ outages' = outages + 1
    /\ UNCHANGED <<applied, ran, job, server, listed, cuts, demoted>>

DatabaseReturns ==
    /\ ~ Up
    /\ database' = "up"
    /\ UNCHANGED <<applied, ran, job, server, listed, cuts, outages, demoted>>

JobStep(j) == ReadApplied(j) \/ ApplyNext(j) \/ EndJob(j)

StartupNext ==
    \/ \E j \in Jobs : \/ \E n \in Migrations : StartJob(j, n)
                       \/ JobStep(j) \/ CutJob(j)
    \/ \E s \in Servers : \/ CreateApp(s) \/ OpenPool(s) \/ BootstrapAdmins(s)
                          \/ StopServer(s) \/ RegisterListed(s) \/ DemoteListed(s)
    \/ PromoteByHand \/ DatabaseFails \/ DatabaseReturns

StartupSpec == StartupInit /\ [][StartupNext]_startupVars

-----------------------------------------------------------------------------
\* However many jobs of however many releases overlap, are cut off and run
\* again: the SQL of a migration is committed once, and none before those that
\* its file name puts before it.
OnceAndInOrder ==
    /\ \E n \in 0..LastMigration : applied = 1..n
    /\ \A v \in Migrations : ran[v] = IF v \in applied THEN 1 ELSE 0

\* A job that ends well leaves the schema of its release, whoever applied it.
CompleteMeansMigrated ==
    \A j \in Jobs : job[j].pc = "complete" => 1..job[j].files \subseteq applied

\* Jobs that overlap, fail and are run again keep the schema and its table in step.
MigrationsHold == OnceAndInOrder /\ CompleteMeansMigrated

\* The listed account is an admin from the first start of a server that could
\* promote it on, unless an admin demotes it: the promotion is not undone by
\* a later start whose bootstrap fails.
PromotionHolds ==
    (\E s \in Servers : server[s].promoted) => listed = "admin" \/ demoted
=============================================================================
