------------------------------- MODULE Guardians -------------------------------
(***************************************************************************)
(* Guardianships: server/app/guardians/service.py over the table of        *)
(* migration 003, the registration that links invites to a new account,    *)
(* and the admin overrides.  A link is between a protected user and an     *)
(* e-mail address; here an address is the person it belongs to, who may    *)
(* have an account or not.  Handlers are processes with one action per SQL *)
(* statement, each of which commits on its own.                            *)
(***************************************************************************)
EXTENDS Naturals, FiniteSets

CONSTANTS
    Owners,         \* people who invite; they begin with an account
    Invitees,       \* people who are invited; they begin without one
    LinkRequests,   \* request slots: how many handlers may overlap
    MaxRows,        \* rows ever inserted into guardians
    MaxLinkCrashes  \* server restarts in a behaviour

ASSUME LinkAssumption ==
    /\ Owners \cap Invitees = {}
    /\ MaxRows \in Nat
    /\ MaxLinkCrashes \in Nat

VARIABLES
    account,        \* whether a person has an account
    link,           \* the guardians table, by protected user and address
    rows,           \* rows inserted so far; a row's id is its number
    linkReq,        \* the handlers in flight
    linkCrashes,    \* restarts so far
    asked,          \* history: rows whose guardian asked to accept
    forced,         \* history: rows whose status an admin forced
    late            \* history: rows not pending when the guardian registered

linkTables == <<account, link, rows>>
history == <<asked, forced, late>>
linkVars == <<linkTables, linkReq, linkCrashes, history>>

People == Owners \cup Invitees
Links == Owners \X Invitees
LinkStatuses == {"pending", "accepted", "rejected", "removed"}
Ids == 0..MaxRows

\* linked: guardian_user_id is not NULL.
LinkRow == [id: Ids, status: LinkStatuses \cup {"none"}, linked: BOOLEAN]
NoLink == [id |-> 0, status |-> "none", linked |-> FALSE]
LinkExists(l) == link[l].status # "none"

\* What a DELETE leaves of a row.
Deleted == NoLink

Anything(from) == LinkStatuses

\* The transition table.
LinkMoves(from) ==
    CASE from = "pending"  -> {"accepted", "rejected", "removed"}
      [] from = "accepted" -> {"removed"}
      [] from = "rejected" -> {"pending", "removed"}
      [] OTHER             -> {}

LinkOps == {"invite", "update", "force", "register"}
LinkPcs == {"lookup", "create", "reopen", "link", "write", "linkPending"}
\* id is the row the handler has read, 0 if there was none; found is whether
\* the invited address had an account.
LinkCall == [pc: LinkPcs, op: LinkOps, link: Links, id: Ids, to: LinkStatuses, found: BOOLEAN]
LinkIdle == [pc |-> "idle"]

-----------------------------------------------------------------------------
(* Control inside a handler *)

LinkLive(r) == linkReq[r].pc # "idle"
LinkAt(r, pc) == linkReq[r].pc = pc
LinkGoto(r, pc) == linkReq' = [linkReq EXCEPT ![r].pc = pc]
LinkAnswer(r) == linkReq' = [linkReq EXCEPT ![r] = LinkIdle]
Start(r, pc, op, l, to) ==
    /\ ~LinkLive(r)
    /\ linkReq' = [linkReq EXCEPT ![r] = [pc |-> pc, op |-> op, link |-> l,
                     id |-> link[l].id, to |-> to, found |-> FALSE]]

HasAccount(p) == account[p] = "there"
\* The row a handler read is still in the table.
SameRow(r) == linkReq[r].id # 0 /\ link[linkReq[r].link].id = linkReq[r].id

-----------------------------------------------------------------------------
(* GuardiansService.invite *)

\* An existing row is a conflict unless it was removed.
Invite(r) == \E l \in Links :
    /\ HasAccount(l[1])
    /\ LinkExists(l) => link[l].status = "removed"
    /\ Start(r, "lookup", "invite", l, "pending")
    /\ UNCHANGED <<linkTables, linkCrashes, history>>

\* Is there an account with the address?
Lookup(r) ==
    /\ LinkAt(r, "lookup")
    /\ linkReq' = [linkReq EXCEPT
         ![r].pc = IF linkReq[r].id = 0 THEN "create" ELSE "reopen",
         ![r].found = HasAccount(linkReq[r].link[2])]
    /\ UNCHANGED <<linkTables, linkCrashes, history>>

\* The foreign keys and the unique key of the insert.
LinkKeysHold(r) ==
    /\ HasAccount(linkReq[r].link[1])
    /\ linkReq[r].found => HasAccount(linkReq[r].link[2])
    /\ ~LinkExists(linkReq[r].link)

Create(r) ==
    /\ LinkAt(r, "create") /\ LinkKeysHold(r) /\ rows < MaxRows
    /\ rows' = rows + 1
    /\ link' = [link EXCEPT ![linkReq[r].link] =
         [id |-> rows + 1, status |-> "pending", linked |-> linkReq[r].found]]
    /\ LinkAnswer(r)
    /\ UNCHANGED <<account, linkCrashes, history>>

\* The insert is refused: the answer is an error.
InviteFails(r) ==
    /\ LinkAt(r, "create") /\ ~LinkKeysHold(r)
    /\ LinkAnswer(r)
    /\ UNCHANGED <<linkTables, linkCrashes, history>>

\* A removed row goes back to pending, and is linked by a second statement.
Reopen(r) ==
    /\ LinkAt(r, "reopen")
    /\ IF SameRow(r)
       THEN /\ link' = [link EXCEPT ![linkReq[r].link].status = "pending"]
            /\ late' = late \ {linkReq[r].id}
            /\ IF linkReq[r].found THEN LinkGoto(r, "link") ELSE LinkAnswer(r)
       ELSE UNCHANGED <<link, late>> /\ LinkAnswer(r)
    /\ UNCHANGED <<account, rows, linkCrashes, asked, forced>>

LinkUnchecked(r) ==
    /\ LinkAt(r, "link")
    /\ link' = IF SameRow(r) THEN [link EXCEPT ![linkReq[r].link].linked = TRUE] ELSE link
    /\ LinkAnswer(r)
    /\ UNCHANGED <<account, rows, linkCrashes, history>>

\* The foreign key fails if that account has been deleted meanwhile.
LinkUser(r) ==
    /\ LinkAt(r, "link")
    /\ link' = IF SameRow(r) /\ HasAccount(linkReq[r].link[2])
               THEN [link EXCEPT ![linkReq[r].link].linked = TRUE] ELSE link
    /\ LinkAnswer(r)
    /\ UNCHANGED <<account, rows, linkCrashes, history>>

-----------------------------------------------------------------------------
(* GuardiansService.update_status and remove *)

\* The caller is a side of the link; only the guardian accepts, only the
\* protected user rejects.
OwnerMayAccept(u, l, to) == TRUE
MayMove(u, l, to) ==
    /\ u = l[1] \/ (link[l].linked /\ u = l[2])
    /\ to = "accepted" => link[l].linked /\ u = l[2]
    /\ to = "rejected" => u = l[1]

Update(r) == \E l \in Links, u \in People, to \in LinkStatuses :
    /\ HasAccount(u) /\ u \in {l[1], l[2]} /\ LinkExists(l)
    /\ MayMove(u, l, to)
    /\ to \in LinkMoves(link[l].status)
    /\ Start(r, "write", "update", l, to)
    /\ asked' = IF to = "accepted" /\ u = l[2] THEN asked \cup {link[l].id} ELSE asked
    /\ UNCHANGED <<linkTables, linkCrashes, forced, late>>

\* The UPDATE says nothing of the status it overwrites.
Write(r) ==
    /\ LinkAt(r, "write")
    /\ IF SameRow(r)
       THEN /\ link' = [link EXCEPT ![linkReq[r].link].status = linkReq[r].to]
            /\ forced' = IF linkReq[r].op = "force" THEN forced \cup {linkReq[r].id} ELSE forced
       ELSE UNCHANGED <<link, forced>>
    /\ LinkAnswer(r)
    /\ UNCHANGED <<account, rows, linkCrashes, asked, late>>

-----------------------------------------------------------------------------
(* AdminService.force_guardian_status and delete_guardian *)

ForceStatus(r) == \E l \in Links, to \in LinkStatuses :
    /\ LinkExists(l)
    /\ Start(r, "write", "force", l, to)
    /\ UNCHANGED <<linkTables, linkCrashes, history>>

DeleteLink == \E l \in Links :
    /\ LinkExists(l)
    /\ link' = [link EXCEPT ![l] = Deleted]
    /\ UNCHANGED <<account, rows, linkReq, linkCrashes, history>>

-----------------------------------------------------------------------------
(* AuthService.register, and deletion of an account *)

\* The unique e-mail lets one of several registrations through.
Register(r) == \E l \in Links :
    /\ account[l[2]] = "none"
    /\ Start(r, "linkPending", "register", l, "pending")
    /\ account' = [account EXCEPT ![l[2]] = "there"]
    /\ UNCHANGED <<link, rows, linkCrashes, history>>

LinksNothing(g) == {}
WaitingFor(g) == {l \in Links : l[2] = g /\ link[l].status = "pending"}

\* link_pending_for_email: every pending invite of that address, in one
\* statement, best effort (if it fails the registration still succeeds, as
\* when a restart comes first).
LinkPending(r) ==
    LET g == linkReq[r].link[2] IN
    /\ LinkAt(r, "linkPending")
    /\ link' = [l \in Links |-> IF l \in WaitingFor(g) /\ HasAccount(g)
                                THEN [link[l] EXCEPT !.linked = TRUE] ELSE link[l]]
    /\ late' = late \cup {link[l].id : l \in
                 {m \in Links : m[2] = g /\ LinkExists(m) /\ link[m].status # "pending"}}
    /\ LinkAnswer(r)
    /\ UNCHANGED <<account, rows, linkCrashes, asked, forced>>

\* The rows of a protected user go with the account, those of a guardian lose
\* their guardian_user_id.
DeleteAccount == \E p \in People :
    /\ HasAccount(p)
    /\ account' = [account EXCEPT ![p] = "deleted"]
    /\ link' = [l \in Links |-> IF l[1] = p THEN Deleted
                                ELSE IF l[2] = p THEN [link[l] EXCEPT !.linked = FALSE]
                                ELSE link[l]]
    /\ UNCHANGED <<rows, linkReq, linkCrashes, history>>

LinkCrash ==
    /\ linkCrashes < MaxLinkCrashes
    /\ linkCrashes' = linkCrashes + 1
    /\ linkReq' = [r \in LinkRequests |-> LinkIdle]
    /\ UNCHANGED <<linkTables, history>>

-----------------------------------------------------------------------------

LinkInit ==
    /\ account = [p \in People |-> IF p \in Owners THEN "there" ELSE "none"]
    /\ link = [l \in Links |-> NoLink]
    /\ rows = 0
    /\ linkReq = [r \in LinkRequests |-> LinkIdle]
    /\ linkCrashes = 0
    /\ asked = {} /\ forced = {} /\ late = {}

Handler(r) ==
    \/ Invite(r) \/ Lookup(r) \/ Create(r) \/ InviteFails(r) \/ Reopen(r)
    \/ LinkUser(r) \/ Update(r) \/ Write(r) \/ ForceStatus(r)
    \/ Register(r) \/ LinkPending(r)

LinkNext == (\E r \in LinkRequests : Handler(r)) \/ DeleteLink \/ DeleteAccount \/ LinkCrash

LinkSpec == LinkInit /\ [][LinkNext]_linkVars

-----------------------------------------------------------------------------
(* Properties *)

\* The table and the handlers keep their shape.
LinkTypeOK ==
    /\ account \in [People -> {"none", "there", "deleted"}]
    /\ link \in [Links -> LinkRow]
    /\ rows \in Ids
    /\ linkReq \in [LinkRequests -> LinkCall \cup {LinkIdle}]
    /\ linkCrashes \in Nat
    /\ asked \subseteq Ids /\ forced \subseteq Ids /\ late \subseteq Ids

\* Consent: nobody is a guardian without having asked to accept that very row,
\* unless an admin forced it, whatever is invited, removed, deleted, linked or
\* restarted in between.
Consent == \A l \in Links :
    link[l].status = "accepted" => link[l].id \in asked \cup forced

\* A guardian who reads the data of a protected user has an account: a link
\* never names an account that was deleted while the invite was under way.
LinkedExists == \A l \in Links : link[l].linked => HasAccount(l[2])

\* An accepted link names its guardian's account until that account is deleted.
AcceptedIsLinked == \A l \in Links :
    link[l].status = "accepted" /\ ~link[l].linked
        => account[l[2]] = "deleted" \/ link[l].id \in forced

\* With nothing in flight, an invite whose address has an account can be
\* accepted by it, unless it was not pending when that account registered and
\* has not been sent again since.
LinksQuiet == \A r \in LinkRequests : ~LinkLive(r)
InvitesReachAccounts == LinksQuiet => \A l \in Links :
    link[l].status = "pending" /\ HasAccount(l[2])
        => link[l].linked \/ link[l].id \in late

\* A row moves only along the table, by an invite sent again, or by an admin:
\* who was removed is not back without an invite.
Rules == {<<"pending", "accepted">>, <<"pending", "rejected">>,
          <<"pending", "removed">>, <<"accepted", "removed">>,
          <<"rejected", "pending">>, <<"rejected", "removed">>,
          <<"removed", "pending">>}
FollowsRulesStep == \A l \in Links :
    LinkExists(l) /\ link'[l].id = link[l].id /\ link'[l].status # link[l].status
        => <<link[l].status, link'[l].status>> \in Rules \/ link[l].id \in forced'
=============================================================================
