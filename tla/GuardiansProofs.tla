--------------------------- MODULE GuardiansProofs ---------------------------
(***************************************************************************)
(* Proofs about Guardians, for any people and request slots and any bounds. *)
(***************************************************************************)
EXTENDS MCGuardians, TLAPS

LEMMA TypeInit == LinkInit => LinkTypeOK
BY LinkAssumption DEF LinkInit, LinkTypeOK, People, LinkRow, NoLink, Ids, LinkIdle

LEMMA LiveIsCall ==
    ASSUME LinkTypeOK, NEW r \in LinkRequests, LinkLive(r)
    PROVE  linkReq[r] \in LinkCall
BY DEF LinkTypeOK, LinkLive, LinkIdle

LEMMA RowsType ==
    ASSUME LinkTypeOK, NEW l \in Links
    PROVE  /\ link[l] \in LinkRow
           /\ l[2] \in People /\ l[1] \in People /\ l[2] \in Invitees
BY DEF LinkTypeOK, Links, People

\* The inductive invariant.  Ids are not reused: what a handler remembers is
\* not above the counter.
Numbered ==
    /\ \A l \in Links : link[l].id <= rows
    /\ \A r \in LinkRequests : LinkLive(r) => linkReq[r].id <= rows

\* An acceptance about to be written was asked for, and if its row is still
\* there it names its guardian.
Asked == \A r \in LinkRequests :
    LinkAt(r, "write") /\ linkReq[r].op # "force" /\ linkReq[r].to = "accepted" =>
        /\ linkReq[r].id \in asked
        /\ SameRow(r) => link[linkReq[r].link].linked
                         \/ account[linkReq[r].link[2]] = "deleted"

IInv ==
    /\ LinkTypeOK /\ Numbered /\ Asked
    /\ Consent /\ LinkedExists /\ AcceptedIsLinked

LEMMA InvInit == LinkInit => IInv
<1> SUFFICES ASSUME LinkInit PROVE IInv
  OBVIOUS
<1>1. LinkTypeOK
  BY TypeInit
<1>2. \A l \in Links : link[l] = NoLink
  BY DEF LinkInit
<1>3. \A r \in LinkRequests : linkReq[r].pc = "idle"
  BY DEF LinkInit, LinkIdle
<1>4. rows = 0
  BY DEF LinkInit
<1> QED
  BY <1>1, <1>2, <1>3, <1>4
  DEF IInv, Numbered, Asked, Consent, LinkedExists, AcceptedIsLinked, LinkLive, LinkAt, NoLink

\* What starting, moving on and answering do to the slots.
LEMMA StartSlot ==
    ASSUME LinkTypeOK, NEW r \in LinkRequests, NEW pc \in LinkPcs, NEW op \in LinkOps,
           NEW l \in Links, NEW to \in LinkStatuses, Start(r, pc, op, l, to)
    PROVE  /\ linkReq' \in [LinkRequests -> LinkCall \cup {LinkIdle}]
           /\ linkReq'[r] = [pc |-> pc, op |-> op, link |-> l, id |-> link[l].id,
                             to |-> to, found |-> FALSE]
           /\ \A q \in LinkRequests : q # r => linkReq'[q] = linkReq[q]
<1>1. link[l].id \in Ids
  BY RowsType DEF LinkRow
<1> QED BY <1>1 DEF LinkTypeOK, Start, LinkCall

LEMMA AnswerSlot ==
    ASSUME LinkTypeOK, NEW r \in LinkRequests, LinkAnswer(r)
    PROVE  /\ linkReq' \in [LinkRequests -> LinkCall \cup {LinkIdle}]
           /\ linkReq'[r] = LinkIdle
           /\ \A q \in LinkRequests : q # r => linkReq'[q] = linkReq[q]
BY DEF LinkTypeOK, LinkAnswer

LEMMA GotoSlot ==
    ASSUME LinkTypeOK, NEW r \in LinkRequests, LinkLive(r), NEW pc \in LinkPcs, LinkGoto(r, pc)
    PROVE  /\ linkReq' \in [LinkRequests -> LinkCall \cup {LinkIdle}]
           /\ linkReq'[r].pc = pc /\ linkReq'[r].id = linkReq[r].id
           /\ \A q \in LinkRequests : q # r => linkReq'[q] = linkReq[q]
<1>1. [linkReq[r] EXCEPT !.pc = pc] \in LinkCall
  BY LiveIsCall DEF LinkCall
<1>2. linkReq'[r].pc = pc /\ linkReq'[r].id = linkReq[r].id
  BY LiveIsCall DEF LinkTypeOK, LinkGoto, LinkCall
<1> QED BY <1>1, <1>2 DEF LinkTypeOK, LinkGoto

\* The handlers that start or end leave the three properties alone: only the
\* slots, the counters of restarts and the histories change.
Quietly ==
    /\ link' = link /\ rows' = rows
    /\ \A p \in People : account'[p] = account[p] \/ (account[p] = "none" /\ account'[p] = "there")
    /\ asked \subseteq asked' /\ forced \subseteq forced'
    /\ \A r \in LinkRequests : linkReq'[r].pc # "idle" =>
        /\ linkReq'[r].id <= rows
        /\ \/ linkReq'[r].pc # "write" \/ linkReq'[r] = linkReq[r] \/ linkReq'[r].op = "force"
           \/ /\ linkReq'[r].id \in asked' \/ linkReq'[r].to # "accepted"
              /\ linkReq'[r].to = "accepted" =>
                   link[linkReq'[r].link].linked \/ account[linkReq'[r].link[2]] = "deleted"

LEMMA QuietlyKeeps ==
    ASSUME IInv, LinkTypeOK', Quietly
    PROVE  IInv'
<1> USE DEF IInv
<1>1. \A l \in Links : l[2] \in People
  BY RowsType
<1>2. Numbered'
  BY DEF Quietly, Numbered, LinkLive
<1>3. Consent'
  BY DEF Quietly, Consent
<1>4. LinkedExists'
  BY <1>1 DEF Quietly, LinkedExists, HasAccount
<1>5. AcceptedIsLinked'
  BY <1>1 DEF Quietly, AcceptedIsLinked
<1>6. Asked'
  <2> SUFFICES ASSUME NEW r \in LinkRequests, LinkAt(r, "write")', linkReq'[r].op # "force",
                      linkReq'[r].to = "accepted"
               PROVE  /\ linkReq'[r].id \in asked'
                      /\ SameRow(r)' => link'[linkReq'[r].link].linked
                                        \/ account'[linkReq'[r].link[2]] = "deleted"
    BY DEF Asked
  <2>1. linkReq'[r].link \in Links /\ linkReq'[r].link[2] \in People
    BY <1>1 DEF LinkTypeOK, LinkCall, LinkAt, LinkIdle
  <2>2. CASE linkReq'[r] = linkReq[r]
    BY <2>1, <2>2 DEF Quietly, Asked, LinkAt, SameRow
  <2>3. CASE linkReq'[r] # linkReq[r]
    BY <2>1, <2>3 DEF Quietly, LinkAt
  <2> QED BY <2>2, <2>3
<1> QED BY <1>2, <1>3, <1>4, <1>5, <1>6

\* What is already in a slot is fine for Quietly.
LEMMA SlotsFine ==
    ASSUME IInv, NEW r \in LinkRequests, LinkLive(r), asked \subseteq asked', link' = link
    PROVE  /\ linkReq[r].id <= rows
           /\ LinkAt(r, "write") /\ linkReq[r].op # "force" /\ linkReq[r].to = "accepted" =>
                linkReq[r].id \in asked'
BY DEF IInv, Numbered, Asked

LEMMA QuietSteps ==
    ASSUME IInv,
           \/ \E r \in LinkRequests : Invite(r) \/ Lookup(r) \/ InviteFails(r)
                                  \/ Update(r) \/ ForceStatus(r) \/ Register(r)
           \/ LinkCrash \/ UNCHANGED linkVars
    PROVE  Quietly /\ LinkTypeOK'
<1> USE DEF IInv
<1>0. \A q \in LinkRequests : linkReq[q].pc # "idle" => linkReq[q].id <= rows
  BY DEF Numbered, LinkLive
<1>1. ASSUME NEW r \in LinkRequests, Invite(r) PROVE Quietly /\ LinkTypeOK'
  <2>1. PICK l \in Links : Start(r, "lookup", "invite", l, "pending")
    BY <1>1 DEF Invite
  <2>2. /\ linkReq' \in [LinkRequests -> LinkCall \cup {LinkIdle}]
        /\ linkReq'[r] = [pc |-> "lookup", op |-> "invite", link |-> l, id |-> link[l].id,
                          to |-> "pending", found |-> FALSE]
        /\ \A q \in LinkRequests : q # r => linkReq'[q] = linkReq[q]
    BY <2>1, StartSlot DEF LinkPcs, LinkOps, LinkStatuses
  <2> QED BY <1>0, <1>1, <2>2 DEF Invite, linkTables, history, Quietly, LinkTypeOK, Numbered
<1>2. ASSUME NEW r \in LinkRequests, Lookup(r) PROVE Quietly /\ LinkTypeOK'
  <2>1. linkReq[r] \in LinkCall
    BY <1>2, LiveIsCall DEF Lookup, LinkAt, LinkLive
  <2>2. PICK pc \in {"create", "reopen"} :
          linkReq' = [linkReq EXCEPT ![r].pc = pc, ![r].found = HasAccount(linkReq[r].link[2])]
    BY <1>2 DEF Lookup
  <2>3. HasAccount(linkReq[r].link[2]) \in BOOLEAN
    BY DEF HasAccount
  <2>4. /\ linkReq' \in [LinkRequests -> LinkCall \cup {LinkIdle}]
        /\ linkReq'[r].pc = pc /\ linkReq'[r].id = linkReq[r].id
        /\ \A q \in LinkRequests : q # r => linkReq'[q] = linkReq[q]
    BY <2>1, <2>2, <2>3 DEF LinkTypeOK, LinkCall, LinkPcs
  <2>5. linkReq[r].id <= rows
    BY <1>0, <1>2 DEF Lookup, LinkAt
  <2> QED BY <1>0, <1>2, <2>4, <2>5 DEF Lookup, linkTables, history, Quietly, LinkTypeOK
<1>3. ASSUME NEW r \in LinkRequests, InviteFails(r) PROVE Quietly /\ LinkTypeOK'
  BY <1>0, <1>3, AnswerSlot DEF InviteFails, linkTables, history, Quietly, LinkTypeOK, LinkIdle
<1>4. ASSUME NEW r \in LinkRequests, Update(r) PROVE Quietly /\ LinkTypeOK'
  <2>1. PICK l \in Links, u \in People, to \in LinkStatuses :
          /\ u \in {l[1], l[2]} /\ MayMove(u, l, to)
          /\ Start(r, "write", "update", l, to)
          /\ asked' = IF to = "accepted" /\ u = l[2] THEN asked \cup {link[l].id} ELSE asked
    BY <1>4 DEF Update
  <2>2. /\ linkReq' \in [LinkRequests -> LinkCall \cup {LinkIdle}]
        /\ linkReq'[r] = [pc |-> "write", op |-> "update", link |-> l, id |-> link[l].id,
                          to |-> to, found |-> FALSE]
        /\ \A q \in LinkRequests : q # r => linkReq'[q] = linkReq[q]
    BY <2>1, StartSlot DEF LinkPcs, LinkOps
  <2>3. to = "accepted" => link[l].linked /\ link[l].id \in asked'
    BY <2>1 DEF MayMove
  <2>4. asked \subseteq asked' /\ asked' \subseteq Ids
    BY <2>1, RowsType DEF LinkTypeOK, LinkRow
  <2> QED BY <1>0, <1>4, <2>2, <2>3, <2>4 DEF Update, linkTables, Quietly, LinkTypeOK, Numbered
<1>5. ASSUME NEW r \in LinkRequests, ForceStatus(r) PROVE Quietly /\ LinkTypeOK'
  <2>1. PICK l \in Links, to \in LinkStatuses : Start(r, "write", "force", l, to)
    BY <1>5 DEF ForceStatus
  <2>2. /\ linkReq' \in [LinkRequests -> LinkCall \cup {LinkIdle}]
        /\ linkReq'[r] = [pc |-> "write", op |-> "force", link |-> l, id |-> link[l].id,
                          to |-> to, found |-> FALSE]
        /\ \A q \in LinkRequests : q # r => linkReq'[q] = linkReq[q]
    BY <2>1, StartSlot DEF LinkPcs, LinkOps
  <2> QED BY <1>0, <1>5, <2>2 DEF ForceStatus, linkTables, history, Quietly, LinkTypeOK, Numbered
<1>6. ASSUME NEW r \in LinkRequests, Register(r) PROVE Quietly /\ LinkTypeOK'
  <2>1. PICK l \in Links :
          /\ account[l[2]] = "none"
          /\ Start(r, "linkPending", "register", l, "pending")
          /\ account' = [account EXCEPT ![l[2]] = "there"]
    BY <1>6 DEF Register
  <2>2. /\ linkReq' \in [LinkRequests -> LinkCall \cup {LinkIdle}]
        /\ linkReq'[r] = [pc |-> "linkPending", op |-> "register", link |-> l,
                          id |-> link[l].id, to |-> "pending", found |-> FALSE]
        /\ \A q \in LinkRequests : q # r => linkReq'[q] = linkReq[q]
    BY <2>1, StartSlot DEF LinkPcs, LinkOps, LinkStatuses
  <2>3. /\ account' \in [People -> {"none", "there", "deleted"}]
        /\ \A p \in People : account'[p] = account[p]
             \/ (account[p] = "none" /\ account'[p] = "there")
    BY <2>1, RowsType DEF LinkTypeOK
  <2> QED BY <1>0, <1>6, <2>2, <2>3 DEF Register, history, Quietly, LinkTypeOK, Numbered
<1>7. CASE LinkCrash
  BY <1>7 DEF LinkCrash, linkTables, history, Quietly, LinkTypeOK, LinkIdle
<1>8. CASE UNCHANGED linkVars
  BY <1>0, <1>8 DEF linkVars, linkTables, history, Quietly, LinkTypeOK
<1> QED BY <1>1, <1>2, <1>3, <1>4, <1>5, <1>6, <1>7, <1>8

\* The actions that change the table: rows only appear above the counter, and
\* an accepted row that was not accepted before was asked for or forced.
Moving ==
    /\ rows <= rows'
    /\ \A l \in Links :
        /\ link'[l].id <= rows'
        /\ link'[l].status = "accepted" => link'[l].id \in asked \cup forced'
        /\ link'[l].linked => HasAccount(l[2])'
        /\ link'[l].status = "accepted" /\ ~link'[l].linked =>
             account'[l[2]] = "deleted" \/ link'[l].id \in forced'
        /\ link'[l].id \in {0, link[l].id} \/ link'[l].id = rows + 1
        /\ link'[l].id # 0 /\ link'[l].id = link[l].id /\ link[l].linked =>
             link'[l].linked \/ account'[l[2]] = "deleted"
    /\ \A p \in People : account[p] = "deleted" => account'[p] = "deleted"
    /\ asked' = asked
    /\ \A q \in LinkRequests : linkReq'[q].pc # "idle" =>
         linkReq'[q] = linkReq[q] \/ (linkReq'[q].pc # "write" /\ linkReq'[q].id = linkReq[q].id
                                      /\ linkReq[q].pc # "idle")

LEMMA MovingKeeps ==
    ASSUME IInv, LinkTypeOK', Moving
    PROVE  IInv'
<1> USE DEF IInv
<1>1. \A q \in LinkRequests : LinkLive(q) => linkReq[q] \in LinkCall
  BY LiveIsCall
<1>2. Numbered'
  <2>1. rows \in Nat /\ rows' \in Nat
    BY LinkAssumption DEF LinkTypeOK, Ids
  <2>2. \A q \in LinkRequests : LinkLive(q) => linkReq[q].id \in Nat
    BY <1>1, LinkAssumption DEF LinkCall, Ids
  <2> QED BY <2>1, <2>2 DEF Moving, Numbered, LinkLive
<1>3. Consent' /\ LinkedExists' /\ AcceptedIsLinked'
  BY DEF Moving, Consent, LinkedExists, AcceptedIsLinked
<1>4. Asked'
  <2> SUFFICES ASSUME NEW r \in LinkRequests, LinkAt(r, "write")', linkReq'[r].op # "force",
                      linkReq'[r].to = "accepted"
               PROVE  /\ linkReq'[r].id \in asked'
                      /\ SameRow(r)' => link'[linkReq'[r].link].linked
                                        \/ account'[linkReq'[r].link[2]] = "deleted"
    BY DEF Asked
  <2>1. linkReq'[r] = linkReq[r] /\ LinkAt(r, "write")
    BY DEF Moving, LinkAt
  <2>2. linkReq[r] \in LinkCall /\ linkReq[r].id <= rows
    BY <2>1, <1>1 DEF LinkAt, LinkLive, Numbered
  <2>3. PICK l \in Links : l = linkReq[r].link
    BY <2>2 DEF LinkCall
  <2>4. l[2] \in People
    BY RowsType
  <2>5. ASSUME SameRow(r)' PROVE link'[l].linked \/ account'[l[2]] = "deleted"
    <3>1. link'[l].id = linkReq[r].id /\ linkReq[r].id # 0
      BY <2>1, <2>3, <2>5 DEF SameRow
    <3>2. rows \in Nat /\ linkReq[r].id \in Nat
      BY <2>2, LinkAssumption DEF LinkTypeOK, Ids, LinkCall
    <3>3. link'[l].id = link[l].id
      BY <2>2, <3>1, <3>2 DEF Moving
    <3>4. link[l].linked \/ account[l[2]] = "deleted"
      BY <2>1, <2>3, <3>1, <3>3 DEF Asked, SameRow
    <3> QED BY <2>4, <3>1, <3>3, <3>4 DEF Moving
  <2> QED BY <2>1, <2>3, <2>5 DEF Moving, Asked
<1> QED BY <1>2, <1>3, <1>4

\* A statement that only fills in guardian_user_id columns.
LEMMA LinkingMoves ==
    ASSUME IInv, NEW r \in LinkRequests, LinkAnswer(r),
           UNCHANGED <<account, rows, asked, forced>>,
           \A l \in Links :
             /\ link'[l].id = link[l].id /\ link'[l].status = link[l].status
             /\ link'[l] = link[l] \/ (link'[l].linked /\ HasAccount(l[2]))
    PROVE  Moving
<1>1. LinkTypeOK /\ Numbered /\ Consent /\ LinkedExists /\ AcceptedIsLinked
  BY DEF IInv
<1>2. rows \in Nat
  BY <1>1, LinkAssumption DEF LinkTypeOK, Ids
<1>3. \A l \in Links : /\ link'[l].id <= rows'
                        /\ link'[l].id \in {0, link[l].id}
  BY <1>1 DEF Numbered
<1>4. \A l \in Links :
        /\ link'[l].status = "accepted" => link'[l].id \in asked \cup forced'
        /\ link'[l].linked => HasAccount(l[2])'
        /\ link'[l].status = "accepted" /\ ~link'[l].linked =>
             account'[l[2]] = "deleted" \/ link'[l].id \in forced'
        /\ link[l].linked => link'[l].linked
  BY <1>1 DEF Consent, LinkedExists, AcceptedIsLinked, HasAccount
<1>5. \A q \in LinkRequests : linkReq'[q].pc # "idle" => linkReq'[q] = linkReq[q]
  BY <1>1, AnswerSlot DEF LinkIdle
<1> QED BY <1>2, <1>3, <1>4, <1>5 DEF Moving

LEMMA MovingSteps ==
    ASSUME IInv,
           \/ \E r \in LinkRequests : Create(r) \/ Reopen(r) \/ LinkUser(r)
                                  \/ Write(r) \/ LinkPending(r)
           \/ DeleteLink \/ DeleteAccount
    PROVE  Moving /\ LinkTypeOK'
<1> USE DEF IInv
<1>0. rows \in Nat /\ \A l \in Links :
        /\ link[l] \in LinkRow /\ link[l].id <= rows /\ link[l].id \in Nat
        /\ link[l].status = "accepted" => link[l].id \in asked \cup forced
        /\ link[l].linked => HasAccount(l[2])
        /\ link[l].status = "accepted" /\ ~link[l].linked =>
             account[l[2]] = "deleted" \/ link[l].id \in forced
        /\ l[2] \in People
  BY RowsType, LinkAssumption
  DEF LinkTypeOK, Ids, LinkRow, Numbered, Consent, LinkedExists, AcceptedIsLinked
<1>1. ASSUME NEW r \in LinkRequests, Create(r) PROVE Moving /\ LinkTypeOK'
  <2>1. linkReq[r] \in LinkCall
    BY <1>1, LiveIsCall DEF Create, LinkAt, LinkLive
  <2>2. PICK k \in Links : k = linkReq[r].link
    BY <2>1 DEF LinkCall
  <2>3. linkReq[r].found \in BOOLEAN /\ (linkReq[r].found => HasAccount(k[2]))
    BY <1>1, <2>1, <2>2 DEF Create, LinkKeysHold, LinkCall
  <2>4. /\ link'[k] = [id |-> rows + 1, status |-> "pending", linked |-> linkReq[r].found]
        /\ \A l \in Links : l # k => link'[l] = link[l]
    BY <1>1, <2>2 DEF Create, LinkTypeOK
  <2>5. rows + 1 \in Ids
    BY <1>0, <1>1, LinkAssumption DEF Create, Ids
  <2>6. link' \in [Links -> LinkRow]
    BY <1>1, <2>2, <2>3, <2>5 DEF Create, LinkTypeOK, LinkRow, LinkStatuses
  <2>7. LinkTypeOK'
    BY <1>1, <2>5, <2>6, AnswerSlot DEF Create, LinkTypeOK, history
  <2>8. Moving
    BY <1>0, <1>1, <2>3, <2>4, AnswerSlot DEF Create, Moving, history, HasAccount, LinkIdle
  <2> QED BY <2>7, <2>8
<1>2. ASSUME NEW r \in LinkRequests, Reopen(r) PROVE Moving /\ LinkTypeOK'
  <2>1. linkReq[r] \in LinkCall /\ LinkLive(r)
    BY <1>2, LiveIsCall DEF Reopen, LinkAt, LinkLive
  <2>2. PICK k \in Links : k = linkReq[r].link
    BY <2>1 DEF LinkCall
  <2>3. LinkAnswer(r) \/ LinkGoto(r, "link")
    BY <1>2 DEF Reopen
  <2>4. linkReq' \in [LinkRequests -> LinkCall \cup {LinkIdle}]
        /\ \A q \in LinkRequests : linkReq'[q].pc # "idle" =>
             linkReq'[q] = linkReq[q] \/ (linkReq'[q].pc # "write" /\ linkReq'[q].id = linkReq[q].id
                                          /\ linkReq[q].pc # "idle")
    BY <2>1, <2>3, AnswerSlot, GotoSlot DEF LinkIdle, LinkPcs, LinkLive
  <2>5. CASE SameRow(r)
    <3>1. link' = [link EXCEPT ![k].status = "pending"]
      BY <1>2, <2>2, <2>5 DEF Reopen
    <3>2. /\ link'[k].status = "pending" /\ link'[k].id = link[k].id
          /\ link'[k].linked = link[k].linked
          /\ \A l \in Links : l # k => link'[l] = link[l]
      BY <1>0, <3>1 DEF LinkTypeOK, LinkRow
    <3>3. link' \in [Links -> LinkRow]
      BY <3>1 DEF LinkTypeOK, LinkRow, LinkStatuses
    <3>4. LinkTypeOK'
      BY <1>2, <2>4, <2>5, <3>3 DEF Reopen, LinkTypeOK
    <3>5. Moving
      BY <1>0, <1>2, <2>4, <3>2 DEF Reopen, Moving, HasAccount
    <3> QED BY <3>4, <3>5
  <2>6. CASE ~SameRow(r)
    <3>1. link' = link /\ late' = late
      BY <1>2, <2>6 DEF Reopen
    <3>2. LinkTypeOK'
      BY <1>2, <2>4, <3>1 DEF Reopen, LinkTypeOK
    <3>3. Moving
      BY <1>0, <1>2, <2>4, <3>1 DEF Reopen, Moving, HasAccount
    <3> QED BY <3>2, <3>3
  <2> QED BY <2>5, <2>6
<1>3. ASSUME NEW r \in LinkRequests, LinkUser(r) PROVE Moving /\ LinkTypeOK'
  <2>1. linkReq[r] \in LinkCall
    BY <1>3, LiveIsCall DEF LinkUser, LinkAt, LinkLive
  <2>2. PICK k \in Links : k = linkReq[r].link
    BY <2>1 DEF LinkCall
  <2>3. /\ \A l \in Links : l # k => link'[l] = link[l]
        /\ link'[k].id = link[k].id /\ link'[k].status = link[k].status
        /\ link'[k] = link[k] \/ (link'[k].linked /\ HasAccount(k[2]))
        /\ link' \in [Links -> LinkRow]
    <3>1. CASE SameRow(r) /\ HasAccount(k[2])
      BY <1>0, <1>3, <2>2, <3>1 DEF LinkUser, LinkTypeOK, LinkRow
    <3>2. CASE ~(SameRow(r) /\ HasAccount(k[2]))
      BY <1>3, <2>2, <3>2 DEF LinkUser, LinkTypeOK
    <3> QED BY <3>1, <3>2
  <2>4. LinkTypeOK'
    BY <1>3, <2>3, AnswerSlot DEF LinkUser, LinkTypeOK, history
  <2>5. \A l \in Links :
          /\ link'[l].id = link[l].id /\ link'[l].status = link[l].status
          /\ link'[l] = link[l] \/ (link'[l].linked /\ HasAccount(l[2]))
    BY <1>3, <2>3, <2>2 DEF LinkUser
  <2>6. Moving
    BY <1>3, <2>5, LinkingMoves DEF LinkUser, history
  <2> QED BY <2>4, <2>6
<1>4. ASSUME NEW r \in LinkRequests, Write(r) PROVE Moving /\ LinkTypeOK'
  <2>1. linkReq[r] \in LinkCall
    BY <1>4, LiveIsCall DEF Write, LinkAt, LinkLive
  <2>2. PICK k \in Links : k = linkReq[r].link
    BY <2>1 DEF LinkCall
  <2>3. CASE SameRow(r)
    <3>1. link' = [link EXCEPT ![k].status = linkReq[r].to] /\ linkReq[r].to \in LinkStatuses
      BY <1>4, <2>1, <2>2, <2>3 DEF Write, LinkCall
    <3>2. /\ link'[k].status = linkReq[r].to /\ link'[k].id = link[k].id
          /\ link'[k].linked = link[k].linked /\ link[k].id = linkReq[r].id
          /\ \A l \in Links : l # k => link'[l] = link[l]
      BY <1>0, <2>2, <2>3, <3>1 DEF LinkTypeOK, LinkRow, SameRow
    <3>3. link' \in [Links -> LinkRow]
      BY <3>1 DEF LinkTypeOK, LinkRow
    <3>4. /\ forced \subseteq forced' /\ forced' \subseteq Ids
          /\ linkReq[r].op = "force" => linkReq[r].id \in forced'
      BY <1>4, <2>1, <2>3 DEF Write, LinkTypeOK, LinkCall
    <3>5. linkReq[r].op # "force" /\ linkReq[r].to = "accepted" =>
            /\ linkReq[r].id \in asked
            /\ link[k].linked \/ account[k[2]] = "deleted"
      BY <1>4, <2>2, <2>3 DEF Write, Asked
    <3>6. LinkTypeOK'
      BY <1>4, <3>3, <3>4, AnswerSlot DEF Write, LinkTypeOK
    <3>7. Moving
      BY <1>0, <1>4, <3>2, <3>4, <3>5, AnswerSlot DEF Write, Moving, HasAccount, LinkIdle
    <3> QED BY <3>6, <3>7
  <2>4. CASE ~SameRow(r)
    <3>1. link' = link /\ forced' = forced
      BY <1>4, <2>4 DEF Write
    <3>2. LinkTypeOK'
      BY <1>4, <3>1, AnswerSlot DEF Write, LinkTypeOK
    <3>3. Moving
      BY <1>0, <1>4, <3>1, AnswerSlot DEF Write, Moving, HasAccount, LinkIdle
    <3> QED BY <3>2, <3>3
  <2> QED BY <2>3, <2>4
<1>5. ASSUME NEW r \in LinkRequests, LinkPending(r) PROVE Moving /\ LinkTypeOK'
  <2>1. \A x \in LinkRow : LET y == [x EXCEPT !.linked = TRUE]
          IN y \in LinkRow /\ y.id = x.id /\ y.status = x.status /\ y.linked
    BY DEF LinkRow
  <2>2. \A l \in Links :
          \/ link'[l] = link[l]
          \/ link'[l] = [link[l] EXCEPT !.linked = TRUE] /\ HasAccount(l[2])
    BY <1>5 DEF LinkPending, WaitingFor
  <2>3. \A l \in Links :
          /\ link'[l] \in LinkRow /\ link'[l].id = link[l].id
          /\ link'[l].status = link[l].status
          /\ link'[l] = link[l] \/ (link'[l].linked /\ HasAccount(l[2]))
    <3> SUFFICES ASSUME NEW l \in Links
                 PROVE  /\ link'[l] \in LinkRow /\ link'[l].id = link[l].id
                        /\ link'[l].status = link[l].status
                        /\ link'[l] = link[l] \/ (link'[l].linked /\ HasAccount(l[2]))
      OBVIOUS
    <3>1. link[l] \in LinkRow
      BY <1>0, RowsType DEF IInv
    <3>2. CASE link'[l] = link[l]
      BY <3>1, <3>2
    <3>3. CASE link'[l] = [link[l] EXCEPT !.linked = TRUE] /\ HasAccount(l[2])
      BY <2>1, <3>1, <3>3
    <3> QED BY <2>2, <3>2, <3>3
  <2>4. link' \in [Links -> LinkRow]
    BY <1>5, <2>3 DEF LinkPending
  <2>5. late' \subseteq Ids
    BY <1>5, <1>0 DEF LinkPending, LinkTypeOK, LinkRow
  <2>6. LinkTypeOK'
    BY <1>5, <2>4, <2>5, AnswerSlot DEF LinkPending, LinkTypeOK
  <2>7. Moving
    BY <1>5, <2>3, LinkingMoves DEF LinkPending
  <2> QED BY <2>6, <2>7
<1>6. CASE DeleteLink
  <2>1. PICK k \in Links : link' = [link EXCEPT ![k] = NoLink]
    BY <1>6 DEF DeleteLink, Deleted
  <2>2. NoLink \in LinkRow
    BY LinkAssumption DEF NoLink, LinkRow, Ids
  <2>3. LinkTypeOK'
    BY <1>6, <2>1, <2>2 DEF DeleteLink, LinkTypeOK, history
  <2>4. Moving
    BY <1>0, <1>6, <2>1 DEF DeleteLink, Moving, history, HasAccount, NoLink, LinkTypeOK
  <2> QED BY <2>3, <2>4
<1>7. CASE DeleteAccount
  <2>1. PICK p \in People :
          /\ account' = [account EXCEPT ![p] = "deleted"]
          /\ link' = [l \in Links |-> IF l[1] = p THEN NoLink
                                      ELSE IF l[2] = p THEN [link[l] EXCEPT !.linked = FALSE]
                                      ELSE link[l]]
    BY <1>7 DEF DeleteAccount, Deleted
  <2>2. NoLink \in LinkRow
    BY LinkAssumption DEF NoLink, LinkRow, Ids
  <2>3. \A x \in LinkRow : LET y == [x EXCEPT !.linked = FALSE]
          IN y \in LinkRow /\ y.id = x.id /\ y.status = x.status /\ ~y.linked
    BY DEF LinkRow
  <2>4. \A l \in Links :
          /\ link'[l] \in LinkRow
          /\ \/ link'[l] = NoLink
             \/ link'[l] = link[l] /\ l[2] # p
             \/ /\ l[2] = p /\ ~link'[l].linked
                /\ link'[l].id = link[l].id /\ link'[l].status = link[l].status
    BY <1>0, <2>1, <2>2, <2>3
  <2>5. account'[p] = "deleted" /\ \A q \in People : q # p => account'[q] = account[q]
    BY <2>1 DEF LinkTypeOK
  <2>6. LinkTypeOK'
    BY <1>7, <2>1, <2>4 DEF DeleteAccount, LinkTypeOK, history
  <2>7. Moving
    <3>1. rows' = rows /\ linkReq' = linkReq /\ asked' = asked /\ forced' = forced
      BY <1>7 DEF DeleteAccount, history
    <3>2. NoLink.id = 0 /\ NoLink.status # "accepted" /\ ~NoLink.linked
      BY DEF NoLink
    <3>3. \A q \in People : account[q] = "deleted" => account'[q] = "deleted"
      BY <2>5
    <3>4. \A l \in Links :
            /\ link'[l].id <= rows
            /\ link'[l].status = "accepted" => link'[l].id \in asked \cup forced
            /\ link'[l].id \in {0, link[l].id}
      BY <1>0, <2>4, <3>2
    <3>5. \A l \in Links :
            /\ link'[l].linked => account'[l[2]] = "there"
            /\ link'[l].status = "accepted" /\ ~link'[l].linked =>
                 account'[l[2]] = "deleted" \/ link'[l].id \in forced
            /\ link'[l].id # 0 /\ link'[l].id = link[l].id /\ link[l].linked =>
                 link'[l].linked \/ account'[l[2]] = "deleted"
      BY <1>0, <2>4, <2>5, <3>2 DEF HasAccount
    <3> QED BY <1>0, <3>1, <3>3, <3>4, <3>5 DEF Moving, HasAccount
  <2> QED BY <2>6, <2>7
<1> QED BY <1>1, <1>2, <1>3, <1>4, <1>5, <1>6, <1>7

LEMMA InvStep == IInv /\ [LinkNext]_linkVars => IInv'
<1> SUFFICES ASSUME IInv, [LinkNext]_linkVars PROVE IInv'
  OBVIOUS
<1>1. CASE \/ \E r \in LinkRequests : Invite(r) \/ Lookup(r) \/ InviteFails(r)
                                  \/ Update(r) \/ ForceStatus(r) \/ Register(r)
           \/ LinkCrash \/ UNCHANGED linkVars
  BY <1>1, QuietSteps, QuietlyKeeps
<1>2. CASE \/ \E r \in LinkRequests : Create(r) \/ Reopen(r) \/ LinkUser(r)
                                  \/ Write(r) \/ LinkPending(r)
           \/ DeleteLink \/ DeleteAccount
  BY <1>2, MovingSteps, MovingKeeps
<1> QED BY <1>1, <1>2 DEF LinkNext, Handler

LEMMA Invariance == LinkSpec => []IInv
<1>1. IInv /\ [LinkNext]_linkVars => IInv'
  BY InvStep
<1> QED BY <1>1, InvInit, PTL DEF LinkSpec

\* Type correctness of the guardians table and its handlers.
THEOREM TypeCorrect == LinkSpec => []LinkTypeOK
BY Invariance, PTL DEF IInv

\* Nobody becomes a guardian without having asked to accept that row, unless
\* an admin forced it (guardians/service.py, update_status).
THEOREM ConsentHolds == LinkSpec => []Consent
BY Invariance, PTL DEF IInv

\* A link never names a deleted account, although invites and deletions of
\* accounts overlap.
THEOREM LinksNameAccounts == LinkSpec => []LinkedExists
BY Invariance, PTL DEF IInv

\* An accepted link names its guardian until the guardian's account is deleted.
THEOREM AcceptedLinksAreLinked == LinkSpec => []AcceptedIsLinked
BY Invariance, PTL DEF IInv

-----------------------------------------------------------------------------
(* One request at a time so far: what a handler has read is still so, but   *)
(* for rows and accounts that are gone, and a row that does not name an     *)
(* account of its address is about to, or was late.                         *)

OneLive == \A q, r \in LinkRequests : LinkLive(q) /\ LinkLive(r) => q = r

IdsApart == \A l, m \in Links :
    /\ LinkExists(l) <=> link[l].id # 0
    /\ LinkExists(l) /\ link[m].id = link[l].id => m = l

Fresh(r) ==
    /\ LinkAt(r, "create") \/ LinkAt(r, "reopen") => (HasAccount(linkReq[r].link[2]) => linkReq[r].found)
    /\ (LinkAt(r, "lookup") \/ LinkAt(r, "reopen")) /\ SameRow(r)
         => link[linkReq[r].link].status = "removed"
    /\ LinkAt(r, "link") /\ LinkExists(linkReq[r].link) => SameRow(r)
    /\ LinkAt(r, "write") /\ linkReq[r].op # "force" /\ SameRow(r)
         => linkReq[r].to \in LinkMoves(link[linkReq[r].link].status)

Linking(l) == \E r \in LinkRequests :
    \/ LinkAt(r, "linkPending") /\ linkReq[r].link[2] = l[2]
    \/ LinkAt(r, "link") /\ linkReq[r].link = l
Reached == \A l \in Links : LinkExists(l) /\ HasAccount(l[2]) =>
    link[l].linked \/ link[l].id \in late \/ Linking(l)

AloneInv ==
    /\ linkOverlap \in BOOLEAN /\ IdsApart
    /\ ~linkOverlap => OneLive
    /\ LinksAlone => (\A r \in LinkRequests : Fresh(r)) /\ Reached

\* Rows keep their numbers or go.
LEMMA RowsStayApart ==
    ASSUME LinkTypeOK, IdsApart,
           \A l \in Links : \/ link'[l] = NoLink
                            \/ /\ link'[l].id = link[l].id
                               /\ link'[l].status # "none" <=> LinkExists(l)
    PROVE  IdsApart'
<1>1. ASSUME NEW l \in Links PROVE LinkExists(l)' <=> link'[l].id # 0
      BY DEF LinkExists, NoLink, IdsApart
<1>2. ASSUME NEW l \in Links, NEW m \in Links, LinkExists(l)', link'[m].id = link'[l].id
      PROVE  m = l
  <2>1. link'[l].id = link[l].id /\ LinkExists(l) /\ link[l].id # 0
        BY <1>2 DEF LinkExists, NoLink, IdsApart
  <2>2. link'[m].id = link[m].id
        BY <1>2, <2>1 DEF NoLink
  <2> QED BY <1>2, <2>1, <2>2 DEF IdsApart
<1> QED BY <1>1, <1>2 DEF IdsApart

LEMMA CreateApart ==
    ASSUME IInv, IdsApart, NEW r \in LinkRequests, Create(r)
    PROVE  IdsApart'
<1>1. LinkTypeOK /\ rows \in Nat /\ \A l \in Links : link[l].id <= rows /\ link[l].id \in Nat
      BY LinkAssumption, RowsType DEF IInv, Numbered, LinkTypeOK, Ids, LinkRow
<1>2. linkReq[r].link \in Links
      BY <1>1, LiveIsCall DEF Create, LinkAt, LinkLive, LinkCall
<1>3. /\ link'[linkReq[r].link].id = rows + 1 /\ link'[linkReq[r].link].status = "pending"
      /\ \A l \in Links : l # linkReq[r].link => link'[l] = link[l]
      BY <1>1, <1>2 DEF Create, LinkTypeOK
<1>4. ASSUME NEW l \in Links PROVE LinkExists(l)' <=> link'[l].id # 0
      BY <1>1, <1>3 DEF LinkExists, IdsApart
<1>5. ASSUME NEW l \in Links, NEW m \in Links, LinkExists(l)', link'[m].id = link'[l].id
      PROVE  m = l
      BY <1>1, <1>3, <1>5 DEF LinkExists, IdsApart
<1> QED BY <1>4, <1>5 DEF IdsApart

LEMMA SameRowExists ==
    ASSUME IdsApart, NEW r \in LinkRequests, linkReq[r].link \in Links, SameRow(r)
    PROVE  LinkExists(linkReq[r].link)
BY DEF IdsApart, SameRow

LEMMA IdsStayApart ==
    ASSUME IInv, IdsApart, [LinkNext]_linkVars
    PROVE  IdsApart'
<1>1. LinkTypeOK
      BY DEF IInv
<1>2. ASSUME NEW r \in LinkRequests, LinkLive(r) PROVE linkReq[r].link \in Links
      BY <1>1, <1>2, LiveIsCall DEF LinkCall
<1>3. CASE UNCHANGED link
      BY <1>1, <1>3, RowsStayApart DEF LinkExists
<1>4. ASSUME NEW r \in LinkRequests, Reopen(r) PROVE IdsApart'
  <2>1. CASE SameRow(r)
    <3>1. linkReq[r].link \in Links /\ LinkExists(linkReq[r].link)
          BY <1>2, <1>4, <2>1, SameRowExists DEF Reopen, LinkAt, LinkLive
    <3>2. link' = [link EXCEPT ![linkReq[r].link].status = "pending"]
          BY <1>4, <2>1 DEF Reopen
    <3>3. \A l \in Links : link'[l].id = link[l].id /\ (link'[l].status # "none" <=> LinkExists(l))
          BY <1>1, <3>1, <3>2 DEF LinkTypeOK, LinkRow, LinkExists
    <3> QED BY <1>1, <3>3, RowsStayApart
  <2>2. CASE ~SameRow(r)
        BY <1>3, <1>4, <2>2 DEF Reopen
  <2> QED BY <2>1, <2>2
<1>5. ASSUME NEW r \in LinkRequests, LinkUser(r) PROVE IdsApart'
  <2>1. CASE SameRow(r) /\ HasAccount(linkReq[r].link[2])
    <3>1. link' = [link EXCEPT ![linkReq[r].link].linked = TRUE]
          BY <1>5, <2>1 DEF LinkUser
    <3>2. \A l \in Links : link'[l].id = link[l].id /\ (link'[l].status # "none" <=> LinkExists(l))
          BY <1>1, <3>1 DEF LinkTypeOK, LinkRow, LinkExists
    <3> QED BY <1>1, <3>2, RowsStayApart
  <2>2. CASE ~(SameRow(r) /\ HasAccount(linkReq[r].link[2]))
        BY <1>3, <1>5, <2>2 DEF LinkUser
  <2> QED BY <2>1, <2>2
<1>6. ASSUME NEW r \in LinkRequests, Write(r) PROVE IdsApart'
  <2>1. CASE SameRow(r)
    <3>1. linkReq[r].link \in Links /\ LinkExists(linkReq[r].link) /\ linkReq[r].to \in LinkStatuses
          BY <1>1, <1>2, <1>6, <2>1, SameRowExists, LiveIsCall DEF Write, LinkAt, LinkLive, LinkCall
    <3>2. link' = [link EXCEPT ![linkReq[r].link].status = linkReq[r].to]
          BY <1>6, <2>1 DEF Write
    <3>3. \A l \in Links : link'[l].id = link[l].id /\ (link'[l].status # "none" <=> LinkExists(l))
          BY <1>1, <3>1, <3>2 DEF LinkTypeOK, LinkRow, LinkExists, LinkStatuses
    <3> QED BY <1>1, <3>3, RowsStayApart
  <2>2. CASE ~SameRow(r)
        BY <1>3, <1>6, <2>2 DEF Write
  <2> QED BY <2>1, <2>2
<1>7. ASSUME NEW r \in LinkRequests, LinkPending(r) PROVE IdsApart'
  <2>1. \A l \in Links : link'[l].id = link[l].id /\ (link'[l].status # "none" <=> LinkExists(l))
        BY <1>1, <1>7 DEF LinkPending, LinkTypeOK, LinkRow, LinkExists
  <2> QED BY <1>1, <2>1, RowsStayApart
<1>8. CASE DeleteLink
  <2>1. PICK m \in Links : link' = [link EXCEPT ![m] = NoLink]
        BY <1>8 DEF DeleteLink, Deleted
  <2>2. \A l \in Links : link'[l] = NoLink \/ link'[l] = link[l]
        BY <1>1, <2>1 DEF LinkTypeOK
  <2> QED BY <1>1, <2>2, RowsStayApart DEF LinkExists
<1>9. CASE DeleteAccount
  <2>1. PICK p \in People :
          link' = [l \in Links |-> IF l[1] = p THEN Deleted
                                   ELSE IF l[2] = p THEN [link[l] EXCEPT !.linked = FALSE]
                                   ELSE link[l]]
        BY <1>9 DEF DeleteAccount
  <2>2. \A l \in Links : \/ link'[l] = NoLink
                         \/ /\ link'[l].id = link[l].id
                            /\ link'[l].status # "none" <=> LinkExists(l)
        BY <1>1, <2>1 DEF LinkTypeOK, LinkRow, LinkExists, Deleted
  <2> QED BY <1>1, <2>2, RowsStayApart
<1>10. CASE \/ \E r \in LinkRequests : Invite(r) \/ Lookup(r) \/ InviteFails(r)
                                   \/ Update(r) \/ ForceStatus(r) \/ Register(r)
            \/ LinkCrash \/ UNCHANGED linkVars
      BY <1>3, <1>10 DEF Invite, Lookup, InviteFails, Update, ForceStatus, Register, LinkCrash,
                         linkTables, linkVars
<1> QED BY <1>4, <1>5, <1>6, <1>7, <1>8, <1>9, <1>10, CreateApart DEF LinkNext, Handler

\* Nobody else is at work before or after a step of r.
LEMMA OnlyOne ==
    ASSUME OneLive, OneLive', NEW r \in LinkRequests, LinkLive(r) \/ LinkLive(r)',
           \A q \in LinkRequests : q # r => linkReq'[q] = linkReq[q]
    PROVE  /\ \A q \in LinkRequests : q # r => ~LinkLive(q) /\ ~LinkLive(q)'
           /\ Fresh(r)' => \A q \in LinkRequests : Fresh(q)'
<1>1. \A q \in LinkRequests : q # r => ~LinkLive(q) /\ ~LinkLive(q)'
      BY DEF OneLive, LinkLive
<1>2. ASSUME NEW q \in LinkRequests, ~LinkLive(q)' PROVE Fresh(q)'
      BY <1>2 DEF Fresh, LinkAt, LinkLive
<1> QED BY <1>1, <1>2

\* A step of the only handler, which is not the one that links.
LEMMA ReachedKept ==
    ASSUME Reached, NEW r \in LinkRequests,
           \A q \in LinkRequests : q # r => ~LinkLive(q),
           ~LinkAt(r, "linkPending") /\ ~LinkAt(r, "link"),
           \A l \in Links : LinkExists(l)' /\ HasAccount(l[2])' =>
             \/ link'[l].linked \/ link'[l].id \in late' \/ Linking(l)'
             \/ /\ LinkExists(l) /\ HasAccount(l[2])
                /\ link[l].linked => link'[l].linked
                /\ link[l].id \in late => link'[l].id \in late'
    PROVE  Reached'
<1>1. \A l \in Links : ~Linking(l)
      BY DEF Linking, LinkAt, LinkLive
<1> QED BY <1>1 DEF Reached

LEMMA InviteFresh ==
    ASSUME IInv, IdsApart, OneLive, OneLive', Reached, NEW r \in LinkRequests, Invite(r)
    PROVE  (\A q \in LinkRequests : Fresh(q)') /\ Reached' /\ FollowsRulesStep
<1>1. PICK l \in Links : /\ LinkExists(l) => link[l].status = "removed"
                         /\ Start(r, "lookup", "invite", l, "pending")
      BY DEF Invite
<1>2. UNCHANGED <<account, link, late>> /\ ~LinkLive(r)
      BY <1>1 DEF Invite, linkTables, history, Start
<1>3. /\ linkReq'[r] = [pc |-> "lookup", op |-> "invite", link |-> l, id |-> link[l].id,
                        to |-> "pending", found |-> FALSE]
      /\ \A q \in LinkRequests : q # r => linkReq'[q] = linkReq[q]
      BY <1>1, StartSlot DEF IInv, LinkPcs, LinkOps, LinkStatuses
<1>4. Fresh(r)'
  <2>1. SameRow(r)' => link'[l].status = "removed"
        BY <1>1, <1>2, <1>3 DEF SameRow, IdsApart
  <2> QED BY <1>3, <2>1 DEF Fresh, LinkAt
<1>5. LinkLive(r)'
      BY <1>3 DEF LinkLive
<1>6. Reached'
      BY <1>2, <1>3, <1>5, OnlyOne, ReachedKept DEF LinkExists, HasAccount, LinkAt, LinkLive
<1> QED BY <1>2, <1>3, <1>4, <1>5, <1>6, OnlyOne DEF FollowsRulesStep

LEMMA LookupFresh ==
    ASSUME IInv, OneLive, OneLive', Reached, NEW r \in LinkRequests, Fresh(r), Lookup(r)
    PROVE  (\A q \in LinkRequests : Fresh(q)') /\ Reached' /\ FollowsRulesStep
<1>1. LinkTypeOK /\ LinkLive(r) /\ linkReq[r] \in LinkCall
      BY LiveIsCall DEF IInv, Lookup, LinkAt, LinkLive
<1>2. UNCHANGED <<account, link, late>>
      BY DEF Lookup, linkTables, history
<1>3. /\ linkReq'[r].pc \in {"create", "reopen"} /\ linkReq'[r].link = linkReq[r].link
      /\ linkReq'[r].id = linkReq[r].id /\ linkReq'[r].found = HasAccount(linkReq[r].link[2])
      /\ \A q \in LinkRequests : q # r => linkReq'[q] = linkReq[q]
      BY <1>1 DEF Lookup, LinkTypeOK, LinkCall
<1>4. Fresh(r)'
  <2>1. PICK m \in Links : m = linkReq[r].link
        BY <1>1 DEF LinkCall
  <2>2. SameRow(r)' => link'[m].status = "removed"
        BY <1>2, <1>3, <2>1 DEF SameRow, Fresh, Lookup
  <2>3. HasAccount(m[2])' => linkReq'[r].found
        BY <1>2, <1>3, <2>1 DEF HasAccount
  <2> QED BY <1>3, <2>1, <2>2, <2>3 DEF Fresh, LinkAt
<1>5. Reached'
      BY <1>1, <1>2, <1>3, OnlyOne, ReachedKept DEF LinkExists, HasAccount, LinkAt, LinkLive, Lookup
<1> QED BY <1>1, <1>2, <1>3, <1>4, <1>5, OnlyOne DEF FollowsRulesStep

\* The answer ends the handler.
LEMMA AnswerFresh ==
    ASSUME IInv, OneLive, OneLive', NEW r \in LinkRequests, LinkLive(r), LinkAnswer(r)
    PROVE  /\ \A q \in LinkRequests : Fresh(q)'
           /\ \A q \in LinkRequests : q # r => ~LinkLive(q)
<1>1. linkReq'[r] = LinkIdle /\ \A q \in LinkRequests : q # r => linkReq'[q] = linkReq[q]
      BY AnswerSlot DEF IInv
<1>2. Fresh(r)'
      BY <1>1 DEF Fresh, LinkAt, LinkIdle
<1> QED BY <1>1, <1>2, OnlyOne

LEMMA CreateFresh ==
    ASSUME IInv, IdsApart, OneLive, OneLive', Reached, NEW r \in LinkRequests, Fresh(r), Create(r)
    PROVE  (\A q \in LinkRequests : Fresh(q)') /\ Reached' /\ FollowsRulesStep
<1>1. LinkTypeOK /\ LinkLive(r) /\ linkReq[r] \in LinkCall /\ LinkAnswer(r) /\ ~LinkExists(linkReq[r].link)
      BY LiveIsCall DEF IInv, Create, LinkAt, LinkLive, LinkKeysHold
<1>2. /\ UNCHANGED <<account, late>>
      /\ link' = [link EXCEPT ![linkReq[r].link] =
                    [id |-> rows + 1, status |-> "pending", linked |-> linkReq[r].found]]
      BY DEF Create, history
<1>3. HasAccount(linkReq[r].link[2]) => linkReq[r].found
      BY DEF Fresh, Create
<1>4. linkReq[r].link \in Links /\ (\A l \in Links : l # linkReq[r].link => link'[l] = link[l])
      /\ link'[linkReq[r].link].linked = linkReq[r].found
      BY <1>1, <1>2 DEF LinkTypeOK, LinkCall
<1>5. Reached'
      BY <1>1, <1>2, <1>3, <1>4, AnswerFresh, ReachedKept DEF LinkExists, HasAccount, LinkAt, Create
<1> QED BY <1>1, <1>4, <1>5, AnswerFresh DEF FollowsRulesStep

LEMMA ReopenFresh ==
    ASSUME IInv, IdsApart, OneLive, OneLive', Reached, NEW r \in LinkRequests, Fresh(r), Reopen(r)
    PROVE  (\A q \in LinkRequests : Fresh(q)') /\ Reached' /\ FollowsRulesStep
<1>1. LinkTypeOK /\ LinkLive(r) /\ linkReq[r] \in LinkCall /\ account' = account
      BY LiveIsCall DEF IInv, Reopen, LinkAt, LinkLive
<1>2. CASE SameRow(r)
  <2>0. PICK m \in Links : m = linkReq[r].link
        BY <1>1 DEF LinkCall
  <2>1. /\ link' = [link EXCEPT ![m].status = "pending"] /\ late' = late \ {linkReq[r].id}
        /\ link[m].id = linkReq[r].id /\ link[m].status = "removed"
        /\ HasAccount(m[2]) => linkReq[r].found
        BY <1>1, <1>2, <2>0 DEF Reopen, Fresh, SameRow
  <2>2. /\ \A l \in Links : l # m => link'[l] = link[l] /\ (LinkExists(l) => link[l].id # linkReq[r].id)
        /\ link'[m].id = link[m].id /\ link'[m].linked = link[m].linked
        /\ link'[m].status = "pending"
        BY <1>1, <2>1 DEF LinkTypeOK, LinkRow, IdsApart
  <2>3. FollowsRulesStep
        BY <2>1, <2>2 DEF FollowsRulesStep, Rules
  <2>4. CASE linkReq[r].found
    <3>1. LinkGoto(r, "link")
          BY <1>2, <2>4 DEF Reopen
    <3>2. /\ linkReq'[r].pc = "link" /\ linkReq'[r].id = linkReq[r].id /\ linkReq'[r].link = m
          /\ \A q \in LinkRequests : q # r => linkReq'[q] = linkReq[q]
          BY <1>1, <2>0, <3>1 DEF LinkGoto, LinkTypeOK, LinkCall
    <3>3. Fresh(r)'
          BY <1>2, <2>1, <2>2, <3>2 DEF Fresh, LinkAt, SameRow
    <3>4. Linking(m)'
          BY <3>2 DEF Linking, LinkAt
    <3>5. \A q \in LinkRequests : q # r => ~LinkLive(q)
          BY <1>1, <3>2, OnlyOne
    <3>6. ~LinkAt(r, "linkPending") /\ ~LinkAt(r, "link")
          BY DEF Reopen, LinkAt
    <3>7. ASSUME NEW l \in Links, LinkExists(l)', HasAccount(l[2])', l # m
          PROVE  /\ LinkExists(l) /\ HasAccount(l[2])
                 /\ link[l].linked => link'[l].linked
                 /\ link[l].id \in late => link'[l].id \in late'
          BY <1>1, <2>1, <2>2, <3>7 DEF LinkExists, HasAccount
    <3>8. Reached'
          BY <3>4, <3>5, <3>6, <3>7, ReachedKept
    <3> QED BY <1>1, <2>3, <3>2, <3>3, <3>8, OnlyOne
  <2>5. CASE ~linkReq[r].found
    <3>1. LinkAnswer(r) /\ ~HasAccount(m[2])
          BY <1>2, <2>1, <2>5 DEF Reopen
    <3>2. \A l \in Links : HasAccount(l[2])' => l # m
          BY <1>1, <3>1 DEF HasAccount
    <3>3. ASSUME NEW l \in Links, LinkExists(l)', HasAccount(l[2])'
          PROVE  /\ LinkExists(l) /\ HasAccount(l[2])
                 /\ link[l].linked => link'[l].linked
                 /\ link[l].id \in late => link'[l].id \in late'
          BY <1>1, <2>1, <2>2, <3>2, <3>3 DEF LinkExists, HasAccount
    <3>4. ~LinkAt(r, "linkPending") /\ ~LinkAt(r, "link")
          BY DEF Reopen, LinkAt
    <3>5. Reached'
          BY <1>1, <3>1, <3>3, <3>4, AnswerFresh, ReachedKept
    <3> QED BY <1>1, <2>3, <3>1, <3>5, AnswerFresh
  <2> QED BY <2>4, <2>5
<1>3. CASE ~SameRow(r)
  <2>1. LinkAnswer(r) /\ UNCHANGED <<link, late>>
        BY <1>3 DEF Reopen
  <2>2. Reached'
        BY <1>1, <2>1, AnswerFresh, ReachedKept DEF Reopen, LinkAt, LinkExists, HasAccount
  <2> QED BY <1>1, <2>1, <2>2, AnswerFresh DEF FollowsRulesStep
<1> QED BY <1>2, <1>3

LEMMA LinkUserFresh ==
    ASSUME IInv, OneLive, OneLive', Reached, NEW r \in LinkRequests, Fresh(r), LinkUser(r)
    PROVE  (\A q \in LinkRequests : Fresh(q)') /\ Reached' /\ FollowsRulesStep
<1>1. /\ LinkTypeOK /\ LinkLive(r) /\ linkReq[r] \in LinkCall /\ LinkAnswer(r) /\ UNCHANGED <<account, late>>
      /\ LinkAt(r, "link")
      BY LiveIsCall DEF IInv, LinkUser, LinkAt, LinkLive, history
<1>2. PICK m \in Links : m = linkReq[r].link
      BY <1>1 DEF LinkCall
<1>3. \A q \in LinkRequests : q # r => ~LinkLive(q)
      BY <1>1, AnswerFresh
<1>4. \A l \in Links : /\ link'[l].id = link[l].id /\ link'[l].status = link[l].status
                       /\ link[l].linked => link'[l].linked
  <2>1. CASE SameRow(r) /\ HasAccount(linkReq[r].link[2])
        BY <1>1, <2>1 DEF LinkUser, LinkTypeOK, LinkRow
  <2>2. CASE ~(SameRow(r) /\ HasAccount(linkReq[r].link[2]))
        BY <2>2 DEF LinkUser
  <2> QED BY <2>1, <2>2
<1>5. LinkExists(m) /\ HasAccount(m[2]) => link'[m].linked
      BY <1>1, <1>2 DEF Fresh, LinkUser, LinkTypeOK, LinkRow
<1>6. \A l \in Links : Linking(l) => l = m
      BY <1>1, <1>2, <1>3 DEF Linking, LinkAt, LinkLive
<1>7. ASSUME NEW l \in Links, LinkExists(l)', HasAccount(l[2])'
      PROVE  link'[l].linked \/ link'[l].id \in late'
  <2>1. LinkExists(l) /\ HasAccount(l[2])
        BY <1>1, <1>4, <1>7 DEF LinkExists, HasAccount
  <2> QED BY <1>1, <1>4, <1>5, <1>6, <2>1 DEF Reached
<1>8. Reached'
      BY <1>7 DEF Reached
<1> QED BY <1>1, <1>4, <1>8, AnswerFresh DEF FollowsRulesStep

LEMMA StartWriteFresh ==
    ASSUME IInv, OneLive, OneLive', Reached, NEW r \in LinkRequests,
           NEW op \in LinkOps, NEW l \in Links, NEW to \in LinkStatuses, Start(r, "write", op, l, to),
           UNCHANGED <<account, link, late>>,
           op # "force" => to \in LinkMoves(link[l].status)
    PROVE  (\A q \in LinkRequests : Fresh(q)') /\ Reached' /\ FollowsRulesStep
<1>1. ~LinkLive(r)
      BY DEF Start
<1>2. /\ linkReq'[r] = [pc |-> "write", op |-> op, link |-> l, id |-> link[l].id,
                        to |-> to, found |-> FALSE]
      /\ \A q \in LinkRequests : q # r => linkReq'[q] = linkReq[q]
      BY StartSlot DEF IInv, LinkPcs
<1>3. LinkLive(r)' /\ Fresh(r)'
      BY <1>2 DEF Fresh, LinkAt, LinkLive
<1>4. Reached'
      BY <1>1, <1>2, <1>3, OnlyOne, ReachedKept DEF LinkExists, HasAccount, LinkAt, LinkLive
<1> QED BY <1>2, <1>3, <1>4, OnlyOne DEF FollowsRulesStep

LEMMA WriteFresh ==
    ASSUME IInv, IdsApart, OneLive, OneLive', Reached, NEW r \in LinkRequests, Fresh(r), Write(r)
    PROVE  (\A q \in LinkRequests : Fresh(q)') /\ Reached' /\ FollowsRulesStep
<1>1. /\ LinkTypeOK /\ LinkLive(r) /\ linkReq[r] \in LinkCall /\ LinkAnswer(r) /\ UNCHANGED <<account, late>>
      /\ ~LinkAt(r, "linkPending") /\ ~LinkAt(r, "link") /\ LinkAt(r, "write")
      BY LiveIsCall DEF IInv, Write, LinkAt, LinkLive
<1>2. PICK m \in Links : m = linkReq[r].link
      BY <1>1 DEF LinkCall
<1>3. CASE SameRow(r)
  <2>1. LinkExists(m) /\ link[m].id = linkReq[r].id /\ linkReq[r].to \in LinkStatuses
        BY <1>1, <1>2, <1>3, SameRowExists DEF SameRow, LinkCall
  <2>2. /\ \A l \in Links : l # m => link'[l] = link[l]
        /\ link'[m].status = linkReq[r].to /\ link'[m].id = link[m].id
        /\ link'[m].linked = link[m].linked
        BY <1>1, <1>2, <1>3 DEF Write, LinkTypeOK, LinkRow
  <2>3. ASSUME linkReq[r].op = "force" PROVE FollowsRulesStep
        BY <1>3, <2>1, <2>2, <2>3 DEF FollowsRulesStep, Write
  <2>4. ASSUME linkReq[r].op # "force" PROVE FollowsRulesStep
    <3>1. linkReq[r].to \in LinkMoves(link[m].status) /\ link[m].status \in LinkStatuses
          BY <1>1, <1>2, <1>3, <2>1, <2>4 DEF Fresh, LinkTypeOK, LinkRow, LinkExists
    <3>2. <<link[m].status, linkReq[r].to>> \in Rules
          BY <3>1 DEF LinkMoves, Rules, LinkStatuses
    <3> QED BY <2>2, <3>2 DEF FollowsRulesStep
  <2>5. ASSUME NEW l \in Links, LinkExists(l)', HasAccount(l[2])'
        PROVE  /\ LinkExists(l) /\ HasAccount(l[2])
               /\ link[l].linked => link'[l].linked
               /\ link[l].id \in late => link'[l].id \in late'
        BY <1>1, <2>1, <2>2, <2>5 DEF LinkExists, HasAccount
  <2>6. FollowsRulesStep
        BY <2>3, <2>4
  <2>7. Reached'
        BY <1>1, <2>5, AnswerFresh, ReachedKept
  <2> QED BY <1>1, <2>6, <2>7, AnswerFresh
<1>4. CASE ~SameRow(r)
  <2>1. link' = link
        BY <1>4 DEF Write
  <2>2. Reached'
        BY <1>1, <2>1, AnswerFresh, ReachedKept DEF LinkExists, HasAccount
  <2> QED BY <1>1, <2>1, <2>2, AnswerFresh DEF FollowsRulesStep
<1> QED BY <1>3, <1>4

LEMMA RegisterFresh ==
    ASSUME IInv, OneLive, OneLive', Reached, NEW r \in LinkRequests, Register(r)
    PROVE  (\A q \in LinkRequests : Fresh(q)') /\ Reached' /\ FollowsRulesStep
<1>1. PICK m \in Links : /\ Start(r, "linkPending", "register", m, "pending")
                         /\ account' = [account EXCEPT ![m[2]] = "there"]
      BY DEF Register
<1>2. UNCHANGED <<link, late>> /\ ~LinkLive(r) /\ LinkTypeOK
      BY <1>1 DEF Register, history, Start, IInv
<1>3. /\ linkReq'[r] = [pc |-> "linkPending", op |-> "register", link |-> m, id |-> link[m].id,
                        to |-> "pending", found |-> FALSE]
      /\ \A q \in LinkRequests : q # r => linkReq'[q] = linkReq[q]
      BY <1>1, StartSlot DEF IInv, LinkPcs, LinkOps, LinkStatuses
<1>4. LinkLive(r)' /\ Fresh(r)'
      BY <1>3 DEF Fresh, LinkAt, LinkLive
<1>5. \A l \in Links : l[2] = m[2] => Linking(l)'
      BY <1>3 DEF Linking, LinkAt
<1>6. \A l \in Links : HasAccount(l[2])' => HasAccount(l[2]) \/ l[2] = m[2]
      BY <1>1, <1>2, RowsType DEF HasAccount, LinkTypeOK
<1>7. Reached'
      BY <1>2, <1>3, <1>4, <1>5, <1>6, OnlyOne, ReachedKept DEF LinkExists, LinkAt, LinkLive
<1> QED BY <1>2, <1>3, <1>4, <1>7, OnlyOne DEF FollowsRulesStep

LEMMA LinkPendingFresh ==
    ASSUME IInv, OneLive, OneLive', Reached, NEW r \in LinkRequests, Fresh(r), LinkPending(r)
    PROVE  (\A q \in LinkRequests : Fresh(q)') /\ Reached' /\ FollowsRulesStep
<1>1. /\ LinkTypeOK /\ LinkLive(r) /\ linkReq[r] \in LinkCall /\ LinkAnswer(r) /\ account' = account
      /\ LinkAt(r, "linkPending")
      BY LiveIsCall DEF IInv, LinkPending, LinkAt, LinkLive
<1>2. PICK g : g = linkReq[r].link[2]
      OBVIOUS
<1>3. /\ link' = [l \in Links |-> IF l \in WaitingFor(g) /\ HasAccount(g)
                                  THEN [link[l] EXCEPT !.linked = TRUE] ELSE link[l]]
      /\ late' = late \cup {link[l].id : l \in
                   {m \in Links : m[2] = g /\ LinkExists(m) /\ link[m].status # "pending"}}
      BY <1>2 DEF LinkPending
<1>4. \A q \in LinkRequests : q # r => ~LinkLive(q)
      BY <1>1, AnswerFresh
<1>5. \A l \in Links : /\ link'[l].id = link[l].id /\ link'[l].status = link[l].status
                       /\ link[l].linked => link'[l].linked
      BY <1>1, <1>3 DEF LinkTypeOK, LinkRow
<1>6. \A l \in Links : Linking(l) => l[2] = g
      BY <1>1, <1>2, <1>4 DEF Linking, LinkAt, LinkLive
<1>7. ASSUME NEW l \in Links, LinkExists(l)', HasAccount(l[2])'
      PROVE  link'[l].linked \/ link'[l].id \in late'
  <2>1. LinkExists(l) /\ HasAccount(l[2])
        BY <1>1, <1>5, <1>7 DEF LinkExists, HasAccount
  <2>2. CASE l[2] = g /\ link[l].status = "pending"
        BY <1>1, <1>3, <2>1, <2>2 DEF WaitingFor, LinkTypeOK, LinkRow
  <2>3. CASE l[2] = g /\ link[l].status # "pending"
        BY <1>3, <1>5, <2>1, <2>3
  <2>4. CASE l[2] # g
        BY <1>3, <1>5, <1>6, <2>1, <2>4 DEF Reached
  <2> QED BY <2>2, <2>3, <2>4
<1>8. Reached'
      BY <1>7 DEF Reached
<1> QED BY <1>1, <1>5, <1>8, AnswerFresh DEF FollowsRulesStep

\* What is removed or deleted meanwhile takes nothing back.
LEMMA RemovalFresh ==
    ASSUME IInv, IdsApart, Reached, \A r \in LinkRequests : Fresh(r),
           linkReq' = linkReq, late' = late,
           \A l \in Links :
             /\ HasAccount(l[2])' => HasAccount(l[2])
             /\ link'[l] = NoLink \/ /\ link'[l].id = link[l].id
                                     /\ link'[l].status = link[l].status
                                     /\ HasAccount(l[2])' => link'[l].linked = link[l].linked
    PROVE  (\A r \in LinkRequests : Fresh(r)') /\ Reached' /\ FollowsRulesStep
<1>1. LinkTypeOK /\ NoLink.id = 0 /\ NoLink.status = "none"
      BY DEF IInv, NoLink
<1>2. ASSUME NEW r \in LinkRequests PROVE Fresh(r)'
  <2>1. CASE linkReq[r].pc = "idle"
        BY <2>1 DEF Fresh, LinkAt
  <2>2. CASE linkReq[r].pc # "idle"
    <3>1. linkReq[r] \in LinkCall
          BY <1>1, <2>2, LiveIsCall DEF LinkLive
    <3>2. PICK m \in Links : m = linkReq[r].link
          BY <3>1 DEF LinkCall
    <3>3. SameRow(r)' => SameRow(r) /\ link'[m].status = link[m].status
          BY <1>1, <3>2 DEF SameRow
    <3>4. LinkExists(m)' => LinkExists(m) /\ link'[m].id = link[m].id
          BY <1>1 DEF LinkExists
    <3>5. LinkExists(m)' /\ SameRow(r) => SameRow(r)'
          BY <3>2, <3>4 DEF SameRow
    <3>6. HasAccount(m[2])' => HasAccount(m[2])
          OBVIOUS
    <3> QED BY <3>2, <3>3, <3>4, <3>5, <3>6 DEF Fresh, LinkAt
  <2> QED BY <2>1, <2>2
<1>3. ASSUME NEW l \in Links, LinkExists(l)', HasAccount(l[2])'
      PROVE  link'[l].linked \/ link'[l].id \in late' \/ Linking(l)'
  <2>1. /\ LinkExists(l) /\ HasAccount(l[2]) /\ link'[l].id = link[l].id
        /\ link'[l].linked = link[l].linked
        BY <1>1, <1>3 DEF LinkExists
  <2>2. Linking(l) => Linking(l)'
        BY DEF Linking, LinkAt
  <2> QED BY <2>1, <2>2 DEF Reached
<1>4. FollowsRulesStep
  <2> SUFFICES ASSUME NEW l \in Links, LinkExists(l), link'[l].id = link[l].id
               PROVE  link'[l].status = link[l].status
      BY DEF FollowsRulesStep
  <2> QED BY <1>1 DEF IdsApart
<1> QED BY <1>2, <1>3, <1>4 DEF Reached

LEMMA AloneStepFresh ==
    ASSUME IInv, AloneInv, LinksAlone, LinksAlone', OneLive', LinkNext
    PROVE  (\A r \in LinkRequests : Fresh(r)') /\ Reached' /\ FollowsRulesStep
<1>1. LinkTypeOK /\ IdsApart /\ OneLive /\ Reached /\ \A r \in LinkRequests : Fresh(r)
      BY DEF IInv, AloneInv, LinksAlone
<1>2. ~LinkCrash
      BY <1>1 DEF LinkCrash, LinksAlone, LinkTypeOK
<1>3. ASSUME NEW r \in LinkRequests, Update(r)
      PROVE  (\A q \in LinkRequests : Fresh(q)') /\ Reached' /\ FollowsRulesStep
  <2>1. PICK l \in Links, to \in LinkStatuses :
          to \in LinkMoves(link[l].status) /\ Start(r, "write", "update", l, to)
        BY <1>3 DEF Update
  <2> QED BY <1>1, <1>3, <2>1, StartWriteFresh DEF Update, linkTables, LinkOps
<1>4. ASSUME NEW r \in LinkRequests, ForceStatus(r)
      PROVE  (\A q \in LinkRequests : Fresh(q)') /\ Reached' /\ FollowsRulesStep
  <2>1. PICK l \in Links, to \in LinkStatuses : Start(r, "write", "force", l, to)
        BY <1>4 DEF ForceStatus
  <2> QED BY <1>1, <1>4, <2>1, StartWriteFresh DEF ForceStatus, linkTables, history, LinkOps
<1>5. ASSUME NEW r \in LinkRequests, InviteFails(r)
      PROVE  (\A q \in LinkRequests : Fresh(q)') /\ Reached' /\ FollowsRulesStep
  <2>1. /\ LinkLive(r) /\ LinkAnswer(r) /\ UNCHANGED <<account, link, late>>
        /\ ~LinkAt(r, "linkPending") /\ ~LinkAt(r, "link")
        BY <1>5 DEF InviteFails, LinkAt, LinkLive, linkTables, history
  <2>2. Reached'
        BY <1>1, <2>1, AnswerFresh, ReachedKept DEF LinkExists, HasAccount
  <2> QED BY <1>1, <2>1, <2>2, AnswerFresh DEF FollowsRulesStep
<1>6. CASE DeleteLink
  <2>1. PICK m \in Links : link' = [link EXCEPT ![m] = NoLink]
        BY <1>6 DEF DeleteLink, Deleted
  <2>2. \A l \in Links : link'[l] = NoLink \/ link'[l] = link[l]
        BY <1>1, <2>1 DEF LinkTypeOK
  <2> QED BY <1>1, <1>6, <2>2, RemovalFresh DEF DeleteLink, history, HasAccount
<1>7. CASE DeleteAccount
  <2>1. PICK p \in People :
          /\ account' = [account EXCEPT ![p] = "deleted"]
          /\ link' = [l \in Links |-> IF l[1] = p THEN Deleted
                                   ELSE IF l[2] = p THEN [link[l] EXCEPT !.linked = FALSE]
                                   ELSE link[l]]
        BY <1>7 DEF DeleteAccount
  <2>2. ASSUME NEW l \in Links
        PROVE  /\ HasAccount(l[2])' => HasAccount(l[2]) /\ l[2] # p
               /\ link'[l] = NoLink \/ /\ link'[l].id = link[l].id
                                       /\ link'[l].status = link[l].status
                                       /\ l[2] # p => link'[l].linked = link[l].linked
    <3>1. HasAccount(l[2])' => HasAccount(l[2]) /\ l[2] # p
          BY <1>1, <2>1, RowsType DEF HasAccount, LinkTypeOK
    <3>2. link[l] \in LinkRow
          BY <1>1 DEF LinkTypeOK
    <3> QED BY <2>1, <3>1, <3>2 DEF LinkRow, Deleted
  <2> QED BY <1>1, <1>7, <2>2, RemovalFresh DEF DeleteAccount, history
<1> QED BY <1>1, <1>2, <1>3, <1>4, <1>5, <1>6, <1>7, InviteFresh, LookupFresh, CreateFresh,
           ReopenFresh, LinkUserFresh, WriteFresh, RegisterFresh, LinkPendingFresh
        DEF LinkNext, Handler

LEMMA AloneStep ==
    ASSUME IInv, AloneInv, [MCLinkNext]_<<linkVars, linkOverlap>>
    PROVE  AloneInv' /\ [LinksAlone' => FollowsRulesStep]_linkVars
<1>1. IdsApart'
      BY IdsStayApart DEF AloneInv, MCLinkNext, linkVars
<1>2. CASE UNCHANGED <<linkVars, linkOverlap>>
  <2>1. UNCHANGED <<account, link, late, linkReq, linkCrashes, linkOverlap>>
        BY <1>2 DEF linkVars, linkTables, history
  <2>2. OneLive => OneLive'
        BY <2>1 DEF OneLive, LinkLive
  <2>3. \A r \in LinkRequests : Fresh(r) => Fresh(r)'
        BY <2>1 DEF Fresh, LinkAt, HasAccount, SameRow, LinkExists
  <2>4. Reached => Reached'
        BY <2>1 DEF Reached, Linking, LinkAt, LinkExists, HasAccount
  <2> QED BY <1>1, <1>2, <2>1, <2>2, <2>3, <2>4 DEF AloneInv, LinksAlone
<1>3. CASE MCLinkNext
  <2>1. /\ linkOverlap' \in BOOLEAN /\ (linkOverlap => linkOverlap')
        /\ ~linkOverlap' => \A q, r \in LinkRequests : ~(q # r /\ LinkLive(q)' /\ LinkLive(r)')
        BY <1>3 DEF AloneInv, MCLinkNext
  <2>2. ~linkOverlap' => OneLive'
        BY <2>1 DEF OneLive
  <2>3. ASSUME LinksAlone' PROVE (\A r \in LinkRequests : Fresh(r)') /\ Reached' /\ FollowsRulesStep
    <3>1. ~linkOverlap /\ ~linkOverlap' /\ linkCrashes' = 0 /\ linkCrashes \in Nat
          BY <2>1, <2>3 DEF LinksAlone, IInv, LinkTypeOK
    <3>2. linkCrashes' = linkCrashes \/ linkCrashes' = linkCrashes + 1
      <4>1. LinkNext
            BY <1>3 DEF MCLinkNext
      <4> QED BY <4>1 DEF LinkNext, Handler, Invite, Lookup, Create, InviteFails, Reopen, LinkUser,
                          Update, Write, ForceStatus, Register, LinkPending, DeleteLink,
                          DeleteAccount, LinkCrash
    <3>3. linkCrashes = 0
          BY <3>1, <3>2
    <3> QED BY <1>3, <2>2, <2>3, <3>1, <3>3, AloneStepFresh DEF AloneInv, LinksAlone, MCLinkNext
  <2> QED BY <1>1, <2>1, <2>2, <2>3 DEF AloneInv
<1> QED BY <1>2, <1>3

LEMMA AloneInit == MCLinkInit => AloneInv
<1> SUFFICES ASSUME MCLinkInit PROVE AloneInv
    OBVIOUS
<1>1. /\ \A r \in LinkRequests : linkReq[r].pc = "idle"
      /\ \A l \in Links : link[l].id = 0 /\ link[l].status = "none"
      /\ linkOverlap = FALSE
      BY DEF MCLinkInit, LinkInit, LinkIdle, NoLink
<1> QED BY <1>1 DEF AloneInv, IdsApart, OneLive, Fresh, Reached, LinkLive, LinkAt, LinkExists

LEMMA AloneInvariance == MCLinkSpec => []IInv /\ []AloneInv /\ [][LinksAlone' => FollowsRulesStep]_linkVars
<1>1. MCLinkInit => IInv /\ AloneInv
      BY InvInit, AloneInit DEF MCLinkInit
<1>2. IInv /\ [MCLinkNext]_<<linkVars, linkOverlap>> => IInv'
      BY InvStep DEF MCLinkNext, linkVars
<1>3. IInv /\ AloneInv /\ [MCLinkNext]_<<linkVars, linkOverlap>> => AloneInv' /\ [LinksAlone' => FollowsRulesStep]_linkVars
      BY AloneStep
<1> QED BY <1>1, <1>2, <1>3, PTL DEF MCLinkSpec

\* Requests that do not overlap leave no invite behind whose address has an
\* account, but those that were not pending when it registered.
THEOREM InvitesReachAccountsAlone == MCLinkSpec => []AloneInvitesReachAccounts
<1>1. AloneInv => AloneInvitesReachAccounts
  <2> SUFFICES ASSUME AloneInv, LinksAlone, LinksQuiet, NEW l \in Links,
                      link[l].status = "pending", HasAccount(l[2])
               PROVE  link[l].linked \/ link[l].id \in late
      BY DEF AloneInvitesReachAccounts, InvitesReachAccounts
  <2>1. ~Linking(l) /\ LinkExists(l)
        BY DEF Linking, LinksQuiet, LinkAt, LinkLive, LinkExists
  <2> QED BY <2>1 DEF AloneInv, Reached
<1> QED BY <1>1, AloneInvariance, PTL

\* Requests that do not overlap move a row along the transition table only,
\* although the table is checked on the row that was read and not on the row
\* that is written.
THEOREM RulesFollowedAlone == MCLinkSpec => AloneFollowsRules
BY AloneInvariance, PTL DEF AloneFollowsRules

=============================================================================
