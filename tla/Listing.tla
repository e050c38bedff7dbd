------------------------------- MODULE Listing -------------------------------
(***************************************************************************)
(* The paged lists of the API, walked from the first page to the last by a *)
(* client that adds its own limit to its offset.  A page is two            *)
(* statements, a COUNT and then a SELECT with LIMIT and OFFSET, in no      *)
(* transaction; rows come and go between them and between the pages.       *)
(***************************************************************************)
EXTENDS Naturals, FiniteSets

CONSTANTS
    LastKey,        \* rows are numbered in the order of the list
    ServiceMost,    \* the most a page holds (_clamp)
    HistoryMost,    \* what the admin's location history lets a client ask for
    MaxChurn        \* bound: rows that come or go

ASSUME ListingAssumption ==
    /\ LastKey \in Nat /\ MaxChurn \in Nat
    /\ ServiceMost \in Nat \ {0} /\ HistoryMost \in Nat /\ ServiceMost <= HistoryMost

VARIABLES
    rows,           \* the keys that satisfy the filter of the list
    used,           \* keys that have been rows
    walk,
    churn

listingVars == <<rows, used, walk, churn>>

RowKeys == 1..LastKey

\* What a list lets its client ask for, whether a new row may come anywhere or
\* at the top only, and who may read it: an admin, or also the guardians that
\* the person has accepted, asked again for every page.
List(most, anywhere, guarded) == [most |-> most, anywhere |-> anywhere, guarded |-> guarded]
UsersList == List(ServiceMost, FALSE, FALSE)
DevicesList == List(ServiceMost, FALSE, FALSE)
GuardiansList == List(ServiceMost, FALSE, FALSE)
EmergenciesList == List(ServiceMost, FALSE, FALSE)
AuditList == List(ServiceMost, FALSE, FALSE)
PersonsEmergencies == List(ServiceMost, FALSE, TRUE)
PersonsHistory == List(ServiceMost, TRUE, TRUE)
AdminsHistory == List(HistoryMost, TRUE, FALSE)
Lists == {UsersList, DevicesList, GuardiansList, EmergenciesList, AuditList,
          PersonsEmergencies, PersonsHistory, AdminsHistory}

\* The walk and its client.  stable, repeated, removed, late, ahead: history, the
\* rows there all along, those seen twice, and whether a row went or came
\* during the walk, or came between the COUNT and the SELECT of the last page.
WalkType == [at : {"idle", "checked", "counted", "page", "done", "refused"}, list : Lists,
             limit : 1..HistoryMost, offset : Nat, total : Nat, seen : SUBSET RowKeys,
             stable : SUBSET RowKeys, repeated : BOOLEAN, removed : BOOLEAN, late : BOOLEAN,
             came : BOOLEAN]

ListingTypeOK ==
    /\ rows \subseteq used /\ used \subseteq RowKeys
    /\ walk \in WalkType
    /\ churn \in 0..MaxChurn

NoWalk == [at |-> "idle", list |-> UsersList, limit |-> 1, offset |-> 0, total |-> 0,
           seen |-> {}, stable |-> {}, repeated |-> FALSE, removed |-> FALSE, late |-> FALSE,
           came |-> FALSE]

ListingInit ==
    /\ rows \in SUBSET RowKeys /\ used = rows
    /\ walk = NoWalk /\ churn = 0

-----------------------------------------------------------------------------
(* The rows. *)

\* walk.list is read before a walk begins too: the rows of any list.
Insert(k) ==
    /\ k \notin used /\ churn < MaxChurn /\ churn' = churn + 1
    /\ walk.list.anywhere \/ \A j \in used : k < j
    /\ rows' = rows \cup {k} /\ used' = used \cup {k}
    /\ walk' = [walk EXCEPT !.late = @ \/ walk.at = "counted", !.came = TRUE]

Delete(k) ==
    /\ k \in rows /\ churn < MaxChurn /\ churn' = churn + 1
    /\ rows' = rows \ {k}
    /\ walk' = [walk EXCEPT !.stable = @ \ {k}, !.removed = TRUE]
    /\ UNCHANGED used

-----------------------------------------------------------------------------
(* The walk. *)

Position(k) == Cardinality({j \in rows : j < k})
Smallest(a, b) == IF a < b THEN a ELSE b

\* _clamp, after the bounds of the router.
Clamp(limit) == Smallest(limit, ServiceMost)

\* The SELECT: LIMIT rows after OFFSET.
StartsLate(limit, offset) == {k \in rows : Position(k) > offset /\ Position(k) < offset + limit}
Page(limit, offset) == {k \in rows : Position(k) >= offset /\ Position(k) < offset + limit}

Rows == UNCHANGED <<rows, used, churn>>

BeginWalk(list, limit) ==
    /\ walk.at = "idle" /\ limit <= list.most
    /\ walk' = [NoWalk EXCEPT !.at = "page", !.list = list, !.limit = limit, !.stable = rows]
    /\ Rows

\* The request of a page: refused once the reader is no guardian any more.
Request ==
    /\ walk.at = "page"
    /\ \/ walk' = [walk EXCEPT !.at = "checked"]
       \/ walk.list.guarded /\ walk' = [walk EXCEPT !.at = "refused"]
    /\ Rows

Count ==
    /\ walk.at = "checked"
    /\ walk' = [walk EXCEPT !.at = "counted", !.total = Cardinality(rows), !.late = FALSE]
    /\ Rows

\* The rows of the page, and the client's next offset, while it is short of the
\* total it was told.
Select ==
    LET page == Page(Clamp(walk.limit), walk.offset)
        next == walk.offset + walk.limit
    IN
    /\ walk.at = "counted"
    /\ walk' = [walk EXCEPT !.seen = @ \cup page,
                            !.repeated = @ \/ page \cap walk.seen # {},
                            !.at = IF next >= walk.total THEN "done" ELSE "page",
                            !.offset = next]
    /\ Rows

EndWalk ==
    /\ walk.at \in {"done", "refused"}
    /\ walk' = NoWalk /\ Rows

ListingNext ==
    \/ \E k \in RowKeys : Insert(k) \/ Delete(k)
    \/ \E list \in Lists, limit \in 1..HistoryMost : BeginWalk(list, limit)
    \/ Request \/ Count \/ Select \/ EndWalk

ListingSpec == ListingInit /\ [][ListingNext]_listingVars

-----------------------------------------------------------------------------
(* Properties. *)

\* A walk to the last page shows every row that was there all along, once,
\* unless a row went during it, one came between the last COUNT and its SELECT,
\* or the client asked for more than a page holds and stepped over the rest; a
\* row is shown twice only when one came.
WalkExplained ==
    /\ walk.at = "done" /\ ~(walk.stable \subseteq walk.seen)
         => walk.removed \/ walk.late \/ walk.limit > ServiceMost
    /\ walk.repeated => walk.came

=============================================================================
