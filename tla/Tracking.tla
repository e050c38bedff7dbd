------------------------------- MODULE Tracking -------------------------------
(***************************************************************************)
(* Tags and positions: server/app/devices and server/app/locations, with   *)
(* the admin's operations on both.  A request checks the owner of a tag in  *)
(* one statement and acts in another; between the two the tag may be       *)
(* removed.  A position carries the time its sender gives it.              *)
(***************************************************************************)
EXTENDS Naturals, FiniteSets

CONSTANTS
    Persons,
    Tags,           \* ids of devices, never given twice
    NoTag,
    Calls,          \* requests that may be under way at once
    Skew,           \* how far ahead of the server a recorded time may be
    MaxNow,         \* bound: the clock
    MaxFixes        \* bound: positions kept

ASSUME TrackingAssumption ==
    NoTag \notin Tags /\ Skew \in Nat /\ MaxNow \in Nat /\ MaxFixes \in Nat

VARIABLES
    now,
    tag,            \* devices
    fixes,          \* locations
    call,
    stamped         \* history: tags stamped last_seen by a pair that gave the secret

trackingVars == <<now, tag, fixes, call, stamped>>

TagType == [at : {"unused", "registered", "removed"}, owner : Persons, secret : BOOLEAN,
            online : BOOLEAN, seen : BOOLEAN]
FixType == [user : Persons, device : Tags \cup {NoTag},
            recorded : 0..(MaxNow + Skew), created : 0..MaxNow]
CallType == [kind : {"none", "pair", "edit", "unpair", "submit"},
             at : {"owned", "secret"}, who : Persons, tag : Tags \cup {NoTag},
             given : BOOLEAN, recorded : 0..(MaxNow + Skew)]

TrackingTypeOK ==
    /\ now \in 0..MaxNow
    /\ tag \in [Tags -> TagType]
    /\ fixes \subseteq FixType
    /\ call \in [Calls -> CallType]
    /\ stamped \subseteq Tags

NoCallOf(p) == [kind |-> "none", at |-> "owned", who |-> p, tag |-> NoTag,
                given |-> FALSE, recorded |-> 0]

TrackingInit ==
    /\ now = 0
    /\ \E p \in Persons :
          /\ tag = [t \in Tags |-> [at |-> "unused", owner |-> p, secret |-> FALSE,
                                    online |-> FALSE, seen |-> FALSE]]
          /\ call = [c \in Calls |-> NoCallOf(p)]
    /\ fixes = {} /\ stamped = {}

Owned(p, t) == tag[t].at = "registered" /\ tag[t].owner = p
SetCall(c, r) == call' = [call EXCEPT ![c] = r]
Ends(c) == SetCall(c, NoCallOf(call[c].who))
SetTag(t, r) == tag' = [tag EXCEPT ![t] = r]

-----------------------------------------------------------------------------
(* Tags. *)

\* register: offline and never seen, with a secret or without.
Register(p, t, withSecret) ==
    /\ tag[t].at = "unused"
    /\ SetTag(t, [at |-> "registered", owner |-> p, secret |-> withSecret,
                  online |-> FALSE, seen |-> FALSE])
    /\ UNCHANGED <<now, fixes, call, stamped>>

\* _get_owned, with which update_mine, pair, unpair and a submit that names a
\* tag begin; who does not own the tag is refused here.
BeginOwned(c, kind, p, t, given, recorded) ==
    /\ call[c].kind = "none" /\ Owned(p, t)
    /\ SetCall(c, [NoCallOf(p) EXCEPT !.kind = kind, !.tag = t, !.given = given,
                                      !.recorded = recorded])
    /\ UNCHANGED <<now, tag, fixes, stamped>>

\* pair: the stored secret, none for a tag removed meanwhile; a wrong one ends
\* the call.
SecretAccepted(t, given) == tag[t].at = "registered" /\ tag[t].secret => given
CheckSecret(c) ==
    LET t == call[c].tag IN
    /\ call[c].kind = "pair" /\ call[c].at = "owned"
    /\ IF SecretAccepted(t, call[c].given)
       THEN SetCall(c, [call[c] EXCEPT !.at = "secret"]) ELSE Ends(c)
    /\ UNCHANGED <<now, tag, fixes, stamped>>

\* The UPDATE of pair, of no row when the tag is gone: the call still answers
\* with the row it read first.
Pair(c) ==
    LET t == call[c].tag IN
    /\ call[c].kind = "pair" /\ call[c].at = "secret"
    /\ IF tag[t].at = "registered"
       THEN /\ SetTag(t, [tag[t] EXCEPT !.online = TRUE, !.seen = TRUE])
            /\ stamped' = IF call[c].given THEN stamped \cup {t} ELSE stamped
       ELSE UNCHANGED <<tag, stamped>>
    /\ Ends(c)
    /\ UNCHANGED <<now, fixes>>

\* The UPDATE of update_mine: the state the caller names, no last_seen.
StampsSeen(t, state) == [tag[t] EXCEPT !.online = state, !.seen = TRUE]
Edited(t, state) == [tag[t] EXCEPT !.online = state]
Edit(c, state) ==
    LET t == call[c].tag IN
    /\ call[c].kind = "edit"
    /\ IF tag[t].at = "registered" THEN SetTag(t, Edited(t, state)) ELSE UNCHANGED tag
    /\ Ends(c)
    /\ UNCHANGED <<now, fixes, stamped>>

\* DELETE, with the schema's ON DELETE SET NULL of the positions.
Orphaned(t) == {[f EXCEPT !.device = IF @ = t THEN NoTag ELSE @] : f \in fixes}
RemoveTag(t) ==
    IF tag[t].at = "registered"
    THEN SetTag(t, [tag[t] EXCEPT !.at = "removed"]) /\ fixes' = Orphaned(t)
    ELSE UNCHANGED <<tag, fixes>>

Unpair(c) ==
    /\ call[c].kind = "unpair"
    /\ RemoveTag(call[c].tag) /\ Ends(c)
    /\ UNCHANGED <<now, stamped>>

\* The admin's delete_device.
AdminRemoves(t) ==
    /\ tag[t].at = "registered" /\ RemoveTag(t)
    /\ UNCHANGED <<now, call, stamped>>

\* The admin's force_offline.
ForceOffline(t) ==
    /\ tag[t].at = "registered" /\ tag[t].online
    /\ SetTag(t, [tag[t] EXCEPT !.online = FALSE])
    /\ UNCHANGED <<now, fixes, call, stamped>>

-----------------------------------------------------------------------------
(* Positions. *)

\* _bound_recorded_at, when the body is read: at most Skew ahead of the server.
AnyTime(recorded) == TRUE
TimeAccepted(recorded) == recorded <= now + Skew

BeginSubmit(c, p, t, recorded) ==
    /\ TimeAccepted(recorded)
    /\ IF t = NoTag
       THEN /\ call[c].kind = "none"
            /\ SetCall(c, [NoCallOf(p) EXCEPT !.kind = "submit", !.recorded = recorded])
            /\ UNCHANGED <<now, tag, fixes, stamped>>
       ELSE BeginOwned(c, "submit", p, t, FALSE, recorded)

\* The INSERT: the schema refuses a tag removed since the check.
Submit(c) ==
    LET r == call[c]
        fix == [user |-> r.who, device |-> r.tag, recorded |-> r.recorded, created |-> now]
    IN
    /\ r.kind = "submit"
    /\ Cardinality(fixes) < MaxFixes
    /\ fixes' = IF r.tag = NoTag \/ tag[r.tag].at = "registered"
                THEN fixes \cup {fix} ELSE fixes
    /\ Ends(c)
    /\ UNCHANGED <<now, tag, stamped>>

\* latest_for_user: the row with the greatest recorded time.
Latest(p) == {f \in fixes : f.user = p /\ \A g \in fixes : g.user = p => g.recorded <= f.recorded}

\* The admin's purge_locations.
WithoutFixesOf(p) == {f \in fixes : f.user # p}
Purge(p) ==
    /\ fixes # WithoutFixesOf(p)
    /\ fixes' = WithoutFixesOf(p)
    /\ UNCHANGED <<now, tag, call, stamped>>

Tick ==
    /\ now < MaxNow /\ now' = now + 1
    /\ UNCHANGED <<tag, fixes, call, stamped>>

TrackingNext ==
    \/ \E p \in Persons, t \in Tags, b \in BOOLEAN : Register(p, t, b)
    \/ \E c \in Calls, p \in Persons, t \in Tags, b \in BOOLEAN :
          BeginOwned(c, "pair", p, t, b, 0)
    \/ \E c \in Calls, p \in Persons, t \in Tags, kind \in {"edit", "unpair"} :
          BeginOwned(c, kind, p, t, FALSE, 0)
    \/ \E c \in Calls : CheckSecret(c) \/ Pair(c) \/ Unpair(c) \/ Submit(c)
    \/ \E c \in Calls, b \in BOOLEAN : Edit(c, b)
    \/ \E t \in Tags : AdminRemoves(t) \/ ForceOffline(t)
    \/ \E c \in Calls, p \in Persons, t \in Tags \cup {NoTag}, r \in 0..(MaxNow + Skew) :
          BeginSubmit(c, p, t, r)
    \/ \E p \in Persons : Purge(p)
    \/ Tick

TrackingSpec == TrackingInit /\ [][TrackingNext]_trackingVars

-----------------------------------------------------------------------------
(* Properties. *)

\* "Only pair() stamps last_seen" (devices/service.py:41), and only for who gave
\* the secret of the tag, whatever is removed between its two reads.
StampProvesSecret == \A t \in Tags : tag[t].secret /\ tag[t].seen => t \in stamped

\* A position names no tag, or one its own user has registered still.
FixTagIsOwners == \A f \in fixes : f.device # NoTag => Owned(f.user, f.device)

\* A position dated ahead hides the newer ones for a while and not for good: one
\* that was stored more than Skew after it and is not dated back would be the
\* latest itself.
LatestCatchesUp ==
    \A p \in Persons : \A f \in Latest(p), g \in fixes :
        g.user = p /\ g.recorded >= g.created => g.created <= f.created + Skew

=============================================================================
