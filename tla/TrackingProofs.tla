---------------------------- MODULE TrackingProofs ----------------------------
(***************************************************************************)
(* Proofs about Tracking, for any persons, tags, requests, clock and skew. *)
(***************************************************************************)
EXTENDS Tracking, TLAPS

\* What a request under way knows of its tag: it has been registered, its owner
\* is the caller, and past the check a tag with a secret has seen it; and a
\* submitted time is not further ahead than the clock allows.
Settled(r) ==
    /\ r.kind # "none" /\ r.tag # NoTag => tag[r.tag].at # "unused" /\ tag[r.tag].owner = r.who
    /\ r.kind \in {"pair", "edit", "unpair"} => r.tag # NoTag
    /\ r.kind = "pair" /\ r.at = "secret" => SecretAccepted(r.tag, r.given)
    /\ r.kind = "submit" => r.recorded <= now + Skew

CallsSettled == \A c \in Calls : Settled(call[c])

\* No tag changes hands or secret, or comes back.
TagsKeptAs(old, new) ==
    \A t \in Tags : /\ new[t].owner = old[t].owner
                    /\ new[t].secret = old[t].secret
                    /\ new[t].at # old[t].at => new[t].at = "removed" /\ old[t].at = "registered"

\* A position is not dated further ahead than the server accepts.
FixesBounded == \A f \in fixes : f.recorded <= f.created + Skew

TrackingInv ==
    /\ TrackingTypeOK /\ CallsSettled /\ StampProvesSecret
    /\ FixTagIsOwners /\ FixesBounded

-----------------------------------------------------------------------------
(* The records. *)

LEMMA NoCallTyped ==
    ASSUME NEW p \in Persons
    PROVE  NoCallOf(p) \in CallType /\ NoCallOf(p).kind = "none"
  BY TrackingAssumption DEF NoCallOf, CallType

LEMMA SettingCall ==
    ASSUME TrackingTypeOK, NEW c \in Calls, NEW r \in CallType, SetCall(c, r)
    PROVE  /\ call'[c] = r
           /\ \A d \in Calls \ {c} : call'[d] = call[d]
           /\ call' \in [Calls -> CallType]
  BY DEF SetCall, TrackingTypeOK

LEMMA EndingCall ==
    ASSUME TrackingTypeOK, NEW c \in Calls, Ends(c)
    PROVE  /\ call'[c].kind = "none"
           /\ \A d \in Calls \ {c} : call'[d] = call[d]
           /\ call' \in [Calls -> CallType]
<1> DEFINE r == NoCallOf(call[c].who)
<1>1. call[c].who \in Persons
      BY DEF TrackingTypeOK, CallType
<1>2. r \in CallType /\ r.kind = "none"
      BY <1>1, NoCallTyped
<1>3. SetCall(c, r)
      BY DEF Ends
<1> HIDE DEF r
<1> QED BY <1>2, <1>3, SettingCall

LEMMA SettingTag ==
    ASSUME TrackingTypeOK, NEW t \in Tags, NEW r \in TagType, SetTag(t, r)
    PROVE  /\ tag'[t] = r
           /\ \A u \in Tags \ {t} : tag'[u] = tag[u]
           /\ tag' \in [Tags -> TagType]
  BY DEF SetTag, TrackingTypeOK

\* Calls that go on or end stay settled while the clock does not go back.
LEMMA SettledKept ==
    ASSUME TrackingTypeOK, CallsSettled, now' \in Nat, now' >= now, TagsKeptAs(tag, tag'),
           \A d \in Calls : call'[d] = call[d] \/ call'[d].kind = "none"
    PROVE  CallsSettled'
<1> SUFFICES ASSUME NEW d \in Calls
             PROVE  Settled(call[d])'
    BY DEF CallsSettled
<1>1. CASE call'[d].kind = "none"
      BY <1>1 DEF Settled
<1>2. CASE call'[d] = call[d]
  <2> DEFINE r == call[d]
  <2>1. r \in CallType /\ Settled(r)
        BY DEF TrackingTypeOK, CallsSettled
  <2>2. CASE r.kind = "none"
        BY <1>2, <2>2 DEF Settled
  <2>3. CASE r.kind # "none"
    <3>1. r.tag # NoTag => r.tag \in Tags
          BY <2>1 DEF CallType
    <3>2. r.tag # NoTag => tag'[r.tag].at # "unused" /\ tag'[r.tag].owner = r.who
          BY <2>1, <2>3, <3>1 DEF Settled, TagsKeptAs
    <3>3. r.kind \in {"pair", "edit", "unpair"} => r.tag # NoTag
          BY <2>1 DEF Settled
    <3>4. r.kind = "pair" /\ r.at = "secret"
            => (tag'[r.tag].at = "registered" /\ tag'[r.tag].secret => r.given)
          BY <2>1, <3>1, <3>3 DEF Settled, TagsKeptAs, SecretAccepted
    <3>5. r.kind = "submit" => r.recorded <= now' + Skew
          BY <2>1, TrackingAssumption DEF Settled, CallType, TrackingTypeOK
    <3> QED BY <1>2, <3>2, <3>3, <3>4, <3>5 DEF Settled, SecretAccepted, r
  <2> QED BY <2>2, <2>3
<1> QED BY <1>1, <1>2

\* Changing the tag of a position leaves its times.
LEMMA OrphansKeepTheirTimes ==
    ASSUME TrackingTypeOK, NEW t \in Tags, NEW g \in Orphaned(t)
    PROVE  /\ g \in FixType
           /\ g.device # t
           /\ \E f \in fixes : /\ f.user = g.user /\ f.recorded = g.recorded /\ f.created = g.created
                               /\ g.device # NoTag => g.device = f.device
<1>1. PICK f \in fixes : g = [f EXCEPT !.device = IF @ = t THEN NoTag ELSE @]
      BY DEF Orphaned
<1>2. f \in FixType
      BY DEF TrackingTypeOK
<1> QED BY <1>1, <1>2, TrackingAssumption DEF FixType

-----------------------------------------------------------------------------
(* The steps. *)

LEMMA TrackingInitHolds == TrackingInit => TrackingInv
<1> SUFFICES ASSUME TrackingInit PROVE TrackingInv
    OBVIOUS
<1>1. PICK p \in Persons :
          /\ tag = [t \in Tags |-> [at |-> "unused", owner |-> p, secret |-> FALSE,
                                    online |-> FALSE, seen |-> FALSE]]
          /\ call = [c \in Calls |-> NoCallOf(p)]
      BY DEF TrackingInit
<1>2. TrackingTypeOK
  <2>1. tag \in [Tags -> TagType]
        BY <1>1 DEF TagType
  <2>2. call \in [Calls -> CallType]
        BY <1>1, NoCallTyped
  <2>3. now \in 0..MaxNow /\ fixes = {} /\ stamped = {}
        BY TrackingAssumption DEF TrackingInit
  <2> QED BY <2>1, <2>2, <2>3 DEF TrackingTypeOK
<1>3. CallsSettled
      BY <1>1, NoCallTyped DEF CallsSettled, Settled
<1>4. StampProvesSecret
      BY <1>1 DEF StampProvesSecret
<1>5. FixTagIsOwners /\ FixesBounded
      BY DEF TrackingInit, FixTagIsOwners, FixesBounded
<1> QED BY <1>2, <1>3, <1>4, <1>5 DEF TrackingInv

LEMMA RegisterKeeps ==
    ASSUME TrackingInv, NEW p \in Persons, NEW t \in Tags, NEW b \in BOOLEAN, Register(p, t, b)
    PROVE  TrackingInv'
<1> DEFINE r == [at |-> "registered", owner |-> p, secret |-> b, online |-> FALSE, seen |-> FALSE]
<1>1. r \in TagType /\ ~ r.seen
      BY DEF TagType
<1>2. SetTag(t, r) /\ tag[t].at = "unused" /\ UNCHANGED <<now, fixes, call, stamped>>
      BY DEF Register
<1> HIDE DEF r
<1>3. /\ tag'[t] = r /\ \A u \in Tags \ {t} : tag'[u] = tag[u]
      /\ tag' \in [Tags -> TagType]
      BY <1>1, <1>2, SettingTag DEF TrackingInv
<1>4. TrackingTypeOK'
      BY <1>2, <1>3 DEF TrackingInv, TrackingTypeOK
<1>5. CallsSettled'
  <2> SUFFICES ASSUME NEW c \in Calls PROVE Settled(call[c])'
      BY DEF CallsSettled
  <2>1. call'[c] = call[c] /\ call[c] \in CallType /\ Settled(call[c]) /\ now' = now
        BY <1>2 DEF TrackingInv, TrackingTypeOK, CallsSettled
  <2>2. CASE call[c].kind = "none"
        BY <2>1, <2>2 DEF Settled
  <2>3. CASE call[c].kind # "none" /\ call[c].tag = NoTag
        BY <2>1, <2>3 DEF Settled
  <2>4. CASE call[c].kind # "none" /\ call[c].tag # NoTag
    <3>1. call[c].tag \in Tags \ {t}
          BY <1>2, <2>1, <2>4 DEF Settled, CallType
    <3> QED BY <1>3, <2>1, <3>1 DEF Settled, SecretAccepted
  <2> QED BY <2>2, <2>3, <2>4
<1>6. StampProvesSecret'
      BY <1>1, <1>2, <1>3 DEF TrackingInv, StampProvesSecret
<1>7. FixTagIsOwners'
      BY <1>2, <1>3 DEF TrackingInv, FixTagIsOwners, Owned, TrackingTypeOK, FixType
<1>8. FixesBounded'
      BY <1>2 DEF TrackingInv, FixesBounded
<1> QED BY <1>4, <1>5, <1>6, <1>7, <1>8 DEF TrackingInv

\* A step that changes calls only, and settles each one it changes.
LEMMA CallStepKeeps ==
    ASSUME TrackingInv, NEW c \in Calls, NEW r \in CallType, SetCall(c, r), Settled(r),
           UNCHANGED <<now, tag, fixes, stamped>>
    PROVE  TrackingInv'
<1>1. /\ call'[c] = r /\ \A d \in Calls \ {c} : call'[d] = call[d]
      /\ call' \in [Calls -> CallType]
      BY SettingCall DEF TrackingInv
<1>2. TrackingTypeOK'
      BY <1>1 DEF TrackingInv, TrackingTypeOK
<1>3. CallsSettled'
  <2> SUFFICES ASSUME NEW d \in Calls PROVE Settled(call[d])'
      BY DEF CallsSettled
  <2>1. Settled(call'[d])
        BY <1>1 DEF TrackingInv, CallsSettled
  <2> QED BY <2>1 DEF Settled, SecretAccepted
<1>4. StampProvesSecret' /\ FixTagIsOwners' /\ FixesBounded'
      BY DEF TrackingInv, StampProvesSecret, FixTagIsOwners, FixesBounded, Owned
<1> QED BY <1>2, <1>3, <1>4 DEF TrackingInv

LEMMA BeginOwnedKeeps ==
    ASSUME TrackingInv, NEW c \in Calls, NEW kind \in {"pair", "edit", "unpair", "submit"},
           NEW p \in Persons, NEW t \in Tags, NEW b \in BOOLEAN, NEW n \in 0..(MaxNow + Skew),
           BeginOwned(c, kind, p, t, b, n), kind = "submit" => n <= now + Skew
    PROVE  TrackingInv'
<1> DEFINE r == [NoCallOf(p) EXCEPT !.kind = kind, !.tag = t, !.given = b, !.recorded = n]
<1>1. /\ r \in CallType /\ r.kind = kind /\ r.at = "owned" /\ r.who = p /\ r.tag = t
      /\ r.given = b /\ r.recorded = n
      BY DEF NoCallOf, CallType
<1>2. SetCall(c, r) /\ Owned(p, t) /\ UNCHANGED <<now, tag, fixes, stamped>>
      BY DEF BeginOwned
<1> HIDE DEF r
<1>3. Settled(r)
      BY <1>1, <1>2, TrackingAssumption DEF Settled, Owned
<1> QED BY <1>1, <1>2, <1>3, CallStepKeeps

LEMMA BeginSubmitKeeps ==
    ASSUME TrackingInv, NEW c \in Calls, NEW p \in Persons, NEW t \in Tags \cup {NoTag},
           NEW n \in 0..(MaxNow + Skew), BeginSubmit(c, p, t, n)
    PROVE  TrackingInv'
<1>1. n <= now + Skew
      BY DEF BeginSubmit, TimeAccepted
<1>2. CASE t = NoTag
  <2> DEFINE r == [NoCallOf(p) EXCEPT !.kind = "submit", !.recorded = n]
  <2>1. r \in CallType /\ r.kind = "submit" /\ r.at = "owned" /\ r.tag = NoTag /\ r.recorded = n
        BY DEF NoCallOf, CallType
  <2>2. SetCall(c, r) /\ UNCHANGED <<now, tag, fixes, stamped>>
        BY <1>2 DEF BeginSubmit
  <2> HIDE DEF r
  <2>3. Settled(r)
        BY <1>1, <2>1 DEF Settled
  <2> QED BY <2>1, <2>2, <2>3, CallStepKeeps
<1>3. CASE t # NoTag
  <2>1. t \in Tags /\ BeginOwned(c, "submit", p, t, FALSE, n)
        BY <1>3 DEF BeginSubmit
  <2> QED BY <1>1, <2>1, BeginOwnedKeeps
<1> QED BY <1>2, <1>3

LEMMA CheckSecretKeeps ==
    ASSUME TrackingInv, NEW c \in Calls, CheckSecret(c)
    PROVE  TrackingInv'
<1>1. /\ call[c] \in CallType /\ Settled(call[c]) /\ call[c].kind = "pair"
      /\ UNCHANGED <<now, tag, fixes, stamped>>
      BY DEF TrackingInv, TrackingTypeOK, CallsSettled, CheckSecret
<1>2. CASE SecretAccepted(call[c].tag, call[c].given)
  <2> DEFINE r == [call[c] EXCEPT !.at = "secret"]
  <2>1. /\ r \in CallType /\ r.kind = "pair" /\ r.who = call[c].who /\ r.tag = call[c].tag
        /\ r.given = call[c].given
        BY <1>1 DEF CallType
  <2>2. SetCall(c, r)
        BY <1>2 DEF CheckSecret
  <2> HIDE DEF r
  <2>3. Settled(r)
        BY <1>1, <1>2, <2>1 DEF Settled
  <2> QED BY <1>1, <2>1, <2>2, <2>3, CallStepKeeps
<1>3. CASE ~ SecretAccepted(call[c].tag, call[c].given)
  <2> DEFINE r == NoCallOf(call[c].who)
  <2>1. r \in CallType /\ r.kind = "none"
        BY <1>1, NoCallTyped DEF CallType
  <2>2. SetCall(c, r)
        BY <1>3 DEF CheckSecret, Ends
  <2> HIDE DEF r
  <2>3. Settled(r)
        BY <2>1 DEF Settled
  <2> QED BY <1>1, <2>1, <2>2, <2>3, CallStepKeeps
<1> QED BY <1>2, <1>3

\* A step on one tag that keeps its state, owner and secret, and what it says
\* of the time it was seen true; the calls go on or end.
LEMMA TagStepKeeps ==
    ASSUME TrackingInv, NEW t \in Tags, NEW r \in TagType, SetTag(t, r),
           r.at = tag[t].at, r.owner = tag[t].owner, r.secret = tag[t].secret,
           r.secret /\ r.seen => t \in stamped',
           call' \in [Calls -> CallType],
           \A d \in Calls : call'[d] = call[d] \/ call'[d].kind = "none",
           stamped \subseteq stamped', stamped' \subseteq Tags, UNCHANGED <<now, fixes>>
    PROVE  TrackingInv'
<1>1. /\ tag'[t] = r /\ \A u \in Tags \ {t} : tag'[u] = tag[u]
      /\ tag' \in [Tags -> TagType]
      BY SettingTag DEF TrackingInv
<1>2. TrackingTypeOK'
      BY <1>1 DEF TrackingInv, TrackingTypeOK
<1>3. CallsSettled'
  <2>1. TagsKeptAs(tag, tag')
        BY <1>1 DEF TagsKeptAs
  <2>2. now' \in Nat /\ now' >= now
        BY TrackingAssumption DEF TrackingInv, TrackingTypeOK
  <2> QED BY <2>1, <2>2, SettledKept DEF TrackingInv
<1>4. StampProvesSecret'
      BY <1>1 DEF TrackingInv, StampProvesSecret
<1>5. FixTagIsOwners'
      BY <1>1 DEF TrackingInv, FixTagIsOwners, Owned, TrackingTypeOK, FixType
<1>6. FixesBounded'
      BY DEF TrackingInv, FixesBounded
<1> QED BY <1>2, <1>3, <1>4, <1>5, <1>6 DEF TrackingInv

\* A step that changes no tag and no position, and ends a call.
LEMMA EndingKeeps ==
    ASSUME TrackingInv, NEW c \in Calls, Ends(c), UNCHANGED <<now, tag, fixes, stamped>>
    PROVE  TrackingInv'
<1> DEFINE r == NoCallOf(call[c].who)
<1>1. call[c].who \in Persons
      BY DEF TrackingInv, TrackingTypeOK, CallType
<1>2. r \in CallType /\ r.kind = "none" /\ SetCall(c, r)
      BY <1>1, NoCallTyped DEF Ends
<1> HIDE DEF r
<1>3. Settled(r)
      BY <1>2 DEF Settled
<1> QED BY <1>2, <1>3, CallStepKeeps

LEMMA PairKeeps ==
    ASSUME TrackingInv, NEW c \in Calls, Pair(c)
    PROVE  TrackingInv'
<1> DEFINE t == call[c].tag
           r == [tag[t] EXCEPT !.online = TRUE, !.seen = TRUE]
<1>1. /\ call[c] \in CallType /\ Settled(call[c])
      /\ call[c].kind = "pair" /\ call[c].at = "secret" /\ UNCHANGED <<now, fixes>> /\ Ends(c)
      BY DEF TrackingInv, TrackingTypeOK, CallsSettled, Pair
<1>2. t \in Tags
      BY <1>1 DEF Settled, CallType
<1>3. CASE tag[t].at = "registered"
  <2>1. /\ r \in TagType /\ r.at = tag[t].at /\ r.owner = tag[t].owner
        /\ r.secret = tag[t].secret
        BY <1>2 DEF TrackingInv, TrackingTypeOK, TagType
  <2>2. SetTag(t, r) /\ stamped' = IF call[c].given THEN stamped \cup {t} ELSE stamped
        BY <1>3 DEF Pair
  <2>3. tag[t].secret => call[c].given
        BY <1>1, <1>3 DEF Settled, SecretAccepted
  <2>4. /\ stamped \subseteq stamped' /\ stamped' \subseteq Tags
        /\ tag[t].secret => t \in stamped'
        BY <1>2, <2>2, <2>3 DEF TrackingInv, TrackingTypeOK
  <2>5. /\ call' \in [Calls -> CallType]
        /\ \A d \in Calls : call'[d] = call[d] \/ call'[d].kind = "none"
        BY <1>1, EndingCall DEF TrackingInv
  <2> HIDE DEF r, t
  <2> QED BY <1>1, <1>2, <2>1, <2>2, <2>4, <2>5, TagStepKeeps
<1>4. CASE tag[t].at # "registered"
  <2>1. UNCHANGED <<tag, stamped>>
        BY <1>4 DEF Pair
  <2> QED BY <1>1, <2>1, EndingKeeps
<1> QED BY <1>3, <1>4

LEMMA EditKeeps ==
    ASSUME TrackingInv, NEW c \in Calls, NEW b \in BOOLEAN, Edit(c, b)
    PROVE  TrackingInv'
<1> DEFINE t == call[c].tag
           r == Edited(t, b)
<1>1. /\ call[c] \in CallType /\ Settled(call[c])
      /\ call[c].kind = "edit" /\ UNCHANGED <<now, fixes, stamped>> /\ Ends(c)
      BY DEF TrackingInv, TrackingTypeOK, CallsSettled, Edit
<1>2. t \in Tags
      BY <1>1 DEF Settled, CallType
<1>3. CASE tag[t].at = "registered"
  <2>1. /\ r \in TagType /\ r.at = tag[t].at /\ r.owner = tag[t].owner
        /\ r.secret = tag[t].secret /\ r.seen = tag[t].seen
        BY <1>2 DEF TrackingInv, TrackingTypeOK, TagType, Edited
  <2>2. SetTag(t, r)
        BY <1>3 DEF Edit
  <2>3. tag[t].secret /\ tag[t].seen => t \in stamped'
        BY <1>1, <1>2 DEF TrackingInv, StampProvesSecret
  <2>4. /\ call' \in [Calls -> CallType] /\ stamped' \subseteq Tags
        /\ \A d \in Calls : call'[d] = call[d] \/ call'[d].kind = "none"
        BY <1>1, EndingCall DEF TrackingInv, TrackingTypeOK
  <2> HIDE DEF r, t
  <2> QED BY <1>1, <1>2, <2>1, <2>2, <2>3, <2>4, TagStepKeeps
<1>4. CASE tag[t].at # "registered"
  <2>1. UNCHANGED tag
        BY <1>4 DEF Edit
  <2> QED BY <1>1, <2>1, EndingKeeps
<1> QED BY <1>3, <1>4

LEMMA ForceOfflineKeeps ==
    ASSUME TrackingInv, NEW t \in Tags, ForceOffline(t)
    PROVE  TrackingInv'
<1> DEFINE r == [tag[t] EXCEPT !.online = FALSE]
<1>1. /\ r \in TagType /\ r.at = tag[t].at /\ r.owner = tag[t].owner
      /\ r.secret = tag[t].secret /\ r.seen = tag[t].seen
      BY DEF TrackingInv, TrackingTypeOK, TagType
<1>2. SetTag(t, r) /\ UNCHANGED <<now, fixes, call, stamped>>
      BY DEF ForceOffline
<1>3. /\ tag[t].secret /\ tag[t].seen => t \in stamped'
      /\ call' \in [Calls -> CallType] /\ stamped' \subseteq Tags
      BY <1>2 DEF TrackingInv, StampProvesSecret, TrackingTypeOK
<1> HIDE DEF r
<1> QED BY <1>1, <1>2, <1>3, TagStepKeeps

\* The removal of a tag takes it from every position.
LEMMA RemovalKeeps ==
    ASSUME TrackingInv, NEW t \in Tags, RemoveTag(t), UNCHANGED <<now, stamped>>,
           call' \in [Calls -> CallType],
           \A d \in Calls : call'[d] = call[d] \/ call'[d].kind = "none"
    PROVE  TrackingInv'
<1>1. now' \in Nat /\ now' >= now
      BY TrackingAssumption DEF TrackingInv, TrackingTypeOK
<1>2. CASE tag[t].at = "registered"
  <2> DEFINE r == [tag[t] EXCEPT !.at = "removed"]
  <2>1. /\ r \in TagType /\ r.at = "removed" /\ r.owner = tag[t].owner
        /\ r.secret = tag[t].secret /\ r.seen = tag[t].seen
        BY DEF TrackingInv, TrackingTypeOK, TagType
  <2>2. SetTag(t, r) /\ fixes' = Orphaned(t)
        BY <1>2 DEF RemoveTag
  <2> HIDE DEF r
  <2>3. /\ tag'[t] = r /\ \A u \in Tags \ {t} : tag'[u] = tag[u]
        /\ tag' \in [Tags -> TagType]
        BY <2>1, <2>2, SettingTag DEF TrackingInv
  <2>4. fixes' \subseteq FixType
        BY <2>2, OrphansKeepTheirTimes DEF TrackingInv
  <2>5. TrackingTypeOK'
        BY <2>3, <2>4 DEF TrackingInv, TrackingTypeOK
  <2>6. TagsKeptAs(tag, tag')
        BY <1>2, <2>1, <2>3 DEF TagsKeptAs
  <2>7. CallsSettled'
        BY <1>1, <2>6, SettledKept DEF TrackingInv
  <2>8. StampProvesSecret'
        BY <2>1, <2>3 DEF TrackingInv, StampProvesSecret
  <2>9. FixTagIsOwners'
    <3> SUFFICES ASSUME NEW g \in fixes', g.device # NoTag
                 PROVE  tag'[g.device].at = "registered" /\ tag'[g.device].owner = g.user
        BY DEF FixTagIsOwners, Owned
    <3>1. PICK f \in fixes : f.user = g.user /\ g.device = f.device /\ g.device # t
          BY <2>2, OrphansKeepTheirTimes DEF TrackingInv
    <3>2. Owned(f.user, f.device) /\ f.device \in Tags
          BY <3>1 DEF TrackingInv, FixTagIsOwners, TrackingTypeOK, FixType
    <3> QED BY <2>3, <3>1, <3>2 DEF Owned
  <2>10. FixesBounded'
         BY <2>2, OrphansKeepTheirTimes DEF TrackingInv, FixesBounded
  <2> QED BY <2>5, <2>7, <2>8, <2>9, <2>10 DEF TrackingInv
<1>3. CASE tag[t].at # "registered"
  <2>1. UNCHANGED <<tag, fixes>>
        BY <1>3 DEF RemoveTag
  <2>2. TagsKeptAs(tag, tag')
        BY <2>1 DEF TagsKeptAs
  <2>3. CallsSettled'
        BY <1>1, <2>2, SettledKept DEF TrackingInv
  <2>4. TrackingTypeOK' /\ StampProvesSecret' /\ FixTagIsOwners' /\ FixesBounded'
        BY <2>1 DEF TrackingInv, TrackingTypeOK, StampProvesSecret, FixTagIsOwners,
                    FixesBounded, Owned
  <2> QED BY <2>3, <2>4 DEF TrackingInv
<1> QED BY <1>2, <1>3

LEMMA SubmitKeeps ==
    ASSUME TrackingInv, NEW c \in Calls, Submit(c)
    PROVE  TrackingInv'
<1> DEFINE r == call[c]
           fix == [user |-> r.who, device |-> r.tag, recorded |-> r.recorded, created |-> now]
<1>1. /\ r \in CallType /\ Settled(r) /\ r.kind = "submit" /\ Ends(c)
      /\ UNCHANGED <<now, tag, stamped>> /\ now \in 0..MaxNow
      BY DEF TrackingInv, TrackingTypeOK, CallsSettled, Submit
<1>2. fix \in FixType /\ fix.user = r.who /\ fix.device = r.tag /\ fix.recorded <= fix.created + Skew
      BY <1>1 DEF FixType, CallType, Settled
<1>3. CASE fixes' = fixes
      BY <1>1, <1>3, EndingKeeps
<1>4. CASE fixes' = fixes \cup {fix} /\ (r.tag # NoTag => tag[r.tag].at = "registered")
  <2>1. r.tag # NoTag => Owned(r.who, r.tag)
        BY <1>1, <1>4 DEF Settled, Owned
  <2> HIDE DEF fix, r
  <2>2. /\ call' \in [Calls -> CallType]
        /\ \A d \in Calls : call'[d] = call[d] \/ call'[d].kind = "none"
        BY <1>1, EndingCall DEF TrackingInv
  <2>3. TrackingTypeOK'
        BY <1>1, <1>2, <1>4, <2>2 DEF TrackingInv, TrackingTypeOK
  <2>4. CallsSettled'
    <3>1. TagsKeptAs(tag, tag') /\ now' \in Nat /\ now' >= now
          BY <1>1, TrackingAssumption DEF TagsKeptAs
    <3> QED BY <2>2, <3>1, SettledKept DEF TrackingInv
  <2>5. FixTagIsOwners'
        BY <1>1, <1>2, <1>4, <2>1 DEF TrackingInv, FixTagIsOwners, Owned
  <2>6. StampProvesSecret' /\ FixesBounded'
        BY <1>1, <1>2, <1>4 DEF TrackingInv, StampProvesSecret, FixesBounded
  <2> QED BY <2>3, <2>4, <2>5, <2>6 DEF TrackingInv
<1> QED BY <1>3, <1>4 DEF Submit

LEMMA PurgeKeeps ==
    ASSUME TrackingInv, NEW p \in Persons, Purge(p)
    PROVE  TrackingInv'
<1>1. fixes' \subseteq fixes /\ UNCHANGED <<now, tag, call, stamped>>
      BY DEF Purge, WithoutFixesOf
<1>2. CallsSettled'
  <2>1. TagsKeptAs(tag, tag') /\ now' \in Nat /\ now' >= now
        BY <1>1, TrackingAssumption DEF TagsKeptAs, TrackingInv, TrackingTypeOK
  <2> QED BY <1>1, <2>1, SettledKept DEF TrackingInv
<1>3. TrackingTypeOK' /\ StampProvesSecret' /\ FixTagIsOwners' /\ FixesBounded'
      BY <1>1 DEF TrackingInv, TrackingTypeOK, StampProvesSecret, FixTagIsOwners, FixesBounded,
                  Owned
<1> QED BY <1>2, <1>3 DEF TrackingInv

LEMMA TickKeeps ==
    ASSUME TrackingInv, Tick
    PROVE  TrackingInv'
<1>1. UNCHANGED <<tag, fixes, call, stamped>> /\ now' \in 0..MaxNow /\ now' >= now /\ now' \in Nat
      BY TrackingAssumption DEF Tick, TrackingInv, TrackingTypeOK
<1>2. CallsSettled'
  <2>1. TagsKeptAs(tag, tag')
        BY <1>1 DEF TagsKeptAs
  <2> QED BY <1>1, <2>1, SettledKept DEF TrackingInv
<1>3. TrackingTypeOK' /\ StampProvesSecret' /\ FixTagIsOwners' /\ FixesBounded'
      BY <1>1 DEF TrackingInv, TrackingTypeOK, StampProvesSecret, FixTagIsOwners, FixesBounded,
                  Owned
<1> QED BY <1>2, <1>3 DEF TrackingInv

LEMMA TrackingStep == TrackingInv /\ [TrackingNext]_trackingVars => TrackingInv'
<1> SUFFICES ASSUME TrackingInv, [TrackingNext]_trackingVars PROVE TrackingInv'
    OBVIOUS
<1>1. CASE UNCHANGED trackingVars
      BY <1>1 DEF trackingVars, TrackingInv, TrackingTypeOK, CallsSettled, Settled, SecretAccepted,
                  StampProvesSecret, FixTagIsOwners, FixesBounded, Owned
<1>2. CASE \E p \in Persons, t \in Tags, b \in BOOLEAN : Register(p, t, b)
      BY <1>2, RegisterKeeps
<1>3. CASE \E c \in Calls, p \in Persons, t \in Tags, b \in BOOLEAN :
              BeginOwned(c, "pair", p, t, b, 0)
  <2>1. 0 \in 0..(MaxNow + Skew)
        BY TrackingAssumption
  <2> QED BY <1>3, <2>1, BeginOwnedKeeps
<1>4. CASE \E c \in Calls, p \in Persons, t \in Tags, kind \in {"edit", "unpair"} :
              BeginOwned(c, kind, p, t, FALSE, 0)
  <2>1. 0 \in 0..(MaxNow + Skew)
        BY TrackingAssumption
  <2>2. PICK c \in Calls, p \in Persons, t \in Tags, kind \in {"edit", "unpair"} :
              BeginOwned(c, kind, p, t, FALSE, 0)
        BY <1>4
  <2>3. kind \in {"pair", "edit", "unpair", "submit"} /\ kind # "submit"
        OBVIOUS
  <2> QED BY <2>1, <2>2, <2>3, BeginOwnedKeeps
<1>5. CASE \E c \in Calls : CheckSecret(c)
      BY <1>5, CheckSecretKeeps
<1>6. CASE \E c \in Calls : Pair(c)
      BY <1>6, PairKeeps
<1>7. CASE \E c \in Calls : Unpair(c)
  <2>1. PICK c \in Calls : Unpair(c)
        BY <1>7
  <2>2. /\ call[c] \in CallType /\ Settled(call[c]) /\ call[c].kind = "unpair"
        /\ RemoveTag(call[c].tag) /\ Ends(c) /\ UNCHANGED <<now, stamped>>
        BY <2>1 DEF Unpair, TrackingInv, TrackingTypeOK, CallsSettled
  <2>3. call[c].tag \in Tags
        BY <2>2 DEF Settled, CallType
  <2>4. /\ call' \in [Calls -> CallType]
        /\ \A d \in Calls : call'[d] = call[d] \/ call'[d].kind = "none"
        BY <2>2, EndingCall DEF TrackingInv
  <2> QED BY <2>2, <2>3, <2>4, RemovalKeeps
<1>8. CASE \E c \in Calls : Submit(c)
      BY <1>8, SubmitKeeps
<1>9. CASE \E c \in Calls, b \in BOOLEAN : Edit(c, b)
      BY <1>9, EditKeeps
<1>10. CASE \E t \in Tags : AdminRemoves(t)
  <2>1. PICK t \in Tags : AdminRemoves(t)
        BY <1>10
  <2>2. RemoveTag(t) /\ UNCHANGED <<now, call, stamped>> /\ call' \in [Calls -> CallType]
        BY <2>1 DEF AdminRemoves, TrackingInv, TrackingTypeOK
  <2> QED BY <2>2, RemovalKeeps
<1>11. CASE \E t \in Tags : ForceOffline(t)
       BY <1>11, ForceOfflineKeeps
<1>12. CASE \E c \in Calls, p \in Persons, t \in Tags \cup {NoTag}, r \in 0..(MaxNow + Skew) :
               BeginSubmit(c, p, t, r)
       BY <1>12, BeginSubmitKeeps
<1>13. CASE \E p \in Persons : Purge(p)
       BY <1>13, PurgeKeeps
<1>14. CASE Tick
       BY <1>14, TickKeeps
<1> QED BY <1>1, <1>2, <1>3, <1>4, <1>5, <1>6, <1>7, <1>8, <1>9, <1>10, <1>11, <1>12, <1>13, <1>14
        DEF TrackingNext

-----------------------------------------------------------------------------
(* The theorems. *)

\* The inductive invariant holds in every reachable state.
THEOREM TrackingInvariant == TrackingSpec => []TrackingInv
<1>1. TrackingInit => TrackingInv
      BY TrackingInitHolds
<1>2. TrackingInv /\ [TrackingNext]_trackingVars => TrackingInv'
      BY TrackingStep
<1> QED BY <1>1, <1>2, PTL DEF TrackingSpec

\* last_seen of a tag that has a secret is only ever stamped by a pair that gave
\* it, though pair reads the owner and the secret in two statements and writes
\* in a third, and the tag may be removed between any two of them.
THEOREM OnlyProvenPairsStamp == TrackingSpec => []StampProvesSecret
<1>1. TrackingInv => StampProvesSecret
      BY DEF TrackingInv
<1> QED BY <1>1, TrackingInvariant, PTL

\* A position names a tag its own user has still registered, or none: a submit
\* checks the owner before it inserts, and neither a tag removed between the two
\* nor one removed later stays on a position.
THEOREM PositionsNameOwnTags == TrackingSpec => []FixTagIsOwners
<1>1. TrackingInv => FixTagIsOwners
      BY DEF TrackingInv
<1> QED BY <1>1, TrackingInvariant, PTL

\* A position dated ahead hides newer ones from latest_for_user for at most the
\* skew the server accepts.
THEOREM LatestIsNotStuck == TrackingSpec => []LatestCatchesUp
<1>1. TrackingInv => LatestCatchesUp
  <2> SUFFICES ASSUME TrackingInv, NEW p \in Persons, NEW f \in Latest(p), NEW g \in fixes,
                      g.user = p, g.recorded >= g.created
               PROVE  g.created <= f.created + Skew
      BY DEF LatestCatchesUp
  <2>1. f \in fixes /\ g.recorded <= f.recorded
        BY DEF Latest
  <2>2. f.recorded <= f.created + Skew
        BY <2>1 DEF TrackingInv, FixesBounded
  <2>3. /\ f.recorded \in Nat /\ g.recorded \in Nat
        /\ f.created \in Nat /\ g.created \in Nat
        BY <2>1, TrackingAssumption DEF TrackingInv, TrackingTypeOK, FixType
  <2> QED BY <2>1, <2>2, <2>3, TrackingAssumption
<1> QED BY <1>1, TrackingInvariant, PTL

=============================================================================
