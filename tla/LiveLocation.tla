----------------------------- MODULE LiveLocation -----------------------------
(***************************************************************************)
(* Live location of the phone app: the two effects of                      *)
(* client/src/hooks/useLiveLocation.ts, the background task of             *)
(* client/src/tasks/locationTask.ts and the uploads of both.  A change of  *)
(* the user or of the switches is one commit of React: it cleans up after  *)
(* the effect that starts sharing and runs either that effect or the one   *)
(* that stops it.  Each is an asynchronous function; an earlier one may be *)
(* at an await still, and awaits end in any order.                         *)
(***************************************************************************)
EXTENDS Naturals

CONSTANTS
    LastRun,        \* bound: commits, numbered, the first at the mount
    MaxFaults       \* bound: native calls that throw

ASSUME SharingAssumption == LastRun \in Nat \ {0} /\ MaxFaults \in Nat

VARIABLES
    present,        \* somebody is signed in (state.user)
    sharing,        \* both switches are on (sharing, preferences.location)
    bearing,        \* there is an access token in memory
    latest,         \* the latest commit
    effect,         \* the effect each commit has run
    watching,       \* runs whose watchPositionAsync subscription is live
    updates,        \* the run that started the background updates, 0 when they are off
    faults,
    undone,         \* history: the run whose updates an earlier stop has ended
    sent            \* history: the last upload

sharingVars == <<present, sharing, bearing, latest, effect, watching, updates, faults, undone,
                 sent>>

Runs == 1..LastRun
Wanted == present /\ sharing

\* at: the await; cancelled: the closure's flag; denied: a permission or a call
\* failed; late: history, it began to watch or to update after it was cancelled.
EffectType == [kind : {"none", "start", "stop"},
               at : {"foreground", "background", "asked", "starting", "watch", "stopping", "done"},
               cancelled : BOOLEAN, denied : BOOLEAN, late : BOOLEAN]
SentType == [by : 0..LastRun, wanted : BOOLEAN, stopping : BOOLEAN]

SharingTypeOK ==
    /\ present \in BOOLEAN /\ sharing \in BOOLEAN /\ bearing \in BOOLEAN
    /\ latest \in Runs
    /\ effect \in [Runs -> EffectType]
    /\ watching \subseteq Runs
    /\ updates \in 0..LastRun
    /\ faults \in 0..MaxFaults
    /\ undone \in 0..LastRun
    /\ sent \in SentType

Begun(kind, at) ==
    [kind |-> kind, at |-> at, cancelled |-> FALSE, denied |-> FALSE, late |-> FALSE]
Started == Begun("start", "foreground")
Stopping == Begun("stop", "asked")

\* The app is mounted with nobody signed in and the switches on; the process before
\* it may have left the background updates on.
SharingInit ==
    /\ present = FALSE /\ sharing = TRUE /\ bearing = FALSE
    /\ latest = 1
    /\ effect = [r \in Runs |-> IF r = 1 THEN Stopping ELSE Begun("none", "done")]
    /\ watching = {} /\ updates \in {0, 1} /\ faults = 0 /\ undone = 0
    /\ sent = [by |-> 0, wanted |-> TRUE, stopping |-> FALSE]

-----------------------------------------------------------------------------
(* Commits. *)

\* The function the effect returns: it can remove only the watch it knows of.
KeepsWatch == watching
Cleaned == [effect[latest] EXCEPT !.cancelled = TRUE]
Remaining == watching \ {latest}

Commit(user, switches) ==
    /\ latest < LastRun /\ latest' = latest + 1
    /\ present' = user /\ sharing' = switches
    /\ effect' = [effect EXCEPT ![latest] = Cleaned,
                                ![latest + 1] = IF user /\ switches THEN Started ELSE Stopping]
    /\ watching' = Remaining
    /\ UNCHANGED <<bearing, updates, faults, undone, sent>>

SignsIn == ~present /\ Commit(TRUE, sharing)
\* What the phone has stored is read once, after the mount.
Hydrates(switches) == latest = 1 /\ Commit(TRUE, switches)
\* The reducer's logout resets the switches.
SignsOut == present /\ Commit(FALSE, TRUE)
Switches == present /\ Commit(TRUE, ~sharing)

TokenChanges ==
    /\ bearing' = ~bearing
    /\ UNCHANGED <<present, sharing, latest, effect, watching, updates, faults, undone, sent>>

-----------------------------------------------------------------------------
(* The effect that starts sharing. *)

EffectAt(r, kind, at) == effect[r].kind = kind /\ effect[r].at = at
Go(r, at) == effect' = [effect EXCEPT ![r].at = at]
Refused(r, at) == effect' = [effect EXCEPT ![r].at = at, ![r].denied = TRUE]
Fault == faults < MaxFaults /\ faults' = faults + 1
CommitFrame == UNCHANGED <<present, sharing, bearing, latest, sent>>

\* ensureForegroundPermission has answered; what it cannot ask it takes for
\* denied.  A cancelled run ends here.
ForegroundAnswers(r, granted) ==
    /\ EffectAt(r, "start", "foreground")
    /\ IF effect[r].cancelled THEN Go(r, "done")
       ELSE IF granted THEN Go(r, "background") ELSE Refused(r, "done")
    /\ UNCHANGED <<watching, updates, faults, undone>> /\ CommitFrame

\* A cancelled run does not come to watch.
AfterBackground(r) == IF effect[r].cancelled THEN "done" ELSE "watch"

BackgroundAnswers(r, granted) ==
    /\ EffectAt(r, "start", "background")
    /\ IF ~granted THEN Refused(r, AfterBackground(r))
       ELSE IF effect[r].cancelled THEN Go(r, "done") ELSE Go(r, "asked")
    /\ UNCHANGED <<watching, updates, faults, undone>> /\ CommitFrame

\* hasStartedLocationUpdatesAsync; a failure counts as no.
SeesUpdates(r) ==
    /\ EffectAt(r, "start", "asked")
    /\ \/ Go(r, IF updates # 0 THEN AfterBackground(r) ELSE "starting") /\ UNCHANGED faults
       \/ Fault /\ Go(r, "starting")
    /\ UNCHANGED <<watching, updates, undone>> /\ CommitFrame

\* startLocationUpdatesAsync: the flag is not looked at again before it.
StartsUpdates(r) ==
    /\ EffectAt(r, "start", "starting")
    /\ \/ /\ updates' = r
          /\ effect' = [effect EXCEPT ![r].at = AfterBackground(r), ![r].late = effect[r].cancelled]
          /\ UNCHANGED faults
       \/ Fault /\ Refused(r, AfterBackground(r)) /\ UNCHANGED updates
    /\ UNCHANGED <<watching, undone>> /\ CommitFrame

\* watchPositionAsync: the subscription comes after the await, and nobody
\* removes the one of a run that was cancelled during it.
Watches(r) ==
    /\ EffectAt(r, "start", "watch")
    /\ \/ /\ watching' = watching \cup {r}
          /\ effect' = [effect EXCEPT ![r].at = "done", ![r].late = @ \/ effect[r].cancelled]
          /\ UNCHANGED faults
       \/ Fault /\ Refused(r, "done") /\ UNCHANGED watching
    /\ UNCHANGED <<updates, undone>> /\ CommitFrame

-----------------------------------------------------------------------------
(* The effect that stops it. *)

AsksToStop(r) ==
    /\ EffectAt(r, "stop", "asked")
    /\ \/ Go(r, IF updates # 0 THEN "stopping" ELSE "done") /\ UNCHANGED faults
       \/ Fault /\ Go(r, "done")
    /\ UNCHANGED <<watching, updates, undone>> /\ CommitFrame

\* It stops what runs now; a later run that has seen the updates on relied on
\* what ends here.
Relied(r) ==
    effect[latest].kind = "start" /\ r < latest
      /\ effect[latest].at \notin {"foreground", "background", "asked", "starting"}
StopsUpdates(r) ==
    /\ EffectAt(r, "stop", "stopping")
    /\ Go(r, "done")
    /\ \/ /\ updates' = 0 /\ UNCHANGED faults
          /\ undone' = IF Relied(r) THEN latest ELSE undone
       \/ Fault /\ UNCHANGED <<updates, undone>>
    /\ UNCHANGED watching /\ CommitFrame

-----------------------------------------------------------------------------
(* Positions. *)

StopUnderWay == \E r \in Runs : effect[r].kind = "stop" /\ effect[r].at # "done"

\* uploadFix: whoever has a token sends.
UploadFix(r, stopping) ==
    /\ bearing
    /\ sent' = [by |-> r, wanted |-> Wanted, stopping |-> stopping]
    /\ UNCHANGED <<present, sharing, bearing, latest, effect, watching, updates, faults, undone>>

\* The callback of a watch, and the task of the background updates.
WatchUploads(r) == r \in watching /\ UploadFix(r, FALSE)
TaskUploads(r) == r = updates /\ UploadFix(r, StopUnderWay)

SharingNext ==
    \/ SignsIn \/ SignsOut \/ Switches \/ TokenChanges
    \/ \E switches \in BOOLEAN : Hydrates(switches)
    \/ \E r \in Runs :
          \/ \E granted \in BOOLEAN : ForegroundAnswers(r, granted) \/ BackgroundAnswers(r, granted)
          \/ SeesUpdates(r) \/ StartsUpdates(r) \/ Watches(r)
          \/ AsksToStop(r) \/ StopsUpdates(r)
          \/ WatchUploads(r) \/ TaskUploads(r)

SharingSpec == SharingInit /\ [][SharingNext]_sharingVars

-----------------------------------------------------------------------------
(* Properties. *)

\* An upload while sharing is off is of a watch or of updates that its run began
\* after it was cancelled, or comes before the stop under way has stopped the
\* updates, or follows a native call that threw.
UploadsExplained == sent.wanted \/ sent.stopping \/ effect[sent.by].late \/ faults > 0

\* ProfileScreen.tsx, to who is signed in: "Live GPS uploads only while sharing is
\* on", but for the moment the stop takes.
UploadsOnlyWhileSharing == present => sent.wanted \/ sent.stopping

\* When nothing is under way and sharing is on, the updates are on, unless
\* permission or a call failed or the stop of an earlier commit came after the
\* start had seen them on.
AtRestSharing == \A r \in Runs : effect[r].at = "done"
UpdatesExplained ==
    AtRestSharing /\ Wanted /\ updates = 0 => effect[latest].denied \/ undone = latest

SharingExplained == UploadsExplained /\ UpdatesExplained

=============================================================================
