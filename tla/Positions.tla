------------------------------ MODULE Positions ------------------------------
(***************************************************************************)
(* Positions of one technician's phone: the tracker that follows consent,  *)
(* permission and work, the buffer of fixes in SQLite and its flush, and   *)
(* the backend's LocationsService.  The technician is one whose location   *)
(* is not mandatory.                                                       *)
(*                                                                         *)
(* The calls of applyTracking are not serialised: the effect of            *)
(* useGpsController and the flush each start theirs, and their awaits      *)
(* interleave.  The background task belongs to the operating system and    *)
(* outlives the app.                                                       *)
(***************************************************************************)
EXTENDS Integers, FiniteSets

CONSTANTS
  LOCATION_BATCH_MAX,  \* 100 in the code
  MaxFixes,            \* bound: fixes captured, numbered by their instant
  MaxCalls,            \* bound: calls of applyTracking under way
  MaxSwitches,         \* bound: what the technician and his work change
  MaxTroubles          \* bound: restarts of the app, lost answers, refusals, failed starts

ASSUME PositionsAssumption == LOCATION_BATCH_MAX \in Nat \ {0} /\ MaxFixes \in Nat

VARIABLES
  buffer,    \* location_fixes
  captured,  \* the number of fixes so far
  positions, \* technician_locations
  old,       \* fixes older than the retention window
  dropped,   \* history: fixes deleted after the server refused their batch
  optedIn,   \* preferences.gps.enabled on the server
  toggling,  \* the profile's switch: the value saved on the server, not yet in the store
  gps,       \* the phone's side of consent, the permission, and whether a work order is active
  due,       \* whether the effect of useGpsController is to run
  tracker,   \* the module's current and foregroundSub; what is really running
  apply,     \* the calls of applyTracking
  flush,     \* the running flush
  past,      \* history: calls "overlapped", the app "restarted", a stop was "refused"
  spent      \* what is used of the bounds

consentVars == <<optedIn, toggling>>
positionVars == <<buffer, captured, positions, old, dropped, consentVars, gps, due, tracker, apply,
                  flush, past, spent>>

-----------------------------------------------------------------------------
Call == 1..MaxCalls
NoCall == [at |-> "none", mode |-> "off"]
NoFlush == [at |-> "idle", batch |-> {}, call |-> 0]

PositionsInit ==
  /\ buffer = {} /\ captured = 0 /\ positions = {} /\ old = {} /\ dropped = {}
  /\ optedIn = FALSE /\ toggling = {}
  /\ gps = [serverConsent |-> FALSE, consentRevoked |-> FALSE, granted |-> "none", active |-> FALSE]
  /\ due = FALSE
  /\ tracker = [current |-> "off", held |-> FALSE, watches |-> 0, task |-> FALSE]
  /\ apply = [c \in Call |-> NoCall]
  /\ flush = NoFlush
  /\ past = {}
  /\ spent = [switches |-> 0, troubles |-> 0]

Switch == spent.switches < MaxSwitches /\ spent' = [spent EXCEPT !.switches = @ + 1]
Trouble == spent.troubles < MaxTroubles /\ spent' = [spent EXCEPT !.troubles = @ + 1]

decideTracking ==
  IF ~gps.serverConsent \/ gps.consentRevoked \/ gps.granted = "none" \/ ~gps.active THEN "off"
  ELSE gps.granted

-----------------------------------------------------------------------------
(* The tracker *)

Quiet == \A c \in Call : apply[c] = NoCall
FreeCall == {c \in Call : apply[c] = NoCall /\ \A d \in 1..(c - 1) : apply[d] # NoCall}

(* applyTracking up to its first await: nothing (no call, 0) for the mode it is in, else the
   foreground subscription it holds is removed. *)
applyTracking(mode, c) ==
  /\ past' = IF Quiet THEN past ELSE past \cup {"overlapped"}
  /\ \/ mode = tracker.current /\ c = 0 /\ UNCHANGED <<tracker, apply>>
     \/ /\ mode # tracker.current /\ c \in FreeCall
        /\ apply' = [apply EXCEPT ![c] = [at |-> "asking", mode |-> mode]]
        /\ tracker' = [tracker EXCEPT !.held = FALSE, !.watches = IF tracker.held THEN @ - 1 ELSE @]

Ends(c) == apply' = [apply EXCEPT ![c] = NoCall]
Goes(c, at) == apply' = [apply EXCEPT ![c].at = at]

(* stopAll is over: it has set current to off; with a mode other than off a start follows. *)
Stopped(c, task) ==
  /\ tracker' = [tracker EXCEPT !.current = "off", !.task = task]
  /\ IF apply[c].mode = "off" THEN Ends(c) ELSE Goes(c, "starting")

(* hasStartedLocationUpdatesAsync *)
AskStarted(c) ==
  /\ apply[c].at = "asking"
  /\ IF tracker.task THEN Goes(c, "stopping") /\ UNCHANGED tracker ELSE Stopped(c, FALSE)
  /\ UNCHANGED <<buffer, captured, positions, old, dropped, consentVars, gps, due, flush, past, spent>>

stopLocationUpdates(c) ==
  /\ apply[c].at = "stopping"
  /\ Stopped(c, FALSE)
  /\ UNCHANGED <<buffer, captured, positions, old, dropped, consentVars, gps, due, flush, past, spent>>

(* stopAll catches what the operating system throws, and takes the task for stopped. *)
StopRefused(c) ==
  /\ apply[c].at = "stopping" /\ Trouble
  /\ Stopped(c, tracker.task)
  /\ past' = past \cup {"refused"}
  /\ UNCHANGED <<buffer, captured, positions, old, dropped, consentVars, gps, due, flush>>

(* Mutant of Start: the subscription is not remembered. *)
StartUnheld(c) ==
  /\ apply[c].at = "starting"
  /\ tracker' = IF apply[c].mode = "background" THEN [tracker EXCEPT !.current = "background", !.task = TRUE]
                ELSE [tracker EXCEPT !.current = "foreground", !.watches = @ + 1]
  /\ Ends(c)
  /\ UNCHANGED <<buffer, captured, positions, old, dropped, consentVars, gps, due, flush, past, spent>>

(* startLocationUpdatesAsync, watchPositionAsync *)
Start(c) ==
  /\ apply[c].at = "starting"
  /\ tracker' = IF apply[c].mode = "background" THEN [tracker EXCEPT !.current = "background", !.task = TRUE]
                ELSE [tracker EXCEPT !.current = "foreground", !.held = TRUE, !.watches = @ + 1]
  /\ Ends(c)
  /\ UNCHANGED <<buffer, captured, positions, old, dropped, consentVars, gps, due, flush, past, spent>>

(* The operating system refuses: the call rejects. *)
StartFails(c) ==
  /\ apply[c].at = "starting" /\ Trouble
  /\ Ends(c)
  /\ UNCHANGED <<buffer, captured, positions, old, dropped, consentVars, gps, due, tracker, flush, past>>

(* The effect of useGpsController, when consent, permission or the local work orders changed. *)
Effect ==
  /\ due /\ due' = FALSE
  /\ \E c \in 0..MaxCalls : applyTracking(decideTracking, c)
  /\ UNCHANGED <<buffer, captured, positions, old, dropped, consentVars, gps, flush, spent>>

-----------------------------------------------------------------------------
(* What changes around it *)

(* preferences.gps.enabled is switched on the web profile. *)
toggleOnTheWeb ==
  /\ Switch /\ optedIn' = ~optedIn
  /\ UNCHANGED <<buffer, captured, positions, old, dropped, toggling, gps, due, tracker, apply, flush, past>>

(* useProfileRefresh, when the app comes to the foreground: the session's user is merged with the
   server's; consentRevoked stays as it is. *)
ProfileRefresh ==
  /\ gps.serverConsent # optedIn
  /\ gps' = [gps EXCEPT !.serverConsent = optedIn]
  /\ due' = TRUE
  /\ UNCHANGED <<buffer, captured, positions, old, dropped, consentVars, tracker, apply, flush, past, spent>>

(* toggleGps of the phone's profile: saved on the server first, *)
toggleGps(enabled) ==
  /\ Switch /\ toggling = {}
  /\ optedIn' = enabled /\ toggling' = {enabled}
  /\ UNCHANGED <<buffer, captured, positions, old, dropped, gps, due, tracker, apply, flush, past>>

(* and then in the session and the store. *)
FinishToggle ==
  /\ \E enabled \in toggling :
       gps' = [gps EXCEPT !.serverConsent = enabled, !.consentRevoked = FALSE]
  /\ toggling' = {} /\ due' = TRUE
  /\ UNCHANGED <<buffer, captured, positions, old, dropped, optedIn, tracker, apply, flush, past, spent>>

(* refreshPermissions; a pull, an action or the end of the session, which change whether there is
   a work order to track. *)
PhoneChanges ==
  /\ Switch
  /\ \/ \E granted \in {"none", "foreground", "background"} : gps' = [gps EXCEPT !.granted = granted]
     \/ gps' = [gps EXCEPT !.active = ~@]
  /\ due' = TRUE
  /\ UNCHANGED <<buffer, captured, positions, old, dropped, consentVars, tracker, apply, flush, past>>

(* The app is killed and opened again: its module variables, its store and its subscriptions are
   new, the session's preferences are those last saved on the phone, and the task goes on. *)
Restart ==
  /\ Trouble
  /\ gps' = [gps EXCEPT !.consentRevoked = FALSE]
  /\ due' = TRUE /\ toggling' = {}
  /\ tracker' = [current |-> "off", held |-> FALSE, watches |-> 0, task |-> tracker.task]
  /\ apply' = [c \in Call |-> NoCall]
  /\ flush' = NoFlush
  /\ past' = past \cup {"restarted"}
  /\ UNCHANGED <<buffer, captured, positions, old, dropped, optedIn>>

-----------------------------------------------------------------------------
(* The buffer *)

(* bufferFixes, from the subscription or from the task. *)
bufferFixes ==
  /\ tracker.watches > 0 \/ tracker.task
  /\ captured < MaxFixes /\ captured' = captured + 1
  /\ buffer' = buffer \cup {captured + 1}
  /\ UNCHANGED <<positions, old, dropped, consentVars, gps, due, tracker, apply, flush, past, spent>>

(* Seven days later. *)
GrowsOld(f) ==
  /\ f <= captured /\ f \notin old /\ Switch
  /\ old' = old \cup {f}
  /\ UNCHANGED <<buffer, captured, positions, dropped, consentVars, gps, due, tracker, apply, flush, past>>

(* LocationRetentionService.runOnce *)
RetentionSweep ==
  /\ positions \cap old # {}
  /\ positions' = positions \ old
  /\ UNCHANGED <<buffer, captured, old, dropped, consentVars, gps, due, tracker, apply, flush, past, spent>>

(* Any request carries the last fix; onClientFix records it with consent. *)
onClientFix ==
  /\ captured > 0 /\ optedIn /\ captured \notin positions \cup old
  /\ positions' = positions \cup {captured}
  /\ UNCHANGED <<buffer, captured, old, dropped, consentVars, gps, due, tracker, apply, flush, past, spent>>

FlushGoes(at) == flush' = [flush EXCEPT !.at = at]

(* flushFixes after a sync, or in the foreground: one at a time. *)
StartFlush ==
  /\ flush = NoFlush
  /\ FlushGoes("reading")
  /\ UNCHANGED <<buffer, captured, positions, old, dropped, consentVars, gps, due, tracker, apply, past, spent>>

(* The oldest first. *)
nextBatch ==
  /\ flush.at = "reading"
  /\ flush' = IF buffer = {} THEN NoFlush
              ELSE [at |-> "posting", call |-> 0,
                    batch |-> {f \in buffer : Cardinality({g \in buffer : g < f}) < LOCATION_BATCH_MAX}]
  /\ UNCHANGED <<buffer, captured, positions, old, dropped, consentVars, gps, due, tracker, apply, past, spent>>

(* What is too old is rejected by index, what is known already skipped; the phone's clock is not
   ahead of the server's. *)
Recorded == positions \cup (flush.batch \ old)

recordBatch ==
  /\ flush.at = "posting" /\ optedIn
  /\ positions' = Recorded
  /\ FlushGoes("deleting")
  /\ UNCHANGED <<buffer, captured, old, dropped, consentVars, gps, due, tracker, apply, past, spent>>

(* 403 without consent: the store says so, tracking is to stop, and the batch goes once it has. *)
Revoked ==
  /\ flush.at = "posting" /\ ~optedIn
  /\ gps' = [gps EXCEPT !.consentRevoked = TRUE]
  /\ due' = TRUE
  /\ \E c \in 0..MaxCalls :
       applyTracking("off", c) /\ flush' = [flush EXCEPT !.at = "stopping", !.call = c]
  /\ UNCHANGED <<buffer, captured, positions, old, dropped, consentVars, spent>>

TrackingStopped ==
  /\ flush.at = "stopping" /\ (flush.call # 0 => apply[flush.call] = NoCall)
  /\ FlushGoes("dropping")
  /\ UNCHANGED <<buffer, captured, positions, old, dropped, consentVars, gps, due, tracker, apply, past, spent>>

(* Any other 4xx, the throttler's 429 as well: the batch is dropped. *)
Refused ==
  /\ flush.at = "posting" /\ Trouble
  /\ FlushGoes("dropping")
  /\ UNCHANGED <<buffer, captured, positions, old, dropped, consentVars, gps, due, tracker, apply, past>>

(* No answer, or a 5xx: the batch may have been recorded, and waits for the next flush. *)
NoAnswer ==
  /\ flush.at = "posting" /\ Trouble
  /\ positions' \in IF optedIn THEN {positions, Recorded} ELSE {positions}
  /\ flush' = NoFlush
  /\ UNCHANGED <<buffer, captured, old, dropped, consentVars, gps, due, tracker, apply, past>>

(* Mutant of deleteFixes: the whole buffer is cleared. *)
clearFixes ==
  /\ flush.at \in {"deleting", "dropping"}
  /\ buffer' = {}
  /\ dropped' = IF flush.at = "dropping" THEN dropped \cup flush.batch ELSE dropped
  /\ flush' = [NoFlush EXCEPT !.at = "reading"]
  /\ UNCHANGED <<captured, positions, old, consentVars, gps, due, tracker, apply, past, spent>>

deleteFixes ==
  /\ flush.at \in {"deleting", "dropping"}
  /\ buffer' = buffer \ flush.batch
  /\ dropped' = IF flush.at = "dropping" THEN dropped \cup flush.batch ELSE dropped
  /\ flush' = [NoFlush EXCEPT !.at = "reading"]
  /\ UNCHANGED <<captured, positions, old, consentVars, gps, due, tracker, apply, past, spent>>

-----------------------------------------------------------------------------
flushFixes == StartFlush \/ nextBatch \/ Revoked \/ TrackingStopped \/ Refused \/ NoAnswer \/ deleteFixes

PositionsNext ==
  \/ Effect \/ toggleOnTheWeb \/ ProfileRefresh \/ FinishToggle \/ PhoneChanges \/ Restart
  \/ \E enabled \in BOOLEAN : toggleGps(enabled)
  \/ \E c \in Call : AskStarted(c) \/ stopLocationUpdates(c) \/ StopRefused(c) \/ Start(c) \/ StartFails(c)
  \/ bufferFixes \/ RetentionSweep \/ onClientFix \/ recordBatch \/ flushFixes
  \/ \E f \in 1..MaxFixes : GrowsOld(f)

-----------------------------------------------------------------------------
(* Properties *)

(* A fix captured by the phone is in its buffer or on the server until it is too old to be kept,
   unless the server refused the batch it was in: no lost answer, restart, or fix captured during
   a flush loses one. *)
FixesAreKept == \A f \in 1..captured : f \in buffer \cup positions \cup old \cup dropped

(* Once its calls are over the tracker runs what the decision of useGpsController allows and
   nothing else: no subscription is left behind, and no task collects positions without consent,
   permission or an active work order, a 403 included. Claimed while no two calls have overlapped,
   the app has not restarted (the tracker forgets the task, which goes on) and no stop was
   refused: each breaks it. *)
TrackingFollowsDecision ==
  Quiet /\ ~due /\ past = {} =>
    /\ tracker.current \in {decideTracking, "off"}
    /\ tracker.task = (tracker.current = "background")
    /\ tracker.watches = (IF tracker.current = "foreground" THEN 1 ELSE 0)
=============================================================================
