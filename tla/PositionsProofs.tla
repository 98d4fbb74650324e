--------------------------- MODULE PositionsProofs ---------------------------
(***************************************************************************)
(* Theorems about the positions of a phone, for any number of fixes, calls *)
(* of applyTracking, troubles, and any size of a batch.                    *)
(***************************************************************************)
EXTENDS Positions, TLAPS

PositionsSpec == PositionsInit /\ [][PositionsNext]_positionVars

-----------------------------------------------------------------------------
(* No fix is lost *)

FlushRecord == flush = [at |-> flush.at, batch |-> flush.batch, call |-> flush.call]

(* A batch about to be deleted as recorded is on the server, or was too old for it. *)
RecordedBeforeDeleted == flush.at = "deleting" => flush.batch \subseteq positions \cup old

KeptInv == captured \in Nat /\ FlushRecord /\ RecordedBeforeDeleted /\ FixesAreKept

LEMMA KeptInitInv == PositionsInit => KeptInv
BY DEF PositionsInit, KeptInv, FlushRecord, RecordedBeforeDeleted, FixesAreKept, NoFlush

LEMMA KeptStepInv == KeptInv /\ [PositionsNext]_positionVars => KeptInv'
<1> SUFFICES ASSUME KeptInv, [PositionsNext]_positionVars PROVE KeptInv'
  OBVIOUS
<1> USE DEF KeptInv, FlushRecord, RecordedBeforeDeleted, FixesAreKept
<1>1. CASE \/ Effect \/ toggleOnTheWeb \/ ProfileRefresh \/ FinishToggle \/ PhoneChanges
           \/ \E enabled \in BOOLEAN : toggleGps(enabled)
           \/ \E c \in Call : AskStarted(c) \/ stopLocationUpdates(c) \/ StopRefused(c) \/ Start(c) \/ StartFails(c)
           \/ UNCHANGED positionVars
  <2>1. UNCHANGED <<buffer, captured, positions, old, dropped, flush>>
    BY <1>1 DEF Effect, toggleOnTheWeb, ProfileRefresh, FinishToggle, PhoneChanges, toggleGps, AskStarted,
                stopLocationUpdates, StopRefused, Start, StartFails, positionVars
  <2> QED BY <2>1
<1>2. CASE Restart
  BY <1>2 DEF Restart, NoFlush
<1>3. CASE bufferFixes
  BY <1>3 DEF bufferFixes
<1>4. CASE RetentionSweep \/ onClientFix
  BY <1>4 DEF RetentionSweep, onClientFix
<1>5. ASSUME NEW f \in 1..MaxFixes, GrowsOld(f) PROVE KeptInv'
  BY <1>5 DEF GrowsOld
<1>6. CASE recordBatch
  BY <1>6 DEF recordBatch, Recorded, FlushGoes
<1>7. CASE StartFlush \/ nextBatch \/ TrackingStopped \/ Refused
  BY <1>7 DEF StartFlush, nextBatch, TrackingStopped, Refused, FlushGoes, NoFlush
<1>8. CASE Revoked
  BY <1>8 DEF Revoked
<1>9. CASE NoAnswer
  BY <1>9 DEF NoAnswer, Recorded, NoFlush
<1>10. CASE deleteFixes
  BY <1>10 DEF deleteFixes, NoFlush
<1> QED
  BY <1>1, <1>2, <1>3, <1>4, <1>5, <1>6, <1>7, <1>8, <1>9, <1>10 DEF PositionsNext, flushFixes

(* No lost answer, restart, or fix captured during a flush loses a fix: it is in the buffer or on the
   server until it is too old, or its batch was refused. *)
THEOREM NoFixIsLost == PositionsSpec => []FixesAreKept
<1>1. KeptInv => FixesAreKept
  BY DEF KeptInv
<1> QED BY <1>1, KeptInitInv, KeptStepInv, PTL DEF PositionsSpec

-----------------------------------------------------------------------------
(* The tracker *)

Mode == {"off", "foreground", "background"}
RunningCall == [at : {"asking", "stopping", "starting"}, mode : Mode]

TrackerType ==
  /\ gps \in [serverConsent : BOOLEAN, consentRevoked : BOOLEAN,
              granted : {"none", "foreground", "background"}, active : BOOLEAN]
  /\ optedIn \in BOOLEAN /\ toggling \subseteq BOOLEAN /\ due \in BOOLEAN
  /\ tracker \in [current : Mode, held : BOOLEAN, watches : Int, task : BOOLEAN]
  /\ apply \in [Call -> {NoCall} \cup RunningCall]

(* What the module remembers is what runs. *)
TrackerIsRemembered ==
  /\ tracker.watches = (IF tracker.held THEN 1 ELSE 0)
  /\ tracker.task = (tracker.current = "background")
  /\ Quiet => tracker.held = (tracker.current = "foreground")

(* One call at a time, which holds no subscription; it starts from off. *)
OneCall ==
  /\ \A c, d \in Call : apply[c] # NoCall /\ apply[d] # NoCall => c = d
  /\ \A c \in Call : apply[c] # NoCall => ~tracker.held
  /\ \A c \in Call : apply[c].at = "starting" => tracker.current = "off" /\ apply[c].mode # "off"

(* Unless the effect is still to run, what is under way, or done, is what it decides. *)
FollowsDecision ==
  ~due => /\ \A c \in Call : apply[c] # NoCall => apply[c].mode \in {decideTracking, "off"}
          /\ Quiet => tracker.current \in {decideTracking, "off"}

TrackerInv == TrackerType /\ (past = {} => TrackerIsRemembered /\ OneCall /\ FollowsDecision)

LEMMA TrackerInitInv == PositionsInit => TrackerInv
<1> SUFFICES ASSUME PositionsInit PROVE TrackerInv
  OBVIOUS
<1>1. TrackerType
  <2>1. tracker \in [current : Mode, held : BOOLEAN, watches : Int, task : BOOLEAN]
    BY DEF PositionsInit, Mode
  <2>2. apply \in [Call -> {NoCall} \cup RunningCall]
    BY DEF PositionsInit
  <2>3. gps \in [serverConsent : BOOLEAN, consentRevoked : BOOLEAN,
               granted : {"none", "foreground", "background"}, active : BOOLEAN]
    BY DEF PositionsInit
  <2> QED BY <2>1, <2>2, <2>3 DEF PositionsInit, TrackerType
<1>2. /\ decideTracking = "off" /\ tracker.current = "off" /\ tracker.held = FALSE
      /\ tracker.watches = 0 /\ tracker.task = FALSE
  BY DEF PositionsInit, decideTracking
<1>3. \A c \in Call : apply[c] = NoCall /\ apply[c].at = "none"
  BY DEF PositionsInit, NoCall
<1>4. TrackerIsRemembered
  BY <1>2 DEF TrackerIsRemembered
<1>5. OneCall
  BY <1>3 DEF OneCall
<1>6. FollowsDecision
  BY <1>2, <1>3 DEF FollowsDecision
<1> QED BY <1>1, <1>4, <1>5, <1>6 DEF TrackerInv

LEMMA DecisionIsAMode == TrackerType => decideTracking \in Mode
BY DEF TrackerType, decideTracking, Mode

LEMMA ApplyTyped ==
  ASSUME TrackerType, NEW c \in 0..MaxCalls, NEW mode \in Mode, applyTracking(mode, c)
  PROVE  /\ tracker' \in [current : Mode, held : BOOLEAN, watches : Int, task : BOOLEAN]
         /\ apply' \in [Call -> {NoCall} \cup RunningCall]
<1>1. CASE UNCHANGED <<tracker, apply>>
  BY <1>1 DEF TrackerType
<1>2. CASE /\ apply' = [apply EXCEPT ![c] = [at |-> "asking", mode |-> mode]] /\ c \in Call
           /\ tracker' = [tracker EXCEPT !.held = FALSE, !.watches = IF tracker.held THEN @ - 1 ELSE @]
  <2>1. [at |-> "asking", mode |-> mode] \in RunningCall
    BY DEF RunningCall
  <2>2. PICK n \in Int : tracker' = [tracker EXCEPT !.held = FALSE, !.watches = n]
    <3>1. tracker.watches \in Int /\ tracker.watches - 1 \in Int
      BY DEF TrackerType
    <3>2. CASE tracker.held
      <4>1. tracker' = [tracker EXCEPT !.held = FALSE, !.watches = tracker.watches - 1]
        BY <1>2, <3>2
      <4> QED BY <3>1, <4>1
    <3>3. CASE ~tracker.held
      <4>1. tracker' = [tracker EXCEPT !.held = FALSE, !.watches = tracker.watches]
        BY <1>2, <3>3
      <4> QED BY <3>1, <4>1
    <3> QED BY <3>2, <3>3
  <2>3. tracker' \in [current : Mode, held : BOOLEAN, watches : Int, task : BOOLEAN]
    BY <2>2 DEF TrackerType
  <2> QED BY <1>2, <2>1, <2>3 DEF TrackerType
<1> QED BY <1>1, <1>2 DEF applyTracking, FreeCall

(* A call of applyTracking alone, for the mode decided or for off while the effect is still due. *)
LEMMA ApplyKeeps ==
  ASSUME TrackerInv, NEW c \in 0..MaxCalls, NEW mode \in Mode, applyTracking(mode, c),
         TrackerType', due' \/ (mode = decideTracking /\ UNCHANGED gps), past' = {}
  PROVE  TrackerIsRemembered' /\ OneCall' /\ FollowsDecision'
<1>1. past = {} /\ Quiet /\ TrackerIsRemembered /\ OneCall
  BY DEF applyTracking, TrackerInv
<1>2. decideTracking' = decideTracking \/ due'
  BY DEF decideTracking
<1>3. CASE UNCHANGED <<tracker, apply>> /\ mode = tracker.current
  BY <1>1, <1>2, <1>3 DEF TrackerIsRemembered, OneCall, FollowsDecision, Quiet
<1>4. CASE c \in FreeCall /\ apply' = [apply EXCEPT ![c] = [at |-> "asking", mode |-> mode]]
           /\ tracker' = [tracker EXCEPT !.held = FALSE, !.watches = IF tracker.held THEN @ - 1 ELSE @]
  <2>1. /\ c \in Call /\ apply'[c] = [at |-> "asking", mode |-> mode] /\ apply'[c] # NoCall
        /\ \A d \in Call \ {c} : apply'[d] = NoCall
    BY <1>1, <1>4 DEF FreeCall, Quiet, TrackerInv, TrackerType, NoCall
  <2>2. ~tracker'.held /\ tracker'.watches = 0 /\ tracker'.task = (tracker'.current = "background")
    BY <1>1, <1>4 DEF TrackerInv, TrackerType, TrackerIsRemembered
  <2>3. ~Quiet'
    BY <2>1 DEF Quiet
  <2> QED BY <1>2, <2>1, <2>2, <2>3 DEF TrackerIsRemembered, OneCall, FollowsDecision, NoCall
<1> QED BY <1>3, <1>4 DEF applyTracking

(* A call takes a step: it ends, or goes on to the next await. *)
LEMMA CallSteps ==
  ASSUME TrackerType, NEW c \in Call, NEW at \in {"stopping", "starting"}, apply[c] # NoCall
  PROVE  /\ Ends(c) => /\ apply' \in [Call -> {NoCall} \cup RunningCall] /\ apply'[c] = NoCall
                       /\ \A d \in Call \ {c} : apply'[d] = apply[d]
         /\ Goes(c, at) => /\ apply' \in [Call -> {NoCall} \cup RunningCall]
                           /\ apply'[c] = [at |-> at, mode |-> apply[c].mode] /\ apply'[c] # NoCall
                           /\ \A d \in Call \ {c} : apply'[d] = apply[d]
BY DEF TrackerType, RunningCall, Ends, Goes, NoCall

(* The steps of a call keep the invariant: gps, due and past are as they were, except that a refused
   stop is remembered in past. *)
LEMMA CallKeeps ==
  ASSUME TrackerInv, NEW c \in Call,
         AskStarted(c) \/ stopLocationUpdates(c) \/ StopRefused(c) \/ Start(c) \/ StartFails(c)
  PROVE  TrackerInv'
<1>1. apply[c] \in RunningCall /\ apply[c] # NoCall
  <2>1. apply[c].at \in {"asking", "stopping", "starting"} /\ NoCall.at = "none"
    BY DEF AskStarted, stopLocationUpdates, StopRefused, Start, StartFails, NoCall
  <2> QED BY <2>1 DEF TrackerInv, TrackerType
<1>2. /\ UNCHANGED <<gps, due, optedIn, toggling>> /\ decideTracking' = decideTracking
      /\ past' = past \/ past' # {}
  BY DEF AskStarted, stopLocationUpdates, StopRefused, Start, StartFails, decideTracking, consentVars
<1>3. ASSUME NEW task \in BOOLEAN, Stopped(c, task) PROVE
        /\ TrackerType'
        /\ past' = {} /\ past = {} /\ ~task => TrackerIsRemembered' /\ OneCall' /\ FollowsDecision'
  <2>1. /\ tracker' \in [current : Mode, held : BOOLEAN, watches : Int, task : BOOLEAN]
        /\ tracker'.current = "off" /\ tracker'.task = task
        /\ tracker'.held = tracker.held /\ tracker'.watches = tracker.watches
    BY <1>3 DEF Stopped, TrackerInv, TrackerType, Mode
  <2>2. CASE apply[c].mode = "off" /\ Ends(c)
    <3>1. /\ apply' \in [Call -> {NoCall} \cup RunningCall] /\ apply'[c] = NoCall
          /\ \A d \in Call \ {c} : apply'[d] = apply[d]
      BY <1>1, <2>2, CallSteps DEF TrackerInv
    <3>2. TrackerType'
      BY <1>2, <2>1, <3>1 DEF TrackerInv, TrackerType
    <3>3. past = {} => ~tracker.held /\ tracker.watches = 0 /\ OneCall /\ FollowsDecision
      BY <1>1 DEF TrackerInv, TrackerIsRemembered, OneCall
    <3> QED BY <1>1, <1>2, <2>1, <3>1, <3>2, <3>3
            DEF TrackerIsRemembered, OneCall, FollowsDecision, NoCall
  <2>3. CASE apply[c].mode # "off" /\ Goes(c, "starting")
    <3>1. /\ apply' \in [Call -> {NoCall} \cup RunningCall] /\ apply'[c] # NoCall
          /\ apply'[c] = [at |-> "starting", mode |-> apply[c].mode]
          /\ \A d \in Call \ {c} : apply'[d] = apply[d]
      BY <1>1, <2>3, CallSteps DEF TrackerInv
    <3>2. TrackerType' /\ ~Quiet'
      BY <1>2, <2>1, <3>1 DEF TrackerInv, TrackerType, Quiet
    <3>3. past = {} => ~tracker.held /\ tracker.watches = 0 /\ OneCall /\ FollowsDecision
      BY <1>1 DEF TrackerInv, TrackerIsRemembered, OneCall
    <3> QED BY <1>1, <1>2, <2>1, <2>3, <3>1, <3>2, <3>3
            DEF TrackerIsRemembered, OneCall, FollowsDecision, NoCall
  <2> QED BY <1>3, <2>2, <2>3 DEF Stopped
<1>4. CASE stopLocationUpdates(c) \/ StopRefused(c)
  <2>1. CASE stopLocationUpdates(c)
    BY <1>3, <2>1 DEF stopLocationUpdates, TrackerInv
  <2>2. CASE StopRefused(c)
    BY <1>3, <2>2 DEF StopRefused, TrackerInv, TrackerType
  <2> QED BY <1>4, <2>1, <2>2
<1>5. CASE AskStarted(c)
  <2>1. CASE ~tracker.task
    BY <1>3, <1>5, <2>1 DEF AskStarted, TrackerInv
  <2>2. CASE tracker.task
    <3>1. /\ apply' \in [Call -> {NoCall} \cup RunningCall] /\ apply'[c] # NoCall
          /\ apply'[c] = [at |-> "stopping", mode |-> apply[c].mode]
          /\ \A d \in Call \ {c} : apply'[d] = apply[d]
      BY <1>1, <1>5, <2>2, CallSteps DEF TrackerInv, AskStarted
    <3>2. tracker' = tracker /\ past' = past /\ ~Quiet' /\ ~Quiet
      BY <1>1, <1>5, <2>2, <3>1 DEF AskStarted, Quiet
    <3> QED BY <1>1, <1>2, <3>1, <3>2
            DEF TrackerInv, TrackerType, TrackerIsRemembered, OneCall, FollowsDecision
  <2> QED BY <2>1, <2>2
<1>6. CASE Start(c) \/ StartFails(c)
  <2>1. /\ apply' \in [Call -> {NoCall} \cup RunningCall] /\ apply'[c] = NoCall
        /\ \A d \in Call \ {c} : apply'[d] = apply[d]
    BY <1>1, <1>6, CallSteps DEF TrackerInv, Start, StartFails
  <2>2. \/ tracker' = tracker
        \/ apply[c].mode = "background" /\ tracker' = [tracker EXCEPT !.current = "background", !.task = TRUE]
        \/ /\ apply[c].mode # "background"
           /\ tracker' = [tracker EXCEPT !.current = "foreground", !.held = TRUE, !.watches = @ + 1]
    BY <1>6 DEF Start, StartFails
  <2> tracker' \in [current : Mode, held : BOOLEAN, watches : Int, task : BOOLEAN]
    <3>1. CASE tracker' = [tracker EXCEPT !.current = "background", !.task = TRUE]
      BY <3>1 DEF TrackerInv, TrackerType, Mode
    <3>2. CASE tracker' = [tracker EXCEPT !.current = "foreground", !.held = TRUE, !.watches = @ + 1]
      <4>1. tracker.watches + 1 \in Int
        BY DEF TrackerInv, TrackerType
      <4> QED BY <3>2, <4>1 DEF TrackerInv, TrackerType, Mode
    <3> QED BY <2>2, <3>1, <3>2 DEF TrackerInv, TrackerType
  <2>3. past' = past /\ TrackerType'
    BY <1>2, <1>6, <2>1 DEF TrackerInv, TrackerType, Start, StartFails
  <2>4. ASSUME past = {} PROVE TrackerIsRemembered' /\ OneCall' /\ FollowsDecision'
    <3>1. /\ TrackerIsRemembered /\ OneCall /\ FollowsDecision
          /\ tracker.current = "off" /\ tracker.held = FALSE /\ tracker.watches = 0 /\ tracker.task = FALSE
          /\ apply[c].mode \in {"foreground", "background"}
      <4>1. TrackerIsRemembered /\ OneCall /\ FollowsDecision /\ tracker.current = "off" /\ ~tracker.held
        BY <1>1, <1>6, <2>4 DEF TrackerInv, OneCall, Start, StartFails
      <4>2. tracker.held = FALSE /\ tracker.watches = 0 /\ tracker.task = FALSE
        BY <4>1 DEF TrackerInv, TrackerType, TrackerIsRemembered
      <4>3. apply[c].mode \in {"foreground", "background"}
        BY <1>1, <1>6, <4>1 DEF OneCall, Start, StartFails, RunningCall, Mode
      <4> QED BY <4>1, <4>2, <4>3
    <3>2. \A d \in Call : apply'[d] = NoCall
      BY <1>1, <2>1, <3>1 DEF OneCall
    <3>3. /\ tracker'.current \in {apply[c].mode, "off"}
          /\ tracker'.held = (tracker'.current = "foreground")
          /\ tracker'.watches = (IF tracker'.held THEN 1 ELSE 0)
          /\ tracker'.task = (tracker'.current = "background")
      <4>1. CASE tracker' = tracker
        BY <3>1, <4>1
      <4>2. CASE apply[c].mode = "background" /\ tracker' = [tracker EXCEPT !.current = "background", !.task = TRUE]
        BY <3>1, <4>2 DEF TrackerInv, TrackerType
      <4>3. CASE /\ apply[c].mode = "foreground"
                 /\ tracker' = [tracker EXCEPT !.current = "foreground", !.held = TRUE, !.watches = @ + 1]
        <5>1. /\ tracker'.current = "foreground" /\ tracker'.held = TRUE
              /\ tracker'.watches = tracker.watches + 1 /\ tracker'.task = tracker.task
          BY <4>3 DEF TrackerInv, TrackerType
        <5>2. tracker'.watches = 1 /\ tracker'.task = FALSE
          BY <3>1, <5>1
        <5>3. tracker'.held = (tracker'.current = "foreground")
          BY <5>1
        <5> QED BY <4>3, <5>1, <5>2, <5>3
      <4> QED BY <2>2, <3>1, <4>1, <4>2, <4>3
    <3> QED BY <1>1, <1>2, <3>1, <3>2, <3>3 DEF TrackerIsRemembered, OneCall, FollowsDecision, NoCall
  <2> QED BY <2>3, <2>4 DEF TrackerInv
<1> QED BY <1>4, <1>5, <1>6

LEMMA TrackerStepInv == TrackerInv /\ [PositionsNext]_positionVars => TrackerInv'
<1> SUFFICES ASSUME TrackerInv, [PositionsNext]_positionVars PROVE TrackerInv'
  OBVIOUS
<1>1. CASE \/ toggleOnTheWeb \/ bufferFixes \/ RetentionSweep \/ onClientFix \/ recordBatch \/ StartFlush \/ nextBatch
           \/ TrackingStopped \/ Refused \/ NoAnswer \/ deleteFixes \/ UNCHANGED positionVars
           \/ (\E enabled \in BOOLEAN : toggleGps(enabled)) \/ \E f \in 1..MaxFixes : GrowsOld(f)
  <2>1. UNCHANGED <<gps, due, tracker, apply, past>> /\ optedIn' \in BOOLEAN /\ toggling' \subseteq BOOLEAN
    BY <1>1 DEF toggleOnTheWeb, bufferFixes, RetentionSweep, onClientFix, recordBatch, StartFlush, nextBatch,
                TrackingStopped, Refused, NoAnswer, deleteFixes, positionVars, consentVars, toggleGps, GrowsOld,
                TrackerInv, TrackerType
  <2> QED BY <2>1 DEF TrackerInv, TrackerType, TrackerIsRemembered, OneCall, FollowsDecision, Quiet, decideTracking
<1>2. CASE ProfileRefresh \/ FinishToggle \/ PhoneChanges
  <2>1. /\ UNCHANGED <<tracker, apply, past, optedIn>> /\ due' = TRUE /\ toggling' \subseteq BOOLEAN
        /\ gps' \in [serverConsent : BOOLEAN, consentRevoked : BOOLEAN,
                     granted : {"none", "foreground", "background"}, active : BOOLEAN]
    BY <1>2 DEF ProfileRefresh, FinishToggle, PhoneChanges, consentVars, TrackerInv, TrackerType
  <2> QED BY <2>1 DEF TrackerInv, TrackerType, TrackerIsRemembered, OneCall, FollowsDecision, Quiet
<1>3. CASE Restart
  <2>1. past' # {}
    BY <1>3 DEF Restart
  <2>2. TrackerType'
    <3>1. tracker' \in [current : Mode, held : BOOLEAN, watches : Int, task : BOOLEAN]
      BY <1>3 DEF Restart, TrackerInv, TrackerType, Mode
    <3>2. apply' \in [Call -> {NoCall} \cup RunningCall]
      BY <1>3 DEF Restart
    <3>3. gps' \in [serverConsent : BOOLEAN, consentRevoked : BOOLEAN,
                  granted : {"none", "foreground", "background"}, active : BOOLEAN]
      BY <1>3 DEF Restart, TrackerInv, TrackerType
    <3> QED BY <1>3, <3>1, <3>2, <3>3 DEF Restart, TrackerInv, TrackerType
  <2> QED BY <2>1, <2>2 DEF TrackerInv
<1>4. CASE Effect
  <2>1. PICK c \in 0..MaxCalls : applyTracking(decideTracking, c)
    BY <1>4 DEF Effect
  <2>2. decideTracking \in Mode
    BY DecisionIsAMode DEF TrackerInv
  <2>3. TrackerType'
    BY <1>4, <2>1, <2>2, ApplyTyped DEF Effect, consentVars, TrackerInv, TrackerType
  <2> QED BY <1>4, <2>1, <2>2, <2>3, ApplyKeeps DEF Effect, TrackerInv
<1>5. CASE Revoked
  <2>1. PICK c \in 0..MaxCalls : applyTracking("off", c)
    BY <1>5 DEF Revoked
  <2>2. TrackerType' /\ due' = TRUE
    <3>1. gps' \in [serverConsent : BOOLEAN, consentRevoked : BOOLEAN,
                  granted : {"none", "foreground", "background"}, active : BOOLEAN]
      BY <1>5 DEF Revoked, TrackerInv, TrackerType
    <3>2. "off" \in Mode
      BY DEF Mode
    <3> QED BY <1>5, <2>1, <3>1, <3>2, ApplyTyped DEF Revoked, consentVars, TrackerInv, TrackerType
  <2> QED BY <2>1, <2>2, ApplyKeeps DEF TrackerInv, Mode
<1>6. ASSUME NEW c \in Call,
             AskStarted(c) \/ stopLocationUpdates(c) \/ StopRefused(c) \/ Start(c) \/ StartFails(c)
      PROVE  TrackerInv'
  BY <1>6, CallKeeps
<1> QED BY <1>1, <1>2, <1>3, <1>4, <1>5, <1>6 DEF PositionsNext, flushFixes

(* While no calls have overlapped, the app has not restarted and no stop was refused: once its calls
   are over, the tracker runs what consent, permission and work allow and nothing else. *)
THEOREM TrackerObeys == PositionsSpec => []TrackingFollowsDecision
<1>1. TrackerInv => TrackingFollowsDecision
  BY DEF TrackerInv, TrackerIsRemembered, FollowsDecision, TrackingFollowsDecision
<1> QED BY <1>1, TrackerInitInv, TrackerStepInv, PTL DEF PositionsSpec
=============================================================================
