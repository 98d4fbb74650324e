------------------------------ MODULE MCPhone ------------------------------
(***************************************************************************)
(* Two parts of the phone beside its queue, for TLC: the delta pull and    *)
(* the positions.  They share no state: a behaviour runs one of them.  The *)
(* pull runs alone, with changes and interruptions, or with the background *)
(* task, whose steps fall between its own: then with two work orders, one  *)
(* change and no interruption.                                             *)
(***************************************************************************)
EXTENDS DeltaPull, Positions

CONSTANTS
  Background,       \* the pullers of "pulls" only
  Untouched,        \* the work orders of "pull" only
  MaxDisturbances   \* bound: changes and failures while one puller is at work

ASSUME PhoneAssumption == Background \subseteq Puller /\ Untouched \subseteq WorkOrder /\ MaxDisturbances \in Nat

VARIABLE active

phoneVars == <<active, vars, positionVars>>

PhoneInit ==
  /\ active \in {"pull", "pulls", "positions"}
  /\ Init /\ PositionsInit
  /\ active = "positions" => visible = {}
  /\ active = "pulls" => visible \cap Untouched = {}

Foreground ==
  /\ (MaxChanges - budget'.changes) + (MaxFailures - budget'.failures) <= MaxDisturbances
  /\ \A p \in Background : pull'[p].at = "idle"

Together ==
  /\ budget'.changes >= MaxChanges - 1 /\ budget'.failures = MaxFailures
  /\ \A w \in Untouched : version'[w] = version[w]

PhoneNext ==
  \/ active = "pull"      /\ Next /\ Foreground /\ UNCHANGED <<active, positionVars>>
  \/ active = "pulls"     /\ Next /\ Together   /\ UNCHANGED <<active, positionVars>>
  \/ active = "positions" /\ PositionsNext      /\ UNCHANGED <<active, vars>>

(* As FairSpec of DeltaPull; no position has to arrive. *)
PhoneSpec ==
  /\ PhoneInit /\ [][PhoneNext]_phoneVars
  /\ \A p \in Puller \ Background : WF_vars(active = "pull" /\ PullStep(p))
  /\ \A p \in Puller : WF_vars(active = "pulls" /\ PullStep(p))
=============================================================================
