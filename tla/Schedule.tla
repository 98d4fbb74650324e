------------------------------ MODULE Schedule ------------------------------
(***************************************************************************)
(* recurring/domain/schedule.ts: when a recurring work order runs next.    *)
(*                                                                         *)
(* Dates are days counted from Sunday 1 January 2023, months are counted   *)
(* from that January; the time of the day is left out.  A day of the month *)
(* past its end rolls over into the next month, as with the UTC setters of *)
(* the JavaScript Date.                                                    *)
(***************************************************************************)
EXTENDS Integers, FiniteSets, FiniteSetsExt

CONSTANTS
  NoDate,
  Safety   \* bound on the advances of one computation (1000 in the code)

ASSUME ScheduleAssumption == NoDate \notin Nat /\ Safety \in Nat

Frequencies == {"DAILY", "WEEKLY", "MONTHLY", "YEARLY"}

(* ScheduleSpec: days is byDayOfWeek (0 is Sunday) or byDayOfMonth. *)
Pattern(frequency, interval, days) == [frequency |-> frequency, interval |-> interval, days |-> days]

-----------------------------------------------------------------------------
(* The calendar *)
IsLeap(month) == (2023 + month \div 12) % 4 = 0

DaysInMonth(month) ==
  CASE month % 12 = 1 -> IF IsLeap(month) THEN 29 ELSE 28
    [] month % 12 \in {3, 5, 8, 10} -> 30
    [] OTHER -> 31

MonthStart(month) ==
  LET year   == month \div 12
      before == <<0, 31, 59, 90, 120, 151, 181, 212, 243, 273, 304, 334>>
  IN 365 * year + (year + 2) \div 4 + before[(month % 12) + 1]
     + (IF IsLeap(month) /\ month % 12 >= 2 THEN 1 ELSE 0)

MonthOf(date) ==
  CHOOSE m \in (date \div 31) .. (date \div 28) : MonthStart(m) <= date /\ date < MonthStart(m + 1)

DayOfMonth(date) == date - MonthStart(MonthOf(date)) + 1
DayOfWeek(date) == date % 7
Date(month, day) == MonthStart(month) + day - 1

(* setUTCMonth, setUTCFullYear *)
AddMonths(date, n) == Date(MonthOf(date) + n, DayOfMonth(date))

-----------------------------------------------------------------------------
withDay(date, day) ==
  LET month == MonthOf(date)
  IN Date(month, IF day > DaysInMonth(month) THEN DaysInMonth(month) ELSE day)

Later(days, day) == {x \in days : x > day}

(* One step of the pattern. *)
advance(date, p) ==
  CASE p.frequency = "WEEKLY" /\ p.days # {} ->
         LET later == Later(p.days, DayOfWeek(date))
         IN date - DayOfWeek(date) + (IF later # {} THEN Min(later) ELSE 7 * p.interval + Min(p.days))
    [] p.frequency = "MONTHLY" /\ p.days # {} ->
         LET later == Later(p.days, DayOfMonth(date))
         IN IF later # {} THEN withDay(date, Min(later))
            ELSE withDay(AddMonths(date, p.interval), Min(p.days))
    [] p.frequency = "DAILY"                    -> date + p.interval
    [] p.frequency = "WEEKLY" /\ p.days = {}    -> date + 7 * p.interval
    [] p.frequency = "MONTHLY" /\ p.days = {}   -> AddMonths(date, p.interval)
    [] p.frequency = "YEARLY"                   -> AddMonths(date, 12 * p.interval)

(* The first date of the pattern from date on. *)
alignToPattern(date, p) ==
  CASE p.frequency = "WEEKLY" /\ p.days # {} /\ DayOfWeek(date) \notin p.days ->
         LET later == Later(p.days, DayOfWeek(date))
         IN date - DayOfWeek(date) + (IF later # {} THEN Min(later) ELSE 7 + Min(p.days))
    [] p.frequency = "MONTHLY" /\ p.days # {} /\ DayOfMonth(date) \notin p.days ->
         LET later == Later(p.days, DayOfMonth(date))
         IN IF later # {} THEN withDay(date, Min(later)) ELSE withDay(AddMonths(date, 1), Min(p.days))
    [] OTHER -> date

(* Mutant of computeNextRun: today counts as a date to come. *)
computeNextRunToday(p, now, after) ==
  LET from[s \in Nat \X (0..Safety)] ==
        IF s[1] >= now THEN s[1] ELSE IF s[2] = Safety THEN NoDate ELSE from[<<advance(s[1], p), s[2] + 1>>]
  IN from[<<alignToPattern(after, p), 0>>]

(* The first of the dates reached that is after now, NoDate when it bails out: s is the date
   reached and the advances made. *)
computeNextRun(p, now, after) ==
  LET from[s \in Nat \X (0..Safety)] ==
        IF s[1] > now THEN s[1] ELSE IF s[2] = Safety THEN NoDate ELSE from[<<advance(s[1], p), s[2] + 1>>]
  IN from[<<alignToPattern(after, p), 0>>]

computeFirstRun(p, start, now) ==
  IF start > now THEN alignToPattern(start, p) ELSE computeNextRun(p, now, start)

-----------------------------------------------------------------------------
(* Reference.  A day is listed by its weekday, or by its day of the month clamped to the end of
   the month.  A date is an occurrence when it is listed, in a period that is a multiple of the
   interval away from the period of the anchor, the first listed date. *)
ClampedDay(month, day) == IF day > DaysInMonth(month) THEN DaysInMonth(month) ELSE day

Listed(p, anchor, date) ==
  LET days(own) == IF p.days = {} THEN {own} ELSE p.days IN
  CASE p.frequency = "DAILY"  -> TRUE
    [] p.frequency = "WEEKLY" -> DayOfWeek(date) \in days(DayOfWeek(anchor))
    [] OTHER -> DayOfMonth(date) \in {ClampedDay(MonthOf(date), x) : x \in days(DayOfMonth(anchor))}

Period(p, date) ==
  CASE p.frequency = "DAILY"  -> date
    [] p.frequency = "WEEKLY" -> date \div 7
    [] OTHER                  -> MonthOf(date)

PeriodLength(p) == IF p.frequency = "YEARLY" THEN 12 * p.interval ELSE p.interval

FirstListed(p, after) == CHOOSE d \in after..(after + 31) :
  Listed(p, after, d) /\ \A e \in after..(d - 1) : ~Listed(p, after, e)

Occurs(p, after, date) ==
  LET anchor == FirstListed(p, after)
  IN Listed(p, anchor, date) /\ (Period(p, date) - Period(p, anchor)) % PeriodLength(p) = 0

IsNextOccurrence(date, p, after, now) ==
  /\ date > now /\ Occurs(p, after, date)
  /\ \A d \in (now + 1)..(date - 1) : d >= after => ~Occurs(p, after, d)

(* Patterns and anchors whose days exist in every month: from a day that does not, one month more
   is two months on. *)
FitsEveryMonth(p, anchor) ==
  p.frequency \in {"MONTHLY", "YEARLY"} => DayOfMonth(anchor) <= 28 /\ \A x \in p.days : x <= 28
=============================================================================
