-------------------------------- MODULE Cron --------------------------------
(* pantry/jobs/cron.go: cron expressions and CronExpr.Next, the search for the
   next minute an expression matches.  The calendar is a small one with the shape
   of the real one: months of different lengths, weeks that do not divide them,
   and zones whose offset changes.  Zones and time.Date are external. *)
EXTENDS Integers, Sequences, FiniteSets

CONSTANTS MinutesPerHour, HoursPerDay, DaysPerWeek,
          DaysIn,          \* month -> its days
          SearchYears,     \* Next looks that far
          Zones,           \* the times at which a zone's offset changes, and the offsets
          MaxOffset        \* no offset, and no change of one, is larger

ASSUME CronAssumption ==
    /\ {MinutesPerHour, HoursPerDay, DaysPerWeek} \subseteq Nat \ {0}
    /\ MaxOffset \in Nat /\ MinutesPerHour <= MaxOffset
    /\ DaysIn \in Seq(Nat \ {0}) /\ DaysIn # << >>

VARIABLES expr,            \* the parsed expression: five sets of values
          zone,
          since,           \* Next's argument, in minutes UTC
          candidate,       \* Next's candidate, in minutes UTC
          rough,           \* a candidate has been close to a change of the offset
          search           \* "on", "found" or "none"

cronVars == <<expr, zone, since, candidate, rough, search>>

Months == 1 .. Len(DaysIn)
Longest == CHOOSE n \in {DaysIn[m] : m \in Months} : \A m \in Months : DaysIn[m] <= n
SumTo[m \in 0 .. Len(DaysIn)] == IF m = 0 THEN 0 ELSE SumTo[m - 1] + DaysIn[m]
DayLength == MinutesPerHour * HoursPerDay
YearLength == SumTo[Len(DaysIn)] * DayLength

ASSUME ZoneAssumption ==
    \A z \in Zones :
        /\ z.at \in Seq(Int) /\ z.offset \in Seq(Int) /\ Len(z.offset) = Len(z.at) + 1
        /\ \A i, j \in DOMAIN z.offset : /\ -MaxOffset <= z.offset[i] /\ z.offset[i] <= MaxOffset
                                        /\ z.offset[i] - z.offset[j] <= MaxOffset

(* The calendar fields of a local time. *)
Day(l) == l \div DayLength
Weekday(l) == Day(l) % DaysPerWeek
DayOfYear(l) == Day(l) % SumTo[Len(DaysIn)]
Month(l) == CHOOSE m \in Months : SumTo[m - 1] <= DayOfYear(l) /\ DayOfYear(l) < SumTo[m]
DayOfMonth(l) == DayOfYear(l) - SumTo[Month(l) - 1] + 1
HourOf(l) == (l % DayLength) \div MinutesPerHour
MinuteOf(l) == l % MinutesPerHour

-----------------------------------------------------------------------------
(* One part of a field: "*", a value or a range, with a step (0: none given).
   A step on a single value is read and has no effect. *)
stepValues(min, max, step) == {v \in min .. max : (v - min) % step = 0}
parseFieldPart(p, min, max) ==
    LET step == IF p.step = 0 THEN 1 ELSE p.step
    IN  CASE p.kind = "star" -> stepValues(min, max, step)
          [] p.kind = "range" -> IF p.from < min \/ p.to > max \/ p.from > p.to THEN {}
                                 ELSE stepValues(p.from, p.to, step)
          [] p.kind = "value" -> {p.from} \cap min .. max
FieldParts(min, max) == [kind : {"star"}, from : {min}, to : {max}, step : 0 .. 2]
                   \cup [kind : {"range"}, from : min .. max, to : min .. max, step : {0, 2}]
                   \cup [kind : {"value"}, from : min .. max + 1, to : {min}, step : {0}]
(* A part without values ({}) is an error, and fails the whole field. *)
parseField(parts, min, max) ==
    IF \E i \in DOMAIN parts : parseFieldPart(parts[i], min, max) = {} THEN {}
    ELSE UNION {parseFieldPart(parts[i], min, max) : i \in DOMAIN parts}
(* The number after the last weekday is Sunday: it is replaced before parsing,
   in a range too. *)
Sunday(n) == IF n = DaysPerWeek THEN 0 ELSE n
parseDayOfWeekField(parts) ==
    parseField([i \in DOMAIN parts |-> [parts[i] EXCEPT !.from = Sunday(@), !.to = Sunday(@)]], 0, DaysPerWeek - 1)
Fields(min, max) == {parseField(<<p, q>>, min, max) : p \in FieldParts(min, max), q \in FieldParts(min, max)} \ {{}}
ParseCron == [minute : Fields(0, MinutesPerHour - 1), hour : Fields(0, HoursPerDay - 1),
              day : Fields(1, Longest), month : Fields(1, Len(DaysIn)),
              weekday : {parseDayOfWeekField(<<p>>) : p \in FieldParts(0, DaysPerWeek)} \ {{}}]

-----------------------------------------------------------------------------
(* Days: either field may match when both are restricted. *)
dayOk(l) == LET all == Cardinality(expr.day) = Longest
                any == Cardinality(expr.weekday) = DaysPerWeek
                dayMatches == DayOfMonth(l) \in expr.day
                dowMatches == Weekday(l) \in expr.weekday
            IN  CASE all /\ any -> TRUE [] all -> dowMatches [] any -> dayMatches
                  [] OTHER -> dayMatches \/ dowMatches

(* The zone's offset at a time, and what a clock shows there. *)
Shifts(u) == {i \in DOMAIN zone.at : zone.at[i] <= u}
ZoneOffset(u) == zone.offset[Cardinality(Shifts(u)) + 1]
LocalOf(u) == u + ZoneOffset(u)
(* time.Date: the offset is looked up as if the local time were one of UTC, and
   once more if it does not hold at the time so found.  A local time that the
   zone leaves out becomes another, and of two times that show it one is taken. *)
GoDate(l) == LET u == l - ZoneOffset(l) IN IF Shifts(u) = Shifts(l) THEN u ELSE l - ZoneOffset(u)
(* Close to a change of the offset. *)
NearShift(u) == \E i \in DOMAIN zone.at : zone.at[i] - 2 * MaxOffset <= u /\ u <= zone.at[i] + 2 * MaxOffset

CronInit == /\ expr \in ParseCron /\ zone \in Zones /\ since \in 0 .. YearLength - 1
            /\ candidate = since + 1 /\ rough = NearShift(since + 1) /\ search = "on"

Local == LocalOf(candidate)
Reach(u) == candidate' = u /\ rough' = (rough \/ NearShift(u)) /\ UNCHANGED <<expr, zone, since>>
Go(u) == Reach(u) /\ UNCHANGED search
FireAt(u) == Reach(u) /\ search' = "found"
Later(S, n) == {v \in S : v > n}
Earliest(S) == CHOOSE v \in S : \A w \in S : v <= w
NextDay == Go(GoDate((Day(Local) + 1) * DayLength))

(* t.Add(time.Hour).Truncate(time.Hour) counts in absolute time, not in the
   zone's. *)
HourAfter(u) == ((u + MinutesPerHour) \div MinutesPerHour) * MinutesPerHour

(* The rest of the iteration from a time whose month, day and hour have been
   found to fit. *)
CheckMinute(u) ==
    LET l == LocalOf(u)
        later == Later(expr.minute, MinuteOf(l))
    IN  IF MinuteOf(l) \in expr.minute THEN FireAt(u)
        ELSE IF later = {} THEN Go(HourAfter(u))
        ELSE FireAt(GoDate(l - MinuteOf(l) + Earliest(later)))

(* ... and from one whose month and day fit.  The hour the search goes on to is
   not looked at again. *)
CheckHour ==
    LET later == Later(expr.hour, HourOf(Local))
    IN  IF HourOf(Local) \in expr.hour THEN CheckMinute(candidate)
        ELSE IF later = {} THEN NextDay
        ELSE CheckMinute(GoDate(Day(Local) * DayLength + Earliest(later) * MinutesPerHour))

(* Mutant: the step to the next month lands on its second day. *)
NextSkipsMonthEnd ==
    /\ search = "on"
    /\ IF candidate >= since + SearchYears * YearLength THEN search' = "none" /\ UNCHANGED <<expr, zone, since, candidate, rough>>
       ELSE IF Month(Local) \notin expr.month
            THEN Go(GoDate((Day(Local) - DayOfMonth(Local) + DaysIn[Month(Local)] + 2) * DayLength))
       ELSE IF ~dayOk(Local) THEN NextDay ELSE CheckHour
CronNext ==
    /\ search = "on"
    /\ IF candidate >= since + SearchYears * YearLength THEN search' = "none" /\ UNCHANGED <<expr, zone, since, candidate, rough>>
       ELSE IF Month(Local) \notin expr.month
            THEN Go(GoDate((Day(Local) - DayOfMonth(Local) + DaysIn[Month(Local)] + 1) * DayLength))
       ELSE IF ~dayOk(Local) THEN NextDay ELSE CheckHour

CronSpec == CronInit /\ [][CronNext]_cronVars

CronTypeOK == search \in {"on", "found", "none"} /\ zone \in Zones /\ rough \in BOOLEAN

-----------------------------------------------------------------------------
(* What "the next time this cron expression will fire" means: of two day fields
   that are restricted one is enough ("either can match", cron.go:353, though
   cron.go:340 says "both"), of one that is not the other decides. *)
Restricted(S, all) == \E v \in all : v \notin S
DayFits(l) == LET d == DayOfMonth(l) \in expr.day
                  w == Weekday(l) \in expr.weekday
              IN  \/ d /\ w
                  \/ /\ Restricted(expr.day, 1 .. Longest) /\ Restricted(expr.weekday, 0 .. DaysPerWeek - 1)
                     /\ d \/ w
Matches(m) == LET l == LocalOf(m)
              IN  /\ Month(l) \in expr.month /\ DayFits(l)
                  /\ HourOf(l) \in expr.hour /\ MinuteOf(l) \in expr.minute
WholeHours == \A i \in DOMAIN zone.offset : zone.offset[i] % MinutesPerHour = 0

(* The search jumps over months, days and hours, changes of the zone's offset
   among them.  What it returns matches, unless the offset changes within twice
   MaxOffset of it; a search none of whose candidates is that close to a change goes
   forward only and, in a zone that is off by whole hours, skips no minute that
   matches, those around a change it jumps over included.
   Close to a change none of this holds: time.Date may take the search to an hour
   that is not asked for, or back before where it began; and in a zone that is off
   by part of an hour the step to the next hour may skip a match. *)
NoFireSkipped == /\ search = "found" /\ ~NearShift(candidate) => Matches(candidate)
                 /\ ~rough => /\ candidate > since
                              /\ WholeHours => \A m \in since + 1 .. candidate - 1 : ~Matches(m)
=============================================================================
