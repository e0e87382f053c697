-------------------------------- MODULE Cron --------------------------------
(***************************************************************************)
(* Cron expressions: what the fields of an expression stand for and the    *)
(* search for the next and the previous run of a schedule around a moment. *)
(*                                                                         *)
(* An expression is a record of sets of items, one set for each field; an  *)
(* item is "*", a value or a range, with or without a step.  How the text  *)
(* is cut into items and names into numbers is left out.                   *)
(*                                                                         *)
(* Time is a number of ticks, two to a second, so that a moment may lie    *)
(* between two seconds.  Day 0 is Monday 2018-12-31, the day from which    *)
(* the weekday modulo counts.  A time zone changes its offset at most once *)
(* in the window that is looked at.                                        *)
(***************************************************************************)
EXTENDS Integers, Sequences, FiniteSets, FiniteSetsExt

CONSTANTS
  MaxSearchDays,   \* days a search looks at, 400 years in the code
  NoRun,           \* no run was found, or none is stored
  NoZone           \* an expression or a moment without a time zone

ASSUME CronAssumption == MaxSearchDays \in Nat \ {0}

Second == 2
Minute == 60 * Second
Hour == 60 * Minute
Day == 24 * Hour

-----------------------------------------------------------------------------
(* The calendar of the years 2016 to 2021; day 1 is 2019-01-01.            *)

Leap(year) == year % 4 = 0 /\ (year % 100 # 0 \/ year % 400 = 0)

\* calendar.monthrange
MonthLength(year, month) ==
  CASE month = 2 -> IF Leap(year) THEN 29 ELSE 28
    [] month \in {4, 6, 9, 11} -> 30
    [] OTHER -> 31

MonthOf(i) == [year |-> 2016 + (i \div 12), month |-> (i % 12) + 1]

MonthStart[i \in 0 .. 72] ==
  IF i = 0 THEN -1095
  ELSE MonthStart[i - 1]
         + MonthLength(MonthOf(i - 1).year, MonthOf(i - 1).month)

\* The date of a day: its month, its number in the month, and the month's
\* length.
Calendar ==
  [d \in MonthStart[0] .. MonthStart[72] - 1 |->
     LET i == Max({n \in 0 .. 71 : MonthStart[n] <= d})
         m == MonthOf(i)
     IN [month |-> m.month, day |-> d - MonthStart[i] + 1,
         length |-> MonthLength(m.year, m.month)]]

\* The day of a date, for the instances.
DayOf(year, month, day) == MonthStart[12 * (year - 2016) + month - 1] + day - 1

CronWeekday(d) == (d + 1) % 7

-----------------------------------------------------------------------------
(* Items and fields.                                                       *)

Item(shape, from, to) ==
  [shape |-> shape, from |-> from, to |-> to, step |-> 1, stepped |-> FALSE]

All == Item("all", 0, 0)
One(v) == Item("one", v, v)
Span(a, b) == Item("range", a, b)
Stepped(item, n) == [item EXCEPT !.step = n, !.stepped = TRUE]
Nth(day, n) == [shape |-> "nth", day |-> day, nth |-> n]
Modulo(day, n, offset) ==
  [shape |-> "modulo", day |-> day, divisor |-> n, offset |-> offset]

NormalizeHour == [v \in 0 .. 24 |-> IF v = 24 THEN 0 ELSE v]

NormalizeDayOfWeek == [v \in 0 .. 7 |-> IF v = 7 THEN 0 ELSE v]

Identity == [v \in -31 .. 59 |-> v]

Ascending(a, b) == [i \in 1 .. b - a + 1 |-> a + i - 1]

\* The values of a range; one whose end lies before its start wraps around.
CyclicValues(start, end, min, max, step, normalize) ==
  LET raw == IF start <= end THEN Ascending(start, end)
             ELSE Ascending(start, max) \o Ascending(min, end)
  IN {normalize[raw[i]] : i \in {n \in DOMAIN raw : (n - 1) % step = 0}}

\* _expand_simple_item: the values of an item and whether it is a wildcard.
ExpandSimpleItem(item, min, max, normalize, toMax, fullIsWildcard) ==
  LET start == IF item.shape = "all" THEN min ELSE item.from
      end == IF item.shape = "all" \/ (item.shape = "one" /\ item.stepped
                                        /\ toMax)
             THEN max ELSE item.to
      full == \/ item.shape = "all"
              \/ fullIsWildcard /\ start = min /\ end = max
      values == CyclicValues(start, end, min, max, item.step, normalize)
      all == {normalize[v] : v \in min .. max}
  IN [values |-> values, wildcard |-> item.step = 1 /\ full /\ values = all]

\* The bounds and the step of an item are checked when it is read.
SimpleItemOK(item, min, max) ==
  /\ item.step > 0
  /\ item.shape # "all" => {item.from, item.to} \subseteq min .. max

ParseField(expansions, all) ==
  LET wildcard == \E x \in expansions : x.wildcard
  IN [values |-> IF wildcard THEN all ELSE UNION {x.values : x \in expansions},
      wildcard |-> wildcard]

ParseSimpleField(items, min, max, normalize) ==
  ParseField({ExpandSimpleItem(i, min, max, normalize, TRUE, TRUE) : i \in items},
             {normalize[v] : v \in min .. max})

ExpandMonthdayItem(item) ==
  LET open == item.shape = "one" /\ item.stepped
      end == IF open THEN IF item.from > 0 THEN 31 ELSE -1
             ELSE IF item.from > 0 /\ item.to < 0 THEN 31 ELSE item.to
  IN IF item.shape = "all"
     THEN [values |-> {v \in 1 .. 31 : (v - 1) % item.step = 0},
           wildcard |-> item.step = 1]
     ELSE IF item.from > 0
     THEN [values |-> CyclicValues(item.from, end, 1, 31, item.step, Identity),
           wildcard |-> item.step = 1 /\ item.from = 1 /\ end = 31]
     ELSE [values |-> CyclicValues(item.from, end, -31, -1, item.step, Identity),
           wildcard |-> FALSE]

MonthdayItemOK(item) ==
  /\ item.step > 0
  /\ item.shape # "all" =>
       /\ {item.from, item.to} \subseteq (-31 .. 31) \ {0}
       /\ item.from > 0 \/ item.to < 0

ParseMonthdayField(items) ==
  ParseField({ExpandMonthdayItem(i) : i \in items}, 1 .. 31)

WeekdayItemOK(item) ==
  CASE item.shape = "nth" -> item.day \in 0 .. 7 /\ item.nth \in (-5 .. 5) \ {0}
    [] item.shape = "modulo" -> item.day \in 0 .. 7 /\ item.divisor > 0
    [] OTHER -> SimpleItemOK(item, 0, 7)

\* The parsed field keeps the extended items and one item for each plain day.
ParseWeekdayField(items) ==
  LET extended == {i \in items : i.shape \in {"nth", "modulo"}}
      plain == {ExpandSimpleItem(i, 0, 7, NormalizeDayOfWeek, FALSE, FALSE) :
                  i \in items \ extended}
  IN [specs |-> {[i EXCEPT !.day = NormalizeDayOfWeek[@]] : i \in extended}
                \cup {[shape |-> "day", day |-> v] :
                        v \in UNION {x.values : x \in plain}},
      wildcard |-> \E x \in plain : x.wildcard]

-----------------------------------------------------------------------------
(* Schedules.                                                              *)

\* An expression of five fields runs at second 0.
Expression(second, minute, hour, monthday, month, weekday, and, zone) ==
  [second |-> second, minute |-> minute, hour |-> hour, monthday |-> monthday,
   month |-> month, weekday |-> weekday, day_and |-> and, timezone |-> zone]

ParseCronSchedule(e) ==
  [seconds |-> IF e.second = {} THEN [values |-> {0}, wildcard |-> FALSE]
               ELSE ParseSimpleField(e.second, 0, 59, Identity),
   minutes |-> ParseSimpleField(e.minute, 0, 59, Identity),
   hours |-> ParseSimpleField(e.hour, 0, 24, NormalizeHour),
   day_of_month |-> ParseMonthdayField(e.monthday),
   months |-> ParseSimpleField(e.month, 1, 12, Identity),
   day_of_week |-> ParseWeekdayField(e.weekday),
   day_and |-> e.day_and,
   timezone |-> e.timezone]

DayOfMonthCanMatch(day, month) ==
  IF day > 0 THEN day <= MonthLength(2024, month)
  ELSE 1 <= MonthLength(2024, month) + 1 + day

\* A day of the month that no selected month has is refused, unless the
\* weekday alone can match.
PossibleDayOfMonth(s) ==
  \/ s.day_of_month.wildcard
  \/ ~s.day_and /\ ~s.day_of_week.wildcard
  \/ \E month \in s.months.values, day \in s.day_of_month.values :
       DayOfMonthCanMatch(day, month)

IsValidExpression(e) ==
  /\ \A i \in e.second \cup e.minute : SimpleItemOK(i, 0, 59)
  /\ \A i \in e.hour : SimpleItemOK(i, 0, 24)
  /\ \A i \in e.monthday : MonthdayItemOK(i)
  /\ \A i \in e.month : SimpleItemOK(i, 1, 12)
  /\ \A i \in e.weekday : WeekdayItemOK(i)
  /\ PossibleDayOfMonth(ParseCronSchedule(e))

Matches(field, value) == field.wildcard \/ value \in field.values

WeekdayHashMatches(d, nth) ==
  LET date == Calendar[d] IN
  nth \in {((date.day - 1) \div 7) + 1,
           -(((date.length - date.day) \div 7) + 1)}

WeekdayModuloMatches(d, divisor, offset) ==
  (d \div 7) % divisor = offset % divisor

WeekdayMatches(field, d) ==
  \/ field.wildcard
  \/ \E spec \in field.specs :
       /\ spec.day = CronWeekday(d)
       /\ spec.shape = "nth" => WeekdayHashMatches(d, spec.nth)
       /\ spec.shape = "modulo" =>
            WeekdayModuloMatches(d, spec.divisor, spec.offset)

MatchesDayOfMonth(field, d) ==
  \/ field.wildcard
  \/ \E day \in field.values :
       Calendar[d].day = IF day > 0 THEN day ELSE Calendar[d].length + 1 + day

\* Two restricted day fields: either is enough, unless "&" asks for both.
MatchesDay(s, d) ==
  LET dom == MatchesDayOfMonth(s.day_of_month, d)
      dow == WeekdayMatches(s.day_of_week, d)
  IN IF s.day_of_month.wildcard \/ s.day_of_week.wildcard \/ s.day_and
     THEN dom /\ dow
     ELSE dom \/ dow

MatchesDate(s, d) ==
  Matches(s.months, Calendar[d].month) /\ MatchesDay(s, d)

-----------------------------------------------------------------------------
(* Time zones.  A fixed offset has no transition; an IANA zone has one, at *)
(* which clocks go forward (a gap) or back (a fold).                       *)

Zone(iana, before, after, at) ==
  [iana |-> iana, before |-> before, after |-> after, at |-> at]

Fixed(offset) == Zone(FALSE, offset, offset, 0)

OffsetAt(z, u) ==
  IF z = NoZone THEN 0 ELSE IF u < z.at THEN z.before ELSE z.after

\* astimezone
LocalOf(z, u) == u + OffsetAt(z, u)

\* The instant of a wall time: one that clocks skip or show twice is read with
\* the offset before the transition when fold is 0 and after it when it is 1.
InstantOf(z, wall, fold) ==
  IF z = NoZone THEN wall
  ELSE LET early == z.at + Min({z.before, z.after})
           late == z.at + Max({z.before, z.after})
       IN IF wall < early \/ (wall < late /\ fold = 0)
          THEN wall - z.before ELSE wall - z.after

\* The instants at which clocks show a wall time: none in a gap, two in a fold.
TimelineCandidates(z, wall) ==
  {u \in {InstantOf(z, wall, fold) : fold \in {0, 1}} : LocalOf(z, u) = wall}

-----------------------------------------------------------------------------
(* The search.                                                             *)

\* The wall times of a date that are tried, without those before the base on
\* its own date where wall time and instants agree.
WallTimes(s, d, localBase, z, direction) ==
  LET sameDate == d = localBase \div Day
      baseHour == (localBase % Day) \div Hour
      baseMinute == (localBase % Hour) \div Minute
      skips == sameDate /\ (z = NoZone \/ ~z.iana)
      Beyond(v, limit) == IF direction > 0 THEN v < limit ELSE v > limit
  IN {d * Day + h * Hour + m * Minute + sec * Second :
        <<h, m, sec>> \in
          {t \in s.hours.values \X s.minutes.values \X s.seconds.values :
             ~(skips /\ (\/ Beyond(t[1], baseHour)
                         \/ t[1] = baseHour /\ Beyond(t[2], baseMinute)))}}

\* The first candidate beyond the base on a date: wall times in order, and the
\* instants of each in order.
FirstOnDate(s, d, base, localBase, z, direction) ==
  LET Pick(S) == IF direction > 0 THEN Min(S) ELSE Max(S)
      Past(u) == IF direction > 0 THEN u > base ELSE u < base
      walls == {w \in WallTimes(s, d, localBase, z, direction) :
                  \E u \in TimelineCandidates(z, w) : Past(u)}
  IN IF walls = {} THEN NoRun
     ELSE Pick({u \in TimelineCandidates(z, Pick(walls)) : Past(u)})

\* _find_run_for_schedule, for a moment that carries the time zone of the base
\* or none; the answer is a moment of the same kind.
FindRunForSchedule(s, base, baseZone, direction) ==
  LET local == IF s.timezone = NoZone THEN baseZone ELSE s.timezone
      timeline == IF baseZone = NoZone THEN InstantOf(local, base, 0) ELSE base
      localBase == LocalOf(local, timeline)
      today == localBase \div Day
      date(n) == today + n * direction
      OnDate(n) == FirstOnDate(s, date(n), timeline, localBase, local, direction)
      Found(n) == MatchesDate(s, date(n)) /\ OnDate(n) # NoRun
      days == 0 .. MaxSearchDays - 1
      run == IF \E n \in days : Found(n)
             THEN OnDate(CHOOSE n \in days : Found(n) /\ \A m \in 0 .. n - 1 : ~Found(m))
             ELSE NoRun
  IN IF run # NoRun /\ baseZone = NoZone THEN LocalOf(local, run) ELSE run

\* The runs of several expressions together.
FindRun(schedules, base, baseZone, direction) ==
  LET runs == {FindRunForSchedule(s, base, baseZone, direction) :
                 s \in schedules} \ {NoRun}
  IN IF runs = {} THEN NoRun
     ELSE IF direction > 0 THEN Min(runs) ELSE Max(runs)

NextCronRun(schedules, base, baseZone) == FindRun(schedules, base, baseZone, 1)

PreviousCronRun(schedules, base, baseZone) ==
  FindRun(schedules, base, baseZone, -1)

\* The microsecond that is added is one tick.
LatestCronRun(schedules, base, baseZone) ==
  PreviousCronRun(schedules, base + 1, baseZone)
=============================================================================
