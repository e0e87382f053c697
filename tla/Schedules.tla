------------------------------ MODULE Schedules ------------------------------
(***************************************************************************)
(* A scheduler that polls a recurring task: which run a poll fires and     *)
(* which run it stores as the next one, for every schedule, time zone and  *)
(* moments of the polls.  What becomes of a fired run is in Recurring,     *)
(* where a schedule is just a set of instants; here that set is what the   *)
(* text of the schedule means, and the code must find it.                  *)
(***************************************************************************)
EXTENDS CronNatural

CONSTANTS
  Cases,       \* schedules, each with the zone of the scheduler's clock or none
  Moments,     \* moments at which a scheduler may poll
  MaxGap,      \* the longest time between two polls
  Grid         \* seconds of a day at which something may be due

VARIABLES
  text,        \* the schedule as it was written
  schedules,   \* as it was parsed, once for every text
  zone,        \* the zone of the moments the scheduler passes, or none
  now,
  next_run_at, \* as stored with the task
  last,        \* the last run that was fired
  seen         \* the moment of the last poll

vars == <<text, schedules, zone, now, next_run_at, last, seen>>

-----------------------------------------------------------------------------
(* What a schedule means, field by field, for the moment a clock shows.    *)

\* Counting from one end of an item by its step, without passing the other;
\* a range may go over the top of a clock of a given size.
OnItem(v, item, first, size, last_) ==
  LET from == IF item.shape = "all" THEN first ELSE item.from
      length == CASE item.shape = "all" -> size - 1
                  [] item.shape = "one" ->
                       IF item.stepped /\ last_ THEN first + size - 1 - from ELSE 0
                  [] item.from <= item.to -> item.to - item.from
                  [] OTHER -> (item.to - item.from) % size
  IN \E n \in 0 .. length :
       n % item.step = 0 /\ (v - first) % size = (from + n - first) % size

SameMonth(d) ==
  {e \in d - 31 .. d + 31 :
     /\ e \in DOMAIN Calendar
     /\ Calendar[e].month = Calendar[d].month}

\* The n-th day of a set of days, from its end when n is negative.
IsNth(d, n, S) ==
  IF n > 0 THEN Cardinality({e \in S : e <= d}) = n
  ELSE Cardinality({e \in S : e >= d}) = -n

OnMonthday(d, item) ==
  LET day == Calendar[d].day IN
  IF item.shape = "all" \/ (item.from > 0 /\ item.to > 0)
  THEN OnItem(day, item, 1, 31, TRUE)
  ELSE IF item.from > 0 THEN OnItem(day, [item EXCEPT !.to = 31], 1, 31, TRUE)
  ELSE LET back == day - Calendar[d].length - 1
       IN OnItem(back, item, -31, 31, TRUE)

OnWeekday(d, item) ==
  CASE item.shape = "nth" ->
         /\ item.day % 7 = (d + 1) % 7
         /\ IsNth(d, item.nth, {e \in SameMonth(d) : (e - d) % 7 = 0})
    [] item.shape = "modulo" ->
         item.day % 7 = (d + 1) % 7 /\ (d \div 7 - item.offset) % item.divisor = 0
    [] OTHER -> OnItem((d + 1) % 7, item, 0, 7, FALSE)

OnDay(d, e) ==
  LET dom == \E i \in e.monthday : OnMonthday(d, i)
      dow == \E i \in e.weekday : OnWeekday(d, i)
  IN IF All \in e.monthday \cup e.weekday \/ e.day_and THEN dom /\ dow
     ELSE dom \/ dow

ExpressionDay(e, d) ==
  /\ \E i \in e.month : OnItem(Calendar[d].month, i, 1, 12, TRUE)
  /\ OnDay(d, e)

ExpressionClock(e, hour, minute, second) ==
  /\ \E i \in e.hour : OnItem(hour, i, 0, 24, TRUE)
  /\ \E i \in e.minute : OnItem(minute, i, 0, 60, TRUE)
  /\ \E i \in IF e.second = {} THEN {One(0)} ELSE e.second :
       OnItem(second, i, 0, 60, TRUE)

(* What a phrase means: every segment restricts the days, the hours, the   *)
(* minutes or the seconds, in whichever order they come.                   *)

Said(phrase, whats) == {i \in DOMAIN phrase : phrase[i].what \in whats}

DaysSaid == {"day", "week", "month", "year", "business", "monthday", "weekday"}

PhraseDay(phrase, d) ==
  LET list(i) == IF phrase[i].prefix = "from"
                 THEN {Span(phrase[i].range[1], phrase[i].range[2])}
                 ELSE phrase[i].items
      weekdays == Said(phrase, {"weekday"})
      monthdays == Said(phrase, {"monthday"})
      months == Said(phrase, {"month", "year"})
  IN /\ \A i \in weekdays : \E x \in list(i) : OnWeekday(d, x)
     /\ \A i \in monthdays : \E x \in list(i) : OnMonthday(d, x)
     /\ weekdays = {} =>
          /\ Said(phrase, {"business"}) # {} => (d + 1) % 7 \in 1 .. 5
          /\ Said(phrase, {"week"}) # {} => (d + 1) % 7 = 0
     /\ \A i \in Said(phrase, {"day"}) : (Calendar[d].day - 1) % phrase[i].count = 0
     /\ \A i \in months : (Calendar[d].month - 1)
                            % (IF phrase[i].what = "year" THEN 12 ELSE phrase[i].count) = 0
     /\ months # {} /\ monthdays = {} => Calendar[d].day = 1

\* Segments about minutes leave the hours open; the end of a range of hours
\* is then excluded.
PhraseClock(phrase, hour, minute) ==
  LET ranges == {i \in Said(phrase, {"hours"}) : phrase[i].prefix = "from"}
      lists == Said(phrase, {"hours"}) \ ranges
      byMinute == Said(phrase, {"minute", "minutes", "the hour", "the minute"})
      times == Said(phrase, {"times"})
      hourly == Said(phrase, {"hour"})
      start(i) == phrase[i].range[1]
      end(i) == IF byMinute = {} THEN phrase[i].range[2]
                ELSE phrase[i].range[2] - 1
  IN /\ \A i \in ranges : hour \in start(i) .. end(i)
     /\ \A i \in lists : One(hour) \in phrase[i].items
     /\ \A i \in hourly : hour % phrase[i].count = 0
     /\ \A i \in times : \E n \in DOMAIN phrase[i].times :
          LET time == phrase[i].times[n] IN
          /\ hour = AdjustNaturalHour(time[1], time[3])
          /\ byMinute = {} => minute = time[2]
     /\ \A i \in byMinute :
          CASE phrase[i].what = "minute" -> minute % phrase[i].count = 0
            [] phrase[i].what = "minutes" -> One(minute) \in phrase[i].items
            [] phrase[i].what = "the hour" -> minute = 0
            [] OTHER -> TRUE
     /\ byMinute = {} =>
          /\ \A i \in ranges : minute = phrase[i].range[3]
          /\ lists \cup hourly # {} => minute = 0
          /\ ranges \cup lists \cup hourly \cup times = {}
               /\ Said(phrase, DaysSaid) # {} => hour = 0 /\ minute = 0

PhraseSecond(phrase, second) ==
  /\ \A i \in Said(phrase, {"seconds"}) : One(second) \in phrase[i].items
  /\ \A i \in Said(phrase, {"second"}) : second % phrase[i].count = 0
  /\ Said(phrase, {"second", "seconds"}) = {} => second = 0

\* The zone a schedule names, else that of the scheduler.
ZoneOf(t) ==
  LET own == IF t.kind = "cron" THEN {t.expression.timezone} \ {NoZone}
             ELSE UNION {t.phrase[i].zone : i \in Said(t.phrase, {"tz"})}
  IN IF own = {} THEN zone ELSE CHOOSE z \in own : TRUE

DayDue(d) ==
  IF text.kind = "cron" THEN ExpressionDay(text.expression, d)
  ELSE PhraseDay(text.phrase, d)

ClockDue(t) ==
  LET hour == t \div Hour
      minute == (t % Hour) \div Minute
      second == (t % Minute) \div Second
  IN IF text.kind = "cron" THEN ExpressionClock(text.expression, hour, minute, second)
     ELSE /\ PhraseClock(text.phrase, hour, minute)
          /\ PhraseSecond(text.phrase, second)

\* What clocks show at a moment of the scheduler.
WallOf(u) == IF zone = NoZone THEN u ELSE LocalOf(ZoneOf(text), u)

\* The schedule is due when clocks show a time that it matches.
Due(u) == DayDue(WallOf(u) \div Day) /\ ClockDue(WallOf(u) % Day)

DueBetween(a, b) ==
  LET times == {t \in {s * Second : s \in Grid} : ClockDue(t)}
      days == {d \in (a \div Day) - 1 .. (b \div Day) + 1 : DayDue(d)}
      walls == {d * Day + t : d \in days, t \in times}
      z == IF zone = NoZone THEN Fixed(0) ELSE ZoneOf(text)
  IN {u \in {w - z.before : w \in walls} \cup {w - z.after : w \in walls} :
        a < u /\ u <= b /\ WallOf(u) \in walls}

-----------------------------------------------------------------------------
\* A schedule that cannot be parsed is refused when the task is scheduled.
Accepted == {c \in Cases : IsValidCron(c[1])}

Init ==
  /\ \E c \in Accepted :
       text = c[1] /\ schedules = ParseSchedule(c[1]) /\ zone = c[2]
  /\ now \in Moments
  /\ next_run_at = NoRun
  /\ last = NoRun
  /\ seen = NoRun

\* Mutant: a poll at the very moment of the run leaves it for the next poll.
TaskIsDueStrictly == next_run_at = NoRun \/ next_run_at < now

\* The query for due tasks and the check of the stored run.
TaskIsDue == next_run_at = NoRun \/ next_run_at <= now

\* fire_due_recurring_tasks and _reserve_recurring_task: the latest run up to
\* now, if the stored one is due, unless the cursor is already past it.
Poll ==
  /\ seen # now
  /\ seen' = now
  /\ \E run \in {LatestCronRun(schedules, now, zone)} :
       IF /\ TaskIsDue
          /\ LatestCronRun(schedules, run + 1, zone) = run
          /\ next_run_at = NoRun \/ next_run_at <= run
       THEN \E next \in {NextCronRun(schedules, run, zone)} :
              /\ last' = run
              /\ next_run_at' = IF next_run_at = NoRun \/ next_run_at < next
                                THEN next ELSE next_run_at
       ELSE UNCHANGED <<last, next_run_at>>
  /\ UNCHANGED <<text, schedules, zone, now>>

\* Time passes until the scheduler wakes up again.
Tick ==
  /\ seen = now
  /\ \E m \in Moments : m > now /\ m - now <= MaxGap /\ now' = m
  /\ UNCHANGED <<text, schedules, zone, next_run_at, last, seen>>

Next == Poll \/ Tick

Spec == Init /\ [][Next]_vars

-----------------------------------------------------------------------------
\* A poll fires the last instant at which the schedule was due since the poll
\* before, and nothing if there was none: the search by fields, dates, folds
\* and gaps, the union of the expressions of a phrase and the cursor of the
\* task together neither miss a run, nor fire one twice, nor invent one.
FiresWhatIsDue ==
  [][seen' # seen /\ seen # NoRun =>
       LET due == DueBetween(seen, now) IN
       last' = IF due = {} THEN last ELSE Max(due)]_vars

\* The stored next run is the first instant at which the schedule is due after
\* the last run, and the last run was due: what the cursor and the query for
\* due tasks rely on.
NextRunIsNextDue ==
  next_run_at # NoRun =>
    /\ Due(last) /\ Due(next_run_at)
    /\ last <= seen
    /\ DueBetween(last, next_run_at) = {next_run_at}

=============================================================================
