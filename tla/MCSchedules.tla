----------------------------- MODULE MCSchedules -----------------------------
(***************************************************************************)
(* Model-checking instances of Schedules.                                  *)
(***************************************************************************)
EXTENDS Schedules

UTC == Fixed(0)

\* Clocks of New York go forward on 2019-03-10 and back on 2019-11-03; those of
\* Kolkata are half an hour off.
Spring == Zone(TRUE, -5 * Hour, -4 * Hour, DayOf(2019, 3, 10) * Day + 7 * Hour)
Autumn == Zone(TRUE, -4 * Hour, -5 * Hour, DayOf(2019, 11, 3) * Day + 6 * Hour)
Kolkata == Fixed(5 * Hour + 30 * Minute)

CronText(e) == [kind |-> "cron", expression |-> e, phrase |-> <<>>]
Words(phrase) ==
  [kind |-> "words", phrase |-> phrase,
   expression |-> Expression({}, {}, {}, {}, {}, {}, FALSE, NoZone)]

Cron5(minute, hour, monthday, month, weekday, zo) ==
  CronText(Expression({}, minute, hour, monthday, month, weekday, FALSE, zo))

CronAnd(minute, hour, monthday, month, weekday) ==
  CronText(Expression({}, minute, hour, monthday, month, weekday, TRUE, NoZone))

Any == {All}
Midnight == One(0)

\* Steps, wraparound ranges, hour 24, weekday 7, days from the end of a month,
\* weekdays of a month and of alternate weeks, both day fields with and without
\* "&", and a leading field of seconds.
CronTexts ==
  {Cron5({Stepped(All, 30)}, Any, Any, Any, Any, NoZone),
   Cron5({Stepped(Span(30, 0), 30)}, {Span(22, 1)}, Any, Any, Any, NoZone),
   Cron5({One(0)}, {Stepped(One(5), 6)}, {Span(29, 1)}, Any, Any, NoZone),
   Cron5({One(0)}, {One(24)}, {One(-1)}, Any, Any, NoZone),
   Cron5({One(0)}, {One(12)}, {Span(-3, -1)}, {Span(12, 3)}, Any, NoZone),
   Cron5({One(0)}, {One(5)}, {Stepped(One(2), 13)}, Any, {Span(6, 7)}, NoZone),
   Cron5({One(30)}, {One(5)}, Any, Any, {Nth(0, 1), Nth(7, -1)}, NoZone),
   Cron5({One(30)}, {One(5)}, Any, Any, {Nth(6, 5), Nth(1, -4)}, NoZone),
   Cron5({One(0)}, {One(7)}, Any, Any, {Modulo(0, 2, 1), Modulo(1, 3, 5)}, NoZone),
   Cron5({One(0)}, {One(0)}, {One(31)}, {One(2)}, {One(6)}, NoZone),
   CronAnd({One(0)}, {One(0)}, {Stepped(All, 2)}, Any, {Span(5, 1)}),
   CronText(Expression({One(0), Stepped(One(30), 15)}, {One(0)}, {Stepped(All, 7)},
                       Any, Any, Any, FALSE, NoZone)),
   Cron5({One(30)}, {Span(0, 6)}, Any, Any, Any, Kolkata)}

\* One wall time in the hour that is skipped or repeated.
ZonedTexts ==
  {Cron5({One(m)}, hour, Any, Any, Any, z) :
     m \in {0, 30}, hour \in {{One(1)}, {One(2)}, Any}, z \in {Spring, Autumn}}

Phrases ==
  {<<Every(1, "day"), AtTimes(<<<<5, 30, "">>, <<7, 0, "">>>>)>>,
   <<Every(1, "day"), AtTimes(<<<<12, 0, "midnight">>, <<12, 30, "pm">>>>)>>,
   <<Every(30, "minute"), From("hours", 5, 7, 0)>>,
   <<From("hours", 5, 7, 0), At("minutes", {One(30)}), EveryWeekday>>,
   <<From("hours", 5, 7, 30), On("weekday", {One(0), Span(5, 6)})>>,
   <<Every(3, "hour"), At("minutes", {One(30)})>>,
   <<Every(6, "hour"), From("weekday", 6, 1, 0)>>,
   <<Every(1, "week"), On("weekday", {One(1)})>>,
   <<Every(1, "month"), On("monthday", {One(-1), One(3)}),
     At("hours", {One(5), One(6)})>>,
   <<From("monthday", 28, 2, 0), On("the hour", {})>>,
   <<Every(2, "day"), AtTimes(<<<<6, 0, "am">>>>), In(Kolkata)>>,
   <<EveryWeekday, At("seconds", {One(0), One(30)}), AtTimes(<<<<7, 0, "">>>>)>>,
   <<Every(30, "second"), Every(1, "hour")>>,
   <<Every(2, "month")>>,
   <<Every(60, "minute")>>, <<Every(24, "hour")>>,
   <<Every(1, "day"), In(Kolkata), In(UTC)>>}

\* Every order of the segments of a phrase.
Orders(phrase) ==
  {[i \in DOMAIN phrase |-> phrase[p[i]]] :
     p \in {q \in [DOMAIN phrase -> DOMAIN phrase] :
              \A i, j \in DOMAIN phrase : q[i] = q[j] => i = j}}

AllCases ==
  ((CronTexts \cup ZonedTexts \cup {Words(q) : q \in UNION {Orders(p) : p \in Phrases}})
     \X {UTC})
  \cup (CronTexts \X {NoZone})

\* The end of February of a leap year and the two nights when clocks change.
Nights == {DayOf(2020, 2, 29), DayOf(2019, 3, 10), DayOf(2019, 11, 3)}

AroundNights ==
  {night * Day + t :
     night \in Nights,
     t \in {-12 * Hour, 0, 5 * Hour, 5 * Hour + 30 * Minute + 1, 6 * Hour,
            7 * Hour - 1, 7 * Hour, Day - 1, Day, Day + 5 * Hour}}

ThreeDays == 3 * Day

\* Nothing above is due at another second of the day.
HalfHours ==
  {h * 3600 + m * 60 + s : h \in 0 .. 23, m \in {0, 30}, s \in {0, 30, 45}}
=============================================================================
