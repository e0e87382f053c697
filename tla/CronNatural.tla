----------------------------- MODULE CronNatural -----------------------------
(***************************************************************************)
(* Schedules in words.  A phrase is a sequence of segments ("every 15      *)
(* minutes", "from 9 to 17", "on monday"); each yields slots, slots of one *)
(* field are conflated, and every remaining pair of hours and minutes      *)
(* becomes a cron expression.  The phrase runs whenever one of them does.  *)
(*                                                                         *)
(* Segments are taken as already cut into words; number words, names and   *)
(* the spelling of lists are left out.                                     *)
(***************************************************************************)
EXTENDS Cron

\* A segment has a prefix, what it speaks of, and the count, the items, the
\* times, the range or the zone it gives.  One without a prefix is read as "at",
\* then as "from".
Segment(prefix, what) ==
  [prefix |-> prefix, what |-> what, count |-> 0, items |-> {},
   times |-> <<>>, range |-> <<>>, zone |-> {}]

Every(n, unit) == [Segment("every", unit) EXCEPT !.count = n]
EveryWeekday == Segment("every", "business")
From(what, a, b, minute) ==
  [Segment("from", what) EXCEPT !.range = <<a, b, minute>>]
At(what, items) == [Segment("at", what) EXCEPT !.items = items]
AtTimes(times) == [Segment("at", "times") EXCEPT !.times = times]
On(what, items) == [Segment("on", what) EXCEPT !.items = items]
In(zone) == [Segment("in", "tz") EXCEPT !.zone = {zone}]

\* A time of day as it is written: hour, minute and half of the day.
AdjustNaturalHour(hour, half) ==
  IF half \in {"pm", "noon", "midday"} /\ hour < 12 THEN hour + 12
  ELSE IF half \in {"am", "midnight"} /\ hour = 12 THEN 0
  ELSE hour

-----------------------------------------------------------------------------
(* Slots.  data0 and data1 are sets of items, {All} is "*" and {} is None. *)
(* weak and strong are the indices of the data that give way to the data   *)
(* of another slot of the field, or prevail over it.                       *)

Slot(key, data0, data1, weak, strong) ==
  [key |-> key, data0 |-> data0, data1 |-> data1,
   weak |-> weak, strong |-> strong]

Plain(key, data) == Slot(key, data, {}, {}, {})

Weak(key, data) == Slot(key, data, {}, {0, 1}, {})

Step(n) == IF n = 1 THEN {All} ELSE {Stepped(All, n)}

\* _validate_natural_interval_count: a count must fit into its field.
MaxInterval ==
  [second |-> 59, minute |-> 59, hour |-> 23, day |-> 31, month |-> 12,
   week |-> 1, year |-> 1]

IntervalFits(unit, n) == n \in 1 .. MaxInterval[unit]

ParseEveryInterval(n, unit) ==
  CASE unit = "second" -> <<Plain("second", Step(n))>>
    [] unit = "minute" -> <<Slot("hm", {All}, Step(n), {}, {1})>>
    [] unit = "hour" -> <<Slot("hm", Step(n), {One(0)}, {1}, {})>>
    [] unit = "day" -> <<Weak("monthday", Step(n))>>
    [] unit = "month" -> <<Plain("month", Step(n))>>
    [] unit = "week" -> <<Weak("weekday", {One(0)})>>
    [] unit = "year" -> <<Weak("month", {One(1)}), Weak("monthday", {One(1)})>>

\* The forms that "every", "at" and "on" share.
ParseObject(what, list, times) ==
  CASE what = "business" -> <<Weak("weekday", {Span(1, 5)})>>
    [] what = "monthday" -> <<Plain("monthday", list)>>
    [] what = "weekday" -> <<Plain("weekday", list)>>
    [] what = "minutes" -> <<Slot("hm", {All}, list, {}, {1})>>
    [] what = "seconds" -> <<Plain("second", list)>>
    [] what = "hours" -> <<Slot("hm", list, {One(0)}, {}, {})>>
    [] what = "the hour" -> <<Slot("hm", {All}, {One(0)}, {}, {1})>>
    [] what = "the minute" -> <<Slot("hm", {All}, {All}, {}, {1})>>
    [] what = "times" ->
         [i \in DOMAIN times |->
            Slot("hm", {One(AdjustNaturalHour(times[i][1], times[i][3]))},
                 {One(times[i][2])}, {}, {})]

ParseFromSegment(what, a, b, minute) ==
  IF what = "hours"
  THEN <<Slot("hm", {Span(a, b)}, {One(minute)}, {}, {0})>>
  ELSE <<Plain(what, {Span(a, b)})>>

ParseSegment(seg) ==
  CASE seg.what = "tz" -> <<Plain("tz", seg.zone)>>
    [] seg.prefix = "from" ->
         ParseFromSegment(seg.what, seg.range[1], seg.range[2], seg.range[3])
    [] seg.prefix = "every" /\ seg.what \in DOMAIN MaxInterval ->
         ParseEveryInterval(seg.count, seg.what)
    [] OTHER -> ParseObject(seg.what, seg.items, seg.times)

IsParsable(phrase) ==
  /\ phrase # <<>>
  /\ \A i \in DOMAIN phrase :
       phrase[i].prefix = "every" /\ phrase[i].what \in DOMAIN MaxInterval =>
         IntervalFits(phrase[i].what, phrase[i].count)

-----------------------------------------------------------------------------
(* Conflation.                                                             *)

Data(slot, index) == IF index = 0 THEN slot.data0 ELSE slot.data1

\* _hour_range: "from 9 to 17", on the hour.
IsHourRange(slot) ==
  /\ slot.key = "hm" /\ slot.data1 = {One(0)}
  /\ \E i \in slot.data0 : slot.data0 = {i} /\ i.shape = "range"

\* Within such a range the last hour is when the range ends, not part of it.
NaturalHourRange(slot) ==
  LET i == CHOOSE x \in slot.data0 : TRUE IN
  {IF i.from = i.to - 1 THEN One(i.from) ELSE Span(i.from, i.to - 1)}

\* Mutant: the slot that is appended prevails whenever the first is not strong.
ConflateRight(self, other, index) ==
  LET left == Data(self, index)
      right == Data(other, index)
  IN CASE right = {} -> left
       [] left = {} -> right
       [] OTHER ->
            IF index = 0 /\ 1 \in other.strong /\ IsHourRange(self)
            THEN NaturalHourRange(self)
            ELSE IF index \in self.strong THEN left
            ELSE right

\* One of two slots decides or both count.
Conflate(self, other, index) ==
  LET left == Data(self, index)
      right == Data(other, index)
  IN CASE right = {} -> left
       [] left = {} -> right
       [] OTHER ->
            IF index = 0 /\ 1 \in other.strong /\ IsHourRange(self)
            THEN NaturalHourRange(self)
            ELSE IF index = 0 /\ 1 \in self.strong /\ IsHourRange(other)
            THEN NaturalHourRange(other)
            ELSE IF index \in self.strong THEN left
            ELSE IF index \in other.strong THEN right
            ELSE IF index \in other.weak THEN left
            ELSE IF index \in self.weak THEN right
            ELSE IF left = {All} /\ right = {All} THEN {All}
            ELSE (left \cup right) \ {All}

AppendSlot(self, other) ==
  Slot(self.key, Conflate(self, other, 0), Conflate(self, other, 1), {}, {})

\* hm.weak or hm.strong: a slot that is strong in its hours is not graded.
IsGraded(hm) == hm.weak # {} \/ 1 \in hm.strong

\* _determine_natural_hms: graded slots absorb their neighbours one by one.
RECURSIVE Absorb(_)
Absorb(hms) ==
  LET graded == {i \in DOMAIN hms : IsGraded(hms[i])} IN
  IF Len(hms) <= 1 \/ graded = {} THEN hms
  ELSE LET g == Min(graded)
           o == IF g = 1 THEN 2 ELSE g - 1
           merged == AppendSlot(hms[g], hms[o])
           kept == [hms EXCEPT ![g] = merged]
       IN Absorb(SubSeq(kept, 1, o - 1) \o SubSeq(kept, o + 1, Len(kept)))

\* Times with the same hours share an expression, others do not.
DetermineNaturalHms(hms) ==
  LET slots == Absorb(hms)
      all == {slots[i] : i \in DOMAIN slots}
  IN IF hms = <<>> THEN {[hours |-> {All}, minutes |-> {All}]}
     ELSE {[hours |-> x.data0,
            minutes |-> UNION {y.data1 : y \in {z \in all : z.data0 = x.data0}}] :
             x \in all}

\* The slots of a field conflated in the order in which they come.
Grouped(slots, key) ==
  LET of == SelectSeq(slots, LAMBDA x : x.key = key)
      upTo[i \in 1 .. Len(of)] ==
        IF i = 1 THEN of[1] ELSE AppendSlot(upTo[i - 1], of[i])
  IN IF of = <<>> THEN {} ELSE upTo[Len(of)].data0

\* _natural_slots_to_crons: a phrase about days or months without a time runs
\* at midnight, one about months with no day runs on the first.  The names of two
\* zones are joined as those of a list are, and no zone is called that.
NaturalSlotsToCrons(slots) ==
  LET group(key) == Grouped(slots, key)
      hms == SelectSeq(slots, LAMBDA x : x.key = "hm")
      about(keys) == \E key \in keys : group(key) # {}
      timed == IF hms = <<>> /\ about({"monthday", "weekday", "month"})
               THEN <<Slot("hm", {One(0)}, {One(0)}, {}, {})>> ELSE hms
      firstDay == /\ about({"month"}) /\ ~about({"monthday"})
                  /\ hms # <<>> \/ ~about({"weekday"})
      default(key, items) == IF group(key) = {} THEN items ELSE group(key)
  IN {Expression(group("second"), hm.minutes, hm.hours,
                 IF firstDay THEN {One(1)} ELSE default("monthday", {All}),
                 default("month", {All}), default("weekday", {All}), FALSE,
                 IF group("tz") = {} THEN NoZone
                 ELSE CHOOSE z \in group("tz") : TRUE) :
        hm \in {x \in DetermineNaturalHms(timed) : Cardinality(group("tz")) <= 1}}

ExpandNaturalSchedule(phrase) ==
  LET upTo[i \in 0 .. Len(phrase)] ==
        IF i = 0 THEN <<>> ELSE upTo[i - 1] \o ParseSegment(phrase[i])
  IN NaturalSlotsToCrons(upTo[Len(phrase)])

-----------------------------------------------------------------------------
(* A text is a cron expression or a phrase.                                *)

Expressions(text) ==
  IF text.kind = "cron" THEN {text.expression}
  ELSE IF IsParsable(text.phrase) THEN ExpandNaturalSchedule(text.phrase)
  ELSE {}

IsValidCron(text) ==
  /\ Expressions(text) # {}
  /\ \A e \in Expressions(text) : IsValidExpression(e)

ParseSchedule(text) == {ParseCronSchedule(e) : e \in Expressions(text)}
=============================================================================
