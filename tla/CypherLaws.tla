----------------------------- MODULE CypherLaws -----------------------------
(***************************************************************************)
(* What Cypher's values and temporal values must satisfy, over bounded     *)
(* inputs.                                                                 *)
(***************************************************************************)
EXTENDS CypherValues, Inputs

CONSTANTS
    Days,        \* day numbers the calendar is checked on
    BaseDays,    \* days that maps override
    Overrides,   \* maps of date fields
    TimeOverrides,
    Points,      \* temporal values with a date
    TimePoints,  \* temporal values without one
    Zones,       \* time zones, [zone, offset]
    Durations,
    LongDurations,  \* durations with parts beyond the precision of floats
    Divisors,
    Values,      \* Cypher values
    Items        \* elements of lists

Truths == {<<>>, <<TRUE>>, <<FALSE>>}

CypherInit ==
    \/ \E d \in Days : input = [of |-> "day", day |-> d]
    \/ \E d \in BaseDays, m \in Overrides : input = [of |-> "override", day |-> d, map |-> m]
    \/ \E n \in 0 .. DayNs - 1, m \in TimeOverrides : input = [of |-> "time", nanos |-> n, map |-> m]
    \/ \E a \in TimePoints, b \in TimePoints : input = [of |-> "times", a |-> a, b |-> b]
    \/ \E a \in Points, b \in Points : input = [of |-> "span", a |-> a, b |-> b]
    \/ \E a \in Points \cup TimePoints, z \in Zones, d \in {x \in Durations : x.months = 0} :
          input = [of |-> "point", a |-> a, zone |-> z, d |-> d]
    \/ \E d \in Durations, e \in Durations : input = [of |-> "durations", d |-> d, e |-> e]
    \/ \E d \in Durations \cup LongDurations, n \in Divisors : input = [of |-> "division", d |-> d, n |-> n]
    \/ \E x \in Values, y \in Values, z \in Values : input = [of |-> "values", x |-> x, y |-> y, z |-> z]
    \/ \E s \in SeqOf(Truths, 3) : input = [of |-> "truths", s |-> s]
    \/ \E x \in Items, s \in SeqOf(Items, 2) : input = [of |-> "items", x |-> x, s |-> s]
    \/ \E s \in SeqOf({Int_(1), Int_(2), Int_(3)}, 3), i \in -5 .. 5 : input = [of |-> "list", s |-> s, i |-> i]
    \/ \E op \in {"/", "%"}, a \in IntRange, b \in IntRange : input = [of |-> "ints", op |-> op, a |-> a, b |-> b]
    \/ \E a \in IntRange, b \in IntRange, step \in {-2, -1, 1, 2, 3} :
          input = [of |-> "range", a |-> a, b |-> b, step |-> step]
    \/ \E q \in 1 .. 4, n \in 1 .. 6 : \E p \in 0 .. q : input = [of |-> "percentile", p |-> p, q |-> q, n |-> n]

-----------------------------------------------------------------------------
(***************************************************************************)
(* The calendar.                                                           *)
(***************************************************************************)
\* Successive day numbers are successive days of the calendar, across the
\* ends of months, leap days and centuries, and each date counts back to its
\* number (days_from_civil, civil_from_days).
DaysFollowTheCalendar ==
    Is("day") =>
        LET c == civil_from_days(input.day)
            n == civil_from_days(input.day + 1)
        IN  /\ days_from_civil(c.y, c.m, c.d) = input.day
            /\ n = CASE c.d < days_in_month(c.y, c.m) -> [c EXCEPT !.d = @ + 1]
                     [] c.d = days_in_month(c.y, c.m) /\ c.m < 12 -> [c EXCEPT !.m = @ + 1, !.d = 1]
                     [] OTHER -> [y |-> c.y + 1, m |-> 1, d |-> 1]

\* A day is the day of its ISO week, of its year and of its quarter
\* (iso_week, ordinal and the constructors that check their arguments).
DaysAreTheirWeekDates ==
    Is("day") =>
        LET d == input.day
            w == iso_week(d)
            c == civil_from_days(d)
        IN  /\ from_week(w.wy, w.w, weekday(d)) = <<d>>
            /\ from_ordinal(c.y, ordinal(d)) = <<d>>
            /\ from_quarter(c.y, quarter_of(c.m), field(Date(d), "dayofquarter")) = <<d>>

\* A date built over another has the fields the map gave (date_from_map):
\* of the kind of date the code chose, the week's year being its own.
DateOverridesReadBack ==
    Is("override") =>
        LET m == input.map
            weeks == Given(m, "week") \/ Given(m, "dayofweek")
            chosen == CASE weeks                    -> {"week", "dayofweek"}
                        [] Given(m, "ordinalday")   -> {"ordinalday", "year"}
                        [] Given(m, "quarter") \/ Given(m, "dayofquarter") -> {"quarter", "dayofquarter", "year"}
                        [] OTHER                    -> {"year", "month", "day"}
            ReadsBack(r) == r # <<>> =>
                /\ \A k \in DOMAIN m \cap chosen : field(Date(r[1]), k) = m[k]
                /\ weeks => field(Date(r[1]), "weekyear") = Or(m, "year", iso_week(input.day).wy)
        IN  ReadsBack(date_over(m, input.day))

\* A time built over another has the fields the map gave, keeps the larger
\* units and drops none of the smaller (time_from_map): a sub-second field
\* counts from the units above it that the map or the base has.
TimeOverridesReadBack ==
    Is("time") =>
        LET m == input.map
            r == time_over(m, TRUE, input.nanos)
            b == split_time(input.nanos)
            s == split_time(r[1])
            Milli_(x) == x \div Milli
            Micro_(x) == (x \div Thousand) % Thousand
            subs == DOMAIN m \cap SubSecondKeys
        IN  r # <<>> =>
                /\ s.hour = Or(m, "hour", b.hour) /\ s.minute = Or(m, "minute", b.minute)
                /\ s.second = Or(m, "second", b.second)
                /\ subs = {} => s.sub = b.sub
                /\ subs = {"nanosecond"} /\ m.nanosecond < Thousand =>
                      Milli_(s.sub) = Milli_(b.sub) /\ Micro_(s.sub) = Micro_(b.sub) /\ s.sub % Thousand = m.nanosecond
                /\ "millisecond" \in subs => Milli_(s.sub) >= m.millisecond
                /\ "millisecond" \in subs /\ "microsecond" \in subs => Milli_(s.sub) = m.millisecond

\* Dates and times built over others read back as the map says.
OverridesReadBack == DateOverridesReadBack /\ TimeOverridesReadBack

\* Projecting a value to a kind that has its components and back gives the
\* value (construct).
ProjectionsKeepComponents ==
    Is("point") /\ input.a.kind \in {"Date", "LocalDateTime", "LocalTime"} =>
        LET wider == construct(IF input.a.kind = "LocalTime" THEN "Time" ELSE "DateTime", input.a)[1]
        IN  construct(input.a.kind, wider) = <<input.a>>

\* Truncation gives the start of the unit: not later than the day, itself
\* truncated, and the same for every day after it (truncate).
DatesTruncateDown ==
    Is("day") =>
        \A unit \in DateUnits :
            LET d == input.day
                t == truncated_days(unit, d)
            IN  /\ t <= d
                /\ truncated_days(unit, t) = t
                /\ t < d => truncated_days(unit, d - 1) = t
                /\ \A n \in {0, DayNs - 1} :
                      truncate("LocalDateTime", unit, LocalDateTime(d, n)) = <<LocalDateTime(t, 0)>>

\* Truncating to a unit of time keeps the day and floors the time.
TimesTruncateDown ==
    Is("times") =>
        \A unit \in TimeUnits :
            \A t \in {truncate(input.a.kind, unit, input.a)[1]} :
                /\ compare(t, input.a) # <<1>> /\ input.a.nanos - t.nanos < UnitNs[unit]
                /\ truncate(input.a.kind, unit, t) = <<t>>

\* Truncation floors, for units of dates and of times.
TruncationFloors == DatesTruncateDown /\ TimesTruncateDown

-----------------------------------------------------------------------------
(***************************************************************************)
(* Durations and spans.                                                    *)
(***************************************************************************)
\* A value whose offset is the one its zone has: what at_instant and the
\* parser build outside the hours a zone skips or repeats.
Readable(v) == v.kind = "DateTime" => v = at_instant(instant(zoned(v.days, v.nanos, v.zone, v.offset)), v.zone, v.offset)

\* A value in the zone of another, as between sees it.
Beside(v, a) == CASE a.kind # "DateTime" -> v
                  [] v.kind = "DateTime" -> at_instant(instant(v), a.zone, a.offset)
                  [] OTHER               -> zoned(v.days, time_nanos(v), a.zone, a.offset)

Whole(v) == IF v.kind = "Date" THEN LocalDateTime(v.days, 0) ELSE v

\* Adding duration.between(a, b) to a leads to b (between, months_days and
\* add_duration), whatever the ends of months and changes of offset between.
DateSpansReachTheirEnd ==
    Is("span") /\ Readable(input.a) /\ Readable(Beside(input.b, input.a))
               /\ (input.b.kind = "DateTime" => input.a.kind = "DateTime") =>
        LET Reached(r) == IF input.b.kind = "DateTime" THEN instant(r) = instant(input.b)
                          ELSE r.days = input.b.days /\ r.nanos = time_nanos(input.b)
        IN  Reached(add_duration(Whole(input.a), between("between", input.a, input.b)))

\* The same for times of day: a local time is reached, and a time with an
\* offset is reached in the offset of the first.
TimeSpansReachTheirEnd ==
    Is("times") /\ input.a.kind = input.b.kind =>
        LET utc(v) == IF v.kind = "Time" THEN (v.nanos - v.offset * NS) % DayNs ELSE v.nanos
        IN  utc(add_duration(input.a, between("between", input.a, input.b))) = utc(input.b)

\* Spans reach their end, between dates and between times.
SpansReachTheirEnd == DateSpansReachTheirEnd /\ TimeSpansReachTheirEnd

\* A span to a later value has no negative part, and is not longer than a
\* whole month counted from its start (months_days, for local values).
ForwardSpansAdvance ==
    Is("span") /\ {input.a.kind, input.b.kind} \subseteq {"Date", "LocalDateTime"} =>
        LET Forward(s) == s.months >= 0 /\ s.days \in 0 .. 30 /\ s.seconds >= 0 /\ total_nanos(s) < DayNs
        IN  compare(Whole(input.a), Whole(input.b)) \in {<<-1>>, <<0>>} => Forward(between("between", Whole(input.a), Whole(input.b)))

\* The nanoseconds of a duration, and whether its parts are exact as floats.
Length(d) == total_nanos(d) + d.days * DayNs + d.months * MonthNs
ExactParts(d) == \A n \in {d.months, d.days, total_nanos(d)} : Size(n) <= 2^Precision

\* What dividing by n may lose of a duration: a nanosecond per part, and in
\* each of its few roundings half a unit of the last place.
Slack(d, n) == 3 * Size(n) + (4 * (Size(total_nanos(d)) + Size(d.days) * DayNs + Size(d.months) * MonthNs)) \div 2^Precision

\* A duration and its negation cancel.  Doubling adds it to itself and
\* halving undoes doubling, while its parts are exact as floats.  Dividing by
\* n loses at most a nanosecond per part and the floats' roundings, wherever
\* fractions of months and days cascade to.  Adding it to a value and taking
\* it off gives the value where no month is clamped (dur_neg, dur_add, scale,
\* from_parts, component, add_duration).
DurationArithmetic ==
    /\ Is("durations") =>
          /\ dur_add(input.d, dur_neg(input.d)) = Dur(0, 0, 0)
          /\ dur_add(input.d, input.e) = dur_add(input.e, input.d)
          /\ component(input.d, "years") * 12 + component(input.d, "monthsofyear") = input.d.months
          /\ component(input.d, "weeks") * 7 + component(input.d, "daysofweek") = input.d.days
          /\ (component(input.d, "hours") * MinutesOfHour + component(input.d, "minutesofhour")) * SecondsOfMinute
                + component(input.d, "secondsofminute") = input.d.seconds
    /\ Is("division") =>
          /\ ExactParts(input.d) => times(input.d, 2) = dur_add(input.d, input.d) /\ divided(times(input.d, 2), 2) = input.d
          /\ Size(Length(input.d) - input.n * Length(divided(input.d, input.n))) <= Slack(input.d, input.n)
    /\ Is("point") /\ input.d.months = 0 /\ input.a.kind # "Date" /\ Readable(input.a) =>
          LET r == add_duration(add_duration(input.a, input.d), dur_neg(input.d))
          IN  "DateTime" # input.a.kind => r = input.a

\* A rendered duration is read as the same duration, unless it is written
\* with negative months or minutes alone: values keep their text and every
\* operation parses it again (Dur::render, parse_duration).
MostRenderedDurationsParse ==
    Is("durations") /\ ~ReadsAsDate(render(input.d)) => parse_duration(render(input.d)) = <<input.d>>

\* A datetime in another zone is the same instant, and a time the same time
\* in UTC (from_map with a timezone).
ZoneChangesKeepTheInstant ==
    Is("point") /\ Readable(input.a) =>
        /\ input.a.kind = "DateTime" =>
              instant(from_map("DateTime", <<>>, <<input.a>>, <<input.zone>>)[1]) = instant(input.a)
        /\ input.a.kind = "Time" =>
              LET r == from_map("Time", <<>>, <<input.a>>, <<input.zone>>)[1]
              IN  (r.nanos - r.offset * NS) % DayNs = (input.a.nanos - input.a.offset * NS) % DayNs

-----------------------------------------------------------------------------
(***************************************************************************)
(* Values.                                                                 *)
(***************************************************************************)
\* The values a null may stand for, more than a list has elements.
Unknowns == {Int_(1), Int_(2), Int_(3), Int_(4)}
Completions(s) == {f \in [DOMAIN s -> Items \cup Unknowns] :
                      \A i \in DOMAIN s : IF s[i] = Null THEN f[i] \in Unknowns ELSE f[i] = s[i]}
Agreed(results) == IF Cardinality(results) = 1 THEN CHOOSE r \in results : TRUE ELSE <<>>

\* null is an unknown value: a quantifier, IN or an equality of lists is
\* true or false exactly if every value the nulls may stand for makes it so
\* (eval of quantifiers, BinOp::In, cypher_eq of lists).
NullsAreUnknown ==
    /\ Is("truths") =>
          LET s == input.s
              full == {f \in [DOMAIN s -> {<<TRUE>>, <<FALSE>>}] : \A i \in DOMAIN s : s[i] # <<>> => f[i] = s[i]}
          IN  /\ \A q \in {"all", "any", "none", "single"} :
                    Quantified(q, s) = Agreed({Quantified(q, f) : f \in full})
              /\ Quantified("all", s) = FoldLeft(And, <<TRUE>>, s)
              /\ Quantified("any", s) = FoldLeft(OrElse, <<FALSE>>, s)
              /\ Quantified("none", s) = Not(Quantified("any", s))
              /\ Len(s) = 2 => Xor(s[1], s[2]) = And(OrElse(s[1], s[2]), Not(And(s[1], s[2])))
    /\ Is("items") =>
          LET Lists == Completions(input.s)
              X == Completions(<<input.x>>)
          IN  /\ In(input.x, input.s) = Agreed({In(x[1], s) : x \in X, s \in Lists})
              /\ Len(input.s) = 2 =>
                    cypher_eq(List(input.s), List(<<input.x, input.x>>))
                        = Agreed({cypher_eq(List(s), List(<<x[1], y[1]>>)) : s \in Lists, x \in X, y \in X})

Kinds(x) == IF x.t = "temporal" THEN {x.v.kind} ELSE {}

\* ORDER BY sorts by a total order, which < never contradicts: any two
\* values compare opposite ways round, and a value before a second that is
\* before a third is before the third (order, cypher_cmp), for temporal
\* values of one kind.
OrderIsTotal ==
    Is("values") /\ Cardinality(UNION {Kinds(input.x), Kinds(input.y), Kinds(input.z)}) <= 1 =>
        LET x == input.x  y == input.y  z == input.z
        IN  /\ order(x, y) = -order(y, x)
            /\ order(x, y) <= 0 /\ order(y, z) <= 0 => order(x, z) <= 0
            /\ cypher_cmp(x, y) = <<-1>> => order(x, y) <= 0
            /\ cypher_eq(x, y) = <<TRUE>> => order(x, y) = 0

Small(x) == x.t \in {"int", "float"} => as_f64(x) \in -2 * (KeyLimit - 1) .. 2 * (KeyLimit - 1)

ZoneNames(x) == IF x.t = "temporal" /\ "zone" \in DOMAIN x.v THEN {x.v.zone} ELSE {}

\* DISTINCT and grouping keep apart the values = tells apart, and no others
\* (group_key, cypher_eq), for numbers below KeyLimit and datetimes that
\* name one zone.
EqualValuesShareAKey ==
    Is("values") /\ Small(input.x) /\ Small(input.y) /\ Cardinality(ZoneNames(input.x) \cup ZoneNames(input.y)) <= 1 =>
        /\ cypher_eq(input.x, input.y) = <<TRUE>> => group_key(input.x) = group_key(input.y)
        /\ group_key(input.x) = group_key(input.y) => cypher_eq(input.x, input.y) # <<FALSE>> \/ input.x = NaN

\* min() and max() of values in any order are not beyond any of them (Acc).
ExtremesAreExtreme ==
    Is("values") /\ Cardinality(UNION {Kinds(input.x), Kinds(input.y), Kinds(input.z)}) <= 1 =>
        LET s == <<input.x, input.y, input.z>>
        IN  \A i \in 1 .. 3 : s[i] # Null =>
                order(Extreme(s, -1), s[i]) <= 0 /\ order(Extreme(s, 1), s[i]) >= 0

\* A list is its slice up to i followed by its slice from i, and has at i
\* the first element of the latter (slice, index).
SlicesPartition ==
    Is("list") =>
        LET s == input.s  i == input.i
        IN  /\ slice(s, 0, i) \o slice(s, i, Len(s)) = s
            /\ index(s, i) # Null => slice(s, i, Len(s))[1] = index(s, i)

\* Quotient and remainder belong together, and only overflow and zero fail
\* (binary_values).
DivisionIsExact ==
    Is("ints") =>
        LET a == input.a  b == input.b
            q == arith_int("/", a, b)
            r == arith_int("%", a, b)
        IN  /\ q = Error <=> b = 0 \/ (a = MinInt /\ b = -1)
            /\ q # Error => /\ q.v * b + r.v = a
                            /\ r.v \in (IF b > 0 THEN 1 - b ELSE b + 1) .. (IF b > 0 THEN b - 1 ELSE -b - 1)
                            /\ Sign(r.v) \in {0, Sign(a)}

\* percentileDisc takes the first of the sorted values that a share of at
\* least p of them does not exceed (Acc::finish).
PercentilesAreValues ==
    Is("percentile") =>
        LET i == percentile_index(input.p, input.q, input.n)
        IN  /\ i \in 0 .. input.n - 1
            /\ (i + 1) * input.q >= input.p * input.n
            /\ i > 0 => i * input.q < input.p * input.n

\* range() is the arithmetic progression up to its bound, if the step after
\* the last element fits an integer.
RangesAreProgressions ==
    Is("range") /\ input.b + input.step \in IntRange =>
        LET a == input.a  b == input.b  step == input.step
            n == Cardinality({k \in 0 .. 2 * MaxInt + 1 :
                                 IF step > 0 THEN a + k * step <= b ELSE a + k * step >= b})
        IN  range(a, b, step, 4 * MaxInt) = List([k \in 1 .. n |-> Int_(a + (k - 1) * step)])
=============================================================================
