----------------------------- MODULE Temporals ------------------------------
(***************************************************************************)
(* Cypher's temporal values (oxilite-cypher, temporal.rs): the calendar,   *)
(* durations, construction from maps, truncation, arithmetic, comparison   *)
(* and the spans between two values.                                       *)
(*                                                                         *)
(* A value is a record whose kind says which fields it has; days count     *)
(* from 1970-01-01 and nanos within the day.  The number of hours of a     *)
(* day, minutes of an hour and so on are parameters: the code's 24, 60, 60 *)
(* and 1000 and smaller ones obey the same formulas.  So is the precision  *)
(* of floats, above which the formulas on durations are only approximate.  *)
(***************************************************************************)
EXTENDS Integers, Sequences, FiniteSets, SequencesExt

CONSTANTS
    HoursOfDay, MinutesOfHour, SecondsOfMinute,
    Thousand,      \* milliseconds of a second, and so on down to nanoseconds
    MonthSeconds,  \* MONTH_SECONDS
    Precision,     \* bits of the mantissa of a float, 53
    ZoneRules      \* time zone name -> [at, before, after]: one change of offset

ASSUME UnitsAssumption ==
    /\ {HoursOfDay, MinutesOfHour, SecondsOfMinute, Thousand, MonthSeconds, Precision} \subseteq Nat \ {0}
    /\ \A z \in DOMAIN ZoneRules : {ZoneRules[z].at, ZoneRules[z].before, ZoneRules[z].after} \subseteq Int

Milli    == Thousand * Thousand
NS       == Thousand * Milli
MinuteNs == SecondsOfMinute * NS
HourNs   == MinutesOfHour * MinuteNs
DayNs    == HoursOfDay * HourNs
MonthNs  == MonthSeconds * NS

\* The constants the code converts to floats are exact.
ASSUME PrecisionAssumption == DayNs < 2^Precision /\ MonthNs < 2^Precision

\* Rust's / and % truncate toward zero.
Quot(a, b) == IF a >= 0 THEN a \div b ELSE -((-a) \div b)
Rem(a, b)  == a - b * Quot(a, b)
Least(a, b) == IF a <= b THEN a ELSE b

-----------------------------------------------------------------------------
(***************************************************************************)
(* The calendar.                                                           *)
(***************************************************************************)
days_from_civil(y, m, d) ==
    LET YearDays(yy) == (yy \div 400) * 146097 + (yy % 400) * 365 + (yy % 400) \div 4 - (yy % 400) \div 100
        doy == (153 * ((m + 9) % 12) + 2) \div 5 + d - 1
    IN  YearDays(IF m <= 2 THEN y - 1 ELSE y) + doy - 719468

year_of_era(doe) == (doe - doe \div 1460 + doe \div 36524 - doe \div 146096) \div 365
of_month(era, yoe, doy, mp) ==
    [y |-> yoe + era * 400 + (IF mp < 10 THEN 0 ELSE 1), m |-> IF mp < 10 THEN mp + 3 ELSE mp - 9,
     d |-> doy - (153 * mp + 2) \div 5 + 1]
of_day(era, yoe, doy) == of_month(era, yoe, doy, (5 * doy + 2) \div 153)
of_year(era, doe, yoe) == of_day(era, yoe, doe - (365 * yoe + yoe \div 4 - yoe \div 100))
of_era(era, doe) == of_year(era, doe, year_of_era(doe))
civil_from_days(z) == of_era((z + 719468) \div 146097, (z + 719468) % 146097)

is_leap(y) == (y % 4 = 0 /\ y % 100 # 0) \/ y % 400 = 0

days_in_month(y, m) ==
    CASE m \in {1, 3, 5, 7, 8, 10, 12} -> 31
      [] m \in {4, 6, 9, 11}           -> 30
      [] OTHER                         -> IF is_leap(y) THEN 29 ELSE 28

weekday(days) == ((days + 3) % 7) + 1
ordinal(days) == days - days_from_civil(civil_from_days(days).y, 1, 1) + 1

iso_week(days) ==
    LET thursday == days + (4 - weekday(days))
        wy       == civil_from_days(thursday).y
    IN  [wy |-> wy, w |-> (thursday - days_from_civil(wy, 1, 1)) \div 7 + 1]

week1_monday(wy)  == LET jan4 == days_from_civil(wy, 1, 4) IN jan4 - (weekday(jan4) - 1)
weeks_in_year(wy) == (week1_monday(wy + 1) - week1_monday(wy)) \div 7
quarter_of(m)     == (m - 1) \div 3 + 1
quarter_start(y, q) == days_from_civil(y, (q - 1) * 3 + 1, 1)

add_months(days, months) ==
    LET On(y, m, d) == days_from_civil(y, m, Least(d, days_in_month(y, m)))
        Moved(c) == On((c.y * 12 + (c.m - 1) + months) \div 12, ((c.m - 1 + months) % 12) + 1, c.d)
    IN  Moved(civil_from_days(days))

\* Constructors that check their arguments; a day number or nothing.
check_date(y, m, d) ==
    IF m \in 1 .. 12 /\ d \in 1 .. days_in_month(y, m) THEN <<days_from_civil(y, m, d)>> ELSE <<>>

from_week(wy, w, dow) ==
    IF w \in 1 .. weeks_in_year(wy) /\ dow \in 1 .. 7
    THEN <<week1_monday(wy) + (w - 1) * 7 + (dow - 1)>> ELSE <<>>

from_ordinal(y, od) ==
    IF od \in 1 .. (IF is_leap(y) THEN 366 ELSE 365)
    THEN <<days_from_civil(y, 1, 1) + od - 1>> ELSE <<>>

from_quarter(y, q, dq) ==
    IF q \in 1 .. 4 /\ dq \in 1 .. (quarter_start(y + q \div 4, (q % 4) + 1) - quarter_start(y, q))
    THEN <<quarter_start(y, q) + dq - 1>> ELSE <<>>

-----------------------------------------------------------------------------
(***************************************************************************)
(* Construction from the fields of a map, over an optional base.  Optional *)
(* results are sequences of at most one element; << >> is the error.       *)
(***************************************************************************)
Given(m, k)      == k \in DOMAIN m
Or(m, k, other)  == IF Given(m, k) THEN m[k] ELSE other

date_of_fields(m) ==
    CASE ~Given(m, "year")       -> <<>>
      [] Given(m, "week")        -> from_week(m.year, m.week, Or(m, "dayofweek", 1))
      [] Given(m, "ordinalday")  -> from_ordinal(m.year, m.ordinalday)
      [] Given(m, "quarter")     -> from_quarter(m.year, m.quarter, Or(m, "dayofquarter", 1))
      [] Given(m, "day") /\ ~Given(m, "month") -> <<>>
      [] OTHER                   -> check_date(m.year, Or(m, "month", 1), Or(m, "day", 1))

\* date_from_map with a base date.
date_over(m, base) ==
    LET c  == civil_from_days(base)
        wk == iso_week(base)
        bq == quarter_of(c.m)
    IN  CASE Given(m, "week")       -> from_week(Or(m, "year", wk.wy), m.week, Or(m, "dayofweek", weekday(base)))
          [] Given(m, "dayofweek")  -> from_week(Or(m, "year", wk.wy), wk.w, m.dayofweek)
          [] Given(m, "ordinalday") -> from_ordinal(Or(m, "year", c.y), m.ordinalday)
          [] Given(m, "quarter") \/ Given(m, "dayofquarter") ->
                from_quarter(Or(m, "year", c.y), Or(m, "quarter", bq),
                             Or(m, "dayofquarter", base - quarter_start(c.y, bq) + 1))
          [] OTHER                  -> check_date(Or(m, "year", c.y), Or(m, "month", c.m), Or(m, "day", c.d))

split_time(nanos) ==
    [hour |-> nanos \div HourNs, minute |-> (nanos \div MinuteNs) % MinutesOfHour,
     second |-> (nanos \div NS) % SecondsOfMinute, sub |-> nanos % NS]

\* The part of a second, [milli, micro, nano] each below its limit.
sub_second(m, based, bn) ==
    LET keepMicro == /\ based /\ ~Given(m, "millisecond") /\ ~Given(m, "microsecond")
                     /\ m.nanosecond < Thousand
        keepMilli == /\ based /\ ~Given(m, "millisecond") /\ Given(m, "microsecond")
                     /\ m.microsecond < Thousand
        ms == IF keepMicro \/ keepMilli THEN bn \div Milli ELSE Or(m, "millisecond", 0)
        us == IF keepMicro THEN (bn \div Thousand) % Thousand ELSE Or(m, "microsecond", 0)
        ns == Or(m, "nanosecond", 0)
        usLimit == IF keepMicro \/ keepMilli \/ Given(m, "millisecond") THEN Thousand ELSE Milli
        nsLimit == CASE keepMicro \/ keepMilli \/ Given(m, "microsecond") -> Thousand
                     [] Given(m, "millisecond") -> Milli
                     [] OTHER -> NS
    IN  IF ms \in 0 .. Thousand - 1 /\ us \in 0 .. usLimit - 1 /\ ns \in 0 .. nsLimit - 1
        THEN <<ms * Milli + us * Thousand + ns>> ELSE <<>>

SubSecondKeys == {"millisecond", "microsecond", "nanosecond"}
TimeKeys      == {"hour", "minute", "second"} \cup SubSecondKeys

\* time_from_map; based says whether there is a base time.
time_over(m, based, base) ==
    LET b   == split_time(base)
        sub == IF DOMAIN m \cap SubSecondKeys # {} THEN sub_second(m, based, b.sub) ELSE <<b.sub>>
        h   == Or(m, "hour", b.hour)
        mi  == Or(m, "minute", b.minute)
        s   == Or(m, "second", b.second)
        gap == ~based /\ (\/ Given(m, "minute") /\ ~Given(m, "hour")
                          \/ Given(m, "second") /\ ~Given(m, "minute"))
    IN  IF /\ sub # <<>> /\ ~gap
           /\ h \in 0 .. HoursOfDay - 1 /\ mi \in 0 .. MinutesOfHour - 1 /\ s \in 0 .. SecondsOfMinute - 1
        THEN <<h * HourNs + mi * MinuteNs + s * NS + sub[1]>> ELSE <<>>

-----------------------------------------------------------------------------
(***************************************************************************)
(* Zones.  A zone is "offset" with a fixed offset in seconds, or a name.   *)
(***************************************************************************)
\* The time zone database: the offset at an instant, and at a local time,
\* where a time that occurs twice takes the first and one that is skipped
\* the offset after the change.
offset_at_instant(name, second) ==
    IF second < ZoneRules[name].at THEN ZoneRules[name].before ELSE ZoneRules[name].after

offset_at_local(name, days, nanos) ==
    LET local == (days * DayNs + nanos) \div NS
        r     == ZoneRules[name]
    IN  IF local < r.at + r.before THEN r.before ELSE r.after

Date(d)                == [kind |-> "Date", days |-> d]
LocalTime(n)           == [kind |-> "LocalTime", nanos |-> n]
Time(n, o)             == [kind |-> "Time", nanos |-> n, zone |-> "offset", offset |-> o]
LocalDateTime(d, n)    == [kind |-> "LocalDateTime", days |-> d, nanos |-> n]
DateTime(d, n, z, o)   == [kind |-> "DateTime", days |-> d, nanos |-> n, zone |-> z, offset |-> o]

HasDate(v)    == "days" \in DOMAIN v
HasTime(v)    == "nanos" \in DOMAIN v
time_nanos(v) == IF HasTime(v) THEN v.nanos ELSE 0
instant(v)    == v.days * DayNs + v.nanos - v.offset * NS

zone_offset_now(z, o, days, nanos) == IF z = "offset" THEN o ELSE offset_at_local(z, days, nanos)
zoned(days, nanos, z, o)           == DateTime(days, nanos, z, zone_offset_now(z, o, days, nanos))

at_instant(inst, z, o) ==
    LET off   == IF z = "offset" THEN o ELSE offset_at_instant(z, inst \div NS)
        local == inst + off * NS
    IN  DateTime(local \div DayNs, local % DayNs, z, off)

-----------------------------------------------------------------------------
(***************************************************************************)
(* from_map and construct: base is the value the map holds under the key   *)
(* of its kind (date, time or datetime) or << >>, m the other fields, and  *)
(* zone the time zone asked for, [zone, offset], or << >>.                 *)
(***************************************************************************)
from_date(m, base) ==
    IF base # <<>> /\ HasDate(base[1]) THEN date_over(m, base[1].days) ELSE date_of_fields(m)

from_time(m, base) ==
    IF base # <<>> /\ HasTime(base[1]) THEN time_over(m, TRUE, base[1].nanos)
                                       ELSE time_over(m, FALSE, 0)

\* The datetime of a local date and time: a new zone keeps the instant.
from_map_zoned(d, n, zone, src) ==
    CASE zone # <<>> /\ src # <<>> ->
            LET so == zone_offset_now(src[1].zone, src[1].offset, d, n)
            IN  <<at_instant(d * DayNs + n - so * NS, zone[1].zone, zone[1].offset)>>
      [] zone # <<>> /\ src = <<>> -> <<zoned(d, n, zone[1].zone, zone[1].offset)>>
      [] zone = <<>> /\ src # <<>> -> <<zoned(d, n, src[1].zone, src[1].offset)>>
      [] OTHER                     -> <<DateTime(d, n, "offset", 0)>>

\* The time of day likewise, on the day of the base.
from_map_time(n, day, zone, src) ==
    LET off(z) == zone_offset_now(z.zone, z.offset, day, n)
    IN  CASE zone # <<>> /\ src # <<>> ->
                <<Time((n - off(src[1]) * NS + off(zone[1]) * NS) % DayNs, off(zone[1]))>>
          [] zone # <<>> /\ src = <<>> -> <<Time(n, off(zone[1]))>>
          [] zone = <<>> /\ src # <<>> -> <<Time(n, off(src[1]))>>
          [] OTHER                     -> <<Time(n, 0)>>

from_map(kind, m, base, zone) ==
    LET src == IF base # <<>> /\ "zone" \in DOMAIN base[1] THEN base ELSE <<>>
        anyTime == (DOMAIN m \cap TimeKeys # {}) \/ (base # <<>> /\ HasTime(base[1]))
        day == IF base # <<>> /\ HasDate(base[1]) THEN base[1].days ELSE 0
        Of(d, n) ==
            CASE kind = "Date"          -> IF d = <<>> THEN <<>> ELSE <<Date(d[1])>>
              [] kind = "LocalTime"     -> IF n = <<>> \/ ~anyTime THEN <<>> ELSE <<LocalTime(n[1])>>
              [] kind = "Time"          -> IF n = <<>> \/ ~anyTime THEN <<>> ELSE from_map_time(n[1], day, zone, src)
              [] kind = "LocalDateTime" -> IF d = <<>> \/ n = <<>> THEN <<>> ELSE <<LocalDateTime(d[1], n[1])>>
              [] kind = "DateTime"      -> IF d = <<>> \/ n = <<>> THEN <<>> ELSE from_map_zoned(d[1], n[1], zone, src)
    IN  Of(from_date(m, base), from_time(m, base))

\* Projection of one value to another kind.
construct(kind, v) == from_map(kind, <<>>, <<v>>, <<>>)

\* Component access.
field(v, key) ==
    LET c == civil_from_days(v.days) IN
    CASE key = "year"         -> c.y
      [] key = "quarter"      -> quarter_of(c.m)
      [] key = "month"        -> c.m
      [] key = "day"          -> c.d
      [] key = "week"         -> iso_week(v.days).w
      [] key = "weekyear"     -> iso_week(v.days).wy
      [] key = "ordinalday"   -> ordinal(v.days)
      [] key = "dayofweek"    -> weekday(v.days)
      [] key = "dayofquarter" -> v.days - quarter_start(c.y, quarter_of(c.m)) + 1

-----------------------------------------------------------------------------
(***************************************************************************)
(* Truncation.                                                             *)
(***************************************************************************)
DateUnits == {"millennium", "century", "decade", "year", "weekyear", "quarter", "month", "week", "day"}
TimeUnits == {"hour", "minute", "second", "millisecond", "microsecond"}

truncated_days(unit, days) ==
    LET c == civil_from_days(days) IN
    CASE unit = "millennium" -> days_from_civil((c.y \div 1000) * 1000, 1, 1)
      [] unit = "century"    -> days_from_civil((c.y \div 100) * 100, 1, 1)
      [] unit = "decade"     -> days_from_civil((c.y \div 10) * 10, 1, 1)
      [] unit = "year"       -> days_from_civil(c.y, 1, 1)
      [] unit = "weekyear"   -> week1_monday(iso_week(days).wy)
      [] unit = "quarter"    -> quarter_start(c.y, quarter_of(c.m))
      [] unit = "month"      -> days_from_civil(c.y, c.m, 1)
      [] unit = "week"       -> days - (weekday(days) - 1)
      [] OTHER               -> days

UnitNs == [hour |-> HourNs, minute |-> MinuteNs, second |-> NS, millisecond |-> Milli, microsecond |-> Thousand]
truncated_nanos(unit, n) == IF unit \in TimeUnits THEN n - (n % UnitNs[unit]) ELSE 0

\* x.truncate(unit, v) without overrides; nothing where the code fails.
truncate(kind, unit, v) ==
    LET td == truncated_days(unit, v.days)
        tn == truncated_nanos(unit, time_nanos(v))
        zn == IF "zone" \in DOMAIN v THEN v.zone ELSE "offset"
        of == IF "offset" \in DOMAIN v THEN v.offset ELSE 0
    IN  CASE kind = "LocalTime" /\ (HasDate(v) \/ unit \notin DateUnits \ {"day"}) -> <<LocalTime(tn)>>
          [] kind = "Time"      /\ (HasDate(v) \/ unit \notin DateUnits \ {"day"}) -> <<Time(tn, of)>>
          [] kind = "Date" /\ HasDate(v)          -> <<Date(td)>>
          [] kind = "LocalDateTime" /\ HasDate(v) -> <<LocalDateTime(td, tn)>>
          [] kind = "DateTime" /\ HasDate(v)      -> <<zoned(td, tn, zn, of)>>
          [] OTHER                                -> <<>>

-----------------------------------------------------------------------------
(***************************************************************************)
(* Durations.                                                              *)
(***************************************************************************)
Dur(months, days, total) == [months |-> months, days |-> days, seconds |-> total \div NS, nanos |-> total % NS]
total_nanos(d) == d.seconds * NS + d.nanos
dur_neg(d)     == Dur(-d.months, -d.days, -total_nanos(d))
dur_add(d, e)  == Dur(d.months + e.months, d.days + e.days, total_nanos(d) + total_nanos(e))

\* An f64 is [m, x], the number m * 2^x with m of Precision bits; a result
\* that needs more is rounded to the nearest, and to even from the middle.
Size(n) == IF n < 0 THEN -n ELSE n
Signed(n, size) == IF n < 0 THEN -size ELSE size
HalfEven(n, q) == n \div q + (IF 2 * (n % q) > q \/ (2 * (n % q) = q /\ (n \div q) % 2 = 1) THEN 1 ELSE 0)
Nearest(m, x) ==
    LET k == CHOOSE i \in 0 .. 2 * Precision : Size(m) <= 2^(Precision + i) /\ (i = 0 \/ Size(m) > 2^(Precision + i - 1))
    IN  [m |-> Signed(m, HalfEven(Size(m), 2^k)), x |-> x + k]
to_f64(n) == Nearest(n, 0)
Product(f, g) == Nearest(f.m * g.m, f.x + g.x)
one_over(n) ==
    LET k == CHOOSE i \in 0 .. 2 * Precision : Size(n) * 2^(Precision - 1) <= 2^i /\ 2^i < Size(n) * 2^Precision
    IN  [m |-> Signed(n, HalfEven(2^k, Size(n))), x |-> -k]
trunc(f) == IF f.x >= 0 THEN f.m * 2^f.x ELSE Quot(f.m, 2^(-f.x))
fract(f) == [m |-> IF f.x >= 0 THEN 0 ELSE Rem(f.m, 2^(-f.x)), x |-> f.x]
\* f64::round, half away from zero.
round(f) == IF f.x >= 0 THEN f.m * 2^f.x ELSE Signed(f.m, (2 * Size(f.m) + 2^(-f.x)) \div 2^(1 - f.x))

\* from_parts of parts that are not all exact integers: the fractions of
\* months and days cascade into the smaller units.
from_parts(months, days, nanos) ==
    LET monthNs == round(Product(Product(fract(months), to_f64(MonthSeconds)), to_f64(NS)))
        dayNs   == round(Product(fract(days), to_f64(DayNs)))
    IN  Dur(trunc(months), trunc(days) + Quot(monthNs, DayNs), Rem(monthNs, DayNs) + dayNs + trunc(nanos))

scale(d, f) == from_parts(Product(to_f64(d.months), f), Product(to_f64(d.days), f), Product(to_f64(total_nanos(d)), f))

\* A duration multiplied and divided by a number (arith).
times(d, n)   == scale(d, to_f64(n))
divided(d, n) == scale(d, one_over(n))

\* The components that select parts of a duration, and what they sum to.
component(d, key) ==
    CASE key = "years"           -> Quot(d.months, 12)
      [] key = "monthsofyear"    -> Rem(d.months, 12)
      [] key = "quartersofyear"  -> Rem(Quot(d.months, 3), 4)
      [] key = "monthsofquarter" -> Rem(d.months, 3)
      [] key = "weeks"           -> Quot(d.days, 7)
      [] key = "daysofweek"      -> Rem(d.days, 7)
      [] key = "hours"           -> Quot(d.seconds, MinutesOfHour * SecondsOfMinute)
      [] key = "minutesofhour"   -> Rem(Quot(d.seconds, SecondsOfMinute), MinutesOfHour)
      [] key = "secondsofminute" -> Rem(d.seconds, SecondsOfMinute)
      [] key = "nanosecondsofsecond" -> d.nanos

\* Dur::render: the written units, each with its signed amount.
render(d) ==
    LET t    == total_nanos(d)
        a    == IF t < 0 THEN -t ELSE t
        sign == IF t < 0 THEN -1 ELSE 1
        h    == sign * (a \div HourNs)
        mi   == sign * ((a \div MinuteNs) % MinutesOfHour)
        s    == sign * (a % MinuteNs)
        Token(part, unit, n) == IF n = 0 THEN <<>> ELSE <<[part |-> part, unit |-> unit, n |-> n]>>
    IN  IF d = Dur(0, 0, 0) THEN <<[part |-> "time", unit |-> "S", n |-> 0]>>
        ELSE Token("date", "Y", Quot(d.months, 12)) \o Token("date", "M", Rem(d.months, 12))
             \o Token("date", "D", d.days)
             \o Token("time", "H", h) \o Token("time", "M", mi) \o Token("time", "S", s)

\* parse_duration: text with a minus sign and none of Y, W, D, H and S is
\* taken for the alternative form P<date>T<time>, which it then is not.
ReadsAsDate(text) ==
    /\ \E i \in DOMAIN text : text[i].n < 0
    /\ \A i \in DOMAIN text : text[i].unit \notin {"Y", "W", "D", "H", "S"}

Amount(text, part, units) ==
    FoldLeft(LAMBDA sum, k : sum + (IF k.part = part /\ k.unit \in DOMAIN units THEN k.n * units[k.unit] ELSE 0), 0, text)

parse_duration(text) ==
    IF ReadsAsDate(text) THEN <<>>
    ELSE <<Dur(Amount(text, "date", [Y |-> 12, M |-> 1]), Amount(text, "date", [W |-> 7, D |-> 1]),
               Amount(text, "time", [H |-> HourNs, M |-> MinuteNs, S |-> 1]))>>

-----------------------------------------------------------------------------
(***************************************************************************)
(* Arithmetic, comparison and spans.                                       *)
(***************************************************************************)
\* Mutant of add_duration: the days are added before the months.
add_duration_days_first(v, d) ==
    LET total == add_months(v.days + d.days, d.months) * DayNs + time_nanos(v) + total_nanos(d)
    IN  CASE v.kind = "Date"          -> Date(total \div DayNs)
          [] v.kind = "LocalDateTime" -> LocalDateTime(total \div DayNs, total % DayNs)
          [] OTHER                    -> v

add_duration(v, d) ==
    LET n == total_nanos(d)
        On(base) ==
            CASE v.kind = "Date"          -> Date(base + Quot(n, DayNs))
              [] v.kind = "LocalDateTime" -> LocalDateTime(base + (v.nanos + n) \div DayNs, (v.nanos + n) % DayNs)
              [] v.kind = "DateTime"      ->
                    at_instant(instant(zoned(base, v.nanos, v.zone, v.offset)) + n, v.zone, v.offset)
    IN  CASE v.kind = "LocalTime" -> LocalTime((v.nanos + n) % DayNs)
          [] v.kind = "Time"      -> Time((v.nanos + n) % DayNs, v.offset)
          [] OTHER                -> On(add_months(v.days, d.months) + d.days)

Sign(n) == IF n < 0 THEN -1 ELSE IF n > 0 THEN 1 ELSE 0

\* compare: -1, 0 or 1, and nothing for values of different kinds.
compare(a, b) ==
    LET utc(t) == t.nanos - t.offset * NS IN
    CASE a.kind # b.kind               -> <<>>
      [] a.kind = "Date"               -> <<Sign(a.days - b.days)>>
      [] a.kind = "LocalTime"          -> <<Sign(a.nanos - b.nanos)>>
      [] a.kind = "Time"               -> <<IF utc(a) # utc(b) THEN Sign(utc(a) - utc(b))
                                                              ELSE Sign(b.offset - a.offset)>>
      [] a.kind = "LocalDateTime"      -> <<Sign((a.days - b.days) * DayNs + a.nanos - b.nanos)>>
      [] a.kind = "DateTime"           -> <<Sign(instant(a) - instant(b))>>

equal(a, b) ==
    CASE a.kind # b.kind     -> FALSE
      [] a.kind = "Time"     -> a = b
      [] a.kind = "DateTime" -> instant(a) = instant(b) /\ \/ /\ a.zone = b.zone
                                                              /\ a.zone = "offset" => a.offset = b.offset
                                                           \/ a.days = b.days /\ a.nanos = b.nanos /\ a.offset = b.offset
      [] OTHER               -> compare(a, b) = <<0>>

\* Whole months, then whole days.
months_days(da, na, db, nb) ==
    LET Before(d, n, e, k) == d < e \/ (d = e /\ n < k)
        Whole_(raw, d1, d2) == CASE raw > 0 /\ Before(d2, nb, d1, na) -> raw - 1
                                 [] raw < 0 /\ Before(d1, na, d2, nb) -> raw + 1
                                 [] OTHER                             -> raw
        Months(c1, c2) == Whole_((c2.y * 12 + c2.m) - (c1.y * 12 + c1.m), c1.d, c2.d)
        Days_(months) == [months |-> months, days |-> Quot((db - add_months(da, months)) * DayNs + nb - na, DayNs)]
    IN  Days_(Months(civil_from_days(da), civil_from_days(db)))

\* A zone of the two values, the first one's if it has one.
ZoneOfSpan(a, b) == IF a.kind = "DateTime" THEN <<a>> ELSE IF b.kind = "DateTime" THEN <<b>> ELSE <<>>

\* between of two values with dates: local times in the zone, if there is one.
between_dates(unit, a, b) ==
    LET z == ZoneOfSpan(a, b)
        Local(v) == IF v.kind = "DateTime" THEN at_instant(instant(v), z[1].zone, z[1].offset)
                                           ELSE LocalDateTime(v.days, time_nanos(v))
        At(d, n) == IF z = <<>> THEN d * DayNs + n ELSE instant(zoned(d, n, z[1].zone, z[1].offset))
        Span(la, start, end, md) ==
            CASE unit = "inseconds" -> Dur(0, 0, end - start)
              [] unit = "inmonths"  -> Dur(md.months, 0, 0)
              [] unit = "indays"    -> IF z = <<>> THEN Dur(0, Quot(end - start, DayNs), 0)
                                       ELSE Dur(0, add_months(la.days, md.months) - la.days + md.days, 0)
              [] OTHER              -> Dur(md.months, md.days,
                                           end - At(add_months(la.days, md.months) + md.days, la.nanos))
        Between(la, lb) == Span(la, At(la.days, la.nanos), At(lb.days, lb.nanos), months_days(la.days, la.nanos, lb.days, lb.nanos))
    IN  Between(Local(a), Local(b))

\* between where a value has no date: times of day, in UTC if both have an
\* offset; a datetime lends its day and zone to a local time.
between_times(unit, a, b) ==
    LET z == ZoneOfSpan(a, b)
        other == IF a.kind = "DateTime" THEN b ELSE a
        On(v) == CASE v.kind = "DateTime" -> instant(v)
                   [] v.kind = "Time"     -> z[1].days * DayNs + v.nanos - v.offset * NS
                   [] OTHER               -> instant(zoned(z[1].days, time_nanos(v), z[1].zone, z[1].offset))
        utc(v) == v.nanos - v.offset * NS
    IN  CASE unit \in {"inmonths", "indays"}            -> Dur(0, 0, 0)
          [] z # <<>> /\ other.kind = "Time"            -> Dur(0, 0, (On(b) % DayNs) - (On(a) % DayNs))
          [] z # <<>> /\ other.kind # "Time"            -> Dur(0, 0, On(b) - On(a))
          [] a.kind = "Time" /\ b.kind = "Time"         -> Dur(0, 0, utc(b) - utc(a))
          [] OTHER                                      -> Dur(0, 0, time_nanos(b) - time_nanos(a))

between(unit, a, b) == IF HasDate(a) /\ HasDate(b) THEN between_dates(unit, a, b) ELSE between_times(unit, a, b)
=============================================================================
