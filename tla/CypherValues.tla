---------------------------- MODULE CypherValues ----------------------------
(***************************************************************************)
(* Cypher values and the evaluator's operators on them (oxilite-cypher,    *)
(* value.rs and eval.rs): equality, comparison, the order of ORDER BY, the *)
(* keys of DISTINCT, three-valued logic, lists, checked arithmetic and    *)
(* aggregates.                                                             *)
(*                                                                         *)
(* A value is a record with its type t.  Integers have the width of        *)
(* MaxInt.  A float is counted in halves and is exact up to Exact; above   *)
(* it only even integers are floats (the code's 2^53 bits of mantissa).    *)
(* An optional result is a sequence of at most one element; an operator    *)
(* that fails returns Error.                                               *)
(***************************************************************************)
EXTENDS Temporals

CONSTANTS
    MaxInt,    \* i64::MAX
    Exact,     \* the largest integer below which every integer is a float
    KeyLimit   \* 9.0e15: below it an integral float has an integer's key

ASSUME WidthAssumption == MaxInt \in Nat /\ Exact \in Nat /\ KeyLimit \in Nat

MinInt == -MaxInt - 1
IntRange == MinInt .. MaxInt

Null        == [t |-> "null"]
Error       == [t |-> "error"]
Bool(b)     == [t |-> "bool", v |-> b]
Int_(i)     == [t |-> "int", v |-> i]
Float(h)    == [t |-> "float", v |-> h]
NaN         == [t |-> "nan"]
Str(s)      == [t |-> "string", v |-> s]
Temporal(x) == [t |-> "temporal", v |-> x]
List(s)     == [t |-> "list", v |-> s]
Map(f)      == [t |-> "map", v |-> f]     \* keys are ranks, as strings are
Node(n)     == [t |-> "node", v |-> n]

Numbers    == {"int", "float", "nan"}
OrNull(r)  == IF r = <<>> THEN Null ELSE Bool(r[1])

\* as_f64 of an integer or a float, in halves: beyond Exact to the nearest even.
as_f64(x) ==
    IF x.t = "float" THEN x.v
    ELSE LET i == x.v IN
         IF i \in -Exact .. Exact \/ i % 2 = 0 THEN 2 * i
         ELSE IF (i + 1) % 4 = 0 THEN 2 * (i + 1) ELSE 2 * (i - 1)

-----------------------------------------------------------------------------
(***************************************************************************)
(* Equality, comparison, order and grouping.                               *)
(***************************************************************************)

\* Every element unequal or unknown decides: FALSE first, then unknown.
AllOf(results) ==
    CASE \E i \in DOMAIN results : results[i] = <<FALSE>> -> <<FALSE>>
      [] \E i \in DOMAIN results : results[i] = <<>>      -> <<>>
      [] OTHER                                            -> <<TRUE>>

\* Cypher's =
RECURSIVE cypher_eq(_, _)
cypher_eq(x, y) ==
    CASE "null" \in {x.t, y.t}                 -> <<>>
      [] x.t \in Numbers /\ y.t \in Numbers    ->
            <<CASE "nan" \in {x.t, y.t}        -> FALSE
                [] x.t = "int" /\ y.t = "int"  -> x.v = y.v
                [] OTHER                       -> as_f64(x) = as_f64(y)>>
      [] x.t # y.t                             -> <<FALSE>>
      [] x.t = "temporal"                      -> <<equal(x.v, y.v)>>
      [] x.t = "list"                          ->
            IF Len(x.v) # Len(y.v) THEN <<FALSE>>
            ELSE AllOf([i \in DOMAIN x.v |-> cypher_eq(x.v[i], y.v[i])])
      [] x.t = "map"                           ->
            IF DOMAIN x.v # DOMAIN y.v THEN <<FALSE>>
            ELSE AllOf([k \in DOMAIN x.v |-> cypher_eq(x.v[k], y.v[k])])
      [] OTHER                                 -> <<x.v = y.v>>

\* Strings are compared by a rank that stands for their text.
Rank(x) == IF x.t = "bool" THEN (IF x.v THEN 1 ELSE 0) ELSE x.v

\* The first difference of two lists, or their lengths; what a comparison
\* of elements cannot tell is the caller's Unknown.
Lexical(Cmp(_, _), x, y) ==
    LET n    == Least(Len(x), Len(y))
        diff == {i \in 1 .. n : Cmp(x[i], y[i]) # <<0>>}
    IN  IF diff = {} THEN <<Sign(Len(x) - Len(y))>>
        ELSE LET i == CHOOSE k \in diff : \A j \in diff : k <= j IN Cmp(x[i], y[i])

\* Cypher's <
RECURSIVE cypher_cmp(_, _)
cypher_cmp(x, y) ==
    CASE x.t \in Numbers /\ y.t \in Numbers ->
            CASE "nan" \in {x.t, y.t}       -> <<>>
              [] x.t = "int" /\ y.t = "int" -> <<Sign(x.v - y.v)>>
              [] OTHER                      -> <<Sign(as_f64(x) - as_f64(y))>>
      [] x.t # y.t                          -> <<>>
      [] x.t \in {"string", "bool"}         -> <<Sign(Rank(x) - Rank(y))>>
      [] x.t = "temporal"                   -> compare(x.v, y.v)
      [] x.t = "list"                       -> Lexical(cypher_cmp, x.v, y.v)
      [] OTHER                              -> <<>>

order_rank(x) ==
    CASE x.t = "map" -> 0 [] x.t = "node" -> 1 [] x.t = "list" -> 3 [] x.t = "temporal" -> 5
      [] x.t = "string" -> 6 [] x.t = "bool" -> 7 [] x.t \in Numbers -> 8 [] x.t = "null" -> 9

\* Numbers are ordered as floats, NaN last.
OrderOfNumbers(x, y) ==
    LET nan(z) == IF z.t = "nan" THEN 1 ELSE 0 IN
    IF "nan" \in {x.t, y.t} THEN Sign(nan(x) - nan(y)) ELSE Sign(as_f64(x) - as_f64(y))

\* The order of ORDER BY.  A map is compared as the list of its entries.
RECURSIVE order(_, _)
order(x, y) ==
    LET Cmp(a, b)   == <<order(a, b)>>
        Entries(f)  == LET ks == SetToSortSeq(DOMAIN f, <) IN [i \in DOMAIN ks |-> <<ks[i], f[ks[i]]>>]
        Entry(a, b) == IF a[1] # b[1] THEN <<Sign(a[1] - b[1])>> ELSE <<order(a[2], b[2])>>
        Or0(r)      == IF r = <<>> THEN 0 ELSE r[1]
    IN  CASE order_rank(x) # order_rank(y) -> Sign(order_rank(x) - order_rank(y))
          [] x.t \in Numbers               -> OrderOfNumbers(x, y)
          [] x.t = "list"                  -> Lexical(Cmp, x.v, y.v)[1]
          [] x.t = "map"                   -> Lexical(Entry, Entries(x.v), Entries(y.v))[1]
          [] x.t = "node"                  -> Sign(x.v - y.v)
          [] OTHER                         -> Or0(cypher_cmp(x, y))

\* The key of a value.
RECURSIVE group_key(_)
group_key(x) ==
    CASE x.t = "float" /\ x.v % 2 = 0 /\ x.v \div 2 \in (1 - KeyLimit) .. (KeyLimit - 1)
                        -> Int_(x.v \div 2)
      [] x.t = "list"   -> List([i \in DOMAIN x.v |-> group_key(x.v[i])])
      [] x.t = "map"    -> Map([k \in DOMAIN x.v |-> group_key(x.v[k])])
      [] OTHER          -> x

-----------------------------------------------------------------------------
(***************************************************************************)
(* Three-valued logic.  A truth value is <<TRUE>>, <<FALSE>> or << >>.     *)
(***************************************************************************)
And(x, y) == CASE x = <<FALSE>> \/ y = <<FALSE>> -> <<FALSE>>
               [] x = <<TRUE>> /\ y = <<TRUE>>   -> <<TRUE>>
               [] OTHER                          -> <<>>
OrElse(x, y) == CASE x = <<TRUE>> \/ y = <<TRUE>>    -> <<TRUE>>
                  [] x = <<FALSE>> /\ y = <<FALSE>>  -> <<FALSE>>
                  [] OTHER                           -> <<>>
Xor(x, y) == IF x = <<>> \/ y = <<>> THEN <<>> ELSE <<x # y>>
Not(x)    == IF x = <<>> THEN <<>> ELSE <<~x[1]>>

Count(s, x) == Cardinality({i \in DOMAIN s : s[i] = x})

\* all, any, none and single over the truths of the elements.
Quantified(q, truths) ==
    LET trues  == Count(truths, <<TRUE>>)
        nulls  == Count(truths, <<>>)
        falses == Len(truths) - trues - nulls
    IN  CASE q = "all"    -> IF falses > 0 THEN <<FALSE>> ELSE IF nulls > 0 THEN <<>> ELSE <<TRUE>>
          [] q = "any"    -> IF trues > 0 THEN <<TRUE>> ELSE IF nulls > 0 THEN <<>> ELSE <<FALSE>>
          [] q = "none"   -> IF trues > 0 THEN <<FALSE>> ELSE IF nulls > 0 THEN <<>> ELSE <<TRUE>>
          [] q = "single" -> IF trues > 1 THEN <<FALSE>> ELSE IF nulls > 0 THEN <<>> ELSE <<trues = 1>>

\* x IN items
In(x, items) ==
    LET r == [i \in DOMAIN items |-> cypher_eq(x, items[i])]
    IN  CASE \E i \in DOMAIN r : r[i] = <<TRUE>> -> <<TRUE>>
          [] \E i \in DOMAIN r : r[i] = <<>>     -> <<>>
          [] OTHER                               -> <<FALSE>>

-----------------------------------------------------------------------------
(***************************************************************************)
(* Lists.                                                                  *)
(***************************************************************************)
\* items[i]; a negative index counts from the end.
index(items, i) ==
    LET k == IF i < 0 THEN Len(items) + i ELSE i
    IN  IF k \in 0 .. Len(items) - 1 THEN items[k + 1] ELSE Null

SliceBound(i, n) == IF i < 0 THEN (IF n + i < 0 THEN 0 ELSE n + i) ELSE Least(i, n)

slice(items, from, to) == SubSeq(items, SliceBound(from, Len(items)) + 1, SliceBound(to, Len(items)))

\* range(a, b, step): the loop adds in the width of an integer.
Wrapped(i) == ((i - MinInt) % (2 * MaxInt + 2)) + MinInt

\* The elements pushed before the limit.
RECURSIVE RangeFrom(_, _, _, _)
RangeFrom(i, b, step, fuel) ==
    IF ~((step > 0 /\ i <= b) \/ (step < 0 /\ i >= b)) THEN <<>>
    ELSE IF fuel = 0 THEN <<Error>> ELSE <<Int_(i)>> \o RangeFrom(Wrapped(i + step), b, step, fuel - 1)
range(a, b, step, limit) ==
    LET r == RangeFrom(a, b, step, limit)
    IN  IF step = 0 \/ (r # <<>> /\ Last(r) = Error) THEN Error ELSE List(r)

-----------------------------------------------------------------------------
(***************************************************************************)
(* Checked arithmetic on integers, and aggregates.                         *)
(***************************************************************************)
Checked(n) == IF n \in IntRange THEN Int_(n) ELSE Error

arith_int(op, a, b) ==
    CASE op = "+"            -> Checked(a + b)
      [] op = "-"            -> Checked(a - b)
      [] op = "*"            -> Checked(a * b)
      [] b = 0               -> Error
      [] op = "/"            -> Checked(IF b > 0 THEN Quot(a, b) ELSE -Quot(a, -b))
      [] op = "%"            -> IF a = MinInt /\ b = -1 THEN Error
                                ELSE Int_(IF b > 0 THEN Rem(a, b) ELSE Rem(a, -b))

\* min() and max() keep the first value that no later one is beyond.
Extreme(values, side) ==
    FoldLeft(LAMBDA cur, v : IF v = Null THEN cur
                             ELSE IF cur = Null \/ order(v, cur) = side THEN v ELSE cur,
             Null, values)

\* The index percentileDisc(x, p/q) takes in the n sorted values.
percentile_index(p, q, n) ==
    LET up == (p * n + q - 1) \div q
    IN  Least(IF up = 0 THEN 0 ELSE up - 1, n - 1)

=============================================================================
