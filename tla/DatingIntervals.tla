-------------------------- MODULE DatingIntervals --------------------------
(***************************************************************************)
(* The two readers of a dating (matching_pipeline/metadata_normalization/  *)
(* dating_normalization): the patterns of regex_filter.py, tried first,    *)
(* and the resolver of the mentions the language model answers with, for   *)
(* what no pattern matched.  Both give the interval of years that          *)
(* auction_artwork.dating_start and dating_end hold; None is a bound that  *)
(* is not known.                                                           *)
(*                                                                         *)
(* A text is a record [form, y1, y2, id]: the pattern it matches ("other"  *)
(* for none) and the numbers in it.  A mention is the dataclass of         *)
(* schema.py without the fields that are at their defaults.                *)
(***************************************************************************)
EXTENDS Integers, Sequences

CONSTANT None                      \* Python's None and SQL's NULL

ASSUME NoneAssumption == None \notin Int

CurrentYear == 2026

Interval(s, e) == [start |-> s, end |-> e]
Undated == Interval(None, None)
Bounds(iv) == {iv.start, iv.end}

-----------------------------------------------------------------------------
(***************************************************************************)
(* regex_filter.py                                                         *)
(***************************************************************************)
ExpandShortYear(full, short) ==
    LET candidate == (full \div 100) * 100 + short
    IN  IF candidate < full THEN candidate + 100 ELSE candidate

CenturyStart(n) == (n - 1) * 100

\* The interval of a text by the first pattern that matches it.  The two
\* years of a full interval are taken as they stand, in either order.
ParsedRange(t) ==
    CASE t.form = "interval" -> Interval(t.y1, t.y2)
      [] t.form = "short interval" -> Interval(t.y1, ExpandShortYear(t.y1, t.y2))
      [] t.form \in {"year", "dated", "uncertain"} -> Interval(t.y1, t.y1)
      [] t.form \in {"bracketed", "parenthesized"} ->
            Interval(100 * t.y1 + t.y2, 100 * t.y1 + t.y2)
      [] t.form = "two digits" -> Interval(t.y1, t.y1)
      [] t.form = "century" -> Interval(CenturyStart(t.y1), CenturyStart(t.y1) + 100)
      [] t.form = "about" -> Interval(t.y1 - 5, t.y1 + 5)
      [] OTHER -> Undated

RegexMatches(t) == t.form \notin {"other", "empty"}

\* What the pattern pass writes for a record: a year of at most two digits is
\* taken as one of the hundred years after the artist's birth, and given up
\* when the birth is not known.
RegexDating(t, birth) ==
    LET iv == ParsedRange(t)
        short == RegexMatches(t) /\ iv.start = iv.end /\ iv.start \in 0..99
    IN  IF ~short THEN iv
        ELSE IF birth = None THEN Undated
        ELSE Interval(ExpandShortYear(birth, iv.start),
                      ExpandShortYear(birth, iv.start))

-----------------------------------------------------------------------------
(***************************************************************************)
(* resolver.py                                                             *)
(***************************************************************************)
Field(m, f, default) == IF f \in DOMAIN m THEN m[f] ELSE default
N1(m) == Field(m, "n1", None)
N2(m) == Field(m, "n2", None)
Capped(y) == IF y > CurrentYear THEN CurrentYear ELSE y

\* The offsets of a subdivision within a century and within a decade.
CenturyParts ==
    [full |-> <<0, 100>>, early |-> <<0, 25>>, q1 |-> <<0, 25>>, q2 |-> <<25, 50>>,
     mid |-> <<25, 75>>, first_half |-> <<0, 50>>, q3 |-> <<50, 75>>,
     second_half |-> <<50, 100>>, late |-> <<75, 100>>, q4 |-> <<75, 100>>]
DecadeParts ==
    [full |-> <<0, 10>>, early |-> <<0, 5>>, mid |-> <<3, 7>>, late |-> <<5, 10>>]

PartOf(parts, base, sub) ==
    IF sub \in DOMAIN parts
    THEN Interval(base + parts[sub][1], Capped(base + parts[sub][2]))
    ELSE Undated

DecadeBounds(year, sub) == IF year = None THEN Undated ELSE PartOf(DecadeParts, year, sub)

\* A "century" of three digits or more is a decade the model mislabelled.
CenturyOrDecade(n, sub) ==
    IF n = None THEN Undated
    ELSE IF n >= 100 THEN DecadeBounds(n, sub)
    ELSE PartOf(CenturyParts, CenturyStart(n), sub)

\* The first year from the birth on that ends in the digits.
Fragment(digits, birth) ==
    IF digits = None \/ birth = None THEN Undated
    ELSE LET d == IF digits < 0 THEN -digits ELSE digits
             modulus == IF d < 100 THEN 100 ELSE IF d < 1000 THEN 1000 ELSE 10000
             candidate == (birth \div modulus) * modulus + d
             year == IF candidate < birth THEN candidate + modulus ELSE candidate
         IN  Interval(year, year)

\* The start of one part and the end of another; a part that cannot be
\* resolved raises, and takes the mention with it.
Span(from, to) == IF None \in Bounds(from) \cup Bounds(to) THEN Undated
                  ELSE Interval(from.start, to.end)

Sub(m) == Field(m, "subdivision", "full")
Sub2(m) == Field(m, "subdivision2", "full")
Slack(m) == IF Field(m, "hedge", FALSE) THEN 5 ELSE 0

MentionYears(m, birth) ==
    CASE m.kind = "year" ->
            IF N1(m) = None THEN Undated
            ELSE IF N1(m) \in 100..CurrentYear
                 THEN Interval(N1(m) - Slack(m), N1(m) + Slack(m))
                 ELSE Undated
      [] m.kind = "fragment" -> Fragment(N1(m), birth)
      [] m.kind = "century" -> CenturyOrDecade(N1(m), Sub(m))
      [] m.kind = "century_span" ->
            Span(CenturyOrDecade(N1(m), Sub(m)), CenturyOrDecade(N2(m), Sub2(m)))
      [] m.kind = "decade" -> DecadeBounds(N1(m), Sub(m))
      [] m.kind = "decade_span" ->
            Span(DecadeBounds(N1(m), Sub(m)), DecadeBounds(N2(m), Sub2(m)))
      [] m.kind = "range" ->
            IF None \in {N1(m), N2(m)}
            THEN IF Slack(m) > 0 THEN Undated ELSE Interval(N1(m), N2(m))
            ELSE Interval(N1(m) - Slack(m), N2(m) + Slack(m))
      [] m.kind = "open_after" -> Interval(N1(m), None)
      [] m.kind = "open_before" -> Interval(None, N1(m))
      [] OTHER -> Undated

Backwards(iv) == IF None \in Bounds(iv) THEN FALSE ELSE iv.start > iv.end

Truncated(m, iv) == [start |-> IF Field(m, "truncate_start", FALSE) THEN None ELSE iv.start,
                     end   |-> IF Field(m, "truncate_end", FALSE) THEN None ELSE iv.end]

ResolveMention(m, birth) ==
    LET iv == MentionYears(m, birth)
    IN  IF Backwards(iv) THEN Undated ELSE Truncated(m, iv)

Least(S) == CHOOSE x \in S : \A y \in S : x <= y
Greatest(S) == CHOOSE x \in S : \A y \in S : x >= y

\* The hull of a set of intervals; an open side of one leaves that side open.
CombineIntervals(ivs) ==
    LET starts == {iv.start : iv \in ivs}
        ends == {iv.end : iv \in ivs}
    IN  IF ivs = {} THEN Undated
        ELSE [start |-> IF None \in starts THEN None ELSE Least(starts),
              end   |-> IF None \in ends THEN None ELSE Greatest(ends)]

ResolveDating(mentions, birth) ==
    CombineIntervals({ResolveMention(mentions[i], birth) : i \in DOMAIN mentions} \ {Undated})
=============================================================================
