------------------------- MODULE MCMetadataScoring -------------------------
(***************************************************************************)
(* Two threads, two lots, and two contents of the lost artworks.           *)
(***************************************************************************)
EXTENDS MetadataScoring, TLC

CONSTANTS w1, w2, l1, l2

\* floor(100 * log(total / count) / log(total)) for totals and counts from 2 to 4.
MCLogShare(total, count) ==
    CASE count >= total -> 0
      [] total = 3 -> 36
      [] total = 4 /\ count = 2 -> 50
      [] OTHER -> 20

MCNameAlike(a, b) ==
    CASE {a, b} = {"klee", "klee p."} -> 90 [] {a, b} = {"klee", "klee; moore"} -> 87
      [] {a, b} = {"klee p.", "klee; moore"} -> 84 [] OTHER -> 30
MCTitleEdits(a, b) == IF a.words = b.words THEN 75 ELSE 30
MCSizeRarity(w, h) == IF w > 50 THEN 100 ELSE 60

Name(k, f) == [key |-> k, form |-> f]
Title(ws, r, f) == [words |-> ws, rest |-> r, form |-> f]

MCCommonTitles == [t \in {[words |-> {"landschaft"}, rest |-> None]} |-> 39]
MCUnknownKeys == {"unbekannt", "anonym"}
MCParent ==
    [material  |-> [unbekannt |-> None, textile |-> "unbekannt", canvas |-> "textile",
                    wood |-> "unbekannt"],
     technique |-> [unbekannt |-> None, painting |-> "unbekannt", oil |-> "painting"]]

Row(names, title, years, mats) ==
    [names |-> names, title |-> title, span |-> years, materials |-> mats,
     techniques |-> <<"oil">>, width |-> 60, height |-> 40]

\* The same name in two spellings, a common title in two forms, and an
\* interval that ends before it begins; then a table in which name and title
\* have become rare and a single row is dated.
Full == << Row(<<Name("klee", "Klee")>>, Title({}, "garden", ""), Interval(1920, 1925),
               <<"canvas">>),
           Row(<<Name("klee", "KLEE"), Name("anonym", "Anonym")>>, Title({}, "garden", ""),
               Interval(1920, 1915), <<"wood">>),
           Row(<<>>, Title({}, "harbour", ""), Undated, <<>>) >>
Other == << Row(<<Name("klee p.", "Klee P.")>>, Title({}, "garden", ""),
                Interval(1920, None), <<"canvas">>),
            [Row(<<Name("moore", "Moore"), Name("moore", "MOORE")>>, Title({"landschaft"}, None, ""),
                 Interval(1900, 1910), <<>>) EXCEPT !.height = 80],
            Row(<<>>, None, Undated, <<>>) >>
MCCatalogues == {Full, Other}

MCLotRows ==
    [l \in {l1, l2} |->
        IF l = l1
        THEN [artist |-> Name("klee; moore", "Klee; Moore"),
              names |-> <<Name("klee", "Klee"), Name("moore", "Moore")>>,
              title |-> Title({}, "garden", " "),
              materials |-> <<"canvas", "paper">>, techniques |-> <<"oil">>,
              width |-> None, height |-> 60, place |-> 1]
        ELSE [artist |-> Name("klee", "klee"), names |-> <<Name("klee", "klee")>>,
              title |-> Title({"landschaft"}, None, ""),
              materials |-> <<"unbekannt">>, techniques |-> <<"painting">>,
              width |-> 62, height |-> 42, place |-> 2]]
MCBirth == [l \in {l1, l2} |-> IF l = l1 THEN 1879 ELSE None]

Text(form, y1, y2, id) == [form |-> form, y1 |-> y1, y2 |-> y2, id |-> id]
Plain(form, y1, y2) == Text(form, y1, y2, "")
Spoken(id) == Text("other", None, None, id)

Patterns == {Plain("interval", 1924, 1922), Plain("short interval", 1898, 2),
             Plain("bracketed", 19, 22), Plain("two digits", 22, None),
             Plain("century", 20, None), Plain("about", 1922, None), Plain("empty", None, None)}

Mention(kind, n1, n2) == [kind |-> kind, n1 |-> n1, n2 |-> n2]
MCReading ==
    [backwards |-> <<Mention("range", 1930, 1920)>>,
     late |-> <<Mention("century", 19, None) @@ [subdivision |-> "late"],
                Mention("decade_span", 1920, 1930) @@ [subdivision |-> "mid", subdivision2 |-> "early"]>>,
     in42 |-> <<Mention("fragment", 42, None)>>,
     now |-> <<Mention("century", 21, None), Mention("year", 1999, None) @@ [hedge |-> TRUE]>>,
     from |-> <<Mention("century_span", 18, 1920) @@ [truncate_end |-> TRUE]>>,
     after |-> <<Mention("open_after", 1900, None), Mention("year", 3000, None)>>]
Texts == Patterns \cup {Spoken(id) : id \in DOMAIN MCReading}

\* Every text for the first lot with a spoken one for the second, and the same
\* text for both.
MCHandoffs == {[l \in {l1, l2} |-> IF l = l1 THEN t ELSE Spoken("late")] : t \in Texts}
              \cup {[l \in {l1, l2} |-> Spoken("in42")]}

MCWorkers == {w1, w2}
MCLots == {l1, l2}
MCImagePairs == {<<l2, 2>>, <<l2, 3>>}
Symmetric == Permutations({w1, w2})
=============================================================================
