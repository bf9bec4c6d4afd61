-------------------------- MODULE TimeExpressions ---------------------------
(***************************************************************************)
(* capabilities/datetime/resolver.py: what days a phrase of the user names. *)
(* A text is a sequence of characters, written here as their sounds: "next *)
(* Wednesday" is <<"xia", "zhou", "san">>.  A day is a number, and a week   *)
(* begins at every multiple of seven.  A written date, and a time of the   *)
(* day, are one character each.                                            *)
(***************************************************************************)
EXTENDS Integers, SequencesExt

CONSTANTS
  Today, Now,   \* the day, and the minute of it
  Months,       \* the first and last day of the months -1 .. 2 from this one
  Written,      \* the day of each character that is a written date
  Clock         \* the minute of each character that is a time of day

ASSUME TimeAssumption ==
  /\ Today \in Nat /\ Now \in 0 .. 1439
  /\ \A m \in -1 .. 2 : Months[m] \in Int \X Int
  /\ \A c \in DOMAIN Written : Written[c] \in Int

Hit(at, len, label, from, to) ==
  [at |-> at, len |-> len, label |-> label, from |-> from, to |-> to]

\* The places where one of the words is found in the text.
Found(text, words) ==
  {f \in (1 .. Len(text)) \X words :
     LET to == f[1] + Len(f[2]) - 1
     IN to <= Len(text) /\ SubSeq(text, f[1], to) = f[2]}

\* Where one of the words for a day is said, or one for a span with a label.
DaySaid(text, words, day) ==
  {Hit(f[1], Len(f[2]), f[2], day, day) : f \in Found(text, words)}
SpanSaid(text, words, label, span) ==
  {Hit(f[1], Len(f[2]), label, span[1], span[2]) : f \in Found(text, words)}

\* A plausible mistake: every hit counts.
Unclaimed(hits) == hits

\* The longest hits first, then the leftmost: one that overlaps a hit that was
\* kept is dropped.
Overlap(a, b)   == a.at < b.at + b.len /\ b.at < a.at + a.len
GoesFirst(a, b) == a.len > b.len \/ (a.len = b.len /\ a.at < b.at)
Claimed(hits) ==
  LET kept[h \in hits] == ~\E k \in hits : GoesFirst(k, h) /\ Overlap(k, h) /\ kept[k]
  IN {h \in hits : kept[h]}

-----------------------------------------------------------------------------
(* Weekdays.                                                               *)

DaySuffixes == [yi |-> 0, er |-> 1, san |-> 2, si |-> 3, wu |-> 4, liu |-> 5,
             ri |-> 6, tian |-> 6]
Units    == {<<"zhou">>, <<"xing", "qi">>, <<"li", "bai">>}
WeekPrefixes ==
  [next_next_week |-> {<<"xia", "xia", "zhou">>, <<"zai", "xia", "yi", "zhou">>,
                       <<"zai", "xia", "ge">>, <<"zai", "xia", "yi", "ge">>},
   next_week      |-> {<<"xia", "zhou">>, <<"xia", "ge">>, <<"xia", "yi", "ge">>,
                       <<"xia", "yi">>},
   last_week      |-> {<<"shang", "zhou">>},
   this_week      |-> {<<"ben", "zhou">>, <<"zhe", "zhou">>, <<"zhe", "ge">>,
                       <<"zhe", "yi", "ge">>}]
WeekOffset == [next_next_week |-> 14, next_week |-> 7, last_week |-> -7, this_week |-> 0]
Monday     == Today - (Today % 7)

\* The words for day s of week k.
WordsFor(k, s) == {p \o u \o <<s>> : p \in WeekPrefixes[k], u \in Units \cup {<<>>}}
PrefixedWeekdays(text) ==
  UNION {UNION {DaySaid(text, WordsFor(k, s), Monday + WeekOffset[k] + DaySuffixes[s]) :
                  s \in DOMAIN DaySuffixes} : k \in DOMAIN WeekPrefixes}

\* A meeting is not made on a day, or at an hour of today, that is over.
StartMinutes(text) ==
  {Clock[text[i]] : i \in {j \in 1 .. Len(text) :
     text[j] \in DOMAIN Clock /\ \A k \in 1 .. j - 1 : text[k] \notin DOMAIN Clock}}
BareWeekday(text, creating, index) ==
  LET day  == Monday + index
      over == \/ day < Today
              \/ day = Today /\ \E m \in StartMinutes(text) : m <= Now
  IN IF creating /\ over THEN day + 7 ELSE day

BareWeekdays(text, creating) ==
  {h \in UNION {DaySaid(text, {u \o <<s>> : u \in Units}, BareWeekday(text, creating, DaySuffixes[s])) :
                  s \in DOMAIN DaySuffixes} :
     h.at = 1 \/ text[h.at - 1] \notin {"shang", "xia", "ben", "zhe", "zai"}}

WeekdayHits(text, creating) ==
  Claimed(PrefixedWeekdays(text) \cup BareWeekdays(text, creating))

-----------------------------------------------------------------------------
(* Written dates, relative days, weeks and months.                         *)

\* A date found twice stands where it is found first.
WrittenHits(text) ==
  {Hit(i, 1, <<text[i]>>, Written[text[i]], Written[text[i]]) :
     i \in {j \in 1 .. Len(text) : text[j] \in DOMAIN Written
                                   /\ \A k \in 1 .. j - 1 : text[k] # text[j]}}

RelativeDays ==
  {[word |-> <<"da", "hou", "tian">>, off |-> 3], [word |-> <<"hou", "tian">>, off |-> 2],
   [word |-> <<"ming", "tian">>, off |-> 1], [word |-> <<"jin", "tian">>, off |-> 0],
   [word |-> <<"zuo", "tian">>, off |-> -1], [word |-> <<"qian", "tian">>, off |-> -2]}
DayHits(text) == Claimed(UNION {DaySaid(text, {r.word}, Today + r.off) : r \in RelativeDays})

Week(off)  == <<Monday + off, Monday + off + 6>>
\* A label is the first way to say it, whichever way the user said it.
Ranges ==
  {[label |-> <<"xia", "xia", "zhou">>, span |-> Week(14),
    words |-> {<<"xia", "xia", "zhou">>, <<"zai", "xia", "yi", "zhou">>}],
   [label |-> <<"xia", "zhou">>, span |-> Week(7), words |-> {<<"xia", "zhou">>}],
   [label |-> <<"shang", "zhou">>, span |-> Week(-7), words |-> {<<"shang", "zhou">>}],
   [label |-> <<"ben", "zhou">>, span |-> Week(0),
    words |-> {<<"ben", "zhou">>, <<"zhe", "zhou">>}],
   [label |-> <<"xia", "xia", "yue">>, span |-> Months[2],
    words |-> {<<"xia", "xia", "ge", "yue">>, <<"xia", "xia", "yue">>, <<"zai", "xia", "ge", "yue">>}],
   [label |-> <<"xia", "yue">>, span |-> Months[1],
    words |-> {<<"xia", "ge", "yue">>, <<"xia", "yue">>}],
   [label |-> <<"shang", "yue">>, span |-> Months[-1],
    words |-> {<<"shang", "ge", "yue">>, <<"shang", "yue">>}],
   [label |-> <<"ben", "yue">>, span |-> Months[0],
    words |-> {<<"ben", "yue">>, <<"zhe", "ge", "yue">>}]}
RangeHits(text) ==
  Claimed(UNION {SpanSaid(text, r.words, r.label, r.span) : r \in Ranges})

-----------------------------------------------------------------------------
(* resolve_time_expression.                                                *)

\* From left to right; at one place a single day comes before a week.  (Of each
\* kind one hit at most begins at a place: its words do not overlap.)
OneOf(hits) == IF hits = {} THEN <<>> ELSE <<CHOOSE h \in hits : TRUE>>
ByPlace(text, hits) ==
  FlattenSeq([i \in 1 .. Len(text) |->
    LET here == {h \in hits : h.at = i}
    IN OneOf({h \in here : h.from = h.to}) \o OneOf({h \in here : h.from # h.to})])
Item(h) == [label |-> h.label, from |-> h.from, to |-> h.to]
Deduped(items) ==
  FlattenSeq([i \in DOMAIN items |->
    IF \E j \in 1 .. i - 1 : items[j] = items[i] THEN <<>> ELSE <<items[i]>>])

\* A week is dropped when the label of a weekday contains its label, wherever
\* in the text each was said.  The text given to the resolver is the phrase
\* twice, which finds each item twice and drops the copy.
Labels(placed) == FlattenSeq([i \in 1 .. Len(placed) |-> placed[i].label])
Outside(text, ranges, weekdays) ==
  {r \in ranges : Found(Labels(ByPlace(text, weekdays)), {r.label}) = {}}

Items(placed) == Deduped([i \in 1 .. Len(placed) |-> Item(placed[i])])
WithWeekdays(text, weekdays) ==
  weekdays \cup WrittenHits(text) \cup DayHits(text) \cup Outside(text, RangeHits(text), weekdays)
Resolve(text, creating) ==
  Items(ByPlace(text, WithWeekdays(text, WeekdayHits(text, creating))))

\* _select_resolved_items_for_explicit_expression: one item for each span.
Selected(items) ==
  FlattenSeq([i \in DOMAIN items |->
    IF \E j \in 1 .. i - 1 : items[j].from = items[i].from /\ items[j].to = items[i].to
    THEN <<>> ELSE <<items[i]>>])
=============================================================================
