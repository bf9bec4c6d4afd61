-------------------------- MODULE MCPlanPreparation --------------------------
(* A Wednesday morning, ten phrases, and plans of one to three tasks.       *)
EXTENDS PlanPreparation

\* Day 9 is the Wednesday of the second week; months have thirty days here.
MCToday   == 9
MCMonths  == [m \in -1 .. 2 |-> <<30 * m, 30 * m + 29>>]
MCWritten == [may30 |-> 19, guess |-> 11]
MCClock   == [nine |-> 540]

Tomorrow  == <<"ming", "tian">>
NextWed   == <<"xia", "ge", "xing", "qi", "san">>
ThisWeek  == <<"ben", "zhou">>
BareMon   == <<"zhou", "yi">>
TodayNine == <<"zhou", "san", "nine">>
Three     == <<"jin", "tian", ",", "ming", "tian", ",", "xia", "zhou", "yi">>
SameTwice == <<"ben", "zhou", "wu", "he", "zhou", "wu">>
WeekAnd   == <<"da", "hou", "tian", "he", "xia", "ge", "yue">>
Date      == <<"may30">>
Guess     == <<"guess">>
ThisWed   == <<"zhe", "zhou", "san">>

\* What the phrases mean, said without the tables of the resolver.
MCMeant(x, new) ==
  CASE x = Tomorrow -> {<<10, 10>>}  [] x = NextWed -> {<<16, 16>>}
    [] x = ThisWeek -> {<<7, 13>>}   [] x = BareMon -> IF new THEN {<<14, 14>>} ELSE {<<7, 7>>}
    [] x = TodayNine -> IF new THEN {<<16, 16>>} ELSE {<<9, 9>>}
    [] x = Three -> {<<9, 9>>, <<10, 10>>, <<14, 14>>}
    [] x = SameTwice -> {<<11, 11>>} [] x = WeekAnd -> {<<12, 12>>, <<30, 59>>}
    [] x = Date -> {<<19, 19>>}      [] x = ThisWed -> {<<9, 9>>}
    [] OTHER -> {}

\* A task as the planner writes it.
Raw(id, tool, action) ==
  [id |-> id, kind |-> "tool", tool |-> tool, action |-> action, asks |-> FALSE,
   text |-> <<>>, date |-> <<>>, inner |-> <<>>, later |-> <<>>, guess |-> NoSpan,
   aim |-> NoSpan, event |-> "", selector |-> FALSE, given |-> {}, detail |-> FALSE,
   deps |-> <<>>]
Q == <<"q">>
U == <<"u">>
Find(x)    == [Raw(Q, Calendar, "query") EXCEPT !.text = x]
Move       == [Raw(U, Calendar, "update") EXCEPT !.deps = <<Q>>, !.event = "from_q"]
MoveTo(x)  == [Move EXCEPT !.later = x]
Combined   == [Raw(Q, Calendar, "query_then_update") EXCEPT
                 !.text = NextWed, !.aim = <<11, 11>>, !.selector = TRUE]
Drop       == Raw(<<"x">>, Calendar, "delete")
Add(x)     == [Raw(<<>>, Calendar, "create") EXCEPT !.date = x, !.given = {"title", "time"}]
Records(x) == [Raw(<<"a">>, Attendance, "") EXCEPT !.inner = x, !.text = Guess]
Detail(x)  == [Records(x) EXCEPT !.detail = TRUE]
Ask        == [Raw(<<"r">>, "", "") EXCEPT !.kind = "", !.asks = TRUE]
Run(s)     == [Raw(<<"s">>, "skill", "run") EXCEPT !.event = s, !.given = {"arguments"},
                                                !.text = ThisWeek]

Wanted(ts) == [tasks |-> ts, needs_rag |-> FALSE, foreign |-> {"guess"},
               ability |-> FALSE, asked |-> FALSE]
Guessing(t) == [t EXCEPT !.guess = <<11, 11>>]
Phrases == {Tomorrow, NextWed, ThisWeek, BareMon, Three, SameTwice, WeekAnd, Date, <<>>}
MCPlans ==
  {Wanted(ts) : ts \in
     {<<Guessing(Find(x)), Move>> : x \in Phrases}
     \cup {<<[Find(x) EXCEPT !.id = <<"f">>], [Move EXCEPT !.deps = <<<<"query">>>>]>> : x \in {Three, Date}}
     \cup {<<Find(Three), MoveTo(Tomorrow), Records(ThisWeek)>>, <<Combined>>, <<>>,
           <<Combined, Records(Three)>>, <<Add(BareMon)>>, <<Add(TodayNine), Find(Tomorrow)>>,
           <<Guessing(Add(<<>>)), Find(Tomorrow)>>, <<Find(Tomorrow), Add(<<>>), Records(WeekAnd)>>,
           <<Move>>, <<[Move EXCEPT !.selector = TRUE], Records(ThisWeek)>>,
           <<Drop, Find(Tomorrow), Records(ThisWeek)>>, <<Drop, [Move EXCEPT !.selector = TRUE]>>,
           <<Drop, Raw(<<"n">>, "clock", "now"), Find(Tomorrow)>>,
           <<[Drop EXCEPT !.event = "e2"], Ask>>, <<Detail(ThisWeek), Ask>>,
           <<Records(SameTwice), Detail(Three), Find(Three)>>,
           <<Run("insight"), Run("hidden"), Run("none")>>, <<Find(<<>>), Drop>>,
           <<[Run("insight") EXCEPT !.given = {}], Raw(<<"z">>, "mail", "send")>>,
           <<[Ask EXCEPT !.kind = "loop"], [Ask EXCEPT !.kind = "direct"]>>,
           <<Find(Tomorrow), Records(Tomorrow)>>, <<Find(Three), Find(Three), MoveTo(Guess)>>,
           <<[Find(Date) EXCEPT !.inner = Date, !.later = Guess], Add(ThisWeek)>>,
           <<[Combined EXCEPT !.later = Tomorrow], Add(Three)>>}}
  \cup {[Wanted(<<Find(Tomorrow), Move>>) EXCEPT !.ability = TRUE, !.asked = a] : a \in BOOLEAN}
  \cup {[Wanted(ts) EXCEPT !.ability = TRUE] :
           ts \in {<<Move, Records(ThisWeek)>>, <<Combined, Records(Date)>>, <<Records(Date), Drop, Ask>>}}
  \cup {[Wanted(<<Add(Date), Find(Date)>>) EXCEPT !.ability = TRUE, !.asked = TRUE],
        [Wanted(<<[Ask EXCEPT !.kind = "loop"]>>) EXCEPT !.needs_rag = TRUE]}

MCLostPlans == {Wanted(<<[Combined EXCEPT !.later = Tomorrow, !.text = x]>>) : x \in {<<>>, NextWed}}
MCWedPlans  == {Wanted(<<Find(x)>>) : x \in Phrases \cup {ThisWed}}

Reading    == {<<Calendar, "query">>, <<Attendance, "query">>, <<"clock", "now">>, <<"skill", "run">>}
Everything == Reading \cup {<<Calendar, a>> : a \in Writes}
Policy(acts, scope, skills) == [acts |-> acts, scope |-> scope, skills |-> skills]
MCPolicies ==
  {Policy(Everything, "full", {"insight"}), Policy({<<Calendar, "*">>} \cup Reading, "limited", {}),
   Policy(Reading, "limited", {}), Policy(Reading, "none", {"insight"}),
   Policy(Everything \ {<<Calendar, "query">>}, "full", {"insight"}),
   Policy(Everything \ {<<Calendar, "delete">>}, "full", {})}
MCSkills   == {"insight", "hidden"}
Previous(n, e) == [events |-> n, event |-> e]
MCContexts == {Previous(0, ""), Previous(1, "e1"), Previous(2, ""), Previous(0, "e1")}
=============================================================================
