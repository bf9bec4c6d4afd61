--------------------------- MODULE MCCalendarTurn ---------------------------
(* Small calendar requests: one or two queries and one or two writes, with   *)
(* selectors that fit none, one or several events, ordinals, "all", a write  *)
(* that relies on the previous turn, one that moves an event into the next   *)
(* query's range, one that comes before its query, one without an action, and *)
(* plans whose order is left to the model.                                   *)
EXTENDS CalendarTurn

T(n)       == <<n, 1>>
MCNames    == {"q", "p", "u", "v", "r", "b", "a"}
MCTaskIds  == MCNames \X (1 .. 3)
MCRoot(id) == <<id[1], 1>>
MCNth(id, k) == <<id[1], k>>

MCEventIds == 1 .. 3
MCDays     == 1 .. 2
MCContexts == {<< >>, <<1>>, <<2, 1>>}
MCTools    == {"none", Calendar, "query_attendance_summary"}
MCActs     == {"none", "query", "create", "update", "delete"}
MCArgs     == [days : SUBSET MCDays, target : MCEventIds \cup {0},
               match : SUBSET MCEventIds, ord : Ordinals]

Plain   == [days |-> {}, target |-> 0, match |-> MCEventIds, ord |-> ""]
Mk(n, kind, deps, tool, act, args) ==
  [id |-> T(n), kind |-> kind, deps |-> {T(d) : d \in deps}, tool |-> tool,
   input |-> [act |-> act, args |-> args]]
Query(n, deps, days) ==
  Mk(n, "tool", deps, Calendar, "query", [Plain EXCEPT !.days = days])
Write(n, act, deps, match, ord) ==
  Mk(n, "tool", deps, Calendar, act,
     [Plain EXCEPT !.match = match, !.ord = ord])
Move(n, deps, d) ==
  Mk(n, "tool", deps, Calendar, "update", [Plain EXCEPT !.days = {d}])
Known(n, act, e) ==
  Mk(n, "tool", {}, Calendar, act, [Plain EXCEPT !.target = e])
Create(n, d) == Mk(n, "tool", {}, Calendar, "create", [Plain EXCEPT !.days = {d}])
Attendance(n) == Mk(n, "tool", {}, "query_attendance_summary", "query", Plain)
Rag(n, deps)  == Mk(n, "rag", deps, "none", "none", Plain)
Answer        == Mk("a", "answer", {}, "none", "none", Plain)

\* The calendar callback answers; the abstract one is not used.
MCReplies(t, q, done) == {}

Every == MCEventIds
MCOrderedPlans ==
  { <<Query("q", {}, {1}), Write("u", "update", {"q"}, Every, "")>>,
    <<Query("q", {}, {1}), Write("u", "delete", {"q"}, Every, "all"), Answer>>,
    <<Query("q", {}, {1}), Query("p", {}, {2}),
      Write("u", "update", {"p"}, Every, "")>>,
    <<Query("q", {}, {1, 2}), Write("u", "update", {"q"}, {2, 3}, "second"),
      Write("v", "delete", {"q"}, {1}, "")>>,
    <<Query("q", {}, {1, 2}), Write("u", "update", {"q"}, Every, "first"),
      Write("v", "update", {"q"}, {3}, "")>>,
    <<Write("u", "update", {}, {1, 2}, "")>>,
    <<Write("u", "delete", {}, {1}, ""), Query("q", {}, {1, 2})>>,
    <<Query("q", {}, {1}), Mk("u", "tool", {}, Calendar, "none", Plain)>>,
    <<Write("u", "delete", {}, {1, 2}, "last"),
      Write("v", "update", {}, Every, "all")>>,
    <<Known("u", "update", 1), Known("v", "delete", 1)>>,
    <<Create("u", 1), Query("q", {}, {1}), Write("v", "delete", {"q"}, Every, "last")>>,
    <<Query("q", {}, {1}), Move("u", {"q"}, 2), Query("p", {}, {2}),
      Write("v", "delete", {"p"}, {1, 2}, "")>>,
    <<Query("q", {}, {1}), Write("u", "delete", {"q"}, Every, "first"),
      Query("p", {}, {1}), Write("v", "delete", {"p"}, Every, "last")>>,
    <<Query("q", {}, {1}), Query("p", {}, {2}),
      Write("u", "delete", {"p"}, Every, "all")>>,
    <<Query("q", {}, {1}), Query("p", {}, {1})>>,
    <<Query("q", {}, {1}), Query("p", {}, {1}), Answer>>,
    <<Rag("r", {}), Rag("b", {}), Known("u", "update", 1), Answer>> }

\* Work whose first task waits, so that the model picks the order.
MCLoosePlans ==
  { <<Attendance("b"), Rag("r", {"b"}), Query("q", {"r"}, {1, 2}),
      Write("u", "update", {}, Every, "all")>>,
    <<Attendance("b"), Rag("r", {"b"}), Write("u", "delete", {}, {1, 2}, "")>>,
    <<Query("q", {}, {1}), Rag("r", {"q"}),
      Write("u", "update", {"q"}, Every, "first"), Answer>> }
MCPlans == MCOrderedPlans \cup MCLoosePlans

\* The model stops, asks, repeats the first remaining task, or names a task,
\* with the task's own input or with a target or selector of its choice; or it
\* searches for a write as if that were a knowledge task.
Reply(name, id, input, batch) ==
  [name |-> name, id |-> id, tool |-> "none", input |-> input, batch |-> batch]
Target3  == [act |-> "update", args |-> [Plain EXCEPT !.target = 3]]
SomeAll  == [act |-> "update", args |-> [days |-> {2}, target |-> 0,
                                         match |-> {1, 2}, ord |-> "all"]]
WriteAsRag == [id |-> T("u"), kind |-> "rag", deps |-> {}, query |-> "named"]
MCLLMReplies ==
  {Reply(name, NoId, NoInput, {}) :
     name \in {"malformed", "finish", "ask_clarification"}}
  \cup {Reply("call_tool", id, input, {}) :
          id \in {NoId, T("u"), T("q")}, input \in {NoInput, Target3}}
  \cup {Reply("call_tool", T("u"), SomeAll, {}),
        Reply("search_rag", NoId, NoInput, {WriteAsRag})}
\* The same, leaving the work to the plan.
MCModestReplies ==
  {reply \in MCLLMReplies : reply.input = NoInput /\ reply.batch = {}}
=============================================================================
