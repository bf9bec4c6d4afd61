--------------------------- MODULE GoalCompletion ---------------------------
(***************************************************************************)
(* orchestration/completion.py: what a request has to achieve (its goal    *)
(* contract, given by the planner or derived from the plan) and whether    *)
(* the recorded task results achieve it.  Pure operators over a plan and   *)
(* a sequence of results; values are opaque, only their equality counts.   *)
(***************************************************************************)
EXTENDS Naturals, SequencesExt

CONSTANT SingleDay(_)   \* the one day an expression resolves to, or ""

Calendar == "manage_company_calendar"
Selectors == {"type", "department"}
OtherFields == {"title", "date", "time", "location", "description"}
Fields == Selectors \cup OtherFields
\* An expected_result is a function on some of these names.
Names == Fields \cup {"date_expression"}
DoneStatus == [create |-> "created", update |-> "updated", delete |-> "deleted"]
Writes == DOMAIN DoneStatus

\* What fields may be expected, each with a value (_clean_expected_result).
Wanted(e) == DOMAIN e \subseteq Names /\ \A f \in DOMAIN e : e[f] # ""

Without(e, names) == Restrict(e, DOMAIN e \ names)
\* e, with what it leaves open taken from more.
Over(e, more) ==
  [f \in DOMAIN e \cup DOMAIN more |-> IF f \in DOMAIN e THEN e[f] ELSE more[f]]
Just(name, value) == [f \in {name} |-> value]

\* A task: [id, kind, tool, action, fields, said, when, titled, pinned].
\* fields: what a write sets or a query selects by; said and when: its
\* date_expression and time_expression; titled: its text speaks of the title.
\* A plan keeps the places of its tasks when some are dropped.
CalendarTasks(plan, act) ==
  {i \in DOMAIN plan :
     plan[i].kind = "tool" /\ plan[i].tool = Calendar /\ plan[i].action = act}
HasAction(plan, act) == CalendarTasks(plan, act) # {}

-----------------------------------------------------------------------------
(* What the plan's writes set.                                             *)

FromUpdate(t) ==
  LET own   == IF t.titled THEN t.fields ELSE Without(t.fields, {"title"})
      dated == IF t.said # "" /\ DOMAIN own \subseteq {"date"}
               THEN Over(own, Just("date_expression", t.said)) ELSE own
  IN  IF DOMAIN dated = {} /\ t.when # ""
      THEN Just("date_expression", t.when) ELSE dated

FromCreate(t) ==
  LET dateless == "date" \notin DOMAIN t.fields
      said == IF t.said # "" /\ dateless THEN Just("date_expression", t.said) ELSE <<>>
      day  == IF SingleDay(t.when) # "" /\ dateless
              THEN Just("date", SingleDay(t.when)) ELSE <<>>
  IN  Over(Over(t.fields, said), day)

\* Later tasks override earlier ones, field by field.
Merged(es) ==
  [f \in UNION {DOMAIN es[i] : i \in DOMAIN es} |->
     es[Max({i \in DOMAIN es : f \in DOMAIN es[i]})][f]]
Updated(plan) == Merged([i \in CalendarTasks(plan, "update") |-> FromUpdate(plan[i])])
Created(plan) == Merged([i \in CalendarTasks(plan, "create") |-> FromCreate(plan[i])])

-----------------------------------------------------------------------------
(* What a planner repeats from its own query is not something to achieve.  *)

Queries(plan) == {plan[i] : i \in CalendarTasks(plan, "query")}
QueryExpressions(plan) == UNION {{q.said, q.when} : q \in Queries(plan)} \ {""}
QueryTitles(plan) ==
  {q.fields.title : q \in {x \in Queries(plan) : "title" \in DOMAIN x.fields}}
\* The first query that has a selector gives it.
QuerySelectors(plan) ==
  LET having(s) == {i \in CalendarTasks(plan, "query") : s \in DOMAIN plan[i].fields}
  IN  [s \in {x \in Selectors : having(x) # {}} |-> plan[Min(having(s))].fields[s]]

WithoutQueryDate(e, plan) ==
  IF /\ "date_expression" \in DOMAIN e
     /\ DOMAIN e \cap (Fields \ {"date"}) # {}
     /\ e["date_expression"] \in QueryExpressions(plan)
  THEN Without(e, {"date_expression"}) ELSE e

WithoutQuerySelectors(e, plan) ==
  LET asked == QuerySelectors(plan)
  IN  IF DOMAIN e \ Selectors = {} THEN e
      ELSE Without(e, {s \in Selectors \cap DOMAIN e \cap DOMAIN asked :
                         e[s] = asked[s]})

WithQueryTitle(e, plan) == e
WithoutQueryTitle(e, plan) ==
  IF /\ "title" \in DOMAIN e
     /\ DOMAIN e \ {"title", "department"} # {}
     /\ ~\E i \in CalendarTasks(plan, "update") : plan[i].titled
     /\ QueryTitles(plan) = {} \/ e["title"] \in QueryTitles(plan)
  THEN Without(e, {"title"}) ELSE e

Sanitised(e, plan) ==
  WithoutQueryTitle(WithoutQuerySelectors(WithoutQueryDate(e, plan), plan), plan)

-----------------------------------------------------------------------------
(* The contract: [type, expected, tool, action].                           *)

Goal(type, expected) ==
  [type |-> type, expected |-> expected, tool |-> "", action |-> ""]
NoGoal == Goal("", <<>>)

FirstTool(plan) == plan[Min({i \in DOMAIN plan : plan[i].kind = "tool"})]
Derived(plan) ==
  LET kinds  == {t.kind : t \in ToSet(plan)}
      update == Sanitised(Updated(plan), plan)
  IN  CASE HasAction(plan, "update") /\ DOMAIN update = {} -> NoGoal
        [] HasAction(plan, "update") /\ DOMAIN update # {} ->
             Goal("calendar_update", update)
        [] ~HasAction(plan, "update") /\ {"rag", "tool"} \subseteq kinds ->
             Goal("mixed", <<>>)
        [] "rag" \in kinds /\ "tool" \notin kinds -> Goal("rag_answer", <<>>)
        [] ~HasAction(plan, "update") /\ "tool" \in kinds /\ "rag" \notin kinds ->
             [Goal(IF FirstTool(plan).tool = "skill" THEN "skill_analysis"
                   ELSE "tool_query", <<>>)
              EXCEPT !.tool = FirstTool(plan).tool,
                     !.action = FirstTool(plan).action]
        [] kinds \cap {"rag", "tool"} = {} -> NoGoal

\* Deletions and creations are recognised in the plan whatever the planner
\* called the goal; for the rest its word counts, if it said something.
Contract(given, plan) ==
  LET deletes == HasAction(plan, "delete") /\ ~HasAction(plan, "update")
      creates == /\ HasAction(plan, "create") /\ ~HasAction(plan, "update")
                 /\ ~HasAction(plan, "delete")
  IN  CASE deletes -> Goal("calendar_delete", <<>>)
        [] creates -> Goal("calendar_create", Created(plan))
        [] ~deletes /\ ~creates /\ given.type # "" ->
             [given EXCEPT !.expected = Sanitised(@, plan)]
        [] ~deletes /\ ~creates /\ given.type = "" -> Derived(plan)

\* A date expression counts as a date only when it is a single day.
ResolvedToAnyDay(goal) ==
  IF /\ goal.type \in {"calendar_update", "calendar_create"}
     /\ "date_expression" \in DOMAIN goal.expected
  THEN [goal EXCEPT !.expected = Over(@, Just("date", SingleDay(@["date_expression"])))]
  ELSE goal
Resolved(goal) ==
  IF /\ goal.type \in {"calendar_update", "calendar_create"}
     /\ "date_expression" \in DOMAIN goal.expected
     /\ SingleDay(goal.expected["date_expression"]) # ""
  THEN [goal EXCEPT !.expected = Over(@, Just("date", SingleDay(@["date_expression"])))]
  ELSE goal

-----------------------------------------------------------------------------
(* The check.  A result: [id, kind, tool, action, status, wrote, event,    *)
(* known, found, evidence].  wrote: the tool's own status; event: the      *)
(* fields it returned; known: it names a concrete event id; found: the     *)
(* number of events of a query; evidence: "full", "related" or "none".     *)

Verdict(goal, status, reason) ==
  [goal |-> goal.type, status |-> status, reason |-> reason]
NoVerdict == [goal |-> "", status |-> "", reason |-> ""]

Calls(results, act) ==
  SelectSeq(results, LAMBDA r : r.tool = Calendar /\ r.action = act)
Wrote(r) == r.action \in Writes /\ r.wrote = DoneStatus[r.action] /\ r.known
Matches(expected, event) ==
  \A f \in DOMAIN expected \ {"date_expression"} :
    f \in DOMAIN event /\ event[f] = expected[f]

\* One write that matches is enough; nothing is expected of a deleted event.
JudgeWrites(goal, calls) ==
  LET good == {r \in calls : Wrote(r)}
  IN  CASE good = {} -> Verdict(goal, "failed", "write_failed")
        [] \E r \in good : Matches(goal.expected, r.event) ->
             Verdict(goal, "completed", "fields_match")
        [] good # {} /\ ~\E r \in good : Matches(goal.expected, r.event) ->
             Verdict(goal, "failed", "field_mismatch")

\* Without a write, the latest query says what stood in its way.
JudgeQuery(goal, q) ==
  CASE q.found = 0 -> Verdict(goal, "failed", "not_found")
    [] q.found > 1 -> Verdict(goal, "needs_clarification", "multiple_candidates")
    [] q.found = 1 /\ goal.type = "calendar_update" /\ DOMAIN goal.expected = {} ->
         Verdict(goal, "needs_clarification", "missing_expected_result")
    [] OTHER ->
         IF q.known THEN Verdict(goal, "incomplete", "write_missing")
                    ELSE Verdict(goal, "failed", "query_result_missing_event_id")

JudgeCalendar(goal, act, results) ==
  LET calls   == {r \in ToSet(results) : r.tool = Calendar /\ r.action = act}
      queries == Calls(results, "query")
  IN  CASE calls # {} -> JudgeWrites(goal, calls)
        [] calls = {} /\ act # "create" /\ queries # <<>> ->
             JudgeQuery(goal, Last(queries))
        [] calls = {} /\ (act = "create" \/ queries = <<>>) ->
             Verdict(goal, "incomplete", "no_result")

JudgeEvidence(goal, results) ==
  LET rag == {r \in ToSet(results) : r.kind = "rag"}
  IN  CASE rag = {} -> Verdict(goal, "incomplete", "rag_result_missing")
        [] rag # {} /\ \A r \in rag : r.evidence = "full" ->
             Verdict(goal, "completed", "supporting_sources_present")
        [] rag # {} /\ \A r \in rag : r.evidence = "none" ->
             Verdict(goal, "failed", "unsupported")
        [] (\E r \in rag : r.evidence # "full") /\ (\E r \in rag : r.evidence # "none") ->
             Verdict(goal, "partial", "partial_or_related_evidence")

JudgeTool(goal, results) ==
  IF \E r \in ToSet(results) :
       /\ r.kind = "tool" /\ r.status = "ok"
       /\ goal.tool \in {"", r.tool} /\ goal.action \in {"", r.action}
  THEN Verdict(goal, "completed", "tool_result_present")
  ELSE Verdict(goal, "incomplete", "tool_result_missing")

JudgeSkill(goal, results) ==
  IF \E r \in ToSet(results) : r.tool = "skill" /\ r.status = "ok"
  THEN Verdict(goal, "completed", "skill_ok")
  ELSE Verdict(goal, "incomplete", "skill_result_missing")

GoalAction == [calendar_create |-> "create", calendar_update |-> "update",
               calendar_delete |-> "delete"]
Check(goal, results) ==
  CASE goal.type \in DOMAIN GoalAction ->
         JudgeCalendar(goal, GoalAction[goal.type], results)
    [] goal.type = "rag_answer" -> JudgeEvidence(goal, results)
    [] goal.type = "skill_analysis" -> JudgeSkill(goal, results)
    [] goal.type = "mixed" ->
         IF JudgeEvidence(goal, results).status = "failed"
         THEN Verdict(goal, "partial", "unsupported")
         ELSE Verdict(goal, "completed", "mixed_goal_checked_lightly")
    [] goal.type \notin DOMAIN GoalAction
                        \cup {"rag_answer", "skill_analysis", "mixed"} ->
         JudgeTool(goal, results)
=============================================================================
