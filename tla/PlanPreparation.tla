--------------------------- MODULE PlanPreparation --------------------------
(***************************************************************************)
(* From the planner's JSON to the tasks that run: the normalisation of     *)
(* plan_with_llm, resolve_plan_time with the split of a query that names    *)
(* several days, and validate_plan, which takes the tasks one by one.      *)
(* (AnswerService has what follows a plan that is refused as a whole.)      *)
(*                                                                         *)
(* An id is a sequence: the id the planner chose and what the program      *)
(* appended to it.  A field that holds nothing is "" or <<>>.              *)
(***************************************************************************)
EXTENDS TimeExpressions

CONSTANTS
  Plans,     \* [tasks, needs_rag, foreign, ability, asked]: what the planner wrote,
             \* the written dates that are not the user's, and whether the question
             \* is worded "could you ...?", or asks to look something up
  Meant(_, _),  \* the days a phrase means, of a new event or of another task
  Policies,  \* the permissions a role may have: [acts, scope, skills]
  Contexts,  \* the previous calendar context: [events, event]
  Skills     \* the skills there are

ASSUME ContextAssumption == \A c \in Contexts : c.events \in Nat

Calendar   == "calendar"
Attendance == "attendance"
ToolNames  == {Calendar, Attendance, "clock", "skill"}
NoSpan     == <<>>
SpanSet    == {NoSpan} \cup (Int \X Int)

\* A task as the planner writes it: what is said of times, ids and spans.
IsSequence(s) == s \in Seq(ToSet(s))
RawTask(raw)  ==
  /\ \A s \in {raw.id, raw.text, raw.date, raw.inner, raw.later, raw.deps} : IsSequence(s)
  /\ raw.guess \in SpanSet /\ raw.aim \in SpanSet
ASSUME PlansAssumption ==
  \A p \in Plans : IsSequence(p.tasks) /\ \A raw \in ToSet(p.tasks) : RawTask(raw)

VARIABLES
  plan, policy, context,   \* the request: a plan, the role's policy, the memory
  stage,
  tasks,                   \* state["execution_plan"]["tasks"]
  first,                   \* selected_tool, selected_action and tool_input
  next,                    \* how many of the tasks validate_plan has looked at
  executable, blocked, unclear,
  route, intent, status

request == <<plan, policy, context>>
lists   == <<next, executable, blocked, unclear>>
outcome == <<route, intent, status>>
vars    == <<request, stage, tasks, first, lists, outcome>>

IsTool(t)       == t.kind = "tool"
IsCal(t, acts)  == IsTool(t) /\ t.tool = Calendar /\ t.action \in acts
NoTask == [id |-> <<>>, kind |-> "", tool |-> "", action |-> "", text |-> <<>>, later |-> <<>>,
           aim |-> NoSpan, span |-> NoSpan, items |-> <<>>, event |-> "", selector |-> FALSE,
           given |-> {}, detail |-> FALSE, deps |-> <<>>]
FirstTool(ts)   == LET tools == {i \in DOMAIN ts : IsTool(ts[i])}
                   IN IF tools = {} THEN NoTask ELSE ts[Min(tools)]

-----------------------------------------------------------------------------
(* _normalize_runtime_plan.                                                *)

\* A bare date that the user did not write is the planner's own.
Usable(p, text) == text # <<>> /\ ~(Len(text) = 1 /\ text[1] \in p.foreign)

\* The planner may put the phrase in any of four places: the first is taken.
Canonical(p, raw) ==
  LET said   == <<raw.text, raw.date, raw.inner, raw.later>>
      usable == {i \in 1 .. 4 : Usable(p, said[i])}
  IN IF usable = {} THEN <<>> ELSE said[Min(usable)]

KindOf(raw) ==
  CASE raw.kind = "direct" -> "answer"
    [] raw.kind = "" -> IF raw.tool # "" THEN "tool" ELSE IF raw.asks THEN "rag" ELSE "answer"
    [] OTHER -> raw.kind
Kinds == {"tool", "rag", "answer"}

ActionOf(raw) ==
  IF raw.tool = Attendance /\ raw.action \in {"", "*"} THEN "query" ELSE raw.action

\* The planner's own dates in tool_input are not trusted.
Stripped(t) == IF IsTool(t) THEN [t EXCEPT !.span = NoSpan] ELSE t

\* A plausible mistake: the new date is copied and stays where it was.
ContractedByCopy(t) ==
  IF IsTool(t) /\ t.tool = Calendar
  THEN [t EXCEPT !.text = IF t.text # <<>> THEN t.text ELSE t.later]
  ELSE t

\* The new date of a change becomes the time of the task, or is dropped.
Contracted(t) ==
  IF IsTool(t) /\ t.tool = Calendar
  THEN [t EXCEPT !.text = IF t.text # <<>> THEN t.text ELSE t.later, !.later = <<>>]
  ELSE t

\* A combined task is a query, of what its target says, and a change after it.
QueryThenUpdate(t) ==
  <<[t EXCEPT !.action = "query", !.event = "", !.given = {}, !.span = t.aim],
    [t EXCEPT !.id = Append(t.id, "update"), !.action = "update", !.text = t.later,
              !.event = "", !.selector = FALSE, !.deps = <<t.id>>]>>

Normal(p, i) ==
  LET raw == p.tasks[i]
      t   == Contracted(Stripped(
               [NoTask EXCEPT !.id = IF raw.id = <<>> THEN <<"t", ToString(i)>> ELSE raw.id,
                  !.kind = KindOf(raw), !.tool = raw.tool, !.action = ActionOf(raw),
                  !.text = Canonical(p, raw), !.span = raw.guess, !.aim = raw.aim,
                  !.later = IF Usable(p, raw.later) THEN raw.later ELSE <<>>,
                  !.event = raw.event, !.selector = raw.selector, !.given = raw.given,
                  !.detail = raw.detail, !.deps = raw.deps]))
  IN CASE KindOf(raw) \notin Kinds -> <<>>
       [] IsCal(t, {"query_then_update"}) -> QueryThenUpdate(t)
       [] OTHER -> <<t>>

\* "query" for a dependency means the plan's first query.
Generic == {<<"query">>, <<"calendar_query">>, <<"previous_query">>}
Aliased(ts) ==
  LET queries == {i \in DOMAIN ts : ts[i].action = "query"}
  IN [i \in DOMAIN ts |->
        [ts[i] EXCEPT !.deps = [d \in DOMAIN @ |->
           IF @[d] \in Generic /\ queries # {} THEN ts[Min(queries)].id ELSE @[d]]]]

RagTask == [NoTask EXCEPT !.id = <<"t", "1">>, !.kind = "rag"]
Normalized(p) ==
  LET ts == FlattenSeq([i \in DOMAIN p.tasks |-> Normal(p, i)])
  IN Aliased(IF ts = <<>> /\ p.needs_rag THEN <<RagTask>> ELSE ts)

RouteOf(ts) ==
  IF \E t \in ToSet(ts) : t.kind = "rag" THEN "rag"
  ELSE IF \E t \in ToSet(ts) : IsTool(t) THEN "tool" ELSE "direct"

Plan ==
  /\ stage = "plan" /\ stage' = "resolve"
  /\ tasks' = Normalized(plan)
  /\ first' = FirstTool(tasks')
  /\ route' = RouteOf(tasks')
  /\ UNCHANGED <<request, lists, intent, status>>

-----------------------------------------------------------------------------
(* resolve_plan_time.                                                      *)

Reads == {Calendar, Attendance}
\* _apply_resolved_time_to_task: a query takes the span, a new event its first
\* day, a change a single day only.
Dated(t, item) ==
  LET span == <<item.from, item.to>>
      put  == CASE ~IsTool(t) -> NoSpan
                [] t.tool \in Reads /\ t.action \in {"", "query", "*"} -> span
                [] t.tool = Calendar /\ t.action = "create" -> <<item.from, item.from>>
                [] t.tool = Calendar /\ t.action = "update" ->
                     IF item.from = item.to THEN span ELSE NoSpan
                [] t.tool = "skill" /\ t.action = "run" -> span
                [] OTHER -> NoSpan
  IN [t EXCEPT !.items = <<item>>, !.span = put]

Phrase(t) == Selected(Resolve(t.text, t.action = "create"))

\* Only a query can be several tasks: another task takes what was said first.
SplitInto(t, items) ==
  IF items = <<>> THEN <<t>>
  ELSE IF Len(items) > 1 /\ IsTool(t) /\ t.tool \in Reads /\ t.action = "query"
       THEN [i \in DOMAIN items |-> [Dated(t, items[i]) EXCEPT !.id = Append(t.id, ToString(i))]]
       ELSE <<Dated(t, Head(items))>>
Split(t) == SplitInto(t, IF t.text = <<>> THEN <<>> ELSE Phrase(t))

\* What was split is depended on through the parts of the same day, or through
\* all of them.
Spans(t) == {<<i.from, i.to>> : i \in ToSet(t.items)} \cup (IF t.span = NoSpan THEN {} ELSE {t.span})
Parts(splits, id) ==
  LET found == {i \in DOMAIN splits : Len(splits[i]) > 1 /\ Front(splits[i][1].id) = id}
      parts == splits[Max(found)]
  IN IF found = {} THEN <<>> ELSE [j \in DOMAIN parts |-> parts[j].id]
Once(ids) == FlattenSeq([i \in DOMAIN ids |->
               IF \E j \in 1 .. i - 1 : ids[j] = ids[i] THEN <<>> ELSE <<ids[i]>>])
SameDay(all, d, t) ==
  LET named == {i \in DOMAIN all : all[i].id = d}
  IN named # {} /\ Spans(all[Max(named)]) \cap Spans(t) # {}
\* What becomes of a dependency on a task that has these parts.
InPlaceOf(all, t, dep, parts) ==
  LET same == FlattenSeq([i \in DOMAIN parts |->
                IF SameDay(all, parts[i], t) THEN <<parts[i]>> ELSE <<>>])
  IN IF parts = <<>> THEN <<dep>> ELSE IF same # <<>> THEN same ELSE parts
\* A plausible mistake: dependencies stay as they were.
NotRewired(all, splits, t) == t

Rewired(all, splits, t) ==
  [t EXCEPT !.deps = Once(FlattenSeq([i \in DOMAIN t.deps |->
                            InPlaceOf(all, t, t.deps[i], Parts(splits, t.deps[i]))]))]

Joined(splits, all) ==
  IF \E s \in ToSet(splits) : Len(s) > 1
  THEN [i \in DOMAIN all |-> Rewired(all, splits, all[i])] ELSE all
Relinked(splits) == Joined(splits, FlattenSeq(splits))
Resolved(ts) == Relinked([i \in DOMAIN ts |-> Split(Contracted(Stripped(ts[i])))])

ResolvePlanTime ==
  /\ stage = "resolve" /\ stage' = "inherit"
  /\ tasks' = Resolved(tasks)
  /\ UNCHANGED <<request, first, lists, outcome>>

-----------------------------------------------------------------------------
(* validate_plan.                                                          *)

\* inherit_calendar_event_ids_from_previous_context: in a plan without a query,
\* a change with no event of its own is about the event of the last turn.
Known == {"e1", "e2"}
Inherit ==
  /\ stage = "inherit" /\ stage' = "validate"
  /\ LET takes(t) == /\ context.event \in Known /\ IsCal(t, {"update"}) /\ t.event \notin Known
                     /\ ~\E q \in ToSet(tasks) : IsCal(q, {"query"})
     IN /\ tasks' = [i \in DOMAIN tasks |->
                       IF takes(tasks[i]) THEN [tasks[i] EXCEPT !.event = context.event] ELSE tasks[i]]
        /\ first' = IF tasks' = tasks THEN first ELSE FirstTool(tasks')
  /\ UNCHANGED <<request, lists, outcome>>

Permitted(t) ==
  LET acts == {a[2] : a \in {x \in policy.acts : x[1] = t.tool}}
  IN "*" \in acts \/ t.action \in acts

\* _validate_skill_task.
SkillIssue(t) ==
  CASE t.event \notin Skills -> "unclear"
    [] t.event \in Skills \ policy.skills -> "blocked"
    [] t.event \in policy.skills /\ "arguments" \notin t.given -> "unclear"
    [] OTHER -> "none"

Writes  == {"create", "update", "delete"}
Finders == {"update", "delete"}
HasSource(ts)      == \E q \in ToSet(ts) : IsCal(q, {"query"}) /\ q.span # NoSpan
\* A plausible mistake: any dependency will do.
DependsOnAnything(ts, t) == t.deps # <<>>
DependsOnQuery(ts, t) == \E q \in ToSet(ts) : IsCal(q, {"query"}) /\ Contains(t.deps, q.id)

\* calendar_write_ability_question_requires_confirmation: "could you move it?"
AbilityQuestion(ts) ==
  /\ (\E t \in ToSet(ts) : IsCal(t, Writes)) \/ IsCal(first, Writes)
  /\ plan.ability
  /\ ~(plan.asked /\ \E t \in ToSet(ts) : IsCal(t, {"query"}))

\* calendar_write_needs_clarification, with the first tool task of the plan
\* beside the tasks accepted so far.
TargetUnknown(ts) ==
  LET writes == {t \in ToSet(ts) : IsCal(t, Finders)}
      asked  == {t \in {first} : IsCal(t, Finders)}
      unknown(t) == t.event \notin Known
  IN /\ \A t \in writes \cup asked : Permitted(t)
     /\ IF writes = {} THEN \E t \in asked : unknown(t) /\ ~HasSource(ts)
        ELSE /\ context.events = 0
             /\ \E t \in writes : unknown(t) /\ ~HasSource(ts) /\ ~DependsOnQuery(ts, t)

\* validate_attendance_tasks.
AttendanceRefused(ts) ==
  policy.scope # "full"
  /\ \E t \in ToSet(ts) : IsTool(t) /\ t.tool = Attendance /\ (policy.scope = "none" \/ t.detail)

\* validate_calendar_tasks.
Incomplete(ts) ==
  \E i \in DOMAIN ts :
    \/ IsCal(ts[i], {"create"}) /\ (~({"title", "time"} \subseteq ts[i].given) \/ ts[i].span = NoSpan)
    \/ /\ IsCal(ts[i], Finders) /\ ts[i].event \notin Known /\ ~ts[i].selector
       /\ ~\E j \in 1 .. i - 1 : IsCal(ts[j], {"query"})
       /\ ~DependsOnQuery(ts, ts[i])

\* apply_capability_gates, in the order it asks.
Gate(ts) ==
  IF AbilityQuestion(ts) \/ TargetUnknown(ts) THEN "unclear"
  ELSE IF AttendanceRefused(ts) THEN "blocked"
  ELSE IF Incomplete(ts) THEN "unclear" ELSE "none"

\* A plausible mistake: a task is judged among all the tasks of the plan.
VerdictInPlan(t) ==
  IF ~IsTool(t) THEN "none"
  ELSE IF t.tool \notin ToolNames \/ ~Permitted(t) THEN "blocked"
  ELSE IF t.tool = "skill" /\ SkillIssue(t) # "none" THEN SkillIssue(t)
  ELSE Gate(tasks)

\* A task is judged among the tasks accepted before it.
Verdict(t) ==
  IF ~IsTool(t) THEN "none"
  ELSE IF t.tool \notin ToolNames \/ ~Permitted(t) THEN "blocked"
  ELSE IF t.tool = "skill" /\ SkillIssue(t) # "none" THEN SkillIssue(t)
  ELSE Gate(Append(executable, t))

ValidateTask ==
  /\ stage = "validate" /\ next < Len(tasks)
  /\ next' = next + 1
  /\ LET t == tasks[next']
     IN /\ executable' = IF Verdict(t) = "none" THEN Append(executable, t) ELSE executable
        /\ blocked' = IF Verdict(t) = "blocked" THEN Append(blocked, t) ELSE blocked
        /\ unclear' = IF Verdict(t) = "unclear" THEN Append(unclear, t) ELSE unclear
  /\ UNCHANGED <<request, stage, tasks, first, outcome>>

Finish ==
  /\ stage = "validate" /\ next = Len(tasks) /\ stage' = "done"
  /\ tasks' = executable
  /\ IF executable # <<>>
     THEN /\ first' = FirstTool(executable)
          /\ status' = IF blocked = <<>> /\ unclear = <<>> THEN "valid" ELSE "partial"
          /\ UNCHANGED <<route, intent>>
     ELSE /\ first' = NoTask /\ route' = "direct"
          /\ IF tasks = <<>> THEN status' = "valid" /\ UNCHANGED intent
             ELSE IF unclear = <<>> THEN status' = "refused" /\ intent' = "permission_required"
             ELSE status' = "needs_clarification" /\ intent' = "need_clarification"
  /\ UNCHANGED <<request, lists>>

Init ==
  /\ plan \in Plans /\ policy \in Policies /\ context \in Contexts
  /\ stage = "plan" /\ tasks = <<>> /\ first = NoTask /\ next = 0
  /\ executable = <<>> /\ blocked = <<>> /\ unclear = <<>>
  /\ route = "" /\ intent = "" /\ status = ""

Next == Plan \/ ResolvePlanTime \/ Inherit \/ ValidateTask \/ Finish
Spec == Init /\ [][Next]_vars

-----------------------------------------------------------------------------
(* Properties.                                                             *)

\* What the planner wrote is kept in the form the run takes: every task has an
\* id and a kind, a change of the calendar keeps its time in one place, a span is
\* two days, and a task looked at is on exactly one of the three lists.
IsTask(t) ==
  /\ DOMAIN t = DOMAIN NoTask
  /\ IsSequence(t.id) /\ t.id # <<>> /\ t.kind \in Kinds
  /\ IsSequence(t.text) /\ IsSequence(t.later) /\ IsSequence(t.deps)
  /\ IsTool(t) /\ t.tool = Calendar => t.later = <<>>
  /\ t.aim \in SpanSet /\ t.span \in SpanSet
AreTasks(ts) == IsSequence(ts) /\ \A t \in ToSet(ts) : IsTask(t)
PlanTypeOK ==
  /\ stage \in {"plan", "resolve", "inherit", "validate", "done"}
  /\ AreTasks(tasks) /\ (IsTask(first) \/ first = NoTask)
  /\ AreTasks(executable) /\ AreTasks(blocked) /\ AreTasks(unclear)
  /\ next \in Nat /\ Len(executable) + Len(blocked) + Len(unclear) = next
  /\ status \in {"", "valid", "partial", "refused", "needs_clarification"}

\* Wherever the planner wrote the phrase and whatever dates it guessed, a span is
\* looked up as often as there are queries of the plan that say it: none is lost
\* to a phrase beside it and none is looked up twice for one query.  A new event is
\* on the first day of what was said of one.  (A query whose planner wrote two
\* different phrases, or only the new date of a change, says nothing clear; and
\* "this Wednesday" in the wording of which the code finds the day and its week,
\* datetime/resolver.py:393, is in no plan: said_week.cfg shows it.)
\* (agentic_nodes.py:245, :816, datetime/resolver.py:329)
Said(raw) == {x \in {raw.text, raw.date, raw.inner} : Usable(plan, x)}
Clear(raw) == /\ \A x, y \in Said(raw) : x = y
              /\ Said(raw) = {} => ~Usable(plan, raw.later)
LookedUp(raw) ==
  /\ KindOf(raw) = "tool"
  /\ \/ raw.tool \in Reads /\ ActionOf(raw) = "query"
     \/ raw.tool = Calendar /\ raw.action = "query_then_update"
Added(raw)     == KindOf(raw) = "tool" /\ raw.tool = Calendar /\ raw.action = "create"
Days(raw, new) == UNION {Meant(x, new) : x \in Said(raw)}
Looking(t)     == IsTool(t) /\ t.tool \in Reads /\ t.action = "query" /\ t.span # NoSpan
LookingAt(s)   == {i \in DOMAIN tasks : Looking(tasks[i]) /\ tasks[i].span = s}
AskedFor(s)    == {k \in DOMAIN plan.tasks :
                     LookedUp(plan.tasks[k]) /\ s \in Days(plan.tasks[k], FALSE)}
OnFirstDay(span, spans) == \E s \in spans : span = <<s[1], s[1]>>
DaysAreMeant ==
  /\ stage \in {"inherit", "validate"}
  /\ \A raw \in ToSet(plan.tasks) : LookedUp(raw) \/ Added(raw) => Clear(raw)
  =>
    /\ \A s \in {t.span : t \in ToSet(tasks)} \cup UNION {Days(raw, FALSE) : raw \in ToSet(plan.tasks)} :
         Cardinality(LookingAt(s)) = Cardinality(AskedFor(s))
    /\ \A t \in ToSet(tasks) : IsCal(t, {"create"}) /\ t.span # NoSpan =>
         \E raw \in ToSet(plan.tasks) : Added(raw) /\ OnFirstDay(t.span, Days(raw, TRUE))

\* A dependency the planner wrote still names a task when the task it named was
\* split into its days, renamed by a generic word or made from a combined task.
\* None is named twice unless the planner named it so.
\* (agentic_nodes.py:1070, :1204)
Ids(ts) == {t.id : t \in ToSet(ts)}
DependenciesHold ==
  stage \in {"inherit", "validate"} =>
    /\ (\A t \in ToSet(Normalized(plan)) : ToSet(t.deps) \subseteq Ids(Normalized(plan)))
         => \A t \in ToSet(tasks) : ToSet(t.deps) \subseteq Ids(tasks)
    /\ \A t \in ToSet(tasks) :
         \/ IsInjective(t.deps)
         \/ \E n \in ToSet(Normalized(plan)) : n.deps = t.deps

\* A change that will run is one the role may make, and has an event: its own or
\* the last turn's, or a query that runs too and that it follows or depends on, or
\* a description of it and events of the last turn.  (A role that may update but
\* not delete, or the reverse, needs no events of the last turn: one change it may
\* not make, first in the plan, ends the search for the target of all others.)
\* (planning/gates.py:133, calendar/validator.py:74, :189)
MayChange == \A a \in Finders : Permitted([NoTask EXCEPT !.tool = Calendar, !.action = a])
Grounded(ts, i) ==
  \/ ts[i].event \in Known
  \/ \E j \in DOMAIN ts : IsCal(ts[j], {"query"}) /\ (j < i \/ Contains(ts[i].deps, ts[j].id))
  \/ ts[i].selector /\ (context.events > 0 \/ ~MayChange)
WritesAreGrounded ==
  stage = "done" =>
    \A i \in DOMAIN tasks : IsCal(tasks[i], Finders) => Permitted(tasks[i]) /\ Grounded(tasks, i)

\* What a role may read is read, whatever becomes of the other tasks of the plan:
\* a readable task is put aside in two cases only.  The first tool task the plan
\* had is a change of the calendar, and the question is worded "could you ...?" or
\* that change has no known event and no dated query runs before the task.
\* (agentic_nodes.py:384, planning/gates.py:133)
Readable(t) == /\ IsTool(t) /\ t.tool \in {Calendar, Attendance, "clock"} /\ Permitted(t)
               /\ t.action \notin Writes
               /\ t.tool = Attendance => policy.scope = "full" \/ (policy.scope = "limited" /\ ~t.detail)
ReadsSurvive ==
  [][next' # next =>
       (Readable(tasks[next']) /\ executable' = executable =>
          \/ plan.ability /\ IsCal(first, Writes)
          \/ IsCal(first, Finders) /\ first.event \notin Known /\ ~HasSource(executable))]_vars

\* What graph/prompts.py:29 tells the planner: in a combined task, pending_update
\* holds what to change, a new date too, and target only finds the event.  The
\* code takes the date out of pending_update before it makes the change a task
\* of its own: the change has no date, and a query with no phrase of its own
\* looks for the event on the new day.  (agentic_nodes.py:861)
NewDateIsKept ==
  stage = "inherit" =>
    \A raw \in ToSet(plan.tasks) : raw.action = "query_then_update" /\ Usable(plan, raw.later) =>
      \E t \in ToSet(tasks) : IsCal(t, {"update"}) /\ t.span \in Meant(raw.later, FALSE)

\* What tests/test_unified_time_resolver.py:70 asks of long phrases, "without
\* substring duplicates": a phrase that names one day or week is one item, so a
\* query stays one task.  "This Wednesday" said as zhe zhou san contains a week
\* by a word that is not the label of that week.  (datetime/resolver.py:352)
OnePhraseOneTask ==
  stage = "inherit" =>
    \A raw \in ToSet(plan.tasks) : LookedUp(raw) /\ Cardinality(Meant(raw.text, FALSE)) = 1 =>
      Cardinality({t \in ToSet(tasks) : t.action = "query"}) = 1
=============================================================================
