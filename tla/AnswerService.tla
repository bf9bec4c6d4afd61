---------------------------- MODULE AnswerService ----------------------------
(***************************************************************************)
(* From an approved plan to the words the user reads: validation, the      *)
(* results of the run, the completion check, and answer/ with its gates    *)
(* around one call to a language model (generate or stream).               *)
(*                                                                         *)
(* A text is the set of things it says; the empty set is the empty text.   *)
(* Which task runs next and what each call returns is left open here:      *)
(* ReActExecutor, CalendarTurn and RagService are about that.              *)
(***************************************************************************)
EXTENDS GoalCompletion

CONSTANTS
  Requests,   \* [plan, given, unsafe, sentinel, smalltalk, past]
  Stored,     \* the fields of the event a write finds
  Drafts      \* what the answer model may write

Says == {"words", "claims", "denied", "no_access", "asks", "cannot",
         "no_evidence", "no_match", "not_done"}
\* The anchors of _answer_preserves_locked_fact.
Anchors == Says \ {"words", "claims", "no_access"}
ASSUME DraftAssumption ==
  Drafts \subseteq SUBSET Says /\ \A d \in Drafts : d # {} => "words" \in d

\* A plan has one task of an id; fields and contracts hold no empty value.
IsGoal(g) ==
  /\ g = [type |-> g.type, expected |-> g.expected, tool |-> g.tool, action |-> g.action]
  /\ Wanted(g.expected)
ASSUME RequestsAssumption ==
  \A r \in Requests :
    /\ r.plan \in Seq(ToSet(r.plan))
    /\ \A i, j \in DOMAIN r.plan : r.plan[i].id = r.plan[j].id => i = j
    /\ \A t \in ToSet(r.plan) : Wanted(t.fields) /\ DOMAIN t.fields \subseteq Fields
    /\ IsGoal(r.given)

VARIABLES
  request, mode, stage,
  plan,       \* state["execution_plan"]
  refused,    \* plan_validation.blocked_tasks
  unclear,    \* plan_validation.clarification_tasks
  denials,    \* a permission event was recorded for a blocked task
  queue,      \* the tasks not settled yet
  results,    \* state["task_results"]
  last,       \* state["tool_result"]
  route, intent, error, final,
  goal, check,
  gate,       \* state["rag_answerability"]
  locked, packet, draft, sent,
  made        \* history: the writes the calendar really made

planned == <<request, mode, plan, refused, unclear, denials>>
facts   == <<queue, results, last, made>>
tone    == <<route, intent, error, final>>
verdict == <<goal, check>>
wording == <<gate, locked, packet, draft, sent>>
vars    == <<stage, planned, facts, tone, verdict, wording>>

-----------------------------------------------------------------------------
(* resolve_plan_time and validate_plan.                                    *)

RouteOf(tasks) ==
  LET kinds == {t.kind : t \in ToSet(tasks)}
  IN  IF "rag" \in kinds THEN "rag" ELSE IF "tool" \in kinds THEN "tool" ELSE "direct"

Others(tasks, gone) == Restrict(tasks, {i \in DOMAIN tasks : tasks[i] \notin gone})

Validate ==
  /\ stage = "validate"
  /\ goal' = Resolved(Contract(request.given, request.plan))
  /\ \E blocked, open \in SUBSET {t \in ToSet(request.plan) : t.kind = "tool"} :
       LET left == Others(request.plan, blocked \cup open)
           asks == ~(blocked # {} /\ open = {})
       IN  /\ blocked \cap open = {}
           /\ IF request.unsafe
              THEN \* The plan is refused and stays in the state.
                   /\ blocked = {} /\ open = {} /\ denials' = FALSE
                   /\ plan' = request.plan
                   /\ route' = "reject" /\ intent' = "reject"
                   /\ final' = {"words", "cannot"}
              ELSE /\ denials' \in IF blocked = {} THEN {FALSE} ELSE BOOLEAN
                   /\ plan' = left
                   /\ route' = IF DOMAIN left = {} THEN "direct" ELSE RouteOf(request.plan)
                   /\ IF DOMAIN left = {} /\ request.plan # <<>>
                      THEN /\ intent' = IF asks THEN "need_clarification"
                                                ELSE "permission_required"
                           /\ final' = IF asks THEN {"words", "asks"}
                                               ELSE {"words", "denied"}
                      ELSE UNCHANGED <<intent, final>>
           /\ refused' = blocked /\ unclear' = open
  /\ queue' = ToSet(plan') /\ stage' = "run"
  /\ UNCHANGED <<request, mode, results, last, error, check, wording, made>>

-----------------------------------------------------------------------------
(* The run: a task is settled by a row of task_results.                    *)

\* What a tool returned.
NoResult == [wrote |-> "", event |-> <<>>, known |-> FALSE, found |-> 0]
Row(t, status, result, evidence) ==
  [id |-> t.id, kind |-> t.kind, tool |-> t.tool, action |-> t.action,
   status |-> status, evidence |-> evidence, wrote |-> result.wrote,
   event |-> result.event, known |-> result.known, found |-> result.found]

Settle(t, row) == /\ results' = Append(results, row)
                  /\ queue' = queue \ {t}
RunEnds == stage' = "assess"

IsWrite(t) == t.kind = "tool" /\ t.tool = Calendar /\ t.action \in Writes
DateSaid(t) == IF "date" \notin DOMAIN t.fields /\ SingleDay(t.said) # ""
               THEN Just("date", SingleDay(t.said)) ELSE <<>>
After(t) == IF t.action = "delete" THEN <<>>
            ELSE Over(Over(t.fields, DateSaid(t)), Stored)

\* Events a write without an id is resolved from: the latest query's, else the
\* previous turn's (none of those counts as no source).
Sources ==
  LET queries == Calls(results, "query")
  IN  IF queries # <<>> THEN {Last(queries).found} ELSE {request.past} \ {0}
Unpinned(t) == IsWrite(t) /\ t.action # "create" /\ ~t.pinned

\* execute_selected_tool: success, an error result, or a PermissionError.  The
\* last one leaves the previous call's result in the state and in the row.
ToolSucceeds(t) ==
  \E n \in IF t.action = "query" THEN 0 .. 2 ELSE {0} :
    /\ last' = IF IsWrite(t)
               THEN [wrote |-> DoneStatus[t.action], event |-> After(t),
                     known |-> TRUE, found |-> 0]
               ELSE [NoResult EXCEPT !.found = n, !.known = (n > 0)]
    /\ Settle(t, Row(t, "ok", last', "none"))
    /\ made' = IF IsWrite(t) THEN made \cup {[action |-> t.action, event |-> After(t)]}
               ELSE made
    /\ route' = "tool" /\ final' = {}
    /\ UNCHANGED <<stage, intent, error>>
ToolFails(t) ==
  /\ last' = NoResult /\ Settle(t, Row(t, "error", last', "none"))
  /\ route' = "tool" /\ final' \in {{"words"}, {"words", "asks"}}
  /\ RunEnds /\ UNCHANGED <<intent, error, made>>
ToolDenied(t) ==
  /\ Settle(t, Row(t, "error", last, "none"))
  /\ route' = "direct" /\ intent' = "permission_required" /\ error' = TRUE
  /\ final' = IF IsWrite(t) THEN {"words", "denied"} ELSE {"words", "no_access"}
  /\ RunEnds /\ UNCHANGED <<last, made>>

\* append_calendar_resolution_result: the write is settled without a call.
Withheld(t, how) ==
  /\ Settle(t, Row(t, how, [NoResult EXCEPT !.wrote = how], "none"))
  /\ UNCHANGED <<last, made, tone>>

CallTool(t) ==
  /\ stage = "run" /\ t \in queue /\ t.kind = "tool"
  /\ Unpinned(t) => \E n \in Sources : n > 0
  /\ ToolSucceeds(t) \/ ToolFails(t) \/ ToolDenied(t)
  /\ UNCHANGED <<planned, verdict, wording>>
WithholdWrite(t) ==
  /\ stage = "run" /\ t \in queue /\ Unpinned(t)
  /\ \/ /\ Sources # {} /\ Withheld(t, "skipped") /\ UNCHANGED stage
     \/ /\ \A n \in Sources : n > 1
        /\ Withheld(t, "needs_clarification")
        /\ RunEnds \/ UNCHANGED stage
  /\ UNCHANGED <<planned, verdict, wording>>

SearchRag(t) ==
  /\ stage = "run" /\ t \in queue /\ t.kind = "rag"
  /\ \E evidence \in {"full", "related", "none"} :
       Settle(t, Row(t, IF evidence = "full" THEN "ok" ELSE "empty",
                     NoResult, evidence))
  /\ UNCHANGED <<stage, planned, tone, verdict, wording, last, made>>

\* A guardrail or the step limit stops the run, or the model asks the user.
StopRun ==
  /\ stage = "run" /\ queue # {} /\ RunEnds
  /\ \/ UNCHANGED tone
     \/ /\ final' \in {{"words"}, {"words", "asks"}, {"words", "claims"}}
        /\ intent' = "need_clarification" /\ route' = "direct"
        /\ UNCHANGED error
  /\ UNCHANGED <<planned, facts, verdict, wording>>
RunDone ==
  /\ stage = "run" /\ queue = {} /\ RunEnds
  /\ UNCHANGED <<planned, facts, tone, verdict, wording>>

\* _update_goal_completion_check.
Assess ==
  /\ stage = "assess" /\ stage' = "compose"
  /\ LET g == Resolved(Contract(goal, plan))
     IN  IF g.type = "" THEN UNCHANGED verdict
         ELSE goal' = g /\ check' = Check(g, results)
  /\ UNCHANGED <<planned, facts, tone, wording>>

-----------------------------------------------------------------------------
(* Composing: policy_router, composer and verifier.                        *)

Kinds == {r.kind : r \in ToSet(results)}
Clarifying == {"need_clarification"}
RagGrounded ==
  /\ route # "reject" /\ ~(route = "direct" /\ intent = "smalltalk")
  /\ intent \notin Clarifying \cup {"permission_required"}
  /\ ~({"tool", "rag"} \subseteq Kinds)
  /\ Kinds = {"rag"} \/ route = "rag"

RowText(r) ==
  CASE r.status = "skipped" -> {"words", "no_match"}
    [] r.status = "ok" /\ Wrote(r) -> {"words", "claims"}
    [] r.status # "skipped" /\ ~(r.status = "ok" /\ Wrote(r)) -> {"words"}
ToolText(rows) == UNION {RowText(r) : r \in rows}

ToolRows == {r \in ToSet(results) : r.kind = "tool"}
Or(text, other) == IF text # {} THEN text ELSE other

\* compose_template_answer.
DirectText(text) ==
  CASE intent = "smalltalk" -> Or(text, {"words"})
    [] intent = "permission_required" -> Or(text, {"words", "denied"})
    [] intent \in Clarifying -> Or(text, {"words", "asks"})
    [] OTHER -> {}
Template(text) ==
  IF request.sentinel THEN {"words", "cannot"}
  ELSE CASE route = "reject" -> Or(text, {"words", "cannot"})
         [] route = "direct" -> DirectText(text)
         [] route = "tool" ->
              Or(text, IF "rag" \in Kinds THEN {} ELSE ToolText(ToolRows))
         [] OTHER -> {}
ToolTemplate(text) ==
  IF ToolRows = {} THEN {}
  ELSE IF request.sentinel THEN {"words", "cannot"} ELSE Or(text, ToolText(ToolRows))

\* RagAnswerabilityGate.evaluate.
Supported(r) == r.evidence = "full"
Evaluated ==
  LET rag == {r \in ToSet(results) : r.kind = "rag"}
      partial == \/ \E r \in rag : Supported(r) \/ r.evidence = "related"
                 \/ \E r \in ToolRows : r.status = "ok"
  IN  CASE rag = {} -> "insufficient"
        [] rag # {} /\ (\A r \in rag : Supported(r)) -> "full"
        [] (\E r \in rag : ~Supported(r)) /\ partial -> "partial"
        [] (\E r \in rag : ~Supported(r)) /\ ~partial -> "insufficient"

GateAsked == ~request.sentinel /\ ("rag" \in Kinds \/ route = "rag")
NoBasis == {"words", "no_evidence", "cannot"}
\* _apply_answerability_gate: the locked fact, or nothing.
Gated(text) ==
  CASE ~GateAsked \/ Evaluated = "full" -> {}
    [] GateAsked /\ Evaluated = "partial" ->
         IF ToolTemplate(text) = {} THEN {}
         ELSE ToolTemplate(text) \cup {"no_evidence"}
    [] GateAsked /\ Evaluated = "insufficient" ->
         IF RagGrounded THEN NoBasis
         ELSE Or(ToolTemplate(text), Template(text)) \cup NoBasis

-----------------------------------------------------------------------------
(* The packet.                                                             *)

\* The plan is read as it was validated.  The code reads what the resolver's
\* rewriting left of it, in which a withheld write is missing: its row counts.
WritesInPlan == {t \in ToSet(plan) : IsWrite(t)}
WritesAsked == {t \in ToSet(plan) \cup refused \cup unclear : IsWrite(t)}
WriteRows == {r \in ToSet(results) : r.tool = Calendar /\ r.action \in Writes}
Written == {r \in WriteRows : r.wrote = DoneStatus[r.action]}
OnlyPlannedNotExecuted == WritesInPlan \cup WriteRows # {} /\ Written = {}
WriteNotExecuted == WritesAsked \cup WriteRows # {} /\ Written = {}

PacketStatus ==
  LET rag   == {r \in ToSet(results) : r.kind = "rag"}
      empty == {r \in rag : r.status = "empty"}
  IN  IF error \/ route = "reject" THEN "blocked"
      ELSE IF check.status = "needs_clarification" \/ intent \in Clarifying
      THEN "need_clarification"
      ELSE IF WriteNotExecuted \/ \E r \in ToSet(results) : r.status = "error"
      THEN "partial"
      ELSE IF empty = {} THEN "success"
      ELSE IF empty = ToSet(results) THEN "insufficient_evidence" ELSE "partial"

Compose ==
  /\ stage = "compose" /\ stage' = "write"
  /\ LET fact == Or(Template(final), final)
         text == Or(fact, final)
     IN  /\ locked' = Or(Gated(text), fact)
         /\ final' = Or(Gated(text), text)
  /\ gate' = IF GateAsked THEN Evaluated ELSE "none"
  /\ packet' = [status |-> PacketStatus, not_done |-> WriteNotExecuted]
  /\ UNCHANGED <<planned, facts, route, intent, error, verdict, draft, sent>>

\* One call to the answer model; streaming shows each chunk as it comes.
Write ==
  /\ stage = "write" /\ stage' = "guard"
  /\ draft' \in Drafts
  /\ sent' = IF mode = "stream" THEN draft' ELSE {}
  /\ UNCHANGED <<planned, facts, tone, verdict, gate, locked, packet>>

-----------------------------------------------------------------------------
(* The guards on the whole answer.                                         *)

\* _specific_calendar_write_failure_answer.
Failure == IF check.reason \in {"", "not_found"} THEN {"words", "not_done"} ELSE {"words"}

MustPreserve ==
  /\ locked # {}
  /\ \/ route = "reject" \/ request.sentinel
     \/ intent \in Clarifying \cup {"permission_required"}
     \/ gate \in {"insufficient", "partial"}
Preserves(answer) == answer \cap locked \cap Anchors # {}

Unclaimed(answer) ==
  IF packet.not_done /\ "claims" \in answer THEN Failure ELSE answer
Anchored(answer) ==
  IF MustPreserve /\ ~Preserves(answer) THEN locked ELSE answer
NotRefused(answer) == answer
\* Only generate adds the wording of a refusal.
Refusing(answer) ==
  IF mode = "generate" /\ (denials \/ intent = "permission_required")
  THEN answer \cup {"words", "denied"} ELSE answer

Guard ==
  /\ stage = "guard" /\ stage' = "done"
  /\ final' = Or(Refusing(Anchored(Unclaimed(draft))), Or(locked, {"words"}))
  /\ UNCHANGED <<planned, facts, route, intent, error, verdict, wording>>

-----------------------------------------------------------------------------
Init ==
  /\ request \in Requests /\ mode \in {"generate", "stream"}
  /\ stage = "validate" /\ plan = <<>> /\ refused = {} /\ unclear = {}
  /\ denials = FALSE /\ queue = {} /\ results = <<>> /\ last = NoResult
  /\ route = RouteOf(request.plan) /\ error = FALSE /\ final = {}
  /\ intent = IF request.smalltalk THEN "smalltalk" ELSE "answer"
  /\ goal = request.given /\ check = NoVerdict
  /\ gate = "none" /\ locked = {} /\ draft = {} /\ sent = {}
  /\ packet = [status |-> "ready", not_done |-> FALSE]
  /\ made = {}

Next ==
  \/ Validate \/ StopRun \/ RunDone \/ Assess \/ Compose \/ Write \/ Guard
  \/ \E t \in queue : CallTool(t) \/ WithholdWrite(t) \/ SearchRag(t)
Spec == Init /\ [][Next]_vars /\ WF_vars(Next)

-----------------------------------------------------------------------------
(* Properties.                                                             *)

\* The shape of a request's state: rows of its tasks, contracts over known
\* fields with a value for each, texts made of known phrases.
AnswerTypeOK ==
  /\ ToSet(plan) \cup refused \cup unclear \subseteq ToSet(request.plan)
  /\ {r.id : r \in ToSet(results)} \subseteq {t.id : t \in ToSet(plan)}
  /\ \A i, j \in DOMAIN results : results[i].id = results[j].id => i = j
  /\ DOMAIN goal.expected \subseteq Names
  /\ \A f \in DOMAIN goal.expected : goal.expected[f] # ""
  /\ check.status \in {"", "completed", "partial", "failed", "incomplete",
                       "needs_clarification"}
  /\ route \in {"direct", "rag", "tool", "reject"}
  /\ {final, locked, draft, sent} \subseteq SUBSET Says
  /\ stage = "done" => "words" \in final

\* The stored answer says a write was made only when one was, however the
\* draft was worded, if the request had a write at all (packet.py:365).  A
\* clarification the executor's model worded is restored as it is.
ClaimsAreBacked ==
  (stage = "done" /\ "claims" \in final /\ WritesAsked # {}) =>
    made # {} \/ intent \in Clarifying

\* Whoever is refused reads so: the whole answer always, a streamed one when
\* nothing else than the refusal was locked.
RefusalIsSaid ==
  stage = "done" =>
    /\ mode = "generate" /\ (denials \/ intent = "permission_required") =>
         "denied" \in final
    /\ (/\ intent = "permission_required" /\ ~request.sentinel
        /\ "rag" \notin Kinds) => final \cap {"denied", "no_access"} # {}

\* A calendar goal counts as completed only when the write of that kind was
\* made with what the contract expects.
Assessed == stage \notin {"validate", "run", "assess"} /\ goal.type \in DOMAIN GoalAction
CompletedMeansMade ==
  Assessed /\ check.status = "completed" =>
    \E w \in made : w.action = GoalAction[goal.type] /\ Matches(goal.expected, w.event)

\* A request of one write, which was made, counts as completed although its
\* contract repeats what the plan's query asked for.
MadeMeansCompleted ==
  Assessed /\ Cardinality(WritesAsked) = 1 /\ made # {} => check.status = "completed"

\* The check and the calendar agree (completion.py:358, :471).
CompletionTruthful == CompletedMeansMade /\ MadeMeansCompleted

\* A faithful contract expects of the event what the request's write leaves, or
\* repeats what the plan's query asked for beside something that is its own.
Leaves(t, f, value) == f \in DOMAIN After(t) /\ After(t)[f] = value
Achieved(e, f, t) ==
  IF f = "date_expression"
  THEN \/ "date" \in DOMAIN e \/ SingleDay(e[f]) = ""
       \/ Leaves(t, "date", SingleDay(e[f]))
  ELSE Leaves(t, f, e[f])
Repeated(e, f, t, p) ==
  \/ f \in Selectors \cap DOMAIN QuerySelectors(p) /\ e[f] = QuerySelectors(p)[f]
  \/ f = "title" /\ ~t.titled /\ (QueryTitles(p) = {} \/ e[f] \in QueryTitles(p))
  \/ f = "date_expression" /\ e[f] \in QueryExpressions(p)
FaithfulContract(e, t, p) ==
  \/ \A f \in DOMAIN e : Achieved(e, f, t)
  \/ /\ \A f \in DOMAIN e : Achieved(e, f, t) \/ Repeated(e, f, t, p)
     /\ \E f \in DOMAIN e \ (Selectors \cup {"title"}) : ~Repeated(e, f, t, p)
\* So is the contract of a request's only write, whose date is the day it names
\* (_apply_resolved_time_to_task).
Faithful(r) ==
  \A t \in ToSet(r.plan) :
    IsWrite(t) /\ (\A u \in ToSet(r.plan) : IsWrite(u) => u = t) =>
      /\ t.action # "delete" /\ SingleDay(t.when) # "" => Leaves(t, "date", SingleDay(t.when))
      /\ t.action = "update" /\ r.given.type \in DOMAIN GoalAction =>
           r.given.type = "calendar_update" /\ FaithfulContract(r.given.expected, t, r.plan)

\* The comment on the gate: the model may not override an insufficiency
\* decision (service.py:257).
InsufficientIsSaid ==
  stage = "done" /\ gate = "insufficient" => "no_evidence" \in final

\* Several matching events require clarification (calendar/contract.py:31), so
\* a run that stopped for one is presented as such.
AmbiguityIsAsked ==
  stage = "write" /\ route = "tool"
    /\ (\E r \in WriteRows : r.status = "needs_clarification") /\ Written = {}
      => packet.status = "need_clarification"

\* What is streamed claims a write only when one was made.
StreamedClaimsAreBacked ==
  "claims" \in sent /\ WritesAsked # {} => made # {}

\* "I cannot do this": the tasks of a rejected request are not run.
RejectedRunsNothing == request.unsafe => results = <<>>
=============================================================================
