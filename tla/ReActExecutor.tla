--------------------------- MODULE ReActExecutor ---------------------------
(***************************************************************************)
(* The bounded loop of orchestration/react_executor.py: one run over the   *)
(* plan a request was granted.  Each iteration takes one action, proposed  *)
(* by the validated plan when its first remaining task can run directly    *)
(* and by the language model otherwise, checks it against the plan, calls  *)
(* the tool or the knowledge search, and folds the answer into the run.    *)
(*                                                                         *)
(* The state is private to one request, so an iteration is one step.  What *)
(* the tool callback may do to the run (complete tasks, rewrite the queue) *)
(* is the contract LegalReply; CalendarTurn supplies the real callback and *)
(* is checked to keep to it.                                               *)
(***************************************************************************)
EXTENDS Naturals, Sequences

CONSTANTS
  TaskIds,           \* every task id a plan or an expansion may carry
  Tools,             \* tool names, "none" for a task that has none
  Acts,              \* actions of a tool_input, "none" when it names none
  Args,              \* the rest of a tool_input, or a RAG query
  Plans,             \* the plans a run may start from: sequences of tasks
  LLMReplies,        \* what the next-action model may answer
  MaxSteps,          \* ReActExecutor(max_steps), at most 5
  Root(_),           \* the approved id an expanded id "<id>_<n>" comes from
  Replies(_, _, _),  \* answers of call_tool(task) at a queue and completed set
  NoId, NoInput      \* a field the model's reply left out

Kinds     == {"tool", "rag", "answer"}
ToolInput == [act : Acts, args : Args]
Task      == [id : TaskIds, kind : Kinds, deps : SUBSET TaskIds,
              tool : Tools, input : ToolInput]
Names     == {"call_tool", "search_rag", "finish", "ask_clarification"}

\* A member of _batch_tasks, as the action itself describes it; a member whose
\* query is "unnamed" has one but gives its id as "id", not as "task_id".  A
\* batch is a set: the order and the repetition of members are left out.
Member    == [id : TaskIds, kind : Kinds, deps : SUBSET TaskIds,
              query : {"named", "unnamed", "none"}]
Proposal  == [name : Names, id : TaskIds, tool : Tools,
              input : ToolInput \cup {NoInput}, batch : SUBSET Member]

Terminal   == {"blocked", "need_clarification", "failed", "error"}
Completing == {"success", "ok", "empty", "no_evidence"}
Degrading  == {"empty", "no_evidence", "insufficient_evidence"}
\* What _make_tool_callback and _make_rag_callback can return.
ToolStatus == {"success", "error", "skipped", "needs_clarification",
               "need_clarification"}
RagStatus  == {"success", "empty"}
Outcomes   == ToolStatus \cup RagStatus \cup {"blocked", "none"}
Results    == Terminal \cup {"running", "success", "partial"}

ASSUME StepsAssumption == MaxSteps \in 1 .. 5
ASSUME PlansAssumption ==
  /\ Plans \subseteq Seq(Task)
  /\ \A p \in Plans : \A i, j \in DOMAIN p : p[i].id = p[j].id => i = j
ASSUME RootAssumption ==
  \A p \in Plans : \A i \in DOMAIN p : Root(p[i].id) = p[i].id
ASSUME ToolsAssumption ==
  /\ {"none", "manage_company_calendar"} \subseteq Tools
  /\ {"none", "query"} \subseteq Acts
ASSUME RepliesAssumption ==
  LLMReplies \subseteq [name : Names \cup {"malformed"},
                        id : TaskIds \cup {NoId}, tool : Tools,
                        input : ToolInput \cup {NoInput},
                        batch : SUBSET Member]

VARIABLES
  approved,    \* history: the plan the run started from
  executable,  \* ids in plan_validation.executable_tasks ({} if refused)
  queue,       \* state["task_queue"]
  plan,        \* state["execution_plan"]["tasks"]
  completed,   \* state["completed_tasks"]
  seen,        \* signatures already acted on
  overall,     \* overall_status
  step,        \* step_number
  result,      \* "running", then the status of the ReActExecutionResult
  runs,        \* history: how often each task was handed to its callback
  outcome,     \* the status observed for each task
  reused,      \* tasks completed by reusing an earlier query
  gathered     \* history: tasks handed out in a batch the model put together

runVars == <<queue, plan, completed, seen, overall, step, result>>
vars    == <<approved, executable, runVars, runs, outcome, reused, gathered>>

-----------------------------------------------------------------------------
(* Tasks, remaining tasks, and the action a validated plan dictates.       *)

Ids(s) == {s[i].id : i \in DOMAIN s}

\* An emptied queue falls back to the execution plan.
TasksOf(q, p) == IF q # <<>> THEN q ELSE p
Tasks == TasksOf(queue, plan)

Left(tasks, done) == {i \in DOMAIN tasks : tasks[i].id \notin done}
ToolsLeft(tasks, done) == {i \in Left(tasks, done) : tasks[i].kind = "tool"}
LeftToExecute(tasks, done) ==
  {i \in Left(tasks, done) : tasks[i].kind \in {"tool", "rag"}}

First == LET left == Left(Tasks, completed)
         IN  Tasks[CHOOSE i \in left : \A j \in left : i <= j]

\* _task_by_action takes the first match; ids are distinct, so the only one.
TaskNamed(id) == Tasks[CHOOSE i \in DOMAIN Tasks : Tasks[i].id = id]

Fallback(t) ==
  [name  |-> CASE t.kind = "tool" -> "call_tool"
               [] t.kind = "rag"  -> "search_rag"
               [] OTHER           -> "finish",
   id    |-> t.id,
   tool  |-> IF t.kind = "tool" THEN t.tool ELSE "none",
   input |-> t.input,
   batch |-> {}]

\* _can_direct_execute: validated, dependencies done, nothing left to decide.
CanRunDirectly(t) ==
  /\ t.id \in executable
  /\ t.id \notin completed
  /\ t.deps \subseteq completed
  /\ \/ t.kind = "tool" /\ t.tool # "none" /\ t.input.act # "none"
     \/ t.kind = "rag" /\ t.deps = {}

RagBatch ==
  {i \in Left(Tasks, completed) :
     Tasks[i].kind = "rag" /\ CanRunDirectly(Tasks[i])}

Batched == First.kind = "rag" /\ \E i, j \in RagBatch : i # j

AsMember(t) ==
  [id |-> t.id, kind |-> t.kind, deps |-> t.deps, query |-> "named"]

Direct ==
  IF Batched
  THEN LET first == Tasks[CHOOSE i \in RagBatch : \A j \in RagBatch : i <= j]
       IN  {[Fallback(first) EXCEPT !.batch =
               {AsMember(Tasks[i]) : i \in RagBatch}]}
  ELSE IF CanRunDirectly(First) THEN {Fallback(First)} ELSE {}

\* _coerce_action: an unusable reply becomes the first remaining task's own
\* action, a missing task id becomes the first remaining task's.  Every other
\* key of the reply is kept, its _batch_tasks too.
Coerce(reply) ==
  IF reply.name \notin Names
  THEN Fallback(First)
  ELSE [name  |-> reply.name,
        id    |-> IF reply.id = NoId THEN First.id ELSE reply.id,
        tool  |-> reply.tool,
        input |-> reply.input,
        batch |-> reply.batch]

Proposals ==
  IF Direct # {} THEN Direct ELSE {Coerce(reply) : reply \in LLMReplies}

-----------------------------------------------------------------------------
(* Guardrails.                                                             *)

IsCall(a) == a.name \in {"call_tool", "search_rag"}

\* A call names an unsettled task of the plan, of the right kind and tool, whose
\* dependencies are settled.
NamesWork(a) == a.id \in Ids(Tasks) \ completed
Ready(a)     == TaskNamed(a.id).deps \subseteq completed
OfKind(a)    ==
  LET t == TaskNamed(a.id)
  IN  /\ a.name = "call_tool"  => t.kind = "tool"
      /\ a.name = "search_rag" => t.kind = "rag"
      /\ a.name = "call_tool" /\ a.tool # "none" /\ t.tool # "none"
           => a.tool = t.tool
\* A batch is a search for unsettled tasks of the plan; that they are knowledge
\* tasks without dependencies is read from the batch, not from the plan.
BatchInScope(a) ==
  \A m \in a.batch :
    /\ a.name = "search_rag"
    /\ m.id \in Ids(Tasks) \ completed
    /\ m.kind = "rag" /\ m.deps = {}

\* Three ways to get the check wrong.
InScopeAnyKind(a) ==
  /\ a.name = "finish" => LeftToExecute(Tasks, completed) = {}
  /\ IsCall(a) => NamesWork(a) /\ Ready(a)
InScopeAnyOrder(a) ==
  /\ a.name = "finish" => LeftToExecute(Tasks, completed) = {}
  /\ IsCall(a) => NamesWork(a) /\ OfKind(a)
InScopeRepeats(a) ==
  /\ a.name = "finish" => LeftToExecute(Tasks, completed) = {}
  /\ IsCall(a) => a.id \in Ids(Tasks) /\ Ready(a) /\ OfKind(a)

InScope(a) ==
  /\ a.name = "finish" => LeftToExecute(Tasks, completed) = {}
  /\ IsCall(a) => NamesWork(a) /\ Ready(a) /\ OfKind(a) /\ BatchInScope(a)

InputOf(a, t) == IF a.input # NoInput THEN a.input ELSE t.input
ToolOf(a, t)  == IF a.tool # "none" THEN a.tool ELSE t.tool

\* A batch is remembered by the ids of its members.  (An unnamed one is "" in the
\* code's string, which therefore refuses some batches that are let through here.)
Signature(a, t) ==
  [name  |-> a.name,
   tool  |-> IF a.name = "call_tool" THEN ToolOf(a, t) ELSE "none",
   input |-> IF a.batch = {} THEN InputOf(a, t) ELSE NoInput,
   batch |-> {m.id : m \in a.batch}]

IsDuplicateRead(a, t) ==
  /\ a.name = "call_tool"
  /\ ToolOf(a, t) = "manage_company_calendar"
  /\ "query" = IF InputOf(a, t).act # "none" THEN InputOf(a, t).act
                                              ELSE t.input.act

Overwrite(current, seenStatus) == seenStatus
MergeStatus(current, seenStatus) ==
  IF seenStatus \in Terminal THEN seenStatus
  ELSE IF seenStatus \in Degrading /\ current = "success" THEN "partial"
  ELSE current

-----------------------------------------------------------------------------
(* What the callback of call_tool may do: r.status is what the executor is *)
(* told, r.done the tasks it completed on the way, r.queue the task queue  *)
(* it left (<<>> when every task was resolved away).                       *)

LegalReply(t, r) ==
  /\ r.status \in ToolStatus
  /\ r.queue \in Seq(Task)
  /\ r.done \subseteq Ids(Tasks)
  \* whatever neither completes nor ends the run was completed by the callback
  /\ r.status \notin Completing \cup Terminal => t.id \in r.done
  \* a task leaves the queue only when it is settled
  /\ Ids(Tasks) \ Ids(r.queue) \subseteq completed \cup r.done
  /\ \A i, j \in DOMAIN r.queue : r.queue[i].id = r.queue[j].id => i = j
  \* a task keeps its identity; a new one expands a tool task
  /\ \A i \in DOMAIN r.queue :
       \E j \in DOMAIN Tasks :
          LET new == r.queue[i]
              old == Tasks[j]
          IN  /\ new.kind = old.kind /\ new.tool = old.tool
              /\ new.deps = old.deps
              /\ Root(new.id) = Root(old.id)
              /\ \/ new.id = old.id
                 \/ /\ old.kind = "tool"
                    /\ new.id \notin Ids(Tasks) \cup completed

\* Going on after a terminal status, as long as work is left.
RespondAtTheEnd(status, done, newOverall) ==
  /\ completed' = done
  /\ overall' = newOverall
  /\ result' = IF LeftToExecute(TasksOf(queue', plan'), done) = {} THEN newOverall
               ELSE IF step = MaxSteps THEN "partial" ELSE "running"
  /\ step' = IF result' = "running" THEN step + 1 ELSE step

\* The end of an iteration that was told `status`.
Respond(status, done, newOverall) ==
  /\ completed' = done
  /\ overall' = newOverall
  /\ result' = IF status \in Terminal THEN status
               ELSE IF LeftToExecute(TasksOf(queue', plan'), done) = {}
                    THEN newOverall
               ELSE IF step = MaxSteps THEN "partial" ELSE "running"
  /\ step' = IF result' = "running" THEN step + 1 ELSE step

-----------------------------------------------------------------------------

Init ==
  /\ approved \in Plans
  /\ executable \in {Ids(approved), {}}
  /\ queue = approved /\ plan = approved
  /\ completed = {} /\ seen = {} /\ reused = {} /\ gathered = {}
  /\ overall = "success" /\ step = 1 /\ result = "running"
  /\ runs = [id \in TaskIds |-> 0]
  /\ outcome = [id \in TaskIds |-> "none"]

Stop(status) ==
  /\ result' = status
  /\ UNCHANGED <<approved, executable, queue, plan, completed, seen, overall,
                 step, runs, outcome, reused, gathered>>

Running     == result = "running"
Deciding    == Running /\ Left(Tasks, completed) # {}
Accepted    == {a \in Proposals : InScope(a)}
Fresh(a)    == Signature(a, TaskNamed(a.id)) \notin seen
Remember(a) == seen' = seen \cup {Signature(a, TaskNamed(a.id))}

NothingRemains ==
  /\ Running
  /\ Left(Tasks, completed) = {}
  /\ Stop(overall)

GuardrailBlocks ==
  /\ Deciding
  /\ Proposals \ Accepted # {}
  /\ Stop("blocked")

Finish ==
  /\ Deciding
  /\ \E a \in Accepted : a.name = "finish"
  /\ Stop("success")

AskClarification ==
  /\ Deciding
  /\ \E a \in Accepted : a.name = "ask_clarification"
  /\ Stop("need_clarification")

ReuseForgets ==
  /\ Deciding
  /\ \E a \in Accepted :
       IsCall(a) /\ ~Fresh(a) /\ IsDuplicateRead(a, TaskNamed(a.id))
  /\ UNCHANGED vars

\* Completes the task from an earlier answer and goes straight to the next
\* iteration, past the end-of-iteration test.
ReuseDuplicateQuery ==
  /\ Deciding
  /\ \E a \in Accepted :
       /\ IsCall(a) /\ ~Fresh(a)
       /\ IsDuplicateRead(a, TaskNamed(a.id))
       /\ completed' = completed \cup {a.id}
       /\ reused' = reused \cup {a.id}
  /\ result' = IF step = MaxSteps THEN "partial" ELSE "running"
  /\ step' = IF step = MaxSteps THEN step ELSE step + 1
  /\ UNCHANGED <<approved, executable, queue, plan, seen, overall, runs,
                 outcome, gathered>>

DuplicateBlocked ==
  /\ Deciding
  /\ \E a \in Accepted :
       IsCall(a) /\ ~Fresh(a) /\ ~IsDuplicateRead(a, TaskNamed(a.id))
  /\ Stop("blocked")

\* The executor's half of a tool call: action a is accepted and new, and the
\* callback answers r.
CallToolAnswered(a, r) ==
  /\ a.name = "call_tool" /\ Fresh(a) /\ Remember(a)
  /\ queue' = r.queue
  /\ plan' = IF r.queue = <<>> THEN plan ELSE r.queue
  /\ Respond(r.status,
             completed \cup r.done \cup
               (IF r.status \in Completing THEN {a.id} ELSE {}),
             MergeStatus(overall, r.status))
  /\ runs' = [runs EXCEPT ![a.id] = @ + 1]
  /\ outcome' = [outcome EXCEPT ![a.id] = r.status]
  /\ UNCHANGED <<approved, executable, reused, gathered>>

CallTool ==
  /\ Deciding
  /\ \E a \in Accepted :
       /\ a.name = "call_tool"
       /\ \E r \in Replies(TaskNamed(a.id), Tasks, completed) :
            /\ LegalReply(TaskNamed(a.id), r)
            /\ CallToolAnswered(a, r)

\* The members of a batch that are searched for, and the tasks they name so
\* that their results are told apart.
Pending(a)    == {m \in a.batch : m.query # "none"}
Named(members) == {m.id : m \in {x \in members : x.query = "named"}}

\* One search, for the task of the action.  A batch without a single query is
\* answered "empty", and the executor takes that for the action's own task.
SearchRag ==
  /\ Deciding
  /\ \E a \in Accepted :
       /\ a.name = "search_rag" /\ Pending(a) = {} /\ Fresh(a) /\ Remember(a)
       /\ \E status \in IF a.batch = {} THEN RagStatus \cup {"blocked"}
                                      ELSE {"empty"} :
            /\ UNCHANGED <<queue, plan>>
            /\ Respond(status,
                       completed \cup
                         (IF status \in Completing THEN {a.id} ELSE {}),
                       MergeStatus(overall, status))
            /\ runs' = [runs EXCEPT ![a.id] = @ + 1]
            /\ outcome' = [outcome EXCEPT ![a.id] = status]
  /\ UNCHANGED <<approved, executable, reused, gathered>>

\* One retrieval answers every pending member, whatever its task is in the plan,
\* or the permission check refuses all: then only the first step is recorded.
SearchRagBatch ==
  /\ Deciding
  /\ \E a \in Accepted :
       /\ a.name = "search_rag" /\ Pending(a) # {} /\ Fresh(a) /\ Remember(a)
       /\ UNCHANGED <<queue, plan>>
       /\ runs' = [id \in TaskIds |-> IF id \in Named(Pending(a))
                                      THEN runs[id] + 1 ELSE runs[id]]
       /\ gathered' = IF Direct = {} THEN gathered \cup Named(Pending(a))
                                     ELSE gathered
       /\ \/ /\ Respond("blocked", completed, "blocked")
             /\ outcome' = [outcome EXCEPT ![a.id] = "blocked"]
          \/ \E found \in SUBSET Pending(a) :
               /\ Respond("success", completed \cup Named(Pending(a)),
                          IF found = Pending(a) THEN overall
                          ELSE MergeStatus(overall, "empty"))
               /\ outcome' = [id \in TaskIds |->
                                IF id \in Named(found) THEN "success"
                                ELSE IF id \in Named(Pending(a)) THEN "empty"
                                ELSE outcome[id]]
  /\ UNCHANGED <<approved, executable, reused>>

Next ==
  \/ NothingRemains
  \/ GuardrailBlocks
  \/ Finish
  \/ AskClarification
  \/ ReuseDuplicateQuery
  \/ DuplicateBlocked
  \/ CallTool
  \/ SearchRag
  \/ SearchRagBatch

\* The loop is a plain synchronous for: nothing else can keep it waiting, and
\* every callback returns (the model and tool clients carry timeouts).
Spec == Init /\ [][Next]_vars /\ WF_vars(Next)

-----------------------------------------------------------------------------
(* Properties.                                                             *)

TypeOK ==
  /\ approved \in Plans
  /\ executable \subseteq TaskIds
  /\ queue \in Seq(Task) /\ plan \in Seq(Task)
  /\ completed \subseteq TaskIds /\ reused \subseteq TaskIds
  /\ gathered \subseteq TaskIds
  /\ seen \subseteq [name : Names, tool : Tools,
                     input : ToolInput \cup {NoInput}, batch : SUBSET TaskIds]
  /\ overall \in Results \ {"running"} /\ result \in Results
  /\ step \in 1 .. MaxSteps
  /\ runs \in [TaskIds -> Nat]
  /\ outcome \in [TaskIds -> Outcomes]

\* No task is handed to its callback twice, whatever the model proposes, the
\* callback rewrites or a batch gathers: a write is never repeated.
AtMostOnce == \A id \in TaskIds : runs[id] <= 1

\* A run reports success only when every approved tool and knowledge task is
\* settled: no rewrite of the queue and no "finish" of the model loses one.
SuccessCoversPlan ==
  result = "success" =>
    \A i \in DOMAIN approved :
      approved[i].kind \in {"tool", "rag"} => approved[i].id \in completed

\* A callback that failed or was refused ends the run with that very status.
FailureIsReported ==
  \A id \in TaskIds : outcome[id] \in Terminal => result = outcome[id]

\* A run that found no evidence for some task does not report plain success.
\* (After a reused query the model may still say "finish", which does.)
EmptyEvidenceDegrades ==
  result = "success" /\ reused = {} =>
    \A id \in TaskIds : outcome[id] \notin Degrading

\* The status of the run hides neither a failure nor missing evidence that any
\* callback told, in whatever order and batch (react_executor.py:425).
BadNewsIsReported == FailureIsReported /\ EmptyEvidenceDegrades

\* Only tasks of the approved plan, or expansions of them, are handed to a
\* callback, and only tool and knowledge tasks: but of a batch the model put
\* together the executor checks the ids alone, and takes the model's word for
\* the rest (react_executor.py:258-265), so an answer task may be in it.
ApprovedWorkOnly ==
  \A id \in TaskIds :
    runs[id] > 0 =>
      \E i \in DOMAIN approved :
        /\ approved[i].id = Root(id)
        /\ id \notin gathered => approved[i].kind \in {"tool", "rag"}

\* Work handed out in a step had all its approved dependencies settled before,
\* apart, again, from a batch of the model's own.
DependenciesFirst ==
  [][\A id \in TaskIds \ gathered' :
       runs'[id] > runs[id] =>
         \A i \in DOMAIN approved :
           approved[i].id = Root(id) => approved[i].deps \subseteq completed]_vars

\* The loop ends.
Termination == <>(result # "running")

\* "batch execution only supports rag tasks": no other task of the plan is
\* searched for, whatever a batch says of it.
BatchesAreRag ==
  \A i \in DOMAIN approved :
    approved[i].id \in gathered => approved[i].kind = "rag"

\* test_react_executor_blocks_duplicate_tool_input: a second query with the
\* same input is refused, so no task is ever completed by reuse.
DuplicateQueryBlocked == reused = {}

\* "duplicate query reused previous observation": what is completed that way
\* was itself a query.  The signature is of the input the model supplied.
OnlyQueriesAreReused ==
  \A i \in DOMAIN approved :
    executable # {} /\ approved[i].id \in reused
      => approved[i].input.act = "query"
=============================================================================
