# Verification of mini-enterprise-rag-agent

TLA+ models, TLC runs and TLAPS proofs about the agent in `src/src/mini_rag`
(paths below are relative to it). The agent answers questions of a company's
employees: a language model plans tasks, a deterministic executor carries them
out against a calendar, attendance data and a knowledge base, and a second use
of the language model words the answer. What the code guarantees against a
model that proposes anything at all, and between requests served in parallel,
is what these modules are about.

## The system

| component | state it keeps | operations | hard because |
|---|---|---|---|
| ReAct executor (`orchestration/react_executor.py`) | completed ids, action signatures, overall status, step number of one run | direct, batched or model-proposed action; scope check; duplicate handling; status merge; five-step limit | the model picks actions and order; callbacks rewrite the task queue under it |
| Callbacks and queue synchronisation (`orchestration/agentic_nodes.py`) | `task_queue`, the copy of it in `execution_plan`, task results | `call_tool_task`, `search_rag_task`, `react_execute` | one call completes, expands and withholds other tasks |
| Target resolution (`capabilities/calendar/resolver.py`) | latest query's events | turns "the monday meeting" into event ids, asks, skips, expands to several writes | events move between query and write; ambiguity; repeated passes |
| Plan validation (`capabilities/calendar/validator.py`, `planning/gates.py`) | none | which plans may run | says what later code relies on |
| Calendar tool (`tools/calendar_tool.py`, `tools/repositories`, `infrastructure/db`) | SQLite table `calendar_events` | query, create, update, delete, each of one to three statements | FastAPI runs requests in threads; a connection and transaction per statement |
| Tool gate (`execution/tool_executor.py`) | tool results, audit events in the request's state | permission, invoke, verify | verification comes after the commit |
| Policies and sessions (`security/`, the admin endpoints of `api/app.py`) | users, tokens, policies in SQLite; a per-request snapshot of policies | login, logout, enable, create, policy edit, permission check | edits race requests; every opening of the store repairs and migrates |
| Conversation store and memory (`agent/context_store.py`, `memory/service.py`) | summary per session, list of turns | read at the start of a turn, two writes at its end | two turns of one session overlap; a crash between the writes |
| Plan preparation (`orchestration/agentic_nodes.py`, `planning/`) | the plan of the request | normalise the planner's JSON, date it, split it by day, judge it task by task | ids others depend on change; a verdict depends on the tasks kept so far |
| Time resolution (`capabilities/datetime`) | none | which days a phrase names | one phrase is matched by several tables at overlapping places |
| Knowledge retrieval (`capabilities/rag`) | query cache and results of a request | deduplicate, retrieve in parallel, judge, rewrite and retry once, match back to tasks | results arrive in any order; a model judges and rewrites |
| Knowledge index (`ingestion/`, `retrieval/`, the agent of `api/app.py`) | files, Chroma collection, manifest, corpus of each retriever, the agent | import, delete, build, reset, reindex, search | builds overlap and fail half way; requests search meanwhile |
| Completion (`orchestration/completion.py`) | none | goal contract, check of the results against it | the planner's contract repeats what its query asked for |
| Answer and its gates (`answer/`) | none | packet, template, locked fact, draft, guards | last line against claiming what was not done |
| Skills, attendance tools, observability, capability registry, evaluation, frontend | request state, logs | see `PROJECT.json` | mostly data transformation; no shared decisions |

A request goes through a straight line of nodes (`graph/workflow.py`): context,
plan, time, validation, execution, answer (with the completion check before it),
memory. `react_execute` runs the executor's loop with two callbacks; the calendar
callback goes through the tool gate to the calendar tool, the knowledge callback
to the RAG service; the executor sees only a status, the completed ids and the
rewritten queue. Requests share the SQLite files, the index and, in one process,
the agent. `orchestration/goal_react.py` is called by nothing and is left out.

| nodes | module |
|---|---|
| login, authentication, `build_runtime_context`, policies at each call | `AccessControl` |
| `build_runtime_context` and `update_memory`, their session | `SessionMemory` |
| `plan_with_llm`, `resolve_plan_time`, `validate_plan` | `PlanPreparation`, `TimeExpressions` |
| `react_execute` | `ReActExecutor`; `CalendarTurn` and `RagService` are its two callbacks |
| one calendar call, between requests | `CalendarStore`, `CalendarTable` |
| `validate_plan` to `answer_with_llm` | `AnswerService`, `GoalCompletion` |
| the index a search reads | `KnowledgeIndex` |

What makes each part correct:

- executor: no approved task is repeated, run before its dependencies, or lost
  behind a "success"; nothing outside the plan runs; failures and missing
  evidence reach the status; the loop ends;
- resolution: an ambiguous request changes nothing; a single-target request
  changes one event; "all" changes exactly the events chosen; a success means
  every requested write was made or put back to the user;
- calendar store: parallel calls look like atomic changes of one table, no event
  is lost, an answer promises no more than was done;
- memory: a request reads the latest turns, and what it adds to the summary is
  lost to no request but one that overlaps it;
- policies: who acts was entitled to at some moment of the request, by policies
  of the request's time; what an administrator chose stays;
- plan preparation: the days looked up are those the user said; no dependency
  dangles; a change that runs has a target; a refused task takes no other along;
- retrieval: a task cites what was searched for it, gets an answer, and gate,
  executor and results agree which tasks have one;
- index: manifest and collection agree unless a build was disturbed; what a
  reindex made is what later requests search;
- completion and answer: "completed" means written as the contract says; a claim
  of a write is backed by one; a refusal is said.

## Modules

**`ReActExecutor`** is one run of `ReActExecutor.run`, one action per way an
iteration can end: `NothingRemains`, `GuardrailBlocks`, `Finish`,
`AskClarification`, `ReuseDuplicateQuery`, `DuplicateBlocked`, `CallTool`,
`SearchRag`, `SearchRagBatch`. `Direct` are the actions the executor takes
without asking the model; otherwise every reply of `LLMReplies` is coerced as
`_coerce_action` does. `queue` and `plan` are `state["task_queue"]` and
`state["execution_plan"]`; `Tasks` is the executor's view of them (the plan when
the queue is empty). `runs`, `outcome`, `reused` and `gathered` are history
variables the code does not read. The executor puts knowledge tasks of a validated
plan together into a batch (`RagBatch`), and a reply of the model may carry one of
its own: `_coerce_action` keeps its `_batch_tasks` (line 206), the scope check
compares the ids with the plan but reads kind and dependencies from the reply
(`BatchInScope`, lines 255-265), one retrieval answers every member that has a
query (`Pending`), and each member that names its task counts as settled (`Named`,
lines 383-384), whatever its kind in the plan. `gathered` are the tasks handed out
that way. The callback is a parameter, `Replies`, that has to keep to
`LegalReply`: it may complete other tasks, expand tool tasks and drop settled
ones, and cannot lose, duplicate or retarget one. A run also starts with an empty
executable set, as after a plan the gates refused: its tasks stay in the queue
and the model may still propose them.

**`CalendarTurn`** extends it with the real callback. `day` is the calendar
table, `source` the events of the latest query, from which write targets are
taken. `Queried` and `ResolveAndWrite` are the two paths of resolution (after a
query, and right before a write), `Targets`, `Select` and `Expand` its parts.
Selectors inferred from Chinese text are abstracted to the set of events they
match and an ordinal. `Merges` is what becomes of a task's input beside the
model's: every key the task leaves out is taken from the reply, its target and its
selector included, but no date of a query (`agentic_nodes.py:583-597`); the selector has four
names of which the first found counts, so the reply's may also stand before the
task's own. `supplied` remembers where the model gave a target, or the word "all".
Other users change the table between iterations
(`OtherUser`). A call is one step here; an update may report an error for a
change that was made (`Unconfirmed`), which `CalendarStore` shows how.
`Validated` is the part of plan validation that restricts the starting plans
(a write with a selector and only a later query passes it, as in the code).
The property `CallbackKeepsContract` says that this callback is one of those
`LegalReply` describes, so what is proved of `ReActExecutor` for every legal
callback is not about an imaginary one.

**`CalendarStore`** is the SQLite backend between parallel turns, one action per
statement, since each statement opens its own connection: `create_event` reads
the day's ids (`SelectIndex`), inserts (`InsertEvent`, `InsertRefused` on the
UNIQUE constraint) and reads back (`ReadCreated`); `update_event` writes
(`UpdateEvent`) and reads back, and the gate compares the row with the request
(`ReadUpdated`); an update that names no field only reads (`UpdateNothing`) and
still answers "updated". `Raise` is a statement that fails, which ends the call.
**`CalendarTable`** is what it promises: one table, atomic changes, a change
confirmed only after it was made, a failed answer promising nothing.
`TableSpec` is the refinement: an insertion or update takes effect at its
statement, and is confirmed by the read-back.

**`SessionMemory`** is the memory of one session between requests that overlap
or fail anywhere. `get_context` is two statements (`ReadSummary`, `ReadTurns`);
at its end a request makes a summary from the one it read (`Summarise`: an answer
of at most 1600 characters keeps the old one, a longer one asks the model), stores
it (`StoreSummary`), and appends its turn: `append_turn` reads the summary
(`ReadBack`), writes it back (`WriteBack`) and inserts the row (`AppendTurn`). A
summary is the set of requests it digests, so a model that forgets what the old
summary said is outside the model. `before` and `digested` are history.

**`AccessControl`** is the users, sessions and role policies between requests
that run in threads: one SQL transaction, or the Python between two, is a step.
`Arrive` and `OpenForChange` open the store, which seeds, repairs and migrates it
every time (`SeedDefaults`); `CheckPassword` and `InsertSession` are login;
`Authenticate` is `require_current_user` and `require_admin_user`;
`UpdateRolePolicy`, `UpdateUser`, `CreateUser` are the administrator's endpoints.
A chat reads the policies (`ReadPolicies`), keeps them under its id
(`BuildContext`), calls tools by them (`CallTool`), reads them again if they were
evicted (`CallToolAfterEviction`), and removes them at its end (`Finish`) unless
it fails (`Fail`). `chosen`, `log`, `entitled` and `newer` are history.

**`KnowledgeIndex`** is a build of the index, step by step (`Scan`, `Load`,
`DeleteOldChunks`, `AddBatch`, `SaveManifest`, and the two removals of a reset),
between other builds, file changes and searches. A build may fail at any step
(`FailBuild`); nothing keeps two apart. The agent of the process is made and
returned in two steps (`MakeAgent`, `ReturnAgent`), a reindex drops it
(`AnswerReindex`), and its retriever reads the collection once and keeps it
(`CorpusSearch`) beside the vector search, which reads it as it is. A chunk is a
source, a place and a piece of text. `torn`, `reindexed` and `corpusAt` are
history; `torn` says when manifest and collection may disagree.

**`RagService`** is the knowledge callback. `Start` takes a batch, `Retrieve` is one
retrieval of one distinct query, in any order; `Fork` gives every task its thread,
which judges (`Judge`), asks for a better query (`Reflect`) and searches once more
(`Retry`); `Merge` takes the outcomes in plan order into results, cache and
completed tasks. `Raise` is a retriever that raises. Searches return any few
chunks of the bases asked, judgments and rewrites are whatever a model may answer;
`Normalised` is what the code makes of a judgment. A query is its key: two
spellings have one (`Key`).

**`TimeExpressions`** is the resolver as operators: a text is a sequence of
syllables, matched by the tables of weekdays, relative days, ranges and written
dates, longest hit first (`Claimed`), then ordered and deduplicated (`Resolve`,
`Selected`). A day is a number. **`PlanPreparation`** uses it: `Plan` is what
`_normalize_runtime_plan` makes of the planner's JSON, `ResolvePlanTime` dates
tasks and splits a query of several days (`Split`, `Rewired`), `Inherit` takes the
event of the last turn, `ValidateTask` judges one task among those accepted so far
(`Verdict`, `Gate`), `Finish` writes the outcome. An id is the planner's with what
the program appended to it, so that a split and an expansion are told apart. The
wording of a question is two flags: "could you ...?" and whether it asks to look
something up.

**`GoalCompletion`** is `completion.py` as operators: the contract given by the
planner or derived from the plan (`Contract`), freed of what it repeats from the
query (`Sanitised`), and the check of the recorded results against it (`Check`).
**`AnswerService`** runs a request from validation to the stored answer. A text is
the set of things it says (that a write was made, that the user is refused, that
there is no evidence, ...). Results are left open as far as the other modules
settle them: a tool succeeds, fails or is denied, each with what it leaves in the
state (`ToolSucceeds`, `ToolFails`, `ToolDenied`), a write is withheld
(`WithholdWrite`), a search finds something or not, the run stops early
(`StopRun`). `Compose` builds packet, gate and locked fact; `Write` is the draft of
the model, which is shown as it comes when streaming; `Guard` is what the guards
make of it. `made` is history.

The `MC` modules give the constants for TLC; the `Proofs` modules hold the
theorems. A few definitions stand beside the one they vary (`SelectAny` beside
`Select`, ...): each is a plausible mistake in that code, kept to show that the
property it is paired with in `PROJECT.json` notices it.

## Runs

| run | shows |
|---|---|
| `react_core` | eleven plans, every model reply, every kind of legal callback reply: nothing repeated, lost, out of order or outside the plan; bad news reported; `Termination` |
| `calendar_turn` | the calendar callback over small requests: which events may change, that success means written, the callback's contract |
| `calendar_store` | three turns on one day's table: no event lost, refinement of `CalendarTable` |
| `session_memory` | three overlapping requests of one session: a summary's part is lost only to an overlap, the context read is the latest |
| `access` | four requests on an old and not yet migrated database: who acts was entitled to, by policies of the request's time; an administrator's choice stays |
| `index` | two builds, file changes, two requests: when manifest and collection agree, and what a reindex guarantees to later requests |
| `rag` | three tasks in any batches, every judgment and rewrite: own evidence, one answer each, agreement of gate and executor, `BatchReturns` |
| `plan` | some forty plans, six policies, four contexts: days, dependencies, targets, and reads that survive |
| `answer` | eighteen requests, every outcome of their tools, every draft: backed claims, said refusals, truthful completion |
| `lost_date` | disagreement: the new date of a combined find-and-change task is lost |
| `refused_plan` | disagreement: a plan rejected as unsafe is still run |
| `withheld_write` | disagreement: a write put back to the user goes ahead after a later query |

`PROJECT.json` quotes, for each disagreement, the text or test and the code.

**Properties that know of a disagreement.** Because `append_turn` may undo a
summary stored meanwhile, and because a summary is built on the one read when the
request began, `LostOnlyToOverlap` promises nothing to requests that overlap.
Because a write withheld for want of candidates may be expanded by a later query,
`AmbiguousNeverWrites` speaks of writes found ambiguous or empty only. Because a
model may fill in the target of an unresolved write, `NoDoubleWrite` leaves those
tasks out, and because it may fill in a selector that says "all",
`SingleTargetUnlessAll` does so for that case. Because a batch in a reply is checked for its ids
alone, `ApprovedWorkOnly` says less of the tasks in it (that they are of the plan,
not of which kind), `DependenciesFirst` and `CallbackKeepsContract` leave them out,
and `SuccessMeansWritten` leaves out the writes among them, beside those the model
gave a target or settled by repeating a query. Because a build does not notice an earlier one that failed,
`ExactUnlessTorn` has `torn`. Because the clarification worded by the executor's
model is restored as it is, `ClaimsAreBacked` leaves it out. Because a plan is
judged beside its first task, `ReadsSurvive` has two exceptions and
`WritesAreGrounded` one, each stated at the property.

**Further configurations.** These are not part of the standard set; each
checks one property that the code does not have, and can be run by hand with the
module named. TLC shows the behaviour described.

| configuration | module | behaviour |
|---|---|---|
| `not_found` | `MCCalendarStore` | an update that was made is answered "event not found" (`calendar_repository.py:123`) after another turn deleted the row; the template adds that nothing was changed |
| `reuse_blocked` | `MCReActExecutor` | a second query with the same input is reused (`react_executor.py:352`), where `tests/test_unified_react_mainline.py:166` expects it refused |
| `reuse_write` | `MCReActExecutor` | a write proposed with a query's input has its signature and is settled without being executed |
| `batch_rag` | `MCReActExecutor` | a batch in a model's reply labels its members itself: an answer, or a write, is searched for as knowledge and counts as settled (`react_executor.py:261`, `:383`), although the guardrail says "batch execution only supports rag tasks" |
| `clarify_status` | `MCCalendarTurn` | `needs_clarification` (`agentic_nodes.py:607`) does not end a run; only `need_clarification` does |
| `target_own_query` | `MCCalendarTurn` | a write is resolved by the first query that answers, not by the one it depends on (`agentic_nodes.py:620`) |
| `target_observed` | `MCCalendarTurn` | a model's proposal fills in the event id, or the selector, that a validated task leaves out (`agentic_nodes.py:588`) |
| `summary_kept` | `MCSessionMemory` | `append_turn` undoes a summary stored since it read it (`context_store.py:209`) |
| `torn_index` | `MCKnowledgeIndex` | after a build that failed, an undisturbed one saves a manifest that does not list what the collection holds (`build_index.py:75`) |
| `kb_label` | `MCKnowledgeIndex` | a document imported into one knowledge base is indexed under another, by a word of its name or for lack of one (`kb_config.py:60`) |
| `ambiguous` | `MCAnswerService` | a run with an ambiguous write need not be presented as a question (`completion.py:491`, `contract.py:31`) |
| `insufficient` | `MCAnswerService` | a draft that says "cannot" passes for the missing evidence (`answer/service.py:278`, comment at 257) |
| `said_week` | `MCPlanPreparation` | "this Wednesday" in one of its wordings is looked up as the day and as its week (`datetime/resolver.py:352`) |

Smaller observations made while reading, each visible in a definition:

- what is streamed is sent before the guards on the whole answer
  (`answer/service.py:309`; `StreamedClaimsAreBacked` does not hold);
- "next Wednesday and next week" drops the week, some wordings of last Wednesday
  mean this Wednesday, others nothing (`TimeExpressions!WeekPrefixes`, `Outside`);
- a goal of type "mixed" counts as completed unless all evidence is missing; of
  several writes one success completes the goal (`completion.py:471`), and two
  updates are judged by the merge of their fields (`completion.py:155`);
- a denied call is recorded with the result of the call before it
  (`tool_executor.py:103`, `ToolDenied`);
- with the cache off a query asked before is neither run nor answered
  (`rag/service.py:114`); one retrieval that raises discards the batch (435);
  for a role without knowledge bases a rewrite's targets are not compared
  (`self_correct.py:74`);
- a task that depends on a refused one is kept and can never run
  (`agentic_nodes.py:384`); a denied first change ends the search for the targets
  of the others (`calendar/validator.py:181`).

**Bounds.** `MaxSteps` is 5 in the code (`agentic_nodes.py:462`) and in the
calendar runs, so the limit falls inside an expansion of three events. Plans have
up to four tasks: enough for a query, a write expanded past the limit, a second
query that resolves again, and an answer. The model's replies in `react_core` name any
action, the first remaining task or one of four others, another input, and eight
batches: of knowledge tasks, of one and an answer, of a write, with a dependency,
with a wrong kind, without a query and without a name; in `calendar_turn` they add an
event of the model's choice, a selector that says "all" with a new day, and a write
named as a search. Three events and two days give none,
one, and several matches for each query and every ordinal; `MaxOthers = 1` lets
one change by another user fall anywhere. In the store, `MaxIndex = 2` lets an id
be taken, freed and reused, `MaxCalls = 4` lets two creations collide while a
third turn deletes, and two fields of two values let one update touch another
field than the read-back compares. A creation when a day's `MaxIndex` is used up is
cut off by that bound; the code has no limit. In `SessionMemory`, three requests
are enough for two to overlap while a third comes before, between or after; a
window of one turn (six by default) is exceeded by the second.

In `access`, one snapshot is kept (128 in the code), so three chats evict and
read again; `Mixes` gives each hazard its own four requests (three chats and a
policy edit; a login, a logout or a creation beside a chat and changes of users). In
`index`, two files share a chunk of text, contents have two versions, batches hold
one chunk (ten in the code) so that a build can fail between any two, and two
requests are enough to make two agents around one reindex. In `rag`, two of three
tasks ask one query in two spellings and a rewrite may ask the third's; `TopK = 1`
and `Shown = 2` keep the code's proportion, in which two searches fit what the
judge is shown. In `plan`, today is a Wednesday, so a bare weekday may lie before,
on or after it; the phrases include overlapping, repeated and several days; months
have thirty days. In `answer`, a draft is empty or says
any of: a claim, that something cannot be done; requests have up to two tasks,
with a plan for each rule of the contract.
Turns, values and requests are symmetric in the store, memory and access runs,
which check safety only (the refinement included), for which the symmetry is sound.
Deadlock checking is off: runs, calls, builds and requests come to an end.

**Fairness.** `ReActExecutor!Spec` has `WF_vars(Next)`: the loop is a plain
synchronous `for` and the callbacks return, because model and tool clients carry
timeouts. `RagService!Spec` has `WF_vars(Progress)`: searches and model calls return
or raise, and the pools wait for all (`as_completed`, `map`); nothing is assumed
of `Start` or `Raise`. `AnswerService!Spec` has `WF_vars(Next)`, the straight line of
nodes. No fairness is assumed of any particular choice of a model. The other modules
state safety only.

## Proofs

Every theorem is of a module's specification and holds for all values of its
constants that meet the module's named assumptions (below). A proof follows one
pattern: an invariant inductive by itself, one lemma for its start, one per action,
one for the stutter, then `PTL`. What follows says what each invariant adds to the
properties, and why they are not inductive without it.

`CalendarTurnProofs`, part one, is about `ReActExecutor` with *every* callback
that keeps to `LegalReply` (`LegalSpec`); `Spec`, which draws its replies from a
given set, is a case of it.

- `TypeCorrect`, `CalledOnce`, `OnlyApprovedWork`, `DependenciesSettled`,
  `SuccessIsComplete`, `BadNewsReported`: the executor's type invariant and its
  five safety properties (the last is about failures and about missing evidence,
  each of which has a theorem of its own on the way).

Of a task in a batch of the model's own (`gathered`), the code reads from the plan
no more than its id; the theorems say as much, and no more. The strengthening has
five parts. `Lineage`: every queued task comes from an
approved one with its kind and dependencies. `Coverage`: every approved executable
task is settled or still queued. `Settled`: in a run that goes on, what was handed
out is settled, which makes a second call impossible because only unsettled tasks
are in scope. `Degraded` and `WorkLeft`: empty evidence is remembered in `overall`,
and without reuse the loop goes on only while executable work is left, so a
"finish" cannot hide it. The lemmas reduce nine actions to four facts: what a step
hands out (`HandsOut`), what it observes (`Observes`), how the queue may change
(`QueueChanges`), and when it may report success (`SuccessLeavesNothing`).

Part two is the calendar turn, for any plan, table, context, selection and other
users:

- `CalendarTurnIsLegal` (`CalSpec => LegalSpec`): a calendar turn is a run of the
  executor with a legal callback, so part one holds of it (`CalendarRunIsSound`);
  `ContractKept` (`CallbackKeepsContract`) is the same fact at each call;
- `CalTypeCorrect` (`CalTypeOK`), `SingleTarget` (`SingleTargetUnlessAll`),
  `WrittenOnce` (`NoDoubleWrite`), `SuccessIsWritten` (`SuccessMeansWritten`) and
  `AmbiguityStops` (`AmbiguousNeverWrites`).

A call is cut into what the resolver makes of the queue and what the calendar then
does (`Turn`). A task is called as the model completed it (`CalledAs`), and that is
the form in which its own resolution expands it, while a query resolves the queue
as it is (`Based`, `Rewriting`); a task without an action may be called as a write,
so the invariant speaks of what can write (`CanWrite`). `Held` says how the queue relates to the plan: an expansion descends
from one approved write (`Descent`), a write not yet resolved stands alone for its
request (`Alone`), and the targets queued for a request are distinct and are what
was selected for it (`Aimed`). `Traced` and `Carried` are two halves of one
correspondence, "changed" is "target of a completed write": the first keeps a
second call from changing anything the first did not mean, the second makes
success mean written; neither speaks of a request the model set `Apart` (by a
target, a repeated query or a batch of its own), as the properties do not. `Single` needs to know that a request with one changed event
is completed; `Gone`, that a write withheld has no task left; `Over`, that a
success leaves nothing to execute. The queue a resolution makes is a sequence
flattened from the expansions of its tasks; that it holds each part once and in
place (`Gathers`) is shown by a least counterexample, not by recursion.

`CalendarStoreProofs`, for any number of turns, dates, ids, fields and calls:

- `StoreTypeCorrect`, `EventsStay` (`NoEventLost`), and `StoreImplementsTable`
  (`Spec => TableSpec`). The invariant adds to the types that every row carries
  the number of an insertion that took place; the refinement follows step by
  step from how a call moves in and out of the set of unconfirmed changes.

`SessionMemoryProofs`, for any number of requests and any window:

- `MemoryTypeCorrect`, `OverlapAloneLoses` (`LostOnlyToOverlap`) and
  `ContextIsFresh` (`FreshContext`). That the stored summary keeps every digest
  not overlapped is not inductive, since a request in progress may still store the
  summary it holds: `HeldSafe` says the same of every summary in hand, and
  `EndedBefore` that what a request remembers as ended had ended, so a request
  that began later is either remembered or overlaps. Freshness is a fact about
  sequences (`LatestIsFresh`) and its stability under appending (`FreshStays`).

`PlanPreparationProofs`, for any plans, policies, contexts and calendars of the
resolver (`TimeAssumption` types the months and the written dates):

- `ChangesAreGrounded` (`WritesAreGrounded`). The invariant says it of the tasks
  accepted so far; a task accepted later can only add a source (`StaysGrounded`),
  and the gate that let a change pass found one (`GateGrounds`), also when a
  denied first task cut the search short (`DeniedChange`).
- `ReadsAreKept` (`ReadsSurvive`). A read is judged beside the tasks accepted
  before it, so those must give no gate a reason to refuse (`Sound`): then a gate
  that refuses does so for the task itself or for the plan's first, which are the
  two exceptions of the property.
- `PlanTypes` (`PlanTypeOK`) and `DependenciesKept` (`DependenciesHold`). Splitting
  a query keeps the dependencies of each part and gives the parts the query's id
  and a number (`IsSplitOf`); what depended on the query depends on parts that
  exist (`Rewires`); every phrase the resolver finds names a span of two days
  (`PhraseTyped`). The counts add up because each task goes to one of three lists
  (`Lists`).
- `DaysAreLookedUp` (`DaysAreMeant`), for phrases of which the resolver finds the
  days they mean (`ResolverAgrees`, the one hypothesis: what the `plan` run compares
  on the phrases of its instance). Normalisation makes one query of what the
  planner wrote as one, with the phrase the user said (`NormalReads`,
  `CanonicalSaid`); the split looks up each span of it once (`SplitLooks`, by
  `SelectedApart`). Lists of tasks are joined twice, and each element of a joined
  list has a place of its own in one of the parts (`Placing`, by induction along
  `FlattenSeq`): so the tasks that look a span up and the queries that say it are
  in bijection, which stays true of the tasks until they are validated
  (`Grown` in `DaysInv`).

`AccessControlProofs`, for any users, databases, requests, edits and bound on the
snapshots:

- `AccessTypes` (`AccessTypeOK`), `ChoiceIsKept` (`AdminChoiceKept`),
  `ActorsWereEntitled` (`ActorWasEntitled`) and `SnapshotsServeRequests`
  (`SnapshotsServe`). An administrator's choice stays
  because the store was migrated before it and it names valid tools only, so
  there is nothing to repair (`ChoiceInv`). An actor past its authentication is
  remembered as entitled (`EntitledInv`). A snapshot's place in the list tells how
  many were stored after it, so one that is gone was evicted by more than are kept
  (`KeptInv`); what it holds was in force at some entry of the log since the
  request arrived (`TimeInv`).

`KnowledgeIndexProofs`, for any files, builds, requests and scenarios:

- `ReindexIsServed` (`ReindexServes`). A reindex drops the agent before it is
  answered, so the agent in force has read no corpus or read it after the last
  answered reindex (`Knows`); `Made` says that whose corpus is searched was made, and
  `Answered` that a build is answered once.
- `IndexTypes` (`IndexTypeOK`) and `IndexIsExact` (`ExactUnlessTorn`). The manifest
  and the collection agree when no build is at work that wrote (`Sound`). That a
  build restores the agreement needs, for each place a build can be at, what the
  collection still holds of the old manifest and already of the new (`Progress`),
  and that a build nothing disturbs is the only one (`Unshared`).

`RagServiceProofs`, for any plan, knowledge bases, rankings, judgments and
interleaving of the threads:

- `RagTypes` (`RagTypeOK`), `EvidenceIsOwn` (`OwnEvidence`), `GateAgreement`
  (`GateAgrees`) and `AllAnswered` (`EveryTaskAnswered`). A search's documents
  reach a task only by its own query key or its own retry, and both enter what was
  found for it (`FoundFor`, `Begins`, `Cites`); with the cache on, the keys ever run
  are exactly the keys cached (`Searched`), so a query that is not run again is
  answered from the cache (`Served`); what the executor is told, what counts as completed and
  what the gate accepts are written from one judgment (`Told`).

`AnswerServiceProofs`, for any requests, outcomes of their tools, and drafts:

- `ClaimsBacked` (`ClaimsAreBacked`), `RefusalsSaid` (`RefusalIsSaid`) and
  `CompletedWasMade` (`CompletedMeansMade`, the half of `CompletionTruthful` that
  matters most). The invariant carries three facts along a request: a result that
  says a write was made stands for one, the result a denied call leaves behind
  included (`Backed`), and with it a text that claims one (`Claimless`); a refused
  request has its refusal as its text and, once composed, as its locked fact,
  which the guards then restore (`Refused`); a completed goal has a row of its own
  action that matches (`CompletedByARow`).
- `AnswerTypes` (`AnswerTypeOK`). A row settles a task that is no longer queued, so
  no task gets two (`Settled`); every operator a contract goes through keeps its
  fields known and its values non-empty (`Wanted`); a text that says anything has
  words in it (`Speaks`), so what the guards put together is never empty.
- `CompletionIsTruthful` (`CompletionTruthful`): a completed goal's write was made,
  and a request's only write, once made, counts as completed. The second half needs
  to be told that the contract is about that write, which a planner's contract need
  not be: the theorem assumes `Faithful`, that what it expects of an update either
  is what the update leaves or repeats the plan's own query beside something that
  is not repeated. A request that is not faithful expects what nobody asked the
  calendar to do. From there the proof follows the contract: dropping what it
  repeats leaves only what the write achieves (`FaithfulFits`), a contract derived
  from the plan or dated by an expression expects no more (`PlanFits`,
  `ResolvedFits`), so from the validation to the end of the run the check is aimed
  at the write (`Aimed`); no task is lost on the way (`Whole`), each write made has
  its row (`Recorded`), and a matching row completes the goal (`RowCompletes`).
  TLC evaluates `Faithful` on the requests of the instance, the one whose contract
  repeats its query included.

The assumptions are the named ones of the modules, and say what the code declares
or its callers guarantee: sentinels (`NoAgent`, `Nobody`, `NoEvent`, `Absent`) are
none of the values they stand beside; tables have the rows they are declared
with (`StoresAssumption`, `FilesAssumption`); plans are sequences of tasks with
distinct ids and no empty fields (`RequestsAssumption`), and an expansion's id leads
back to its task (`RootAssumption`, `ExpansionAssumption`: `<id>_<n>`, distinct for
each `n`); the judge is shown twice
what a search returns (`ShownAssumption`); bounds are numbers. TLC evaluates each of
them on the instances.

Model-checked only: `Termination` and `BatchReturns` (fairness is outside the
prover), and that the resolver finds the right days (`ResolverAgrees`): `Meant` is
given phrase by phrase, so there is nothing to prove it from.

## What is abstracted or left out

- Texts, timings, traces, audit records; the wording of answers; the payload a
  tool gets (`tool_input.py`), and how tables and lists are formatted.
- A task's id is one of a given set, ids of a plan are distinct, and an expansion
  `<id>_<n>` does not collide with another task. The code enforces neither
  (`agentic_nodes.py:1282`, `resolver.py:488`).
- The order of the members of a batch and a member named twice in one batch: the
  second hand-out would be within the same retrieval. The search of an action
  without a batch asks one query, whichever field of the reply it comes from.
- `AnswerService` keeps the plan as it was validated, while
  `_sync_execution_plan_from_queue` rewrites it during a run: an expansion is one
  more write of the same request, and a write that left the queue has its row
  among the results, which are counted with the plan's writes. It follows no batch
  of the model's making: a write settled that way would have the row of a search, as
  a run that stops before the write has none.
- Exceptions other than permission and validation errors leave `react_execute`
  and end the request; a run then simply stops.
- Ranking and reranking; embeddings; the spelling of written dates and hours.
- The file backend of the calendar, used when a path is configured.
- Code nothing calls: `goal_react.py`, `_preserve_read_tasks_for_denied_write`,
  `_drop_disallowed_write_tasks`, `_block_plan`,
  `classification_covers_current_message`.

Not modelled, each with its reason in `PROJECT.json`: observability (appends
only), the capability registry (declarations), the evaluation suites, scripts,
static frontend and command line (offline, or configuration). They hold no
decision another part reads back, so there is nothing of theirs to check.
