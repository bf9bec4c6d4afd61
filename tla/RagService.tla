----------------------------- MODULE RagService -----------------------------
(***************************************************************************)
(* capabilities/rag/service.py: the knowledge tasks of one request.  The   *)
(* executor hands over one batch of tasks at a time (_make_rag_callback).  *)
(* The queries of a batch are retrieved in parallel; every task then runs  *)
(* its own loop in a thread: judge the evidence, ask for a better query,   *)
(* retrieve and judge once more.  The outcomes come back in any order, are *)
(* merged in plan order, and feed the answerability gate of verifier.py.   *)
(*                                                                         *)
(* A step is one call to the retriever or to a model, or a merge.  With    *)
(* one worker the tasks take turns, which is one of the interleavings.     *)
(***************************************************************************)
EXTENDS Naturals, FiniteSets, SequencesExt

CONSTANTS
  Plan,          \* the knowledge tasks in plan order: [id, query]
  Queries,       \* what a task or a rewriting model may ask
  Key(_),        \* normalize_query_key: queries that differ only in spelling
  Chunks,        \* the chunks of the index
  Kbs,           \* the knowledge bases
  KbOf,          \* chunk -> its knowledge base
  UsedKbs,       \* state["used_kbs"]: the bases the role reads
  TopK,          \* settings.top_k
  Shown,         \* _compact_candidate_sources(max_sources)
  PolicyTasks,   \* ids whose question asks about a policy or a procedure
  MayReadRag     \* the role's tokens contain rag:read

Ids     == {Plan[i].id : i \in DOMAIN Plan}
QueryOf == [id \in Ids |-> (CHOOSE t \in ToSet(Plan) : t.id = id).query]
Keys    == {Key(q) : q \in Queries}

ASSUME PlanAssumption ==
  /\ Plan \in Seq([id : Ids, query : Queries])
  /\ \A i, j \in DOMAIN Plan : Plan[i].id = Plan[j].id => i = j
ASSUME KbAssumption == KbOf \in [Chunks -> Kbs] /\ UsedKbs \subseteq Kbs
\* The model is shown six candidates; the default search returns three.
ASSUME ShownAssumption == TopK \in Nat \ {0} /\ Shown \in Nat /\ Shown >= 2 * TopK

VARIABLES
  caching,     \* settings.agent_enable_retrieval_cache
  permitted,   \* the request's role may call search_knowledge_base
  stage,       \* "idle", "retrieve", "process", "raised"
  pending,     \* ids of state["pending_search_tasks"]
  byKey,       \* key -> documents, for the searches of this batch
  work,        \* id -> what its thread has so far
  cache,       \* state["_retrieval_cache"]
  executed,    \* state["_executed_query_keys"]
  results,     \* state["task_results"]: id -> result
  done,        \* state["completed_tasks"]
  replies,     \* id -> status the callback answered to the executor
  seen         \* history: id -> what any search for it returned

kept == <<cache, executed, results, done>>
fixed == <<caching, permitted>>
vars == <<fixed, stage, pending, byKey, work, kept, replies, seen>>

-----------------------------------------------------------------------------
(* Searching.                                                              *)

\* kb_ids = task.target_kbs or used_kbs.
Scope(targets) == IF targets = {} THEN UsedKbs ELSE targets
\* The ranking is not modelled: any few distinct chunks of the bases.
Found(kbs) ==
  LET inKbs == {c \in Chunks : KbOf[c] \in kbs}
  IN  {s \in UNION {[1 .. n -> inKbs] : n \in 0 .. TopK} : IsInjective(s)}

Cached(k) == caching /\ k \in DOMAIN cache
\* A query is run once: not when cached, asked before, or earlier in the batch.
Runnable(ids) == {k \in {Key(QueryOf[id]) : id \in ids} :
                    ~Cached(k) /\ k \notin executed}
ToRetrieve == Runnable(pending) \ DOMAIN byKey

Answerable(id) == Key(QueryOf[id]) \in DOMAIN byKey

-----------------------------------------------------------------------------
(* Judging (evidence_judge.py) and rewriting (self_correct.py).            *)

\* Source ids are unique by position: a repeated chunk gets "#<position>".
ChunksAt(docs, positions) == {docs[i] : i \in positions}

NoEvidence == [answerable |-> FALSE, supporting |-> {}, related |-> {}]

\* Only a fully answerable judgment exposes supporting ids; ids given for an
\* unanswerable one are kept as related evidence.
NormalisedLosingIds(answerable, low, supporting, related) ==
  IF answerable /\ ~low
  THEN [answerable |-> TRUE, supporting |-> supporting, related |-> {}]
  ELSE [answerable |-> FALSE, supporting |-> {}, related |-> related]
Normalised(answerable, low, supporting, related) ==
  IF answerable /\ ~low /\ supporting # {}
  THEN [answerable |-> TRUE, supporting |-> supporting, related |-> {}]
  ELSE [answerable |-> FALSE, supporting |-> {},
        related |-> IF related = {} THEN supporting ELSE related]

\* Nothing to judge, no model or a failing model: not answerable.  The model
\* names any of the candidates it was shown; unknown ids are dropped.
ShownTo(docs) == {i \in DOMAIN docs : i <= Shown}
Judgments(docs) ==
  {NoEvidence} \cup
  {Normalised(answerable, low, supporting, related) :
     answerable, low \in BOOLEAN,
     supporting, related \in SUBSET ShownTo(docs)}

\* validate_retrieval_query: a non-empty same-topic query of bounded length
\* whose bases the role reads; a role that reads none is not compared.
AnyTargets == SUBSET Kbs
ValidTargets == IF UsedKbs = {} THEN SUBSET Kbs ELSE SUBSET UsedKbs

-----------------------------------------------------------------------------
(* One task's thread.                                                      *)

Begun(id) ==
  [at |-> "judge", runs |-> <<Key(QueryOf[id])>>, docs |-> byKey[Key(QueryOf[id])],
   answerable |-> FALSE, supporting |-> {}, related |-> {}, targets |-> {}]

SetWork(id, w) == work' = [work EXCEPT ![id] = w]

\* Evidence related to the question is collected over both judgments and
\* dropped only when one of them finds an answer.
Judged(w, j) ==
  [w EXCEPT !.answerable = j.answerable,
            !.supporting = ChunksAt(w.docs, j.supporting),
            !.related = IF j.answerable THEN {}
                        ELSE @ \cup ChunksAt(w.docs, j.related)]

Judge(id) ==
  /\ stage = "process" /\ id \in DOMAIN work /\ work[id].at = "judge"
  /\ \E j \in Judgments(work[id].docs) :
       SetWork(id, [Judged(work[id], j) EXCEPT
                      !.at = IF j.answerable \/ Len(work[id].runs) = 2
                             THEN "done" ELSE "reflect"])
  /\ UNCHANGED <<fixed, stage, pending, byKey, kept, replies, seen>>

\* One retry at most, with a query that is not the first one respelt.
ReflectAgain(id) ==
  /\ stage = "process" /\ id \in DOMAIN work /\ work[id].at = "reflect"
  /\ \/ SetWork(id, [work[id] EXCEPT !.at = "judge"])
     \/ SetWork(id, [work[id] EXCEPT !.at = "done"])
  /\ UNCHANGED <<fixed, stage, pending, byKey, kept, replies, seen>>
Reflect(id) ==
  /\ stage = "process" /\ id \in DOMAIN work /\ work[id].at = "reflect"
  /\ \/ SetWork(id, [work[id] EXCEPT !.at = "done"])
     \/ \E q \in Queries, targets \in ValidTargets :
          /\ Key(q) # Key(QueryOf[id])
          /\ SetWork(id, [work[id] EXCEPT !.at = "retry", !.targets = targets,
                                          !.runs = Append(@, Key(q))])
  /\ UNCHANGED <<fixed, stage, pending, byKey, kept, replies, seen>>

\* The retry never looks in the cache; both searches' documents are judged.
Retry(id) ==
  /\ stage = "process" /\ id \in DOMAIN work /\ work[id].at = "retry"
  /\ \E docs \in Found(Scope(work[id].targets)) :
       /\ SetWork(id, [work[id] EXCEPT !.at = "judge", !.docs = @ \o docs,
                                          !.targets = {}])
       /\ seen' = [seen EXCEPT ![id] = @ \cup ToSet(docs)]
  /\ UNCHANGED <<fixed, stage, pending, byKey, kept, replies>>

-----------------------------------------------------------------------------
(* One batch.                                                              *)

\* The executor hands over tasks it has not handed over before.  Without the
\* permission the callback answers "blocked" for the batch.
Start ==
  /\ stage = "idle"
  /\ \E ids \in SUBSET (Ids \ DOMAIN replies) \ {{}} :
       IF permitted
       THEN /\ pending' = ids /\ stage' = "retrieve"
            /\ byKey' = [k \in {Key(QueryOf[id]) : id \in
                                  {i \in ids : Cached(Key(QueryOf[i]))}}
                           |-> cache[k]]
            /\ seen' = [id \in Ids |->
                          IF id \in ids /\ Cached(Key(QueryOf[id]))
                          THEN seen[id] \cup ToSet(cache[Key(QueryOf[id])])
                          ELSE seen[id]]
            /\ UNCHANGED replies
       ELSE /\ replies' = [id \in DOMAIN replies \cup ids |->
                             IF id \in ids THEN "blocked" ELSE replies[id]]
            /\ UNCHANGED <<pending, stage, byKey, seen>>
  /\ UNCHANGED <<fixed, work, kept>>

\* Retrievals complete in any order and are matched to tasks by key.
Retrieve(k) ==
  /\ stage = "retrieve" /\ k \in ToRetrieve
  /\ \E docs \in Found(UsedKbs) :
       /\ byKey' = [x \in DOMAIN byKey \cup {k} |->
                      IF x = k THEN docs ELSE byKey[x]]
       /\ seen' = [id \in Ids |->
                     IF id \in pending /\ Key(QueryOf[id]) = k
                     THEN seen[id] \cup ToSet(docs) ELSE seen[id]]
  /\ UNCHANGED <<fixed, stage, pending, work, kept, replies>>

\* Tasks whose query was neither run nor cached are left out.
Fork ==
  /\ stage = "retrieve" /\ ToRetrieve = {}
  /\ work' = [id \in {i \in pending : Answerable(i)} |-> Begun(id)]
  /\ stage' = "process"
  /\ UNCHANGED <<fixed, pending, byKey, kept, replies, seen>>

\* A retriever that raises ends the request, whatever other tasks have found.
Raise ==
  /\ \/ stage = "retrieve" /\ ToRetrieve # {}
     \/ stage = "process" /\ \E id \in DOMAIN work : work[id].at = "retry"
  /\ stage' = "raised" /\ work' = <<>>
  /\ UNCHANGED <<fixed, pending, byKey, kept, replies, seen>>

-----------------------------------------------------------------------------
(* Merging.                                                                *)

\* The skill runs for an unanswered policy question with related evidence.
GapChecked(id, w) == /\ w.supporting = {} /\ w.related # {}
                     /\ id \in PolicyTasks /\ MayReadRag

ResultLenient(id, w) ==
  [status |-> IF w.supporting \cup w.related # {} THEN "ok" ELSE "empty",
   sources |-> w.supporting, related |-> w.related,
   answerable |-> w.answerable, gap |-> GapChecked(id, w)]
Result(id, w) ==
  [status |-> IF w.supporting # {} THEN "ok" ELSE "empty",
   sources |-> w.supporting, related |-> w.related,
   answerable |-> w.answerable, gap |-> GapChecked(id, w)]

\* dedupe_task_results: a task's new result replaces an earlier one.
ResultsAfter == [id \in DOMAIN results \cup DOMAIN work |->
                   IF id \in DOMAIN work THEN Result(id, work[id]) ELSE results[id]]

\* Both searches of a task are cached, the retry under its own query.
FirstCachedBy(id) == {work[id].runs[1]}
CachedBy(id) == ToSet(work[id].runs)
Obtained(id, k) ==
  LET w == work[id]
      first == byKey[w.runs[1]]
  IN  IF k = w.runs[1] THEN first ELSE SubSeq(w.docs, Len(first) + 1, Len(w.docs))

\* However the threads finish, their results are taken in plan order: what the
\* last task that ran a query found is what stays cached for it.
Position(id) == CHOOSE i \in DOMAIN Plan : Plan[i].id = id
RanBy(k)     == {id \in DOMAIN work : k \in CachedBy(id)}
LastToRun(k) == CHOOSE id \in RanBy(k) : \A x \in RanBy(k) : Position(x) <= Position(id)
CacheAfter ==
  IF caching
  THEN [k \in DOMAIN cache \cup UNION {CachedBy(id) : id \in DOMAIN work} |->
          IF RanBy(k) # {} THEN Obtained(LastToRun(k), k) ELSE cache[k]]
  ELSE cache

\* A task without a result counts as "empty"; "ok" is reported as "success".
Reply(id) ==
  IF id \in DOMAIN work /\ Result(id, work[id]).status = "ok"
  THEN "success" ELSE "empty"

Merge ==
  /\ stage = "process" /\ \A id \in DOMAIN work : work[id].at = "done"
  /\ results' = ResultsAfter
  /\ cache' = CacheAfter
  /\ executed' = executed \cup UNION {ToSet(work[id].runs) : id \in DOMAIN work}
  /\ done' = done \cup
       {id \in DOMAIN work : Result(id, work[id]).status = "ok"}
  /\ replies' = [id \in DOMAIN replies \cup pending |->
                   IF id \in pending THEN Reply(id) ELSE replies[id]]
  /\ stage' = "idle" /\ pending' = {} /\ work' = <<>> /\ byKey' = <<>>
  /\ UNCHANGED <<fixed, seen>>

-----------------------------------------------------------------------------
Init ==
  /\ caching \in BOOLEAN /\ permitted \in BOOLEAN
  /\ stage = "idle" /\ pending = {} /\ byKey = <<>> /\ work = <<>>
  /\ cache = <<>> /\ executed = {} /\ results = <<>> /\ done = {}
  /\ replies = <<>> /\ seen = [id \in Ids |-> {}]

\* Searches and model calls return or raise, and the pools wait for all.
Progress ==
  \/ \E k \in Keys : Retrieve(k)
  \/ Fork \/ Merge
  \/ \E id \in Ids : Judge(id) \/ Reflect(id) \/ Retry(id)
Next == Start \/ Progress \/ Raise
Spec == Init /\ [][Next]_vars /\ WF_vars(Progress)

-----------------------------------------------------------------------------
(* Properties.                                                             *)

\* The request's knowledge state, and the shape of every task's work.  Two
\* searches never exceed the candidates a model is shown, so a retry's new
\* evidence is not cut off.
RagTypeOK ==
  /\ caching \in BOOLEAN /\ permitted \in BOOLEAN
  /\ stage \in {"idle", "retrieve", "process", "raised"}
  /\ pending \subseteq Ids /\ DOMAIN work \subseteq pending
  /\ DOMAIN byKey \subseteq Keys /\ DOMAIN cache \subseteq executed
  /\ executed \subseteq Keys /\ done \subseteq Ids
  /\ \A id \in DOMAIN work :
       /\ work[id].at \in {"judge", "reflect", "retry", "done"}
       /\ work[id].docs \in Seq(Chunks) /\ Len(work[id].docs) <= Shown
       /\ Len(work[id].runs) \in 1 .. 2
       /\ work[id].targets \subseteq Kbs
       /\ work[id].answerable = (work[id].supporting # {})
  /\ DOMAIN replies \subseteq Ids
  /\ \A id \in DOMAIN replies : replies[id] \in {"success", "empty", "blocked"}

\* The class promises that a task cannot contaminate another one's evidence:
\* whatever a result cites was found by a search made for that task, in a
\* knowledge base the role reads, however the threads were interleaved.
OwnEvidence ==
  \A id \in DOMAIN results :
    LET cited == results[id].sources \cup results[id].related
    IN  /\ cited \subseteq seen[id]
        /\ UsedKbs # {} => \A c \in cited : KbOf[c] \in UsedKbs

\* What the executor is told, what counts as completed and what the
\* answerability gate will accept are the same tasks.
GateSupports(r) == r.sources # {} /\ r.answerable
GateAgrees ==
  stage = "idle" =>
    /\ done = {id \in DOMAIN results : GateSupports(results[id])}
    /\ done = {id \in DOMAIN replies : replies[id] = "success"}

\* With the cache on, every task that was handed over has a result to build
\* the answer from, also when its query had already been asked: by an earlier
\* task, by one of the same batch, or as another task's retry.
EveryTaskAnswered ==
  (caching /\ stage = "idle") =>
    {id \in DOMAIN replies : replies[id] # "blocked"} \subseteq DOMAIN results

\* Every batch the executor hands over comes back, or ends the request.
BatchReturns == (stage # "idle") ~> (stage \in {"idle", "raised"})

=============================================================================
