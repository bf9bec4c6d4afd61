-------------------------- MODULE MCReActExecutor --------------------------
(* Small plans for the executor: query-then-write, two equal queries, two   *)
(* writes, sequential and batched knowledge tasks, a dependency that was    *)
(* blocked before the run, and more work than MaxSteps.  The model also     *)
(* puts batches together, of any task of the plan, labelled as it likes.    *)
EXTENDS ReActExecutor

Cal     == "manage_company_calendar"
In(x,y) == [act |-> x, args |-> y]
Mk(id, kind, deps, tool, in) ==
  [id |-> id, kind |-> kind, deps |-> deps, tool |-> tool, input |-> in]

Query(id, day)     == Mk(id, "tool", {}, Cal, In("query", day))
Write(id, deps)    == Mk(id, "tool", deps, Cal, In("update", "none"))
Rag(id, deps, ask) == Mk(id, "rag", deps, "none", In("none", ask))
Answer             == Mk("a", "answer", {}, "none", In("none", "none"))

MCTaskIds == {"q", "p", "u", "u_2", "r", "s", "a"}
MCTools   == {"none", Cal}
MCActs    == {"none", "query", "update"}
MCArgs    == {"none", "mon", "tue"}
MCRoot(id) == IF id = "u_2" THEN "u" ELSE id

MCPlans ==
  { << >>,
    <<Query("q", "mon"), Write("u", {"q"}), Answer>>,
    <<Query("q", "mon"), Query("p", "mon"), Write("u", {"p"})>>,
    <<Query("q", "mon"), Query("p", "tue"), Write("u", {"p"}), Answer>>,
    <<Write("u", {}), Rag("r", {}, "mon"), Answer>>,
    <<Query("q", "mon"), Rag("r", {"q"}, "tue"), Write("u", {"q"}), Answer>>,
    <<Write("u", {"s"}), Query("q", "mon")>>,
    <<Rag("r", {}, "mon"), Rag("s", {}, "tue"), Answer>>,
    <<Rag("r", {}, "mon"), Query("q", "tue"), Query("p", "tue"), Answer>>,
    <<Rag("r", {}, "mon"), Rag("s", {"r"}, "mon"), Answer>>,
    <<Query("q", "mon"), Query("p", "tue"), Rag("r", {}, "mon"),
      Rag("s", {"q"}, "tue"), Answer>> }

Said(id, query) == [id |-> id, kind |-> "rag", deps |-> {}, query |-> query]
Batches ==
  { {Said("r", "named"), Said("s", "named")}, {Said("s", "named"), Said("a", "named")},
    {Said("u", "named")}, {Said("u", "none")}, {Said("r", "unnamed")},
    {Said("r", "named"), Said("u_2", "unnamed")},
    {[Said("s", "named") EXCEPT !.deps = {"r"}]},
    {[Said("u", "named") EXCEPT !.kind = "tool"]} }

MCLLMReplies ==
  [name : Names \cup {"malformed"}, id : {NoId, "q", "u", "s", "a"},
   tool : {"none", Cal}, input : {NoInput, In("query", "mon")}, batch : {{}}]
  \cup
  [name : {"call_tool", "search_rag"}, id : {NoId, "r", "s"}, tool : {"none"},
   input : {NoInput}, batch : Batches]

\* The writes of a queue expanded to two, or settled without being called.
Expanded(q, i) ==
  SubSeq(q, 1, i) \o <<[q[i] EXCEPT !.id = "u_2"]>> \o SubSeq(q, i + 1, Len(q))
Dropped(q, i) == SubSeq(q, 1, i - 1) \o SubSeq(q, i + 1, Len(q))
Writes(q, done) ==
  {i \in DOMAIN q : q[i].id = "u" /\ "u_2" \notin Ids(q) \cup done}

MCReplies(t, q, done) ==
  LET R(status, settled, left) ==
        [status |-> status, done |-> settled, queue |-> left]
  IN  {R(status, {}, q) : status \in {"success", "error", "need_clarification"}}
      \cup {R(status, {t.id}, q) : status \in {"skipped", "needs_clarification"}}
      \cup {R("success", {}, Expanded(q, i)) : i \in Writes(q, done)}
      \cup {R(status, {q[i].id, t.id}, Dropped(q, i)) :
              status \in {"skipped", "needs_clarification"}, i \in Writes(q, done)}
=============================================================================
