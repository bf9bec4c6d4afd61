---------------------------- MODULE CalendarTurn ----------------------------
(***************************************************************************)
(* One turn that reads and writes the company calendar: the executor of    *)
(* ReActExecutor with the callback of _make_tool_callback, the resolver of *)
(* capabilities/calendar/resolver.py that turns "the meeting of monday"    *)
(* into event ids, and the calendar table, which other users change        *)
(* between the iterations of this run.                                     *)
(*                                                                         *)
(* A tool call and its resolution are one step: the run's own state is     *)
(* private and each call issues one statement that reads or writes rows.   *)
(***************************************************************************)
EXTENDS ReActExecutor, FiniteSets, SequencesExt

CONSTANTS
  EventIds,      \* event ids, ordered as the rows of one day are
  Days,          \* dates
  Contexts,      \* event lists previous_tool_context may carry
  MaxOthers,     \* bound: changes by other users during the run
  Nth(_, _)      \* the id of the k-th expansion of a task, k > 1

\* What a calendar tool_input says besides its action.  match: the events its
\* selector fits; ord: an ordinal or "all" (with every event in match and no
\* ordinal, there is no selector).
Ordinals == {"", "first", "second", "last", "all"}
Calendar == "manage_company_calendar"

ASSUME CalendarAssumption ==
  /\ EventIds \subseteq Nat /\ Days \subseteq Nat \ {0}
  /\ Args = [days : SUBSET Days, target : EventIds \cup {0},
             match : SUBSET EventIds, ord : Ordinals]
  /\ 0 \notin EventIds /\ IsFiniteSet(EventIds)
  /\ \A c \in Contexts : c \in Seq(EventIds) /\ IsInjective(c)
  /\ MaxOthers \in Nat
ASSUME ExpansionAssumption ==
  \A p \in Plans, i, k \in 2 .. Cardinality(EventIds) :
    \A j \in DOMAIN p :
      /\ Nth(p[j].id, k) \in TaskIds
      /\ Root(Nth(p[j].id, k)) = p[j].id /\ Nth(p[j].id, k) # p[j].id
      /\ i # k => Nth(p[j].id, i) # Nth(p[j].id, k)

VARIABLES
  day,         \* the table: the day of each event, 0 once it is gone
  source,      \* latest_calendar_query_events: what write targets come from
  answers,     \* history: the events each query task returned
  offered,     \* history: events of the previous context
  wrote,       \* history: how often a root task changed each event
  selected,    \* history: the events chosen as targets of each root task
  supplied,    \* history: "target" or "all" the model filled into a root task
  withheld,    \* history: root tasks settled without a write, and why
  others       \* number of changes other users made

calVars == <<day, source, answers, offered, wrote, selected, supplied,
             withheld, others>>
allVars == <<vars, calVars>>

-----------------------------------------------------------------------------
(* Selection of write targets.                                             *)

IsWrite(t)    == t.kind = "tool" /\ t.tool = Calendar
                 /\ t.input.act \in {"update", "delete"}
IsQuery(t)    == t.kind = "tool" /\ t.tool = Calendar /\ t.input.act = "query"
Unresolved(t) == IsWrite(t) /\ t.input.args.target = 0

\* Rows of the asked days, ORDER BY date, time, id.
Before(x, y) == day[x] < day[y] \/ (day[x] = day[y] /\ x < y)
Rows(days) ==
  LET hits   == {e \in EventIds : day[e] \in days}
      places == 1 .. Cardinality(hits)
  IN  CHOOSE s \in [places -> hits] :
        \A i, j \in places : i < j => Before(s[i], s[j])

Selection(how, list) == [how |-> how, list |-> list]

\* The events of a list that a selector fits, in the order of the list.
Fitting(list, match) ==
  FlattenSeq([i \in DOMAIN list |->
    IF list[i] \in match THEN <<list[i]>> ELSE << >>])

\* Two ways to get it wrong: no ambiguity check, and the other spelling.
SelectAny(list, args) ==
  LET found == Fitting(list, args.match)
  IN  Selection(IF found = << >> THEN "skipped" ELSE "chosen", found)

SelectMisspelt(list, args) ==
  IF Len(list) > 1 THEN Selection("need_clarification", << >>)
                   ELSE SelectAny(list, args)

\* select_calendar_events: a single candidate is taken whatever the ordinal.
Select(list, args) ==
  LET found == Fitting(list, args.match)
      n     == Len(found)
  IN  CASE n = 0                              -> Selection("skipped", << >>)
        [] n = 1                              -> Selection("chosen", found)
        [] n > 1 /\ args.ord = "first"  -> Selection("chosen", <<found[1]>>)
        [] n > 1 /\ args.ord = "second" -> Selection("chosen", <<found[2]>>)
        [] n > 1 /\ args.ord = "last"   -> Selection("chosen", <<found[n]>>)
        [] n > 1 /\ args.ord = "all"    -> Selection("chosen", found)
        [] n > 1 /\ args.ord = ""       -> Selection("needs_clarification", << >>)

\* An update trusts a single observed event; a delete still applies its selector.
Targets(t, from) ==
  IF t.input.act = "update" /\ Len(from) = 1
  THEN Selection("chosen", from)
  ELSE Select(from, t.input.args)

ExpandToFirst(t, list) ==
  [k \in DOMAIN list |->
     [t EXCEPT !.id = IF k = 1 THEN @ ELSE Nth(@, k),
               !.input.args.target = list[1]]]

\* "<id>" for the first target, "<id>_<n>" for the others.
Expand(t, list) ==
  [k \in DOMAIN list |->
     [t EXCEPT !.id = IF k = 1 THEN @ ELSE Nth(@, k),
               !.input.args.target = list[k]]]

\* One pass of resolve_updates or resolve_deletes over a queue: what becomes of
\* each task, the queue that results, and the last status appended, if any.
Touched(q, act) == {i \in DOMAIN q : Unresolved(q[i]) /\ q[i].input.act = act}

ResolvedKeepsWithheld(q, act, from) ==
  FlattenSeq([i \in DOMAIN q |->
    IF i \in Touched(q, act) /\ Targets(q[i], from).list # << >>
    THEN Expand(q[i], Targets(q[i], from).list) ELSE <<q[i]>>])

Resolved(q, act, from) ==
  FlattenSeq([i \in DOMAIN q |->
    IF i \in Touched(q, act) THEN Expand(q[i], Targets(q[i], from).list)
                             ELSE <<q[i]>>])

Withheld(q, act, from) ==
  {i \in Touched(q, act) : Targets(q[i], from).how # "chosen"}

\* append_calendar_resolution_result records nothing for a completed task.
Reported(q, act, from) ==
  {i \in Withheld(q, act, from) : q[i].id \notin completed}

Chosen(t, pick) == {<<Root(t.id), e>> : e \in ToSet(pick.list)}

LastStatus(q, act, from) ==
  LET held == Reported(q, act, from)
  IN  IF held = {} THEN "none"
      ELSE Targets(q[CHOOSE i \in held : \A j \in held : j <= i], from).how

-----------------------------------------------------------------------------
(* The callback.  Each reply carries the executor's part and the part of   *)
(* this module: rows, source and withheld tasks afterwards, and the write. *)

\* setdefault: the model's input fills the keys the task leaves out, but no date.
\* A selector may sit under four keys of which the first counts, so the model's
\* may also stand before the task's own; an ordinal inferred from the text of
\* the task then stays.  The day of a change may come in a pending_update.
Merges(a, t) ==
  IF a.input = NoInput THEN {t}
  ELSE LET own  == t.input.args
           said == a.input.args
           act  == IF t.input.act = "none" THEN a.input.act ELSE t.input.act
       IN  {[t EXCEPT !.input =
               [act  |-> act,
                args |-> [days   |-> days,
                          target |-> IF own.target = 0 THEN said.target
                                                       ELSE own.target,
                          match  |-> selector[1], ord |-> selector[2]]]] :
              days \in IF act = "update" /\ said.days # {}
                      THEN {own.days, said.days} ELSE {own.days},
              selector \in {<<own.match, own.ord>>, <<said.match, own.ord>>,
                            <<said.match, said.ord>>}}

\* What the model filled into the write the queue has under this id.
FilledIn(t) ==
  LET own == TaskNamed(t.id).input.args
      new == t.input.args
  IN  {<<Root(t.id), what>> :
         what \in {x \in {"target", "all"} :
                     /\ IsWrite(t)
                     /\ x = "target" => new.target # own.target
                     /\ x = "all"    => new.ord = "all" /\ own.ord # "all"}}

\* Nothing happened but this: a failed or refused call leaves all as it was.
Failed(left) ==
  [status |-> "error", done |-> {}, queue |-> left,
   rows |-> day, source |-> source, held |-> {}, chosen |-> {},
   target |-> 0]

Done(t, left) == [Failed(left) EXCEPT !.status = "success", !.done = {t.id}]

\* A query, and the resolution of the writes still waiting for their target:
\* the updates of the queue, or its deletes when no update was touched.
Queried(t) ==
  LET list == Rows(t.input.args.days)
      act  == IF Touched(Tasks, "update") # {} THEN "update" ELSE "delete"
      held == Reported(Tasks, act, list)
      last == LastStatus(Tasks, act, list)
  IN  [Done(t, Resolved(Tasks, act, list)) EXCEPT
         !.status = CASE last = "needs_clarification" -> "need_clarification"
                      [] last = "skipped" -> "skipped"
                      [] OTHER            -> "success",
         !.done   = @ \cup {Tasks[i].id : i \in held},
         !.source = [has |-> TRUE, list |-> list],
         !.held   = {<<Root(Tasks[i].id), Targets(Tasks[i], list).how>> :
                       i \in held},
         !.chosen = UNION {Chosen(Tasks[i], Targets(Tasks[i], list)) :
                             i \in Touched(Tasks, act)}]

\* The write itself; "event not found" when another user removed the row.
Written(t, left) ==
  LET e == t.input.args.target
  IN  IF day[e] = 0 THEN Failed(left)
      ELSE [Done(t, left) EXCEPT
              !.target  = e,
              !.rows[e] = IF t.input.act = "delete" THEN 0
                          ELSE IF t.input.args.days = {} THEN @
                          ELSE CHOOSE d \in t.input.args.days : TRUE]

\* An update is committed before it is read back and verified: its call may
\* report an error for a change that was made.
Unconfirmed(r) == [r EXCEPT !.status = "error", !.done = {}]

WithDoubt(t, r) ==
  IF t.input.act = "update" /\ r.target # 0 THEN {r, Unconfirmed(r)} ELSE {r}

ResolvedForgettingQueue(t, list) == Expand(t, list)

ResolvedFirstOnly(t, list) ==
  FlattenSeq([i \in DOMAIN Tasks |->
    IF Tasks[i].id # t.id \/ list = << >> THEN <<Tasks[i]>>
                                        ELSE Expand(t, <<list[1]>>)])

\* resolve_task_from_context: what became of this one task, in its place.
PutBack(t, list) ==
  FlattenSeq([i \in DOMAIN Tasks |->
    IF Tasks[i].id = t.id THEN list ELSE <<Tasks[i]>>])

ResolvedAlone(t, list) == PutBack(t, Expand(t, list))

ResolveAndWrite(t) ==
  LET pick == Targets(t, source.list)
      how  == IF source.has THEN pick.how ELSE "needs_clarification"
      left == IF source.has THEN ResolvedAlone(t, pick.list)
                               ELSE PutBack(t, <<t>>)
  IN  IF how = "chosen"
      THEN [Written(Expand(t, pick.list)[1], left) EXCEPT
              !.chosen = Chosen(t, pick)]
      ELSE [Done(t, left) EXCEPT
              !.status = how,
              !.held   = {<<Root(t.id), IF source.has THEN how ELSE "no_source">>}]

\* create: a row of the asked day under an id no row has; it needs a date.
Created(t) ==
  {[Done(t, Tasks) EXCEPT !.rows[e] = d] :
     e \in {x \in EventIds : day[x] = 0}, d \in t.input.args.days}

CalendarReplies(t) ==
  {Failed(Tasks)} \cup
  CASE IsQuery(t)                   -> {Queried(t)}
    [] IsWrite(t) /\ Unresolved(t)  -> WithDoubt(t, ResolveAndWrite(t))
    [] IsWrite(t) /\ ~Unresolved(t) -> WithDoubt(t, Written(t, Tasks))
    [] t.tool = Calendar /\ t.input.act = "create" -> Created(t)
    [] OTHER                        -> {Done(t, Tasks)}

-----------------------------------------------------------------------------

\* validate_plan: an update without a target takes the single event of the
\* previous context when the plan has no query of its own; any other write needs
\* a query somewhere in the plan, or a previous context.  (It also needs a
\* selector when no query comes first, but the selector may fit every event.)
Validated(p, context) ==
  LET queries == {i \in DOMAIN p : IsQuery(p[i])}
  IN  \A i \in DOMAIN p :
        Unresolved(p[i]) =>
          /\ p[i].input.act = "update" /\ Len(context) = 1 => queries # {}
          /\ queries # {} \/ context # << >>

CalInit ==
  /\ Init
  /\ day \in [EventIds -> Days \cup {0}]
  /\ \E context \in Contexts :
       /\ executable # {} => Validated(approved, context)
       /\ source = [has |-> context # << >>, list |-> context]
       /\ offered = {context[i] : i \in DOMAIN context}
  /\ answers = [id \in TaskIds |-> {}]
  /\ wrote = [id \in TaskIds |-> [e \in EventIds |-> 0]]
  /\ selected = {<<t.id, t.input.args.target>> :
                   t \in {x \in ToSet(approved) : IsWrite(x) /\ ~Unresolved(x)}}
  /\ supplied = {} /\ withheld = {}
  /\ others = 0

CalendarCall ==
  /\ Deciding
  /\ \E a \in Accepted :
       /\ a.name = "call_tool"
       /\ \E t \in Merges(a, TaskNamed(a.id)) :
            \E r \in CalendarReplies(t) :
                /\ CallToolAnswered(a, [status |-> r.status, done |-> r.done,
                                        queue |-> r.queue])
                /\ day' = r.rows
                /\ source' = r.source
                /\ withheld' = withheld \cup r.held
                /\ selected' = selected \cup r.chosen
                /\ supplied' = supplied \cup FilledIn(t)
                /\ answers' = IF IsQuery(t) /\ r.status # "error"
                              THEN [answers EXCEPT ![t.id] = ToSet(r.source.list)]
                              ELSE answers
                /\ wrote' = [wrote EXCEPT ![Root(t.id)] =
                               [e \in EventIds |->
                                  IF e = r.target THEN @[e] + 1 ELSE @[e]]]
  /\ UNCHANGED <<offered, others>>

\* Another user creates, moves or deletes an event.
OtherUser ==
  /\ Running /\ others < MaxOthers
  /\ \E e \in EventIds, d \in Days \cup {0} :
       d # day[e] /\ day' = [day EXCEPT ![e] = d]
  /\ others' = others + 1
  /\ UNCHANGED <<vars, source, answers, offered, wrote, selected, supplied,
                 withheld>>

Elsewhere(A) == A /\ UNCHANGED calVars

CalNext ==
  \/ Elsewhere(NothingRemains)
  \/ Elsewhere(GuardrailBlocks)
  \/ Elsewhere(Finish)
  \/ Elsewhere(AskClarification)
  \/ Elsewhere(ReuseDuplicateQuery)
  \/ Elsewhere(DuplicateBlocked)
  \/ CalendarCall
  \/ Elsewhere(SearchRag)
  \/ Elsewhere(SearchRagBatch)
  \/ OtherUser

CalSpec == CalInit /\ [][CalNext]_allVars

-----------------------------------------------------------------------------
(* Properties.                                                             *)

CalTypeOK ==
  /\ TypeOK
  /\ day \in [EventIds -> Days \cup {0}]
  /\ source \in [has : BOOLEAN, list : Seq(EventIds)]
  /\ answers \in [TaskIds -> SUBSET EventIds]
  /\ offered \subseteq EventIds
  /\ wrote \in [TaskIds -> [EventIds -> Nat]]
  /\ selected \subseteq TaskIds \X EventIds
  /\ supplied \subseteq TaskIds \X {"target", "all"}
  /\ withheld \subseteq TaskIds \X {"skipped", "needs_clarification", "no_source"}
  /\ others \in 0 .. MaxOthers

RequestOf(id) == approved[CHOOSE i \in DOMAIN approved : approved[i].id = id]
Changed(id)   == {e \in EventIds : wrote[id][e] > 0}

\* The real tool callback keeps the contract the executor's properties rest on.
CallbackKeepsContract ==
  [][\A id \in Ids(Tasks) :
       runs'[id] # runs[id] /\ TaskNamed(id).kind = "tool" /\ id \notin gathered' =>
         LegalReply(TaskNamed(id),
                    [status |-> outcome'[id], done |-> completed' \ completed,
                     queue |-> queue'])]_allVars

\* A write that did not ask for "all" changes one event at most, whatever the
\* queries return, the order of the calls and the other users' changes, and
\* whatever target or selector the model fills in, unless that says "all"
\* (agentic_nodes.py:585-588).
SingleTargetUnlessAll ==
  \A i \in DOMAIN approved :
    LET t == approved[i]
    IN  IsWrite(t) /\ t.input.args.ord # "all" /\ <<t.id, "all">> \notin supplied
          => Cardinality(Changed(t.id)) <= 1

\* No event is written twice for one requested task, also across expansions
\* and repeated resolutions (unless the model filled in the target: a later
\* query then resolves the finished task once more).
NoDoubleWrite ==
  \A id \in TaskIds, e \in EventIds :
    <<id, "target">> \notin supplied => wrote[id][e] <= 1

\* Once a write fitted no event, or several, it changes none in that run.
AmbiguousNeverWrites ==
  [][\A h \in withheld :
       h[2] # "no_source" => wrote'[h[1]] = wrote[h[1]]]_allVars

\* A run reports success only when every requested write changed exactly the
\* events chosen for it, all of them, or was put back to the user as a question
\* or as having nothing to change.  Apart are the writes the model settled
\* otherwise: by a target of its own, by repeating a query, or by naming the
\* write or an expansion of it in a batch of searches (react_executor.py:383).
SuccessMeansWritten ==
  result = "success" =>
    \A i \in DOMAIN approved :
      LET id == approved[i].id
      IN  /\ IsWrite(approved[i])
          /\ <<id, "target">> \notin supplied
          /\ id \notin {Root(x) : x \in reused \cup gathered}
          => \/ \E h \in withheld : h[1] = id
             \/ /\ Changed(id) # {}
                /\ Changed(id) = {e \in EventIds : <<id, e>> \in selected}

\* contract.py: "Multiple matched update/delete candidates require
\* clarification": a run that had to ask says so in its status.
ClarificationEndsTheRun ==
  executable # {} /\ (\E id \in TaskIds : outcome[id] = "needs_clarification")
    => result # "success"

\* "please query first and name the event_id": a write put back to the user for
\* want of candidates does not go ahead when a later query finds some.
WithheldNeverWrites ==
  [][executable # {} =>
       \A h \in withheld : wrote'[h[1]] = wrote[h[1]]]_allVars

\* "If the dependency query already narrowed the target to a single event,
\* trust that observation": a write takes its target from its own query.
TargetsOfOwnQuery ==
  \A i \in DOMAIN approved :
    LET t     == approved[i]
        asked == {d \in t.deps : IsQuery(RequestOf(d))}
    IN  executable # {} /\ Unresolved(t) /\ asked # {} =>
          Changed(t.id) \subseteq UNION {answers[d] : d \in asked}

\* "condition-based writes must use query results or previous context".
TargetsWereObserved ==
  \A i \in DOMAIN approved :
    executable # {} /\ Unresolved(approved[i]) =>
      Changed(approved[i].id) \subseteq offered \cup UNION {answers[d] : d \in TaskIds}
=============================================================================
