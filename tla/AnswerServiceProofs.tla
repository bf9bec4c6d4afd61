------------------------- MODULE AnswerServiceProofs -------------------------
(***************************************************************************)
(* For all requests, outcomes of their tools and drafts of the model: what  *)
(* the stored answer claims was made, a refusal is said, and a goal counts  *)
(* as completed only when it was.                                           *)
(*                                                                         *)
(* Three facts are carried along a request.  Every result that says a write *)
(* was made, the one a denied call leaves behind too, stands for a write of *)
(* the calendar (Backed).  No text says more than the results, but for the  *)
(* question the executor's model words (Claimless).  A request that ends in *)
(* a refusal has it as its text, and as its locked fact, until the guards   *)
(* put it back (Refused).                                                   *)
(*                                                                          *)
(* That a write is recognised needs more: the check is aimed, from the      *)
(* validation to the end of the run, at what the request's only write does  *)
(* (Aimed), no task is lost (Whole), each write made has its row (Recorded).*)
(***************************************************************************)
EXTENDS AnswerService, SequenceTheorems, FiniteSetTheorems, WellFoundedInduction, TLAPS

Dones == {"created", "updated", "deleted"}

Backed(x) ==
  x.wrote \in Dones =>
    \E w \in made : /\ w.action \in Writes /\ DoneStatus[w.action] = x.wrote
                    /\ w.event = x.event

ResultsInv ==
  /\ \E S : results \in Seq(S)
  /\ Backed(last)
  /\ \A r \in ToSet(results) : Backed(r)

Before == {"validate", "run", "assess", "compose"}
Answering == {"write", "guard"}

Claimless(text) == "claims" \in text => made # {} \/ intent \in Clarifying

TextInv ==
  /\ stage \in Before \cup Answering \cup {"done"}
  /\ stage \in Before => locked = {}
  /\ stage # "done" => Claimless(final) /\ Claimless(locked)
  /\ stage \in Answering /\ WritesAsked # {} /\ made = {} => packet.not_done
  /\ ClaimsAreBacked

Refusals == {{"words", "denied"}, {"words", "no_access"}}
Refused  == intent = "permission_required"

RefusalInv ==
  /\ stage = "validate" => ~Refused
  /\ Refused /\ stage \in Before => route = "direct" /\ final \in Refusals
  /\ Refused /\ stage = "run" => queue = {}
  /\ Refused /\ stage \in Answering /\ ~request.sentinel /\ "rag" \notin Kinds =>
       locked \in Refusals
  /\ RefusalIsSaid

CheckInv ==
  /\ stage \in {"validate", "run", "assess"} => check = NoVerdict
  /\ CompletedMeansMade

Inv == ResultsInv /\ TextInv /\ RefusalInv /\ CheckInv

-----------------------------------------------------------------------------
LEMMA WritesAre == Writes = {"create", "update", "delete"}
BY DEF Writes, DoneStatus

LEMMA DoneIsDone == \A act \in Writes : DoneStatus[act] \in Dones
BY WritesAre DEF DoneStatus, Dones

\* The status a write answers tells which write it was.
LEMMA DoneTells ==
  \A a, b \in Writes : DoneStatus[a] = DoneStatus[b] => a = b
BY WritesAre DEF DoneStatus

LEMMA Appended ==
  ASSUME NEW S, NEW s \in Seq(S), NEW x
  PROVE  /\ \E T : Append(s, x) \in Seq(T)
         /\ ToSet(Append(s, x)) = ToSet(s) \cup {x}
<1>1. s \in Seq(S \cup {x}) /\ x \in S \cup {x}
  <2>1. S \subseteq S \cup {x}  OBVIOUS
  <2> QED BY <2>1
<1>2. Append(s, x) \in Seq(S \cup {x})  BY <1>1
<1>3. Len(s) \in Nat /\ DOMAIN s = 1 .. Len(s) /\ DOMAIN Append(s, x) = 1 .. Len(s) + 1
      /\ \A i \in 1 .. Len(s) + 1 : Append(s, x)[i] = IF i <= Len(s) THEN s[i] ELSE x
  BY <1>1
<1>4. ToSet(Append(s, x)) = ToSet(s) \cup {x}
  BY <1>3 DEF ToSet
<1> QED BY <1>2, <1>4

LEMMA InitInv == Init => Inv
<1> SUFFICES ASSUME Init PROVE Inv  OBVIOUS
<1>1. ResultsInv
  <2>1. results \in Seq({}) /\ ToSet(results) = {}  BY DEF Init, ToSet
  <2>2. Backed(last)  BY DEF Init, NoResult, Backed, Dones
  <2> QED BY <2>1, <2>2 DEF ResultsInv
<1>2. TextInv
  BY DEF Init, TextInv, Before, Answering, Claimless, ClaimsAreBacked
<1>3. RefusalInv
  BY DEF Init, RefusalInv, Refused, Before, Answering, RefusalIsSaid
<1>4. CheckInv
  BY DEF Init, CheckInv, CompletedMeansMade, Assessed
<1> QED BY <1>1, <1>2, <1>3, <1>4 DEF Inv

-----------------------------------------------------------------------------
(* Before the run, and the run.                                            *)

LEMMA ValidateInv == Inv /\ Validate => Inv'
<1> SUFFICES ASSUME Inv, Validate PROVE Inv'  OBVIOUS
<1>1. /\ stage = "validate" /\ stage' = "run" /\ queue' = ToSet(plan')
      /\ UNCHANGED <<request, mode, results, last, error, check, wording, made>>
  BY DEF Validate
<1>2. PICK blocked, open :
        LET left == Others(request.plan, blocked \cup open)
            asks == ~(blocked # {} /\ open = {})
        IN  IF request.unsafe
            THEN intent' = "reject" /\ final' = {"words", "cannot"}
            ELSE /\ plan' = left
                 /\ route' = IF DOMAIN left = {} THEN "direct" ELSE RouteOf(request.plan)
                 /\ IF DOMAIN left = {} /\ request.plan # <<>>
                    THEN /\ intent' = IF asks THEN "need_clarification"
                                              ELSE "permission_required"
                         /\ final' = IF asks THEN {"words", "asks"}
                                             ELSE {"words", "denied"}
                    ELSE UNCHANGED <<intent, final>>
  BY DEF Validate
<1>3. /\ "claims" \in final' => final' = final /\ intent' = intent
      /\ Refused' => \/ queue' = {} /\ route' = "direct" /\ final' = {"words", "denied"}
                     \/ Refused
  <2> DEFINE left == Others(request.plan, blocked \cup open)
  <2>1. DOMAIN left = {} => ToSet(left) = {}  BY DEF ToSet
  <2>2. \/ intent' = "reject" /\ final' = {"words", "cannot"}
        \/ UNCHANGED <<intent, final>>
        \/ intent' = "need_clarification" /\ final' = {"words", "asks"}
        \/ /\ plan' = left /\ DOMAIN left = {} /\ route' = "direct"
           /\ intent' = "permission_required" /\ final' = {"words", "denied"}
    BY <1>2
  <2> HIDE DEF left
  <2> QED BY <1>1, <2>1, <2>2 DEF Refused
<1>4. ResultsInv'  BY <1>1 DEF Inv, ResultsInv, Backed
<1>5. TextInv'
  BY <1>1, <1>3 DEF Inv, TextInv, Before, Answering, Claimless, ClaimsAreBacked, wording
<1>6. RefusalInv'
  BY <1>1, <1>3 DEF Inv, RefusalInv, Refused, Before, Answering, RefusalIsSaid, Refusals
<1>7. CheckInv'
  BY <1>1 DEF Inv, CheckInv, CompletedMeansMade, Assessed
<1> QED BY <1>4, <1>5, <1>6, <1>7 DEF Inv

\* What one step of the run may do to the facts and the texts.
LEMMA RunStep ==
  ASSUME Inv, stage = "run", stage' \in {"run", "assess"},
         UNCHANGED <<planned, verdict, wording>>,
         ResultsInv', made \subseteq made',
         "claims" \in final' => \/ final' = final /\ intent' = intent
                               \/ intent' \in Clarifying,
         Refused' => \/ UNCHANGED tone /\ Refused /\ queue' = {}
                     \/ /\ stage' = "assess" /\ route' = "direct"
                        /\ final' \in Refusals
  PROVE  Inv'
<1>1. TextInv'
  BY DEF Inv, TextInv, Before, Answering, Claimless, ClaimsAreBacked, wording
<1>2. RefusalInv'
  BY DEF Inv, RefusalInv, Refused, Before, Answering, RefusalIsSaid, Refusals, tone
<1>3. CheckInv'
  BY DEF Inv, CheckInv, CompletedMeansMade, Assessed, verdict
<1> QED BY <1>1, <1>2, <1>3 DEF Inv

\* A task is settled by a row that is backed, if its result is.
LEMMA SettleBacked ==
  ASSUME ResultsInv, NEW t, NEW status, NEW result, NEW evidence,
         Settle(t, Row(t, status, result, evidence)),
         made \subseteq made',
         Backed(last)',
         result.wrote \in Dones =>
           \E w \in made' : /\ w.action \in Writes
                            /\ DoneStatus[w.action] = result.wrote
                            /\ w.event = result.event
  PROVE  ResultsInv'
<1> DEFINE row == Row(t, status, result, evidence)
<1>1. row.wrote = result.wrote /\ row.event = result.event  BY DEF Row
<1>2. results' = Append(results, row)  BY DEF Settle
<1> HIDE DEF row
<1>3. PICK S : results \in Seq(S)  BY DEF ResultsInv
<1>4. /\ \E T : results' \in Seq(T)
      /\ ToSet(results') = ToSet(results) \cup {row}
  BY <1>2, <1>3, Appended
<1>5. ASSUME NEW r \in ToSet(results') PROVE Backed(r)'
  <2>1. CASE r = row  BY <2>1, <1>1 DEF Backed
  <2>2. CASE r \in ToSet(results)  BY <2>2 DEF ResultsInv, Backed
  <2> QED BY <1>4, <2>1, <2>2
<1> QED BY <1>4, <1>5 DEF ResultsInv

LEMMA NotRefusedYet ==
  ASSUME Inv, stage = "run", NEW t \in queue
  PROVE  ~Refused
BY DEF Inv, RefusalInv

LEMMA CallToolInv ==
  ASSUME Inv, NEW t \in queue, CallTool(t)
  PROVE  Inv'
<1>1. /\ stage = "run" /\ UNCHANGED <<planned, verdict, wording>>
      /\ ~Refused
  BY NotRefusedYet DEF CallTool
<1>2. ResultsInv  BY DEF Inv
<1>3. NoResult.wrote \notin Dones  BY DEF NoResult, Dones
<1>4. CASE ToolSucceeds(t)
  <2>1. PICK n :
          /\ last' = IF IsWrite(t)
                     THEN [wrote |-> DoneStatus[t.action], event |-> After(t),
                           known |-> TRUE, found |-> 0]
                     ELSE [NoResult EXCEPT !.found = n, !.known = (n > 0)]
          /\ Settle(t, Row(t, "ok", last', "none"))
          /\ made' = IF IsWrite(t)
                     THEN made \cup {[action |-> t.action, event |-> After(t)]}
                     ELSE made
    BY <1>4 DEF ToolSucceeds
  <2>2. stage' = "run" /\ final' = {} /\ intent' = intent
    BY <1>4, <1>1 DEF ToolSucceeds
  <2>3. made \subseteq made'  BY <2>1
  <2>4. last'.wrote \in Dones =>
           \E w \in made' : /\ w.action \in Writes
                            /\ DoneStatus[w.action] = last'.wrote
                            /\ w.event = last'.event
    <3>1. CASE IsWrite(t)
      <4>1. [action |-> t.action, event |-> After(t)] \in made'  BY <2>1, <3>1
      <4>2. last'.wrote = DoneStatus[t.action] /\ last'.event = After(t)
        BY <2>1, <3>1
      <4>3. t.action \in Writes  BY <3>1 DEF IsWrite
      <4> QED BY <4>1, <4>2, <4>3
    <3>2. CASE ~IsWrite(t)
      <4>1. last'.wrote = ""  BY <2>1, <3>2 DEF NoResult
      <4> QED BY <4>1 DEF Dones
    <3> QED BY <3>1, <3>2
  <2>5. ResultsInv'
    <3>1. Backed(last)'  BY <2>4 DEF Backed
    <3> QED BY <1>2, <2>1, <2>3, <2>4, <3>1, SettleBacked
  <2> QED BY <1>1, <2>2, <2>3, <2>5, RunStep DEF Refused
<1>5. CASE ToolFails(t)
  <2>1. /\ last' = NoResult /\ Settle(t, Row(t, "error", last', "none"))
        /\ made' = made /\ intent' = intent /\ stage' = "assess"
        /\ "claims" \notin final'
    BY <1>5 DEF ToolFails, RunEnds
  <2>2. ResultsInv'
    <3>1. last'.wrote \notin Dones  BY <2>1, <1>3
    <3>2. Backed(last)'  BY <3>1 DEF Backed
    <3> QED BY <1>2, <2>1, <3>1, <3>2, SettleBacked
  <2> QED BY <1>1, <2>1, <2>2, RunStep DEF Refused
<1>6. CASE ToolDenied(t)
  <2>1. /\ Settle(t, Row(t, "error", last, "none")) /\ stage' = "assess"
        /\ route' = "direct" /\ made' = made /\ last' = last
        /\ final' \in Refusals /\ "claims" \notin final'
    BY <1>6 DEF ToolDenied, RunEnds, Refusals
  <2>2. ResultsInv'
    <3>1. Backed(last) /\ Backed(last)'  BY <1>2, <2>1 DEF ResultsInv, Backed
    <3>2. last.wrote \in Dones =>
           \E w \in made' : /\ w.action \in Writes
                            /\ DoneStatus[w.action] = last.wrote
                            /\ w.event = last.event
      BY <3>1, <2>1 DEF Backed
    <3> QED BY <1>2, <2>1, <3>1, <3>2, SettleBacked
  <2> QED BY <1>1, <2>1, <2>2, RunStep DEF Refused
<1> QED BY <1>4, <1>5, <1>6 DEF CallTool

LEMMA WithholdWriteInv ==
  ASSUME Inv, NEW t \in queue, WithholdWrite(t)
  PROVE  Inv'
<1>1. /\ stage = "run" /\ stage' \in {"run", "assess"} /\ ~Refused
      /\ UNCHANGED <<planned, verdict, wording>>
  BY NotRefusedYet DEF WithholdWrite, RunEnds
<1>2. PICK how \in {"skipped", "needs_clarification"} : Withheld(t, how)
  BY DEF WithholdWrite
<1>3. /\ Settle(t, Row(t, how, [NoResult EXCEPT !.wrote = how], "none"))
      /\ last' = last /\ made' = made /\ UNCHANGED tone
  BY <1>2 DEF Withheld
<1>4. [NoResult EXCEPT !.wrote = how].wrote \notin Dones
  BY DEF NoResult, Dones
<1>5. ResultsInv'
  <2>1. ResultsInv /\ Backed(last)'  BY <1>3 DEF Inv, ResultsInv, Backed
  <2> QED BY <1>3, <1>4, <2>1, SettleBacked
<1>6. ~Refused' /\ final' = final /\ intent' = intent  BY <1>1, <1>3 DEF tone, Refused
<1> QED BY <1>1, <1>3, <1>5, <1>6, RunStep

LEMMA SearchRagInv ==
  ASSUME Inv, NEW t \in queue, SearchRag(t)
  PROVE  Inv'
<1>1. /\ stage = "run" /\ stage' = "run" /\ ~Refused
      /\ UNCHANGED <<planned, tone, verdict, wording, last, made>>
  BY NotRefusedYet DEF SearchRag
<1>2. PICK status, evidence : Settle(t, Row(t, status, NoResult, evidence))
  BY DEF SearchRag
<1>3. NoResult.wrote \notin Dones  BY DEF NoResult, Dones
<1>4. ResultsInv'
  <2>1. ResultsInv /\ Backed(last)'  BY <1>1 DEF Inv, ResultsInv, Backed
  <2> QED BY <1>1, <1>2, <1>3, <2>1, SettleBacked
<1>5. ~Refused' /\ final' = final /\ intent' = intent  BY <1>1 DEF tone, Refused
<1> QED BY <1>1, <1>4, <1>5, RunStep

LEMMA StopRunInv == Inv /\ StopRun => Inv'
<1> SUFFICES ASSUME Inv, StopRun PROVE Inv'  OBVIOUS
<1>1. /\ stage = "run" /\ stage' = "assess" /\ queue # {}
      /\ UNCHANGED <<planned, facts, verdict, wording>>
  BY DEF StopRun, RunEnds
<1>2. ~Refused  BY <1>1 DEF Inv, RefusalInv
<1>3. ResultsInv' /\ made' = made  BY <1>1 DEF Inv, ResultsInv, Backed, facts
<1>4. \/ UNCHANGED tone
      \/ intent' = "need_clarification"
  BY DEF StopRun
<1>5. ~Refused'  BY <1>2, <1>4 DEF Refused, tone
<1> QED BY <1>1, <1>3, <1>4, <1>5, RunStep DEF tone, Clarifying

LEMMA RunDoneInv == Inv /\ RunDone => Inv'
<1> SUFFICES ASSUME Inv, RunDone PROVE Inv'  OBVIOUS
<1>1. /\ stage = "run" /\ stage' = "assess" /\ queue' = {}
      /\ UNCHANGED <<planned, facts, tone, verdict, wording>>
  BY DEF RunDone, RunEnds, facts
<1>2. ResultsInv' /\ made' = made  BY <1>1 DEF Inv, ResultsInv, Backed, facts
<1>3. Refused' => Refused  BY <1>1 DEF Refused, tone
<1> QED BY <1>1, <1>2, <1>3, RunStep DEF tone

-----------------------------------------------------------------------------
(* The completion check.                                                   *)

LEMMA GoalActions ==
  /\ DOMAIN GoalAction = {"calendar_create", "calendar_update", "calendar_delete"}
  /\ \A g \in DOMAIN GoalAction : GoalAction[g] \in Writes
BY WritesAre DEF GoalAction

\* A calendar goal is completed by a row of its own action that matches.
LEMMA CompletedByARow ==
  ASSUME NEW g, NEW rows, g.type \in DOMAIN GoalAction,
         Check(g, rows).status = "completed"
  PROVE  \E r \in ToSet(rows) : /\ r.action = GoalAction[g.type]
                                 /\ Wrote(r) /\ Matches(g.expected, r.event)
<1> DEFINE act == GoalAction[g.type]
           calls == {r \in ToSet(rows) : r.tool = Calendar /\ r.action = act}
<1>1. Check(g, rows) = JudgeCalendar(g, act, rows)
  BY GoalActions DEF Check
<1>2. \A q : JudgeQuery(g, q).status # "completed"
  BY DEF JudgeQuery, Verdict
<1>3. calls # {} /\ JudgeWrites(g, calls).status = "completed"
  <2> DEFINE queries == Calls(rows, "query")
  <2> HIDE DEF queries
  <2>1. JudgeCalendar(g, act, rows) =
          CASE calls # {} -> JudgeWrites(g, calls)
            [] calls = {} /\ act # "create" /\ queries # <<>> ->
                 JudgeQuery(g, Last(queries))
            [] calls = {} /\ (act = "create" \/ queries = <<>>) ->
                 Verdict(g, "incomplete", "no_result")
    BY DEF JudgeCalendar, queries
  <2>2. Verdict(g, "incomplete", "no_result").status # "completed"  BY DEF Verdict
  <2> HIDE DEF calls, act
  <2> QED BY <1>1, <1>2, <2>1, <2>2
<1>4. \E r \in calls : Wrote(r) /\ Matches(g.expected, r.event)
  BY <1>3 DEF JudgeWrites, Verdict
<1> QED BY <1>4

LEMMA AssessInv == Inv /\ Assess => Inv'
<1> SUFFICES ASSUME Inv, Assess PROVE Inv'  OBVIOUS
<1> DEFINE g == Resolved(Contract(goal, plan))
<1>1. /\ stage = "assess" /\ stage' = "compose"
      /\ UNCHANGED <<planned, facts, tone, wording>>
      /\ IF g.type = "" THEN UNCHANGED verdict
         ELSE goal' = g /\ check' = Check(g, results)
  BY DEF Assess
<1> HIDE DEF g
<1>2. ResultsInv' /\ made' = made /\ results' = results
  BY <1>1 DEF Inv, ResultsInv, Backed, facts
<1>3. TextInv'
  BY <1>1, <1>2 DEF Inv, TextInv, Before, Answering, Claimless, ClaimsAreBacked,
                    wording, tone
<1>4. RefusalInv'
  BY <1>1 DEF Inv, RefusalInv, Refused, Before, Answering, RefusalIsSaid, tone
<1>5. CompletedMeansMade'
  <2> SUFFICES ASSUME goal'.type \in DOMAIN GoalAction, check'.status = "completed"
               PROVE  \E w \in made' : /\ w.action = GoalAction[goal'.type]
                                       /\ Matches(goal'.expected, w.event)
    BY DEF CompletedMeansMade, Assessed
  <2>1. goal' = g /\ check' = Check(g, results)
    <3>1. NoVerdict.status # "completed"  BY DEF NoVerdict
    <3> QED BY <1>1, <3>1 DEF Inv, CheckInv, verdict
  <2>2. PICK r \in ToSet(results) :
          r.action = GoalAction[g.type] /\ Wrote(r) /\ Matches(g.expected, r.event)
    BY <2>1, CompletedByARow
  <2>3. r.action \in Writes /\ r.wrote = DoneStatus[r.action] /\ r.wrote \in Dones
    BY <2>2, DoneIsDone DEF Wrote
  <2>4. PICK w \in made : /\ w.action \in Writes /\ DoneStatus[w.action] = r.wrote
                          /\ w.event = r.event
    BY <2>3 DEF Inv, ResultsInv, Backed
  <2>5. w.action = r.action  BY <2>3, <2>4, DoneTells
  <2> QED BY <1>2, <2>1, <2>2, <2>4, <2>5
<1>6. CheckInv'  BY <1>1, <1>5 DEF CheckInv
<1> QED BY <1>2, <1>3, <1>4, <1>6 DEF Inv

-----------------------------------------------------------------------------
(* The answer.                                                             *)

\* A row that tells of a write stands for one.
LEMMA WrittenIsMade ==
  ASSUME ResultsInv, NEW r \in ToSet(results), r.action \in Writes,
         r.wrote = DoneStatus[r.action]
  PROVE  made # {}
<1>1. r.wrote \in Dones  BY DoneIsDone
<1> QED BY <1>1 DEF ResultsInv, Backed

LEMMA ToolTextClaimless == ResultsInv => Claimless(ToolText(ToolRows))
<1> SUFFICES ASSUME ResultsInv, "claims" \in ToolText(ToolRows) PROVE made # {}
  BY DEF Claimless
<1>1. PICK r \in ToSet(results) : "claims" \in RowText(r)
  BY DEF ToolText, ToolRows
<1>2. Wrote(r)
  BY <1>1 DEF RowText
<1> QED BY <1>2, WrittenIsMade DEF Wrote

LEMMA TemplateClaimless ==
  ASSUME ResultsInv, NEW text, Claimless(text)
  PROVE  Claimless(Template(text)) /\ Claimless(ToolTemplate(text))
<1>1. Claimless(ToolText(ToolRows))  BY ToolTextClaimless
<1>2. Claimless(DirectText(text))  BY DEF DirectText, Or, Claimless
<1> QED BY <1>1, <1>2 DEF Template, ToolTemplate, Or, Claimless

LEMMA GatedClaimless ==
  ASSUME ResultsInv, NEW text, Claimless(text)
  PROVE  Claimless(Gated(text))
<1>1. Claimless(Template(text)) /\ Claimless(ToolTemplate(text))
  BY TemplateClaimless
<1>2. Evaluated \in {"full", "partial", "insufficient"}
  BY DEF Evaluated
<1>3. ~("claims" \in NoBasis)  BY DEF NoBasis
<1> QED BY <1>1, <1>2, <1>3 DEF Gated, Or, Claimless

LEMMA ComposeInv == Inv /\ Compose => Inv'
<1> SUFFICES ASSUME Inv, Compose PROVE Inv'  OBVIOUS
<1> DEFINE fact == Or(Template(final), final)
           text == Or(fact, final)
<1>1. /\ stage = "compose" /\ stage' = "write"
      /\ locked' = Or(Gated(text), fact) /\ final' = Or(Gated(text), text)
      /\ packet'.not_done = WriteNotExecuted
      /\ UNCHANGED <<planned, facts, route, intent, error, verdict, draft, sent>>
  BY DEF Compose
<1>2. ResultsInv /\ Claimless(final)  BY <1>1 DEF Inv, TextInv, Before
<1>3. Claimless(fact) /\ Claimless(text)
  BY <1>2, TemplateClaimless DEF Or
<1>4. Claimless(Gated(text))  BY <1>2, <1>3, GatedClaimless
<1>5. ResultsInv' /\ made' = made /\ results' = results
  BY <1>1 DEF Inv, ResultsInv, Backed, facts
<1>6. TextInv'
  <2>1. Claimless(final)' /\ Claimless(locked)'
    BY <1>1, <1>3, <1>4, <1>5 DEF Or, Claimless
  <2>2. WritesAsked' = WritesAsked  BY <1>1 DEF WritesAsked, planned
  <2>3. WritesAsked # {} /\ made = {} => WriteNotExecuted
    BY <1>2, WrittenIsMade DEF WriteNotExecuted, Written, WriteRows
  <2> QED BY <1>1, <1>5, <2>1, <2>2, <2>3
          DEF TextInv, Before, Answering, ClaimsAreBacked
<1>7. RefusalInv'
  <2>1. Kinds' = Kinds /\ request' = request
    BY <1>1, <1>5 DEF Kinds, planned
  <2>2. ASSUME Refused, ~request.sentinel, "rag" \notin Kinds
        PROVE  locked' \in Refusals
    <3>1. route = "direct" /\ final \in Refusals /\ final # {}
      BY <1>1, <2>2 DEF Inv, RefusalInv, Before, Refusals
    <3>2. Template(final) = final
      BY <2>2, <3>1 DEF Template, DirectText, Refused, Or
    <3>3. Gated(text) = {}  BY <2>2, <3>1 DEF Gated, GateAsked
    <3> QED BY <1>1, <3>1, <3>2, <3>3 DEF Or
  <2> QED BY <1>1, <2>1, <2>2
          DEF RefusalInv, Refused, Before, Answering, RefusalIsSaid
<1>8. CheckInv'
  BY <1>1, <1>5 DEF Inv, CheckInv, CompletedMeansMade, Assessed, verdict
<1> QED BY <1>5, <1>6, <1>7, <1>8 DEF Inv

LEMMA WriteInv == Inv /\ Write => Inv'
<1> SUFFICES ASSUME Inv, Write PROVE Inv'  OBVIOUS
<1>1. /\ stage = "write" /\ stage' = "guard"
      /\ UNCHANGED <<planned, facts, tone, verdict, gate, locked, packet>>
  BY DEF Write
<1>2. ResultsInv' /\ made' = made /\ Kinds' = Kinds
  BY <1>1 DEF Inv, ResultsInv, Backed, facts, Kinds
<1>3. TextInv'
  BY <1>1, <1>2 DEF Inv, TextInv, Before, Answering, Claimless, ClaimsAreBacked,
                    WritesAsked, planned, tone
<1>4. RefusalInv'
  BY <1>1, <1>2 DEF Inv, RefusalInv, Refused, Before, Answering, RefusalIsSaid,
                    planned, tone
<1>5. CheckInv'
  BY <1>1, <1>2 DEF Inv, CheckInv, CompletedMeansMade, Assessed, verdict
<1> QED BY <1>2, <1>3, <1>4, <1>5 DEF Inv

LEMMA GuardInv == Inv /\ Guard => Inv'
<1> SUFFICES ASSUME Inv, Guard PROVE Inv'  OBVIOUS
<1> DEFINE bare == Unclaimed(draft)
           kept == Anchored(bare)
           said == Refusing(kept)
<1>1. /\ stage = "guard" /\ stage' = "done"
      /\ final' = Or(said, Or(locked, {"words"}))
      /\ UNCHANGED <<planned, facts, route, intent, error, verdict, wording>>
  BY DEF Guard
<1>2. ResultsInv' /\ made' = made /\ Kinds' = Kinds /\ WritesAsked' = WritesAsked
  BY <1>1 DEF Inv, ResultsInv, Backed, facts, Kinds, WritesAsked, planned
<1>3. /\ kept \in {bare, locked}
      /\ \A x \in said : x \in kept \/ x \in {"words", "denied"}
  BY DEF Anchored, Refusing
<1>4. TextInv'
  <2> SUFFICES ASSUME "claims" \in final', WritesAsked # {}, made = {}
               PROVE  intent \in Clarifying
    BY <1>1, <1>2 DEF TextInv, Before, Answering, ClaimsAreBacked
  <2>1. packet.not_done /\ Claimless(locked)
    BY <1>1 DEF Inv, TextInv, Answering
  <2>2. "claims" \notin bare  BY <2>1 DEF Unclaimed, Failure
  <2>3. "claims" \in said \/ "claims" \in locked  BY <1>1 DEF Or
  <2>4. "claims" \in locked  BY <1>3, <2>2, <2>3
  <2> QED BY <2>1, <2>4 DEF Claimless
<1>5. RefusalInv'
  <2>1. ASSUME mode = "generate", denials \/ Refused PROVE "denied" \in final'
    <3>1. "denied" \in said  BY <2>1 DEF Refusing, Refused
    <3> QED BY <1>1, <3>1 DEF Or
  <2>2. ASSUME Refused, ~request.sentinel, "rag" \notin Kinds
        PROVE  final' \cap {"denied", "no_access"} # {}
    <3>1. locked \in Refusals
      BY <1>1, <2>2 DEF Inv, RefusalInv, Answering
    <3>2. MustPreserve  BY <2>2, <3>1 DEF MustPreserve, Refusals, Refused
    <3>3. kept \cap {"denied", "no_access"} # {}
      <4>1. CASE kept = locked  BY <3>1, <4>1 DEF Refusals
      <4>2. CASE kept # locked
        <5>1. bare \cap locked \cap Anchors # {} /\ kept = bare
          BY <3>2, <4>2 DEF Anchored, Preserves
        <5>2. locked \cap Anchors \subseteq {"denied"}
          BY <3>1 DEF Refusals, Anchors
        <5> QED BY <5>1, <5>2
      <4> QED BY <4>1, <4>2
    <3>4. kept \subseteq said  BY DEF Refusing
    <3> QED BY <1>1, <3>3, <3>4 DEF Or
  <2> QED BY <1>1, <1>2, <2>1, <2>2
          DEF RefusalInv, Refused, Before, Answering, RefusalIsSaid, planned
<1>6. CheckInv'
  BY <1>1, <1>2 DEF Inv, CheckInv, CompletedMeansMade, Assessed, verdict
<1> QED BY <1>2, <1>4, <1>5, <1>6 DEF Inv

-----------------------------------------------------------------------------
LEMMA NextInv == Inv /\ [Next]_vars => Inv'
<1>1. CASE UNCHANGED vars
  BY <1>1 DEF vars, planned, facts, tone, verdict, wording, Inv, ResultsInv, Backed,
              TextInv, Claimless, ClaimsAreBacked, WritesAsked, RefusalInv, Refused,
              RefusalIsSaid, Kinds, CheckInv, CompletedMeansMade, Assessed
<1>2. CASE Next
  BY <1>2, ValidateInv, CallToolInv, WithholdWriteInv, SearchRagInv, StopRunInv,
     RunDoneInv, AssessInv, ComposeInv, WriteInv, GuardInv DEF Next
<1> QED BY <1>1, <1>2

LEMMA InvAlways == Spec => []Inv
BY InitInv, NextInv, PTL DEF Spec

\* A stored answer that claims a write has one behind it, whatever the model
\* drafted (the write_guard of service.py:275), but for the
\* clarification that is restored as the executor's model worded it.
THEOREM ClaimsBacked == Spec => []ClaimsAreBacked
<1>1. Inv => ClaimsAreBacked  BY DEF Inv, TextInv
<1> QED BY <1>1, InvAlways, PTL

\* Whoever was refused reads so: the whole answer by the refusal generate adds,
\* a streamed one because its locked refusal is restored (service.py:282, :335).
THEOREM RefusalsSaid == Spec => []RefusalIsSaid
<1>1. Inv => RefusalIsSaid  BY DEF Inv, RefusalInv
<1> QED BY <1>1, InvAlways, PTL

\* Half of CompletionTruthful: a completed calendar goal has a write of its
\* kind behind it, with all the contract expects (completion.py:358, :471).
THEOREM CompletedWasMade == Spec => []CompletedMeansMade
<1>1. Inv => CompletedMeansMade  BY DEF Inv, CheckInv
<1> QED BY <1>1, InvAlways, PTL

-----------------------------------------------------------------------------
(* What a request's state consists of.                                     *)

Statuses == {"", "completed", "partial", "failed", "incomplete", "needs_clarification"}
Routes   == {"direct", "rag", "tool", "reject"}

\* A text of known phrases, with words unless it is empty.
Speaks(text) == text \subseteq Says /\ (text # {} => "words" \in text)

\* A plan that holds some of the request's tasks, in their places.
PartOf(p, whole) ==
  DOMAIN p \subseteq DOMAIN whole /\ \A i \in DOMAIN p : p[i] = whole[i]

Planned ==
  /\ request \in Requests /\ PartOf(plan, request.plan)
  /\ refused \cup unclear \subseteq ToSet(request.plan)

\* A row settles a task of the plan, which is no longer queued.
Settled ==
  /\ \E S : results \in Seq(S)
  /\ stage = "validate" => results = <<>>
  /\ queue \subseteq ToSet(plan)
  /\ \A r \in ToSet(results) : \E t \in ToSet(plan) \ queue : t.id = r.id
  /\ \A i, j \in DOMAIN results : results[i].id = results[j].id => i = j

Judged  == IsGoal(goal) /\ check.status \in Statuses
Toned   == route \in Routes /\ Speaks(final)
Worded  == Speaks(locked) /\ Speaks(draft) /\ sent \subseteq Says
Ended   == stage = "done" => "words" \in final

TypeInv == Planned /\ Settled /\ Judged /\ Toned /\ Worded /\ Ended

-----------------------------------------------------------------------------
(* Contracts.                                                              *)

\* Some places of a plan that are not none have a last.
LEMMA LastPlace ==
  ASSUME NEW n \in Nat, NEW S, S \subseteq 1 .. n, S # {}
  PROVE  Max(S) \in S
<1> DEFINE T == {k \in Nat : n - k \in S}
<1>1. PICK s \in S : TRUE  OBVIOUS
<1>2. n - s \in Nat /\ n - (n - s) = s  BY <1>1
<1>3. T \subseteq Nat /\ T # {}  BY <1>2
<1>4. PICK k \in T : \A j \in T : ~(<<j, k>> \in OpToRel(<, Nat))
  <2> HIDE DEF T
  <2> QED BY <1>3, NatLessThanWellFounded, WFMin
<1>5. ASSUME NEW j \in S PROVE n - k >= j
  <2>1. j \in Nat /\ n - j \in Nat /\ n - (n - j) = j  BY <1>5
  <2>2. n - j \in T  BY <2>1
  <2>3. ~(n - j < k)  BY <1>4, <2>1, <2>2 DEF OpToRel
  <2> QED BY <2>1, <2>3
<1> QED BY <1>5 DEF Max

\* The operators that make a contract keep its fields known and not empty.
LEMMA WithoutWanted ==
  ASSUME NEW e, NEW names, Wanted(e)
  PROVE  Wanted(Without(e, names))
BY DEF Wanted, Without, Restrict

LEMMA OverWanted ==
  ASSUME NEW e, NEW more, Wanted(e), Wanted(more)
  PROVE  Wanted(Over(e, more))
BY DEF Wanted, Over

LEMMA JustWanted ==
  ASSUME NEW name \in Names, NEW value, value # ""
  PROVE  Wanted(Just(name, value))
BY DEF Wanted, Just

LEMMA NothingWanted == Wanted(<<>>)
BY DEF Wanted

LEMMA DateNames == "date" \in Names /\ "date_expression" \in Names
BY DEF Names, Fields, OtherFields

LEMMA MergedWanted ==
  ASSUME NEW n \in Nat, NEW es, DOMAIN es \subseteq 1 .. n,
         \A i \in DOMAIN es : Wanted(es[i])
  PROVE  Wanted(Merged(es))
<1> DEFINE all == UNION {DOMAIN es[i] : i \in DOMAIN es}
           having(f) == {i \in DOMAIN es : f \in DOMAIN es[i]}
<1>1. DOMAIN Merged(es) = all /\ \A f \in all : Merged(es)[f] = es[Max(having(f))][f]
  BY DEF Merged
<1>2. ASSUME NEW f \in all PROVE Merged(es)[f] # "" /\ f \in Names
  <2>1. having(f) \subseteq 1 .. n /\ having(f) # {}  OBVIOUS
  <2>2. Max(having(f)) \in having(f)
    <3> HIDE DEF having
    <3> QED BY <2>1, LastPlace
  <2>3. Wanted(es[Max(having(f))]) /\ f \in DOMAIN es[Max(having(f))]  BY <2>2
  <2> HIDE DEF having
  <2> QED BY <1>1, <2>3 DEF Wanted
<1> HIDE DEF all
<1> QED BY <1>1, <1>2 DEF Wanted

LEMMA UpdateWanted ==
  ASSUME NEW t, Wanted(t.fields)
  PROVE  Wanted(FromUpdate(t))
<1> DEFINE own == IF t.titled THEN t.fields ELSE Without(t.fields, {"title"})
           dated == IF t.said # "" /\ DOMAIN own \subseteq {"date"}
                    THEN Over(own, Just("date_expression", t.said)) ELSE own
<1>1. Wanted(own)  BY WithoutWanted
<1>2. Wanted(dated)
  <2> HIDE DEF own
  <2> QED BY <1>1, OverWanted, JustWanted, DateNames
<1>3. FromUpdate(t) = IF DOMAIN dated = {} /\ t.when # ""
                      THEN Just("date_expression", t.when) ELSE dated
  BY DEF FromUpdate
<1> HIDE DEF dated
<1> QED BY <1>2, <1>3, JustWanted, DateNames

LEMMA CreateWanted ==
  ASSUME NEW t, Wanted(t.fields)
  PROVE  Wanted(FromCreate(t))
<1> DEFINE dateless == "date" \notin DOMAIN t.fields
           said == IF t.said # "" /\ dateless THEN Just("date_expression", t.said) ELSE <<>>
           day  == IF SingleDay(t.when) # "" /\ dateless
                   THEN Just("date", SingleDay(t.when)) ELSE <<>>
<1>1. Wanted(said)  BY JustWanted, NothingWanted, DateNames
<1>2. Wanted(day)  BY JustWanted, NothingWanted, DateNames
<1>3. FromCreate(t) = Over(Over(t.fields, said), day)  BY DEF FromCreate
<1> HIDE DEF said, day
<1> QED BY <1>1, <1>2, <1>3, OverWanted

LEMMA SanitisedWanted ==
  ASSUME NEW e, NEW p, Wanted(e)
  PROVE  Wanted(Sanitised(e, p))
<1>1. \A x : Wanted(x) => Wanted(WithoutQueryDate(x, p))
  BY WithoutWanted DEF WithoutQueryDate
<1>2. \A x : Wanted(x) => Wanted(WithoutQuerySelectors(x, p))
  BY WithoutWanted DEF WithoutQuerySelectors
<1>3. \A x : Wanted(x) => Wanted(WithoutQueryTitle(x, p))
  BY WithoutWanted DEF WithoutQueryTitle
<1> QED BY <1>1, <1>2, <1>3 DEF Sanitised

LEMMA GoalIsGoal ==
  ASSUME NEW type, NEW e, Wanted(e)
  PROVE  IsGoal(Goal(type, e))
BY DEF IsGoal, Goal

\* A plan whose tasks have known, non-empty fields makes such a contract.
Readable(p) ==
  /\ \E n \in Nat : DOMAIN p \subseteq 1 .. n
  /\ \A i \in DOMAIN p : Wanted(p[i].fields)

LEMMA PlanWanted ==
  ASSUME NEW p, Readable(p)
  PROVE  Wanted(Updated(p)) /\ Wanted(Created(p))
<1>1. PICK n \in Nat : DOMAIN p \subseteq 1 .. n  BY DEF Readable
<1>2. ASSUME NEW act
      PROVE  CalendarTasks(p, act) \subseteq 1 .. n
             /\ \A i \in CalendarTasks(p, act) : Wanted(p[i].fields)
  BY <1>1 DEF CalendarTasks, Readable
<1>3. Wanted(Updated(p))
  <2> DEFINE es == [i \in CalendarTasks(p, "update") |-> FromUpdate(p[i])]
  <2>1. DOMAIN es \subseteq 1 .. n /\ \A i \in DOMAIN es : Wanted(es[i])
    BY <1>2, UpdateWanted
  <2>2. Updated(p) = Merged(es)  BY DEF Updated
  <2> HIDE DEF es
  <2> QED BY <2>1, <2>2, MergedWanted
<1>4. Wanted(Created(p))
  <2> DEFINE es == [i \in CalendarTasks(p, "create") |-> FromCreate(p[i])]
  <2>1. DOMAIN es \subseteq 1 .. n /\ \A i \in DOMAIN es : Wanted(es[i])
    BY <1>2, CreateWanted
  <2>2. Created(p) = Merged(es)  BY DEF Created
  <2> HIDE DEF es
  <2> QED BY <2>1, <2>2, MergedWanted
<1> QED BY <1>3, <1>4

LEMMA DerivedIsGoal ==
  ASSUME NEW p, Readable(p)
  PROVE  IsGoal(Derived(p))
<1> DEFINE kinds  == {t.kind : t \in ToSet(p)}
           update == Sanitised(Updated(p), p)
           first  == FirstTool(p)
           named  == [Goal(IF first.tool = "skill" THEN "skill_analysis"
                           ELSE "tool_query", <<>>)
                      EXCEPT !.tool = first.tool, !.action = first.action]
<1>1. Wanted(update)  BY PlanWanted, SanitisedWanted
<1>2. IsGoal(NoGoal)  BY GoalIsGoal, NothingWanted DEF NoGoal
<1>3. IsGoal(named)
  <2> DEFINE kind == IF first.tool = "skill" THEN "skill_analysis" ELSE "tool_query"
  <2>1. named = [Goal(kind, <<>>) EXCEPT !.tool = first.tool, !.action = first.action]
    OBVIOUS
  <2> HIDE DEF first, kind, named
  <2>2. named = [type |-> kind, expected |-> <<>>, tool |-> first.tool,
                 action |-> first.action]
    BY <2>1 DEF Goal
  <2> QED BY <2>2, NothingWanted DEF IsGoal
<1>4. HasAction(p, "update") => "tool" \in kinds
  BY DEF HasAction, CalendarTasks, ToSet
<1>5. Derived(p) =
        CASE HasAction(p, "update") /\ DOMAIN update = {} -> NoGoal
          [] HasAction(p, "update") /\ DOMAIN update # {} ->
               Goal("calendar_update", update)
          [] ~HasAction(p, "update") /\ {"rag", "tool"} \subseteq kinds ->
               Goal("mixed", <<>>)
          [] "rag" \in kinds /\ "tool" \notin kinds -> Goal("rag_answer", <<>>)
          [] ~HasAction(p, "update") /\ "tool" \in kinds /\ "rag" \notin kinds -> named
          [] kinds \cap {"rag", "tool"} = {} -> NoGoal
  BY DEF Derived
<1> HIDE DEF kinds, update, named
<1>6. Derived(p) \in {NoGoal, Goal("calendar_update", update), Goal("mixed", <<>>),
                      Goal("rag_answer", <<>>), named}
  BY <1>4, <1>5
<1>7. /\ IsGoal(Goal("calendar_update", update)) /\ IsGoal(Goal("mixed", <<>>))
      /\ IsGoal(Goal("rag_answer", <<>>))
  BY <1>1, GoalIsGoal, NothingWanted
<1> QED BY <1>2, <1>3, <1>6, <1>7

LEMMA ContractIsGoal ==
  ASSUME NEW given, NEW p, IsGoal(given), Readable(p)
  PROVE  IsGoal(Contract(given, p))
<1> DEFINE deletes == HasAction(p, "delete") /\ ~HasAction(p, "update")
           creates == /\ HasAction(p, "create") /\ ~HasAction(p, "update")
                      /\ ~HasAction(p, "delete")
           kept    == [given EXCEPT !.expected = Sanitised(@, p)]
<1>1. Contract(given, p) =
        CASE deletes -> Goal("calendar_delete", <<>>)
          [] creates -> Goal("calendar_create", Created(p))
          [] ~deletes /\ ~creates /\ given.type # "" -> kept
          [] ~deletes /\ ~creates /\ given.type = "" -> Derived(p)
  BY DEF Contract
<1>2. IsGoal(kept)
  <2>1. kept = [type |-> given.type, expected |-> Sanitised(given.expected, p),
                tool |-> given.tool, action |-> given.action]
    BY DEF IsGoal
  <2>2. Wanted(Sanitised(given.expected, p))  BY SanitisedWanted DEF IsGoal
  <2> HIDE DEF kept
  <2> QED BY <2>1, <2>2 DEF IsGoal
<1>3. IsGoal(Goal("calendar_delete", <<>>)) /\ IsGoal(Goal("calendar_create", Created(p)))
  BY PlanWanted, GoalIsGoal, NothingWanted
<1>4. IsGoal(Derived(p))  BY DerivedIsGoal
<1> HIDE DEF deletes, creates, kept
<1> QED BY <1>1, <1>2, <1>3, <1>4

\* Dating a contract adds a day that is known.
LEMMA ResolvedIsGoal ==
  ASSUME NEW g, IsGoal(g)
  PROVE  IsGoal(Resolved(g))
<1> DEFINE day   == SingleDay(g.expected["date_expression"])
           dated == [g EXCEPT !.expected =
                       Over(@, Just("date", SingleDay(@["date_expression"])))]
<1>1. ASSUME day # "" PROVE IsGoal(dated)
  <2>1. dated = [type |-> g.type, expected |-> Over(g.expected, Just("date", day)),
                 tool |-> g.tool, action |-> g.action]
    BY DEF IsGoal
  <2> HIDE DEF dated, day
  <2>2. Wanted(Over(g.expected, Just("date", day)))
    BY <1>1, OverWanted, JustWanted, DateNames DEF IsGoal
  <2> QED BY <2>1, <2>2 DEF IsGoal
<1>2. Resolved(g) = g \/ (day # "" /\ Resolved(g) = dated)
  BY DEF Resolved
<1> HIDE DEF day, dated
<1> QED BY <1>1, <1>2

-----------------------------------------------------------------------------
(* Verdicts and texts.                                                     *)

LEMMA CheckStatus == \A g, rows : Check(g, rows).status \in Statuses
<1> SUFFICES ASSUME NEW g, NEW rows PROVE Check(g, rows).status \in Statuses
  OBVIOUS
<1>1. \A calls : JudgeWrites(g, calls).status \in Statuses
  BY DEF JudgeWrites, Verdict, Statuses
<1>2. \A q : JudgeQuery(g, q).status \in Statuses
  BY DEF JudgeQuery, Verdict, Statuses
<1>3. \A act : JudgeCalendar(g, act, rows).status \in Statuses
  <2> TAKE act
  <2> DEFINE calls == {r \in ToSet(rows) : r.tool = Calendar /\ r.action = act}
             queries == Calls(rows, "query")
  <2>1. JudgeCalendar(g, act, rows) =
          CASE calls # {} -> JudgeWrites(g, calls)
            [] calls = {} /\ act # "create" /\ queries # <<>> ->
                 JudgeQuery(g, Last(queries))
            [] calls = {} /\ (act = "create" \/ queries = <<>>) ->
                 Verdict(g, "incomplete", "no_result")
    BY DEF JudgeCalendar
  <2>2. Verdict(g, "incomplete", "no_result").status \in Statuses
    BY DEF Verdict, Statuses
  <2> HIDE DEF calls, queries
  <2> QED BY <1>1, <1>2, <2>1, <2>2
<1>4. JudgeEvidence(g, rows).status \in Statuses
  BY DEF JudgeEvidence, Verdict, Statuses
<1>5. JudgeTool(g, rows).status \in Statuses /\ JudgeSkill(g, rows).status \in Statuses
  BY DEF JudgeTool, JudgeSkill, Verdict, Statuses
<1>6. /\ Verdict(g, "partial", "unsupported").status \in Statuses
      /\ Verdict(g, "completed", "mixed_goal_checked_lightly").status \in Statuses
  BY DEF Verdict, Statuses
<1> QED BY <1>3, <1>4, <1>5, <1>6 DEF Check

LEMMA RouteTyped == \A tasks : RouteOf(tasks) \in Routes
BY DEF RouteOf, Routes

LEMMA PlainTexts ==
  /\ Speaks({}) /\ Speaks({"words"}) /\ Speaks({"words", "cannot"})
  /\ Speaks({"words", "asks"}) /\ Speaks({"words", "denied"})
  /\ Speaks({"words", "claims"}) /\ Speaks({"words", "no_access"})
  /\ Speaks({"words", "no_match"}) /\ Speaks({"words", "not_done"}) /\ Speaks(NoBasis)
BY DEF Speaks, Says, NoBasis

LEMMA OrSpeaks ==
  ASSUME NEW text, NEW other, Speaks(text), Speaks(other)
  PROVE  Speaks(Or(text, other))
BY DEF Or

\* Adding to a text that speaks leaves one that speaks.
LEMMA MoreSpeaks ==
  ASSUME NEW text, NEW more, Speaks(text), Speaks(more)
  PROVE  Speaks(text \cup more)
BY DEF Speaks

LEMMA ToolTextSpeaks == \A rows : Speaks(ToolText(rows))
<1> TAKE rows
<1>1. \A r : Speaks(RowText(r))
  BY PlainTexts DEF RowText
<1> QED BY <1>1 DEF ToolText, Speaks

LEMMA TemplateSpeaks ==
  ASSUME NEW text, Speaks(text)
  PROVE  Speaks(Template(text)) /\ Speaks(ToolTemplate(text))
<1>1. Speaks(DirectText(text))
  BY OrSpeaks, PlainTexts DEF DirectText
<1>2. Speaks(ToolText(ToolRows))  BY ToolTextSpeaks
<1>3. Speaks(Or(text, IF "rag" \in Kinds THEN {} ELSE ToolText(ToolRows)))
  BY <1>2, OrSpeaks, PlainTexts
<1>4. Speaks(Template(text))
  BY <1>1, <1>3, OrSpeaks, PlainTexts DEF Template
<1>5. Speaks(ToolTemplate(text))
  BY <1>2, OrSpeaks, PlainTexts DEF ToolTemplate
<1> QED BY <1>4, <1>5

LEMMA GatedSpeaks ==
  ASSUME NEW text, Speaks(text)
  PROVE  Speaks(Gated(text))
<1>1. Speaks(Template(text)) /\ Speaks(ToolTemplate(text))  BY TemplateSpeaks
<1>2. Evaluated \in {"full", "partial", "insufficient"}  BY DEF Evaluated
<1>3. Speaks(Or(ToolTemplate(text), Template(text)) \cup NoBasis)
  BY <1>1, OrSpeaks, MoreSpeaks, PlainTexts
<1>4. ToolTemplate(text) # {} => Speaks(ToolTemplate(text) \cup {"no_evidence"})
  BY <1>1 DEF Speaks, Says
<1> QED BY <1>2, <1>3, <1>4, PlainTexts DEF Gated

-----------------------------------------------------------------------------
(* The steps.                                                              *)

\* The tasks of a part of a plan are tasks of the plan, one of each id.
LEMMA PartTasks ==
  ASSUME NEW req \in Requests, NEW p, PartOf(p, req.plan)
  PROVE  /\ ToSet(p) \subseteq ToSet(req.plan) /\ Readable(p)
         /\ \A t, u \in ToSet(req.plan) : t.id = u.id => t = u
<1>1. /\ req.plan \in Seq(ToSet(req.plan))
      /\ \A i, j \in DOMAIN req.plan : req.plan[i].id = req.plan[j].id => i = j
      /\ \A t \in ToSet(req.plan) : Wanted(t.fields)
  BY RequestsAssumption
<1>2. Len(req.plan) \in Nat /\ DOMAIN req.plan = 1 .. Len(req.plan)  BY <1>1
<1>3. ToSet(p) \subseteq ToSet(req.plan)  BY DEF PartOf, ToSet
<1>4. \A i \in DOMAIN p : Wanted(p[i].fields)  BY <1>1, <1>3 DEF ToSet
<1>5. Readable(p)  BY <1>2, <1>4 DEF Readable, PartOf
<1>6. \A t, u \in ToSet(req.plan) : t.id = u.id => t = u  BY <1>1 DEF ToSet
<1> QED BY <1>3, <1>5, <1>6

LEMMA InitTyped == Init => TypeInv
<1> SUFFICES ASSUME Init PROVE TypeInv  OBVIOUS
<1>1. Planned
  BY DEF Init, Planned, PartOf
<1>2. Settled
  <2>1. results \in Seq({}) /\ ToSet(results) = {} /\ DOMAIN results = {}
    BY DEF Init, ToSet
  <2> QED BY <2>1 DEF Init, Settled
<1>3. Judged  BY RequestsAssumption DEF Init, Judged, NoVerdict, Statuses
<1>4. Toned  BY RouteTyped, PlainTexts DEF Init, Toned
<1>5. Worded /\ Ended  BY PlainTexts DEF Init, Worded, Ended
<1> QED BY <1>1, <1>2, <1>3, <1>4, <1>5 DEF TypeInv

LEMMA ValidateTyped == TypeInv /\ Validate => TypeInv'
<1> SUFFICES ASSUME TypeInv, Validate PROVE TypeInv'  OBVIOUS
<1>1. /\ stage = "validate" /\ stage' = "run" /\ queue' = ToSet(plan')
      /\ goal' = Resolved(Contract(request.given, request.plan))
      /\ UNCHANGED <<request, mode, results, last, error, check, wording, made>>
  BY DEF Validate
<1>2. PICK blocked, open \in SUBSET {t \in ToSet(request.plan) : t.kind = "tool"} :
        /\ plan' \in {request.plan, Others(request.plan, blocked \cup open)}
        /\ route' \in {"reject", "direct", RouteOf(request.plan)}
        /\ final' \in {final, {"words", "cannot"}, {"words", "asks"}, {"words", "denied"}}
        /\ refused' = blocked /\ unclear' = open
  <2>1. PICK blocked, open \in SUBSET {t \in ToSet(request.plan) : t.kind = "tool"} :
        LET left == Others(request.plan, blocked \cup open)
            asks == ~(blocked # {} /\ open = {})
        IN  /\ IF request.unsafe
               THEN plan' = request.plan /\ route' = "reject" /\ final' = {"words", "cannot"}
               ELSE /\ plan' = left
                    /\ route' = IF DOMAIN left = {} THEN "direct" ELSE RouteOf(request.plan)
                    /\ IF DOMAIN left = {} /\ request.plan # <<>>
                       THEN final' = IF asks THEN {"words", "asks"} ELSE {"words", "denied"}
                       ELSE UNCHANGED final
            /\ refused' = blocked /\ unclear' = open
    BY DEF Validate
  <2>2. /\ plan' \in {request.plan, Others(request.plan, blocked \cup open)}
        /\ route' \in {"reject", "direct", RouteOf(request.plan)}
        /\ final' \in {final, {"words", "cannot"}, {"words", "asks"}, {"words", "denied"}}
        /\ refused' = blocked /\ unclear' = open
    BY <2>1
  <2> QED BY <2>2
<1>3. PartOf(plan', request.plan)
  BY <1>2 DEF PartOf, Others, Restrict
<1>4. Planned'  BY <1>1, <1>2, <1>3 DEF TypeInv, Planned
<1>5. Settled'
  <2>1. results' = <<>>  BY <1>1 DEF TypeInv, Settled
  <2>2. results' \in Seq({}) /\ ToSet(results') = {} /\ DOMAIN results' = {}
    BY <2>1 DEF ToSet
  <2> QED BY <1>1, <2>1, <2>2 DEF Settled
<1>6. Judged'
  <2>1. request \in Requests  BY DEF TypeInv, Planned
  <2>2. PartOf(request.plan, request.plan)  BY DEF PartOf
  <2>3. IsGoal(request.given) /\ Readable(request.plan)
    BY <2>1, <2>2, PartTasks, RequestsAssumption
  <2>4. IsGoal(goal')  BY <1>1, <2>3, ContractIsGoal, ResolvedIsGoal
  <2> QED BY <1>1, <2>4 DEF TypeInv, Judged
<1>7. Toned'
  BY <1>2, RouteTyped, PlainTexts DEF TypeInv, Toned, Routes
<1>8. Worded' /\ Ended'
  BY <1>1 DEF TypeInv, Worded, wording, Ended
<1> QED BY <1>4, <1>5, <1>6, <1>7, <1>8 DEF TypeInv

\* A task is settled by a row of its id.
LEMMA SettleTyped ==
  ASSUME Planned, Settled, stage = "run", stage' # "validate", plan' = plan,
         NEW t \in queue, NEW status, NEW result, NEW evidence,
         Settle(t, Row(t, status, result, evidence))
  PROVE  Settled'
<1> DEFINE row == Row(t, status, result, evidence)
<1>1. row.id = t.id  BY DEF Row
<1>2. results' = Append(results, row) /\ queue' = queue \ {t}  BY DEF Settle
<1> HIDE DEF row
<1>3. PICK S : results \in Seq(S)  BY DEF Settled
<1>4. /\ \E T : results' \in Seq(T)
      /\ ToSet(results') = ToSet(results) \cup {row}
  BY <1>2, <1>3, Appended
<1>5. queue' \subseteq ToSet(plan') /\ t \in ToSet(plan') \ queue'
  BY <1>2 DEF Settled
<1>6. \A r \in ToSet(results') : \E u \in ToSet(plan') \ queue' : u.id = r.id
  BY <1>1, <1>2, <1>4, <1>5 DEF Settled
<1>7. \A i \in DOMAIN results : results[i].id # t.id
  <2> SUFFICES ASSUME NEW i \in DOMAIN results, results[i].id = t.id PROVE FALSE
    OBVIOUS
  <2>1. PICK u \in ToSet(plan) \ queue : u.id = t.id  BY DEF Settled, ToSet
  <2>2. u = t  BY <2>1, PartTasks DEF Planned, Settled
  <2> QED BY <2>1, <2>2
<1>8. /\ DOMAIN results' = 1 .. Len(results) + 1 /\ DOMAIN results = 1 .. Len(results)
      /\ Len(results) \in Nat
      /\ \A i \in 1 .. Len(results) + 1 :
           results'[i] = IF i <= Len(results) THEN results[i] ELSE row
  <2>1. results \in Seq(S \cup {row}) /\ row \in S \cup {row}
    <3>1. S \subseteq S \cup {row}  OBVIOUS
    <3> QED BY <1>3, <3>1
  <2> QED BY <1>2, <2>1
<1>9. ASSUME NEW i \in DOMAIN results', NEW j \in DOMAIN results',
             results'[i].id = results'[j].id
      PROVE  i = j
  <2>1. CASE i <= Len(results) /\ j <= Len(results)
    <3>1. i \in DOMAIN results /\ j \in DOMAIN results
          /\ results'[i] = results[i] /\ results'[j] = results[j]
      BY <1>8, <2>1
    <3> QED BY <1>9, <3>1 DEF Settled
  <2>2. CASE i <= Len(results) /\ ~(j <= Len(results))
    BY <1>1, <1>7, <1>8, <1>9, <2>2
  <2>3. CASE ~(i <= Len(results)) /\ j <= Len(results)
    BY <1>1, <1>7, <1>8, <1>9, <2>3
  <2>4. CASE ~(i <= Len(results)) /\ ~(j <= Len(results))
    BY <1>8, <2>4
  <2> QED BY <2>1, <2>2, <2>3, <2>4
<1> QED BY <1>4, <1>5, <1>6, <1>9 DEF Settled

\* A step of the run leaves the plan, the contract and the wording alone.
LEMMA RunTyped ==
  ASSUME TypeInv, stage' \in {"run", "assess"},
         UNCHANGED <<planned, verdict, wording>>, Settled', Toned'
  PROVE  TypeInv'
<1>1. Planned'  BY DEF TypeInv, Planned, planned
<1>2. Judged' /\ Worded' /\ Ended'
  BY DEF TypeInv, Judged, verdict, Worded, wording, Ended
<1> QED BY <1>1, <1>2 DEF TypeInv

LEMMA CallToolTyped ==
  ASSUME TypeInv, NEW t \in queue, CallTool(t)
  PROVE  TypeInv'
<1>1. /\ stage = "run" /\ stage' \in {"run", "assess"}
      /\ UNCHANGED <<planned, verdict, wording>> /\ plan' = plan
      /\ \E status, result : Settle(t, Row(t, status, result, "none"))
      /\ route' \in {"tool", "direct"}
      /\ final' \in {{}, {"words"}, {"words", "asks"}, {"words", "denied"},
                     {"words", "no_access"}}
  BY DEF CallTool, ToolSucceeds, ToolFails, ToolDenied, RunEnds, planned
<1>2. Settled'  BY <1>1, SettleTyped DEF TypeInv
<1>3. Toned'  BY <1>1, PlainTexts DEF Toned, Routes
<1> QED BY <1>1, <1>2, <1>3, RunTyped

LEMMA WithholdWriteTyped ==
  ASSUME TypeInv, NEW t \in queue, WithholdWrite(t)
  PROVE  TypeInv'
<1>1. /\ stage = "run" /\ stage' \in {"run", "assess"}
      /\ UNCHANGED <<planned, tone, verdict, wording>> /\ plan' = plan
      /\ \E status, result : Settle(t, Row(t, status, result, "none"))
  BY DEF WithholdWrite, Withheld, RunEnds, planned
<1>2. Settled'  BY <1>1, SettleTyped DEF TypeInv
<1>3. Toned'  BY <1>1 DEF TypeInv, Toned, tone
<1> QED BY <1>1, <1>2, <1>3, RunTyped

LEMMA SearchRagTyped ==
  ASSUME TypeInv, NEW t \in queue, SearchRag(t)
  PROVE  TypeInv'
<1>1. /\ stage = "run" /\ stage' = "run"
      /\ UNCHANGED <<planned, tone, verdict, wording>> /\ plan' = plan
      /\ \E status, evidence : Settle(t, Row(t, status, NoResult, evidence))
  BY DEF SearchRag, planned
<1>2. Settled'  BY <1>1, SettleTyped DEF TypeInv
<1>3. Toned'  BY <1>1 DEF TypeInv, Toned, tone
<1> QED BY <1>1, <1>2, <1>3, RunTyped

LEMMA SettledStays ==
  ASSUME Settled, stage' # "validate", UNCHANGED <<plan, queue, results>>
  PROVE  Settled'
BY DEF Settled

LEMMA StopRunTyped == TypeInv /\ StopRun => TypeInv'
<1> SUFFICES ASSUME TypeInv, StopRun PROVE TypeInv'  OBVIOUS
<1>1. /\ stage' = "assess" /\ UNCHANGED <<planned, facts, verdict, wording>>
      /\ \/ UNCHANGED tone
         \/ /\ final' \in {{"words"}, {"words", "asks"}, {"words", "claims"}}
            /\ route' = "direct"
  BY DEF StopRun, RunEnds
<1>2. Settled'  BY <1>1, SettledStays DEF TypeInv, planned, facts
<1>3. Toned'  BY <1>1, PlainTexts DEF TypeInv, Toned, tone, Routes
<1> QED BY <1>1, <1>2, <1>3, RunTyped

LEMMA RunDoneTyped == TypeInv /\ RunDone => TypeInv'
<1> SUFFICES ASSUME TypeInv, RunDone PROVE TypeInv'  OBVIOUS
<1>1. stage' = "assess" /\ UNCHANGED <<planned, facts, tone, verdict, wording>>
  BY DEF RunDone, RunEnds
<1>2. Settled'  BY <1>1, SettledStays DEF TypeInv, planned, facts
<1>3. Toned'  BY <1>1 DEF TypeInv, Toned, tone
<1> QED BY <1>1, <1>2, <1>3, RunTyped

LEMMA AssessTyped == TypeInv /\ Assess => TypeInv'
<1> SUFFICES ASSUME TypeInv, Assess PROVE TypeInv'  OBVIOUS
<1> DEFINE g == Resolved(Contract(goal, plan))
<1>1. /\ stage' = "compose" /\ UNCHANGED <<planned, facts, tone, wording>>
      /\ \/ UNCHANGED verdict
         \/ goal' = g /\ check' = Check(g, results)
  BY DEF Assess
<1>2. Readable(plan)  BY PartTasks DEF TypeInv, Planned
<1>3. IsGoal(g)  BY <1>2, ContractIsGoal, ResolvedIsGoal DEF TypeInv, Judged
<1> HIDE DEF g
<1>4. Judged'  BY <1>1, <1>3, CheckStatus DEF TypeInv, Judged, verdict
<1>5. Settled'  BY <1>1, SettledStays DEF TypeInv, planned, facts
<1>6. Planned' /\ Toned' /\ Worded' /\ Ended'
  BY <1>1 DEF TypeInv, Planned, planned, Toned, tone, Worded, wording, Ended
<1> QED BY <1>4, <1>5, <1>6 DEF TypeInv

LEMMA ComposeTyped == TypeInv /\ Compose => TypeInv'
<1> SUFFICES ASSUME TypeInv, Compose PROVE TypeInv'  OBVIOUS
<1> DEFINE fact == Or(Template(final), final)
           text == Or(fact, final)
<1>1. /\ stage' = "write" /\ locked' = Or(Gated(text), fact)
      /\ final' = Or(Gated(text), text)
      /\ UNCHANGED <<planned, facts, route, intent, error, verdict, draft, sent>>
  BY DEF Compose
<1>2. Speaks(final)  BY DEF TypeInv, Toned
<1>3. Speaks(fact) /\ Speaks(text)  BY <1>2, TemplateSpeaks, OrSpeaks
<1>4. Speaks(Gated(text))  BY <1>3, GatedSpeaks
<1> HIDE DEF fact, text
<1>5. Speaks(locked') /\ Speaks(final')  BY <1>1, <1>3, <1>4, OrSpeaks
<1>6. Settled'  BY <1>1, SettledStays DEF TypeInv, planned, facts
<1>7. Planned' /\ Judged' /\ Toned' /\ Worded' /\ Ended'
  BY <1>1, <1>5
     DEF TypeInv, Planned, planned, Judged, verdict, Toned, Worded, Ended
<1> QED BY <1>6, <1>7 DEF TypeInv

LEMMA WriteTyped == TypeInv /\ Write => TypeInv'
<1> SUFFICES ASSUME TypeInv, Write PROVE TypeInv'  OBVIOUS
<1>1. /\ stage' = "guard" /\ draft' \in Drafts /\ sent' \in {draft', {}}
      /\ UNCHANGED <<planned, facts, tone, verdict, gate, locked, packet>>
  BY DEF Write
<1>2. Speaks(draft') /\ sent' \subseteq Says
  BY <1>1, DraftAssumption DEF Speaks
<1>3. Settled'  BY <1>1, SettledStays DEF TypeInv, planned, facts
<1>4. Planned' /\ Judged' /\ Toned' /\ Worded' /\ Ended'
  BY <1>1, <1>2
     DEF TypeInv, Planned, planned, Judged, verdict, Toned, tone, Worded, Ended
<1> QED BY <1>3, <1>4 DEF TypeInv

LEMMA GuardTyped == TypeInv /\ Guard => TypeInv'
<1> SUFFICES ASSUME TypeInv, Guard PROVE TypeInv'  OBVIOUS
<1> DEFINE bare == Unclaimed(draft)
           kept == Anchored(bare)
           said == Refusing(kept)
           whole == Or(said, Or(locked, {"words"}))
<1>1. /\ stage' = "done" /\ final' = whole
      /\ UNCHANGED <<planned, facts, route, intent, error, verdict, wording>>
  BY DEF Guard
<1>2. Speaks(draft) /\ Speaks(locked)  BY DEF TypeInv, Worded
<1>3. Speaks(bare)  BY <1>2, PlainTexts DEF Unclaimed, Failure
<1>4. Speaks(kept)
  <2> HIDE DEF bare
  <2> QED BY <1>2, <1>3 DEF Anchored
<1>5. Speaks(said)
  <2> HIDE DEF kept
  <2> QED BY <1>4, MoreSpeaks, PlainTexts DEF Refusing
<1> HIDE DEF said
<1>6. Speaks(Or(locked, {"words"})) /\ Or(locked, {"words"}) # {}
  BY <1>2, OrSpeaks, PlainTexts DEF Or
<1>7. Speaks(whole) /\ "words" \in whole
  BY <1>5, <1>6 DEF Or, Speaks
<1> HIDE DEF whole
<1>8. Settled'  BY <1>1, SettledStays DEF TypeInv, planned, facts
<1>9. Planned' /\ Judged' /\ Toned' /\ Worded' /\ Ended'
  BY <1>1, <1>7
     DEF TypeInv, Planned, planned, Judged, verdict, Toned, Worded, wording, Ended
<1> QED BY <1>8, <1>9 DEF TypeInv

LEMMA NextTyped == TypeInv /\ [Next]_vars => TypeInv'
<1>1. CASE UNCHANGED vars
  BY <1>1 DEF vars, planned, facts, tone, verdict, wording, TypeInv, Planned, Settled,
              Judged, Toned, Worded, Ended
<1>2. CASE Next
  BY <1>2, ValidateTyped, CallToolTyped, WithholdWriteTyped, SearchRagTyped,
     StopRunTyped, RunDoneTyped, AssessTyped, ComposeTyped, WriteTyped, GuardTyped
     DEF Next
<1> QED BY <1>1, <1>2

LEMMA TypedAlways == Spec => []TypeInv
BY InitTyped, NextTyped, PTL DEF Spec

\* Rows are of the plan's tasks, one each, contracts name known fields with a value,
\* and no answer is empty, for every request, outcome and draft.
THEOREM AnswerTypes == Spec => []AnswerTypeOK
<1>1. ASSUME TypeInv PROVE AnswerTypeOK
  <2>1. ToSet(plan) \cup refused \cup unclear \subseteq ToSet(request.plan)
    BY <1>1, PartTasks DEF TypeInv, Planned
  <2>2. {r.id : r \in ToSet(results)} \subseteq {t.id : t \in ToSet(plan)}
    BY <1>1 DEF TypeInv, Settled
  <2>3. \A i, j \in DOMAIN results : results[i].id = results[j].id => i = j
    BY <1>1 DEF TypeInv, Settled
  <2>4. DOMAIN goal.expected \subseteq Names /\ \A f \in DOMAIN goal.expected : goal.expected[f] # ""
    BY <1>1 DEF TypeInv, Judged, IsGoal, Wanted
  <2>5. {final, locked, draft, sent} \subseteq SUBSET Says
    BY <1>1 DEF TypeInv, Toned, Worded, Speaks
  <2> QED BY <1>1, <2>1, <2>2, <2>3, <2>4, <2>5
          DEF AnswerTypeOK, TypeInv, Judged, Toned, Statuses, Routes, Ended
<1> QED BY <1>1, TypedAlways, PTL

-----------------------------------------------------------------------------
(* A request of one write.                                                 *)

\* What the contract expects is achieved by the write.
Fits(e, t) == \A f \in DOMAIN e : Achieved(e, f, t)

\* A calendar goal is the write's, and fits.
Suits(g, t) ==
  g.type \in DOMAIN GoalAction => GoalAction[g.type] = t.action /\ Fits(g.expected, t)

\* t is a plan's only write.
Only(p, t) ==
  /\ IsWrite(t) /\ \E i \in DOMAIN p : p[i] = t
  /\ \A i \in DOMAIN p : IsWrite(p[i]) => p[i] = t

\* A task as the requests have them, dated by what it names.
Sane(t) ==
  /\ Wanted(t.fields) /\ DOMAIN t.fields \subseteq Fields
  /\ t.action # "delete" /\ SingleDay(t.when) # "" => Leaves(t, "date", SingleDay(t.when))

\* Dropping anything but a date keeps a contract fitting.
LEMMA WithoutFits ==
  ASSUME NEW e, NEW t, NEW names, Fits(e, t), "date" \notin names
  PROVE  Fits(Without(e, names), t)
<1> DEFINE less == Without(e, names)
<1>1. DOMAIN less = DOMAIN e \ names /\ \A f \in DOMAIN less : less[f] = e[f]
  BY DEF Without, Restrict
<1>2. "date" \in DOMAIN e => "date" \in DOMAIN less  BY <1>1
<1> HIDE DEF less
<1>3. ASSUME NEW f \in DOMAIN less PROVE Achieved(less, f, t)
  <2>1. f \in DOMAIN e /\ less[f] = e[f]  BY <1>1
  <2>2. Achieved(e, f, t)  BY <2>1 DEF Fits
  <2>3. CASE f = "date_expression"  BY <1>2, <2>1, <2>2, <2>3 DEF Achieved
  <2>4. CASE f # "date_expression"  BY <2>1, <2>2, <2>4 DEF Achieved
  <2> QED BY <2>3, <2>4
<1>4. Fits(less, t)  BY <1>3 DEF Fits
<1> QED BY <1>4 DEF less

LEMMA SelectorNames == "date" \notin Selectors /\ "date_expression" \notin Selectors
BY DEF Selectors

LEMMA SanitisedFits ==
  ASSUME NEW e, NEW t, NEW p, Fits(e, t)
  PROVE  Fits(Sanitised(e, p), t)
<1>1. \A x : Fits(x, t) => Fits(WithoutQueryDate(x, p), t)
  BY WithoutFits DEF WithoutQueryDate
<1>2. \A x : Fits(x, t) => Fits(WithoutQuerySelectors(x, p), t)
  <2> SUFFICES ASSUME NEW x, Fits(x, t) PROVE Fits(WithoutQuerySelectors(x, p), t)
    OBVIOUS
  <2> DEFINE dropped == {s \in Selectors \cap DOMAIN x \cap DOMAIN QuerySelectors(p) :
                           x[s] = QuerySelectors(p)[s]}
  <2>1. "date" \notin dropped  BY SelectorNames
  <2>2. WithoutQuerySelectors(x, p) \in {x, Without(x, dropped)}
    BY DEF WithoutQuerySelectors
  <2> HIDE DEF dropped
  <2> QED BY <2>1, <2>2, WithoutFits
<1>3. \A x : Fits(x, t) => Fits(WithoutQueryTitle(x, p), t)
  BY WithoutFits DEF WithoutQueryTitle
<1> QED BY <1>1, <1>2, <1>3 DEF Sanitised

\* Of a faithful contract what is left fits: what it repeats from the query goes,
\* because something of its own stays beside it.
LEMMA FaithfulFits ==
  ASSUME NEW e, NEW t, NEW p, Wanted(e), FaithfulContract(e, t, p),
         \A i \in CalendarTasks(p, "update") : p[i] = t
  PROVE  Fits(Sanitised(e, p), t)
<1>1. CASE Fits(e, t)  BY <1>1, SanitisedFits
<1>2. CASE ~Fits(e, t)
  <2>1. /\ \A f \in DOMAIN e : Achieved(e, f, t) \/ Repeated(e, f, t, p)
        /\ \E f \in DOMAIN e \ (Selectors \cup {"title"}) : ~Repeated(e, f, t, p)
    BY <1>2 DEF FaithfulContract, Fits
  <2>2. PICK own \in DOMAIN e \ (Selectors \cup {"title"}) : ~Repeated(e, own, t, p)
    BY <2>1
  <2> DEFINE e1 == WithoutQueryDate(e, p)
             e2 == WithoutQuerySelectors(e1, p)
             e3 == WithoutQueryTitle(e2, p)
  <2>3. own = "date_expression" => e[own] \notin QueryExpressions(p)
    BY <2>2 DEF Repeated
  <2>4. own \in Names  BY <2>2 DEF Wanted
  <2>5. /\ DOMAIN e1 \subseteq DOMAIN e /\ \A f \in DOMAIN e1 : e1[f] = e[f]
        /\ DOMAIN e \ {"date_expression"} \subseteq DOMAIN e1
        /\ own \in DOMAIN e1
    BY <2>2, <2>3 DEF WithoutQueryDate, Without, Restrict
  <2>6. ASSUME "date_expression" \in DOMAIN e1, "date" \notin DOMAIN e
        PROVE  e["date_expression"] \notin QueryExpressions(p)
    <3>1. CASE own = "date_expression"  BY <2>3, <3>1
    <3>2. CASE own # "date_expression"
      <4>1. own \in DOMAIN e \cap (Fields \ {"date"})
        BY <2>2, <2>4, <2>6, <3>2 DEF Names
      <4> QED BY <2>6, <4>1 DEF WithoutQueryDate, Without, Restrict
    <3> QED BY <3>1, <3>2
  <2> HIDE DEF e1
  <2>7. /\ DOMAIN e2 \subseteq DOMAIN e1 /\ \A f \in DOMAIN e2 : e2[f] = e1[f]
        /\ DOMAIN e1 \ Selectors \subseteq DOMAIN e2
    BY DEF WithoutQuerySelectors, Without, Restrict
  <2>8. own \in DOMAIN e1 \ Selectors  BY <2>2, <2>5
  <2>9. ASSUME NEW f \in DOMAIN e2, f \in Selectors \cap DOMAIN QuerySelectors(p),
               e1[f] = QuerySelectors(p)[f]
        PROVE  FALSE
    <3> DEFINE dropped == {s \in Selectors \cap DOMAIN e1 \cap DOMAIN QuerySelectors(p) :
                             e1[s] = QuerySelectors(p)[s]}
    <3>1. e2 = Without(e1, dropped)  BY <2>8 DEF WithoutQuerySelectors
    <3>2. f \in dropped  BY <2>7, <2>9
    <3> HIDE DEF dropped
    <3> QED BY <2>9, <3>1, <3>2 DEF Without, Restrict
  <2> HIDE DEF e2
  <2>10. /\ DOMAIN e3 \subseteq DOMAIN e2 /\ \A f \in DOMAIN e3 : e3[f] = e2[f]
         /\ DOMAIN e2 \ {"title"} \subseteq DOMAIN e3
    BY DEF WithoutQueryTitle, Without, Restrict
  <2>11. ASSUME "title" \in DOMAIN e3, ~t.titled,
                QueryTitles(p) = {} \/ e2["title"] \in QueryTitles(p)
         PROVE  FALSE
    <3>1. own \in DOMAIN e2 \ {"title", "department"}
      BY <2>2, <2>7, <2>8 DEF Selectors
    <3>2. ~\E i \in CalendarTasks(p, "update") : p[i].titled  BY <2>11
    <3>3. "title" \in DOMAIN e2  BY <2>10, <2>11
    <3>4. e3 = Without(e2, {"title"})
      BY <2>11, <3>1, <3>2, <3>3 DEF WithoutQueryTitle
    <3> QED BY <2>11, <3>4 DEF Without, Restrict
  <2> HIDE DEF e3
  <2>12. ASSUME NEW f \in DOMAIN e3 PROVE Achieved(e3, f, t)
    <3>1. f \in DOMAIN e2 /\ f \in DOMAIN e1 /\ f \in DOMAIN e
          /\ e3[f] = e[f] /\ e2[f] = e[f] /\ e1[f] = e[f]
      BY <2>5, <2>7, <2>10
    <3>2. ~Repeated(e, f, t, p) \/ (f = "date_expression" /\ "date" \in DOMAIN e)
      <4>1. ~(f \in Selectors \cap DOMAIN QuerySelectors(p) /\ e[f] = QuerySelectors(p)[f])
        BY <2>9, <3>1
      <4>2. ~(f = "title" /\ ~t.titled /\ (QueryTitles(p) = {} \/ e[f] \in QueryTitles(p)))
        BY <2>11, <3>1
      <4>3. f = "date_expression" /\ "date" \notin DOMAIN e => e[f] \notin QueryExpressions(p)
        BY <2>6, <3>1
      <4> QED BY <4>1, <4>2, <4>3 DEF Repeated
    <3>3. Achieved(e, f, t) \/ (f = "date_expression" /\ "date" \in DOMAIN e)
      BY <2>1, <3>1, <3>2
    <3>4. "date" \in DOMAIN e => "date" \in DOMAIN e3
      BY <2>5, <2>7, <2>10, SelectorNames
    <3> QED BY <3>1, <3>3, <3>4 DEF Achieved
  <2>13. Sanitised(e, p) = e3  BY DEF Sanitised, e1, e2, e3
  <2> QED BY <2>12, <2>13 DEF Fits
<1> QED BY <1>1, <1>2

\* Dating a fitting contract names the day the write leaves.
LEMMA ResolvedFits ==
  ASSUME NEW g, NEW t, IsGoal(g), Suits(g, t)
  PROVE  Suits(Resolved(g), t) /\ Resolved(g).type = g.type
<1> DEFINE e     == g.expected
           day   == SingleDay(e["date_expression"])
           more  == Over(e, Just("date", day))
           dated == [g EXCEPT !.expected =
                       Over(@, Just("date", SingleDay(@["date_expression"])))]
<1>1. /\ dated = [type |-> g.type, expected |-> more, tool |-> g.tool, action |-> g.action]
  BY DEF IsGoal
<1>2. \/ Resolved(g) = g
      \/ "date_expression" \in DOMAIN e /\ day # "" /\ Resolved(g) = dated
  BY DEF Resolved
<1>3. ASSUME "date_expression" \in DOMAIN e, day # "", Fits(e, t)
      PROVE  Fits(more, t)
  <2>1. /\ DOMAIN more = DOMAIN e \cup {"date"}
        /\ \A f \in DOMAIN e : more[f] = e[f]
        /\ "date" \notin DOMAIN e => more["date"] = day
    BY DEF Over, Just
  <2>2. "date" \notin DOMAIN e => Leaves(t, "date", day)
    BY <1>3 DEF Fits, Achieved
  <2> HIDE DEF more, day, e
  <2>3. ASSUME NEW f \in DOMAIN more PROVE Achieved(more, f, t)
    <3>1. CASE f = "date_expression"  BY <2>1, <3>1 DEF Achieved
    <3>2. CASE f # "date_expression" /\ f \in DOMAIN e
      BY <1>3, <2>1, <3>2 DEF Achieved, Fits
    <3>3. CASE f # "date_expression" /\ f \notin DOMAIN e
      BY <2>1, <2>2, <3>3 DEF Achieved
    <3> QED BY <3>1, <3>2, <3>3
  <2> QED BY <2>3 DEF Fits
<1> HIDE DEF more, day
<1>4. dated.type = g.type /\ dated.expected = more  BY <1>1
<1> HIDE DEF dated, e
<1>5. ASSUME "date_expression" \in DOMAIN e, day # "", Resolved(g) = dated
      PROVE  Suits(Resolved(g), t) /\ Resolved(g).type = g.type
  <2>1. Resolved(g).type = g.type /\ Resolved(g).expected = more  BY <1>4, <1>5
  <2>2. g.type \in DOMAIN GoalAction =>
          GoalAction[g.type] = t.action /\ Fits(e, t)
    BY DEF Suits, e
  <2>3. g.type \in DOMAIN GoalAction =>
          GoalAction[g.type] = t.action /\ Fits(more, t)
    BY <1>3, <1>5, <2>2
  <2> HIDE DEF more
  <2> QED BY <2>1, <2>3 DEF Suits
<1> QED BY <1>2, <1>5

\* What a write leaves has the fields it sets, and the day it was told.
LEMMA LeavesFields ==
  ASSUME NEW t, Sane(t), t.action # "delete"
  PROVE  /\ \A f \in DOMAIN t.fields : Leaves(t, f, t.fields[f])
         /\ "date" \notin DOMAIN t.fields /\ SingleDay(t.said) # "" =>
              Leaves(t, "date", SingleDay(t.said))
<1> DEFINE said == DateSaid(t)
           own  == Over(t.fields, said)
<1>1. After(t) = Over(own, Stored)  BY DEF After
<1>2. DOMAIN own = DOMAIN t.fields \cup DOMAIN said
      /\ \A f \in DOMAIN own : own[f] = IF f \in DOMAIN t.fields THEN t.fields[f] ELSE said[f]
  BY DEF Over
<1>3. "date" \notin DOMAIN t.fields /\ SingleDay(t.said) # "" =>
        "date" \in DOMAIN said /\ said["date"] = SingleDay(t.said)
  BY DEF DateSaid, Just
<1> HIDE DEF own, said
<1>4. \A f \in DOMAIN own : f \in DOMAIN After(t) /\ After(t)[f] = own[f]
  BY <1>1 DEF Over
<1> QED BY <1>2, <1>3, <1>4 DEF Leaves

LEMMA UpdateFits ==
  ASSUME NEW t, Sane(t), t.action # "delete"
  PROVE  Fits(FromUpdate(t), t)
<1> DEFINE own == IF t.titled THEN t.fields ELSE Without(t.fields, {"title"})
           told == Over(own, Just("date_expression", t.said))
           dated == IF t.said # "" /\ DOMAIN own \subseteq {"date"} THEN told ELSE own
<1>1. /\ DOMAIN own \subseteq DOMAIN t.fields /\ \A f \in DOMAIN own : own[f] = t.fields[f]
      /\ "date" \in DOMAIN t.fields => "date" \in DOMAIN own
  BY DEF Without, Restrict
<1>2. "date_expression" \notin DOMAIN t.fields
  BY DEF Sane, Fields, Selectors, OtherFields
<1> HIDE DEF own
<1>3. Fits(own, t)
  BY <1>1, <1>2, LeavesFields DEF Fits, Achieved
<1>4. Fits(told, t)
  <2>1. /\ DOMAIN told = DOMAIN own \cup {"date_expression"}
        /\ \A f \in DOMAIN own : told[f] = own[f]
        /\ told["date_expression"] = t.said
    BY <1>1, <1>2 DEF Over, Just
  <2> HIDE DEF told
  <2> QED BY <1>1, <1>2, <2>1, LeavesFields DEF Fits, Achieved
<1>5. t.when # "" => Fits(Just("date_expression", t.when), t)
  BY DEF Fits, Achieved, Just, Sane
<1>6. FromUpdate(t) = IF DOMAIN dated = {} /\ t.when # ""
                      THEN Just("date_expression", t.when) ELSE dated
  BY DEF FromUpdate, own
<1> HIDE DEF told
<1> QED BY <1>3, <1>4, <1>5, <1>6

LEMMA CreateFits ==
  ASSUME NEW t, Sane(t), t.action # "delete"
  PROVE  Fits(FromCreate(t), t)
<1> DEFINE dateless == "date" \notin DOMAIN t.fields
           said == IF t.said # "" /\ dateless THEN Just("date_expression", t.said) ELSE <<>>
           day  == IF SingleDay(t.when) # "" /\ dateless
                   THEN Just("date", SingleDay(t.when)) ELSE <<>>
           e    == Over(Over(t.fields, said), day)
<1>1. FromCreate(t) = e  BY DEF FromCreate
<1>2. "date_expression" \notin DOMAIN t.fields
  BY DEF Sane, Fields, Selectors, OtherFields
<1>3. /\ DOMAIN said \subseteq {"date_expression"}
      /\ "date_expression" \in DOMAIN said => said["date_expression"] = t.said /\ dateless
  <2>1. CASE t.said # "" /\ dateless  BY <2>1 DEF Just
  <2>2. CASE ~(t.said # "" /\ dateless)
    <3>1. said = <<>>  BY <2>2
    <3> HIDE DEF said
    <3>2. DOMAIN said = {}  BY <3>1
    <3> QED BY <3>2
  <2> QED BY <2>1, <2>2
<1>4. /\ DOMAIN day \subseteq {"date"}
      /\ "date" \in DOMAIN day => day["date"] = SingleDay(t.when) /\ SingleDay(t.when) # ""
  <2>1. CASE SingleDay(t.when) # "" /\ dateless  BY <2>1 DEF Just
  <2>2. CASE ~(SingleDay(t.when) # "" /\ dateless)
    <3>1. day = <<>>  BY <2>2
    <3> HIDE DEF day
    <3>2. DOMAIN day = {}  BY <3>1
    <3> QED BY <3>2
  <2> QED BY <2>1, <2>2
<1> HIDE DEF said, day
<1>5. /\ DOMAIN e = DOMAIN t.fields \cup DOMAIN said \cup DOMAIN day
      /\ \A f \in DOMAIN t.fields : e[f] = t.fields[f]
      /\ \A f \in DOMAIN said \ DOMAIN t.fields : e[f] = said[f]
      /\ \A f \in DOMAIN day \ (DOMAIN t.fields \cup DOMAIN said) : e[f] = day[f]
  BY DEF Over
<1> HIDE DEF e
<1>6. ASSUME NEW f \in DOMAIN e PROVE Achieved(e, f, t)
  <2>1. CASE f \in DOMAIN t.fields
    BY <1>2, <1>5, <2>1, LeavesFields DEF Achieved
  <2>2. CASE f \in DOMAIN said
    BY <1>2, <1>3, <1>5, <2>2, LeavesFields DEF Achieved
  <2>3. CASE f \in DOMAIN day /\ f \notin DOMAIN t.fields
    <3>1. f = "date" /\ f \notin DOMAIN said  BY <1>3, <1>4, <2>3
    <3>2. e[f] = SingleDay(t.when) /\ SingleDay(t.when) # ""  BY <1>4, <1>5, <2>3, <3>1
    <3> QED BY <3>1, <3>2 DEF Achieved, Sane
  <2> QED BY <1>5, <2>1, <2>2, <2>3
<1> QED BY <1>1, <1>6 DEF Fits

\* Merging what one write expects with itself changes nothing.
LEMMA MergedFits ==
  ASSUME NEW n \in Nat, NEW es, DOMAIN es \subseteq 1 .. n, NEW e, NEW t,
         \A i \in DOMAIN es : es[i] = e, Fits(e, t)
  PROVE  Fits(Merged(es), t)
<1> DEFINE m == Merged(es)
           having(f) == {i \in DOMAIN es : f \in DOMAIN es[i]}
<1>1. /\ DOMAIN m = UNION {DOMAIN es[i] : i \in DOMAIN es}
      /\ \A f \in DOMAIN m : m[f] = es[Max(having(f))][f]
  BY DEF Merged
<1>2. \A f \in DOMAIN m : f \in DOMAIN e /\ m[f] = e[f]
  <2> TAKE f \in DOMAIN m
  <2>1. f \in DOMAIN e /\ having(f) # {} /\ having(f) \subseteq 1 .. n  BY <1>1
  <2>2. Max(having(f)) \in having(f)
    <3> HIDE DEF having
    <3> QED BY <2>1, LastPlace
  <2> QED BY <1>1, <2>1, <2>2
<1>3. DOMAIN m # {} /\ "date" \in DOMAIN e => "date" \in DOMAIN m  BY <1>1
<1>4. m = Merged(es)  OBVIOUS
<1> HIDE DEF m
<1>5. ASSUME NEW f \in DOMAIN m PROVE Achieved(m, f, t)
  <2>1. f \in DOMAIN e /\ m[f] = e[f]  BY <1>2
  <2>2. Achieved(e, f, t)  BY <2>1 DEF Fits
  <2>3. "date" \in DOMAIN e => "date" \in DOMAIN m  BY <1>3
  <2>4. CASE f = "date_expression"  BY <2>1, <2>2, <2>3, <2>4 DEF Achieved
  <2>5. CASE f # "date_expression"  BY <2>1, <2>2, <2>5 DEF Achieved
  <2> QED BY <2>4, <2>5
<1> QED BY <1>4, <1>5 DEF Fits

LEMMA PlanFits ==
  ASSUME NEW p, NEW t, Readable(p), Only(p, t), Sane(t), t.action # "delete"
  PROVE  Fits(Updated(p), t) /\ Fits(Created(p), t)
<1>1. PICK n \in Nat : DOMAIN p \subseteq 1 .. n  BY DEF Readable
<1>2. ASSUME NEW act \in Writes
      PROVE  CalendarTasks(p, act) \subseteq 1 .. n
             /\ \A i \in CalendarTasks(p, act) : p[i] = t
  BY <1>1 DEF CalendarTasks, Only, IsWrite
<1>3. Fits(Updated(p), t)
  <2> DEFINE es == [i \in CalendarTasks(p, "update") |-> FromUpdate(p[i])]
  <2>1. DOMAIN es \subseteq 1 .. n /\ \A i \in DOMAIN es : es[i] = FromUpdate(t)
    BY <1>2, WritesAre
  <2>2. Updated(p) = Merged(es)  BY DEF Updated
  <2> HIDE DEF es
  <2> QED BY <2>1, <2>2, UpdateFits, MergedFits
<1>4. Fits(Created(p), t)
  <2> DEFINE es == [i \in CalendarTasks(p, "create") |-> FromCreate(p[i])]
  <2>1. DOMAIN es \subseteq 1 .. n /\ \A i \in DOMAIN es : es[i] = FromCreate(t)
    BY <1>2, WritesAre
  <2>2. Created(p) = Merged(es)  BY DEF Created
  <2> HIDE DEF es
  <2> QED BY <2>1, <2>2, CreateFits, MergedFits
<1> QED BY <1>3, <1>4

\* What each calendar goal asks for.
LEMMA GoalsAsk ==
  /\ DOMAIN GoalAction = {"calendar_create", "calendar_update", "calendar_delete"}
  /\ GoalAction["calendar_create"] = "create"
  /\ GoalAction["calendar_update"] = "update"
  /\ GoalAction["calendar_delete"] = "delete"
BY DEF GoalAction

LEMMA GoalParts ==
  ASSUME NEW type, NEW e
  PROVE  Goal(type, e).type = type /\ Goal(type, e).expected = e
BY DEF Goal

LEMMA GoalSuits ==
  ASSUME NEW type \in DOMAIN GoalAction, NEW e, NEW t, GoalAction[type] = t.action, Fits(e, t)
  PROVE  Suits(Goal(type, e), t) /\ Goal(type, e).type # ""
BY GoalsAsk, GoalParts DEF Suits

\* The contract of a plan with one write is that write's.
LEMMA ContractSuits ==
  ASSUME NEW given, NEW p, NEW t, IsGoal(given), Readable(p), Only(p, t), Sane(t),
         t.action = "update" /\ given.type \in DOMAIN GoalAction =>
           given.type = "calendar_update" /\ Fits(Sanitised(given.expected, p), t)
  PROVE  /\ Suits(Contract(given, p), t)
         /\ given.type # "" => Contract(given, p).type # ""
<1> DEFINE deletes == HasAction(p, "delete") /\ ~HasAction(p, "update")
           creates == /\ HasAction(p, "create") /\ ~HasAction(p, "update")
                      /\ ~HasAction(p, "delete")
           kept    == [given EXCEPT !.expected = Sanitised(@, p)]
<1>1. Contract(given, p) =
        CASE deletes -> Goal("calendar_delete", <<>>)
          [] creates -> Goal("calendar_create", Created(p))
          [] ~deletes /\ ~creates /\ given.type # "" -> kept
          [] ~deletes /\ ~creates /\ given.type = "" -> Derived(p)
  BY DEF Contract
<1>2. \A act \in Writes : HasAction(p, act) <=> act = t.action
  BY DEF HasAction, CalendarTasks, Only, IsWrite
<1>3. t.action \in {"create", "update", "delete"}  BY WritesAre DEF Only, IsWrite
<1>4. HasAction(p, "create") <=> t.action = "create"  BY <1>2, WritesAre
<1>5. HasAction(p, "update") <=> t.action = "update"  BY <1>2, WritesAre
<1>6. HasAction(p, "delete") <=> t.action = "delete"  BY <1>2, WritesAre
<1>7. CASE t.action = "delete"
  <2>1. Contract(given, p) = Goal("calendar_delete", <<>>)
    <3> HIDE DEF kept
    <3> QED BY <1>1, <1>5, <1>6, <1>7
  <2>2. Fits(<<>>, t)  BY DEF Fits
  <2>3. Suits(Goal("calendar_delete", <<>>), t) /\ Goal("calendar_delete", <<>>).type # ""
    BY <1>7, <2>2, GoalsAsk, GoalSuits
  <2> QED BY <2>1, <2>3
<1>8. CASE t.action = "create"
  <2>1. Contract(given, p) = Goal("calendar_create", Created(p))
    <3> HIDE DEF kept
    <3> QED BY <1>1, <1>4, <1>5, <1>6, <1>8
  <2>2. Fits(Created(p), t)  BY <1>8, PlanFits
  <2>3. /\ Suits(Goal("calendar_create", Created(p)), t)
        /\ Goal("calendar_create", Created(p)).type # ""
    BY <1>8, <2>2, GoalsAsk, GoalSuits
  <2> QED BY <2>1, <2>3
<1>9. CASE t.action = "update" /\ given.type # ""
  <2>1. Contract(given, p) = kept
    <3> HIDE DEF kept
    <3> QED BY <1>1, <1>4, <1>5, <1>6, <1>9
  <2>2. kept.type = given.type /\ kept.expected = Sanitised(given.expected, p)
    BY DEF IsGoal
  <2> HIDE DEF kept
  <2> QED BY <1>9, <2>1, <2>2, GoalsAsk DEF Suits
<1>10. CASE t.action = "update" /\ given.type = ""
  <2>1. Contract(given, p) = Derived(p)
    <3> HIDE DEF kept
    <3> QED BY <1>1, <1>4, <1>5, <1>6, <1>10
  <2> DEFINE update == Sanitised(Updated(p), p)
  <2>2. Fits(update, t)  BY <1>10, PlanFits, SanitisedFits
  <2>3. Derived(p) \in {NoGoal, Goal("calendar_update", update)}
    <3> DEFINE kinds == {u.kind : u \in ToSet(p)}
    <3>1. "tool" \in kinds  BY DEF Only, IsWrite, ToSet
    <3> HIDE DEF update, kinds
    <3>2. HasAction(p, "update")  BY <1>5, <1>10
    <3> QED BY <3>1, <3>2 DEF Derived, update, kinds
  <2> HIDE DEF update
  <2>4. CASE Derived(p) = NoGoal
    <3>1. NoGoal.type = ""  BY GoalParts DEF NoGoal
    <3>2. Suits(NoGoal, t)  BY <3>1, GoalsAsk DEF Suits
    <3> QED BY <1>10, <2>1, <2>4, <3>2
  <2>5. CASE Derived(p) = Goal("calendar_update", update)
    <3>1. Suits(Goal("calendar_update", update), t)
      BY <1>10, <2>2, GoalsAsk, GoalSuits
    <3> QED BY <1>10, <2>1, <2>5, <3>1
  <2> QED BY <2>3, <2>4, <2>5
<1> QED BY <1>3, <1>7, <1>8, <1>9, <1>10

-----------------------------------------------------------------------------
(* A write that was made is seen by the check.                             *)

\* Every write made is recorded by a row of a task of the plan.
Recorded ==
  /\ stage = "validate" => made = {}
  /\ \A w \in made : \E t \in ToSet(plan), r \in ToSet(results) :
       /\ IsWrite(t) /\ w.action = t.action /\ r.tool = Calendar /\ r.action = t.action
       /\ r.wrote = DoneStatus[t.action] /\ r.known /\ r.event = After(t)

\* No task is lost between the plan and what validation kept from it.
Whole ==
  stage # "validate" => ToSet(request.plan) \subseteq ToSet(plan) \cup refused \cup unclear

\* What is to be checked is what the request's only write does.
Aimed ==
  stage \in {"run", "assess"} => \A t : Only(request.plan, t) => Suits(goal, t)

DoneInv == Recorded /\ Whole /\ Aimed /\ MadeMeansCompleted

Honest == \A r \in Requests : Faithful(r)

\* A request's only write is as the requests have them.
LEMMA OnlySane ==
  ASSUME Honest, NEW req \in Requests, NEW t, Only(req.plan, t)
  PROVE  /\ t \in ToSet(req.plan) /\ Sane(t)
         /\ t.action = "update" /\ req.given.type \in DOMAIN GoalAction =>
              /\ req.given.type = "calendar_update"
              /\ FaithfulContract(req.given.expected, t, req.plan)
<1>1. t \in ToSet(req.plan) /\ IsWrite(t)
      /\ \A u \in ToSet(req.plan) : IsWrite(u) => u = t
  BY DEF Only, ToSet
<1>2. Wanted(t.fields) /\ DOMAIN t.fields \subseteq Fields
  BY <1>1, RequestsAssumption
<1>3. /\ t.action # "delete" /\ SingleDay(t.when) # "" => Leaves(t, "date", SingleDay(t.when))
      /\ t.action = "update" /\ req.given.type \in DOMAIN GoalAction =>
           /\ req.given.type = "calendar_update"
           /\ FaithfulContract(req.given.expected, t, req.plan)
  BY <1>1 DEF Honest, Faithful
<1> QED BY <1>1, <1>2, <1>3 DEF Sane

LEMMA InitTrue == Init => DoneInv
BY DEF Init, DoneInv, Recorded, Whole, Aimed, MadeMeansCompleted, Assessed

\* Validation aims the check at the request's only write.
LEMMA ValidateTrue ==
  ASSUME Honest, TypeInv, DoneInv, Validate
  PROVE  DoneInv'
<1>1. /\ stage = "validate" /\ stage' = "run"
      /\ goal' = Resolved(Contract(request.given, request.plan))
      /\ request' = request /\ made' = made
  BY DEF Validate
<1>2. Recorded'  BY <1>1 DEF DoneInv, Recorded
<1>3. Whole'
  <2>1. PICK gone \in SUBSET ToSet(request.plan) :
          /\ plan' \in {request.plan, Others(request.plan, gone)}
          /\ gone = refused' \cup unclear'
    BY DEF Validate
  <2>2. \A t \in ToSet(request.plan) : t \in gone \/ t \in ToSet(Others(request.plan, gone))
    BY DEF ToSet, Others, Restrict
  <2> QED BY <1>1, <2>1, <2>2 DEF Whole
<1>4. Aimed'
  <2> SUFFICES ASSUME NEW t, Only(request.plan, t) PROVE Suits(goal', t)
    BY <1>1 DEF Aimed
  <2>1. request \in Requests  BY DEF TypeInv, Planned
  <2>2. PartOf(request.plan, request.plan)  BY DEF PartOf
  <2>3. IsGoal(request.given) /\ Readable(request.plan)
    BY <2>1, <2>2, PartTasks, RequestsAssumption
  <2>4. Sane(t)  BY <2>1, OnlySane
  <2>5. ASSUME t.action = "update", request.given.type \in DOMAIN GoalAction
        PROVE  /\ request.given.type = "calendar_update"
               /\ Fits(Sanitised(request.given.expected, request.plan), t)
    <3>1. /\ request.given.type = "calendar_update"
          /\ FaithfulContract(request.given.expected, t, request.plan)
      BY <2>1, <2>5, OnlySane
    <3>2. \A i \in CalendarTasks(request.plan, "update") : request.plan[i] = t
      BY WritesAre DEF CalendarTasks, Only, IsWrite
    <3>3. Wanted(request.given.expected)  BY <2>3 DEF IsGoal
    <3> QED BY <3>1, <3>2, <3>3, FaithfulFits
  <2> DEFINE c == Contract(request.given, request.plan)
  <2>6. Suits(c, t)  BY <2>3, <2>4, <2>5, ContractSuits
  <2>7. IsGoal(c)  BY <2>3, ContractIsGoal
  <2> HIDE DEF c
  <2>8. Suits(Resolved(c), t)  BY <2>6, <2>7, ResolvedFits
  <2> QED BY <1>1, <2>8 DEF c
<1>5. MadeMeansCompleted'  BY <1>1 DEF MadeMeansCompleted, Assessed
<1> QED BY <1>2, <1>3, <1>4, <1>5 DEF DoneInv

\* What a step of the run may do.
LEMMA RunTrue ==
  ASSUME DoneInv, stage = "run", stage' \in {"run", "assess"},
         UNCHANGED <<planned, verdict>>, Recorded'
  PROVE  DoneInv'
<1>1. Whole' /\ Aimed'  BY DEF DoneInv, Whole, Aimed, planned, verdict
<1>2. MadeMeansCompleted'  BY DEF MadeMeansCompleted, Assessed
<1> QED BY <1>1, <1>2 DEF DoneInv

\* More rows, of the same plan, record what was recorded.
LEMMA MoreRows ==
  ASSUME Recorded, stage = "run", stage' # "validate", plan' = plan,
         NEW t, NEW row, \E S : results \in Seq(S), Settle(t, row)
  PROVE  /\ ToSet(results') = ToSet(results) \cup {row}
         /\ made' = made => Recorded'
<1>1. PICK S : results \in Seq(S)  OBVIOUS
<1>2. ToSet(results') = ToSet(results) \cup {row}  BY <1>1, Appended DEF Settle
<1> QED BY <1>2 DEF Recorded

LEMMA CallToolTrue ==
  ASSUME TypeInv, DoneInv, NEW t \in queue, CallTool(t)
  PROVE  DoneInv'
<1>1. /\ stage = "run" /\ stage' \in {"run", "assess"} /\ plan' = plan
      /\ UNCHANGED <<planned, verdict>>
      /\ t \in ToSet(plan)
  BY DEF CallTool, ToolSucceeds, ToolFails, ToolDenied, RunEnds, planned, TypeInv, Settled
<1>2. Recorded /\ \E S : results \in Seq(S)  BY DEF DoneInv, TypeInv, Settled
<1>3. CASE made' = made
  <2>1. PICK status, result : Settle(t, Row(t, status, result, "none"))
    BY DEF CallTool, ToolSucceeds, ToolFails, ToolDenied
  <2>2. Recorded'  BY <1>1, <1>2, <1>3, <2>1, MoreRows
  <2> QED BY <1>1, <2>2, RunTrue
<1>4. CASE made' # made
  <2>1. /\ IsWrite(t) /\ made' = made \cup {[action |-> t.action, event |-> After(t)]}
        /\ last' = [wrote |-> DoneStatus[t.action], event |-> After(t),
                    known |-> TRUE, found |-> 0]
        /\ Settle(t, Row(t, "ok", last', "none"))
    BY <1>4 DEF CallTool, ToolSucceeds, ToolFails, ToolDenied
  <2> DEFINE row == Row(t, "ok", last', "none")
  <2>2. /\ row.tool = t.tool /\ row.action = t.action
        /\ row.wrote = DoneStatus[t.action] /\ row.known /\ row.event = After(t)
    BY <2>1 DEF Row
  <2> HIDE DEF row
  <2>3. t.tool = Calendar  BY <2>1 DEF IsWrite
  <2>4. ToSet(results') = ToSet(results) \cup {row}
    BY <1>1, <1>2, <2>1, MoreRows DEF row
  <2>5. ASSUME NEW w \in made'
        PROVE  \E u \in ToSet(plan'), r \in ToSet(results') :
                 /\ IsWrite(u) /\ w.action = u.action /\ r.tool = Calendar /\ r.action = u.action
                 /\ r.wrote = DoneStatus[u.action] /\ r.known /\ r.event = After(u)
    <3>1. CASE w \in made  BY <1>1, <1>2, <2>4, <3>1 DEF Recorded
    <3>2. CASE w = [action |-> t.action, event |-> After(t)]
      <4>1. w.action = t.action  BY <3>2
      <4> QED BY <1>1, <2>1, <2>2, <2>3, <2>4, <4>1
    <3> QED BY <2>1, <3>1, <3>2
  <2>6. Recorded'  BY <1>1, <2>5 DEF Recorded
  <2> QED BY <1>1, <2>6, RunTrue
<1> QED BY <1>3, <1>4

LEMMA WithholdWriteTrue ==
  ASSUME TypeInv, DoneInv, NEW t \in queue, WithholdWrite(t)
  PROVE  DoneInv'
<1>1. /\ stage = "run" /\ stage' \in {"run", "assess"} /\ plan' = plan
      /\ UNCHANGED <<planned, verdict>> /\ made' = made
      /\ \E row : Settle(t, row)
  BY DEF WithholdWrite, Withheld, RunEnds, planned
<1>2. Recorded'  BY <1>1, MoreRows DEF DoneInv, TypeInv, Settled
<1> QED BY <1>1, <1>2, RunTrue

LEMMA SearchRagTrue ==
  ASSUME TypeInv, DoneInv, NEW t \in queue, SearchRag(t)
  PROVE  DoneInv'
<1>1. /\ stage = "run" /\ stage' = "run" /\ plan' = plan
      /\ UNCHANGED <<planned, verdict>> /\ made' = made
      /\ \E row : Settle(t, row)
  BY DEF SearchRag, planned
<1>2. Recorded'  BY <1>1, MoreRows DEF DoneInv, TypeInv, Settled
<1> QED BY <1>1, <1>2, RunTrue

LEMMA RunEndsTrue ==
  ASSUME DoneInv, StopRun \/ RunDone
  PROVE  DoneInv'
<1>1. /\ stage = "run" /\ stage' = "assess" /\ UNCHANGED <<planned, facts, verdict>>
  BY DEF StopRun, RunDone, RunEnds
<1>2. Recorded'  BY <1>1 DEF DoneInv, Recorded, planned, facts
<1> QED BY <1>1, <1>2, RunTrue

\* The writes of a request are finitely many.
LEMMA WritesFinite ==
  ASSUME NEW req \in Requests, NEW S \in SUBSET ToSet(req.plan)
  PROVE  IsFiniteSet(S)
<1> DEFINE n == Len(req.plan)
<1>1. req.plan \in Seq(ToSet(req.plan))  BY RequestsAssumption
<1>2. n \in Nat /\ req.plan \in [1 .. n -> ToSet(req.plan)] /\ DOMAIN req.plan = 1 .. n
  BY <1>1
<1>3. req.plan \in Surjection(1 .. n, ToSet(req.plan))
  BY <1>2 DEF Surjection, ToSet
<1>4. IsFiniteSet(1 .. n)
  <2> HIDE DEF n
  <2>1. 1 \in Int /\ n \in Int  BY <1>2
  <2> QED BY <2>1, FS_Interval
<1>5. IsFiniteSet(ToSet(req.plan))  BY <1>3, <1>4, FS_Surjection
<1> QED BY <1>5, FS_Subset

\* What fits the write matches what it left.
LEMMA FitsMatches ==
  ASSUME NEW e, NEW t, Fits(e, t)
  PROVE  Matches(e, After(t))
BY DEF Fits, Achieved, Leaves, Matches

\* A matching row of its own action completes a calendar goal.
LEMMA RowCompletes ==
  ASSUME NEW g, g.type \in DOMAIN GoalAction, NEW rows, NEW r \in ToSet(rows),
         r.tool = Calendar, r.action = GoalAction[g.type], Wrote(r),
         Matches(g.expected, r.event)
  PROVE  Check(g, rows).status = "completed"
<1> DEFINE act == GoalAction[g.type]
           calls == {x \in ToSet(rows) : x.tool = Calendar /\ x.action = act}
           good == {x \in calls : Wrote(x)}
<1>1. Check(g, rows) = JudgeCalendar(g, act, rows)
  BY GoalActions DEF Check
<1>2. r \in calls /\ r \in good  OBVIOUS
<1>3. JudgeCalendar(g, act, rows) = JudgeWrites(g, calls)
  <2> DEFINE queries == Calls(rows, "query")
  <2> HIDE DEF queries
  <2>1. JudgeCalendar(g, act, rows) =
          CASE calls # {} -> JudgeWrites(g, calls)
            [] calls = {} /\ act # "create" /\ queries # <<>> ->
                 JudgeQuery(g, Last(queries))
            [] calls = {} /\ (act = "create" \/ queries = <<>>) ->
                 Verdict(g, "incomplete", "no_result")
    BY DEF JudgeCalendar, queries
  <2> HIDE DEF calls, act
  <2> QED BY <1>2, <2>1
<1>4. JudgeWrites(g, calls) =
        CASE good = {} -> Verdict(g, "failed", "write_failed")
          [] \E x \in good : Matches(g.expected, x.event) ->
               Verdict(g, "completed", "fields_match")
          [] good # {} /\ ~\E x \in good : Matches(g.expected, x.event) ->
               Verdict(g, "failed", "field_mismatch")
  BY DEF JudgeWrites
<1> HIDE DEF good, calls, act
<1>5. JudgeWrites(g, calls) = Verdict(g, "completed", "fields_match")
  BY <1>2, <1>4
<1> QED BY <1>1, <1>3, <1>5 DEF Verdict

\* The completion check counts the only write as completed, when it was made.
LEMMA AssessTrue ==
  ASSUME Honest, TypeInv, DoneInv, Assess
  PROVE  DoneInv'
<1> DEFINE c == Contract(goal, plan)
           g == Resolved(c)
<1>1. /\ stage = "assess" /\ stage' = "compose" /\ UNCHANGED <<planned, facts>>
      /\ IF g.type = "" THEN UNCHANGED verdict
         ELSE goal' = g /\ check' = Check(g, results)
  BY DEF Assess
<1> HIDE DEF g
<1>2. Recorded' /\ Whole' /\ Aimed'
  BY <1>1 DEF DoneInv, Recorded, Whole, Aimed, planned, facts
<1>3. request \in Requests /\ PartOf(plan, request.plan) /\ IsGoal(goal) /\ Readable(plan)
      /\ ToSet(plan) \cup refused \cup unclear \subseteq ToSet(request.plan)
  BY PartTasks DEF TypeInv, Planned, Judged
<1>4. WritesAsked' = WritesAsked /\ made' = made
  BY <1>1 DEF WritesAsked, planned, facts
<1>5. ASSUME goal'.type \in DOMAIN GoalAction, Cardinality(WritesAsked) = 1, made # {}
      PROVE  check'.status = "completed"
  <2>1. PICK t \in ToSet(plan), r \in ToSet(results) :
          /\ IsWrite(t) /\ r.tool = Calendar /\ r.action = t.action
          /\ r.wrote = DoneStatus[t.action] /\ r.known /\ r.event = After(t)
    BY <1>5 DEF DoneInv, Recorded
  <2>2. \A u \in ToSet(request.plan) : IsWrite(u) => u = t
    <3>1. IsFiniteSet(WritesAsked)
      <4>1. WritesAsked \in SUBSET ToSet(request.plan)  BY <1>3 DEF WritesAsked
      <4> QED BY <1>3, <4>1, WritesFinite
    <3>2. PICK x : WritesAsked = {x}  BY <1>5, <3>1, FS_Singleton
    <3>3. t \in WritesAsked  BY <2>1 DEF WritesAsked
    <3>4. \A u \in ToSet(request.plan) : IsWrite(u) => u \in WritesAsked
      BY <1>1 DEF DoneInv, Whole, WritesAsked
    <3> QED BY <3>2, <3>3, <3>4
  <2>3. Only(plan, t)  BY <1>3, <2>1, <2>2 DEF Only, ToSet
  <2>4. Only(request.plan, t)  BY <1>3, <2>1, <2>2 DEF Only, ToSet
  <2>5. Sane(t)  BY <1>3, <2>4, OnlySane
  <2>6. Suits(goal, t)  BY <1>1, <2>4 DEF DoneInv, Aimed
  <2>7. ASSUME t.action = "update", goal.type \in DOMAIN GoalAction
        PROVE  goal.type = "calendar_update" /\ Fits(Sanitised(goal.expected, plan), t)
    <3>1. GoalAction[goal.type] = "update" /\ Fits(goal.expected, t)
      BY <2>6, <2>7 DEF Suits
    <3>2. goal.type = "calendar_update"  BY <2>7, <3>1, GoalsAsk
    <3> QED BY <3>1, <3>2, SanitisedFits
  <2>8. Suits(c, t) /\ (goal.type # "" => c.type # "")
    BY <1>3, <2>3, <2>5, <2>7, ContractSuits
  <2>9. Suits(g, t) /\ g.type = c.type
    <3>1. IsGoal(c)  BY <1>3, ContractIsGoal
    <3> HIDE DEF c
    <3> QED BY <2>8, <3>1, ResolvedFits DEF g
  <2>10. goal' = g /\ check' = Check(g, results)
    <3>1. goal' = goal => goal.type # ""  BY <1>5, GoalsAsk
    <3> QED BY <1>1, <2>8, <2>9, <3>1 DEF verdict
  <2>11. GoalAction[g.type] = t.action /\ Matches(g.expected, r.event)
    BY <1>5, <2>1, <2>9, <2>10, FitsMatches DEF Suits
  <2>12. Wrote(r)  BY <2>1 DEF Wrote, IsWrite
  <2> QED BY <1>5, <2>1, <2>10, <2>11, <2>12, RowCompletes
<1>6. MadeMeansCompleted'  BY <1>4, <1>5 DEF MadeMeansCompleted, Assessed
<1> QED BY <1>2, <1>6 DEF DoneInv

LEMMA LaterTrue ==
  ASSUME DoneInv, stage \notin {"validate", "run", "assess"},
         stage' \notin {"validate", "run", "assess"}, UNCHANGED <<planned, facts, verdict>>
  PROVE  DoneInv'
<1>1. Recorded' /\ Whole' /\ Aimed'
  BY DEF DoneInv, Recorded, Whole, Aimed, planned, facts, verdict
<1>2. WritesAsked' = WritesAsked  BY DEF WritesAsked, planned
<1>3. MadeMeansCompleted'
  BY <1>2 DEF DoneInv, MadeMeansCompleted, Assessed, facts, verdict
<1> QED BY <1>1, <1>3 DEF DoneInv

LEMMA NextTrue ==
  ASSUME Honest, TypeInv, DoneInv, [Next]_vars
  PROVE  DoneInv'
<1>1. CASE UNCHANGED vars
  <2>1. stage' = stage /\ UNCHANGED <<planned, facts, verdict>>  BY <1>1 DEF vars
  <2>2. Recorded' /\ Whole' /\ Aimed'
    BY <2>1 DEF DoneInv, Recorded, Whole, Aimed, planned, facts, verdict
  <2>3. WritesAsked' = WritesAsked  BY <2>1 DEF WritesAsked, planned
  <2>4. MadeMeansCompleted'
    BY <2>1, <2>3 DEF DoneInv, MadeMeansCompleted, Assessed, facts, verdict
  <2> QED BY <2>2, <2>4 DEF DoneInv
<1>2. CASE Compose \/ Write \/ Guard
  <2>1. /\ stage \notin {"validate", "run", "assess"}
        /\ stage' \notin {"validate", "run", "assess"}
        /\ UNCHANGED <<planned, facts, verdict>>
    BY <1>2 DEF Compose, Write, Guard
  <2> QED BY <2>1, LaterTrue
<1>3. CASE Next /\ ~(Compose \/ Write \/ Guard)
  BY <1>3, ValidateTrue, CallToolTrue, WithholdWriteTrue, SearchRagTrue, RunEndsTrue,
     AssessTrue DEF Next
<1> QED BY <1>1, <1>2, <1>3

\* The check and the calendar agree, both ways: a completed calendar goal has a
\* write with what its contract expects behind it, and the only write of a request
\* with a faithful contract counts as completed once it was made, although the
\* contract repeats what the plan's query asked for (completion.py:358, :471).
THEOREM CompletionIsTruthful ==
  ASSUME \A r \in Requests : Faithful(r)
  PROVE  Spec => []CompletionTruthful
<1>1. Honest  BY DEF Honest
<1>2. Init => DoneInv  BY InitTrue
<1>3. TypeInv /\ DoneInv /\ [Next]_vars => DoneInv'  BY <1>1, NextTrue
<1>4. Spec => []DoneInv  BY <1>2, <1>3, TypedAlways, PTL DEF Spec
<1>5. Inv /\ DoneInv => CompletionTruthful
  BY DEF Inv, CheckInv, DoneInv, CompletionTruthful
<1> QED BY <1>4, <1>5, InvAlways, PTL

=============================================================================
