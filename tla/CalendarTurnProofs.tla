------------------------- MODULE CalendarTurnProofs -------------------------
(***************************************************************************)
(* Part one: the safety properties of ReActExecutor for every plan, every  *)
(* behaviour of the language model and every tool callback that keeps to   *)
(* LegalReply.  The run with any such callback is LegalSpec; Spec, which   *)
(* draws its replies from a given set, is a case of it.                    *)
(*                                                                         *)
(* Part two: the callback of CalendarTurn keeps to LegalReply, so a        *)
(* calendar turn implements LegalSpec and has all properties of part one;  *)
(* and the properties of its writes, for every plan, table, selector,      *)
(* previous context and behaviour of the other users.                      *)
(***************************************************************************)
EXTENDS CalendarTurn, FiniteSetTheorems, SequenceTheorems, WellFoundedInduction,
        TLAPS

-----------------------------------------------------------------------------
(* The run with any callback that keeps the contract.                      *)

LegalCall ==
  /\ Deciding
  /\ \E a \in Accepted :
       /\ a.name = "call_tool"
       /\ \E r : LegalReply(TaskNamed(a.id), r) /\ CallToolAnswered(a, r)

LegalNext ==
  \/ NothingRemains
  \/ GuardrailBlocks
  \/ Finish
  \/ AskClarification
  \/ ReuseDuplicateQuery
  \/ DuplicateBlocked
  \/ LegalCall
  \/ SearchRag
  \/ SearchRagBatch

LegalSpec == Init /\ [][LegalNext]_vars

LEMMA NextIsLegal == ASSUME [Next]_vars PROVE [LegalNext]_vars
<1>1. CallTool => LegalCall
  BY DEF CallTool, LegalCall
<1> QED BY <1>1 DEF Next, LegalNext

\* A run with given replies is a run with a legal callback.
LEMMA SpecIsLegal == Spec => LegalSpec
<1>1. [Next]_vars => [LegalNext]_vars
  BY NextIsLegal
<1> QED BY <1>1, PTL DEF Spec, LegalSpec

-----------------------------------------------------------------------------
(* The inductive invariant.                                                *)

\* Every task of s comes from a task of plan p, with its kind and dependencies.
LineageOf(s, p) ==
  \A i \in DOMAIN s : \E j \in DOMAIN p :
    /\ p[j].id = Root(s[i].id)
    /\ p[j].kind = s[i].kind
    /\ p[j].deps = s[i].deps

\* No executable task of plan p is lost: it is settled or still in s.
CoverageOf(p, s, done) ==
  \A j \in DOMAIN p :
    p[j].kind \in {"tool", "rag"} => p[j].id \in done \cup Ids(s)

Lineage  == LineageOf(queue, approved) /\ LineageOf(plan, approved)
Coverage == CoverageOf(approved, Tasks, completed)

\* In a run that goes on, whatever was handed out is settled.
Settled ==
  \A id \in TaskIds : result = "running" /\ runs[id] > 0 => id \in completed

\* Empty evidence is remembered in `overall`, and a run that has called
\* something and reused nothing goes on only while executable work is left.
Degraded == (\E id \in TaskIds : outcome[id] \in Degrading) => overall # "success"
WorkLeft ==
  result = "running" /\ reused = {} /\ (\E id \in TaskIds : outcome[id] # "none")
    => LeftToExecute(Tasks, completed) # {}

-----------------------------------------------------------------------------
(* Facts about the operators.                                              *)

Below == {p \in Nat \X Nat : p[1] < p[2]}

LEMMA BelowWF == IsWellFoundedOn(Below, Nat)
  BY NatLessThanWellFounded, Zenon DEF Below, OpToRel

LEMMA Least ==
  ASSUME NEW S, S \subseteq Nat, S # {}
  PROVE  \E i \in S : \A j \in S : i <= j
<1>1. PICK i \in S : \A j \in S : ~(<<j, i>> \in Below)
  BY BelowWF, WFMin
<1>2. ASSUME NEW j \in S PROVE i <= j
  <2>1. i \in Nat /\ j \in Nat  OBVIOUS
  <2>2. ~(<<j, i>> \in Below)  BY <1>1
  <2>3. ~(j < i)  BY <2>1, <2>2 DEF Below
  <2> QED  BY <2>1, <2>3
<1> QED BY <1>2

LEMMA TasksTyped == TypeOK => Tasks \in Seq(Task)
  BY DEF TypeOK, Tasks, TasksOf

LEMMA IdsTyped ==
  ASSUME NEW s \in Seq(Task)
  PROVE  Ids(s) \subseteq TaskIds
<1>1. ASSUME NEW i \in DOMAIN s PROVE s[i].id \in TaskIds
  <2>1. s[i] \in Task  OBVIOUS
  <2> QED BY <2>1 DEF Task
<1> QED BY <1>1, Zenon DEF Ids

LEMMA LeftIndices ==
  ASSUME NEW s \in Seq(Task), NEW done
  PROVE  Left(s, done) \subseteq Nat /\ Left(s, done) \subseteq DOMAIN s
  BY DEF Left

\* The first task left is a task left.
LEMMA FirstTyped ==
  ASSUME TypeOK, Left(Tasks, completed) # {}
  PROVE  First \in Task
<1>1. Tasks \in Seq(Task)  BY TasksTyped
<1>2. /\ Left(Tasks, completed) \subseteq Nat
      /\ Left(Tasks, completed) \subseteq DOMAIN Tasks
  BY <1>1, LeftIndices
<1>3. \E i \in Left(Tasks, completed) :
        \A j \in Left(Tasks, completed) : i <= j
  BY <1>2, Least
<1>4. PICK i \in DOMAIN Tasks : First = Tasks[i]
  BY <1>2, <1>3 DEF First
<1> QED BY <1>1, <1>4

LEMMA NamedTask ==
  ASSUME NEW id \in Ids(Tasks)
  PROVE  \E i \in DOMAIN Tasks : TaskNamed(id) = Tasks[i] /\ Tasks[i].id = id
<1>1. \E i \in DOMAIN Tasks : Tasks[i].id = id  BY DEF Ids
<1> QED BY <1>1 DEF TaskNamed

\* A fallback action, and every proposal, is well formed.
LEMMA FallbackTyped ==
  ASSUME NEW t \in Task
  PROVE  Fallback(t) \in Proposal
<1>1. /\ t.id \in TaskIds /\ t.tool \in Tools /\ t.input \in ToolInput
      /\ t.kind \in Kinds
  BY DEF Task
<1> QED BY <1>1, ToolsAssumption DEF Fallback, Proposal, Names, Kinds

\* The first task the executor batches is a task of the run.
LEMMA BatchTyped ==
  ASSUME TypeOK, Batched
  PROVE  /\ Tasks[CHOOSE i \in RagBatch : \A j \in RagBatch : i <= j] \in Task
         /\ {AsMember(Tasks[i]) : i \in RagBatch} \subseteq Member
<1>1. Tasks \in Seq(Task)  BY TasksTyped
<1>2. RagBatch \subseteq Nat /\ RagBatch \subseteq DOMAIN Tasks
  BY <1>1, LeftIndices DEF RagBatch
<1>3. RagBatch # {}  BY DEF Batched
<1>4. \E i \in RagBatch : \A j \in RagBatch : i <= j  BY <1>2, <1>3, Least
<1>5. \A i \in RagBatch : Tasks[i] \in Task  BY <1>1, <1>2
<1>6. \A t \in Task : AsMember(t) \in Member  BY DEF AsMember, Member, Task
<1> QED BY <1>4, <1>5, <1>6

LEMMA ProposalTyped ==
  ASSUME TypeOK, Deciding, NEW a \in Proposals
  PROVE  a \in Proposal
<1>1. First \in Task  BY FirstTyped DEF Deciding
<1>2. CASE Batched
  <2> DEFINE t   == Tasks[CHOOSE i \in RagBatch : \A j \in RagBatch : i <= j]
             ms  == {AsMember(Tasks[i]) : i \in RagBatch}
  <2>1. t \in Task /\ ms \subseteq Member  BY <1>2, BatchTyped
  <2>2. Fallback(t) \in Proposal  BY <2>1, FallbackTyped
  <2>3. Direct = {[Fallback(t) EXCEPT !.batch = ms]}  BY <1>2 DEF Direct
  <2>4. a = [Fallback(t) EXCEPT !.batch = ms]  BY <2>3 DEF Proposals
  <2> HIDE DEF t, ms
  <2> QED BY <2>1, <2>2, <2>4 DEF Proposal
<1>3. CASE ~Batched /\ CanRunDirectly(First)
  <2>1. Direct = {Fallback(First)}  BY <1>3 DEF Direct
  <2>2. a = Fallback(First)  BY <2>1 DEF Proposals
  <2> QED BY <1>1, <2>2, FallbackTyped
<1>4. CASE ~Batched /\ ~CanRunDirectly(First)
  <2>1. Direct = {}  BY <1>4 DEF Direct
  <2>2. PICK reply \in LLMReplies : a = Coerce(reply)
    BY <2>1 DEF Proposals
  <2>3. reply \in [name : Names \cup {"malformed"}, id : TaskIds \cup {NoId},
                   tool : Tools, input : ToolInput \cup {NoInput},
                   batch : SUBSET Member]
    BY RepliesAssumption
  <2>4. CASE reply.name \notin Names
    BY <1>1, <2>2, <2>4, FallbackTyped DEF Coerce
  <2>5. CASE reply.name \in Names
    <3>1. First.id \in TaskIds  BY <1>1 DEF Task
    <3>2. a = [name |-> reply.name,
               id |-> IF reply.id = NoId THEN First.id ELSE reply.id,
               tool |-> reply.tool, input |-> reply.input,
               batch |-> reply.batch]
      BY <2>2, <2>5 DEF Coerce
    <3> QED BY <2>3, <2>5, <3>1, <3>2 DEF Proposal
  <2> QED BY <2>4, <2>5
<1> QED BY <1>2, <1>3, <1>4

-----------------------------------------------------------------------------
(* What an accepted call hands to its callback.                            *)

\* Task id is of the run and unsettled.
Open(id) == id \in TaskIds \ completed /\ id \in Ids(Tasks)

\* It is executable, too, and waits for nothing.
Workable(id) ==
  /\ id \in TaskIds \ completed
  /\ \E i \in DOMAIN Tasks :
       /\ Tasks[i].id = id
       /\ Tasks[i].kind \in {"tool", "rag"}
       /\ Tasks[i].deps \subseteq completed

LEMMA AcceptedTyped ==
  ASSUME TypeOK, Deciding, NEW a \in Accepted
  PROVE  a \in Proposal /\ InScope(a)
  BY ProposalTyped DEF Accepted

LEMMA CallIsWorkable ==
  ASSUME TypeOK, Deciding, NEW a \in Accepted, IsCall(a)
  PROVE  /\ Workable(a.id)
         /\ TaskNamed(a.id) \in Task
         /\ TaskNamed(a.id).id = a.id
<1>1. a \in Proposal /\ InScope(a)  BY AcceptedTyped
<1>2. NamesWork(a) /\ Ready(a) /\ OfKind(a)  BY <1>1 DEF InScope
<1>3. PICK i \in DOMAIN Tasks : TaskNamed(a.id) = Tasks[i] /\ Tasks[i].id = a.id
  BY <1>2, NamedTask DEF NamesWork
<1>4. Tasks[i].deps \subseteq completed  BY <1>2, <1>3 DEF Ready
<1>5. Tasks[i].kind \in {"tool", "rag"}  BY <1>2, <1>3 DEF OfKind, IsCall
<1>6. a.id \in TaskIds \ completed  BY <1>1, <1>2 DEF Proposal, NamesWork
<1>7. Tasks[i] \in Task  BY TasksTyped
<1> QED BY <1>3, <1>4, <1>5, <1>6, <1>7 DEF Workable

LEMMA WorkableIsOpen ==
  ASSUME NEW id, Workable(id)
  PROVE  Open(id)
  BY DEF Workable, Open, Ids

\* Of a batch the check secures that its members are unsettled tasks of the run;
\* the executor's own batch is workable, too.
LEMMA BatchIsOpen ==
  ASSUME TypeOK, Deciding, NEW a \in Accepted, IsCall(a),
         NEW id \in Named(Pending(a))
  PROVE  /\ Open(id)
         /\ Direct # {} =>
              /\ Workable(id)
              /\ \E i \in DOMAIN Tasks : Tasks[i].id = id /\ Tasks[i].kind = "rag"
<1>1. a \in Proposal /\ InScope(a) /\ a \in Proposals
  BY AcceptedTyped DEF Accepted
<1>2. PICK m \in a.batch : m.id = id  BY DEF Named, Pending
<1>3. BatchInScope(a)  BY <1>1 DEF InScope
<1>4. m.id \in TaskIds  BY <1>1, <1>2 DEF Proposal, Member
<1>5. ASSUME Direct # {}
      PROVE  /\ Workable(id)
             /\ \E i \in DOMAIN Tasks : Tasks[i].id = id /\ Tasks[i].kind = "rag"
  <2>1. a \in Direct  BY <1>1, <1>5 DEF Proposals
  <2>2. CASE Batched
    <3> DEFINE t == Tasks[CHOOSE i \in RagBatch : \A j \in RagBatch : i <= j]
    <3>1. a = [Fallback(t) EXCEPT !.batch = {AsMember(Tasks[i]) : i \in RagBatch}]
      BY <2>1, <2>2 DEF Direct
    <3>2. Fallback(t) \in Proposal  BY <2>2, BatchTyped, FallbackTyped
    <3> HIDE DEF t
    <3>3. a.batch = {AsMember(Tasks[i]) : i \in RagBatch}
      BY <3>1, <3>2 DEF Proposal
    <3>4. PICK i \in RagBatch : m = AsMember(Tasks[i])  BY <1>2, <3>3
    <3>5. Tasks[i].id = id  BY <1>2, <3>4 DEF AsMember
    <3>6. /\ i \in DOMAIN Tasks /\ id \notin completed
          /\ Tasks[i].kind = "rag" /\ Tasks[i].deps \subseteq completed
      BY <3>5 DEF RagBatch, Left, CanRunDirectly
    <3> QED BY <1>2, <1>4, <3>5, <3>6 DEF Workable
  <2>3. CASE ~Batched
    <3>1. a = Fallback(First)  BY <2>1, <2>3 DEF Direct
    <3>2. a.batch = {}  BY <3>1 DEF Fallback
    <3> QED BY <1>2, <3>2
  <2> QED BY <2>2, <2>3
<1> QED BY <1>2, <1>3, <1>4, <1>5 DEF Open, BatchInScope

-----------------------------------------------------------------------------
(* Type correctness.                                                       *)

Signatures == [name : Names, tool : Tools,
               input : ToolInput \cup {NoInput}, batch : SUBSET TaskIds]

LEMMA SignatureTyped ==
  ASSUME NEW a \in Proposal, NEW t \in Task
  PROVE  Signature(a, t) \in Signatures
<1>1. /\ a.name \in Names /\ a.tool \in Tools
      /\ a.input \in ToolInput \cup {NoInput}
      /\ {m.id : m \in a.batch} \in SUBSET TaskIds
  BY DEF Proposal, Member
<1>2. t.tool \in Tools /\ t.input \in ToolInput  BY DEF Task
<1>3. ToolOf(a, t) \in Tools  BY <1>1, <1>2 DEF ToolOf
<1>4. InputOf(a, t) \in ToolInput \cup {NoInput}  BY <1>1, <1>2 DEF InputOf
<1> QED BY <1>1, <1>3, <1>4, ToolsAssumption DEF Signature, Signatures

LEMMA MergeTyped ==
  ASSUME NEW current \in Results \ {"running"}, NEW status
  PROVE  MergeStatus(current, status) \in Results \ {"running"}
  BY DEF MergeStatus, Results, Terminal

LEMMA RespondTyped ==
  ASSUME TypeOK, NEW status, NEW done, NEW newOverall \in Results \ {"running"},
         Respond(status, done, newOverall)
  PROVE  /\ completed' = done
         /\ overall' \in Results \ {"running"}
         /\ result' \in Results
         /\ step' \in 1 .. MaxSteps
<1>1. MaxSteps \in Nat  BY StepsAssumption
<1>2. overall' = newOverall /\ completed' = done  BY DEF Respond
<1>3. result' \in Results  BY DEF Respond, Results
<1>4. result' = "running" => step # MaxSteps
  BY DEF Respond, Results, Terminal
<1>5. step' \in 1 .. MaxSteps  BY <1>1, <1>4 DEF Respond, TypeOK
<1> QED BY <1>2, <1>3, <1>5

\* The actions that end the run and change nothing else.
Stops ==
  /\ result = "running"
  /\ result' \in Results \ {"running"}
  /\ UNCHANGED <<approved, executable, queue, plan, completed, seen, overall,
                 step, runs, outcome, reused, gathered>>

LEMMA StopsTyped ==
  ASSUME TypeOK,
         NothingRemains \/ GuardrailBlocks \/ Finish \/ AskClarification
           \/ DuplicateBlocked
  PROVE  Stops
  BY DEF TypeOK, NothingRemains, GuardrailBlocks, Finish, AskClarification,
         DuplicateBlocked, Stop, Running, Deciding, Stops, Results, Terminal

LEMMA TypeInit == Init => TypeOK
<1> SUFFICES ASSUME Init PROVE TypeOK
  OBVIOUS
<1>1. approved \in Plans /\ approved \in Seq(Task)
  BY PlansAssumption DEF Init
<1>2. Ids(approved) \subseteq TaskIds  BY <1>1, IdsTyped
<1>3. step \in 1 .. MaxSteps  BY StepsAssumption DEF Init
<1> QED BY <1>1, <1>2, <1>3 DEF Init, TypeOK, Results, Terminal, Outcomes

LEMMA TypeStep == TypeOK /\ [LegalNext]_vars => TypeOK'
<1> SUFFICES ASSUME TypeOK, [LegalNext]_vars PROVE TypeOK'
  OBVIOUS
<1>1. CASE NothingRemains \/ GuardrailBlocks \/ Finish \/ AskClarification
             \/ DuplicateBlocked
  BY <1>1, StopsTyped DEF Stops, TypeOK
<1>2. CASE ReuseDuplicateQuery
  <2>1. PICK a \in Accepted :
          /\ IsCall(a)
          /\ completed' = completed \cup {a.id}
          /\ reused' = reused \cup {a.id}
    BY <1>2 DEF ReuseDuplicateQuery
  <2>2. a.id \in TaskIds
    BY <1>2, <2>1, CallIsWorkable DEF ReuseDuplicateQuery, Workable
  <2>3. result' \in Results  BY <1>2 DEF ReuseDuplicateQuery, Results
  <2>4. step' \in 1 .. MaxSteps
    BY <1>2, StepsAssumption DEF ReuseDuplicateQuery, TypeOK
  <2> QED BY <1>2, <2>1, <2>2, <2>3, <2>4 DEF ReuseDuplicateQuery, TypeOK
<1>3. CASE LegalCall
  <2>1. PICK a \in Accepted : \E r :
          /\ LegalReply(TaskNamed(a.id), r)
          /\ CallToolAnswered(a, r)
    BY <1>3 DEF LegalCall
  <2>2. PICK r : LegalReply(TaskNamed(a.id), r) /\ CallToolAnswered(a, r)
    BY <2>1
  <2>3. IsCall(a) /\ Deciding
    BY <1>3, <2>2 DEF CallToolAnswered, IsCall, LegalCall
  <2>4. a \in Proposal /\ a.id \in TaskIds /\ TaskNamed(a.id) \in Task
    BY <2>3, AcceptedTyped, CallIsWorkable DEF Workable
  <2>5. queue' \in Seq(Task) /\ plan' \in Seq(Task)
    BY <2>2 DEF CallToolAnswered, LegalReply, TypeOK
  <2>6. r.done \subseteq TaskIds
    <3>1. Ids(Tasks) \subseteq TaskIds  BY TasksTyped, IdsTyped
    <3> QED BY <2>2, <3>1 DEF LegalReply
  <2>7. MergeStatus(overall, r.status) \in Results \ {"running"}
    BY MergeTyped DEF TypeOK
  <2>8. /\ completed' = completed \cup r.done \cup
                          (IF r.status \in Completing THEN {a.id} ELSE {})
        /\ overall' \in Results \ {"running"} /\ result' \in Results
        /\ step' \in 1 .. MaxSteps
    BY <2>2, <2>7, RespondTyped DEF CallToolAnswered
  <2>9. completed' \subseteq TaskIds  BY <2>4, <2>6, <2>8 DEF TypeOK
  <2>10. seen' \subseteq Signatures
    BY <2>2, <2>4, SignatureTyped
    DEF CallToolAnswered, Remember, TypeOK, Signatures
  <2>11. runs' \in [TaskIds -> Nat] /\ outcome' \in [TaskIds -> Outcomes]
    BY <2>2, <2>4 DEF CallToolAnswered, LegalReply, TypeOK, Outcomes
  <2>12. UNCHANGED <<approved, executable, reused, gathered>>
    BY <2>2 DEF CallToolAnswered
  <2> QED BY <2>5, <2>8, <2>9, <2>10, <2>11, <2>12 DEF TypeOK, Signatures
<1>4. CASE SearchRag
  <2>1. PICK a \in Accepted, status \in RagStatus \cup {"blocked"} :
          /\ a.name = "search_rag" /\ Remember(a)
          /\ UNCHANGED <<queue, plan>>
          /\ Respond(status,
                     completed \cup
                       (IF status \in Completing THEN {a.id} ELSE {}),
                     MergeStatus(overall, status))
          /\ runs' = [runs EXCEPT ![a.id] = @ + 1]
          /\ outcome' = [outcome EXCEPT ![a.id] = status]
    BY <1>4 DEF SearchRag, RagStatus
  <2>2. a \in Proposal /\ a.id \in TaskIds /\ TaskNamed(a.id) \in Task
    BY <1>4, <2>1, AcceptedTyped, CallIsWorkable
    DEF SearchRag, IsCall, Workable
  <2>3. MergeStatus(overall, status) \in Results \ {"running"}
    BY MergeTyped DEF TypeOK
  <2>4. /\ completed' = completed \cup
                          (IF status \in Completing THEN {a.id} ELSE {})
        /\ overall' \in Results \ {"running"} /\ result' \in Results
        /\ step' \in 1 .. MaxSteps
    BY <2>1, <2>3, RespondTyped
  <2>5. completed' \subseteq TaskIds  BY <2>2, <2>4 DEF TypeOK
  <2>6. seen' \subseteq Signatures
    BY <2>1, <2>2, SignatureTyped DEF Remember, TypeOK, Signatures
  <2>7. runs' \in [TaskIds -> Nat] /\ outcome' \in [TaskIds -> Outcomes]
    BY <2>1, <2>2 DEF TypeOK, Outcomes
  <2> QED BY <1>4, <2>1, <2>4, <2>5, <2>6, <2>7
          DEF SearchRag, TypeOK, Signatures
<1>5. CASE SearchRagBatch
  <2>1. PICK a \in Accepted :
          /\ a.name = "search_rag" /\ Remember(a)
          /\ UNCHANGED <<queue, plan>>
          /\ runs' = [id \in TaskIds |-> IF id \in Named(Pending(a))
                                         THEN runs[id] + 1 ELSE runs[id]]
          /\ gathered' = IF Direct = {} THEN gathered \cup Named(Pending(a))
                                        ELSE gathered
          /\ \/ /\ Respond("blocked", completed, "blocked")
                /\ outcome' = [outcome EXCEPT ![a.id] = "blocked"]
             \/ \E found \in SUBSET Pending(a) :
                  /\ Respond("success", completed \cup Named(Pending(a)),
                             IF found = Pending(a) THEN overall
                             ELSE MergeStatus(overall, "empty"))
                  /\ outcome' = [id \in TaskIds |->
                                   IF id \in Named(found) THEN "success"
                                   ELSE IF id \in Named(Pending(a)) THEN "empty"
                                   ELSE outcome[id]]
    BY <1>5 DEF SearchRagBatch
  <2>2. /\ a \in Proposal /\ a.id \in TaskIds /\ TaskNamed(a.id) \in Task
        /\ Named(Pending(a)) \subseteq TaskIds
    BY <1>5, <2>1, AcceptedTyped, CallIsWorkable, BatchIsOpen
    DEF SearchRagBatch, IsCall, Workable, Open
  <2>3. /\ completed' \subseteq TaskIds
        /\ overall' \in Results \ {"running"} /\ result' \in Results
        /\ step' \in 1 .. MaxSteps
        /\ outcome' \in [TaskIds -> Outcomes]
    <3>1. CASE /\ Respond("blocked", completed, "blocked")
               /\ outcome' = [outcome EXCEPT ![a.id] = "blocked"]
      <4>1. "blocked" \in Results \ {"running"}  BY DEF Results, Terminal
      <4>2. /\ completed' = completed /\ overall' \in Results \ {"running"}
            /\ result' \in Results /\ step' \in 1 .. MaxSteps
        BY <3>1, <4>1, RespondTyped
      <4> QED BY <3>1, <4>2, <2>2 DEF TypeOK, Outcomes
    <3>2. ASSUME NEW found \in SUBSET Pending(a),
                 Respond("success", completed \cup Named(Pending(a)),
                         IF found = Pending(a) THEN overall
                         ELSE MergeStatus(overall, "empty")),
                 outcome' = [id \in TaskIds |->
                               IF id \in Named(found) THEN "success"
                               ELSE IF id \in Named(Pending(a)) THEN "empty"
                               ELSE outcome[id]]
          PROVE  /\ completed' \subseteq TaskIds
                 /\ overall' \in Results \ {"running"} /\ result' \in Results
                 /\ step' \in 1 .. MaxSteps
                 /\ outcome' \in [TaskIds -> Outcomes]
      <4> DEFINE new == IF found = Pending(a) THEN overall
                        ELSE MergeStatus(overall, "empty")
      <4>1. new \in Results \ {"running"}  BY MergeTyped DEF TypeOK
      <4> HIDE DEF new
      <4>2. Respond("success", completed \cup Named(Pending(a)), new)  BY <3>2 DEF new
      <4>3. /\ completed' = completed \cup Named(Pending(a))
            /\ overall' \in Results \ {"running"}
            /\ result' \in Results /\ step' \in 1 .. MaxSteps
        BY <4>1, <4>2, RespondTyped
      <4>4. outcome' \in [TaskIds -> Outcomes]
        BY <3>2 DEF TypeOK, Outcomes, RagStatus
      <4> QED BY <4>3, <4>4, <2>2 DEF TypeOK
    <3> QED BY <2>1, <3>1, <3>2
  <2>4. seen' \subseteq Signatures
    BY <2>1, <2>2, SignatureTyped DEF Remember, TypeOK, Signatures
  <2>5. runs' \in [TaskIds -> Nat] /\ gathered' \subseteq TaskIds
    BY <2>1, <2>2 DEF TypeOK
  <2> QED BY <1>5, <2>1, <2>3, <2>4, <2>5
          DEF SearchRagBatch, TypeOK, Signatures
<1>6. CASE UNCHANGED vars
  BY <1>6 DEF vars, runVars, TypeOK
<1> QED BY <1>1, <1>2, <1>3, <1>4, <1>5, <1>6 DEF LegalNext

\* Every reachable state of a run is well typed.
LEMMA TypeCorrectLegal == LegalSpec => []TypeOK
  BY TypeInit, TypeStep, PTL DEF LegalSpec

-----------------------------------------------------------------------------
(* Each step hands a set of open tasks to their callbacks (none, for the   *)
(* steps that call nothing), which are workable unless the model put them  *)
(* together; and a run that goes on has settled them.                      *)

HandsOut(ids) ==
  /\ \A id \in ids : Open(id) /\ (id \notin gathered' => Workable(id))
  /\ ids \subseteq TaskIds
  /\ gathered \subseteq gathered'
  /\ runs' = [id \in TaskIds |-> IF id \in ids THEN runs[id] + 1 ELSE runs[id]]
  /\ completed \subseteq completed'
  /\ result' = "running" => ids \subseteq completed'
  /\ approved' = approved
  /\ result' = "running" \/ ids # {} => result = "running"

LEMMA HandsOutNothing ==
  ASSUME TypeOK, UNCHANGED <<runs, approved, gathered>>, completed \subseteq completed',
         result' = "running" => result = "running"
  PROVE  HandsOut({})
  BY DEF HandsOut, TypeOK

LEMMA EveryStepHandsOut ==
  ASSUME TypeOK, [LegalNext]_vars
  PROVE  \E ids \in SUBSET TaskIds : HandsOut(ids)
<1>1. CASE NothingRemains \/ GuardrailBlocks \/ Finish \/ AskClarification
             \/ DuplicateBlocked
  <2>1. /\ UNCHANGED <<runs, approved, gathered>> /\ completed \subseteq completed'
        /\ result' = "running" => result = "running"
    BY <1>1, StopsTyped DEF Stops
  <2> QED BY <2>1, HandsOutNothing
<1>2. CASE ReuseDuplicateQuery
  <2>1. /\ UNCHANGED <<runs, approved, gathered>> /\ completed \subseteq completed'
        /\ result' = "running" => result = "running"
    BY <1>2 DEF ReuseDuplicateQuery, Deciding, Running
  <2> QED BY <2>1, HandsOutNothing
<1>3. CASE LegalCall
  <2>1. PICK a \in Accepted : \E r :
          /\ LegalReply(TaskNamed(a.id), r)
          /\ CallToolAnswered(a, r)
    BY <1>3 DEF LegalCall
  <2>2. PICK r : LegalReply(TaskNamed(a.id), r) /\ CallToolAnswered(a, r)
    BY <2>1
  <2>3. IsCall(a) /\ Deciding
    BY <1>3, <2>2 DEF CallToolAnswered, IsCall, LegalCall
  <2>4. Workable(a.id) /\ TaskNamed(a.id).id = a.id
    BY <2>3, CallIsWorkable
  <2>5. /\ completed' = completed \cup r.done \cup
                          (IF r.status \in Completing THEN {a.id} ELSE {})
        /\ result' = "running" => r.status \notin Terminal
    BY <2>2 DEF CallToolAnswered, Respond, Terminal
  <2>6. result' = "running" => a.id \in completed'
    BY <2>2, <2>4, <2>5 DEF LegalReply
  <2>7. runs' = [id \in TaskIds |-> IF id \in {a.id} THEN runs[id] + 1
                                                     ELSE runs[id]]
    BY <2>2, <2>4 DEF CallToolAnswered, TypeOK
  <2>8. result = "running" /\ approved' = approved /\ completed \subseteq completed'
    BY <2>2, <2>3, <2>5 DEF CallToolAnswered, Deciding, Running
  <2>9. a.id \in TaskIds  BY <2>4 DEF Workable
  <2>10. HandsOut({a.id})
    BY <2>2, <2>4, <2>6, <2>7, <2>8, <2>9, WorkableIsOpen
    DEF HandsOut, CallToolAnswered
  <2>11. {a.id} \in SUBSET TaskIds  BY <2>9
  <2> QED BY <2>10, <2>11
<1>4. CASE SearchRag
  <2>1. PICK a \in Accepted, status \in RagStatus \cup {"blocked"} :
          /\ a.name = "search_rag"
          /\ Respond(status,
                     completed \cup
                       (IF status \in Completing THEN {a.id} ELSE {}),
                     MergeStatus(overall, status))
          /\ runs' = [runs EXCEPT ![a.id] = @ + 1]
    BY <1>4 DEF SearchRag, RagStatus
  <2>2. Workable(a.id)
    BY <1>4, <2>1, CallIsWorkable DEF SearchRag, IsCall
  <2>3. /\ completed' = completed \cup
                          (IF status \in Completing THEN {a.id} ELSE {})
        /\ result' = "running" => status # "blocked"
    BY <2>1 DEF Respond, Terminal
  <2>4. result' = "running" => a.id \in completed'
    BY <2>1, <2>3 DEF RagStatus, Completing
  <2>5. runs' = [id \in TaskIds |-> IF id \in {a.id} THEN runs[id] + 1
                                                     ELSE runs[id]]
    BY <2>1, <2>2 DEF Workable, TypeOK
  <2>6. a.id \in TaskIds  BY <2>2 DEF Workable
  <2>7. HandsOut({a.id})
    BY <1>4, <2>2, <2>3, <2>4, <2>5, <2>6, WorkableIsOpen
    DEF HandsOut, SearchRag, Deciding, Running
  <2>8. {a.id} \in SUBSET TaskIds  BY <2>6
  <2> QED BY <2>7, <2>8
<1>5. CASE SearchRagBatch
  <2>1. PICK a \in Accepted :
          /\ a.name = "search_rag"
          /\ runs' = [id \in TaskIds |-> IF id \in Named(Pending(a))
                                         THEN runs[id] + 1 ELSE runs[id]]
          /\ gathered' = IF Direct = {} THEN gathered \cup Named(Pending(a))
                                        ELSE gathered
          /\ \/ Respond("blocked", completed, "blocked")
             \/ \E found \in SUBSET Pending(a) :
                  Respond("success", completed \cup Named(Pending(a)),
                          IF found = Pending(a) THEN overall
                          ELSE MergeStatus(overall, "empty"))
    BY <1>5 DEF SearchRagBatch
  <2> DEFINE ids == Named(Pending(a))
  <2>2. \A id \in ids : Open(id) /\ (Direct # {} => Workable(id))
    BY <1>5, <2>1, BatchIsOpen DEF SearchRagBatch, IsCall
  <2>3. ids \subseteq TaskIds  BY <2>2 DEF Open
  <2>4. \/ completed' = completed /\ result' # "running"
        \/ completed' = completed \cup ids
    BY <2>1 DEF Respond, Terminal
  <2>5. \A id \in ids : id \notin gathered' => Workable(id)
    BY <2>1, <2>2
  <2>6. gathered \subseteq gathered'  BY <2>1
  <2>7. runs' = [id \in TaskIds |-> IF id \in ids THEN runs[id] + 1
                                                 ELSE runs[id]]
    BY <2>1
  <2> HIDE DEF ids
  <2>8. HandsOut(ids)
    BY <1>5, <2>2, <2>3, <2>4, <2>5, <2>6, <2>7
    DEF HandsOut, SearchRagBatch, Deciding, Running
  <2> QED BY <2>3, <2>8
<1>6. CASE UNCHANGED vars
  <2>1. /\ UNCHANGED <<runs, approved, gathered>> /\ completed \subseteq completed'
        /\ result' = "running" => result = "running"
    BY <1>6 DEF vars, runVars
  <2> QED BY <2>1, HandsOutNothing
<1> QED BY <1>1, <1>2, <1>3, <1>4, <1>5, <1>6 DEF LegalNext

-----------------------------------------------------------------------------
(* A task is called once.                                                  *)

OnceInv == TypeOK /\ Settled /\ AtMostOnce

LEMMA OnceStep == OnceInv /\ [LegalNext]_vars => OnceInv'
<1> SUFFICES ASSUME OnceInv, [LegalNext]_vars PROVE OnceInv'
  OBVIOUS
<1>1. TypeOK /\ TypeOK'  BY TypeStep DEF OnceInv
<1>2. PICK ids \in SUBSET TaskIds : HandsOut(ids)
  BY <1>1, EveryStepHandsOut
<1>3. ASSUME NEW id \in TaskIds PROVE runs'[id] <= 1
  <2>1. runs[id] \in Nat /\ runs[id] <= 1  BY DEF OnceInv, TypeOK, AtMostOnce
  <2>2. CASE id \in ids
    <3>1. id \notin completed /\ result = "running"
      BY <1>2, <2>2 DEF HandsOut, Open
    <3>2. ~(runs[id] > 0)  BY <3>1 DEF OnceInv, Settled
    <3>3. runs'[id] = runs[id] + 1  BY <1>2, <2>2 DEF HandsOut
    <3> QED BY <2>1, <3>2, <3>3
  <2>3. CASE id \notin ids
    BY <1>2, <2>1, <2>3 DEF HandsOut
  <2> QED BY <2>2, <2>3
<1>4. ASSUME NEW id \in TaskIds, result' = "running", runs'[id] > 0
      PROVE  id \in completed'
  <2>1. CASE id \in ids
    BY <1>2, <1>4, <2>1 DEF HandsOut
  <2>2. CASE id \notin ids
    <3>1. runs'[id] = runs[id] /\ result = "running"
      BY <1>2, <1>4, <2>2 DEF HandsOut
    <3>2. id \in completed  BY <1>4, <3>1 DEF OnceInv, Settled
    <3> QED BY <1>2, <3>2 DEF HandsOut
  <2> QED BY <2>1, <2>2
<1> QED BY <1>1, <1>3, <1>4 DEF OnceInv, Settled, AtMostOnce

\* No task is handed to its callback twice: a write is never repeated.
LEMMA CalledOnceLegal == LegalSpec => []AtMostOnce
<1>1. Init => OnceInv
  <2> SUFFICES ASSUME Init PROVE OnceInv
    OBVIOUS
  <2>1. TypeOK  BY TypeInit
  <2>2. \A id \in TaskIds : runs[id] = 0  BY DEF Init
  <2> QED BY <2>1, <2>2 DEF OnceInv, Settled, AtMostOnce
<1>2. OnceInv /\ [LegalNext]_vars => OnceInv'  BY OnceStep
<1>3. OnceInv => AtMostOnce  BY DEF OnceInv
<1> QED BY <1>1, <1>2, <1>3, PTL DEF LegalSpec

-----------------------------------------------------------------------------
(* The queue stays within the approved plan.                               *)

\* Only an answered tool call rewrites the queue.
LEMMA QueueChanges ==
  ASSUME [LegalNext]_vars, ~UNCHANGED <<queue, plan, approved>>
  PROVE  /\ Deciding /\ approved' = approved
         /\ \E a \in Accepted : \E r :
              LegalReply(TaskNamed(a.id), r) /\ CallToolAnswered(a, r)
<1>1. LegalCall
  BY DEF LegalNext, vars, runVars, NothingRemains, GuardrailBlocks, Finish,
         AskClarification, DuplicateBlocked, Stop, ReuseDuplicateQuery,
         SearchRag, SearchRagBatch
<1>2. PICK a \in Accepted : \E r :
        LegalReply(TaskNamed(a.id), r) /\ CallToolAnswered(a, r)
  BY <1>1 DEF LegalCall
<1>3. PICK r : LegalReply(TaskNamed(a.id), r) /\ CallToolAnswered(a, r)
  BY <1>2
<1> QED BY <1>1, <1>3 DEF LegalCall, CallToolAnswered

LineageInv == TypeOK /\ Lineage

LEMMA TasksLineage == Lineage => LineageOf(Tasks, approved)
  BY DEF Lineage, Tasks, TasksOf

LEMMA LineageStep == LineageInv /\ [LegalNext]_vars => LineageInv'
<1> SUFFICES ASSUME LineageInv, [LegalNext]_vars PROVE LineageInv'
  OBVIOUS
<1>1. TypeOK'  BY TypeStep DEF LineageInv
<1>2. CASE UNCHANGED <<queue, plan, approved>>
  BY <1>1, <1>2 DEF LineageInv, Lineage, LineageOf
<1>3. CASE ~UNCHANGED <<queue, plan, approved>>
  <2>1. approved' = approved  BY <1>3, QueueChanges
  <2>2. PICK a \in Accepted : \E r :
          LegalReply(TaskNamed(a.id), r) /\ CallToolAnswered(a, r)
    BY <1>3, QueueChanges
  <2>3. PICK r : LegalReply(TaskNamed(a.id), r) /\ CallToolAnswered(a, r)
    BY <2>2
  <2>4. LineageOf(Tasks, approved)  BY TasksLineage DEF LineageInv
  <2>5. ASSUME NEW i \in DOMAIN r.queue
        PROVE  \E j \in DOMAIN approved :
                 /\ approved[j].id = Root(r.queue[i].id)
                 /\ approved[j].kind = r.queue[i].kind
                 /\ approved[j].deps = r.queue[i].deps
    <3>1. PICK k \in DOMAIN Tasks :
            /\ r.queue[i].kind = Tasks[k].kind
            /\ r.queue[i].deps = Tasks[k].deps
            /\ Root(r.queue[i].id) = Root(Tasks[k].id)
      BY <2>3 DEF LegalReply
    <3> QED BY <2>4, <3>1 DEF LineageOf
  <2>6. LineageOf(r.queue, approved)  BY <2>5, Zenon DEF LineageOf
  <2>7. queue' = r.queue /\ plan' \in {plan, r.queue}
    BY <2>3 DEF CallToolAnswered
  <2> QED BY <1>1, <2>1, <2>6, <2>7 DEF LineageInv, Lineage
<1> QED BY <1>2, <1>3

LEMMA LineageInit == Init => LineageInv
<1> SUFFICES ASSUME Init PROVE LineageInv
  OBVIOUS
<1>1. TypeOK  BY TypeInit
<1>2. approved \in Plans /\ queue = approved /\ plan = approved  BY DEF Init
<1>3. LineageOf(approved, approved)
  BY <1>2, RootAssumption DEF LineageOf
<1> QED BY <1>1, <1>2, <1>3 DEF LineageInv, Lineage

\* A workable task is an executable task of the plan, or an expansion of one,
\* and its dependencies are settled.
LEMMA WorkableIsApproved ==
  ASSUME LineageInv, NEW id, Workable(id)
  PROVE  \E j \in DOMAIN approved :
           /\ approved[j].id = Root(id)
           /\ approved[j].kind \in {"tool", "rag"}
           /\ approved[j].deps \subseteq completed
<1>1. PICK i \in DOMAIN Tasks :
        /\ Tasks[i].id = id
        /\ Tasks[i].kind \in {"tool", "rag"}
        /\ Tasks[i].deps \subseteq completed
  BY DEF Workable
<1>2. PICK j \in DOMAIN approved :
        /\ approved[j].id = Root(Tasks[i].id)
        /\ approved[j].kind = Tasks[i].kind
        /\ approved[j].deps = Tasks[i].deps
  BY TasksLineage, Zenon DEF LineageInv, LineageOf
<1> QED BY <1>1, <1>2

\* An open task is a task of the plan or an expansion of one.
LEMMA OpenIsApproved ==
  ASSUME LineageInv, NEW id, Open(id)
  PROVE  \E j \in DOMAIN approved : approved[j].id = Root(id)
<1>1. PICK i \in DOMAIN Tasks : Tasks[i].id = id  BY DEF Open, Ids
<1>2. PICK j \in DOMAIN approved : approved[j].id = Root(Tasks[i].id)
  BY TasksLineage, Zenon DEF LineageInv, LineageOf
<1> QED BY <1>1, <1>2

\* Only tasks of the approved plan, or expansions of them, are called, and only
\* tool and knowledge tasks unless the model batched them.
LEMMA OnlyApprovedWorkLegal == LegalSpec => []ApprovedWorkOnly
<1> DEFINE Inv == LineageInv /\ ApprovedWorkOnly
<1>1. Init => Inv
  <2> SUFFICES ASSUME Init PROVE Inv
    OBVIOUS
  <2>1. \A id \in TaskIds : runs[id] = 0  BY DEF Init
  <2> QED BY <2>1, LineageInit DEF ApprovedWorkOnly
<1>2. Inv /\ [LegalNext]_vars => Inv'
  <2> SUFFICES ASSUME Inv, [LegalNext]_vars PROVE Inv'
    OBVIOUS
  <2>1. PICK ids \in SUBSET TaskIds : HandsOut(ids)
    BY EveryStepHandsOut DEF LineageInv
  <2>2. ASSUME NEW id \in TaskIds, runs'[id] > 0
        PROVE  \E i \in DOMAIN approved' :
                 /\ approved'[i].id = Root(id)
                 /\ id \notin gathered' => approved'[i].kind \in {"tool", "rag"}
    <3>1. approved' = approved /\ gathered \subseteq gathered'
      BY <2>1 DEF HandsOut
    <3>2. CASE id \in ids /\ id \in gathered'
      BY <2>1, <3>1, <3>2, OpenIsApproved DEF HandsOut
    <3>3. CASE id \in ids /\ id \notin gathered'
      BY <2>1, <3>1, <3>3, WorkableIsApproved DEF HandsOut
    <3>4. CASE id \notin ids
      <4>1. runs[id] > 0  BY <2>1, <2>2, <3>4 DEF HandsOut
      <4> QED BY <3>1, <4>1 DEF ApprovedWorkOnly
    <3> QED BY <3>2, <3>3, <3>4
  <2> QED BY <2>2, LineageStep DEF ApprovedWorkOnly
<1>3. Inv => ApprovedWorkOnly  OBVIOUS
<1> QED BY <1>1, <1>2, <1>3, PTL DEF LegalSpec

\* A task is called only after everything it was approved to depend on, unless
\* the model batched it.
LEMMA DependenciesSettledLegal == LegalSpec => DependenciesFirst
<1>1. LineageInv /\ [LegalNext]_vars =>
        [\A id \in TaskIds \ gathered' :
           runs'[id] > runs[id] =>
             \A i \in DOMAIN approved :
               approved[i].id = Root(id) => approved[i].deps \subseteq completed]_vars
  <2> SUFFICES ASSUME LineageInv, [LegalNext]_vars,
                      NEW id \in TaskIds \ gathered', runs'[id] > runs[id],
                      NEW i \in DOMAIN approved, approved[i].id = Root(id)
               PROVE  approved[i].deps \subseteq completed
    OBVIOUS
  <2>1. TypeOK  BY DEF LineageInv
  <2>2. PICK ids \in SUBSET TaskIds : HandsOut(ids)
    BY <2>1, EveryStepHandsOut
  <2>3. id \in ids  BY <2>1, <2>2 DEF HandsOut, TypeOK
  <2>4. PICK j \in DOMAIN approved :
          approved[j].id = Root(id) /\ approved[j].deps \subseteq completed
    BY <2>2, <2>3, WorkableIsApproved DEF HandsOut
  <2>5. i = j  BY <2>1, <2>4, PlansAssumption DEF TypeOK
  <2> QED BY <2>4, <2>5
<1> QED BY <1>1, LineageInit, LineageStep, PTL DEF LegalSpec, DependenciesFirst

-----------------------------------------------------------------------------
(* A run that reports success has settled the whole plan.                  *)

CoverInv == LineageInv /\ Coverage

\* When a queue that covers plan p holds no more executable work, p is settled.
LEMMA CoveredIsSettled ==
  ASSUME NEW p \in Plans, NEW s, NEW done,
         LineageOf(s, p), CoverageOf(p, s, done), LeftToExecute(s, done) = {}
  PROVE  \A j \in DOMAIN p : p[j].kind \in {"tool", "rag"} => p[j].id \in done
<1> SUFFICES ASSUME NEW j \in DOMAIN p, p[j].kind \in {"tool", "rag"},
                    p[j].id \notin done
             PROVE  FALSE
  OBVIOUS
<1>1. PICK i \in DOMAIN s : s[i].id = p[j].id
  BY DEF CoverageOf, Ids
<1>2. PICK k \in DOMAIN p : p[k].id = Root(s[i].id) /\ p[k].kind = s[i].kind
  BY DEF LineageOf
<1>3. p[k].id = p[j].id  BY <1>1, <1>2, RootAssumption
<1>4. k = j  BY <1>3, PlansAssumption
<1>5. i \in LeftToExecute(s, done)
  BY <1>1, <1>2, <1>4 DEF LeftToExecute, Left
<1> QED BY <1>5

LEMMA CoverStep == CoverInv /\ [LegalNext]_vars => CoverInv'
<1> SUFFICES ASSUME CoverInv, [LegalNext]_vars PROVE CoverInv'
  OBVIOUS
<1>1. LineageInv /\ LineageInv'  BY LineageStep DEF CoverInv
<1>2. completed \subseteq completed' /\ approved' = approved
  BY <1>1, EveryStepHandsOut DEF LineageInv, HandsOut
<1>3. CASE UNCHANGED <<queue, plan, approved>>
  <2>1. Tasks' = Tasks  BY <1>3 DEF Tasks, TasksOf
  <2> QED BY <1>1, <1>2, <2>1 DEF CoverInv, Coverage, CoverageOf
<1>4. CASE ~UNCHANGED <<queue, plan, approved>>
  <2>1. PICK a \in Accepted : \E r :
          LegalReply(TaskNamed(a.id), r) /\ CallToolAnswered(a, r)
    BY <1>4, QueueChanges
  <2>2. PICK r : LegalReply(TaskNamed(a.id), r) /\ CallToolAnswered(a, r)
    BY <2>1
  <2>3. Ids(Tasks) \subseteq completed' \cup Ids(r.queue)
    BY <2>2 DEF LegalReply, CallToolAnswered, Respond
  <2>4. Ids(Tasks) \subseteq completed' \cup Ids(Tasks')
    <3>1. CASE r.queue = <<>>
      BY <2>3, <3>1 DEF Ids
    <3>2. CASE r.queue # <<>>
      <4>1. Tasks' = r.queue  BY <2>2, <3>2 DEF Tasks, TasksOf, CallToolAnswered
      <4> QED BY <2>3, <4>1
    <3> QED BY <3>1, <3>2
  <2> QED BY <1>1, <1>2, <2>4 DEF CoverInv, Coverage, CoverageOf
<1> QED BY <1>3, <1>4

LEMMA CoverInit == Init => CoverInv
<1> SUFFICES ASSUME Init PROVE CoverInv
  OBVIOUS
<1>1. Tasks = approved  BY DEF Init, Tasks, TasksOf
<1> QED BY <1>1, LineageInit DEF CoverInv, Coverage, CoverageOf, Ids

\* Success is reported only when nothing executable is left.
LEMMA SuccessLeavesNothing ==
  ASSUME [LegalNext]_vars, result # "success", result' = "success"
  PROVE  LeftToExecute(Tasks', completed') = {}
<1>1. CASE NothingRemains
  <2>1. Tasks' = Tasks /\ completed' = completed
    BY <1>1 DEF NothingRemains, Stop, Tasks, TasksOf
  <2> QED BY <1>1, <2>1 DEF NothingRemains, LeftToExecute
<1>2. CASE Finish
  <2>1. PICK a \in Accepted : a.name = "finish"  BY <1>2 DEF Finish
  <2>2. LeftToExecute(Tasks, completed) = {}  BY <2>1 DEF Accepted, InScope
  <2>3. Tasks' = Tasks /\ completed' = completed
    BY <1>2 DEF Finish, Stop, Tasks, TasksOf
  <2> QED BY <2>2, <2>3
<1>3. CASE GuardrailBlocks \/ AskClarification \/ DuplicateBlocked
            \/ ReuseDuplicateQuery
  BY <1>3 DEF GuardrailBlocks, AskClarification, DuplicateBlocked, Stop,
              ReuseDuplicateQuery
<1>4. ASSUME NEW status, NEW done, NEW newOverall,
             Respond(status, done, newOverall)
      PROVE  LeftToExecute(Tasks', completed') = {}
  BY <1>4 DEF Respond, Terminal, Tasks
<1>5. CASE LegalCall
  <2>1. PICK a \in Accepted : \E r :
          CallToolAnswered(a, r)
    BY <1>5 DEF LegalCall
  <2> QED BY <1>4, <2>1 DEF CallToolAnswered
<1>6. CASE SearchRag
  BY <1>4, <1>6 DEF SearchRag
<1>7. CASE SearchRagBatch
  BY <1>4, <1>7 DEF SearchRagBatch
<1>8. CASE UNCHANGED vars
  BY <1>8 DEF vars, runVars
<1> QED BY <1>1, <1>2, <1>3, <1>5, <1>6, <1>7, <1>8 DEF LegalNext

\* Success means that every approved tool and knowledge task is settled.
LEMMA SuccessIsCompleteLegal == LegalSpec => []SuccessCoversPlan
<1> DEFINE Inv == CoverInv /\ SuccessCoversPlan
<1>1. Init => Inv
  BY CoverInit DEF Init, SuccessCoversPlan
<1>2. Inv /\ [LegalNext]_vars => Inv'
  <2> SUFFICES ASSUME Inv, [LegalNext]_vars PROVE Inv'
    OBVIOUS
  <2>1. CoverInv'  BY CoverStep
  <2>2. CASE result = "success"
    <3>1. completed \subseteq completed' /\ approved' = approved
      BY EveryStepHandsOut DEF CoverInv, LineageInv, HandsOut
    <3> QED BY <2>1, <2>2, <3>1 DEF SuccessCoversPlan
  <2>3. CASE result # "success" /\ result' = "success"
    <3>1. LeftToExecute(Tasks', completed') = {}
      BY <2>3, SuccessLeavesNothing
    <3>2. LineageOf(Tasks', approved')
      BY <2>1 DEF CoverInv, LineageInv, Lineage, Tasks, TasksOf
    <3>3. approved' \in Plans  BY <2>1 DEF CoverInv, LineageInv, TypeOK
    <3>4. CoverageOf(approved', Tasks', completed')
      BY <2>1 DEF CoverInv, Coverage
    <3>5. \A j \in DOMAIN approved' :
            approved'[j].kind \in {"tool", "rag"}
              => approved'[j].id \in completed'
      BY <3>1, <3>2, <3>3, <3>4, CoveredIsSettled
    <3> QED BY <2>1, <3>5 DEF SuccessCoversPlan
  <2>4. CASE result' # "success"
    BY <2>1, <2>4 DEF SuccessCoversPlan
  <2> QED BY <2>2, <2>3, <2>4
<1>3. Inv => SuccessCoversPlan  OBVIOUS
<1> QED BY <1>1, <1>2, <1>3, PTL DEF LegalSpec

-----------------------------------------------------------------------------
(* What was observed shows in the status of the run.                       *)

LEMMA EndedIsOver ==
  ASSUME [LegalNext]_vars, result # "running"
  PROVE  UNCHANGED vars
  BY DEF LegalNext, NothingRemains, GuardrailBlocks, Finish, AskClarification,
         ReuseDuplicateQuery, DuplicateBlocked, LegalCall, SearchRag,
         SearchRagBatch, Deciding, Running

LEMMA MergeSuccess ==
  ASSUME NEW current, NEW status, MergeStatus(current, status) = "success"
  PROVE  current = "success" /\ status \notin Degrading
  BY DEF MergeStatus, Terminal, Degrading

\* Each step observes a set of tasks.  A terminal observation ends the run with
\* its own status; otherwise `overall` stays "success" only if it was and no
\* observation is degrading; and the run goes on, or succeeds, as the end of an
\* iteration says.
Observes(ids, status) ==
  /\ ids \in SUBSET TaskIds /\ status \in [ids -> Outcomes]
  /\ outcome' = [id \in TaskIds |-> IF id \in ids THEN status[id]
                                                 ELSE outcome[id]]
  /\ \A id \in ids : status[id] \in Terminal => result' = status[id]
  /\ overall' = "success" =>
       overall = "success" /\ \A id \in ids : status[id] \notin Degrading
  /\ result' = "success" => overall' = "success"
  /\ result' = "running" => LeftToExecute(Tasks', completed') # {}
  /\ reused' = reused

LEMMA RespondEnds ==
  ASSUME NEW status, NEW done, NEW newOverall,
         Respond(status, done, newOverall)
  PROVE  /\ status \in Terminal => result' = status
         /\ result' = "success" => overall' = "success"
         /\ result' = "running" /\ newOverall # "running"
              => LeftToExecute(Tasks', completed') # {}
         /\ overall' = newOverall
  BY DEF Respond, Terminal, Tasks

LEMMA CallObserves ==
  ASSUME TypeOK, LegalCall \/ SearchRag \/ SearchRagBatch
  PROVE  \E ids \in SUBSET TaskIds : \E status \in [ids -> Outcomes] :
           Observes(ids, status)
<1>1. overall \in Results \ {"running"}  BY DEF TypeOK
<1>2. ASSUME NEW id \in TaskIds, NEW status \in Outcomes, NEW done,
             Respond(status, done, MergeStatus(overall, status)),
             outcome' = [outcome EXCEPT ![id] = status], reused' = reused
      PROVE  Observes({id}, [x \in {id} |-> status])
  <2>1. MergeStatus(overall, status) \in Results \ {"running"}
    BY <1>1, MergeTyped
  <2>2. /\ status \in Terminal => result' = status
        /\ result' = "success" => overall' = "success"
        /\ result' = "running" => LeftToExecute(Tasks', completed') # {}
        /\ overall' = MergeStatus(overall, status)
    BY <1>2, <2>1, RespondEnds
  <2>3. overall' = "success" => overall = "success" /\ status \notin Degrading
    BY <2>2, MergeSuccess
  <2>4. outcome' = [x \in TaskIds |-> IF x \in {id} THEN status ELSE outcome[x]]
    BY <1>2 DEF TypeOK
  <2> QED BY <1>2, <2>2, <2>3, <2>4 DEF Observes
<1>3. CASE LegalCall
  <2>1. PICK a \in Accepted : \E r :
          LegalReply(TaskNamed(a.id), r) /\ CallToolAnswered(a, r)
    BY <1>3 DEF LegalCall
  <2>2. PICK r : LegalReply(TaskNamed(a.id), r) /\ CallToolAnswered(a, r)
    BY <2>1
  <2>3. a.id \in TaskIds
    BY <1>3, <2>2, CallIsWorkable
    DEF LegalCall, CallToolAnswered, IsCall, Workable
  <2>4. r.status \in Outcomes  BY <2>2 DEF LegalReply, Outcomes
  <2>5. Observes({a.id}, [x \in {a.id} |-> r.status])
    BY <1>2, <2>2, <2>3, <2>4 DEF CallToolAnswered
  <2> QED BY <2>5 DEF Observes
<1>4. CASE SearchRag
  <2>1. PICK a \in Accepted, status \in RagStatus \cup {"blocked"} :
          /\ a.name = "search_rag"
          /\ Respond(status,
                     completed \cup
                       (IF status \in Completing THEN {a.id} ELSE {}),
                     MergeStatus(overall, status))
          /\ outcome' = [outcome EXCEPT ![a.id] = status]
    BY <1>4 DEF SearchRag, RagStatus
  <2>2. a.id \in TaskIds
    BY <1>4, <2>1, CallIsWorkable DEF SearchRag, IsCall, Workable
  <2>3. status \in Outcomes  BY <2>1 DEF Outcomes
  <2>4. Observes({a.id}, [x \in {a.id} |-> status])
    BY <1>2, <1>4, <2>1, <2>2, <2>3 DEF SearchRag
  <2> QED BY <2>4 DEF Observes
<1>5. CASE SearchRagBatch
  <2>1. PICK a \in Accepted :
          /\ a.name = "search_rag"
          /\ \/ /\ Respond("blocked", completed, "blocked")
                /\ outcome' = [outcome EXCEPT ![a.id] = "blocked"]
             \/ \E found \in SUBSET Pending(a) :
                  /\ Respond("success", completed \cup Named(Pending(a)),
                             IF found = Pending(a) THEN overall
                             ELSE MergeStatus(overall, "empty"))
                  /\ outcome' = [id \in TaskIds |->
                                   IF id \in Named(found) THEN "success"
                                   ELSE IF id \in Named(Pending(a)) THEN "empty"
                                   ELSE outcome[id]]
    BY <1>5 DEF SearchRagBatch
  <2>2. a.id \in TaskIds /\ reused' = reused
    BY <1>5, <2>1, CallIsWorkable DEF SearchRagBatch, IsCall, Workable
  <2>3. CASE /\ Respond("blocked", completed, "blocked")
             /\ outcome' = [outcome EXCEPT ![a.id] = "blocked"]
    <3>1. MergeStatus(overall, "blocked") = "blocked"
      BY DEF MergeStatus, Terminal
    <3>2. "blocked" \in Outcomes  BY DEF Outcomes
    <3>3. Observes({a.id}, [x \in {a.id} |-> "blocked"])
      BY <1>2, <2>2, <2>3, <3>1, <3>2
    <3> QED BY <3>3 DEF Observes
  <2>4. ASSUME NEW found \in SUBSET Pending(a),
               Respond("success", completed \cup Named(Pending(a)),
                       IF found = Pending(a) THEN overall
                       ELSE MergeStatus(overall, "empty")),
               outcome' = [id \in TaskIds |->
                             IF id \in Named(found) THEN "success"
                             ELSE IF id \in Named(Pending(a)) THEN "empty"
                             ELSE outcome[id]]
        PROVE  \E ids \in SUBSET TaskIds : \E status \in [ids -> Outcomes] :
                 Observes(ids, status)
    <3> DEFINE new    == IF found = Pending(a) THEN overall
                         ELSE MergeStatus(overall, "empty")
               ids    == Named(Pending(a))
               status == [id \in ids |-> IF id \in Named(found) THEN "success"
                                                               ELSE "empty"]
    <3>1. ids \subseteq TaskIds
      BY <1>5, <2>1, BatchIsOpen DEF SearchRagBatch, IsCall, Open
    <3>2. new \in Results \ {"running"}  BY <1>1, MergeTyped
    <3>3. new = "success" => overall = "success" /\ found = Pending(a)
      BY MergeSuccess DEF Degrading
    <3>4. status \in [ids -> Outcomes]  BY DEF Outcomes, RagStatus
    <3>5. outcome' = [id \in TaskIds |-> IF id \in ids THEN status[id]
                                                   ELSE outcome[id]]
      <4>1. Named(found) \subseteq ids  BY DEF Named
      <4>2. \A id \in ids : status[id] = IF id \in Named(found) THEN "success"
                                                            ELSE "empty"
        OBVIOUS
      <4> HIDE DEF status
      <4>3. outcome' = [id \in TaskIds |-> IF id \in Named(found) THEN "success"
                                         ELSE IF id \in ids THEN "empty"
                                         ELSE outcome[id]]
        BY <2>4
      <4> HIDE DEF ids
      <4> QED BY <4>1, <4>2, <4>3
    <3>6. Respond("success", completed \cup ids, new)  BY <2>4
    <3>7. /\ \A id \in ids : status[id] \notin Terminal
          /\ found = Pending(a) => \A id \in ids : status[id] \notin Degrading
      BY DEF Terminal, Degrading
    <3> HIDE DEF new, ids, status
    <3>8. /\ result' = "success" => overall' = "success"
          /\ result' = "running" => LeftToExecute(Tasks', completed') # {}
          /\ overall' = new
      BY <3>2, <3>6, RespondEnds
    <3>9. Observes(ids, status)
      BY <2>2, <3>1, <3>3, <3>4, <3>5, <3>7, <3>8 DEF Observes
    <3> QED BY <3>1, <3>4, <3>9
  <2> QED BY <2>1, <2>3, <2>4
<1> QED BY <1>3, <1>4, <1>5

\* A step that calls nothing observes nothing.
LEMMA OutcomeUnchanged ==
  ASSUME TypeOK, [LegalNext]_vars, ~(LegalCall \/ SearchRag \/ SearchRagBatch)
  PROVE  outcome' = outcome /\ overall' = overall
<1>1. CASE NothingRemains \/ GuardrailBlocks \/ Finish \/ AskClarification
             \/ DuplicateBlocked
  BY <1>1, StopsTyped DEF Stops
<1>2. CASE ReuseDuplicateQuery
  BY <1>2 DEF ReuseDuplicateQuery
<1>3. CASE UNCHANGED vars
  BY <1>3 DEF vars, runVars
<1> QED BY <1>1, <1>2, <1>3 DEF LegalNext

\* A call that failed, was refused or must ask the user decides how the run ends.
LEMMA FailuresReportedLegal == LegalSpec => []FailureIsReported
<1> DEFINE Inv == TypeOK /\ FailureIsReported
<1>1. Init => Inv
  BY TypeInit DEF Init, FailureIsReported, Terminal
<1>2. Inv /\ [LegalNext]_vars => Inv'
  <2> SUFFICES ASSUME Inv, [LegalNext]_vars PROVE Inv'
    OBVIOUS
  <2>1. TypeOK'  BY TypeStep
  <2>2. CASE result # "running"
    BY <2>1, <2>2, EndedIsOver DEF vars, runVars, FailureIsReported
  <2>3. CASE result = "running"
    <3>1. \A id \in TaskIds : outcome[id] \notin Terminal
      BY <2>3 DEF FailureIsReported, Terminal
    <3>2. CASE LegalCall \/ SearchRag \/ SearchRagBatch
      <4>1. PICK ids \in SUBSET TaskIds : \E status \in [ids -> Outcomes] :
              Observes(ids, status)
        BY <3>2, CallObserves
      <4>2. PICK status \in [ids -> Outcomes] : Observes(ids, status)
        BY <4>1
      <4> QED BY <2>1, <3>1, <4>2 DEF Observes, FailureIsReported
    <3>3. CASE ~(LegalCall \/ SearchRag \/ SearchRagBatch)
      BY <2>1, <3>1, <3>3, OutcomeUnchanged DEF FailureIsReported
    <3> QED BY <3>2, <3>3
  <2> QED BY <2>2, <2>3
<1>3. Inv => FailureIsReported  OBVIOUS
<1> QED BY <1>1, <1>2, <1>3, PTL DEF LegalSpec

\* Missing evidence is never reported as plain success.
LEMMA EmptyEvidenceReportedLegal == LegalSpec => []EmptyEvidenceDegrades
<1> DEFINE Inv == TypeOK /\ Degraded /\ WorkLeft /\ EmptyEvidenceDegrades
<1>1. Init => Inv
  BY TypeInit DEF Init, Degraded, WorkLeft, EmptyEvidenceDegrades, Degrading
<1>2. Inv /\ [LegalNext]_vars => Inv'
  <2> SUFFICES ASSUME Inv, [LegalNext]_vars PROVE Inv'
    OBVIOUS
  <2>1. TypeOK'  BY TypeStep
  <2>2. CASE UNCHANGED vars
    BY <2>1, <2>2 DEF vars, runVars, Degraded, WorkLeft, EmptyEvidenceDegrades,
                      Tasks, TasksOf
  <2>3. CASE LegalCall \/ SearchRag \/ SearchRagBatch
    <3>1. PICK ids \in SUBSET TaskIds : \E status \in [ids -> Outcomes] :
            Observes(ids, status)
      BY <2>3, CallObserves
    <3>2. PICK status \in [ids -> Outcomes] : Observes(ids, status)
      BY <3>1
    <3>3. Degraded'  BY <3>2 DEF Observes, Degraded
    <3>4. WorkLeft'  BY <3>2 DEF Observes, WorkLeft
    <3>5. EmptyEvidenceDegrades'
      BY <3>2, <3>3 DEF Observes, Degraded, EmptyEvidenceDegrades
    <3> QED BY <2>1, <3>3, <3>4, <3>5
  <2>4. CASE NothingRemains \/ GuardrailBlocks \/ Finish \/ AskClarification
               \/ DuplicateBlocked
    <3>1. Stops  BY <2>4, StopsTyped
    <3>2. Degraded' /\ WorkLeft'  BY <3>1 DEF Stops, Degraded, WorkLeft
    <3>3. CASE result' # "success"
      BY <2>1, <3>2, <3>3 DEF EmptyEvidenceDegrades
    <3>4. CASE result' = "success" /\ Finish
      <4>1. PICK a \in Accepted : a.name = "finish"  BY <3>4 DEF Finish
      <4>2. LeftToExecute(Tasks, completed) = {}
        BY <4>1 DEF Accepted, InScope
      <4>3. reused = {} => \A id \in TaskIds : outcome[id] = "none"
        BY <3>1, <4>2 DEF Stops, WorkLeft
      <4> QED BY <2>1, <3>1, <3>2, <4>3
              DEF Stops, EmptyEvidenceDegrades, Degrading
    <3>5. CASE result' = "success" /\ ~Finish
      <4>1. overall = "success"
        BY <2>4, <3>5 DEF NothingRemains, GuardrailBlocks, AskClarification,
                          DuplicateBlocked, Stop
      <4> QED BY <2>1, <3>1, <3>2, <4>1
              DEF Stops, Degraded, EmptyEvidenceDegrades
    <3> QED BY <3>3, <3>4, <3>5
  <2>5. CASE ReuseDuplicateQuery
    <3>1. /\ reused' # {} /\ UNCHANGED <<outcome, overall>>
          /\ result' # "success"
      BY <2>5 DEF ReuseDuplicateQuery
    <3> QED BY <2>1, <3>1 DEF Degraded, WorkLeft, EmptyEvidenceDegrades
  <2> QED BY <2>2, <2>3, <2>4, <2>5 DEF LegalNext
<1>3. Inv => EmptyEvidenceDegrades  OBVIOUS
<1> QED BY <1>1, <1>2, <1>3, PTL DEF LegalSpec

\* The status of the run hides neither: react_executor.py:425-447.
LEMMA BadNewsReportedLegal == LegalSpec => []BadNewsIsReported
  BY FailuresReportedLegal, EmptyEvidenceReportedLegal, PTL DEF BadNewsIsReported

-----------------------------------------------------------------------------
(* The theorems about ReActExecutor.                                       *)

\* Every reachable state of a run is well typed.
THEOREM TypeCorrect == Spec => []TypeOK
  BY SpecIsLegal, TypeCorrectLegal, PTL

\* No task is handed to its callback twice: a write is never repeated.
THEOREM CalledOnce == Spec => []AtMostOnce
  BY SpecIsLegal, CalledOnceLegal, PTL

\* Only tasks of the approved plan, or expansions of them, are called, and only
\* tool and knowledge tasks unless the model batched them.
THEOREM OnlyApprovedWork == Spec => []ApprovedWorkOnly
  BY SpecIsLegal, OnlyApprovedWorkLegal, PTL

\* A task is called only after everything it was approved to depend on, unless
\* the model batched it.
THEOREM DependenciesSettled == Spec => DependenciesFirst
  BY SpecIsLegal, DependenciesSettledLegal, PTL

\* Success means that every approved tool and knowledge task is settled.
THEOREM SuccessIsComplete == Spec => []SuccessCoversPlan
  BY SpecIsLegal, SuccessIsCompleteLegal, PTL

\* A call that failed, was refused or must ask the user decides how the run ends.
THEOREM FailuresReported == Spec => []FailureIsReported
  BY SpecIsLegal, FailuresReportedLegal, PTL

\* Missing evidence is never reported as plain success.
THEOREM EmptyEvidenceReported == Spec => []EmptyEvidenceDegrades
  BY SpecIsLegal, EmptyEvidenceReportedLegal, PTL

\* The status of the run hides neither: react_executor.py:425-447.
THEOREM BadNewsReported == Spec => []BadNewsIsReported
  BY SpecIsLegal, BadNewsReportedLegal, PTL

-----------------------------------------------------------------------------
(* Part two.  Flattened sequences: the k-th element of the i-th part is at *)
(* one place of the whole, and every place holds such an element.          *)

\* Events and days are numbers, and "no event" is none.
LEMMA EventFacts ==
  /\ EventIds \subseteq Nat /\ 0 \notin EventIds /\ IsFiniteSet(EventIds)
  /\ \A d \in Days \cup {0} : d \in Nat
<1>1. Days \subseteq Nat \ {0}  BY CalendarAssumption, Zenon
<1>2. EventIds \subseteq Nat /\ 0 \notin EventIds /\ IsFiniteSet(EventIds)
  BY CalendarAssumption, Zenon
<1>3. ASSUME NEW d \in Days \cup {0} PROVE d \in Nat
  BY <1>1
<1> QED BY <1>2, <1>3

\* A set of naturals that holds 0 and the successor of each member holds all.
LEMMA Induction ==
  ASSUME NEW S, 0 \in S, \A n \in Nat : n \in S => n + 1 \in S
  PROVE  Nat \subseteq S
<1> DEFINE T == {n \in Nat : n \notin S}
<1>1. SUFFICES ASSUME T # {} PROVE FALSE
  OBVIOUS
<1>2. PICK m \in T : \A k \in T : m <= k
  BY <1>1, Least
<1>3. m \in Nat /\ m # 0
  BY <1>2
<1>4. m - 1 \in Nat /\ m - 1 \in S
  BY <1>2, <1>3
<1>5. (m - 1) + 1 \in S /\ (m - 1) + 1 = m
  BY <1>3, <1>4
<1> QED BY <1>2, <1>5

\* The function FlattenSeq computes, for the first n sequences.
Flattens(g, seqs, n) ==
  g = [i \in 1 .. n |-> IF i = 1 THEN seqs[i] ELSE g[i-1] \o seqs[i]]

\* Such a function exists, so FlattenSeq's CHOOSE finds it.
LEMMA FlattenExists ==
  ASSUME NEW S, NEW seqs \in Seq(S)
  PROVE  \E g : Flattens(g, seqs, Len(seqs))
<1> DEFINE Good == {n \in Nat : \E g : Flattens(g, seqs, n)}
<1>1. 0 \in Good
  <2>1. Flattens([i \in 1 .. 0 |-> seqs[i]], seqs, 0)
    BY DEF Flattens
  <2> QED BY <2>1
<1>2. ASSUME NEW n \in Nat, n \in Good PROVE n + 1 \in Good
  <2>1. PICK g : Flattens(g, seqs, n)
    BY <1>2
  <2> DEFINE h == [i \in 1 .. n+1 |-> IF i \in 1 .. n THEN g[i]
                                      ELSE IF n = 0 THEN seqs[1] ELSE g[n] \o seqs[n+1]]
  <2>2. ASSUME NEW i \in 1 .. n+1
        PROVE h[i] = IF i = 1 THEN seqs[i] ELSE h[i-1] \o seqs[i]
    <3>1. CASE i \in 1 .. n /\ i = 1
      BY <2>1, <3>1 DEF Flattens
    <3>2. CASE i \in 1 .. n /\ i # 1
      <4>1. g[i] = g[i-1] \o seqs[i]
        BY <2>1, <3>2 DEF Flattens
      <4>2. i - 1 \in 1 .. n /\ h[i-1] = g[i-1] /\ h[i] = g[i]
        BY <3>2
      <4> QED BY <4>1, <4>2, <3>2
    <3>3. CASE i \notin 1 .. n
      <4>1. i = n + 1
        BY <3>3
      <4>2. CASE n = 0
        BY <4>1, <4>2
      <4>3. CASE n # 0
        <5>1. n \in 1 .. n /\ n \in 1 .. n+1 /\ h[n] = g[n]
          BY <4>3
        <5>2. h[i] = g[n] \o seqs[n+1]
          BY <4>1, <4>3, <3>3
        <5> QED BY <5>1, <5>2, <4>1, <4>3
      <4> QED BY <4>2, <4>3
    <3> QED BY <3>1, <3>2, <3>3
  <2>3. h = [i \in 1 .. n+1 |-> h[i]]
    OBVIOUS
  <2> HIDE DEF h
  <2>4. Flattens(h, seqs, n+1)
    BY <2>2, <2>3 DEF Flattens
  <2> QED BY <2>4
<1>3. Nat \subseteq Good
  <2> HIDE DEF Good
  <2> QED BY <1>1, <1>2, Induction
<1>4. Len(seqs) \in Nat
  OBVIOUS
<1> QED BY <1>3, <1>4

\* FlattenSeq returns that function's last value.
LEMMA FlattenEquation ==
  ASSUME NEW S, NEW seqs \in Seq(S), seqs # <<>>
  PROVE  \E g : Flattens(g, seqs, Len(seqs)) /\ FlattenSeq(seqs) = g[Len(seqs)]
<1> DEFINE g == CHOOSE f : f = [i \in 1 .. Len(seqs) |->
                                  IF i = 1 THEN seqs[i] ELSE f[i-1] \o seqs[i]]
<1>1. Flattens(g, seqs, Len(seqs))
  BY FlattenExists DEF Flattens
<1>2. FlattenSeq(seqs) = g[Len(seqs)]
  BY DEF FlattenSeq
<1> HIDE DEF g
<1> QED BY <1>1, <1>2

\* at says where each element of a flattened sequence comes from.
Places(seqs, n) == {p \in (1 .. n) \X Nat : p[2] \in 1 .. Len(seqs[p[1]])}
Gathers(at, flat, seqs, n) ==
  /\ at \in [1 .. Len(flat) -> Places(seqs, n)]
  /\ \A p \in 1 .. Len(flat) : flat[p] = seqs[at[p][1]][at[p][2]]
  /\ \A p, q \in 1 .. Len(flat) : at[p] = at[q] => p = q
  /\ \A x \in Places(seqs, n) : \E p \in 1 .. Len(flat) : at[p] = x

\* One more part appended.
LEMMA GathersOneMore ==
  ASSUME NEW S, NEW seqs \in Seq(Seq(S)), NEW n \in Nat, n + 1 \in 1 .. Len(seqs),
         NEW a \in Seq(S), NEW old, Gathers(old, a, seqs, n)
  PROVE  \E at : Gathers(at, a \o seqs[n+1], seqs, n+1)
<1> DEFINE b    == seqs[n+1]
           both == a \o b
           at   == [p \in 1 .. Len(both) |-> IF p <= Len(a) THEN old[p]
                                             ELSE <<n+1, p - Len(a)>>]
<1>1. b \in Seq(S)
  OBVIOUS
<1>2. Len(a) \in Nat /\ Len(b) \in Nat
  BY <1>1
<1>3. /\ both \in Seq(S) /\ Len(both) = Len(a) + Len(b)
      /\ \A i \in 1 .. Len(both) : both[i] = IF i <= Len(a) THEN a[i] ELSE b[i - Len(a)]
  <2> HIDE DEF b
  <2> QED BY <1>1, ConcatProperties
<1>4. \A x \in Places(seqs, n) : x \in Places(seqs, n+1) /\ x[1] # n + 1
  BY DEF Places
<1>5. \A k \in 1 .. Len(b) : <<n+1, k>> \in Places(seqs, n+1)
  BY <1>2 DEF Places
<1>6. \A x \in Places(seqs, n+1) :
        \/ x \in Places(seqs, n)
        \/ x[2] \in 1 .. Len(b) /\ x = <<n+1, x[2]>>
  BY DEF Places
<1> HIDE DEF b, both
<1>7. \A p \in 1 .. Len(both) :
        /\ p <= Len(a)    => p \in 1 .. Len(a) /\ at[p] = old[p]
        /\ ~(p <= Len(a)) => p - Len(a) \in 1 .. Len(b) /\ at[p] = <<n+1, p - Len(a)>>
  BY <1>2, <1>3
<1>8. at \in [1 .. Len(both) -> Places(seqs, n+1)]
  BY <1>4, <1>5, <1>7 DEF Gathers
<1> HIDE DEF at
<1>9. ASSUME NEW p \in 1 .. Len(both) PROVE both[p] = seqs[at[p][1]][at[p][2]]
  <2>1. CASE p <= Len(a)
    BY <2>1, <1>3, <1>7 DEF Gathers
  <2>2. CASE ~(p <= Len(a))
    BY <2>2, <1>2, <1>3, <1>7 DEF b
  <2> QED BY <2>1, <2>2
<1>10. ASSUME NEW p \in 1 .. Len(both), NEW q \in 1 .. Len(both), at[p] = at[q]
       PROVE  p = q
  <2>1. CASE p <= Len(a) /\ q <= Len(a)
    BY <2>1, <1>7, <1>10 DEF Gathers
  <2>2. CASE ~(p <= Len(a)) /\ ~(q <= Len(a))
    <3>1. <<n+1, p - Len(a)>> = <<n+1, q - Len(a)>>
      BY <2>2, <1>7, <1>10
    <3> QED BY <3>1, <1>2, <1>3
  <2>3. \A i \in 1 .. Len(both) : (i <= Len(a)) <=> (at[i][1] # n + 1)
    <3>1. \A i \in 1 .. Len(a) : old[i][1] # n + 1
      BY <1>4 DEF Gathers
    <3>2. \A k : <<n+1, k>>[1] = n + 1
      OBVIOUS
    <3> QED BY <3>1, <3>2, <1>7
  <2>4. p <= Len(a) <=> q <= Len(a)
    BY <2>3, <1>10
  <2> QED BY <2>1, <2>2, <2>3, <2>4
<1>11. ASSUME NEW x \in Places(seqs, n+1) PROVE \E p \in 1 .. Len(both) : at[p] = x
  <2>1. CASE x \in Places(seqs, n)
    <3>1. PICK p \in 1 .. Len(a) : old[p] = x
      BY <2>1 DEF Gathers
    <3>2. p \in 1 .. Len(both) /\ p <= Len(a)
      BY <1>2, <1>3
    <3> QED BY <3>1, <3>2, <1>7
  <2>2. CASE x[2] \in 1 .. Len(b) /\ x = <<n+1, x[2]>>
    <3> DEFINE p == Len(a) + x[2]
    <3>1. p \in 1 .. Len(both) /\ ~(p <= Len(a)) /\ p - Len(a) = x[2]
      BY <2>2, <1>2, <1>3
    <3> HIDE DEF p
    <3>2. at[p] = <<n+1, p - Len(a)>>
      BY <3>1, <1>7
    <3> QED BY <3>1, <3>2, <2>2
  <2> QED BY <2>1, <2>2, <1>6
<1>12. Gathers(at, both, seqs, n+1)
  BY <1>8, <1>9, <1>10, <1>11 DEF Gathers
<1> QED BY <1>12 DEF both, b

\* Every element of a flattened sequence is one element of one part.
LEMMA FlattenGathers ==
  ASSUME NEW S, NEW seqs \in Seq(Seq(S))
  PROVE  /\ FlattenSeq(seqs) \in Seq(S)
         /\ \E at : Gathers(at, FlattenSeq(seqs), seqs, Len(seqs))
<1>0. Gathers(<<>>, <<>>, seqs, 0)
  BY DEF Gathers, Places
<1>1. CASE seqs = <<>>
  <2>1. FlattenSeq(seqs) = <<>> /\ Len(seqs) = 0
    BY <1>1 DEF FlattenSeq
  <2> QED BY <2>1, <1>0
<1>2. CASE seqs # <<>>
  <2>1. PICK g : Flattens(g, seqs, Len(seqs)) /\ FlattenSeq(seqs) = g[Len(seqs)]
    BY <1>2, FlattenEquation
  <2> DEFINE Good == {n \in Nat : n \in 1 .. Len(seqs) =>
                        g[n] \in Seq(S) /\ \E at : Gathers(at, g[n], seqs, n)}
  <2>2. 0 \in Good
    OBVIOUS
  <2>3. ASSUME NEW n \in Nat, n \in Good, n + 1 \in 1 .. Len(seqs)
        PROVE  g[n+1] \in Seq(S) /\ \E at : Gathers(at, g[n+1], seqs, n+1)
    <3>1. seqs[n+1] \in Seq(S) /\ <<>> \in Seq(S)
      BY <2>3
    <3>2. CASE n = 0
      <4>1. g[1] = seqs[1] /\ <<>> \o seqs[1] = seqs[1] /\ seqs[1] \in Seq(S)
        BY <2>1, <2>3, <3>1, <3>2 DEF Flattens
      <4>2. \E at : Gathers(at, <<>> \o seqs[n+1], seqs, n+1)
        <5>1. Gathers(<<>>, <<>>, seqs, n)
          BY <1>0, <3>2
        <5> QED BY <5>1, <2>3, <3>1, GathersOneMore
      <4> QED BY <4>1, <4>2, <3>2
    <3>3. CASE n # 0
      <4>1. n \in 1 .. Len(seqs) /\ n + 1 # 1 /\ (n + 1) - 1 = n
        BY <2>3, <3>3
      <4>2. g[n+1] = g[n] \o seqs[n+1]
        BY <2>1, <2>3, <4>1 DEF Flattens
      <4>3. g[n] \in Seq(S) /\ \E at : Gathers(at, g[n], seqs, n)
        BY <2>3, <4>1
      <4>4. \E at : Gathers(at, g[n] \o seqs[n+1], seqs, n+1)
        BY <2>3, <4>3, GathersOneMore
      <4> QED BY <3>1, <4>2, <4>3, <4>4
    <3> QED BY <3>2, <3>3
  <2>4. Nat \subseteq Good
    <3>1. ASSUME NEW n \in Nat, n \in Good PROVE n + 1 \in Good
      <4>1. CASE n + 1 \in 1 .. Len(seqs)
        <5>1. g[n+1] \in Seq(S) /\ \E at : Gathers(at, g[n+1], seqs, n+1)
          <6> HIDE DEF Good
          <6> QED BY <2>3, <3>1, <4>1
        <5> QED BY <5>1
      <4>2. CASE n + 1 \notin 1 .. Len(seqs)
        BY <3>1, <4>2
      <4> QED BY <4>1, <4>2
    <3> HIDE DEF Good
    <3> QED BY <2>2, <3>1, Induction
  <2>5. Len(seqs) \in Nat /\ Len(seqs) \in 1 .. Len(seqs)
    BY <1>2
  <2> QED BY <2>1, <2>4, <2>5
<1> QED BY <1>1, <1>2

-----------------------------------------------------------------------------
(* Event lists.                                                            *)

DayTyped == day \in [EventIds -> Days \cup {0}]

\* A list without repetitions is no longer than there are events.
LEMMA ListFits ==
  ASSUME NEW s \in Seq(EventIds), IsInjective(s)
  PROVE  Len(s) <= Cardinality(EventIds)
<1>1. s \in [1 .. Len(s) -> EventIds] /\ DOMAIN s = 1 .. Len(s) /\ Len(s) \in Nat
  OBVIOUS
<1>2. s \in Injection(1 .. Len(s), EventIds)
  BY <1>1 DEF Injection, IsInjective
<1>3. Cardinality(1 .. Len(s)) = Len(s)
  <2>1. \A n \in Nat : Cardinality(1 .. n) = n
    BY FS_Interval
  <2> QED BY <1>1, <2>1
<1> QED BY <1>2, <1>3, FS_Injection, EventFacts

\* The first of some events, by day and then by id.
LEMMA EarliestExists ==
  ASSUME DayTyped, NEW hits \in SUBSET EventIds, hits # {}
  PROVE  \E m \in hits : \A e \in hits \ {m} : Before(m, e)
<1>1. \A e \in EventIds : e \in Nat /\ day[e] \in Nat
  <2> SUFFICES ASSUME NEW e \in EventIds PROVE e \in Nat /\ day[e] \in Nat
    OBVIOUS
  <2>1. day[e] \in Days \cup {0}  BY DEF DayTyped
  <2> QED BY <2>1, EventFacts
<1> DEFINE days == {day[e] : e \in hits}
<1>2. PICK d \in days : \A x \in days : d <= x
  <2>1. days # {} /\ days \subseteq Nat  BY <1>1
  <2> HIDE DEF days
  <2> QED BY <2>1, Least
<1> DEFINE of == {e \in hits : day[e] = d}
<1>3. PICK m \in of : \A x \in of : m <= x
  <2>1. of # {} /\ of \subseteq Nat  BY <1>1, <1>2
  <2> HIDE DEF of
  <2> QED BY <2>1, Least
<1>4. ASSUME NEW e \in hits \ {m} PROVE Before(m, e)
  <2>1. m \in Nat /\ e \in Nat /\ day[m] \in Nat /\ day[e] \in Nat
    BY <1>1, <1>3
  <2>2. day[m] = d /\ d <= day[e]  BY <1>2, <1>3
  <2>3. CASE day[e] = d
    <3>1. m <= e  BY <1>3, <2>3
    <3> QED BY <2>1, <2>2, <2>3, <3>1 DEF Before
  <2>4. CASE day[e] # d
    BY <2>1, <2>2, <2>4 DEF Before
  <2> QED BY <2>3, <2>4
<1> QED BY <1>3, <1>4

Ordered(s, hits) ==
  /\ s \in [1 .. Cardinality(hits) -> hits]
  /\ \A i, j \in 1 .. Cardinality(hits) : i < j => Before(s[i], s[j])

\* A finite set of events has an order by day and id.
LEMMA OrderExists ==
  ASSUME DayTyped, NEW hits \in SUBSET EventIds
  PROVE  \E s : Ordered(s, hits)
<1> DEFINE Good == {n \in Nat : \A h \in SUBSET EventIds :
                      Cardinality(h) = n => \E s : Ordered(s, h)}
<1>1. \A h \in SUBSET EventIds : IsFiniteSet(h) /\ Cardinality(h) \in Nat
  BY EventFacts, FS_Subset, FS_CardinalityType
<1>2. 0 \in Good
  <2>1. ASSUME NEW h \in SUBSET EventIds, Cardinality(h) = 0
        PROVE  Ordered([i \in 1 .. 0 |-> i], h)
    BY <2>1 DEF Ordered
  <2> QED BY <2>1
<1>3. ASSUME NEW n \in Nat, n \in Good PROVE n + 1 \in Good
  <2>1. ASSUME NEW h \in SUBSET EventIds, Cardinality(h) = n + 1
        PROVE  \E s : Ordered(s, h)
    <3>1. h # {}  BY <2>1, FS_EmptySet
    <3>2. PICK m \in h : \A e \in h \ {m} : Before(m, e)
      BY <3>1, EarliestExists
    <3>3. Cardinality(h \ {m}) = n
      BY <1>1, <2>1, <3>2, FS_RemoveElement
    <3>4. PICK s : Ordered(s, h \ {m})
      BY <1>3, <3>3
    <3> DEFINE t == [i \in 1 .. n + 1 |-> IF i = 1 THEN m ELSE s[i - 1]]
    <3>5. /\ s \in [1 .. n -> h \ {m}]
          /\ \A i, j \in 1 .. n : i < j => Before(s[i], s[j])
      BY <3>3, <3>4 DEF Ordered
    <3>6. \A i \in 2 .. n + 1 : i - 1 \in 1 .. n /\ t[i] = s[i - 1]
      OBVIOUS
    <3>7. t \in [1 .. n + 1 -> h]
      BY <3>2, <3>5, <3>6
    <3>8. ASSUME NEW i \in 1 .. n + 1, NEW j \in 1 .. n + 1, i < j
          PROVE  Before(t[i], t[j])
      <4>1. j \in 2 .. n + 1 /\ j - 1 \in 1 .. n /\ t[j] = s[j - 1]
        BY <3>8, <3>6
      <4>2. CASE i = 1
        <5>1. t[i] = m /\ s[j - 1] \in h \ {m}  BY <4>1, <4>2, <3>5
        <5> HIDE DEF t
        <5> QED BY <3>2, <4>1, <5>1
      <4>3. CASE i # 1
        <5>1. i - 1 \in 1 .. n /\ t[i] = s[i - 1] /\ i - 1 < j - 1
          BY <4>3, <3>8
        <5> HIDE DEF t
        <5> QED BY <3>5, <4>1, <5>1
      <4> QED BY <4>2, <4>3
    <3> HIDE DEF t
    <3>9. Ordered(t, h)
      BY <2>1, <3>7, <3>8 DEF Ordered
    <3> QED BY <3>9
  <2> QED BY <2>1
<1>4. Nat \subseteq Good
  <2> HIDE DEF Good
  <2> QED BY <1>2, <1>3, Induction
<1> QED BY <1>1, <1>4

\* The rows a query returns, each once.
LEMMA RowsTyped ==
  ASSUME DayTyped, NEW days
  PROVE  Rows(days) \in Seq(EventIds) /\ IsInjective(Rows(days))
<1> DEFINE hits == {e \in EventIds : day[e] \in days}
           s    == Rows(days)
<1>1. hits \in SUBSET EventIds /\ Cardinality(hits) \in Nat
  BY EventFacts, FS_Subset, FS_CardinalityType
<1>2. Rows(days) = CHOOSE x \in [1 .. Cardinality(hits) -> hits] :
        \A i, j \in 1 .. Cardinality(hits) : i < j => Before(x[i], x[j])
  BY Zenon DEF Rows
<1> HIDE DEF hits
<1>3. Ordered(s, hits)
  BY <1>1, <1>2, OrderExists DEF Ordered
<1> HIDE DEF s
<1>4. s \in Seq(EventIds) /\ DOMAIN s = 1 .. Cardinality(hits)
  BY <1>1, <1>3 DEF Ordered
<1>5. ASSUME NEW i \in DOMAIN s, NEW j \in DOMAIN s, s[i] = s[j] PROVE i = j
  <2>1. s[i] \in EventIds  BY <1>1, <1>3, <1>4, <1>5 DEF Ordered
  <2>3. day[s[i]] \in Nat /\ s[i] \in Nat
    <3>1. day[s[i]] \in Days \cup {0}  BY <2>1 DEF DayTyped
    <3> QED BY <2>1, <3>1, EventFacts
  <2>2. ~Before(s[i], s[j]) /\ ~Before(s[j], s[i])
    BY <1>5, <2>3 DEF Before
  <2> QED BY <1>1, <1>3, <1>4, <2>2 DEF Ordered
<1>6. IsInjective(s)  BY <1>5 DEF IsInjective
<1> QED BY <1>4, <1>6 DEF s

-----------------------------------------------------------------------------
(* Selections.                                                             *)

\* A selection chooses events just when it says so, none of them twice, and one
\* at most unless "all" were asked for.
Sound(pick, ord) ==
  /\ pick.list \in Seq(EventIds) /\ IsInjective(pick.list)
  /\ pick.how \in {"chosen", "skipped", "needs_clarification"}
  /\ pick.how = "chosen" <=> pick.list # <<>>
  /\ ord # "all" => Len(pick.list) <= 1

\* The events a selector fits are a list without repetitions.
LEMMA FittingTyped ==
  ASSUME NEW list \in Seq(EventIds), IsInjective(list), NEW match
  PROVE  Fitting(list, match) \in Seq(EventIds) /\ IsInjective(Fitting(list, match))
<1> DEFINE parts == [i \in DOMAIN list |->
                       IF list[i] \in match THEN <<list[i]>> ELSE << >>]
           found == FlattenSeq(parts)
<1>1. DOMAIN list = 1 .. Len(list) /\ Len(list) \in Nat
  OBVIOUS
<1>2. \A i \in 1 .. Len(list) : list[i] \in EventIds
  OBVIOUS
<1>3. \A i \in 1 .. Len(list) :
        parts[i] \in Seq(EventIds) /\ \A k \in 1 .. Len(parts[i]) :
                                        k = 1 /\ parts[i][k] = list[i]
  BY <1>1, <1>2
<1>4. parts \in Seq(Seq(EventIds)) /\ Len(parts) = Len(list)
  BY <1>1, <1>3
<1> HIDE DEF parts
<1>5. found \in Seq(EventIds) /\ \E at : Gathers(at, found, parts, Len(parts))
  BY <1>4, FlattenGathers
<1>6. PICK at : Gathers(at, found, parts, Len(parts))
  BY <1>5
<1> HIDE DEF found
<1>7. ASSUME NEW p \in 1 .. Len(found)
      PROVE  /\ at[p][1] \in 1 .. Len(list)
             /\ at[p] = <<at[p][1], 1>> /\ found[p] = list[at[p][1]]
  <2>1. at[p] \in Places(parts, Len(parts)) /\ found[p] = parts[at[p][1]][at[p][2]]
    BY <1>6 DEF Gathers
  <2>2. /\ at[p][1] \in 1 .. Len(list) /\ at[p][2] \in 1 .. Len(parts[at[p][1]])
        /\ at[p] = <<at[p][1], at[p][2]>>
    BY <1>4, <2>1 DEF Places
  <2> QED BY <1>3, <2>1, <2>2
<1>8. ASSUME NEW p \in 1 .. Len(found), NEW q \in 1 .. Len(found),
             found[p] = found[q]
      PROVE  p = q
  <2>1. at[p][1] = at[q][1]
    BY <1>1, <1>7, <1>8 DEF IsInjective
  <2>2. at[p] = at[q]  BY <1>7, <2>1
  <2> QED BY <1>6, <2>2 DEF Gathers
<1>9. IsInjective(found)
  <2>1. DOMAIN found = 1 .. Len(found)  BY <1>5
  <2> QED BY <1>8, <2>1 DEF IsInjective
<1>10. Fitting(list, match) = found
  BY DEF Fitting, found, parts
<1> QED BY <1>5, <1>9, <1>10

\* select_calendar_events answers a sound selection, ambiguous or not.
LEMMA SelectSound ==
  ASSUME NEW list \in Seq(EventIds), IsInjective(list), NEW args \in Args
  PROVE  Sound(Select(list, args), args.ord)
<1> DEFINE found == Fitting(list, args.match)
           n     == Len(found)
           pick  == Select(list, args)
<1>1. found \in Seq(EventIds) /\ IsInjective(found)
  BY FittingTyped
<1>2. args.ord \in Ordinals
  BY CalendarAssumption
<1>3. pick =
        CASE n = 0                       -> Selection("skipped", << >>)
          [] n = 1                       -> Selection("chosen", found)
          [] n > 1 /\ args.ord = "first"  -> Selection("chosen", <<found[1]>>)
          [] n > 1 /\ args.ord = "second" -> Selection("chosen", <<found[2]>>)
          [] n > 1 /\ args.ord = "last"   -> Selection("chosen", <<found[n]>>)
          [] n > 1 /\ args.ord = "all"    -> Selection("chosen", found)
          [] n > 1 /\ args.ord = ""       -> Selection("needs_clarification", << >>)
  BY DEF Select
<1> SUFFICES Sound(pick, args.ord)
  OBVIOUS
<1> HIDE DEF found, pick
<1>4. n \in Nat /\ n = Len(found) /\ (n = 0 <=> found = <<>>)
  BY <1>1, EmptySeq
<1> HIDE DEF n
<1>5. \A e \in EventIds : Sound(Selection("chosen", <<e>>), args.ord)
  BY DEF Sound, Selection, IsInjective
<1>6. \A how \in {"skipped", "needs_clarification"} :
        Sound(Selection(how, << >>), args.ord)
  BY DEF Sound, Selection, IsInjective
<1>7. ASSUME n # 0, n = 1 \/ args.ord = "all"
      PROVE  Sound(Selection("chosen", found), args.ord)
  <2>1. found # <<>> /\ (args.ord # "all" => Len(found) <= 1)
    BY <1>4, <1>7
  <2> QED BY <1>1, <2>1 DEF Sound, Selection
<1>8. CASE n = 0
  <2>1. pick = Selection("skipped", << >>)  BY <1>3, <1>4, <1>8
  <2> QED BY <1>6, <2>1
<1>9. CASE n = 1
  <2>1. pick = Selection("chosen", found)  BY <1>3, <1>4, <1>9
  <2> QED BY <1>7, <1>9, <2>1
<1>10. CASE n > 1
  <2>1. /\ 1 \in 1 .. n /\ 2 \in 1 .. n /\ n \in 1 .. n
        /\ \A i \in 1 .. n : found[i] \in EventIds
    BY <1>1, <1>4, <1>10
  <2>2. CASE args.ord \in {"first", "second", "last"}
    <3>1. CASE args.ord = "first"
      <4>1. pick = Selection("chosen", <<found[1]>>)
        BY <1>3, <1>4, <1>10, <3>1
      <4> QED BY <1>5, <2>1, <4>1
    <3>2. CASE args.ord = "second"
      <4>1. pick = Selection("chosen", <<found[2]>>)
        BY <1>3, <1>4, <1>10, <3>2
      <4> QED BY <1>5, <2>1, <4>1
    <3>3. CASE args.ord = "last"
      <4>1. pick = Selection("chosen", <<found[n]>>)
        BY <1>3, <1>4, <1>10, <3>3
      <4> QED BY <1>5, <2>1, <4>1
    <3> QED BY <2>2, <3>1, <3>2, <3>3
  <2>3. CASE args.ord = "all"
    <3>1. pick = Selection("chosen", found)  BY <1>3, <1>4, <1>10, <2>3
    <3> QED BY <1>7, <1>4, <1>10, <2>3, <3>1
  <2>4. CASE args.ord = ""
    <3>1. pick = Selection("needs_clarification", << >>)
      <4>1. /\ args.ord # "first" /\ args.ord # "second"
            /\ args.ord # "last" /\ args.ord # "all"
        BY <2>4
      <4>2. ~(n = 0) /\ ~(n = 1)  BY <1>4, <1>10
      <4> QED BY <1>3, <1>10, <2>4, <4>1, <4>2, Zenon
    <3> QED BY <1>6, <3>1
  <2> QED BY <1>2, <2>2, <2>3, <2>4 DEF Ordinals
<1> QED BY <1>4, <1>8, <1>9, <1>10

\* So does an update that trusts a single observed event.
LEMMA TargetsSound ==
  ASSUME NEW list \in Seq(EventIds), IsInjective(list), NEW t \in Task
  PROVE  Sound(Targets(t, list), t.input.args.ord)
<1>1. t.input.args \in Args
  BY DEF Task, ToolInput
<1>2. CASE t.input.act = "update" /\ Len(list) = 1
  <2>1. Targets(t, list) = Selection("chosen", list)
    BY <1>2 DEF Targets
  <2>2. list # <<>>  BY <1>2, EmptySeq
  <2>3. Len(list) <= 1  BY <1>2
  <2>4. Sound(Selection("chosen", list), t.input.args.ord)
    BY <2>2, <2>3 DEF Sound, Selection
  <2> QED BY <2>1, <2>4
<1>3. CASE ~(t.input.act = "update" /\ Len(list) = 1)
  <2>1. Targets(t, list) = Select(list, t.input.args)
    BY <1>3 DEF Targets
  <2> QED BY <1>1, <2>1, SelectSound
<1> QED BY <1>2, <1>3

-----------------------------------------------------------------------------
(* Expansions.                                                             *)

\* new is the k-th expansion of t, with target e.
Expands(new, t, k, e) ==
  /\ new.id = IF k = 1 THEN t.id ELSE Nth(t.id, k)
  /\ new.kind = t.kind /\ new.deps = t.deps /\ new.tool = t.tool
  /\ new.input.act = t.input.act
  /\ new.input.args.ord = t.input.args.ord
  /\ new.input.args.target = e

\* An expansion has one task for each event of the list.
LEMMA ExpandTyped ==
  ASSUME approved \in Plans, NEW t \in Task, t.id \in Ids(approved),
         NEW list \in Seq(EventIds), IsInjective(list)
  PROVE  /\ Expand(t, list) \in Seq(Task) /\ Len(Expand(t, list)) = Len(list)
         /\ \A k \in 1 .. Len(list) : Expands(Expand(t, list)[k], t, k, list[k])
<1>1. DOMAIN list = 1 .. Len(list) /\ Len(list) \in Nat
  OBVIOUS
<1>2. Len(list) <= Cardinality(EventIds) /\ Cardinality(EventIds) \in Nat
  BY ListFits, FS_CardinalityType, EventFacts
<1>3. PICK j \in DOMAIN approved : approved[j].id = t.id
  BY DEF Ids
<1>4. /\ t.id \in TaskIds /\ t.kind \in Kinds /\ t.deps \in SUBSET TaskIds
      /\ t.tool \in Tools /\ t.input \in ToolInput
  BY DEF Task
<1>5. /\ t.input.act \in Acts /\ t.input.args \in Args
  BY <1>4 DEF ToolInput
<1>6. ASSUME NEW k \in 1 .. Len(list)
      PROVE  /\ Expand(t, list)[k] \in Task
             /\ Expands(Expand(t, list)[k], t, k, list[k])
  <2> DEFINE e  == list[k]
             id == IF k = 1 THEN t.id ELSE Nth(t.id, k)
             a  == [t.input.args EXCEPT !.target = e]
             new == Expand(t, list)[k]
  <2>1. e \in EventIds  OBVIOUS
  <2>2. a \in Args /\ a.target = e /\ a.ord = t.input.args.ord
    <3>1. t.input.args \in [days : SUBSET Days, target : EventIds \cup {0},
                            match : SUBSET EventIds, ord : Ordinals]
      BY <1>5, CalendarAssumption
    <3> QED BY <1>5, <2>1, <3>1, CalendarAssumption
  <2>3. id \in TaskIds
    <3>1. CASE k = 1  BY <1>4, <3>1
    <3>2. CASE k # 1
      <4>1. k \in 2 .. Cardinality(EventIds)  BY <1>2, <3>2
      <4> QED BY <1>3, <3>2, <4>1, ExpansionAssumption
    <3> QED BY <3>1, <3>2
  <2>4. new = [t EXCEPT !.id = id, !.input.args.target = e]
    BY <1>1 DEF Expand
  <2> HIDE DEF e
  <2>5. /\ new.kind = t.kind /\ new.deps = t.deps /\ new.tool = t.tool
        /\ new.id = id
    BY <2>4 DEF Task
  <2>6. new.input = [t.input EXCEPT !.args = a]
    BY <2>4 DEF Task
  <2> HIDE DEF a, id
  <2>7. new.input \in ToolInput /\ new.input.args = a /\ new.input.act = t.input.act
    BY <1>4, <2>2, <2>6 DEF ToolInput
  <2>8. new = [id |-> new.id, kind |-> new.kind, deps |-> new.deps,
               tool |-> new.tool, input |-> new.input]
    BY <2>4 DEF Task
  <2> HIDE DEF new
  <2>9. new \in Task
    BY <1>4, <2>3, <2>5, <2>7, <2>8 DEF Task
  <2>10. Expands(new, t, k, e)
    BY <2>2, <2>5, <2>7 DEF Expands, id
  <2> QED BY <2>9, <2>10 DEF new, e
<1>7. Expand(t, list) = [k \in 1 .. Len(list) |-> Expand(t, list)[k]]
  BY <1>1 DEF Expand
<1>8. Expand(t, list) \in Seq(Task) /\ Len(Expand(t, list)) = Len(list)
  <2> DEFINE x == Expand(t, list)
  <2> HIDE DEF x
  <2>1. x = [k \in 1 .. Len(list) |-> x[k]] /\ \A k \in 1 .. Len(list) : x[k] \in Task
    BY <1>6, <1>7 DEF x
  <2>2. x \in Seq(Task) /\ Len(x) = Len(list)  BY <1>1, <2>1
  <2> QED BY <2>2 DEF x
<1> QED BY <1>6, <1>8

-----------------------------------------------------------------------------
(* Rewritten queues.                                                       *)

Target(t) == t.input.args.target

\* A task that is, or may be called as, an update or a delete.
CanWrite(t) ==
  /\ t.kind = "tool" /\ t.tool = Calendar
  /\ t.input.act \in {"update", "delete", "none"}

Waiting == {i \in DOMAIN Tasks : CanWrite(Tasks[i]) /\ Target(Tasks[i]) = 0}

\* t is task c as it is called: the model may have filled in what it left open.
CalledAs(c, t) ==
  /\ c \in DOMAIN Tasks /\ Tasks[c] \in Task /\ Tasks[c].id \notin completed
  /\ t \in Task /\ t.id = Tasks[c].id /\ t.kind = Tasks[c].kind
  /\ t.deps = Tasks[c].deps /\ t.tool = Tasks[c].tool
  /\ Tasks[c].input.act # "none" => t.input.act = Tasks[c].input.act
  /\ Target(Tasks[c]) # 0 => Target(t) = Target(Tasks[c])

\* The tasks B that a queue is rewritten from are those of the run; a task that is
\* resolved by its own call is among them as it is called.
Based(c, t, B) ==
  /\ CalledAs(c, t)
  /\ \/ B = Tasks
     \/ IsWrite(t) /\ Target(t) = 0 /\ B = [Tasks EXCEPT ![c] = t]

LEMMA BaseFacts ==
  ASSUME Tasks \in Seq(Task), NEW c, NEW t, NEW B, Based(c, t, B)
  PROVE  /\ DOMAIN B = DOMAIN Tasks /\ B \in Seq(Task)
         /\ \A i \in DOMAIN Tasks :
              /\ B[i].id = Tasks[i].id /\ B[i].kind = Tasks[i].kind
              /\ B[i].tool = Tasks[i].tool /\ B[i].deps = Tasks[i].deps
              /\ CanWrite(B[i]) <=> CanWrite(Tasks[i])
              /\ IsWrite(Tasks[i]) => IsWrite(B[i])
              /\ Target(B[i]) = Target(Tasks[i])
              /\ i \notin Waiting => B[i] = Tasks[i]
              /\ B[i] = Tasks[i] \/ (i = c /\ B[i] = t /\ IsWrite(t))
<1>1. c \in DOMAIN Tasks /\ t \in Task /\ CalledAs(c, t)
  BY DEF Based, CalledAs
<1>2. CASE B = Tasks
  BY <1>2
<1>3. CASE IsWrite(t) /\ Target(t) = 0 /\ B = [Tasks EXCEPT ![c] = t]
  <2>1. DOMAIN B = DOMAIN Tasks /\ B \in Seq(Task)
    BY <1>1, <1>3
  <2>2. /\ IsWrite(t) /\ CanWrite(t) /\ CanWrite(Tasks[c])
        /\ Target(t) = Target(Tasks[c]) /\ c \in Waiting
    BY <1>1, <1>3 DEF CalledAs, IsWrite, CanWrite, Waiting
  <2>3. \A i \in DOMAIN Tasks : B[i] = IF i = c THEN t ELSE Tasks[i]
    BY <1>1, <1>3
  <2> QED BY <1>1, <2>1, <2>2, <2>3 DEF CalledAs
<1> QED BY <1>2, <1>3 DEF Based

\* q holds the tasks B, those at U replaced by one copy for each event of their
\* list: the copy at p is number from[p][2] of task from[p][1].
Copies(U, L, i) == IF i \in U THEN Len(L[i]) ELSE 1
IsCopy(new, B, U, L, i, k) ==
  IF i \in U THEN Expands(new, B[i], k, L[i][k]) ELSE new = B[i]
CopiedFrom(from, q, B, U, L) ==
  /\ \A p \in DOMAIN q :
       /\ from[p][1] \in DOMAIN Tasks
       /\ from[p][2] \in 1 .. Copies(U, L, from[p][1])
       /\ IsCopy(q[p], B, U, L, from[p][1], from[p][2])
  /\ \A p1, p2 \in DOMAIN q :
       from[p1][1] = from[p2][1] /\ from[p1][2] = from[p2][2] => p1 = p2
  /\ \A i \in DOMAIN Tasks : \A k \in 1 .. Copies(U, L, i) :
       \E p \in DOMAIN q : from[p][1] = i /\ from[p][2] = k
Rewrites(q, B, U, L) == q \in Seq(Task) /\ \E from : CopiedFrom(from, q, B, U, L)

\* Flattening the expansions in their places rewrites the queue.
LEMMA FlattenRewrites ==
  ASSUME approved \in Plans, Tasks \in Seq(Task), NEW U \in SUBSET DOMAIN Tasks, NEW L,
         NEW B \in Seq(Task), DOMAIN B = DOMAIN Tasks,
         \A i \in U : /\ B[i].id \in Ids(approved)
                      /\ L[i] \in Seq(EventIds) /\ IsInjective(L[i])
  PROVE  Rewrites(FlattenSeq([i \in DOMAIN Tasks |->
                                IF i \in U THEN Expand(B[i], L[i])
                                           ELSE <<B[i]>>]), B, U, L)
<1> DEFINE parts == [i \in DOMAIN Tasks |->
                       IF i \in U THEN Expand(B[i], L[i]) ELSE <<B[i]>>]
           q == FlattenSeq(parts)
<1>1. DOMAIN Tasks = 1 .. Len(Tasks) /\ Len(Tasks) \in Nat
  OBVIOUS
<1>2. \A i \in DOMAIN Tasks : B[i] \in Task
  OBVIOUS
<1>3. ASSUME NEW i \in DOMAIN Tasks
      PROVE  /\ parts[i] \in Seq(Task) /\ Len(parts[i]) = Copies(U, L, i)
             /\ \A k \in 1 .. Len(parts[i]) : IsCopy(parts[i][k], B, U, L, i, k)
  <2>1. CASE i \in U
    <3>1. parts[i] = Expand(B[i], L[i])  BY <2>1
    <3>2. /\ Expand(B[i], L[i]) \in Seq(Task)
          /\ Len(Expand(B[i], L[i])) = Len(L[i])
          /\ \A k \in 1 .. Len(L[i]) :
               Expands(Expand(B[i], L[i])[k], B[i], k, L[i][k])
      BY <1>2, <2>1, ExpandTyped
    <3> HIDE DEF parts
    <3> QED BY <2>1, <3>1, <3>2 DEF Copies, IsCopy
  <2>2. CASE i \notin U
    <3>1. parts[i] = <<B[i]>>  BY <2>2
    <3> HIDE DEF parts
    <3> QED BY <1>2, <2>2, <3>1 DEF Copies, IsCopy
  <2> QED BY <2>1, <2>2
<1>4. parts \in Seq(Seq(Task)) /\ Len(parts) = Len(Tasks)
  <2>1. parts = [i \in 1 .. Len(Tasks) |-> parts[i]]  BY <1>1
  <2> HIDE DEF parts
  <2> QED BY <1>1, <1>3, <2>1
<1> SUFFICES Rewrites(q, B, U, L)
  OBVIOUS
<1> HIDE DEF parts
<1>5. q \in Seq(Task) /\ \E at : Gathers(at, q, parts, Len(parts))
  BY <1>4, FlattenGathers
<1>6. PICK at : Gathers(at, q, parts, Len(parts))
  BY <1>5
<1> HIDE DEF q
<1>7. DOMAIN q = 1 .. Len(q)  BY <1>5
<1>8. ASSUME NEW p \in DOMAIN q
      PROVE  /\ at[p][1] \in DOMAIN Tasks
             /\ at[p][2] \in 1 .. Copies(U, L, at[p][1])
             /\ IsCopy(q[p], B, U, L, at[p][1], at[p][2])
             /\ at[p] = <<at[p][1], at[p][2]>>
  <2>1. at[p] \in Places(parts, Len(parts)) /\ q[p] = parts[at[p][1]][at[p][2]]
    BY <1>6, <1>7 DEF Gathers
  <2>2. /\ at[p][1] \in DOMAIN Tasks /\ at[p][2] \in 1 .. Len(parts[at[p][1]])
        /\ at[p] = <<at[p][1], at[p][2]>>
    BY <1>1, <1>4, <2>1 DEF Places
  <2> QED BY <1>3, <2>1, <2>2
<1>9. \A p1, p2 \in DOMAIN q :
        at[p1][1] = at[p2][1] /\ at[p1][2] = at[p2][2] => p1 = p2
  <2> SUFFICES ASSUME NEW p1 \in DOMAIN q, NEW p2 \in DOMAIN q,
                      at[p1][1] = at[p2][1], at[p1][2] = at[p2][2]
               PROVE  p1 = p2
    OBVIOUS
  <2>1. at[p1] = at[p2]  BY <1>8
  <2> QED BY <1>6, <1>7, <2>1 DEF Gathers
<1>10. ASSUME NEW i \in DOMAIN Tasks, NEW k \in 1 .. Copies(U, L, i)
       PROVE  \E p \in DOMAIN q : at[p][1] = i /\ at[p][2] = k
  <2>1. <<i, k>> \in Places(parts, Len(parts))
    BY <1>1, <1>3, <1>4 DEF Places
  <2>2. PICK p \in 1 .. Len(q) : at[p] = <<i, k>>
    BY <1>6, <2>1 DEF Gathers
  <2> QED BY <1>7, <2>2
<1>11. CopiedFrom(at, q, B, U, L)
  BY <1>8, <1>9, <1>10 DEF CopiedFrom
<1> QED BY <1>5, <1>11 DEF Rewrites

\* A queue left alone is a rewritten one.
LEMMA NothingRewritten ==
  ASSUME Tasks \in Seq(Task), NEW L
  PROVE  Rewrites(Tasks, Tasks, {}, L)
<1> DEFINE from == [p \in DOMAIN Tasks |-> <<p, 1>>]
<1>1. \A p \in DOMAIN Tasks : from[p][1] = p /\ from[p][2] = 1
  OBVIOUS
<1> HIDE DEF from
<1>2. /\ \A i : Copies({}, L, i) = 1
      /\ \A new, i, k : IsCopy(new, Tasks, {}, L, i, k) <=> new = Tasks[i]
  BY DEF Copies, IsCopy
<1>3. CopiedFrom(from, Tasks, Tasks, {}, L)
  BY <1>1, <1>2 DEF CopiedFrom
<1> QED BY <1>3 DEF Rewrites

-----------------------------------------------------------------------------
(* The inductive invariant of a calendar turn.                             *)

\* The request r is apart (the model filled in its target, or one of its tasks was
\* settled by repeating a query or by a batch the model put together), or was put
\* back to the user.
Apart(r) ==
  <<r, "target">> \in supplied \/ \E x \in reused \cup gathered : Root(x) = r
Back(r)  == \E h \in withheld : h[1] = r

\* The tasks of request r that are, or may be called as, writes.
Writes(r) == {i \in DOMAIN Tasks : CanWrite(Tasks[i]) /\ Root(Tasks[i].id) = r}

Synced == result = "running" => plan = queue

\* Every task comes from an approved one, which it takes after.
Descends(s, t) ==
  /\ Root(s.id) = t.id /\ (CanWrite(s) <=> CanWrite(t))
  /\ IsWrite(t) => IsWrite(s)
  /\ s.input.args.ord = "all" =>
       t.input.args.ord = "all" \/ <<t.id, "all">> \in supplied
Descent ==
  /\ \A i, j \in DOMAIN Tasks : Tasks[i].id = Tasks[j].id => i = j
  /\ \A i \in DOMAIN Tasks : \E j \in DOMAIN approved :
       Descends(Tasks[i], approved[j])
  /\ \A i \in DOMAIN Tasks :
       CanWrite(Tasks[i]) /\ Tasks[i].input.args.ord # "all"
         => Root(Tasks[i].id) = Tasks[i].id

\* A write that waits for its target is all there is of its request.
Alone ==
  \A i \in Waiting :
    LET r == Tasks[i].id
    IN  /\ Root(r) = r
        /\ \A j \in DOMAIN Tasks : Root(Tasks[j].id) = r => j = i
        /\ \A x \in completed : Root(x) = r => x = r

\* The resolved writes of one request have targets of their own, those chosen
\* for it.
Aimed ==
  /\ \A i, j \in {k \in DOMAIN Tasks : CanWrite(Tasks[k]) /\ Target(Tasks[k]) # 0} :
       Root(Tasks[i].id) = Root(Tasks[j].id) /\ Target(Tasks[i]) = Target(Tasks[j])
         => i = j
  /\ \A r \in TaskIds, e \in EventIds :
       <<r, e>> \in selected <=>
         \E i \in DOMAIN Tasks : /\ IsWrite(Tasks[i]) /\ Root(Tasks[i].id) = r
                                 /\ Target(Tasks[i]) = e

\* Until a call fails, a changed event is the target of a completed write ...
Traced ==
  result # "error" =>
    \A r \in TaskIds, e \in EventIds :
      <<r, "target">> \notin supplied /\ wrote[r][e] > 0 =>
        \E i \in Writes(r) : Target(Tasks[i]) = e /\ Tasks[i].id \in completed

\* ... and what a completed write was to change is changed.
Carried ==
  result # "error" =>
    \A j \in DOMAIN approved :
      LET r == approved[j].id
      IN  IsWrite(approved[j]) /\ ~Apart(r) /\ ~Back(r) =>
            /\ Writes(r) # {}
            /\ \A i \in Writes(r) :
                 Tasks[i].id \in completed =>
                   Target(Tasks[i]) # 0 /\ wrote[r][Target(Tasks[i])] > 0

Single ==
  \A j \in DOMAIN approved :
    LET r == approved[j].id
        all == approved[j].input.args.ord = "all" \/ <<r, "all">> \in supplied
    IN  IsWrite(approved[j]) /\ ~all =>
          /\ \A d, e \in Changed(r) : d = e
          /\ result # "error" /\ Changed(r) # {} => r \in completed

\* What was withheld for want of one event has no task left.
Gone ==
  result = "running" =>
    \A h \in withheld : h[2] # "no_source" =>
      \A i \in DOMAIN Tasks : Root(Tasks[i].id) # h[1]

Over == result = "success" => LeftToExecute(Tasks, completed) = {}

Sourced == IsInjective(source.list)

Held == CalTypeOK /\ Synced /\ Descent /\ Alone /\ Aimed /\ Sourced
CalInv ==
  /\ Held
  /\ Traced /\ Carried /\ Single /\ Gone /\ Over /\ NoDoubleWrite

-----------------------------------------------------------------------------
(* Replies.                                                                *)

Reasons == {"skipped", "needs_clarification", "no_source"}
Reply ==
  [status : ToolStatus, done : SUBSET TaskIds, queue : Seq(Task),
   rows : [EventIds -> Days \cup {0}],
   source : [has : BOOLEAN, list : Seq(EventIds)],
   held : SUBSET (TaskIds \X Reasons), chosen : SUBSET (TaskIds \X EventIds),
   target : EventIds \cup {0}]

\* A reply that neither withholds nor resolves anything.
Plain(r, left) ==
  /\ r \in Reply /\ r.queue = left /\ r.held = {} /\ r.chosen = {}
  /\ r.source = source

\* The replies of the callback, from the simplest on.
LEMMA FailedReply ==
  ASSUME CalTypeOK, NEW left \in Seq(Task)
  PROVE  /\ Plain(Failed(left), left)
         /\ Failed(left).status = "error" /\ Failed(left).done = {}
         /\ Failed(left).target = 0 /\ Failed(left).rows = day
  BY DEF Failed, Plain, Reply, CalTypeOK, ToolStatus

\* A call that did its work and no write.
LEMMA DoneReply ==
  ASSUME CalTypeOK, NEW left \in Seq(Task), NEW t, t.id \in TaskIds
  PROVE  /\ Plain(Done(t, left), left)
         /\ Done(t, left).status = "success" /\ Done(t, left).done = {t.id}
         /\ Done(t, left).target = 0 /\ Done(t, left).rows = day
<1> DEFINE f == Failed(left)
           r == [f EXCEPT !.status = "success", !.done = {t.id}]
<1>1. Plain(f, left) /\ f.target = 0 /\ f.rows = day
  BY FailedReply
<1> HIDE DEF f
<1>2. r \in Reply
  BY <1>1 DEF Plain, Reply, ToolStatus
<1>3. r.queue = f.queue /\ r.held = f.held /\ r.chosen = f.chosen /\ r.source = f.source
  BY <1>1 DEF Plain, Reply
<1>4. r.status = "success" /\ r.done = {t.id} /\ r.target = f.target /\ r.rows = f.rows
  BY <1>1 DEF Plain, Reply
<1>5. Done(t, left) = r
  BY DEF Done, f
<1> HIDE DEF r
<1> QED BY <1>1, <1>2, <1>3, <1>4, <1>5 DEF Plain

\* A write either fails and changes nothing, or changes its target.
LEMMA WrittenReply ==
  ASSUME CalTypeOK, NEW left \in Seq(Task), NEW t \in Task, t.input.args.target # 0
  PROVE  LET r == Written(t, left)
         IN  /\ Plain(r, left)
             /\ \/ r.status = "error" /\ r.done = {} /\ r.target = 0
                \/ r.status = "success" /\ r.done = {t.id} /\ r.target = t.input.args.target
<1> DEFINE e == t.input.args.target
           f == Done(t, left)
           d == IF t.input.act = "delete" THEN 0
                ELSE IF t.input.args.days = {} THEN day[e]
                ELSE CHOOSE x \in t.input.args.days : TRUE
           w == [f EXCEPT !.target = e, !.rows[e] = d]
<1>1. /\ t.id \in TaskIds /\ e \in EventIds /\ t.input.args.days \subseteq Days
  <2>1. t.id \in TaskIds /\ t.input.args \in Args
    BY DEF Task, ToolInput
  <2> QED BY <2>1, CalendarAssumption
<1>2. /\ Plain(f, left) /\ f.status = "success" /\ f.done = {t.id} /\ f.rows = day
  BY <1>1, DoneReply
<1>3. day \in [EventIds -> Days \cup {0}]  BY DEF CalTypeOK
<1>4. d \in Days \cup {0}  BY <1>1, <1>3
<1>5. CASE day[e] = 0
  <2>1. Written(t, left) = Failed(left)  BY <1>5 DEF Written
  <2> QED BY <2>1, FailedReply
<1>6. CASE day[e] # 0
  <2>1. Written(t, left) = w
    BY <1>2, <1>6 DEF Written
  <2> HIDE DEF f, d, e
  <2>2. w \in Reply
    BY <1>1, <1>2, <1>3, <1>4 DEF Plain, Reply
  <2>3. w.queue = f.queue /\ w.held = f.held /\ w.chosen = f.chosen /\ w.source = f.source
    BY <1>2 DEF Plain, Reply
  <2>4. w.status = f.status /\ w.done = f.done /\ w.target = e
    BY <1>2 DEF Plain, Reply
  <2> HIDE DEF w
  <2> QED BY <1>2, <2>1, <2>2, <2>3, <2>4 DEF Plain, e
<1> QED BY <1>5, <1>6

\* The waiting tasks at U, as they are in B, are to be replaced by writes to the
\* events of their lists.
Rewriting(c, t, B, U, L) ==
  /\ Based(c, t, B) /\ U \in SUBSET Waiting
  /\ \A i \in U : /\ IsWrite(B[i]) /\ L[i] \in Seq(EventIds) /\ IsInjective(L[i])
                  /\ B[i].input.args.ord # "all" => Len(L[i]) <= 1

\* What a reply r to the call of task c, as t, does to the run: it rewrites the
\* waiting writes at U, those with an empty list being withheld.
Effect(c, t, r, B, U, L) ==
  /\ r \in Reply /\ IsInjective(r.source.list)
  /\ Rewriting(c, t, B, U, L) /\ Rewrites(r.queue, B, U, L)
  /\ \A i \in U :
       L[i] = <<>> => /\ Tasks[i].id \in completed \cup r.done
                      /\ \/ Tasks[i].id \in completed
                         \/ \E h \in r.held : h[1] = Root(Tasks[i].id)
  /\ \A x, e : <<x, e>> \in r.chosen <=>
       \E i \in U : x = Root(Tasks[i].id) /\ e \in ToSet(L[i])
  /\ \A h \in r.held : h[2] # "no_source" =>
       \E i \in U : L[i] = <<>> /\ h[1] = Root(Tasks[i].id)
  /\ \A x \in r.done : x = Tasks[c].id \/ \E i \in U : L[i] = <<>> /\ x = Tasks[i].id
  /\ r.status # "error" =>
       /\ Tasks[c].id \in r.done
       /\ IsWrite(t) =>
            r.target # 0 \/ \E h \in r.held : h[1] = Root(Tasks[c].id)
  /\ r.target # 0 =>
       /\ IsWrite(t)
       /\ \/ U = {} /\ B = Tasks /\ Target(t) = r.target
          \/ U = {c} /\ L[c] # <<>> /\ r.target = L[c][1]

\* A task that is called as a write may be called so.
LEMMA CalledFacts ==
  ASSUME NEW c, NEW t, CalledAs(c, t)
  PROVE  /\ IsWrite(t) => CanWrite(Tasks[c])
         /\ IsWrite(Tasks[c]) => IsWrite(t)
         /\ IsQuery(t) => ~IsWrite(Tasks[c])
         /\ IsWrite(t) /\ Target(t) = 0 => c \in Waiting
         /\ Based(c, t, Tasks)
  BY DEF CalledAs, IsWrite, IsQuery, CanWrite, Waiting, Based

\* What the model fills in is what a task leaves open.
LEMMA MergesTyped ==
  ASSUME NEW t \in Task, NEW a, a.input \in ToolInput \cup {NoInput},
         NEW m \in Merges(a, t)
  PROVE  /\ m \in Task /\ m.id = t.id /\ m.kind = t.kind
         /\ m.deps = t.deps /\ m.tool = t.tool
         /\ t.input.act # "none" => m.input.act = t.input.act
         /\ Target(t) # 0 => Target(m) = Target(t)
<1>1. CASE a.input = NoInput
  BY <1>1 DEF Merges
<1>2. CASE a.input # NoInput
  <2> DEFINE own  == t.input.args
             said == a.input.args
             act  == IF t.input.act = "none" THEN a.input.act ELSE t.input.act
             target == IF own.target = 0 THEN said.target ELSE own.target
  <2> DEFINE D == IF act = "update" /\ said.days # {}
                  THEN {own.days, said.days} ELSE {own.days}
             S == {<<own.match, own.ord>>, <<said.match, own.ord>>,
                   <<said.match, said.ord>>}
             filled(days, selector) ==
               [t EXCEPT !.input =
                  [act |-> act, args |-> [days |-> days, target |-> target,
                                          match |-> selector[1],
                                          ord |-> selector[2]]]]
  <2>0. Merges(a, t) = {filled(days, selector) : days \in D, selector \in S}
    BY <1>2 DEF Merges
  <2>1. PICK days \in D, selector \in S : m = filled(days, selector)
    <3> HIDE DEF D, S, filled
    <3> QED BY <2>0
  <2>2. /\ t.input.act \in Acts /\ a.input.act \in Acts
        /\ own \in Args /\ said \in Args
    BY <1>2 DEF Task, ToolInput
  <2>3. /\ own \in [days : SUBSET Days, target : EventIds \cup {0},
                    match : SUBSET EventIds, ord : Ordinals]
        /\ said \in [days : SUBSET Days, target : EventIds \cup {0},
                     match : SUBSET EventIds, ord : Ordinals]
    BY <2>2, CalendarAssumption
  <2>4. /\ act \in Acts /\ (t.input.act # "none" => act = t.input.act)
        /\ target \in EventIds \cup {0} /\ (own.target # 0 => target = own.target)
        /\ days \in SUBSET Days
        /\ selector[1] \in SUBSET EventIds /\ selector[2] \in Ordinals
    BY <2>1, <2>2, <2>3
  <2> DEFINE args  == [days |-> days, target |-> target,
                       match |-> selector[1], ord |-> selector[2]]
             input == [act |-> act, args |-> args]
  <2>5. args \in Args
    <3>1. args \in [days : SUBSET Days, target : EventIds \cup {0},
                    match : SUBSET EventIds, ord : Ordinals]
      BY <2>4
    <3> QED BY <3>1, CalendarAssumption
  <2>6. input \in ToolInput /\ input.act = act /\ input.args.target = target
    BY <2>4, <2>5 DEF ToolInput
  <2>7. m = [t EXCEPT !.input = input]  BY <2>1
  <2> HIDE DEF own, said, act, target, args, input
  <2>8. /\ m \in Task /\ m.id = t.id /\ m.kind = t.kind
        /\ m.deps = t.deps /\ m.tool = t.tool /\ m.input = input
    BY <2>6, <2>7 DEF Task
  <2> QED BY <2>4, <2>6, <2>8 DEF Target, own
<1> QED BY <1>1, <1>2

\* A reply that rewrites nothing has the effect of one.
LEMMA QuietEffect ==
  ASSUME CalTypeOK, Sourced, NEW c, NEW t, CalledAs(c, t), NEW r, Plain(r, Tasks),
         \/ r.status = "error" /\ r.done = {}
         \/ r.done = {Tasks[c].id} /\ (IsWrite(t) => r.target # 0),
         r.target # 0 => IsWrite(t) /\ Target(t) = r.target
  PROVE  Effect(c, t, r, Tasks, {}, <<>>)
<1>1. Tasks \in Seq(Task)
  BY DEF CalTypeOK, TypeOK, Tasks, TasksOf
<1>2. Rewrites(r.queue, Tasks, {}, <<>>)
  BY <1>1, NothingRewritten DEF Plain
<1>3. \A x, e : <<x, e>> \notin r.chosen
  BY DEF Plain
<1>4. Rewriting(c, t, Tasks, {}, <<>>)
  BY CalledFacts DEF Rewriting
<1> QED BY <1>2, <1>3, <1>4 DEF Effect, Plain, Sourced

\* A change whose read-back failed is reported as an error.
LEMMA DoubtEffect ==
  ASSUME NEW c, NEW t, NEW r, NEW B, NEW U, NEW L, Effect(c, t, r, B, U, L),
         \A i \in U : L[i] # <<>>
  PROVE  Effect(c, t, Unconfirmed(r), B, U, L)
<1> DEFINE u == Unconfirmed(r)
<1>1. r \in Reply  BY DEF Effect
<1>2. u \in Reply /\ u.status = "error" /\ u.done = {}
  BY <1>1 DEF Unconfirmed, Reply, ToolStatus
<1>3. /\ u.queue = r.queue /\ u.rows = r.rows /\ u.source = r.source
      /\ u.held = r.held /\ u.chosen = r.chosen /\ u.target = r.target
  BY <1>1 DEF Unconfirmed, Reply
<1> HIDE DEF u
<1> SUFFICES Effect(c, t, u, B, U, L)
  BY DEF u
<1> QED BY <1>2, <1>3 DEF Effect

\* A write with a target.
LEMMA WriteEffect ==
  ASSUME CalTypeOK, Sourced, NEW c, NEW t, CalledAs(c, t), IsWrite(t), ~Unresolved(t)
  PROVE  Effect(c, t, Written(t, Tasks), Tasks, {}, <<>>)
<1> DEFINE r == Written(t, Tasks)
<1>1. Tasks \in Seq(Task) /\ t \in Task /\ t.input.args.target # 0 /\ t.id = Tasks[c].id
  BY DEF CalTypeOK, TypeOK, Tasks, TasksOf, CalledAs, Unresolved
<1>2. /\ Plain(r, Tasks)
      /\ \/ r.status = "error" /\ r.done = {} /\ r.target = 0
         \/ r.status = "success" /\ r.done = {t.id} /\ r.target = t.input.args.target
  BY <1>1, WrittenReply
<1> HIDE DEF r
<1>3. Effect(c, t, r, Tasks, {}, <<>>)
  BY <1>1, <1>2, QuietEffect DEF Target
<1> QED BY <1>3 DEF r

\* A call that is neither a write nor a query.
LEMMA PlainEffect ==
  ASSUME CalTypeOK, Sourced, NEW c, NEW t, CalledAs(c, t), ~IsWrite(t), ~IsQuery(t),
         NEW r \in CalendarReplies(t)
  PROVE  Effect(c, t, r, Tasks, {}, <<>>)
<1>1. Tasks \in Seq(Task) /\ t.id = Tasks[c].id /\ t.id \in TaskIds
  BY DEF CalTypeOK, TypeOK, Tasks, TasksOf, CalledAs, Task
<1>2. /\ Plain(Failed(Tasks), Tasks)
      /\ Failed(Tasks).status = "error" /\ Failed(Tasks).done = {}
      /\ Failed(Tasks).target = 0
  BY <1>1, FailedReply
<1> DEFINE f == Done(t, Tasks)
<1>3. /\ Plain(f, Tasks) /\ f.done = {t.id} /\ f.target = 0 /\ f.rows = day
  BY <1>1, DoneReply
<1>4. CASE r = Failed(Tasks)
  BY <1>1, <1>2, <1>4, QuietEffect
<1>5. CASE r \in Created(t)
  <2>1. PICK e \in EventIds, d \in t.input.args.days : r = [f EXCEPT !.rows[e] = d]
    BY <1>5 DEF Created
  <2>2. d \in Days
    <3>1. t.input.args \in Args  BY DEF CalledAs, Task, ToolInput
    <3> QED BY <3>1, CalendarAssumption
  <2> HIDE DEF f
  <2>3. r \in Reply
    BY <1>3, <2>1, <2>2 DEF Plain, Reply
  <2>4. /\ r.queue = f.queue /\ r.held = f.held /\ r.chosen = f.chosen
        /\ r.source = f.source /\ r.done = f.done /\ r.target = f.target
    BY <1>3, <2>1 DEF Plain, Reply
  <2>5. Plain(r, Tasks)
    BY <1>3, <2>3, <2>4 DEF Plain
  <2> QED BY <1>1, <1>3, <2>4, <2>5, QuietEffect
<1>6. CASE r = f
  <2> HIDE DEF f
  <2> QED BY <1>1, <1>3, <1>6, QuietEffect
<1>7. r = Failed(Tasks) \/ r \in Created(t) \/ r = f
  <2>1. CASE t.tool = Calendar /\ t.input.act = "create"
    BY <2>1 DEF CalendarReplies
  <2>2. CASE ~(t.tool = Calendar /\ t.input.act = "create")
    BY <2>2 DEF CalendarReplies
  <2> QED BY <2>1, <2>2
<1> QED BY <1>4, <1>5, <1>6, <1>7

\* A waiting task is the approved task itself.
LEMMA WaitingApproved ==
  ASSUME Held, NEW i \in Waiting
  PROVE  /\ i \in DOMAIN Tasks /\ Tasks[i] \in Task /\ Root(Tasks[i].id) = Tasks[i].id
         /\ Tasks[i].id \in Ids(approved) /\ Tasks[i].id \in TaskIds
         /\ CanWrite(Tasks[i]) /\ Target(Tasks[i]) = 0
<1>1. i \in DOMAIN Tasks /\ CanWrite(Tasks[i]) /\ Target(Tasks[i]) = 0
  BY DEF Waiting
<1>2. Tasks \in Seq(Task) /\ approved \in Plans
  BY DEF Held, CalTypeOK, TypeOK, Tasks, TasksOf
<1>3. Root(Tasks[i].id) = Tasks[i].id
  BY DEF Held, Alone
<1>4. PICK j \in DOMAIN approved : Root(Tasks[i].id) = approved[j].id
  BY <1>1, Zenon DEF Held, Descent, Descends
<1>5. Tasks[i] \in Task  BY <1>1, <1>2
<1> QED BY <1>1, <1>3, <1>4, <1>5 DEF Ids, Task

\* resolve_task_from_context puts the expansions, or an unresolved write as it was
\* called, in the task's place.
LEMMA PutBackRewrites ==
  ASSUME Held, NEW c, NEW t, CalledAs(c, t), IsWrite(t), Target(t) = 0,
         NEW U \in SUBSET {c}, NEW list \in Seq(EventIds), IsInjective(list)
  PROVE  LET B == [Tasks EXCEPT ![c] = t]
         IN  Rewrites(PutBack(t, IF c \in U THEN Expand(t, list) ELSE <<t>>),
                      B, U, [i \in {c} |-> list])
<1> DEFINE L == [i \in {c} |-> list]
           B == [Tasks EXCEPT ![c] = t]
           E == IF c \in U THEN Expand(t, list) ELSE <<t>>
<1>1. Tasks \in Seq(Task) /\ approved \in Plans
  BY DEF Held, CalTypeOK, TypeOK, Tasks, TasksOf
<1>2. c \in DOMAIN Tasks /\ Tasks[c].id \in Ids(approved) /\ t.id = Tasks[c].id
      /\ t \in Task
  <2>1. c \in Waiting  BY CalledFacts
  <2> QED BY <2>1, WaitingApproved DEF CalledAs
<1>3. \A i \in DOMAIN Tasks : Tasks[i].id = t.id <=> i = c
  BY <1>2 DEF Held, Descent
<1>4. /\ B \in Seq(Task) /\ DOMAIN B = DOMAIN Tasks
      /\ \A i \in DOMAIN Tasks : B[i] = IF i = c THEN t ELSE Tasks[i]
  BY <1>1, <1>2
<1>5. L[c] = list  OBVIOUS
<1> HIDE DEF B, L
<1>6. \A i \in DOMAIN Tasks :
        (IF Tasks[i].id = t.id THEN E ELSE <<Tasks[i]>>)
        = (IF i \in U THEN Expand(B[i], L[i]) ELSE <<B[i]>>)
  BY <1>2, <1>3, <1>4, <1>5
<1> HIDE DEF E
<1>7. [i \in DOMAIN Tasks |-> IF Tasks[i].id = t.id THEN E ELSE <<Tasks[i]>>]
      = [i \in DOMAIN Tasks |->
           IF i \in U THEN Expand(B[i], L[i]) ELSE <<B[i]>>]
  BY <1>6
<1>8. \A i \in U : /\ B[i].id \in Ids(approved)
                   /\ L[i] \in Seq(EventIds) /\ IsInjective(L[i])
  BY <1>2, <1>4, <1>5
<1>9. U \in SUBSET DOMAIN Tasks  BY <1>2
<1>10. Rewrites(FlattenSeq([i \in DOMAIN Tasks |->
                  IF i \in U THEN Expand(B[i], L[i]) ELSE <<B[i]>>]), B, U, L)
  BY <1>1, <1>4, <1>8, <1>9, FlattenRewrites
<1>11. Rewrites(PutBack(t, E), B, U, L)
  BY <1>7, <1>10 DEF PutBack
<1> QED BY <1>11 DEF L, B, E

\* A write resolved by its own call, chosen, ambiguous or without a source.
LEMMA ResolveEffect ==
  ASSUME Held, NEW c, NEW t, CalledAs(c, t), IsWrite(t), Unresolved(t)
  PROVE  \E B, U, L : /\ Effect(c, t, ResolveAndWrite(t), B, U, L)
                      /\ ResolveAndWrite(t).target # 0 => \A i \in U : L[i] # <<>>
<1>1. c \in Waiting /\ t.id = Tasks[c].id /\ t \in Task /\ Target(t) = 0
      /\ t.input.args.target = 0
  BY CalledFacts DEF CalledAs, Unresolved, Target
<1>2. /\ Root(t.id) = t.id /\ t.id \in Ids(approved)
      /\ t.id \in TaskIds /\ c \in DOMAIN Tasks
  BY <1>1, WaitingApproved
<1>3. Tasks \in Seq(Task) /\ approved \in Plans /\ CalTypeOK /\ Sourced
  BY DEF Held, CalTypeOK, TypeOK, Tasks, TasksOf
<1>4. source.list \in Seq(EventIds) /\ IsInjective(source.list) /\ source.has \in BOOLEAN
  BY <1>3 DEF CalTypeOK, Sourced
<1> DEFINE pick == Targets(t, source.list)
           left == ResolvedAlone(t, pick.list)
           B    == [Tasks EXCEPT ![c] = t]
           L    == [i \in {c} |-> pick.list]
           r    == ResolveAndWrite(t)
<1>5. Sound(pick, t.input.args.ord)
  BY <1>1, <1>2, <1>4, TargetsSound
<1> HIDE DEF pick
<1>13. \A V \in SUBSET {c}, list \in Seq(EventIds) :
         IsInjective(list) =>
           Rewrites(PutBack(t, IF c \in V THEN Expand(t, list) ELSE <<t>>), B, V,
                    [i \in {c} |-> list])
  BY <1>1, PutBackRewrites, Zenon
<1>6. Rewrites(left, B, {c}, L)
  <2>1. pick.list \in Seq(EventIds) /\ IsInjective(pick.list)  BY <1>5 DEF Sound
  <2>2. {c} \in SUBSET {c} /\ c \in {c}  OBVIOUS
  <2>3. Rewrites(PutBack(t, IF c \in {c} THEN Expand(t, pick.list) ELSE <<t>>), B, {c}, L)
    BY <1>13, <2>1, <2>2, Zenon DEF L
  <2> QED BY <2>2, <2>3, Zenon DEF ResolvedAlone
<1>7. left \in Seq(Task)  BY <1>6 DEF Rewrites
<1>12. Based(c, t, B) /\ B[c] = t
  BY <1>1, <1>2, <1>3 DEF Based
<1>8. \A i \in {c} : i = c /\ L[i] = pick.list
  OBVIOUS
<1> HIDE DEF L, left, B
<1>9. CASE source.has /\ pick.how = "chosen"
  <2> DEFINE w == Expand(t, pick.list)[1]
             f == Written(w, left)
  <2>1. pick.list # <<>> /\ pick.list \in Seq(EventIds) /\ IsInjective(pick.list)
    BY <1>5, <1>9 DEF Sound
  <2>2. Len(pick.list) \in Nat /\ 1 \in 1 .. Len(pick.list) /\ pick.list[1] \in EventIds
    BY <2>1, EmptySeq
  <2>3. w \in Task /\ Expands(w, t, 1, pick.list[1])
    <3>1. /\ Expand(t, pick.list) \in Seq(Task) /\ Len(Expand(t, pick.list)) = Len(pick.list)
          /\ \A k \in 1 .. Len(pick.list) :
               Expands(Expand(t, pick.list)[k], t, k, pick.list[k])
      BY <1>1, <1>2, <1>3, <2>1, ExpandTyped
    <3> QED BY <2>2, <3>1
  <2> HIDE DEF w
  <2>4. w.id = t.id /\ w.input.args.target = pick.list[1] /\ pick.list[1] # 0
    BY <2>2, <2>3, CalendarAssumption DEF Expands
  <2>5. /\ Plain(f, left)
        /\ \/ f.status = "error" /\ f.done = {} /\ f.target = 0
           \/ f.status = "success" /\ f.done = {t.id} /\ f.target = pick.list[1]
    BY <1>3, <1>7, <2>3, <2>4, WrittenReply
  <2>6. r = [f EXCEPT !.chosen = Chosen(t, pick)]
    BY <1>9, Zenon DEF ResolveAndWrite, f, w, pick, left
  <2> HIDE DEF f, r
  <2>7. Chosen(t, pick) \in SUBSET (TaskIds \X EventIds)
    <3>1. ToSet(pick.list) \subseteq EventIds  BY <2>1 DEF ToSet
    <3> QED BY <1>2, <3>1 DEF Chosen
  <2>8. r \in Reply /\ r.chosen = Chosen(t, pick)
    BY <2>5, <2>6, <2>7 DEF Plain, Reply
  <2>9. /\ r.queue = f.queue /\ r.held = f.held /\ r.source = f.source
        /\ r.done = f.done /\ r.target = f.target /\ r.status = f.status
    BY <2>5, <2>6 DEF Plain, Reply
  <2>10. \A x, e : <<x, e>> \in r.chosen <=>
           \E i \in {c} : x = Root(Tasks[i].id) /\ e \in ToSet(L[i])
    BY <1>1, <1>8, <2>8 DEF Chosen
  <2>11. r.queue = left /\ r.held = {} /\ r.source = source
    BY <2>5, <2>9 DEF Plain
  <2>12. ASSUME NEW i \in {c}
         PROVE  /\ L[i] \in Seq(EventIds) /\ IsInjective(L[i]) /\ L[i] # <<>>
                /\ IsWrite(B[i]) /\ (B[i].input.args.ord # "all" => Len(L[i]) <= 1)
    BY <1>1, <1>5, <1>8, <1>12, <2>1 DEF Sound
  <2>13. /\ r.target # 0 => r.target = L[c][1] /\ L[c] # <<>>
         /\ r.status # "error" => r.done = {t.id} /\ r.target # 0
         /\ r.done \subseteq {t.id}
    BY <1>8, <2>1, <2>4, <2>5, <2>9
  <2>15. Rewriting(c, t, B, {c}, L)
    BY <1>1, <1>12, <2>12 DEF Rewriting
  <2>14. Effect(c, t, r, B, {c}, L)
    BY <1>1, <1>2, <1>4, <1>6, <2>8, <2>10, <2>11, <2>12, <2>13, <2>15 DEF Effect
  <2> QED BY <2>12, <2>14 DEF r
<1>10. CASE source.has /\ pick.how # "chosen"
  <2> DEFINE f == Done(t, left)
             held == {<<Root(t.id), pick.how>>}
  <2>1. pick.list = <<>> /\ pick.how \in {"skipped", "needs_clarification"}
    BY <1>5, <1>10 DEF Sound
  <2>2. /\ Plain(f, left) /\ f.done = {t.id} /\ f.target = 0
    BY <1>2, <1>3, <1>7, DoneReply
  <2>3. r = [f EXCEPT !.status = pick.how, !.held = held]
    BY <1>10, Zenon DEF ResolveAndWrite, f, pick, left, held
  <2>4. held \in SUBSET (TaskIds \X Reasons)
    BY <1>2, <2>1 DEF Reasons
  <2> HIDE DEF f, r, held
  <2>5. r \in Reply /\ r.held = held /\ r.status = pick.how
    BY <2>1, <2>2, <2>3, <2>4 DEF Plain, Reply, ToolStatus
  <2>6. /\ r.queue = f.queue /\ r.chosen = f.chosen /\ r.source = f.source
        /\ r.done = f.done /\ r.target = f.target
    BY <2>2, <2>3 DEF Plain, Reply
  <2>7. \E h \in r.held : h[1] = Root(t.id)  BY <2>5 DEF held
  <2>8. \A h \in r.held : h[1] = Root(t.id)  BY <2>5 DEF held
  <2>9. /\ \A x, e : <<x, e>> \notin r.chosen
        /\ \A e : e \notin ToSet(<<>>)
    BY <2>2, <2>6 DEF Plain, ToSet
  <2>10. r.queue = left /\ r.source = source /\ r.done = {t.id} /\ r.target = 0
    BY <2>2, <2>6 DEF Plain
  <2>11. L[c] \in Seq(EventIds) /\ IsInjective(L[c]) /\ Len(L[c]) <= 1 /\ L[c] = <<>>
    <3>1. pick.list \in Seq(EventIds) /\ IsInjective(pick.list)  BY <1>5 DEF Sound
    <3>2. Len(pick.list) = 0  BY <2>1, EmptySeq
    <3>3. L[c] = pick.list  BY <1>8
    <3> QED BY <2>1, <3>1, <3>2, <3>3
  <2>13. Rewriting(c, t, B, {c}, L)
    BY <1>1, <1>12, <2>11 DEF Rewriting
  <2>12. Effect(c, t, r, B, {c}, L)
    BY <1>1, <1>2, <1>4, <1>6, <1>8, <2>5, <2>7, <2>8, <2>9, <2>10, <2>11, <2>13
       DEF Effect
  <2> QED BY <2>10, <2>12 DEF r
<1>11. CASE ~source.has
  <2> DEFINE back == PutBack(t, <<t>>)
             f == Done(t, back)
             held == {<<Root(t.id), "no_source">>}
             N == [i \in {c} |-> <<>>]
  <2>1. Rewrites(back, B, {}, N)
    <3>1. {} \in SUBSET {c} /\ c \notin {} /\ <<>> \in Seq(EventIds) /\ IsInjective(<<>>)
      BY DEF IsInjective
    <3>2. Rewrites(PutBack(t, IF c \in {} THEN Expand(t, <<>>) ELSE <<t>>), B, {}, N)
      BY <1>13, <3>1, Zenon DEF N
    <3> QED BY <3>1, <3>2
  <2>12. back \in Seq(Task)  BY <2>1 DEF Rewrites
  <2> HIDE DEF back, N
  <2>2. /\ Plain(f, back) /\ f.done = {t.id} /\ f.target = 0
    BY <1>2, <1>3, <2>12, DoneReply
  <2>3. r = [f EXCEPT !.status = "needs_clarification", !.held = held]
    BY <1>11, Zenon DEF ResolveAndWrite, f, back, held
  <2>4. held \in SUBSET (TaskIds \X Reasons)
    BY <1>2 DEF Reasons
  <2> HIDE DEF f, r, held
  <2>5. r \in Reply /\ r.held = held /\ r.status = "needs_clarification"
    BY <2>2, <2>3, <2>4 DEF Plain, Reply, ToolStatus
  <2>6. /\ r.queue = f.queue /\ r.chosen = f.chosen /\ r.source = f.source
        /\ r.done = f.done /\ r.target = f.target
    BY <2>2, <2>3 DEF Plain, Reply
  <2>7. \E h \in r.held : h[1] = Root(t.id)  BY <2>5 DEF held
  <2>8. \A h \in r.held : h[2] = "no_source"  BY <2>5 DEF held
  <2>9. \A x, e : <<x, e>> \notin r.chosen
    BY <2>2, <2>6 DEF Plain
  <2>10. r.queue = back /\ r.source = source /\ r.done = {t.id} /\ r.target = 0
    BY <2>2, <2>6 DEF Plain
  <2>11. Rewriting(c, t, B, {}, N)
    BY <1>12 DEF Rewriting
  <2>13. Effect(c, t, r, B, {}, N)
    BY <1>1, <1>2, <1>4, <2>1, <2>5, <2>7, <2>8, <2>9, <2>10, <2>11
       DEF Effect
  <2> QED BY <2>10, <2>13 DEF r
<1> QED BY <1>4, <1>9, <1>10, <1>11

\* A query, which resolves the updates or deletes that wait.
LEMMA QueryEffect ==
  ASSUME Held, NEW c, NEW t, CalledAs(c, t), IsQuery(t)
  PROVE  \E U, L : Effect(c, t, Queried(t), Tasks, U, L)
<1> DEFINE list == Rows(t.input.args.days)
           act  == IF Touched(Tasks, "update") # {} THEN "update" ELSE "delete"
           U    == Touched(Tasks, act)
           pick == [i \in U |-> Targets(Tasks[i], list)]
           L    == [i \in U |-> Targets(Tasks[i], list).list]
           over == Reported(Tasks, act, list)
           r    == Queried(t)
<1>1. /\ c \in DOMAIN Tasks /\ t.id = Tasks[c].id /\ ~IsWrite(t)
      /\ t.id \in TaskIds /\ CalTypeOK
  BY DEF CalledAs, Held, Task, IsWrite, IsQuery
<1>2. Tasks \in Seq(Task) /\ approved \in Plans
  BY <1>1 DEF CalTypeOK, TypeOK, Tasks, TasksOf
<1>3. list \in Seq(EventIds) /\ IsInjective(list)
  BY <1>1, RowsTyped DEF CalTypeOK, DayTyped
<1> HIDE DEF list, act
<1>4. /\ U \subseteq Waiting /\ U \subseteq DOMAIN Tasks
      /\ \A i \in U : IsWrite(Tasks[i])
  BY DEF Touched, Waiting, Unresolved, IsWrite, CanWrite, Target
<1>5. over = {i \in U : Targets(Tasks[i], list).how # "chosen" /\ Tasks[i].id \notin completed}
  BY DEF Reported, Withheld
<1>6. Resolved(Tasks, act, list)
        = FlattenSeq([i \in DOMAIN Tasks |->
            IF i \in U THEN Expand(Tasks[i], L[i]) ELSE <<Tasks[i]>>])
  <2>1. [i \in DOMAIN Tasks |-> IF i \in U
           THEN Expand(Tasks[i], Targets(Tasks[i], list).list) ELSE <<Tasks[i]>>]
        = [i \in DOMAIN Tasks |->
            IF i \in U THEN Expand(Tasks[i], L[i]) ELSE <<Tasks[i]>>]
    <3> HIDE DEF U
    <3> QED OBVIOUS
  <2> HIDE DEF L
  <2> QED BY <2>1 DEF Resolved
<1>7. \A i \in U : pick[i] = Targets(Tasks[i], list) /\ L[i] = pick[i].list
  <2> HIDE DEF U
  <2> QED OBVIOUS
<1> HIDE DEF U, pick, L, over
<1>8. ASSUME NEW i \in U
      PROVE  /\ Sound(pick[i], Tasks[i].input.args.ord)
             /\ Root(Tasks[i].id) = Tasks[i].id /\ Tasks[i].id \in Ids(approved)
             /\ Tasks[i].id \in TaskIds
  <2>1. i \in Waiting  BY <1>4
  <2>2. /\ Tasks[i] \in Task
        /\ Root(Tasks[i].id) = Tasks[i].id /\ Tasks[i].id \in Ids(approved)
        /\ Tasks[i].id \in TaskIds
    BY <2>1, WaitingApproved
  <2>3. Sound(Targets(Tasks[i], list), Tasks[i].input.args.ord)
    BY <1>3, <2>2, TargetsSound
  <2> QED BY <1>7, <2>2, <2>3
<1>9. \A i \in U : L[i] \in Seq(EventIds) /\ IsInjective(L[i])
  BY <1>7, <1>8 DEF Sound
<1>10. Rewrites(Resolved(Tasks, act, list), Tasks, U, L)
  BY <1>2, <1>4, <1>6, <1>8, <1>9, FlattenRewrites
<1> DEFINE left == Resolved(Tasks, act, list)
           f == Done(t, left)
           status == CASE LastStatus(Tasks, act, list) = "needs_clarification" -> "need_clarification"
                       [] LastStatus(Tasks, act, list) = "skipped" -> "skipped"
                       [] OTHER -> "success"
           done == {t.id} \cup {Tasks[i].id : i \in over}
           held == {<<Root(Tasks[i].id), Targets(Tasks[i], list).how>> : i \in over}
           chosen == UNION {Chosen(Tasks[i], Targets(Tasks[i], list)) : i \in U}
           from == [has |-> TRUE, list |-> list]
<1>11. left \in Seq(Task)  BY <1>10 DEF Rewrites
<1>12. Plain(f, left) /\ f.done = {t.id} /\ f.target = 0
  BY <1>1, <1>11, DoneReply
<1>13. r = [f EXCEPT !.status = status, !.done = f.done \cup {Tasks[i].id : i \in over},
                     !.source = from, !.held = held, !.chosen = chosen]
  BY DEF Queried, list, act, over, U
<1>14. status \in ToolStatus /\ status # "error"
  BY DEF ToolStatus
<1>15. done \in SUBSET TaskIds
  BY <1>1, <1>5, <1>8
<1>16. held \in SUBSET (TaskIds \X Reasons)
  <2>1. ASSUME NEW i \in over
        PROVE  <<Root(Tasks[i].id), Targets(Tasks[i], list).how>> \in TaskIds \X Reasons
    BY <1>5, <1>7, <1>8 DEF Sound, Reasons
  <2> QED BY <2>1
<1>17. \A x, e : <<x, e>> \in chosen <=>
         \E i \in U : x = Root(Tasks[i].id) /\ e \in ToSet(L[i])
  BY <1>7 DEF Chosen
<1>18. chosen \in SUBSET (TaskIds \X EventIds)
  <2>1. ASSUME NEW i \in U
        PROVE  Chosen(Tasks[i], Targets(Tasks[i], list)) \subseteq TaskIds \X EventIds
    <3>1. ToSet(L[i]) \subseteq EventIds  BY <1>9 DEF ToSet
    <3> QED BY <1>7, <1>8, <3>1 DEF Chosen
  <2> QED BY <2>1
<1>19. from \in [has : BOOLEAN, list : Seq(EventIds)] /\ from.list = list
  BY <1>3
<1> HIDE DEF status, held, chosen, from, f, left, r, done
<1>20. /\ r \in Reply
       /\ r.status = status /\ r.source = from /\ r.held = held /\ r.chosen = chosen
       /\ r.done = f.done \cup {Tasks[i].id : i \in over}
       /\ r.queue = f.queue /\ r.target = f.target
  <2>1. done = f.done \cup {Tasks[i].id : i \in over}  BY <1>12 DEF done
  <2>2. r = [f EXCEPT !.status = status, !.done = done,
                      !.source = from, !.held = held, !.chosen = chosen]
    BY <1>13, <2>1
  <2>3. f \in Reply  BY <1>12 DEF Plain
  <2>4. r \in Reply
    BY <1>14, <1>15, <1>16, <1>18, <1>19, <2>2, <2>3 DEF Reply
  <2>5. /\ r.status = status /\ r.source = from /\ r.held = held /\ r.chosen = chosen
        /\ r.done = done
        /\ r.queue = f.queue /\ r.target = f.target
    BY <2>2, <2>3 DEF Reply
  <2> QED BY <2>1, <2>4, <2>5
<1>21. /\ r.queue = left /\ r.target = 0 /\ r.status # "error" /\ r.source.list = list
       /\ r.done = {t.id} \cup {Tasks[i].id : i \in over}
  BY <1>12, <1>14, <1>19, <1>20 DEF Plain
<1>22. ASSUME NEW i \in U
       PROVE  /\ L[i] \in Seq(EventIds) /\ IsInjective(L[i])
              /\ Tasks[i].input.args.ord # "all" => Len(L[i]) <= 1
              /\ L[i] = <<>> => /\ Tasks[i].id \in completed \cup r.done
                                /\ \/ Tasks[i].id \in completed
                                   \/ \E h \in r.held : h[1] = Root(Tasks[i].id)
  <2>1. /\ L[i] \in Seq(EventIds) /\ IsInjective(L[i])
        /\ Tasks[i].input.args.ord # "all" => Len(L[i]) <= 1
    BY <1>7, <1>8 DEF Sound
  <2>2. ASSUME L[i] = <<>>, Tasks[i].id \notin completed
        PROVE  Tasks[i].id \in r.done /\ \E h \in r.held : h[1] = Root(Tasks[i].id)
    <3>1. pick[i].how # "chosen"  BY <1>7, <1>8, <2>2 DEF Sound
    <3>2. i \in over  BY <1>5, <1>7, <2>2, <3>1
    <3>3. <<Root(Tasks[i].id), Targets(Tasks[i], list).how>> \in r.held
      BY <1>20, <3>2 DEF held
    <3> QED BY <1>21, <3>2, <3>3
  <2> QED BY <2>1, <2>2
<1>23. \A h \in r.held : \E i \in U : L[i] = <<>> /\ h[1] = Root(Tasks[i].id)
  <2> SUFFICES ASSUME NEW h \in r.held
               PROVE  \E i \in U : L[i] = <<>> /\ h[1] = Root(Tasks[i].id)
    OBVIOUS
  <2>1. PICK i \in over : h = <<Root(Tasks[i].id), Targets(Tasks[i], list).how>>
    BY <1>20 DEF held
  <2>2. i \in U /\ L[i] = <<>>  BY <1>5, <1>7, <1>8 DEF Sound
  <2> QED BY <2>1, <2>2
<1>24. \A x \in r.done : x = Tasks[c].id \/ \E i \in U : L[i] = <<>> /\ x = Tasks[i].id
  <2>1. \A i \in over : i \in U /\ L[i] = <<>>
    BY <1>5, <1>7, <1>8 DEF Sound
  <2> QED BY <1>1, <1>21, <2>1
<1>26. Rewriting(c, t, Tasks, U, L)
  BY <1>4, <1>22, CalledFacts DEF Rewriting
<1>25. Effect(c, t, r, Tasks, U, L)
  BY <1>1, <1>3, <1>10, <1>17, <1>20, <1>21, <1>22, <1>23, <1>24, <1>26
     DEF Effect, left
<1> QED BY <1>25 DEF r

-----------------------------------------------------------------------------
(* The step of a call.                                                     *)

\* Action a calls task c, as t, and is answered r.
CallOf(a, c, t, r) ==
  /\ Deciding /\ a \in Accepted /\ a.name = "call_tool" /\ a.id = Tasks[c].id
  /\ TaskNamed(a.id) = Tasks[c] /\ Tasks[c].kind = "tool" /\ CalledAs(c, t)
  /\ CallToolAnswered(a, [status |-> r.status, done |-> r.done, queue |-> r.queue])
  /\ day' = r.rows /\ source' = r.source
  /\ withheld' = withheld \cup r.held
  /\ selected' = selected \cup r.chosen
  /\ supplied' = supplied \cup FilledIn(t)
  /\ answers' = IF IsQuery(t) /\ r.status # "error"
                THEN [answers EXCEPT ![t.id] = ToSet(r.source.list)]
                ELSE answers
  /\ wrote' = [wrote EXCEPT ![Root(t.id)] =
                 [e \in EventIds |-> IF e = r.target THEN @[e] + 1 ELSE @[e]]]
  /\ UNCHANGED <<offered, others>>

\* Every reply of the callback has an effect of that kind.
LEMMA RepliesHaveEffect ==
  ASSUME Held, NEW c, NEW t, CalledAs(c, t), NEW r \in CalendarReplies(t)
  PROVE  \E B, U, L : Effect(c, t, r, B, U, L)
<1>0. CalTypeOK /\ Sourced /\ Tasks \in Seq(Task) /\ c \in DOMAIN Tasks
  BY DEF Held, CalTypeOK, TypeOK, Tasks, TasksOf, CalledAs
<1>1. CASE ~IsWrite(t) /\ ~IsQuery(t)
  BY <1>0, <1>1, PlainEffect
<1>2. /\ Plain(Failed(Tasks), Tasks)
      /\ Failed(Tasks).status = "error" /\ Failed(Tasks).done = {}
      /\ Failed(Tasks).target = 0
  BY <1>0, FailedReply
<1>3. CASE r = Failed(Tasks)
  BY <1>0, <1>2, <1>3, QuietEffect
<1>4. CASE IsQuery(t) /\ r = Queried(t)
  BY <1>4, QueryEffect
<1>5. CASE IsWrite(t) /\ Unresolved(t) /\ r \in WithDoubt(t, ResolveAndWrite(t))
  <2>1. PICK B, U, L : /\ Effect(c, t, ResolveAndWrite(t), B, U, L)
                       /\ ResolveAndWrite(t).target # 0 => \A i \in U : L[i] # <<>>
    BY <1>5, ResolveEffect
  <2>2. CASE r = ResolveAndWrite(t)
    BY <2>1, <2>2
  <2>3. CASE r # ResolveAndWrite(t)
    <3>1. ResolveAndWrite(t).target # 0 /\ r = Unconfirmed(ResolveAndWrite(t))
      BY <1>5, <2>3, Zenon DEF WithDoubt
    <3>2. \A i \in U : L[i] # <<>>  BY <2>1, <3>1
    <3>3. Effect(c, t, ResolveAndWrite(t), B, U, L)  BY <2>1
    <3>4. Effect(c, t, Unconfirmed(ResolveAndWrite(t)), B, U, L)
      BY <3>2, <3>3, DoubtEffect
    <3> QED BY <3>1, <3>4
  <2> QED BY <2>2, <2>3
<1>6. CASE IsWrite(t) /\ ~Unresolved(t) /\ r \in WithDoubt(t, Written(t, Tasks))
  <2>1. Effect(c, t, Written(t, Tasks), Tasks, {}, <<>>)
    BY <1>0, <1>6, WriteEffect
  <2>2. CASE r = Written(t, Tasks)
    BY <2>1, <2>2
  <2>3. CASE r # Written(t, Tasks)
    <3>1. r = Unconfirmed(Written(t, Tasks))
      BY <1>6, <2>3, Zenon DEF WithDoubt
    <3>2. Effect(c, t, Unconfirmed(Written(t, Tasks)), Tasks, {}, <<>>)
      BY <2>1, DoubtEffect
    <3> QED BY <3>1, <3>2
  <2> QED BY <2>2, <2>3
<1>7. CASE IsQuery(t)
  <2>1. ~IsWrite(t)  BY <1>7 DEF IsQuery, IsWrite
  <2>2. r = Failed(Tasks) \/ r = Queried(t)
    BY <1>7, <2>1, Zenon DEF CalendarReplies, IsQuery
  <2> QED BY <1>3, <1>4, <1>7, <2>2
<1>8. CASE IsWrite(t)
  <2>1. ~IsQuery(t) /\ t.input.act # "create"  BY <1>8 DEF IsQuery, IsWrite
  <2>2. CASE Unresolved(t)
    <3>1. r = Failed(Tasks) \/ r \in WithDoubt(t, ResolveAndWrite(t))
      BY <1>8, <2>1, <2>2 DEF CalendarReplies
    <3> QED BY <1>3, <1>5, <1>8, <2>2, <3>1
  <2>3. CASE ~Unresolved(t)
    <3>1. r = Failed(Tasks) \/ r \in WithDoubt(t, Written(t, Tasks))
      BY <1>8, <2>1, <2>3 DEF CalendarReplies
    <3> QED BY <1>3, <1>6, <1>8, <2>3, <3>1
  <2> QED BY <2>2, <2>3
<1> QED BY <1>1, <1>7, <1>8

\* So every call of the run has.
LEMMA CallHasEffect ==
  ASSUME Held, CalendarCall
  PROVE  \E a, c, t, r, B, U, L : CallOf(a, c, t, r) /\ Effect(c, t, r, B, U, L)
<1>1. TypeOK /\ Tasks \in Seq(Task)
  BY DEF Held, CalTypeOK, TypeOK, Tasks, TasksOf
<1> DEFINE Answered(a, t, r) ==
             /\ CallToolAnswered(a, [status |-> r.status, done |-> r.done,
                                     queue |-> r.queue])
             /\ day' = r.rows
             /\ source' = r.source
             /\ withheld' = withheld \cup r.held
             /\ selected' = selected \cup r.chosen
             /\ supplied' = supplied \cup FilledIn(t)
             /\ answers' = IF IsQuery(t) /\ r.status # "error"
                           THEN [answers EXCEPT ![t.id] = ToSet(r.source.list)]
                           ELSE answers
             /\ wrote' = [wrote EXCEPT ![Root(t.id)] =
                            [e \in EventIds |->
                               IF e = r.target THEN @[e] + 1 ELSE @[e]]]
<1>0. \E a \in Accepted :
        /\ a.name = "call_tool"
        /\ \E t \in Merges(a, TaskNamed(a.id)) :
             \E r \in CalendarReplies(t) : Answered(a, t, r)
  BY Zenon DEF CalendarCall
<1> HIDE DEF Answered
<1>2. PICK a, t, r :
        /\ a \in Accepted /\ t \in Merges(a, TaskNamed(a.id)) /\ r \in CalendarReplies(t)
        /\ a.name = "call_tool" /\ Answered(a, t, r)
  BY <1>0
<1>3. Deciding /\ UNCHANGED <<offered, others>>
  BY DEF CalendarCall
<1>4. a \in Proposal /\ InScope(a)
  BY <1>1, <1>2, <1>3, AcceptedTyped
<1>5. NamesWork(a) /\ OfKind(a)  BY <1>2, <1>4 DEF InScope, IsCall
<1>6. PICK c \in DOMAIN Tasks : TaskNamed(a.id) = Tasks[c] /\ Tasks[c].id = a.id
  BY <1>5, NamedTask DEF NamesWork
<1>7. Tasks[c].id \notin completed /\ Tasks[c].kind = "tool" /\ Tasks[c] \in Task
  BY <1>1, <1>2, <1>5, <1>6 DEF NamesWork, OfKind
<1>8. CalledAs(c, t)
  <2>1. t \in Merges(a, Tasks[c])  BY <1>2, <1>6
  <2>2. a.input \in ToolInput \cup {NoInput}  BY <1>4 DEF Proposal
  <2>3. /\ t \in Task /\ t.id = Tasks[c].id /\ t.kind = Tasks[c].kind
        /\ t.deps = Tasks[c].deps /\ t.tool = Tasks[c].tool
        /\ Tasks[c].input.act # "none" => t.input.act = Tasks[c].input.act
        /\ Target(Tasks[c]) # 0 => Target(t) = Target(Tasks[c])
    BY <1>7, <2>1, <2>2, MergesTyped
  <2> QED BY <1>7, <2>3 DEF CalledAs
<1>9. CallOf(a, c, t, r)
  BY <1>2, <1>3, <1>6, <1>7, <1>8, Zenon DEF CallOf, Answered
<1>10. \E B, U, L : Effect(c, t, r, B, U, L)
  BY <1>2, <1>8, RepliesHaveEffect
<1> QED BY <1>9, <1>10

\* Copy number k of task i takes after it; a new one has an id no task has had.
Takes(new, B, U, L, i, k) ==
  /\ i \in DOMAIN Tasks /\ k \in 1 .. Copies(U, L, i)
  /\ new.kind = Tasks[i].kind /\ new.tool = Tasks[i].tool
  /\ new.deps = Tasks[i].deps
  /\ CanWrite(new) <=> CanWrite(Tasks[i])
  /\ IsWrite(Tasks[i]) => IsWrite(new)
  /\ new.input.args.ord = B[i].input.args.ord
  /\ Root(new.id) = Root(Tasks[i].id)
  /\ i \notin U => /\ new = B[i] /\ k = 1
                   /\ new.id = Tasks[i].id /\ Target(new) = Target(Tasks[i])
  /\ i \notin Waiting => new = Tasks[i]
  /\ i \in U =>
       /\ k \in 1 .. Len(L[i]) /\ Target(new) = L[i][k] /\ L[i][k] \in EventIds
       /\ IsWrite(new)
       /\ Len(L[i]) <= 1 => k = 1
       /\ k = 1 => new.id = Tasks[i].id
       /\ k # 1 => /\ new.id = Nth(Tasks[i].id, k)
                   /\ new.id # Tasks[i].id
                   /\ new.id \notin Ids(Tasks) \cup completed

\* What a copy takes from its task.
LEMMA CopyFacts ==
  ASSUME Held, NEW c, NEW t, NEW B, NEW U, NEW L, Rewriting(c, t, B, U, L),
         NEW q, NEW from, CopiedFrom(from, q, B, U, L), NEW p \in DOMAIN q
  PROVE  Takes(q[p], B, U, L, from[p][1], from[p][2])
<1> DEFINE i == from[p][1]
           k == from[p][2]
<1>1. i \in DOMAIN Tasks /\ k \in 1 .. Copies(U, L, i) /\ IsCopy(q[p], B, U, L, i, k)
  BY DEF CopiedFrom
<1> HIDE DEF i, k
<1>4. /\ B[i].id = Tasks[i].id /\ B[i].kind = Tasks[i].kind
      /\ B[i].tool = Tasks[i].tool /\ B[i].deps = Tasks[i].deps
      /\ CanWrite(B[i]) <=> CanWrite(Tasks[i])
      /\ IsWrite(Tasks[i]) => IsWrite(B[i])
      /\ Target(B[i]) = Target(Tasks[i])
      /\ i \notin Waiting => B[i] = Tasks[i]
  <2>1. Tasks \in Seq(Task)  BY DEF Held, CalTypeOK, TypeOK, Tasks, TasksOf
  <2>2. Based(c, t, B)  BY DEF Rewriting
  <2> QED BY <1>1, <2>1, <2>2, BaseFacts
<1>5. U \subseteq Waiting  BY DEF Rewriting
<1>2. CASE i \notin U
  <2>1. q[p] = B[i] /\ k = 1  BY <1>1, <1>2 DEF Copies, IsCopy
  <2> QED BY <1>1, <1>2, <1>4, <2>1 DEF Takes, i, k
<1>3. CASE i \in U
  <2>1. Expands(q[p], B[i], k, L[i][k]) /\ k \in 1 .. Len(L[i])
    BY <1>1, <1>3 DEF Copies, IsCopy
  <2>2. /\ IsWrite(q[p]) /\ CanWrite(q[p]) /\ CanWrite(Tasks[i])
        /\ i \in Waiting
    <3>1. IsWrite(B[i])  BY <1>3 DEF Rewriting
    <3> QED BY <1>3, <1>4, <1>5, <2>1, <3>1 DEF Expands, IsWrite, CanWrite
  <2>3. L[i] \in Seq(EventIds) /\ IsInjective(L[i])  BY <1>3 DEF Rewriting
  <2>4. L[i][k] \in EventIds /\ (Len(L[i]) <= 1 => k = 1)  BY <2>1, <2>3
  <2>5. /\ Root(Tasks[i].id) = Tasks[i].id /\ Tasks[i].id \in Ids(approved)
        /\ approved \in Plans
    BY <2>2, WaitingApproved DEF Held, CalTypeOK, TypeOK
  <2>8. /\ q[p].kind = Tasks[i].kind /\ q[p].tool = Tasks[i].tool
        /\ q[p].deps = Tasks[i].deps /\ q[p].input.args.ord = B[i].input.args.ord
        /\ Target(q[p]) = L[i][k]
    BY <1>4, <2>1 DEF Expands, Target
  <2>6. CASE k = 1
    <3>1. q[p].id = Tasks[i].id  BY <1>4, <2>1, <2>6 DEF Expands
    <3> QED BY <1>1, <1>3, <2>1, <2>2, <2>4, <2>6, <2>8, <3>1 DEF Takes, i, k
  <2>7. CASE k # 1
    <3>1. q[p].id = Nth(Tasks[i].id, k)  BY <1>4, <2>1, <2>7 DEF Expands
    <3>2. k \in 2 .. Cardinality(EventIds)
      <4>1. Len(L[i]) <= Cardinality(EventIds)  BY <2>3, ListFits
      <4>2. Len(L[i]) \in Nat /\ Cardinality(EventIds) \in Nat
        BY <2>3, EventFacts, FS_CardinalityType
      <4> QED BY <2>1, <2>7, <4>1, <4>2
    <3>3. PICK j \in DOMAIN approved : approved[j].id = Tasks[i].id
      BY <2>5 DEF Ids
    <3>4. /\ Root(q[p].id) = Tasks[i].id /\ q[p].id # Tasks[i].id
      BY <2>5, <3>1, <3>2, <3>3, ExpansionAssumption
    <3>5. /\ \A o \in DOMAIN Tasks : Root(Tasks[o].id) = Tasks[i].id => o = i
          /\ \A x \in completed : Root(x) = Tasks[i].id => x = Tasks[i].id
      BY <2>2, Zenon DEF Held, Alone
    <3>6. q[p].id \notin Ids(Tasks) \cup completed
      BY <3>4, <3>5 DEF Ids
    <3> QED BY <1>1, <1>3, <2>1, <2>2, <2>4, <2>5, <2>7, <2>8, <3>1, <3>4, <3>6
            DEF Takes, i, k
  <2> QED BY <2>6, <2>7
<1> QED BY <1>2, <1>3

\* Two copies with one id are one.
LEMMA CopiesDiffer ==
  ASSUME Held, NEW c, NEW t, NEW B, NEW U, NEW L, Rewriting(c, t, B, U, L),
         NEW q, NEW from, CopiedFrom(from, q, B, U, L),
         NEW p1 \in DOMAIN q, NEW p2 \in DOMAIN q, q[p1].id = q[p2].id
  PROVE  p1 = p2
<1> DEFINE i1 == from[p1][1]
           i2 == from[p2][1]
           k1 == from[p1][2]
           k2 == from[p2][2]
<1>0. Takes(q[p1], B, U, L, i1, k1) /\ Takes(q[p2], B, U, L, i2, k2)
  BY CopyFacts
<1> HIDE DEF i1, i2, k1, k2
<1>4. U \subseteq Waiting  BY DEF Rewriting
<1>1. /\ i1 \in DOMAIN Tasks /\ i2 \in DOMAIN Tasks
      /\ Root(q[p1].id) = Root(Tasks[i1].id) /\ Root(q[p2].id) = Root(Tasks[i2].id)
      /\ i1 \notin U => q[p1].id = Tasks[i1].id /\ k1 = 1
      /\ i2 \notin U => q[p2].id = Tasks[i2].id /\ k2 = 1
      /\ i1 \in U => /\ k1 \in 1 .. Len(L[i1])
                     /\ k1 # 1 => q[p1].id = Nth(Tasks[i1].id, k1)
                     /\ k1 = 1 => q[p1].id = Tasks[i1].id
                     /\ k1 # 1 => q[p1].id # Tasks[i1].id
      /\ i2 \in U => /\ k2 \in 1 .. Len(L[i2])
                     /\ k2 # 1 => q[p2].id = Nth(Tasks[i2].id, k2)
                     /\ k2 = 1 => q[p2].id = Tasks[i2].id
                     /\ k2 # 1 => q[p2].id # Tasks[i2].id
  BY <1>0 DEF Takes
<1>2. i1 = i2
  <2>1. CASE i1 \in U
    <3>1. \A j \in DOMAIN Tasks : Root(Tasks[j].id) = Tasks[i1].id => j = i1
      BY <1>4, <2>1 DEF Held, Alone
    <3>2. Root(Tasks[i1].id) = Tasks[i1].id  BY <1>4, <2>1, WaitingApproved
    <3> QED BY <1>1, <3>1, <3>2
  <2>2. CASE i2 \in U
    <3>1. \A j \in DOMAIN Tasks : Root(Tasks[j].id) = Tasks[i2].id => j = i2
      BY <1>4, <2>2 DEF Held, Alone
    <3>2. Root(Tasks[i2].id) = Tasks[i2].id  BY <1>4, <2>2, WaitingApproved
    <3> QED BY <1>1, <3>1, <3>2
  <2>3. CASE i1 \notin U /\ i2 \notin U
    BY <1>1, <2>3 DEF Held, Descent
  <2> QED BY <2>1, <2>2, <2>3
<1>3. k1 = k2
  <2>1. CASE i1 \notin U
    BY <1>1, <1>2, <2>1
  <2>2. CASE i1 \in U /\ (k1 = 1 \/ k2 = 1)
    BY <1>1, <1>2, <2>2
  <2>3. CASE i1 \in U /\ k1 # 1 /\ k2 # 1
    <3>1. L[i1] \in Seq(EventIds) /\ IsInjective(L[i1])  BY <2>3 DEF Rewriting
    <3>2. Len(L[i1]) <= Cardinality(EventIds)  BY <3>1, ListFits
    <3>3. Len(L[i1]) \in Nat /\ Cardinality(EventIds) \in Nat
      BY <3>1, EventFacts, FS_CardinalityType
    <3>4. k1 \in 2 .. Cardinality(EventIds) /\ k2 \in 2 .. Cardinality(EventIds)
      BY <1>1, <1>2, <2>3, <3>2, <3>3
    <3>5. Tasks[i1].id \in Ids(approved) /\ approved \in Plans
      BY <1>4, <2>3, WaitingApproved DEF Held, CalTypeOK, TypeOK
    <3>6. PICK j \in DOMAIN approved : approved[j].id = Tasks[i1].id
      BY <3>5 DEF Ids
    <3>7. Nth(Tasks[i1].id, k1) = Nth(Tasks[i1].id, k2)
      BY <1>1, <1>2, <2>3
    <3> QED BY <3>4, <3>5, <3>6, <3>7, ExpansionAssumption
  <2> QED BY <2>1, <2>2, <2>3
<1> QED BY <1>2, <1>3 DEF CopiedFrom, i1, i2, k1, k2

-----------------------------------------------------------------------------
(* The callback keeps the executor's contract.                             *)

\* The reply, as the executor sees it, is a legal one.
LEMMA ReplyIsLegal ==
  ASSUME Held, NEW a, NEW c, NEW t, NEW r, CallOf(a, c, t, r),
         NEW B, NEW U, NEW L, Effect(c, t, r, B, U, L)
  PROVE  LegalReply(Tasks[c], [status |-> r.status, done |-> r.done \ completed,
                               queue |-> r.queue])
<1>1. /\ U \in SUBSET Waiting /\ r.queue \in Seq(Task) /\ r.status \in ToolStatus
      /\ \A i \in U : L[i] \in Seq(EventIds)
      /\ \A i \in U : L[i] = <<>> => Tasks[i].id \in completed \cup r.done
      /\ \A x \in r.done : x = Tasks[c].id \/ \E i \in U : x = Tasks[i].id
      /\ r.status # "error" => Tasks[c].id \in r.done
      /\ Rewriting(c, t, B, U, L)
  BY DEF Effect, Reply, Rewrites, Rewriting
<1>2. PICK from : CopiedFrom(from, r.queue, B, U, L)
  BY DEF Effect, Rewrites
<1>3. /\ c \in DOMAIN Tasks /\ Tasks[c].kind = "tool" /\ Tasks[c].id \notin completed
      /\ \A i \in U : i \in DOMAIN Tasks /\ Tasks[i].kind = "tool"
  BY <1>1, WaitingApproved DEF CallOf, CalledAs, CanWrite
<1> DEFINE q == r.queue
           done == r.done \ completed
<1>4. done \subseteq Ids(Tasks)
  BY <1>1, <1>3 DEF Ids
<1>5. r.status \notin Completing \cup Terminal => Tasks[c].id \in done
  BY <1>1, <1>3 DEF Terminal
<1>6. Ids(Tasks) \ Ids(q) \subseteq completed \cup done
  <2> SUFFICES ASSUME NEW i \in DOMAIN Tasks, Tasks[i].id \notin completed \cup r.done
               PROVE  \E p \in DOMAIN q : q[p].id = Tasks[i].id
    BY DEF Ids
  <2>1. 1 \in 1 .. Copies(U, L, i)
    <3>1. CASE i \in U
      <4>1. L[i] # <<>> /\ L[i] \in Seq(EventIds)  BY <1>1, <3>1
      <4>2. Len(L[i]) \in Nat /\ Len(L[i]) # 0  BY <4>1, EmptySeq
      <4> QED BY <3>1, <4>2 DEF Copies
    <3>2. CASE i \notin U
      BY <3>2 DEF Copies
    <3> QED BY <3>1, <3>2
  <2>2. PICK p \in DOMAIN q : from[p][1] = i /\ from[p][2] = 1
    BY <1>2, <2>1 DEF CopiedFrom
  <2>3. Takes(q[p], B, U, L, from[p][1], from[p][2])
    BY <1>1, <1>2, CopyFacts
  <2> HIDE DEF q
  <2>4. q[p].id = Tasks[i].id
    BY <2>2, <2>3 DEF Takes
  <2> QED BY <2>4
<1>7. \A i, j \in DOMAIN q : q[i].id = q[j].id => i = j
  BY <1>1, <1>2, CopiesDiffer
<1>8. ASSUME NEW p \in DOMAIN q
      PROVE  \E j \in DOMAIN Tasks :
               /\ q[p].kind = Tasks[j].kind /\ q[p].tool = Tasks[j].tool
               /\ q[p].deps = Tasks[j].deps
               /\ Root(q[p].id) = Root(Tasks[j].id)
               /\ \/ q[p].id = Tasks[j].id
                  \/ Tasks[j].kind = "tool" /\ q[p].id \notin Ids(Tasks) \cup completed
  <2> DEFINE j == from[p][1]
             k == from[p][2]
  <2>0. Takes(q[p], B, U, L, j, k)
    BY <1>1, <1>2, CopyFacts
  <2> HIDE DEF j, k, q
  <2>1. /\ j \in DOMAIN Tasks
        /\ q[p].kind = Tasks[j].kind /\ q[p].tool = Tasks[j].tool
        /\ q[p].deps = Tasks[j].deps
        /\ Root(q[p].id) = Root(Tasks[j].id)
        /\ j \notin U => q[p].id = Tasks[j].id
        /\ j \in U /\ k = 1 => q[p].id = Tasks[j].id
        /\ j \in U /\ k # 1 => q[p].id \notin Ids(Tasks) \cup completed
    BY <2>0 DEF Takes
  <2> QED BY <1>3, <2>1
<1> HIDE DEF q, done
<1>9. q \in Seq(Task)  BY <1>1 DEF q
<1>10. LegalReply(Tasks[c], [status |-> r.status, done |-> done, queue |-> q])
  BY <1>1, <1>4, <1>5, <1>6, <1>7, <1>8, <1>9 DEF LegalReply
<1> QED BY <1>10 DEF q, done

\* Completing a task again changes nothing.
LEMMA SameAnswer ==
  ASSUME NEW a, NEW status, NEW done, NEW q,
         CallToolAnswered(a, [status |-> status, done |-> done, queue |-> q])
  PROVE  CallToolAnswered(a, [status |-> status, done |-> done \ completed, queue |-> q])
<1>1. \A X : completed \cup done \cup X = completed \cup (done \ completed) \cup X
  OBVIOUS
<1> QED BY <1>1 DEF CallToolAnswered

\* A calendar call is a call with a legal callback.
LEMMA CallIsLegal ==
  ASSUME Held, CalendarCall
  PROVE  LegalCall
<1>1. PICK a, c, t, r, B, U, L : CallOf(a, c, t, r) /\ Effect(c, t, r, B, U, L)
  BY CallHasEffect
<1> DEFINE reply == [status |-> r.status, done |-> r.done \ completed, queue |-> r.queue]
<1>2. LegalReply(Tasks[c], reply)
  BY <1>1, ReplyIsLegal
<1>3. CallToolAnswered(a, reply)
  BY <1>1, SameAnswer DEF CallOf
<1> HIDE DEF reply
<1> QED BY <1>1, <1>2, <1>3 DEF LegalCall, CallOf

\* A step of a calendar turn is one of a run with a legal callback.
LEMMA StepIsLegal ==
  ASSUME Held, [CalNext]_allVars
  PROVE  [LegalNext]_vars
<1>1. CalendarCall => LegalCall
  BY CallIsLegal
<1> QED BY <1>1 DEF CalNext, Elsewhere, LegalNext, OtherUser, allVars

\* What the callback was asked and answered can be read off the step.
LEMMA ContractStep ==
  ASSUME Held, [CalNext]_allVars, NEW id \in Ids(Tasks), runs'[id] # runs[id],
         TaskNamed(id).kind = "tool", id \notin gathered'
  PROVE  LegalReply(TaskNamed(id),
                    [status |-> outcome'[id], done |-> completed' \ completed,
                     queue |-> queue'])
<1>1. TypeOK /\ Tasks \in Seq(Task)
  BY DEF Held, CalTypeOK, TypeOK, Tasks, TasksOf
<1>2. id \in TaskIds /\ runs \in [TaskIds -> Nat] /\ outcome \in [TaskIds -> Outcomes]
  BY <1>1, IdsTyped DEF TypeOK
<1>3. CASE CalendarCall
  <2>1. PICK a, c, t, r, B, U, L : CallOf(a, c, t, r) /\ Effect(c, t, r, B, U, L)
    BY <1>3, CallHasEffect
  <2> DEFINE reply == [status |-> r.status, done |-> r.done, queue |-> r.queue]
  <2>2. CallToolAnswered(a, reply) /\ a.id = Tasks[c].id /\ TaskNamed(a.id) = Tasks[c]
    BY <2>1 DEF CallOf
  <2>3. id = a.id
    BY <1>2, <2>2 DEF CallToolAnswered
  <2>4. outcome'[id] = r.status /\ queue' = r.queue
    BY <1>2, <2>2, <2>3 DEF CallToolAnswered
  <2>5. completed' = completed \cup r.done \cup
                       (IF r.status \in Completing THEN {a.id} ELSE {})
    BY <2>2 DEF CallToolAnswered, Respond
  <2>6. r.status \in Completing => a.id \in r.done
    BY <2>1, <2>2 DEF Effect, Completing
  <2>7. completed' \ completed = r.done \ completed
    BY <2>5, <2>6
  <2> HIDE DEF reply
  <2> QED BY <2>1, <2>2, <2>3, <2>4, <2>7, ReplyIsLegal
<1>4. CASE Elsewhere(SearchRag)
  <2>1. PICK a \in Accepted :
          /\ a.name = "search_rag" /\ runs' = [runs EXCEPT ![a.id] = @ + 1]
    BY <1>4, Zenon DEF Elsewhere, SearchRag
  <2>2. TaskNamed(a.id).kind = "rag"
    BY <2>1 DEF Accepted, InScope, IsCall, OfKind
  <2>3. a.id = id  BY <1>2, <2>1
  <2> QED BY <2>2, <2>3
<1>5. CASE Elsewhere(SearchRagBatch)
  <2>1. PICK a \in Accepted :
          /\ a.name = "search_rag"
          /\ runs' = [x \in TaskIds |-> IF x \in Named(Pending(a))
                                        THEN runs[x] + 1 ELSE runs[x]]
          /\ gathered' = IF Direct = {} THEN gathered \cup Named(Pending(a)) ELSE gathered
    BY <1>5, Zenon DEF Elsewhere, SearchRagBatch
  <2>2. id \in Named(Pending(a)) /\ Direct # {}  BY <1>2, <2>1
  <2>3. Deciding /\ IsCall(a)
    BY <1>5, <2>1 DEF Elsewhere, SearchRagBatch, IsCall
  <2>4. PICK i \in DOMAIN Tasks : Tasks[i].id = id /\ Tasks[i].kind = "rag"
    BY <1>1, <2>1, <2>2, <2>3, BatchIsOpen
  <2>5. PICK k \in DOMAIN Tasks : TaskNamed(id) = Tasks[k] /\ Tasks[k].id = id
    BY NamedTask
  <2>6. k = i  BY <2>4, <2>5 DEF Held, Descent
  <2> QED BY <2>4, <2>5, <2>6
<1>6. CASE UNCHANGED runs
  BY <1>6
<1>7. CalendarCall \/ Elsewhere(SearchRag) \/ Elsewhere(SearchRagBatch) \/ UNCHANGED runs
  BY DEF CalNext, Elsewhere, OtherUser, allVars, vars, NothingRemains, GuardrailBlocks,
         Finish, AskClarification, DuplicateBlocked, Stop, ReuseDuplicateQuery
<1> QED BY <1>3, <1>4, <1>5, <1>6, <1>7

-----------------------------------------------------------------------------
(* What a call changes.                                                    *)

\* V is U, or nothing: a run whose last task was withheld falls back to the plan,
\* where that task still stands, and ends.
Turn(c, t, r, B, U, V, L) ==
  /\ CalledAs(c, t) /\ \E A : Effect(c, t, r, A, U, L)
  /\ result = "running" /\ (result' = "running" => plan' = queue')
  /\ V \in SUBSET U /\ Rewriting(c, t, B, V, L) /\ Rewrites(Tasks', B, V, L)
  /\ \A i \in U : i \in V \/ L[i] = <<>>
  /\ result' = "running" => V = U
  /\ completed' = completed \cup r.done
  /\ r.status = "error" => result' = "error"
  /\ UNCHANGED <<approved, executable, reused, gathered, offered, others>>
  /\ source' = r.source /\ day' = r.rows
  /\ withheld' = withheld \cup r.held
  /\ selected' = selected \cup r.chosen
  /\ supplied \subseteq supplied'
  /\ supplied' \subseteq supplied \cup {Root(Tasks[c].id)} \X {"target", "all"}
  /\ IsWrite(t) /\ Target(t) # Target(Tasks[c]) =>
       <<Root(Tasks[c].id), "target">> \in supplied'
  /\ IsWrite(t) /\ t.input.args.ord = "all" /\ Tasks[c].input.args.ord # "all" =>
       <<Root(Tasks[c].id), "all">> \in supplied'
  /\ wrote' = [wrote EXCEPT ![Root(Tasks[c].id)] =
                 [e \in EventIds |-> IF e = r.target THEN @[e] + 1 ELSE @[e]]]

\* A queue that is empty afterwards leaves the tasks of the plan, all settled.
LEMMA EmptiedQueue ==
  ASSUME Held, NEW c, NEW t, NEW r, NEW B, NEW U, NEW L, Effect(c, t, r, B, U, L),
         r.queue = <<>>
  PROVE  /\ \A i \in DOMAIN Tasks : L[i] = <<>> /\ Tasks[i].id \in completed \cup r.done
         /\ \A i \in U : L[i] = <<>>
<1>1. PICK from : CopiedFrom(from, <<>>, B, U, L)
  BY DEF Effect, Rewrites
<1>2. U \subseteq DOMAIN Tasks  BY DEF Effect, Rewriting, Waiting
<1>3. ASSUME NEW i \in DOMAIN Tasks
      PROVE  i \in U /\ L[i] = <<>>
  <2>1. 1 \notin 1 .. Copies(U, L, i)
    BY <1>1 DEF CopiedFrom
  <2>2. i \in U  BY <2>1 DEF Copies
  <2>3. L[i] \in Seq(EventIds)  BY <2>2 DEF Effect, Rewriting
  <2>4. Len(L[i]) \in Nat /\ 1 \notin 1 .. Len(L[i])
    BY <2>1, <2>2, <2>3 DEF Copies
  <2>5. Len(L[i]) = 0  BY <2>4
  <2> QED BY <2>2, <2>3, <2>5, EmptySeq
<1>4. \A i \in U : L[i] = <<>> => Tasks[i].id \in completed \cup r.done
  BY DEF Effect
<1> QED BY <1>2, <1>3, <1>4

\* Every call is a turn of the queue.
LEMMA CallTurns ==
  ASSUME Held, CalendarCall
  PROVE  \E c, t, r, B, U, V, L : Turn(c, t, r, B, U, V, L)
<1>1. PICK a, c, t, r, B, U, L : CallOf(a, c, t, r) /\ Effect(c, t, r, B, U, L)
  BY CallHasEffect
<1> DEFINE V == IF r.queue = <<>> THEN {} ELSE U
           reply == [status |-> r.status, done |-> r.done, queue |-> r.queue]
           done == completed \cup r.done \cup
                     (IF r.status \in Completing THEN {a.id} ELSE {})
           over == MergeStatus(overall, r.status)
<1>2. /\ CallToolAnswered(a, reply) /\ a.id = Tasks[c].id /\ CalledAs(c, t)
      /\ t.id = Tasks[c].id
  BY <1>1 DEF CallOf, CalledAs
<1>3. /\ queue' = r.queue /\ plan' = IF r.queue = <<>> THEN plan ELSE r.queue
      /\ Respond(r.status, done, over)
      /\ UNCHANGED <<approved, executable, reused, gathered>>
  BY <1>2 DEF CallToolAnswered
<1>4. result = "running" /\ plan = queue /\ Tasks \in Seq(Task) /\ overall # "running"
      /\ overall \in Results \ {"running"}
  BY <1>1 DEF CallOf, Deciding, Running, Held, Synced, CalTypeOK, TypeOK, Tasks, TasksOf
<1>5. done = completed \cup r.done
  <2>1. r.status \in Completing => a.id \in r.done
    BY <1>1, <1>2 DEF Effect, Completing
  <2> QED BY <2>1
<1>6. completed' = completed \cup r.done
  BY <1>3, <1>5 DEF Respond
<1>7. r.status = "error" => result' = "error"
  BY <1>3 DEF Respond, Terminal
<1>10. /\ source' = r.source /\ day' = r.rows
       /\ withheld' = withheld \cup r.held
       /\ selected' = selected \cup r.chosen
       /\ UNCHANGED <<offered, others>>
  BY <1>1 DEF CallOf
<1>11. /\ supplied \subseteq supplied'
       /\ supplied' \subseteq supplied \cup {Root(Tasks[c].id)} \X {"target", "all"}
       /\ IsWrite(t) /\ Target(t) # Target(Tasks[c]) =>
            <<Root(Tasks[c].id), "target">> \in supplied'
       /\ IsWrite(t) /\ t.input.args.ord = "all" /\ Tasks[c].input.args.ord # "all" =>
            <<Root(Tasks[c].id), "all">> \in supplied'
  <2>1. supplied' = supplied \cup FilledIn(t)
    BY <1>1 DEF CallOf
  <2>2. TaskNamed(t.id) = Tasks[c]  BY <1>1, <1>2 DEF CallOf
  <2>3. FilledIn(t) =
          {<<Root(Tasks[c].id), what>> :
             what \in {x \in {"target", "all"} :
                         /\ IsWrite(t)
                         /\ x = "target" => Target(t) # Target(Tasks[c])
                         /\ x = "all" => /\ t.input.args.ord = "all"
                                         /\ Tasks[c].input.args.ord # "all"}}
    BY <1>2, <2>2, Zenon DEF FilledIn, Target
  <2> QED BY <2>1, <2>3
<1>12. wrote' = [wrote EXCEPT ![Root(Tasks[c].id)] =
                   [e \in EventIds |-> IF e = r.target THEN @[e] + 1 ELSE @[e]]]
  <2>1. wrote' = [wrote EXCEPT ![Root(t.id)] =
                    [e \in EventIds |-> IF e = r.target THEN @[e] + 1 ELSE @[e]]]
    BY <1>1, Zenon DEF CallOf
  <2> QED BY <1>2, <2>1
<1> HIDE DEF reply, done, over
<1>8. CASE r.queue = <<>>
  <2>1. Tasks' = Tasks /\ V = {}
    BY <1>3, <1>4, <1>8 DEF Tasks, TasksOf
  <2>2. \A i \in DOMAIN Tasks : Tasks[i].id \in completed'
    BY <1>1, <1>6, <1>8, EmptiedQueue
  <2>3. LeftToExecute(Tasks', completed') = {}
    BY <2>1, <2>2 DEF LeftToExecute, Left
  <2>4. over # "running"  BY <1>4, MergeTyped DEF over
  <2>5. result' # "running"
    BY <1>3, <2>3, <2>4, <1>5, <1>6 DEF Respond, Terminal, Tasks
  <2>6. Rewrites(Tasks', Tasks, V, L) /\ Rewriting(c, t, Tasks, V, L)
    <3>1. Rewriting(c, t, Tasks, {}, L)  BY <1>2, CalledFacts DEF Rewriting
    <3> QED BY <1>4, <2>1, <3>1, NothingRewritten
  <2>7. \A i \in U : L[i] = <<>>
    BY <1>1, <1>8, EmptiedQueue
  <2>8. V \in SUBSET U  BY <2>1
  <2> HIDE DEF V
  <2>9. Turn(c, t, r, Tasks, U, V, L)
    BY <1>1, <1>2, <1>3, <1>4, <1>6, <1>7, <1>10, <1>11, <1>12, <2>5, <2>6, <2>7, <2>8
       DEF Turn
  <2> QED BY <2>9
<1>9. CASE r.queue # <<>>
  <2>1. Tasks' = r.queue /\ V = U /\ plan' = queue'
    BY <1>3, <1>9 DEF Tasks, TasksOf
  <2>2. Rewrites(Tasks', B, V, L) /\ Rewriting(c, t, B, V, L)
    BY <1>1, <2>1 DEF Effect
  <2>3. V \in SUBSET U  BY <2>1
  <2>4. V = U  BY <2>1
  <2> HIDE DEF V
  <2>5. Turn(c, t, r, B, U, V, L)
    BY <1>1, <1>2, <1>3, <1>4, <1>6, <1>7, <1>10, <1>11, <1>12, <2>1, <2>2, <2>3, <2>4
       DEF Turn
  <2> QED BY <2>5
<1> QED BY <1>8, <1>9

\* The tasks after a call, by their originals.
LEMMA TurnTakes ==
  ASSUME Held, NEW c, NEW t, NEW r, NEW B, NEW U, NEW V, NEW L, Turn(c, t, r, B, U, V, L)
  PROVE  /\ V \subseteq Waiting /\ Rewriting(c, t, B, V, L)
         /\ \A i \in V : /\ L[i] \in Seq(EventIds) /\ IsInjective(L[i])
                         /\ B[i].input.args.ord # "all" => Len(L[i]) <= 1
         /\ \E from : /\ CopiedFrom(from, Tasks', B, V, L)
                      /\ \A p \in DOMAIN Tasks' :
                           Takes(Tasks'[p], B, V, L, from[p][1], from[p][2])
<1>1. Rewriting(c, t, B, V, L)
  BY DEF Turn
<1>2. PICK from : CopiedFrom(from, Tasks', B, V, L)
  BY DEF Turn, Rewrites
<1>3. \A p \in DOMAIN Tasks' : Takes(Tasks'[p], B, V, L, from[p][1], from[p][2])
  BY <1>1, <1>2, CopyFacts
<1> QED BY <1>1, <1>2, <1>3 DEF Rewriting

-----------------------------------------------------------------------------
(* A call preserves the invariant, one lemma for each of its parts.        *)

\* Types.
LEMMA TypeTurn ==
  ASSUME Held, TypeOK', NEW c, NEW t, NEW r, NEW B, NEW U, NEW V, NEW L, Turn(c, t, r, B, U, V, L),
         answers' \in [TaskIds -> SUBSET EventIds], Root(Tasks[c].id) \in TaskIds
  PROVE  CalTypeOK' /\ Sourced'
<1>1. r \in Reply /\ IsInjective(r.source.list)  BY DEF Turn, Effect
<1>2. CalTypeOK  BY DEF Held
<1>3. wrote' \in [TaskIds -> [EventIds -> Nat]]
  <2> DEFINE x == Root(Tasks[c].id)
             row == [e \in EventIds |-> IF e = r.target THEN wrote[x][e] + 1 ELSE wrote[x][e]]
  <2>1. wrote \in [TaskIds -> [EventIds -> Nat]]  BY <1>2 DEF CalTypeOK
  <2>2. row \in [EventIds -> Nat]  BY <2>1
  <2>3. wrote' = [wrote EXCEPT ![x] = row]  BY DEF Turn
  <2> HIDE DEF row, x
  <2> QED BY <2>1, <2>2, <2>3
<1>4. /\ day' \in [EventIds -> Days \cup {0}]
      /\ source' \in [has : BOOLEAN, list : Seq(EventIds)]
      /\ withheld' \subseteq TaskIds \X Reasons
      /\ selected' \subseteq TaskIds \X EventIds
      /\ Sourced'
  BY <1>1, <1>2 DEF Turn, Reply, CalTypeOK, Sourced, Reasons
<1>6. supplied' \subseteq TaskIds \X {"target", "all"}
  <2>1. supplied \subseteq TaskIds \X {"target", "all"}  BY <1>2 DEF CalTypeOK
  <2>2. supplied' \subseteq supplied \cup {Root(Tasks[c].id)} \X {"target", "all"}
    BY DEF Turn
  <2> QED BY <2>1, <2>2
<1>5. offered' \subseteq EventIds /\ others' \in 0 .. MaxOthers
  BY <1>2 DEF Turn, CalTypeOK
<1> QED BY <1>3, <1>4, <1>5, <1>6 DEF CalTypeOK, Reasons

\* Descent.
LEMMA DescentTurn ==
  ASSUME Held, NEW c, NEW t, NEW r, NEW B, NEW U, NEW V, NEW L, Turn(c, t, r, B, U, V, L)
  PROVE  Descent'
<1>1. /\ V \in SUBSET Waiting /\ Rewriting(c, t, B, V, L)
      /\ \A i \in V : /\ L[i] \in Seq(EventIds) /\ IsInjective(L[i])
                      /\ B[i].input.args.ord # "all" => Len(L[i]) <= 1
      /\ \E from : /\ CopiedFrom(from, Tasks', B, V, L)
                   /\ \A p \in DOMAIN Tasks' :
                        Takes(Tasks'[p], B, V, L, from[p][1], from[p][2])
  BY TurnTakes
<1>2. PICK from : /\ CopiedFrom(from, Tasks', B, V, L)
                  /\ \A p \in DOMAIN Tasks' :
                       Takes(Tasks'[p], B, V, L, from[p][1], from[p][2])
  BY <1>1
<1> DEFINE q == Tasks'
<1>3. \A p1, p2 \in DOMAIN q : q[p1].id = q[p2].id => p1 = p2
  BY <1>1, <1>2, CopiesDiffer
<1> HIDE DEF q
<1>6. approved' = approved /\ supplied \subseteq supplied'  BY DEF Turn
<1>7. ASSUME NEW i \in DOMAIN Tasks
      PROVE  B[i] = Tasks[i] \/ (i = c /\ B[i] = t /\ IsWrite(t))
  <2>1. Tasks \in Seq(Task)  BY DEF Held, CalTypeOK, TypeOK, Tasks, TasksOf
  <2>2. Based(c, t, B)  BY <1>1 DEF Rewriting
  <2> QED BY <2>1, <2>2, BaseFacts
<1>4. ASSUME NEW p \in DOMAIN q
      PROVE  \E j \in DOMAIN approved :
               /\ Root(q[p].id) = approved[j].id
               /\ CanWrite(q[p]) <=> CanWrite(approved[j])
               /\ IsWrite(approved[j]) => IsWrite(q[p])
               /\ q[p].input.args.ord = "all" =>
                    \/ approved[j].input.args.ord = "all"
                    \/ <<approved[j].id, "all">> \in supplied'
  <2>1. Takes(q[p], B, V, L, from[p][1], from[p][2])  BY <1>2 DEF q
  <2> DEFINE i == from[p][1]
  <2>2. PICK j \in DOMAIN approved : Descends(Tasks[i], approved[j])
    BY <2>1 DEF Takes, Held, Descent
  <2> HIDE DEF i
  <2>3. /\ i \in DOMAIN Tasks /\ Root(q[p].id) = Root(Tasks[i].id)
        /\ CanWrite(q[p]) <=> CanWrite(Tasks[i])
        /\ IsWrite(Tasks[i]) => IsWrite(q[p])
        /\ q[p].input.args.ord = B[i].input.args.ord
    BY <2>1 DEF Takes, i
  <2>4. /\ Root(Tasks[i].id) = approved[j].id
        /\ CanWrite(Tasks[i]) <=> CanWrite(approved[j])
        /\ IsWrite(approved[j]) => IsWrite(Tasks[i])
        /\ Tasks[i].input.args.ord = "all" =>
             \/ approved[j].input.args.ord = "all"
             \/ <<approved[j].id, "all">> \in supplied
    BY <2>2 DEF Descends
  <2>5. B[i].input.args.ord = "all" =>
          Tasks[i].input.args.ord = "all" \/ <<Root(Tasks[i].id), "all">> \in supplied'
    <3>1. CASE B[i] = Tasks[i]  BY <3>1
    <3>2. CASE i = c /\ B[i] = t /\ IsWrite(t)  BY <3>2 DEF Turn
    <3> QED BY <1>7, <2>3, <3>1, <3>2
  <2> QED BY <1>6, <2>3, <2>4, <2>5
<1>5. ASSUME NEW p \in DOMAIN q, CanWrite(q[p]), q[p].input.args.ord # "all"
      PROVE  Root(q[p].id) = q[p].id
  <2> DEFINE i == from[p][1]
  <2>1. Takes(q[p], B, V, L, i, from[p][2])  BY <1>2 DEF q
  <2> HIDE DEF i
  <2>2. /\ i \in DOMAIN Tasks /\ CanWrite(Tasks[i]) /\ B[i].input.args.ord # "all"
        /\ Root(q[p].id) = Root(Tasks[i].id)
        /\ q[p].id = Tasks[i].id
    BY <1>1, <1>5, <2>1 DEF Takes
  <2>3. CASE i \in Waiting
    BY <2>2, <2>3, WaitingApproved
  <2>4. CASE i \notin Waiting
    <3>1. q[p] = Tasks[i]  BY <2>1, <2>4 DEF Takes
    <3> QED BY <1>5, <2>2, <3>1 DEF Held, Descent
  <2> QED BY <2>3, <2>4
<1>8. /\ \A p1, p2 \in DOMAIN Tasks' : Tasks'[p1].id = Tasks'[p2].id => p1 = p2
      /\ \A p \in DOMAIN Tasks' : \E j \in DOMAIN approved' : Descends(Tasks[p], approved[j])'
      /\ \A p \in DOMAIN Tasks' :
           CanWrite(Tasks[p])' /\ Tasks'[p].input.args.ord # "all"
             => Root(Tasks'[p].id) = Tasks'[p].id
  BY <1>3, <1>4, <1>5, <1>6 DEF Descends, q, CanWrite, IsWrite
<1> QED BY <1>8 DEF Descent

\* Tasks of one request, one of which was waiting, are that one and its copies.
LEMMA AloneTurn ==
  ASSUME Held, NEW c, NEW t, NEW r, NEW B, NEW U, NEW V, NEW L, Turn(c, t, r, B, U, V, L)
  PROVE  Alone'
<1>1. /\ V \in SUBSET Waiting
      /\ \E from : /\ CopiedFrom(from, Tasks', B, V, L)
                   /\ \A p \in DOMAIN Tasks' :
                        Takes(Tasks'[p], B, V, L, from[p][1], from[p][2])
  BY TurnTakes
<1>2. PICK from : /\ CopiedFrom(from, Tasks', B, V, L)
                  /\ \A p \in DOMAIN Tasks' :
                       Takes(Tasks'[p], B, V, L, from[p][1], from[p][2])
  BY <1>1
<1> DEFINE q == Tasks'
<1>3. ASSUME NEW p \in DOMAIN q, CanWrite(q[p]), Target(q[p]) = 0
      PROVE  /\ Root(q[p].id) = q[p].id
             /\ \A o \in DOMAIN q : Root(q[o].id) = q[p].id => o = p
             /\ \A x \in completed' : Root(x) = q[p].id => x = q[p].id
  <2> DEFINE i == from[p][1]
  <2>1. Takes(q[p], B, V, L, i, from[p][2])  BY <1>2
  <2>2. i \notin V
    BY <1>3, <2>1, EventFacts DEF Takes
  <2>3. /\ q[p].id = Tasks[i].id /\ from[p][2] = 1 /\ i \in DOMAIN Tasks
        /\ Target(q[p]) = Target(Tasks[i]) /\ (CanWrite(q[p]) <=> CanWrite(Tasks[i]))
    BY <2>1, <2>2 DEF Takes
  <2>4. i \in Waiting  BY <1>3, <2>3 DEF Waiting
  <2>5. /\ Root(q[p].id) = q[p].id
        /\ \A j \in DOMAIN Tasks : Root(Tasks[j].id) = q[p].id => j = i
        /\ \A x \in completed : Root(x) = q[p].id => x = q[p].id
    BY <2>3, <2>4 DEF Held, Alone
  <2>6. ASSUME NEW o \in DOMAIN q, Root(q[o].id) = q[p].id PROVE o = p
    <3> DEFINE j == from[o][1]
    <3>1. Takes(q[o], B, V, L, j, from[o][2])  BY <1>2
    <3>2. j = i  BY <2>5, <2>6, <3>1 DEF Takes
    <3>3. from[o][2] = 1  BY <2>2, <3>1, <3>2 DEF Takes
    <3> QED BY <1>2, <2>3, <3>2, <3>3 DEF CopiedFrom
  <2>7. ASSUME NEW x \in completed', Root(x) = q[p].id PROVE x = q[p].id
    <3>1. CASE x \in completed  BY <2>5, <2>7, <3>1
    <3>2. CASE x \notin completed
      <4>1. x \in r.done  BY <2>7, <3>2 DEF Turn
      <4>2. PICK j \in DOMAIN Tasks : x = Tasks[j].id
        BY <4>1 DEF Turn, Effect, Rewriting, CalledAs, Waiting
      <4>3. j = i  BY <2>5, <2>7, <4>2
      <4> QED BY <2>3, <4>2, <4>3
    <3> QED BY <3>1, <3>2
  <2> QED BY <2>5, <2>6, <2>7
<1> HIDE DEF q
<1> QED BY <1>3 DEF Alone, Waiting, q, CanWrite, Target

\* Targets stay apart, and the chosen ones are those of the tasks.
LEMMA AimedTurn ==
  ASSUME Held, NEW c, NEW t, NEW r, NEW B, NEW U, NEW V, NEW L, Turn(c, t, r, B, U, V, L)
  PROVE  Aimed'
<1>1. /\ V \in SUBSET Waiting
      /\ \A i \in V : L[i] \in Seq(EventIds) /\ IsInjective(L[i])
      /\ \E from : /\ CopiedFrom(from, Tasks', B, V, L)
                   /\ \A p \in DOMAIN Tasks' :
                        Takes(Tasks'[p], B, V, L, from[p][1], from[p][2])
  BY TurnTakes
<1>2. PICK from : /\ CopiedFrom(from, Tasks', B, V, L)
                  /\ \A p \in DOMAIN Tasks' :
                       Takes(Tasks'[p], B, V, L, from[p][1], from[p][2])
  BY <1>1
<1> DEFINE q == Tasks'
<1>3. ASSUME NEW i \in V
      PROVE  /\ i \in DOMAIN Tasks /\ i \in Waiting /\ Target(Tasks[i]) = 0
             /\ \A j \in DOMAIN Tasks : Root(Tasks[j].id) = Root(Tasks[i].id) => j = i
  <2>1. i \in Waiting  BY <1>1
  <2>2. /\ i \in DOMAIN Tasks /\ Root(Tasks[i].id) = Tasks[i].id
        /\ Target(Tasks[i]) = 0
    BY <2>1, WaitingApproved
  <2> QED BY <2>1, <2>2 DEF Held, Alone
<1>4. ASSUME NEW p1 \in DOMAIN q, NEW p2 \in DOMAIN q,
             CanWrite(q[p1]), Target(q[p1]) # 0, CanWrite(q[p2]), Target(q[p2]) # 0,
             Root(q[p1].id) = Root(q[p2].id), Target(q[p1]) = Target(q[p2])
      PROVE  p1 = p2
  <2> DEFINE i1 == from[p1][1]
             i2 == from[p2][1]
             k1 == from[p1][2]
             k2 == from[p2][2]
  <2>1. Takes(q[p1], B, V, L, i1, k1) /\ Takes(q[p2], B, V, L, i2, k2)
    BY <1>2
  <2> HIDE DEF q, i1, i2, k1, k2
  <2>2. /\ i1 \in DOMAIN Tasks /\ i2 \in DOMAIN Tasks
        /\ Root(Tasks[i1].id) = Root(Tasks[i2].id)
    BY <1>4, <2>1 DEF Takes
  <2>3. CASE i1 \in V \/ i2 \in V
    <3>1. i1 = i2 /\ i1 \in V  BY <1>3, <2>2, <2>3
    <3>2. /\ k1 \in 1 .. Len(L[i1]) /\ k2 \in 1 .. Len(L[i1])
          /\ L[i1][k1] = L[i1][k2]
      BY <1>4, <2>1, <3>1 DEF Takes
    <3>3. k1 = k2
      <4>1. L[i1] \in Seq(EventIds) /\ IsInjective(L[i1])  BY <1>1, <3>1
      <4>2. DOMAIN L[i1] = 1 .. Len(L[i1])  BY <4>1
      <4> QED BY <3>2, <4>1, <4>2 DEF IsInjective
    <3> QED BY <1>2, <3>1, <3>3 DEF CopiedFrom, i1, i2, k1, k2, q
  <2>4. CASE i1 \notin V /\ i2 \notin V
    <3>1. /\ Target(q[p1]) = Target(Tasks[i1]) /\ k1 = 1 /\ CanWrite(Tasks[i1])
          /\ Target(q[p2]) = Target(Tasks[i2]) /\ k2 = 1 /\ CanWrite(Tasks[i2])
      BY <1>4, <2>1, <2>4 DEF Takes
    <3>2. i1 = i2  BY <1>4, <2>2, <3>1 DEF Held, Aimed
    <3> QED BY <1>2, <3>1, <3>2 DEF CopiedFrom, i1, i2, k1, k2, q
  <2> QED BY <2>3, <2>4
<1>5. ASSUME NEW x \in TaskIds, NEW e \in EventIds
      PROVE  <<x, e>> \in selected' <=>
               \E p \in DOMAIN q : IsWrite(q[p]) /\ Root(q[p].id) = x /\ Target(q[p]) = e
  <2>0. e # 0  BY EventFacts
  <2>1. <<x, e>> \in selected <=>
          \E i \in DOMAIN Tasks : /\ IsWrite(Tasks[i]) /\ Root(Tasks[i].id) = x
                                  /\ Target(Tasks[i]) = e
    BY DEF Held, Aimed, Writes
  <2>2. <<x, e>> \in r.chosen <=> \E i \in V : x = Root(Tasks[i].id) /\ e \in ToSet(L[i])
    <3>1. <<x, e>> \in r.chosen <=> \E i \in U : x = Root(Tasks[i].id) /\ e \in ToSet(L[i])
      BY DEF Turn, Effect
    <3>2. \A i \in U : L[i] = <<>> => e \notin ToSet(L[i])
      BY DEF ToSet
    <3> QED BY <3>1, <3>2 DEF Turn
  <2>3. selected' = selected \cup r.chosen  BY DEF Turn
  <2>4. ASSUME <<x, e>> \in selected'
        PROVE  \E p \in DOMAIN q : IsWrite(q[p]) /\ Root(q[p].id) = x /\ Target(q[p]) = e
    <3>1. CASE <<x, e>> \in selected
      <4>1. PICK i \in DOMAIN Tasks : /\ IsWrite(Tasks[i]) /\ Root(Tasks[i].id) = x
                                      /\ Target(Tasks[i]) = e
        BY <2>1, <3>1
      <4>2. i \notin V  BY <1>3, <2>0, <4>1
      <4>3. 1 \in 1 .. Copies(V, L, i)  BY <4>2 DEF Copies
      <4>4. PICK p \in DOMAIN q : from[p][1] = i  BY <1>2, <4>3 DEF CopiedFrom
      <4>5. Takes(q[p], B, V, L, from[p][1], from[p][2])  BY <1>2
      <4>7. i \notin Waiting  BY <2>0, <4>1 DEF Waiting
      <4>6. q[p] = Tasks[i]  BY <4>4, <4>5, <4>7 DEF Takes
      <4> QED BY <4>1, <4>6
    <3>2. CASE <<x, e>> \in r.chosen
      <4>1. PICK i \in V : x = Root(Tasks[i].id) /\ e \in ToSet(L[i])
        BY <2>2, <3>2
      <4>2. L[i] \in Seq(EventIds)  BY <1>1
      <4>3. PICK k \in 1 .. Len(L[i]) : L[i][k] = e  BY <4>1, <4>2 DEF ToSet
      <4>4. k \in 1 .. Copies(V, L, i) /\ i \in DOMAIN Tasks
        BY <1>3, <4>3 DEF Copies
      <4>5. PICK p \in DOMAIN q : from[p][1] = i /\ from[p][2] = k
        BY <1>2, <4>4 DEF CopiedFrom
      <4>6. Takes(q[p], B, V, L, from[p][1], from[p][2])  BY <1>2
      <4> HIDE DEF q
      <4>7. IsWrite(q[p]) /\ Root(q[p].id) = x /\ Target(q[p]) = e
        BY <1>3, <4>1, <4>3, <4>5, <4>6 DEF Takes
      <4> QED BY <4>7
    <3> QED BY <2>3, <2>4, <3>1, <3>2
  <2>5. ASSUME NEW p \in DOMAIN q, IsWrite(q[p]), Root(q[p].id) = x, Target(q[p]) = e
        PROVE  <<x, e>> \in selected'
    <3> DEFINE i == from[p][1]
               k == from[p][2]
    <3>1. Takes(q[p], B, V, L, i, k)  BY <1>2
    <3> HIDE DEF q, i, k
    <3>2. CASE i \in V
      <4>1. k \in 1 .. Len(L[i]) /\ L[i][k] = e /\ Root(Tasks[i].id) = x
        BY <2>5, <3>1, <3>2 DEF Takes
      <4>2. e \in ToSet(L[i])
        <5>1. L[i] \in Seq(EventIds)  BY <1>1, <3>2
        <5> QED BY <4>1, <5>1 DEF ToSet
      <4> QED BY <2>2, <2>3, <3>2, <4>1, <4>2
    <3>3. CASE i \notin V
      <4>2. i \in DOMAIN Tasks /\ CanWrite(Tasks[i]) /\ Target(Tasks[i]) # 0
        <5>1. CanWrite(q[p])  BY <2>5 DEF IsWrite, CanWrite
        <5> QED BY <2>0, <2>5, <3>1, <3>3, <5>1 DEF Takes
      <4>3. i \notin Waiting  BY <4>2 DEF Waiting
      <4>1. q[p] = Tasks[i] /\ i \in DOMAIN Tasks  BY <3>1, <4>3 DEF Takes
      <4> QED BY <2>1, <2>3, <2>5, <4>1
    <3> QED BY <3>2, <3>3
  <2> QED BY <2>4, <2>5
<1> HIDE DEF q
<1>6. \A p1, p2 \in {k \in DOMAIN Tasks' : CanWrite(Tasks'[k]) /\ Target(Tasks'[k]) # 0} :
        Root(Tasks'[p1].id) = Root(Tasks'[p2].id) /\ Target(Tasks'[p1]) = Target(Tasks'[p2])
          => p1 = p2
  BY <1>4 DEF q
<1>7. \A x \in TaskIds, e \in EventIds :
        <<x, e>> \in selected' <=>
          \E p \in DOMAIN Tasks' : /\ IsWrite(Tasks'[p]) /\ Root(Tasks'[p].id) = x
                                   /\ Target(Tasks'[p]) = e
  BY <1>5 DEF q
<1> QED BY <1>6, <1>7, Zenon DEF Aimed

\* Each copy of a task is there after the call, be it the task itself.
LEMMA Survives ==
  ASSUME Held, NEW c, NEW t, NEW r, NEW B, NEW U, NEW V, NEW L, Turn(c, t, r, B, U, V, L),
         NEW i \in DOMAIN Tasks, NEW k \in 1 .. Copies(V, L, i)
  PROVE  \E p \in DOMAIN Tasks' : Takes(Tasks'[p], B, V, L, i, k)
<1>1. PICK from : /\ CopiedFrom(from, Tasks', B, V, L)
                  /\ \A p \in DOMAIN Tasks' :
                       Takes(Tasks'[p], B, V, L, from[p][1], from[p][2])
  BY TurnTakes
<1> DEFINE q == Tasks'
<1>2. PICK p \in DOMAIN q : from[p][1] = i /\ from[p][2] = k
  BY <1>1 DEF CopiedFrom
<1>3. Takes(q[p], B, V, L, from[p][1], from[p][2])  BY <1>1
<1> HIDE DEF q
<1>4. \E o \in DOMAIN q : Takes(q[o], B, V, L, i, k)  BY <1>2, <1>3
<1> QED BY <1>4 DEF q

\* The write of a call, event by event.
LEMMA TurnWrites ==
  ASSUME Held, NEW c, NEW t, NEW r, NEW B, NEW U, NEW V, NEW L, Turn(c, t, r, B, U, V, L),
         NEW x \in TaskIds, NEW e \in EventIds
  PROVE  /\ wrote[x][e] \in Nat
         /\ wrote'[x][e] = IF x = Root(Tasks[c].id) /\ e = r.target
                           THEN wrote[x][e] + 1 ELSE wrote[x][e]
<1>1. wrote \in [TaskIds -> [EventIds -> Nat]]  BY DEF Held, CalTypeOK
<1> DEFINE y   == Root(Tasks[c].id)
           row == [d \in EventIds |-> IF d = r.target THEN wrote[y][d] + 1 ELSE wrote[y][d]]
<1>2. wrote' = [wrote EXCEPT ![y] = row]  BY DEF Turn
<1>3. row[e] = IF e = r.target THEN wrote[y][e] + 1 ELSE wrote[y][e]
  OBVIOUS
<1> HIDE DEF y, row
<1>4. wrote'[x] = IF x = y THEN row ELSE wrote[x]  BY <1>1, <1>2
<1> QED BY <1>1, <1>3, <1>4 DEF y

\* Waiting writes have no target, and no other task of their request.
LEMMA WaitingFacts ==
  ASSUME Held, NEW i \in Waiting
  PROVE  /\ i \in DOMAIN Tasks /\ CanWrite(Tasks[i]) /\ Target(Tasks[i]) = 0
         /\ Root(Tasks[i].id) = Tasks[i].id
         /\ \A j \in DOMAIN Tasks : Root(Tasks[j].id) = Root(Tasks[i].id) => j = i
<1>1. /\ i \in DOMAIN Tasks /\ Root(Tasks[i].id) = Tasks[i].id
      /\ CanWrite(Tasks[i]) /\ Target(Tasks[i]) = 0
  BY WaitingApproved
<1> QED BY <1>1 DEF Held, Alone

\* How the event a call changed relates to the task it called.
LEMMA TurnTarget ==
  ASSUME Held, NEW c, NEW t, NEW r, NEW B, NEW U, NEW V, NEW L, Turn(c, t, r, B, U, V, L),
         r.target # 0
  PROVE  /\ c \in DOMAIN Tasks /\ CanWrite(Tasks[c]) /\ Tasks[c].id \notin completed
         /\ \/ c \notin V /\ Target(Tasks[c]) = r.target
            \/ <<Root(Tasks[c].id), "target">> \in supplied'
            \/ c \in V /\ c \in Waiting /\ 1 \in 1 .. Len(L[c]) /\ r.target = L[c][1]
<1>1. PICK A : Effect(c, t, r, A, U, L)  BY DEF Turn
<1>2. CalledAs(c, t) /\ V \subseteq U  BY DEF Turn
<1>3. /\ IsWrite(t)
      /\ \/ U = {} /\ Target(t) = r.target
         \/ U = {c} /\ L[c] # <<>> /\ r.target = L[c][1]
  BY <1>1 DEF Effect
<1>4. c \in DOMAIN Tasks /\ CanWrite(Tasks[c]) /\ Tasks[c].id \notin completed
  BY <1>2, <1>3, CalledFacts DEF CalledAs
<1>5. CASE U = {} /\ Target(t) = r.target
  <2>1. CASE Target(Tasks[c]) = r.target
    BY <1>2, <1>4, <1>5, <2>1
  <2>2. CASE Target(Tasks[c]) # r.target
    <3>1. <<Root(Tasks[c].id), "target">> \in supplied'
      BY <1>3, <1>5, <2>2 DEF Turn
    <3> QED BY <1>4, <3>1
  <2> QED BY <2>1, <2>2
<1>6. CASE U = {c} /\ L[c] # <<>> /\ r.target = L[c][1]
  <2>1. c \in V  BY <1>6 DEF Turn
  <2>2. c \in Waiting /\ L[c] \in Seq(EventIds)  BY <2>1, TurnTakes
  <2>3. Len(L[c]) \in Nat /\ Len(L[c]) # 0  BY <1>6, <2>2, EmptySeq
  <2> QED BY <1>4, <1>6, <2>1, <2>2, <2>3
<1> QED BY <1>3, <1>5, <1>6

\* What only grows.
LEMMA Grows ==
  ASSUME NEW c, NEW t, NEW r, NEW B, NEW U, NEW V, NEW L, Turn(c, t, r, B, U, V, L)
  PROVE  /\ completed \subseteq completed' /\ supplied \subseteq supplied'
         /\ withheld \subseteq withheld' /\ result = "running"
         /\ approved' = approved /\ reused' = reused /\ gathered' = gathered
         /\ result' # "error" => r.status # "error" /\ Tasks[c].id \in completed'
  BY DEF Turn, Effect

\* Every change is traced to a completed write.
LEMMA TracedTurn ==
  ASSUME Held, Traced, NEW c, NEW t, NEW r, NEW B, NEW U, NEW V, NEW L,
         Turn(c, t, r, B, U, V, L)
  PROVE  Traced'
<1> SUFFICES ASSUME result' # "error", NEW x \in TaskIds, NEW e \in EventIds,
                    <<x, "target">> \notin supplied', wrote'[x][e] > 0
             PROVE  \E p \in DOMAIN Tasks' :
                      /\ CanWrite(Tasks'[p]) /\ Root(Tasks'[p].id) = x
                      /\ Target(Tasks'[p]) = e /\ Tasks'[p].id \in completed'
  BY DEF Traced, Writes, CanWrite, Target
<1>1. /\ completed \subseteq completed' /\ <<x, "target">> \notin supplied /\ result # "error"
      /\ Tasks[c].id \in completed' /\ x \in TaskIds
  BY Grows
<1>2. e # 0 /\ 0 \notin EventIds  BY EventFacts
<1>3. CASE wrote[x][e] > 0
  <2>1. PICK i \in DOMAIN Tasks : /\ CanWrite(Tasks[i]) /\ Root(Tasks[i].id) = x
                                  /\ Target(Tasks[i]) = e /\ Tasks[i].id \in completed
    BY <1>1, <1>3 DEF Traced, Writes
  <2>2. V \subseteq Waiting  BY TurnTakes
  <2>3. i \notin V /\ i \notin Waiting  BY <1>2, <2>1, <2>2, WaitingFacts
  <2>5. 1 \in 1 .. Copies(V, L, i)  BY <2>3 DEF Copies
  <2>4. PICK p \in DOMAIN Tasks' : Takes(Tasks'[p], B, V, L, i, 1)
    BY <2>5, Survives
  <2>6. Tasks'[p] = Tasks[i]  BY <2>3, <2>4 DEF Takes
  <2> QED BY <1>1, <2>1, <2>4, <2>6
<1>4. CASE ~(wrote[x][e] > 0)
  <2>1. x = Root(Tasks[c].id) /\ e = r.target
    BY <1>1, <1>4, TurnWrites
  <2>2. c \in DOMAIN Tasks /\ CanWrite(Tasks[c])  BY <1>2, <2>1, TurnTarget
  <2>3. CASE c \notin V /\ Target(Tasks[c]) = r.target
    <3>1. 1 \in 1 .. Copies(V, L, c)  BY <2>3 DEF Copies
    <3>2. PICK p \in DOMAIN Tasks' : Takes(Tasks'[p], B, V, L, c, 1)
      BY <2>2, <3>1, Survives
    <3>3. /\ CanWrite(Tasks'[p]) /\ Root(Tasks'[p].id) = x
          /\ Target(Tasks'[p]) = e /\ Tasks'[p].id = Tasks[c].id
      BY <2>1, <2>2, <2>3, <3>2 DEF Takes
    <3> QED BY <1>1, <3>3
  <2>4. CASE c \in V /\ 1 \in 1 .. Len(L[c]) /\ r.target = L[c][1]
    <3>3. 1 \in 1 .. Copies(V, L, c)  BY <2>4 DEF Copies
    <3>1. PICK p \in DOMAIN Tasks' : Takes(Tasks'[p], B, V, L, c, 1)
      BY <2>2, <3>3, Survives
    <3>2. /\ CanWrite(Tasks'[p]) /\ Root(Tasks'[p].id) = x
          /\ Target(Tasks'[p]) = e /\ Tasks'[p].id = Tasks[c].id
      BY <2>1, <2>2, <2>4, <3>1 DEF Takes
    <3> QED BY <1>1, <3>2
  <2> QED BY <1>2, <2>1, <2>3, <2>4, TurnTarget
<1> QED BY <1>3, <1>4

\* The written event is that of an uncompleted task, so it is its first write.
LEMMA NoDoubleTurn ==
  ASSUME Held, Traced, NoDoubleWrite, NEW c, NEW t, NEW r, NEW B, NEW U, NEW V, NEW L,
         Turn(c, t, r, B, U, V, L)
  PROVE  NoDoubleWrite'
<1> SUFFICES ASSUME NEW x \in TaskIds, NEW e \in EventIds, <<x, "target">> \notin supplied'
             PROVE  wrote'[x][e] <= 1
  BY DEF NoDoubleWrite
<1>1. x \in TaskIds /\ <<x, "target">> \notin supplied /\ result # "error"
  BY Grows
<1>2. wrote[x][e] <= 1 /\ wrote[x][e] \in Nat
  BY <1>1, TurnWrites DEF NoDoubleWrite
<1>3. CASE wrote'[x][e] = wrote[x][e]
  BY <1>2, <1>3
<1>4. CASE wrote'[x][e] # wrote[x][e]
  <2>1. x = Root(Tasks[c].id) /\ e = r.target /\ wrote'[x][e] = wrote[x][e] + 1
    BY <1>1, <1>4, TurnWrites
  <2>2. e # 0  BY EventFacts
  <2>3. ASSUME wrote[x][e] > 0 PROVE FALSE
    <3>1. PICK i \in DOMAIN Tasks : /\ CanWrite(Tasks[i]) /\ Root(Tasks[i].id) = x
                                    /\ Target(Tasks[i]) = e /\ Tasks[i].id \in completed
      BY <1>1, <2>3 DEF Traced, Writes
    <3>2. /\ c \in DOMAIN Tasks /\ CanWrite(Tasks[c]) /\ Tasks[c].id \notin completed
          /\ Target(Tasks[c]) = r.target \/ c \in Waiting
      BY <2>1, <2>2, TurnTarget
    <3>3. CASE c \in Waiting
      BY <2>1, <2>2, <3>1, <3>3, WaitingFacts
    <3>4. CASE Target(Tasks[c]) = r.target
      BY <2>1, <2>2, <3>1, <3>2, <3>4 DEF Held, Aimed
    <3> QED BY <3>2, <3>3, <3>4
  <2> QED BY <1>2, <2>1, <2>3
<1> QED BY <1>3, <1>4

\* Ids of approved tasks are task ids, and tell the tasks apart.
LEMMA ApprovedFacts ==
  ASSUME approved \in Plans
  PROVE  /\ \A j \in DOMAIN approved : approved[j] \in Task /\ approved[j].id \in TaskIds
         /\ \A i, j \in DOMAIN approved : approved[i].id = approved[j].id => i = j
<1>1. approved \in Seq(Task)  BY PlansAssumption
<1>2. \A j \in DOMAIN approved : approved[j] \in Task  BY <1>1
<1> QED BY <1>2, PlansAssumption DEF Task

\* A request for one event is called once, under its own id.
LEMMA SingleTurn ==
  ASSUME Held, Single, NEW c, NEW t, NEW r, NEW B, NEW U, NEW V, NEW L,
         Turn(c, t, r, B, U, V, L)
  PROVE  Single'
<1>1. approved \in Plans  BY DEF Held, CalTypeOK, TypeOK
<1>2. /\ completed \subseteq completed' /\ result = "running" /\ approved' = approved
      /\ result' # "error" => Tasks[c].id \in completed'
      /\ supplied \subseteq supplied'
  BY Grows
<1> SUFFICES ASSUME NEW j \in DOMAIN approved, IsWrite(approved[j]),
                    approved[j].input.args.ord # "all",
                    <<approved[j].id, "all">> \notin supplied'
             PROVE  LET x == approved[j].id
                    IN  /\ \A d, e \in EventIds : wrote'[x][d] > 0 /\ wrote'[x][e] > 0 => d = e
                        /\ result' # "error" =>
                             \A e \in EventIds : wrote'[x][e] > 0 => x \in completed'
  BY <1>2 DEF Single, Changed
<1> DEFINE x == approved[j].id
<1>3. x \in TaskIds  BY <1>1, ApprovedFacts
<1>4. /\ \A d, e \in EventIds : wrote[x][d] > 0 /\ wrote[x][e] > 0 => d = e
      /\ \A e \in EventIds : wrote[x][e] > 0 => x \in completed
  <2>1. /\ \A d, e \in Changed(x) : d = e
        /\ Changed(x) # {} => x \in completed
    BY <1>2 DEF Single
  <2> QED BY <2>1 DEF Changed
<1> HIDE DEF x
<1>5. CASE x = Root(Tasks[c].id) /\ r.target \in EventIds
  <2>1. r.target # 0  BY <1>5, EventFacts
  <2>2. c \in DOMAIN Tasks /\ CanWrite(Tasks[c]) /\ Tasks[c].id \notin completed
    BY <2>1, TurnTarget
  <2>3. PICK i \in DOMAIN approved : Descends(Tasks[c], approved[i])
    BY <2>2 DEF Held, Descent
  <2>4. i = j  BY <1>1, <1>5, <2>3, ApprovedFacts DEF Descends, x
  <2>5. Tasks[c].id = x
    BY <1>2, <1>5, <2>2, <2>3, <2>4 DEF Descends, Held, Descent
  <2>6. \A e \in EventIds : ~(wrote[x][e] > 0)
    BY <1>4, <2>2, <2>5
  <2>7. \A e \in EventIds : wrote'[x][e] > 0 => e = r.target
    <3> SUFFICES ASSUME NEW e \in EventIds, wrote'[x][e] > 0 PROVE e = r.target
      OBVIOUS
    <3> QED BY <1>3, <2>6, TurnWrites
  <2> QED BY <1>2, <2>5, <2>7 DEF x
<1>6. CASE ~(x = Root(Tasks[c].id) /\ r.target \in EventIds)
  <2>1. \A e \in EventIds : wrote'[x][e] = wrote[x][e]
    <3> SUFFICES ASSUME NEW e \in EventIds PROVE wrote'[x][e] = wrote[x][e]
      OBVIOUS
    <3> QED BY <1>3, <1>6, TurnWrites
  <2> QED BY <1>2, <1>4, <2>1 DEF x
<1> QED BY <1>5, <1>6

\* What was withheld for want of one event leaves the queue.
LEMMA GoneTurn ==
  ASSUME Held, Gone, NEW c, NEW t, NEW r, NEW B, NEW U, NEW V, NEW L,
         Turn(c, t, r, B, U, V, L)
  PROVE  Gone'
<1> SUFFICES ASSUME result' = "running", NEW h \in withheld', h[2] # "no_source",
                    NEW p \in DOMAIN Tasks', Root(Tasks'[p].id) = h[1]
             PROVE  FALSE
  BY DEF Gone
<1>1. PICK from : /\ CopiedFrom(from, Tasks', B, V, L)
                  /\ \A o \in DOMAIN Tasks' :
                       Takes(Tasks'[o], B, V, L, from[o][1], from[o][2])
  BY TurnTakes
<1> DEFINE i == from[p][1]
           k == from[p][2]
<1>2. Takes(Tasks'[p], B, V, L, i, k)  BY <1>1
<1> HIDE DEF i, k
<1>3. i \in DOMAIN Tasks /\ Root(Tasks[i].id) = h[1]  BY <1>2 DEF Takes
<1>4. V = U /\ result = "running" /\ withheld' = withheld \cup r.held
  BY DEF Turn
<1>5. CASE h \in withheld
  BY <1>3, <1>4, <1>5 DEF Gone
<1>6. CASE h \in r.held
  <2>1. PICK u \in U : L[u] = <<>> /\ h[1] = Root(Tasks[u].id)
    <3>1. PICK A : Effect(c, t, r, A, U, L)  BY DEF Turn
    <3> QED BY <1>6, <3>1 DEF Effect
  <2>2. u \in Waiting  BY <1>4, TurnTakes
  <2>3. i = u  BY <1>3, <2>1, <2>2, WaitingFacts
  <2>4. k \in 1 .. Len(<<>>)  BY <1>2, <1>4, <2>1, <2>3 DEF Takes
  <2> QED BY <2>4
<1> QED BY <1>4, <1>5, <1>6

\* Facts about a task of the run and the request it belongs to.
LEMMA RequestFacts ==
  ASSUME Held, NEW i \in DOMAIN Tasks
  PROVE  /\ Root(Tasks[i].id) \in TaskIds
         /\ Target(Tasks[i]) \in EventIds \cup {0}
<1>1. approved \in Plans /\ Tasks \in Seq(Task)
  BY DEF Held, CalTypeOK, TypeOK, Tasks, TasksOf
<1>2. PICK j \in DOMAIN approved : Descends(Tasks[i], approved[j])
  BY DEF Held, Descent
<1>3. Root(Tasks[i].id) \in TaskIds
  BY <1>1, <1>2, ApprovedFacts DEF Descends
<1>4. Tasks[i].input.args \in Args
  <2>1. Tasks[i] \in Task  BY <1>1
  <2> QED BY <2>1 DEF Task, ToolInput
<1>5. Target(Tasks[i]) \in EventIds \cup {0}
  <2>1. Tasks[i].input.args \in [days : SUBSET Days, target : EventIds \cup {0},
                                 match : SUBSET EventIds, ord : Ordinals]
    BY <1>4, CalendarAssumption, Zenon
  <2> QED BY <2>1 DEF Target
<1> QED BY <1>3, <1>5

\* A waiting write whose request was neither apart nor put back is not settled,
\* before the call or by it, unless it is what was called.
LEMMA WaitingUnsettled ==
  ASSUME Held, Carried, NEW c, NEW t, NEW r, NEW B, NEW U, NEW V, NEW L,
         Turn(c, t, r, B, U, V, L),
         NEW i \in U, NEW j \in DOMAIN approved, IsWrite(approved[j]),
         NEW CONSTANT x \in {approved[j].id}, Root(Tasks[i].id) = x,
         ~Apart(x)', ~Back(x)', result' # "error"
  PROVE  L[i] # <<>> /\ Tasks[i].id \notin completed
<1>0. PICK A : Effect(c, t, r, A, U, L)  BY DEF Turn
<1>1. /\ supplied \subseteq supplied' /\ withheld \subseteq withheld'
      /\ reused' = reused /\ gathered' = gathered /\ result # "error"
  BY Grows
<1>2. U \subseteq Waiting  BY <1>0 DEF Effect, Rewriting
<1>3. i \in DOMAIN Tasks /\ CanWrite(Tasks[i]) /\ Target(Tasks[i]) = 0
  BY <1>2, WaitingFacts
<1>4. /\ <<x, "target">> \notin supplied'
      /\ ~(\E y \in reused' \cup gathered' : Root(y) = x)
      /\ ~(\E h \in withheld' : h[1] = x)
  BY DEF Apart, Back
<1>5. ~Apart(x) /\ ~Back(x)
  BY <1>1, <1>4 DEF Apart, Back
<1>6. Tasks[i].id \notin completed
  <2>1. i \in Writes(x)  BY <1>3 DEF Writes
  <2> QED BY <1>1, <1>3, <1>5, <2>1 DEF Carried
<1>7. L[i] # <<>>
  <2> SUFFICES ASSUME L[i] = <<>> PROVE FALSE
    OBVIOUS
  <2>1. \E h \in r.held : h[1] = x
    BY <1>0, <1>6 DEF Effect
  <2> QED BY <1>4, <2>1 DEF Turn
<1> QED BY <1>6, <1>7

\* What a completed write was to change is changed.
LEMMA CarriedTurn ==
  ASSUME Held, Carried, NEW c, NEW t, NEW r, NEW B, NEW U, NEW V, NEW L,
         Turn(c, t, r, B, U, V, L)
  PROVE  Carried'
<1> SUFFICES ASSUME result' # "error" PROVE Carried'
  BY DEF Carried
<1>1. /\ completed \subseteq completed' /\ supplied \subseteq supplied'
      /\ withheld \subseteq withheld' /\ result # "error"
      /\ approved' = approved /\ reused' = reused /\ gathered' = gathered
      /\ r.status # "error" /\ Tasks[c].id \in completed'
  BY Grows
<1>2. \A x : ~Apart(x)' /\ ~Back(x)' => ~Apart(x) /\ ~Back(x)
  BY <1>1 DEF Apart, Back
<1>3. /\ V \subseteq Waiting /\ V \subseteq U /\ U \subseteq Waiting
      /\ completed' = completed \cup r.done
      /\ \A i \in U : i \in V \/ L[i] = <<>>
  BY TurnTakes DEF Turn, Effect, Rewriting
<1>4. ASSUME NEW j \in DOMAIN approved, IsWrite(approved[j]),
             NEW x \in {approved[j].id}, ~Apart(x)', ~Back(x)'
      PROVE  \E p \in DOMAIN Tasks' : CanWrite(Tasks'[p]) /\ Root(Tasks'[p].id) = x
  <2>1. ~Apart(x) /\ ~Back(x)  BY <1>2, <1>4
  <2>2. Writes(x) # {}  BY <1>1, <1>4, <2>1 DEF Carried
  <2>3. PICK i \in DOMAIN Tasks : CanWrite(Tasks[i]) /\ Root(Tasks[i].id) = x
    BY <2>2 DEF Writes
  <2>4. CASE i \notin V
    <3>1. i \notin U
      <4> SUFFICES ASSUME i \in U PROVE FALSE
        OBVIOUS
      <4>1. L[i] = <<>>  BY <1>3, <2>4
      <4> QED BY <1>4, <2>3, <4>1, WaitingUnsettled
    <3>2. 1 \in 1 .. Copies(V, L, i)  BY <2>4 DEF Copies
    <3>3. PICK p \in DOMAIN Tasks' : Takes(Tasks'[p], B, V, L, i, 1)
      BY <3>2, Survives
    <3> QED BY <2>3, <3>3 DEF Takes
  <2>5. CASE i \in V
    <3>1. L[i] # <<>>  BY <1>3, <1>4, <2>3, <2>5, WaitingUnsettled
    <3>2. L[i] \in Seq(EventIds)  BY <2>5, TurnTakes
    <3>3. 1 \in 1 .. Copies(V, L, i)
      <4>1. Len(L[i]) \in Nat /\ Len(L[i]) # 0  BY <3>1, <3>2, EmptySeq
      <4> QED BY <2>5, <4>1 DEF Copies
    <3>4. PICK p \in DOMAIN Tasks' : Takes(Tasks'[p], B, V, L, i, 1)
      BY <2>5, <3>3, Survives
    <3> QED BY <2>3, <3>4 DEF Takes
  <2> QED BY <2>4, <2>5
<1>5. ASSUME NEW j \in DOMAIN approved, IsWrite(approved[j]),
             NEW x \in {approved[j].id}, ~Apart(x)', ~Back(x)',
             NEW p \in DOMAIN Tasks', CanWrite(Tasks'[p]), Root(Tasks'[p].id) = x,
             Tasks'[p].id \in completed'
      PROVE  Target(Tasks'[p]) # 0 /\ wrote'[x][Target(Tasks'[p])] > 0
  <2>1. PICK from : /\ CopiedFrom(from, Tasks', B, V, L)
                    /\ \A o \in DOMAIN Tasks' :
                         Takes(Tasks'[o], B, V, L, from[o][1], from[o][2])
    BY TurnTakes
  <2> DEFINE i == from[p][1]
             k == from[p][2]
  <2>2. Takes(Tasks'[p], B, V, L, i, k)  BY <2>1
  <2> HIDE DEF i, k
  <2>3. /\ i \in DOMAIN Tasks /\ CanWrite(Tasks[i]) /\ Root(Tasks[i].id) = x
        /\ k \in 1 .. Copies(V, L, i)
    BY <1>5, <2>2 DEF Takes
  <2>13. IsWrite(Tasks[i])
    <3>1. PICK o \in DOMAIN approved : Descends(Tasks[i], approved[o])
      BY <2>3 DEF Held, Descent
    <3>2. approved \in Plans  BY DEF Held, CalTypeOK, TypeOK
    <3>3. o = j  BY <1>5, <2>3, <3>1, <3>2, ApprovedFacts DEF Descends
    <3> QED BY <1>5, <3>1, <3>3 DEF Descends
  <2>4. ~Apart(x) /\ ~Back(x)  BY <1>2, <1>5
  <2>5. <<x, "target">> \notin supplied' /\ ~(\E h \in withheld' : h[1] = x)
    BY <1>5 DEF Apart, Back
  <2>6. x \in TaskIds /\ Target(Tasks[i]) \in EventIds \cup {0}
    BY <2>3, RequestFacts
  <2>7. Tasks[i].id \in completed => i \notin U
    BY <1>5, <2>3, WaitingUnsettled
  <2>8. Tasks[i].id \in completed =>
          Target(Tasks[i]) # 0 /\ wrote[x][Target(Tasks[i])] > 0
    BY <1>1, <1>5, <2>3, <2>4 DEF Carried, Writes
  <2>9. ASSUME Tasks[i].id \in r.done, Tasks[i].id \notin completed
        PROVE  i = c /\ r.target \in EventIds /\ wrote'[x][r.target] > 0
    <3>1. ~(\E u \in U : L[u] = <<>> /\ Tasks[i].id = Tasks[u].id)
      <4> SUFFICES ASSUME NEW u \in U, L[u] = <<>>, Tasks[i].id = Tasks[u].id
                   PROVE  FALSE
        OBVIOUS
      <4>1. i = u  BY <1>3, <2>3, WaitingFacts
      <4> QED BY <1>5, <2>3, <4>1, WaitingUnsettled
    <3>7. PICK A : Effect(c, t, r, A, U, L)  BY DEF Turn
    <3>2. Tasks[i].id = Tasks[c].id /\ c \in DOMAIN Tasks
      BY <2>9, <3>1, <3>7 DEF Turn, Effect, CalledAs
    <3>3. i = c  BY <2>3, <3>2 DEF Held, Descent
    <3>4. r.target # 0
      <4>1. withheld' = withheld \cup r.held  BY DEF Turn
      <4>2. r.target # 0 \/ \E h \in r.held : h[1] = Root(Tasks[c].id)
        <5>1. IsWrite(t)  BY <2>13, <3>3, CalledFacts DEF Turn
        <5> QED BY <1>1, <3>7, <5>1 DEF Effect
      <4> QED BY <2>3, <2>5, <3>3, <4>1, <4>2
    <3>5. r.target \in EventIds
      BY <3>4, <3>7 DEF Effect, Reply
    <3>6. wrote'[x][r.target] = wrote[x][r.target] + 1 /\ wrote[x][r.target] \in Nat
      BY <2>3, <2>6, <3>3, <3>5, TurnWrites
    <3> QED BY <3>3, <3>5, <3>6
  <2>10. r.target # 0 /\ i = c =>
           \/ c \notin V /\ Target(Tasks[c]) = r.target
           \/ c \in V /\ r.target = L[c][1]
    BY <2>3, <2>5, TurnTarget
  <2>11. CASE i \notin V
    <3>1. Tasks'[p].id = Tasks[i].id /\ Target(Tasks'[p]) = Target(Tasks[i])
      BY <2>2, <2>11 DEF Takes
    <3>2. CASE Tasks[i].id \in completed
      <4>1. Target(Tasks[i]) \in EventIds /\ wrote[x][Target(Tasks[i])] > 0
        BY <2>6, <2>8, <3>2
      <4>2. wrote'[x][Target(Tasks[i])] > 0
        BY <2>6, <4>1, TurnWrites
      <4> QED BY <2>8, <3>1, <3>2, <4>2
    <3>3. CASE Tasks[i].id \notin completed
      <4>1. i = c /\ r.target \in EventIds /\ wrote'[x][r.target] > 0
        BY <1>3, <1>5, <2>9, <3>1, <3>3
      <4>2. r.target # 0  BY <4>1, EventFacts
      <4>3. Target(Tasks[i]) = r.target  BY <2>10, <2>11, <4>1, <4>2
      <4> QED BY <3>1, <4>1, <4>2, <4>3
    <3> QED BY <3>2, <3>3
  <2>12. CASE i \in V
    <3>1. /\ k \in 1 .. Len(L[i]) /\ Target(Tasks'[p]) = L[i][k]
          /\ k = 1 => Tasks'[p].id = Tasks[i].id
          /\ k # 1 => Tasks'[p].id \notin Ids(Tasks) \cup completed
      BY <2>2, <2>12 DEF Takes
    <3>2. r.done \subseteq Ids(Tasks)
      <4>1. c \in DOMAIN Tasks /\ U \subseteq DOMAIN Tasks
        BY <1>3 DEF Turn, CalledAs, Waiting
      <4>2. PICK A : Effect(c, t, r, A, U, L)  BY DEF Turn
      <4> QED BY <4>1, <4>2 DEF Effect, Ids
    <3>3. k = 1 /\ Tasks'[p].id = Tasks[i].id
      BY <1>3, <1>5, <3>1, <3>2
    <3>4. Tasks[i].id \notin completed  BY <1>3, <2>7, <2>12
    <3>5. i = c /\ r.target \in EventIds /\ wrote'[x][r.target] > 0
      BY <1>3, <1>5, <2>9, <3>3, <3>4
    <3>6. r.target # 0  BY <3>5, EventFacts
    <3>7. r.target = L[i][1]  BY <2>10, <2>12, <3>5, <3>6
    <3> QED BY <3>1, <3>3, <3>5, <3>6, <3>7
  <2> QED BY <2>11, <2>12
<1> SUFFICES ASSUME NEW j \in DOMAIN approved, IsWrite(approved[j]),
                    NEW x \in {approved[j].id}, ~Apart(x)', ~Back(x)'
             PROVE  /\ Writes(x)' # {}
                    /\ \A p \in Writes(x)' :
                         Tasks'[p].id \in completed' =>
                           Target(Tasks'[p]) # 0 /\ wrote'[x][Target(Tasks'[p])] > 0
  BY <1>1 DEF Carried, IsWrite, Target
<1>6. Writes(x)' = {p \in DOMAIN Tasks' : CanWrite(Tasks'[p]) /\ Root(Tasks'[p].id) = x}
  BY DEF Writes, CanWrite
<1> QED BY <1>4, <1>5, <1>6

-----------------------------------------------------------------------------
(* The other steps.                                                        *)

\* A step that calls no calendar tool settles reads and searches at most, or what
\* the model names in a batch.
Quiet ==
  /\ UNCHANGED calVars /\ UNCHANGED <<approved, queue, plan>>
  /\ result = "running"
  /\ completed \subseteq completed' /\ reused \subseteq reused'
  /\ gathered \subseteq gathered'
  /\ \A x \in completed' :
       \/ x \in completed
       \/ \E i \in DOMAIN Tasks :
            /\ x = Tasks[i].id
            /\ CanWrite(Tasks[i]) => x \in reused' \cup gathered'

\* Every step but a call is quiet.
LEMMA QuietSteps ==
  ASSUME Held, Elsewhere(NothingRemains) \/ Elsewhere(GuardrailBlocks)
                 \/ Elsewhere(Finish) \/ Elsewhere(AskClarification)
                 \/ Elsewhere(ReuseDuplicateQuery) \/ Elsewhere(DuplicateBlocked)
                 \/ Elsewhere(SearchRag) \/ Elsewhere(SearchRagBatch)
  PROVE  Quiet
<1>1. CASE Elsewhere(NothingRemains) \/ Elsewhere(GuardrailBlocks)
             \/ Elsewhere(Finish) \/ Elsewhere(AskClarification)
             \/ Elsewhere(DuplicateBlocked)
  BY <1>1 DEF Elsewhere, NothingRemains, GuardrailBlocks, Finish, AskClarification,
              DuplicateBlocked, Stop, Quiet, Deciding, Running
<1>2. TypeOK  BY DEF Held, CalTypeOK
<1>3. CASE Elsewhere(ReuseDuplicateQuery)
  <2>1. PICK a \in Accepted :
          /\ IsCall(a) /\ completed' = completed \cup {a.id} /\ reused' = reused \cup {a.id}
    BY <1>3 DEF Elsewhere, ReuseDuplicateQuery
  <2>2. /\ UNCHANGED calVars /\ UNCHANGED <<approved, queue, plan, gathered>>
        /\ result = "running"
    BY <1>3 DEF Elsewhere, ReuseDuplicateQuery, Deciding, Running
  <2>3. a.id \in Ids(Tasks)
    BY <2>1 DEF Accepted, InScope, NamesWork
  <2> QED BY <2>1, <2>2, <2>3 DEF Quiet, Ids
<1>4. ASSUME NEW id \in Ids(Tasks), TaskNamed(id).kind = "rag"
      PROVE  \E i \in DOMAIN Tasks : id = Tasks[i].id /\ ~CanWrite(Tasks[i])
  BY <1>4, NamedTask DEF CanWrite
<1>5. CASE Elsewhere(SearchRag)
  <2>1. PICK a \in Accepted :
          /\ a.name = "search_rag"
          /\ \E status \in IF a.batch = {} THEN RagStatus \cup {"blocked"} ELSE {"empty"} :
               Respond(status, completed \cup (IF status \in Completing THEN {a.id} ELSE {}),
                       MergeStatus(overall, status))
    BY <1>5, Zenon DEF Elsewhere, SearchRag
  <2>2. /\ UNCHANGED calVars /\ UNCHANGED <<approved, queue, plan, reused, gathered>>
        /\ result = "running"
    BY <1>5 DEF Elsewhere, SearchRag, Deciding, Running
  <2>3. a.id \in Ids(Tasks) /\ TaskNamed(a.id).kind = "rag"
    BY <2>1 DEF Accepted, InScope, NamesWork, IsCall, OfKind
  <2>4. completed \subseteq completed' /\ completed' \subseteq completed \cup {a.id}
    <3>1. PICK status :
            Respond(status, completed \cup (IF status \in Completing THEN {a.id} ELSE {}),
                    MergeStatus(overall, status))
      BY <2>1
    <3> QED BY <3>1 DEF Respond
  <2> QED BY <1>4, <2>2, <2>3, <2>4 DEF Quiet
<1>6. CASE Elsewhere(SearchRagBatch)
  <2> DEFINE ids(a) == Named(Pending(a))
  <2>1. PICK a \in Accepted :
          /\ a.name = "search_rag"
          /\ gathered' = IF Direct = {} THEN gathered \cup ids(a) ELSE gathered
          /\ \/ Respond("blocked", completed, "blocked")
             \/ \E over : Respond("success", completed \cup ids(a), over)
    <3>1. PICK a \in Accepted :
            /\ a.name = "search_rag"
            /\ gathered' = IF Direct = {} THEN gathered \cup ids(a) ELSE gathered
            /\ \/ Respond("blocked", completed, "blocked")
               \/ \E found \in SUBSET Pending(a) :
                    Respond("success", completed \cup ids(a),
                            IF found = Pending(a) THEN overall
                            ELSE MergeStatus(overall, "empty"))
      BY <1>6, Zenon DEF Elsewhere, SearchRagBatch
    <3> HIDE DEF ids
    <3> QED BY <3>1
  <2>2. /\ UNCHANGED calVars /\ UNCHANGED <<approved, queue, plan, reused>>
        /\ result = "running" /\ Deciding
    BY <1>6 DEF Elsewhere, SearchRagBatch, Deciding, Running
  <2>3. IsCall(a)  BY <2>1 DEF IsCall
  <2>4. completed \subseteq completed' /\ completed' \subseteq completed \cup ids(a)
    <3> HIDE DEF ids
    <3> QED BY <2>1 DEF Respond
  <2>5. gathered \subseteq gathered'  BY <2>1
  <2>6. ASSUME NEW x \in ids(a)
        PROVE  \E i \in DOMAIN Tasks : /\ x = Tasks[i].id
                                       /\ CanWrite(Tasks[i]) => x \in gathered'
    <3>1. Open(x)  BY <1>2, <2>1, <2>2, <2>3, BatchIsOpen
    <3>2. CASE Direct = {}
      <4>1. x \in gathered'  BY <2>1, <3>2
      <4>2. x \in Ids(Tasks)  BY <3>1 DEF Open
      <4> QED BY <4>1, <4>2 DEF Ids
    <3>3. CASE Direct # {}
      <4>1. PICK i \in DOMAIN Tasks : Tasks[i].id = x /\ Tasks[i].kind = "rag"
        BY <1>2, <2>1, <2>2, <2>3, <3>3, BatchIsOpen
      <4> QED BY <4>1 DEF CanWrite
    <3> QED BY <3>2, <3>3
  <2> HIDE DEF ids
  <2> QED BY <2>2, <2>4, <2>5, <2>6 DEF Quiet
<1> QED BY <1>1, <1>3, <1>5, <1>6

\* Quiet steps keep the invariant,
LEMMA QuietKeeps ==
  ASSUME CalInv, TypeOK', Quiet, Over'
  PROVE  CalInv'
<1>1. /\ UNCHANGED calVars /\ UNCHANGED <<approved, queue, plan>> /\ Tasks' = Tasks
      /\ result = "running"
      /\ completed \subseteq completed' /\ reused \subseteq reused'
      /\ gathered \subseteq gathered'
  BY DEF Quiet, Tasks, TasksOf
<1>2. CalTypeOK'
  BY <1>1 DEF CalInv, Held, CalTypeOK, calVars
<1>3. Synced' /\ Descent' /\ Aimed' /\ Sourced'
  BY <1>1 DEF CalInv, Held, Synced, Descent, Descends, Aimed, Sourced, Writes, Target, calVars
<1>4. Alone'
  <2> SUFFICES ASSUME NEW i \in Waiting, NEW x \in completed', Root(x) = Tasks[i].id
               PROVE  x = Tasks[i].id
    BY <1>1 DEF CalInv, Held, Alone, Waiting
  <2>1. CASE x \in completed
    BY <2>1 DEF CalInv, Held, Alone
  <2>2. CASE \E j \in DOMAIN Tasks : x = Tasks[j].id
    BY <2>2 DEF CalInv, Held, Alone
  <2> QED BY <2>1, <2>2 DEF Quiet
<1>5. Traced' /\ Single' /\ Gone' /\ NoDoubleWrite'
  BY <1>1 DEF CalInv, Traced, Single, Changed, Gone, NoDoubleWrite, Writes, Target, calVars
<1>6. Carried'
  <2> SUFFICES ASSUME NEW j \in DOMAIN approved, IsWrite(approved[j]),
                      NEW x \in {approved[j].id}, ~Apart(x)', ~Back(x)'
               PROVE  /\ Writes(x) # {}
                      /\ \A i \in Writes(x) :
                           Tasks[i].id \in completed' =>
                             Target(Tasks[i]) # 0 /\ wrote[x][Target(Tasks[i])] > 0
    BY <1>1 DEF Carried, Writes, Target, calVars
  <2>1. ~Apart(x) /\ ~Back(x)
    BY <1>1 DEF Apart, Back, calVars
  <2>2. ASSUME NEW i \in Writes(x), Tasks[i].id \in completed'
        PROVE  Tasks[i].id \in completed
    <3>1. Tasks[i].id \notin reused' \cup gathered'
      BY DEF Apart, Writes
    <3>2. CASE Tasks[i].id \notin completed
      <4>1. PICK o \in DOMAIN Tasks :
              /\ Tasks[i].id = Tasks[o].id
              /\ CanWrite(Tasks[o]) => Tasks[i].id \in reused' \cup gathered'
        BY <2>2, <3>2 DEF Quiet
      <4>2. i = o  BY <4>1 DEF CalInv, Held, Descent, Writes
      <4> QED BY <3>1, <4>1, <4>2 DEF Writes
    <3> QED BY <3>2
  <2>3. result # "error"  BY <1>1
  <2> QED BY <2>1, <2>2, <2>3 DEF CalInv, Carried
<1> QED BY <1>2, <1>3, <1>4, <1>5, <1>6 DEF CalInv, Held

\* other users do, who change rows only,
LEMMA OtherUserKeeps ==
  ASSUME CalInv, OtherUser
  PROVE  CalInv'
<1>1. UNCHANGED <<vars, source, answers, offered, wrote, selected, supplied, withheld>>
  BY DEF OtherUser
<1>2. Tasks' = Tasks  BY <1>1 DEF vars, runVars, Tasks, TasksOf
<1>3. CalTypeOK'
  <2>1. TypeOK'  BY <1>1 DEF CalInv, Held, CalTypeOK, TypeOK, vars, runVars
  <2>2. day' \in [EventIds -> Days \cup {0}] /\ others' \in 0 .. MaxOthers
    <3>1. MaxOthers \in Nat  BY CalendarAssumption, Zenon
    <3>2. others \in 0 .. MaxOthers /\ others < MaxOthers /\ others' = others + 1
      BY DEF OtherUser, CalInv, Held, CalTypeOK
    <3>3. \E e \in EventIds, d \in Days \cup {0} : day' = [day EXCEPT ![e] = d]
      BY Zenon DEF OtherUser
    <3>4. day \in [EventIds -> Days \cup {0}]  BY DEF CalInv, Held, CalTypeOK
    <3> QED BY <3>1, <3>2, <3>3, <3>4
  <2> QED BY <1>1, <2>1, <2>2 DEF CalInv, Held, CalTypeOK
<1>4. Synced' /\ Descent' /\ Alone' /\ Aimed' /\ Sourced'
  BY <1>1, <1>2 DEF CalInv, Held, Synced, Descent, Descends, Alone, Waiting, Aimed, Sourced,
     Writes, Target, vars, runVars
<1>5. Traced' /\ Carried' /\ Single' /\ Gone' /\ Over' /\ NoDoubleWrite'
  BY <1>1, <1>2 DEF CalInv, Traced, Carried, Single, Changed, Gone, Over, NoDoubleWrite,
     Apart, Back, Writes, Target, vars, runVars
<1> QED BY <1>3, <1>4, <1>5 DEF CalInv, Held

\* and so does a step of something else.
LEMMA IdleKeeps ==
  ASSUME CalInv, UNCHANGED allVars
  PROVE  CalInv'
<1>1. UNCHANGED calVars /\ UNCHANGED vars /\ Tasks' = Tasks
  BY DEF allVars, vars, runVars, Tasks, TasksOf
<1>2. CalTypeOK'
  BY <1>1 DEF CalInv, Held, CalTypeOK, TypeOK, vars, runVars, calVars
<1>4. Synced' /\ Descent' /\ Alone' /\ Aimed' /\ Sourced'
  BY <1>1 DEF CalInv, Held, Synced, Descent, Descends, Alone, Waiting, Aimed, Sourced,
     Writes, Target, vars, runVars, calVars
<1>5. Traced' /\ Carried' /\ Single' /\ Gone' /\ Over' /\ NoDoubleWrite'
  BY <1>1 DEF CalInv, Traced, Carried, Single, Changed, Gone, Over, NoDoubleWrite,
     Apart, Back, Writes, Target, vars, runVars, calVars
<1> QED BY <1>2, <1>4, <1>5 DEF CalInv, Held

-----------------------------------------------------------------------------
(* The invariant holds, and with it the properties of a calendar turn.     *)

\* Answers of queries are sets of events.
LEMMA AnswersTyped ==
  ASSUME Held, CalendarCall
  PROVE  answers' \in [TaskIds -> SUBSET EventIds]
<1>1. PICK a, c, t, r, B, U, L : CallOf(a, c, t, r) /\ Effect(c, t, r, B, U, L)
  BY CallHasEffect
<1>2. answers \in [TaskIds -> SUBSET EventIds]  BY DEF Held, CalTypeOK
<1>3. r.source.list \in Seq(EventIds)  BY <1>1 DEF Effect, Reply
<1>4. ToSet(r.source.list) \in SUBSET EventIds  BY <1>3 DEF ToSet
<1> QED BY <1>1, <1>2, <1>4 DEF CallOf

\* Calls keep the invariant.
LEMMA CallKeeps ==
  ASSUME CalInv, CalendarCall, TypeOK', Over'
  PROVE  CalInv'
<1>1. Held  BY DEF CalInv
<1>2. PICK c, t, r, B, U, V, L : Turn(c, t, r, B, U, V, L)
  BY <1>1, CallTurns
<1>3. Root(Tasks[c].id) \in TaskIds
  <2>1. c \in DOMAIN Tasks  BY <1>2 DEF Turn, CalledAs
  <2> QED BY <1>1, <2>1, RequestFacts
<1>4. answers' \in [TaskIds -> SUBSET EventIds]  BY <1>1, AnswersTyped
<1>5. CalTypeOK' /\ Sourced'  BY <1>1, <1>2, <1>3, <1>4, TypeTurn
<1>6. Synced'  BY <1>2 DEF Turn, Synced
<1>7. Descent'  BY <1>1, <1>2, DescentTurn
<1>8. Alone'    BY <1>1, <1>2, AloneTurn
<1>9. Aimed'    BY <1>1, <1>2, AimedTurn
<1>10. Traced'  BY <1>1, <1>2, TracedTurn DEF CalInv
<1>11. Carried' BY <1>1, <1>2, CarriedTurn DEF CalInv
<1>12. Single'  BY <1>1, <1>2, SingleTurn DEF CalInv
<1>13. Gone'    BY <1>1, <1>2, GoneTurn DEF CalInv
<1>14. NoDoubleWrite'  BY <1>1, <1>2, NoDoubleTurn DEF CalInv
<1> QED BY <1>5, <1>6, <1>7, <1>8, <1>9, <1>10, <1>11, <1>12, <1>13, <1>14
        DEF CalInv, Held

\* Every step does.
LEMMA CalStep ==
  ASSUME CalInv, [CalNext]_allVars
  PROVE  CalInv'
<1>1. Held /\ TypeOK  BY DEF CalInv, Held, CalTypeOK
<1>2. [LegalNext]_vars  BY <1>1, StepIsLegal
<1>3. TypeOK'  BY <1>1, <1>2, TypeStep
<1>4. Over'
  <2>1. CASE result # "running"
    <3>1. UNCHANGED vars  BY <1>2, <2>1, EndedIsOver
    <3> QED BY <3>1 DEF CalInv, Over, vars, runVars, Tasks, TasksOf
  <2>2. CASE result = "running" /\ result' = "success"
    <3>1. LeftToExecute(Tasks', completed') = {}
      BY <1>2, <2>2, SuccessLeavesNothing
    <3> QED BY <3>1 DEF Over
  <2>3. CASE result' # "success"
    BY <2>3 DEF Over
  <2> QED BY <2>1, <2>2, <2>3
<1>5. CASE CalendarCall
  BY <1>3, <1>4, <1>5, CallKeeps
<1>6. CASE OtherUser
  BY <1>6, OtherUserKeeps
<1>7. CASE UNCHANGED allVars
  BY <1>7, IdleKeeps
<1>8. CASE ~CalendarCall /\ ~OtherUser /\ CalNext
  <2>1. Quiet  BY <1>1, <1>8, QuietSteps DEF CalNext
  <2> QED BY <1>3, <1>4, <2>1, QuietKeeps
<1> QED BY <1>5, <1>6, <1>7, <1>8

\* The invariant holds when a run starts.
LEMMA CalStart == CalInit => CalInv
<1> SUFFICES ASSUME CalInit PROVE CalInv
  OBVIOUS
<1>1. /\ Init /\ approved \in Plans /\ queue = approved /\ plan = approved
      /\ completed = {} /\ reused = {} /\ gathered = {} /\ result = "running"
  BY DEF CalInit, Init
<1>2. Tasks = approved  BY <1>1 DEF Tasks, TasksOf
<1>3. /\ \A j \in DOMAIN approved : approved[j] \in Task /\ approved[j].id \in TaskIds
      /\ \A i, j \in DOMAIN approved : approved[i].id = approved[j].id => i = j
  BY <1>1, ApprovedFacts
<1>4. \A j \in DOMAIN approved : Root(approved[j].id) = approved[j].id
  BY <1>1, RootAssumption
<1>5. /\ answers = [id \in TaskIds |-> {}]
      /\ wrote = [id \in TaskIds |-> [e \in EventIds |-> 0]]
      /\ selected = {<<t.id, t.input.args.target>> :
                       t \in {x \in ToSet(approved) : IsWrite(x) /\ ~Unresolved(x)}}
      /\ supplied = {} /\ withheld = {} /\ others = 0
      /\ day \in [EventIds -> Days \cup {0}]
  BY Zenon DEF CalInit
<1>6. \A j \in DOMAIN approved : Target(approved[j]) \in EventIds \cup {0}
  <2> SUFFICES ASSUME NEW j \in DOMAIN approved
               PROVE  Target(approved[j]) \in EventIds \cup {0}
    OBVIOUS
  <2>1. approved[j].input.args \in Args  BY <1>3 DEF Task, ToolInput
  <2>2. approved[j].input.args \in [days : SUBSET Days, target : EventIds \cup {0},
                                    match : SUBSET EventIds, ord : Ordinals]
    BY <2>1, CalendarAssumption, Zenon
  <2> QED BY <2>2 DEF Target
<1>7. \A x, e : <<x, e>> \in selected <=>
        \E j \in DOMAIN approved : /\ IsWrite(approved[j]) /\ Target(approved[j]) # 0
                                   /\ approved[j].id = x /\ Target(approved[j]) = e
  <2>1. ToSet(approved) = {approved[j] : j \in DOMAIN approved}
    BY DEF ToSet
  <2> QED BY <1>5, <2>1 DEF Unresolved, Target
<1>8. CalTypeOK
  <2>1. PICK context \in Contexts :
          /\ source = [has |-> context # << >>, list |-> context]
          /\ offered = {context[i] : i \in DOMAIN context}
    BY DEF CalInit
  <2>2. context \in Seq(EventIds)  BY CalendarAssumption, Zenon
  <2>3. source \in [has : BOOLEAN, list : Seq(EventIds)] /\ offered \subseteq EventIds
    BY <2>1, <2>2
  <2>4. TypeOK  BY <1>1, TypeInit
  <2>5. selected \subseteq TaskIds \X EventIds
    <3> SUFFICES ASSUME NEW s \in selected PROVE s \in TaskIds \X EventIds
      OBVIOUS
    <3>1. PICK t \in ToSet(approved) : /\ IsWrite(t) /\ ~Unresolved(t)
                                       /\ s = <<t.id, t.input.args.target>>
      BY <1>5
    <3>2. PICK j \in DOMAIN approved : t = approved[j]  BY <3>1 DEF ToSet
    <3> QED BY <1>3, <1>6, <3>1, <3>2 DEF Unresolved, Target
  <2>6. others \in 0 .. MaxOthers
    <3>1. MaxOthers \in Nat  BY CalendarAssumption, Zenon
    <3> QED BY <1>5, <3>1
  <2>7. wrote \in [TaskIds -> [EventIds -> Nat]] /\ answers \in [TaskIds -> SUBSET EventIds]
    BY <1>5
  <2> QED BY <1>5, <2>3, <2>4, <2>5, <2>6, <2>7 DEF CalTypeOK
<1>9. Sourced
  <2>1. \A s \in Contexts : IsInjective(s)  BY CalendarAssumption, Zenon
  <2>2. PICK context \in Contexts : source = [has |-> context # << >>, list |-> context]
    BY DEF CalInit
  <2> QED BY <2>1, <2>2 DEF Sourced
<1>10. Synced  BY <1>1 DEF Synced
<1>11. Descent  BY <1>2, <1>3, <1>4 DEF Descent, Descends
<1>12. Alone  BY <1>1, <1>2, <1>3, <1>4 DEF Alone, Waiting
<1>13. Aimed
  <2>1. ASSUME NEW r \in TaskIds, NEW e \in EventIds
        PROVE  <<r, e>> \in selected <=>
                 \E i \in DOMAIN Tasks : /\ IsWrite(Tasks[i]) /\ Root(Tasks[i].id) = r
                                         /\ Target(Tasks[i]) = e
    <3>1. e # 0  BY EventFacts
    <3> QED BY <1>2, <1>4, <1>7, <3>1
  <2> QED BY <1>2, <1>3, <1>4, <2>1 DEF Aimed
<1>14. \A r \in TaskIds, e \in EventIds : wrote[r][e] = 0
  BY <1>5
<1>15. Traced /\ NoDoubleWrite
  BY <1>14 DEF Traced, NoDoubleWrite
<1>16. Carried
  <2>1. ASSUME NEW j \in DOMAIN approved, IsWrite(approved[j])
        PROVE  Writes(approved[j].id) # {}
    <3>1. CanWrite(Tasks[j]) /\ j \in DOMAIN Tasks
      BY <1>2, <2>1 DEF IsWrite, CanWrite
    <3>2. j \in Writes(approved[j].id)  BY <1>2, <1>4, <3>1 DEF Writes
    <3> QED BY <3>2
  <2> QED BY <1>1, <2>1 DEF Carried
<1>17. Single
  <2>1. ASSUME NEW j \in DOMAIN approved PROVE Changed(approved[j].id) = {}
    <3>1. approved[j].id \in TaskIds  BY <1>3
    <3> QED BY <1>14, <3>1 DEF Changed
  <2> QED BY <2>1 DEF Single
<1>18. Gone /\ Over
  BY <1>1, <1>5 DEF Gone, Over
<1> QED BY <1>8, <1>9, <1>10, <1>11, <1>12, <1>13, <1>15, <1>16, <1>17, <1>18
        DEF CalInv, Held

\* It is an invariant of the calendar turn.
LEMMA CalHolds == CalSpec => []CalInv
  BY CalStart, CalStep, PTL DEF CalSpec

\* A calendar turn, other users and all, is a run of the executor with a callback
\* that keeps its contract (_make_tool_callback, react_executor.py): what is proved
\* of LegalSpec holds of it.
THEOREM CalendarTurnIsLegal == CalSpec => LegalSpec
<1>1. CalInit => Init  BY DEF CalInit
<1>2. CalInv /\ [CalNext]_allVars => [LegalNext]_vars
  BY StepIsLegal DEF CalInv
<1> QED BY <1>1, <1>2, CalHolds, PTL DEF CalSpec, LegalSpec

\* The callback and the resolver leave every variable of the run, the table and the
\* history in its range (resolver.py, _make_tool_callback).
THEOREM CalTypeCorrect == CalSpec => []CalTypeOK
<1>1. CalInv => CalTypeOK  BY DEF CalInv, Held
<1> QED BY <1>1, CalHolds, PTL

\* A calendar turn hands no task to its callback twice, calls only approved work
\* (of the right kind, unless the model batched it itself), reports success only
\* when the plan is settled, and hides no failure.
THEOREM CalendarRunIsSound ==
  CalSpec => [](AtMostOnce /\ ApprovedWorkOnly /\ SuccessCoversPlan /\ BadNewsIsReported)
  BY CalendarTurnIsLegal, CalledOnceLegal, OnlyApprovedWorkLegal, SuccessIsCompleteLegal,
     BadNewsReportedLegal, PTL

\* A write that did not ask for "all", and for which the model filled in no "all"
\* (call_tool_task), changes one event at most, whatever queries, context, the
\* model's other fields and other users do (select_calendar_events).
THEOREM SingleTarget == CalSpec => []SingleTargetUnlessAll
<1>1. ASSUME CalInv PROVE SingleTargetUnlessAll
  <2> SUFFICES ASSUME NEW i \in DOMAIN approved, IsWrite(approved[i]),
                      approved[i].input.args.ord # "all",
                      <<approved[i].id, "all">> \notin supplied
               PROVE  Cardinality(Changed(approved[i].id)) <= 1
    BY DEF SingleTargetUnlessAll
  <2>1. \A d, e \in Changed(approved[i].id) : d = e
    BY <1>1 DEF CalInv, Single
  <2>2. CASE Changed(approved[i].id) = {}
    BY <2>2, FS_EmptySet
  <2>3. CASE Changed(approved[i].id) # {}
    <3>1. PICK e : Changed(approved[i].id) = {e}  BY <2>1, <2>3
    <3>2. Cardinality({e}) = 1  BY FS_Singleton
    <3> QED BY <3>1, <3>2
  <2> QED BY <2>2, <2>3
<1> QED BY <1>1, CalHolds, PTL

\* No event is written twice for one request whose target the model left alone
\* (resolve_task_from_context, resolve_updates, resolve_deletes).
THEOREM WrittenOnce == CalSpec => []NoDoubleWrite
<1>1. CalInv => NoDoubleWrite  BY DEF CalInv
<1> QED BY <1>1, CalHolds, PTL

\* A run that reports success changed, for each write it was asked for, exactly the
\* events chosen for it, or put the write back to the user; apart are writes the
\* model gave a target of its own, settled by repeating a query, or named in a
\* batch of searches (react_executor.py, run).
THEOREM SuccessIsWritten == CalSpec => []SuccessMeansWritten
<1>1. ASSUME CalInv PROVE SuccessMeansWritten
  <2> SUFFICES ASSUME result = "success", NEW j \in DOMAIN approved, IsWrite(approved[j]),
                      <<approved[j].id, "target">> \notin supplied,
                      approved[j].id \notin {Root(x) : x \in reused \cup gathered},
                      ~(\E h \in withheld : h[1] = approved[j].id)
               PROVE  /\ Changed(approved[j].id) # {}
                      /\ Changed(approved[j].id) =
                           {e \in EventIds : <<approved[j].id, e>> \in selected}
    BY DEF SuccessMeansWritten
  <2> DEFINE r == approved[j].id
  <2>1. r \in TaskIds
    BY <1>1, ApprovedFacts DEF CalInv, Held, CalTypeOK, TypeOK
  <2>2. ~Apart(r) /\ ~Back(r) /\ <<r, "target">> \notin supplied
    BY DEF Apart, Back
  <2>3. /\ Writes(r) # {}
        /\ \A i \in Writes(r) :
             Tasks[i].id \in completed => Target(Tasks[i]) # 0 /\ wrote[r][Target(Tasks[i])] > 0
    BY <1>1, <2>2 DEF CalInv, Carried
  <2> HIDE DEF r
  <2>4. ASSUME NEW i \in Writes(r)
        PROVE  Target(Tasks[i]) \in EventIds /\ wrote[r][Target(Tasks[i])] > 0
    <3>1. i \in DOMAIN Tasks /\ CanWrite(Tasks[i]) /\ Root(Tasks[i].id) = r
      BY DEF Writes
    <3>2. Tasks[i].id \in completed
      BY <1>1, <3>1 DEF CalInv, Over, LeftToExecute, Left, CanWrite
    <3>3. Target(Tasks[i]) \in EventIds \cup {0}
      BY <1>1, <3>1, RequestFacts DEF CalInv
    <3> QED BY <2>3, <3>2, <3>3
  <2>5. Changed(r) # {}  BY <2>3, <2>4 DEF Changed
  <2>6. ASSUME NEW i \in Writes(r) PROVE IsWrite(Tasks[i])
    <3>1. i \in DOMAIN Tasks /\ Root(Tasks[i].id) = r  BY DEF Writes
    <3>2. PICK o \in DOMAIN approved : Descends(Tasks[i], approved[o])
      BY <1>1, <3>1 DEF CalInv, Held, Descent
    <3>3. approved \in Plans  BY <1>1 DEF CalInv, Held, CalTypeOK, TypeOK
    <3>4. o = j  BY <3>1, <3>2, <3>3, ApprovedFacts DEF Descends, r
    <3> QED BY <3>2, <3>4 DEF Descends
  <2>7. ASSUME NEW e \in EventIds PROVE wrote[r][e] > 0 <=> <<r, e>> \in selected
    <3>1. <<r, e>> \in selected <=>
            \E i \in DOMAIN Tasks : /\ IsWrite(Tasks[i]) /\ Root(Tasks[i].id) = r
                                    /\ Target(Tasks[i]) = e
      BY <1>1, <2>1 DEF CalInv, Held, Aimed
    <3>2. wrote[r][e] > 0 => \E i \in Writes(r) : Target(Tasks[i]) = e
      BY <1>1, <2>1, <2>2 DEF CalInv, Traced
    <3>3. \A i \in DOMAIN Tasks :
            IsWrite(Tasks[i]) /\ Root(Tasks[i].id) = r <=> i \in Writes(r)
      BY <2>6 DEF Writes, IsWrite, CanWrite
    <3>4. ASSUME wrote[r][e] > 0 PROVE <<r, e>> \in selected
      <4>1. PICK i \in Writes(r) : Target(Tasks[i]) = e  BY <3>2, <3>4
      <4>2. i \in DOMAIN Tasks /\ IsWrite(Tasks[i]) /\ Root(Tasks[i].id) = r
        BY <2>6 DEF Writes
      <4> QED BY <3>1, <4>1, <4>2
    <3>5. ASSUME <<r, e>> \in selected PROVE wrote[r][e] > 0
      <4>1. PICK i \in DOMAIN Tasks : /\ IsWrite(Tasks[i]) /\ Root(Tasks[i].id) = r
                                      /\ Target(Tasks[i]) = e
        BY <3>1, <3>5
      <4>2. i \in Writes(r)  BY <3>3, <4>1
      <4> QED BY <2>4, <4>1, <4>2
    <3> QED BY <3>4, <3>5
  <2> QED BY <2>5, <2>7 DEF Changed, r
<1> QED BY <1>1, CalHolds, PTL

\* Once a write fitted no event, or several, no later call changes an event for it:
\* a query that finds candidates afterwards does not revive it.
THEOREM AmbiguityStops == CalSpec => AmbiguousNeverWrites
<1>1. ASSUME CalInv, [CalNext]_allVars
      PROVE  [\A h \in withheld : h[2] # "no_source" => wrote'[h[1]] = wrote[h[1]]]_allVars
  <2> SUFFICES ASSUME NEW h \in withheld, h[2] # "no_source"
               PROVE  wrote'[h[1]] = wrote[h[1]]
    OBVIOUS
  <2>1. Held  BY <1>1 DEF CalInv
  <2>2. CASE CalendarCall
    <3>1. PICK c, t, r, B, U, V, L : Turn(c, t, r, B, U, V, L)
      BY <2>1, <2>2, CallTurns
    <3>2. c \in DOMAIN Tasks /\ result = "running"  BY <3>1 DEF Turn, CalledAs
    <3>3. Root(Tasks[c].id) # h[1]  BY <1>1, <3>2 DEF CalInv, Gone
    <3>4. wrote \in [TaskIds -> [EventIds -> Nat]] /\ Root(Tasks[c].id) \in TaskIds
      BY <2>1, <3>2, RequestFacts DEF Held, CalTypeOK
    <3>5. h[1] \in TaskIds  BY <2>1 DEF Held, CalTypeOK
    <3> DEFINE row == [e \in EventIds |-> IF e = r.target THEN wrote[Root(Tasks[c].id)][e] + 1
                                          ELSE wrote[Root(Tasks[c].id)][e]]
    <3>6. wrote' = [wrote EXCEPT ![Root(Tasks[c].id)] = row]  BY <3>1 DEF Turn
    <3> HIDE DEF row
    <3> QED BY <3>3, <3>4, <3>5, <3>6
  <2>3. CASE ~CalendarCall
    <3>1. wrote' = wrote
      BY <1>1, <2>3 DEF CalNext, Elsewhere, OtherUser, calVars, allVars
    <3> QED BY <3>1
  <2> QED BY <2>2, <2>3
<1> QED BY <1>1, CalHolds, PTL DEF CalSpec, AmbiguousNeverWrites

\* What the callback of _make_tool_callback answers is what the executor may rely
\* on, at every call of every calendar turn: tasks of a batch are never asked of it.
THEOREM ContractKept == CalSpec => CallbackKeepsContract
<1>1. ASSUME CalInv, [CalNext]_allVars
      PROVE  [\A id \in Ids(Tasks) :
                runs'[id] # runs[id] /\ TaskNamed(id).kind = "tool"
                  /\ id \notin gathered' =>
                  LegalReply(TaskNamed(id),
                             [status |-> outcome'[id], done |-> completed' \ completed,
                              queue |-> queue'])]_allVars
  BY <1>1, ContractStep DEF CalInv
<1> QED BY <1>1, CalHolds, PTL DEF CalSpec, CallbackKeepsContract
=============================================================================
