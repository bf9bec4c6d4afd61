------------------------ MODULE PlanPreparationProofs ------------------------
(***************************************************************************)
(* For every plan, policy and memory of the last turn.                     *)
(*                                                                         *)
(* One: no change of the calendar that the role may not make, or that has   *)
(* no event to find its target by, is among the tasks validate_plan lets    *)
(* run.  The validation is per task, the property is about the whole plan:  *)
(* the invariant says of the tasks accepted so far what the property says   *)
(* of the plan at the end, and what a task was grounded by stays before it.  *)
(* Two: a reading task is put aside in the two cases of ReadsSurvive only,   *)
(* because the tasks accepted before it give no gate a reason to refuse.     *)
(* Three: what is planned keeps its shape, and its dependencies, through     *)
(* the split of a query into its days.                                      *)
(* Four: each span a query says is looked up once for it.  Every task comes *)
(* from a place of its own in the plan (Placing), so the tasks that look a  *)
(* span up and the queries that say it are as many.                        *)
(***************************************************************************)
EXTENDS PlanPreparation, TLAPS, FiniteSetTheorems, SequenceTheorems, WellFoundedInduction

-----------------------------------------------------------------------------
(* What runs is grounded.                                                  *)

AcceptedAreGrounded ==
  \A i \in DOMAIN executable :
    IsCal(executable[i], Finders) => Permitted(executable[i]) /\ Grounded(executable, i)

Inv == /\ context \in Contexts
       /\ \E S : executable \in Seq(S)
       /\ AcceptedAreGrounded
       /\ stage = "done" => tasks = executable

\* A denied change means the role may not make every change.
LEMMA DeniedChange ==
  ASSUME NEW u, IsCal(u, Finders), ~Permitted(u)
  PROVE  ~MayChange
<1> DEFINE v == [NoTask EXCEPT !.tool = Calendar, !.action = u.action]
<1>1. v.tool = Calendar /\ v.action = u.action  BY DEF NoTask
<1>2. u.action \in Finders /\ u.tool = Calendar  BY DEF IsCal
<1>3. ~Permitted(v)
  <2> HIDE DEF v
  <2> QED BY <1>1, <1>2 DEF Permitted
<1> QED BY <1>2, <1>3 DEF MayChange

\* What the gates ask of a change, at the place where it is appended: an event,
\* an accepted query, or a description of the event.
LEMMA GateGrounds ==
  ASSUME NEW S, executable \in Seq(S), NEW t, IsCal(t, Finders), context \in Contexts,
         Gate(Append(executable, t)) = "none"
  PROVE  Grounded(Append(executable, t), Len(executable) + 1)
<1> DEFINE ts == Append(executable, t)
           n  == Len(executable) + 1
<1>1. n \in DOMAIN ts /\ ts[n] = t /\ DOMAIN ts = 1 .. n /\ n \in Nat /\ t \in ToSet(ts)
  <2>1. DOMAIN ts = 1 .. n /\ ts[n] = t /\ n \in Nat  OBVIOUS
  <2> QED BY <2>1 DEF ToSet
<1> HIDE DEF ts, n
<1>2. ~TargetUnknown(ts) /\ ~Incomplete(ts)  BY DEF Gate, ts
<1>3. \A q \in ToSet(ts) : IsCal(q, {"query"}) => \E j \in 1 .. n - 1 : ts[j] = q
  <2> SUFFICES ASSUME NEW j \in 1 .. n, IsCal(ts[j], {"query"}) PROVE j # n
    BY <1>1 DEF ToSet
  <2> QED BY <1>1 DEF IsCal, Finders
<1>4. ASSUME HasSource(ts) \/ DependsOnQuery(ts, t)
      PROVE  \E j \in DOMAIN ts : IsCal(ts[j], {"query"}) /\ j < n
  BY <1>1, <1>3, <1>4 DEF HasSource, DependsOnQuery
<1>5. t.event \in Known \/ t.selector \/ DependsOnQuery(ts, t)
      \/ \E j \in 1 .. n - 1 : IsCal(ts[j], {"query"})
  BY <1>1, <1>2 DEF Incomplete
<1>6. ASSUME t.event \notin Known, t.selector, ~HasSource(ts), ~DependsOnQuery(ts, t)
      PROVE  context.events > 0 \/ ~MayChange
  <2>1. context.events \in Nat  BY ContextAssumption
  <2>2. CASE \E u \in ToSet(ts) \cup {first} : IsCal(u, Finders) /\ ~Permitted(u)
    BY <2>2, DeniedChange
  <2>3. CASE \A u \in ToSet(ts) \cup {first} : IsCal(u, Finders) => Permitted(u)
    <3>1. context.events # 0  BY <1>1, <1>2, <1>6, <2>3 DEF TargetUnknown
    <3> QED BY <2>1, <3>1
  <2> QED BY <2>2, <2>3
<1> QED BY <1>1, <1>4, <1>5, <1>6 DEF Grounded, ts, n

\* What grounds an accepted task is still before it when another is appended.
LEMMA StaysGrounded ==
  ASSUME NEW S, executable \in Seq(S), NEW t, NEW i \in DOMAIN executable,
         Grounded(executable, i)
  PROVE  Grounded(Append(executable, t), i)
<1>1. \A j \in DOMAIN executable : j \in DOMAIN Append(executable, t)
                                   /\ Append(executable, t)[j] = executable[j]
  OBVIOUS
<1> QED BY <1>1 DEF Grounded

\* Nothing is accepted at the start.
LEMMA InitInv == Init => Inv
<1> SUFFICES ASSUME Init PROVE Inv  OBVIOUS
<1>1. executable = <<>> /\ stage # "done" /\ context \in Contexts  BY DEF Init
<1>2. executable \in Seq({}) /\ DOMAIN executable = {}  BY <1>1
<1>3. \E S : executable \in Seq(S)  BY <1>2
<1> QED BY <1>1, <1>2, <1>3 DEF Inv, AcceptedAreGrounded

\* The one step that accepts a task accepts a grounded one.
LEMMA ValidateTaskInv == Inv /\ ValidateTask => Inv'
<1> SUFFICES ASSUME Inv, ValidateTask PROVE Inv'  OBVIOUS
<1> USE DEF request
<1>1. PICK S : executable \in Seq(S)  BY DEF Inv
<1>2. context' \in Contexts /\ stage' # "done" /\ policy' = policy /\ context' = context
  BY DEF Inv, ValidateTask
<1>3. CASE executable' = executable
  <2>1. AcceptedAreGrounded'
    BY <1>2, <1>3 DEF Inv, AcceptedAreGrounded, Grounded, MayChange, Permitted
  <2> QED BY <1>1, <1>2, <1>3, <2>1 DEF Inv
<1>4. CASE executable' # executable
  <2>1. PICK t : executable' = Append(executable, t) /\ Verdict(t) = "none"
    BY <1>4 DEF ValidateTask
  <2>2. executable' \in Seq(S \cup {t})
    <3>1. executable \in Seq(S \cup {t})  BY <1>1
    <3> QED BY <2>1, <3>1
  <2>3. ASSUME IsCal(t, Finders)
        PROVE  Permitted(t) /\ Grounded(Append(executable, t), Len(executable) + 1)
    <3>1. IsTool(t) /\ t.tool # "skill"  BY <2>3 DEF IsCal, Calendar
    <3>2. Permitted(t) /\ Gate(Append(executable, t)) = "none"
      BY <2>1, <3>1 DEF Verdict
    <3>3. context \in Contexts  BY DEF Inv
    <3> QED BY <1>1, <2>3, <3>2, <3>3, GateGrounds
  <2>4. ASSUME NEW i \in DOMAIN executable', IsCal(executable'[i], Finders)
        PROVE  Permitted(executable'[i]) /\ Grounded(executable', i)
    <3>1. CASE i = Len(executable) + 1
      <4>1. executable'[i] = t  BY <1>1, <2>1, <3>1
      <4> QED BY <2>1, <2>3, <2>4, <3>1, <4>1
    <3>2. CASE i # Len(executable) + 1
      <4>1. i \in DOMAIN executable /\ executable'[i] = executable[i]
        BY <1>1, <2>1, <2>4, <3>2
      <4> QED BY <1>1, <2>1, <2>4, <4>1, StaysGrounded DEF Inv, AcceptedAreGrounded
    <3> QED BY <3>1, <3>2
  <2>5. AcceptedAreGrounded'
    BY <1>2, <2>4 DEF AcceptedAreGrounded, Grounded, MayChange, Permitted
  <2> QED BY <1>2, <2>2, <2>5 DEF Inv
<1> QED BY <1>3, <1>4

\* Every step keeps what is accepted grounded.
LEMMA NextInv == Inv /\ [Next]_vars => Inv'
<1> SUFFICES ASSUME Inv, [Next]_vars PROVE Inv'  OBVIOUS
<1>1. ASSUME UNCHANGED <<policy, context, executable>>,
             stage' = "done" => tasks' = executable'
      PROVE  Inv'
  BY <1>1 DEF Inv, AcceptedAreGrounded, Grounded, MayChange, Permitted
<1>2. CASE Plan             BY <1>1, <1>2 DEF Plan, request, lists
<1>3. CASE ResolvePlanTime  BY <1>1, <1>3 DEF ResolvePlanTime, request, lists
<1>4. CASE Inherit          BY <1>1, <1>4 DEF Inherit, request, lists
<1>5. CASE ValidateTask     BY <1>5, ValidateTaskInv
<1>6. CASE Finish           BY <1>1, <1>6 DEF Finish, request, lists
<1>7. CASE UNCHANGED vars   BY <1>1, <1>7 DEF vars, request, lists, Inv
<1> QED BY <1>2, <1>3, <1>4, <1>5, <1>6, <1>7 DEF Next

\* WritesAreGrounded: validate_plan, gates.py and the calendar validator.
THEOREM ChangesAreGrounded == Spec => []WritesAreGrounded
<1>1. Inv => WritesAreGrounded  BY DEF Inv, AcceptedAreGrounded, WritesAreGrounded
<1> QED BY <1>1, InitInv, NextInv, PTL DEF Spec

-----------------------------------------------------------------------------
(* What is refused takes no reading task along.                            *)

\* A change among the tasks has nothing to find its target by.
Targetless(ts) ==
  /\ \A u \in ToSet(ts) \cup {first} : IsCal(u, Finders) => Permitted(u)
  /\ context.events = 0
  /\ \E u \in ToSet(ts) :
       IsCal(u, Finders) /\ u.event \notin Known /\ ~HasSource(ts) /\ ~DependsOnQuery(ts, u)

\* A question whether a change could be made is no order to make it.
OnlyAsked(ts) ==
  /\ \E u \in ToSet(ts) : IsCal(u, Writes)
  /\ plan.ability
  /\ ~(plan.asked /\ \E u \in ToSet(ts) : IsCal(u, {"query"}))

\* The accepted tasks give a gate nothing to refuse.
Sound(ts) ==
  ~Targetless(ts) /\ ~OnlyAsked(ts) /\ ~AttendanceRefused(ts) /\ ~Incomplete(ts)

ReadInv == /\ \E S : executable \in Seq(S)
           /\ stage \in {"plan", "resolve", "inherit"} => executable = <<>>
           /\ stage = "validate" => Sound(executable)

\* Appending keeps places and adds one member.
LEMMA Appending ==
  ASSUME NEW S, NEW ts \in Seq(S), NEW t
  PROVE  /\ ToSet(Append(ts, t)) = ToSet(ts) \cup {t}
         /\ DOMAIN ts = 1 .. Len(ts) /\ Len(ts) \in Nat
         /\ DOMAIN Append(ts, t) = 1 .. Len(ts) + 1
         /\ \A i \in 1 .. Len(ts) : Append(ts, t)[i] = ts[i]
         /\ Append(ts, t)[Len(ts) + 1] = t
<1>1. /\ DOMAIN ts = 1 .. Len(ts) /\ Len(ts) \in Nat
      /\ DOMAIN Append(ts, t) = 1 .. Len(ts) + 1
      /\ \A i \in 1 .. Len(ts) : Append(ts, t)[i] = ts[i]
      /\ Append(ts, t)[Len(ts) + 1] = t
  OBVIOUS
<1>2. \A i : i \in 1 .. Len(ts) + 1 <=> i \in 1 .. Len(ts) \/ i = Len(ts) + 1
  BY <1>1
<1>3. ToSet(Append(ts, t)) = ToSet(ts) \cup {t}
  BY <1>1, <1>2 DEF ToSet
<1> QED BY <1>1, <1>3

\* A source once there stays.
LEMMA SourcesStay ==
  ASSUME NEW S, NEW ts \in Seq(S), NEW t, NEW u
  PROVE  /\ HasSource(ts) => HasSource(Append(ts, t))
         /\ DependsOnQuery(ts, u) => DependsOnQuery(Append(ts, t), u)
BY Appending DEF HasSource, DependsOnQuery

\* A task that is no change, nor an attendance query out of scope, added to sound
\* tasks leaves them sound.
LEMMA StaysSound ==
  ASSUME NEW S, NEW ts \in Seq(S), Sound(ts), NEW t,
         ~IsCal(t, Writes),
         ~(IsTool(t) /\ t.tool = Attendance /\ policy.scope # "full"
                     /\ (policy.scope = "none" \/ t.detail))
  PROVE  Sound(Append(ts, t))
<1> DEFINE more == Append(ts, t)
<1>1. ToSet(more) = ToSet(ts) \cup {t}  BY Appending
<1>2. ~IsCal(t, Finders) /\ ~IsCal(t, {"create"})  BY DEF IsCal, Finders, Writes
<1>3. \A u : /\ HasSource(ts) => HasSource(more)
             /\ DependsOnQuery(ts, u) => DependsOnQuery(more, u)
  BY SourcesStay
<1> HIDE DEF more
<1>4. ~Targetless(more)  BY <1>1, <1>2, <1>3 DEF Sound, Targetless
<1>5. ~OnlyAsked(more)   BY <1>1 DEF Sound, OnlyAsked
<1>6. ~AttendanceRefused(more)  BY <1>1 DEF Sound, AttendanceRefused
<1>7. ~Incomplete(more)
  <2> SUFFICES ASSUME Incomplete(more) PROVE FALSE  OBVIOUS
  <2>1. /\ DOMAIN ts = 1 .. Len(ts) /\ Len(ts) \in Nat /\ DOMAIN more = 1 .. Len(ts) + 1
        /\ \A i \in 1 .. Len(ts) : more[i] = ts[i]
        /\ more[Len(ts) + 1] = t
    BY Appending DEF more
  <2>2. PICK i \in DOMAIN more :
          \/ /\ IsCal(more[i], {"create"})
             /\ ~({"title", "time"} \subseteq more[i].given) \/ more[i].span = NoSpan
          \/ /\ IsCal(more[i], Finders) /\ more[i].event \notin Known /\ ~more[i].selector
             /\ ~\E j \in 1 .. i - 1 : IsCal(more[j], {"query"})
             /\ ~DependsOnQuery(more, more[i])
    BY DEF Incomplete
  <2>3. i \in 1 .. Len(ts)  BY <1>2, <2>1, <2>2
  <2>4. more[i] = ts[i] /\ \A j \in 1 .. i - 1 : more[j] = ts[j]  BY <2>1, <2>3
  <2>5. Incomplete(ts)  BY <1>3, <2>1, <2>2, <2>3, <2>4 DEF Incomplete
  <2> QED BY <2>5 DEF Sound
<1> QED BY <1>4, <1>5, <1>6, <1>7 DEF Sound, more

\* What passes every gate is sound.
LEMMA GateSound ==
  ASSUME NEW ts, Gate(ts) = "none"
  PROVE  Sound(ts)
<1>1. ~AbilityQuestion(ts) /\ ~TargetUnknown(ts) /\ ~AttendanceRefused(ts) /\ ~Incomplete(ts)
  BY DEF Gate
<1>2. ~OnlyAsked(ts)   BY <1>1 DEF AbilityQuestion, OnlyAsked
<1>3. ~Targetless(ts)  BY <1>1 DEF TargetUnknown, Targetless
<1> QED BY <1>1, <1>2, <1>3 DEF Sound

\* Among sound tasks a readable task passes but for the plan's first tool task.
LEMMA ReadPasses ==
  ASSUME NEW S, executable \in Seq(S), Sound(executable), NEW t, Readable(t),
         Verdict(t) # "none"
  PROVE  \/ plan.ability /\ IsCal(first, Writes)
         \/ IsCal(first, Finders) /\ first.event \notin Known /\ ~HasSource(executable)
<1> DEFINE ts == Append(executable, t)
<1>1. ToSet(ts) = ToSet(executable) \cup {t}  BY Appending
<1>2. Gate(ts) # "none"
  <2>1. IsTool(t) /\ t.tool \in ToolNames /\ Permitted(t) /\ t.tool # "skill"
    BY DEF Readable, ToolNames, Calendar, Attendance
  <2> QED BY <2>1 DEF Verdict
<1>3. Sound(ts)
  <2>1. ~IsCal(t, Writes)  BY DEF Readable, IsCal
  <2>2. ~(IsTool(t) /\ t.tool = Attendance /\ policy.scope # "full"
                    /\ (policy.scope = "none" \/ t.detail))
    BY DEF Readable
  <2> QED BY <2>1, <2>2, StaysSound
<1>4. HasSource(executable) => HasSource(ts)  BY SourcesStay
<1> HIDE DEF ts
<1>5. AbilityQuestion(ts) \/ TargetUnknown(ts)
  BY <1>2, <1>3 DEF Gate, Sound
<1>6. CASE AbilityQuestion(ts)
  BY <1>3, <1>6 DEF AbilityQuestion, Sound, OnlyAsked
<1>7. CASE TargetUnknown(ts)
  BY <1>3, <1>4, <1>7 DEF TargetUnknown, Sound, Targetless
<1> QED BY <1>5, <1>6, <1>7

\* Nothing is accepted at the start.
LEMMA InitRead == Init => ReadInv
<1> SUFFICES ASSUME Init PROVE ReadInv  OBVIOUS
<1>1. executable = <<>> /\ stage = "plan"  BY DEF Init
<1>2. executable \in Seq({})  BY <1>1
<1> QED BY <1>1, <1>2 DEF ReadInv

\* Nothing accepted is sound.
LEMMA NothingSound == Sound(<<>>)
<1>1. ToSet(<<>>) = {} /\ DOMAIN <<>> = {}  BY DEF ToSet
<1> QED BY <1>1 DEF Sound, Targetless, OnlyAsked, AttendanceRefused, Incomplete

\* The tasks accepted stay sound: a task that is not a tool's asks nothing.
LEMMA ValidateTaskRead == ReadInv /\ ValidateTask => ReadInv'
<1> SUFFICES ASSUME ReadInv, ValidateTask PROVE ReadInv'  OBVIOUS
<1> USE DEF request
<1>1. PICK S : executable \in Seq(S)  BY DEF ReadInv
<1>2. /\ stage = "validate" /\ stage' = "validate" /\ UNCHANGED <<plan, policy, context, first>>
      /\ Sound(executable)
  BY DEF ReadInv, ValidateTask
<1>3. CASE executable' = executable
  <2>1. Sound(executable)'
    BY <1>2, <1>3 DEF Sound, Targetless, OnlyAsked, AttendanceRefused, Incomplete, Permitted,
      HasSource, DependsOnQuery
  <2> QED BY <1>1, <1>2, <1>3, <2>1 DEF ReadInv
<1>4. CASE executable' # executable
  <2>1. PICK t : executable' = Append(executable, t) /\ Verdict(t) = "none"
    BY <1>4 DEF ValidateTask
  <2>2. executable' \in Seq(S \cup {t})
    <3>1. executable \in Seq(S \cup {t})  BY <1>1
    <3> QED BY <2>1, <3>1
  <2>3. Sound(Append(executable, t))
    <3>1. CASE IsTool(t)
      <4>1. Gate(Append(executable, t)) = "none"  BY <2>1, <3>1 DEF Verdict
      <4> QED BY <4>1, GateSound
    <3>2. CASE ~IsTool(t)
      <4>1. ~IsCal(t, Writes)  BY <3>2 DEF IsCal
      <4> QED BY <1>1, <1>2, <3>2, <4>1, StaysSound
    <3> QED BY <3>1, <3>2
  <2>4. Sound(executable)'
    <3>1. Sound(executable')  BY <2>1, <2>3
    <3> QED BY <1>2, <3>1 DEF Sound, Targetless, OnlyAsked, AttendanceRefused, Incomplete,
          Permitted, HasSource, DependsOnQuery
  <2> QED BY <1>2, <2>2, <2>4 DEF ReadInv
<1> QED BY <1>3, <1>4

\* Every step keeps the accepted tasks sound.
LEMMA NextRead == ReadInv /\ [Next]_vars => ReadInv'
<1> SUFFICES ASSUME ReadInv, [Next]_vars PROVE ReadInv'  OBVIOUS
<1> USE DEF request, lists, ReadInv
<1>1. CASE Plan             BY <1>1 DEF Plan
<1>2. CASE ResolvePlanTime  BY <1>2 DEF ResolvePlanTime
<1>3. CASE Inherit
  <2>1. stage' = "validate" /\ executable = <<>> /\ executable' = executable
    BY <1>3 DEF Inherit
  <2>2. Sound(executable)'
    <3>1. ToSet(executable') = {} /\ DOMAIN executable' = {}  BY <2>1 DEF ToSet
    <3> QED BY <3>1 DEF Sound, Targetless, OnlyAsked, AttendanceRefused, Incomplete
  <2> QED BY <2>1, <2>2
<1>4. CASE ValidateTask     BY <1>4, ValidateTaskRead
<1>5. CASE Finish           BY <1>5 DEF Finish
<1>6. CASE UNCHANGED vars
  BY <1>6 DEF vars, Sound, Targetless, OnlyAsked, AttendanceRefused, Incomplete, Permitted,
    HasSource, DependsOnQuery
<1> QED BY <1>1, <1>2, <1>3, <1>4, <1>5, <1>6 DEF Next

\* ReadsSurvive: validate_plan, gates.py and the two validators.
THEOREM ReadsAreKept == Spec => ReadsSurvive
<1>1. ReadInv /\ [Next]_vars =>
        [next' # next =>
           (Readable(tasks[next']) /\ executable' = executable =>
              \/ plan.ability /\ IsCal(first, Writes)
              \/ IsCal(first, Finders) /\ first.event \notin Known /\ ~HasSource(executable))]_vars
  <2> SUFFICES ASSUME ReadInv, [Next]_vars, next' # next, Readable(tasks[next']),
                      executable' = executable
               PROVE  \/ plan.ability /\ IsCal(first, Writes)
                      \/ IsCal(first, Finders) /\ first.event \notin Known /\ ~HasSource(executable)
    OBVIOUS
  <2>1. ValidateTask
    BY DEF Next, Plan, ResolvePlanTime, Inherit, Finish, lists, vars
  <2>2. Verdict(tasks[next']) # "none"
    <3>1. PICK S : executable \in Seq(S)  BY DEF ReadInv
    <3>2. executable' # Append(executable, tasks[next'])
      <4>1. Len(Append(executable, tasks[next'])) = Len(executable) + 1 /\ Len(executable) \in Nat
        BY <3>1
      <4> QED BY <4>1
    <3> QED BY <2>1, <3>2 DEF ValidateTask
  <2>3. Sound(executable)  BY <2>1 DEF ReadInv, ValidateTask
  <2> QED BY <2>2, <2>3, ReadPasses DEF ReadInv
<1> QED BY <1>1, InitRead, NextRead, PTL DEF Spec, ReadsSurvive

-----------------------------------------------------------------------------
(* Flattened sequences.                                                    *)

Below == {p \in Nat \X Nat : p[1] < p[2]}

\* The order of the naturals is well founded.
LEMMA BelowWF == IsWellFoundedOn(Below, Nat)
  BY NatLessThanWellFounded, Zenon DEF Below, OpToRel

\* A set of naturals that is not empty has a least member.
LEMMA Least ==
  ASSUME NEW S, S \subseteq Nat, S # {}
  PROVE  \E i \in S : \A j \in S : i <= j
<1>1. PICK i \in S : \A j \in S : ~(<<j, i>> \in Below)
  BY BelowWF, WFMin
<1>2. ASSUME NEW j \in S PROVE i <= j
  <2>1. i \in Nat /\ j \in Nat  OBVIOUS
  <2>2. ~(<<j, i>> \in Below)  BY <1>1
  <2>3. ~(j < i)  BY <2>1, <2>2 DEF Below
  <2> QED  BY <2>1, <2>3
<1> QED BY <1>2

\* A set of naturals that holds 0 and the successor of each member holds all.
LEMMA Induction ==
  ASSUME NEW S, 0 \in S, \A n \in Nat : n \in S => n + 1 \in S
  PROVE  Nat \subseteq S
<1> DEFINE T == {n \in Nat : n \notin S}
<1>1. SUFFICES ASSUME T # {} PROVE FALSE
  OBVIOUS
<1>2. PICK m \in T : \A k \in T : m <= k
  BY <1>1, Least
<1>3. m \in Nat /\ m # 0
  BY <1>2
<1>4. m - 1 \in Nat /\ m - 1 \in S
  BY <1>2, <1>3
<1>5. (m - 1) + 1 \in S /\ (m - 1) + 1 = m
  BY <1>3, <1>4
<1> QED BY <1>2, <1>5

\* The function FlattenSeq computes, for the first n sequences.
Flattens(g, seqs, n) ==
  g = [i \in 1 .. n |-> IF i = 1 THEN seqs[i] ELSE g[i-1] \o seqs[i]]

\* Such a function exists for every sequence of sequences.
LEMMA FlattenExists ==
  ASSUME NEW S, NEW seqs \in Seq(S)
  PROVE  \E g : Flattens(g, seqs, Len(seqs))
<1> DEFINE Good == {n \in Nat : \E g : Flattens(g, seqs, n)}
<1>1. 0 \in Good
  <2>1. Flattens([i \in 1 .. 0 |-> seqs[i]], seqs, 0)
    BY DEF Flattens
  <2> QED BY <2>1
<1>2. ASSUME NEW n \in Nat, n \in Good PROVE n + 1 \in Good
  <2>1. PICK g : Flattens(g, seqs, n)
    BY <1>2
  <2> DEFINE h == [i \in 1 .. n+1 |-> IF i \in 1 .. n THEN g[i]
                                      ELSE IF n = 0 THEN seqs[1] ELSE g[n] \o seqs[n+1]]
  <2>2. ASSUME NEW i \in 1 .. n+1
        PROVE h[i] = IF i = 1 THEN seqs[i] ELSE h[i-1] \o seqs[i]
    <3>1. CASE i \in 1 .. n /\ i = 1
      BY <2>1, <3>1 DEF Flattens
    <3>2. CASE i \in 1 .. n /\ i # 1
      <4>1. g[i] = g[i-1] \o seqs[i]
        BY <2>1, <3>2 DEF Flattens
      <4>2. i - 1 \in 1 .. n /\ h[i-1] = g[i-1] /\ h[i] = g[i]
        BY <3>2
      <4> QED BY <4>1, <4>2, <3>2
    <3>3. CASE i \notin 1 .. n
      <4>1. i = n + 1
        BY <3>3
      <4>2. CASE n = 0
        BY <4>1, <4>2
      <4>3. CASE n # 0
        <5>1. n \in 1 .. n /\ n \in 1 .. n+1 /\ h[n] = g[n]
          BY <4>3
        <5>2. h[i] = g[n] \o seqs[n+1]
          BY <4>1, <4>3, <3>3
        <5> QED BY <5>1, <5>2, <4>1, <4>3
      <4> QED BY <4>2, <4>3
    <3> QED BY <3>1, <3>2, <3>3
  <2>3. h = [i \in 1 .. n+1 |-> h[i]]
    OBVIOUS
  <2> HIDE DEF h
  <2>4. Flattens(h, seqs, n+1)
    BY <2>2, <2>3 DEF Flattens
  <2> QED BY <2>4
<1>3. Nat \subseteq Good
  <2> HIDE DEF Good
  <2> QED BY <1>1, <1>2, Induction
<1> QED BY <1>3

\* Each element of a flattened sequence comes from a place of its own in one of
\* the sequences, and each place is one of some element.
Placing(k, l, flat, seqs, n) ==
  /\ \A i \in DOMAIN flat : k[i] \in 1 .. n /\ l[i] \in DOMAIN seqs[k[i]]
                            /\ flat[i] = seqs[k[i]][l[i]]
  /\ \A i, j \in DOMAIN flat : k[i] = k[j] /\ l[i] = l[j] => i = j
  /\ \A a \in 1 .. n : \A b \in DOMAIN seqs[a] :
       \E i \in DOMAIN flat : k[i] = a /\ l[i] = b
Places(flat, seqs, n) == \E k, l : Placing(k, l, flat, seqs, n)

\* One more sequence.
LEMMA OneMorePlaced ==
  ASSUME NEW S, NEW flat \in Seq(S), NEW seqs, NEW n \in Nat, seqs[n+1] \in Seq(S),
         Places(flat, seqs, n)
  PROVE  Places(flat \o seqs[n+1], seqs, n+1)
<1> DEFINE b == seqs[n+1]
           c == flat \o b
           m == Len(flat)
<1>1. PICK k, l : Placing(k, l, flat, seqs, n)  BY DEF Places
<1>2. /\ m \in Nat /\ Len(b) \in Nat
      /\ DOMAIN flat = 1 .. m /\ DOMAIN b = 1 .. Len(b) /\ DOMAIN c = 1 .. m + Len(b)
      /\ \A i \in 1 .. m + Len(b) : c[i] = IF i <= m THEN flat[i] ELSE b[i - m]
  OBVIOUS
<1> HIDE DEF c
<1> DEFINE kk == [i \in DOMAIN c |-> IF i <= m THEN k[i] ELSE n + 1]
           ll == [i \in DOMAIN c |-> IF i <= m THEN l[i] ELSE i - m]
<1>3. \A i \in DOMAIN c : /\ kk[i] = IF i <= m THEN k[i] ELSE n + 1
                          /\ ll[i] = IF i <= m THEN l[i] ELSE i - m
  OBVIOUS
<1> HIDE DEF kk, ll, m
<1>4. ASSUME NEW i \in DOMAIN c
      PROVE  kk[i] \in 1 .. n+1 /\ ll[i] \in DOMAIN seqs[kk[i]] /\ c[i] = seqs[kk[i]][ll[i]]
  <2>1. CASE i <= m
    <3>1. i \in DOMAIN flat /\ c[i] = flat[i] /\ kk[i] = k[i] /\ ll[i] = l[i]
      BY <1>2, <1>3, <2>1
    <3>2. k[i] \in 1 .. n /\ l[i] \in DOMAIN seqs[k[i]] /\ flat[i] = seqs[k[i]][l[i]]
      BY <1>1, <3>1 DEF Placing
    <3>3. k[i] \in 1 .. n+1  BY <3>2
    <3> QED BY <3>1, <3>2, <3>3
  <2>2. CASE ~(i <= m)
    <3>1. i - m \in DOMAIN b /\ c[i] = b[i - m] /\ kk[i] = n + 1 /\ ll[i] = i - m
      BY <1>2, <1>3, <2>2
    <3> QED BY <3>1
  <2> QED BY <2>1, <2>2
<1>5. ASSUME NEW i \in DOMAIN c, NEW j \in DOMAIN c, kk[i] = kk[j], ll[i] = ll[j]
      PROVE  i = j
  <2>1. CASE i <= m /\ j <= m
    <3>1. i \in DOMAIN flat /\ j \in DOMAIN flat /\ k[i] = k[j] /\ l[i] = l[j]
      BY <1>2, <1>3, <1>5, <2>1
    <3> QED BY <1>1, <3>1 DEF Placing
  <2>2. CASE ~(i <= m) /\ ~(j <= m)
    <3>1. i - m = j - m /\ i \in Nat /\ j \in Nat  BY <1>2, <1>3, <1>5, <2>2
    <3> QED BY <1>2, <3>1
  <2>3. ASSUME NEW x \in DOMAIN c, NEW y \in DOMAIN c, x <= m, ~(y <= m)
        PROVE  kk[x] # kk[y]
    <3>1. x \in DOMAIN flat /\ kk[x] = k[x] /\ kk[y] = n + 1  BY <1>2, <1>3, <2>3
    <3>2. k[x] \in 1 .. n  BY <1>1, <3>1 DEF Placing
    <3> QED BY <3>1, <3>2
  <2> QED BY <1>5, <2>1, <2>2, <2>3
<1>6. ASSUME NEW a \in 1 .. n+1, NEW d \in DOMAIN seqs[a]
      PROVE  \E i \in DOMAIN c : kk[i] = a /\ ll[i] = d
  <2>1. CASE a \in 1 .. n
    <3>1. PICK i \in DOMAIN flat : k[i] = a /\ l[i] = d  BY <1>1, <2>1 DEF Placing
    <3>2. i \in DOMAIN c /\ i <= m  BY <1>2
    <3> QED BY <1>3, <3>1, <3>2
  <2>2. CASE a \notin 1 .. n
    <3>1. a = n + 1  BY <2>2
    <3>2. d \in 1 .. Len(b)  BY <1>2, <3>1
    <3>3. d + m \in DOMAIN c /\ ~(d + m <= m) /\ (d + m) - m = d  BY <1>2, <3>2
    <3> QED BY <1>3, <3>1, <3>3
  <2> QED BY <2>1, <2>2
<1>7. Placing(kk, ll, c, seqs, n+1)  BY <1>4, <1>5, <1>6 DEF Placing
<1> QED BY <1>7 DEF Places, c

\* FlattenSeq keeps the elements of its sequences, each in a place of its own.
LEMMA FlattenPlaces ==
  ASSUME NEW S, NEW seqs \in Seq(Seq(S))
  PROVE  FlattenSeq(seqs) \in Seq(S) /\ Places(FlattenSeq(seqs), seqs, Len(seqs))
<1>1. CASE seqs = <<>>
  <2>1. /\ FlattenSeq(seqs) = <<>> /\ Len(seqs) = 0 /\ DOMAIN <<>> = {} /\ 1 .. 0 = {}
        /\ <<>> \in Seq(S)
    BY <1>1 DEF FlattenSeq
  <2> QED BY <2>1 DEF Places, Placing
<1>2. CASE seqs # <<>>
  <2> DEFINE g == CHOOSE f : f = [i \in 1 .. Len(seqs) |->
                                    IF i = 1 THEN seqs[i] ELSE f[i-1] \o seqs[i]]
  <2>1. g = [i \in 1 .. Len(seqs) |-> IF i = 1 THEN seqs[i] ELSE g[i-1] \o seqs[i]]
    BY FlattenExists DEF Flattens
  <2>2. FlattenSeq(seqs) = g[Len(seqs)]
    BY <1>2 DEF FlattenSeq
  <2> HIDE DEF g
  <2> DEFINE Fine(n) == g[n] \in Seq(S) /\ Places(g[n], seqs, n)
             Good    == {n \in Nat : n \in 1 .. Len(seqs) => Fine(n)}
  <2>3. 0 \in Good
    OBVIOUS
  <2>4. ASSUME NEW n \in Nat, n \in Good, n + 1 \in 1 .. Len(seqs)
        PROVE  Fine(n + 1)
    <3>1. seqs[n+1] \in Seq(S)
      BY <2>4
    <3>2. CASE n = 0
      <4>1. g[1] = seqs[1] /\ n + 1 = 1
        BY <2>1, <2>4, <3>2
      <4>2. Places(<<>>, seqs, 0) /\ <<>> \in Seq(S)
        <5>1. DOMAIN <<>> = {} /\ 1 .. 0 = {} /\ <<>> \in Seq(S)  OBVIOUS
        <5> QED BY <5>1 DEF Places, Placing
      <4>3. Places(<<>> \o seqs[n+1], seqs, n+1)
        BY <3>1, <3>2, <4>2, OneMorePlaced
      <4>4. <<>> \o seqs[n+1] = seqs[n+1]  BY <3>1
      <4> QED BY <3>1, <4>1, <4>3, <4>4
    <3>3. CASE n # 0
      <4>1. n \in 1 .. Len(seqs) /\ n + 1 # 1 /\ (n + 1) - 1 = n
        BY <2>4, <3>3
      <4>2. g[n+1] = g[n] \o seqs[n+1]
        BY <2>1, <2>4, <4>1
      <4>3. Fine(n)
        BY <2>4, <4>1
      <4>4. g[n+1] \in Seq(S)  BY <3>1, <4>2, <4>3
      <4> QED BY <3>1, <4>2, <4>3, <4>4, OneMorePlaced
    <3> QED BY <3>2, <3>3
  <2>5. \A n \in Nat : n \in Good => n + 1 \in Good
    BY <2>4
  <2>6. Nat \subseteq Good
    <3> HIDE DEF Good
    <3> QED BY <2>3, <2>5, Induction
  <2>7. Len(seqs) \in Nat /\ Len(seqs) \in 1 .. Len(seqs)
    BY <1>2
  <2> QED BY <2>2, <2>6, <2>7
<1> QED BY <1>1, <1>2

\* Flattening keeps the elements.
Gathered(flat, S, seqs, n) ==
  flat \in Seq(S) /\ \A x : x \in ToSet(flat) <=> \E i \in 1 .. n : x \in ToSet(seqs[i])

\* FlattenSeq gathers the elements of its sequences.
LEMMA FlattenGathers ==
  ASSUME NEW S, NEW seqs \in Seq(Seq(S))
  PROVE  Gathered(FlattenSeq(seqs), S, seqs, Len(seqs))
<1> DEFINE flat == FlattenSeq(seqs)
<1>1. flat \in Seq(S) /\ Places(flat, seqs, Len(seqs))  BY FlattenPlaces
<1> HIDE DEF flat
<1>2. PICK k, l : Placing(k, l, flat, seqs, Len(seqs))  BY <1>1 DEF Places
<1>3. ASSUME NEW x \in ToSet(flat) PROVE \E a \in 1 .. Len(seqs) : x \in ToSet(seqs[a])
  <2>1. PICK i \in DOMAIN flat : x = flat[i]  BY DEF ToSet
  <2>2. k[i] \in 1 .. Len(seqs) /\ l[i] \in DOMAIN seqs[k[i]] /\ x = seqs[k[i]][l[i]]
    BY <1>2, <2>1 DEF Placing
  <2>3. x \in ToSet(seqs[k[i]])  BY <2>2 DEF ToSet
  <2> QED BY <2>2, <2>3
<1>4. ASSUME NEW a \in 1 .. Len(seqs), NEW x \in ToSet(seqs[a]) PROVE x \in ToSet(flat)
  <2>1. PICK b \in DOMAIN seqs[a] : x = seqs[a][b]  BY DEF ToSet
  <2>2. PICK i \in DOMAIN flat : k[i] = a /\ l[i] = b  BY <1>2, <2>1 DEF Placing
  <2>3. x = flat[i]  BY <1>2, <2>1, <2>2 DEF Placing
  <2> QED BY <2>3 DEF ToSet
<1>5. \A x : x \in ToSet(flat) <=> \E a \in 1 .. Len(seqs) : x \in ToSet(seqs[a])
  BY <1>3, <1>4
<1> QED BY <1>1, <1>5 DEF Gathered, flat

\* A finite set of places that is not empty has a first and a last.
LEMMA FirstAndLast ==
  ASSUME NEW n \in Nat, NEW S, S \subseteq 1 .. n, S # {}
  PROVE  Min(S) \in S /\ Max(S) \in S
<1>1. S \subseteq Nat  OBVIOUS
<1>2. \E i \in S : \A j \in S : i <= j  BY <1>1, Least
<1>3. \E i \in S : \A j \in S : i >= j
  <2> DEFINE T == {k \in Nat : n - k \in S}
  <2>1. PICK s \in S : TRUE  OBVIOUS
  <2>2. n - s \in Nat /\ n - (n - s) = s  BY <2>1
  <2>3. T # {}  BY <2>1, <2>2
  <2>4. PICK k \in T : \A j \in T : k <= j
    <3>1. T \subseteq Nat  OBVIOUS
    <3> HIDE DEF T
    <3> QED BY <2>3, <3>1, Least
  <2>5. ASSUME NEW j \in S PROVE n - k >= j
    <3>1. j \in Nat /\ n - j \in Nat /\ n - (n - j) = j  BY <2>5
    <3>2. n - j \in T  BY <3>1
    <3>3. k <= n - j /\ k \in Nat  BY <2>4, <3>2
    <3> QED BY <3>1, <3>3
  <2> QED BY <2>4, <2>5
<1> QED BY <1>2, <1>3 DEF Min, Max

\* Pieces of one element at most, all different, make a sequence without doubles.
LEMMA FlattenOnce ==
  ASSUME NEW S, NEW seqs \in Seq(Seq(S)),
         \A i \in 1 .. Len(seqs) : seqs[i] = <<>> \/ \E x \in S : seqs[i] = <<x>>,
         \A i, j \in 1 .. Len(seqs) :
           i < j => \A x \in ToSet(seqs[i]) : x \notin ToSet(seqs[j])
  PROVE  IsInjective(FlattenSeq(seqs))
<1> DEFINE flat == FlattenSeq(seqs)
<1>1. PICK k, l : Placing(k, l, flat, seqs, Len(seqs))  BY FlattenPlaces DEF Places
<1> HIDE DEF flat
<1>2. ASSUME NEW i \in DOMAIN flat
      PROVE  k[i] \in 1 .. Len(seqs) /\ flat[i] \in ToSet(seqs[k[i]]) /\ l[i] = 1
  <2>1. k[i] \in 1 .. Len(seqs) /\ l[i] \in DOMAIN seqs[k[i]] /\ flat[i] = seqs[k[i]][l[i]]
    BY <1>1 DEF Placing
  <2>2. DOMAIN <<>> = {} /\ \A x : DOMAIN <<x>> = {1}  OBVIOUS
  <2>3. l[i] = 1  BY <2>1, <2>2
  <2> QED BY <2>1, <2>3 DEF ToSet
<1>3. ASSUME NEW i \in DOMAIN flat, NEW j \in DOMAIN flat, flat[i] = flat[j]
      PROVE  i = j
  <2>1. ~(k[i] < k[j]) /\ ~(k[j] < k[i])  BY <1>2, <1>3
  <2>2. k[i] = k[j]  BY <1>2, <2>1
  <2> QED BY <1>1, <1>2, <2>2 DEF Placing
<1> QED BY <1>3 DEF IsInjective, flat

\* So are joined sequences of a set.
LEMMA PartsPlaced ==
  ASSUME NEW S, NEW n \in Nat, NEW parts, parts = [i \in 1 .. n |-> parts[i]],
         \A i \in 1 .. n : parts[i] \in Seq(S)
  PROVE  Places(FlattenSeq(parts), parts, n)
<1>1. parts \in Seq(Seq(S)) /\ Len(parts) = n  OBVIOUS
<1> QED BY <1>1, FlattenPlaces

-----------------------------------------------------------------------------
(* Every phrase names days.                                                *)

\* A hit names a span of two days.
Named(h) == h.from \in Int /\ h.to \in Int
AllNamed(hits) == \A h \in hits : Named(h)

\* A day said by name is a day.
LEMMA DayNamed ==
  ASSUME NEW text, NEW words, NEW day \in Int
  PROVE  AllNamed(DaySaid(text, words, day))
BY DEF AllNamed, DaySaid, Named, Hit

\* A span said by name is two days.
LEMMA SpanNamed ==
  ASSUME NEW text, NEW words, NEW label, NEW span \in Int \X Int
  PROVE  AllNamed(SpanSaid(text, words, label, span))
BY DEF AllNamed, SpanSaid, Named, Hit

\* What is left of the hits when words are claimed are hits.
LEMMA ClaimedIsPart == ASSUME NEW hits PROVE Claimed(hits) \subseteq hits
BY DEF Claimed

\* Today is a day, and so is this week's Monday.
LEMMA MondayInt == Monday \in Int /\ Today \in Int
BY TimeAssumption DEF Monday

\* So is a day of the week, of this week or another one.
LEMMA WeekdaysNamed ==
  ASSUME NEW text, NEW creating
  PROVE  AllNamed(WeekdayHits(text, creating))
<1>1. \A s \in DOMAIN DaySuffixes : DaySuffixes[s] \in Int
  BY DEF DaySuffixes
<1>2. \A k \in DOMAIN WeekPrefixes : WeekOffset[k] \in Int
  BY DEF WeekOffset, WeekPrefixes
<1>3. AllNamed(PrefixedWeekdays(text))
  <2> SUFFICES ASSUME NEW k \in DOMAIN WeekPrefixes, NEW s \in DOMAIN DaySuffixes, NEW words
               PROVE  AllNamed(DaySaid(text, words, Monday + WeekOffset[k] + DaySuffixes[s]))
    BY DEF AllNamed, PrefixedWeekdays
  <2>1. WeekOffset[k] \in Int /\ DaySuffixes[s] \in Int  BY <1>1, <1>2
  <2>2. Monday + WeekOffset[k] + DaySuffixes[s] \in Int  BY <2>1, MondayInt
  <2> QED BY <2>2, DayNamed
<1>4. AllNamed(BareWeekdays(text, creating))
  <2> SUFFICES ASSUME NEW s \in DOMAIN DaySuffixes, NEW words
               PROVE  AllNamed(DaySaid(text, words, BareWeekday(text, creating, DaySuffixes[s])))
    BY DEF AllNamed, BareWeekdays
  <2>1. BareWeekday(text, creating, DaySuffixes[s]) \in Int
    BY <1>1, MondayInt DEF BareWeekday
  <2> QED BY <2>1, DayNamed
<1> QED BY <1>3, <1>4, ClaimedIsPart DEF AllNamed, WeekdayHits

\* So is a written date.
LEMMA WrittenNamed ==
  ASSUME NEW text
  PROVE  AllNamed(WrittenHits(text))
BY TimeAssumption DEF AllNamed, Named, Hit, WrittenHits

\* So is a day counted from today.
LEMMA DaysNamed ==
  ASSUME NEW text
  PROVE  AllNamed(DayHits(text))
<1> SUFFICES ASSUME NEW r \in RelativeDays
             PROVE  AllNamed(DaySaid(text, {r.word}, Today + r.off))
  BY ClaimedIsPart DEF AllNamed, DayHits
<1>1. r.off \in Int  BY DEF RelativeDays
<1>2. Today + r.off \in Int  BY <1>1, MondayInt
<1> QED BY <1>2, DayNamed

\* A week or month is two days.
LEMMA RangesNamed ==
  ASSUME NEW text
  PROVE  AllNamed(RangeHits(text))
<1> SUFFICES ASSUME NEW r \in Ranges
             PROVE  AllNamed(SpanSaid(text, r.words, r.label, r.span))
  BY ClaimedIsPart DEF AllNamed, RangeHits
<1>1. /\ Months[2] \in Int \X Int /\ Months[1] \in Int \X Int
      /\ Months[-1] \in Int \X Int /\ Months[0] \in Int \X Int
  BY TimeAssumption
<1>2. /\ Week(14) \in Int \X Int /\ Week(7) \in Int \X Int
      /\ Week(-7) \in Int \X Int /\ Week(0) \in Int \X Int
  BY MondayInt DEF Week
<1>3. r.span \in {Months[2], Months[1], Months[-1], Months[0], Week(14), Week(7), Week(-7), Week(0)}
  BY DEF Ranges
<1>4. r.span \in Int \X Int  BY <1>1, <1>2, <1>3
<1> QED BY <1>4, SpanNamed

\* Whatever is found in a text names days.
LEMMA AllSpanNamed ==
  ASSUME NEW text, NEW creating
  PROVE  AllNamed(WithWeekdays(text, WeekdayHits(text, creating)))
<1>1. Outside(text, RangeHits(text), WeekdayHits(text, creating)) \subseteq RangeHits(text)
  BY DEF Outside
<1> QED BY <1>1, WeekdaysNamed, WrittenNamed, DaysNamed, RangesNamed DEF AllNamed, WithWeekdays

\* What stands from left to right are hits.
LEMMA PlacedTyped ==
  ASSUME NEW text, IsSequence(text), NEW hits
  PROVE  ByPlace(text, hits) \in Seq(hits)
<1> DEFINE here(i) == {h \in hits : h.at = i}
           parts   == [i \in 1 .. Len(text) |->
                         OneOf({h \in here(i) : h.from = h.to})
                           \o OneOf({h \in here(i) : h.from # h.to})]
<1>1. \A some \in SUBSET hits : OneOf(some) \in Seq(hits)
  BY DEF OneOf
<1>2. ASSUME NEW i \in 1 .. Len(text) PROVE parts[i] \in Seq(hits)
  <2>1. {h \in here(i) : h.from = h.to} \in SUBSET hits
        /\ {h \in here(i) : h.from # h.to} \in SUBSET hits
    OBVIOUS
  <2>2. \A a, b \in Seq(hits) : a \o b \in Seq(hits)  OBVIOUS
  <2> QED BY <1>1, <2>1, <2>2
<1>3. Len(text) \in Nat /\ parts = [i \in 1 .. Len(text) |-> parts[i]]
  BY DEF IsSequence
<1>4. ByPlace(text, hits) = FlattenSeq(parts)  BY DEF ByPlace
<1> HIDE DEF parts
<1>5. parts \in Seq(Seq(hits))  BY <1>2, <1>3
<1> QED BY <1>4, <1>5, FlattenGathers DEF Gathered

\* A sequence of some things of a set is a sequence of them.
LEMMA FlattenTyped ==
  ASSUME NEW S, NEW n \in Nat, NEW parts, parts = [i \in 1 .. n |-> parts[i]],
         \A i \in 1 .. n : parts[i] \in Seq(S)
  PROVE  /\ FlattenSeq(parts) \in Seq(S)
         /\ \A x : x \in ToSet(FlattenSeq(parts)) <=> \E i \in 1 .. n : x \in ToSet(parts[i])
<1>1. parts \in Seq(Seq(S)) /\ Len(parts) = n  OBVIOUS
<1> QED BY <1>1, FlattenGathers DEF Gathered

\* What a phrase names is a sequence of spans.
LEMMA ItemsTyped ==
  ASSUME NEW text, IsSequence(text), NEW creating
  PROVE  \E S : /\ Resolve(text, creating) \in Seq(S)
                /\ \A x \in S : Named(x)
<1> DEFINE hits   == WithWeekdays(text, WeekdayHits(text, creating))
           placed == ByPlace(text, hits)
           named  == [i \in 1 .. Len(placed) |-> Item(placed[i])]
           items  == Deduped(named)
           S      == {Item(h) : h \in hits}
<1>1. placed \in Seq(hits)  BY PlacedTyped
<1>2. \A x \in S : Named(x)
  BY AllSpanNamed DEF AllNamed, Named, Item
<1>3. Resolve(text, creating) = items  BY DEF Resolve, Items
<1>4. named \in Seq(S)
  <2> HIDE DEF hits, placed
  <2> QED BY <1>1
<1> HIDE DEF hits, placed, named, S
<1>5. items \in Seq(S)
  <2> DEFINE parts == [i \in DOMAIN named |->
                         IF \E j \in 1 .. i - 1 : named[j] = named[i] THEN <<>> ELSE <<named[i]>>]
  <2>1. DOMAIN named = 1 .. Len(named) /\ Len(named) \in Nat  BY <1>4
  <2>2. \A i \in 1 .. Len(named) : named[i] \in S /\ <<named[i]>> \in Seq(S)  BY <1>4
  <2>3. \A i \in 1 .. Len(named) : parts[i] \in Seq(S)  BY <2>1, <2>2
  <2>4. parts = [i \in 1 .. Len(named) |-> parts[i]]  BY <2>1
  <2>5. items = FlattenSeq(parts)  BY DEF Deduped
  <2> HIDE DEF parts
  <2> QED BY <2>1, <2>3, <2>4, <2>5, FlattenTyped
<1> QED BY <1>2, <1>3, <1>5

\* So is what is selected of it.
LEMMA PhraseTyped ==
  ASSUME NEW text, IsSequence(text), NEW creating
  PROVE  \E S : /\ Selected(Resolve(text, creating)) \in Seq(S)
                /\ \A x \in S : Named(x)
<1> DEFINE items == Resolve(text, creating)
<1>1. PICK S : items \in Seq(S) /\ \A x \in S : Named(x)  BY ItemsTyped
<1> DEFINE parts == [i \in DOMAIN items |->
                       IF \E j \in 1 .. i - 1 : items[j].from = items[i].from /\ items[j].to = items[i].to
                       THEN <<>> ELSE <<items[i]>>]
<1> HIDE DEF items
<1>2. DOMAIN items = 1 .. Len(items) /\ Len(items) \in Nat  BY <1>1
<1>3. \A i \in 1 .. Len(items) : items[i] \in S /\ <<items[i]>> \in Seq(S)  BY <1>1
<1>4. \A i \in 1 .. Len(items) : parts[i] \in Seq(S)  BY <1>2, <1>3
<1>5. parts = [i \in 1 .. Len(items) |-> parts[i]]  BY <1>2
<1>6. Selected(items) = FlattenSeq(parts)  BY DEF Selected
<1> HIDE DEF parts
<1>7. Selected(items) \in Seq(S)  BY <1>2, <1>4, <1>5, <1>6, FlattenTyped
<1> QED BY <1>1, <1>7 DEF items

\* The span of an item selected of a phrase.
SpanOf(item) == <<item.from, item.to>>

\* No two of them have one span.
LEMMA SelectedApart ==
  ASSUME NEW S, NEW items \in Seq(S),
         NEW i \in DOMAIN Selected(items), NEW j \in DOMAIN Selected(items),
         SpanOf(Selected(items)[i]) = SpanOf(Selected(items)[j])
  PROVE  i = j
<1> DEFINE parts == [a \in DOMAIN items |->
                       IF \E b \in 1 .. a - 1 : items[b].from = items[a].from /\ items[b].to = items[a].to
                       THEN <<>> ELSE <<items[a]>>]
           flat == FlattenSeq(parts)
<1>1. DOMAIN items = 1 .. Len(items) /\ Len(items) \in Nat
      /\ \A a \in 1 .. Len(items) : items[a] \in S /\ <<items[a]>> \in Seq(S)
  OBVIOUS
<1>2. \A a \in 1 .. Len(items) : parts[a] \in Seq(S)  BY <1>1
<1>3. parts = [a \in 1 .. Len(items) |-> parts[a]]  BY <1>1
<1>4. Selected(items) = flat  BY DEF Selected
<1>5. \A a \in 1 .. Len(items) :
        \/ parts[a] = <<>>
        \/ /\ parts[a] = <<items[a]>>
           /\ ~\E b \in 1 .. a - 1 : items[b].from = items[a].from /\ items[b].to = items[a].to
  BY <1>1
<1> HIDE DEF parts
<1>6. PICK k, l : Placing(k, l, flat, parts, Len(items))
  BY <1>1, <1>2, <1>3, PartsPlaced DEF Places
<1> HIDE DEF flat
<1>7. ASSUME NEW a \in DOMAIN flat
      PROVE  /\ k[a] \in 1 .. Len(items) /\ l[a] = 1 /\ flat[a] = items[k[a]]
             /\ ~\E b \in 1 .. k[a] - 1 : items[b].from = items[k[a]].from /\ items[b].to = items[k[a]].to
  <2>1. k[a] \in 1 .. Len(items) /\ l[a] \in DOMAIN parts[k[a]] /\ flat[a] = parts[k[a]][l[a]]
    BY <1>6 DEF Placing
  <2>2. DOMAIN <<>> = {} /\ \A x : DOMAIN <<x>> = {1} /\ <<x>>[1] = x  OBVIOUS
  <2>3. parts[k[a]] # <<>>  BY <2>1, <2>2
  <2> QED BY <1>5, <2>1, <2>2, <2>3
<1>8. items[k[i]].from = items[k[j]].from /\ items[k[i]].to = items[k[j]].to
  BY <1>4, <1>7 DEF SpanOf
<1>9. ~(k[i] < k[j]) /\ ~(k[j] < k[i])
  <2>1. k[i] \in Nat /\ k[j] \in Nat /\ k[i] >= 1 /\ k[j] >= 1  BY <1>4, <1>7
  <2>2. (k[i] < k[j] => k[i] \in 1 .. k[j] - 1) /\ (k[j] < k[i] => k[j] \in 1 .. k[i] - 1)
    BY <2>1
  <2> QED BY <1>4, <1>7, <1>8, <2>2
<1>10. k[i] = k[j] /\ l[i] = l[j]
  <2>1. k[i] \in Nat /\ k[j] \in Nat  BY <1>4, <1>7
  <2> QED BY <1>4, <1>7, <1>9, <2>1
<1> QED BY <1>4, <1>6, <1>10 DEF Placing

-----------------------------------------------------------------------------
(* Every task has a shape.                                                 *)

\* A sequence of some set is a sequence of its own members.
LEMMA SequenceOf ==
  ASSUME NEW S, NEW s \in Seq(S)
  PROVE  IsSequence(s)
<1>1. s \in [1 .. Len(s) -> S] /\ Len(s) \in Nat  OBVIOUS
<1>2. s \in [1 .. Len(s) -> ToSet(s)]  BY <1>1 DEF ToSet
<1> QED BY <1>1, <1>2 DEF IsSequence

\* What a sequence is.
LEMMA SequenceHas ==
  ASSUME NEW s, IsSequence(s)
  PROVE  Len(s) \in Nat /\ DOMAIN s = 1 .. Len(s) /\ s = [i \in 1 .. Len(s) |-> s[i]]
BY DEF IsSequence

\* A function on 1 .. n is a sequence of n.
LEMMA FunctionIsSequence ==
  ASSUME NEW n \in Nat, NEW s, s = [i \in 1 .. n |-> s[i]]
  PROVE  IsSequence(s) /\ Len(s) = n
<1>1. s \in [1 .. n -> ToSet(s)]  BY DEF ToSet
<1> QED BY <1>1 DEF IsSequence

\* Sequences of none, one and two.
LEMMA ShortSequences ==
  /\ IsSequence(<<>>)
  /\ \A x : IsSequence(<<x>>)
  /\ \A x, y : IsSequence(<<x, y>>)
<1>1. <<>> \in Seq({})  OBVIOUS
<1>2. ASSUME NEW x PROVE <<x>> \in Seq({x})  OBVIOUS
<1>3. ASSUME NEW x, NEW y PROVE <<x, y>> \in Seq({x, y})  OBVIOUS
<1> QED BY <1>1, <1>2, <1>3, SequenceOf

\* The fields of a task.
LEMMA Fields ==
  DOMAIN NoTask = {"id", "kind", "tool", "action", "text", "later", "aim", "span", "items",
                   "event", "selector", "given", "detail", "deps"}
BY DEF NoTask

\* A task but for the place of its new date.
Nearly(t) ==
  /\ DOMAIN t = DOMAIN NoTask
  /\ IsSequence(t.id) /\ t.id # <<>> /\ t.kind \in Kinds
  /\ IsSequence(t.text) /\ IsSequence(t.later) /\ IsSequence(t.deps)
  /\ t.aim \in SpanSet /\ t.span \in SpanSet

\* What stays when a task is contracted, dated or told its event.
Alike(u, t) ==
  u.id = t.id /\ u.kind = t.kind /\ u.tool = t.tool /\ u.action = t.action /\ u.deps = t.deps

\* A task stripped and contracted is a task, with its new date in one place.
LEMMA PreparedTyped ==
  ASSUME NEW t, Nearly(t)
  PROVE  IsTask(Contracted(Stripped(t))) /\ Alike(Contracted(Stripped(t)), t)
<1> DEFINE u == Stripped(t)
<1>1. Nearly(u) /\ Alike(u, t)
  BY Fields DEF Stripped, Nearly, Alike, SpanSet, NoSpan
<1> HIDE DEF u
<1>2. CASE IsTool(u) /\ u.tool = Calendar
  <2> DEFINE v == [u EXCEPT !.text = IF u.text # <<>> THEN u.text ELSE u.later, !.later = <<>>]
  <2>1. Contracted(u) = v  BY <1>2 DEF Contracted
  <2>2. /\ DOMAIN v = DOMAIN u /\ v.later = <<>> /\ v.text \in {u.text, u.later}
        /\ v.aim = u.aim /\ v.span = u.span /\ Alike(v, u)
    BY <1>1, Fields DEF Nearly, Alike
  <2> HIDE DEF v
  <2>3. IsTask(v)
    BY <1>1, <2>2, ShortSequences DEF Nearly, IsTask, Alike
  <2>4. Alike(v, t)  BY <1>1, <2>2 DEF Alike
  <2> QED BY <2>1, <2>3, <2>4 DEF u
<1>3. CASE ~(IsTool(u) /\ u.tool = Calendar)
  <2>1. Contracted(u) = u  BY <1>3 DEF Contracted
  <2>2. IsTask(u)  BY <1>1, <1>3 DEF Nearly, IsTask
  <2> QED BY <1>1, <2>1, <2>2 DEF u
<1> QED BY <1>2, <1>3

\* A task is one but for the place of its new date.
LEMMA TaskNearly == ASSUME NEW t, IsTask(t) PROVE Nearly(t)
BY DEF IsTask, Nearly

\* Tasks in a row.
LEMMA FewTasks ==
  ASSUME NEW a, NEW b, IsTask(a), IsTask(b)
  PROVE  AreTasks(<<>>) /\ AreTasks(<<a>>) /\ AreTasks(<<a, b>>)
<1>1. ToSet(<<>>) = {} /\ ToSet(<<a>>) = {a} /\ ToSet(<<a, b>>) = {a, b}
  <2>1. DOMAIN <<>> = {} /\ DOMAIN <<a>> = {1} /\ DOMAIN <<a, b>> = {1, 2}  OBVIOUS
  <2> QED BY <2>1 DEF ToSet
<1> QED BY <1>1, ShortSequences DEF AreTasks

\* No tasks are tasks.
LEMMA NothingTyped == AreTasks(<<>>)
<1>1. DOMAIN <<>> = {}  OBVIOUS
<1> QED BY <1>1, ShortSequences DEF AreTasks, ToSet

\* So is a function on 1 .. n to tasks.
LEMMA TasksInARow ==
  ASSUME NEW n \in Nat, NEW ts, ts = [i \in 1 .. n |-> ts[i]], \A i \in 1 .. n : IsTask(ts[i])
  PROVE  AreTasks(ts) /\ Len(ts) = n
<1>1. IsSequence(ts) /\ Len(ts) = n /\ DOMAIN ts = 1 .. n  BY FunctionIsSequence
<1> QED BY <1>1 DEF AreTasks, ToSet

\* Tasks, by place and as a set.
LEMMA TaskAt ==
  ASSUME NEW ts, AreTasks(ts)
  PROVE  /\ Len(ts) \in Nat /\ DOMAIN ts = 1 .. Len(ts)
         /\ ts = [i \in 1 .. Len(ts) |-> ts[i]]
         /\ \A i \in 1 .. Len(ts) : IsTask(ts[i]) /\ ts[i] \in ToSet(ts)
         /\ \A t \in ToSet(ts) : IsTask(t) /\ \E i \in 1 .. Len(ts) : t = ts[i]
BY SequenceHas DEF AreTasks, ToSet

\* Lists of tasks joined are tasks, those of the lists.
LEMMA FlattenTasks ==
  ASSUME NEW n \in Nat, NEW parts, parts = [i \in 1 .. n |-> parts[i]],
         \A i \in 1 .. n : AreTasks(parts[i])
  PROVE  /\ AreTasks(FlattenSeq(parts))
         /\ \A x : x \in ToSet(FlattenSeq(parts)) <=> \E i \in 1 .. n : x \in ToSet(parts[i])
<1> DEFINE S == UNION {ToSet(parts[i]) : i \in 1 .. n}
<1>1. ASSUME NEW i \in 1 .. n PROVE parts[i] \in Seq(S)
  <2>1. parts[i] \in Seq(ToSet(parts[i]))  BY DEF AreTasks, IsSequence
  <2>2. ToSet(parts[i]) \subseteq S  OBVIOUS
  <2> HIDE DEF S
  <2> QED BY <2>1, <2>2
<1>2. \A x \in S : IsTask(x)  BY DEF AreTasks
<1> HIDE DEF S
<1>3. /\ FlattenSeq(parts) \in Seq(S)
      /\ \A x : x \in ToSet(FlattenSeq(parts)) <=> \E i \in 1 .. n : x \in ToSet(parts[i])
  BY <1>1, FlattenTyped
<1>4. IsSequence(FlattenSeq(parts))  BY <1>3, SequenceOf
<1>5. \A x \in ToSet(FlattenSeq(parts)) : IsTask(x)  BY <1>3, <1>1 DEF AreTasks
<1> QED BY <1>3, <1>4, <1>5 DEF AreTasks

-----------------------------------------------------------------------------
(* What the planner wrote, normalised.                                     *)

\* Appending to an id gives an id, that ends as it was told.
LEMMA LongerId ==
  ASSUME NEW s, IsSequence(s), NEW e
  PROVE  IsSequence(Append(s, e)) /\ Append(s, e) # <<>> /\ Front(Append(s, e)) = s
<1>1. s \in Seq(ToSet(s) \cup {e})
  <2>1. s \in Seq(ToSet(s)) /\ ToSet(s) \subseteq ToSet(s) \cup {e}  BY DEF IsSequence
  <2> HIDE DEF IsSequence
  <2> QED BY <2>1
<1>2. Append(s, e) \in Seq(ToSet(s) \cup {e})  BY <1>1
<1>3. /\ Len(Append(s, e)) = Len(s) + 1 /\ Len(s) \in Nat
      /\ \A i \in 1 .. Len(s) : Append(s, e)[i] = s[i]
      /\ s = [i \in 1 .. Len(s) |-> s[i]]
  BY <1>1
<1>4. Front(Append(s, e)) = s
  <2>1. Front(Append(s, e)) = [i \in 1 .. Len(s) |-> Append(s, e)[i]]
    BY <1>2, <1>3 DEF Front
  <2> QED BY <1>3, <2>1
<1>5. Append(s, e) # <<>>  BY <1>2, <1>3
<1> QED BY <1>2, <1>4, <1>5, SequenceOf

\* The phrase taken is one of the four, or nothing.
LEMMA CanonicalTyped ==
  ASSUME NEW p, NEW raw, RawTask(raw)
  PROVE  IsSequence(Canonical(p, raw))
<1> DEFINE said   == <<raw.text, raw.date, raw.inner, raw.later>>
           usable == {i \in 1 .. 4 : Usable(p, said[i])}
<1>1. CASE usable = {}  BY <1>1, ShortSequences DEF Canonical
<1>2. CASE usable # {}
  <2>1. usable \subseteq 1 .. 4  OBVIOUS
  <2>2. Canonical(p, raw) = said[Min(usable)]  BY <1>2 DEF Canonical
  <2>3. \A i \in 1 .. 4 : said[i] \in {raw.text, raw.date, raw.inner, raw.later}  OBVIOUS
  <2> HIDE DEF said, usable
  <2>4. Min(usable) \in 1 .. 4  BY <1>2, <2>1, FirstAndLast
  <2> QED BY <2>2, <2>3, <2>4 DEF RawTask
<1> QED BY <1>1, <1>2

\* A combined task becomes two.
LEMMA PairTyped ==
  ASSUME NEW t, IsTask(t)
  PROVE  AreTasks(QueryThenUpdate(t))
<1> DEFINE q == [t EXCEPT !.action = "query", !.event = "", !.given = {}, !.span = t.aim]
           u == [t EXCEPT !.id = Append(t.id, "update"), !.action = "update", !.text = t.later,
                          !.event = "", !.selector = FALSE, !.deps = <<t.id>>]
<1>1. /\ DOMAIN q = DOMAIN t /\ q.id = t.id /\ q.kind = t.kind /\ q.tool = t.tool
      /\ q.text = t.text /\ q.later = t.later /\ q.deps = t.deps /\ q.aim = t.aim /\ q.span = t.aim
  BY Fields DEF IsTask
<1>2. /\ DOMAIN u = DOMAIN t /\ u.id = Append(t.id, "update") /\ u.kind = t.kind /\ u.tool = t.tool
      /\ u.text = t.later /\ u.later = t.later /\ u.deps = <<t.id>>
      /\ u.aim = t.aim /\ u.span = t.span
  BY Fields DEF IsTask
<1>3. QueryThenUpdate(t) = <<q, u>>  BY DEF QueryThenUpdate
<1> HIDE DEF q, u
<1>4. IsTask(q)  BY <1>1 DEF IsTask, IsTool
<1>5. IsTask(u)
  <2>1. IsSequence(Append(t.id, "update")) /\ Append(t.id, "update") # <<>>
    BY LongerId DEF IsTask
  <2> QED BY <1>2, <2>1, ShortSequences DEF IsTask, IsTool
<1> QED BY <1>3, <1>4, <1>5, FewTasks

\* What the planner wrote for one task becomes tasks.
LEMMA NormalTyped ==
  ASSUME NEW p \in Plans, NEW i \in DOMAIN p.tasks
  PROVE  AreTasks(Normal(p, i))
<1> DEFINE raw == p.tasks[i]
           b   == [NoTask EXCEPT !.id = IF raw.id = <<>> THEN <<"t", ToString(i)>> ELSE raw.id,
                     !.kind = KindOf(raw), !.tool = raw.tool, !.action = ActionOf(raw),
                     !.text = Canonical(p, raw), !.span = raw.guess, !.aim = raw.aim,
                     !.later = IF Usable(p, raw.later) THEN raw.later ELSE <<>>,
                     !.event = raw.event, !.selector = raw.selector, !.given = raw.given,
                     !.detail = raw.detail, !.deps = raw.deps]
           t   == Contracted(Stripped(b))
<1>1. RawTask(raw)  BY PlansAssumption DEF ToSet
<1>2. /\ DOMAIN b = DOMAIN NoTask
      /\ b.id = IF raw.id = <<>> THEN <<"t", ToString(i)>> ELSE raw.id
      /\ b.kind = KindOf(raw) /\ b.text = Canonical(p, raw) /\ b.later \in {raw.later, <<>>}
      /\ b.span = raw.guess /\ b.aim = raw.aim /\ b.deps = raw.deps
  BY DEF NoTask
<1>3. Normal(p, i) = CASE KindOf(raw) \notin Kinds -> <<>>
                       [] IsCal(t, {"query_then_update"}) -> QueryThenUpdate(t)
                       [] OTHER -> <<t>>
  BY DEF Normal
<1> HIDE DEF b
<1>4. CASE KindOf(raw) \notin Kinds
  <2>1. ~IsTool(b)  BY <1>2, <1>4 DEF IsTool, Kinds
  <2>2. t = b  BY <2>1 DEF Stripped, Contracted
  <2>3. ~IsCal(t, {"query_then_update"})  BY <2>1, <2>2 DEF IsCal
  <2>4. Normal(p, i) = <<>>  BY <1>3, <1>4, <2>3
  <2> QED BY <2>4, NothingTyped
<1>5. CASE KindOf(raw) \in Kinds
  <2>1. Nearly(b)
    <3>1. IsSequence(Canonical(p, raw))  BY <1>1, CanonicalTyped
    <3>2. <<"t", ToString(i)>> # <<>>  OBVIOUS
    <3>3. IsSequence(b.id) /\ b.id # <<>>  BY <1>1, <1>2, <3>2, ShortSequences DEF RawTask
    <3>4. IsSequence(b.later)  BY <1>1, <1>2, ShortSequences DEF RawTask
    <3> QED BY <1>1, <1>2, <1>5, <3>1, <3>3, <3>4 DEF Nearly, RawTask
  <2>2. IsTask(t)  BY <2>1, PreparedTyped
  <2>3. AreTasks(QueryThenUpdate(t)) /\ AreTasks(<<t>>)  BY <2>2, PairTyped, FewTasks
  <2>4. Normal(p, i) \in {QueryThenUpdate(t), <<t>>}  BY <1>3, <1>5
  <2> QED BY <2>3, <2>4
<1> QED BY <1>4, <1>5

\* A dependency renamed by a generic word changes nothing else.
LEMMA AliasedTyped ==
  ASSUME NEW ts, AreTasks(ts)
  PROVE  AreTasks(Aliased(ts))
<1> DEFINE queries == {i \in DOMAIN ts : ts[i].action = "query"}
           deps(i) == [d \in DOMAIN ts[i].deps |->
                         IF ts[i].deps[d] \in Generic /\ queries # {}
                         THEN ts[Min(queries)].id ELSE ts[i].deps[d]]
           out == [i \in DOMAIN ts |-> [ts[i] EXCEPT !.deps = deps(i)]]
<1>1. Aliased(ts) = out
  <2>1. \A i \in DOMAIN ts :
          [ts[i] EXCEPT !.deps = [d \in DOMAIN @ |->
             IF @[d] \in Generic /\ queries # {} THEN ts[Min(queries)].id ELSE @[d]]]
          = [ts[i] EXCEPT !.deps = deps(i)]
    OBVIOUS
  <2> QED BY <2>1 DEF Aliased
<1>2. ASSUME NEW i \in 1 .. Len(ts)
      PROVE  IsTask([ts[i] EXCEPT !.deps = deps(i)])
  <2>1. IsTask(ts[i])  BY TaskAt
  <2>2. IsSequence(deps(i))
    <3>1. DOMAIN ts[i].deps = 1 .. Len(ts[i].deps) /\ Len(ts[i].deps) \in Nat
      BY <2>1, SequenceHas DEF IsTask
    <3>2. deps(i) = [d \in 1 .. Len(ts[i].deps) |-> deps(i)[d]]  BY <3>1
    <3> HIDE DEF deps
    <3> QED BY <3>1, <3>2, FunctionIsSequence
  <2> DEFINE u == [ts[i] EXCEPT !.deps = deps(i)]
  <2>3. /\ DOMAIN u = DOMAIN ts[i] /\ u.id = ts[i].id /\ u.kind = ts[i].kind /\ u.tool = ts[i].tool
        /\ u.text = ts[i].text /\ u.later = ts[i].later /\ u.aim = ts[i].aim
        /\ u.span = ts[i].span /\ u.deps = deps(i)
    BY <2>1, Fields DEF IsTask
  <2> HIDE DEF u, deps
  <2>4. IsTask(u)  BY <2>1, <2>2, <2>3 DEF IsTask, IsTool
  <2> QED BY <2>4 DEF u
<1>3. Len(ts) \in Nat /\ DOMAIN ts = 1 .. Len(ts)  BY TaskAt
<1>4. /\ out = [i \in 1 .. Len(ts) |-> out[i]]
      /\ \A i \in 1 .. Len(ts) : out[i] = [ts[i] EXCEPT !.deps = deps(i)]
  BY <1>3
<1> HIDE DEF out, deps
<1>5. \A i \in 1 .. Len(ts) : IsTask(out[i])  BY <1>2, <1>4
<1>6. AreTasks(out)  BY <1>3, <1>4, <1>5, TasksInARow
<1> QED BY <1>1, <1>6

\* A plan becomes tasks.
LEMMA NormalizedTyped ==
  ASSUME NEW p \in Plans
  PROVE  AreTasks(Normalized(p))
<1> DEFINE parts == [i \in DOMAIN p.tasks |-> Normal(p, i)]
           ts    == FlattenSeq(parts)
<1>1. DOMAIN p.tasks = 1 .. Len(p.tasks) /\ Len(p.tasks) \in Nat
  BY PlansAssumption, SequenceHas
<1>2. \A i \in 1 .. Len(p.tasks) : AreTasks(Normal(p, i))  BY <1>1, NormalTyped
<1>3. parts = [i \in 1 .. Len(p.tasks) |-> parts[i]]
      /\ \A i \in 1 .. Len(p.tasks) : AreTasks(parts[i])
  BY <1>1, <1>2
<1>4. Normalized(p) = Aliased(IF ts = <<>> /\ p.needs_rag THEN <<RagTask>> ELSE ts)
  BY DEF Normalized
<1> HIDE DEF parts
<1>5. AreTasks(ts)  BY <1>1, <1>3, FlattenTasks
<1>6. AreTasks(<<RagTask>>)
  <2>1. /\ DOMAIN RagTask = DOMAIN NoTask /\ RagTask.id = <<"t", "1">> /\ RagTask.kind = "rag"
        /\ RagTask.text = <<>> /\ RagTask.later = <<>> /\ RagTask.deps = <<>>
        /\ RagTask.aim = NoSpan /\ RagTask.span = NoSpan
    BY DEF RagTask, NoTask
  <2>2. <<"t", "1">> # <<>>  OBVIOUS
  <2>3. IsTask(RagTask)
    BY <2>1, <2>2, ShortSequences DEF IsTask, IsTool, Kinds, SpanSet
  <2> QED BY <2>3, FewTasks
<1> HIDE DEF ts
<1>7. CASE ts = <<>> /\ p.needs_rag  BY <1>4, <1>6, <1>7, AliasedTyped
<1>8. CASE ~(ts = <<>> /\ p.needs_rag)  BY <1>4, <1>5, <1>8, AliasedTyped
<1> QED BY <1>7, <1>8

\* The first tool task is a task.
LEMMA FirstTyped ==
  ASSUME NEW ts, AreTasks(ts)
  PROVE  IsTask(FirstTool(ts)) \/ FirstTool(ts) = NoTask
<1> DEFINE tools == {i \in DOMAIN ts : IsTool(ts[i])}
<1>1. CASE tools = {}  BY <1>1 DEF FirstTool
<1>2. CASE tools # {}
  <2>1. tools \subseteq 1 .. Len(ts) /\ Len(ts) \in Nat  BY TaskAt
  <2>2. FirstTool(ts) = ts[Min(tools)]  BY <1>2 DEF FirstTool
  <2> HIDE DEF tools
  <2>3. Min(tools) \in 1 .. Len(ts)  BY <1>2, <2>1, FirstAndLast
  <2> QED BY <2>2, <2>3, TaskAt
<1> QED BY <1>1, <1>2

-----------------------------------------------------------------------------
(* A query that names several days.                                        *)

\* A task is dated by one of the days its phrase names.
LEMMA DatedTyped ==
  ASSUME NEW t, IsTask(t), NEW item, Named(item)
  PROVE  IsTask(Dated(t, item)) /\ Alike(Dated(t, item), t)
<1>1. PICK put \in SpanSet : Dated(t, item) = [t EXCEPT !.items = <<item>>, !.span = put]
  <2>1. /\ <<item.from, item.to>> \in SpanSet /\ <<item.from, item.from>> \in SpanSet
        /\ NoSpan \in SpanSet
    BY DEF Named, SpanSet
  <2> DEFINE span == <<item.from, item.to>>
             put  == CASE ~IsTool(t) -> NoSpan
                [] t.tool \in Reads /\ t.action \in {"", "query", "*"} -> span
                [] t.tool = Calendar /\ t.action = "create" -> <<item.from, item.from>>
                [] t.tool = Calendar /\ t.action = "update" ->
                     IF item.from = item.to THEN span ELSE NoSpan
                [] t.tool = "skill" /\ t.action = "run" -> span
                [] OTHER -> NoSpan
  <2>2. put \in SpanSet
    <3>1. CASE ~IsTool(t)  BY <2>1, <3>1 DEF Reads
    <3>2. CASE IsTool(t) /\ t.tool = Calendar
      BY <2>1, <3>2 DEF Reads, Calendar, Attendance
    <3>3. CASE IsTool(t) /\ t.tool = Attendance
      BY <2>1, <3>3 DEF Reads, Calendar, Attendance
    <3>4. CASE IsTool(t) /\ t.tool \notin Reads
      BY <2>1, <3>4 DEF Reads
    <3> QED BY <3>1, <3>2, <3>3, <3>4 DEF Reads
  <2>3. Dated(t, item) = [t EXCEPT !.items = <<item>>, !.span = put]  BY DEF Dated
  <2> HIDE DEF put
  <2> QED BY <2>2, <2>3
<1> DEFINE u == [t EXCEPT !.items = <<item>>, !.span = put]
<1>2. /\ DOMAIN u = DOMAIN t /\ u.id = t.id /\ u.kind = t.kind /\ u.tool = t.tool
      /\ u.action = t.action /\ u.text = t.text /\ u.later = t.later /\ u.deps = t.deps
      /\ u.aim = t.aim /\ u.span = put
  BY Fields DEF IsTask
<1> HIDE DEF u
<1>3. IsTask(u)  BY <1>2 DEF IsTask, IsTool
<1> QED BY <1>1, <1>2, <1>3 DEF Alike, u

\* A query split by its days: parts that keep the dependencies, with ids that
\* are the query's and a number; any other task keeps its id.
IsSplitOf(parts, t) ==
  /\ AreTasks(parts) /\ Len(parts) > 0
  /\ \A i \in 1 .. Len(parts) : parts[i].deps = t.deps
  /\ Len(parts) = 1 => parts[1].id = t.id
  /\ Len(parts) > 1 => \A i \in 1 .. Len(parts) : Front(parts[i].id) = t.id

\* A task that is not split is its only part.
LEMMA OneIsSplit ==
  ASSUME NEW t, NEW u, IsTask(u), Alike(u, t)
  PROVE  IsSplitOf(<<u>>, t)
<1>1. Len(<<u>>) = 1 /\ <<u>>[1] = u /\ AreTasks(<<u>>)  BY FewTasks
<1> QED BY <1>1 DEF IsSplitOf, Alike

\* Split makes such parts, whatever the phrase of the task is.
LEMMA SplitTyped ==
  ASSUME NEW t, IsTask(t)
  PROVE  IsSplitOf(Split(t), t)
<1>1. PICK S : (\A x \in S : Named(x)) /\ (t.text # <<>> => Phrase(t) \in Seq(S))
  BY PhraseTyped DEF IsTask, Phrase
<1> DEFINE items == IF t.text = <<>> THEN <<>> ELSE Phrase(t)
<1>2. items \in Seq(S)
  <2>1. <<>> \in Seq(S)  OBVIOUS
  <2> QED BY <1>1, <2>1
<1>3. Split(t) = SplitInto(t, items)  BY DEF Split
<1> HIDE DEF items
<1>4. Len(items) \in Nat /\ DOMAIN items = 1 .. Len(items)
      /\ \A i \in 1 .. Len(items) : Named(items[i])
  BY <1>1, <1>2
<1>5. CASE items = <<>>
  <2>1. SplitInto(t, items) = <<t>>  BY <1>5 DEF SplitInto
  <2> QED BY <1>3, <2>1, OneIsSplit DEF Alike
<1>6. CASE items # <<>> /\ ~(Len(items) > 1 /\ IsTool(t) /\ t.tool \in Reads /\ t.action = "query")
  <2>1. SplitInto(t, items) = <<Dated(t, Head(items))>>  BY <1>6 DEF SplitInto
  <2>2. Named(Head(items))  BY <1>1, <1>2, <1>6
  <2>3. IsTask(Dated(t, Head(items))) /\ Alike(Dated(t, Head(items)), t)  BY <2>2, DatedTyped
  <2> QED BY <1>3, <2>1, <2>3, OneIsSplit
<1>7. CASE items # <<>> /\ Len(items) > 1 /\ IsTool(t) /\ t.tool \in Reads /\ t.action = "query"
  <2> DEFINE part(i) == [Dated(t, items[i]) EXCEPT !.id = Append(t.id, ToString(i))]
             parts == [i \in DOMAIN items |-> part(i)]
  <2>1. SplitInto(t, items) = parts  BY <1>7 DEF SplitInto
  <2>2. parts = [i \in 1 .. Len(items) |-> parts[i]] /\ \A i \in 1 .. Len(items) : parts[i] = part(i)
    BY <1>4
  <2> HIDE DEF parts
  <2>3. ASSUME NEW i \in 1 .. Len(items)
        PROVE  IsTask(part(i)) /\ part(i).deps = t.deps /\ Front(part(i).id) = t.id
    <3> DEFINE d == Dated(t, items[i])
    <3>1. IsTask(d) /\ Alike(d, t)  BY <1>4, DatedTyped
    <3> HIDE DEF d
    <3> DEFINE u == [d EXCEPT !.id = Append(t.id, ToString(i))]
    <3>2. /\ DOMAIN u = DOMAIN d /\ u.id = Append(t.id, ToString(i)) /\ u.kind = d.kind
          /\ u.tool = d.tool /\ u.text = d.text /\ u.later = d.later /\ u.deps = d.deps
          /\ u.aim = d.aim /\ u.span = d.span
      BY <3>1, Fields DEF IsTask
    <3>3. /\ IsSequence(Append(t.id, ToString(i))) /\ Append(t.id, ToString(i)) # <<>>
          /\ Front(Append(t.id, ToString(i))) = t.id
      BY LongerId DEF IsTask
    <3> HIDE DEF u
    <3>4. IsTask(u)  BY <3>1, <3>2, <3>3 DEF IsTask, IsTool
    <3>5. u = part(i)  BY DEF u, d
    <3> QED BY <3>1, <3>2, <3>3, <3>4, <3>5 DEF Alike
  <2> HIDE DEF part
  <2>4. AreTasks(parts) /\ Len(parts) = Len(items)  BY <1>4, <2>2, <2>3, TasksInARow
  <2>5. IsSplitOf(parts, t)  BY <1>4, <1>7, <2>2, <2>3, <2>4 DEF IsSplitOf
  <2> QED BY <1>3, <2>1, <2>5
<1> QED BY <1>5, <1>6, <1>7

-----------------------------------------------------------------------------
(* What depended on a split task depends on its parts.                     *)

\* What is kept once is there once.
LEMMA OnceTyped ==
  ASSUME NEW S, NEW ids \in Seq(S)
  PROVE  Once(ids) \in Seq(S) /\ IsInjective(Once(ids))
<1> DEFINE one == [i \in DOMAIN ids |->
                     IF \E j \in 1 .. i - 1 : ids[j] = ids[i] THEN <<>> ELSE <<ids[i]>>]
<1>1. DOMAIN ids = 1 .. Len(ids) /\ Len(ids) \in Nat /\ \A i \in 1 .. Len(ids) : ids[i] \in S
  OBVIOUS
<1>2. Once(ids) = FlattenSeq(one)  BY DEF Once
<1>3. one = [i \in 1 .. Len(ids) |-> one[i]]  BY <1>1
<1>4. \A i \in 1 .. Len(ids) : \/ one[i] = <<>>
                               \/ /\ one[i] = <<ids[i]>>
                                  /\ ~\E j \in 1 .. i - 1 : ids[j] = ids[i]
  BY <1>1
<1> HIDE DEF one
<1>5. \A i \in 1 .. Len(ids) : one[i] \in Seq(S)
  <2>1. <<>> \in Seq(S) /\ \A x \in S : <<x>> \in Seq(S)  OBVIOUS
  <2> QED BY <1>1, <1>4, <2>1
<1>6. one \in Seq(Seq(S)) /\ Len(one) = Len(ids)  BY <1>1, <1>3, <1>5
<1>7. ASSUME NEW i \in 1 .. Len(ids), NEW j \in 1 .. Len(ids), i < j,
             NEW x \in ToSet(one[i])
      PROVE  x \notin ToSet(one[j])
  <2>1. ToSet(<<>>) = {} /\ \A y : ToSet(<<y>>) = {y}
    <3>1. DOMAIN <<>> = {} /\ \A y : DOMAIN <<y>> = {1} /\ <<y>>[1] = y  OBVIOUS
    <3> QED BY <3>1 DEF ToSet
  <2>2. x = ids[i]  BY <1>4, <1>7, <2>1
  <2>3. i \in 1 .. j - 1  BY <1>1, <1>7
  <2> QED BY <1>4, <2>1, <2>2, <2>3
<1>8. IsInjective(FlattenSeq(one))
  <2>1. \A i \in 1 .. Len(one) : one[i] = <<>> \/ \E x \in S : one[i] = <<x>>
    BY <1>1, <1>4, <1>6
  <2>2. \A i, j \in 1 .. Len(one) : i < j => \A x \in ToSet(one[i]) : x \notin ToSet(one[j])
    BY <1>6, <1>7
  <2> QED BY <1>6, <2>1, <2>2, FlattenOnce
<1> QED BY <1>1, <1>2, <1>3, <1>5, <1>8, FlattenTyped

\* The parts of a task are ids of tasks, and there are some if it was split.
LEMMA PartsTyped ==
  ASSUME NEW n \in Nat, NEW splits, DOMAIN splits = 1 .. n, NEW S, NEW id,
         \A i \in 1 .. n : AreTasks(splits[i]),
         \A i \in 1 .. n : \A j \in 1 .. Len(splits[i]) : splits[i][j].id \in S
  PROVE  /\ Parts(splits, id) \in Seq(S)
         /\ (\E i \in 1 .. n : Len(splits[i]) > 1 /\ Front(splits[i][1].id) = id)
              => Parts(splits, id) # <<>>
<1> DEFINE found == {i \in DOMAIN splits : Len(splits[i]) > 1 /\ Front(splits[i][1].id) = id}
           parts == splits[Max(found)]
           ids   == [j \in DOMAIN parts |-> parts[j].id]
<1>1. Parts(splits, id) = IF found = {} THEN <<>> ELSE ids  BY DEF Parts
<1>2. found \subseteq 1 .. n  OBVIOUS
<1>3. found # {} <=> \E i \in 1 .. n : Len(splits[i]) > 1 /\ Front(splits[i][1].id) = id
  OBVIOUS
<1>4. CASE found = {}
  <2>1. <<>> \in Seq(S)  OBVIOUS
  <2> QED BY <1>1, <1>3, <1>4, <2>1
<1>5. CASE found # {}
  <2>1. \A i \in found : Len(splits[i]) > 1  OBVIOUS
  <2> HIDE DEF found
  <2>2. Max(found) \in found /\ Max(found) \in 1 .. n  BY <1>2, <1>5, FirstAndLast
  <2>3. Len(parts) > 1 /\ DOMAIN parts = 1 .. Len(parts) /\ Len(parts) \in Nat
        /\ \A j \in 1 .. Len(parts) : parts[j].id \in S
    BY <2>1, <2>2, TaskAt
  <2> HIDE DEF parts
  <2>4. ids \in Seq(S) /\ Len(ids) > 0  BY <2>3
  <2>5. ids # <<>>  BY <2>4
  <2> QED BY <1>1, <1>5, <2>4, <2>5
<1> QED BY <1>4, <1>5

\* A dependency is replaced by parts, if there are any.
LEMMA InPlaceTyped ==
  ASSUME NEW S, NEW all, NEW t, NEW dep, NEW parts \in Seq(S), parts = <<>> => dep \in S
  PROVE  InPlaceOf(all, t, dep, parts) \in Seq(S)
<1> DEFINE one  == [i \in DOMAIN parts |->
                      IF SameDay(all, parts[i], t) THEN <<parts[i]>> ELSE <<>>]
           same == FlattenSeq(one)
<1>1. InPlaceOf(all, t, dep, parts)
        = IF parts = <<>> THEN <<dep>> ELSE IF same # <<>> THEN same ELSE parts
  BY DEF InPlaceOf
<1>2. DOMAIN parts = 1 .. Len(parts) /\ Len(parts) \in Nat
      /\ \A i \in 1 .. Len(parts) : parts[i] \in S
  OBVIOUS
<1>3. one = [i \in 1 .. Len(parts) |-> one[i]]  BY <1>2
<1>4. \A i \in 1 .. Len(parts) : one[i] \in Seq(S)
  <2>1. <<>> \in Seq(S) /\ \A x \in S : <<x>> \in Seq(S)  OBVIOUS
  <2>2. \A i \in 1 .. Len(parts) : one[i] \in {<<>>, <<parts[i]>>}  BY <1>2
  <2> HIDE DEF one
  <2> QED BY <1>2, <2>1, <2>2
<1> HIDE DEF one
<1>5. same \in Seq(S)  BY <1>2, <1>3, <1>4, FlattenTyped
<1> HIDE DEF same
<1>6. dep \in S => <<dep>> \in Seq(S)  OBVIOUS
<1> QED BY <1>1, <1>5, <1>6

\* A task rewired names tasks, each once, and keeps its id.
LEMMA RewiredTyped ==
  ASSUME NEW S, NEW all, NEW splits, NEW t, IsTask(t),
         \A i \in DOMAIN t.deps : /\ Parts(splits, t.deps[i]) \in Seq(S)
                                  /\ Parts(splits, t.deps[i]) = <<>> => t.deps[i] \in S
  PROVE  LET u == Rewired(all, splits, t)
         IN IsTask(u) /\ u.id = t.id /\ u.deps \in Seq(S) /\ IsInjective(u.deps)
<1> DEFINE inPlace == [i \in DOMAIN t.deps |->
                         InPlaceOf(all, t, t.deps[i], Parts(splits, t.deps[i]))]
           deps == Once(FlattenSeq(inPlace))
           u == [t EXCEPT !.deps = deps]
<1>1. Rewired(all, splits, t) = u  BY DEF Rewired
<1>2. DOMAIN t.deps = 1 .. Len(t.deps) /\ Len(t.deps) \in Nat  BY SequenceHas DEF IsTask
<1>3. inPlace = [i \in 1 .. Len(t.deps) |-> inPlace[i]]  BY <1>2
<1>4. \A i \in 1 .. Len(t.deps) : inPlace[i] \in Seq(S)  BY <1>2, InPlaceTyped
<1> HIDE DEF inPlace
<1>5. FlattenSeq(inPlace) \in Seq(S)  BY <1>2, <1>3, <1>4, FlattenTyped
<1>6. deps \in Seq(S) /\ IsInjective(deps)  BY <1>5, OnceTyped
<1> HIDE DEF deps
<1>7. /\ DOMAIN u = DOMAIN t /\ u.id = t.id /\ u.kind = t.kind /\ u.tool = t.tool
      /\ u.text = t.text /\ u.later = t.later /\ u.aim = t.aim
      /\ u.span = t.span /\ u.deps = deps
  BY Fields DEF IsTask
<1> HIDE DEF u
<1>8. IsTask(u)  BY <1>6, <1>7, SequenceOf DEF IsTask, IsTool
<1> QED BY <1>1, <1>6, <1>7, <1>8

\* No dependency of the tasks names nothing.
Closed(ts) == \A t \in ToSet(ts) : ToSet(t.deps) \subseteq Ids(ts)

\* What the splits of these tasks are.
LEMMA SplitsTyped ==
  ASSUME NEW ts, AreTasks(ts), NEW splits,
         splits = [i \in DOMAIN ts |-> Split(Contracted(Stripped(ts[i])))]
  PROVE  /\ Len(ts) \in Nat /\ splits = [i \in 1 .. Len(ts) |-> splits[i]]
         /\ \A i \in 1 .. Len(ts) : IsSplitOf(splits[i], ts[i])
<1>1. Len(ts) \in Nat /\ DOMAIN ts = 1 .. Len(ts)  BY TaskAt
<1>2. ASSUME NEW i \in 1 .. Len(ts)
      PROVE  IsSplitOf(Split(Contracted(Stripped(ts[i]))), ts[i])
  <2>1. Nearly(ts[i])  BY TaskAt, TaskNearly
  <2> DEFINE t == Contracted(Stripped(ts[i]))
  <2>2. IsTask(t) /\ Alike(t, ts[i])  BY <2>1, PreparedTyped
  <2> HIDE DEF t
  <2>3. IsSplitOf(Split(t), t)  BY <2>2, SplitTyped
  <2> QED BY <2>2, <2>3 DEF IsSplitOf, Alike, t
<1> QED BY <1>1, <1>2

\* resolve_plan_time leaves tasks, no dependency that names nothing if there was
\* none, and none named twice that the planner did not name twice.
LEMMA ResolvedHolds ==
  ASSUME NEW ts, AreTasks(ts)
  PROVE  /\ AreTasks(Resolved(ts))
         /\ Closed(ts) => Closed(Resolved(ts))
         /\ \A u \in ToSet(Resolved(ts)) :
              IsInjective(u.deps) \/ \E t \in ToSet(ts) : t.deps = u.deps
<1> DEFINE splits == [i \in DOMAIN ts |-> Split(Contracted(Stripped(ts[i])))]
           all    == FlattenSeq(splits)
           n      == Len(ts)
<1>1. Resolved(ts) = Joined(splits, all)  BY DEF Resolved, Relinked
<1>2. /\ n \in Nat /\ splits = [i \in 1 .. n |-> splits[i]] /\ DOMAIN ts = 1 .. n
      /\ \A i \in 1 .. n : IsSplitOf(splits[i], ts[i])
  BY SplitsTyped, TaskAt
<1> HIDE DEF splits
<1>3. \A i \in 1 .. n : AreTasks(splits[i]) /\ Len(splits[i]) > 0 /\ Len(splits[i]) \in Nat
  <2>1. \A i \in 1 .. n : AreTasks(splits[i]) /\ Len(splits[i]) > 0  BY <1>2 DEF IsSplitOf
  <2> QED BY <2>1, TaskAt
<1>4. /\ AreTasks(all)
      /\ \A x : x \in ToSet(all) <=> \E i \in 1 .. n : x \in ToSet(splits[i])
  BY <1>2, <1>3, FlattenTasks
<1>5. ASSUME NEW i \in 1 .. n, NEW j \in 1 .. Len(splits[i])
      PROVE  splits[i][j] \in ToSet(all) /\ splits[i][j].id \in Ids(all)
  BY <1>3, <1>4, TaskAt DEF Ids
<1>6. \A u \in ToSet(all) : \E t \in ToSet(ts) : t.deps = u.deps
  <2> TAKE u \in ToSet(all)
  <2>1. PICK i \in 1 .. n : u \in ToSet(splits[i])  BY <1>4
  <2>2. PICK j \in 1 .. Len(splits[i]) : u = splits[i][j]  BY <1>3, <2>1, TaskAt
  <2>3. u.deps = ts[i].deps  BY <1>2, <2>2 DEF IsSplitOf
  <2> QED BY <2>3, TaskAt
<1>7. \A s \in ToSet(splits) : \E i \in 1 .. n : s = splits[i]  BY <1>2 DEF ToSet
<1>8. \A i \in 1 .. n : splits[i] \in ToSet(splits)
  <2>1. DOMAIN splits = 1 .. n  BY <1>2
  <2> QED BY <2>1 DEF ToSet
<1> HIDE DEF all
<1>9. CASE ~\E s \in ToSet(splits) : Len(s) > 1
  <2>1. Resolved(ts) = all  BY <1>1, <1>9 DEF Joined
  <2>2. ASSUME Closed(ts), NEW u \in ToSet(all), NEW d \in ToSet(u.deps)
        PROVE  d \in Ids(all)
    <3>1. d \in Ids(ts)  BY <1>6, <2>2 DEF Closed
    <3>2. PICK k \in 1 .. n : d = ts[k].id  BY <3>1, TaskAt DEF Ids
    <3>3. Len(splits[k]) = 1
      <4> DEFINE l == Len(splits[k])
      <4>1. l \in Nat /\ l > 0  BY <1>3
      <4>2. ~(l > 1)  BY <1>8, <1>9
      <4> HIDE DEF l
      <4>3. l = 1  BY <4>1, <4>2
      <4> QED BY <4>3 DEF l
    <3>4. splits[k][1].id = d  BY <1>2, <3>2, <3>3 DEF IsSplitOf
    <3> QED BY <1>5, <3>3, <3>4
  <2>3. Closed(ts) => Closed(all)  BY <2>2 DEF Closed
  <2> QED BY <1>4, <1>6, <2>1, <2>3
<1>10. CASE \E s \in ToSet(splits) : Len(s) > 1
  <2> DEFINE out == [i \in DOMAIN all |-> Rewired(all, splits, all[i])]
  <2>1. Resolved(ts) = out  BY <1>1, <1>10 DEF Joined
  <2>2. Len(all) \in Nat /\ DOMAIN all = 1 .. Len(all)
        /\ \A i \in 1 .. Len(all) : IsTask(all[i]) /\ all[i] \in ToSet(all)
    BY <1>4, TaskAt
  <2>3. /\ out = [i \in 1 .. Len(all) |-> out[i]] /\ DOMAIN out = 1 .. Len(all)
        /\ \A i \in 1 .. Len(all) : out[i] = Rewired(all, splits, all[i])
    BY <2>2
  <2> HIDE DEF out
  <2>4. DOMAIN splits = 1 .. n  BY <1>2
  <2>5. ASSUME NEW S, Ids(all) \subseteq S, NEW d
        PROVE  /\ Parts(splits, d) \in Seq(S)
               /\ (\E i \in 1 .. n : Len(splits[i]) > 1 /\ Front(splits[i][1].id) = d)
                     => Parts(splits, d) # <<>>
    <3>1. \A i \in 1 .. n : \A j \in 1 .. Len(splits[i]) : splits[i][j].id \in S
      BY <1>5, <2>5
    <3> QED BY <1>2, <1>3, <2>4, <3>1, PartsTyped
  <2>6. ASSUME NEW i \in 1 .. Len(all)
        PROVE  IsTask(out[i]) /\ IsInjective(out[i].deps) /\ out[i].id = all[i].id
    <3> DEFINE S == Ids(all) \cup ToSet(all[i].deps)
    <3>1. \A d : Parts(splits, d) \in Seq(S)  BY <2>5
    <3>2. \A k \in DOMAIN all[i].deps : all[i].deps[k] \in S  BY DEF ToSet
    <3> HIDE DEF S
    <3> QED BY <2>2, <2>3, <3>1, <3>2, RewiredTyped
  <2>7. AreTasks(out)  BY <2>2, <2>3, <2>6, TasksInARow
  <2>8. \A u \in ToSet(out) : \E i \in 1 .. Len(all) : u = out[i]  BY <2>3 DEF ToSet
  <2>9. Ids(all) \subseteq Ids(out)
    <3>1. \A i \in 1 .. Len(all) : out[i] \in ToSet(out)  BY <2>3 DEF ToSet
    <3>2. \A x \in ToSet(all) : \E i \in 1 .. Len(all) : x = all[i]  BY <1>4, TaskAt
    <3> QED BY <2>6, <3>1, <3>2 DEF Ids
  <2>10. ASSUME Closed(ts), NEW i \in 1 .. Len(all)
         PROVE  out[i].deps \in Seq(Ids(all))
    <3>1. ASSUME NEW k \in DOMAIN all[i].deps, Parts(splits, all[i].deps[k]) = <<>>
          PROVE  all[i].deps[k] \in Ids(all)
      <4> DEFINE d == all[i].deps[k]
      <4>1. d \in ToSet(all[i].deps)  BY DEF ToSet
      <4>2. d \in Ids(ts)  BY <1>6, <2>2, <2>10, <4>1 DEF Closed
      <4>3. PICK m \in 1 .. n : d = ts[m].id  BY <4>2, TaskAt DEF Ids
      <4> HIDE DEF d
      <4>4. ~(Len(splits[m]) > 1)
        <5> SUFFICES ASSUME Len(splits[m]) > 1 PROVE FALSE  OBVIOUS
        <5>1. Front(splits[m][1].id) = d  BY <1>2, <1>3, <4>3, TaskAt DEF IsSplitOf
        <5>2. Parts(splits, d) # <<>>  BY <2>5, <5>1
        <5> QED BY <3>1, <5>2 DEF d
      <4>5. Len(splits[m]) = 1
        <5> DEFINE l == Len(splits[m])
        <5>1. l \in Nat /\ l > 0  BY <1>3
        <5>2. ~(l > 1)  BY <4>4
        <5> HIDE DEF l
        <5>3. l = 1  BY <5>1, <5>2
        <5> QED BY <5>3 DEF l
      <4>6. splits[m][1].id = d  BY <1>2, <4>3, <4>5 DEF IsSplitOf
      <4> QED BY <1>5, <4>5, <4>6 DEF d
    <3>2. \A d : Parts(splits, d) \in Seq(Ids(all))  BY <2>5
    <3> QED BY <2>2, <2>3, <3>1, <3>2, RewiredTyped
  <2>11. Closed(ts) => Closed(out)
    <3> SUFFICES ASSUME Closed(ts), NEW u \in ToSet(out) PROVE ToSet(u.deps) \subseteq Ids(out)
      BY DEF Closed
    <3>1. PICK i \in 1 .. Len(all) : u = out[i]  BY <2>8
    <3>2. u.deps \in Seq(Ids(all))  BY <2>10, <3>1
    <3>3. ToSet(u.deps) \subseteq Ids(all)  BY <3>2 DEF ToSet
    <3> QED BY <2>9, <3>3
  <2> QED BY <2>1, <2>6, <2>7, <2>8, <2>11
<1> QED BY <1>9, <1>10

-----------------------------------------------------------------------------
(* The plan at every stage.                                                *)

\* A task appended to tasks.
LEMMA AppendTyped ==
  ASSUME NEW ts, AreTasks(ts), NEW t, IsTask(t)
  PROVE  /\ AreTasks(Append(ts, t)) /\ Len(ts) \in Nat
         /\ Len(Append(ts, t)) = Len(ts) + 1
<1>1. ts \in Seq(ToSet(ts))  BY DEF AreTasks, IsSequence
<1>2. ToSet(Append(ts, t)) = ToSet(ts) \cup {t}
      /\ Len(ts) \in Nat /\ Len(Append(ts, t)) = Len(ts) + 1
  <2> DEFINE S == ToSet(ts)
  <2>1. ts \in Seq(S)  BY <1>1
  <2> HIDE DEF S
  <2>2. Len(ts) \in Nat /\ Len(Append(ts, t)) = Len(ts) + 1  BY <2>1
  <2> QED BY <2>1, <2>2, Appending
<1>3. IsSequence(Append(ts, t))  BY LongerId DEF AreTasks
<1> QED BY <1>2, <1>3 DEF AreTasks

\* A task is put on one of three lists.
LEMMA VerdictIs == \A t : Verdict(t) \in {"none", "blocked", "unclear"}
<1> TAKE t
<1>1. SkillIssue(t) \in {"none", "blocked", "unclear"}
  <2>1. CASE t.event \notin Skills  BY <2>1 DEF SkillIssue
  <2>2. CASE t.event \in Skills \ policy.skills  BY <2>2 DEF SkillIssue
  <2>3. CASE t.event \in Skills /\ t.event \in policy.skills
    BY <2>3 DEF SkillIssue
  <2> QED BY <2>1, <2>2, <2>3
<1>2. \A ts : Gate(ts) \in {"none", "blocked", "unclear"}  BY DEF Gate
<1> QED BY <1>1, <1>2 DEF Verdict

\* What holds of the dependencies of these tasks, normalised from that plan.
Rewires(ts, p) ==
  /\ Closed(Normalized(p)) => Closed(ts)
  /\ \A t \in ToSet(ts) :
       IsInjective(t.deps) \/ \E n \in ToSet(Normalized(p)) : n.deps = t.deps

Lists(ex, bl, un, n) ==
  /\ AreTasks(ex) /\ AreTasks(bl) /\ AreTasks(un)
  /\ n \in Nat /\ Len(ex) + Len(bl) + Len(un) = n
FirstOf(t) == IsTask(t) \/ t = NoTask

PlanInv ==
  /\ plan \in Plans
  /\ stage \in {"plan", "resolve", "inherit", "validate", "done"}
  /\ status \in {"", "valid", "partial", "refused", "needs_clarification"}
  /\ AreTasks(tasks) /\ FirstOf(first) /\ Lists(executable, blocked, unclear, next)
  /\ stage = "resolve" => tasks = Normalized(plan)
  /\ stage \in {"inherit", "validate"} => Rewires(tasks, plan)

\* The same after a step, of what the step makes.
LEMMA PlanInvNext ==
  ASSUME plan' \in Plans,
         stage' \in {"plan", "resolve", "inherit", "validate", "done"},
         status' \in {"", "valid", "partial", "refused", "needs_clarification"},
         AreTasks(tasks'), FirstOf(first'), Lists(executable', blocked', unclear', next'),
         stage' = "resolve" => tasks' = Normalized(plan'),
         stage' \in {"inherit", "validate"} => Rewires(tasks', plan')
  PROVE  PlanInv'
BY DEF PlanInv

\* Nothing is planned at the start.
LEMMA InitPlan == Init => PlanInv
<1> SUFFICES ASSUME Init PROVE PlanInv  OBVIOUS
<1>1. /\ plan \in Plans /\ stage = "plan" /\ status = "" /\ tasks = <<>> /\ first = NoTask
      /\ executable = <<>> /\ blocked = <<>> /\ unclear = <<>> /\ next = 0
  BY DEF Init
<1>2. Lists(<<>>, <<>>, <<>>, 0)
  <2>1. Len(<<>>) = 0  OBVIOUS
  <2> QED BY <2>1, NothingTyped DEF Lists
<1>3. Lists(executable, blocked, unclear, next)  BY <1>1, <1>2
<1> QED BY <1>1, <1>3, NothingTyped DEF PlanInv, FirstOf

\* The plan is normalised.
LEMMA PlanKeeps == PlanInv /\ Plan => PlanInv'
<1> SUFFICES ASSUME PlanInv, Plan PROVE PlanInv'  OBVIOUS
<1>1. /\ stage' = "resolve" /\ tasks' = Normalized(plan) /\ first' = FirstTool(tasks')
      /\ plan' = plan /\ status' = status
      /\ executable' = executable /\ blocked' = blocked /\ unclear' = unclear /\ next' = next
  BY DEF Plan, request, lists
<1>2. AreTasks(tasks')  BY <1>1, NormalizedTyped DEF PlanInv
<1>3. FirstOf(first')  BY <1>1, <1>2, FirstTyped DEF FirstOf
<1>4. Lists(executable', blocked', unclear', next')  BY <1>1 DEF PlanInv
<1> QED BY <1>1, <1>2, <1>3, <1>4, PlanInvNext DEF PlanInv

\* Its times are resolved.
LEMMA ResolveKeeps == PlanInv /\ ResolvePlanTime => PlanInv'
<1> SUFFICES ASSUME PlanInv, ResolvePlanTime PROVE PlanInv'  OBVIOUS
<1>1. /\ stage = "resolve" /\ stage' = "inherit" /\ tasks' = Resolved(tasks) /\ first' = first
      /\ plan' = plan /\ status' = status
      /\ executable' = executable /\ blocked' = blocked /\ unclear' = unclear /\ next' = next
  BY DEF ResolvePlanTime, request, lists, outcome
<1>2. AreTasks(tasks) /\ tasks = Normalized(plan)  BY <1>1 DEF PlanInv
<1>3. AreTasks(tasks') /\ Rewires(tasks', plan')
  BY <1>1, <1>2, ResolvedHolds DEF Rewires
<1>4. Lists(executable', blocked', unclear', next') /\ FirstOf(first')  BY <1>1 DEF PlanInv
<1> QED BY <1>1, <1>3, <1>4, PlanInvNext DEF PlanInv

\* An event taken from the last turn touches neither ids nor dependencies.
LEMMA InheritKeeps == PlanInv /\ Inherit => PlanInv'
<1> SUFFICES ASSUME PlanInv, Inherit PROVE PlanInv'  OBVIOUS
<1>1. /\ stage = "inherit" /\ stage' = "validate" /\ plan' = plan /\ status' = status
      /\ executable' = executable /\ blocked' = blocked /\ unclear' = unclear /\ next' = next
  BY DEF Inherit, request, lists, outcome
<1>2. AreTasks(tasks) /\ FirstOf(first) /\ Rewires(tasks, plan)  BY <1>1 DEF PlanInv
<1>3. Len(tasks) \in Nat /\ DOMAIN tasks = 1 .. Len(tasks)
      /\ \A i \in 1 .. Len(tasks) : IsTask(tasks[i]) /\ tasks[i] \in ToSet(tasks)
  BY <1>2, TaskAt
<1>4. PICK Takes : tasks' = [i \in DOMAIN tasks |->
          IF i \in Takes THEN [tasks[i] EXCEPT !.event = context.event] ELSE tasks[i]]
  <2> DEFINE takes(t) == /\ context.event \in Known /\ IsCal(t, {"update"}) /\ t.event \notin Known
                         /\ ~\E q \in ToSet(tasks) : IsCal(q, {"query"})
             Takes == {i \in DOMAIN tasks : takes(tasks[i])}
  <2>1. tasks' = [i \in DOMAIN tasks |->
                   IF takes(tasks[i]) THEN [tasks[i] EXCEPT !.event = context.event] ELSE tasks[i]]
    BY DEF Inherit
  <2>2. \A i \in DOMAIN tasks : i \in Takes <=> takes(tasks[i])  OBVIOUS
  <2> HIDE DEF takes, Takes
  <2>3. tasks' = [i \in DOMAIN tasks |->
                   IF i \in Takes THEN [tasks[i] EXCEPT !.event = context.event] ELSE tasks[i]]
    BY <2>1, <2>2
  <2> QED BY <2>3
<1>5. /\ tasks' = [i \in 1 .. Len(tasks) |-> tasks'[i]] /\ DOMAIN tasks' = 1 .. Len(tasks)
      /\ \A i \in 1 .. Len(tasks) : \/ tasks'[i] = tasks[i]
                                    \/ tasks'[i] = [tasks[i] EXCEPT !.event = context.event]
  BY <1>3, <1>4
<1>6. ASSUME NEW i \in 1 .. Len(tasks)
      PROVE  IsTask(tasks'[i]) /\ tasks'[i].id = tasks[i].id /\ tasks'[i].deps = tasks[i].deps
  <2>1. CASE tasks'[i] = tasks[i]  BY <1>3, <2>1
  <2>2. CASE tasks'[i] = [tasks[i] EXCEPT !.event = context.event]
    <3> DEFINE t == tasks[i]
               u == [t EXCEPT !.event = context.event]
    <3>1. IsTask(t)  BY <1>3
    <3> HIDE DEF t
    <3>2. /\ DOMAIN u = DOMAIN t /\ u.id = t.id /\ u.kind = t.kind /\ u.tool = t.tool
          /\ u.text = t.text /\ u.later = t.later /\ u.deps = t.deps
          /\ u.aim = t.aim /\ u.span = t.span
      BY <3>1, Fields DEF IsTask
    <3> HIDE DEF u
    <3>3. IsTask(u)  BY <3>1, <3>2 DEF IsTask, IsTool
    <3>4. tasks'[i] = u  BY <2>2 DEF u, t
    <3> QED BY <3>2, <3>3, <3>4 DEF t
  <2> QED BY <1>5, <2>1, <2>2
<1>7. AreTasks(tasks')  BY <1>3, <1>5, <1>6, TasksInARow
<1>8. Rewires(tasks', plan')
  <2>1. \A u \in ToSet(tasks') : \E t \in ToSet(tasks) : u.deps = t.deps
    <3>1. \A u \in ToSet(tasks') : \E i \in 1 .. Len(tasks) : u = tasks'[i]
      BY <1>5 DEF ToSet
    <3> QED BY <1>3, <1>6, <3>1
  <2>2. Ids(tasks) \subseteq Ids(tasks')
    <3>1. \A t \in ToSet(tasks) : \E i \in 1 .. Len(tasks) : t = tasks[i]  BY <1>2, TaskAt
    <3>2. \A i \in 1 .. Len(tasks) : tasks'[i] \in ToSet(tasks')  BY <1>5 DEF ToSet
    <3> QED BY <1>6, <3>1, <3>2 DEF Ids
  <2>3. Closed(tasks) => Closed(tasks')
    <3> SUFFICES ASSUME Closed(tasks), NEW u \in ToSet(tasks')
                 PROVE  ToSet(u.deps) \subseteq Ids(tasks')
      BY DEF Closed
    <3>1. PICK t \in ToSet(tasks) : u.deps = t.deps  BY <2>1
    <3>2. ToSet(t.deps) \subseteq Ids(tasks)  BY DEF Closed
    <3>3. ToSet(u.deps) = ToSet(t.deps)  BY <3>1
    <3> QED BY <2>2, <3>2, <3>3
  <2>4. \A u \in ToSet(tasks') :
          IsInjective(u.deps) \/ \E n \in ToSet(Normalized(plan)) : n.deps = u.deps
    <3> TAKE u \in ToSet(tasks')
    <3>1. PICK t \in ToSet(tasks) : u.deps = t.deps  BY <2>1
    <3>2. IsInjective(t.deps) \/ \E n \in ToSet(Normalized(plan)) : n.deps = t.deps
      BY <1>2 DEF Rewires
    <3> QED BY <3>1, <3>2
  <2>5. plan' = plan  BY <1>1
  <2>6. Rewires(tasks', plan)  BY <1>2, <2>3, <2>4 DEF Rewires
  <2> QED BY <2>5, <2>6
<1>9. FirstOf(first')
  <2>1. first' = first \/ first' = FirstTool(tasks')  BY DEF Inherit
  <2>2. IsTask(FirstTool(tasks')) \/ FirstTool(tasks') = NoTask  BY <1>7, FirstTyped
  <2> QED BY <1>2, <2>1, <2>2 DEF FirstOf
<1>10. Lists(executable', blocked', unclear', next')  BY <1>1 DEF PlanInv
<1> QED BY <1>1, <1>7, <1>8, <1>9, <1>10, PlanInvNext DEF PlanInv

\* A task is put on one list, and the count of the three grows by one.
LEMMA ValidateKeeps == PlanInv /\ ValidateTask => PlanInv'
<1> SUFFICES ASSUME PlanInv, ValidateTask PROVE PlanInv'  OBVIOUS
<1> DEFINE t == tasks[next']
<1>1. /\ stage = "validate" /\ stage' = "validate" /\ next < Len(tasks) /\ next' = next + 1
      /\ tasks' = tasks /\ first' = first /\ plan' = plan /\ status' = status
      /\ executable' = IF Verdict(t) = "none" THEN Append(executable, t) ELSE executable
      /\ blocked' = IF Verdict(t) = "blocked" THEN Append(blocked, t) ELSE blocked
      /\ unclear' = IF Verdict(t) = "unclear" THEN Append(unclear, t) ELSE unclear
  BY DEF ValidateTask, request, outcome
<1>2. AreTasks(tasks) /\ FirstOf(first) /\ Rewires(tasks, plan)
      /\ Lists(executable, blocked, unclear, next)
  BY <1>1 DEF PlanInv
<1>3. IsTask(t)
  <2>1. next' \in 1 .. Len(tasks)
    <3>1. Len(tasks) \in Nat /\ next \in Nat  BY <1>2, TaskAt DEF Lists
    <3> QED BY <1>1, <3>1
  <2> QED BY <1>2, <2>1, TaskAt
<1>4. \E v \in {"none", "blocked", "unclear"} : Verdict(t) = v  BY VerdictIs
<1> HIDE DEF t
<1>5. Lists(executable', blocked', unclear', next')
  <2>1. /\ AreTasks(executable) /\ AreTasks(blocked) /\ AreTasks(unclear)
        /\ next \in Nat /\ Len(executable) + Len(blocked) + Len(unclear) = next
    BY <1>2 DEF Lists
  <2>2. \A ts : AreTasks(ts) => /\ AreTasks(Append(ts, t)) /\ Len(ts) \in Nat
                                /\ Len(Append(ts, t)) = Len(ts) + 1
    BY <1>3, AppendTyped
  <2>3. Len(executable) \in Nat /\ Len(blocked) \in Nat /\ Len(unclear) \in Nat
    BY <2>1, <2>2
  <2>4. /\ AreTasks(Append(executable, t)) /\ Len(Append(executable, t)) = Len(executable) + 1
        /\ AreTasks(Append(blocked, t)) /\ Len(Append(blocked, t)) = Len(blocked) + 1
        /\ AreTasks(Append(unclear, t)) /\ Len(Append(unclear, t)) = Len(unclear) + 1
    BY <2>1, <2>2
  <2>5. CASE Verdict(t) = "none"
    BY <1>1, <2>1, <2>3, <2>4, <2>5 DEF Lists
  <2>6. CASE Verdict(t) = "blocked"
    BY <1>1, <2>1, <2>3, <2>4, <2>6 DEF Lists
  <2>7. CASE Verdict(t) = "unclear"
    BY <1>1, <2>1, <2>3, <2>4, <2>7 DEF Lists
  <2> QED BY <1>4, <2>5, <2>6, <2>7
<1>6. Rewires(tasks', plan')
  <2>1. tasks' = tasks /\ plan' = plan  BY <1>1
  <2> QED BY <1>2, <2>1
<1> QED BY <1>1, <1>2, <1>5, <1>6, PlanInvNext DEF PlanInv

\* The accepted tasks are those that run.
LEMMA FinishKeeps == PlanInv /\ Finish => PlanInv'
<1> SUFFICES ASSUME PlanInv, Finish PROVE PlanInv'  OBVIOUS
<1>1. /\ stage' = "done" /\ tasks' = executable /\ plan' = plan
      /\ first' = FirstTool(executable) \/ first' = NoTask
      /\ status' \in {"", "valid", "partial", "refused", "needs_clarification"}
      /\ executable' = executable /\ blocked' = blocked /\ unclear' = unclear /\ next' = next
  BY DEF Finish, request, lists
<1>2. AreTasks(executable)  BY DEF PlanInv, Lists
<1>3. FirstOf(first')  BY <1>1, <1>2, FirstTyped DEF FirstOf
<1>4. AreTasks(tasks')  BY <1>1, <1>2
<1>5. Lists(executable', blocked', unclear', next')  BY <1>1 DEF PlanInv
<1> QED BY <1>1, <1>3, <1>4, <1>5, PlanInvNext DEF PlanInv

\* Every step keeps the plan's shape and its dependencies.
LEMMA NextPlan == PlanInv /\ [Next]_vars => PlanInv'
<1> SUFFICES ASSUME PlanInv, [Next]_vars PROVE PlanInv'  OBVIOUS
<1>1. ASSUME UNCHANGED vars PROVE PlanInv'
  <2>1. /\ plan' = plan /\ stage' = stage /\ status' = status /\ tasks' = tasks /\ first' = first
        /\ executable' = executable /\ blocked' = blocked /\ unclear' = unclear /\ next' = next
    BY <1>1 DEF vars, request, lists, outcome
  <2> QED BY <2>1, PlanInvNext DEF PlanInv
<1> QED BY <1>1, PlanKeeps, ResolveKeeps, InheritKeeps, ValidateKeeps, FinishKeeps DEF Next

\* PlanTypeOK: plan_with_llm, resolve_plan_time and validate_plan.
THEOREM PlanTypes == Spec => []PlanTypeOK
<1>1. PlanInv => PlanTypeOK  BY DEF PlanInv, PlanTypeOK, Lists, FirstOf
<1> QED BY <1>1, InitPlan, NextPlan, PTL DEF Spec

\* DependenciesHold: the split of resolve_plan_time and what follows it.
THEOREM DependenciesKept == Spec => []DependenciesHold
<1>1. PlanInv => DependenciesHold  BY DEF PlanInv, DependenciesHold, Rewires, Closed
<1> QED BY <1>1, InitPlan, NextPlan, PTL DEF Spec

-----------------------------------------------------------------------------
(* A span is looked up once for each query that says it.                   *)

\* Each of the joined tasks has its place.
LEMMA TasksPlaced ==
  ASSUME NEW n \in Nat, NEW parts, parts = [i \in 1 .. n |-> parts[i]],
         \A i \in 1 .. n : AreTasks(parts[i])
  PROVE  Places(FlattenSeq(parts), parts, n)
<1> DEFINE S == UNION {ToSet(parts[i]) : i \in 1 .. n}
<1>1. ASSUME NEW i \in 1 .. n PROVE parts[i] \in Seq(S)
  <2>1. parts[i] \in Seq(ToSet(parts[i]))  BY DEF AreTasks, IsSequence
  <2>2. ToSet(parts[i]) \subseteq S  OBVIOUS
  <2> HIDE DEF S
  <2> QED BY <2>1, <2>2
<1> HIDE DEF S
<1> QED BY <1>1, PartsPlaced

\* The spans a phrase names, as the resolver finds them.
Meaning(x, new) == {SpanOf(item) : item \in ToSet(Selected(Resolve(x, new)))}

\* The phrase taken is one the user said; the new date of a change is taken last.
LEMMA CanonicalSaid ==
  ASSUME NEW p, NEW raw
  PROVE  LET said == {x \in {raw.text, raw.date, raw.inner} : Usable(p, x)}
         IN /\ Canonical(p, raw) = <<>> => said = {} /\ ~Usable(p, raw.later)
            /\ Canonical(p, raw) # <<>> =>
                 \/ Canonical(p, raw) \in said
                 \/ said = {} /\ Canonical(p, raw) = raw.later /\ Usable(p, raw.later)
<1> DEFINE said   == <<raw.text, raw.date, raw.inner, raw.later>>
           usable == {i \in 1 .. 4 : Usable(p, said[i])}
<1>1. /\ said[1] = raw.text /\ said[2] = raw.date /\ said[3] = raw.inner /\ said[4] = raw.later
      /\ 1 .. 4 = {1, 2, 3, 4}
  OBVIOUS
<1>2. Canonical(p, raw) = IF usable = {} THEN <<>> ELSE said[Min(usable)]  BY DEF Canonical
<1>3. \A i \in usable : i \in {1, 2, 3, 4} /\ Usable(p, said[i]) /\ said[i] # <<>>
  BY <1>1 DEF Usable
<1>4. /\ Usable(p, raw.text) => 1 \in usable
      /\ Usable(p, raw.date) => 2 \in usable
      /\ Usable(p, raw.inner) => 3 \in usable
      /\ Usable(p, raw.later) => 4 \in usable
  BY <1>1
<1> HIDE DEF said, usable
<1>5. CASE usable = {}  BY <1>2, <1>4, <1>5
<1>6. CASE usable # {}
  <2> DEFINE m == Min(usable)
  <2>1. m \in usable /\ \A i \in usable : m <= i
    <3>1. usable \subseteq Nat  BY <1>3
    <3>2. \E i \in usable : \A j \in usable : i <= j  BY <1>6, <3>1, Least
    <3> QED BY <3>2 DEF Min
  <2>2. Canonical(p, raw) = said[m]  BY <1>2, <1>6
  <2> HIDE DEF m
  <2>3. CASE m = 4
    <3>1. 1 \notin usable /\ 2 \notin usable /\ 3 \notin usable  BY <2>1, <2>3
    <3> QED BY <1>1, <1>3, <1>4, <2>1, <2>2, <2>3, <3>1
  <2>4. CASE m # 4
    <3>1. m \in {1, 2, 3}  BY <1>3, <2>1, <2>4
    <3> QED BY <1>1, <1>3, <2>1, <2>2, <3>1
  <2> QED BY <2>3, <2>4
<1> QED BY <1>5, <1>6

\* A query of the calendar or of attendance, with or without its days.
Reading(t) == IsTool(t) /\ t.tool \in Reads /\ t.action = "query"
Adding(t)  == IsCal(t, {"create"})

\* What the planner wrote as a query is one query that takes the phrase, and what
\* it wrote as another task is none.
LEMMA NormalReads ==
  ASSUME NEW p \in Plans, NEW i \in DOMAIN p.tasks
  PROVE  LET raw == p.tasks[i]
             ts  == Normal(p, i)
         IN /\ \A j \in DOMAIN ts : Reading(ts[j]) =>
                 j = 1 /\ LookedUp(raw) /\ ts[j].text = Canonical(p, raw)
            /\ LookedUp(raw) => 1 \in DOMAIN ts /\ Reading(ts[1])
            /\ \A j \in DOMAIN ts : Adding(ts[j]) =>
                 Added(raw) /\ ts[j].text = Canonical(p, raw)
<1> DEFINE raw == p.tasks[i]
           b   == [NoTask EXCEPT !.id = IF raw.id = <<>> THEN <<"t", ToString(i)>> ELSE raw.id,
                     !.kind = KindOf(raw), !.tool = raw.tool, !.action = ActionOf(raw),
                     !.text = Canonical(p, raw), !.span = raw.guess, !.aim = raw.aim,
                     !.later = IF Usable(p, raw.later) THEN raw.later ELSE <<>>,
                     !.event = raw.event, !.selector = raw.selector, !.given = raw.given,
                     !.detail = raw.detail, !.deps = raw.deps]
           t   == Contracted(Stripped(b))
<1>1. /\ DOMAIN b = DOMAIN NoTask
      /\ b.kind = KindOf(raw) /\ b.tool = raw.tool /\ b.action = ActionOf(raw)
      /\ b.text = Canonical(p, raw)
      /\ b.later = IF Usable(p, raw.later) THEN raw.later ELSE <<>>
  BY DEF NoTask
<1>2. Normal(p, i) = CASE KindOf(raw) \notin Kinds -> <<>>
                       [] IsCal(t, {"query_then_update"}) -> QueryThenUpdate(t)
                       [] OTHER -> <<t>>
  BY DEF Normal
<1>3. b.text = <<>> => b.later = <<>>  BY <1>1, CanonicalSaid
<1> HIDE DEF b
<1>4. /\ DOMAIN t = DOMAIN NoTask
      /\ t.kind = KindOf(raw) /\ t.tool = raw.tool /\ t.action = ActionOf(raw)
      /\ t.text = Canonical(p, raw)
  <2> DEFINE u == Stripped(b)
  <2>1. /\ DOMAIN u = DOMAIN NoTask /\ u.kind = b.kind /\ u.tool = b.tool /\ u.action = b.action
        /\ u.text = b.text /\ u.later = b.later
    BY <1>1, Fields DEF Stripped
  <2> HIDE DEF u
  <2>2. CASE IsTool(u) /\ u.tool = Calendar
    <3> DEFINE v == [u EXCEPT !.text = IF u.text # <<>> THEN u.text ELSE u.later, !.later = <<>>]
    <3>1. Contracted(u) = v  BY <2>2 DEF Contracted
    <3>2. /\ DOMAIN v = DOMAIN u /\ v.kind = u.kind /\ v.tool = u.tool /\ v.action = u.action
          /\ v.text = IF u.text # <<>> THEN u.text ELSE u.later
      BY <2>1, Fields
    <3> QED BY <1>1, <1>3, <2>1, <3>1, <3>2 DEF u
  <2>3. CASE ~(IsTool(u) /\ u.tool = Calendar)
    <3>1. Contracted(u) = u  BY <2>3 DEF Contracted
    <3> QED BY <1>1, <2>1, <3>1 DEF u
  <2> QED BY <2>2, <2>3
<1> HIDE DEF t
<1>5. /\ DOMAIN <<>> = {}
      /\ \A x : DOMAIN <<x>> = {1} /\ <<x>>[1] = x
      /\ \A x, y : DOMAIN <<x, y>> = {1, 2} /\ <<x, y>>[1] = x /\ <<x, y>>[2] = y
  OBVIOUS
<1>6. IsTool(t) <=> KindOf(raw) = "tool"  BY <1>4 DEF IsTool
<1>7. raw.tool = Calendar => ActionOf(raw) = raw.action
  BY DEF ActionOf, Calendar, Attendance
<1>8. CASE KindOf(raw) \notin Kinds
  <2>1. KindOf(raw) # "tool"  BY <1>8 DEF Kinds
  <2>2. ~IsCal(t, {"query_then_update"})  BY <1>6, <2>1 DEF IsCal
  <2>3. Normal(p, i) = <<>>  BY <1>2, <1>8, <2>2
  <2> QED BY <1>5, <2>1, <2>3 DEF LookedUp
<1>9. CASE KindOf(raw) \in Kinds /\ IsCal(t, {"query_then_update"})
  <2>1. Normal(p, i) = QueryThenUpdate(t)  BY <1>2, <1>9
  <2> DEFINE q == [t EXCEPT !.action = "query", !.event = "", !.given = {}, !.span = t.aim]
             u == [t EXCEPT !.id = Append(t.id, "update"), !.action = "update", !.text = t.later,
                            !.event = "", !.selector = FALSE, !.deps = <<t.id>>]
  <2>2. /\ q.action = "query" /\ q.kind = t.kind /\ q.tool = t.tool /\ q.text = t.text
        /\ u.action = "update"
    BY <1>4, Fields
  <2>3. QueryThenUpdate(t) = <<q, u>>  BY DEF QueryThenUpdate
  <2> HIDE DEF q, u
  <2>4. KindOf(raw) = "tool" /\ raw.tool = Calendar /\ raw.action = "query_then_update"
    BY <1>4, <1>6, <1>7, <1>9 DEF IsCal
  <2>5. Reading(q) /\ ~Reading(u) /\ ~Adding(q) /\ ~Adding(u)
    BY <1>4, <2>2, <2>4 DEF Reading, Adding, IsTool, IsCal, Reads
  <2>6. LookedUp(raw)  BY <2>4 DEF LookedUp
  <2> QED BY <1>4, <1>5, <2>1, <2>2, <2>3, <2>5, <2>6
<1>10. CASE KindOf(raw) \in Kinds /\ ~IsCal(t, {"query_then_update"})
  <2>1. Normal(p, i) = <<t>>  BY <1>2, <1>10
  <2>2. Reading(t) <=> LookedUp(raw)
    BY <1>4, <1>6, <1>7, <1>10 DEF Reading, LookedUp, IsCal
  <2>3. Adding(t) => Added(raw)  BY <1>4, <1>6, <1>7 DEF Adding, Added, IsCal
  <2> QED BY <1>4, <1>5, <2>1, <2>2, <2>3
<1> QED BY <1>8, <1>9, <1>10

\* What a generic word for a dependency leaves alone.
SameLook(u, t) ==
  u.kind = t.kind /\ u.tool = t.tool /\ u.action = t.action /\ u.text = t.text /\ u.span = t.span

\* Naming dependencies changes no task otherwise.
LEMMA AliasedLooks ==
  ASSUME NEW ts, AreTasks(ts)
  PROVE  DOMAIN Aliased(ts) = DOMAIN ts /\ \A i \in DOMAIN ts : SameLook(Aliased(ts)[i], ts[i])
<1> DEFINE queries == {i \in DOMAIN ts : ts[i].action = "query"}
           deps(i) == [d \in DOMAIN ts[i].deps |->
                         IF ts[i].deps[d] \in Generic /\ queries # {}
                         THEN ts[Min(queries)].id ELSE ts[i].deps[d]]
           out == [i \in DOMAIN ts |-> [ts[i] EXCEPT !.deps = deps(i)]]
<1>1. Aliased(ts) = out
  <2>1. \A i \in DOMAIN ts :
          [ts[i] EXCEPT !.deps = [d \in DOMAIN @ |->
             IF @[d] \in Generic /\ queries # {} THEN ts[Min(queries)].id ELSE @[d]]]
          = [ts[i] EXCEPT !.deps = deps(i)]
    OBVIOUS
  <2> QED BY <2>1 DEF Aliased
<1> HIDE DEF deps
<1>2. ASSUME NEW i \in DOMAIN ts PROVE SameLook(out[i], ts[i])
  <2>1. IsTask(ts[i])  BY TaskAt
  <2>2. out[i] = [ts[i] EXCEPT !.deps = deps(i)]  OBVIOUS
  <2> HIDE DEF out
  <2> QED BY <2>1, <2>2, Fields DEF IsTask, SameLook
<1> QED BY <1>1, <1>2

\* The queries of the plan and those the planner wrote, one for one.
Stems(k, ts, p) ==
  /\ \A i \in DOMAIN ts : Reading(ts[i]) =>
       k[i] \in DOMAIN p.tasks /\ LookedUp(p.tasks[k[i]]) /\ ts[i].text = Canonical(p, p.tasks[k[i]])
  /\ \A i, j \in DOMAIN ts : Reading(ts[i]) /\ Reading(ts[j]) /\ k[i] = k[j] => i = j
  /\ \A a \in DOMAIN p.tasks : LookedUp(p.tasks[a]) =>
       \E i \in DOMAIN ts : Reading(ts[i]) /\ k[i] = a
  /\ \A i \in DOMAIN ts : Adding(ts[i]) =>
       \E raw \in ToSet(p.tasks) : Added(raw) /\ ts[i].text = Canonical(p, raw)

\* Normalisation keeps every query, once.
LEMMA NormalizedReads ==
  ASSUME NEW p \in Plans
  PROVE  \E k : Stems(k, Normalized(p), p)
<1> DEFINE parts == [i \in DOMAIN p.tasks |-> Normal(p, i)]
           ts    == FlattenSeq(parts)
           n     == Len(p.tasks)
<1>1. DOMAIN p.tasks = 1 .. n /\ n \in Nat
  BY PlansAssumption, SequenceHas
<1>2. \A i \in 1 .. n : AreTasks(Normal(p, i))  BY <1>1, NormalTyped
<1>3. parts = [i \in 1 .. n |-> parts[i]]
      /\ \A i \in 1 .. n : AreTasks(parts[i]) /\ parts[i] = Normal(p, i)
  BY <1>1, <1>2
<1>4. Normalized(p) = Aliased(IF ts = <<>> /\ p.needs_rag THEN <<RagTask>> ELSE ts)
  BY DEF Normalized
<1> HIDE DEF parts
<1>5. PICK k, l : Placing(k, l, ts, parts, n)  BY <1>1, <1>3, TasksPlaced DEF Places
<1>6. AreTasks(ts)  BY <1>1, <1>3, FlattenTasks
<1> HIDE DEF ts, n
<1>7. Stems(k, ts, p)
  <2>1. ASSUME NEW i \in DOMAIN ts
        PROVE  /\ k[i] \in DOMAIN p.tasks /\ l[i] \in DOMAIN Normal(p, k[i])
               /\ ts[i] = Normal(p, k[i])[l[i]]
    BY <1>1, <1>3, <1>5 DEF Placing
  <2>2. ASSUME NEW i \in DOMAIN ts, Reading(ts[i])
        PROVE  /\ k[i] \in DOMAIN p.tasks /\ LookedUp(p.tasks[k[i]])
               /\ ts[i].text = Canonical(p, p.tasks[k[i]]) /\ l[i] = 1
    BY <2>1, <2>2, NormalReads
  <2>3. ASSUME NEW i \in DOMAIN ts, NEW j \in DOMAIN ts, Reading(ts[i]), Reading(ts[j]), k[i] = k[j]
        PROVE  i = j
    BY <1>5, <2>2, <2>3 DEF Placing
  <2>4. ASSUME NEW a \in DOMAIN p.tasks, LookedUp(p.tasks[a])
        PROVE  \E i \in DOMAIN ts : Reading(ts[i]) /\ k[i] = a
    <3>1. 1 \in DOMAIN parts[a] /\ Reading(parts[a][1])  BY <1>1, <1>3, <2>4, NormalReads
    <3>2. PICK i \in DOMAIN ts : k[i] = a /\ l[i] = 1  BY <1>1, <1>5, <3>1 DEF Placing
    <3>3. ts[i] = parts[a][1]  BY <1>5, <3>2 DEF Placing
    <3> QED BY <3>1, <3>2, <3>3
  <2>5. ASSUME NEW i \in DOMAIN ts, Adding(ts[i])
        PROVE  \E raw \in ToSet(p.tasks) : Added(raw) /\ ts[i].text = Canonical(p, raw)
    <3>1. Added(p.tasks[k[i]]) /\ ts[i].text = Canonical(p, p.tasks[k[i]])
      BY <2>1, <2>5, NormalReads
    <3>2. p.tasks[k[i]] \in ToSet(p.tasks)  BY <2>1 DEF ToSet
    <3> QED BY <3>1, <3>2
  <2> QED BY <2>2, <2>3, <2>4, <2>5 DEF Stems
<1>8. CASE ts = <<>> /\ p.needs_rag
  <2>1. \A a \in DOMAIN p.tasks : ~LookedUp(p.tasks[a])
    <3>1. DOMAIN <<>> = {}  OBVIOUS
    <3> QED BY <1>7, <1>8, <3>1 DEF Stems
  <2>2. DOMAIN <<RagTask>> = {1} /\ <<RagTask>>[1] = RagTask  OBVIOUS
  <2>3. RagTask.kind = "rag"  BY DEF RagTask, NoTask
  <2>4. AreTasks(Normalized(p))  BY NormalizedTyped
  <2>5. AreTasks(<<RagTask>>)
    <3>1. /\ DOMAIN RagTask = DOMAIN NoTask /\ RagTask.id = <<"t", "1">> /\ RagTask.kind = "rag"
          /\ RagTask.text = <<>> /\ RagTask.later = <<>> /\ RagTask.deps = <<>>
          /\ RagTask.aim = NoSpan /\ RagTask.span = NoSpan
      BY DEF RagTask, NoTask
    <3>2. <<"t", "1">> # <<>>  OBVIOUS
    <3>3. IsTask(RagTask)
      BY <3>1, <3>2, ShortSequences DEF IsTask, IsTool, Kinds, SpanSet
    <3> QED BY <3>3, FewTasks
  <2>6. Normalized(p) = Aliased(<<RagTask>>)  BY <1>4, <1>8
  <2>7. \A i \in DOMAIN Normalized(p) : ~Reading(Normalized(p)[i]) /\ ~Adding(Normalized(p)[i])
    BY <2>2, <2>3, <2>5, <2>6, AliasedLooks DEF SameLook, Reading, Adding, IsTool, IsCal
  <2>8. Stems(k, Normalized(p), p)  BY <2>1, <2>7 DEF Stems
  <2> QED BY <2>8
<1>9. CASE ~(ts = <<>> /\ p.needs_rag)
  <2> DEFINE out == Aliased(ts)
  <2>1. Normalized(p) = out  BY <1>4, <1>9
  <2>2. DOMAIN out = DOMAIN ts /\ \A i \in DOMAIN ts : SameLook(out[i], ts[i])
    BY <1>6, AliasedLooks
  <2> HIDE DEF out
  <2>3. \A i \in DOMAIN ts : /\ Reading(out[i]) <=> Reading(ts[i])
                             /\ Adding(out[i]) <=> Adding(ts[i])
                             /\ out[i].text = ts[i].text
    BY <2>2 DEF SameLook, Reading, Adding, IsTool, IsCal
  <2>4. Stems(k, out, p)  BY <1>7, <2>2, <2>3 DEF Stems
  <2> QED BY <2>1, <2>4
<1> QED BY <1>8, <1>9

\* A task about to be dated has the phrase it had, and no span if it is a tool's.
LEMMA PreparedLooks ==
  ASSUME NEW t, IsTask(t)
  PROVE  LET u == Contracted(Stripped(t))
         IN /\ IsTask(u) /\ u.kind = t.kind /\ u.tool = t.tool /\ u.action = t.action
            /\ u.text = t.text
            /\ IsTool(t) => u.span = NoSpan
<1> DEFINE u == Stripped(t)
           v == Contracted(u)
<1>1. /\ DOMAIN u = DOMAIN NoTask /\ u.text = t.text /\ u.later = t.later /\ Alike(u, t)
      /\ IsTool(t) => u.span = NoSpan
  BY Fields DEF Stripped, IsTask, Alike
<1> HIDE DEF u
<1>2. v.text = u.text /\ v.span = u.span
  <2>1. CASE IsTool(u) /\ u.tool = Calendar
    <3> DEFINE w == [u EXCEPT !.text = IF u.text # <<>> THEN u.text ELSE u.later, !.later = <<>>]
    <3>1. v = w  BY <2>1 DEF Contracted
    <3>2. w.text = (IF u.text # <<>> THEN u.text ELSE u.later) /\ w.span = u.span
      BY <1>1, Fields
    <3>3. u.later = <<>>  BY <1>1, <2>1 DEF IsTask, IsTool, Alike
    <3> QED BY <3>1, <3>2, <3>3
  <2>2. CASE ~(IsTool(u) /\ u.tool = Calendar)  BY <2>2 DEF Contracted
  <2> QED BY <2>1, <2>2
<1>3. Nearly(t)  BY TaskNearly
<1>4. IsTask(v) /\ Alike(v, t)  BY <1>3, PreparedTyped DEF u
<1> QED BY <1>1, <1>2, <1>4 DEF Alike, u

\* What a task takes of a day.
LEMMA DatedLooks ==
  ASSUME NEW t, IsTask(t), NEW item, Named(item)
  PROVE  LET u == Dated(t, item)
         IN /\ DOMAIN u = DOMAIN NoTask
            /\ u.kind = t.kind /\ u.tool = t.tool /\ u.action = t.action
            /\ Reading(t) => u.span = SpanOf(item)
            /\ Adding(t) => u.span = <<item.from, item.from>>
<1> DEFINE span == <<item.from, item.to>>
           put  == CASE ~IsTool(t) -> NoSpan
              [] t.tool \in Reads /\ t.action \in {"", "query", "*"} -> span
              [] t.tool = Calendar /\ t.action = "create" -> <<item.from, item.from>>
              [] t.tool = Calendar /\ t.action = "update" ->
                   IF item.from = item.to THEN span ELSE NoSpan
              [] t.tool = "skill" /\ t.action = "run" -> span
              [] OTHER -> NoSpan
<1>1. Reading(t) => put = span
  BY DEF Reading, Reads, Calendar, Attendance
<1>2. Adding(t) => put = <<item.from, item.from>>
  BY DEF Adding, IsCal, Reads
<1>3. Dated(t, item) = [t EXCEPT !.items = <<item>>, !.span = put]  BY DEF Dated
<1> HIDE DEF put
<1> DEFINE u == [t EXCEPT !.items = <<item>>, !.span = put]
<1>4. /\ DOMAIN u = DOMAIN NoTask /\ u.kind = t.kind /\ u.tool = t.tool /\ u.action = t.action
      /\ u.span = put
  BY Fields DEF IsTask
<1> HIDE DEF u
<1> QED BY <1>1, <1>2, <1>3, <1>4 DEF u, SpanOf

\* How these tasks look up the spans of the phrase of one task: a query all of
\* them, each once; a new event is on the first day of one.
LooksOf(parts, t) ==
  /\ \A i \in DOMAIN parts : Looking(parts[i]) =>
       Reading(t) /\ t.text # <<>> /\ parts[i].span \in Meaning(t.text, FALSE)
  /\ \A i, j \in DOMAIN parts :
       Looking(parts[i]) /\ Looking(parts[j]) /\ parts[i].span = parts[j].span => i = j
  /\ Reading(t) /\ t.text # <<>> =>
       \A s \in Meaning(t.text, FALSE) :
         \E i \in DOMAIN parts : Looking(parts[i]) /\ parts[i].span = s
  /\ \A i \in DOMAIN parts : Adding(parts[i]) /\ parts[i].span # NoSpan =>
       /\ Adding(t) /\ t.text # <<>>
       /\ OnFirstDay(parts[i].span, Meaning(t.text, TRUE))

\* A task with no span splits that way.
LEMMA SplitLooks ==
  ASSUME NEW t, IsTask(t), IsTool(t) => t.span = NoSpan
  PROVE  LooksOf(Split(t), t)
<1> DEFINE creating == t.action = "create"
           found == Phrase(t)
           items == IF t.text = <<>> THEN <<>> ELSE found
<1>1. IsSequence(t.text) /\ found = Selected(Resolve(t.text, creating))  BY DEF IsTask, Phrase
<1>2. PICK S : (\A x \in S : Named(x)) /\ found \in Seq(S)  BY <1>1, PhraseTyped
<1>3. PICK R : Resolve(t.text, creating) \in Seq(R)  BY <1>1, ItemsTyped
<1>4. \A i, j \in DOMAIN found : SpanOf(found[i]) = SpanOf(found[j]) => i = j
  BY <1>1, <1>3, SelectedApart
<1>5. Meaning(t.text, creating) = {SpanOf(item) : item \in ToSet(found)}  BY <1>1 DEF Meaning
<1>6. Split(t) = SplitInto(t, items)  BY DEF Split
<1>7. (Reading(t) => creating = FALSE) /\ (Adding(t) => creating = TRUE)
  BY DEF Reading, Adding, IsCal
<1>8. \A x : DOMAIN <<x>> = {1} /\ <<x>>[1] = x  OBVIOUS
<1>9. \A item : SpanOf(item) # NoSpan /\ SpanOf(item)[1] = item.from  BY DEF SpanOf, NoSpan
<1>10. ~(Reading(t) /\ Adding(t))  BY DEF Reading, Adding, IsCal
<1>11. \A u : u.kind = t.kind /\ u.tool = t.tool /\ u.action = t.action =>
         (Reading(u) <=> Reading(t)) /\ (Adding(u) <=> Adding(t))
  BY DEF Reading, Adding, IsTool, IsCal
<1>12. \A u : Looking(u) <=> Reading(u) /\ u.span # NoSpan  BY DEF Looking, Reading
<1>13. Reading(t) \/ Adding(t) => t.span = NoSpan  BY DEF Reading, Adding, IsCal
<1>14. Len(found) \in Nat /\ DOMAIN found = 1 .. Len(found)
       /\ \A i \in DOMAIN found : found[i] \in S /\ Named(found[i])
  BY <1>2
<1>15. (found = <<>> <=> DOMAIN found = {}) /\ (found # <<>> => Head(found) = found[1] /\ 1 \in DOMAIN found)
  BY <1>2
<1> HIDE DEF found, creating
<1>16. CASE items = <<>>
  <2>1. Split(t) = <<t>>  BY <1>6, <1>16 DEF SplitInto
  <2>2. ~Looking(t) /\ ~(Adding(t) /\ t.span # NoSpan)  BY <1>12, <1>13
  <2>3. t.text # <<>> => Meaning(t.text, creating) = {}
    <3>1. t.text # <<>> => DOMAIN found = {}  BY <1>15, <1>16
    <3> QED BY <1>5, <3>1 DEF ToSet
  <2> QED BY <1>7, <1>8, <2>1, <2>2, <2>3 DEF LooksOf
<1>17. CASE items # <<>> /\ ~(Len(items) > 1 /\ Reading(t))
  <2>1. t.text # <<>> /\ items = found  BY <1>17
  <2> DEFINE u == Dated(t, Head(found))
  <2>2. Split(t) = <<u>>  BY <1>6, <1>17, <2>1 DEF SplitInto, Reading
  <2>3. Head(found) = found[1] /\ 1 \in DOMAIN found  BY <1>15, <1>17, <2>1
  <2>4. /\ u.kind = t.kind /\ u.tool = t.tool /\ u.action = t.action
        /\ Reading(t) => u.span = SpanOf(found[1])
        /\ Adding(t) => u.span = <<found[1].from, found[1].from>>
    BY <1>14, <2>3, DatedLooks
  <2> HIDE DEF u
  <2>5. SpanOf(found[1]) \in Meaning(t.text, creating)  BY <1>5, <2>3 DEF ToSet
  <2>6. Reading(t) => Meaning(t.text, FALSE) = {SpanOf(found[1])}
    <3> SUFFICES ASSUME Reading(t) PROVE Meaning(t.text, FALSE) = {SpanOf(found[1])}
      OBVIOUS
    <3>1. ~(Len(found) > 1)  BY <1>17, <2>1
    <3>2. DOMAIN found = {1}
      <4> DEFINE n == Len(found)
      <4>1. n \in Nat /\ 1 \in 1 .. n /\ ~(n > 1)  BY <1>14, <2>3, <3>1
      <4> HIDE DEF n
      <4>2. n = 1  BY <4>1
      <4>3. 1 .. 1 = {1}  OBVIOUS
      <4> QED BY <1>14, <4>2, <4>3 DEF n
    <3>3. ToSet(found) = {found[1]}  BY <3>2 DEF ToSet
    <3> QED BY <1>5, <1>7, <3>3
  <2>7. Looking(u) => Reading(t) /\ u.span = SpanOf(found[1])  BY <1>11, <1>12, <2>4
  <2>8. Reading(t) => Looking(u)  BY <1>9, <1>11, <1>12, <2>4
  <2>9. Adding(u) => /\ Adding(t) /\ SpanOf(found[1]) \in Meaning(t.text, TRUE)
                     /\ u.span = <<SpanOf(found[1])[1], SpanOf(found[1])[1]>>
    BY <1>7, <1>9, <1>11, <2>4, <2>5
  <2> DEFINE parts == <<u>>
  <2>10. DOMAIN parts = {1} /\ \A i \in DOMAIN parts : parts[i] = u /\ i = 1  BY <1>8
  <2> HIDE DEF parts
  <2>11. SpanOf(found[1]) \in Meaning(t.text, FALSE) \/ ~Reading(t)  BY <2>6
  <2>12. LooksOf(parts, t)
    <3>1. \A i \in DOMAIN parts : Looking(parts[i]) =>
            Reading(t) /\ t.text # <<>> /\ parts[i].span \in Meaning(t.text, FALSE)
      BY <2>1, <2>7, <2>10, <2>11
    <3>2. Reading(t) => \A s \in Meaning(t.text, FALSE) :
                          \E i \in DOMAIN parts : Looking(parts[i]) /\ parts[i].span = s
      <4> SUFFICES ASSUME Reading(t), NEW s \in Meaning(t.text, FALSE)
                   PROVE  \E i \in DOMAIN parts : Looking(parts[i]) /\ parts[i].span = s
        OBVIOUS
      <4>1. s = SpanOf(found[1])
        <5>1. Meaning(t.text, FALSE) = {SpanOf(found[1])}  BY <2>6
        <5> QED BY <5>1
      <4>4. Looking(u)  BY <2>8
      <4>5. u.span = SpanOf(found[1])  BY <2>7, <4>4
      <4>2. 1 \in DOMAIN parts /\ parts[1] = u  BY <2>10
      <4>3. Looking(parts[1]) /\ parts[1].span = s  BY <4>1, <4>2, <4>4, <4>5
      <4> QED BY <4>2, <4>3
    <3>3. \A i \in DOMAIN parts : Adding(parts[i]) =>
            /\ Adding(t) /\ t.text # <<>>
            /\ OnFirstDay(parts[i].span, Meaning(t.text, TRUE))
      BY <2>1, <2>9, <2>10 DEF OnFirstDay
    <3>4. \A i, j \in DOMAIN parts : i = j  BY <2>10
    <3> QED BY <3>1, <3>2, <3>3, <3>4 DEF LooksOf
  <2> QED BY <2>2, <2>12 DEF parts
<1>18. CASE items # <<>> /\ Len(items) > 1 /\ Reading(t)
  <2>1. t.text # <<>> /\ items = found  BY <1>18
  <2> DEFINE part(i) == [Dated(t, found[i]) EXCEPT !.id = Append(t.id, ToString(i))]
             parts == [i \in DOMAIN found |-> part(i)]
  <2>2. Split(t) = parts  BY <1>6, <1>18, <2>1 DEF SplitInto, Reading
  <2>3. DOMAIN parts = DOMAIN found /\ \A i \in DOMAIN found : parts[i] = part(i)
    OBVIOUS
  <2> HIDE DEF parts
  <2>4. ASSUME NEW i \in DOMAIN found
        PROVE  Looking(parts[i]) /\ ~Adding(parts[i]) /\ parts[i].span = SpanOf(found[i])
    <3> DEFINE d == Dated(t, found[i])
    <3>1. /\ DOMAIN d = DOMAIN NoTask /\ d.kind = t.kind /\ d.tool = t.tool /\ d.action = t.action
          /\ d.span = SpanOf(found[i])
      BY <1>14, <1>18, DatedLooks
    <3> HIDE DEF d
    <3> DEFINE u == [d EXCEPT !.id = Append(t.id, ToString(i))]
    <3>2. u.kind = t.kind /\ u.tool = t.tool /\ u.action = t.action /\ u.span = SpanOf(found[i])
      BY <3>1, Fields
    <3>3. u = parts[i]  BY <2>3 DEF u, d
    <3> HIDE DEF u
    <3> QED BY <1>9, <1>10, <1>11, <1>12, <1>18, <3>2, <3>3
  <2> HIDE DEF part
  <2>5. \A i \in DOMAIN found : SpanOf(found[i]) \in Meaning(t.text, FALSE)
    BY <1>5, <1>7, <1>18 DEF ToSet
  <2>6. \A s \in Meaning(t.text, FALSE) : \E i \in DOMAIN found : s = SpanOf(found[i])
    BY <1>5, <1>7, <1>18 DEF ToSet
  <2>7. LooksOf(parts, t)
    <3>1. \A i \in DOMAIN parts : parts[i].span \in Meaning(t.text, FALSE) /\ ~Adding(parts[i])
      BY <2>3, <2>4, <2>5
    <3>2. \A i, j \in DOMAIN parts : parts[i].span = parts[j].span => i = j
      BY <1>4, <2>3, <2>4
    <3>3. \A s \in Meaning(t.text, FALSE) :
            \E i \in DOMAIN parts : Looking(parts[i]) /\ parts[i].span = s
      <4> TAKE s \in Meaning(t.text, FALSE)
      <4>1. PICK i \in DOMAIN found : s = SpanOf(found[i])  BY <2>6
      <4>2. i \in DOMAIN parts /\ Looking(parts[i]) /\ parts[i].span = s  BY <2>3, <2>4, <4>1
      <4> QED BY <4>2
    <3> QED BY <1>18, <2>1, <3>1, <3>2, <3>3 DEF LooksOf
  <2> QED BY <2>2, <2>7
<1> QED BY <1>16, <1>17, <1>18

\* The queries that run and those of the plan: each has the spans of its phrase.
Grown(m, out, ts) ==
  /\ \A i \in DOMAIN out : Looking(out[i]) =>
       /\ m[i] \in DOMAIN ts /\ Reading(ts[m[i]]) /\ ts[m[i]].text # <<>>
       /\ out[i].span \in Meaning(ts[m[i]].text, FALSE)
  /\ \A i, j \in DOMAIN out :
       Looking(out[i]) /\ Looking(out[j]) /\ out[i].span = out[j].span /\ m[i] = m[j] => i = j
  /\ \A a \in DOMAIN ts : Reading(ts[a]) /\ ts[a].text # <<>> =>
       \A s \in Meaning(ts[a].text, FALSE) :
         \E i \in DOMAIN out : Looking(out[i]) /\ out[i].span = s /\ m[i] = a
  /\ \A i \in DOMAIN out : Adding(out[i]) /\ out[i].span # NoSpan =>
       \E t \in ToSet(ts) : /\ Adding(t) /\ t.text # <<>>
                            /\ OnFirstDay(out[i].span, Meaning(t.text, TRUE))

\* What a changed dependency or event leaves alone.
LookAlike(u, t) == u.kind = t.kind /\ u.tool = t.tool /\ u.action = t.action /\ u.span = t.span

\* Tasks that look alike have grown alike.
LEMMA GrownAlike ==
  ASSUME NEW m, NEW out, NEW new, NEW ts, Grown(m, out, ts),
         DOMAIN new = DOMAIN out, \A i \in DOMAIN out : LookAlike(new[i], out[i])
  PROVE  Grown(m, new, ts)
<1>1. \A i \in DOMAIN out : /\ Looking(new[i]) <=> Looking(out[i])
                            /\ Adding(new[i]) <=> Adding(out[i])
                            /\ new[i].span = out[i].span
  BY DEF LookAlike, Looking, Adding, IsTool, IsCal
<1>3. \A i \in DOMAIN new : Looking(new[i]) =>
        /\ m[i] \in DOMAIN ts /\ Reading(ts[m[i]]) /\ ts[m[i]].text # <<>>
        /\ new[i].span \in Meaning(ts[m[i]].text, FALSE)
  BY <1>1 DEF Grown
<1>4. \A i, j \in DOMAIN new :
        Looking(new[i]) /\ Looking(new[j]) /\ new[i].span = new[j].span /\ m[i] = m[j] => i = j
  BY <1>1 DEF Grown
<1>5. \A a \in DOMAIN ts : Reading(ts[a]) /\ ts[a].text # <<>> =>
        \A s \in Meaning(ts[a].text, FALSE) :
          \E i \in DOMAIN new : Looking(new[i]) /\ new[i].span = s /\ m[i] = a
  <2> SUFFICES ASSUME NEW a \in DOMAIN ts, Reading(ts[a]), ts[a].text # <<>>,
                      NEW s \in Meaning(ts[a].text, FALSE)
               PROVE  \E i \in DOMAIN new : Looking(new[i]) /\ new[i].span = s /\ m[i] = a
    OBVIOUS
  <2>1. PICK i \in DOMAIN out : Looking(out[i]) /\ out[i].span = s /\ m[i] = a  BY DEF Grown
  <2>2. i \in DOMAIN new /\ Looking(new[i]) /\ new[i].span = s  BY <1>1, <2>1
  <2> QED BY <2>1, <2>2
<1>6. \A i \in DOMAIN new : Adding(new[i]) /\ new[i].span # NoSpan =>
        \E t \in ToSet(ts) : /\ Adding(t) /\ t.text # <<>>
                             /\ OnFirstDay(new[i].span, Meaning(t.text, TRUE))
  BY <1>1 DEF Grown
<1> QED BY <1>3, <1>4, <1>5, <1>6 DEF Grown

\* resolve_plan_time looks up each span of each query's phrase, once.
LEMMA ResolvedLooks ==
  ASSUME NEW ts, AreTasks(ts)
  PROVE  \E m : Grown(m, Resolved(ts), ts)
<1> DEFINE splits == [i \in DOMAIN ts |-> Split(Contracted(Stripped(ts[i])))]
           all    == FlattenSeq(splits)
           n      == Len(ts)
<1>1. Resolved(ts) = Joined(splits, all)  BY DEF Resolved, Relinked
<1>2. /\ n \in Nat /\ splits = [i \in 1 .. n |-> splits[i]] /\ DOMAIN ts = 1 .. n
      /\ \A i \in 1 .. n : IsSplitOf(splits[i], ts[i])
  BY SplitsTyped, TaskAt
<1>3. ASSUME NEW i \in 1 .. n PROVE LooksOf(splits[i], ts[i])
  <2> DEFINE u == Contracted(Stripped(ts[i]))
  <2>1. splits[i] = Split(u)  BY <1>2
  <2>2. /\ IsTask(u) /\ u.kind = ts[i].kind /\ u.tool = ts[i].tool /\ u.action = ts[i].action
        /\ u.text = ts[i].text /\ (IsTool(ts[i]) => u.span = NoSpan)
    BY PreparedLooks, TaskAt
  <2> HIDE DEF u, splits
  <2>3. LooksOf(splits[i], u)  BY <2>1, <2>2, SplitLooks DEF IsTool
  <2>4. (Reading(u) <=> Reading(ts[i])) /\ (Adding(u) <=> Adding(ts[i]))
    BY <2>2 DEF Reading, Adding, IsTool, IsCal
  <2> QED BY <2>2, <2>3, <2>4 DEF LooksOf
<1> HIDE DEF splits
<1>4. \A i \in 1 .. n : AreTasks(splits[i])  BY <1>2 DEF IsSplitOf
<1>5. PICK m, l : Placing(m, l, all, splits, n)  BY <1>2, <1>4, TasksPlaced DEF Places
<1>6. AreTasks(all)  BY <1>2, <1>4, FlattenTasks
<1> HIDE DEF all, n
<1>7. Grown(m, all, ts)
  <2>1. ASSUME NEW i \in DOMAIN all
        PROVE  m[i] \in 1 .. n /\ l[i] \in DOMAIN splits[m[i]] /\ all[i] = splits[m[i]][l[i]]
    BY <1>5 DEF Placing
  <2>2. ASSUME NEW i \in DOMAIN all, Looking(all[i])
        PROVE  /\ m[i] \in DOMAIN ts /\ Reading(ts[m[i]]) /\ ts[m[i]].text # <<>>
               /\ all[i].span \in Meaning(ts[m[i]].text, FALSE)
    BY <1>2, <1>3, <2>1, <2>2 DEF LooksOf
  <2>3. ASSUME NEW i \in DOMAIN all, NEW j \in DOMAIN all, Looking(all[i]), Looking(all[j]),
               all[i].span = all[j].span, m[i] = m[j]
        PROVE  i = j
    <3>1. l[i] = l[j]
      <4>1. LooksOf(splits[m[i]], ts[m[i]])  BY <1>3, <2>1
      <4> QED BY <2>1, <2>3, <4>1 DEF LooksOf
    <3> QED BY <1>5, <2>3, <3>1 DEF Placing
  <2>4. ASSUME NEW a \in DOMAIN ts, Reading(ts[a]), ts[a].text # <<>>,
               NEW s \in Meaning(ts[a].text, FALSE)
        PROVE  \E i \in DOMAIN all : Looking(all[i]) /\ all[i].span = s /\ m[i] = a
    <3>1. PICK b \in DOMAIN splits[a] : Looking(splits[a][b]) /\ splits[a][b].span = s
      BY <1>2, <1>3, <2>4 DEF LooksOf
    <3>2. PICK i \in DOMAIN all : m[i] = a /\ l[i] = b  BY <1>2, <1>5 DEF Placing
    <3>3. all[i] = splits[a][b]  BY <2>1, <3>2
    <3> QED BY <3>1, <3>2, <3>3
  <2>5. ASSUME NEW i \in DOMAIN all, Adding(all[i]), all[i].span # NoSpan
        PROVE  \E t \in ToSet(ts) : /\ Adding(t) /\ t.text # <<>>
                 /\ OnFirstDay(all[i].span, Meaning(t.text, TRUE))
    <3>1. LooksOf(splits[m[i]], ts[m[i]])  BY <1>3, <2>1
    <3>2. /\ Adding(ts[m[i]]) /\ ts[m[i]].text # <<>>
          /\ OnFirstDay(all[i].span, Meaning(ts[m[i]].text, TRUE))
      <4> DEFINE u == splits[m[i]][l[i]]
      <4>1. l[i] \in DOMAIN splits[m[i]] /\ all[i] = u  BY <2>1
      <4>2. Adding(u) /\ u.span # NoSpan  BY <2>5, <4>1
      <4>3. /\ Adding(ts[m[i]]) /\ ts[m[i]].text # <<>>
            /\ OnFirstDay(u.span, Meaning(ts[m[i]].text, TRUE))
        BY <3>1, <4>1, <4>2 DEF LooksOf
      <4> QED BY <4>1, <4>3
    <3>3. ts[m[i]] \in ToSet(ts)  BY <1>2, <2>1 DEF ToSet
    <3> QED BY <3>2, <3>3
  <2> QED BY <2>2, <2>3, <2>4, <2>5 DEF Grown
<1>8. CASE ~\E s \in ToSet(splits) : Len(s) > 1
  <2>1. Resolved(ts) = all  BY <1>1, <1>8 DEF Joined
  <2> QED BY <1>7, <2>1
<1>9. CASE \E s \in ToSet(splits) : Len(s) > 1
  <2> DEFINE out == [i \in DOMAIN all |-> Rewired(all, splits, all[i])]
  <2>1. Resolved(ts) = out  BY <1>1, <1>9 DEF Joined
  <2>2. ASSUME NEW i \in DOMAIN all PROVE LookAlike(out[i], all[i])
    <3>1. IsTask(all[i])  BY <1>6, TaskAt
    <3>2. PICK deps : out[i] = [all[i] EXCEPT !.deps = deps]  BY DEF Rewired
    <3> HIDE DEF out
    <3> QED BY <3>1, <3>2, Fields DEF IsTask, LookAlike
  <2>3. DOMAIN out = DOMAIN all  OBVIOUS
  <2> HIDE DEF out
  <2>4. Grown(m, out, ts)  BY <1>7, <2>2, <2>3, GrownAlike
  <2> QED BY <2>1, <2>4
<1> QED BY <1>8, <1>9

\* The tasks of a plan whose times are resolved have grown from its queries.
DaysInv ==
  /\ PlanInv
  /\ stage \in {"inherit", "validate"} => \E m : Grown(m, tasks, Normalized(plan))

\* Nothing has grown at the start.
LEMMA InitDays == Init => DaysInv
BY InitPlan DEF DaysInv, Init

\* Every step keeps it: the times are resolved once, and nothing is dated after.
LEMMA NextDays == DaysInv /\ [Next]_vars => DaysInv'
<1> SUFFICES ASSUME DaysInv, [Next]_vars PROVE DaysInv'  OBVIOUS
<1>1. PlanInv /\ PlanInv'  BY NextPlan DEF DaysInv
<1>2. SUFFICES ASSUME stage' \in {"inherit", "validate"}
               PROVE  \E m : Grown(m, tasks', Normalized(plan'))
  BY <1>1 DEF DaysInv
<1>3. CASE Plan  BY <1>2, <1>3 DEF Plan
<1>4. CASE ResolvePlanTime
  <2>1. stage = "resolve" /\ plan' = plan /\ tasks' = Resolved(tasks)
    BY <1>4 DEF ResolvePlanTime, request
  <2>2. AreTasks(tasks) /\ tasks = Normalized(plan)  BY <1>1, <2>1 DEF PlanInv
  <2> QED BY <2>1, <2>2, ResolvedLooks
<1>5. CASE Inherit
  <2>1. stage = "inherit" /\ plan' = plan  BY <1>5 DEF Inherit, request
  <2>2. PICK m : Grown(m, tasks, Normalized(plan))  BY <2>1 DEF DaysInv
  <2>3. AreTasks(tasks)  BY <1>1 DEF PlanInv
  <2> DEFINE takes(t) == /\ context.event \in Known /\ IsCal(t, {"update"}) /\ t.event \notin Known
                         /\ ~\E q \in ToSet(tasks) : IsCal(q, {"query"})
  <2>4. tasks' = [i \in DOMAIN tasks |->
                   IF takes(tasks[i]) THEN [tasks[i] EXCEPT !.event = context.event] ELSE tasks[i]]
    BY <1>5 DEF Inherit
  <2> HIDE DEF takes
  <2>5. ASSUME NEW i \in DOMAIN tasks PROVE LookAlike(tasks'[i], tasks[i])
    <3>1. IsTask(tasks[i])  BY <2>3, TaskAt
    <3>2. tasks'[i] \in {tasks[i], [tasks[i] EXCEPT !.event = context.event]}  BY <2>4
    <3> QED BY <3>1, <3>2, Fields DEF IsTask, LookAlike
  <2>6. DOMAIN tasks' = DOMAIN tasks  BY <2>4
  <2>7. Grown(m, tasks', Normalized(plan))  BY <2>2, <2>5, <2>6, GrownAlike
  <2> QED BY <2>1, <2>7
<1>6. CASE ValidateTask
  <2>1. stage' = stage /\ plan' = plan /\ tasks' = tasks  BY <1>6 DEF ValidateTask, request
  <2> QED BY <1>2, <2>1 DEF DaysInv
<1>7. CASE Finish  BY <1>2, <1>7 DEF Finish
<1>8. CASE UNCHANGED vars
  <2>1. stage' = stage /\ plan' = plan /\ tasks' = tasks  BY <1>8 DEF vars, request
  <2> QED BY <1>2, <2>1 DEF DaysInv
<1> QED BY <1>3, <1>4, <1>5, <1>6, <1>7, <1>8 DEF Next

\* The resolver finds, of the phrases of the plans, the days they mean.
ResolverAgrees ==
  \A p \in Plans : \A raw \in ToSet(p.tasks) : \A new \in BOOLEAN :
    \A x \in {raw.text, raw.date, raw.inner} : Usable(p, x) => Meant(x, new) = Meaning(x, new)

\* What is asked for of a clear task is what its phrase means.
LEMMA DaysOfClear ==
  ASSUME plan \in Plans, ResolverAgrees,
         NEW raw \in ToSet(plan.tasks), Clear(raw), NEW new \in BOOLEAN
  PROVE  Days(raw, new) = IF Canonical(plan, raw) = <<>> THEN {}
                          ELSE Meaning(Canonical(plan, raw), new)
<1> DEFINE c == Canonical(plan, raw)
<1>1. /\ c = <<>> => Said(raw) = {}
      /\ c # <<>> => c \in Said(raw) \/ (Said(raw) = {} /\ Usable(plan, raw.later))
  BY CanonicalSaid DEF Said
<1> HIDE DEF c
<1>2. CASE c = <<>>
  <2>1. Said(raw) = {}  BY <1>1, <1>2
  <2> QED BY <1>2, <2>1 DEF Days, c
<1>3. CASE c # <<>>
  <2>1. Said(raw) = {c}  BY <1>1, <1>3 DEF Clear
  <2>2. Meant(c, new) = Meaning(c, new)
    <3>1. c \in {raw.text, raw.date, raw.inner} /\ Usable(plan, c)  BY <2>1 DEF Said
    <3> QED BY <3>1 DEF ResolverAgrees
  <2>3. Days(raw, new) = Meant(c, new)  BY <2>1 DEF Days
  <2> QED BY <1>3, <2>2, <2>3 DEF c
<1> QED BY <1>2, <1>3

\* So a span is looked up as often as it is asked for.
LEMMA DaysFollow ==
  ASSUME ResolverAgrees, DaysInv
  PROVE  DaysAreMeant
<1> SUFFICES ASSUME stage \in {"inherit", "validate"},
                    \A raw \in ToSet(plan.tasks) : LookedUp(raw) \/ Added(raw) => Clear(raw)
             PROVE  /\ \A s : Cardinality(LookingAt(s)) = Cardinality(AskedFor(s))
                    /\ \A t \in ToSet(tasks) : IsCal(t, {"create"}) /\ t.span # NoSpan =>
                         \E raw \in ToSet(plan.tasks) :
                           Added(raw) /\ OnFirstDay(t.span, Days(raw, TRUE))
  BY DEF DaysAreMeant
<1> DEFINE ts == Normalized(plan)
<1>1. plan \in Plans /\ AreTasks(tasks)  BY DEF DaysInv, PlanInv
<1>2. PICK m : Grown(m, tasks, ts)  BY DEF DaysInv
<1>3. PICK k : Stems(k, ts, plan)  BY <1>1, NormalizedReads
<1> HIDE DEF ts
<1>4. ASSUME NEW a \in DOMAIN plan.tasks, LookedUp(plan.tasks[a])
      PROVE  Days(plan.tasks[a], FALSE) = IF Canonical(plan, plan.tasks[a]) = <<>> THEN {}
                                          ELSE Meaning(Canonical(plan, plan.tasks[a]), FALSE)
  <2>1. plan.tasks[a] \in ToSet(plan.tasks)  BY DEF ToSet
  <2> QED BY <1>1, <1>4, <2>1, DaysOfClear
<1>5. ASSUME NEW s PROVE Cardinality(LookingAt(s)) = Cardinality(AskedFor(s))
  <2> DEFINE L == LookingAt(s)
             A == AskedFor(s)
             f == [i \in L |-> k[m[i]]]
  <2>1. ASSUME NEW i \in L
        PROVE  /\ i \in DOMAIN tasks /\ Looking(tasks[i]) /\ tasks[i].span = s
               /\ m[i] \in DOMAIN ts /\ Reading(ts[m[i]])
               /\ f[i] = k[m[i]] /\ f[i] \in A
    <3>1. i \in DOMAIN tasks /\ Looking(tasks[i]) /\ tasks[i].span = s  BY DEF LookingAt
    <3>2. /\ m[i] \in DOMAIN ts /\ Reading(ts[m[i]]) /\ ts[m[i]].text # <<>>
          /\ s \in Meaning(ts[m[i]].text, FALSE)
      BY <1>2, <3>1 DEF Grown
    <3>3. /\ k[m[i]] \in DOMAIN plan.tasks /\ LookedUp(plan.tasks[k[m[i]]])
          /\ ts[m[i]].text = Canonical(plan, plan.tasks[k[m[i]]])
      BY <1>3, <3>2 DEF Stems
    <3>4. s \in Days(plan.tasks[k[m[i]]], FALSE)  BY <1>4, <3>2, <3>3
    <3> QED BY <3>1, <3>2, <3>3, <3>4 DEF AskedFor
  <2>2. ASSUME NEW i \in L, NEW j \in L, f[i] = f[j] PROVE i = j
    <3>1. m[i] = m[j]  BY <1>3, <2>1, <2>2 DEF Stems
    <3> QED BY <1>2, <2>1, <3>1 DEF Grown
  <2>3. ASSUME NEW a \in A PROVE \E i \in L : f[i] = a
    <3>1. a \in DOMAIN plan.tasks /\ LookedUp(plan.tasks[a]) /\ s \in Days(plan.tasks[a], FALSE)
      BY DEF AskedFor
    <3>2. PICK b \in DOMAIN ts : Reading(ts[b]) /\ k[b] = a  BY <1>3, <3>1 DEF Stems
    <3>3. ts[b].text = Canonical(plan, plan.tasks[a])  BY <1>3, <3>2 DEF Stems
    <3>4. ts[b].text # <<>> /\ s \in Meaning(ts[b].text, FALSE)  BY <1>4, <3>1, <3>3
    <3>5. PICK i \in DOMAIN tasks : Looking(tasks[i]) /\ tasks[i].span = s /\ m[i] = b
      BY <1>2, <3>2, <3>4 DEF Grown
    <3>6. i \in L  BY <3>5 DEF LookingAt
    <3> QED BY <2>1, <3>2, <3>5, <3>6
  <2>4. IsFiniteSet(L)
    <3>1. DOMAIN tasks = 1 .. Len(tasks) /\ Len(tasks) \in Nat  BY <1>1, TaskAt
    <3>2. IsFiniteSet(DOMAIN tasks)  BY <3>1, FS_Interval
    <3>3. L \subseteq DOMAIN tasks  BY DEF LookingAt
    <3> QED BY <3>2, <3>3, FS_Subset
  <2>5. f \in [L -> A]  BY <2>1
  <2> HIDE DEF f, L, A
  <2>6. f \in Bijection(L, A)
    BY <2>2, <2>3, <2>5 DEF Bijection, Injection, Surjection, IsInjective
  <2>7. Cardinality(A) = Cardinality(L)
    BY <2>4, <2>6, FS_Bijection DEF ExistsBijection
  <2> QED BY <2>7 DEF L, A
<1>6. ASSUME NEW t \in ToSet(tasks), IsCal(t, {"create"}), t.span # NoSpan
      PROVE  \E raw \in ToSet(plan.tasks) :
               Added(raw) /\ OnFirstDay(t.span, Days(raw, TRUE))
  <2>1. PICK i \in DOMAIN tasks : t = tasks[i]  BY DEF ToSet
  <2>2. PICK u \in ToSet(ts) : /\ Adding(u) /\ u.text # <<>>
                               /\ OnFirstDay(t.span, Meaning(u.text, TRUE))
    BY <1>2, <1>6, <2>1 DEF Grown, Adding
  <2>3. PICK raw \in ToSet(plan.tasks) : Added(raw) /\ u.text = Canonical(plan, raw)
    BY <1>3, <2>2 DEF Stems, ToSet
  <2>4. Days(raw, TRUE) = Meaning(u.text, TRUE)  BY <1>1, <2>2, <2>3, DaysOfClear
  <2> QED BY <2>2, <2>3, <2>4
<1> QED BY <1>5, <1>6

\* DaysAreMeant: for phrases the resolver is right about, normalisation and the
\* split lose no span, look none up twice, and take none from the planner.
THEOREM DaysAreLookedUp ==
  ASSUME ResolverAgrees
  PROVE  Spec => []DaysAreMeant
<1>1. DaysInv => DaysAreMeant  BY DaysFollow
<1> QED BY <1>1, InitDays, NextDays, PTL DEF Spec
=============================================================================
