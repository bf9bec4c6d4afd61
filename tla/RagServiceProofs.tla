--------------------------- MODULE RagServiceProofs ---------------------------
(***************************************************************************)
(* For every plan, knowledge base, ranking and judgment, and however the   *)
(* threads of a batch are interleaved: what a result cites was found for   *)
(* that very task in a base the role reads; what the executor is told, what*)
(* counts as completed and what the answer gate accepts are the same       *)
(* tasks; and with the cache on every task handed over has a result.       *)
(*                                                                         *)
(* The argument: a search's documents reach a task only through its own    *)
(* query key or its own retry, and both also enter what was found for it;  *)
(* with the cache on the keys ever run are exactly the keys cached, so a   *)
(* query that is not run again is answered from the cache.                 *)
(***************************************************************************)
EXTENDS RagService, SequenceTheorems, WellFoundedInduction, TLAPS

-----------------------------------------------------------------------------
(* Tasks, positions and documents.                                         *)

LEMMA LeastElement ==
  ASSUME NEW T \in SUBSET Nat, T # {}
  PROVE  \E m \in T : \A k \in T : m <= k
<1>1. IsWellFoundedOn(OpToRel(<, Nat), Nat)
  BY NatLessThanWellFounded
<1>2. PICK m \in T : \A k \in T : ~ (<<k, m>> \in OpToRel(<, Nat))
  BY <1>1, WFMin
<1>3. \A k \in T : ~ (k < m)
  BY <1>2 DEF OpToRel
<1> QED BY <1>3

LEMMA TaskQueries ==
  ASSUME NEW id \in Ids
  PROVE  QueryOf[id] \in Queries /\ Key(QueryOf[id]) \in Keys
<1>1. PICK i \in DOMAIN Plan : Plan[i].id = id
  BY DEF Ids
<1> DEFINE T == [id : Ids, query : Queries]
<1>2. Plan[i] \in ToSet(Plan) /\ \A t \in ToSet(Plan) : t.query \in Queries
  <2>1. \A t \in T : t.query \in Queries
    OBVIOUS
  <2>2. Plan \in Seq(T)
    BY PlanAssumption
  <2> HIDE DEF T
  <2>3. DOMAIN Plan = 1 .. Len(Plan) /\ \A j \in 1 .. Len(Plan) : Plan[j] \in T
    BY <2>2
  <2> QED BY <2>1, <2>3 DEF ToSet
<1>3. QueryOf[id] = (CHOOSE t \in ToSet(Plan) : t.id = id).query
  BY DEF QueryOf
<1>4. (CHOOSE t \in ToSet(Plan) : t.id = id) \in ToSet(Plan)
  BY <1>1, <1>2
<1> QED BY <1>2, <1>3, <1>4 DEF Keys

LEMMA Positions ==
  ASSUME NEW id \in Ids
  PROVE  Position(id) \in DOMAIN Plan /\ Plan[Position(id)].id = id /\ Position(id) \in Nat
BY PlanAssumption DEF Position, Ids

\* Of any tasks one comes last in the plan.
LEMMA LastOne ==
  ASSUME NEW ids \in SUBSET Ids, ids # {}
  PROVE  \E id \in ids : \A x \in ids : Position(x) <= Position(id)
<1> DEFINE T == {Len(Plan) - Position(x) : x \in ids}
<1>1. \A x \in ids : Position(x) \in 1 .. Len(Plan) /\ Len(Plan) \in Nat
  BY Positions, PlanAssumption
<1>2. T \in SUBSET Nat /\ T # {}
  BY <1>1
<1>3. PICK m \in T : \A k \in T : m <= k
  <2> HIDE DEF T
  <2> QED BY <1>2, LeastElement
<1>4. PICK id \in ids : m = Len(Plan) - Position(id)
  OBVIOUS
<1>5. \A x \in ids : Len(Plan) - Position(id) <= Len(Plan) - Position(x)
  BY <1>3, <1>4
<1> QED BY <1>1, <1>5

\* What a search returns, and what may be cited of it.
Docs         == {d \in Seq(Chunks) : Len(d) <= TopK}
Readable(cs) == UsedKbs # {} => \A c \in cs : KbOf[c] \in UsedKbs

LEMMA DocsChunks == ASSUME NEW d \in Docs PROVE ToSet(d) \subseteq Chunks
<1>1. \A i \in DOMAIN d : d[i] \in Chunks
  BY DEF Docs
<1> QED BY <1>1 DEF ToSet

LEMMA FoundDocs ==
  ASSUME NEW kbs, NEW d \in Found(kbs)
  PROVE  /\ d \in Docs /\ ToSet(d) \subseteq Chunks
         /\ kbs \subseteq UsedKbs => Readable(ToSet(d))
<1> DEFINE inKbs == {c \in Chunks : KbOf[c] \in kbs}
<1>1. PICK n \in 0 .. TopK : d \in [1 .. n -> inKbs]
  BY DEF Found
<1>2. n \in Nat /\ n <= TopK /\ d \in Seq(Chunks) /\ Len(d) = n
  BY <1>1, ShownAssumption
<1>3. \A i \in DOMAIN d : d[i] \in Chunks /\ KbOf[d[i]] \in kbs
  BY <1>1
<1> QED BY <1>2, <1>3 DEF Docs, Readable, ToSet

LEMMA ScopeReadable ==
  ASSUME NEW targets \in ValidTargets
  PROVE  UsedKbs # {} => Scope(targets) \subseteq UsedKbs
BY DEF ValidTargets, Scope

\* The chunks of two searches are those of the one and of the other.
LEMMA ConcatChunks ==
  ASSUME NEW d \in Seq(Chunks), NEW e \in Seq(Chunks)
  PROVE  /\ d \o e \in Seq(Chunks) /\ Len(d \o e) = Len(d) + Len(e)
         /\ ToSet(d \o e) = ToSet(d) \cup ToSet(e)
<1>1. /\ d \o e \in Seq(Chunks) /\ Len(d \o e) = Len(d) + Len(e)
      /\ \A i \in 1 .. Len(d) + Len(e) :
           (d \o e)[i] = IF i <= Len(d) THEN d[i] ELSE e[i - Len(d)]
  OBVIOUS
<1>2. /\ DOMAIN (d \o e) = 1 .. Len(d) + Len(e) /\ DOMAIN d = 1 .. Len(d)
      /\ DOMAIN e = 1 .. Len(e) /\ Len(d) \in Nat /\ Len(e) \in Nat
  BY <1>1
<1> DEFINE both == d \o e
<1>3. ASSUME NEW i \in 1 .. Len(d) + Len(e) PROVE both[i] \in ToSet(d) \cup ToSet(e)
  <2>1. CASE i <= Len(d)
    BY <2>1, <1>1, <1>2 DEF ToSet
  <2>2. CASE ~(i <= Len(d))
    <3>1. i - Len(d) \in 1 .. Len(e) /\ both[i] = e[i - Len(d)]
      BY <2>2, <1>1, <1>2
    <3> QED BY <3>1, <1>2 DEF ToSet
  <2> QED BY <2>1, <2>2
<1>4. ASSUME NEW i \in 1 .. Len(d) PROVE d[i] \in ToSet(both)
  <2>1. i \in 1 .. Len(d) + Len(e) /\ both[i] = d[i]
    BY <1>1, <1>2
  <2> QED BY <2>1, <1>2 DEF ToSet
<1>5. ASSUME NEW i \in 1 .. Len(e) PROVE e[i] \in ToSet(both)
  <2>1. Len(d) + i \in 1 .. Len(d) + Len(e) /\ both[Len(d) + i] = e[i]
    BY <1>1, <1>2
  <2> QED BY <2>1, <1>2 DEF ToSet
<1> HIDE DEF both
<1> QED BY <1>1, <1>2, <1>3, <1>4, <1>5 DEF ToSet, both

\* What follows the first search's documents.
LEMMA TailDocs ==
  ASSUME NEW d \in Seq(Chunks), NEW n \in Nat, Len(d) <= n + TopK
  PROVE  LET rest == SubSeq(d, n + 1, Len(d))
         IN  rest \in Docs /\ ToSet(rest) \subseteq ToSet(d)
<1> DEFINE rest == SubSeq(d, n + 1, Len(d))
<1>1. /\ rest \in Seq(Chunks)
      /\ Len(rest) = IF n + 1 <= Len(d) THEN Len(d) - n ELSE 0
      /\ \A i \in 1 .. Len(rest) : rest[i] = d[n + i] /\ n + i \in 1 .. Len(d)
  OBVIOUS
<1>2. TopK \in Nat /\ Len(d) \in Nat
  BY ShownAssumption
<1> HIDE DEF rest
<1>3. Len(rest) <= TopK
  BY <1>1, <1>2
<1> QED BY <1>1, <1>3 DEF Docs, ToSet, rest

-----------------------------------------------------------------------------
(* The inductive invariant.                                                *)

Stages == {"idle", "retrieve", "process", "raised"}
Points == {"judge", "reflect", "retry", "done"}
Works  == [at : Points, runs : Seq(Keys), docs : Seq(Chunks), answerable : BOOLEAN,
           supporting : SUBSET Chunks, related : SUBSET Chunks, targets : SUBSET Kbs]

\* The request's own state, and what has been searched so far.
Typed ==
  /\ caching \in BOOLEAN /\ permitted \in BOOLEAN /\ stage \in Stages
  /\ pending \subseteq Ids /\ done \subseteq Ids
  /\ DOMAIN replies \subseteq Ids /\ DOMAIN results \subseteq DOMAIN replies
  /\ pending \cap DOMAIN replies = {}
  /\ stage = "idle" => pending = {}
  /\ seen \in [Ids -> SUBSET Chunks]
  /\ executed \subseteq Keys
  /\ \A id \in DOMAIN replies : replies[id] \in {"success", "empty", "blocked"}

Searched ==
  /\ byKey = [k \in DOMAIN byKey |-> byKey[k]] /\ DOMAIN byKey \subseteq Keys
  /\ \A k \in DOMAIN byKey : byKey[k] \in Docs /\ Readable(ToSet(byKey[k]))
  /\ DOMAIN cache \subseteq executed
  /\ caching => executed \subseteq DOMAIN cache
  /\ \A k \in DOMAIN cache : cache[k] \in Docs /\ Readable(ToSet(cache[k]))

\* A task's first search is the one made for its key; its retry adds TopK.
Longest(w) == IF Len(w.runs) = 2 /\ w.at # "retry" THEN TopK ELSE 0
Begins(id, w) ==
  /\ Len(w.runs) \in 1 .. 2 /\ w.runs[1] = Key(QueryOf[id]) /\ w.runs[1] \in DOMAIN byKey
  /\ w.at = "reflect" => Len(w.runs) = 1
  /\ w.at = "retry" => Len(w.runs) = 2
  /\ Len(w.docs) <= Len(byKey[w.runs[1]]) + Longest(w)
Cites(id, w) ==
  /\ ToSet(w.docs) \cup w.supporting \cup w.related \subseteq seen[id]
  /\ Readable(ToSet(w.docs) \cup w.supporting \cup w.related)
  /\ UsedKbs # {} => Scope(w.targets) \subseteq UsedKbs
  /\ w.answerable = (w.supporting # {})
Working ==
  /\ work = [id \in DOMAIN work |-> work[id]] /\ DOMAIN work \subseteq pending
  /\ DOMAIN work # {} => stage = "process"
  /\ \A id \in DOMAIN work :
       work[id] \in Works /\ Begins(id, work[id]) /\ Cites(id, work[id])

\* Whatever was found under a task's key in this batch was found for the task.
FoundFor ==
  \A id \in pending : Key(QueryOf[id]) \in DOMAIN byKey =>
    ToSet(byKey[Key(QueryOf[id])]) \subseteq seen[id]

\* With the cache on no task of a batch is left without documents.
Served ==
  /\ stage = "retrieve" =>
       \A id \in pending : Cached(Key(QueryOf[id])) => Key(QueryOf[id]) \in DOMAIN byKey
  /\ stage = "process" /\ caching => pending \subseteq DOMAIN work

\* What was told about the tasks of the batches that came back.
Told ==
  /\ done = {id \in DOMAIN results : GateSupports(results[id])}
  /\ done = {id \in DOMAIN replies : replies[id] = "success"}
  /\ caching => {id \in DOMAIN replies : replies[id] # "blocked"} \subseteq DOMAIN results
  /\ OwnEvidence

RagInv == Typed /\ Searched /\ Working /\ FoundFor /\ Served /\ Told

LEMMA InitRag == Init => RagInv
<1> SUFFICES ASSUME Init PROVE RagInv
  OBVIOUS
<1>1. Typed
  BY DEF Init, Typed, Stages
<1>2. Searched /\ Working /\ FoundFor /\ Served
  BY DEF Init, Searched, Working, FoundFor, Served
<1>3. Told
  BY DEF Init, Told, OwnEvidence
<1> QED BY <1>1, <1>2, <1>3 DEF RagInv

-----------------------------------------------------------------------------
(* The steps of one task's thread.                                         *)

LEMMA StutterRag == ASSUME RagInv, UNCHANGED vars PROVE RagInv'
<1>1. Typed' /\ Searched'
  BY DEF RagInv, Typed, Searched, vars, fixed, kept
<1>2. Working' /\ FoundFor'
  BY DEF RagInv, Working, Begins, Cites, FoundFor, vars, fixed, kept
<1>3. Served' /\ Told'
  BY DEF RagInv, Served, Cached, Told, OwnEvidence, GateSupports, vars, fixed, kept
<1> QED BY <1>1, <1>2, <1>3 DEF RagInv

\* A thread's step changes its own work, and at most adds to what was found.
LEMMA WorkStep ==
  ASSUME RagInv, stage = "process", NEW id \in DOMAIN work, NEW w \in Works,
         Begins(id, w), SetWork(id, w),
         UNCHANGED <<fixed, stage, pending, byKey, kept, replies>>,
         seen' \in [Ids -> SUBSET Chunks], \A i \in Ids : seen[i] \subseteq seen'[i],
         ToSet(w.docs) \cup w.supporting \cup w.related \subseteq seen'[id],
         Readable(ToSet(w.docs) \cup w.supporting \cup w.related),
         UsedKbs # {} => Scope(w.targets) \subseteq UsedKbs,
         w.answerable = (w.supporting # {})
  PROVE  RagInv'
<1>1. /\ work' = [i \in DOMAIN work |-> IF i = id THEN w ELSE work[i]]
      /\ DOMAIN work' = DOMAIN work
  BY DEF SetWork, RagInv, Working
<1>2. DOMAIN work \subseteq pending /\ pending \subseteq Ids /\ pending' = pending
  BY DEF RagInv, Working, Typed
<1>3. Typed' /\ Searched'
  BY DEF RagInv, Typed, Searched, fixed, kept
<1>4. Working'
  <2>1. ASSUME NEW i \in DOMAIN work'
        PROVE  (work[i] \in Works /\ Begins(i, work[i]) /\ Cites(i, work[i]))'
    <3>1. CASE i = id
      BY <3>1, <1>1 DEF Begins, Cites
    <3>2. CASE i # id
      <4>1. work'[i] = work[i] /\ i \in DOMAIN work
        BY <3>2, <1>1, <2>1
      <4>2. work[i] \in Works /\ Begins(i, work[i]) /\ Cites(i, work[i])
        BY <4>1 DEF RagInv, Working
      <4>3. seen[i] \subseteq seen'[i]
        BY <4>1, <1>2
      <4> QED BY <4>1, <4>2, <4>3 DEF Begins, Cites
    <3> QED BY <3>1, <3>2
  <2> QED BY <2>1, <1>1, <1>2 DEF RagInv, Working
<1>5. FoundFor'
  BY <1>2 DEF RagInv, FoundFor
<1>6. Served'
  BY <1>1 DEF RagInv, Served, Cached, fixed, kept
<1>7. Told'
  <2>1. DOMAIN results \subseteq Ids
    BY DEF RagInv, Typed
  <2> QED BY <2>1 DEF RagInv, Told, OwnEvidence, GateSupports, fixed, kept
<1> QED BY <1>3, <1>4, <1>5, <1>6, <1>7 DEF RagInv

LEMMA JudgmentShape ==
  ASSUME NEW docs, NEW j \in Judgments(docs)
  PROVE  /\ j.answerable \in BOOLEAN /\ j.answerable = (j.supporting # {})
         /\ j.supporting \subseteq DOMAIN docs /\ j.related \subseteq DOMAIN docs
<1>1. CASE j = NoEvidence
  BY <1>1 DEF NoEvidence
<1>2. CASE j # NoEvidence
  <2>1. PICK answerable \in BOOLEAN, low \in BOOLEAN,
             supporting \in SUBSET ShownTo(docs), related \in SUBSET ShownTo(docs) :
               j = Normalised(answerable, low, supporting, related)
    BY <1>2 DEF Judgments
  <2>2. supporting \subseteq DOMAIN docs /\ related \subseteq DOMAIN docs
    BY DEF ShownTo
  <2> QED BY <2>1, <2>2 DEF Normalised
<1> QED BY <1>1, <1>2

LEMMA JudgeStep == ASSUME RagInv, NEW id \in Ids, Judge(id) PROVE RagInv'
<1>1. id \in DOMAIN work /\ stage = "process" /\ work[id].at = "judge"
  BY DEF Judge
<1>2. PICK j \in Judgments(work[id].docs) :
        SetWork(id, [Judged(work[id], j) EXCEPT
                      !.at = IF j.answerable \/ Len(work[id].runs) = 2
                             THEN "done" ELSE "reflect"])
  BY DEF Judge
<1> DEFINE w == work[id]
<1>3. w \in Works /\ Begins(id, w) /\ Cites(id, w)
  BY <1>1 DEF RagInv, Working
<1>4. /\ j.answerable \in BOOLEAN /\ j.answerable = (j.supporting # {})
      /\ j.supporting \subseteq DOMAIN w.docs /\ j.related \subseteq DOMAIN w.docs
  BY JudgmentShape
<1>5. /\ ChunksAt(w.docs, j.supporting) \subseteq ToSet(w.docs)
      /\ ChunksAt(w.docs, j.related) \subseteq ToSet(w.docs)
      /\ (ChunksAt(w.docs, j.supporting) # {}) = (j.supporting # {})
  BY <1>4 DEF ChunksAt, ToSet
<1>6. w.docs \in Seq(Chunks) /\ ToSet(w.docs) \subseteq Chunks
  <2>1. w.docs \in Seq(Chunks)
    BY <1>3 DEF Works
  <2> QED BY <2>1 DEF ToSet
<1> DEFINE at == IF j.answerable \/ Len(w.runs) = 2 THEN "done" ELSE "reflect"
           supporting == ChunksAt(w.docs, j.supporting)
           related == IF j.answerable THEN {} ELSE w.related \cup ChunksAt(w.docs, j.related)
           next == [[w EXCEPT !.answerable = j.answerable, !.supporting = supporting,
                              !.related = related] EXCEPT !.at = at]
<1>7. SetWork(id, next)
  BY <1>2 DEF Judged
<1>8. at \in Points /\ supporting \in SUBSET Chunks /\ related \in SUBSET Chunks
  BY <1>3, <1>5, <1>6 DEF Points, Works
<1>9. /\ next \in Works
      /\ next.at = at /\ next.answerable = j.answerable
      /\ next.supporting = supporting /\ next.related = related
      /\ next.runs = w.runs /\ next.docs = w.docs /\ next.targets = w.targets
  <2> HIDE DEF at, supporting, related, w
  <2> QED BY <1>3, <1>4, <1>8 DEF Works
<1> HIDE DEF next
<1>10. Begins(id, next)
  BY <1>1, <1>3, <1>9 DEF Begins, Longest
<1>11. /\ ToSet(next.docs) \cup next.supporting \cup next.related \subseteq seen[id]
       /\ Readable(ToSet(next.docs) \cup next.supporting \cup next.related)
       /\ UsedKbs # {} => Scope(next.targets) \subseteq UsedKbs
       /\ next.answerable = (next.supporting # {})
  BY <1>3, <1>4, <1>5, <1>9 DEF Cites, Readable
<1>12. /\ UNCHANGED <<fixed, stage, pending, byKey, kept, replies>> /\ seen' = seen
       /\ seen \in [Ids -> SUBSET Chunks] /\ \A i \in Ids : seen[i] \subseteq seen'[i]
  BY DEF Judge, RagInv, Typed
<1> QED BY <1>1, <1>7, <1>9, <1>10, <1>11, <1>12, WorkStep

LEMMA SecondAsked ==
  ASSUME NEW S, NEW asked \in Seq(S), NEW k \in S, Len(asked) = 1
  PROVE  /\ Append(asked, k) \in Seq(S) /\ Len(Append(asked, k)) = 2
         /\ Append(asked, k)[1] = asked[1]
<1>1. 1 \in 1 .. Len(asked)
  OBVIOUS
<1>2. Append(asked, k)[1] = asked[1]
  BY <1>1, AppendProperties
<1>3. Append(asked, k) \in Seq(S) /\ Len(Append(asked, k)) = Len(asked) + 1
  BY AppendProperties
<1> QED BY <1>2, <1>3

LEMMA ReflectStep == ASSUME RagInv, NEW id \in Ids, Reflect(id) PROVE RagInv'
<1> DEFINE w == work[id]
<1>1. id \in DOMAIN work /\ stage = "process" /\ w.at = "reflect"
  BY DEF Reflect
<1>2. w \in Works /\ Begins(id, w) /\ Cites(id, w)
  BY <1>1 DEF RagInv, Working
<1>3. w = [at |-> w.at, runs |-> w.runs, docs |-> w.docs, answerable |-> w.answerable,
           supporting |-> w.supporting, related |-> w.related, targets |-> w.targets]
  BY <1>2 DEF Works
<1>4. /\ UNCHANGED <<fixed, stage, pending, byKey, kept, replies>> /\ seen' = seen
      /\ seen \in [Ids -> SUBSET Chunks]
  BY DEF Reflect, RagInv, Typed
<1>5. ASSUME NEW next \in Works, Begins(id, next), SetWork(id, next),
             next.docs = w.docs, next.supporting = w.supporting, next.related = w.related,
             next.answerable = w.answerable,
             UsedKbs # {} => Scope(next.targets) \subseteq UsedKbs
      PROVE  RagInv'
  <2>1. /\ ToSet(next.docs) \cup next.supporting \cup next.related \subseteq seen[id]
        /\ Readable(ToSet(next.docs) \cup next.supporting \cup next.related)
        /\ next.answerable = (next.supporting # {})
    BY <1>2, <1>5 DEF Cites
  <2> HIDE DEF w
  <2> QED BY <1>1, <1>4, <1>5, <2>1, WorkStep
<1>6. CASE SetWork(id, [work[id] EXCEPT !.at = "done"])
  <2> DEFINE next == [w EXCEPT !.at = "done"]
  <2>1. next = [at |-> "done", runs |-> w.runs, docs |-> w.docs,
                answerable |-> w.answerable, supporting |-> w.supporting,
                related |-> w.related, targets |-> w.targets]
    BY <1>3
  <2>2. SetWork(id, next)
    BY <1>6
  <2> HIDE DEF next
  <2>3. next \in Works
    BY <1>2, <2>1 DEF Works, Points
  <2>4. Begins(id, next)
    BY <1>1, <1>2, <2>1 DEF Begins, Longest
  <2>5. UsedKbs # {} => Scope(next.targets) \subseteq UsedKbs
    BY <1>2, <2>1 DEF Cites
  <2> QED BY <1>5, <2>1, <2>2, <2>3, <2>4, <2>5
<1>7. ASSUME NEW q \in Queries, NEW targets \in ValidTargets,
             SetWork(id, [work[id] EXCEPT !.at = "retry", !.targets = targets,
                                          !.runs = Append(@, Key(q))])
      PROVE  RagInv'
  <2> DEFINE both == Append(w.runs, Key(q))
             next == [w EXCEPT !.at = "retry", !.targets = targets, !.runs = both]
  <2>1. SetWork(id, next)
    BY <1>7
  <2>2. Key(q) \in Keys /\ targets \subseteq Kbs
    BY KbAssumption DEF Keys, ValidTargets
  <2>3. w.runs \in Seq(Keys) /\ Len(w.runs) = 1
    BY <1>1, <1>2 DEF Works, Begins
  <2>4. both \in Seq(Keys) /\ Len(both) = 2 /\ both[1] = w.runs[1]
    BY <2>2, <2>3, SecondAsked
  <2> HIDE DEF both
  <2>5. /\ next \in Works
        /\ next.at = "retry" /\ next.runs = both /\ next.targets = targets
        /\ next.docs = w.docs /\ next.answerable = w.answerable
        /\ next.supporting = w.supporting /\ next.related = w.related
    <3> HIDE DEF w
    <3> QED BY <1>2, <2>2, <2>4 DEF Works, Points
  <2> HIDE DEF next
  <2>7. Begins(id, next)
    <3>1. Longest(w) = 0 /\ Longest(next) = 0
      BY <2>3, <2>5 DEF Longest
    <3> QED BY <1>2, <2>4, <2>5, <3>1 DEF Begins
  <2>8. UsedKbs # {} => Scope(next.targets) \subseteq UsedKbs
    BY <2>5, ScopeReadable
  <2> QED BY <1>5, <2>1, <2>5, <2>7, <2>8
<1> QED BY <1>6, <1>7 DEF Reflect

LEMMA RetryStep == ASSUME RagInv, NEW id \in Ids, Retry(id) PROVE RagInv'
<1> DEFINE w == work[id]
<1>1. id \in DOMAIN work /\ stage = "process" /\ w.at = "retry"
  BY DEF Retry
<1>2. PICK docs \in Found(Scope(w.targets)) :
       /\ SetWork(id, [w EXCEPT !.at = "judge", !.docs = @ \o docs, !.targets = {}])
       /\ seen' = [seen EXCEPT ![id] = @ \cup ToSet(docs)]
  BY DEF Retry
<1>3. w \in Works /\ Begins(id, w) /\ Cites(id, w)
  BY <1>1 DEF RagInv, Working
<1>4. w = [at |-> w.at, runs |-> w.runs, docs |-> w.docs, answerable |-> w.answerable,
           supporting |-> w.supporting, related |-> w.related, targets |-> w.targets]
  BY <1>3 DEF Works
<1>5. /\ UNCHANGED <<fixed, stage, pending, byKey, kept, replies>>
      /\ seen \in [Ids -> SUBSET Chunks]
  BY DEF Retry, RagInv, Typed
<1>6. docs \in Docs /\ ToSet(docs) \subseteq Chunks /\ Readable(ToSet(docs))
  BY <1>3, FoundDocs DEF Cites, Readable
<1>7. w.docs \in Seq(Chunks) /\ docs \in Seq(Chunks) /\ Len(docs) <= TopK
  BY <1>3, <1>6 DEF Works, Docs
<1> DEFINE both == w.docs \o docs
           next == [w EXCEPT !.at = "judge", !.docs = both, !.targets = {}]
<1>9. SetWork(id, next)
  BY <1>2
<1>10. /\ both \in Seq(Chunks) /\ Len(both) = Len(w.docs) + Len(docs)
       /\ ToSet(both) = ToSet(w.docs) \cup ToSet(docs)
  BY <1>7, ConcatChunks
<1> HIDE DEF both
<1>8. /\ next \in Works
      /\ next.at = "judge" /\ next.docs = both /\ next.targets = {}
      /\ next.runs = w.runs /\ next.answerable = w.answerable
      /\ next.supporting = w.supporting /\ next.related = w.related
  <2> HIDE DEF w
  <2> QED BY <1>3, <1>10 DEF Works, Points
<1> HIDE DEF next
<1>12. Begins(id, next)
  <2>1. Longest(w) = 0 /\ Longest(next) = TopK /\ Len(w.runs) = 2
    BY <1>1, <1>3, <1>8 DEF Longest, Begins
  <2>2. /\ w.runs[1] \in DOMAIN byKey /\ byKey[w.runs[1]] \in Docs
        /\ Len(w.docs) <= Len(byKey[w.runs[1]]) + 0
    BY <1>3, <2>1 DEF Begins, RagInv, Searched
  <2>3. Len(byKey[w.runs[1]]) \in Nat /\ Len(w.docs) \in Nat /\ Len(docs) \in Nat /\ TopK \in Nat
    BY <1>7, <2>2, ShownAssumption DEF Docs
  <2>4. Len(next.docs) <= Len(byKey[w.runs[1]]) + TopK
    BY <1>7, <1>8, <1>10, <2>2, <2>3
  <2> QED BY <1>3, <1>8, <2>1, <2>4 DEF Begins
<1>13. /\ seen' \in [Ids -> SUBSET Chunks] /\ \A i \in Ids : seen[i] \subseteq seen'[i]
       /\ seen'[id] = seen[id] \cup ToSet(docs)
  BY <1>2, <1>5, <1>6
<1>14. /\ ToSet(next.docs) \cup next.supporting \cup next.related \subseteq seen'[id]
       /\ Readable(ToSet(next.docs) \cup next.supporting \cup next.related)
       /\ UsedKbs # {} => Scope(next.targets) \subseteq UsedKbs
       /\ next.answerable = (next.supporting # {})
  BY <1>3, <1>6, <1>8, <1>10, <1>13 DEF Cites, Readable, Scope
<1> QED BY <1>1, <1>5, <1>8, <1>9, <1>12, <1>13, <1>14, WorkStep

-----------------------------------------------------------------------------
(* The steps of a batch.                                                   *)

LEMMA NoWork == ASSUME RagInv, stage # "process" PROVE DOMAIN work = {}
BY DEF RagInv, Working

LEMMA BlockedStep ==
  ASSUME RagInv, stage = "idle", NEW ids \in SUBSET (Ids \ DOMAIN replies),
         replies' = [id \in DOMAIN replies \cup ids |->
                       IF id \in ids THEN "blocked" ELSE replies[id]],
         UNCHANGED <<pending, stage, byKey, seen, fixed, work, kept>>
  PROVE  RagInv'
<1>1. /\ DOMAIN replies' = DOMAIN replies \cup ids
      /\ \A id \in ids : replies'[id] = "blocked"
      /\ \A id \in DOMAIN replies : replies'[id] = replies[id]
  OBVIOUS
<1>2. pending = {}
  BY DEF RagInv, Typed
<1>3. Typed'
  BY <1>1, <1>2 DEF RagInv, Typed, fixed, kept
<1>4. Searched' /\ FoundFor' /\ Served'
  BY DEF RagInv, Searched, FoundFor, Served, Cached, fixed, kept
<1>5. Working'
  BY DEF RagInv, Working, Begins, Cites, fixed, kept
<1>6. Told'
  BY <1>1 DEF RagInv, Told, OwnEvidence, GateSupports, fixed, kept
<1> QED BY <1>3, <1>4, <1>5, <1>6 DEF RagInv

\* A batch starts with what the cache already holds for its queries.
LEMMA AdmittedStep ==
  ASSUME RagInv, stage = "idle", NEW ids \in SUBSET (Ids \ DOMAIN replies),
         pending' = ids, stage' = "retrieve",
         byKey' = [k \in {Key(QueryOf[id]) : id \in
                            {i \in ids : Cached(Key(QueryOf[i]))}} |-> cache[k]],
         seen' = [id \in Ids |->
                    IF id \in ids /\ Cached(Key(QueryOf[id]))
                    THEN seen[id] \cup ToSet(cache[Key(QueryOf[id])]) ELSE seen[id]],
         UNCHANGED <<replies, fixed, work, kept>>
  PROVE  RagInv'
<1>1. DOMAIN work = {}
  BY NoWork
<1>2. DOMAIN byKey' \subseteq DOMAIN cache /\ \A k \in DOMAIN byKey' : byKey'[k] = cache[k]
  BY DEF Cached
<1>3. \A k \in DOMAIN cache : ToSet(cache[k]) \subseteq Chunks
  BY DocsChunks DEF RagInv, Searched
<1>4. \A id \in ids : Key(QueryOf[id]) \in Keys
  BY TaskQueries
<1>5. /\ seen' \in [Ids -> SUBSET Chunks] /\ \A id \in Ids : seen[id] \subseteq seen'[id]
      /\ \A id \in ids : Cached(Key(QueryOf[id])) =>
           ToSet(cache[Key(QueryOf[id])]) \subseteq seen'[id]
  BY <1>3 DEF RagInv, Typed, Cached
<1>6. Typed'
  BY <1>5 DEF RagInv, Typed, Stages, fixed, kept
<1>7. Searched'
  BY <1>2, <1>4 DEF RagInv, Searched, fixed, kept
<1>8. Working'
  BY <1>1 DEF RagInv, Working
<1>9. FoundFor'
  <2> SUFFICES ASSUME NEW id \in ids, Key(QueryOf[id]) \in DOMAIN byKey'
               PROVE  ToSet(byKey'[Key(QueryOf[id])]) \subseteq seen'[id]
    BY DEF FoundFor
  <2>1. Cached(Key(QueryOf[id]))
    OBVIOUS
  <2> QED BY <2>1, <1>2, <1>5
<1>10. Served'
  BY DEF Served, Cached, fixed, kept
<1>11. Told'
  <2>1. DOMAIN results \subseteq Ids
    BY DEF RagInv, Typed
  <2> QED BY <1>5, <2>1 DEF RagInv, Told, OwnEvidence, GateSupports, fixed, kept
<1> QED BY <1>6, <1>7, <1>8, <1>9, <1>10, <1>11 DEF RagInv

LEMMA StartStep == ASSUME RagInv, Start PROVE RagInv'
<1>1. stage = "idle" /\ UNCHANGED <<fixed, work, kept>>
  BY DEF Start
<1>2. PICK ids \in SUBSET (Ids \ DOMAIN replies) \ {{}} :
       IF permitted
       THEN /\ pending' = ids /\ stage' = "retrieve"
            /\ byKey' = [k \in {Key(QueryOf[id]) : id \in
                                  {i \in ids : Cached(Key(QueryOf[i]))}}
                           |-> cache[k]]
            /\ seen' = [id \in Ids |->
                          IF id \in ids /\ Cached(Key(QueryOf[id]))
                          THEN seen[id] \cup ToSet(cache[Key(QueryOf[id])])
                          ELSE seen[id]]
            /\ UNCHANGED replies
       ELSE /\ replies' = [id \in DOMAIN replies \cup ids |->
                             IF id \in ids THEN "blocked" ELSE replies[id]]
            /\ UNCHANGED <<pending, stage, byKey, seen>>
  BY DEF Start
<1>3. CASE permitted
  BY <1>1, <1>2, <1>3, AdmittedStep
<1>4. CASE ~permitted
  BY <1>1, <1>2, <1>4, BlockedStep
<1> QED BY <1>3, <1>4

LEMMA RetrieveStep == ASSUME RagInv, NEW k \in Keys, Retrieve(k) PROVE RagInv'
<1>1. stage = "retrieve" /\ UNCHANGED <<fixed, stage, pending, work, kept, replies>>
  BY DEF Retrieve
<1>2. PICK docs \in Found(UsedKbs) :
       /\ byKey' = [x \in DOMAIN byKey \cup {k} |-> IF x = k THEN docs ELSE byKey[x]]
       /\ seen' = [id \in Ids |->
                     IF id \in pending /\ Key(QueryOf[id]) = k
                     THEN seen[id] \cup ToSet(docs) ELSE seen[id]]
  BY DEF Retrieve
<1>3. docs \in Docs /\ ToSet(docs) \subseteq Chunks /\ Readable(ToSet(docs))
  BY FoundDocs
<1>4. DOMAIN work = {}
  BY <1>1, NoWork
<1>5. pending \subseteq Ids /\ seen \in [Ids -> SUBSET Chunks]
  BY DEF RagInv, Typed
<1>6. /\ seen' \in [Ids -> SUBSET Chunks] /\ \A id \in Ids : seen[id] \subseteq seen'[id]
      /\ \A id \in pending : Key(QueryOf[id]) = k => ToSet(docs) \subseteq seen'[id]
  BY <1>2, <1>3, <1>5
<1>7. /\ DOMAIN byKey' = DOMAIN byKey \cup {k} /\ byKey'[k] = docs
      /\ \A x \in DOMAIN byKey \ {k} : byKey'[x] = byKey[x]
  BY <1>2
<1>8. Typed'
  BY <1>1, <1>6 DEF RagInv, Typed, fixed, kept
<1>9. Searched'
  BY <1>1, <1>2, <1>3, <1>7 DEF RagInv, Searched, fixed, kept
<1>10. Working'
  BY <1>1, <1>4 DEF RagInv, Working
<1>11. FoundFor'
  <2> SUFFICES ASSUME NEW id \in pending, Key(QueryOf[id]) \in DOMAIN byKey'
               PROVE  ToSet(byKey'[Key(QueryOf[id])]) \subseteq seen'[id]
    BY <1>1 DEF FoundFor
  <2>1. CASE Key(QueryOf[id]) = k
    BY <2>1, <1>6, <1>7
  <2>2. CASE Key(QueryOf[id]) # k
    <3>1. ToSet(byKey[Key(QueryOf[id])]) \subseteq seen[id]
      BY <2>2, <1>7 DEF RagInv, FoundFor
    <3> QED BY <2>2, <3>1, <1>5, <1>6, <1>7
  <2> QED BY <2>1, <2>2
<1>12. Served'
  BY <1>1, <1>7 DEF RagInv, Served, Cached, fixed, kept
<1>13. Told'
  <2>1. DOMAIN results \subseteq Ids
    BY DEF RagInv, Typed
  <2> QED BY <1>1, <1>6, <2>1 DEF RagInv, Told, OwnEvidence, GateSupports, fixed, kept
<1> QED BY <1>8, <1>9, <1>10, <1>11, <1>12, <1>13 DEF RagInv

LEMMA RaiseStep == ASSUME RagInv, Raise PROVE RagInv'
<1>1. /\ stage' = "raised" /\ work' = <<>>
      /\ UNCHANGED <<fixed, pending, byKey, kept, replies, seen>>
      /\ stage # "idle"
  BY DEF Raise
<1>2. Typed' /\ Searched'
  BY <1>1 DEF RagInv, Typed, Searched, Stages, fixed, kept
<1>3. Working' /\ FoundFor' /\ Served'
  BY <1>1 DEF RagInv, Working, FoundFor, Served
<1>4. Told'
  BY <1>1 DEF RagInv, Told, OwnEvidence, GateSupports, fixed, kept
<1> QED BY <1>2, <1>3, <1>4 DEF RagInv

\* With the cache on every task of the batch has documents to judge: its query
\* was cached, has just been retrieved, or was run before and so was cached.
LEMMA ForkStep == ASSUME RagInv, Fork PROVE RagInv'
<1>1. /\ stage = "retrieve" /\ ToRetrieve = {} /\ stage' = "process"
      /\ work' = [id \in {i \in pending : Answerable(i)} |-> Begun(id)]
      /\ UNCHANGED <<fixed, pending, byKey, kept, replies, seen>>
  BY DEF Fork
<1>2. pending \subseteq Ids
  BY DEF RagInv, Typed
<1>3. Typed' /\ Searched' /\ FoundFor'
  BY <1>1 DEF RagInv, Typed, Searched, FoundFor, Stages, fixed, kept
<1>4. Told'
  BY <1>1 DEF RagInv, Told, OwnEvidence, GateSupports, fixed, kept
<1>5. ASSUME NEW id \in pending, Answerable(id)
      PROVE  (Begun(id) \in Works /\ Begins(id, Begun(id)) /\ Cites(id, Begun(id)))
  <2> DEFINE k == Key(QueryOf[id])
             w == Begun(id)
  <2>1. k \in Keys /\ k \in DOMAIN byKey
    BY <1>2, <1>5, TaskQueries DEF Answerable
  <2>2. /\ byKey[k] \in Seq(Chunks) /\ Len(byKey[k]) \in Nat
        /\ Readable(ToSet(byKey[k])) /\ ToSet(byKey[k]) \subseteq seen[id]
    BY <2>1, <1>5 DEF RagInv, Searched, FoundFor, Docs
  <2>3. <<k>> \in Seq(Keys) /\ Len(<<k>>) = 1 /\ <<k>>[1] = k
    BY <2>1
  <2>4. /\ w.at = "judge" /\ w.runs = <<k>> /\ w.docs = byKey[k] /\ w.answerable = FALSE
        /\ w.supporting = {} /\ w.related = {} /\ w.targets = {}
    BY DEF Begun
  <2>5. w \in Works
    BY <2>2, <2>3 DEF Works, Points, Begun
  <2>6. Begins(id, w)
    <3> HIDE DEF k, w
    <3>1. Longest(w) = 0
      BY <2>3, <2>4 DEF Longest
    <3> QED BY <2>1, <2>2, <2>3, <2>4, <3>1 DEF Begins, k
  <2>7. Cites(id, w)
    <3> HIDE DEF k, w
    <3> QED BY <2>2, <2>4 DEF Cites, Readable, Scope
  <2> QED BY <2>5, <2>6, <2>7
<1>6. Working'
  <2>1. ASSUME NEW id \in DOMAIN work'
        PROVE  (work[id] \in Works /\ Begins(id, work[id]) /\ Cites(id, work[id]))'
    <3>1. id \in pending /\ Answerable(id) /\ work'[id] = Begun(id)
      BY <1>1
    <3>2. Begun(id) \in Works /\ Begins(id, Begun(id)) /\ Cites(id, Begun(id))
      BY <1>5, <3>1
    <3> QED BY <1>1, <3>1, <3>2 DEF Begins, Cites
  <2> QED BY <2>1, <1>1 DEF Working
<1>7. Served'
  <2> SUFFICES ASSUME caching, NEW id \in pending PROVE id \in DOMAIN work'
    BY <1>1 DEF Served, fixed
  <2> DEFINE k == Key(QueryOf[id])
  <2>1. Cached(k) => k \in DOMAIN byKey
    BY <1>1 DEF RagInv, Served
  <2>2. k \in executed => Cached(k)
    BY DEF RagInv, Searched, Cached
  <2>3. ~Cached(k) /\ k \notin executed => k \in DOMAIN byKey
    BY <1>1 DEF ToRetrieve, Runnable
  <2>4. k \in DOMAIN byKey
    BY <2>1, <2>2, <2>3
  <2> QED BY <1>1, <2>4 DEF Answerable
<1> QED BY <1>3, <1>4, <1>6, <1>7 DEF RagInv

-----------------------------------------------------------------------------
(* The merge.                                                              *)

\* A finished thread's result cites what was found for its task, and it is
\* reported exactly as the gate will read it.
LEMMA Resulting ==
  ASSUME RagInv, NEW id \in DOMAIN work
  PROVE  LET r == Result(id, work[id])
         IN  /\ (r.status = "ok") <=> GateSupports(r)
             /\ (Reply(id) = "success") <=> GateSupports(r)
             /\ Reply(id) \in {"success", "empty"}
             /\ r.sources \cup r.related \subseteq seen[id]
             /\ Readable(r.sources \cup r.related)
<1> DEFINE w == work[id]
           r == Result(id, w)
<1>1. w \in Works /\ Cites(id, w)
  BY DEF RagInv, Working
<1>2. /\ r.status = IF w.supporting # {} THEN "ok" ELSE "empty"
      /\ r.sources = w.supporting /\ r.related = w.related /\ r.answerable = w.answerable
  BY DEF Result
<1>3. Reply(id) = IF r.status = "ok" THEN "success" ELSE "empty"
  BY DEF Reply
<1>4. (w.answerable = TRUE) <=> w.supporting # {}
  BY <1>1 DEF Works, Cites
<1> HIDE DEF w, r
<1>5. (r.status = "ok") <=> GateSupports(r)
  BY <1>2, <1>4 DEF GateSupports
<1>6. r.sources \cup r.related \subseteq seen[id] /\ Readable(r.sources \cup r.related)
  BY <1>1, <1>2 DEF Cites, Readable
<1> QED BY <1>2, <1>3, <1>5, <1>6 DEF r, w

\* What a thread's search found under a query, first or second, fits a cache.
LEMMA ObtainedDocs ==
  ASSUME RagInv, \A id \in DOMAIN work : work[id].at = "done",
         NEW id \in DOMAIN work, NEW k \in CachedBy(id)
  PROVE  Obtained(id, k) \in Docs /\ Readable(ToSet(Obtained(id, k)))
<1> DEFINE w == work[id]
           first == byKey[w.runs[1]]
<1>1. w \in Works /\ Begins(id, w) /\ Cites(id, w) /\ w.at = "done"
  BY DEF RagInv, Working
<1>2. first \in Docs /\ Readable(ToSet(first))
  BY <1>1 DEF Begins, RagInv, Searched
<1>3. CASE k = w.runs[1]
  BY <1>2, <1>3 DEF Obtained
<1>4. CASE k # w.runs[1]
  <2>1. w.docs \in Seq(Chunks) /\ first \in Seq(Chunks) /\ Len(first) \in Nat
    BY <1>1, <1>2 DEF Works, Docs
  <2>2. Len(w.docs) <= Len(first) + TopK
    <3>1. Len(w.docs) <= Len(first) + Longest(w)
      BY <1>1 DEF Begins
    <3>2. Longest(w) \in Nat /\ Longest(w) <= TopK /\ TopK \in Nat /\ Len(w.docs) \in Nat
      BY <2>1, ShownAssumption DEF Longest
    <3> HIDE DEF first, w
    <3> QED BY <3>1, <3>2, <2>1
  <2> DEFINE rest == SubSeq(w.docs, Len(first) + 1, Len(w.docs))
  <2>3. rest \in Docs /\ ToSet(rest) \subseteq ToSet(w.docs)
    <3> HIDE DEF first, w
    <3> QED BY <2>1, <2>2, TailDocs
  <2>4. Readable(ToSet(rest))
    BY <1>1, <2>3 DEF Cites, Readable
  <2>5. Obtained(id, k) = rest
    BY <1>4 DEF Obtained
  <2> QED BY <2>3, <2>4, <2>5
<1> QED BY <1>3, <1>4

LEMMA RunKeys ==
  ASSUME RagInv, NEW id \in DOMAIN work
  PROVE  CachedBy(id) \subseteq Keys
<1>1. work[id].runs \in Seq(Keys)
  BY DEF RagInv, Working, Works
<1>2. \A i \in DOMAIN work[id].runs : work[id].runs[i] \in Keys
  BY <1>1
<1> QED BY <1>2 DEF CachedBy, ToSet

Ran == UNION {CachedBy(id) : id \in DOMAIN work}

LEMMA CacheGrows ==
  ASSUME RagInv, \A id \in DOMAIN work : work[id].at = "done"
  PROVE  /\ DOMAIN CacheAfter \subseteq executed \cup Ran
         /\ caching => executed \cup Ran \subseteq DOMAIN CacheAfter
         /\ \A k \in DOMAIN CacheAfter :
              CacheAfter[k] \in Docs /\ Readable(ToSet(CacheAfter[k]))
<1>1. /\ DOMAIN cache \subseteq executed
      /\ caching => executed \subseteq DOMAIN cache
      /\ \A k \in DOMAIN cache : cache[k] \in Docs /\ Readable(ToSet(cache[k]))
  BY DEF RagInv, Searched
<1>5. caching \in BOOLEAN
  BY DEF RagInv, Typed
<1>2. CASE ~caching
  <2>1. CacheAfter = cache
    BY <1>2 DEF CacheAfter
  <2>2. /\ DOMAIN CacheAfter \subseteq executed \cup Ran
        /\ \A k \in DOMAIN CacheAfter :
              CacheAfter[k] \in Docs /\ Readable(ToSet(CacheAfter[k]))
    BY <1>1, <2>1
  <2> QED BY <1>2, <2>2
<1>3. CASE caching
  <2>1. CacheAfter = [k \in DOMAIN cache \cup Ran |->
                        IF RanBy(k) # {} THEN Obtained(LastToRun(k), k) ELSE cache[k]]
    BY <1>3 DEF CacheAfter, Ran
  <2>2. ASSUME NEW k \in DOMAIN cache \cup Ran
        PROVE  CacheAfter[k] \in Docs /\ Readable(ToSet(CacheAfter[k]))
    <3>1. CASE RanBy(k) # {}
      <4>1. RanBy(k) \in SUBSET Ids
        BY DEF RanBy, RagInv, Working, Typed
      <4>2. \E id \in RanBy(k) : \A x \in RanBy(k) : Position(x) <= Position(id)
        BY <3>1, <4>1, LastOne
      <4>3. LastToRun(k) \in RanBy(k)
        BY <4>2 DEF LastToRun
      <4>4. LastToRun(k) \in DOMAIN work /\ k \in CachedBy(LastToRun(k))
        BY <4>3 DEF RanBy
      <4> QED BY <2>1, <2>2, <3>1, <4>4, ObtainedDocs
    <3>2. CASE RanBy(k) = {}
      <4>1. k \notin Ran
        BY <3>2 DEF RanBy, Ran
      <4> QED BY <1>1, <2>1, <2>2, <3>2, <4>1
    <3> QED BY <3>1, <3>2
  <2>3. DOMAIN CacheAfter = DOMAIN cache \cup Ran
    BY <2>1
  <2>4. \A k \in DOMAIN CacheAfter : CacheAfter[k] \in Docs /\ Readable(ToSet(CacheAfter[k]))
    BY <2>2, <2>3
  <2>5. DOMAIN CacheAfter \subseteq executed \cup Ran /\ executed \cup Ran \subseteq DOMAIN CacheAfter
    BY <1>1, <1>3, <2>3
  <2> QED BY <2>4, <2>5
<1> QED BY <1>2, <1>3

LEMMA MergeStep == ASSUME RagInv, Merge PROVE RagInv'
<1>1. /\ stage = "process" /\ \A id \in DOMAIN work : work[id].at = "done"
      /\ results' = ResultsAfter /\ cache' = CacheAfter
      /\ executed' = executed \cup UNION {ToSet(work[id].runs) : id \in DOMAIN work}
      /\ done' = done \cup {id \in DOMAIN work : Result(id, work[id]).status = "ok"}
      /\ replies' = [id \in DOMAIN replies \cup pending |->
                       IF id \in pending THEN Reply(id) ELSE replies[id]]
      /\ stage' = "idle" /\ pending' = {} /\ work' = <<>> /\ byKey' = <<>>
      /\ UNCHANGED <<fixed, seen>>
  BY DEF Merge
<1>2. /\ DOMAIN work \subseteq pending /\ pending \subseteq Ids /\ done \subseteq Ids
      /\ DOMAIN replies \subseteq Ids /\ DOMAIN results \subseteq DOMAIN replies
      /\ pending \cap DOMAIN replies = {}
  BY DEF RagInv, Typed, Working
<1>3. executed' = executed \cup Ran
  BY <1>1 DEF CachedBy, Ran
<1>4. \A id \in pending : Reply(id) \in {"success", "empty"}
  BY DEF Reply
<1>5. /\ DOMAIN replies' = DOMAIN replies \cup pending
      /\ \A id \in pending : replies'[id] = Reply(id)
      /\ \A id \in DOMAIN replies : replies'[id] = replies[id]
  BY <1>1, <1>2
<1>6. /\ DOMAIN results' = DOMAIN results \cup DOMAIN work
      /\ \A id \in DOMAIN work : results'[id] = Result(id, work[id])
      /\ \A id \in DOMAIN results : results'[id] = results[id]
  BY <1>1, <1>2 DEF ResultsAfter
<1>7. Typed'
  <2>1. executed' \subseteq Keys
    BY <1>3, RunKeys DEF RagInv, Typed, Ran
  <2> QED BY <1>1, <1>2, <1>4, <1>5, <1>6, <2>1 DEF RagInv, Typed, Stages, fixed
<1>8. Searched'
  <2>1. byKey' = [k \in DOMAIN byKey' |-> byKey'[k]] /\ DOMAIN byKey' = {}
    BY <1>1
  <2>2. caching' = caching
    BY <1>1 DEF fixed
  <2> QED BY <1>1, <1>3, <2>1, <2>2, CacheGrows DEF Searched
<1>9. Working' /\ FoundFor' /\ Served'
  <2>1. work' = [id \in DOMAIN work' |-> work'[id]] /\ DOMAIN work' = {}
    BY <1>1
  <2> QED BY <1>1, <2>1 DEF Working, FoundFor, Served
<1>10. Told'
  <2>1. done' = {id \in DOMAIN results' : GateSupports(results'[id])}
    <3>1. done = {id \in DOMAIN results : GateSupports(results[id])}
      BY DEF RagInv, Told
    <3>2. \A id \in DOMAIN work : id \in done' <=> GateSupports(results'[id])
      BY <1>1, <1>2, <1>6, <3>1, Resulting
    <3>3. \A id \in DOMAIN results :
            id \in done' <=> GateSupports(results'[id])
      BY <1>1, <1>2, <1>6, <3>1
    <3> QED BY <1>1, <1>6, <3>1, <3>2, <3>3
  <2>2. done' = {id \in DOMAIN replies' : replies'[id] = "success"}
    <3>1. done = {id \in DOMAIN replies : replies[id] = "success"}
      BY DEF RagInv, Told
    <3>2. \A id \in pending :
            Reply(id) = "success" <=> id \in DOMAIN work /\ Result(id, work[id]).status = "ok"
      BY DEF Reply
    <3> QED BY <1>1, <1>2, <1>5, <3>1, <3>2
  <2>3. caching' => {id \in DOMAIN replies' : replies'[id] # "blocked"} \subseteq DOMAIN results'
    <3>1. caching => pending \subseteq DOMAIN work
      BY <1>1 DEF RagInv, Served
    <3>2. caching => {id \in DOMAIN replies : replies[id] # "blocked"} \subseteq DOMAIN results
      BY DEF RagInv, Told
    <3> QED BY <1>1, <1>5, <1>6, <3>1, <3>2 DEF fixed
  <2>4. OwnEvidence'
    <3> SUFFICES ASSUME NEW id \in DOMAIN results'
                 PROVE  LET cited == results'[id].sources \cup results'[id].related
                        IN  /\ cited \subseteq seen[id]
                            /\ UsedKbs # {} => \A c \in cited : KbOf[c] \in UsedKbs
      BY <1>1 DEF OwnEvidence
    <3>1. CASE id \in DOMAIN work
      BY <1>6, <3>1, Resulting DEF Readable
    <3>2. CASE id \in DOMAIN results
      BY <1>6, <3>2 DEF RagInv, Told, OwnEvidence
    <3> QED BY <1>6, <3>1, <3>2
  <2> QED BY <2>1, <2>2, <2>3, <2>4 DEF Told
<1> QED BY <1>7, <1>8, <1>9, <1>10 DEF RagInv

-----------------------------------------------------------------------------
(* The theorems.                                                           *)

LEMMA NextRag == ASSUME RagInv, [Next]_vars PROVE RagInv'
<1>1. CASE Start
  BY <1>1, StartStep
<1>2. CASE Raise
  BY <1>2, RaiseStep
<1>3. CASE Progress
  BY <1>3, RetrieveStep, ForkStep, MergeStep, JudgeStep, ReflectStep, RetryStep
     DEF Progress
<1>4. CASE UNCHANGED vars
  BY <1>4, StutterRag
<1> QED BY <1>1, <1>2, <1>3, <1>4 DEF Next

THEOREM RagInvariant == Spec => []RagInv
BY InitRag, NextRag, PTL DEF Spec

\* Two searches never return more than a model is shown.
LEMMA ShownAll == RagInv => RagTypeOK
<1> SUFFICES ASSUME RagInv PROVE RagTypeOK
  OBVIOUS
<1>1. ASSUME NEW id \in DOMAIN work
      PROVE  /\ work[id].at \in {"judge", "reflect", "retry", "done"}
             /\ work[id].docs \in Seq(Chunks) /\ Len(work[id].docs) <= Shown
             /\ Len(work[id].runs) \in 1 .. 2
             /\ work[id].targets \subseteq Kbs
             /\ work[id].answerable = (work[id].supporting # {})
  <2> DEFINE w == work[id]
             first == byKey[w.runs[1]]
  <2>1. w \in Works /\ Begins(id, w) /\ Cites(id, w)
    BY DEF RagInv, Working
  <2>2. first \in Seq(Chunks) /\ Len(first) <= TopK
    BY <2>1 DEF Begins, RagInv, Searched, Docs
  <2>3. /\ Len(w.docs) <= Len(first) + Longest(w) /\ w.docs \in Seq(Chunks)
        /\ Longest(w) \in {0, TopK}
    BY <2>1 DEF Begins, Works, Longest
  <2>4. Len(w.docs) <= Shown
    <3>1. Len(w.docs) \in Nat /\ Len(first) \in Nat
      BY <2>2, <2>3
    <3> HIDE DEF w, first
    <3> QED BY <2>2, <2>3, <3>1, ShownAssumption
  <2> QED BY <2>1, <2>4 DEF Works, Points, Begins, Cites
<1> QED BY <1>1 DEF RagInv, Typed, Searched, Working, Stages, RagTypeOK

\* The shape of the request's knowledge state, in every reachable state of
\* every instance.
THEOREM RagTypes == Spec => []RagTypeOK
BY RagInvariant, ShownAll, PTL

\* No task's result cites what was found for another task, or outside the
\* bases the role reads, however the threads interleave.
THEOREM EvidenceIsOwn == Spec => []OwnEvidence
<1>1. RagInv => OwnEvidence
  BY DEF RagInv, Told
<1> QED BY <1>1, RagInvariant, PTL

\* The executor, the set of completed tasks and the answer gate agree.
THEOREM GateAgreement == Spec => []GateAgrees
<1>1. RagInv => GateAgrees
  BY DEF RagInv, Told, GateAgrees
<1> QED BY <1>1, RagInvariant, PTL

\* With the cache on no handed-over task is left without a result.
THEOREM AllAnswered == Spec => []EveryTaskAnswered
<1>1. RagInv => EveryTaskAnswered
  BY DEF RagInv, Told, EveryTaskAnswered
<1> QED BY <1>1, RagInvariant, PTL

=============================================================================
