------------------------- MODULE KnowledgeIndexProofs -------------------------
(***************************************************************************)
(* For all files, splittings, builds, requests and scenarios.               *)
(*                                                                         *)
(* Part one: a request that starts after a reindex was answered searches a  *)
(* corpus read after it, and only a reindex that overtook a request leaves  *)
(* it without an agent.  A reindex drops the agent before it is answered,   *)
(* so the agent in force has either read no corpus yet or read it after the *)
(* last answered reindex; a request that takes this agent keeps the         *)
(* advantage, because a corpus read later only knows more reindexes.        *)
(*                                                                         *)
(* Part two: the collection holds exactly the chunks the manifest lists     *)
(* unless a build failed half way, overlapped another or had a file change  *)
(* under it.  A build that nothing disturbs is the only one, so what it     *)
(* read of manifest and files still holds when it writes, and it knows at   *)
(* each place what it has deleted and added so far.                         *)
(***************************************************************************)
EXTENDS KnowledgeIndex, FiniteSetTheorems, SequenceTheorems, WellFoundedInduction, TLAPS

-----------------------------------------------------------------------------
(* Part one: the agent and its corpus.                                     *)

Fields    == {"pc", "mine", "kbs", "hits", "since"}
Searching == {"vector", "corpus"}

Shape ==
  /\ reader = [r \in Readers |-> reader[r]]
  /\ \A r \in Readers : DOMAIN reader[r] = Fields
  /\ corpus = [r \in Readers |-> corpus[r]]
  /\ corpusAt = [r \in Readers |-> corpusAt[r]]
  /\ build = [b \in Builds |-> build[b]]
  /\ \A b \in Builds : "pc" \in DOMAIN build[b]

\* An agent is in force, or in the hands of a search, only once it was made.
Made ==
  /\ agent \in Readers \cup {NoAgent}
  /\ \A r \in Readers : reader[r].pc \in Searching => reader[r].mine \in Readers
  /\ \A m \in Readers : reader[m].pc \in {"idle", "making"} =>
       /\ corpus[m] = Unread /\ agent # m
       /\ \A r \in Readers : reader[r].pc \in Searching => reader[r].mine # m

\* A build is answered once.
Answered == \A b \in Builds : b \in reindexed => build[b].pc = "over"

Knows ==
  /\ \A r \in Readers : reader[r].since \subseteq reindexed /\ corpusAt[r] \subseteq reindexed
  /\ agent # NoAgent /\ corpus[agent] # Unread => corpusAt[agent] = reindexed
  /\ \A r \in Readers : reader[r].pc \in Searching /\ corpus[reader[r].mine] # Unread =>
       reader[r].since \subseteq corpusAt[reader[r].mine]
  /\ SearchesReindexed
  /\ \A r \in Readers : ReaderAt(r, "return") /\ reader[r].since = reindexed => agent # NoAgent
  /\ NoneOnlyAfterReindex

ReindexInv == Shape /\ Made /\ Answered /\ Knows

\* At first no agent is made and no reindex answered.
LEMMA InitReindex == Init => ReindexInv
<1> SUFFICES ASSUME Init PROVE ReindexInv  OBVIOUS
<1>1. /\ \A r \in Readers : /\ DOMAIN reader[r] = Fields /\ reader[r].pc = "idle"
                            /\ reader[r].since = {} /\ corpus[r] = Unread /\ corpusAt[r] = {}
      /\ \A b \in Builds : "pc" \in DOMAIN build[b]
  BY DEF Init, NewReader, NewBuild, Fields
<1>2. Shape /\ Made  BY <1>1, NoAgentAssumption DEF Init, Shape, Made, Searching
<1>3. Answered /\ Knows
  BY <1>1 DEF Init, Answered, Knows, SearchesReindexed, NoneOnlyAfterReindex, ReaderAt, Searching
<1> QED BY <1>2, <1>3 DEF ReindexInv

\* What the steps of builds and file changes do to a build.
LEMMA BuildKept ==
  ASSUME Shape, NEW b \in Builds, NEW rec, "pc" \in DOMAIN rec, Becomes(b, rec),
         build[b].pc # "over"
  PROVE  /\ build' = [x \in Builds |-> build'[x]]
         /\ \A x \in Builds : "pc" \in DOMAIN build'[x]
         /\ \A x \in Builds : build[x].pc = "over" => build'[x].pc = "over"
BY DEF Shape, Becomes

\* A disturbed build is where it was.
LEMMA DisturbedKept ==
  ASSUME Shape, NEW bs
  PROVE  /\ DOMAIN Disturbed(bs) = Builds
         /\ \A x \in Builds : /\ "pc" \in DOMAIN Disturbed(bs)[x]
                              /\ Disturbed(bs)[x].pc = build[x].pc
BY DEF Shape, Disturbed

\* A step that leaves the requests, the agent and the corpora alone.
LEMMA BuildsAlone ==
  ASSUME ReindexInv, ReadersUntouched,
         build' = [x \in Builds |-> build'[x]],
         \A x \in Builds : "pc" \in DOMAIN build'[x],
         \A x \in Builds : build[x].pc = "over" => build'[x].pc = "over"
  PROVE  ReindexInv'
BY DEF ReindexInv, Shape, Made, Answered, Knows, ReadersUntouched, SearchesReindexed,
       NoneOnlyAfterReindex, ReaderAt

\* Steps of builds leave requests and agents alone.
LEMMA BuildStep ==
  ASSUME ReindexInv, NEW b \in Builds,
         \/ StartBuild(b) \/ RemoveCollection(b) \/ RemoveManifest(b) \/ Scan(b) \/ Load(b)
         \/ DeleteOldChunks(b) \/ AddBatch(b) \/ SaveManifest(b) \/ FailBuild(b)
  PROVE  ReindexInv'
<1>1. Shape /\ "pc" \in DOMAIN build[b]  BY DEF ReindexInv, Shape
<1>2. ASSUME NEW rec, Becomes(b, rec), "pc" \in DOMAIN rec, ReadersUntouched,
             build[b].pc # "over"
      PROVE  ReindexInv'
  BY <1>1, <1>2, BuildKept, BuildsAlone
<1>3. CASE StartBuild(b)
  <2>1. PICK rec : /\ "pc" \in DOMAIN rec
                   /\ build' = [Disturbed(Active) EXCEPT ![b] = rec]
    BY <1>3 DEF StartBuild, NewBuild
  <2>2. build[b].pc # "over" /\ ReadersUntouched
    BY <1>3 DEF StartBuild, BuildAt
  <2>3. /\ build' = [x \in Builds |-> build'[x]]
        /\ \A x \in Builds : "pc" \in DOMAIN build'[x]
        /\ \A x \in Builds : build[x].pc = "over" => build'[x].pc = "over"
    <3> DEFINE before == Disturbed(Active)
    <3>1. /\ DOMAIN before = Builds
          /\ \A x \in Builds : "pc" \in DOMAIN before[x] /\ before[x].pc = build[x].pc
      BY <1>1, DisturbedKept
    <3>2. build' = [before EXCEPT ![b] = rec]  BY <2>1
    <3> HIDE DEF before
    <3> QED BY <2>1, <2>2, <3>1, <3>2
  <2> QED BY <2>2, <2>3, BuildsAlone
<1>4. CASE RemoveCollection(b)  BY <1>1, <1>2, <1>4 DEF RemoveCollection, BuildAt
<1>5. CASE RemoveManifest(b)    BY <1>1, <1>2, <1>5 DEF RemoveManifest, BuildAt
<1>6. CASE Scan(b)              BY <1>1, <1>2, <1>6 DEF Scan, BuildAt
<1>7. CASE Load(b)              BY <1>1, <1>2, <1>7 DEF Load, BuildAt
<1>8. CASE DeleteOldChunks(b)   BY <1>1, <1>2, <1>8 DEF DeleteOldChunks, BuildAt
<1>9. CASE AddBatch(b)          BY <1>1, <1>2, <1>9 DEF AddBatch, BuildAt
<1>10. CASE SaveManifest(b)
  BY <1>1, <1>2, <1>10 DEF SaveManifest, BuildAt, NewBuild, Over
<1>11. CASE FailBuild(b)
  BY <1>1, <1>2, <1>11 DEF FailBuild, Active, NewBuild, Over
<1> QED BY <1>3, <1>4, <1>5, <1>6, <1>7, <1>8, <1>9, <1>10, <1>11

\* An answered reindex drops the agent.
LEMMA AnswerStep ==
  ASSUME ReindexInv, NEW b \in Builds, AnswerReindex(b)
  PROVE  ReindexInv'
<1>1. build[b].pc = "saved" /\ b \notin reindexed
  BY DEF AnswerReindex, BuildAt, ReindexInv, Answered
<1>2. /\ build' = [x \in Builds |-> build'[x]]
      /\ \A x \in Builds : "pc" \in DOMAIN build'[x]
      /\ \A x \in Builds : build[x].pc = "over" => build'[x].pc = "over"
      /\ build'[b].pc = "over"
  BY <1>1, BuildKept DEF AnswerReindex, Becomes, Over, NewBuild, ReindexInv, Shape
<1>3. agent' = NoAgent /\ reindexed' = reindexed \cup {b}
      /\ UNCHANGED <<corpus, reader, corpusAt>>
  BY DEF AnswerReindex, DroppedAgent
<1>4. Shape' /\ Made' /\ Answered'
  BY <1>2, <1>3, NoAgentAssumption DEF ReindexInv, Shape, Made, Answered
<1>5. \A r \in Readers : reader[r].since # reindexed'
  BY <1>1, <1>3 DEF ReindexInv, Knows
<1>6. Knows'
  BY <1>3, <1>5 DEF ReindexInv, Knows, SearchesReindexed, NoneOnlyAfterReindex, ReaderAt
<1> QED BY <1>4, <1>6 DEF ReindexInv

\* A step of one request, by the record it leaves there.
LEMMA MovesOne ==
  ASSUME Shape, NEW r \in Readers, NEW rec, Moves(r, rec), DOMAIN rec = Fields
  PROVE  /\ reader' = [x \in Readers |-> reader'[x]]
         /\ \A x \in Readers : DOMAIN reader'[x] = Fields
         /\ reader'[r] = rec
         /\ \A x \in Readers : x # r => reader'[x] = reader[x]
BY DEF Shape, Moves

\* Steps of requests.
LEMMA ReaderStep ==
  ASSUME ReindexInv, NEW r \in Readers,
         CheckAgent(r) \/ MakeAgent(r) \/ ReturnAgent(r) \/ VectorSearch(r) \/ CorpusSearch(r)
  PROVE  ReindexInv'
<1> USE DEF ReaderAt
<1>1. Shape /\ Made /\ Answered /\ Knows /\ DOMAIN reader[r] = Fields
  BY DEF ReindexInv, Shape
<1>2. UNCHANGED <<build, reindexed>>
  BY DEF CheckAgent, MakeAgent, ReturnAgent, VectorSearch, CorpusSearch, IndexUntouched
<1>3. Answered'  BY <1>1, <1>2 DEF Answered
<1>4. CASE CheckAgent(r)
  <2>1. PICK kbs :
          Moves(r, [reader[r] EXCEPT !.pc = IF agent = NoAgent THEN "making" ELSE "return",
                                     !.kbs = kbs, !.since = reindexed])
    BY <1>4 DEF CheckAgent
  <2> DEFINE rec == [reader[r] EXCEPT !.pc = IF agent = NoAgent THEN "making" ELSE "return",
                                     !.kbs = kbs, !.since = reindexed]
  <2>2. /\ DOMAIN rec = Fields /\ rec.since = reindexed
        /\ rec.pc = IF agent = NoAgent THEN "making" ELSE "return"
    BY <1>1 DEF Fields
  <2>3. Moves(r, rec)  BY <2>1
  <2> HIDE DEF rec
  <2>4. /\ reader' = [x \in Readers |-> reader'[x]]
        /\ \A x \in Readers : DOMAIN reader'[x] = Fields
        /\ reader'[r] = rec
        /\ \A x \in Readers : x # r => reader'[x] = reader[x]
    BY <1>1, <2>2, <2>3, MovesOne
  <2>5. reader[r].pc = "idle" /\ UNCHANGED <<agent, corpus, corpusAt>>
    BY <1>4 DEF CheckAgent
  <2>6. Shape'  BY <1>1, <1>2, <2>4, <2>5 DEF Shape
  <2>7. Made'   BY <1>1, <2>2, <2>4, <2>5 DEF Made, Searching
  <2>8. Knows'
    BY <1>1, <1>2, <2>2, <2>4, <2>5
    DEF Knows, SearchesReindexed, NoneOnlyAfterReindex, Searching
  <2> QED BY <1>3, <2>6, <2>7, <2>8 DEF ReindexInv
<1>5. CASE MakeAgent(r)
  <2> DEFINE rec == [reader[r] EXCEPT !.pc = "return"]
  <2>2. DOMAIN rec = Fields /\ rec.since = reader[r].since /\ rec.pc = "return"
    BY <1>1 DEF Fields
  <2>3. Moves(r, rec)  BY <1>5 DEF MakeAgent
  <2> HIDE DEF rec
  <2>4. /\ reader' = [x \in Readers |-> reader'[x]]
        /\ \A x \in Readers : DOMAIN reader'[x] = Fields
        /\ reader'[r] = rec
        /\ \A x \in Readers : x # r => reader'[x] = reader[x]
    BY <1>1, <2>2, <2>3, MovesOne
  <2>5. reader[r].pc = "making" /\ agent' = r /\ UNCHANGED <<corpus, corpusAt>>
    BY <1>5 DEF MakeAgent
  <2>6. Shape'  BY <1>1, <1>2, <2>4, <2>5 DEF Shape
  <2>7. Made'   BY <1>1, <2>2, <2>4, <2>5 DEF Made, Searching
  <2>8. Knows'
    BY <1>1, <1>2, <2>2, <2>4, <2>5, NoAgentAssumption
    DEF Knows, Made, SearchesReindexed, NoneOnlyAfterReindex, Searching
  <2> QED BY <1>3, <2>6, <2>7, <2>8 DEF ReindexInv
<1>6. CASE ReturnAgent(r)
  <2> DEFINE rec == [reader[r] EXCEPT !.mine = agent,
                       !.pc = IF agent = NoAgent THEN "failed"
                              ELSE IF reader[r].kbs = {} THEN "answered" ELSE "vector"]
  <2>2. /\ DOMAIN rec = Fields /\ rec.since = reader[r].since /\ rec.kbs = reader[r].kbs
        /\ rec.mine = agent
        /\ \/ rec.pc = "failed" /\ agent = NoAgent
           \/ rec.pc = "answered" /\ rec.kbs = {}
           \/ rec.pc = "vector" /\ agent # NoAgent
    BY <1>1 DEF Fields
  <2>3. Moves(r, rec)  BY <1>6 DEF ReturnAgent
  <2> HIDE DEF rec
  <2>4. /\ reader' = [x \in Readers |-> reader'[x]]
        /\ \A x \in Readers : DOMAIN reader'[x] = Fields
        /\ reader'[r] = rec
        /\ \A x \in Readers : x # r => reader'[x] = reader[x]
    BY <1>1, <2>2, <2>3, MovesOne
  <2>5. reader[r].pc = "return" /\ UNCHANGED <<agent, corpus, corpusAt>>
    BY <1>6 DEF ReturnAgent
  <2>6. Shape'  BY <1>1, <1>2, <2>4, <2>5 DEF Shape
  <2>7. Made'   BY <1>1, <2>2, <2>4, <2>5 DEF Made, Searching
  <2>8. Knows'
    BY <1>1, <1>2, <2>2, <2>4, <2>5
    DEF Knows, Made, SearchesReindexed, NoneOnlyAfterReindex, Searching
  <2> QED BY <1>3, <2>6, <2>7, <2>8 DEF ReindexInv
<1>7. CASE VectorSearch(r)
  <2> DEFINE rec == [reader[r] EXCEPT !.pc = "corpus", !.hits = Within(store, reader[r].kbs)]
  <2>2. /\ DOMAIN rec = Fields /\ rec.since = reader[r].since /\ rec.mine = reader[r].mine
        /\ rec.pc = "corpus"
    BY <1>1 DEF Fields
  <2>3. Moves(r, rec)  BY <1>7 DEF VectorSearch
  <2> HIDE DEF rec
  <2>4. /\ reader' = [x \in Readers |-> reader'[x]]
        /\ \A x \in Readers : DOMAIN reader'[x] = Fields
        /\ reader'[r] = rec
        /\ \A x \in Readers : x # r => reader'[x] = reader[x]
    BY <1>1, <2>2, <2>3, MovesOne
  <2>5. reader[r].pc = "vector" /\ UNCHANGED <<agent, corpus, corpusAt>>
    BY <1>7 DEF VectorSearch
  <2>6. Shape'  BY <1>1, <1>2, <2>4, <2>5 DEF Shape
  <2>7. Made'   BY <1>1, <2>2, <2>4, <2>5 DEF Made, Searching
  <2>8. Knows'
    BY <1>1, <1>2, <2>2, <2>4, <2>5
    DEF Knows, SearchesReindexed, NoneOnlyAfterReindex, Searching
  <2> QED BY <1>3, <2>6, <2>7, <2>8 DEF ReindexInv
<1>8. CASE CorpusSearch(r)
  <2> DEFINE a    == reader[r].mine
             docs == IF corpus[a] = Unread THEN store ELSE corpus[a]
             rec  == [reader[r] EXCEPT !.pc = "answered",
                                       !.hits = @ \cup Within(docs, reader[r].kbs)]
  <2>2. /\ DOMAIN rec = Fields /\ rec.since = reader[r].since /\ rec.mine = a
        /\ rec.pc = "answered"
    BY <1>1 DEF Fields
  <2>3. Moves(r, rec)  BY <1>8 DEF CorpusSearch
  <2> HIDE DEF rec
  <2>4. /\ reader' = [x \in Readers |-> reader'[x]]
        /\ \A x \in Readers : DOMAIN reader'[x] = Fields
        /\ reader'[r] = rec
        /\ \A x \in Readers : x # r => reader'[x] = reader[x]
    BY <1>1, <2>2, <2>3, MovesOne
  <2>5. reader[r].pc = "corpus" /\ UNCHANGED agent /\ a \in Readers
    BY <1>1, <1>8 DEF CorpusSearch, Made, Searching
  <2>6. /\ corpus' = [corpus EXCEPT ![a] = docs]
        /\ corpusAt' = IF corpus[a] = Unread THEN [corpusAt EXCEPT ![a] = reindexed] ELSE corpusAt
    BY <1>8 DEF CorpusSearch
  <2>7. /\ corpus' = [x \in Readers |-> corpus'[x]]
        /\ corpusAt' = [x \in Readers |-> corpusAt'[x]]
        /\ \A x \in Readers : x # a => corpus'[x] = corpus[x] /\ corpusAt'[x] = corpusAt[x]
        /\ \/ corpus[a] = Unread /\ corpusAt'[a] = reindexed
           \/ corpus[a] # Unread /\ corpus'[a] = corpus[a] /\ corpusAt'[a] = corpusAt[a]
    BY <1>1, <2>5, <2>6 DEF Shape
  <2>8. a = reader[r].mine  OBVIOUS
  <2> HIDE DEF a, docs
  <2>9. Shape'  BY <1>1, <1>2, <2>4, <2>5, <2>7 DEF Shape
  <2>10. Made'
    BY <1>1, <2>2, <2>4, <2>5, <2>7, <2>8 DEF Made, Searching
  <2>11. \A x \in Readers : reader'[x].since = reader[x].since /\ reader'[x].mine = reader[x].mine
    BY <2>2, <2>4, <2>8
  <2>12. \A x \in Readers : reader[x].since \subseteq reindexed /\ corpusAt'[x] \subseteq reindexed
    BY <1>1, <2>7 DEF Knows
  <2>13. agent # NoAgent /\ corpus'[agent] # Unread => corpusAt'[agent] = reindexed
    BY <1>1, <2>5, <2>7 DEF Knows, Made
  <2>14. \A x \in Readers : reader[x].pc \in Searching /\ corpus'[reader[x].mine] # Unread =>
           reader[x].since \subseteq corpusAt'[reader[x].mine]
    BY <1>1, <2>7, <2>12 DEF Knows, Made
  <2>15. reader[r].since \subseteq corpusAt'[a]
    BY <1>1, <2>5, <2>7, <2>8 DEF Knows, Searching
  <2>16. ASSUME NEW x \in Readers, x # r, reader[x].pc = "answered", reader[x].kbs # {}
         PROVE  reader[x].since \subseteq corpusAt'[reader[x].mine]
    <3>1. reader[x].since \subseteq corpusAt[reader[x].mine]
      BY <1>1, <2>16 DEF Knows, SearchesReindexed
    <3>2. CASE reader[x].mine = a  BY <1>1, <2>7, <3>1, <3>2 DEF Knows
    <3>3. CASE reader[x].mine # a
      <4>1. corpusAt'[reader[x].mine] = corpusAt[reader[x].mine]
        BY <2>6, <3>3, <1>1 DEF Shape
      <4> QED BY <3>1, <4>1
    <3> QED BY <3>2, <3>3
  <2>17. Knows'
    BY <1>1, <1>2, <2>2, <2>4, <2>5, <2>8, <2>11, <2>12, <2>13, <2>14, <2>15, <2>16
    DEF Knows, SearchesReindexed, NoneOnlyAfterReindex, Searching
  <2> QED BY <1>3, <2>9, <2>10, <2>17 DEF ReindexInv
<1> QED BY <1>4, <1>5, <1>6, <1>7, <1>8

\* The invariant of part one is inductive.
LEMMA NextReindex == ReindexInv /\ [Next]_vars => ReindexInv'
<1> SUFFICES ASSUME ReindexInv, [Next]_vars PROVE ReindexInv'  OBVIOUS
<1>1. CASE EditFile
  <2>1. build' = Disturbed({b \in Active : BuildAt(b, "load")}) /\ ReadersUntouched
    BY <1>1 DEF EditFile
  <2>2. /\ build' = [x \in Builds |-> build'[x]]
        /\ \A x \in Builds : "pc" \in DOMAIN build'[x] /\ build'[x].pc = build[x].pc
    <3> DEFINE after == Disturbed({b \in Active : BuildAt(b, "load")})
    <3>1. /\ DOMAIN after = Builds
          /\ \A x \in Builds : "pc" \in DOMAIN after[x] /\ after[x].pc = build[x].pc
      BY DisturbedKept DEF ReindexInv
    <3>2. after = [x \in Builds |-> after[x]]  BY DEF Disturbed
    <3> HIDE DEF after
    <3> QED BY <2>1, <3>1, <3>2 DEF after
  <2> QED BY <2>1, <2>2, BuildsAlone
<1>2. ASSUME NEW b \in Builds, AnswerReindex(b) PROVE ReindexInv'
  BY <1>2, AnswerStep
<1>3. CASE UNCHANGED vars
  BY <1>3 DEF vars, ReindexInv, Shape, Made, Answered, Knows, SearchesReindexed,
     NoneOnlyAfterReindex, ReaderAt
<1> QED BY <1>1, <1>2, <1>3, BuildStep, ReaderStep DEF Next

\* ReindexServes: rebuild_kb_index drops the process-wide agent (api/app.py)
\* before it answers, so that what it indexed is what later requests search.
THEOREM ReindexIsServed == Spec => []ReindexServes
<1>1. ReindexInv => ReindexServes
  BY DEF ReindexInv, Knows, ReindexServes
<1> QED BY <1>1, InitReindex, NextReindex, PTL DEF Spec

-----------------------------------------------------------------------------
(* Part two: the collection and the manifest.                               *)

-----------------------------------------------------------------------------
(* Flattened sequences.                                                    *)

Below == {p \in Nat \X Nat : p[1] < p[2]}

\* The order of the naturals is well founded.
LEMMA BelowWF == IsWellFoundedOn(Below, Nat)
  BY NatLessThanWellFounded, Zenon DEF Below, OpToRel

\* A set of naturals that is not empty has a least member.
LEMMA Least ==
  ASSUME NEW S, S \subseteq Nat, S # {}
  PROVE  \E i \in S : \A j \in S : i <= j
<1>1. PICK i \in S : \A j \in S : ~(<<j, i>> \in Below)
  BY BelowWF, WFMin
<1>2. ASSUME NEW j \in S PROVE i <= j
  <2>1. i \in Nat /\ j \in Nat  OBVIOUS
  <2>2. ~(<<j, i>> \in Below)  BY <1>1
  <2>3. ~(j < i)  BY <2>1, <2>2 DEF Below
  <2> QED  BY <2>1, <2>3
<1> QED BY <1>2

\* A set of naturals that holds 0 and the successor of each member holds all.
LEMMA Induction ==
  ASSUME NEW S, 0 \in S, \A n \in Nat : n \in S => n + 1 \in S
  PROVE  Nat \subseteq S
<1> DEFINE T == {n \in Nat : n \notin S}
<1>1. SUFFICES ASSUME T # {} PROVE FALSE
  OBVIOUS
<1>2. PICK m \in T : \A k \in T : m <= k
  BY <1>1, Least
<1>3. m \in Nat /\ m # 0
  BY <1>2
<1>4. m - 1 \in Nat /\ m - 1 \in S
  BY <1>2, <1>3
<1>5. (m - 1) + 1 \in S /\ (m - 1) + 1 = m
  BY <1>3, <1>4
<1> QED BY <1>2, <1>5

\* The function FlattenSeq computes, for the first n sequences.
Flattens(g, seqs, n) ==
  g = [i \in 1 .. n |-> IF i = 1 THEN seqs[i] ELSE g[i-1] \o seqs[i]]

\* Such a function exists for every sequence of sequences.
LEMMA FlattenExists ==
  ASSUME NEW S, NEW seqs \in Seq(S)
  PROVE  \E g : Flattens(g, seqs, Len(seqs))
<1> DEFINE Good == {n \in Nat : \E g : Flattens(g, seqs, n)}
<1>1. 0 \in Good
  <2>1. Flattens([i \in 1 .. 0 |-> seqs[i]], seqs, 0)
    BY DEF Flattens
  <2> QED BY <2>1
<1>2. ASSUME NEW n \in Nat, n \in Good PROVE n + 1 \in Good
  <2>1. PICK g : Flattens(g, seqs, n)
    BY <1>2
  <2> DEFINE h == [i \in 1 .. n+1 |-> IF i \in 1 .. n THEN g[i]
                                      ELSE IF n = 0 THEN seqs[1] ELSE g[n] \o seqs[n+1]]
  <2>2. ASSUME NEW i \in 1 .. n+1
        PROVE h[i] = IF i = 1 THEN seqs[i] ELSE h[i-1] \o seqs[i]
    <3>1. CASE i \in 1 .. n /\ i = 1
      BY <2>1, <3>1 DEF Flattens
    <3>2. CASE i \in 1 .. n /\ i # 1
      <4>1. g[i] = g[i-1] \o seqs[i]
        BY <2>1, <3>2 DEF Flattens
      <4>2. i - 1 \in 1 .. n /\ h[i-1] = g[i-1] /\ h[i] = g[i]
        BY <3>2
      <4> QED BY <4>1, <4>2, <3>2
    <3>3. CASE i \notin 1 .. n
      <4>1. i = n + 1
        BY <3>3
      <4>2. CASE n = 0
        BY <4>1, <4>2
      <4>3. CASE n # 0
        <5>1. n \in 1 .. n /\ n \in 1 .. n+1 /\ h[n] = g[n]
          BY <4>3
        <5>2. h[i] = g[n] \o seqs[n+1]
          BY <4>1, <4>3, <3>3
        <5> QED BY <5>1, <5>2, <4>1, <4>3
      <4> QED BY <4>2, <4>3
    <3> QED BY <3>1, <3>2, <3>3
  <2>3. h = [i \in 1 .. n+1 |-> h[i]]
    OBVIOUS
  <2> HIDE DEF h
  <2>4. Flattens(h, seqs, n+1)
    BY <2>2, <2>3 DEF Flattens
  <2> QED BY <2>4
<1>3. Nat \subseteq Good
  <2> HIDE DEF Good
  <2> QED BY <1>1, <1>2, Induction
<1> QED BY <1>3

\* Flattening keeps the elements.
Gathered(flat, S, seqs, n) ==
  flat \in Seq(S) /\ \A x : x \in Range(flat) <=> \E i \in 1 .. n : x \in Range(seqs[i])

\* FlattenSeq gathers the elements of its sequences.
LEMMA FlattenGathers ==
  ASSUME NEW S, NEW seqs \in Seq(Seq(S))
  PROVE  Gathered(FlattenSeq(seqs), S, seqs, Len(seqs))
<1>1. CASE seqs = <<>>
  <2>1. FlattenSeq(seqs) = <<>> /\ Len(seqs) = 0
    BY <1>1 DEF FlattenSeq
  <2>2. Range(<<>>) = {}  BY DEF Range
  <2> QED BY <2>1, <2>2 DEF Gathered
<1>2. CASE seqs # <<>>
  <2> DEFINE g == CHOOSE f : f = [i \in 1 .. Len(seqs) |->
                                    IF i = 1 THEN seqs[i] ELSE f[i-1] \o seqs[i]]
  <2>1. g = [i \in 1 .. Len(seqs) |-> IF i = 1 THEN seqs[i] ELSE g[i-1] \o seqs[i]]
    BY FlattenExists DEF Flattens
  <2>2. FlattenSeq(seqs) = g[Len(seqs)]
    BY <1>2 DEF FlattenSeq
  <2> HIDE DEF g
  <2> DEFINE Good == {n \in Nat : n \in 1 .. Len(seqs) => Gathered(g[n], S, seqs, n)}
  <2>3. 0 \in Good
    OBVIOUS
  <2>4. ASSUME NEW n \in Nat, n \in Good, n + 1 \in 1 .. Len(seqs)
        PROVE  Gathered(g[n+1], S, seqs, n+1)
    <3>1. seqs[n+1] \in Seq(S)
      BY <2>4
    <3>2. CASE n = 0
      <4>1. g[1] = seqs[1] /\ 1 .. 1 = {1}
        BY <2>1, <2>4, <3>2
      <4> QED BY <3>1, <3>2, <4>1 DEF Gathered
    <3>3. CASE n # 0
      <4>1. n \in 1 .. Len(seqs) /\ n + 1 # 1 /\ (n + 1) - 1 = n
        BY <2>4, <3>3
      <4>2. g[n+1] = g[n] \o seqs[n+1]
        BY <2>1, <2>4, <4>1
      <4>3. Gathered(g[n], S, seqs, n)
        BY <2>4, <4>1
      <4>4. \A x : x \in Range(g[n+1]) <=> x \in Range(g[n]) \/ x \in Range(seqs[n+1])
        <5> DEFINE a == g[n]
                   b == seqs[n+1]
        <5>1. a \in Seq(S) /\ b \in Seq(S)  BY <3>1, <4>3 DEF Gathered
        <5> HIDE DEF a, b
        <5>2. /\ Len(a) \in Nat /\ Len(b) \in Nat /\ a \o b \in Seq(S)
              /\ DOMAIN a = 1 .. Len(a) /\ DOMAIN b = 1 .. Len(b)
              /\ DOMAIN (a \o b) = 1 .. Len(a) + Len(b)
              /\ \A i \in 1 .. Len(a) + Len(b) :
                   (a \o b)[i] = IF i <= Len(a) THEN a[i] ELSE b[i - Len(a)]
          BY <5>1
        <5> DEFINE c == a \o b
        <5> HIDE DEF c
        <5>3. ASSUME NEW x \in Range(c) PROVE x \in Range(a) \/ x \in Range(b)
          <6>1. PICK i \in 1 .. Len(a) + Len(b) : x = c[i]  BY <5>2 DEF Range, c
          <6>2. CASE i <= Len(a)
            <7>1. i \in DOMAIN a /\ x = a[i]  BY <5>2, <6>1, <6>2 DEF c
            <7> QED BY <7>1 DEF Range
          <6>3. CASE ~(i <= Len(a))
            <7>1. i - Len(a) \in DOMAIN b /\ x = b[i - Len(a)]  BY <5>2, <6>1, <6>3 DEF c
            <7> QED BY <7>1 DEF Range
          <6> QED BY <6>2, <6>3
        <5>4. ASSUME NEW x \in Range(a) PROVE x \in Range(c)
          <6>1. PICK i \in 1 .. Len(a) : x = a[i]  BY <5>2 DEF Range
          <6>2. i \in DOMAIN c /\ x = c[i]  BY <5>2, <6>1 DEF c
          <6> QED BY <6>2 DEF Range
        <5>5. ASSUME NEW x \in Range(b) PROVE x \in Range(c)
          <6>1. PICK i \in 1 .. Len(b) : x = b[i]  BY <5>2 DEF Range
          <6>2. i + Len(a) \in DOMAIN c /\ x = c[i + Len(a)]  BY <5>2, <6>1 DEF c
          <6> QED BY <6>2 DEF Range
        <5> QED BY <4>2, <5>3, <5>4, <5>5 DEF a, b, c
      <4>5. \A i : i \in 1 .. n+1 <=> i \in 1 .. n \/ i = n+1
        OBVIOUS
      <4>6. g[n+1] \in Seq(S)  BY <3>1, <4>2, <4>3 DEF Gathered
      <4> QED BY <4>3, <4>4, <4>5, <4>6 DEF Gathered
    <3> QED BY <3>2, <3>3
  <2>5. \A n \in Nat : n \in Good => n + 1 \in Good
    BY <2>4
  <2>6. Nat \subseteq Good
    <3> HIDE DEF Good
    <3> QED BY <2>3, <2>5, Induction
  <2>7. Len(seqs) \in Nat /\ Len(seqs) \in 1 .. Len(seqs)
    BY <1>2
  <2> QED BY <2>2, <2>6, <2>7
<1> QED BY <1>1, <1>2

-----------------------------------------------------------------------------
(* Chunks.                                                                 *)

AllPieces == UNION {Range(Pieces[v]) : v \in Versions}

\* The pieces of a source's chunks.
PiecesOf(chunks, s) == {c.piece : c \in {d \in chunks : d.source = s}}

\* docs are chunks of files of ss only, each with all pieces of its text or none.
Cut(docs, ss, texts) ==
  /\ docs \in Seq(Chunk)
  /\ \A s \in Sources : PiecesOf(Range(docs), s) # {} =>
       s \in ss /\ PiecesOf(Range(docs), s) = Range(Pieces[texts[s]])

\* What split_documents makes of the loaded files.
LEMMA ChunksAreCut ==
  ASSUME NEW n \in Nat, NEW ss \in SUBSET Sources, NEW order \in [1 .. n -> ss],
         NEW texts, \A s \in ss : texts[s] \in Versions
  PROVE  Cut(ChunksOf(order, texts), ss, texts)
<1> DEFINE part(i) == Pieces[texts[order[i]]]
           pair == Sources \X AllPieces
           seqs == [i \in DOMAIN order |-> [j \in DOMAIN part(i) |-> <<order[i], part(i)[j]>>]]
           flat == FlattenSeq(seqs)
           docs == [k \in DOMAIN flat |->
                      [source |-> flat[k][1], index |-> k - 1, piece |-> flat[k][2]]]
<1>1. DOMAIN order = 1 .. n
  OBVIOUS
<1>2. ASSUME NEW i \in 1 .. n
      PROVE  /\ order[i] \in ss
             /\ part(i) \in Seq(Range(part(i))) /\ Range(part(i)) \subseteq AllPieces
  <2>1. order[i] \in ss /\ texts[order[i]] \in Versions
    OBVIOUS
  <2> QED BY <2>1, PiecesAssumption DEF AllPieces
<1>3. ASSUME NEW i \in 1 .. n
      PROVE  /\ seqs[i] \in Seq(pair)
             /\ \A x : x \in Range(seqs[i]) <=> \E p \in Range(part(i)) : x = <<order[i], p>>
  <2> DEFINE q == part(i)
             o == order[i]
  <2>1. q \in Seq(Range(q)) /\ Range(q) \subseteq AllPieces /\ o \in Sources
    BY <1>2
  <2>2. seqs[i] = [j \in DOMAIN q |-> <<o, q[j]>>]
    BY <1>1
  <2> HIDE DEF q, o, seqs
  <2>3. Len(q) \in Nat /\ DOMAIN q = 1 .. Len(q) /\ \A j \in 1 .. Len(q) : q[j] \in Range(q)
    BY <2>1
  <2>4. seqs[i] \in Seq(pair)
    BY <2>1, <2>2, <2>3
  <2>5. \A x : x \in Range(seqs[i]) <=> \E p \in Range(q) : x = <<o, p>>
    <3>1. Range(seqs[i]) = {<<o, q[j]>> : j \in DOMAIN q}
      BY <2>2 DEF Range
    <3>2. Range(q) = {q[j] : j \in DOMAIN q}
      BY DEF Range
    <3> QED BY <3>1, <3>2
  <2> QED BY <2>4, <2>5 DEF q, o
<1>4. seqs \in Seq(Seq(pair)) /\ Len(seqs) = n
  <2>1. seqs = [i \in 1 .. n |-> seqs[i]]
    BY <1>1
  <2> HIDE DEF seqs, pair
  <2> QED BY <1>3, <2>1
<1>5. Gathered(flat, pair, seqs, n)
  <2> HIDE DEF seqs, pair
  <2> QED BY <1>4, FlattenGathers
<1>6. ChunksOf(order, texts) = docs
  BY DEF ChunksOf
<1>7. /\ flat \in Seq(pair) /\ Len(flat) \in Nat /\ DOMAIN flat = 1 .. Len(flat)
      /\ \A k \in 1 .. Len(flat) : flat[k][1] \in Sources /\ flat[k][2] \in AllPieces
                                   /\ flat[k] = <<flat[k][1], flat[k][2]>>
  <2> HIDE DEF flat
  <2> QED BY <1>5 DEF Gathered
<1>8. ASSUME NEW s, NEW p
      PROVE  <<s, p>> \in Range(flat) <=>
               \E i \in 1 .. n : s = order[i] /\ p \in Range(part(i))
  <2> DEFINE x == <<s, p>>
  <2> HIDE DEF seqs, flat, part, pair
  <2>1. x \in Range(flat) <=> \E i \in 1 .. n : x \in Range(seqs[i])
    BY <1>5 DEF Gathered
  <2>2. ASSUME NEW i \in 1 .. n
        PROVE  x \in Range(seqs[i]) <=> s = order[i] /\ p \in Range(part(i))
    <3>1. x \in Range(seqs[i]) <=> \E q \in Range(part(i)) : x = <<order[i], q>>
      BY <1>3
    <3>2. \A q : x = <<order[i], q>> <=> s = order[i] /\ p = q
      OBVIOUS
    <3> HIDE DEF x
    <3> QED BY <3>1, <3>2
  <2> QED BY <2>1, <2>2
<1> HIDE DEF flat, seqs, part
<1>9. docs \in Seq(Chunk)
  <2>1. \A k \in 1 .. Len(flat) : docs[k] \in Chunk
    BY <1>7 DEF Chunk, AllPieces
  <2> QED BY <1>7, <2>1
<1>10. ASSUME NEW s, NEW p
       PROVE  p \in PiecesOf(Range(docs), s) <=> <<s, p>> \in Range(flat)
  <2>1. <<s, p>> \in Range(flat) <=>
           \E k \in 1 .. Len(flat) : flat[k][1] = s /\ flat[k][2] = p
    <3> DEFINE x == <<s, p>>
    <3>1. x \in Range(flat) <=> \E k \in 1 .. Len(flat) : x = flat[k]
      BY <1>7 DEF Range
    <3>2. ASSUME NEW k \in 1 .. Len(flat)
          PROVE  x = flat[k] <=> flat[k][1] = s /\ flat[k][2] = p
      BY <1>7
    <3> QED BY <3>1, <3>2
  <2>2. p \in PiecesOf(Range(docs), s) <=>
           \E k \in 1 .. Len(flat) : docs[k].source = s /\ docs[k].piece = p
    BY <1>7 DEF Range, PiecesOf
  <2>3. \A k \in 1 .. Len(flat) : docs[k].source = flat[k][1] /\ docs[k].piece = flat[k][2]
    BY <1>7
  <2> HIDE DEF docs
  <2> QED BY <2>1, <2>2, <2>3
<1> HIDE DEF docs
<1>11. ASSUME NEW s \in Sources, PiecesOf(Range(docs), s) # {}
       PROVE  s \in ss /\ PiecesOf(Range(docs), s) = Range(Pieces[texts[s]])
  <2>1. PICK i \in 1 .. n : s = order[i]
    BY <1>8, <1>10, <1>11
  <2>2. \A p : p \in PiecesOf(Range(docs), s) <=> p \in Range(Pieces[texts[s]])
    BY <1>8, <1>10, <2>1 DEF part
  <2> QED BY <1>2, <2>1, <2>2
<1> QED BY <1>6, <1>9, <1>11 DEF Cut

\* Sources can be listed.
LEMMA Listed ==
  ASSUME NEW ss \in SUBSET Sources
  PROVE  /\ Cardinality(ss) \in Nat
         /\ SetToSeq(ss) \in [1 .. Cardinality(ss) -> ss]
<1>1. IsFiniteSet(ss)
  BY FilesAssumption, FS_Subset
<1>2. Cardinality(ss) \in Nat
  BY <1>1, FS_CardinalityType
<1>3. PICK n \in Nat : ExistsBijection(1 .. n, ss)
  BY <1>1, FS_NatBijection
<1>4. Cardinality(ss) = n
  BY <1>3, FS_CountingElements
<1>5. PICK f : f \in [1 .. Cardinality(ss) -> ss] /\ IsInjective(f)
  BY <1>3, <1>4 DEF ExistsBijection, Bijection, Injection
<1> QED BY <1>2, <1>5 DEF SetToSeq

-----------------------------------------------------------------------------
(* The inductive invariant of the index.                                   *)

Texts       == [Sources -> Versions \cup {Absent}]
Entries     == [Sources -> Entry \cup {Absent}]
BuildPlaces == {"idle", "rmtree", "unlink", "scan", "load", "delete", "add", "saved", "over"}
Work == [pc : BuildPlaces, reset : BOOLEAN, calm : BOOLEAN, prev : Entries,
         seen : Texts, docs : Seq(Chunk), added : SUBSET Chunk]

\* The entry of a file lists chunks of that file.
Owned(m) == \A s \in Sources : m[s] # Absent => \A c \in m[s].ids : c.source = s

\* What a build says of itself wherever it is.
Ordered(r) ==
  /\ r.pc \in {"rmtree", "unlink"} => r.reset
  /\ r.pc = "saved" => ~r.reset
  /\ Owned(r.prev)

IndexTyped ==
  /\ files \in Texts
  /\ store \in SUBSET Chunk
  /\ manifest \in Entries /\ Owned(manifest)
  /\ build \in [Builds -> Work]
  /\ \A b \in Builds : Ordered(build[b])
  /\ torn \in BOOLEAN

\* The chunks listed for a file are those of the text its entry names.
Says(m) ==
  \A s \in Sources : m[s] # Absent /\ m[s].ids # {} =>
    PiecesOf(m[s].ids, s) = Range(Pieces[m[s].hash])
Exact(st, m) == st = IdsOf(m, Sources) /\ Says(m)

Working   == BuildPlaces \ {"idle", "over"}
Dirty(r)  == r.pc \in Working /\ (r.reset \/ r.pc = "add")
OthersClean(b) == \A x \in Active \ {b} : ~Dirty(build[x])
Same(r)   == {s \in Sources : r.seen[s] # Absent /\ r.prev[s] # Absent
                              /\ r.prev[s].hash = r.seen[s]}
Differs(r) == {s \in Sources : r.seen[s] # Absent} \ Same(r)

\* What a build that nothing disturbs knows of the files, the collection st and
\* the manifest m, at each of its places.
Progress(r, st, m, fs, tn) ==
  /\ r.reset /\ r.pc = "unlink" => st = {}
  /\ r.reset /\ r.pc \in {"scan", "load", "delete", "add"} => m = NoEntries
  /\ r.reset /\ r.pc \in {"scan", "load", "delete"} => st = {}
  /\ r.pc \in {"load", "delete", "add"} => r.prev = m
  /\ r.pc = "load" => r.seen = fs
  /\ r.pc \in {"delete", "add"} =>
       \A s \in Sources : PiecesOf(r.added, s) # {} =>
         s \in Differs(r) /\ PiecesOf(r.added, s) = Range(Pieces[r.seen[s]])
  /\ r.pc = "delete" => r.added = Range(r.docs)
  /\ r.pc = "add" => Range(r.docs) \subseteq r.added
  /\ r.pc = "add" /\ (r.reset \/ ~tn) =>
       /\ Says(r.prev)
       /\ st \subseteq IdsOf(r.prev, Same(r)) \cup r.added
       /\ IdsOf(r.prev, Same(r)) \cup (r.added \ Range(r.docs)) \subseteq st

\* A build that nothing disturbs is the only one.
Unshared == \A b \in Active : build[b].calm => Active = {b}
Sound    == ~torn /\ (\A b \in Active : ~Dirty(build[b])) => Exact(store, manifest)
OnCourse == \A b \in Active : build[b].calm => Progress(build[b], store, manifest, files, torn)

IndexInv == IndexTyped /\ Unshared /\ Sound /\ OnCourse

-----------------------------------------------------------------------------
(* Steps.                                                                  *)

\* The builds at work, by their places.
LEMMA ActiveIs == IndexTyped => Active = {b \in Builds : build[b].pc \in Working}
  BY DEF IndexTyped, Active, Working, Work

\* detect_index_changes, by the record of the build.
LEMMA SameIs ==
  ASSUME NEW b \in Builds
  PROVE  Unchanged(b) = Same(build[b]) /\ Changed(b) = Differs(build[b])
BY DEF Unchanged, Changed, Same, Differs

\* A step of a build at work: what has to be shown of its record, and of the
\* index when no other build is half way.
LEMMA OwnStep ==
  ASSUME IndexInv, NEW b \in Active, NEW rec \in Work, Becomes(b, rec),
         rec.pc # "idle", rec.pc \in Working => rec.calm = build[b].calm,
         Ordered(rec), UNCHANGED files, store' \in SUBSET Chunk,
         manifest' \in Entries, Owned(manifest'), torn' \in BOOLEAN,
         rec.pc \in Working /\ rec.calm => Progress(rec, store', manifest', files, torn'),
         ~torn' /\ ~Dirty(rec) /\ OthersClean(b) => Exact(store', manifest')
  PROVE  IndexInv'
<1>1. IndexTyped /\ Unshared /\ Sound /\ OnCourse
  BY DEF IndexInv
<1>2. Active = {x \in Builds : build[x].pc \in Working}
  BY <1>1, ActiveIs
<1>3. /\ build' = [build EXCEPT ![b] = rec] /\ b \in Builds
      /\ build' \in [Builds -> Work] /\ build'[b] = rec
      /\ \A x \in Builds : x # b => build'[x] = build[x]
  BY <1>1, <1>2 DEF Becomes, IndexTyped
<1>4. IndexTyped'
  BY <1>1, <1>3 DEF IndexTyped, Owned, Ordered
<1>5. Active' = {x \in Builds : build'[x].pc \in Working}
  BY <1>3 DEF Active, Working, Work
<1>6. Active' \subseteq Active /\ Active' \ {b} = Active \ {b}
  BY <1>2, <1>3, <1>5
<1>7. Unshared'
  BY <1>1, <1>3, <1>5, <1>6 DEF Unshared
<1>8. Sound'
  <2> SUFFICES ASSUME ~torn', \A x \in Active' : ~Dirty(build'[x])
               PROVE  Exact(store', manifest')
    BY DEF Sound, Exact, IdsOf, Says
  <2>1. ~Dirty(rec)
    BY <1>3, <1>5 DEF Dirty
  <2>2. OthersClean(b)
    BY <1>3, <1>6, <1>2 DEF OthersClean
  <2> QED BY <2>1, <2>2
<1>9. OnCourse'
  <2> SUFFICES ASSUME NEW x \in Active', build'[x].calm
               PROVE  Progress(build'[x], store', manifest', files', torn')
    BY DEF OnCourse
  <2>1. CASE x = b
    BY <1>3, <1>5, <2>1
  <2>2. CASE x # b
    <3>1. x \in Active /\ build[x].calm /\ Active = {x}
      BY <1>1, <1>2, <1>3, <1>6, <2>2 DEF Unshared
    <3> QED BY <3>1, <2>2
  <2> QED BY <2>1, <2>2
<1> QED BY <1>4, <1>7, <1>8, <1>9 DEF IndexInv

\* What is known of a build at work.
LEMMA AtWork ==
  ASSUME IndexInv, NEW b \in Builds, build[b].pc \in Working
  PROVE  /\ b \in Active /\ build[b] \in Work /\ Ordered(build[b])
         /\ files \in Texts /\ store \in SUBSET Chunk /\ manifest \in Entries
         /\ Owned(manifest) /\ torn \in BOOLEAN
         /\ build[b].calm => Active = {b} /\ Progress(build[b], store, manifest, files, torn)
         /\ ~torn /\ ~Dirty(build[b]) /\ OthersClean(b) => Exact(store, manifest)
<1>1. IndexTyped /\ Unshared /\ Sound /\ OnCourse
  BY DEF IndexInv
<1>2. b \in Active
  BY <1>1, ActiveIs
<1>3. /\ build[b] \in Work /\ Ordered(build[b])
      /\ files \in Texts /\ store \in SUBSET Chunk /\ manifest \in Entries
      /\ Owned(manifest) /\ torn \in BOOLEAN
  BY <1>1 DEF IndexTyped
<1>4. build[b].calm => Active = {b} /\ Progress(build[b], store, manifest, files, torn)
  BY <1>1, <1>2 DEF Unshared, OnCourse
<1>5. ASSUME ~torn, ~Dirty(build[b]), OthersClean(b)
      PROVE  Exact(store, manifest)
  BY <1>1, <1>5 DEF Sound, OthersClean
<1> QED BY <1>2, <1>3, <1>4, <1>5

\* A reset empties the collection first.
LEMMA RemoveCollectionStep ==
  ASSUME IndexInv, NEW b \in Builds, RemoveCollection(b)
  PROVE  IndexInv'
<1> DEFINE r == build[b]
           rec == [r EXCEPT !.pc = "unlink"]
<1>1. /\ r.pc = "rmtree" /\ store' = {} /\ Becomes(b, rec)
      /\ UNCHANGED <<files, manifest, torn>>
  BY DEF RemoveCollection, BuildAt
<1>2. r.pc \in Working /\ "unlink" \in Working
  BY <1>1 DEF Working, BuildPlaces
<1>3. r \in Work /\ Ordered(r) /\ r.reset
  BY <1>1, <1>2, AtWork DEF Ordered
<1>4. rec \in Work /\ rec.pc = "unlink" /\ rec.calm = r.calm /\ rec.reset /\ rec.prev = r.prev
  BY <1>3 DEF Work, BuildPlaces
<1> HIDE DEF rec
<1>5. Ordered(rec)
  BY <1>3, <1>4 DEF Ordered
<1>6. Dirty(rec)
  BY <1>2, <1>4 DEF Dirty
<1>7. Progress(rec, store', manifest', files, torn')
  BY <1>1, <1>4 DEF Progress
<1> QED BY <1>1, <1>2, <1>4, <1>5, <1>6, <1>7, AtWork, OwnStep

\* Then the manifest.
LEMMA RemoveManifestStep ==
  ASSUME IndexInv, NEW b \in Builds, RemoveManifest(b)
  PROVE  IndexInv'
<1> DEFINE r == build[b]
           rec == [r EXCEPT !.pc = "scan"]
<1>1. /\ r.pc = "unlink" /\ manifest' = NoEntries /\ Becomes(b, rec)
      /\ UNCHANGED <<files, store, torn>>
  BY DEF RemoveManifest, BuildAt
<1>2. r.pc \in Working /\ "scan" \in Working
  BY <1>1 DEF Working, BuildPlaces
<1>3. r \in Work /\ Ordered(r) /\ r.reset
  BY <1>1, <1>2, AtWork DEF Ordered
<1>4. rec \in Work /\ rec.pc = "scan" /\ rec.calm = r.calm /\ rec.reset /\ rec.prev = r.prev
  BY <1>3 DEF Work, BuildPlaces
<1> HIDE DEF rec
<1>5. Ordered(rec)
  BY <1>3, <1>4 DEF Ordered
<1>6. Dirty(rec)
  BY <1>2, <1>4 DEF Dirty
<1>7. r.calm => Progress(rec, store', manifest', files, torn')
  BY <1>1, <1>2, <1>3, <1>4, AtWork DEF Progress
<1>8. NoEntries \in Entries /\ Owned(NoEntries)
  BY DEF NoEntries, Entries, Owned
<1>9. /\ b \in Active /\ rec.pc # "idle" /\ UNCHANGED files /\ store' \in SUBSET Chunk
      /\ manifest' \in Entries /\ Owned(manifest') /\ torn' \in BOOLEAN
  BY <1>1, <1>2, <1>4, <1>8, AtWork
<1> HIDE DEF r
<1> QED BY <1>1, <1>4, <1>5, <1>6, <1>7, <1>9, OwnStep DEF r

\* A build that nothing disturbs has read the manifest in force.
LEMMA ScanStep ==
  ASSUME IndexInv, NEW b \in Builds, Scan(b)
  PROVE  IndexInv'
<1> DEFINE r == build[b]
           before == IF r.reset THEN NoEntries ELSE manifest
           rec == [r EXCEPT !.pc = "load", !.seen = files, !.prev = before]
<1>1. /\ r.pc = "scan" /\ Becomes(b, rec)
      /\ UNCHANGED <<files, manifest, store, torn>>
  BY DEF Scan, BuildAt
<1>2. r.pc \in Working /\ "load" \in Working
  BY <1>1 DEF Working, BuildPlaces
<1>3. /\ r \in Work /\ Ordered(r) /\ manifest \in Entries /\ Owned(manifest) /\ files \in Texts
      /\ store \in SUBSET Chunk /\ torn \in BOOLEAN /\ b \in Active
  BY <1>1, <1>2, AtWork
<1>4. before \in Entries /\ Owned(before)
  BY <1>3 DEF NoEntries, Entries, Owned
<1>5. r.calm /\ r.reset => manifest = NoEntries
  BY <1>1, <1>2, AtWork DEF Progress
<1>6. r.calm => before = manifest
  BY <1>5
<1> HIDE DEF before
<1>7. /\ rec \in Work /\ rec.pc = "load" /\ rec.calm = r.calm /\ rec.reset = r.reset
      /\ rec.prev = before /\ rec.seen = files
  BY <1>3, <1>4 DEF Work, BuildPlaces
<1> HIDE DEF rec
<1>8. Ordered(rec)
  BY <1>4, <1>7 DEF Ordered
<1>9. Dirty(rec) <=> Dirty(r)
  BY <1>1, <1>2, <1>7 DEF Dirty
<1>10. r.calm => Progress(rec, store', manifest', files, torn')
  BY <1>1, <1>2, <1>6, <1>7, AtWork DEF Progress
<1>11. ~torn' /\ ~Dirty(rec) /\ OthersClean(b) => Exact(store', manifest')
  BY <1>1, <1>2, <1>9, AtWork
<1> QED BY <1>1, <1>2, <1>3, <1>7, <1>8, <1>10, <1>11, OwnStep

\* Its chunks are those of the texts it hashed.
LEMMA LoadStep ==
  ASSUME IndexInv, NEW b \in Builds, Load(b)
  PROVE  IndexInv'
<1> DEFINE r == build[b]
<1>1. r.pc = "load" /\ UNCHANGED <<files, manifest, store, torn>>
  BY DEF Load, BuildAt
<1>2. r.pc \in Working /\ "delete" \in Working
  BY <1>1 DEF Working, BuildPlaces
<1>3. /\ r \in Work /\ Ordered(r) /\ manifest \in Entries /\ Owned(manifest) /\ files \in Texts
      /\ store \in SUBSET Chunk /\ torn \in BOOLEAN /\ b \in Active
  BY <1>1, <1>2, AtWork
<1>4. PICK loaded \in SUBSET {s \in Differs(r) : files[s] # Absent} :
        \E order \in SetToSeqs(loaded) :
          Becomes(b, [r EXCEPT !.pc = "delete", !.docs = ChunksOf(order, files),
                               !.added = Range(ChunksOf(order, files))])
  BY SameIs DEF Load
<1>5. PICK order \in SetToSeqs(loaded) :
        Becomes(b, [r EXCEPT !.pc = "delete", !.docs = ChunksOf(order, files),
                             !.added = Range(ChunksOf(order, files))])
  BY <1>4
<1> DEFINE docs == ChunksOf(order, files)
           rec == [r EXCEPT !.pc = "delete", !.docs = docs, !.added = Range(docs)]
<1>6. loaded \in SUBSET Sources /\ loaded \subseteq Differs(r) /\ \A s \in loaded : files[s] \in Versions
  BY <1>3, <1>4 DEF Differs, Texts
<1>7. Cardinality(loaded) \in Nat /\ order \in [1 .. Cardinality(loaded) -> loaded]
  BY <1>5, <1>6, Listed DEF SetToSeqs
<1>8. Cut(docs, loaded, files)
  BY <1>6, <1>7, ChunksAreCut
<1>9. Becomes(b, rec)
  BY <1>5
<1> HIDE DEF docs
<1>10. docs \in Seq(Chunk) /\ Range(docs) \in SUBSET Chunk
  BY <1>8 DEF Cut, Range
<1>11. /\ rec \in Work /\ rec.pc = "delete" /\ rec.calm = r.calm /\ rec.reset = r.reset
       /\ rec.prev = r.prev /\ rec.seen = r.seen /\ rec.docs = docs /\ rec.added = Range(docs)
  BY <1>3, <1>10 DEF Work, BuildPlaces
<1> HIDE DEF rec
<1>12. Ordered(rec)
  BY <1>3, <1>11 DEF Ordered
<1>13. Dirty(rec) <=> Dirty(r)
  BY <1>1, <1>2, <1>11 DEF Dirty
<1>14. ASSUME r.calm PROVE Progress(rec, store', manifest', files', torn')
  <2>1. Progress(r, store, manifest, files, torn)
    BY <1>2, <1>14, AtWork
  <2>2. Differs(rec) = Differs(r)
    BY <1>11 DEF Differs, Same
  <2>3. r.seen = files
    BY <1>1, <2>1 DEF Progress
  <2>4. \A s \in Sources : PiecesOf(rec.added, s) # {} =>
          s \in Differs(rec) /\ PiecesOf(rec.added, s) = Range(Pieces[rec.seen[s]])
    BY <1>6, <1>8, <1>11, <2>2, <2>3 DEF Cut
  <2> QED BY <1>1, <1>11, <2>1, <2>4 DEF Progress
<1>15. ~torn' /\ ~Dirty(rec) /\ OthersClean(b) => Exact(store', manifest')
  BY <1>1, <1>2, <1>13, AtWork
<1> HIDE DEF r
<1> QED BY <1>1, <1>2, <1>3, <1>9, <1>11, <1>12, <1>14, <1>15, OwnStep DEF r

\* Entries keep what they own apart.
LEMMA OwnedApart ==
  ASSUME NEW m \in Entries, Owned(m), NEW ss \in SUBSET Sources
  PROVE  IdsOf(m, Sources) \ IdsOf(m, Sources \ ss) = IdsOf(m, ss)
<1>1. \A c, s : s \in Sources /\ m[s] # Absent /\ c \in m[s].ids => c.source = s
  BY DEF Owned
<1>2. \A c : c \in IdsOf(m, Sources) <=> \E s \in Sources : m[s] # Absent /\ c \in m[s].ids
  BY DEF IdsOf
<1>3. \A c : c \in IdsOf(m, Sources \ ss) <=> \E s \in Sources \ ss : m[s] # Absent /\ c \in m[s].ids
  BY DEF IdsOf
<1>4. \A c : c \in IdsOf(m, ss) <=> \E s \in ss : m[s] # Absent /\ c \in m[s].ids
  BY DEF IdsOf
<1>5. ASSUME NEW c, NEW s \in ss, m[s] # Absent, c \in m[s].ids PROVE c \notin IdsOf(m, Sources \ ss)
  <2>1. c.source = s
    BY <1>1, <1>5
  <2> SUFFICES ASSUME NEW x \in Sources \ ss, m[x] # Absent, c \in m[x].ids PROVE FALSE
    BY <1>3
  <2>2. c.source = x
    BY <1>1
  <2> QED BY <2>1, <2>2
<1>6. ASSUME NEW c PROVE c \in IdsOf(m, Sources) \ IdsOf(m, Sources \ ss) <=> c \in IdsOf(m, ss)
  BY <1>2, <1>3, <1>4, <1>5
<1> QED BY <1>6

\* What is left are the chunks of unchanged files.
LEMMA DeleteOldChunksStep ==
  ASSUME IndexInv, NEW b \in Builds, DeleteOldChunks(b)
  PROVE  IndexInv'
<1> DEFINE r == build[b]
           gone == IdsOf(r.prev, ChangedOrGone(b))
           rec == [r EXCEPT !.pc = "add"]
<1>1. /\ r.pc = "delete" /\ UNCHANGED <<files, manifest, torn>>
      /\ store' = store \ gone /\ Becomes(b, rec)
  BY DEF DeleteOldChunks, BuildAt
<1>2. r.pc \in Working /\ "add" \in Working
  BY <1>1 DEF Working, BuildPlaces
<1>3. /\ r \in Work /\ Ordered(r) /\ manifest \in Entries /\ Owned(manifest) /\ files \in Texts
      /\ store \in SUBSET Chunk /\ torn \in BOOLEAN /\ b \in Active
      /\ r.prev \in Entries /\ Owned(r.prev)
  BY <1>1, <1>2, AtWork DEF Work, Ordered
<1>4. /\ rec \in Work /\ rec.pc = "add" /\ rec.calm = r.calm /\ rec.reset = r.reset
      /\ rec.prev = r.prev /\ rec.seen = r.seen /\ rec.docs = r.docs /\ rec.added = r.added
  BY <1>2, <1>3 DEF Work, BuildPlaces
<1> HIDE DEF rec
<1>5. Ordered(rec) /\ Dirty(rec)
  BY <1>2, <1>3, <1>4 DEF Ordered, Dirty
<1>6. gone = IdsOf(r.prev, Sources \ Same(r))
  <2>1. ChangedOrGone(b) = Sources \ Same(r)
    BY SameIs DEF ChangedOrGone, Differs, Same
  <2> QED BY <2>1
<1> HIDE DEF gone
<1>7. ASSUME r.calm PROVE Progress(rec, store', manifest', files', torn')
  <2>1. Progress(r, store, manifest, files, torn) /\ Active = {b}
    BY <1>2, <1>7, AtWork
  <2>2. Differs(rec) = Differs(r) /\ Same(rec) = Same(r)
    BY <1>4 DEF Differs, Same
  <2>3. r.prev = manifest /\ r.added = Range(r.docs)
    BY <1>1, <2>1 DEF Progress
  <2>4. ASSUME r.reset \/ ~torn PROVE Exact(store, manifest)
    <3>1. CASE r.reset
      <4>1. store = {} /\ manifest = NoEntries
        BY <1>1, <2>1, <3>1 DEF Progress
      <4> QED BY <4>1 DEF Exact, IdsOf, Says, NoEntries
    <3>2. CASE ~r.reset
      <4>1. ~Dirty(r) /\ OthersClean(b)
        BY <1>1, <2>1, <3>2 DEF Dirty, OthersClean
      <4> QED BY <1>2, <2>4, <3>2, <4>1, AtWork
    <3> QED BY <3>1, <3>2
  <2>5. ASSUME r.reset \/ ~torn
        PROVE  Says(r.prev) /\ store' = IdsOf(r.prev, Same(r))
    <3>1. store = IdsOf(r.prev, Sources) /\ Says(r.prev)
      BY <2>3, <2>4, <2>5 DEF Exact
    <3>2. Same(r) \in SUBSET Sources
      BY DEF Same
    <3> QED BY <1>1, <1>3, <1>6, <3>1, <3>2, OwnedApart
  <2>6. r.reset => manifest = NoEntries
    BY <1>1, <2>1 DEF Progress
  <2>7. \A s \in Sources : PiecesOf(r.added, s) # {} =>
          s \in Differs(r) /\ PiecesOf(r.added, s) = Range(Pieces[r.seen[s]])
    BY <1>1, <2>1 DEF Progress
  <2>8. r.reset \/ ~torn =>
          /\ store' \subseteq IdsOf(r.prev, Same(r)) \cup r.added
          /\ IdsOf(r.prev, Same(r)) \cup (r.added \ Range(r.docs)) \subseteq store'
    BY <2>3, <2>5
  <2> QED BY <1>1, <1>4, <2>2, <2>3, <2>5, <2>6, <2>7, <2>8 DEF Progress
<1>8. store' \in SUBSET Chunk
  BY <1>1, <1>3
<1> HIDE DEF r
<1>9. rec.pc # "idle" /\ (rec.pc \in Working => rec.calm = r.calm)
  BY <1>4
<1> QED BY <1>1, <1>3, <1>4, <1>5, <1>7, <1>8, <1>9, OwnStep DEF r

\* Each batch moves chunks from the build to the collection.
LEMMA AddBatchStep ==
  ASSUME IndexInv, NEW b \in Builds, AddBatch(b)
  PROVE  IndexInv'
<1> DEFINE r == build[b]
           n == IF Len(r.docs) < BatchSize THEN Len(r.docs) ELSE BatchSize
           batch == SubSeq(r.docs, 1, n)
           rest == SubSeq(r.docs, n + 1, Len(r.docs))
           rec == [r EXCEPT !.docs = rest]
<1>1. /\ r.pc = "add" /\ UNCHANGED <<files, manifest, torn>>
      /\ store' = store \cup Range(batch) /\ Becomes(b, rec)
  BY DEF AddBatch, BuildAt
<1>2. r.pc \in Working
  BY <1>1 DEF Working, BuildPlaces
<1>3. /\ r \in Work /\ Ordered(r) /\ manifest \in Entries /\ Owned(manifest) /\ files \in Texts
      /\ store \in SUBSET Chunk /\ torn \in BOOLEAN /\ b \in Active
      /\ r.docs \in Seq(Chunk)
  BY <1>1, <1>2, AtWork DEF Work
<1>4. /\ batch \in Seq(Chunk) /\ rest \in Seq(Chunk)
      /\ Range(r.docs) = Range(batch) \cup Range(rest)
  <2> DEFINE d == r.docs
             k == Len(d)
  <2>1. d \in Seq(Chunk) /\ k \in Nat /\ n \in 0 .. k
    BY <1>3, BatchAssumption
  <2> HIDE DEF d, n
  <2>2. /\ SubSeq(d, 1, n) \in Seq(Chunk) /\ Len(SubSeq(d, 1, n)) = n
        /\ \A i \in 1 .. n : SubSeq(d, 1, n)[i] = d[i]
    BY <2>1
  <2>3. /\ SubSeq(d, n + 1, k) \in Seq(Chunk) /\ Len(SubSeq(d, n + 1, k)) = k - n
        /\ \A i \in 1 .. k - n : SubSeq(d, n + 1, k)[i] = d[n + i]
    BY <2>1
  <2>4. ASSUME NEW i \in 1 .. k
        PROVE  d[i] \in Range(SubSeq(d, 1, n)) \cup Range(SubSeq(d, n + 1, k))
    <3> DEFINE e == SubSeq(d, 1, n)
               f == SubSeq(d, n + 1, k)
    <3>1. DOMAIN e = 1 .. n /\ DOMAIN f = 1 .. k - n
      BY <2>1, <2>2, <2>3
    <3> HIDE DEF e, f
    <3>2. CASE i <= n
      <4>1. i \in DOMAIN e
        BY <2>1, <3>1, <3>2
      <4>2. e[i] = d[i]
        BY <2>2, <3>1, <4>1 DEF e
      <4> QED BY <4>1, <4>2 DEF Range, e
    <3>3. CASE ~(i <= n)
      <4>1. i - n \in DOMAIN f /\ n + (i - n) = i
        BY <2>1, <3>1, <3>3
      <4>2. f[i - n] = d[i]
        BY <2>3, <3>1, <4>1 DEF f
      <4> QED BY <4>1, <4>2 DEF Range, f
    <3> QED BY <3>2, <3>3
  <2>5. ASSUME NEW x \in Range(SubSeq(d, 1, n)) PROVE x \in Range(d)
    <3>1. PICK i \in 1 .. n : x = SubSeq(d, 1, n)[i]
      BY <2>1, <2>2 DEF Range
    <3>2. i \in 1 .. k
      BY <2>1
    <3> QED BY <2>1, <2>2, <3>1, <3>2 DEF Range
  <2>6. ASSUME NEW x \in Range(SubSeq(d, n + 1, k)) PROVE x \in Range(d)
    <3>1. PICK i \in 1 .. k - n : x = SubSeq(d, n + 1, k)[i]
      BY <2>1, <2>3 DEF Range
    <3>2. n + i \in 1 .. k
      BY <2>1
    <3> QED BY <2>1, <2>3, <3>1, <3>2 DEF Range
  <2>7. Range(d) = {d[i] : i \in 1 .. k}
    BY <2>1 DEF Range
  <2> QED BY <2>2, <2>3, <2>4, <2>5, <2>6, <2>7 DEF d
<1> HIDE DEF batch, rest, n
<1>5. /\ rec \in Work /\ rec.pc = "add" /\ rec.calm = r.calm /\ rec.reset = r.reset
      /\ rec.prev = r.prev /\ rec.seen = r.seen /\ rec.docs = rest /\ rec.added = r.added
  BY <1>1, <1>3, <1>4 DEF Work
<1> HIDE DEF rec
<1>6. Ordered(rec) /\ Dirty(rec)
  BY <1>1, <1>2, <1>3, <1>5 DEF Ordered, Dirty
<1>7. ASSUME r.calm PROVE Progress(rec, store', manifest', files', torn')
  <2>1. Progress(r, store, manifest, files, torn)
    BY <1>2, <1>7, AtWork
  <2>2. Differs(rec) = Differs(r) /\ Same(rec) = Same(r)
    BY <1>5 DEF Differs, Same
  <2>3. /\ r.prev = manifest /\ Range(r.docs) \subseteq r.added
        /\ r.reset => manifest = NoEntries
        /\ \A s \in Sources : PiecesOf(r.added, s) # {} =>
             s \in Differs(r) /\ PiecesOf(r.added, s) = Range(Pieces[r.seen[s]])
    BY <1>1, <2>1 DEF Progress
  <2>4. r.reset \/ ~torn =>
          /\ Says(r.prev)
          /\ store \subseteq IdsOf(r.prev, Same(r)) \cup r.added
          /\ IdsOf(r.prev, Same(r)) \cup (r.added \ Range(r.docs)) \subseteq store
    BY <1>1, <2>1 DEF Progress
  <2>5. r.reset \/ ~torn =>
          /\ store' \subseteq IdsOf(r.prev, Same(r)) \cup r.added
          /\ IdsOf(r.prev, Same(r)) \cup (r.added \ Range(rest)) \subseteq store'
    BY <1>1, <1>4, <2>3, <2>4
  <2> QED BY <1>1, <1>4, <1>5, <2>2, <2>3, <2>4, <2>5 DEF Progress
<1>8. store' \in SUBSET Chunk
  BY <1>1, <1>3, <1>4 DEF Range
<1> HIDE DEF r
<1>9. rec.pc # "idle" /\ (rec.pc \in Working => rec.calm = r.calm)
  BY <1>5
<1> QED BY <1>1, <1>3, <1>5, <1>6, <1>7, <1>8, <1>9, OwnStep DEF r

\* A build that is new, or over, or answered.
LEMMA NewBuildTyped ==
  ASSUME NEW p \in BuildPlaces, NEW c \in BOOLEAN
  PROVE  /\ [NewBuild EXCEPT !.pc = p] \in Work
         /\ [NewBuild EXCEPT !.pc = p].pc = p
         /\ [NewBuild EXCEPT !.pc = p, !.calm = c] \in Work
         /\ [NewBuild EXCEPT !.pc = p, !.calm = c].pc = p
         /\ [NewBuild EXCEPT !.pc = p, !.calm = c].calm = c
         /\ ~[NewBuild EXCEPT !.pc = p, !.calm = c].reset
         /\ Owned([NewBuild EXCEPT !.pc = p].prev)
         /\ Owned([NewBuild EXCEPT !.pc = p, !.calm = c].prev)
<1>1. NoEntries \in Entries /\ NoEntries \in Texts /\ << >> \in Seq(Chunk) /\ Owned(NoEntries)
  BY DEF NoEntries, Entries, Texts, Owned
<1> QED BY <1>1 DEF NewBuild, Work

\* The entries a build saves: of their own files, and typed.
LEMMA NextManifestTyped ==
  ASSUME NEW b \in Builds, build[b] \in Work
  PROVE  /\ NextManifest(b) \in Entries
         /\ \A s \in Sources :
              /\ NextManifest(b)[s] # Absent <=> build[b].seen[s] # Absent
              /\ s \in Same(build[b]) =>
                   NextManifest(b)[s].hash = build[b].prev[s].hash
                   /\ NextManifest(b)[s].ids = build[b].prev[s].ids
              /\ s \in Differs(build[b]) =>
                   NextManifest(b)[s].hash = build[b].seen[s]
                   /\ NextManifest(b)[s].ids = {c \in build[b].added : c.source = s}
<1> DEFINE r == build[b]
           entry(s) == [hash |-> r.seen[s],
                        ids  |-> IF s \in Same(r) THEN r.prev[s].ids
                                 ELSE {c \in r.added : c.source = s}]
<1>1. NextManifest(b) = [s \in Sources |-> IF r.seen[s] = Absent THEN Absent ELSE entry(s)]
  BY SameIs DEF NextManifest
<1>2. r.seen \in Texts /\ r.prev \in Entries /\ r.added \in SUBSET Chunk
  BY DEF Work
<1> HIDE DEF r
<1>3. ASSUME NEW s \in Sources, r.seen[s] # Absent
      PROVE  entry(s) \in Entry /\ entry(s) # Absent
  <2>1. r.seen[s] \in Versions
    BY <1>2, <1>3 DEF Texts
  <2>2. s \in Same(r) => r.prev[s] \in Entry
    BY <1>2 DEF Same, Entries
  <2>3. s \in Same(r) => r.prev[s].ids \in SUBSET Chunk
    BY <2>2 DEF Entry
  <2>4. {c \in r.added : c.source = s} \in SUBSET Chunk
    BY <1>2
  <2>5. entry(s) \in Entry
    BY <2>1, <2>3, <2>4 DEF Entry
  <2> QED BY <2>5, AbsentAssumption
<1>4. NextManifest(b) \in Entries
  <2> HIDE DEF entry
  <2> QED BY <1>1, <1>3 DEF Entries
<1>5. ASSUME NEW s \in Sources
      PROVE  /\ NextManifest(b)[s] # Absent <=> r.seen[s] # Absent
             /\ s \in Same(r) => NextManifest(b)[s].hash = r.prev[s].hash
                                 /\ NextManifest(b)[s].ids = r.prev[s].ids
             /\ s \in Differs(r) => NextManifest(b)[s].hash = r.seen[s]
                                    /\ NextManifest(b)[s].ids = {c \in r.added : c.source = s}
  <2>1. NextManifest(b)[s] # Absent <=> r.seen[s] # Absent
    BY <1>1, <1>3
  <2>2. s \in Same(r) => r.seen[s] # Absent /\ r.seen[s] = r.prev[s].hash
    BY DEF Same
  <2>3. s \in Differs(r) => r.seen[s] # Absent /\ s \notin Same(r)
    BY DEF Differs
  <2> QED BY <1>1, <2>1, <2>2, <2>3
<1> QED BY <1>4, <1>5 DEF r

\* The manifest then lists what the collection holds.
LEMMA SaveManifestStep ==
  ASSUME IndexInv, NEW b \in Builds, SaveManifest(b)
  PROVE  IndexInv'
<1> DEFINE r == build[b]
           m == NextManifest(b)
           rec == IF b \in ApiBuilds
                  THEN [NewBuild EXCEPT !.pc = "saved", !.calm = r.calm] ELSE Over(b)
<1>1. /\ r.pc = "add" /\ r.docs = << >> /\ UNCHANGED <<files, store>>
      /\ manifest' = m /\ Becomes(b, rec) /\ torn' = (~r.calm \/ (torn /\ ~r.reset))
  BY DEF SaveManifest, BuildAt
<1>2. r.pc \in Working
  BY <1>1 DEF Working, BuildPlaces
<1>3. /\ r \in Work /\ Ordered(r) /\ files \in Texts
      /\ store \in SUBSET Chunk /\ torn \in BOOLEAN /\ b \in Active
      /\ r.prev \in Entries /\ Owned(r.prev) /\ r.calm \in BOOLEAN /\ r.reset \in BOOLEAN
      /\ r.added \in SUBSET Chunk /\ r.seen \in Texts
  BY <1>1, <1>2, AtWork DEF Work, Ordered
<1>4. /\ rec \in Work /\ rec.pc \in {"saved", "over"}
      /\ rec.pc = "saved" => rec.calm = r.calm /\ ~rec.reset
      /\ Owned(rec.prev)
  BY <1>3, NewBuildTyped DEF Over, BuildPlaces
<1>5. /\ m \in Entries
      /\ \A s \in Sources :
           /\ m[s] # Absent <=> r.seen[s] # Absent
           /\ s \in Same(r) => m[s].hash = r.prev[s].hash /\ m[s].ids = r.prev[s].ids
           /\ s \in Differs(r) => m[s].hash = r.seen[s] /\ m[s].ids = {c \in r.added : c.source = s}
  BY <1>3, NextManifestTyped
<1> HIDE DEF rec, m
<1>6. \A s \in Sources : r.seen[s] # Absent <=> s \in Same(r) \/ s \in Differs(r)
  BY DEF Same, Differs
<1>7. \A s \in Same(r) : s \in Sources /\ r.prev[s] # Absent
  BY DEF Same
<1>8. Owned(m)
  <2> SUFFICES ASSUME NEW s \in Sources, m[s] # Absent, NEW c \in m[s].ids
               PROVE  c.source = s
    BY DEF Owned
  <2>1. CASE s \in Same(r)
    BY <1>3, <1>5, <1>7, <2>1 DEF Owned
  <2>2. CASE s \in Differs(r)
    BY <1>5, <2>2
  <2> QED BY <1>5, <1>6, <2>1, <2>2
<1>9. ASSUME ~torn' PROVE Exact(store, m)
  <2>1. r.calm /\ (r.reset \/ ~torn)
    BY <1>1, <1>3, <1>9
  <2>2. Progress(r, store, manifest, files, torn)
    BY <1>2, <2>1, AtWork
  <2>3. Range(r.docs) = {}
    BY <1>1 DEF Range
  <2>4. \A s \in Sources : PiecesOf(r.added, s) # {} =>
          s \in Differs(r) /\ PiecesOf(r.added, s) = Range(Pieces[r.seen[s]])
    BY <1>1, <2>2 DEF Progress
  <2>5. Says(r.prev) /\ store = IdsOf(r.prev, Same(r)) \cup r.added
    <3>1. /\ Says(r.prev) /\ store \subseteq IdsOf(r.prev, Same(r)) \cup r.added
          /\ IdsOf(r.prev, Same(r)) \cup (r.added \ Range(r.docs)) \subseteq store
      BY <1>1, <2>1, <2>2 DEF Progress
    <3> QED BY <2>3, <3>1
  <2>6. ASSUME NEW c \in r.added PROVE c.source \in Differs(r)
    <3>1. c.source \in Sources
      BY <1>3, <2>6 DEF Chunk
    <3>2. c.piece \in PiecesOf(r.added, c.source)
      BY <2>6 DEF PiecesOf
    <3> QED BY <2>4, <3>1, <3>2
  <2>7. ASSUME NEW c PROVE c \in store <=> c \in IdsOf(m, Sources)
    <3>1. c \in IdsOf(m, Sources) <=> \E s \in Sources : m[s] # Absent /\ c \in m[s].ids
      BY DEF IdsOf
    <3>2. c \in IdsOf(r.prev, Same(r)) <=> \E s \in Same(r) : c \in r.prev[s].ids
      BY <1>7 DEF IdsOf
    <3>3. ASSUME c \in IdsOf(r.prev, Same(r)) PROVE c \in IdsOf(m, Sources)
      <4>1. PICK s \in Same(r) : c \in r.prev[s].ids
        BY <3>2, <3>3
      <4>2. s \in Sources /\ m[s] # Absent /\ c \in m[s].ids
        BY <1>5, <1>6, <1>7, <4>1
      <4> QED BY <3>1, <4>2
    <3>4. ASSUME c \in r.added PROVE c \in IdsOf(m, Sources)
      <4>1. c.source \in Differs(r) /\ c.source \in Sources
        BY <2>6, <3>4 DEF Differs
      <4>2. m[c.source] # Absent /\ c \in m[c.source].ids
        BY <1>5, <1>6, <3>4, <4>1
      <4> QED BY <3>1, <4>1, <4>2
    <3>5. ASSUME c \in IdsOf(m, Sources) PROVE c \in store
      <4>1. PICK s \in Sources : m[s] # Absent /\ c \in m[s].ids
        BY <3>1, <3>5
      <4>2. CASE s \in Same(r)
        <5>1. c \in r.prev[s].ids
          BY <1>5, <4>1, <4>2
        <5> QED BY <2>5, <3>2, <4>2, <5>1
      <4>3. CASE s \in Differs(r)
        <5>1. c \in r.added
          BY <1>5, <4>1, <4>3
        <5> QED BY <2>5, <5>1
      <4> QED BY <1>5, <1>6, <4>1, <4>2, <4>3
    <3> QED BY <2>5, <3>3, <3>4, <3>5
  <2>8. Says(m)
    <3> SUFFICES ASSUME NEW s \in Sources, m[s] # Absent, m[s].ids # {}
                 PROVE  PiecesOf(m[s].ids, s) = Range(Pieces[m[s].hash])
      BY DEF Says
    <3>1. CASE s \in Same(r)
      <4>1. m[s].hash = r.prev[s].hash /\ m[s].ids = r.prev[s].ids /\ r.prev[s] # Absent
        BY <1>5, <1>7, <3>1
      <4> QED BY <2>5, <4>1 DEF Says
    <3>2. CASE s \in Differs(r)
      <4>1. m[s].hash = r.seen[s] /\ m[s].ids = {c \in r.added : c.source = s}
        BY <1>5, <3>2
      <4>2. PiecesOf(m[s].ids, s) = PiecesOf(r.added, s) /\ PiecesOf(r.added, s) # {}
        BY <4>1 DEF PiecesOf
      <4> QED BY <2>4, <4>1, <4>2
    <3> QED BY <1>5, <1>6, <3>1, <3>2
  <2> QED BY <2>7, <2>8 DEF Exact
<1>10. Ordered(rec)
  BY <1>4 DEF Ordered
<1>11. Progress(rec, store', manifest', files', torn')
  BY <1>4 DEF Progress
<1>12. rec.pc # "idle" /\ (rec.pc \in Working => rec.calm = r.calm)
  BY <1>4 DEF Working
<1>13. torn' \in BOOLEAN
  BY <1>1, <1>3
<1>14. ~torn' => Exact(store', manifest')
  BY <1>1, <1>9
<1> HIDE DEF r
<1> QED BY <1>1, <1>3, <1>4, <1>5, <1>8, <1>10, <1>11, <1>12, <1>13, <1>14, OwnStep DEF r

\* A build that fails before its first write leaves no mark.
LEMMA FailBuildStep ==
  ASSUME IndexInv, NEW b \in Builds, FailBuild(b)
  PROVE  IndexInv'
<1> DEFINE r == build[b]
<1>1. /\ b \in Active /\ UNCHANGED <<files, store, manifest>> /\ Becomes(b, Over(b))
      /\ torn' = (torn \/ r.pc \in {"unlink", "add"} \/ r.reset)
  BY DEF FailBuild
<1>2. r.pc \in Working
  BY <1>1, ActiveIs DEF IndexInv
<1>3. /\ r \in Work /\ files \in Texts /\ store \in SUBSET Chunk /\ manifest \in Entries
      /\ Owned(manifest) /\ torn \in BOOLEAN /\ r.reset \in BOOLEAN
  BY <1>2, AtWork DEF Work
<1>4. Over(b) \in Work /\ Over(b).pc = "over" /\ Owned(Over(b).prev)
  BY NewBuildTyped DEF Over, BuildPlaces
<1>5. Ordered(Over(b)) /\ Over(b).pc \notin Working
  BY <1>4 DEF Ordered, Working
<1>6. ~torn' /\ OthersClean(b) => Exact(store', manifest')
  <2> SUFFICES ASSUME ~torn', OthersClean(b) PROVE Exact(store, manifest)
    BY <1>1
  <2>1. ~torn /\ ~Dirty(r)
    BY <1>1, <1>3 DEF Dirty
  <2> QED BY <1>2, <2>1, AtWork
<1>7. torn' \in BOOLEAN
  BY <1>1, <1>3
<1> HIDE DEF r
<1> QED BY <1>1, <1>3, <1>4, <1>5, <1>6, <1>7, OwnStep DEF r

\* An answered build is over.
LEMMA AnswerReindexStep ==
  ASSUME IndexInv, NEW b \in Builds, AnswerReindex(b)
  PROVE  IndexInv'
<1> DEFINE r == build[b]
<1>1. /\ r.pc = "saved" /\ UNCHANGED <<files, store, manifest, torn>> /\ Becomes(b, Over(b))
  BY DEF AnswerReindex, BuildAt
<1>2. r.pc \in Working
  BY <1>1 DEF Working, BuildPlaces
<1>3. /\ Ordered(r) /\ files \in Texts /\ store \in SUBSET Chunk /\ manifest \in Entries
      /\ Owned(manifest) /\ torn \in BOOLEAN /\ b \in Active
  BY <1>2, AtWork
<1>4. Over(b) \in Work /\ Over(b).pc = "over" /\ Owned(Over(b).prev)
  BY NewBuildTyped DEF Over, BuildPlaces
<1>5. Ordered(Over(b)) /\ Over(b).pc \notin Working
  BY <1>4 DEF Ordered, Working
<1>6. ~torn' /\ OthersClean(b) => Exact(store', manifest')
  <2>1. ~Dirty(r)
    BY <1>1, <1>3 DEF Dirty, Ordered
  <2> QED BY <1>1, <1>2, <2>1, AtWork
<1> HIDE DEF r
<1> QED BY <1>1, <1>3, <1>4, <1>5, <1>6, OwnStep DEF r

\* Builds that were disturbed are as they were, but not calm.
LEMMA DisturbedTyped ==
  ASSUME build \in [Builds -> Work], NEW bs
  PROVE  /\ Disturbed(bs) \in [Builds -> Work]
         /\ \A b \in Builds :
              /\ b \in bs => /\ Disturbed(bs)[b].pc = build[b].pc
                             /\ Disturbed(bs)[b].reset = build[b].reset
                             /\ Disturbed(bs)[b].prev = build[b].prev
                             /\ ~Disturbed(bs)[b].calm
              /\ b \notin bs => Disturbed(bs)[b] = build[b]
<1>1. ASSUME NEW b \in Builds
      PROVE  LET r == [build[b] EXCEPT !.calm = FALSE]
             IN  r \in Work /\ r.pc = build[b].pc /\ r.reset = build[b].reset
                 /\ r.prev = build[b].prev /\ ~r.calm
  BY DEF Work
<1> QED BY <1>1 DEF Disturbed

\* A build that starts disturbs those at work.
LEMMA StartBuildStep ==
  ASSUME IndexInv, NEW b \in Builds, StartBuild(b)
  PROVE  IndexInv'
<1> DEFINE before == Disturbed(Active)
           rec(reset) == [NewBuild EXCEPT !.pc = IF reset THEN "rmtree" ELSE "scan",
                                          !.reset = reset, !.calm = Active = {}]
<1>1. PICK reset \in BOOLEAN : build' = [before EXCEPT ![b] = rec(reset)]
  BY DEF StartBuild
<1>2. build[b].pc = "idle" /\ UNCHANGED <<files, store, manifest, torn>>
  BY DEF StartBuild, BuildAt
<1>3. IndexTyped /\ Unshared /\ Sound /\ OnCourse
  BY DEF IndexInv
<1>4. Active = {x \in Builds : build[x].pc \in Working}
  BY <1>3, ActiveIs
<1>5. b \notin Active
  BY <1>2, <1>4 DEF Working
<1> DEFINE r == rec(reset)
<1>6. /\ r \in Work /\ r.pc = (IF reset THEN "rmtree" ELSE "scan") /\ r.reset = reset
      /\ r.calm = (Active = {}) /\ r.prev = NoEntries
  <2>1. NoEntries \in Entries /\ NoEntries \in Texts /\ << >> \in Seq(Chunk)
    BY DEF NoEntries, Entries, Texts
  <2> QED BY <2>1 DEF NewBuild, Work, BuildPlaces
<1>7. /\ before \in [Builds -> Work]
      /\ \A x \in Active : /\ before[x].pc = build[x].pc /\ before[x].reset = build[x].reset
                           /\ before[x].prev = build[x].prev /\ ~before[x].calm
      /\ \A x \in Builds \ Active : before[x] = build[x]
  BY <1>3, <1>4, DisturbedTyped DEF IndexTyped
<1>8. build' = [before EXCEPT ![b] = r]
  BY <1>1
<1> HIDE DEF before, r
<1>9. /\ build' \in [Builds -> Work] /\ build'[b] = r
      /\ \A x \in Builds : x # b => build'[x] = before[x]
  BY <1>6, <1>7, <1>8
<1>10. Active' = {x \in Builds : build'[x].pc \in Working}
  BY <1>9 DEF Active, Working, Work
<1>11. b \in Active' /\ \A x \in Builds : x \in Active' /\ x # b <=> x \in Active
  <2>1. r.pc \in Working
    BY <1>6 DEF Working, BuildPlaces
  <2> QED BY <1>4, <1>5, <1>7, <1>9, <1>10, <2>1
<1>12. \A x \in Builds : build'[x].prev = build[x].prev \/ x = b
  BY <1>7, <1>9
<1>13. \A x \in Builds : Ordered(build'[x])
  <2>1. Owned(NoEntries)
    BY DEF NoEntries, Owned
  <2>2. Ordered(r)
    BY <1>6, <2>1 DEF Ordered
  <2>3. ASSUME NEW x \in Builds, x # b PROVE Ordered(build'[x])
    <3>1. /\ build'[x].pc = build[x].pc /\ build'[x].reset = build[x].reset
          /\ build'[x].prev = build[x].prev
      BY <1>7, <1>9, <2>3
    <3>2. Ordered(build[x])
      BY <1>3 DEF IndexTyped
    <3> QED BY <3>1, <3>2 DEF Ordered
  <2> QED BY <1>9, <2>2, <2>3
<1>14. IndexTyped'
  BY <1>2, <1>3, <1>9, <1>13 DEF IndexTyped, Owned
<1>15. Unshared'
  <2> SUFFICES ASSUME NEW x \in Active', build'[x].calm PROVE Active' = {x}
    BY DEF Unshared
  <2>1. x \in Builds
    BY <1>10
  <2>2. x = b
    BY <1>7, <1>9, <1>11, <2>1
  <2>3. Active = {}
    BY <1>6, <1>9, <2>2
  <2> QED BY <1>10, <1>11, <2>2, <2>3
<1>16. Sound'
  <2> SUFFICES ASSUME ~torn', \A x \in Active' : ~Dirty(build'[x])
               PROVE  Exact(store, manifest)
    BY <1>2 DEF Sound, Exact, IdsOf, Says
  <2>1. ASSUME NEW x \in Active PROVE ~Dirty(build[x])
    <3>1. x \in Builds /\ x # b /\ x \in Active'
      BY <1>4, <1>5, <1>11
    <3>2. build'[x].pc = build[x].pc /\ build'[x].reset = build[x].reset
      BY <1>7, <1>9, <3>1
    <3> QED BY <3>1, <3>2 DEF Dirty
  <2> QED BY <1>2, <1>3, <2>1 DEF Sound
<1>17. OnCourse'
  <2> SUFFICES ASSUME NEW x \in Active', build'[x].calm
               PROVE  Progress(build'[x], store', manifest', files', torn')
    BY DEF OnCourse
  <2>1. x \in Builds
    BY <1>10
  <2>2. x = b
    BY <1>7, <1>9, <1>11, <2>1
  <2> QED BY <1>6, <1>9, <2>2 DEF Progress
<1> QED BY <1>14, <1>15, <1>16, <1>17 DEF IndexInv

\* A file change disturbs the builds that have hashed but not read it.
LEMMA EditFileStep ==
  ASSUME IndexInv, EditFile
  PROVE  IndexInv'
<1> DEFINE late == {b \in Active : BuildAt(b, "load")}
<1>1. PICK s \in Sources, v \in Versions \cup {Absent} : files' = [files EXCEPT ![s] = v]
  BY DEF EditFile
<1>2. build' = Disturbed(late) /\ UNCHANGED <<store, manifest, torn>>
  BY DEF EditFile
<1>3. IndexTyped /\ Unshared /\ Sound /\ OnCourse
  BY DEF IndexInv
<1>4. Active = {x \in Builds : build[x].pc \in Working}
  BY <1>3, ActiveIs
<1> HIDE DEF late
<1>5. /\ build' \in [Builds -> Work]
      /\ \A x \in late : x \in Builds =>
           /\ build'[x].pc = build[x].pc /\ build'[x].reset = build[x].reset
           /\ build'[x].prev = build[x].prev /\ ~build'[x].calm
      /\ \A x \in Builds \ late : build'[x] = build[x]
  BY <1>2, <1>3, DisturbedTyped DEF IndexTyped
<1>6. \A x \in Builds : /\ build'[x].pc = build[x].pc /\ build'[x].reset = build[x].reset
                        /\ build'[x].prev = build[x].prev
  BY <1>5
<1>7. Active' = {x \in Builds : build'[x].pc \in Working}
  BY <1>5 DEF Active, Working, Work
<1>8. Active' = Active
  BY <1>4, <1>6, <1>7
<1>9. IndexTyped'
  <2>1. files' \in Texts
    BY <1>1, <1>3 DEF IndexTyped, Texts
  <2>2. \A x \in Builds : Ordered(build'[x])
    BY <1>3, <1>6 DEF IndexTyped, Ordered
  <2> QED BY <1>2, <1>3, <1>5, <2>1, <2>2 DEF IndexTyped, Owned
<1>10. \A x \in Builds : build'[x].calm => x \notin late /\ build'[x] = build[x]
  BY <1>5
<1>11. Unshared'
  BY <1>3, <1>4, <1>8, <1>10 DEF Unshared
<1>12. Sound'
  <2> SUFFICES ASSUME ~torn', \A x \in Active' : ~Dirty(build'[x])
               PROVE  Exact(store, manifest)
    BY <1>2 DEF Sound, Exact, IdsOf, Says
  <2>1. \A x \in Active : ~Dirty(build[x])
    BY <1>4, <1>6, <1>8 DEF Dirty
  <2> QED BY <1>2, <1>3, <2>1 DEF Sound
<1>13. OnCourse'
  <2> SUFFICES ASSUME NEW x \in Active', build'[x].calm
               PROVE  Progress(build'[x], store', manifest', files', torn')
    BY DEF OnCourse
  <2>1. /\ x \in Active /\ build[x].calm /\ build'[x] = build[x]
        /\ build[x].pc # "load"
    BY <1>4, <1>8, <1>10 DEF late, BuildAt
  <2>2. Progress(build[x], store, manifest, files, torn)
    BY <1>3, <2>1 DEF OnCourse
  <2> QED BY <1>2, <2>1, <2>2 DEF Progress
<1> QED BY <1>9, <1>11, <1>12, <1>13 DEF IndexInv

\* A step of a request, or none, leaves the index alone.
LEMMA IndexAlone ==
  ASSUME IndexInv, UNCHANGED <<files, store, manifest, build, torn>>
  PROVE  IndexInv'
<1>1. Active' = Active
  BY DEF Active
<1>2. IndexTyped'
  BY DEF IndexInv, IndexTyped, Owned
<1>3. Unshared' /\ OnCourse'
  BY <1>1 DEF IndexInv, Unshared, OnCourse
<1>4. Sound'
  BY <1>1 DEF IndexInv, Sound, Exact, IdsOf, Says
<1> QED BY <1>2, <1>3, <1>4 DEF IndexInv

\* The invariant of the index is inductive.
LEMMA IndexStep == ASSUME IndexInv, [Next]_vars PROVE IndexInv'
<1>1. CASE EditFile
  BY <1>1, EditFileStep
<1>2. ASSUME NEW b \in Builds,
             \/ StartBuild(b) \/ RemoveCollection(b) \/ RemoveManifest(b) \/ Scan(b) \/ Load(b)
             \/ DeleteOldChunks(b) \/ AddBatch(b) \/ SaveManifest(b) \/ FailBuild(b)
             \/ AnswerReindex(b)
      PROVE  IndexInv'
  BY <1>2, StartBuildStep, RemoveCollectionStep, RemoveManifestStep, ScanStep, LoadStep,
     DeleteOldChunksStep, AddBatchStep, SaveManifestStep, FailBuildStep, AnswerReindexStep
<1>3. ASSUME NEW r \in Readers,
             \/ CheckAgent(r) \/ MakeAgent(r) \/ ReturnAgent(r) \/ VectorSearch(r) \/ CorpusSearch(r)
      PROVE  IndexInv'
  <2>1. IndexUntouched
    BY <1>3 DEF CheckAgent, MakeAgent, ReturnAgent, VectorSearch, CorpusSearch
  <2> QED BY <2>1, IndexAlone DEF IndexUntouched
<1>4. CASE UNCHANGED vars
  BY <1>4, IndexAlone DEF vars
<1> QED BY <1>1, <1>2, <1>3, <1>4 DEF Next

\* What an earlier build left is typed and exact.
LEMMA IndexedExact ==
  ASSUME NEW texts \in Texts
  PROVE  Indexed(texts) \in Entries /\ Owned(Indexed(texts)) /\ Says(Indexed(texts))
<1> DEFINE there == {s \in Sources : texts[s] # Absent}
           docs == ChunksOf(SetToSeq(there), texts)
           chunks == Range(docs)
           entry(s) == [hash |-> texts[s], ids |-> {c \in chunks : c.source = s}]
           m == Indexed(texts)
<1>1. m = [s \in Sources |-> IF s \notin there THEN Absent ELSE entry(s)]
  BY DEF Indexed
<1>2. there \in SUBSET Sources /\ \A s \in there : texts[s] \in Versions
  BY DEF Texts
<1> HIDE DEF m, there
<1>3. Cut(docs, there, texts)
  <2> DEFINE order == SetToSeq(there)
             n == Cardinality(there)
  <2>1. n \in Nat /\ order \in [1 .. n -> there]
    BY <1>2, Listed
  <2> HIDE DEF order, n
  <2>2. Cut(ChunksOf(order, texts), there, texts)
    BY <1>2, <2>1, ChunksAreCut
  <2> QED BY <2>2 DEF order
<1> HIDE DEF docs
<1>4. chunks \in SUBSET Chunk
  BY <1>3 DEF Cut, Range
<1>5. \A s \in Sources : PiecesOf(chunks, s) # {} => PiecesOf(chunks, s) = Range(Pieces[texts[s]])
  BY <1>3 DEF Cut
<1> HIDE DEF chunks
<1>6. \A s \in there : entry(s) \in Entry
  BY <1>2, <1>4 DEF Entry
<1>7. m \in Entries
  <2> HIDE DEF entry
  <2> QED BY <1>1, <1>6 DEF Entries
<1>8. \A s \in Sources : m[s] # Absent =>
        m[s].hash = texts[s] /\ m[s].ids = {c \in chunks : c.source = s}
  BY <1>1
<1>9. Owned(m)
  BY <1>8 DEF Owned
<1>10. Says(m)
  <2> SUFFICES ASSUME NEW s \in Sources, m[s] # Absent, m[s].ids # {}
               PROVE  PiecesOf(m[s].ids, s) = Range(Pieces[m[s].hash])
    BY DEF Says
  <2>1. m[s].hash = texts[s] /\ m[s].ids = {c \in chunks : c.source = s}
    BY <1>8
  <2>2. PiecesOf(m[s].ids, s) = PiecesOf(chunks, s) /\ PiecesOf(chunks, s) # {}
    BY <2>1 DEF PiecesOf
  <2> QED BY <1>5, <2>1, <2>2
<1> QED BY <1>7, <1>9, <1>10 DEF m

\* It holds at first.
LEMMA InitIndex == Init => IndexInv
<1> SUFFICES ASSUME Init PROVE IndexInv  OBVIOUS
<1>1. files \in Texts
  BY FilesAssumption DEF Init, Texts
<1>2. manifest \in Entries /\ Owned(manifest) /\ Says(manifest)
  <2>1. CASE manifest = NoEntries
    BY <2>1 DEF NoEntries, Entries, Owned, Says
  <2>2. CASE manifest = Indexed(files)
    BY <1>1, <2>2, IndexedExact
  <2> QED BY <2>1, <2>2 DEF Init
<1>3. store = IdsOf(manifest, Sources)
  BY DEF Init
<1>4. store \in SUBSET Chunk
  BY <1>2, <1>3 DEF IdsOf, Entries, Entry
<1>5. /\ build = [b \in Builds |-> NewBuild] /\ torn = FALSE
      /\ NewBuild \in Work /\ NewBuild.pc = "idle" /\ NewBuild.prev = NoEntries
  <2>1. NoEntries \in Entries /\ NoEntries \in Texts /\ << >> \in Seq(Chunk)
    BY DEF NoEntries, Entries, Texts
  <2> QED BY <2>1 DEF Init, NewBuild, Work, BuildPlaces
<1>6. Ordered(NewBuild)
  BY <1>5 DEF Ordered, Owned, NoEntries
<1>7. Active = {}
  BY <1>5 DEF Active
<1>8. IndexTyped
  BY <1>1, <1>2, <1>4, <1>5, <1>6 DEF IndexTyped
<1>9. Unshared /\ Sound /\ OnCourse
  BY <1>2, <1>3, <1>7 DEF Unshared, Sound, OnCourse, Exact
<1> QED BY <1>8, <1>9 DEF IndexInv

-----------------------------------------------------------------------------
\* The index is exact unless a build failed, overlapped another or had a file
\* change under it (ingestion/build_index.py), for all files, splittings, batch
\* sizes and builds.
THEOREM IndexIsExact == Spec => []ExactUnlessTorn
<1>1. Init => IndexInv
  BY InitIndex
<1>2. IndexInv /\ [Next]_vars => IndexInv'
  BY IndexStep
<1>3. IndexInv => ExactUnlessTorn
  <2> SUFFICES ASSUME IndexInv, ~torn, Active = {} PROVE Exact(store, manifest)
    <3>1. \A s \in Sources : manifest[s] # Absent /\ IndexTyped =>
            {c \in manifest[s].ids : c.source = s} = manifest[s].ids
      BY DEF IndexTyped, Owned
    <3> QED BY <3>1 DEF ExactUnlessTorn, Exact, Says, PiecesOf, IndexInv
  <2> QED BY DEF IndexInv, Sound
<1> QED BY <1>1, <1>2, <1>3, PTL DEF Spec

\* A corpus is a former state of the collection.
Corpora == \A r \in Readers : corpus[r] # Unread => corpus[r] \subseteq Chunk

\* A corpus is read from the collection once.
LEMMA CorporaStep ==
  ASSUME IndexInv, ReindexInv, Corpora, [Next]_vars
  PROVE  Corpora'
<1>1. CASE corpus' = corpus
  BY <1>1 DEF Corpora
<1>2. ASSUME NEW r \in Readers, CorpusSearch(r) PROVE Corpora'
  <2> DEFINE a == reader[r].mine
             docs == IF corpus[a] = Unread THEN store ELSE corpus[a]
  <2>1. corpus' = [corpus EXCEPT ![a] = docs] /\ reader[r].pc = "corpus"
    BY <1>2 DEF CorpusSearch, ReaderAt
  <2>2. a \in Readers /\ DOMAIN corpus = Readers
    BY <2>1 DEF ReindexInv, Made, Shape, Searching
  <2>3. docs \subseteq Chunk
    BY <2>2 DEF Corpora, IndexInv, IndexTyped
  <2> HIDE DEF a, docs
  <2> QED BY <2>1, <2>2, <2>3 DEF Corpora
<1>3. corpus' = corpus \/ \E r \in Readers : CorpusSearch(r)
  BY DEF Next, EditFile, StartBuild, RemoveCollection, RemoveManifest, Scan, Load,
         DeleteOldChunks, AddBatch, SaveManifest, FailBuild, AnswerReindex, CheckAgent,
         MakeAgent, ReturnAgent, VectorSearch, ReadersUntouched, vars
<1> QED BY <1>1, <1>2, <1>3

\* Collection, manifest and corpora hold chunks of texts the files may have, and
\* an entry of the manifest lists chunks of its own file (ingestion/manifest.py).
THEOREM IndexTypes == Spec => []IndexTypeOK
<1> DEFINE Inv == IndexInv /\ ReindexInv /\ Corpora
<1>1. Init => Inv
  BY InitIndex, InitReindex DEF Init, Corpora
<1>2. Inv /\ [Next]_vars => Inv'
  BY IndexStep, NextReindex, CorporaStep
<1>3. Inv => IndexTypeOK
  <2> SUFFICES ASSUME Inv PROVE IndexTypeOK  OBVIOUS
  <2>1. ASSUME NEW s \in Sources, manifest[s] # Absent
        PROVE  /\ manifest[s].hash \in Versions
               /\ \A c \in manifest[s].ids : c \in Chunk /\ c.source = s
    <3>1. manifest[s] \in Entry /\ Owned(manifest)
      BY <2>1 DEF IndexInv, IndexTyped, Entries
    <3> QED BY <2>1, <3>1 DEF Entry, Owned
  <2> QED BY <2>1 DEF IndexTypeOK, IndexInv, IndexTyped, Texts, ReindexInv, Made, Corpora
<1> QED BY <1>1, <1>2, <1>3, PTL DEF Spec
=============================================================================
