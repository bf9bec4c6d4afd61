---------------------------- MODULE KnowledgeIndex ----------------------------
(***************************************************************************)
(* The knowledge index: the source files of the knowledge bases            *)
(* (ingestion/kb_admin.py), the Chroma collection, the manifest that says  *)
(* what the collection holds (ingestion/manifest.py), the builds that bring*)
(* both up to date (ingestion/build_index.py), and the retrievers that     *)
(* search it through the process-wide agent (api/app.py,                   *)
(* retrieval/retriever.py).                                                *)
(*                                                                         *)
(* Builds run in threads of the server (POST /admin/kbs/reindex) or in a   *)
(* process of their own (mini-rag build-index); nothing keeps two apart.   *)
(* A build may fail or be killed between any two of its steps: the         *)
(* embedding calls of add_documents go over the network.                   *)
(***************************************************************************)
EXTENDS Naturals, Sequences, FiniteSets, SequencesExt

CONSTANTS
  Sources,    \* files: [dir: the directory under data_dir, words: the
              \* knowledge bases whose keywords its name contains]
  Versions,   \* contents a file may have
  Pieces,     \* Pieces[v]: the chunks of text version v is split into
  Builds, ApiBuilds,  \* builds; each runs once, those in ApiBuilds as requests
  Readers,    \* chat requests that search; an agent is named after its maker
  Scenarios,  \* what may happen together: [builds, readers, edits]
  Starts,     \* the files there may be at first
  BatchSize,  \* chunks per add_documents call: 10 in the code
  Absent, NoAgent, Unread

ASSUME BatchAssumption == BatchSize \in Nat \ {0}
ASSUME BuildsAssumption == ApiBuilds \subseteq Builds
ASSUME NoAgentAssumption == NoAgent \notin Readers
ASSUME ScenarioAssumption ==
  Scenarios \subseteq [builds : SUBSET Builds, readers : SUBSET Readers, edits : Nat]
ASSUME FilesAssumption ==
  IsFiniteSet(Sources) /\ Starts \subseteq [Sources -> Versions \cup {Absent}]
ASSUME PiecesAssumption == \A v \in Versions : Pieces[v] \in Seq(Range(Pieces[v]))

VARIABLES
  files,     \* data/kbs: [Sources -> Versions or Absent]
  store,     \* the Chroma collection: a set of chunks
  manifest,  \* index_manifest.json: [Sources -> [hash, ids] or Absent]
  build,     \* each build: where it is and what it holds
  agent,     \* _AGENT_INSTANCE
  corpus,    \* _corpus_cache of each agent's retriever
  reader,    \* each request
  left,      \* the builds, requests and file changes still to come
  torn,      \* history: manifest and collection may disagree
  reindexed, \* history: reindex requests answered with success
  corpusAt   \* history: reindexed when each corpus was read

vars == <<files, store, manifest, build, agent, corpus, reader, left, torn,
          reindexed, corpusAt>>

-----------------------------------------------------------------------------
(* Chunks.                                                                 *)

KBs == {"public", "hr", "finance", "it", "product"}

\* infer_kb_id_from_source: the path is relative to data_dir (data/kbs), so it
\* has no part "kbs" and only keywords decide; the directory names finance, hr
\* and it are keywords, product and public are not.
KbOf(s) ==
  LET hits == s.words \cup ({s.dir} \cap {"finance", "hr", "it"})
  IN  IF hits = {} THEN "public"
      ELSE LET order == <<"finance", "hr", "it", "product">>
           IN  order[CHOOSE i \in DOMAIN order :
                       order[i] \in hits /\ \A j \in 1 .. i - 1 : order[j] \notin hits]

\* A chunk's id holds its source, its place among all chunks of the build, and
\* a hash of its text; adding an id that is there replaces it.
Chunk == [source : Sources, index : Nat, piece : UNION {Range(Pieces[v]) : v \in Versions}]

\* An entry of the manifest; Absent is none.
Entry == [hash : Versions, ids : SUBSET Chunk]
ASSUME AbsentAssumption == Absent \notin Versions /\ Absent \notin Entry

\* split_documents over the files in the order the loader's threads finish.
ChunksOf(order, texts) ==
  LET flat == FlattenSeq(
        [i \in DOMAIN order |->
           [j \in DOMAIN Pieces[texts[order[i]]] |->
              <<order[i], Pieces[texts[order[i]]][j]>>]])
  IN  [k \in DOMAIN flat |->
         [source |-> flat[k][1], index |-> k - 1, piece |-> flat[k][2]]]

NoEntries == [s \in Sources |-> Absent]
IdsOf(entries, ss) == UNION {entries[s].ids : s \in {x \in ss : entries[x] # Absent}}

\* detect_index_changes.
Unchanged(b) == {s \in Sources : /\ build[b].seen[s] # Absent
                                 /\ build[b].prev[s] # Absent
                                 /\ build[b].prev[s].hash = build[b].seen[s]}
Changed(b) == {s \in Sources : build[b].seen[s] # Absent} \ Unchanged(b)

-----------------------------------------------------------------------------
NewBuild  == [pc |-> "idle", reset |-> FALSE, calm |-> TRUE,
              prev |-> NoEntries, seen |-> NoEntries, docs |-> << >>, added |-> {}]
NewReader == [pc |-> "idle", mine |-> NoAgent, kbs |-> {}, hits |-> {}, since |-> {}]

\* What an earlier build left of these files.
Indexed(texts) ==
  LET there == {s \in Sources : texts[s] # Absent}
      chunks == Range(ChunksOf(SetToSeq(there), texts))
  IN  [s \in Sources |->
         IF s \notin there THEN Absent
         ELSE [hash |-> texts[s], ids |-> {c \in chunks : c.source = s}]]

Init ==
  /\ files \in Starts
  /\ manifest \in {NoEntries, Indexed(files)}
  /\ store = IdsOf(manifest, Sources)
  /\ build = [b \in Builds |-> NewBuild]
  /\ agent = NoAgent /\ corpus = [r \in Readers |-> Unread]
  /\ reader = [r \in Readers |-> NewReader]
  /\ \E sc \in Scenarios : left = sc
  /\ torn = FALSE /\ reindexed = {} /\ corpusAt = [r \in Readers |-> {}]

Active == {b \in Builds : build[b].pc \notin {"idle", "over"}}
BuildAt(b, pc)    == build[b].pc = pc
Becomes(b, rec)   == build' = [build EXCEPT ![b] = rec]
Over(b)           == [NewBuild EXCEPT !.pc = "over"]
ReadersUntouched  == UNCHANGED <<agent, corpus, reader, reindexed, corpusAt>>

\* Builds that overlap, or whose files change under them, are not calm.
Disturbed(bs) == [b \in Builds |-> IF b \in bs THEN [build[b] EXCEPT !.calm = FALSE]
                                                ELSE build[b]]

\* import_kb_document (with or without overwrite) and delete_kb_document.
EditFile ==
  /\ left.edits > 0
  /\ left' = [left EXCEPT !.edits = @ - 1]
  /\ \E s \in Sources, v \in Versions \cup {Absent} :
       /\ v = Absent => files[s] # Absent
       /\ files' = [files EXCEPT ![s] = v]
  /\ build' = Disturbed({b \in Active : BuildAt(b, "load")})
  /\ UNCHANGED <<store, manifest, torn>> /\ ReadersUntouched

StartBuild(b) ==
  /\ b \in left.builds /\ BuildAt(b, "idle")
  /\ \E reset \in BOOLEAN :
       build' = [Disturbed(Active) EXCEPT ![b] =
                   [NewBuild EXCEPT !.pc = IF reset THEN "rmtree" ELSE "scan",
                      !.reset = reset, !.calm = Active = {}]]
  /\ UNCHANGED <<files, store, manifest, left, torn>> /\ ReadersUntouched

RemoveCollection(b) ==
  /\ BuildAt(b, "rmtree")
  /\ store' = {}
  /\ Becomes(b, [build[b] EXCEPT !.pc = "unlink"])
  /\ UNCHANGED <<files, manifest, left, torn>> /\ ReadersUntouched

RemoveManifest(b) ==
  /\ BuildAt(b, "unlink")
  /\ manifest' = NoEntries
  /\ Becomes(b, [build[b] EXCEPT !.pc = "scan"])
  /\ UNCHANGED <<files, store, left, torn>> /\ ReadersUntouched

\* The manifest (none after a reset) and the hash of every file.
Scan(b) ==
  /\ BuildAt(b, "scan")
  /\ Becomes(b, [build[b] EXCEPT !.pc = "load", !.seen = files,
                   !.prev = IF build[b].reset THEN NoEntries ELSE manifest])
  /\ UNCHANGED <<files, store, manifest, left, torn>> /\ ReadersUntouched

\* The changed files are read again, now for their text.  One that cannot be
\* loaded is left out (silent_errors).
Load(b) ==
  /\ BuildAt(b, "load")
  /\ \E loaded \in SUBSET {s \in Changed(b) : files[s] # Absent} :
       \E order \in SetToSeqs(loaded) :
         Becomes(b, [build[b] EXCEPT !.pc = "delete", !.docs = ChunksOf(order, files),
                                     !.added = Range(ChunksOf(order, files))])
  /\ UNCHANGED <<files, store, manifest, left, torn>> /\ ReadersUntouched

ChangedOnly(b)     == Changed(b)
ChangedOrGone(b)   == Changed(b) \cup {s \in Sources : build[b].seen[s] = Absent}

DeleteOldChunks(b) ==
  /\ BuildAt(b, "delete")
  /\ store' = store \ IdsOf(build[b].prev, ChangedOrGone(b))
  /\ Becomes(b, [build[b] EXCEPT !.pc = "add"])
  /\ UNCHANGED <<files, manifest, left, torn>> /\ ReadersUntouched

AddBatch(b) ==
  /\ BuildAt(b, "add") /\ build[b].docs # << >>
  /\ LET n == IF Len(build[b].docs) < BatchSize THEN Len(build[b].docs) ELSE BatchSize
     IN  /\ store' = store \cup Range(SubSeq(build[b].docs, 1, n))
         /\ Becomes(b, [build[b] EXCEPT !.docs = SubSeq(@, n + 1, Len(@))])
  /\ UNCHANGED <<files, manifest, left, torn>> /\ ReadersUntouched

NextManifestUnsorted(b) ==
  [s \in Sources |->
     IF build[b].seen[s] = Absent THEN Absent
     ELSE [hash |-> build[b].seen[s],
           ids  |-> IF s \in Unchanged(b) THEN build[b].prev[s].ids
                    ELSE build[b].added]]
NextManifest(b) ==
  [s \in Sources |->
     IF build[b].seen[s] = Absent THEN Absent
     ELSE [hash |-> build[b].seen[s],
           ids  |-> IF s \in Unchanged(b) THEN build[b].prev[s].ids
                    ELSE {c \in build[b].added : c.source = s}]]

\* The manifest is replaced atomically.
SaveManifest(b) ==
  /\ BuildAt(b, "add") /\ build[b].docs = << >>
  /\ manifest' = NextManifest(b)
  /\ Becomes(b, IF b \in ApiBuilds
                THEN [NewBuild EXCEPT !.pc = "saved", !.calm = build[b].calm]
                ELSE Over(b))
  /\ torn' = (~build[b].calm \/ (torn /\ ~build[b].reset))
  /\ UNCHANGED <<files, store, left>> /\ ReadersUntouched

FailBuild(b) ==
  /\ b \in Active /\ ~BuildAt(b, "saved")
  /\ Becomes(b, Over(b))
  /\ torn' = (torn \/ build[b].pc \in {"unlink", "add"} \/ build[b].reset)
  /\ UNCHANGED <<files, store, manifest, left>> /\ ReadersUntouched

\* rebuild_kb_index after build_index returned: the agent is dropped.
KeptAgent    == agent
DroppedAgent == NoAgent

AnswerReindex(b) ==
  /\ BuildAt(b, "saved")
  /\ agent' = DroppedAgent
  /\ reindexed' = reindexed \cup {b}
  /\ Becomes(b, Over(b))
  /\ UNCHANGED <<files, store, manifest, left, torn, corpus, reader, corpusAt>>

-----------------------------------------------------------------------------
(* A request: get_agent, then one search of its knowledge bases.           *)

ReaderAt(r, pc) == reader[r].pc = pc
Moves(r, rec)   == reader' = [reader EXCEPT ![r] = rec]
IndexUntouched  == UNCHANGED <<files, store, manifest, build, left, torn, reindexed>>

CheckAgent(r) ==
  /\ r \in left.readers /\ ReaderAt(r, "idle")
  /\ \E kbs \in {{}, {"public"}} :
       Moves(r, [reader[r] EXCEPT !.pc = IF agent = NoAgent THEN "making" ELSE "return",
                                  !.kbs = kbs, !.since = reindexed])
  /\ UNCHANGED <<agent, corpus, corpusAt>> /\ IndexUntouched

MakeAgent(r) ==
  /\ ReaderAt(r, "making")
  /\ agent' = r
  /\ Moves(r, [reader[r] EXCEPT !.pc = "return"])
  /\ UNCHANGED <<corpus, corpusAt>> /\ IndexUntouched

\* The global is read again; a reindex may have dropped the agent meanwhile,
\* and the request then fails on None.
ReturnAgent(r) ==
  /\ ReaderAt(r, "return")
  /\ Moves(r, [reader[r] EXCEPT !.mine = agent,
                 !.pc = IF agent = NoAgent THEN "failed"
                        ELSE IF reader[r].kbs = {} THEN "answered" ELSE "vector"])
  /\ UNCHANGED <<agent, corpus, corpusAt>> /\ IndexUntouched

Within(chunks, kbs) == {c \in chunks : KbOf(c.source) \in kbs}

\* _vector_search reads the collection as it is, filtered in the query.
VectorSearch(r) ==
  /\ ReaderAt(r, "vector")
  /\ Moves(r, [reader[r] EXCEPT !.pc = "corpus", !.hits = Within(store, reader[r].kbs)])
  /\ UNCHANGED <<agent, corpus, corpusAt>> /\ IndexUntouched

\* _load_all_documents: the first hybrid search of a retriever reads the whole
\* collection and keeps it.
CorpusSearch(r) ==
  /\ ReaderAt(r, "corpus")
  /\ LET a    == reader[r].mine
         docs == IF corpus[a] = Unread THEN store ELSE corpus[a]
     IN  /\ corpus' = [corpus EXCEPT ![a] = docs]
         /\ corpusAt' = IF corpus[a] = Unread
                        THEN [corpusAt EXCEPT ![a] = reindexed] ELSE corpusAt
         /\ Moves(r, [reader[r] EXCEPT !.pc = "answered",
                                       !.hits = @ \cup Within(docs, reader[r].kbs)])
  /\ UNCHANGED agent /\ IndexUntouched

Next ==
  \/ EditFile
  \/ \E b \in Builds :
       \/ StartBuild(b)
       \/ RemoveCollection(b)
       \/ RemoveManifest(b)
       \/ Scan(b)
       \/ Load(b)
       \/ DeleteOldChunks(b)
       \/ AddBatch(b)
       \/ SaveManifest(b)
       \/ FailBuild(b)
       \/ AnswerReindex(b)
  \/ \E r \in Readers :
       \/ CheckAgent(r)
       \/ MakeAgent(r)
       \/ ReturnAgent(r)
       \/ VectorSearch(r)
       \/ CorpusSearch(r)

Spec == Init /\ [][Next]_vars

-----------------------------------------------------------------------------
(* Properties.                                                             *)

\* Files have a version or are absent; collection, manifest and corpora hold
\* chunks, and those the manifest lists for a file are of that file.
IndexTypeOK ==
  /\ \A s \in Sources : files[s] \in Versions \cup {Absent}
  /\ \A c \in store : c \in Chunk
  /\ \A s \in Sources :
       manifest[s] # Absent =>
         manifest[s].hash \in Versions
         /\ \A c \in manifest[s].ids : c \in Chunk /\ c.source = s
  /\ agent \in Readers \cup {NoAgent}
  /\ \A r \in Readers : corpus[r] # Unread => \A c \in corpus[r] : c \in Chunk

\* Only a build that failed half way, overlapped another, or had a file change
\* between its hash and its reading can leave the index torn, until a calm
\* reset: otherwise the collection holds exactly the chunks the manifest lists,
\* and those of a file are the text whose hash it records (or none, for a file
\* that could not be loaded).
ExactUnlessTorn ==
  (~torn /\ Active = {}) =>
    /\ store = IdsOf(manifest, Sources)
    /\ \A s \in Sources :
         manifest[s] # Absent /\ manifest[s].ids # {} =>
           {c.piece : c \in manifest[s].ids} = Range(Pieces[manifest[s].hash])

\* A request that starts after a reindex was answered searches a corpus read
\* after it, whatever agents other requests make or other builds drop.
SearchesReindexed ==
  \A r \in Readers :
    ReaderAt(r, "answered") /\ reader[r].kbs # {} =>
      reader[r].since \subseteq corpusAt[reader[r].mine]

\* get_agent returns None only to a request a reindex overtook.
NoneOnlyAfterReindex ==
  \A r \in Readers : ReaderAt(r, "failed") => reader[r].since # reindexed

\* An answered reindex is what later requests are served from, and what alone
\* may turn a request away (api/app.py:103).
ReindexServes == SearchesReindexed /\ NoneOnlyAfterReindex

\* What build_index.py says of a finished build, here one that nothing
\* disturbed: the manifest lists exactly the chunks the collection holds.
ManifestIsAccurate ==
  [][\A b \in Builds : SaveManifest(b) /\ build[b].calm =>
       store' = IdsOf(manifest', Sources)]_vars

\* What kb_admin.py and kb_config.py say: a document imported into a knowledge
\* base is indexed under it.
IndexedUnderItsKb ==
  [][\A c \in store' \ store : KbOf(c.source) = c.source.dir]_vars
=============================================================================
