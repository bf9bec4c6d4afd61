---------------------------- MODULE SessionMemory ----------------------------
(***************************************************************************)
(* The memory of one conversation: agent/context_store.py (a row with the  *)
(* session's summary, a table of its turns) and memory/service.py, used by *)
(* requests that may overlap.  Every SELECT and every write is a           *)
(* transaction of its own, so a request is a sequence of steps: it reads   *)
(* the summary and the latest turns, works, stores the summary it made     *)
(* from the one it read, and appends its turn, for which append_turn       *)
(* reads the summary once more and writes it back.                         *)
(*                                                                         *)
(* A summary is modelled by the requests it digests.  Sessions share       *)
(* nothing, and a request without a session reads and writes nothing.      *)
(***************************************************************************)
EXTENDS Naturals, Sequences

CONSTANTS
  Requests,   \* the requests of one session
  Window      \* session_max_turns

ASSUME WindowAssumption == Window \in Nat

VARIABLES
  summary,    \* the summary stored for the session
  turns,      \* the requests whose turn was appended, in the order of ids
  at,         \* where each request is
  held,       \* the summary it has in hand
  recent,     \* the turns it read
  before,     \* history: the requests that had ended when it began
  digested    \* history: requests that stored a summary digesting themselves

memoryVars == <<summary, turns, at, held, recent, before, digested>>

Places == {"waiting", "reading", "working", "summarised", "stored", "kept",
           "appending", "done", "failed"}
Ended(r)  == at[r] \in {"done", "failed"}
Began(r)  == at[r] # "waiting"
Active(r) == Began(r) /\ ~Ended(r)

Step(r, from, to) == at[r] = from /\ at' = [at EXCEPT ![r] = to]
Hold(r, digest)   == held' = [held EXCEPT ![r] = digest]

\* ORDER BY id DESC LIMIT n, and back into the order of ids.
Oldest(rows, n) == SubSeq(rows, 1, IF n < Len(rows) THEN n ELSE Len(rows))
LatestAndOne(rows, n) ==
  SubSeq(rows, IF n < Len(rows) THEN Len(rows) - n ELSE 1, Len(rows))
Latest(rows, n) ==
  SubSeq(rows, IF n < Len(rows) THEN Len(rows) - n + 1 ELSE 1, Len(rows))

-----------------------------------------------------------------------------

Init ==
  /\ summary = {} /\ turns = << >> /\ digested = {}
  /\ at = [r \in Requests |-> "waiting"]
  /\ held = [r \in Requests |-> {}]
  /\ recent = [r \in Requests |-> << >>]
  /\ before = [r \in Requests |-> {}]

\* get_context, its two SELECTs.
ReadSummary(r) ==
  /\ Step(r, "waiting", "reading")
  /\ Hold(r, summary)
  /\ before' = [before EXCEPT ![r] = {q \in Requests : Ended(q)}]
  /\ UNCHANGED <<summary, turns, recent, digested>>

ReadTurns(r) ==
  /\ Step(r, "reading", "working")
  /\ recent' = [recent EXCEPT ![r] = Latest(turns, Window)]
  /\ UNCHANGED <<summary, turns, held, before, digested>>

\* A short answer keeps the old summary, as does a reply that does not parse;
\* otherwise the model adds this request to it.
Summarise(r) ==
  /\ Step(r, "working", "summarised")
  /\ \/ Hold(r, held[r] \cup {r})
     \/ UNCHANGED held
  /\ UNCHANGED <<summary, turns, recent, before, digested>>

StoreSummary(r) ==
  /\ Step(r, "summarised", "stored")
  /\ summary' = held[r]
  /\ digested' = IF r \in held[r] THEN digested \cup {r} ELSE digested
  /\ UNCHANGED <<turns, held, recent, before>>

\* append_turn: the row of the session is made sure of by storing the summary
\* just read, then the turn is inserted.
ReadBack(r) ==
  /\ Step(r, "stored", "kept")
  /\ Hold(r, summary)
  /\ UNCHANGED <<summary, turns, recent, before, digested>>

WriteBlank(r) ==
  /\ Step(r, "kept", "appending")
  /\ summary' = {}
  /\ UNCHANGED <<turns, held, recent, before, digested>>

WriteBack(r) ==
  /\ Step(r, "kept", "appending")
  /\ summary' = held[r]
  /\ UNCHANGED <<turns, held, recent, before, digested>>

AppendTurn(r) ==
  /\ Step(r, "appending", "done")
  /\ turns' = Append(turns, r)
  /\ UNCHANGED <<summary, held, recent, before, digested>>

\* A statement or a call of the model fails, or the process dies: the request
\* goes no further, what it committed stays.
Fail(r) ==
  /\ Active(r) /\ at' = [at EXCEPT ![r] = "failed"]
  /\ UNCHANGED <<summary, turns, held, recent, before, digested>>

Next ==
  \E r \in Requests :
    \/ ReadSummary(r)
    \/ ReadTurns(r)
    \/ Summarise(r)
    \/ StoreSummary(r)
    \/ ReadBack(r)
    \/ WriteBack(r)
    \/ AppendTurn(r)
    \/ Fail(r)

Spec == Init /\ [][Next]_memoryVars

-----------------------------------------------------------------------------
(* Properties.                                                             *)

MemoryTypeOK ==
  /\ summary \subseteq Requests /\ digested \subseteq Requests
  /\ turns \in Seq(Requests)
  /\ at \in [Requests -> Places]
  /\ held \in [Requests -> SUBSET Requests]
  /\ recent \in [Requests -> Seq(Requests)]
  /\ \A r \in Requests : Len(recent[r]) <= Window
  /\ before \in [Requests -> SUBSET Requests]

Overlap(q, r) ==
  q # r /\ Began(q) /\ Began(r) /\ q \notin before[r] /\ r \notin before[q]

\* A request's part of the summary is lost only if another request of the
\* session overlapped it: requests one after the other never undo each other,
\* whatever fails in between.
LostOnlyToOverlap ==
  \A q \in digested : q \in summary \/ \E r \in Requests : Overlap(q, r)

\* What a request reads are the latest turns: those that ended well before it
\* began are among them, unless the window is full of turns appended since.
FreshContext ==
  \A r \in Requests : at[r] \notin {"waiting", "reading", "failed"} =>
    \A i \in DOMAIN turns : turns[i] \in before[r] =>
      \/ \E k \in DOMAIN recent[r] : recent[r][k] = turns[i]
      \/ /\ Len(recent[r]) = Window
         /\ \A k \in DOMAIN recent[r] :
              \E j \in DOMAIN turns : j > i /\ turns[j] = recent[r][k]

\* "Make sure the sessions table has this row; the summary keeps its current
\* value": append_turn leaves the summary as it finds it.
SummaryKept ==
  [][\A r \in Requests : at[r] = "kept" /\ at'[r] = "appending"
       => summary' = summary]_memoryVars
=============================================================================
