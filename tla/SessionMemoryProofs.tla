------------------------- MODULE SessionMemoryProofs -------------------------
(***************************************************************************)
(* Proof about the memory of one conversation, for any number of requests: *)
(* the summary loses a request's part only to a request that overlapped.   *)
(***************************************************************************)
EXTENDS SessionMemory, TLAPS

-----------------------------------------------------------------------------
(* The inductive invariant.                                                *)

\* What a request remembers as ended had ended, and before it began it
\* remembers nothing.
EndedBefore == \A r \in Requests : \A q \in before[r] : Ended(q)

\* Request q is digested by the summary s, or was overlapped.
Safe(q, s) == q \in s \/ \E r \in Requests : Overlap(q, r)

\* The stored summary, and the one an active request has in hand and may still
\* write, are safe for whoever stored a digest.
SummarySafe == \A q \in digested : Safe(q, summary)
HeldSafe    == \A q \in digested, r \in Requests : Active(r) => Safe(q, held[r])
DigestedBegan == \A q \in digested : Began(q)

MemoryInv == /\ MemoryTypeOK /\ EndedBefore /\ DigestedBegan
             /\ SummarySafe /\ HeldSafe
-----------------------------------------------------------------------------

\* The latest n rows are rows, at most n of them, the last ones.
LEMMA LatestRows ==
  ASSUME NEW S, NEW rows \in Seq(S)
  PROVE  \E start \in 1 .. Len(rows) + 1 :
           /\ Window < Len(rows) => start = Len(rows) - Window + 1
           /\ ~(Window < Len(rows)) => start = 1
           /\ Latest(rows, Window) \in Seq(S)
           /\ Len(Latest(rows, Window)) = Len(rows) - start + 1
           /\ Len(Latest(rows, Window)) <= Window
           /\ \A k \in 1 .. Len(Latest(rows, Window)) :
                Latest(rows, Window)[k] = rows[start + k - 1]
<1>1. Len(rows) \in Nat /\ Window \in Nat  BY WindowAssumption
<1>2. PICK start \in 1 .. Len(rows) + 1 :
        start = IF Window < Len(rows) THEN Len(rows) - Window + 1 ELSE 1
  <2>1. CASE Window < Len(rows)
    <3>1. Len(rows) - Window + 1 \in 1 .. Len(rows) + 1  BY <1>1, <2>1
    <3> QED BY <2>1, <3>1
  <2>2. CASE ~(Window < Len(rows))
    <3>1. 1 \in 1 .. Len(rows) + 1  BY <1>1
    <3> QED BY <2>2, <3>1
  <2> QED BY <2>1, <2>2
<1>10. Len(rows) - start + 1 <= Window  BY <1>1, <1>2
<1>3. Latest(rows, Window) = SubSeq(rows, start, Len(rows))  BY <1>2 DEF Latest
<1>4. start \in Nat /\ start <= Len(rows) + 1 /\ Len(rows) - start + 1 \in Nat
  BY <1>1
<1>5. SubSeq(rows, start, Len(rows))
        = [k \in 1 .. Len(rows) - start + 1 |-> rows[start + k - 1]]
  BY <1>4
<1>6. \A k \in 1 .. Len(rows) - start + 1 : rows[start + k - 1] \in S
  BY <1>1
<1>7. Latest(rows, Window) \in Seq(S)  BY <1>3, <1>4, <1>5, <1>6
<1>8. Len(Latest(rows, Window)) = Len(rows) - start + 1  BY <1>3, <1>4, <1>5
<1>9. \A k \in 1 .. Len(Latest(rows, Window)) :
        Latest(rows, Window)[k] = rows[start + k - 1]
  BY <1>3, <1>4, <1>5
<1> QED BY <1>2, <1>10, <1>7, <1>8, <1>9

LEMMA TypeStep == MemoryTypeOK /\ [Next]_memoryVars => MemoryTypeOK'
<1> SUFFICES ASSUME MemoryTypeOK, [Next]_memoryVars PROVE MemoryTypeOK'
  OBVIOUS
<1> USE DEF MemoryTypeOK, Step, Hold, Places
<1>1. CASE UNCHANGED memoryVars  BY <1>1 DEF memoryVars
<1>2. ASSUME NEW r \in Requests, ReadSummary(r) PROVE MemoryTypeOK'
  BY <1>2 DEF ReadSummary
<1>3. ASSUME NEW r \in Requests, ReadTurns(r) PROVE MemoryTypeOK'
  <2>1. Latest(turns, Window) \in Seq(Requests) /\ Len(Latest(turns, Window)) <= Window
    BY LatestRows
  <2>2. recent' \in [Requests -> Seq(Requests)]
        /\ \A q \in Requests : Len(recent'[q]) <= Window
    BY <1>3, <2>1 DEF ReadTurns
  <2> QED BY <1>3, <2>2 DEF ReadTurns
<1>4. ASSUME NEW r \in Requests, Summarise(r) PROVE MemoryTypeOK'
  <2>1. held[r] \cup {r} \in SUBSET Requests  OBVIOUS
  <2>2. held' \in [Requests -> SUBSET Requests]  BY <1>4, <2>1 DEF Summarise
  <2> QED BY <1>4, <2>2 DEF Summarise
<1>5. ASSUME NEW r \in Requests, StoreSummary(r) PROVE MemoryTypeOK'
  BY <1>5 DEF StoreSummary
<1>6. ASSUME NEW r \in Requests, ReadBack(r) PROVE MemoryTypeOK'
  BY <1>6 DEF ReadBack
<1>7. ASSUME NEW r \in Requests, WriteBack(r) PROVE MemoryTypeOK'
  BY <1>7 DEF WriteBack
<1>8. ASSUME NEW r \in Requests, AppendTurn(r) PROVE MemoryTypeOK'
  BY <1>8 DEF AppendTurn
<1>9. ASSUME NEW r \in Requests, Fail(r) PROVE MemoryTypeOK'
  BY <1>9 DEF Fail
<1> QED BY <1>1, <1>2, <1>3, <1>4, <1>5, <1>6, <1>7, <1>8, <1>9 DEF Next

LEMMA MemoryInvInit == Init => MemoryInv
BY WindowAssumption
   DEF Init, MemoryInv, MemoryTypeOK, Places, EndedBefore, DigestedBegan,
       SummarySafe, HeldSafe, Active, Began

-----------------------------------------------------------------------------
(* Places and the order of requests.                                       *)

\* A request that began stays begun, one that ended stays ended, and only a
\* beginning sets what the request remembers.
LEMMA Onward ==
  ASSUME MemoryInv, [Next]_memoryVars
  PROVE  \A r \in Requests :
           /\ Began(r) => Began(r)' /\ before'[r] = before[r]
           /\ Ended(r) => Ended(r)'
           /\ ~Began(r) /\ Began(r)' =>
                ReadSummary(r) /\ before'[r] = {q \in Requests : Ended(q)}
<1> USE DEF MemoryInv, MemoryTypeOK, Step, Hold, Places, Began, Ended
<1>1. CASE UNCHANGED memoryVars  BY <1>1 DEF memoryVars
<1>2. ASSUME NEW u \in Requests, ReadSummary(u), NEW r \in Requests
      PROVE  /\ Began(r) => Began(r)' /\ before'[r] = before[r]
             /\ Ended(r) => Ended(r)'
             /\ ~Began(r) /\ Began(r)' =>
                  ReadSummary(r) /\ before'[r] = {q \in Requests : Ended(q)}
  BY <1>2 DEF ReadSummary
<1>3. ASSUME NEW u \in Requests,
             \/ ReadTurns(u) \/ Summarise(u) \/ StoreSummary(u) \/ ReadBack(u)
             \/ WriteBack(u) \/ AppendTurn(u) \/ Fail(u),
             NEW r \in Requests
      PROVE  /\ before' = before
             /\ Began(r) => Began(r)'
             /\ Ended(r) => Ended(r)'
             /\ ~Began(r) => ~Began(r)'
  BY <1>3 DEF ReadTurns, Summarise, StoreSummary, ReadBack, WriteBack,
              AppendTurn, Fail, Active
<1> QED BY <1>1, <1>2, <1>3 DEF Next

\* Overlapping requests overlap for ever.
LEMMA OverlapStays ==
  ASSUME MemoryInv, [Next]_memoryVars, NEW q \in Requests, NEW r \in Requests,
         Overlap(q, r)
  PROVE  Overlap(q, r)'
BY Onward DEF Overlap

LEMMA SafeStays ==
  ASSUME MemoryInv, [Next]_memoryVars, NEW q \in Requests, NEW s, Safe(q, s)
  PROVE  q \in s \/ \E r \in Requests : Overlap(q, r)'
<1>1. CASE q \in s  BY <1>1
<1>2. CASE \E r \in Requests : Overlap(q, r)
  <2>1. PICK r \in Requests : Overlap(q, r)  BY <1>2
  <2> QED BY <2>1, OverlapStays
<1> QED BY <1>1, <1>2 DEF Safe

LEMMA EndedBeforeStep == MemoryInv /\ [Next]_memoryVars => EndedBefore'
<1> SUFFICES ASSUME MemoryInv, [Next]_memoryVars,
                    NEW r \in Requests, NEW q \in before'[r]
             PROVE  Ended(q)'
  BY DEF EndedBefore
<1>1. q \in Requests  BY TypeStep DEF MemoryInv, MemoryTypeOK
<1>2. CASE Began(r)
  <2>1. q \in before[r]  BY <1>2, Onward
  <2> QED BY <1>1, <2>1, Onward DEF MemoryInv, EndedBefore
<1>3. CASE ~Began(r) /\ Began(r)'
  <2>1. Ended(q)  BY <1>3, Onward
  <2> QED BY <1>1, <2>1, Onward
<1>4. CASE ~Began(r) /\ ~Began(r)'
  <2>1. before'[r] = before[r]
    BY <1>4 DEF MemoryInv, MemoryTypeOK, Next, memoryVars, ReadSummary, ReadTurns,
       Summarise, StoreSummary, ReadBack, WriteBack, AppendTurn, Fail, Step, Began
  <2> QED BY <1>1, <2>1, Onward DEF MemoryInv, EndedBefore
<1> QED BY <1>2, <1>3, <1>4

-----------------------------------------------------------------------------
(* The summary.                                                            *)

\* The requests that have stored a digest: the step of StoreSummary adds its own.
LEMMA DigestedGrows ==
  ASSUME [Next]_memoryVars
  PROVE  \/ digested' = digested
         \/ \E r \in Requests :
              /\ StoreSummary(r) /\ r \in held[r]
              /\ digested' = digested \cup {r}
BY DEF Next, memoryVars, ReadSummary, ReadTurns, Summarise, StoreSummary,
       ReadBack, WriteBack, AppendTurn, Fail

LEMMA DigestedBeganStep == MemoryInv /\ [Next]_memoryVars => DigestedBegan'
<1> SUFFICES ASSUME MemoryInv, [Next]_memoryVars, NEW q \in digested'
             PROVE  Began(q)'
  BY DEF DigestedBegan
<1>1. CASE q \in digested
  <2>1. q \in Requests /\ Began(q)
    BY <1>1 DEF MemoryInv, MemoryTypeOK, DigestedBegan
  <2> QED BY <2>1, Onward
<1>2. CASE q \notin digested
  <2>1. q \in Requests /\ StoreSummary(q)  BY <1>2, DigestedGrows
  <2> QED BY <2>1 DEF StoreSummary, Step, Began, MemoryInv, MemoryTypeOK
<1> QED BY <1>1, <1>2

\* Whoever has begun to write since is ordered after q or overlaps it.
LEMMA ActiveOrder ==
  ASSUME MemoryInv, NEW q \in Requests, NEW r \in Requests,
         Began(q), Active(r), q # r, q \notin before[r]
  PROVE  Overlap(q, r)
<1>1. r \notin before[q]  BY DEF MemoryInv, EndedBefore, Active
<1> QED BY <1>1 DEF Overlap, Active

\* The summary a step leaves is the one before, or what the active request that
\* takes the step has in hand.
LEMMA SummaryWrites ==
  ASSUME MemoryInv, [Next]_memoryVars
  PROVE  \/ summary' = summary /\ digested' = digested
         \/ \E r \in Requests : /\ Active(r) /\ summary' = held[r]
                                /\ held' = held
                                /\ \/ digested' = digested
                                   \/ r \in held[r] /\ digested' = digested \cup {r}
BY DEF Next, memoryVars, ReadSummary, ReadTurns, Summarise, StoreSummary,
       ReadBack, WriteBack, AppendTurn, Fail, Step, Active, Began, Ended,
       MemoryInv, MemoryTypeOK

LEMMA SummarySafeStep == MemoryInv /\ [Next]_memoryVars => SummarySafe'
<1> SUFFICES ASSUME MemoryInv, [Next]_memoryVars, NEW q \in digested'
             PROVE  q \in summary' \/ \E u \in Requests : Overlap(q, u)'
  BY DEF SummarySafe, Safe
<1>1. CASE summary' = summary /\ digested' = digested
  <2>1. q \in Requests /\ Safe(q, summary)
    BY <1>1 DEF MemoryInv, MemoryTypeOK, SummarySafe
  <2> QED BY <1>1, <2>1, SafeStays
<1>2. ASSUME NEW r \in Requests, Active(r), summary' = held[r],
             \/ digested' = digested
             \/ r \in held[r] /\ digested' = digested \cup {r}
      PROVE  q \in summary' \/ \E u \in Requests : Overlap(q, u)'
  <2>1. CASE q \in digested
    <3>1. q \in Requests /\ Safe(q, held[r])
      BY <1>2, <2>1 DEF MemoryInv, MemoryTypeOK, HeldSafe
    <3> QED BY <1>2, <3>1, SafeStays
  <2>2. CASE q \notin digested  BY <1>2, <2>2
  <2> QED BY <2>1, <2>2
<1> QED BY <1>1, <1>2, SummaryWrites

\* What an active request has in hand is what it had, that and itself, or the
\* stored summary just read.
LEMMA HeldChanges ==
  ASSUME MemoryInv, [Next]_memoryVars, NEW r \in Requests, Active(r)'
  PROVE  \/ Active(r) /\ held[r] \subseteq held'[r]
         \/ held'[r] = summary /\ digested' = digested
BY DEF Next, memoryVars, ReadSummary, ReadTurns, Summarise, StoreSummary,
       ReadBack, WriteBack, AppendTurn, Fail, Step, Hold, Active, Began, Ended,
       MemoryInv, MemoryTypeOK

LEMMA HeldSafeStep == MemoryInv /\ [Next]_memoryVars => HeldSafe'
<1> SUFFICES ASSUME MemoryInv, [Next]_memoryVars,
                    NEW q \in digested', NEW r \in Requests, Active(r)'
             PROVE  q \in held'[r] \/ \E u \in Requests : Overlap(q, u)'
  BY DEF HeldSafe, Safe
<1>0. q \in Requests  BY TypeStep DEF MemoryInv, MemoryTypeOK
<1>1. CASE q \in digested
  <2>1. CASE Active(r) /\ held[r] \subseteq held'[r]
    <3>1. Safe(q, held[r])  BY <1>1, <2>1 DEF MemoryInv, HeldSafe
    <3> QED BY <1>0, <2>1, <3>1, SafeStays
  <2>2. CASE held'[r] = summary
    <3>1. Safe(q, summary)  BY <1>1 DEF MemoryInv, SummarySafe
    <3> QED BY <1>0, <2>2, <3>1, SafeStays
  <2> QED BY <2>1, <2>2, HeldChanges
<1>2. CASE q \notin digested
  <2>1. StoreSummary(q) /\ q \in held[q]  BY <1>2, DigestedGrows
  <2>2. held' = held  BY <2>1 DEF StoreSummary
  <2>3. CASE r = q  BY <2>1, <2>2, <2>3
  <2>4. CASE r # q
    <3>1. Active(q) /\ ~Ended(q)
      BY <1>0, <2>1 DEF StoreSummary, Step, Active, Began, Ended
    <3>2. Active(r)
      BY <1>0, <2>1, <2>4
         DEF StoreSummary, Step, Active, Began, Ended, MemoryInv, MemoryTypeOK
    <3>3. q \notin before[r]  BY <3>1 DEF MemoryInv, EndedBefore
    <3>4. Overlap(q, r)
      BY <1>0, <2>4, <3>1, <3>2, <3>3, ActiveOrder DEF Active
    <3> QED BY <1>0, <3>4, OverlapStays
  <2> QED BY <2>3, <2>4
<1> QED BY <1>1, <1>2

LEMMA MemoryInvStep == MemoryInv /\ [Next]_memoryVars => MemoryInv'
BY TypeStep, EndedBeforeStep, DigestedBeganStep, SummarySafeStep, HeldSafeStep
   DEF MemoryInv

LEMMA MemoryInvAlways == Spec => []MemoryInv
BY MemoryInvInit, MemoryInvStep, PTL DEF Spec

\* The memory keeps its types, for any number of requests and any window.
THEOREM MemoryTypeCorrect == Spec => []MemoryTypeOK
<1>1. MemoryInv => MemoryTypeOK  BY DEF MemoryInv
<1> QED BY <1>1, MemoryInvAlways, PTL

\* A request's part of the summary is lost only to a request that overlapped it.
THEOREM OverlapAloneLoses == Spec => []LostOnlyToOverlap
<1>1. MemoryInv => LostOnlyToOverlap
  BY DEF MemoryInv, SummarySafe, Safe, LostOnlyToOverlap
<1> QED BY <1>1, MemoryInvAlways, PTL

-----------------------------------------------------------------------------
(* The context.                                                            *)

\* What FreshContext says of the turns `read` when `rows` are appended and `known`
\* are the requests that had ended.
FreshFor(read, rows, known) ==
  \A i \in DOMAIN rows : rows[i] \in known =>
    \/ \E k \in DOMAIN read : read[k] = rows[i]
    \/ /\ Len(read) = Window
       /\ \A k \in DOMAIN read : \E j \in DOMAIN rows : j > i /\ rows[j] = read[k]

\* The latest turns leave out only what the window has no room for.
LEMMA LatestIsFresh ==
  ASSUME NEW rows \in Seq(Requests), NEW known
  PROVE  FreshFor(Latest(rows, Window), rows, known)
<1> DEFINE read  == Latest(rows, Window)
           start == IF Window < Len(rows) THEN Len(rows) - Window + 1 ELSE 1
<1>1. Len(rows) \in Nat /\ Window \in Nat  BY WindowAssumption
<1>2. /\ start \in 1 .. Len(rows) + 1
      /\ start = 1 \/ (Window < Len(rows) /\ start = Len(rows) - Window + 1)
  BY <1>1
<1>3. /\ read \in Seq(Requests)
      /\ Len(read) = Len(rows) - start + 1
      /\ \A k \in 1 .. Len(read) : read[k] = rows[start + k - 1]
  BY LatestRows
<1> HIDE DEF read, start
<1>4. ASSUME NEW i \in DOMAIN rows
      PROVE  \/ \E k \in DOMAIN read : read[k] = rows[i]
             \/ /\ Len(read) = Window
                /\ \A k \in DOMAIN read :
                     \E j \in DOMAIN rows : j > i /\ rows[j] = read[k]
  <2>0. i \in 1 .. Len(rows) /\ DOMAIN read = 1 .. Len(read)  BY <1>3, <1>4
  <2>1. CASE i >= start
    <3>1. i - start + 1 \in 1 .. Len(read)  BY <1>1, <1>2, <1>3, <2>0, <2>1
    <3>2. read[i - start + 1] = rows[start + (i - start + 1) - 1]
      BY <1>3, <3>1
    <3>3. start + (i - start + 1) - 1 = i  BY <1>1, <1>2, <2>0
    <3>4. read[i - start + 1] = rows[i]  BY <3>2, <3>3
    <3> QED BY <2>0, <3>1, <3>4
  <2>2. CASE i < start
    <3>1. Window < Len(rows) /\ start = Len(rows) - Window + 1
      BY <1>1, <1>2, <2>0, <2>2
    <3>2. Len(read) = Window  BY <1>1, <1>3, <3>1
    <3>3. ASSUME NEW k \in DOMAIN read
          PROVE  \E j \in DOMAIN rows : j > i /\ rows[j] = read[k]
      <4>1. k \in 1 .. Len(read)  BY <2>0, <3>3
      <4>2. start + k - 1 \in 1 .. Len(rows) /\ start + k - 1 > i
        BY <1>1, <1>2, <1>3, <2>0, <2>2, <4>1
      <4>3. rows[start + k - 1] = read[k]  BY <1>3, <4>1
      <4> QED BY <4>2, <4>3
    <3> QED BY <3>2, <3>3
  <2>3. i >= start \/ i < start  BY <1>1, <1>2, <2>0
  <2> QED BY <2>1, <2>2, <2>3
<1>5. FreshFor(read, rows, known)  BY <1>4 DEF FreshFor
<1> QED BY <1>5 DEF read

\* A turn appended by a request that had not ended changes nothing.
LEMMA FreshStays ==
  ASSUME NEW rows \in Seq(Requests), NEW read, NEW known, NEW u \in Requests,
         u \notin known, FreshFor(read, rows, known)
  PROVE  FreshFor(read, Append(rows, u), known)
<1>1. /\ DOMAIN rows = 1 .. Len(rows) /\ Len(rows) \in Nat
      /\ DOMAIN Append(rows, u) = 1 .. Len(rows) + 1
      /\ Append(rows, u)[Len(rows) + 1] = u
      /\ \A i \in 1 .. Len(rows) : Append(rows, u)[i] = rows[i]
  OBVIOUS
<1>2. ASSUME NEW i \in DOMAIN Append(rows, u), Append(rows, u)[i] \in known
      PROVE  \/ \E k \in DOMAIN read : read[k] = Append(rows, u)[i]
             \/ /\ Len(read) = Window
                /\ \A k \in DOMAIN read :
                     \E j \in DOMAIN Append(rows, u) :
                       j > i /\ Append(rows, u)[j] = read[k]
  <2>1. i \in 1 .. Len(rows) /\ Append(rows, u)[i] = rows[i]  BY <1>1, <1>2
  <2>2. \/ \E k \in DOMAIN read : read[k] = rows[i]
        \/ /\ Len(read) = Window
           /\ \A k \in DOMAIN read : \E j \in DOMAIN rows : j > i /\ rows[j] = read[k]
    BY <1>1, <1>2, <2>1 DEF FreshFor
  <2>3. \A j \in DOMAIN rows : j \in DOMAIN Append(rows, u) /\ Append(rows, u)[j] = rows[j]
    BY <1>1
  <2> QED BY <2>1, <2>2, <2>3
<1> QED BY <1>2 DEF FreshFor

LEMMA FreshRestated ==
  FreshContext <=>
    \A r \in Requests : at[r] \notin {"waiting", "reading", "failed"} =>
      FreshFor(recent[r], turns, before[r])
BY DEF FreshContext, FreshFor

LEMMA FreshStep == MemoryInv /\ FreshContext /\ [Next]_memoryVars => FreshContext'
<1> SUFFICES ASSUME MemoryInv, FreshContext, [Next]_memoryVars, NEW r \in Requests,
                    at'[r] \notin {"waiting", "reading", "failed"}
             PROVE  FreshFor(recent'[r], turns', before'[r])
  BY DEF FreshContext, FreshFor
<1>1. turns \in Seq(Requests)  BY DEF MemoryInv, MemoryTypeOK
<1>2. CASE ReadTurns(r)
  <2>1. recent'[r] = Latest(turns, Window) /\ turns' = turns
    BY <1>2 DEF ReadTurns, MemoryInv, MemoryTypeOK
  <2> QED BY <1>1, <2>1, LatestIsFresh
<1>3. CASE ~ReadTurns(r)
  <2>1. /\ at[r] \notin {"waiting", "reading", "failed"}
        /\ recent'[r] = recent[r] /\ before'[r] = before[r]
    BY <1>3 DEF Next, memoryVars, ReadSummary, ReadTurns, Summarise, StoreSummary,
       ReadBack, WriteBack, AppendTurn, Fail, Step, MemoryInv, MemoryTypeOK
  <2>2. FreshFor(recent[r], turns, before[r])  BY <2>1, FreshRestated
  <2>3. CASE turns' = turns  BY <2>1, <2>2, <2>3
  <2>4. ASSUME NEW u \in Requests, AppendTurn(u)
        PROVE  FreshFor(recent'[r], turns', before'[r])
    <3>1. u \notin before[r]
      BY <2>4 DEF AppendTurn, Step, Ended, MemoryInv, EndedBefore
    <3>2. turns' = Append(turns, u)  BY <2>4 DEF AppendTurn
    <3>3. FreshFor(recent[r], Append(turns, u), before[r])
      BY <1>1, <2>2, <3>1, FreshStays
    <3> QED BY <2>1, <3>2, <3>3
  <2>5. turns' = turns \/ \E u \in Requests : AppendTurn(u)
    BY DEF Next, memoryVars, ReadSummary, ReadTurns, Summarise, StoreSummary,
       ReadBack, WriteBack, Fail
  <2> QED BY <2>3, <2>4, <2>5
<1> QED BY <1>2, <1>3

\* A request reads the latest turns: one that ended before it began is missing
\* only when later ones fill the window.
THEOREM ContextIsFresh == Spec => []FreshContext
<1>1. Init => FreshContext  BY DEF Init, FreshContext
<1> QED BY <1>1, MemoryInvAlways, FreshStep, PTL DEF Spec
=============================================================================
