------------------------- MODULE CalendarStoreProofs -------------------------
(***************************************************************************)
(* Proofs about the shared calendar for any number of turns, dates, ids    *)
(* and calls: no event is lost, and the statements of the calls implement  *)
(* the atomic table of CalendarTable.                                      *)
(***************************************************************************)
EXTENDS CalendarStore, TLAPS

-----------------------------------------------------------------------------
(* The inductive invariant: types, and every row carries the number of an  *)
(* insertion that took place.                                              *)

RowsCounted == \A id \in Ids : Live(id) => table[id].born <= births
StoreInv    == StoreTypeOK /\ RowsCounted

LEMMA LiveIsEvent ==
  ASSUME StoreTypeOK, NEW id \in Ids
  PROVE  Live(id) <=> table[id] \in Event
BY NoEventAssumption DEF StoreTypeOK, Live

LEMMA EventFields ==
  ASSUME NEW e \in Event
  PROVE  e.born \in Nat \ {0} /\ e.says \in Details
BY DEF Event

\* What is known of a call from the place it has reached.
LEMMA CallAt ==
  ASSUME StoreTypeOK, NEW t \in Turns
  PROVE  /\ call[t].at = "inserting" => call[t].id \in Ids /\ call[t].says \in Details
         /\ call[t].at = "created" => call[t].id \in Ids
         /\ call[t].at = "updated" => call[t].id \in Ids /\ call[t].asked \in Edits
<1>1. call[t] \in Call  BY DEF StoreTypeOK
<1> QED BY <1>1 DEF Call

LEMMA EditedIsDetails ==
  ASSUME NEW says \in Details, NEW asked \in Edits
  PROVE  Edited(says, asked) \in Details
<1>1. PICK F \in SUBSET Fields : asked \in [F -> Values]  BY DEF Edits
<1>2. ASSUME NEW f \in Fields
      PROVE  (IF f \in DOMAIN asked THEN asked[f] ELSE says[f]) \in Values
  BY <1>1, <1>2 DEF Details
<1> QED BY <1>2 DEF Edited, Details

LEMMA PlacesAreCalls ==
  /\ Idle \in Call
  /\ \A id \in Ids, says \in Details :
       [at |-> "inserting", id |-> id, says |-> says] \in Call
  /\ \A id \in Ids : [at |-> "created", id |-> id] \in Call
  /\ \A id \in Ids, asked \in Edits :
       [at |-> "updated", id |-> id, asked |-> asked] \in Call
BY DEF Idle, Call

\* An insertion under an id no row has.
LEMMA InsertSafe ==
  ASSUME StoreInv, NEW t \in Turns, InsertEvent(t)
  PROVE  StoreInv'
<1> USE DEF StoreInv
<1>1. call[t].id \in Ids /\ call[t].says \in Details
  BY CallAt DEF InsertEvent
<1>2. Row(call[t].says) \in Event /\ births' = births + 1 /\ births \in Nat
  BY <1>1 DEF Row, Event, StoreTypeOK, InsertEvent
<1>3. table' \in [Ids -> Event \cup {NoEvent}]
  BY <1>1, <1>2 DEF InsertEvent, StoreTypeOK
<1>4. call' \in [Turns -> Call] /\ effect' \in [Turns -> Nat \cup {Nothing}]
  BY <1>1, <1>2, PlacesAreCalls DEF InsertEvent, Move, Affect, StoreTypeOK
<1>5. removed' \subseteq 1 .. births'
  BY <1>2 DEF InsertEvent, StoreTypeOK
<1>6. StoreTypeOK'
  BY <1>2, <1>3, <1>4, <1>5 DEF InsertEvent, StoreTypeOK
<1>7. ASSUME NEW id \in Ids, Live(id)' PROVE (table[id].born <= births)'
  <2>1. CASE id = call[t].id
    <3>1. table'[id].born = births + 1
      BY <2>1, <1>1 DEF InsertEvent, StoreTypeOK, Row
    <3> QED BY <3>1, <1>2
  <2>2. CASE id # call[t].id
    <3>1. table'[id] = table[id]  BY <2>2 DEF InsertEvent, StoreTypeOK
    <3>2. Live(id)  BY <3>1, <1>7 DEF Live
    <3>3. table[id].born \in Nat  BY <3>2, LiveIsEvent, EventFields
    <3> QED BY <3>1, <3>2, <3>3, <1>2 DEF RowsCounted
  <2> QED BY <2>1, <2>2
<1> QED BY <1>6, <1>7 DEF RowsCounted

\* An update keeps the row's number.
LEMMA UpdateSafe ==
  ASSUME StoreInv, NEW t \in Turns, UpdateEvent(t)
  PROVE  StoreInv'
<1> USE DEF StoreInv
<1>1. PICK id \in Ids, asked \in Edits :
        /\ Live(id)
        /\ table' = [table EXCEPT ![id].says = Edited(@, asked)]
        /\ Affect(t, table[id].born)
        /\ Move(t, [at |-> "updated", id |-> id, asked |-> asked])
  BY DEF UpdateEvent
<1>2. table[id] \in Event  BY <1>1, LiveIsEvent
<1>3. table[id].born \in Nat \ {0} /\ table[id].says \in Details
  BY <1>2, EventFields
<1>4. table'[id] = [born |-> table[id].born,
                    says |-> Edited(table[id].says, asked)]
  BY <1>1, <1>2 DEF StoreTypeOK, Event
<1>5. table'[id] \in Event  BY <1>3, <1>4, EditedIsDetails DEF Event
<1>6. \A other \in Ids \ {id} : table'[other] = table[other]
  BY <1>1 DEF StoreTypeOK
<1>7. table' \in [Ids -> Event \cup {NoEvent}]
  BY <1>1, <1>5, <1>6 DEF StoreTypeOK
<1>8. call' \in [Turns -> Call] /\ effect' \in [Turns -> Nat \cup {Nothing}]
  BY <1>1, <1>3, PlacesAreCalls DEF Move, Affect, StoreTypeOK
<1>9. StoreTypeOK'
  BY <1>7, <1>8, BoundsAssumption DEF UpdateEvent, Begin, StoreTypeOK
<1>10. RowsCounted'
  <2>1. \A other \in Ids : Live(other)' => Live(other)
    BY <1>1, <1>6 DEF Live
  <2>2. \A other \in Ids : Live(other)' => table'[other].born = table[other].born
    BY <1>4, <1>6
  <2> QED BY <2>1, <2>2 DEF RowsCounted, UpdateEvent
<1> QED BY <1>9, <1>10

LEMMA DeleteSafe ==
  ASSUME StoreInv, NEW t \in Turns, DeleteEvent(t)
  PROVE  StoreInv'
<1> USE DEF StoreInv
<1>1. PICK id \in Ids :
        /\ Live(id)
        /\ table' = [table EXCEPT ![id] = NoEvent]
        /\ removed' = removed \cup {table[id].born}
        /\ Affect(t, table[id].born)
  BY DEF DeleteEvent
<1>2. table[id].born \in Nat \ {0} /\ table[id].born <= births
  BY <1>1, LiveIsEvent, EventFields DEF RowsCounted
<1>3. births' = births /\ births \in Nat  BY DEF DeleteEvent, StoreTypeOK
<1>4. removed' \subseteq 1 .. births'
  <2>1. removed \subseteq 1 .. births  BY DEF StoreTypeOK
  <2>2. table[id].born \in 1 .. births  BY <1>2, <1>3
  <2> QED BY <1>1, <1>3, <2>1, <2>2
<1>5. call' \in [Turns -> Call] /\ answer' \in [Turns -> Statuses]
  BY PlacesAreCalls DEF DeleteEvent, Return, Move, StoreTypeOK, Statuses
<1>6. effect' \in [Turns -> Nat \cup {Nothing}]
  BY <1>1, <1>2 DEF Affect, StoreTypeOK
<1>7. StoreTypeOK'
  BY <1>1, <1>3, <1>4, <1>5, <1>6, BoundsAssumption
     DEF DeleteEvent, Begin, StoreTypeOK
<1>8. RowsCounted'
  BY <1>1, <1>3 DEF RowsCounted, Live, StoreTypeOK
<1> QED BY <1>7, <1>8

\* Steps that leave the table alone.
LEMMA OtherSafe ==
  ASSUME StoreInv, NEW t \in Turns,
         \/ QueryEvents(t) \/ SelectIndex(t) \/ InsertRefused(t) \/ ReadCreated(t)
         \/ UpdateNothing(t) \/ ReadUpdated(t) \/ WriteMisses(t) \/ Raise(t)
  PROVE  StoreInv'
<1> USE DEF StoreInv
<1>1. UNCHANGED <<table, births, removed>>
  BY DEF QueryEvents, SelectIndex, InsertRefused, ReadCreated, UpdateNothing,
         ReadUpdated, WriteMisses, Raise
<1>2. RowsCounted'  BY <1>1 DEF RowsCounted, Live
<1>3. ASSUME NEW status \in Statuses, Return(t, status)
      PROVE  call' \in [Turns -> Call] /\ answer' \in [Turns -> Statuses]
  BY <1>3, PlacesAreCalls DEF Return, Move, StoreTypeOK
<1>4. call' \in [Turns -> Call] /\ answer' \in [Turns -> Statuses]
  <2>1. CASE SelectIndex(t)
    <3>1. PICK d \in Dates, says \in Details : \E n \in NextIndex(d) :
            Move(t, [at |-> "inserting", id |-> <<d, n>>, says |-> says])
      BY <2>1 DEF SelectIndex
    <3>2. PICK n \in NextIndex(d) :
            Move(t, [at |-> "inserting", id |-> <<d, n>>, says |-> says])
      BY <3>1
    <3>3. <<d, n>> \in Ids  BY <3>2 DEF NextIndex, Ids
    <3> QED BY <2>1, <3>2, <3>3, PlacesAreCalls DEF SelectIndex, Move, StoreTypeOK
  <2>2. CASE QueryEvents(t)    BY <2>2, <1>3 DEF QueryEvents, Statuses
  <2>3. CASE InsertRefused(t)  BY <2>3, <1>3 DEF InsertRefused, Statuses
  <2>4. CASE ReadCreated(t)    BY <2>4, <1>3 DEF ReadCreated, Statuses
  <2>5. CASE UpdateNothing(t)  BY <2>5, <1>3 DEF UpdateNothing, Statuses
  <2>6. CASE ReadUpdated(t)    BY <2>6, <1>3 DEF ReadUpdated, Statuses
  <2>7. CASE WriteMisses(t)    BY <2>7, <1>3 DEF WriteMisses, Statuses
  <2>8. CASE Raise(t)          BY <2>8, <1>3 DEF Raise, Statuses
  <2> QED BY <2>1, <2>2, <2>3, <2>4, <2>5, <2>6, <2>7, <2>8
<1>5. effect' \in [Turns -> Nat \cup {Nothing}]
  BY DEF QueryEvents, SelectIndex, InsertRefused, ReadCreated, UpdateNothing,
         ReadUpdated, WriteMisses, Raise, Affect, StoreTypeOK
<1>6. calls' \in 0 .. MaxCalls
  <2>1. calls \in 0 .. MaxCalls  BY DEF StoreTypeOK
  <2>2. calls' = calls \/ (calls < MaxCalls /\ calls' = calls + 1)
    BY DEF QueryEvents, SelectIndex, InsertRefused, ReadCreated,
           UpdateNothing, ReadUpdated, WriteMisses, Raise, Begin
  <2> QED BY <2>1, <2>2, BoundsAssumption
<1> QED BY <1>1, <1>2, <1>4, <1>5, <1>6 DEF StoreTypeOK

LEMMA StoreInvInit == Init => StoreInv
BY BoundsAssumption, PlacesAreCalls
   DEF Init, StoreInv, StoreTypeOK, RowsCounted, Live, Statuses

LEMMA StoreInvStep == StoreInv /\ [Next]_storeVars => StoreInv'
<1> SUFFICES ASSUME StoreInv, [Next]_storeVars PROVE StoreInv'  OBVIOUS
<1>1. CASE UNCHANGED storeVars
  BY <1>1 DEF StoreInv, StoreTypeOK, RowsCounted, Live, storeVars
<1>2. CASE Next
  BY <1>2, InsertSafe, UpdateSafe, DeleteSafe, OtherSafe DEF Next
<1> QED BY <1>1, <1>2

LEMMA StoreInvAlways == Spec => []StoreInv
BY StoreInvInit, StoreInvStep, PTL DEF Spec

\* The store keeps its types, for every number of turns, ids and calls.
THEOREM StoreTypeCorrect == Spec => []StoreTypeOK
<1>1. StoreInv => StoreTypeOK  BY DEF StoreInv
<1> QED BY <1>1, StoreInvAlways, PTL

-----------------------------------------------------------------------------
(* No event is lost.                                                       *)

\* The event inserted b-th is under id.
Holds(id, b) == Live(id) /\ table[id].born = b

LEMMA LostNeverInit == Init => NoEventLost
BY DEF Init, NoEventLost

\* A row keeps its number unless it is the one deleted.
LEMMA HoldsOn ==
  ASSUME StoreInv, [Next]_storeVars, NEW id \in Ids, NEW b \in 1 .. births,
         Holds(id, b)
  PROVE  b \in removed' \/ Holds(id, b)'
<1> USE DEF StoreInv, Holds
<1>1. CASE table' = table  BY <1>1 DEF Live
<1>2. CASE \E t \in Turns : InsertEvent(t)
  <2>1. PICK t \in Turns : InsertEvent(t)  BY <1>2
  <2>2. call[t].id # id  BY <2>1 DEF InsertEvent
  <2>3. table'[id] = table[id]  BY <2>1, <2>2 DEF InsertEvent, StoreTypeOK
  <2> QED BY <2>3 DEF Live
<1>3. CASE \E t \in Turns : UpdateEvent(t)
  <2>1. PICK t \in Turns, u \in Ids, asked \in Edits :
          Live(u) /\ table' = [table EXCEPT ![u].says = Edited(@, asked)]
    BY <1>3 DEF UpdateEvent
  <2>2. CASE u # id
    <3>1. table'[id] = table[id]  BY <2>1, <2>2 DEF StoreTypeOK
    <3> QED BY <3>1 DEF Live
  <2>3. CASE u = id
    <3>1. table[id] \in Event  BY LiveIsEvent
    <3>2. table'[id] = [born |-> table[id].born,
                        says |-> Edited(table[id].says, asked)]
      BY <2>1, <2>3, <3>1 DEF StoreTypeOK, Event
    <3>3. table'[id] \in Event
      BY <3>1, <3>2, EditedIsDetails, EventFields DEF Event
    <3> QED BY <3>2, <3>3, NoEventAssumption DEF Live
  <2> QED BY <2>2, <2>3
<1>4. CASE \E t \in Turns : DeleteEvent(t)
  <2>1. PICK t \in Turns, u \in Ids :
          /\ Live(u) /\ table' = [table EXCEPT ![u] = NoEvent]
          /\ removed' = removed \cup {table[u].born}
    BY <1>4 DEF DeleteEvent
  <2>2. CASE u = id  BY <2>1, <2>2
  <2>3. CASE u # id
    <3>1. table'[id] = table[id]  BY <2>1, <2>3 DEF StoreTypeOK
    <3> QED BY <3>1 DEF Live
  <2> QED BY <2>2, <2>3
<1>5. table' = table \/ \E t \in Turns : InsertEvent(t) \/ UpdateEvent(t) \/ DeleteEvent(t)
  BY DEF Next, storeVars, QueryEvents, SelectIndex, InsertRefused, ReadCreated,
         UpdateNothing, ReadUpdated, WriteMisses, Raise
<1> QED BY <1>1, <1>2, <1>3, <1>4, <1>5

\* The only step that counts an event puts it in the table.
LEMMA CountedIsHeld ==
  ASSUME StoreInv, [Next]_storeVars
  PROVE  \/ births' = births /\ removed \subseteq removed'
         \/ /\ births' = births + 1 /\ removed' = removed
            /\ \E id \in Ids : Holds(id, births)'
<1>1. CASE \E t \in Turns : InsertEvent(t)
  <2>1. PICK t \in Turns : InsertEvent(t)  BY <1>1
  <2>2. call[t].id \in Ids /\ call[t].says \in Details
    BY <2>1, CallAt DEF StoreInv, InsertEvent
  <2>3. PICK id \in Ids, says \in Details : id = call[t].id /\ says = call[t].says
    BY <2>2
  <2>4. table'[id] = Row(says) /\ births' = births + 1 /\ removed' = removed
    BY <2>1, <2>3 DEF InsertEvent, StoreInv, StoreTypeOK
  <2>5. Row(says) \in Event /\ Row(says).born = births + 1
    BY DEF Row, Event, StoreInv, StoreTypeOK
  <2>6. Holds(id, births)'
    BY <2>4, <2>5, NoEventAssumption DEF Holds, Live
  <2> QED BY <2>4, <2>6
<1>2. CASE ~ \E t \in Turns : InsertEvent(t)
  BY <1>2 DEF Next, storeVars, QueryEvents, SelectIndex, InsertRefused, ReadCreated,
     UpdateEvent, UpdateNothing, ReadUpdated, DeleteEvent, WriteMisses, Raise
<1> QED BY <1>1, <1>2

LEMMA LostNeverStep ==
  StoreInv /\ NoEventLost /\ [Next]_storeVars => NoEventLost'
<1> SUFFICES ASSUME StoreInv, NoEventLost, [Next]_storeVars, NEW b \in 1 .. births'
             PROVE  b \in removed' \/ \E id \in Ids : Holds(id, b)'
  BY DEF NoEventLost, Holds
<1>1. births \in Nat  BY DEF StoreInv, StoreTypeOK
<1>2. CASE b \in 1 .. births
  <2>1. b \in removed \/ \E id \in Ids : Holds(id, b)
    BY <1>2 DEF NoEventLost, Holds
  <2>2. removed \subseteq removed'  BY CountedIsHeld
  <2>3. CASE b \in removed  BY <2>2, <2>3
  <2>4. CASE \E id \in Ids : Holds(id, b)
    <3>1. PICK id \in Ids : Holds(id, b)  BY <2>4
    <3>2. b \in removed' \/ Holds(id, b)'  BY <1>2, <3>1, HoldsOn
    <3> QED BY <3>2
  <2> QED BY <2>1, <2>3, <2>4
<1>3. CASE b \notin 1 .. births
  <2>1. births' = births + 1 /\ b = births + 1
    BY <1>1, <1>3, CountedIsHeld
  <2>2. births' # births  BY <1>1, <2>1
  <2>3. \E id \in Ids : Holds(id, births)'  BY <2>2, CountedIsHeld
  <2> QED BY <2>1, <2>3
<1> QED BY <1>2, <1>3

\* However the statements of the turns interleave, an event that was inserted
\* stays in the table until a turn deletes it.
THEOREM EventsStay == Spec => []NoEventLost
BY StoreInvAlways, LostNeverInit, LostNeverStep, PTL DEF Spec

-----------------------------------------------------------------------------
(* Refinement: every statement is a step of the atomic table, or a stutter. *)

\* The two parts of the mapping that are computed.
Made    == {t \in Turns : call[t].at \in {"created", "updated"}}
Heard(status) ==
  CASE status = "none" -> "none"
    [] status \in {"events", "shown"} -> "read"
    [] status \in {"created", "updated", "deleted"} -> "done"
    [] OTHER -> "failed"
Told    == [t \in Turns |-> Heard(answer[t])]

\* A turn moves in or out of Made by its own move alone.
LEMMA MadeMoves ==
  ASSUME StoreTypeOK, NEW t \in Turns, NEW to, Move(t, to)
  PROVE  Made' = IF to.at \in {"created", "updated"} THEN Made \cup {t} ELSE Made \ {t}
<1>1. call' = [call EXCEPT ![t] = to] /\ call \in [Turns -> Call]
  BY DEF Move, StoreTypeOK
<1>2. call'[t] = to /\ \A u \in Turns \ {t} : call'[u] = call[u]
  BY <1>1
<1> QED BY <1>2 DEF Made

LEMMA ToldMoves ==
  ASSUME StoreTypeOK, NEW t \in Turns, NEW status,
         answer' = [answer EXCEPT ![t] = status]
  PROVE  Told' = [Told EXCEPT ![t] = Heard(status)]
<1>1. answer \in [Turns -> Statuses]  BY DEF StoreTypeOK
<1>2. \A u \in Turns : answer'[u] = IF u = t THEN status ELSE answer[u]
  BY <1>1
<1>3. Told' = [u \in Turns |-> Heard(answer'[u])]  BY DEF Told, Heard
<1>4. [Told EXCEPT ![t] = Heard(status)]
        = [u \in Turns |-> IF u = t THEN Heard(status) ELSE Heard(answer[u])]
  BY DEF Told
<1>5. \A u \in Turns : Heard(answer'[u])
        = IF u = t THEN Heard(status) ELSE Heard(answer[u])
  BY <1>2
<1> QED BY <1>3, <1>4, <1>5

\* A call that returns is no longer Made, and its turn hears the answer.
LEMMA Returns ==
  ASSUME StoreTypeOK, NEW t \in Turns, NEW status, Return(t, status)
  PROVE  Made' = Made \ {t} /\ Told' = [Told EXCEPT ![t] = Heard(status)]
<1>1. Move(t, Idle) /\ answer' = [answer EXCEPT ![t] = status]  BY DEF Return
<1>2. Idle.at \notin {"created", "updated"}  BY DEF Idle
<1> QED BY <1>1, <1>2, MadeMoves, ToldMoves

\* A turn that begins a call is not Made.
LEMMA BeginsUnmade ==
  ASSUME NEW t \in Turns, call[t] = Idle
  PROVE  t \notin Made /\ Made \ {t} = Made
BY DEF Made, Idle

LEMMA TableInit == Init => Table!Init
BY DEF Init, Table!Init, Idle

LEMMA MappedVariables ==
  /\ Table!tableVars = <<table, births, Made, Told>>
  /\ Table!tableVars' = <<table', births', Made', Told'>>
BY DEF Table!tableVars, Made, Told, Heard

LEMMA InsertAdds ==
  ASSUME StoreTypeOK, NEW t \in Turns, InsertEvent(t)
  PROVE  Table!Add(t)
<1>1. PICK id \in Ids, says \in Details : id = call[t].id /\ says = call[t].says
  BY CallAt DEF InsertEvent
<1>2. /\ table[id] = NoEvent
      /\ table' = [table EXCEPT ![id] = [born |-> births', says |-> says]]
      /\ births' = births + 1
  BY <1>1 DEF InsertEvent, Row, Live
<1>3. t \notin Made  BY DEF InsertEvent, Made
<1>4. Made' = Made \cup {t}
  BY MadeMoves DEF InsertEvent
<1>5. Told' = Told  BY DEF InsertEvent, Told, Heard
<1> QED BY <1>2, <1>3, <1>4, <1>5 DEF Table!Add, Made, Told, Heard

LEMMA UpdateChanges ==
  ASSUME StoreTypeOK, NEW t \in Turns, UpdateEvent(t)
  PROVE  Table!Change(t)
<1>1. PICK id \in Ids, asked \in Edits :
        /\ Live(id)
        /\ table' = [table EXCEPT ![id].says = Edited(@, asked)]
        /\ Move(t, [at |-> "updated", id |-> id, asked |-> asked])
  BY DEF UpdateEvent
<1>2. table[id] \in Event  BY <1>1, LiveIsEvent
<1>3. Edited(table[id].says, asked) \in Details
  BY <1>2, EventFields, EditedIsDetails
<1>4. table' = [table EXCEPT ![id] = [born |-> table[id].born,
                                      says |-> Edited(table[id].says, asked)]]
  <2>1. [table[id] EXCEPT !.says = Edited(table[id].says, asked)]
          = [born |-> table[id].born, says |-> Edited(table[id].says, asked)]
    BY <1>2 DEF Event
  <2> QED BY <1>1, <2>1 DEF StoreTypeOK
<1>5. t \notin Made  BY BeginsUnmade DEF UpdateEvent, Begin
<1>6. Made' = Made \cup {t}  BY <1>1, MadeMoves
<1>7. Told' = Told /\ births' = births  BY DEF UpdateEvent, Told, Heard
<1> QED BY <1>1, <1>3, <1>4, <1>5, <1>6, <1>7
        DEF Table!Change, Live, Made, Told, Heard

LEMMA DeleteRemoves ==
  ASSUME StoreTypeOK, NEW t \in Turns, DeleteEvent(t)
  PROVE  Table!Remove(t)
<1>1. t \notin Made /\ Made \ {t} = Made
  BY BeginsUnmade DEF DeleteEvent, Begin
<1>2. Made' = Made /\ Told' = [Told EXCEPT ![t] = "done"]
  BY <1>1, Returns DEF DeleteEvent, Heard
<1>3. \E id \in Ids : table[id] # NoEvent /\ table' = [table EXCEPT ![id] = NoEvent]
  BY DEF DeleteEvent, Live
<1>4. births' = births  BY DEF DeleteEvent
<1> QED BY <1>1, <1>2, <1>3, <1>4 DEF Table!Remove, Table!Tell, Made, Told, Heard

\* An answer to a call that changed nothing, or whose change is in the table.
LEMMA AnswerMaps ==
  ASSUME StoreTypeOK, NEW t \in Turns, NEW status, Return(t, status),
         UNCHANGED <<table, births>>
  PROVE  /\ Heard(status) = "read" /\ t \notin Made => Table!Look(t)
         /\ Heard(status) = "done" /\ t \in Made => Table!Confirm(t)
         /\ Heard(status) = "failed" => Table!Fail(t)
<1>1. Made' = Made \ {t} /\ Told' = [Told EXCEPT ![t] = Heard(status)]
  BY Returns
<1>2. ASSUME Heard(status) = "read", t \notin Made PROVE Table!Look(t)
  <2>1. Made' = Made  BY <1>1, <1>2
  <2> QED BY <1>1, <1>2, <2>1 DEF Table!Look, Table!Tell, Made, Told, Heard
<1>3. ASSUME Heard(status) = "done", t \in Made PROVE Table!Confirm(t)
  BY <1>1, <1>3 DEF Table!Confirm, Table!Tell, Made, Told, Heard
<1>4. ASSUME Heard(status) = "failed" PROVE Table!Fail(t)
  BY <1>1, <1>4 DEF Table!Fail, Table!Tell, Made, Told, Heard
<1> QED BY <1>2, <1>3, <1>4

LEMMA AnswersStep ==
  ASSUME StoreTypeOK, NEW t \in Turns,
         \/ QueryEvents(t) \/ UpdateNothing(t) \/ WriteMisses(t)
         \/ InsertRefused(t) \/ ReadCreated(t) \/ ReadUpdated(t) \/ Raise(t)
  PROVE  Table!Look(t) \/ Table!Confirm(t) \/ Table!Fail(t)
<1>0. UNCHANGED <<table, births>>
  BY DEF QueryEvents, UpdateNothing, WriteMisses, InsertRefused, ReadCreated,
         ReadUpdated, Raise
<1>1. CASE QueryEvents(t) \/ UpdateNothing(t)
  <2>1. t \notin Made  BY <1>1, BeginsUnmade DEF QueryEvents, UpdateNothing, Begin
  <2>2. \E status \in {"events", "shown"} : Return(t, status)
    BY <1>1 DEF QueryEvents, UpdateNothing
  <2> QED BY <1>0, <2>1, <2>2, AnswerMaps DEF Heard
<1>2. CASE WriteMisses(t) \/ InsertRefused(t) \/ Raise(t)
  <2>1. \E status \in {"not found", "raised"} : Return(t, status)
    BY <1>2 DEF WriteMisses, InsertRefused, Raise
  <2> QED BY <1>0, <2>1, AnswerMaps DEF Heard
<1>3. CASE ReadCreated(t) \/ ReadUpdated(t)
  <2>1. t \in Made  BY <1>3 DEF ReadCreated, ReadUpdated, Made
  <2>2. \E status \in {"created", "updated", "raised", "not found", "mismatch"} :
          Return(t, status)
    BY <1>3 DEF ReadCreated, ReadUpdated
  <2> QED BY <1>0, <2>1, <2>2, AnswerMaps DEF Heard
<1> QED BY <1>1, <1>2, <1>3

\* Reading the ids of a day changes nothing the table shows.
LEMMA SelectStutters ==
  ASSUME StoreTypeOK, NEW t \in Turns, SelectIndex(t)
  PROVE  UNCHANGED <<table, births, Made, Told>>
<1>1. PICK d \in Dates, says \in Details : \E n \in NextIndex(d) :
        Move(t, [at |-> "inserting", id |-> <<d, n>>, says |-> says])
  BY DEF SelectIndex
<1>2. PICK n \in NextIndex(d) :
        Move(t, [at |-> "inserting", id |-> <<d, n>>, says |-> says])
  BY <1>1
<1>3. Made' = Made \ {t}  BY <1>2, MadeMoves
<1>4. Made' = Made  BY <1>3, BeginsUnmade DEF SelectIndex, Begin
<1> QED BY <1>4 DEF SelectIndex, Told, Heard

LEMMA TableStep ==
  StoreInv /\ [Next]_storeVars => [Table!Next]_(Table!tableVars)
<1> SUFFICES ASSUME StoreInv, [Next]_storeVars
             PROVE  Table!Next \/ UNCHANGED <<table, births, Made, Told>>
  BY MappedVariables
<1>1. StoreTypeOK  BY DEF StoreInv
<1>2. CASE UNCHANGED storeVars
  BY <1>2 DEF storeVars, Made, Told, Heard
<1>3. CASE \E t \in Turns : SelectIndex(t)
  BY <1>1, <1>3, SelectStutters
<1>4. ASSUME NEW t \in Turns, InsertEvent(t) PROVE Table!Next
  BY <1>1, <1>4, InsertAdds DEF Table!Next
<1>5. ASSUME NEW t \in Turns, UpdateEvent(t) PROVE Table!Next
  BY <1>1, <1>5, UpdateChanges DEF Table!Next
<1>6. ASSUME NEW t \in Turns, DeleteEvent(t) PROVE Table!Next
  BY <1>1, <1>6, DeleteRemoves DEF Table!Next
<1>7. ASSUME NEW t \in Turns,
             \/ QueryEvents(t) \/ UpdateNothing(t) \/ WriteMisses(t)
             \/ InsertRefused(t) \/ ReadCreated(t) \/ ReadUpdated(t) \/ Raise(t)
      PROVE  Table!Next
  BY <1>1, <1>7, AnswersStep DEF Table!Next
<1> QED BY <1>2, <1>3, <1>4, <1>5, <1>6, <1>7 DEF Next

\* The calls of parallel turns, statement by statement, implement one table
\* changed atomically, in which no write is confirmed before it was made.
THEOREM StoreImplementsTable == Spec => TableSpec
BY StoreInvAlways, TableInit, TableStep, PTL DEF Spec, TableSpec, Table!Spec
=============================================================================
