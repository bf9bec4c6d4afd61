---------------------------- MODULE CalendarStore ----------------------------
(***************************************************************************)
(* The SQLite calendar of tools/calendar_tool.py and                       *)
(* tools/repositories/calendar_repository.py, shared by the turns the API  *)
(* serves in parallel threads.  Every statement opens a connection of its  *)
(* own, so a call is as many steps as it has statements: a creation reads  *)
(* the ids of the day, inserts and reads back; an update writes and reads  *)
(* back, and the tool gate compares what it read with what was asked.      *)
(***************************************************************************)
EXTENDS Naturals, FiniteSets

CONSTANTS
  Turns,      \* requests served at the same time
  Dates,      \* the dates in event ids
  MaxIndex,   \* bound: the numbers of one day's ids, EVT-<date>-<n>
  Fields,     \* what an event says besides its id: title, date, time, ...
  Values,
  MaxCalls,   \* bound: calls made altogether
  NoEvent, Nothing

Ids     == Dates \X (1 .. MaxIndex)
Details == [Fields -> Values]
Edits   == UNION {[F -> Values] : F \in SUBSET Fields \ {{}}}
Event   == [born : Nat \ {0}, says : Details]
Call    == [at : {"idle"}]
           \cup [at : {"inserting"}, id : Ids, says : Details]
           \cup [at : {"created"}, id : Ids]
           \cup [at : {"updated"}, id : Ids, asked : Edits]
Idle    == [at |-> "idle"]
Statuses == {"none", "events", "shown", "created", "updated", "deleted",
             "not found", "mismatch", "raised"}

ASSUME BoundsAssumption == MaxIndex \in Nat \ {0} /\ MaxCalls \in Nat
ASSUME NoEventAssumption == NoEvent \notin Event /\ Nothing \notin Nat

VARIABLES
  table,    \* calendar_events by event_id
  births,   \* the AUTOINCREMENT counter: rows ever inserted
  call,     \* where each turn is in its call
  answer,   \* what its last call returned
  effect,   \* history: the row its current or last call changed
  removed,  \* history: rows that were deleted
  calls     \* calls made so far

storeVars == <<table, births, call, answer, effect, removed, calls>>

Edited(says, asked) ==
  [f \in Fields |-> IF f \in DOMAIN asked THEN asked[f] ELSE says[f]]
Agrees(says, asked) == \A f \in DOMAIN asked : says[f] = asked[f]

Live(id)   == table[id] # NoEvent
Row(says)  == [born |-> births + 1, says |-> says]

\* next_event_id: one more than the largest number the day's ids have.
LastIndex(d) ==
  {n \in 0 .. MaxIndex :
     (n = 0 \/ Live(<<d, n>>)) /\ \A m \in (n + 1) .. MaxIndex : ~Live(<<d, m>>)}

NextIndex(d) ==
  {n \in 1 .. MaxIndex :
     (n = 1 \/ Live(<<d, n - 1>>)) /\ \A m \in n .. MaxIndex : ~Live(<<d, m>>)}

Move(t, to)   == call' = [call EXCEPT ![t] = to]
Return(t, status) ==
  /\ Move(t, Idle)
  /\ answer' = [answer EXCEPT ![t] = status]
Affect(t, b)  == effect' = [effect EXCEPT ![t] = b]

\* A new call of turn t.
Begin(t) == call[t] = Idle /\ calls < MaxCalls /\ calls' = calls + 1

-----------------------------------------------------------------------------

Init ==
  /\ table = [id \in Ids |-> NoEvent]
  /\ births = 0 /\ removed = {} /\ calls = 0
  /\ call = [t \in Turns |-> Idle]
  /\ answer = [t \in Turns |-> "none"]
  /\ effect = [t \in Turns |-> Nothing]

QueryEvents(t) ==
  /\ Begin(t) /\ Return(t, "events") /\ Affect(t, Nothing)
  /\ UNCHANGED <<table, births, removed>>

\* create_event, statement by statement.
SelectIndex(t) ==
  /\ Begin(t) /\ Affect(t, Nothing)
  /\ \E d \in Dates, says \in Details : \E n \in NextIndex(d) :
       Move(t, [at |-> "inserting", id |-> <<d, n>>, says |-> says])
  /\ UNCHANGED <<table, births, answer, removed>>

InsertOrReplace(t) ==
  /\ call[t].at = "inserting"
  /\ table' = [table EXCEPT ![call[t].id] = Row(call[t].says)]
  /\ births' = births + 1 /\ Affect(t, births')
  /\ Move(t, [at |-> "created", id |-> call[t].id])
  /\ UNCHANGED <<answer, removed, calls>>

\* event_id is UNIQUE: an id taken in the meantime raises.
InsertEvent(t) ==
  /\ call[t].at = "inserting"
  /\ ~Live(call[t].id)
  /\ table' = [table EXCEPT ![call[t].id] = Row(call[t].says)]
  /\ births' = births + 1 /\ Affect(t, births')
  /\ Move(t, [at |-> "created", id |-> call[t].id])
  /\ UNCHANGED <<answer, removed, calls>>

InsertRefused(t) ==
  /\ call[t].at = "inserting" /\ Live(call[t].id)
  /\ Return(t, "raised")
  /\ UNCHANGED <<table, births, effect, removed, calls>>

ReadCreated(t) ==
  /\ call[t].at = "created"
  /\ Return(t, IF Live(call[t].id) THEN "created" ELSE "raised")
  /\ UNCHANGED <<table, births, effect, removed, calls>>

\* update_event: the UPDATE, whose row count tells whether the id exists.
UpdateEvent(t) ==
  /\ Begin(t)
  /\ \E id \in Ids, asked \in Edits :
       /\ Live(id)
       /\ table' = [table EXCEPT ![id].says = Edited(@, asked)]
       /\ Affect(t, table[id].born)
       /\ Move(t, [at |-> "updated", id |-> id, asked |-> asked])
  /\ UNCHANGED <<births, answer, removed>>

\* An update that gives no field is a SELECT, and still answers "updated".
UpdateNothing(t) ==
  /\ Begin(t) /\ Affect(t, Nothing)
  /\ \E id \in Ids : Live(id)
  /\ Return(t, "shown")
  /\ UNCHANGED <<table, births, removed>>

\* The read-back, and the gate's comparison of the result with the request.
ReadUpdated(t) ==
  /\ call[t].at = "updated"
  /\ Return(t, IF ~Live(call[t].id) THEN "not found"
               ELSE IF Agrees(table[call[t].id].says, call[t].asked)
                    THEN "updated" ELSE "mismatch")
  /\ UNCHANGED <<table, births, effect, removed, calls>>

DeleteEvent(t) ==
  /\ Begin(t)
  /\ \E id \in Ids :
       /\ Live(id)
       /\ table' = [table EXCEPT ![id] = NoEvent]
       /\ removed' = removed \cup {table[id].born}
       /\ Affect(t, table[id].born)
  /\ Return(t, "deleted")
  /\ UNCHANGED births

\* The row count left unread.
WriteMissesUnseen(t) ==
  /\ Begin(t) /\ Affect(t, Nothing)
  /\ \E id \in Ids : ~Live(id)
  /\ Return(t, "deleted")
  /\ UNCHANGED <<table, births, removed>>

\* An update or a deletion of an id no row has.
WriteMisses(t) ==
  /\ Begin(t) /\ Affect(t, Nothing)
  /\ \E id \in Ids : ~Live(id)
  /\ Return(t, "not found")
  /\ UNCHANGED <<table, births, removed>>

\* The next statement of a call fails, its first one included: the database
\* stays locked past the driver's timeout, or is gone.
Raise(t) ==
  /\ \/ call[t] # Idle /\ UNCHANGED <<effect, calls>>
     \/ Begin(t) /\ Affect(t, Nothing)
  /\ Return(t, "raised")
  /\ UNCHANGED <<table, births, removed>>

Next ==
  \E t \in Turns :
    \/ QueryEvents(t)
    \/ SelectIndex(t)
    \/ InsertEvent(t)
    \/ InsertRefused(t)
    \/ ReadCreated(t)
    \/ UpdateEvent(t)
    \/ UpdateNothing(t)
    \/ ReadUpdated(t)
    \/ DeleteEvent(t)
    \/ WriteMisses(t)
    \/ Raise(t)

Spec == Init /\ [][Next]_storeVars

-----------------------------------------------------------------------------
(* Properties.                                                             *)

StoreTypeOK ==
  /\ table \in [Ids -> Event \cup {NoEvent}]
  /\ births \in Nat /\ calls \in 0 .. MaxCalls
  /\ call \in [Turns -> Call]
  /\ answer \in [Turns -> Statuses]
  /\ effect \in [Turns -> Nat \cup {Nothing}]
  /\ removed \subseteq 1 .. births

\* However creations, updates and deletions interleave, an event that was ever
\* inserted is in the table until somebody deletes it: no write of one turn
\* undoes the creation of another.
NoEventLost ==
  \A b \in 1 .. births :
    b \in removed \/ \E id \in Ids : Live(id) /\ table[id].born = b

\* The statements of the calls add up to atomic changes of one table, each
\* confirmed only after it was made.
Table == INSTANCE CalendarTable WITH
  rows  <- table,
  count <- births,
  made  <- {t \in Turns : call[t].at \in {"created", "updated"}},
  told  <- [t \in Turns |->
              CASE answer[t] = "none" -> "none"
                [] answer[t] \in {"events", "shown"} -> "read"
                [] answer[t] \in {"created", "updated", "deleted"} -> "done"
                [] OTHER -> "failed"]
TableSpec == Table!Spec

\* "no event with the given event_id was found, nothing was updated or deleted
\* this time": a call answered so changed nothing.
NotFoundMeansUnchanged ==
  \A t \in Turns : answer[t] = "not found" /\ call[t] = Idle => effect[t] = Nothing
=============================================================================
