---------------------------- MODULE CalendarTable ----------------------------
(***************************************************************************)
(* What the calendar tool promises the turns that share it: one table of   *)
(* events in which every write is a single change, answered as done only   *)
(* once it was made.  A new event takes an id no event has, a change keeps  *)
(* the event it changes, and an event goes only when it is deleted.  A     *)
(* failed answer promises nothing: the change may have been made.          *)
(***************************************************************************)
EXTENDS Naturals

CONSTANTS Turns, Ids, Details, NoEvent

VARIABLES
  rows,    \* the event under each id, NoEvent where there is none
  count,   \* events there have ever been: the serial number of the next one
  made,    \* turns that made a change and have not been told so
  told     \* what each turn was told last: "none", "read", "done", "failed"

tableVars == <<rows, count, made, told>>

Events == [born : Nat \ {0}, says : Details]

Init ==
  /\ rows = [id \in Ids |-> NoEvent]
  /\ count = 0 /\ made = {}
  /\ told = [t \in Turns |-> "none"]

Tell(t, what) == told' = [told EXCEPT ![t] = what]

\* A turn whose change is made is told of it before it does anything else.
Add(t) ==
  /\ t \notin made /\ made' = made \cup {t}
  /\ count' = count + 1
  /\ \E id \in Ids, says \in Details :
       /\ rows[id] = NoEvent
       /\ rows' = [rows EXCEPT ![id] = [born |-> count', says |-> says]]
  /\ UNCHANGED told

Change(t) ==
  /\ t \notin made /\ made' = made \cup {t}
  /\ \E id \in Ids, says \in Details :
       /\ rows[id] # NoEvent
       /\ rows' = [rows EXCEPT ![id] = [born |-> rows[id].born, says |-> says]]
  /\ UNCHANGED <<count, told>>

Remove(t) ==
  /\ t \notin made
  /\ \E id \in Ids :
       rows[id] # NoEvent /\ rows' = [rows EXCEPT ![id] = NoEvent]
  /\ Tell(t, "done")
  /\ UNCHANGED <<count, made>>

Look(t)    == t \notin made /\ Tell(t, "read") /\ UNCHANGED <<rows, count, made>>
Confirm(t) == t \in made /\ made' = made \ {t} /\ Tell(t, "done")
              /\ UNCHANGED <<rows, count>>
Fail(t)    == made' = made \ {t} /\ Tell(t, "failed") /\ UNCHANGED <<rows, count>>

Next == \E t \in Turns :
          Add(t) \/ Change(t) \/ Remove(t) \/ Look(t) \/ Confirm(t) \/ Fail(t)

Spec == Init /\ [][Next]_tableVars
=============================================================================
