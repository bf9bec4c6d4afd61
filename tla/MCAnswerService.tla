--------------------------- MODULE MCAnswerService ---------------------------
(* Requests of up to three tasks: a query and a write found through it, two *)
(* writes, knowledge with and without a tool, and nothing at all.           *)
EXTENDS AnswerService

MCSingleDay(e) == IF e = "tomorrow" THEN "d2" ELSE ""
MCStored == [title |-> "weekly sync", date |-> "d1", time |-> "t1", type |-> "meeting"]

Task(id, kind, tool, action, fields) ==
  [id |-> id, kind |-> kind, tool |-> tool, action |-> action, fields |-> fields,
   said |-> "", when |-> "", titled |-> FALSE, pinned |-> FALSE]
Cal(id, action, fields) == Task(id, "tool", Calendar, action, fields)

Find   == [Cal("q", "query", [title |-> "weekly", type |-> "meeting"])
           EXCEPT !.when = "this week"]
Move   == Cal("u", "update", [time |-> "t2"])
Delay  == [Cal("u", "update", <<>>) EXCEPT !.said = "tomorrow"]
Later  == [Cal("u", "update", <<>>) EXCEPT !.said = "this week"]
Rename == [Cal("u", "update", [title |-> "new"]) EXCEPT !.titled = TRUE, !.pinned = TRUE]
Second == [Cal("v", "update", [time |-> "t3"]) EXCEPT !.pinned = TRUE]
Drop   == Cal("x", "delete", <<>>)
Add    == [Cal("c", "create", [title |-> "new"]) EXCEPT !.said = "tomorrow"]
Ask    == Task("r", "rag", "", "", <<>>)
Skill  == Task("s", "tool", "skill", "run", <<>>)

Request(p, g) == [plan |-> p, given |-> g, unsafe |-> FALSE, sentinel |-> FALSE,
                  smalltalk |-> FALSE, past |-> 0]
Echo == [type |-> "calendar_update",
         expected |-> [time |-> "t2", title |-> "weekly", type |-> "meeting",
                       date_expression |-> "this week"],
         tool |-> "", action |-> ""]
MCRequests ==
  {Request(p, NoGoal) :
     p \in {<<Find, Move>>, <<Find, Delay>>, <<Find, Drop>>, <<Rename, Second>>,
            <<Add>>, <<Add, Drop>>, <<Ask>>, <<Ask, Skill>>, <<Find>>, <<Skill>>}}
  \cup {Request(<<Find, Move>>, Echo), Request(<<Find, Later>>, NoGoal),
        Request(<<Add, Ask>>, Goal("mixed", <<>>)),
        [Request(<<Move>>, NoGoal) EXCEPT !.past = 2],
        [Request(<<Find, Drop>>, NoGoal) EXCEPT !.sentinel = TRUE],
        [Request(<<Drop>>, NoGoal) EXCEPT !.unsafe = TRUE, !.past = 1],
        [Request(<<>>, NoGoal) EXCEPT !.smalltalk = TRUE],
        Request(<<>>, NoGoal)}
ASSUME FaithfulInstance == \A r \in Requests : Faithful(r)

MCDrafts == {{}} \cup {{"words"} \cup s : s \in SUBSET {"claims", "cannot"}}
=============================================================================
