---------------------------- MODULE MCRagService ----------------------------
(* Three tasks, two of them asking the same thing in two spellings, and a  *)
(* query only a rewrite asks.                                              *)
EXTENDS RagService

MCPlan == <<[id |-> "t1", query |-> "leave"], [id |-> "t2", query |-> "travel"],
            [id |-> "t3", query |-> "Travel"]>>
MCQueries == {"leave", "travel", "Travel"}
MCKey(q) == IF q = "Travel" THEN "travel" ELSE q
MCKbOf == [c \in Chunks |-> IF c = "f1" THEN "finance" ELSE "hr"]
=============================================================================
