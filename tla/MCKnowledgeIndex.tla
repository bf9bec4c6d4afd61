--------------------------- MODULE MCKnowledgeIndex ---------------------------
(* Two files, one in the product base whose name has an IT keyword (as       *)
(* product_03_tool_calling_trace_observability.txt has); two texts that share *)
(* their first chunk.  Either builds compete, or requests meet a reindex.     *)
EXTENDS KnowledgeIndex

MCSources == {[dir |-> "public", words |-> {}], [dir |-> "product", words |-> {"it"}]}
MCVersions == {1, 2}
MCPieces == <<  <<"p">>, <<"p", "q">> >>
MCScenarios ==
  {[builds |-> Builds, readers |-> {}, edits |-> 2],
   [builds |-> ApiBuilds, readers |-> Readers, edits |-> 0],
   [builds |-> Builds, readers |-> {CHOOSE r \in Readers : TRUE}, edits |-> 0]}
MCStarts ==
  {[s \in Sources |-> 1], [s \in Sources |-> IF s.dir = "public" THEN 2 ELSE Absent]}
=============================================================================
