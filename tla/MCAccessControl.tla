--------------------------- MODULE MCAccessControl ---------------------------
(* An old database with a policy of a tool that no longer exists and one     *)
(* without skills, two users with open sessions, and four requests: chats     *)
(* that compete for snapshots, one that may log in or out, an administrator.  *)
EXTENDS AccessControl

CONSTANTS ta, te

MCUsers     == {"admin", "employee", "kim"}
MCDemoUsers == [admin |-> [role |-> "admin", pw |-> "p"],
                employee |-> [role |-> "employee", pw |-> "p"]]
MCMixes ==
  {m \in [Requests -> Job] :
     LET n == [job \in Job |-> Cardinality({r \in Requests : m[r] = job})]
     IN  \/ n["chat"] = 3 /\ n["policy"] = 1
         \/ n["chat"] = 1 /\ n["login"] = 1 /\ n["user"] = 1 /\ n["policy"] = 1
         \/ n["chat"] = 1 /\ n["logout"] = 1 /\ n["user"] = 2
         \/ n["chat"] = 1 /\ n["login"] = 1 /\ n["create"] = 1 /\ n["user"] = 1}
RequestSymmetry == Permutations(Requests)

Row(role) == [role |-> role, enabled |-> TRUE, pw |-> "p"]
Calendar(acts) == {<<"manage_company_calendar", x>> : x \in acts}
Plain(role) == [DefaultPolicy(role) EXCEPT !.tools = @ \ {<<"skill">>}]

\* A fresh database, and one from before skills with a tool since removed.
MCOldStores ==
  { [users |-> [u \in Users |-> IF u = "kim" THEN Nobody ELSE Row(u)],
     sessions |-> [t \in OldTokens |->
                     [user |-> IF t = ta THEN "admin" ELSE "employee",
                      revoked |-> FALSE]],
     policies |-> [role \in Roles |->
                     IF role = "employee"
                     THEN [tools |-> {<<"lookup_order">>}, kbs |-> {"hr"}]
                     ELSE IF role = "guest" THEN NoPolicy ELSE Plain(role)],
     migrated |-> FALSE] }

MCPolicyEdits ==
  { [role |-> "employee", kbs |-> {"public"}, tools |-> Calendar({"query", "approve"})],
    [role |-> "admin", kbs |-> {}, tools |-> {<<"skill">>}] }
MCUserEdits ==
  { [name |-> "employee", enabled |-> FALSE],
    [name |-> "admin", role |-> "contractor"] }
MCCalls == {<<"skill", "run">>, <<"manage_company_calendar", "create">>}
MCAsked == {{}, {"finance"}}
=============================================================================
