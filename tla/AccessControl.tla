---------------------------- MODULE AccessControl ----------------------------
(***************************************************************************)
(* Who may do what: the SQLite users, sessions and role policies of        *)
(* security/auth_store.py, the permission tables of                        *)
(* security/permissions.py, the endpoints of api/app.py that use them, and *)
(* the policies a chat request keeps for its whole run                     *)
(* (AgenticRAGNodes._get_role_policies).                                   *)
(*                                                                         *)
(* Requests run in threads of one process.  One SQL transaction, or one    *)
(* stretch of Python between two of them, is a step; so an administrator   *)
(* may change a user or a policy between any two steps of a request.       *)
(***************************************************************************)
EXTENDS Naturals, Sequences, FiniteSets, SequencesExt

CONSTANTS
  Users, Passwords,  \* user names, passwords
  DemoUsers,         \* DEMO_USERS: [name -> [role, pw]]
  Requests,          \* HTTP requests; a login's token is named after it
  OldTokens,         \* tokens the database held before
  Mixes,             \* what the requests may ask for: functions to Job
  OldStores,         \* databases the process may start on
  PolicyEdits,       \* what an administrator may set a role's policy to
  UserEdits,         \* what an administrator may change of a user
  Asked,             \* sets of knowledge bases a chat may name ({}: any)
  Calls,             \* tool calls a chat may make: <<tool, action>>
  MaxSnapshots,      \* 128 in the code
  Nobody, NoPolicy

Job    == {"login", "logout", "chat", "policy", "user", "create"}
Admin  == {"policy", "user", "create"}
Tokens == Requests \cup OldTokens

ASSUME SnapshotsAssumption == MaxSnapshots \in Nat
ASSUME MixesAssumption == Mixes \subseteq [Requests -> Job]

VARIABLES
  users,      \* table users: [Users -> [role, enabled, pw] or Nobody]
  sessions,   \* table sessions: [Tokens -> [user, revoked] or Nobody]
  policies,   \* table role_policies
  migrated,   \* metadata: skill_runtime_policy_v1 = 1
  req,        \* each request: where it is and what it holds
  snapshots,  \* _role_policy_snapshots, oldest first: <<request, policies>>
  chosen,     \* history: what an administrator last set each role to
  log,        \* history: the policies in force, one entry per change
  entitled,   \* history: requests in progress whose token was good at some
              \* time since they began (an administrator's, for a change)
  newer       \* history: snapshots stored since each request stored its own
              \* (up to one more than are kept)

vars == <<users, sessions, policies, migrated, req, snapshots, chosen, log,
          entitled, newer>>

-----------------------------------------------------------------------------
(* security/permissions.py                                                 *)

Roles == {"guest", "public", "user", "employee", "finance", "hr", "it", "admin"}
Staff == Roles \ {"guest", "public"}
KBs   == {"public", "hr", "finance", "it", "product"}

User    == [role : Roles, enabled : BOOLEAN, pw : Passwords]
Session == [user : Users, revoked : BOOLEAN]
ASSUME NobodyAssumption == Nobody \notin Tokens /\ Nobody \notin Session

\* The table of policies may lack a role (NoPolicy), and has no other; its tools
\* may be of an older version, its knowledge bases are normalised when read.
ASSUME StoresAssumption ==
  \A store \in OldStores :
    /\ store.users \in [Users -> User \cup {Nobody}]
    /\ \A t \in OldTokens : store.sessions[t] \in Session \cup {Nobody}
    /\ DOMAIN store.policies = Roles
    /\ \A role \in Roles :
         LET p == store.policies[role]
         IN  p # NoPolicy => p = [tools |-> p.tools, kbs |-> p.kbs] /\ p.kbs \subseteq KBs
    /\ store.migrated \in BOOLEAN
ASSUME DemoAssumption ==
  DOMAIN DemoUsers \subseteq Users
  /\ \A u \in DOMAIN DemoUsers : DemoUsers[u].role \in Roles /\ DemoUsers[u].pw \in Passwords
ASSUME EditsAssumption ==
  \A e \in UserEdits : /\ e.name \in Users
                       /\ "enabled" \in DOMAIN e => e.enabled \in BOOLEAN
                       /\ "pw" \in DOMAIN e => e.pw \in Passwords

NormalRole(name) == IF name \in Roles THEN name ELSE "guest"

RoleKBs(role) ==
  CASE role = "admin"                -> KBs
    [] role \in {"user", "employee"} -> KBs \ {"finance"}
    [] role \in {"finance", "hr", "it"} -> {"public", role}
    [] OTHER                         -> {"public"}

ToolActions ==
  [search_knowledge_base    |-> {"*"},
   get_current_datetime     |-> {"*"},
   query_attendance_summary |-> {"*"},
   manage_company_calendar  |-> {"query", "create", "update", "delete"},
   skill                    |-> {"run"}]
ToolNames == DOMAIN ToolActions

RolesFor(tool, action) ==
  CASE tool = "query_attendance_summary" -> Staff
    [] tool = "manage_company_calendar"  ->
         IF action = "query" THEN Staff ELSE {"admin"}
    [] OTHER -> Roles

\* A policy names whole tools, <<tool>>, or single actions, <<tool, action>>.
ValidSpecs ==
  {<<t>> : t \in ToolNames} \cup
  UNION {{<<t, a>> : a \in ToolActions[t]} : t \in ToolNames}

Baseline(role, tool) ==
  {a \in ToolActions[tool] : role \in RolesFor(tool, a)}

DefaultPolicy(role) ==
  [tools |-> {<<t>> : t \in {x \in ToolNames : Baseline(role, x) # {}}},
   kbs   |-> RoleKBs(role)]

Granted(policy, tool) ==
  IF <<tool>> \in policy.tools THEN ToolActions[tool]
  ELSE {a \in ToolActions[tool] : <<tool, a>> \in policy.tools}

\* get_allowed_tool_actions: the policy narrows the static table.
AllowedActions(role, tool, pols) ==
  Baseline(role, tool) \cap Granted(pols[role], tool)

CanUse(role, call, pols) ==
  LET allowed == AllowedActions(role, call[1], pols)
  IN  "*" \in allowed \/ call[2] \in allowed

\* filter_allowed_kbs: for knowledge bases the policy replaces the table.
AllowedKBs(role, asked, pols) ==
  IF asked = {} THEN pols[role].kbs ELSE asked \cap pols[role].kbs

-----------------------------------------------------------------------------
(* security/auth_store.py: every get_auth_store() seeds the database first. *)

Stale(policy) == ~(policy.tools \subseteq ValidSpecs)

Repaired(role, policy) ==
  CASE policy = NoPolicy -> DefaultPolicy(role)
    [] policy # NoPolicy /\ Stale(policy) ->
         [tools |-> DefaultPolicy(role).tools,
          kbs   |-> IF policy.kbs # {} THEN policy.kbs ELSE RoleKBs(role)]
    [] OTHER -> policy

\* Without the marker, the migration would come back after each change.
MigratedAlways(role, policy) ==
  [policy EXCEPT !.tools = @ \cup
     (IF <<"skill">> \in DefaultPolicy(role).tools THEN {<<"skill">>} ELSE {})]

Migrated(role, policy) ==
  IF migrated THEN policy ELSE MigratedAlways(role, policy)

SeedDefaults ==
  /\ policies' = [role \in Roles |-> Migrated(role, Repaired(role, policies[role]))]
  /\ migrated' = TRUE
  /\ users' = [u \in Users |->
                 IF users[u] = Nobody /\ u \in DOMAIN DemoUsers
                 THEN [role |-> DemoUsers[u].role, enabled |-> TRUE,
                       pw |-> DemoUsers[u].pw]
                 ELSE users[u]]

AnySpecs(tools)    == tools
NormalSpecs(tools) == tools \cap ValidSpecs

-----------------------------------------------------------------------------
(* A request: its job, its token, how far it is and what it read.          *)

NoCall == << >>
Idle(job) ==
        [pc |-> "idle", job |-> job, token |-> Nobody, user |-> Nobody,
         role |-> "guest", kbs |-> {}, held |-> NoPolicy, since |-> 0,
         call |-> NoCall, at |-> 0]

At(r, pc)    == req[r].pc = pc
Goes(r, rec) == req' = [req EXCEPT ![r] = rec]
Move(r, pc)  == Goes(r, [req[r] EXCEPT !.pc = pc])
End(r)       == Goes(r, [Idle(req[r].job) EXCEPT !.pc = "over"])

\* The row authenticate_token's join finds.
LiveUser(token) ==
  IF sessions[token] = Nobody \/ sessions[token].revoked THEN Nobody
  ELSE sessions[token].user

GoodToken(token) ==
  LiveUser(token) # Nobody /\ users[LiveUser(token)].enabled

Entitled(r) ==
  /\ req[r].token # Nobody
  /\ GoodToken(req[r].token)
  /\ req[r].job \in Admin => users[LiveUser(req[r].token)].role = "admin"

\* What every step adds to the histories.
Watch ==
  /\ log' = IF policies' = policies THEN log ELSE Append(log, policies')
  /\ entitled' = {r \in Requests : \/ r \in entitled /\ req'[r].pc # "over"
                                   \/ Entitled(r)'}

NoAuthWrite == UNCHANGED <<users, sessions, policies, migrated, chosen>>
NoRunWrite  == UNCHANGED <<snapshots, newer>>

Init ==
  /\ \E store \in OldStores :
       /\ users = store.users
       /\ sessions = [t \in Tokens |-> IF t \in OldTokens THEN store.sessions[t]
                                                          ELSE Nobody]
       /\ policies = store.policies
       /\ migrated = store.migrated
       /\ log = <<store.policies>>
  /\ \E mix \in Mixes : req = [r \in Requests |-> Idle(mix[r])]
  /\ snapshots = << >> /\ newer = [r \in Requests |-> 0]
  /\ chosen = [role \in Roles |-> NoPolicy]
  /\ entitled = {}

\* The request arrives, with a token issued earlier, and opens the store.
Arrive(r) ==
  /\ At(r, "idle")
  /\ SeedDefaults
  /\ \E token \in IF req[r].job = "login" THEN {Nobody}
                  ELSE {t \in Tokens : sessions[t] # Nobody} :
       Goes(r, [req[r] EXCEPT !.pc = "opened", !.token = token,
                  !.since = Len(log) + IF policies' = policies THEN 0 ELSE 1])
  /\ UNCHANGED <<sessions, chosen>> /\ NoRunWrite

\* login: the password in one transaction ...
CheckPassword(r) ==
  /\ At(r, "opened") /\ req[r].job = "login"
  /\ \E u \in Users, pw \in Passwords :
       IF users[u] # Nobody /\ users[u].enabled /\ users[u].pw = pw
       THEN Goes(r, [req[r] EXCEPT !.pc = "checked", !.user = u])
       ELSE End(r)
  /\ NoAuthWrite /\ NoRunWrite

\* ... the session in another.
InsertSession(r) ==
  /\ At(r, "checked")
  /\ sessions' = [sessions EXCEPT ![r] = [user |-> req[r].user, revoked |-> FALSE]]
  /\ End(r)
  /\ UNCHANGED <<users, policies, migrated, chosen>> /\ NoRunWrite

Logout(r) ==
  /\ At(r, "opened") /\ req[r].job = "logout"
  /\ sessions' = [sessions EXCEPT ![req[r].token].revoked = TRUE]
  /\ End(r)
  /\ UNCHANGED <<users, policies, migrated, chosen>> /\ NoRunWrite

-----------------------------------------------------------------------------
(* Authentication, and the administrator's changes.                        *)

AcceptsDisabled(r) == LiveUser(req[r].token) # Nobody
Accepts(r)         == GoodToken(req[r].token)

\* require_current_user, then require_admin_user for the endpoints of /admin.
Authenticate(r) ==
  /\ At(r, "opened") /\ req[r].job \in Admin \cup {"chat"}
  /\ LET u    == LiveUser(req[r].token)
         role == users[u].role
     IN  IF Accepts(r) /\ (req[r].job \in Admin => role = "admin")
         THEN Goes(r, [req[r] EXCEPT !.pc = "authenticated", !.user = u,
                                     !.role = NormalRole(role)])
         ELSE End(r)
  /\ NoAuthWrite /\ NoRunWrite

\* The endpoint opens the store again before it changes anything.
OpenForChange(r) ==
  /\ At(r, "authenticated") /\ req[r].job \in Admin
  /\ SeedDefaults
  /\ Move(r, "changing")
  /\ UNCHANGED <<sessions, chosen>> /\ NoRunWrite

UpdateRolePolicy(r) ==
  /\ At(r, "changing") /\ req[r].job = "policy"
  /\ \E e \in PolicyEdits :
       LET policy == [tools |-> NormalSpecs(e.tools), kbs |-> e.kbs \cap KBs]
       IN  /\ policies' = [policies EXCEPT ![NormalRole(e.role)] = policy]
           /\ chosen' = [chosen EXCEPT ![NormalRole(e.role)] = policy]
  /\ End(r)
  /\ UNCHANGED <<users, sessions, migrated>> /\ NoRunWrite

\* update_user: only the fields given; a missing user is a 404.
UpdateUser(r) ==
  /\ At(r, "changing") /\ req[r].job = "user"
  /\ \E e \in UserEdits :
       IF users[e.name] = Nobody
       THEN End(r) /\ UNCHANGED users
       ELSE /\ users' = [users EXCEPT ![e.name] =
                          [role    |-> IF "role" \in DOMAIN e
                                       THEN NormalRole(e.role) ELSE @.role,
                           enabled |-> IF "enabled" \in DOMAIN e
                                       THEN e.enabled ELSE @.enabled,
                           pw      |-> IF "pw" \in DOMAIN e THEN e.pw ELSE @.pw]]
            /\ End(r)
  /\ UNCHANGED <<sessions, policies, migrated, chosen>> /\ NoRunWrite

\* create_user: a plain INSERT, so a name in use is a 400.
CreateUser(r) ==
  /\ At(r, "changing") /\ req[r].job = "create"
  /\ \E u \in Users, pw \in Passwords, enabled \in BOOLEAN :
       IF users[u] # Nobody
       THEN End(r) /\ UNCHANGED users
       ELSE /\ users' = [users EXCEPT ![u] =
                          [role |-> "employee", enabled |-> enabled, pw |-> pw]]
            /\ End(r)
  /\ UNCHANGED <<sessions, policies, migrated, chosen>> /\ NoRunWrite

-----------------------------------------------------------------------------
(* A chat.  _get_role_policies looks the request up in the snapshots, and   *)
(* reads and stores the policies when it is not there.                      *)

Keys      == {snapshots[i][1] : i \in DOMAIN snapshots}
PlaceOf(r) == CHOOSE i \in DOMAIN snapshots : snapshots[i][1] = r
Own(r)     == snapshots[PlaceOf(r)][2]
Without(r) == IF r \in Keys THEN RemoveAt(snapshots, PlaceOf(r)) ELSE snapshots

\* A plausible mistake: chats of one user share a snapshot.
OwnersSnapshot(r) ==
  LET mine == {i \in DOMAIN snapshots : req[snapshots[i][1]].user = req[r].user}
  IN  snapshots[CHOOSE i \in mine : \A j \in mine : i <= j][2]
SnapshotOf(r) == Own(r)

Evict(s) == IF Len(s) > MaxSnapshots THEN Tail(s) ELSE s

NeedsPolicies(r) ==
  \/ At(r, "authenticated") /\ req[r].job = "chat"
  \/ At(r, "running") /\ r \notin Keys

ReadPolicies(r) ==
  /\ NeedsPolicies(r)
  /\ Goes(r, [req[r] EXCEPT !.held = policies,
                            !.pc = IF At(r, "running") THEN "reread" ELSE "read"])
  /\ NoAuthWrite /\ NoRunWrite

StoreSnapshot(r) ==
  /\ snapshots' = Append(Evict(snapshots), <<r, req[r].held>>)
  /\ newer' = [x \in Requests |-> IF x = r THEN 0
                                   ELSE IF newer[x] > MaxSnapshots THEN newer[x]
                                   ELSE newer[x] + 1]

\* build_runtime_context: no knowledge base left means the plan stays empty.
BuildContext(r) ==
  /\ At(r, "read")
  /\ StoreSnapshot(r)
  /\ \E asked \in Asked :
       LET kbs == AllowedKBs(req[r].role, asked, req[r].held)
       IN  Goes(r, [req[r] EXCEPT !.kbs = kbs, !.held = NoPolicy,
                                !.pc = IF kbs = {} THEN "rejected" ELSE "running"])
  /\ NoAuthWrite

Called(r, call, pols) ==
  IF CanUse(req[r].role, call, pols)
  THEN Goes(r, [req[r] EXCEPT !.call = call, !.at = Len(log),
                              !.held = NoPolicy, !.pc = "running"])
  ELSE Goes(r, [req[r] EXCEPT !.held = NoPolicy, !.pc = "running"])

\* execute_selected_tool with the policies at hand.
CallTool(r) ==
  /\ At(r, "running") /\ r \in Keys
  /\ \E call \in Calls : Called(r, call, SnapshotOf(r))
  /\ NoAuthWrite /\ NoRunWrite

\* The snapshot was evicted: what was read again is stored and used at once.
CallToolAfterEviction(r) ==
  /\ At(r, "reread")
  /\ StoreSnapshot(r)
  /\ \E call \in Calls : Called(r, call, req[r].held)
  /\ NoAuthWrite

\* update_memory removes the snapshot (on_complete) ...
Finish(r) ==
  /\ At(r, "running") \/ At(r, "rejected")
  /\ End(r)
  /\ snapshots' = Without(r)
  /\ NoAuthWrite /\ UNCHANGED newer

\* ... an exception, or a client that leaves the stream, does not.
Fail(r) ==
  /\ req[r].job = "chat" /\ req[r].pc \in {"running", "rejected", "reread"}
  /\ End(r)
  /\ NoAuthWrite /\ NoRunWrite

Step(r) ==
  \/ Arrive(r)
  \/ CheckPassword(r)
  \/ InsertSession(r)
  \/ Logout(r)
  \/ Authenticate(r)
  \/ OpenForChange(r)
  \/ UpdateRolePolicy(r)
  \/ UpdateUser(r)
  \/ CreateUser(r)
  \/ ReadPolicies(r)
  \/ BuildContext(r)
  \/ CallTool(r)
  \/ CallToolAfterEviction(r)
  \/ Finish(r)
  \/ Fail(r)

Next == (\E r \in Requests : Step(r)) /\ Watch
Spec == Init /\ [][Next]_vars

-----------------------------------------------------------------------------
(* Properties.                                                             *)

Policy == [tools : SUBSET ValidSpecs, kbs : SUBSET KBs]
Pcs    == {"idle", "opened", "checked", "authenticated", "changing", "read",
           "reread", "running", "rejected", "over"}

\* Once the store has been opened, every role has a policy of valid specs, and
\* one request stores at most one snapshot.
AccessTypeOK ==
  /\ users \in [Users -> User \cup {Nobody}]
  /\ sessions \in [Tokens -> Session \cup {Nobody}]
  /\ migrated \in BOOLEAN
  /\ (\E r \in Requests : ~At(r, "idle")) => policies \in [Roles -> Policy]
  /\ \A r \in Requests : req[r].pc \in Pcs /\ req[r].kbs \subseteq KBs
  /\ \A i, j \in DOMAIN snapshots : snapshots[i][1] = snapshots[j][1] => i = j
  /\ entitled \subseteq Requests

\* What an administrator set a role to stays until one sets it again: opening
\* the store, which repairs and migrates policies every time, never undoes it.
AdminChoiceKept ==
  \A role \in Roles : chosen[role] # NoPolicy => policies[role] = chosen[role]

\* A chat calls a tool only if its role was allowed to at some moment between
\* the arrival of the request and the call: never by older policies, another
\* request's, or a mixture.
PolicyOfItsTime ==
  \A r \in Requests :
    req[r].call # NoCall =>
      \E i \in req[r].since .. req[r].at : CanUse(req[r].role, req[r].call, log[i])

\* Whoever called a tool or changed users or policies held, at some moment since
\* the request arrived, a session that was not revoked, of an enabled user (an
\* administrator, for a change): login's gap between password and session, the
\* gap between check and change, and old tokens give nobody more.
ActorWasEntitled ==
  \A r \in Requests :
    \/ req[r].call # NoCall
    \/ At(r, "changing")
    => r \in entitled

\* A running chat loses its snapshot only to more than MaxSnapshots later ones,
\* however many failed requests left theirs behind.
EvictedByLater ==
  \A r \in Requests : At(r, "running") /\ r \notin Keys => newer[r] > MaxSnapshots

\* The snapshot kept under a request's id serves that request: with the
\* policies of its time, and for as long as the bound allows
\* (agentic_nodes.py:1541).
SnapshotsServe == PolicyOfItsTime /\ EvictedByLater
=============================================================================
