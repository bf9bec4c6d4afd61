------------------------- MODULE AccessControlProofs -------------------------
(***************************************************************************)
(* For all users, databases, requests and edits: what an administrator set *)
(* a role to is never undone by opening the store, nobody acts without     *)
(* having been entitled to at some moment of the request, and the snapshot *)
(* of the policies kept for a request serves that request.                 *)
(*                                                                         *)
(* Each is inductive once it also says what the step before it relied on:  *)
(* an administrator's choice, that the store was migrated before it and     *)
(* that it names valid tools only, so that there is nothing to repair; an  *)
(* actor, that every request past its authentication is remembered as       *)
(* entitled, and that only such a request can have made a call; a snapshot, *)
(* that its place tells how many were stored after it and that it holds     *)
(* policies in force since its request arrived.                             *)
(***************************************************************************)
EXTENDS AccessControl, TLAPS, SequenceTheorems

Fields == {"pc", "job", "token", "user", "role", "kbs", "held", "since", "call", "at"}
Acting == {"authenticated", "changing", "read", "reread", "running", "rejected"}

\* Functions and records of the shape the actions update.
Shape ==
  /\ req = [r \in Requests |-> req[r]]
  /\ \A r \in Requests : DOMAIN req[r] = Fields
  /\ DOMAIN policies = Roles /\ DOMAIN chosen = Roles

ChoiceInv ==
  /\ \A r \in Requests : At(r, "changing") => migrated
  /\ \A role \in Roles : chosen[role] # NoPolicy =>
       /\ policies[role] = chosen[role]
       /\ migrated
       /\ ~Stale(chosen[role])

EntitledInv ==
  \A r \in Requests :
    /\ req[r].pc \in Acting => r \in entitled
    /\ req[r].call # NoCall => req[r].pc \in Acting
    /\ At(r, "opened") /\ req[r].job # "login" => req[r].token \in Tokens

\* The policies a call is checked with: the snapshot, or those just read.
Allowed(r, call) ==
  \/ At(r, "running") /\ r \in Keys /\ CanUse(req[r].role, call, Own(r))
  \/ At(r, "reread") /\ CanUse(req[r].role, call, req[r].held)

\* What a step may do to the request that takes it.
Moved(r) ==
  LET old == req[r]
      new == req'[r]
  IN /\ DOMAIN new = Fields
     /\ new.pc \in Acting => old.pc \in Acting \/ Authenticate(r)
     /\ new.call # NoCall => new.pc \in Acting
     /\ new.pc = "opened" /\ new.job # "login" => new.token \in Tokens
     /\ new.pc = "changing" => OpenForChange(r)
     /\ new.pc = "opened" => /\ UNCHANGED snapshots
                             /\ new.since = Len(log) + IF policies' = policies THEN 0 ELSE 1
     /\ new.pc \in Acting => new.since = old.since
     /\ new.pc \in Acting \ {"authenticated"} => new.role = old.role
     /\ new.pc \in {"read", "reread"} => new.held = policies
     /\ new.pc \in {"running", "rejected"} =>
          old.pc = "running" \/ BuildContext(r) \/ CallToolAfterEviction(r)
     /\ old.pc \in {"running", "rejected", "over"} =>
          new.pc \in {"running", "over"} \/ r \notin Keys
     /\ new.call # NoCall => \/ new.call = old.call /\ new.at = old.at /\ new.role = old.role
                             \/ new.at = Len(log) /\ Allowed(r, new.call) /\ new.role = old.role

\* The three forms in which a step changes a request.
LEMMA Updates ==
  ASSUME Shape, NEW r \in Requests
  PROVE  /\ \A rec : Goes(r, rec) =>
              /\ req' = [x \in Requests |-> req'[x]]
              /\ req'[r] = rec
              /\ \A x \in Requests : x # r => req'[x] = req[x]
  BY DEF Shape, Goes

\* A request that ends keeps nothing.
LEMMA Ends ==
  ASSUME Shape, NEW r \in Requests, End(r)
  PROVE  Moved(r) /\ req'[r].pc = "over"
<1>1. req'[r] = [Idle(req[r].job) EXCEPT !.pc = "over"]  BY Updates DEF End
<1>2. DOMAIN req'[r] = Fields /\ req'[r].pc = "over" /\ req'[r].call = NoCall
  BY <1>1 DEF Fields, Idle
<1> QED BY <1>1, <1>2 DEF Moved, Acting, NoCall

\* Every step moves its own request only, as Moved says.
LEMMA StepMoves ==
  ASSUME Shape, EntitledInv, NEW r \in Requests, Step(r)
  PROVE  /\ Moved(r)
         /\ req' = [x \in Requests |-> req'[x]]
         /\ \A x \in Requests : x # r => req'[x] = req[x]
<1> USE DEF At
<1>0. DOMAIN req[r] = Fields /\ (req[r].call # NoCall => req[r].pc \in Acting)
  BY DEF Shape, EntitledInv
<1>1. ASSUME NEW rec, Goes(r, rec)
      PROVE  /\ req'[r] = rec
             /\ req' = [x \in Requests |-> req'[x]]
             /\ \A x \in Requests : x # r => req'[x] = req[x]
  BY <1>1, Updates
<1>2. ASSUME End(r)
      PROVE  /\ Moved(r)
             /\ req' = [x \in Requests |-> req'[x]]
             /\ \A x \in Requests : x # r => req'[x] = req[x]
  BY <1>1, <1>2, Ends DEF End
<1>3. CASE Arrive(r)
  <2>1. PICK token \in IF req[r].job = "login" THEN {Nobody}
                       ELSE {t \in Tokens : sessions[t] # Nobody} :
          Goes(r, [req[r] EXCEPT !.pc = "opened", !.token = token,
                     !.since = Len(log) + IF policies' = policies THEN 0 ELSE 1])
    BY <1>3 DEF Arrive
  <2>2. req'[r] = [req[r] EXCEPT !.pc = "opened", !.token = token,
                     !.since = Len(log) + IF policies' = policies THEN 0 ELSE 1]
    BY <1>1, <2>1
  <2>3. DOMAIN req'[r] = Fields /\ req'[r].pc = "opened"
        /\ req'[r].call = req[r].call /\ req'[r].job = req[r].job /\ req'[r].token = token
        /\ req'[r].since = Len(log) + IF policies' = policies THEN 0 ELSE 1
    BY <1>0, <2>2 DEF Fields
  <2>4. req[r].call = NoCall /\ req[r].pc = "idle"  BY <1>0, <1>3 DEF Arrive, Acting
  <2>5. UNCHANGED snapshots  BY <1>3 DEF Arrive, NoRunWrite
  <2>6. Moved(r)  BY <2>1, <2>3, <2>4, <2>5 DEF Moved, Acting
  <2> QED BY <1>1, <2>1, <2>6
<1>4. CASE CheckPassword(r)
  <2>1. ASSUME NEW u \in Users, Goes(r, [req[r] EXCEPT !.pc = "checked", !.user = u])
        PROVE  Moved(r)
    <3>1. req'[r] = [req[r] EXCEPT !.pc = "checked", !.user = u]  BY <1>1, <2>1
    <3>2. DOMAIN req'[r] = Fields /\ req'[r].pc = "checked" /\ req'[r].call = req[r].call
      BY <1>0, <3>1 DEF Fields
    <3>3. req[r].call = NoCall /\ req[r].pc = "opened"
      BY <1>0, <1>4 DEF CheckPassword, Acting
    <3> QED BY <3>2, <3>3 DEF Moved, Acting
  <2> QED BY <1>1, <1>2, <1>4, <2>1 DEF CheckPassword
<1>5. CASE InsertSession(r)     BY <1>2, <1>5 DEF InsertSession
<1>6. CASE Logout(r)            BY <1>2, <1>6 DEF Logout
<1>7. CASE Authenticate(r)
  <2>1. ASSUME NEW u, NEW role,
               Goes(r, [req[r] EXCEPT !.pc = "authenticated", !.user = u, !.role = role])
        PROVE  Moved(r)
    <3>1. req'[r] = [req[r] EXCEPT !.pc = "authenticated", !.user = u, !.role = role]
      BY <1>1, <2>1
    <3>2. DOMAIN req'[r] = Fields /\ req'[r].pc = "authenticated"
          /\ req'[r].since = req[r].since /\ req'[r].call = req[r].call
      BY <1>0, <3>1 DEF Fields
    <3>3. req[r].call = NoCall /\ req[r].pc = "opened"
      BY <1>0, <1>7 DEF Authenticate, Acting
    <3> QED BY <1>7, <3>2, <3>3 DEF Moved, Acting
  <2> QED BY <1>1, <1>2, <1>7, <2>1 DEF Authenticate
<1>8. CASE OpenForChange(r)
  <2>1. Goes(r, [req[r] EXCEPT !.pc = "changing"])  BY <1>8 DEF OpenForChange, Move
  <2>2. req'[r] = [req[r] EXCEPT !.pc = "changing"]  BY <1>1, <2>1
  <2>3. DOMAIN req'[r] = Fields /\ req'[r].pc = "changing"
        /\ req'[r].since = req[r].since /\ req'[r].call = req[r].call
        /\ req'[r].at = req[r].at /\ req'[r].role = req[r].role
    BY <1>0, <2>2 DEF Fields
  <2>4. Moved(r)  BY <1>8, <2>3 DEF Moved, Acting, OpenForChange
  <2> QED BY <1>1, <2>1, <2>4
<1>9. CASE UpdateRolePolicy(r)  BY <1>2, <1>9 DEF UpdateRolePolicy
<1>10. CASE UpdateUser(r)       BY <1>2, <1>10 DEF UpdateUser
<1>11. CASE CreateUser(r)       BY <1>2, <1>11 DEF CreateUser
<1>12. CASE ReadPolicies(r)
  <2>1. PICK pc \in {"reread", "read"} :
          Goes(r, [req[r] EXCEPT !.held = policies, !.pc = pc])
    BY <1>12 DEF ReadPolicies
  <2>2. req'[r] = [req[r] EXCEPT !.held = policies, !.pc = pc]  BY <1>1, <2>1
  <2>3. DOMAIN req'[r] = Fields /\ req'[r].pc = pc /\ req'[r].held = policies
        /\ req'[r].since = req[r].since /\ req'[r].call = req[r].call
        /\ req'[r].at = req[r].at /\ req'[r].role = req[r].role
    BY <1>0, <2>2 DEF Fields
  <2>4. Moved(r)  BY <1>12, <2>1, <2>3 DEF Moved, Acting, ReadPolicies, NeedsPolicies
  <2> QED BY <1>1, <2>1, <2>4
<1>13. CASE BuildContext(r)
  <2>1. PICK kbs, pc : /\ pc \in {"rejected", "running"}
                       /\ Goes(r, [req[r] EXCEPT !.kbs = kbs, !.held = NoPolicy, !.pc = pc])
    BY <1>13 DEF BuildContext
  <2>2. req'[r] = [req[r] EXCEPT !.kbs = kbs, !.held = NoPolicy, !.pc = pc]
    BY <1>1, <2>1
  <2>3. DOMAIN req'[r] = Fields /\ req'[r].pc = pc
        /\ req'[r].since = req[r].since /\ req'[r].call = req[r].call
        /\ req'[r].at = req[r].at /\ req'[r].role = req[r].role
    BY <1>0, <2>2 DEF Fields
  <2>4. req[r].pc = "read"  BY <1>13 DEF BuildContext
  <2>5. Moved(r)  BY <1>13, <2>1, <2>3, <2>4 DEF Moved, Acting
  <2> QED BY <1>1, <2>1, <2>5
<1>14. ASSUME NEW call, NEW pols, Called(r, call, pols), req[r].pc \in Acting,
              CanUse(req[r].role, call, pols) => Allowed(r, call),
              At(r, "running") \/ CallToolAfterEviction(r)
       PROVE  /\ Moved(r)
              /\ req' = [x \in Requests |-> req'[x]]
              /\ \A x \in Requests : x # r => req'[x] = req[x]
  <2>1. PICK rec : /\ Goes(r, rec)
                   /\ \/ /\ Allowed(r, call)
                         /\ rec = [req[r] EXCEPT !.call = call, !.at = Len(log),
                                              !.held = NoPolicy, !.pc = "running"]
                      \/ rec = [req[r] EXCEPT !.held = NoPolicy, !.pc = "running"]
    BY <1>14 DEF Called
  <2>2. DOMAIN rec = Fields /\ rec.pc = "running"
        /\ rec.since = req[r].since /\ rec.role = req[r].role
        /\ \/ rec.call = call /\ rec.at = Len(log) /\ Allowed(r, call)
           \/ rec.call = req[r].call /\ rec.at = req[r].at
    BY <1>0, <2>1 DEF Fields
  <2>3. req'[r] = rec  BY <1>1, <2>1
  <2>4. Moved(r)  BY <1>14, <2>2, <2>3 DEF Moved, Acting
  <2> QED BY <1>1, <2>1, <2>4
<1>15. CASE CallTool(r)
  BY <1>14, <1>15 DEF CallTool, Acting, Allowed, SnapshotOf
<1>16. CASE CallToolAfterEviction(r)
  BY <1>14, <1>16 DEF CallToolAfterEviction, Acting, Allowed
<1>17. CASE Finish(r)           BY <1>2, <1>17 DEF Finish
<1>18. CASE Fail(r)             BY <1>2, <1>18 DEF Fail
<1> QED BY <1>3, <1>4, <1>5, <1>6, <1>7, <1>8, <1>9, <1>10, <1>11, <1>12, <1>13, <1>15,
           <1>16, <1>17, <1>18 DEF Step

\* The invariants of choices and entitlement hold at first.
LEMMA InitInv == Init => Shape /\ ChoiceInv /\ EntitledInv
<1> SUFFICES ASSUME Init PROVE Shape /\ ChoiceInv /\ EntitledInv  OBVIOUS
<1>1. PICK mix \in Mixes : req = [r \in Requests |-> Idle(mix[r])]  BY DEF Init
<1>2. \A r \in Requests : DOMAIN req[r] = Fields /\ req[r].pc = "idle" /\ req[r].call = NoCall
  BY <1>1 DEF Idle, Fields
<1>3. EntitledInv /\ \A r \in Requests : ~At(r, "changing")
  BY <1>2 DEF EntitledInv, At, Acting
<1>4. DOMAIN policies = Roles  BY StoresAssumption DEF Init
<1> QED BY <1>1, <1>2, <1>3, <1>4 DEF Init, Shape, ChoiceInv

\* Opening the store repairs and migrates nothing an administrator has chosen.
LEMMA SeedKeepsChoice ==
  ASSUME ChoiceInv, SeedDefaults
  PROVE  /\ migrated'
         /\ DOMAIN policies' = Roles
         /\ \A role \in Roles : chosen[role] # NoPolicy => policies'[role] = policies[role]
<1>1. policies' = [role \in Roles |-> Migrated(role, Repaired(role, policies[role]))]
  BY DEF SeedDefaults
<1>2. ASSUME NEW role \in Roles, chosen[role] # NoPolicy
      PROVE  policies'[role] = policies[role]
  <2>1. migrated /\ ~Stale(policies[role]) /\ policies[role] # NoPolicy
    BY <1>2 DEF ChoiceInv
  <2>2. Repaired(role, policies[role]) = policies[role]  BY <2>1 DEF Repaired
  <2> QED BY <1>1, <2>1, <2>2 DEF Migrated
<1> QED BY <1>1, <1>2 DEF SeedDefaults

\* They survive every step.
LEMMA StepInv ==
  ASSUME Shape, ChoiceInv, EntitledInv, NEW r \in Requests, Step(r), Watch
  PROVE  (Shape /\ ChoiceInv /\ EntitledInv)'
<1> USE DEF At
<1>1. Moved(r) /\ req' = [x \in Requests |-> req'[x]]
      /\ \A x \in Requests : x # r => req'[x] = req[x]
  BY StepMoves
<1>2. ASSUME UNCHANGED <<policies, chosen, migrated>>, ~OpenForChange(r)
      PROVE  (DOMAIN policies = Roles /\ DOMAIN chosen = Roles /\ ChoiceInv)'
  <2>1. \A x \in Requests : req'[x].pc = "changing" => req[x].pc = "changing"
    BY <1>1, <1>2 DEF Moved
  <2> QED BY <1>2, <2>1 DEF Shape, ChoiceInv, Stale
<1>3. ASSUME SeedDefaults, UNCHANGED chosen
      PROVE  (DOMAIN policies = Roles /\ DOMAIN chosen = Roles /\ ChoiceInv)'
  BY <1>3, SeedKeepsChoice DEF Shape, ChoiceInv, Stale
<1>4. ASSUME UpdateRolePolicy(r)
      PROVE  (DOMAIN policies = Roles /\ DOMAIN chosen = Roles /\ ChoiceInv)'
  <2>1. migrated /\ migrated'  BY <1>4 DEF UpdateRolePolicy, ChoiceInv
  <2>2. PICK role, policy :
          /\ role \in Roles
          /\ policies' = [policies EXCEPT ![role] = policy]
          /\ chosen' = [chosen EXCEPT ![role] = policy]
          /\ ~Stale(policy)
    <3>1. PICK e \in PolicyEdits :
            /\ policies' = [policies EXCEPT ![NormalRole(e.role)] =
                              [tools |-> NormalSpecs(e.tools), kbs |-> e.kbs \cap KBs]]
            /\ chosen' = [chosen EXCEPT ![NormalRole(e.role)] =
                              [tools |-> NormalSpecs(e.tools), kbs |-> e.kbs \cap KBs]]
      BY <1>4 DEF UpdateRolePolicy
    <3>2. NormalRole(e.role) \in Roles  BY DEF NormalRole, Roles
    <3>3. ~Stale([tools |-> NormalSpecs(e.tools), kbs |-> e.kbs \cap KBs])
      BY DEF Stale, NormalSpecs
    <3> QED BY <3>1, <3>2, <3>3
  <2>3. (DOMAIN policies = Roles /\ DOMAIN chosen = Roles)'
    BY <2>2 DEF Shape
  <2>4. \A x \in Roles : \/ x = role /\ policies'[x] = policy /\ chosen'[x] = policy
                         \/ x # role /\ policies'[x] = policies[x] /\ chosen'[x] = chosen[x]
    BY <2>2 DEF Shape
  <2>5. ChoiceInv'
    BY <2>1, <2>2, <2>4 DEF ChoiceInv, Stale
  <2> QED BY <2>3, <2>5
<1>5. (DOMAIN policies = Roles /\ DOMAIN chosen = Roles /\ ChoiceInv)'
  <2>1. CASE Arrive(r)         BY <1>3, <2>1 DEF Arrive
  <2>2. CASE OpenForChange(r)  BY <1>3, <2>2 DEF OpenForChange
  <2>3. CASE UpdateRolePolicy(r)  BY <1>4, <2>3
  <2>4. CASE ~(Arrive(r) \/ OpenForChange(r) \/ UpdateRolePolicy(r))
    <3>1. UNCHANGED <<policies, chosen, migrated>>
      BY <2>4 DEF Step, NoAuthWrite, CheckPassword, InsertSession, Logout, Authenticate,
         UpdateUser, CreateUser, ReadPolicies, BuildContext, CallTool,
         CallToolAfterEviction, Finish, Fail
    <3> QED BY <1>2, <2>4, <3>1
  <2> QED BY <2>1, <2>2, <2>3, <2>4
<1>6. Shape'  BY <1>1, <1>5 DEF Shape, Moved
<1>7. ASSUME Authenticate(r), req'[r].pc \in Acting  PROVE Entitled(r)'
  <2>1. ~End(r)  BY <1>7, Ends DEF Acting
  <2>2. PICK role : /\ Accepts(r) /\ (req[r].job \in Admin => users[LiveUser(req[r].token)].role = "admin")
                    /\ Goes(r, [req[r] EXCEPT !.pc = "authenticated",
                                   !.user = LiveUser(req[r].token), !.role = role])
    BY <1>7, <2>1 DEF Authenticate
  <2>3. req'[r] = [req[r] EXCEPT !.pc = "authenticated",
                     !.user = LiveUser(req[r].token), !.role = role]
    BY <2>2, Updates
  <2>4. DOMAIN req[r] = Fields  BY DEF Shape
  <2>5. req'[r].token = req[r].token /\ req'[r].job = req[r].job
    BY <2>3, <2>4 DEF Fields
  <2>6. req[r].token # Nobody
    BY <1>7, NobodyAssumption DEF Authenticate, EntitledInv, Admin
  <2>7. UNCHANGED <<users, sessions>>  BY <1>7 DEF Authenticate, NoAuthWrite
  <2> QED BY <2>2, <2>5, <2>6, <2>7 DEF Entitled, Accepts, GoodToken, LiveUser
<1>8. EntitledInv'
  <2>1. ASSUME NEW x \in Requests, req'[x].pc \in Acting PROVE x \in entitled'
    <3>1. req'[x].pc # "over"  BY <2>1 DEF Acting
    <3>2. CASE x # r \/ req[x].pc \in Acting
      BY <1>1, <2>1, <3>1, <3>2 DEF Watch, EntitledInv
    <3>3. CASE x = r /\ Entitled(r)'
      BY <3>3 DEF Watch
    <3> QED BY <1>1, <1>7, <2>1, <3>2, <3>3 DEF Moved
  <2> QED BY <1>1, <2>1 DEF EntitledInv, Moved
<1> QED BY <1>5, <1>6, <1>8

\* So they are inductive.
LEMMA NextInv == Shape /\ ChoiceInv /\ EntitledInv /\ [Next]_vars => (Shape /\ ChoiceInv /\ EntitledInv)'
<1> SUFFICES ASSUME Shape, ChoiceInv, EntitledInv, [Next]_vars
             PROVE  (Shape /\ ChoiceInv /\ EntitledInv)'
  OBVIOUS
<1>1. CASE Next  BY <1>1, StepInv DEF Next
<1>2. CASE UNCHANGED vars
  BY <1>2 DEF vars, Shape, ChoiceInv, EntitledInv, At, Stale
<1> QED BY <1>1, <1>2

\* AdminChoiceKept: AuthStore._seed_defaults (security/auth_store.py) runs each
\* time a request opens the store, and undoes no choice of an administrator.
THEOREM ChoiceIsKept == Spec => []AdminChoiceKept
<1>1. ChoiceInv => AdminChoiceKept  BY DEF ChoiceInv, AdminChoiceKept
<1> QED BY <1>1, InitInv, NextInv, PTL DEF Spec

\* ActorWasEntitled: login, authenticate_token and the endpoints of api/app.py
\* give nobody the right to act who did not have it since the request arrived.
THEOREM ActorsWereEntitled == Spec => []ActorWasEntitled
<1>1. EntitledInv => ActorWasEntitled
  BY DEF EntitledInv, ActorWasEntitled, Acting, At
<1> QED BY <1>1, InitInv, NextInv, PTL DEF Spec

-----------------------------------------------------------------------------
(* The snapshots of the policies.                                          *)

InForce(pols, since) == \E j \in since .. Len(log) : pols = log[j]

\* The place of a snapshot tells how many were stored after it.
KeptInv ==
  /\ \E S : snapshots \in Seq(Requests \X S)
  /\ \A i, j \in DOMAIN snapshots : snapshots[i][1] = snapshots[j][1] => i = j
  /\ Len(snapshots) <= MaxSnapshots + 1
  /\ newer \in [Requests -> 0 .. MaxSnapshots + 1]
  /\ \A i \in DOMAIN snapshots : newer[snapshots[i][1]] >= Len(snapshots) - i
  /\ \A r \in Requests : r \in Keys => req[r].pc \in {"running", "rejected", "over"}
  /\ \A r \in Requests : At(r, "running") /\ r \notin Keys => newer[r] = MaxSnapshots + 1

\* Policies in hand, and those of a call, were in force since the request came.
TimeInv ==
  /\ \E S : log \in Seq(S)
  /\ log # <<>> /\ log[Len(log)] = policies
  /\ \A r \in Requests :
       /\ req[r].pc \in Acting \cup {"opened"} => req[r].since \in 1 .. Len(log)
       /\ req[r].pc \in {"read", "reread"} => InForce(req[r].held, req[r].since)
       /\ req[r].call # NoCall =>
            /\ req[r].at \in 1 .. Len(log)
            /\ \E j \in req[r].since .. req[r].at : CanUse(req[r].role, req[r].call, log[j])
  /\ \A i \in DOMAIN snapshots :
       req[snapshots[i][1]].pc \in {"running", "rejected"} =>
         InForce(snapshots[i][2], req[snapshots[i][1]].since)

\* Storing a snapshot moves the others one place down when the oldest goes.
LEMMA Stored ==
  ASSUME NEW S, snapshots \in Seq(S), NEW r \in Requests, StoreSnapshot(r)
  PROVE  \E d \in {0, 1} :
           /\ d = 1 <=> Len(snapshots) > MaxSnapshots
           /\ Len(snapshots') = Len(snapshots) - d + 1
           /\ DOMAIN snapshots' = 1 .. Len(snapshots) - d + 1
           /\ \A i \in 1 .. Len(snapshots) - d : snapshots'[i] = snapshots[i + d]
           /\ snapshots'[Len(snapshots) - d + 1] = <<r, req[r].held>>
           /\ \E T : snapshots' \in Seq(T)
<1> DEFINE e    == <<r, req[r].held>>
           kept == Evict(snapshots)
           d    == IF Len(snapshots) > MaxSnapshots THEN 1 ELSE 0
<1>1. MaxSnapshots \in Nat /\ Len(snapshots) \in Nat  BY SnapshotsAssumption
<1>2. /\ kept \in Seq(S) /\ Len(kept) = Len(snapshots) - d
      /\ \A i \in 1 .. Len(snapshots) - d : kept[i] = snapshots[i + d]
  <2>1. CASE d = 1
    <3>1. kept = Tail(snapshots) /\ snapshots # <<>>  BY <1>1, <2>1 DEF Evict
    <3> QED BY <2>1, <3>1, HeadTailProperties
  <2>2. CASE d = 0
    <3>1. kept = snapshots  BY <1>1, <2>2 DEF Evict
    <3> QED BY <1>1, <2>2, <3>1
  <2> QED BY <2>1, <2>2
<1>3. snapshots' = Append(kept, e)  BY DEF StoreSnapshot
<1>4. d \in {0, 1} /\ (d = 1 <=> Len(snapshots) > MaxSnapshots)  OBVIOUS
<1> HIDE DEF e, kept, d
<1>5. /\ kept \in Seq(S \cup {e}) /\ Append(kept, e) \in Seq(S \cup {e})
      /\ Len(Append(kept, e)) = Len(kept) + 1
      /\ Append(kept, e)[Len(kept) + 1] = e
      /\ \A i \in 1 .. Len(kept) : Append(kept, e)[i] = kept[i]
  BY <1>2, AppendProperties
<1>6. snapshots'[Len(snapshots) - d + 1] = <<r, req[r].held>>
  BY <1>2, <1>3, <1>5 DEF e
<1>7. /\ snapshots' \in Seq(S \cup {e}) /\ Len(snapshots') = Len(snapshots) - d + 1
      /\ DOMAIN snapshots' = 1 .. Len(snapshots) - d + 1
      /\ \A i \in 1 .. Len(snapshots) - d : snapshots'[i] = snapshots[i + d]
  BY <1>1, <1>2, <1>3, <1>4, <1>5
<1> QED BY <1>4, <1>6, <1>7

\* Removing a request's own snapshot moves the later ones one place down.
LEMMA Removed ==
  ASSUME NEW S, snapshots \in Seq(S), NEW r \in Requests, r \in Keys
  PROVE  LET p == PlaceOf(r)
             left == Without(r)
         IN  /\ p \in DOMAIN snapshots /\ snapshots[p][1] = r
             /\ left \in Seq(S) /\ Len(left) = Len(snapshots) - 1
             /\ \A i \in 1 .. Len(snapshots) - 1 :
                  left[i] = IF i < p THEN snapshots[i] ELSE snapshots[i + 1]
<1> DEFINE p == PlaceOf(r)
<1>1. p \in DOMAIN snapshots /\ snapshots[p][1] = r  BY DEF PlaceOf, Keys
<1>2. Without(r) = SubSeq(snapshots, 1, p - 1) \o SubSeq(snapshots, p + 1, Len(snapshots))
  BY DEF Without, RemoveAt
<1>3. p \in 1 .. Len(snapshots) /\ Len(snapshots) \in Nat  BY <1>1
<1> HIDE DEF p
<1> DEFINE low  == SubSeq(snapshots, 1, p - 1)
           high == SubSeq(snapshots, p + 1, Len(snapshots))
<1>4. /\ low \in Seq(S) /\ Len(low) = p - 1
      /\ \A i \in 1 .. p - 1 : low[i] = snapshots[i]
  BY <1>3, SubSeqProperties
<1>5. /\ high \in Seq(S) /\ Len(high) = Len(snapshots) - p
      /\ \A i \in 1 .. Len(snapshots) - p : high[i] = snapshots[i + p]
  BY <1>3, SubSeqProperties
<1> HIDE DEF low, high
<1>6. /\ low \o high \in Seq(S) /\ Len(low \o high) = Len(snapshots) - 1
      /\ \A i \in 1 .. Len(snapshots) - 1 :
           (low \o high)[i] = IF i < p THEN snapshots[i] ELSE snapshots[i + 1]
  <2>1. /\ low \o high \in Seq(S) /\ Len(low \o high) = Len(snapshots) - 1
        /\ \A i \in 1 .. Len(snapshots) - 1 :
             (low \o high)[i] = IF i <= p - 1 THEN low[i] ELSE high[i - (p - 1)]
    <3>1. /\ low \o high \in Seq(S) /\ Len(low \o high) = Len(low) + Len(high)
          /\ \A i \in 1 .. Len(low) + Len(high) :
               (low \o high)[i] = IF i <= Len(low) THEN low[i] ELSE high[i - Len(low)]
      BY <1>4, <1>5, ConcatProperties, Zenon
    <3>2. Len(low) + Len(high) = Len(snapshots) - 1  BY <1>3, <1>4, <1>5
    <3> QED BY <1>4, <3>1, <3>2
  <2>2. ASSUME NEW i \in 1 .. Len(snapshots) - 1
        PROVE  (low \o high)[i] = IF i < p THEN snapshots[i] ELSE snapshots[i + 1]
    <3>1. CASE i < p  BY <1>3, <1>4, <2>1, <3>1
    <3>2. CASE ~(i < p)
      <4>1. i - (p - 1) \in 1 .. Len(snapshots) - p /\ (i - (p - 1)) + p = i + 1
        BY <1>3, <3>2
      <4> QED BY <1>3, <1>5, <2>1, <3>2, <4>1
    <3> QED BY <3>1, <3>2
  <2> QED BY <2>1, <2>2
<1> QED BY <1>1, <1>2, <1>6 DEF p, low, high

\* They hold at first.
LEMMA InitKept == Init => KeptInv /\ TimeInv
<1> SUFFICES ASSUME Init PROVE KeptInv /\ TimeInv  OBVIOUS
<1>1. snapshots = << >> /\ snapshots \in Seq(Requests \X {}) /\ DOMAIN snapshots = {} /\ Keys = {}
  BY DEF Init, Keys
<1>2. \A r \in Requests : req[r].pc = "idle" /\ req[r].call = NoCall
  BY DEF Init, Idle
<1>3. KeptInv
  <2>1. newer \in [Requests -> 0 .. MaxSnapshots + 1] /\ Len(snapshots) <= MaxSnapshots + 1
    BY <1>1, SnapshotsAssumption DEF Init
  <2> QED BY <1>1, <1>2, <2>1 DEF KeptInv, At
<1>4. TimeInv
  <2>1. log = <<policies>>  BY DEF Init
  <2>2. log \in Seq({policies}) /\ log # <<>> /\ log[Len(log)] = policies  BY <2>1
  <2> QED BY <1>1, <1>2, <2>2 DEF TimeInv, Acting
<1> QED BY <1>3, <1>4

\* What a step does to the snapshots: nothing, one more, or the request's own away.
LEMMA SnapshotSteps ==
  ASSUME Shape, EntitledInv, NEW r \in Requests, Step(r)
  PROVE  \/ /\ UNCHANGED <<snapshots, newer>>
            /\ req'[r].pc \in {"running", "rejected"} => req[r].pc = "running"
         \/ /\ StoreSnapshot(r)
            /\ req[r].pc \in {"read", "reread"} /\ req'[r].pc \in {"running", "rejected"}
         \/ /\ snapshots' = Without(r) /\ UNCHANGED newer
            /\ req'[r].pc = "over"
<1>1. Moved(r)  BY StepMoves
<1>2. CASE BuildContext(r) \/ CallToolAfterEviction(r)
  <2>1. StoreSnapshot(r) /\ req[r].pc \in {"read", "reread"}
    BY <1>2 DEF BuildContext, CallToolAfterEviction, At
  <2>2. PICK rec : /\ Goes(r, rec)
                   /\ \/ \E kbs : \E pc \in {"rejected", "running"} :
                           rec = [req[r] EXCEPT !.kbs = kbs, !.held = NoPolicy, !.pc = pc]
                      \/ \E call : rec = [req[r] EXCEPT !.call = call, !.at = Len(log),
                                                       !.held = NoPolicy, !.pc = "running"]
                      \/ rec = [req[r] EXCEPT !.held = NoPolicy, !.pc = "running"]
    <3>1. CASE BuildContext(r)  BY <3>1 DEF BuildContext
    <3>2. CASE CallToolAfterEviction(r)  BY <3>2 DEF CallToolAfterEviction, Called
    <3> QED BY <1>2, <3>1, <3>2
  <2>3. DOMAIN req[r] = Fields  BY DEF Shape
  <2>4. rec.pc \in {"running", "rejected"}  BY <2>2, <2>3 DEF Fields
  <2>5. req'[r] = rec  BY <2>2, Updates
  <2> QED BY <2>1, <2>4, <2>5
<1>3. CASE Finish(r)
  BY <1>3, Ends DEF Finish
<1>4. CASE ~(BuildContext(r) \/ CallToolAfterEviction(r) \/ Finish(r))
  <2>1. UNCHANGED <<snapshots, newer>>
    BY <1>4 DEF Step, NoRunWrite, Arrive, CheckPassword, InsertSession, Logout, Authenticate,
       OpenForChange, UpdateRolePolicy, UpdateUser, CreateUser, ReadPolicies, CallTool, Fail
  <2> QED BY <1>1, <1>4, <2>1 DEF Moved
<1> QED BY <1>2, <1>3, <1>4

\* Snapshots stay few, distinct and in the order they were stored.
LEMMA StepKept ==
  ASSUME Shape, EntitledInv, KeptInv, NEW r \in Requests, Step(r)
  PROVE  KeptInv'
<1> USE DEF At
<1>1. Moved(r) /\ \A x \in Requests : x # r => req'[x] = req[x]
  BY StepMoves
<1>2. PICK S : snapshots \in Seq(Requests \X S)  BY DEF KeptInv
<1>3. \A i \in DOMAIN snapshots : snapshots[i][1] \in Requests /\ snapshots[i][1] \in Keys
  BY <1>2 DEF Keys
<1>4. MaxSnapshots \in Nat /\ Len(snapshots) \in Nat /\ DOMAIN snapshots = 1 .. Len(snapshots)
  BY <1>2, SnapshotsAssumption
<1>5. CASE /\ UNCHANGED <<snapshots, newer>>
           /\ req'[r].pc \in {"running", "rejected"} => req[r].pc = "running"
  <2>1. Keys' = Keys  BY <1>5 DEF Keys
  <2>2. ASSUME NEW x \in Requests, x \in Keys
        PROVE  req'[x].pc \in {"running", "rejected", "over"}
    BY <1>1, <2>2 DEF KeptInv, Moved
  <2>3. ASSUME NEW x \in Requests, req'[x].pc = "running", x \notin Keys
        PROVE  newer[x] = MaxSnapshots + 1
    BY <1>1, <1>5, <2>3 DEF KeptInv
  <2> QED BY <1>5, <2>1, <2>2, <2>3 DEF KeptInv
<1>6. CASE /\ StoreSnapshot(r)
           /\ req[r].pc \in {"read", "reread"} /\ req'[r].pc \in {"running", "rejected"}
  <2>0. r \notin Keys  BY <1>6 DEF KeptInv
  <2>1. PICK d \in {0, 1} :
           /\ d = 1 <=> Len(snapshots) > MaxSnapshots
           /\ Len(snapshots') = Len(snapshots) - d + 1
           /\ DOMAIN snapshots' = 1 .. Len(snapshots) - d + 1
           /\ \A i \in 1 .. Len(snapshots) - d : snapshots'[i] = snapshots[i + d]
           /\ snapshots'[Len(snapshots) - d + 1] = <<r, req[r].held>>
           /\ \E T : snapshots' \in Seq(T)
    BY <1>2, <1>6, Stored
  <2> DEFINE n == Len(snapshots) - d
  <2>2. n \in Nat /\ n <= MaxSnapshots /\ n + d = Len(snapshots)
    BY <1>4, <2>1 DEF KeptInv
  <2>3. \A i \in 1 .. n : i + d \in DOMAIN snapshots /\ snapshots'[i] = snapshots[i + d]
    BY <1>4, <2>1
  <2>4. snapshots'[n + 1] = <<r, req[r].held>> /\ snapshots'[n + 1][1] = r
    BY <2>1
  <2>5. DOMAIN snapshots' = 1 .. n + 1 /\ Len(snapshots') = n + 1
    BY <2>1
  <2> HIDE DEF n
  <2>6. \A x \in Requests : newer'[x] = IF x = r THEN 0
                             ELSE IF newer[x] > MaxSnapshots THEN newer[x] ELSE newer[x] + 1
    BY <1>6 DEF StoreSnapshot
  <2>7. newer' \in [Requests -> 0 .. MaxSnapshots + 1]
    <3>1. \A x \in Requests : newer[x] \in 0 .. MaxSnapshots + 1  BY DEF KeptInv
    <3>2. DOMAIN newer' = Requests /\ newer' = [x \in Requests |-> newer'[x]]
      BY <1>6 DEF StoreSnapshot
    <3>3. \A x \in Requests : newer'[x] \in 0 .. MaxSnapshots + 1
      BY <1>4, <2>6, <3>1
    <3> QED BY <3>2, <3>3
  <2>8. \E U : snapshots' \in Seq(Requests \X U)
    <3> DEFINE U == S \cup {req[r].held}
    <3>1. ASSUME NEW i \in 1 .. n + 1 PROVE snapshots'[i] \in Requests \X U
      <4>1. CASE i = n + 1
        <5>1. <<r, req[r].held>> \in Requests \X U  OBVIOUS
        <5> HIDE DEF U
        <5> QED BY <2>4, <4>1, <5>1
      <4>2. CASE i # n + 1
        <5>1. i + d \in DOMAIN snapshots /\ snapshots'[i] = snapshots[i + d]
          BY <2>2, <2>3, <4>2
        <5>2. snapshots[i + d] \in Requests \X S  BY <1>2, <5>1
        <5>3. PICK x \in Requests, y \in S : snapshots[i + d] = <<x, y>>  BY <5>2
        <5>4. <<x, y>> \in Requests \X U  BY <5>3
        <5> QED BY <5>1, <5>3, <5>4
      <4> QED BY <4>1, <4>2
    <3>2. PICK T : snapshots' \in Seq(T)  BY <2>1
    <3>3. snapshots' \in Seq(Requests \X U)
      BY <2>5, <3>1, <3>2
    <3> QED BY <3>3
  <2>9. ASSUME NEW i \in DOMAIN snapshots', NEW j \in DOMAIN snapshots',
               snapshots'[i][1] = snapshots'[j][1]
        PROVE  i = j
    <3>1. \A k \in 1 .. n : snapshots'[k][1] # r
      BY <1>3, <2>0, <2>3
    <3>2. CASE i = n + 1 \/ j = n + 1
      BY <2>2, <2>4, <2>5, <2>9, <3>1, <3>2
    <3>3. CASE i # n + 1 /\ j # n + 1
      <4>1. i \in 1 .. n /\ j \in 1 .. n  BY <2>2, <2>5, <3>3
      <4>2. i + d = j + d  BY <2>3, <2>9, <4>1 DEF KeptInv
      <4> QED BY <2>1, <4>1, <4>2
    <3> QED BY <3>2, <3>3
  <2>10. ASSUME NEW i \in DOMAIN snapshots'
         PROVE  newer'[snapshots'[i][1]] >= Len(snapshots') - i
    <3>1. CASE i = n + 1
      <4>1. newer'[snapshots'[i][1]] = 0  BY <2>4, <2>6, <3>1
      <4>2. Len(snapshots') - i = 0  BY <2>2, <2>5, <3>1
      <4> QED BY <4>1, <4>2
    <3>2. CASE i # n + 1
      <4>1. i \in 1 .. n  BY <2>2, <2>5, <3>2
      <4> DEFINE x == snapshots[i + d][1]
      <4>2. x \in Requests /\ x # r /\ snapshots'[i][1] = x
        BY <1>3, <2>0, <2>3, <4>1
      <4>3. newer[x] >= Len(snapshots) - (i + d)  BY <2>3, <4>1 DEF KeptInv
      <4>4. newer[x] \in 0 .. MaxSnapshots + 1  BY <4>2 DEF KeptInv
      <4> HIDE DEF x
      <4>5. newer[x] >= n - i  BY <2>2, <4>1, <4>3, <4>4
      <4>6. newer'[x] = IF newer[x] > MaxSnapshots THEN newer[x] ELSE newer[x] + 1
        BY <2>6, <4>2
      <4>7. newer'[x] >= n + 1 - i  BY <1>4, <2>2, <4>1, <4>4, <4>5, <4>6
      <4>8. Len(snapshots') - i = n + 1 - i  BY <2>2, <2>5, <4>1
      <4>9. newer'[snapshots'[i][1]] = newer'[x]  BY <4>2
      <4> QED BY <4>7, <4>8, <4>9
    <3> QED BY <3>1, <3>2
  <2>11. \A x \in Requests : x \in Keys' => x = r \/ x \in Keys
    <3> SUFFICES ASSUME NEW i \in DOMAIN snapshots', snapshots'[i][1] # r
                 PROVE  snapshots'[i][1] \in Keys
      BY DEF Keys
    <3>1. i \in 1 .. n  BY <2>2, <2>4, <2>5
    <3> QED BY <1>3, <2>3, <3>1
  <2>12. \A x \in Requests : x \in Keys' => req'[x].pc \in {"running", "rejected", "over"}
    BY <1>1, <1>6, <2>11 DEF KeptInv
  <2>13. ASSUME NEW x \in Requests, req'[x].pc = "running", x \notin Keys'
         PROVE  newer'[x] = MaxSnapshots + 1
    <3>1. x # r  BY <2>2, <2>4, <2>5, <2>13 DEF Keys
    <3>2. CASE x \notin Keys
      BY <1>1, <1>4, <2>6, <2>13, <3>1, <3>2 DEF KeptInv
    <3>3. CASE x \in Keys
      <4>1. PICK k \in DOMAIN snapshots : snapshots[k][1] = x  BY <3>3 DEF Keys
      <4>2. d = 1 /\ k = 1
        <5>1. ASSUME k - d \in 1 .. n PROVE FALSE
          <6>1. snapshots'[k - d] = snapshots[k]
            BY <1>4, <2>1, <2>3, <4>1, <5>1
          <6>2. x \in Keys'
            BY <2>2, <2>5, <4>1, <5>1, <6>1 DEF Keys
          <6> QED BY <2>13, <6>2
        <5> QED BY <1>4, <2>1, <2>2, <4>1, <5>1
      <4>3. newer[x] >= Len(snapshots) - 1  BY <4>1, <4>2 DEF KeptInv
      <4>4. newer[x] \in 0 .. MaxSnapshots + 1  BY DEF KeptInv
      <4> QED BY <1>4, <2>1, <2>6, <3>1, <4>2, <4>3, <4>4
    <3> QED BY <3>2, <3>3
  <2> QED BY <1>4, <2>2, <2>5, <2>7, <2>8, <2>9, <2>10, <2>12, <2>13 DEF KeptInv
<1>7. CASE /\ snapshots' = Without(r) /\ UNCHANGED newer
           /\ req'[r].pc = "over"
  <2>1. CASE r \notin Keys
    <3>1. UNCHANGED snapshots  BY <1>7, <2>1 DEF Without
    <3> QED BY <1>5, <1>7, <3>1
  <2>2. CASE r \in Keys
    <3> DEFINE p == PlaceOf(r)
    <3>1. /\ p \in DOMAIN snapshots /\ snapshots[p][1] = r
          /\ snapshots' \in Seq(Requests \X S) /\ Len(snapshots') = Len(snapshots) - 1
          /\ \A i \in 1 .. Len(snapshots) - 1 :
               snapshots'[i] = IF i < p THEN snapshots[i] ELSE snapshots[i + 1]
      BY <1>2, <1>7, <2>2, Removed
    <3> HIDE DEF p
    <3>2. DOMAIN snapshots' = 1 .. Len(snapshots) - 1 /\ p \in 1 .. Len(snapshots)
      BY <1>4, <3>1
    <3> DEFINE old(i) == IF i < p THEN i ELSE i + 1
    <3>3. \A i \in DOMAIN snapshots' :
            /\ old(i) \in DOMAIN snapshots /\ snapshots'[i] = snapshots[old(i)]
            /\ old(i) # p /\ old(i) >= i /\ old(i) <= i + 1
      BY <1>4, <3>1, <3>2
    <3>4. \A i, j \in DOMAIN snapshots' : old(i) = old(j) => i = j
      BY <3>2
    <3>5. \A i, j \in DOMAIN snapshots' : snapshots'[i][1] = snapshots'[j][1] => i = j
      <4> HIDE DEF old
      <4> QED BY <3>3, <3>4 DEF KeptInv
    <3>6. ASSUME NEW i \in DOMAIN snapshots'
          PROVE  newer'[snapshots'[i][1]] >= Len(snapshots') - i
      <4>1. newer[snapshots[old(i)][1]] >= Len(snapshots) - old(i)
        <5> HIDE DEF old
        <5> QED BY <3>3 DEF KeptInv
      <4>2. newer[snapshots[old(i)][1]] \in Int
        <5> HIDE DEF old
        <5>1. snapshots[old(i)][1] \in Requests  BY <1>3, <3>3
        <5> QED BY <1>4, <5>1 DEF KeptInv
      <4> QED BY <1>4, <1>7, <3>1, <3>2, <3>3, <4>1, <4>2
    <3>7. Keys' = Keys \ {r}
      <4>1. ASSUME NEW i \in DOMAIN snapshots'
            PROVE  snapshots'[i][1] \in Keys \ {r}
        <5> HIDE DEF old
        <5> QED BY <1>3, <3>1, <3>3 DEF KeptInv
      <4>2. ASSUME NEW k \in DOMAIN snapshots, snapshots[k][1] # r
            PROVE  \E i \in DOMAIN snapshots' : snapshots'[i] = snapshots[k]
        <5>1. CASE k < p
          <6>1. k \in 1 .. Len(snapshots) - 1  BY <1>4, <3>2, <5>1
          <6> QED BY <3>1, <3>2, <5>1, <6>1
        <5>2. CASE k > p
          <6>1. k - 1 \in DOMAIN snapshots' /\ ~(k - 1 < p) /\ (k - 1) + 1 = k
            BY <1>4, <3>2, <5>2
          <6> QED BY <3>1, <3>2, <6>1
        <5>3. k # p  BY <3>1, <4>2
        <5> QED BY <1>4, <3>2, <5>1, <5>2, <5>3
      <4> QED BY <4>1, <4>2 DEF Keys
    <3>8. \A x \in Requests : x \in Keys' => req'[x].pc \in {"running", "rejected", "over"}
      BY <1>1, <3>7 DEF KeptInv
    <3>9. \A x \in Requests : req'[x].pc = "running" /\ x \notin Keys' => newer'[x] = MaxSnapshots + 1
      BY <1>1, <1>7, <3>7 DEF KeptInv
    <3>10. newer' \in [Requests -> 0 .. MaxSnapshots + 1] /\ Len(snapshots') <= MaxSnapshots + 1
      <4>1. Len(snapshots) <= MaxSnapshots + 1  BY DEF KeptInv
      <4> QED BY <1>4, <1>7, <3>1, <4>1 DEF KeptInv
    <3>11. \E U : snapshots' \in Seq(Requests \X U)  BY <3>1
    <3> HIDE DEF old
    <3> QED BY <3>5, <3>6, <3>8, <3>9, <3>10, <3>11 DEF KeptInv
  <2> QED BY <2>1, <2>2
<1> QED BY <1>5, <1>6, <1>7, SnapshotSteps

\* A step adds the new policies at the end of the history, or nothing.
LEMMA LogGrows ==
  ASSUME TimeInv, Watch
  PROVE  /\ \E S : log' \in Seq(S)
         /\ Len(log) \in Nat /\ Len(log') \in Nat /\ Len(log) >= 1
         /\ Len(log') = Len(log) + IF policies' = policies THEN 0 ELSE 1
         /\ log'[Len(log')] = policies' /\ log' # <<>>
         /\ \A j \in 1 .. Len(log) : log'[j] = log[j]
<1>1. PICK S : log \in Seq(S)  BY DEF TimeInv
<1>2. Len(log) \in Nat /\ Len(log) >= 1 /\ log[Len(log)] = policies /\ log # <<>>
  BY <1>1 DEF TimeInv
<1>3. CASE policies' = policies  BY <1>1, <1>2, <1>3 DEF Watch
<1>4. CASE policies' # policies
  <2>1. log' = Append(log, policies')  BY <1>4 DEF Watch
  <2>2. log \in Seq(S \cup {policies'})  BY <1>1
  <2>3. /\ log' \in Seq(S \cup {policies'}) /\ Len(log') = Len(log) + 1
        /\ log'[Len(log) + 1] = policies'
        /\ \A j \in 1 .. Len(log) : log'[j] = log[j]
    BY <2>1, <2>2, AppendProperties
  <2>4. log' # <<>>  BY <1>2, <2>3
  <2> QED BY <1>2, <1>4, <2>3, <2>4
<1> QED BY <1>3, <1>4

\* Policies in hand stay of the time of their request.
LEMMA StepTime ==
  ASSUME Shape, EntitledInv, KeptInv, TimeInv, NEW r \in Requests, Step(r), Watch
  PROVE  TimeInv'
<1> USE DEF At
<1>1. Moved(r) /\ \A x \in Requests : x # r => req'[x] = req[x]
  BY StepMoves
<1>2. /\ \E S : log' \in Seq(S)
      /\ Len(log) \in Nat /\ Len(log') \in Nat /\ Len(log) >= 1
      /\ Len(log') = Len(log) + IF policies' = policies THEN 0 ELSE 1
      /\ log'[Len(log')] = policies' /\ log' # <<>>
      /\ \A j \in 1 .. Len(log) : log'[j] = log[j]
  BY LogGrows
<1>3. Len(log') \in Nat /\ Len(log') >= Len(log)  BY <1>2
<1>4. ASSUME NEW pols, NEW since \in 1 .. Len(log), InForce(pols, since)
      PROVE  \E j \in since .. Len(log') : pols = log'[j]
  <2>1. PICK j \in since .. Len(log) : pols = log[j]  BY <1>4 DEF InForce
  <2>2. j \in since .. Len(log') /\ j \in 1 .. Len(log)  BY <1>2, <1>3
  <2> QED BY <1>2, <2>1, <2>2
<1>5. ASSUME NEW x \in Requests, req[x].pc \in Acting \cup {"opened"}
      PROVE  req[x].since \in 1 .. Len(log)
  BY <1>5 DEF TimeInv
<1>6. ASSUME NEW x \in Requests, req'[x].pc \in Acting
      PROVE  /\ req[x].pc \in Acting \cup {"opened"}
             /\ req'[x].since = req[x].since /\ req[x].since \in 1 .. Len(log)
  <2>1. req[x].pc \in Acting \cup {"opened"} /\ req'[x].since = req[x].since
    BY <1>1, <1>6 DEF Moved, Authenticate
  <2> QED BY <1>5, <2>1
<1>7. ASSUME NEW x \in Requests, req'[x].pc \in Acting \cup {"opened"}
      PROVE  req'[x].since \in 1 .. Len(log')
  <2>1. CASE req'[x].pc \in Acting
    <3>1. req'[x].since \in 1 .. Len(log)  BY <1>6, <2>1
    <3> QED BY <1>2, <1>3, <3>1
  <2>2. CASE req'[x].pc = "opened" /\ x = r
    <3>1. req'[x].since = Len(log')  BY <1>1, <1>2, <2>2 DEF Moved
    <3> QED BY <1>2, <1>3, <3>1
  <2>3. CASE req'[x].pc = "opened" /\ x # r
    <3>1. req'[x].since \in 1 .. Len(log)  BY <1>1, <1>5, <2>3
    <3> QED BY <1>2, <1>3, <3>1
  <2> QED BY <1>7, <2>1, <2>2, <2>3
<1>8. ASSUME NEW x \in Requests, req'[x].pc \in {"read", "reread"}
      PROVE  InForce(req[x].held, req[x].since)'
  <2>1. req'[x].since = req[x].since /\ req[x].since \in 1 .. Len(log)
    BY <1>6, <1>8 DEF Acting
  <2>2. CASE x = r
    <3>1. req'[x].held = log[Len(log)]  BY <1>1, <1>8, <2>2 DEF Moved, TimeInv
    <3>2. Len(log) \in req[x].since .. Len(log') /\ log'[Len(log)] = log[Len(log)]
      BY <1>2, <1>3, <2>1
    <3> QED BY <2>1, <3>1, <3>2 DEF InForce
  <2>3. CASE x # r
    <3>1. req'[x] = req[x]  BY <1>1, <2>3
    <3>2. InForce(req[x].held, req[x].since)  BY <1>8, <3>1 DEF TimeInv
    <3>3. \E j \in req[x].since .. Len(log') : req[x].held = log'[j]
      BY <1>4, <2>1, <3>2
    <3> QED BY <3>1, <3>3 DEF InForce
  <2> QED BY <2>2, <2>3
<1>9. ASSUME NEW x \in Requests, req'[x].call # NoCall
      PROVE  /\ req'[x].at \in 1 .. Len(log')
             /\ \E j \in req'[x].since .. req'[x].at :
                  CanUse(req'[x].role, req'[x].call, log'[j])
  <2>1. req'[x].pc \in Acting
    BY <1>1, <1>9 DEF Moved, EntitledInv
  <2>2. req'[x].since = req[x].since /\ req[x].since \in 1 .. Len(log)
    BY <1>6, <2>1
  <2>3. PICK j : /\ req'[x].at \in 1 .. Len(log)
                 /\ j \in req[x].since .. req'[x].at
                 /\ CanUse(req'[x].role, req'[x].call, log[j])
    <3>1. CASE req'[x].call = req[x].call /\ req'[x].at = req[x].at /\ req'[x].role = req[x].role
      <4>1. req[x].at \in 1 .. Len(log)  BY <1>9, <3>1 DEF TimeInv
      <4>2. PICK j \in req[x].since .. req[x].at : CanUse(req[x].role, req[x].call, log[j])
        BY <1>9, <3>1 DEF TimeInv
      <4> QED BY <3>1, <4>1, <4>2
    <3>2. CASE x = r /\ req'[r].at = Len(log) /\ Allowed(r, req'[r].call) /\ req'[r].role = req[r].role
      <4>1. PICK pols : CanUse(req[r].role, req'[r].call, pols) /\ InForce(pols, req[r].since)
        <5>1. CASE req[r].pc = "running" /\ r \in Keys /\ CanUse(req[r].role, req'[r].call, Own(r))
          <6>1. PlaceOf(r) \in DOMAIN snapshots /\ snapshots[PlaceOf(r)][1] = r
            BY <5>1 DEF PlaceOf, Keys
          <6>2. InForce(Own(r), req[r].since)  BY <5>1, <6>1 DEF TimeInv, Own
          <6> QED BY <5>1, <6>2
        <5>2. CASE req[r].pc = "reread" /\ CanUse(req[r].role, req'[r].call, req[r].held)
          <6>1. InForce(req[r].held, req[r].since)  BY <5>2 DEF TimeInv
          <6> QED BY <5>2, <6>1
        <5> QED BY <3>2, <5>1, <5>2 DEF Allowed
      <4>2. PICK j \in req[r].since .. Len(log) : pols = log[j]  BY <4>1 DEF InForce
      <4>3. Len(log) \in 1 .. Len(log)  BY <1>2
      <4> QED BY <3>2, <4>1, <4>2, <4>3
    <3> QED BY <1>1, <1>9, <3>1, <3>2 DEF Moved
  <2>4. req'[x].at \in 1 .. Len(log') /\ j \in 1 .. Len(log)  BY <1>2, <1>3, <2>2, <2>3
  <2>5. log'[j] = log[j]  BY <1>2, <2>4
  <2> QED BY <2>2, <2>3, <2>4, <2>5
<1>10. PICK S : snapshots \in Seq(Requests \X S)  BY DEF KeptInv
<1>11. ASSUME NEW k \in DOMAIN snapshots,
              req'[snapshots[k][1]].pc \in {"running", "rejected"},
              req[snapshots[k][1]].pc \in {"running", "rejected"}
       PROVE  \E j \in req'[snapshots[k][1]].since .. Len(log') : snapshots[k][2] = log'[j]
  <2> DEFINE x == snapshots[k][1]
  <2>1. x \in Requests  BY <1>10
  <2>2. InForce(snapshots[k][2], req[x].since)  BY <1>11 DEF TimeInv
  <2>3. req'[x].since = req[x].since /\ req[x].since \in 1 .. Len(log)
    BY <1>6, <1>11, <2>1 DEF Acting
  <2> QED BY <1>4, <2>2, <2>3
<1>12. ASSUME NEW i \in DOMAIN snapshots',
              req'[snapshots'[i][1]].pc \in {"running", "rejected"}
       PROVE  InForce(snapshots[i][2], req[snapshots[i][1]].since)'
  <2>1. ASSUME NEW k \in DOMAIN snapshots, snapshots'[i] = snapshots[k],
               snapshots[k][1] # r \/ req[r].pc = "running"
        PROVE  InForce(snapshots[i][2], req[snapshots[i][1]].since)'
    <3>1. snapshots[k][1] \in Requests  BY <1>10
    <3>2. req[snapshots[k][1]].pc \in {"running", "rejected"}
      BY <1>1, <1>12, <2>1, <3>1
    <3> QED BY <1>11, <1>12, <2>1, <3>2 DEF InForce
  <2>2. CASE /\ UNCHANGED <<snapshots, newer>>
             /\ req'[r].pc \in {"running", "rejected"} => req[r].pc = "running"
    BY <1>12, <2>1, <2>2
  <2>3. CASE /\ StoreSnapshot(r)
             /\ req[r].pc \in {"read", "reread"} /\ req'[r].pc \in {"running", "rejected"}
    <3>1. PICK d \in {0, 1} :
            /\ Len(snapshots') = Len(snapshots) - d + 1
            /\ DOMAIN snapshots' = 1 .. Len(snapshots) - d + 1
            /\ \A k \in 1 .. Len(snapshots) - d : snapshots'[k] = snapshots[k + d]
            /\ snapshots'[Len(snapshots) - d + 1] = <<r, req[r].held>>
      BY <1>10, <2>3, Stored
    <3>2. CASE i = Len(snapshots) - d + 1
      <4>1. snapshots'[i][1] = r /\ snapshots'[i][2] = req[r].held  BY <3>1, <3>2
      <4>2. InForce(req[r].held, req[r].since)  BY <2>3 DEF TimeInv
      <4>3. req'[r].since = req[r].since /\ req[r].since \in 1 .. Len(log)
        BY <1>6, <2>3 DEF Acting
      <4>4. \E j \in req'[r].since .. Len(log') : req[r].held = log'[j]
        BY <1>4, <4>2, <4>3
      <4> QED BY <4>1, <4>4 DEF InForce
    <3>3. CASE i # Len(snapshots) - d + 1
      <4>1. Len(snapshots) \in Nat  BY <1>10
      <4>2. i \in 1 .. Len(snapshots) - d /\ i + d \in DOMAIN snapshots
        BY <1>10, <3>1, <3>3, <4>1
      <4>3. snapshots'[i] = snapshots[i + d]  BY <3>1, <4>2
      <4>4. snapshots[i + d][1] \in Keys  BY <4>2 DEF Keys
      <4>5. snapshots[i + d][1] # r  BY <2>3, <4>4 DEF KeptInv
      <4> QED BY <2>1, <4>2, <4>3, <4>5
    <3> QED BY <3>2, <3>3
  <2>4. CASE /\ snapshots' = Without(r) /\ UNCHANGED newer
             /\ req'[r].pc = "over"
    <3>1. snapshots'[i][1] # r  BY <1>12, <2>4
    <3>2. PICK k \in DOMAIN snapshots : snapshots'[i] = snapshots[k]
      <4>1. CASE r \notin Keys  BY <2>4, <4>1 DEF Without
      <4>2. CASE r \in Keys
        <5>1. /\ snapshots' \in Seq(Requests \X S) /\ Len(snapshots') = Len(snapshots) - 1
              /\ \A m \in 1 .. Len(snapshots) - 1 :
                   snapshots'[m] = snapshots[m] \/ snapshots'[m] = snapshots[m + 1]
          BY <1>10, <2>4, <4>2, Removed
        <5>2. i \in 1 .. Len(snapshots) - 1 /\ i \in DOMAIN snapshots /\ i + 1 \in DOMAIN snapshots
          BY <1>10, <5>1
        <5> QED BY <5>1, <5>2
      <4> QED BY <4>1, <4>2
    <3> QED BY <2>1, <3>1, <3>2
  <2> QED BY <2>2, <2>3, <2>4, SnapshotSteps
<1>13. (\A x \in Requests : req[x].pc \in {"read", "reread"} => InForce(req[x].held, req[x].since))'
  BY <1>8
<1>14. (\A i \in DOMAIN snapshots : req[snapshots[i][1]].pc \in {"running", "rejected"} =>
          InForce(snapshots[i][2], req[snapshots[i][1]].since))'
  BY <1>12
<1> QED BY <1>2, <1>7, <1>9, <1>13, <1>14 DEF TimeInv

\* The invariants of the snapshots are inductive.
LEMMA NextTime ==
  Shape /\ EntitledInv /\ KeptInv /\ TimeInv /\ [Next]_vars => (KeptInv /\ TimeInv)'
<1> SUFFICES ASSUME Shape, EntitledInv, KeptInv, TimeInv, [Next]_vars
             PROVE  (KeptInv /\ TimeInv)'
  OBVIOUS
<1>1. CASE Next  BY <1>1, StepKept, StepTime DEF Next
<1>2. CASE UNCHANGED vars
  BY <1>2 DEF vars, KeptInv, TimeInv, InForce, Keys, At
<1> QED BY <1>1, <1>2

\* SnapshotsServe: the policies AgenticRAGNodes keeps under a request's id
\* (agentic_nodes.py:1541) are of the request's time, and stay for as long as
\* the bound on the snapshots allows.
THEOREM SnapshotsServeRequests == Spec => []SnapshotsServe
<1>1. KeptInv => EvictedByLater
  <2> SUFFICES ASSUME KeptInv, NEW r \in Requests, At(r, "running"), r \notin Keys
               PROVE  newer[r] > MaxSnapshots
    BY DEF EvictedByLater
  <2>1. newer[r] = MaxSnapshots + 1  BY DEF KeptInv
  <2> QED BY <2>1, SnapshotsAssumption
<1>2. TimeInv => PolicyOfItsTime  BY DEF TimeInv, PolicyOfItsTime
<1> QED BY <1>1, <1>2, InitInv, InitKept, NextInv, NextTime, PTL DEF Spec, SnapshotsServe

-----------------------------------------------------------------------------
(* Types.                                                                  *)

\* A policy of the table before the store was first opened.
Stored0(p) == p = NoPolicy \/ (p = [tools |-> p.tools, kbs |-> p.kbs] /\ p.kbs \subseteq KBs)

Opened == \E r \in Requests : ~At(r, "idle")

\* What a request holds, by how far it is.
Holding(q) ==
  /\ q.pc \in Pcs /\ q.kbs \subseteq KBs /\ q.role \in Roles
  /\ q.pc = "checked" => q.user \in Users
  /\ q.pc \in {"read", "reread"} => q.held \in [Roles -> Policy]

TypeInv ==
  /\ users \in [Users -> User \cup {Nobody}]
  /\ sessions \in [Tokens -> Session \cup {Nobody}]
  /\ migrated \in BOOLEAN
  /\ \A role \in Roles : Stored0(policies[role])
  /\ Opened => policies \in [Roles -> Policy]
  /\ \A r \in Requests : Holding(req[r])
  /\ \A r \in Requests : At(r, "opened") /\ req[r].job # "login" => sessions[req[r].token] # Nobody
  /\ entitled \subseteq Requests

\* normalize_role gives a role there is.
LEMMA NormalIsRole == ASSUME NEW name PROVE NormalRole(name) \in Roles
  BY DEF NormalRole, Roles

\* The static table grants knowledge bases there are, tools there are.
LEMMA DefaultIsPolicy == ASSUME NEW role \in Roles PROVE DefaultPolicy(role) \in Policy
<1>1. RoleKBs(role) \subseteq KBs
  <2>1. CASE role \in {"admin", "user", "employee"}
    BY <2>1 DEF RoleKBs
  <2>2. CASE role \in {"finance", "hr", "it"}
    BY <2>2 DEF RoleKBs, KBs
  <2>3. CASE role \in {"guest", "public"}
    BY <2>3 DEF RoleKBs, KBs
  <2> QED BY <2>1, <2>2, <2>3 DEF Roles
<1>2. {<<t>> : t \in {x \in ToolNames : Baseline(role, x) # {}}} \subseteq ValidSpecs
  BY DEF ValidSpecs
<1> QED BY <1>1, <1>2 DEF DefaultPolicy, Policy

\* Opening the store leaves policies of valid tools, users of roles there are.
LEMMA SeedTypes ==
  ASSUME TypeInv, SeedDefaults
  PROVE  /\ policies' \in [Roles -> Policy] /\ migrated' \in BOOLEAN
         /\ users' \in [Users -> User \cup {Nobody}]
<1>1. ASSUME NEW role \in Roles
      PROVE  Migrated(role, Repaired(role, policies[role])) \in Policy
  <2> DEFINE p == policies[role]
             q == Repaired(role, p)
             d == DefaultPolicy(role)
  <2>1. d \in Policy /\ RoleKBs(role) \subseteq KBs
    BY DefaultIsPolicy DEF DefaultPolicy, Policy
  <2>2. Stored0(p)
    BY DEF TypeInv
  <2>3. q \in Policy
    <3>1. CASE p = NoPolicy
      BY <2>1, <3>1 DEF Repaired
    <3>2. CASE p # NoPolicy /\ Stale(p)
      <4>1. q = [tools |-> d.tools, kbs |-> IF p.kbs # {} THEN p.kbs ELSE RoleKBs(role)]
        BY <3>2 DEF Repaired
      <4>2. d.tools \subseteq ValidSpecs /\ p.kbs \subseteq KBs
        BY <2>1, <2>2, <3>2 DEF Policy, Stored0
      <4> QED BY <2>1, <4>1, <4>2 DEF Policy
    <3>3. CASE p # NoPolicy /\ ~Stale(p)
      <4>1. q = p
        BY <3>3 DEF Repaired
      <4> QED BY <2>2, <3>3, <4>1 DEF Stored0, Stale, Policy
    <3> QED BY <3>1, <3>2, <3>3
  <2> HIDE DEF q
  <2>4. MigratedAlways(role, q) \in Policy
    <3>1. <<"skill">> \in ValidSpecs
      BY DEF ValidSpecs, ToolNames, ToolActions
    <3> QED BY <2>3, <3>1 DEF MigratedAlways, Policy
  <2> QED BY <2>3, <2>4 DEF Migrated, q
<1>2. ASSUME NEW u \in Users
      PROVE  (IF users[u] = Nobody /\ u \in DOMAIN DemoUsers
              THEN [role |-> DemoUsers[u].role, enabled |-> TRUE, pw |-> DemoUsers[u].pw]
              ELSE users[u]) \in User \cup {Nobody}
  BY DemoAssumption DEF TypeInv, User
<1> QED BY <1>1, <1>2 DEF SeedDefaults

\* What a step makes of the request that takes it.
LEMMA StepHolds ==
  ASSUME Shape, TypeInv, EntitledInv, NEW r \in Requests, Step(r)
  PROVE  /\ Holding(req'[r]) /\ req'[r].pc # "idle"
         /\ req'[r].pc = "opened" /\ req'[r].job # "login" => sessions[req'[r].token] # Nobody
<1> DEFINE Fine == /\ Holding(req'[r]) /\ req'[r].pc # "idle"
                   /\ req'[r].pc = "opened" /\ req'[r].job # "login" =>
                        sessions[req'[r].token] # Nobody
<1> USE DEF At
<1>0. DOMAIN req[r] = Fields /\ Holding(req[r])
  BY DEF Shape, TypeInv
<1>1. ASSUME NEW rec, Goes(r, rec) PROVE req'[r] = rec
  BY <1>1, Updates
<1>2. ASSUME End(r) PROVE Fine
  <2>1. req'[r] = [Idle(req[r].job) EXCEPT !.pc = "over"]
    BY <1>1, <1>2 DEF End
  <2>2. req'[r].pc = "over" /\ req'[r].kbs = {} /\ req'[r].role = "guest"
    BY <2>1 DEF Idle
  <2> QED BY <2>2 DEF Holding, Pcs, Roles
<1>3. CASE Arrive(r)
  <2>1. PICK token \in IF req[r].job = "login" THEN {Nobody}
                       ELSE {t \in Tokens : sessions[t] # Nobody} :
          \E n : Goes(r, [req[r] EXCEPT !.pc = "opened", !.token = token, !.since = n])
    BY <1>3 DEF Arrive
  <2>2. PICK n : Goes(r, [req[r] EXCEPT !.pc = "opened", !.token = token, !.since = n])
    BY <2>1
  <2>3. req'[r] = [req[r] EXCEPT !.pc = "opened", !.token = token, !.since = n]
    BY <1>1, <2>2
  <2>4. /\ req'[r].pc = "opened" /\ req'[r].token = token /\ req'[r].job = req[r].job
        /\ req'[r].kbs = req[r].kbs /\ req'[r].role = req[r].role
    BY <1>0, <2>3 DEF Fields
  <2> QED BY <1>0, <2>1, <2>4 DEF Holding, Pcs
<1>4. CASE CheckPassword(r)
  <2>1. ASSUME NEW u \in Users, Goes(r, [req[r] EXCEPT !.pc = "checked", !.user = u])
        PROVE  Fine
    <3>1. req'[r] = [req[r] EXCEPT !.pc = "checked", !.user = u]
      BY <1>1, <2>1
    <3>2. /\ req'[r].pc = "checked" /\ req'[r].user = u
          /\ req'[r].kbs = req[r].kbs /\ req'[r].role = req[r].role
      BY <1>0, <3>1 DEF Fields
    <3> QED BY <1>0, <3>2 DEF Holding, Pcs
  <2> QED BY <1>2, <1>4, <2>1 DEF CheckPassword
<1>5. CASE InsertSession(r)     BY <1>2, <1>5 DEF InsertSession
<1>6. CASE Logout(r)            BY <1>2, <1>6 DEF Logout
<1>7. CASE Authenticate(r)
  <2>1. ASSUME NEW u, NEW role \in Roles,
               Goes(r, [req[r] EXCEPT !.pc = "authenticated", !.user = u, !.role = role])
        PROVE  Fine
    <3>1. req'[r] = [req[r] EXCEPT !.pc = "authenticated", !.user = u, !.role = role]
      BY <1>1, <2>1
    <3>2. req'[r].pc = "authenticated" /\ req'[r].role = role /\ req'[r].kbs = req[r].kbs
      BY <1>0, <3>1 DEF Fields
    <3> QED BY <1>0, <3>2 DEF Holding, Pcs
  <2> QED BY <1>2, <1>7, <2>1, NormalIsRole DEF Authenticate
<1>8. CASE OpenForChange(r)
  <2>1. Goes(r, [req[r] EXCEPT !.pc = "changing"])
    BY <1>8 DEF OpenForChange, Move
  <2>2. req'[r] = [req[r] EXCEPT !.pc = "changing"]
    BY <1>1, <2>1
  <2>3. req'[r].pc = "changing" /\ req'[r].role = req[r].role /\ req'[r].kbs = req[r].kbs
    BY <1>0, <2>2 DEF Fields
  <2> QED BY <1>0, <2>3 DEF Holding, Pcs
<1>9. CASE UpdateRolePolicy(r)  BY <1>2, <1>9 DEF UpdateRolePolicy
<1>10. CASE UpdateUser(r)       BY <1>2, <1>10 DEF UpdateUser
<1>11. CASE CreateUser(r)       BY <1>2, <1>11 DEF CreateUser
<1>12. CASE ReadPolicies(r)
  <2>1. PICK pc \in {"reread", "read"} :
          Goes(r, [req[r] EXCEPT !.held = policies, !.pc = pc])
    BY <1>12 DEF ReadPolicies
  <2>2. req'[r] = [req[r] EXCEPT !.held = policies, !.pc = pc]
    BY <1>1, <2>1
  <2>3. /\ req'[r].pc = pc /\ req'[r].held = policies
        /\ req'[r].role = req[r].role /\ req'[r].kbs = req[r].kbs
    BY <1>0, <2>2 DEF Fields
  <2>4. policies \in [Roles -> Policy]
    BY <1>12 DEF ReadPolicies, NeedsPolicies, TypeInv, Opened
  <2> QED BY <1>0, <2>1, <2>3, <2>4 DEF Holding, Pcs
<1>13. CASE BuildContext(r)
  <2>1. PICK asked \in Asked, pc \in {"rejected", "running"} :
          Goes(r, [req[r] EXCEPT !.kbs = AllowedKBs(req[r].role, asked, req[r].held),
                                 !.held = NoPolicy, !.pc = pc])
    BY <1>13 DEF BuildContext
  <2> DEFINE kbs == AllowedKBs(req[r].role, asked, req[r].held)
  <2>2. kbs \subseteq KBs
    <3>1. req[r].held \in [Roles -> Policy] /\ req[r].role \in Roles
      BY <1>0, <1>13 DEF BuildContext, Holding
    <3>2. req[r].held[req[r].role].kbs \subseteq KBs
      BY <3>1 DEF Policy
    <3> QED BY <3>2 DEF AllowedKBs
  <2> HIDE DEF kbs
  <2>3. req'[r] = [req[r] EXCEPT !.kbs = kbs, !.held = NoPolicy, !.pc = pc]
    BY <1>1, <2>1 DEF kbs
  <2>4. req'[r].pc = pc /\ req'[r].role = req[r].role /\ req'[r].kbs = kbs
    BY <1>0, <2>3 DEF Fields
  <2> QED BY <1>0, <2>1, <2>2, <2>4 DEF Holding, Pcs
<1>14. ASSUME NEW call, NEW pols, Called(r, call, pols) PROVE Fine
  <2>1. PICK rec : /\ Goes(r, rec)
                   /\ \/ rec = [req[r] EXCEPT !.call = call, !.at = Len(log),
                                              !.held = NoPolicy, !.pc = "running"]
                      \/ rec = [req[r] EXCEPT !.held = NoPolicy, !.pc = "running"]
    BY <1>14 DEF Called
  <2>2. rec.pc = "running" /\ rec.role = req[r].role /\ rec.kbs = req[r].kbs
    BY <1>0, <2>1 DEF Fields
  <2>3. req'[r] = rec
    BY <1>1, <2>1
  <2> QED BY <1>0, <2>2, <2>3 DEF Holding, Pcs
<1>15. CASE CallTool(r)
  BY <1>14, <1>15 DEF CallTool
<1>16. CASE CallToolAfterEviction(r)
  BY <1>14, <1>16 DEF CallToolAfterEviction
<1>17. CASE Finish(r)           BY <1>2, <1>17 DEF Finish
<1>18. CASE Fail(r)             BY <1>2, <1>18 DEF Fail
<1> QED BY <1>3, <1>4, <1>5, <1>6, <1>7, <1>8, <1>9, <1>10, <1>11, <1>12, <1>13, <1>15,
           <1>16, <1>17, <1>18 DEF Step

\* Users, sessions and policies after a step.
LEMMA StepTables ==
  ASSUME Shape, TypeInv, EntitledInv, NEW r \in Requests, Step(r)
  PROVE  /\ users' \in [Users -> User \cup {Nobody}]
         /\ sessions' \in [Tokens -> Session \cup {Nobody}]
         /\ \A t \in Tokens : sessions[t] # Nobody => sessions'[t] # Nobody
         /\ migrated' \in BOOLEAN /\ policies' \in [Roles -> Policy]
<1> USE DEF At
<1>1. TypeInv
  OBVIOUS
<1>2. ASSUME req[r].pc # "idle" PROVE policies \in [Roles -> Policy]
  BY <1>2 DEF TypeInv, Opened
<1>3. CASE Arrive(r) \/ OpenForChange(r)
  BY <1>3, SeedTypes DEF Arrive, OpenForChange, TypeInv
<1>4. CASE InsertSession(r)
  <2>1. /\ req[r].pc = "checked" /\ UNCHANGED <<users, policies, migrated>>
        /\ sessions' = [sessions EXCEPT ![r] = [user |-> req[r].user, revoked |-> FALSE]]
    BY <1>4 DEF InsertSession
  <2> DEFINE row == [user |-> req[r].user, revoked |-> FALSE]
  <2>2. row \in Session /\ r \in Tokens
    BY <2>1 DEF TypeInv, Holding, Session, Tokens
  <2>3. row # Nobody
    BY <2>2, NobodyAssumption
  <2> HIDE DEF row
  <2>4. sessions' = [sessions EXCEPT ![r] = row]
    BY <2>1 DEF row
  <2> QED BY <1>2, <2>1, <2>2, <2>3, <2>4 DEF TypeInv
<1>5. CASE Logout(r)
  <2> DEFINE t == req[r].token
             row == [sessions[t] EXCEPT !.revoked = TRUE]
  <2>1. /\ req[r].pc = "opened" /\ req[r].job # "login"
        /\ UNCHANGED <<users, policies, migrated>>
        /\ sessions' = [sessions EXCEPT ![t] = row]
    BY <1>5 DEF Logout
  <2>2. t \in Tokens /\ sessions[t] \in Session
    BY <2>1 DEF TypeInv, EntitledInv
  <2>3. row \in Session /\ row # Nobody
    BY <2>2, NobodyAssumption DEF Session
  <2> HIDE DEF row, t
  <2> QED BY <1>2, <2>1, <2>2, <2>3 DEF TypeInv
<1>6. CASE UpdateRolePolicy(r)
  <2>1. PICK e \in PolicyEdits :
          policies' = [policies EXCEPT ![NormalRole(e.role)] =
                         [tools |-> NormalSpecs(e.tools), kbs |-> e.kbs \cap KBs]]
    BY <1>6 DEF UpdateRolePolicy
  <2>2. [tools |-> NormalSpecs(e.tools), kbs |-> e.kbs \cap KBs] \in Policy
    BY DEF Policy, NormalSpecs
  <2>3. req[r].pc # "idle" /\ UNCHANGED <<users, sessions, migrated>>
    BY <1>6 DEF UpdateRolePolicy
  <2> QED BY <1>2, <2>1, <2>2, <2>3, NormalIsRole DEF TypeInv
<1>7. CASE UpdateUser(r)
  <2>1. req[r].pc # "idle" /\ UNCHANGED <<sessions, policies, migrated>>
    BY <1>7 DEF UpdateUser
  <2>2. ASSUME NEW e \in UserEdits, users[e.name] # Nobody,
               users' = [users EXCEPT ![e.name] =
                          [role    |-> IF "role" \in DOMAIN e
                                       THEN NormalRole(e.role) ELSE @.role,
                           enabled |-> IF "enabled" \in DOMAIN e
                                       THEN e.enabled ELSE @.enabled,
                           pw      |-> IF "pw" \in DOMAIN e THEN e.pw ELSE @.pw]]
        PROVE  users' \in [Users -> User \cup {Nobody}]
    <3> DEFINE u == users[e.name]
               row == [role    |-> IF "role" \in DOMAIN e THEN NormalRole(e.role) ELSE u.role,
                       enabled |-> IF "enabled" \in DOMAIN e THEN e.enabled ELSE u.enabled,
                       pw      |-> IF "pw" \in DOMAIN e THEN e.pw ELSE u.pw]
    <3>1. e.name \in Users /\ u \in User
      BY <2>2, EditsAssumption DEF TypeInv
    <3>2. row \in User
      BY <3>1, EditsAssumption, NormalIsRole DEF User
    <3>3. users' = [users EXCEPT ![e.name] = row]
      BY <2>2
    <3> HIDE DEF row, u
    <3> QED BY <3>2, <3>3 DEF TypeInv
  <2>3. users' \in [Users -> User \cup {Nobody}]
    BY <1>7, <2>2 DEF UpdateUser, TypeInv
  <2> QED BY <1>2, <2>1, <2>3 DEF TypeInv
<1>8. CASE CreateUser(r)
  <2>1. req[r].pc # "idle" /\ UNCHANGED <<sessions, policies, migrated>>
    BY <1>8 DEF CreateUser
  <2>2. ASSUME NEW u \in Users, NEW pw \in Passwords, NEW enabled \in BOOLEAN,
               users' = [users EXCEPT ![u] =
                          [role |-> "employee", enabled |-> enabled, pw |-> pw]]
        PROVE  users' \in [Users -> User \cup {Nobody}]
    <3>1. [role |-> "employee", enabled |-> enabled, pw |-> pw] \in User
      BY DEF User, Roles
    <3> QED BY <2>2, <3>1 DEF TypeInv
  <2>3. users' \in [Users -> User \cup {Nobody}]
    BY <1>8, <2>2 DEF CreateUser, TypeInv
  <2> QED BY <1>2, <2>1, <2>3 DEF TypeInv
<1>9. CASE \/ CheckPassword(r) \/ Authenticate(r) \/ ReadPolicies(r) \/ BuildContext(r)
           \/ CallTool(r) \/ CallToolAfterEviction(r) \/ Finish(r) \/ Fail(r)
  <2>1. NoAuthWrite /\ req[r].pc # "idle"
    BY <1>9 DEF CheckPassword, Authenticate, ReadPolicies, NeedsPolicies, BuildContext,
       CallTool, CallToolAfterEviction, Finish, Fail
  <2> QED BY <1>2, <2>1 DEF NoAuthWrite, TypeInv
<1> QED BY <1>3, <1>4, <1>5, <1>6, <1>7, <1>8, <1>9 DEF Step

\* Types after a step.
LEMMA StepTypes ==
  ASSUME Shape, TypeInv, EntitledInv, NEW r \in Requests, Step(r), Watch
  PROVE  TypeInv'
<1> USE DEF At
<1>1. /\ Holding(req'[r]) /\ req'[r].pc # "idle"
      /\ req'[r].pc = "opened" /\ req'[r].job # "login" => sessions[req'[r].token] # Nobody
  BY StepHolds
<1>2. Moved(r) /\ \A x \in Requests : x # r => req'[x] = req[x]
  BY StepMoves
<1>3. /\ users' \in [Users -> User \cup {Nobody}]
      /\ sessions' \in [Tokens -> Session \cup {Nobody}]
      /\ \A t \in Tokens : sessions[t] # Nobody => sessions'[t] # Nobody
      /\ migrated' \in BOOLEAN /\ policies' \in [Roles -> Policy]
  BY StepTables
<1>4. \A role \in Roles : Stored0(policies'[role])
  <2>1. ASSUME NEW p \in Policy PROVE Stored0(p)
    BY DEF Policy, Stored0
  <2> QED BY <1>3, <2>1
<1>5. ASSUME NEW x \in Requests PROVE Holding(req'[x])
  BY <1>1, <1>2 DEF TypeInv
<1>6. ASSUME NEW x \in Requests, req'[x].pc = "opened", req'[x].job # "login"
      PROVE  sessions'[req'[x].token] # Nobody
  <2>1. sessions[req'[x].token] # Nobody /\ req'[x].token \in Tokens
    BY <1>1, <1>2, <1>6 DEF TypeInv, EntitledInv, Moved
  <2> QED BY <1>3, <2>1
<1>7. entitled' \subseteq Requests
  BY DEF Watch
<1>8. (\A role \in Roles : Stored0(policies[role]))'
  BY <1>4 DEF Stored0
<1>9. (\A x \in Requests : Holding(req[x]))'
  BY <1>5 DEF Holding
<1> QED BY <1>3, <1>6, <1>7, <1>8, <1>9 DEF TypeInv

\* The types are inductive.
LEMMA NextTypes ==
  Shape /\ TypeInv /\ EntitledInv /\ [Next]_vars => TypeInv'
<1> SUFFICES ASSUME Shape, TypeInv, EntitledInv, [Next]_vars PROVE TypeInv'
  OBVIOUS
<1>1. CASE Next
  BY <1>1, StepTypes DEF Next
<1>2. CASE UNCHANGED vars
  BY <1>2 DEF vars, TypeInv, Opened, At, Stored0, Holding
<1> QED BY <1>1, <1>2

\* They hold of every database there may be at first.
LEMMA InitTypes == Init => TypeInv
<1> SUFFICES ASSUME Init PROVE TypeInv  OBVIOUS
<1>1. PICK mix \in Mixes : req = [r \in Requests |-> Idle(mix[r])]
  BY DEF Init
<1>2. \A r \in Requests : /\ req[r].pc = "idle" /\ req[r].kbs = {} /\ req[r].role = "guest"
  BY <1>1 DEF Idle
<1>3. PICK store \in OldStores :
        /\ users = store.users /\ policies = store.policies /\ migrated = store.migrated
        /\ sessions = [t \in Tokens |-> IF t \in OldTokens THEN store.sessions[t] ELSE Nobody]
  BY DEF Init
<1>4. users \in [Users -> User \cup {Nobody}] /\ migrated \in BOOLEAN
  BY <1>3, StoresAssumption
<1>5. sessions \in [Tokens -> Session \cup {Nobody}]
  BY <1>3, StoresAssumption
<1>6. \A role \in Roles : Stored0(policies[role])
  BY <1>3, StoresAssumption DEF Stored0
<1>7. \A r \in Requests : Holding(req[r])
  BY <1>2 DEF Holding, Pcs, Roles
<1>8. ~Opened /\ \A r \in Requests : ~At(r, "opened")
  BY <1>2 DEF Opened, At
<1> QED BY <1>4, <1>5, <1>6, <1>7, <1>8 DEF TypeInv, Init

\* Whatever the store held when the process started, once it was opened every
\* role has a policy of valid specs (security/auth_store.py), and one request
\* stores at most one snapshot.
THEOREM AccessTypes == Spec => []AccessTypeOK
<1> DEFINE Inv == Shape /\ ChoiceInv /\ EntitledInv /\ KeptInv /\ TimeInv /\ TypeInv
<1>1. Init => Inv
  BY InitInv, InitKept, InitTypes
<1>2. Inv /\ [Next]_vars => Inv'
  BY NextInv, NextTime, NextTypes
<1>3. Inv => AccessTypeOK
  BY DEF AccessTypeOK, TypeInv, Opened, Holding, KeptInv
<1> QED BY <1>1, <1>2, <1>3, PTL DEF Spec
=============================================================================
