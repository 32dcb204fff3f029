--------------------------- MODULE HumanAuthProofs ---------------------------
(***************************************************************************)
(* Theorems about HumanAuth.tla for any number of people, logins, requests *)
(* and group changes.                                                      *)
(***************************************************************************)
EXTENDS HumanAuth, TLAPS

\* The empty tables satisfy the invariant.
LEMMA InitEstablishesAuthInv == Init => AuthInv
<1> SUFFICES ASSUME Init PROVE AuthInv
  OBVIOUS
<1> USE NoneAssumption, BoundsAssumption
<1>1. TypeOK
  BY DEF Init, TypeOK, RequestState, Groups
<1> QED
  BY <1>1 DEF Init, AuthInv, ProvisionedTogether, OneActorPerSubject, LogoutIsFinal,
              FoundIdentities, CookiesMinted, Idle, NoIdentity, NoSession

\* Every step keeps the types.
LEMMA TypeStep == TypeOK /\ FoundIdentities /\ [Next]_vars => TypeOK'
<1> SUFFICES ASSUME TypeOK, FoundIdentities, [Next]_vars PROVE TypeOK'
  OBVIOUS
<1> USE NoneAssumption, BoundsAssumption
        DEF TypeOK, keycloak, rows, history, Continue, Stage
<1>1. ASSUME NEW s \in Subjects, NEW g \in Groups, ChangeGroup(s, g) PROVE TypeOK'
  BY <1>1 DEF ChangeGroup
<1>2. ASSUME NEW c \in Cookies, Expire(c) PROVE TypeOK'
  <2>1. session[c] \in LiveRow
    BY <1>2 DEF Expire, NoSession
  <2>2. [session[c] EXCEPT !.fresh = FALSE] \in LiveRow
    BY <2>1 DEF LiveRow
  <2> QED
    BY <1>2, <2>2 DEF Expire
<1>3. ASSUME NEW c \in Cookies, Logout(c) PROVE TypeOK'
  BY <1>3 DEF Logout, RowAfterLogout
<1>4. ASSUME NEW r \in Requests, NEW c \in Cookies, Lookup(r, c) PROVE TypeOK'
  <2>1. session[c] \in LiveRow
    BY <1>4 DEF Lookup
  <2>2. Claims(session[c]) \in [subject : Subjects, role : Roles]
    BY <2>1 DEF Claims, LiveRow
  <2>3. [pc |-> "select", claims |-> Claims(session[c])] \in RequestState
    BY <2>2 DEF RequestState
  <2>4. [pc |-> "refresh", cookie |-> c, row |-> session[c]] \in RequestState
    BY <2>1 DEF RequestState
  <2> QED
    BY <1>4, <2>3, <2>4 DEF Lookup
<1>5. ASSUME NEW r \in Requests, NEW c \in Cookies, NEW s \in Subjects, LogIn(r, c, s)
      PROVE  TypeOK'
  <2>1. [subject |-> s, role |-> RoleIn(group[s]), token |-> valid[c], fresh |-> TRUE]
           \in LiveRow
    BY DEF LiveRow, RoleIn, Roles
  <2> QED
    BY <1>5, <2>1 DEF LogIn, RequestState
<1>6. ASSUME NEW r \in Requests, Create(r) PROVE TypeOK'
  <2>1. req[r].cookie \in Cookies /\ req[r].row \in LiveRow
    BY <1>6 DEF Create, RequestState, Idle
  <2> QED
    BY <1>6, <2>1 DEF Create, RequestState
<1>7. ASSUME NEW r \in Requests, Refresh(r) PROVE TypeOK'
  <2>1. req[r].cookie \in Cookies /\ req[r].row \in LiveRow
    BY <1>7 DEF Refresh, RequestState, Idle
  <2>2. \A t \in 0..MaxRotations : RefreshedRow(req[r].row, t) \in LiveRow
    BY <2>1 DEF RefreshedRow, LiveRow, RoleIn, Roles
  <2> QED
    BY <1>7, <2>1, <2>2 DEF Refresh, Rotate, RequestState
<1>8. ASSUME NEW r \in Requests, RefreshFails(r) PROVE TypeOK'
  <2>1. req[r].cookie \in Cookies
    BY <1>8 DEF RefreshFails, RequestState, Idle
  <2> QED
    BY <1>8, <2>1 DEF RefreshFails, Rotate, RequestState
<1>9. ASSUME NEW r \in Requests, Save(r) PROVE TypeOK'
  <2>1. req[r].cookie \in Cookies /\ req[r].row \in LiveRow
    BY <1>9 DEF Save, RequestState, Idle
  <2>2. Claims(req[r].row) \in [subject : Subjects, role : Roles]
    BY <2>1 DEF Claims, LiveRow
  <2> QED
    BY <1>9, <2>1, <2>2 DEF Save, RequestState
<1>10. ASSUME NEW r \in Requests, DeleteSession(r) PROVE TypeOK'
  BY <1>10 DEF DeleteSession, RequestState
<1>11. ASSUME NEW r \in Requests, Abandon(r) PROVE TypeOK'
  BY <1>11 DEF Abandon, RequestState
<1>12. ASSUME NEW r \in Requests, Select(r) PROVE TypeOK'
  <2>1. req[r] \in [pc : {"select"}, claims : [subject : Subjects, role : Roles]]
    BY <1>12 DEF Select, RequestState, Idle
  <2>2. \A pc \in {"provision", "update"} : [req[r] EXCEPT !.pc = pc] \in RequestState
    BY <2>1 DEF RequestState
  <2>3. identity[req[r].claims.subject] # NoIdentity =>
           identity[req[r].claims.subject].actor \in ActorIds
    BY <2>1 DEF BoundRow
  <2> QED
    BY <1>12, <2>1, <2>2, <2>3 DEF Select, Serve, RequestState
<1>13. ASSUME NEW r \in Requests, UpdateRole(r) PROVE TypeOK'
  <2> DEFINE s == req[r].claims.subject
  <2>1. req[r] \in [pc : {"update"}, claims : [subject : Subjects, role : Roles]]
    BY <1>13 DEF UpdateRole, RequestState, Idle
  <2>2. s \in Subjects /\ identity[s] \in BoundRow
    BY <1>13, <2>1 DEF FoundIdentities
  <2>3. [identity[s] EXCEPT !.role = req[r].claims.role] \in BoundRow
    BY <2>1, <2>2 DEF BoundRow
  <2> QED
    BY <1>13, <2>1, <2>2, <2>3 DEF UpdateRole, Serve, ActorOf, RequestState, BoundRow
<1>14. ASSUME NEW r \in Requests, Provision(r) PROVE TypeOK'
  <2> DEFINE s == req[r].claims.subject
  <2>1. req[r] \in [pc : {"provision"}, claims : [subject : Subjects, role : Roles]]
    BY <1>14 DEF Provision, RequestState, Idle
  <2>2. [req[r] EXCEPT !.pc = "winner"] \in RequestState
    BY <2>1 DEF RequestState
  <2>3. \A i \in ActorIds : [actor |-> i, role |-> req[r].claims.role] \in BoundRow
    BY <2>1 DEF BoundRow
  <2>4. name[s] \in Names /\ s \in Subjects
    BY <2>1
  <2>5. req' = [req EXCEPT ![r] = [req[r] EXCEPT !.pc = "winner"]]
        \/ req' = [req EXCEPT ![r] = Idle]
    BY <1>14 DEF Provision, Serve
  <2>6. req' \in [Requests -> RequestState]
    BY <2>2, <2>5 DEF RequestState
  <2>7. \/ UNCHANGED <<identity, actor, served>>
        \/ \E i \in ActorIds :
             /\ identity' = [identity EXCEPT ![s] = [actor |-> i, role |-> req[r].claims.role]]
             /\ actor' = [actor EXCEPT ![i] = name[s]]
             /\ served' = served \union {<<s, i>>}
    BY <1>14 DEF Provision, Serve, IdentitiesAfterClash
  <2>8. /\ identity' \in [Subjects -> BoundRow \union {NoIdentity}]
        /\ actor' \in [ActorIds -> Names \union {None}]
        /\ served' \subseteq Subjects \X ActorIds
    <3>1. CASE UNCHANGED <<identity, actor, served>>
      BY <3>1
    <3>2. ASSUME NEW i \in ActorIds,
                 identity' = [identity EXCEPT ![s] = [actor |-> i, role |-> req[r].claims.role]],
                 actor' = [actor EXCEPT ![i] = name[s]],
                 served' = served \union {<<s, i>>}
          PROVE  /\ identity' \in [Subjects -> BoundRow \union {NoIdentity}]
                 /\ actor' \in [ActorIds -> Names \union {None}]
                 /\ served' \subseteq Subjects \X ActorIds
      BY <2>3, <2>4, <3>2
    <3> QED
      BY <2>7, <3>1, <3>2
  <2>9. UNCHANGED <<name, group, changes, valid, minted, session, loggedOut>>
    BY <1>14 DEF Provision, Serve
  <2> QED
    BY <2>6, <2>8, <2>9
<1>15. ASSUME NEW r \in Requests, ReadWinner(r) PROVE TypeOK'
  <2> DEFINE s == req[r].claims.subject
  <2>1. req[r] \in [pc : {"winner"}, claims : [subject : Subjects, role : Roles]]
    BY <1>15 DEF ReadWinner, RequestState, Idle
  <2>2. s \in Subjects /\ identity[s].actor \in ActorIds
    BY <1>15, <2>1 DEF FoundIdentities, BoundRow
  <2> QED
    BY <1>15, <2>1, <2>2 DEF ReadWinner, Serve, ActorOf, RequestState
<1>16. CASE UNCHANGED vars
  BY <1>16 DEF vars
<1> QED
  BY <1>1, <1>2, <1>3, <1>4, <1>5, <1>6, <1>7, <1>8, <1>9, <1>10, <1>11, <1>12, <1>13,
     <1>14, <1>15, <1>16 DEF Next, RequestStep

\* The tables of people change in two ways only: a new identity with its actor, or
\* the role of an identity there is.
LEMMA PeopleStep ==
    ASSUME AuthInv, [Next]_vars
    PROVE  \/ UNCHANGED <<identity, actor>>
           \/ \E s \in Subjects, role \in Roles :
                 /\ identity[s] # NoIdentity
                 /\ identity' = [identity EXCEPT ![s].role = role]
                 /\ actor' = actor
           \/ \E s \in Subjects, i \in ActorIds, role \in Roles :
                 /\ identity[s] = NoIdentity
                 /\ actor[i] = None
                 /\ identity' = [identity EXCEPT ![s] = [actor |-> i, role |-> role]]
                 /\ actor' = [actor EXCEPT ![i] = name[s]]
<1> USE DEF AuthInv, keycloak, rows
<1>1. ASSUME NEW r \in Requests, UpdateRole(r)
      PROVE  \E s \in Subjects, role \in Roles :
                 /\ identity[s] # NoIdentity
                 /\ identity' = [identity EXCEPT ![s].role = role]
                 /\ actor' = actor
  <2>1. req[r].claims \in [subject : Subjects, role : Roles]
    BY <1>1 DEF TypeOK, UpdateRole, RequestState, Idle
  <2> QED
    BY <1>1, <2>1 DEF UpdateRole, FoundIdentities
<1>2. ASSUME NEW r \in Requests, Provision(r)
      PROVE  \/ UNCHANGED <<identity, actor>>
             \/ \E s \in Subjects, i \in ActorIds, role \in Roles :
                   /\ identity[s] = NoIdentity
                   /\ actor[i] = None
                   /\ identity' = [identity EXCEPT ![s] = [actor |-> i, role |-> role]]
                   /\ actor' = [actor EXCEPT ![i] = name[s]]
  <2>1. req[r].claims \in [subject : Subjects, role : Roles]
    BY <1>2 DEF TypeOK, Provision, RequestState, Idle
  <2> QED
    BY <1>2, <2>1 DEF Provision, Won, IdentitiesAfterClash
<1> QED
  BY <1>1, <1>2 DEF Next, RequestStep, ChangeGroup, Expire, Logout, Lookup, LogIn, Create,
                    Refresh, RefreshFails, Save, DeleteSession, Select, ReadWinner,
                    Abandon, vars

\* An identity, once there, keeps its actor; the names do not change.
LEMMA IdentitiesStay ==
    ASSUME AuthInv, [Next]_vars
    PROVE  /\ \A s \in Subjects : identity[s] # NoIdentity =>
                 identity'[s] # NoIdentity /\ identity'[s].actor = identity[s].actor
           /\ name' = name
<1>1. name' = name
  BY DEF Next, RequestStep, ChangeGroup, Expire, Logout, Lookup, LogIn, Create, Refresh,
         RefreshFails, Save, DeleteSession, Select, UpdateRole, Provision, ReadWinner,
         Abandon, vars, keycloak
<1>2. ASSUME NEW s \in Subjects, identity[s] # NoIdentity
      PROVE  identity'[s] # NoIdentity /\ identity'[s].actor = identity[s].actor
  <2>1. identity[s].actor \in ActorIds
    BY <1>2 DEF AuthInv, TypeOK, BoundRow
  <2>2. identity'[s].actor = identity[s].actor
    BY <1>2, PeopleStep DEF AuthInv, TypeOK, BoundRow
  <2> QED
    BY <2>1, <2>2, NoneAssumption DEF NoIdentity
<1> QED
  BY <1>1, <1>2

\* Provisioning keeps identities and actors in step.
LEMMA ProvisionStep == AuthInv /\ [Next]_vars => ProvisionedTogether'
<1> SUFFICES ASSUME AuthInv, [Next]_vars PROVE ProvisionedTogether'
  OBVIOUS
<1> USE NoneAssumption DEF AuthInv, TypeOK, BoundRow, NoIdentity, ProvisionedTogether
<1>0. name' = name
  BY IdentitiesStay
<1>1. CASE UNCHANGED <<identity, actor>>
  BY <1>0, <1>1
<1>2. ASSUME NEW s \in Subjects, NEW role \in Roles, identity[s] # NoIdentity,
             identity' = [identity EXCEPT ![s].role = role], actor' = actor
      PROVE  ProvisionedTogether'
  <2>1. \A t \in Subjects : identity'[t].actor = identity[t].actor
    BY <1>2
  <2>2. \A t \in Subjects : identity'[t] # NoIdentity => identity[t] # NoIdentity
    BY <1>2
  <2> QED
    BY <1>0, <1>2, <2>1, <2>2
<1>3. ASSUME NEW s \in Subjects, NEW i \in ActorIds, NEW role \in Roles,
             identity[s] = NoIdentity, actor[i] = None,
             identity' = [identity EXCEPT ![s] = [actor |-> i, role |-> role]],
             actor' = [actor EXCEPT ![i] = name[s]]
      PROVE  ProvisionedTogether'
  <2>1. \A t \in Subjects : t # s => identity'[t] = identity[t]
    BY <1>3
  <2>2. identity'[s].actor = i /\ identity'[s] # NoIdentity /\ actor'[i] = name[s]
    BY <1>3
  <2>3. \A t \in Subjects : identity[t].actor # i
    <3>1. \A t \in Subjects : identity[t] # NoIdentity =>
             actor[identity[t].actor] # None
      OBVIOUS
    <3> QED
      BY <1>3, <3>1
  <2>4. \A j \in ActorIds : j # i => actor'[j] = actor[j]
    BY <1>3
  <2>5. \A t \in Subjects : identity'[t] # NoIdentity => actor'[identity'[t].actor] = name[t]
    BY <2>1, <2>2, <2>3, <2>4
  <2>6. ASSUME NEW j \in ActorIds, actor'[j] # None
        PROVE  \E t \in Subjects : identity'[t].actor = j
    <3>1. CASE j = i
      BY <2>2, <3>1
    <3>2. CASE j # i
      <4>1. PICK t \in Subjects : identity[t].actor = j
        BY <2>4, <2>6, <3>2
      <4>2. t # s
        BY <1>3, <4>1
      <4> QED
        BY <2>1, <4>1, <4>2
    <3> QED
      BY <3>1, <3>2
  <2>7. ASSUME NEW t \in Subjects, NEW u \in Subjects, identity'[t] # NoIdentity,
               identity'[t].actor = identity'[u].actor
        PROVE  t = u
    BY <2>1, <2>2, <2>3, <2>7
  <2> QED
    BY <1>0, <2>5, <2>6, <2>7
<1> QED
  BY <1>1, <1>2, <1>3, PeopleStep

\* Whoever is served is served as the actor of its identity.
LEMMA ServedStep == AuthInv /\ [Next]_vars => OneActorPerSubject'
<1> SUFFICES ASSUME AuthInv, [Next]_vars, NEW p \in served'
             PROVE  identity'[p[1]].actor = p[2]
  BY DEF OneActorPerSubject
<1> USE DEF AuthInv
<1>1. CASE p \in served
  <2>1. p[1] \in Subjects /\ p[2] \in ActorIds
    BY <1>1 DEF TypeOK
  <2>2. identity[p[1]].actor = p[2]
    BY <1>1 DEF OneActorPerSubject
  <2>3. identity[p[1]] # NoIdentity
    BY <2>1, <2>2, NoneAssumption DEF NoIdentity
  <2> QED
    BY <2>1, <2>2, <2>3, IdentitiesStay
<1>2. CASE p \notin served
  <2>1. ASSUME NEW r \in Requests, Select(r) PROVE identity'[p[1]].actor = p[2]
    BY <1>2, <2>1 DEF Select, Serve, Stage, ActorOf, rows, history
  <2>2. ASSUME NEW r \in Requests, UpdateRole(r) PROVE identity'[p[1]].actor = p[2]
    <3>1. req[r].claims.subject \in Subjects
      BY <2>2 DEF TypeOK, UpdateRole, RequestState, Idle
    <3>2. identity[req[r].claims.subject] # NoIdentity
      BY <2>2 DEF FoundIdentities, UpdateRole
    <3>3. p = <<req[r].claims.subject, identity[req[r].claims.subject].actor>>
      BY <1>2, <2>2 DEF UpdateRole, Serve, ActorOf
    <3> QED
      BY <3>1, <3>2, <3>3, IdentitiesStay
  <2>3. ASSUME NEW r \in Requests, Provision(r) PROVE identity'[p[1]].actor = p[2]
    <3>1. req[r].claims.subject \in Subjects
      BY <2>3 DEF TypeOK, Provision, RequestState, Idle
    <3>2. \E i \in ActorIds :
             /\ p = <<req[r].claims.subject, i>>
             /\ identity' = [identity EXCEPT ![req[r].claims.subject] =
                                [actor |-> i, role |-> req[r].claims.role]]
      BY <1>2, <2>3 DEF Provision, Serve, Stage, history
    <3> QED
      BY <3>1, <3>2 DEF TypeOK
  <2>4. ASSUME NEW r \in Requests, ReadWinner(r) PROVE identity'[p[1]].actor = p[2]
    BY <1>2, <2>4 DEF ReadWinner, Serve, ActorOf, rows
  <2> QED
    BY <1>2, <2>1, <2>2, <2>3, <2>4
       DEF Next, RequestStep, ChangeGroup, Expire, Logout, Lookup, LogIn, Create, Refresh,
           RefreshFails, Save, DeleteSession, Abandon, vars, history
<1> QED
  BY <1>1, <1>2

\* Identities are looked up before they are relied on, and stay.
LEMMA FoundStep == AuthInv /\ [Next]_vars => FoundIdentities'
<1> SUFFICES ASSUME AuthInv, [Next]_vars, NEW q \in Requests,
                    req'[q].pc \in {"update", "winner"}
             PROVE  identity'[req'[q].claims.subject] # NoIdentity
  BY DEF FoundIdentities
<1> USE DEF AuthInv
<1>1. CASE req'[q] = req[q]
  <2>1. req[q].claims.subject \in Subjects
    BY <1>1 DEF TypeOK, RequestState, Idle
  <2>2. identity[req[q].claims.subject] # NoIdentity
    BY <1>1 DEF FoundIdentities
  <2> QED
    BY <1>1, <2>1, <2>2, IdentitiesStay
<1>2. CASE req'[q] # req[q]
  <2> USE DEF Continue, TypeOK
  <2>1. \A r \in Requests : ~(req' = [req EXCEPT ![r] = Idle])
    BY <1>2 DEF Idle
  <2>2. ASSUME NEW r \in Requests, Select(r)
        PROVE  identity'[req'[q].claims.subject] # NoIdentity
    <3>1. q = r
      BY <1>2, <2>2 DEF Select, Stage, Serve
    <3>2. req[r] \in [pc : {"select"}, claims : [subject : Subjects, role : Roles]]
      BY <2>2 DEF Select, RequestState, Idle
    <3>3. req'[r].claims = req[r].claims
      BY <2>1, <2>2, <3>2 DEF Select, Stage, Serve
    <3>4. identity[req[r].claims.subject] # NoIdentity
      <4>1. CASE identity[req[r].claims.subject] = NoIdentity
        BY <2>1, <2>2, <3>1, <3>2, <4>1 DEF Select, Stage, Serve
      <4> QED
        BY <4>1
    <3> QED
      BY <2>2, <3>1, <3>3, <3>4 DEF Select, rows
  <2>3. ASSUME NEW r \in Requests, Provision(r)
        PROVE  identity'[req'[q].claims.subject] # NoIdentity
    <3>1. q = r
      BY <1>2, <2>3 DEF Provision, Stage, Serve
    <3>2. req[r] \in [pc : {"provision"}, claims : [subject : Subjects, role : Roles]]
      BY <2>3 DEF Provision, RequestState, Idle
    <3>3. /\ req'[r].claims = req[r].claims
          /\ identity' = identity
          /\ identity[req[r].claims.subject] # NoIdentity
      <4>1. /\ ~Won(req[r].claims.subject)
            /\ Stage(r, "winner")
            /\ UNCHANGED <<identity, actor>>
        BY <2>1, <2>3 DEF Provision, Serve
      <4> QED
        BY <3>2, <4>1 DEF Stage, Won
    <3> QED
      BY <3>1, <3>3
  <2> QED
    <3>1. ASSUME NEW r \in Requests, NEW next,
                 next.pc \notin {"update", "winner"}, req' = [req EXCEPT ![r] = next]
          PROVE  FALSE
      BY <1>2, <3>1
    <3>2. req' # req
      BY <1>2
    <3>3. ASSUME NEW r \in Requests, NEW c \in Cookies, Lookup(r, c) PROVE FALSE
      BY <3>1, <3>3 DEF Lookup
    <3>4. ASSUME NEW r \in Requests, NEW c \in Cookies, NEW s \in Subjects, LogIn(r, c, s)
          PROVE  FALSE
      BY <3>1, <3>4 DEF LogIn
    <3>5. ASSUME NEW r \in Requests, Refresh(r) \/ RefreshFails(r) \/ Save(r) PROVE FALSE
      BY <3>1, <3>5 DEF Refresh, RefreshFails, Save
    <3>6. ASSUME NEW r \in Requests,
                 Create(r) \/ DeleteSession(r) \/ UpdateRole(r) \/ ReadWinner(r) \/ Abandon(r)
          PROVE  FALSE
      BY <2>1, <3>6 DEF Create, DeleteSession, UpdateRole, ReadWinner, Abandon, Serve
    <3> QED
      BY <2>2, <2>3, <3>2, <3>3, <3>4, <3>5, <3>6
         DEF Next, RequestStep, ChangeGroup, Expire, Logout, vars
<1> QED
  BY <1>1, <1>2

\* Cookies are drawn before anything carries them.
LEMMA CookiesStep == AuthInv /\ [Next]_vars => CookiesMinted'
<1> SUFFICES ASSUME AuthInv, [Next]_vars PROVE CookiesMinted'
  OBVIOUS
<1> USE DEF AuthInv, TypeOK, CookiesMinted, Continue, keycloak, rows, history
<1>1. ASSUME NEW s \in Subjects, NEW g \in Groups, ChangeGroup(s, g) PROVE CookiesMinted'
  BY <1>1 DEF ChangeGroup
<1>2. ASSUME NEW c \in Cookies, Expire(c) PROVE CookiesMinted'
  <2>1. session[c] # NoSession
    BY <1>2 DEF Expire, NoSession
  <2>2. \A k \in Cookies : k # c => session'[k] = session[k]
    BY <1>2 DEF Expire
  <2> QED
    BY <1>2, <2>1, <2>2 DEF Expire
<1>3. ASSUME NEW c \in Cookies, Logout(c) PROVE CookiesMinted'
  BY <1>3 DEF Logout, RowAfterLogout
<1>4. ASSUME NEW r \in Requests, NEW c \in Cookies, Lookup(r, c) PROVE CookiesMinted'
  BY <1>4 DEF Lookup
<1>5. ASSUME NEW r \in Requests, NEW c \in Cookies, NEW s \in Subjects, LogIn(r, c, s)
      PROVE  CookiesMinted'
  BY <1>5 DEF LogIn
<1>6. ASSUME NEW r \in Requests, Create(r) PROVE CookiesMinted'
  BY <1>6 DEF Create, Idle
<1>7. ASSUME NEW r \in Requests, Refresh(r) PROVE CookiesMinted'
  BY <1>7 DEF Refresh
<1>8. ASSUME NEW r \in Requests, RefreshFails(r) PROVE CookiesMinted'
  BY <1>8 DEF RefreshFails
<1>9. ASSUME NEW r \in Requests, Save(r) PROVE CookiesMinted'
  BY <1>9 DEF Save
<1>10. ASSUME NEW r \in Requests, DeleteSession(r) PROVE CookiesMinted'
  BY <1>10 DEF DeleteSession, Idle
<1>11. ASSUME NEW r \in Requests, Abandon(r) PROVE CookiesMinted'
  BY <1>11 DEF Abandon, Idle
<1>12. ASSUME NEW r \in Requests,
              Select(r) \/ UpdateRole(r) \/ Provision(r) \/ ReadWinner(r)
       PROVE  CookiesMinted'
  <2>1. UNCHANGED <<minted, session, loggedOut>>
    BY <1>12 DEF Select, UpdateRole, Provision, ReadWinner, Serve, Stage
  <2>2. req[r] \in [pc : {"select", "update", "provision", "winner"},
                   claims : [subject : Subjects, role : Roles]]
    BY <1>12 DEF Select, UpdateRole, Provision, ReadWinner, RequestState, Idle
  <2>3. \/ req' = [req EXCEPT ![r] = Idle]
        \/ \E pc \in {"update", "provision", "winner"} :
              req' = [req EXCEPT ![r] = [req[r] EXCEPT !.pc = pc]]
    BY <1>12 DEF Select, UpdateRole, Provision, ReadWinner, Serve, Stage
  <2>4. \A q \in Requests : req'[q] = req[q] \/ req'[q].pc \in {"idle", "update", "provision", "winner"}
    BY <2>2, <2>3 DEF Idle
  <2> QED
    BY <2>1, <2>4
<1>13. CASE UNCHANGED vars
  BY <1>13 DEF vars
<1> QED
  BY <1>1, <1>2, <1>3, <1>4, <1>5, <1>6, <1>7, <1>8, <1>9, <1>10, <1>11, <1>12, <1>13
     DEF Next, RequestStep

\* Nothing brings a session back that was ended while no request was renewing it.
LEMMA LogoutStep == AuthInv /\ [Next]_vars => LogoutIsFinal'
<1> SUFFICES ASSUME AuthInv, [Next]_vars, NEW k \in loggedOut'
             PROVE  session'[k] = NoSession /\ ~Refreshing(k)'
  BY DEF LogoutIsFinal
<1> USE DEF AuthInv, TypeOK, Continue, keycloak, rows, history
<1>1. ASSUME NEW c \in Cookies, Logout(c) PROVE session'[k] = NoSession /\ ~Refreshing(k)'
  BY <1>1 DEF Logout, RowAfterLogout, LogoutIsFinal, Refreshing
<1>2. CASE loggedOut' = loggedOut
  <2> USE <1>2 DEF Refreshing
  <2>0. /\ k \in Cookies /\ k \in minted /\ session[k] = NoSession
        /\ \A q \in Requests :
              ~(req[q].pc \in {"refresh", "save", "create"} /\ req[q].cookie = k)
    BY DEF LogoutIsFinal, CookiesMinted
  <2> DEFINE Goal == session'[k] = NoSession /\ ~Refreshing(k)'
  <2>1. ASSUME NEW s \in Subjects, NEW g \in Groups, ChangeGroup(s, g) PROVE Goal
    BY <2>0, <2>1 DEF ChangeGroup
  <2>2. ASSUME NEW c \in Cookies, Expire(c) PROVE Goal
    <3>1. session[c] # NoSession
      BY <2>2 DEF Expire, NoSession
    <3>2. session'[k] = session[k]
      BY <2>0, <2>2, <3>1 DEF Expire
    <3> QED
      BY <2>0, <2>2, <3>2 DEF Expire
  <2>3. ASSUME NEW r \in Requests, NEW c \in Cookies, Lookup(r, c) PROVE Goal
    <3>1. c # k
      BY <2>0, <2>3 DEF Lookup
    <3> QED
      BY <2>0, <2>3, <3>1 DEF Lookup
  <2>4. ASSUME NEW r \in Requests, NEW c \in Cookies, NEW s \in Subjects, LogIn(r, c, s)
        PROVE  Goal
    BY <2>0, <2>4 DEF LogIn
  <2>5. ASSUME NEW r \in Requests, Create(r) \/ Save(r) PROVE Goal
    <3>1. req[r].cookie # k
      BY <2>0, <2>5 DEF Create, Save
    <3> QED
      BY <2>0, <2>5, <3>1 DEF Create, Save, Idle
  <2>6. ASSUME NEW r \in Requests, Refresh(r) \/ RefreshFails(r) PROVE Goal
    <3>1. req[r].cookie # k
      BY <2>0, <2>6 DEF Refresh, RefreshFails
    <3> QED
      BY <2>0, <2>6, <3>1 DEF Refresh, RefreshFails
  <2>7. ASSUME NEW r \in Requests, DeleteSession(r) \/ Abandon(r) PROVE Goal
    BY <2>0, <2>7 DEF DeleteSession, Abandon, Idle
  <2>8. ASSUME NEW r \in Requests,
               Select(r) \/ UpdateRole(r) \/ Provision(r) \/ ReadWinner(r)
        PROVE  Goal
    <3>1. session' = session
      BY <2>8 DEF Select, UpdateRole, Provision, ReadWinner
    <3>2. req[r] \in [pc : {"select", "update", "provision", "winner"},
                     claims : [subject : Subjects, role : Roles]]
      BY <2>8 DEF Select, UpdateRole, Provision, ReadWinner, RequestState, Idle
    <3>3. \/ req' = [req EXCEPT ![r] = Idle]
          \/ \E pc \in {"update", "provision", "winner"} :
                req' = [req EXCEPT ![r] = [req[r] EXCEPT !.pc = pc]]
      BY <2>8 DEF Select, UpdateRole, Provision, ReadWinner, Serve, Stage
    <3>4. \A q \in Requests :
             req'[q] = req[q] \/ req'[q].pc \in {"idle", "update", "provision", "winner"}
      BY <3>2, <3>3 DEF Idle
    <3> QED
      BY <2>0, <3>1, <3>4
  <2>9. CASE UNCHANGED vars
    BY <2>0, <2>9 DEF vars
  <2>10. CASE \E c \in Cookies : Logout(c)
    BY <1>1, <2>10
  <2> QED
    BY <2>1, <2>2, <2>3, <2>4, <2>5, <2>6, <2>7, <2>8, <2>9, <2>10 DEF Next, RequestStep
<1>3. CASE loggedOut' # loggedOut
  <2>1. \E c \in Cookies : Logout(c)
    BY <1>3 DEF Next, RequestStep, ChangeGroup, Expire, Lookup, LogIn, Create, Refresh,
           RefreshFails, Save, DeleteSession, Select, UpdateRole, Provision, ReadWinner,
           Serve, Stage, Abandon, vars
  <2> QED
    BY <1>1, <2>1
<1> QED
  BY <1>2, <1>3

------------------------------------------------------------------------------
\* The invariant holds in every reachable state.
THEOREM AuthInvariant == Spec => []AuthInv
<1>1. AuthInv /\ [Next]_vars => AuthInv'
  <2> SUFFICES ASSUME AuthInv, [Next]_vars PROVE AuthInv'
    OBVIOUS
  <2>1. TypeOK'
    BY TypeStep DEF AuthInv
  <2> QED
    BY <2>1, ProvisionStep, ServedStep, LogoutStep, FoundStep, CookiesStep DEF AuthInv
<1> QED
  BY InitEstablishesAuthInv, <1>1, PTL DEF Spec

\* Identities and actors are created together or not at all, one actor per person
\* (GetOrCreateHumanActor), whatever requests race and whichever names clash.
THEOREM PeopleProvisionedTogether == Spec => []ProvisionedTogether
<1>1. AuthInv => ProvisionedTogether
  BY DEF AuthInv
<1> QED
  BY AuthInvariant, <1>1, PTL

\* No person is ever served as two actors (GetOrCreateHumanActor).
THEOREM ServedAsOneActor == Spec => []OneActorPerSubject
<1>1. AuthInv => OneActorPerSubject
  BY DEF AuthInv
<1> QED
  BY AuthInvariant, <1>1, PTL

\* A session whose row a logout deleted, while no request was renewing it, stays ended
\* (logoutHandler against Authenticate).
THEOREM LogoutStays == Spec => []LogoutIsFinal
<1>1. AuthInv => LogoutIsFinal
  BY DEF AuthInv
<1> QED
  BY AuthInvariant, <1>1, PTL
==============================================================================
