------------------------------ MODULE HumanAuth ------------------------------
(***************************************************************************)
(* Human login: server-side OIDC sessions whose claims are cached for an   *)
(* interval and then re-read from Keycloak, and the provisioning of one    *)
(* Actor per Keycloak subject on a request's way through RequireHumanAuth. *)
(* A step is one SQL statement or transaction, or one call to Keycloak;    *)
(* requests interleave between steps and may end after any of them.        *)
(***************************************************************************)
EXTENDS Naturals

CONSTANTS
    Subjects, Cookies,
    Requests,      \* requests being served concurrently
    ActorIds,      \* the uuids provisioning draws
    Names,         \* display names
    None,          \* no value
    MaxChanges,    \* bound: group changes at Keycloak
    MaxRotations   \* bound: times Keycloak rotates one login's refresh token

ASSUME NoneAssumption == None \notin Subjects \union ActorIds \union Names
ASSUME BoundsAssumption == MaxChanges \in Nat /\ MaxRotations \in Nat

VARIABLES
    name,       \* Keycloak: the display name of a subject, which stays
    group,      \* Keycloak: a subject's group; a disabled account gets no tokens
    changes,    \* group changes so far
    valid,      \* Keycloak: the refresh token it honours, per login
    minted,     \* cookies whose session id has been drawn
    session,    \* sessions rows, by cookie
    identity,   \* user_identities rows, by subject
    actor,      \* actors rows of kind human: id to display name
    req,        \* what each request executes next, with its Go locals
    loggedOut,  \* history: cookies whose row a logout deleted while no refresh of theirs ran
    served      \* history: <<subject, actor id>> requests went through with

keycloak == <<name, group, changes, valid>>
rows == <<session, identity, actor>>
history == <<loggedOut, served>>
vars == <<keycloak, minted, rows, req, history>>

Groups == {"admin", "member", "disabled"}
Roles == {"viewer", "admin"}

\* verifyAndExtract: the admin group makes an admin, anything else a viewer.
RoleIn(g) == IF g = "admin" THEN "admin" ELSE "viewer"

\* fresh: ExpiresAt, the checkpoint of the cached claims, lies ahead.
NoSession == [subject |-> None, role |-> "viewer", token |-> 0, fresh |-> FALSE]
NoIdentity == [actor |-> None, role |-> "viewer"]
Idle == [pc |-> "idle"]

Init ==
    /\ name \in [Subjects -> Names]
    /\ group \in [Subjects -> Groups \ {"disabled"}]
    /\ changes = 0
    /\ valid = [c \in Cookies |-> 0]
    /\ minted = {}
    /\ session = [c \in Cookies |-> NoSession]
    /\ identity = [s \in Subjects |-> NoIdentity]
    /\ actor = [i \in ActorIds |-> None]
    /\ req = [r \in Requests |-> Idle]
    /\ loggedOut = {}
    /\ served = {}

Continue(r, next) == req' = [req EXCEPT ![r] = next]

\* Keycloak issues tokens: the refresh token of login c is replaced, or kept.
Rotate(c, t) ==
    /\ t \in {valid[c], valid[c] + 1}
    /\ t <= MaxRotations
    /\ valid' = [valid EXCEPT ![c] = t]

------------------------------------------------------------------------------
\* An administrator of Keycloak moves subject s between groups, or disables it.
ChangeGroup(s, g) ==
    /\ changes < MaxChanges
    /\ group[s] \notin {g, "disabled"}
    /\ group' = [group EXCEPT ![s] = g]
    /\ changes' = changes + 1
    /\ UNCHANGED <<name, valid, minted, rows, req, history>>

\* ExpiresAt of a session passes.
Expire(c) ==
    /\ session[c].fresh
    /\ session' = [session EXCEPT ![c].fresh = FALSE]
    /\ UNCHANGED <<keycloak, minted, identity, actor, req, history>>

\* The callback exchanges the code for tokens and verifies the claims.
LogIn(r, c, s) ==
    /\ req[r] = Idle
    /\ c \notin minted
    /\ group[s] # "disabled"
    /\ minted' = minted \union {c}
    /\ Continue(r, [pc |-> "create", cookie |-> c,
                    row |-> [subject |-> s, role |-> RoleIn(group[s]),
                             token |-> valid[c], fresh |-> TRUE]])
    /\ UNCHANGED <<keycloak, rows, history>>

\* The callback stores the session and hands out its cookie.
Create(r) ==
    /\ req[r].pc = "create"
    /\ session' = [session EXCEPT ![req[r].cookie] = req[r].row]
    /\ Continue(r, Idle)
    /\ UNCHANGED <<keycloak, minted, identity, actor, history>>

\* A request holds the session row of c it read and is about to write it back.
Refreshing(c) ==
    \E r \in Requests : req[r].pc \in {"refresh", "save", "create"} /\ req[r].cookie = c

\* Faulty variant: only sessions that are still fresh are deleted.
FreshRowDeleted(c) == IF session[c].fresh THEN NoSession ELSE session[c]

\* What the logout handler leaves of the row.
RowAfterLogout(c) == NoSession

\* The logout handler ignores an error of the delete, which leaves the row.
Logout(c) ==
    /\ session[c] # NoSession
    /\ \/ /\ session' = [session EXCEPT ![c] = RowAfterLogout(c)]
          /\ loggedOut' = IF Refreshing(c) THEN loggedOut ELSE loggedOut \union {c}
       \/ UNCHANGED <<session, loggedOut>>
    /\ UNCHANGED <<keycloak, minted, identity, actor, req, served>>

------------------------------------------------------------------------------
Claims(row) == [subject |-> row.subject, role |-> row.role]

\* Authenticate looks the session up.  Without a row the request is refused.
Lookup(r, c) ==
    /\ req[r] = Idle
    /\ session[c] # NoSession
    /\ IF session[c].fresh
       THEN Continue(r, [pc |-> "select", claims |-> Claims(session[c])])
       ELSE Continue(r, [pc |-> "refresh", cookie |-> c, row |-> session[c]])
    /\ UNCHANGED <<keycloak, minted, rows, history>>

\* Faulty variant: the claims cached in the row are kept, only the token is new.
RowWithOldRole(row, t) == [row EXCEPT !.token = t, !.fresh = TRUE]

\* The row with the claims and the token Keycloak has just returned.
RefreshedRow(row, t) == [row EXCEPT !.role = RoleIn(group[row.subject]), !.token = t, !.fresh = TRUE]

\* Keycloak honours the stored token and the answer arrives.
Refresh(r) ==
    /\ req[r].pc = "refresh"
    /\ LET c == req[r].cookie
           row == req[r].row
       IN /\ row.token = valid[c]
          /\ group[row.subject] # "disabled"
          /\ \E t \in 0..MaxRotations :
                /\ Rotate(c, t)
                /\ Continue(r, [pc |-> "save", cookie |-> c, row |-> RefreshedRow(row, t)])
    /\ UNCHANGED <<name, group, changes, minted, rows, history>>

\* Keycloak refuses the token, cannot be reached, or its answer is lost or
\* unverifiable (the token may be spent then); or the stored token does not decrypt.
RefreshFails(r) ==
    /\ req[r].pc = "refresh"
    /\ LET c == req[r].cookie
       IN /\ \/ UNCHANGED valid
             \/ /\ req[r].row.token = valid[c]
                /\ \E t \in 0..MaxRotations : Rotate(c, t)
          /\ Continue(r, [pc |-> "delete", cookie |-> c])
    /\ UNCHANGED <<name, group, changes, minted, rows, history>>

\* db.Save: UPDATE by id and, when no row has it any more, INSERT.
Save(r) ==
    /\ req[r].pc = "save"
    /\ session' = [session EXCEPT ![req[r].cookie] = req[r].row]
    /\ Continue(r, [pc |-> "select", claims |-> Claims(req[r].row)])
    /\ UNCHANGED <<keycloak, minted, identity, actor, history>>

\* The session goes, by its id, whatever the row has become; the request is refused.
DeleteSession(r) ==
    /\ req[r].pc = "delete"
    /\ session' = [session EXCEPT ![req[r].cookie] = NoSession]
    /\ Continue(r, Idle)
    /\ UNCHANGED <<keycloak, minted, identity, actor, history>>

------------------------------------------------------------------------------
\* Faulty variant: the loser goes on with the id it drew for itself.
ActorDrawn(s) == CHOOSE i \in ActorIds : i # identity[s].actor
\* The actor a found identity leads to.
ActorOf(s) == identity[s].actor

\* GetOrCreateHumanActor returned actor i: the request goes on to its handler.
Serve(r, i) ==
    /\ Continue(r, Idle)
    /\ served' = served \union {<<req[r].claims.subject, i>>}
    /\ UNCHANGED loggedOut

Stage(r, pc) == Continue(r, [req[r] EXCEPT !.pc = pc]) /\ UNCHANGED history

\* The identity of the subject is looked up.
Select(r) ==
    /\ req[r].pc = "select"
    /\ LET row == identity[req[r].claims.subject]
       IN \/ row = NoIdentity /\ Stage(r, "provision")
          \/ row # NoIdentity /\ row.role # req[r].claims.role /\ Stage(r, "update")
          \/ row # NoIdentity /\ row.role = req[r].claims.role /\ Serve(r, row.actor)
    /\ UNCHANGED <<keycloak, minted, rows>>

\* The identity's role follows the claims of this request.
UpdateRole(r) ==
    /\ req[r].pc = "update"
    /\ LET s == req[r].claims.subject
       IN /\ identity' = [identity EXCEPT ![s].role = req[r].claims.role]
          /\ Serve(r, ActorOf(s))
    /\ UNCHANGED <<keycloak, minted, session, actor>>

\* INSERT ... ON CONFLICT (keycloak_subject) DO NOTHING took effect.
Won(s) == identity[s] = NoIdentity

\* Faulty variant: no transaction, the identity stays when the actor is refused.
IdentityStays(s, i, role) == [identity EXCEPT ![s] = [actor |-> i, role |-> role]]
\* user_identities when the actor's insert fails: the transaction rolled back.
IdentitiesAfterClash(s, i, role) == identity

\* The provisioning transaction: identity first, then, if it was inserted, the
\* actor, whose display name is unique.  The loser goes on to the winner's rows.
Provision(r) ==
    /\ req[r].pc = "provision"
    /\ LET s == req[r].claims.subject
           role == req[r].claims.role
       IN \/ /\ ~Won(s)
             /\ Stage(r, "winner")
             /\ UNCHANGED <<identity, actor>>
          \/ \E i \in ActorIds :
             /\ Won(s)
             /\ actor[i] = None
             /\ IF \E j \in ActorIds : actor[j] = name[s]
                THEN /\ identity' = IdentitiesAfterClash(s, i, role)
                     /\ Continue(r, Idle)
                     /\ UNCHANGED <<actor, history>>
                ELSE /\ identity' = [identity EXCEPT ![s] = [actor |-> i, role |-> role]]
                     /\ actor' = [actor EXCEPT ![i] = name[s]]
                     /\ Serve(r, i)
    /\ UNCHANGED <<keycloak, minted, session>>

\* The loser of the race finds the winner's actor.
ReadWinner(r) ==
    /\ req[r].pc = "winner"
    /\ Serve(r, ActorOf(req[r].claims.subject))
    /\ UNCHANGED <<keycloak, minted, rows>>

\* A statement fails, or the server stops: the request ends where it stands.
Abandon(r) ==
    /\ req[r] # Idle
    /\ Continue(r, Idle)
    /\ UNCHANGED <<keycloak, minted, rows, history>>

RequestStep(r) ==
    \/ Create(r) \/ Refresh(r) \/ RefreshFails(r) \/ Save(r) \/ DeleteSession(r)
    \/ Select(r) \/ UpdateRole(r) \/ Provision(r) \/ ReadWinner(r) \/ Abandon(r)

Next ==
    \/ \E s \in Subjects, g \in Groups : ChangeGroup(s, g)
    \/ \E c \in Cookies : Expire(c) \/ Logout(c)
    \/ \E r \in Requests, c \in Cookies : Lookup(r, c) \/ \E s \in Subjects : LogIn(r, c, s)
    \/ \E r \in Requests : RequestStep(r)

Spec == Init /\ [][Next]_vars

\* Requests are served and the clock reaches ExpiresAt; nobody has to send one.
Fairness ==
    /\ \A r \in Requests : WF_vars(RequestStep(r))
    /\ \A c \in Cookies : WF_vars(Expire(c))

FairSpec == Spec /\ Fairness

------------------------------------------------------------------------------
LiveRow == [subject : Subjects, role : Roles, token : 0..MaxRotations, fresh : BOOLEAN]
BoundRow == [actor : ActorIds, role : Roles]

RequestState ==
    {Idle}
    \union [pc : {"create", "refresh", "save"}, cookie : Cookies, row : LiveRow]
    \union [pc : {"delete"}, cookie : Cookies]
    \union [pc : {"select", "update", "provision", "winner"},
            claims : [subject : Subjects, role : Roles]]

\* Types of the variables.
TypeOK ==
    /\ name \in [Subjects -> Names]
    /\ group \in [Subjects -> Groups]
    /\ changes \in 0..MaxChanges
    /\ valid \in [Cookies -> 0..MaxRotations]
    /\ minted \subseteq Cookies
    /\ session \in [Cookies -> LiveRow \union {NoSession}]
    /\ identity \in [Subjects -> BoundRow \union {NoIdentity}]
    /\ actor \in [ActorIds -> Names \union {None}]
    /\ req \in [Requests -> RequestState]
    /\ loggedOut \subseteq Cookies
    /\ served \subseteq Subjects \X ActorIds

\* An identity and its actor exist together, and no two identities share an actor:
\* no half-provisioned person is left behind by a race or by a clash of names.
ProvisionedTogether ==
    /\ \A s \in Subjects : identity[s] # NoIdentity => actor[identity[s].actor] = name[s]
    /\ \A i \in ActorIds : actor[i] # None =>
          \E s \in Subjects : identity[s].actor = i
    /\ \A s, t \in Subjects :
          identity[s] # NoIdentity /\ identity[s].actor = identity[t].actor => s = t

\* Every request of a person was served as the actor of that person's identity,
\* whichever of several concurrent first requests created it.
OneActorPerSubject ==
    \A p \in served : identity[p[1]].actor = p[2]

\* A session whose row a logout deleted, while no request was renewing it, stays ended.
LogoutIsFinal ==
    \A c \in loggedOut : session[c] = NoSession /\ ~Refreshing(c)

\* A request past the lookup of its identity has one to go on with.
FoundIdentities ==
    \A r \in Requests : req[r].pc \in {"update", "winner"} =>
        identity[req[r].claims.subject] # NoIdentity

\* Rows, requests and logouts concern only cookies that were drawn.
CookiesMinted ==
    /\ \A c \in Cookies : session[c] # NoSession => c \in minted
    /\ \A r \in Requests : req[r].pc \in {"create", "refresh", "save", "delete"} =>
          req[r].cookie \in minted
    /\ loggedOut \subseteq minted

\* The inductive invariant.
AuthInv ==
    /\ TypeOK
    /\ ProvisionedTogether
    /\ OneActorPerSubject
    /\ LogoutIsFinal
    /\ FoundIdentities
    /\ CookiesMinted

\* Once the groups stop changing, cached claims come to agree with them: a change
\* propagates, and a disabled account has no session that is still trusted.
ClaimsSettle ==
    \A c \in Cookies : <>[](session[c].fresh =>
                               /\ group[session[c].subject] # "disabled"
                               /\ session[c].role = RoleIn(group[session[c].subject]))
==============================================================================
