---------------------------- MODULE UserAccounts ----------------------------
(***************************************************************************)
(* Accounts, their administration and their sessions: user.repository.ts,   *)
(* server/api/admin/users, the logins and server/middleware/auth.ts.        *)
(*                                                                         *)
(* The database is synchronous, so a handler is interrupted only where it   *)
(* waits for the body of its request, for a password hash, for the          *)
(* signature of a token or for a directory.  `req' holds what a handler     *)
(* knows across such a wait, stale as it may be.                            *)
(***************************************************************************)
EXTENDS Integers, FiniteSets, Functions

CONSTANTS
  Id,          \* identifiers (randomUUID: none is used twice)
  Name,        \* user names
  Subject,     \* identities of the directory or of the trusted proxy
  Browser,     \* each holds at most one cookie and has one request at a time
  None,        \* no value
  MaxVersion   \* bound: session versions of an account

ASSUME NoneAssumption == None \notin Id /\ None \notin Subject
ASSUME IdAssumption == IsFiniteSet(Id) /\ MaxVersion \in Nat

VARIABLES
  users,    \* the table: a function of the identifiers that have a row
  used,     \* identifiers given out so far
  cookie,   \* the session token of each browser
  req       \* the request of each browser that is being handled

vars == <<users, used, cookie, req>>

Role == {"admin", "operator"}   \* a viewer is an operator here

\* gen counts the passwords that administrators set: a token remembers the one
\* it was obtained with.  The rest of a row matters to no decision made here.
Row == [name : Name, role : Role, active : BOOLEAN, ver : 0..MaxVersion,
        gen : Nat, source : {"local", "external"}, subject : Subject \cup {None}]

\* The payload of a token: a federated login uses no password.
Token == [id : Id, ver : 0..MaxVersion, gen : Nat, federated : BOOLEAN]

Known(id) == id \in DOMAIN users

Admins == {id \in DOMAIN users : users[id].role = "admin" /\ users[id].active}

NameTaken(n) == \E id \in DOMAIN users : users[id].name = n

\* authenticateSessionFromToken(): the checks made at each request.
Valid(t) ==
  /\ Known(t.id)
  /\ users[t.id].active
  /\ users[t.id].ver = t.ver

LoggedIn(b) == cookie[b] # None /\ Valid(cookie[b])
IsAdmin(b) == LoggedIn(b) /\ users[cookie[b].id].role = "admin"

Idle == [op |-> "idle"]
IsIdle(b) == req[b] = Idle
Wait(b, r) == req' = [req EXCEPT ![b] = r]
Done(b) == req' = [req EXCEPT ![b] = Idle]

Insert(id, row) ==
  /\ users' = [i \in DOMAIN users \cup {id} |-> IF i = id THEN row ELSE users[i]]
  /\ used' = used \cup {id}

NewRow(n, role, active, source, s) ==
  [name |-> n, role |-> role, active |-> active, ver |-> 0, gen |-> 0,
   source |-> source, subject |-> s]

-----------------------------------------------------------------------------
(* Administration.                                                          *)

\* The middleware accepts an administrator, whose request now waits for its body.
AdminRequest(b) ==
  /\ IsIdle(b) /\ IsAdmin(b)
  /\ Wait(b, [op |-> "body", by |-> cookie[b].id])
  /\ UNCHANGED <<users, used, cookie>>

\* A request ends without effect: it is refused, malformed, or the client left.
Refused(b) ==
  /\ ~IsIdle(b)
  /\ Done(b)
  /\ UNCHANGED <<users, used, cookie>>

\* Mutant of LastAdminGuard: nobody demotes himself, so an administrator would remain.
LastAdminGuardDropped(id, role, active) == TRUE

\* Mutant of Patched: the sessions of the account are not invalidated.
PatchedKeepsSessions(row, role, active) ==
  [row EXCEPT !.role = IF role = None THEN @ ELSE role,
              !.active = IF active = None THEN @ ELSE active]

\* The new values of a PATCH; None leaves a value as it is.
Patched(row, role, active) ==
  [row EXCEPT !.role = IF role = None THEN @ ELSE role,
              !.active = IF active = None THEN @ ELSE active,
              !.ver = IF role = None /\ active = None THEN @ ELSE @ + 1]

\* The last active administrator is neither demoted nor deactivated.
LastAdminGuard(id, role, active) ==
  id \in Admins =>
    Cardinality(Admins) > 1 \/ (role = "admin" /\ active # FALSE)

\* PATCH /api/admin/users/:id
Patch(b, id, role, active) ==
  /\ req[b].op = "body"
  /\ Known(id)
  /\ id = req[b].by => role = None /\ active # FALSE
  /\ LastAdminGuard(id, role, active)
  /\ users[id].ver < MaxVersion
  /\ users' = [users EXCEPT ![id] = Patched(@, role, active)]
  /\ Done(b)
  /\ UNCHANGED <<used, cookie>>

\* DELETE /api/admin/users/:id, which waits for no body.
Delete(b, id) ==
  /\ IsIdle(b) /\ IsAdmin(b)
  /\ Known(id) /\ id # cookie[b].id
  /\ id \in Admins => Cardinality(Admins) > 1
  /\ users' = Restrict(users, DOMAIN users \ {id})
  /\ UNCHANGED <<used, cookie, req>>

\* POST /api/admin/users: the name is free, and the password is being hashed.
CreateChecked(b, n, role) ==
  /\ req[b].op = "body"
  /\ ~NameTaken(n)
  /\ Wait(b, [op |-> "create", name |-> n, role |-> role])
  /\ UNCHANGED <<users, used, cookie>>

\* The row is inserted, unless the name was taken meanwhile: it is unique in the
\* table, and the request ends by Refused.
Created(b, id) ==
  /\ req[b].op = "create" /\ id \in Id \ used
  /\ ~NameTaken(req[b].name)
  /\ Insert(id, NewRow(req[b].name, req[b].role, TRUE, "local", None))
  /\ Done(b)
  /\ UNCHANGED cookie

\* POST reset-password: a local account, and the new password is being hashed.
ResetChecked(b, id) ==
  /\ req[b].op = "body"
  /\ Known(id) /\ users[id].source = "local"
  /\ Wait(b, [op |-> "reset", id |-> id])
  /\ UNCHANGED <<users, used, cookie>>

\* resetPassword() and invalidateSessions(), whatever became of the account.
Reset(b) ==
  /\ req[b].op = "reset"
  /\ LET id == req[b].id IN
       IF Known(id)
       THEN /\ users[id].ver < MaxVersion
            /\ users' = [users EXCEPT ![id].gen = @ + 1, ![id].ver = @ + 1,
                                      ![id].source = "local", ![id].subject = None]
       ELSE UNCHANGED users
  /\ Done(b)
  /\ UNCHANGED <<used, cookie>>

\* Mutant of Mine: like the lookup by directory login, it asks for the source too.
MineBySource(s) ==
  {id \in DOMAIN users : users[id].subject = s /\ users[id].source = "external"}

\* getUserByExternalIdentity(): the account of an identity.
Mine(s) == {id \in DOMAIN users : users[id].subject = s}

\* The account that has the name and no identity yet, which will be linked.
Linkable(n) == {id \in DOMAIN users : users[id].name = n /\ users[id].subject = None}

\* One row of provisionLdapUsers(): the account of the identity, or the one that
\* has the name, is given the role and the state asked for; or one is made.
ProvisionOne(s, n, role, active) ==
  \/ \E id \in Mine(s) :
       /\ users' = [users EXCEPT ![id].role = role, ![id].active = active]
       /\ UNCHANGED used
  \/ \E id \in Linkable(n) :
       /\ Mine(s) = {}
       /\ users' = [users EXCEPT ![id].role = role, ![id].active = active,
                                 ![id].source = "external", ![id].subject = s]
       /\ UNCHANGED used
  \/ /\ Mine(s) = {} /\ ~NameTaken(n)
     /\ \E id \in Id \ used : Insert(id, NewRow(n, role, active, "external", s))

Provision(b) ==
  /\ req[b].op = "body"
  /\ \E s \in Subject, n \in Name, role \in Role, active \in BOOLEAN :
       ProvisionOne(s, n, role, active)
  /\ Done(b)
  /\ UNCHANGED cookie

-----------------------------------------------------------------------------
(* The account's own password, and logins.                                  *)

\* POST change-password: a local account; its owner keeps his sessions.
ChangeChecked(b) ==
  /\ IsIdle(b) /\ LoggedIn(b)
  /\ users[cookie[b].id].source = "local"
  /\ Wait(b, [op |-> "change", id |-> cookie[b].id])
  /\ UNCHANGED <<users, used, cookie>>

\* updatePassword(), once the new password is hashed.
Changed(b) ==
  /\ req[b].op = "change"
  /\ users' = IF Known(req[b].id) THEN [users EXCEPT ![req[b].id].source = "local"]
                                  ELSE users
  /\ Done(b)
  /\ UNCHANGED <<used, cookie>>

\* A login goes on with what it read of the account.
Authenticated(b, id, row, federated) ==
  Wait(b, [op |-> "login", active |-> row.active,
           token |-> [id |-> id, ver |-> row.ver, gen |-> row.gen,
                      federated |-> federated]])

\* POST /api/auth/login with the right password, which is being verified; the row
\* that was read decides of the rest.
LoginRead(b, id) ==
  /\ IsIdle(b)
  /\ Known(id) /\ users[id].source = "local"
  /\ Authenticated(b, id, users[id], FALSE)
  /\ UNCHANGED <<users, used, cookie>>

\* resolveLdapLoginUser(), resolveHeaderLoginUser(): the account of the identity,
\* or the one that has its name, or a new one when accounts are made at login.
FederatedLogin(b, s, n) ==
  /\ IsIdle(b)
  /\ \/ \E id \in Mine(s) :
          UNCHANGED <<users, used>> /\ Authenticated(b, id, users[id], TRUE)
     \/ \E id \in Linkable(n) :
          /\ Mine(s) = {}
          /\ users' = [users EXCEPT ![id].source = "external", ![id].subject = s]
          /\ Authenticated(b, id, users[id], TRUE)
          /\ UNCHANGED used
     \/ /\ Mine(s) = {} /\ ~NameTaken(n)
        /\ \E id \in Id \ used, role \in Role, active \in BOOLEAN :
             LET row == NewRow(n, role, active, "external", s)
             IN Insert(id, row) /\ Authenticated(b, id, row, TRUE)
  /\ UNCHANGED cookie

\* Mutant of LoggedInNow: the token is made from the row as it is now.
LoggedInReread(b) ==
  /\ req[b].op = "login" /\ req[b].active
  /\ cookie' = [cookie EXCEPT ![b] =
       IF Known(req[b].token.id) THEN [req[b].token EXCEPT !.ver = users[req[b].token.id].ver]
                                 ELSE req[b].token]
  /\ Done(b)
  /\ UNCHANGED <<users, used>>

\* setSessionCookieForUser(), for an account that was active when it was read.
LoggedInNow(b) ==
  /\ req[b].op = "login" /\ req[b].active
  /\ cookie' = [cookie EXCEPT ![b] = req[b].token]
  /\ Done(b)
  /\ UNCHANGED <<users, used>>

-----------------------------------------------------------------------------
\* seedAdminIfNeeded() made the first account.
Init ==
  /\ \E id \in Id, n \in Name :
       /\ used = {id}
       /\ users = [i \in {id} |-> NewRow(n, "admin", TRUE, "local", None)]
  /\ cookie = [b \in Browser |-> None]
  /\ req = [b \in Browser |-> Idle]

Administration(b) ==
  \/ AdminRequest(b) \/ Refused(b)
  \/ \E id \in Id : Delete(b, id) \/ ResetChecked(b, id) \/ Created(b, id)
  \/ \E id \in Id, role \in Role \cup {None}, active \in BOOLEAN \cup {None} :
       Patch(b, id, role, active)
  \/ \E n \in Name, role \in Role : CreateChecked(b, n, role)
  \/ Reset(b)

Sessions(b) ==
  \/ ChangeChecked(b) \/ Changed(b) \/ LoggedInNow(b)
  \/ \E id \in Id : LoginRead(b, id)
  \/ \E s \in Subject, n \in Name : FederatedLogin(b, s, n)

Provisioning == \E b \in Browser : Provision(b)

Next == Provisioning \/ \E b \in Browser : Administration(b) \/ Sessions(b)

Spec == Init /\ [][Next]_vars

-----------------------------------------------------------------------------
(* Properties.                                                              *)

Request ==
  {Idle} \cup [op : {"body"}, by : Id]
         \cup [op : {"create"}, name : Name, role : Role]
         \cup [op : {"reset", "change"}, id : Id]
         \cup [op : {"login"}, token : Token, active : BOOLEAN]

\* The types, and what the unique indexes of the table promise.
TypeOK ==
  /\ used \subseteq Id /\ DOMAIN users \subseteq used
  /\ users \in [DOMAIN users -> Row]
  /\ cookie \in [Browser -> Token \cup {None}]
  /\ req \in [Browser -> Request]
  /\ \A i, j \in DOMAIN users : users[i].name = users[j].name => i = j
  /\ \A i, j \in DOMAIN users :
       users[i].subject = users[j].subject /\ users[i].subject # None => i = j

\* "Impossible : il doit rester au moins un administrateur actif": requests that
\* were authenticated before others took effect cannot, together, remove every
\* active administrator.  Provisioning does not make the check: see AdminRemains.
AdminKept == [][Admins # {} => Admins' # {} \/ Provisioning]_vars

\* "pour invalider les sessions revoquees": a session that was refused once is
\* never accepted again, whatever happens to its account, unless provisioning
\* activates again an account that provisioning had deactivated.
RevokedForGood ==
  [][\A b \in Browser :
       cookie[b] # None /\ cookie'[b] = cookie[b] /\ ~Valid(cookie[b]) =>
         ~Valid(cookie[b])' \/ Provisioning]_vars

\* "Invalide toutes les sessions actives du compte": once an administrator has
\* reset the password of an account, no session obtained with an earlier password
\* is accepted, not even that of a login which was under way at the time.
ResetRevokes ==
  \A b \in Browser :
    LoggedIn(b) /\ ~cookie[b].federated => cookie[b].gen = users[cookie[b].id].gen

\* "Impossible de retrograder / desactiver le dernier admin actif".
AdminRemains == Admins # {}
=============================================================================
