-------------------------- MODULE UserAccountsProofs --------------------------
(***************************************************************************)
(* What UserAccounts promises for any number of accounts, browsers and      *)
(* identities, and any bound on session versions.                           *)
(*                                                                         *)
(* A token is judged by the account it names, which may be gone or changed  *)
(* since.  The invariant Stamped says what a token can still know of it:    *)
(* its version is not from the future, and if it is the current one then no *)
(* password was reset since.                                                *)
(***************************************************************************)
EXTENDS UserAccounts, FiniteSetTheorems, TLAPS

\* What a token knows of the account it names, in a table whose identifiers are ids.
Fresh(t, table, ids) ==
  /\ t.id \in ids
  /\ t.id \in DOMAIN table =>
       /\ t.ver <= table[t.id].ver
       /\ t.ver = table[t.id].ver => t.gen = table[t.id].gen

\* The tokens that exist: in a browser, or about to be given to one.
Stamped ==
  \A b \in Browser :
    /\ cookie[b] # None => Fresh(cookie[b], users, used)
    /\ req[b].op = "login" => Fresh(req[b].token, users, used)

\* The table: identifiers are given out before they have a row.
TableTyped ==
  /\ used \subseteq Id /\ DOMAIN users \subseteq used
  /\ users \in [DOMAIN users -> Row]

UniqueNames == \A i, j \in DOMAIN users : users[i].name = users[j].name => i = j

UniqueSubjects ==
  \A i, j \in DOMAIN users :
    users[i].subject = users[j].subject /\ users[i].subject # None => i = j

TableInv == TableTyped /\ UniqueNames /\ UniqueSubjects

BrowsersTyped ==
  /\ cookie \in [Browser -> Token \cup {None}]
  /\ req \in [Browser -> Request]

AccountInv == TableInv /\ BrowsersTyped /\ Stamped

\* What a step may do to the rows: identifiers are given out once, and a row that
\* stays loses no version; at the same version its password was not reset, and it
\* is active only if it was, or if `reactivates' holds.
Progress(reactivates) ==
  /\ used \subseteq used'
  /\ DOMAIN users' \subseteq DOMAIN users \cup (used' \ used)
  /\ \A id \in DOMAIN users' \cap DOMAIN users :
       /\ users[id].ver <= users'[id].ver
       /\ users[id].ver = users'[id].ver =>
            /\ users[id].gen = users'[id].gen
            /\ users'[id].active => users[id].active \/ reactivates

-----------------------------------------------------------------------------
(* The three ways in which the table changes.                               *)

LEMMA RowFields ==
  ASSUME NEW r \in Row
  PROVE  /\ r.name \in Name /\ r.role \in Role /\ r.active \in BOOLEAN
         /\ r.ver \in 0..MaxVersion /\ r.gen \in Nat
         /\ r.source \in {"local", "external"} /\ r.subject \in Subject \cup {None}
  BY DEF Row

LEMMA InsertRow ==
  ASSUME TableInv, NEW id \in Id \ used, NEW row \in Row,
         Insert(id, row), ~NameTaken(row.name),
         row.subject = None \/ Mine(row.subject) = {},
         NEW reactivates \in BOOLEAN
  PROVE  /\ TableInv'
         /\ Progress(reactivates)
         /\ Admins \subseteq Admins'
<1>1. /\ DOMAIN users' = DOMAIN users \cup {id}
      /\ used' = used \cup {id}
      /\ users'[id] = row
      /\ \A i \in DOMAIN users : i # id /\ users'[i] = users[i]
  BY DEF Insert, TableInv, TableTyped
<1>2. \A i \in DOMAIN users : users[i] \in Row
  BY DEF TableInv, TableTyped
<1>3. TableTyped'
  <2>1. users' = [i \in DOMAIN users' |-> users'[i]]
    BY <1>1 DEF Insert
  <2>2. \A i \in DOMAIN users' : users'[i] \in Row
    BY <1>1, <1>2
  <2> QED  BY <1>1, <2>1, <2>2 DEF TableInv, TableTyped
<1>4. UniqueNames'
  <2>1. \A i \in DOMAIN users : users[i].name # row.name
    BY DEF NameTaken
  <2> QED  BY <1>1, <2>1 DEF TableInv, UniqueNames
<1>5. UniqueSubjects'
  <2>1. row.subject # None => \A i \in DOMAIN users : users[i].subject # row.subject
    BY DEF Mine
  <2> QED  BY <1>1, <2>1 DEF TableInv, UniqueSubjects
<1>6. Progress(reactivates)
  <2>1. \A i \in DOMAIN users : users[i].ver \in Int
    BY <1>2, RowFields, IdAssumption
  <2> QED  BY <1>1, <2>1 DEF Progress
<1>7. Admins \subseteq Admins'
  BY <1>1 DEF Admins
<1> QED  BY <1>3, <1>4, <1>5, <1>6, <1>7 DEF TableInv

LEMMA UpdateRow ==
  ASSUME TableInv, NEW id \in DOMAIN users, NEW row \in Row,
         users' = [users EXCEPT ![id] = row], used' = used,
         row.name = users[id].name,
         row.subject \in {None, users[id].subject} \/ Mine(row.subject) = {},
         users[id].ver <= row.ver,
         NEW reactivates \in BOOLEAN,
         users[id].ver = row.ver =>
           /\ users[id].gen = row.gen
           /\ row.active => users[id].active \/ reactivates
  PROVE  TableInv' /\ Progress(reactivates)
<1>1. /\ DOMAIN users' = DOMAIN users
      /\ users'[id] = row
      /\ \A i \in DOMAIN users : i # id => users'[i] = users[i]
  OBVIOUS
<1>2. \A i \in DOMAIN users : users[i] \in Row
  BY DEF TableInv, TableTyped
<1>3. TableTyped'
  <2>1. users' = [i \in DOMAIN users' |-> users'[i]]
    OBVIOUS
  <2>2. \A i \in DOMAIN users' : users'[i] \in Row
    BY <1>1, <1>2
  <2> QED  BY <1>1, <2>1, <2>2 DEF TableInv, TableTyped
<1>4. UniqueNames'
  <2>1. \A i \in DOMAIN users : users'[i].name = users[i].name
    BY <1>1
  <2> QED  BY <1>1, <2>1 DEF TableInv, UniqueNames
<1>5. UniqueSubjects'
  <2>1. \A i \in DOMAIN users :
          i # id /\ users[i].subject = row.subject => row.subject = None
    BY DEF Mine, TableInv, UniqueSubjects
  <2> QED  BY <1>1, <2>1 DEF TableInv, UniqueSubjects
<1>6. Progress(reactivates)
  <2>1. \A i \in DOMAIN users : users[i].ver \in Int
    BY <1>2, RowFields, IdAssumption
  <2> QED  BY <1>1, <2>1 DEF Progress
<1> QED  BY <1>3, <1>4, <1>5, <1>6 DEF TableInv

LEMMA RemoveRow ==
  ASSUME TableInv, NEW id \in DOMAIN users, NEW reactivates \in BOOLEAN,
         users' = Restrict(users, DOMAIN users \ {id}), used' = used
  PROVE  TableInv' /\ Progress(reactivates)
<1>1. /\ DOMAIN users' = DOMAIN users \ {id}
      /\ \A i \in DOMAIN users' : users'[i] = users[i]
  BY DEF Restrict
<1>2. users' = [i \in DOMAIN users' |-> users'[i]]
  BY DEF Restrict
<1>3. \A i \in DOMAIN users : users[i] \in Row
  BY DEF TableInv, TableTyped
<1>4. \A i \in DOMAIN users : users[i].ver \in Int
  BY <1>3, RowFields, IdAssumption
<1>5. TableTyped'
  BY <1>1, <1>2, <1>3 DEF TableInv, TableTyped
<1>6. UniqueNames' /\ UniqueSubjects'
  BY <1>1 DEF TableInv, UniqueNames, UniqueSubjects
<1> QED  BY <1>1, <1>4, <1>5, <1>6 DEF TableInv, Progress

LEMMA SameRows ==
  ASSUME TableInv, UNCHANGED <<users, used>>, NEW reactivates \in BOOLEAN
  PROVE  TableInv' /\ Progress(reactivates) /\ Admins' = Admins
<1>1. \A i \in DOMAIN users : users[i].ver \in Int
  BY RowFields, IdAssumption DEF TableInv, TableTyped
<1> QED
  BY <1>1 DEF TableInv, TableTyped, UniqueNames, UniqueSubjects, Progress, Admins

-----------------------------------------------------------------------------
(* The table under each action.                                             *)

\* What an administrator or a login does to the table, Provisioning set apart:
\* an active administrator is kept.
TableStep == TableInv' /\ Progress(FALSE) /\ (Admins # {} => Admins' # {})

LEMMA NewRowTyped ==
  ASSUME NEW n \in Name, NEW role \in Role, NEW active \in BOOLEAN,
         NEW source \in {"local", "external"}, NEW s \in Subject \cup {None}
  PROVE  /\ NewRow(n, role, active, source, s) \in Row
         /\ NewRow(n, role, active, source, s).name = n
         /\ NewRow(n, role, active, source, s).subject = s
  BY IdAssumption DEF NewRow, Row

LEMMA RequestFields ==
  ASSUME NEW r \in Request
  PROVE  /\ r.op = "body" => r.by \in Id
         /\ r.op = "create" => r.name \in Name /\ r.role \in Role
         /\ r.op = "reset" => r.id \in Id
         /\ r.op = "change" => r.id \in Id
         /\ r.op = "login" => r.token \in Token /\ r.active \in BOOLEAN
  BY DEF Request, Idle

LEMMA RowsTyped ==
  ASSUME TableInv, NEW id \in DOMAIN users
  PROVE  /\ id \in Id
         /\ users[id] \in Row
         /\ users[id].name \in Name /\ users[id].role \in Role
         /\ users[id].active \in BOOLEAN
         /\ users[id].ver \in 0..MaxVersion /\ users[id].ver \in Int
         /\ users[id].gen \in Nat
         /\ users[id].source \in {"local", "external"}
         /\ users[id].subject \in Subject \cup {None}
  BY RowFields, IdAssumption DEF TableInv, TableTyped

\* The administrators are finitely many; one remains when another is taken away.
LEMMA OtherAdmin ==
  ASSUME TableInv, NEW id \in Admins, Cardinality(Admins) > 1
  PROVE  Admins \ {id} # {}
<1>1. IsFiniteSet(Admins)
  BY IdAssumption, FS_Subset DEF Admins, TableInv, TableTyped
<1>2. /\ IsFiniteSet(Admins \ {id})
      /\ Cardinality(Admins \ {id}) = Cardinality(Admins) - 1
  BY <1>1, FS_RemoveElement
<1>3. Cardinality(Admins) \in Nat
  BY <1>1, FS_CardinalityType
<1> QED  BY <1>2, <1>3, FS_EmptySet

\* A row whose role and state do not change: so the administrators.
LEMMA SameAdmins ==
  ASSUME NEW id \in DOMAIN users, NEW row,
         users' = [users EXCEPT ![id] = row],
         row.role = users[id].role, row.active = users[id].active
  PROVE  Admins' = Admins
<1>1. /\ DOMAIN users' = DOMAIN users
      /\ \A i \in DOMAIN users :
           users'[i].role = users[i].role /\ users'[i].active = users[i].active
  OBVIOUS
<1> QED  BY <1>1 DEF Admins

LEMMA PatchTable ==
  ASSUME TableInv, BrowsersTyped, NEW b \in Browser, NEW id \in Id,
         NEW role \in Role \cup {None}, NEW active \in BOOLEAN \cup {None},
         Patch(b, id, role, active)
  PROVE  TableStep
<1> DEFINE row == Patched(users[id], role, active)
<1>1. /\ id \in DOMAIN users /\ used' = used
      /\ users' = [users EXCEPT ![id] = row]
      /\ users[id].ver < MaxVersion
      /\ LastAdminGuard(id, role, active)
  BY DEF Patch, Known
<1>2. users[id].ver + 1 \in 0..MaxVersion
  BY <1>1, RowsTyped, IdAssumption
<1>3. /\ row.name = users[id].name /\ row.subject = users[id].subject
      /\ row.gen = users[id].gen /\ row.source = users[id].source
      /\ row.role = IF role = None THEN users[id].role ELSE role
      /\ row.active = IF active = None THEN users[id].active ELSE active
      /\ row.ver = IF role = None /\ active = None THEN users[id].ver
                                                   ELSE users[id].ver + 1
  BY <1>1, RowsTyped DEF Patched, Row
<1>4. row \in Row
  <2>1. users[id] \in Row
    BY <1>1, RowsTyped
  <2>2. row.role \in Role /\ row.active \in BOOLEAN /\ row.ver \in 0..MaxVersion
    BY <1>1, <1>2, <1>3, RowsTyped
  <2> QED  BY <1>3, <2>1, <2>2 DEF Row, Patched
<1>5. users[id].ver <= row.ver
  BY <1>1, <1>3, RowsTyped
<1>6. users[id].ver = row.ver =>
        users[id].gen = row.gen /\ (row.active => users[id].active \/ FALSE)
  BY <1>1, <1>3, RowsTyped
<1>7. TableInv' /\ Progress(FALSE)
  <2> HIDE DEF row
  <2> QED  BY <1>1, <1>3, <1>4, <1>5, <1>6, UpdateRow
<1>8. Admins # {} => Admins' # {}
  <2>1. Admins \ {id} \subseteq Admins'
    BY <1>1 DEF Admins
  <2>2. CASE id \notin Admins
    BY <2>1, <2>2
  <2>3. CASE id \in Admins /\ Cardinality(Admins) > 1
    BY <2>1, <2>3, OtherAdmin
  <2>4. CASE id \in Admins /\ role = "admin" /\ active # FALSE
    <3>1. row.role = "admin"
      BY <1>3, <2>4 DEF Admins
    <3>2. row.active
      BY <1>3, <2>4 DEF Admins
    <3>3. users'[id] = row /\ id \in DOMAIN users'
      BY <1>1
    <3> QED  BY <3>1, <3>2, <3>3 DEF Admins
  <2> QED  BY <1>1, <2>2, <2>3, <2>4 DEF LastAdminGuard
<1> QED  BY <1>7, <1>8 DEF TableStep

LEMMA DeleteTable ==
  ASSUME TableInv, NEW b \in Browser, NEW id \in Id, Delete(b, id)
  PROVE  TableStep
<1>1. /\ id \in DOMAIN users /\ used' = used
      /\ users' = Restrict(users, DOMAIN users \ {id})
      /\ id \in Admins => Cardinality(Admins) > 1
  BY DEF Delete, Known
<1>2. TableInv' /\ Progress(FALSE)
  BY <1>1, RemoveRow
<1>3. Admins \ {id} \subseteq Admins'
  BY <1>1 DEF Admins, Restrict
<1> QED  BY <1>1, <1>2, <1>3, OtherAdmin DEF TableStep

LEMMA CreatedTable ==
  ASSUME TableInv, BrowsersTyped, NEW b \in Browser, NEW id \in Id, Created(b, id)
  PROVE  TableStep
<1> DEFINE row == NewRow(req[b].name, req[b].role, TRUE, "local", None)
<1>1. req[b].name \in Name /\ req[b].role \in Role
  BY RequestFields DEF BrowsersTyped, Created
<1>2. row \in Row /\ row.name = req[b].name /\ row.subject = None
  BY <1>1, IdAssumption DEF NewRow, Row
<1>3. id \in Id \ used /\ Insert(id, row) /\ ~NameTaken(row.name)
  BY <1>2 DEF Created
<1> HIDE DEF row
<1> QED  BY <1>2, <1>3, InsertRow DEF TableStep

LEMMA ResetTable ==
  ASSUME TableInv, BrowsersTyped, NEW b \in Browser, Reset(b)
  PROVE  TableStep
<1> DEFINE id == req[b].id
           row == [users[id] EXCEPT !.gen = @ + 1, !.ver = @ + 1,
                                    !.source = "local", !.subject = None]
<1>1. CASE Known(id)
  <2>1. /\ id \in DOMAIN users /\ used' = used
        /\ users' = [users EXCEPT ![id] = row]
        /\ users[id].ver < MaxVersion
    BY <1>1, RowsTyped DEF Reset, Known, Row
  <2>2. users[id].ver + 1 \in 0..MaxVersion /\ users[id].gen + 1 \in Nat
    BY <2>1, RowsTyped, IdAssumption
  <2>3. /\ row.name = users[id].name /\ row.subject = None
        /\ row.role = users[id].role /\ row.active = users[id].active
        /\ row.ver = users[id].ver + 1
    BY <2>1, RowsTyped DEF Row
  <2>4. row \in Row
    BY <2>1, <2>2, RowsTyped DEF Row
  <2>5. users[id].ver <= row.ver /\ users[id].ver # row.ver
    BY <2>1, <2>3, RowsTyped
  <2> HIDE DEF row, id
  <2>6. TableInv' /\ Progress(FALSE)
    BY <2>1, <2>3, <2>4, <2>5, UpdateRow
  <2>7. Admins' = Admins
    BY <2>1, <2>3, SameAdmins
  <2> QED  BY <2>6, <2>7 DEF TableStep
<1>2. CASE ~Known(id)
  BY <1>2, SameRows DEF Reset, TableStep
<1> QED  BY <1>1, <1>2

LEMMA ChangedTable ==
  ASSUME TableInv, BrowsersTyped, NEW b \in Browser, Changed(b)
  PROVE  TableStep
<1> DEFINE id == req[b].id
           row == [users[id] EXCEPT !.source = "local"]
<1>1. CASE Known(id)
  <2>1. /\ id \in DOMAIN users /\ used' = used
        /\ users' = [users EXCEPT ![id] = row]
    BY <1>1 DEF Changed, Known
  <2>2. /\ row.name = users[id].name /\ row.subject = users[id].subject
        /\ row.role = users[id].role /\ row.active = users[id].active
        /\ row.ver = users[id].ver /\ row.gen = users[id].gen
    BY <2>1, RowsTyped DEF Row
  <2>3. row \in Row
    BY <2>1, RowsTyped DEF Row
  <2>4. users[id].ver <= row.ver
    BY <2>1, <2>2, RowsTyped
  <2> HIDE DEF row, id
  <2>5. TableInv' /\ Progress(FALSE)
    BY <2>1, <2>2, <2>3, <2>4, UpdateRow
  <2>6. Admins' = Admins
    BY <2>1, <2>2, SameAdmins
  <2> QED  BY <2>5, <2>6 DEF TableStep
<1>2. CASE ~Known(id)
  BY <1>2, SameRows DEF Changed, TableStep
<1> QED  BY <1>1, <1>2

\* Linking an account to an identity, at a login or by provisioning.
LEMMA LinkTable ==
  ASSUME TableInv, NEW id \in DOMAIN users, NEW s \in Subject, Mine(s) = {},
         users' = [users EXCEPT ![id].source = "external", ![id].subject = s],
         used' = used
  PROVE  TableStep
<1> DEFINE row == [users[id] EXCEPT !.source = "external", !.subject = s]
<1>1. users' = [users EXCEPT ![id] = row]
  OBVIOUS
<1>2. /\ row.name = users[id].name /\ row.subject = s
      /\ row.role = users[id].role /\ row.active = users[id].active
      /\ row.ver = users[id].ver /\ row.gen = users[id].gen
  BY RowsTyped DEF Row
<1>3. row \in Row
  BY RowsTyped DEF Row
<1>4. users[id].ver <= row.ver
  BY <1>2, RowsTyped
<1> HIDE DEF row
<1>5. TableInv' /\ Progress(FALSE)
  BY <1>1, <1>2, <1>3, <1>4, UpdateRow
<1>6. Admins' = Admins
  BY <1>1, <1>2, SameAdmins
<1> QED  BY <1>5, <1>6 DEF TableStep

LEMMA FederatedTable ==
  ASSUME TableInv, NEW b \in Browser, NEW s \in Subject, NEW n \in Name,
         FederatedLogin(b, s, n)
  PROVE  TableStep
<1>1. CASE UNCHANGED <<users, used>>
  BY <1>1, SameRows DEF TableStep
<1>2. CASE /\ Mine(s) = {} /\ UNCHANGED used
           /\ \E id \in Linkable(n) :
                users' = [users EXCEPT ![id].source = "external", ![id].subject = s]
  <2>1. PICK id \in Linkable(n) :
          users' = [users EXCEPT ![id].source = "external", ![id].subject = s]
    BY <1>2
  <2>2. id \in DOMAIN users
    BY DEF Linkable
  <2> QED  BY <1>2, <2>1, <2>2, LinkTable
<1>3. CASE /\ Mine(s) = {} /\ ~NameTaken(n)
           /\ \E id \in Id \ used, role \in Role, active \in BOOLEAN :
                Insert(id, NewRow(n, role, active, "external", s))
  <2>1. PICK id \in Id \ used, role \in Role, active \in BOOLEAN :
          Insert(id, NewRow(n, role, active, "external", s))
    BY <1>3
  <2>2. /\ NewRow(n, role, active, "external", s) \in Row
        /\ NewRow(n, role, active, "external", s).name = n
        /\ NewRow(n, role, active, "external", s).subject = s
    BY IdAssumption DEF NewRow, Row
  <2> QED  BY <1>3, <2>1, <2>2, InsertRow DEF TableStep
<1> QED  BY <1>1, <1>2, <1>3 DEF FederatedLogin

\* Provisioning revokes nothing: it may deactivate and activate, demote and promote.
LEMMA ProvisionTable ==
  ASSUME TableInv, NEW b \in Browser, Provision(b)
  PROVE  TableInv' /\ Progress(TRUE)
<1>1. PICK s \in Subject, n \in Name, role \in Role, active \in BOOLEAN :
        ProvisionOne(s, n, role, active)
  BY DEF Provision
<1>2. CASE \E id \in Mine(s) :
             /\ users' = [users EXCEPT ![id].role = role, ![id].active = active]
             /\ UNCHANGED used
  <2>1. PICK id \in Mine(s) :
          /\ users' = [users EXCEPT ![id].role = role, ![id].active = active]
          /\ UNCHANGED used
    BY <1>2
  <2> DEFINE row == [users[id] EXCEPT !.role = role, !.active = active]
  <2>2. id \in DOMAIN users
    BY DEF Mine
  <2>3. users' = [users EXCEPT ![id] = row]
    BY <2>1, <2>2
  <2>4. /\ row.name = users[id].name /\ row.subject = users[id].subject
        /\ row.ver = users[id].ver /\ row.gen = users[id].gen
        /\ row \in Row
    BY <2>2, RowsTyped DEF Row
  <2>5. users[id].ver <= row.ver
    BY <2>2, <2>4, RowsTyped
  <2> HIDE DEF row
  <2> QED  BY <2>1, <2>2, <2>3, <2>4, <2>5, UpdateRow
<1>3. CASE \E id \in Linkable(n) :
             /\ Mine(s) = {}
             /\ users' = [users EXCEPT ![id].role = role, ![id].active = active,
                                       ![id].source = "external", ![id].subject = s]
             /\ UNCHANGED used
  <2>1. PICK id \in Linkable(n) :
          /\ Mine(s) = {}
          /\ users' = [users EXCEPT ![id].role = role, ![id].active = active,
                                    ![id].source = "external", ![id].subject = s]
          /\ UNCHANGED used
    BY <1>3
  <2> DEFINE row == [users[id] EXCEPT !.role = role, !.active = active,
                                      !.source = "external", !.subject = s]
  <2>2. id \in DOMAIN users
    BY DEF Linkable
  <2>3. users' = [users EXCEPT ![id] = row]
    BY <2>1, <2>2
  <2>4. /\ row.name = users[id].name /\ row.subject = s
        /\ row.ver = users[id].ver /\ row.gen = users[id].gen
        /\ row \in Row
    BY <2>2, RowsTyped DEF Row
  <2>5. users[id].ver <= row.ver
    BY <2>2, <2>4, RowsTyped
  <2> HIDE DEF row
  <2> QED  BY <2>1, <2>2, <2>3, <2>4, <2>5, UpdateRow
<1>4. CASE /\ Mine(s) = {} /\ ~NameTaken(n)
           /\ \E id \in Id \ used : Insert(id, NewRow(n, role, active, "external", s))
  <2>1. PICK id \in Id \ used : Insert(id, NewRow(n, role, active, "external", s))
    BY <1>4
  <2>2. /\ NewRow(n, role, active, "external", s) \in Row
        /\ NewRow(n, role, active, "external", s).name = n
        /\ NewRow(n, role, active, "external", s).subject = s
    BY IdAssumption DEF NewRow, Row
  <2> QED  BY <1>4, <2>1, <2>2, InsertRow
<1> QED  BY <1>1, <1>2, <1>3, <1>4 DEF ProvisionOne

\* Every other step: the table, whatever action it is.
LEMMA NextTable ==
  ASSUME TableInv, BrowsersTyped, [Next]_vars
  PROVE  /\ TableInv' /\ Progress(Provisioning)
         /\ Admins # {} => Admins' # {} \/ Provisioning
<1>0. ASSUME TableStep
      PROVE  /\ TableInv' /\ Progress(Provisioning)
             /\ Admins # {} => Admins' # {} \/ Provisioning
  BY <1>0 DEF TableStep, Progress
<1>1. CASE Provisioning
  <2>1. PICK b \in Browser : Provision(b)
    BY <1>1 DEF Provisioning
  <2>2. TableInv' /\ Progress(TRUE)
    BY <2>1, ProvisionTable
  <2> QED  BY <1>1, <2>2 DEF Progress
<1>2. CASE UNCHANGED <<users, used>>
  BY <1>0, <1>2, SameRows DEF TableStep
<1>3. ASSUME NEW b \in Browser, Administration(b)
      PROVE  UNCHANGED <<users, used>> \/ TableStep
  <2>1. CASE AdminRequest(b) \/ Refused(b)
    BY <2>1 DEF AdminRequest, Refused
  <2>2. CASE \E id \in Id : Delete(b, id) \/ ResetChecked(b, id) \/ Created(b, id)
    BY <2>2, DeleteTable, CreatedTable DEF ResetChecked
  <2>3. CASE \E id \in Id, role \in Role \cup {None}, active \in BOOLEAN \cup {None} :
               Patch(b, id, role, active)
    BY <2>3, PatchTable
  <2>4. CASE \E n \in Name, role \in Role : CreateChecked(b, n, role)
    BY <2>4 DEF CreateChecked
  <2>5. CASE Reset(b)
    BY <2>5, ResetTable
  <2> QED  BY <1>3, <2>1, <2>2, <2>3, <2>4, <2>5 DEF Administration
<1>4. ASSUME NEW b \in Browser, Sessions(b)
      PROVE  UNCHANGED <<users, used>> \/ TableStep
  <2>1. CASE ChangeChecked(b) \/ LoggedInNow(b)
    BY <2>1 DEF ChangeChecked, LoggedInNow
  <2>2. CASE Changed(b)
    BY <2>2, ChangedTable
  <2>3. CASE \E id \in Id : LoginRead(b, id)
    BY <2>3 DEF LoginRead
  <2>4. CASE \E s \in Subject, n \in Name : FederatedLogin(b, s, n)
    BY <2>4, FederatedTable
  <2> QED  BY <1>4, <2>1, <2>2, <2>3, <2>4 DEF Sessions
<1> QED  BY <1>0, <1>1, <1>2, <1>3, <1>4 DEF Next, vars

-----------------------------------------------------------------------------
(* The tokens.                                                              *)

\* A token that was fresh stays so: what it names is gone, or moved on.
LEMMA FreshKept ==
  ASSUME TableInv, TableInv', NEW r, Progress(r),
         NEW t \in Token, Fresh(t, users, used)
  PROVE  Fresh(t, users', used')
<1>1. t.id \in used'
  BY DEF Fresh, Progress
<1>2. ASSUME t.id \in DOMAIN users'
      PROVE  /\ t.ver <= users'[t.id].ver
             /\ t.ver = users'[t.id].ver => t.gen = users'[t.id].gen
  <2>1. t.id \in DOMAIN users
    BY <1>2 DEF Fresh, Progress
  <2>2. /\ t.ver <= users[t.id].ver
        /\ t.ver = users[t.id].ver => t.gen = users[t.id].gen
    BY <2>1 DEF Fresh
  <2>3. /\ users[t.id].ver <= users'[t.id].ver
        /\ users[t.id].ver = users'[t.id].ver => users[t.id].gen = users'[t.id].gen
    BY <1>2, <2>1 DEF Progress
  <2>4. t.ver \in Int /\ users[t.id].ver \in Int
    BY <2>1, RowsTyped, IdAssumption DEF Token
  <2>5. users'[t.id].ver \in Int
    BY <1>2, RowFields, IdAssumption DEF TableInv, TableTyped
  <2> QED  BY <2>2, <2>3, <2>4, <2>5
<1> QED  BY <1>1, <1>2 DEF Fresh

\* What a browser may gain in a step: nothing, the token of its login, or a request
\* whose token, if it is a login, is fresh.
BrowserStep(b) ==
  /\ \/ UNCHANGED cookie
     \/ req[b].op = "login" /\ cookie' = [cookie EXCEPT ![b] = req[b].token]
  /\ \E r \in Request :
       /\ req' = [req EXCEPT ![b] = r]
       /\ r.op = "login" => Fresh(r.token, users', used')

\* The token of an account that has a row, made from this row.
LEMMA TokenMade ==
  ASSUME TableInv, TableInv', NEW id \in DOMAIN users', NEW row \in Row,
         NEW b \in Browser, NEW federated \in BOOLEAN,
         row.ver = users'[id].ver, row.gen = users'[id].gen,
         Authenticated(b, id, row, federated)
  PROVE  \E r \in Request :
           /\ req' = [req EXCEPT ![b] = r]
           /\ r.op = "login" => Fresh(r.token, users', used')
<1> DEFINE t == [id |-> id, ver |-> row.ver, gen |-> row.gen, federated |-> federated]
           r == [op |-> "login", active |-> row.active, token |-> t]
<1>1. id \in Id /\ id \in used'
  BY DEF TableInv, TableTyped
<1>2. t \in Token
  BY <1>1 DEF Token, Row
<1>3. Fresh(t, users', used')
  BY <1>1, RowFields, IdAssumption DEF Fresh
<1>4. r \in Request
  BY <1>2, RowFields DEF Request
<1>5. req' = [req EXCEPT ![b] = r]
  BY DEF Authenticated, Wait
<1>6. r.token = t
  OBVIOUS
<1> HIDE DEF r, t
<1> QED  BY <1>3, <1>4, <1>5, <1>6

LEMMA WaitFor ==
  ASSUME NEW b \in Browser, NEW r \in Request, r.op # "login",
         Wait(b, r), UNCHANGED cookie
  PROVE  BrowserStep(b)
  BY DEF BrowserStep, Wait

LEMMA DoneWith ==
  ASSUME NEW b \in Browser, Done(b),
         \/ UNCHANGED cookie
         \/ req[b].op = "login" /\ cookie' = [cookie EXCEPT ![b] = req[b].token]
  PROVE  BrowserStep(b)
<1>1. Idle \in Request /\ Idle.op # "login"
  BY DEF Idle, Request
<1>2. req' = [req EXCEPT ![b] = Idle]
  BY DEF Done
<1> QED  BY <1>1, <1>2 DEF BrowserStep

LEMMA AdministrationBrowser ==
  ASSUME TableInv, BrowsersTyped, NEW b \in Browser, Administration(b)
  PROVE  UNCHANGED <<cookie, req>> \/ BrowserStep(b)
<1>1. CASE AdminRequest(b)
  <2>1. [op |-> "body", by |-> cookie[b].id] \in Request
    BY <1>1 DEF AdminRequest, IsAdmin, LoggedIn, BrowsersTyped, Token, Request
  <2> QED  BY <1>1, <2>1, WaitFor DEF AdminRequest
<1>2. CASE Refused(b)
  BY <1>2, DoneWith DEF Refused
<1>3. ASSUME NEW id \in Id, ResetChecked(b, id)
      PROVE  BrowserStep(b)
  <2>1. [op |-> "reset", id |-> id] \in Request
    BY DEF Request
  <2> QED  BY <1>3, <2>1, WaitFor DEF ResetChecked
<1>4. ASSUME NEW id \in Id, Created(b, id)
      PROVE  BrowserStep(b)
  BY <1>4, DoneWith DEF Created
<1>5. ASSUME NEW id \in Id, Delete(b, id)
      PROVE  UNCHANGED <<cookie, req>>
  BY <1>5 DEF Delete
<1>6. ASSUME NEW id \in Id, NEW role \in Role \cup {None},
             NEW active \in BOOLEAN \cup {None}, Patch(b, id, role, active)
      PROVE  BrowserStep(b)
  BY <1>6, DoneWith DEF Patch
<1>7. ASSUME NEW n \in Name, NEW role \in Role, CreateChecked(b, n, role)
      PROVE  BrowserStep(b)
  <2>1. [op |-> "create", name |-> n, role |-> role] \in Request
    BY DEF Request
  <2> QED  BY <1>7, <2>1, WaitFor DEF CreateChecked
<1>8. CASE Reset(b)
  BY <1>8, DoneWith DEF Reset
<1> QED  BY <1>1, <1>2, <1>3, <1>4, <1>5, <1>6, <1>7, <1>8 DEF Administration

LEMMA FederatedBrowser ==
  ASSUME TableInv, TableInv', NEW b \in Browser, NEW s \in Subject, NEW n \in Name,
         FederatedLogin(b, s, n)
  PROVE  BrowserStep(b)
<1>0. UNCHANGED cookie
  BY DEF FederatedLogin
<1>1. CASE \E id \in Mine(s) :
             UNCHANGED <<users, used>> /\ Authenticated(b, id, users[id], TRUE)
  <2>1. PICK id \in Mine(s) :
          UNCHANGED <<users, used>> /\ Authenticated(b, id, users[id], TRUE)
    BY <1>1
  <2>2. id \in DOMAIN users' /\ users[id] \in Row /\ users'[id] = users[id]
    BY <2>1, RowsTyped DEF Mine
  <2> QED  BY <1>0, <2>1, <2>2, TokenMade DEF BrowserStep
<1>2. CASE \E id \in Linkable(n) :
             /\ users' = [users EXCEPT ![id].source = "external", ![id].subject = s]
             /\ Authenticated(b, id, users[id], TRUE)
  <2>1. PICK id \in Linkable(n) :
             /\ users' = [users EXCEPT ![id].source = "external", ![id].subject = s]
             /\ Authenticated(b, id, users[id], TRUE)
    BY <1>2
  <2>2. id \in DOMAIN users' /\ users[id] \in Row
    BY <2>1, RowsTyped DEF Linkable
  <2>3. users'[id].ver = users[id].ver /\ users'[id].gen = users[id].gen
    BY <2>1, <2>2 DEF Linkable, Row
  <2> QED  BY <1>0, <2>1, <2>2, <2>3, TokenMade DEF BrowserStep
<1>3. CASE \E id \in Id \ used, role \in Role, active \in BOOLEAN :
             LET row == NewRow(n, role, active, "external", s)
             IN Insert(id, row) /\ Authenticated(b, id, row, TRUE)
  <2>1. PICK id \in Id \ used, role \in Role, active \in BOOLEAN :
             LET row == NewRow(n, role, active, "external", s)
             IN Insert(id, row) /\ Authenticated(b, id, row, TRUE)
    BY <1>3
  <2> DEFINE row == NewRow(n, role, active, "external", s)
  <2>2. row \in Row
    BY IdAssumption DEF NewRow, Row
  <2>3. Insert(id, row) /\ Authenticated(b, id, row, TRUE)
    BY <2>1
  <2> HIDE DEF row
  <2>4. id \in DOMAIN users' /\ users'[id] = row
    BY <2>3 DEF Insert
  <2> QED  BY <1>0, <2>2, <2>3, <2>4, TokenMade DEF BrowserStep
<1> QED  BY <1>1, <1>2, <1>3 DEF FederatedLogin

LEMMA SessionsBrowser ==
  ASSUME TableInv, TableInv', BrowsersTyped, NEW b \in Browser, Sessions(b)
  PROVE  BrowserStep(b)
<1>1. CASE ChangeChecked(b)
  <2>1. [op |-> "change", id |-> cookie[b].id] \in Request
    BY <1>1 DEF ChangeChecked, LoggedIn, BrowsersTyped, Token, Request
  <2> QED  BY <1>1, <2>1, WaitFor DEF ChangeChecked
<1>2. CASE Changed(b)
  BY <1>2, DoneWith DEF Changed
<1>3. CASE LoggedInNow(b)
  BY <1>3, DoneWith DEF LoggedInNow
<1>4. ASSUME NEW id \in Id, LoginRead(b, id)
      PROVE  BrowserStep(b)
  <2>1. /\ id \in DOMAIN users' /\ users[id] \in Row /\ users'[id] = users[id]
        /\ Authenticated(b, id, users[id], FALSE) /\ UNCHANGED cookie
    BY <1>4, RowsTyped DEF LoginRead, Known
  <2> QED  BY <2>1, TokenMade DEF BrowserStep
<1>5. ASSUME NEW s \in Subject, NEW n \in Name, FederatedLogin(b, s, n)
      PROVE  BrowserStep(b)
  BY <1>5, FederatedBrowser
<1> QED  BY <1>1, <1>2, <1>3, <1>4, <1>5 DEF Sessions

\* A step of a browser gives no stale token to anybody.
LEMMA BrowserKept ==
  ASSUME AccountInv, TableInv', NEW r, Progress(r), NEW b \in Browser, BrowserStep(b)
  PROVE  BrowsersTyped' /\ Stamped'
<1>1. PICK q \in Request :
        req' = [req EXCEPT ![b] = q] /\ (q.op = "login" => Fresh(q.token, users', used'))
  BY DEF BrowserStep
<1>2. req[b].op = "login" => req[b].token \in Token /\ Fresh(req[b].token, users, used)
  BY RequestFields DEF AccountInv, BrowsersTyped, Stamped
<1>3. BrowsersTyped'
  BY <1>1, <1>2 DEF AccountInv, BrowsersTyped, BrowserStep
<1>4. ASSUME NEW c \in Browser, cookie'[c] # None
      PROVE  Fresh(cookie'[c], users', used')
  <2>1. CASE cookie'[c] = cookie[c]
    <3>1. cookie[c] \in Token /\ Fresh(cookie[c], users, used)
      BY <1>4, <2>1 DEF AccountInv, BrowsersTyped, Stamped
    <3>2. Fresh(cookie[c], users', used')
      BY <3>1, FreshKept DEF AccountInv
    <3> QED  BY <2>1, <3>2
  <2>2. CASE req[b].op = "login" /\ cookie'[c] = req[b].token
    BY <1>2, <2>2, FreshKept DEF AccountInv, Known
  <2> QED  BY <2>1, <2>2 DEF BrowserStep, AccountInv, BrowsersTyped
<1>5. ASSUME NEW c \in Browser, req'[c].op = "login"
      PROVE  Fresh(req'[c].token, users', used')
  <2>1. CASE c = b
    BY <1>1, <1>5, <2>1 DEF AccountInv, BrowsersTyped, Known
  <2>2. CASE c # b
    <3>1. req'[c] = req[c]
      BY <1>1, <2>2 DEF AccountInv, BrowsersTyped
    <3>2. req[c].token \in Token /\ Fresh(req[c].token, users, used)
      BY <1>5, <3>1, RequestFields DEF AccountInv, BrowsersTyped, Stamped
    <3> QED  BY <3>1, <3>2, FreshKept DEF AccountInv, Known
  <2> QED  BY <2>1, <2>2
<1> QED  BY <1>3, <1>4, <1>5 DEF Stamped

-----------------------------------------------------------------------------
(* The invariant, and what follows from it.                                 *)

LEMMA AccountInit == Init => AccountInv
<1> SUFFICES ASSUME Init PROVE AccountInv
  OBVIOUS
<1>1. PICK id \in Id, n \in Name :
        used = {id} /\ users = [i \in {id} |-> NewRow(n, "admin", TRUE, "local", None)]
  BY DEF Init
<1>2. NewRow(n, "admin", TRUE, "local", None) \in Row
  BY IdAssumption DEF NewRow, Row, Role
<1>3. TableInv
  BY <1>1, <1>2 DEF TableInv, TableTyped, UniqueNames, UniqueSubjects
<1>4. BrowsersTyped /\ Stamped
  BY DEF Init, BrowsersTyped, Stamped, Request, Idle
<1> QED  BY <1>3, <1>4 DEF AccountInv

LEMMA AccountNext == AccountInv /\ [Next]_vars => AccountInv'
<1> SUFFICES ASSUME AccountInv, [Next]_vars PROVE AccountInv'
  OBVIOUS
<1>1. TableInv' /\ Progress(Provisioning)
  BY NextTable DEF AccountInv
<1>2. CASE UNCHANGED <<cookie, req>>
  <2>1. BrowsersTyped'
    BY <1>2 DEF AccountInv, BrowsersTyped
  <2>2. ASSUME NEW b \in Browser
        PROVE  /\ cookie[b] # None => Fresh(cookie[b], users', used')
               /\ req[b].op = "login" => Fresh(req[b].token, users', used')
    <3>1. /\ cookie[b] # None => cookie[b] \in Token /\ Fresh(cookie[b], users, used)
          /\ req[b].op = "login" =>
               req[b].token \in Token /\ Fresh(req[b].token, users, used)
      BY RequestFields DEF AccountInv, BrowsersTyped, Stamped
    <3> QED  BY <1>1, <3>1, FreshKept DEF AccountInv
  <2> QED  BY <1>1, <1>2, <2>1, <2>2 DEF AccountInv, Stamped
<1>3. ASSUME NEW b \in Browser, BrowserStep(b)
      PROVE  AccountInv'
  BY <1>1, <1>3, BrowserKept DEF AccountInv
<1>4. ASSUME NEW b \in Browser, Provision(b)
      PROVE  BrowserStep(b)
  BY <1>4, DoneWith DEF Provision
<1>5. UNCHANGED <<cookie, req>> \/ \E b \in Browser : BrowserStep(b)
  BY <1>1, <1>4, AdministrationBrowser, SessionsBrowser
     DEF AccountInv, Next, vars, Provisioning
<1> QED  BY <1>2, <1>3, <1>5

THEOREM AccountInvariance == Spec => []AccountInv
  BY AccountInit, AccountNext, PTL DEF Spec

\* The types, and the unique names and identities of the table, which the handlers
\* check before they wait: they hold however requests interleave.
THEOREM TypeCorrect == Spec => []TypeOK
<1>1. AccountInv => TypeOK
  BY DEF AccountInv, TableInv, TableTyped, UniqueNames, UniqueSubjects, BrowsersTyped, TypeOK
<1> QED  BY <1>1, AccountInvariance, PTL

\* "Invalide toutes les sessions actives du compte" (reset-password.post.ts): a
\* session that is accepted was obtained after the last reset.
THEOREM ResetEndsSessions == Spec => []ResetRevokes
<1>1. AccountInv => ResetRevokes
  BY DEF AccountInv, Stamped, ResetRevokes, LoggedIn, Valid, Known, Fresh
<1> QED  BY <1>1, AccountInvariance, PTL

\* The guards of [id].patch.ts and [id].delete.ts, together, keep an active
\* administrator: nothing but provisioning removes the last one.
THEOREM AdministratorKept == Spec => AdminKept
<1>1. AccountInv /\ [Next]_vars => [Admins # {} => Admins' # {} \/ Provisioning]_vars
  BY NextTable DEF AccountInv
<1> QED  BY <1>1, AccountInvariance, PTL DEF Spec, AdminKept

\* "Impossible de retrograder / desactiver le dernier admin actif" holds of every
\* request but provisionLdapUsers(): as long as no identity is imported, somebody
\* can administer, whatever requests overlap.
THEOREM AdministratorRemains == Spec /\ [][~Provisioning]_vars => []AdminRemains
<1>1. Init => AdminRemains
  BY DEF Init, NewRow, Admins, AdminRemains
<1>2. AccountInv /\ AdminRemains /\ [Next]_vars /\ [~Provisioning]_vars => AdminRemains'
  <2>1. ASSUME UNCHANGED vars, AdminRemains PROVE AdminRemains'
    BY <2>1 DEF vars, AdminRemains, Admins
  <2> QED BY <2>1, NextTable DEF AccountInv, AdminRemains
<1> QED  BY <1>1, <1>2, AccountInvariance, PTL DEF Spec

\* A session that was refused is never accepted again, provisioning set apart.
LEMMA StaysInvalid ==
  ASSUME TableInv, TableInv', NEW r, Progress(r), NEW t \in Token,
         Fresh(t, users, used), ~Valid(t),
         t.id \in DOMAIN users', users'[t.id].active, users'[t.id].ver = t.ver
  PROVE  r
<1>1. t.id \in DOMAIN users
  BY DEF Fresh, Progress
<1>2. /\ t.ver <= users[t.id].ver /\ users[t.id].ver <= users'[t.id].ver
      /\ t.ver \in Int /\ users[t.id].ver \in Int
  BY <1>1, RowsTyped, IdAssumption DEF Fresh, Progress, Token
<1>3. users[t.id].ver = t.ver
  BY <1>2
<1>4. ~users[t.id].active
  BY <1>1, <1>3 DEF Valid, Known
<1> QED  BY <1>1, <1>3, <1>4 DEF Progress

THEOREM RevocationLasts == Spec => RevokedForGood
<1> DEFINE Lasts ==
      \A b \in Browser :
        cookie[b] # None /\ cookie'[b] = cookie[b] /\ ~Valid(cookie[b]) =>
          ~Valid(cookie[b])' \/ Provisioning
<1>1. AccountInv /\ [Next]_vars => Lasts
  <2> SUFFICES ASSUME AccountInv, [Next]_vars, NEW b \in Browser,
                      cookie[b] # None, cookie'[b] = cookie[b], ~Valid(cookie[b]),
                      Valid(cookie[b])'
               PROVE  Provisioning
    OBVIOUS
  <2> DEFINE t == cookie[b]
  <2>1. t \in Token /\ Fresh(t, users, used)
    BY DEF AccountInv, BrowsersTyped, Stamped
  <2>2. t.id \in DOMAIN users' /\ users'[t.id].active /\ users'[t.id].ver = t.ver
    BY DEF Valid, Known
  <2>3. TableInv /\ TableInv' /\ Progress(Provisioning)
    BY NextTable DEF AccountInv
  <2> HIDE DEF t
  <2>4. ~Valid(t)
    BY DEF t
  <2> QED  BY <2>1, <2>2, <2>3, <2>4, StaysInvalid
<1>2. AccountInv /\ [Next]_vars => [Lasts]_vars
  BY <1>1
<1> QED  BY <1>2, AccountInvariance, PTL DEF Spec, RevokedForGood
=============================================================================
