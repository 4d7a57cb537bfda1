--------------------------- MODULE Administrators ---------------------------
(***************************************************************************)
(* The accounts of the staff as administrators create and change them      *)
(* (api/v1/users.py, core/deps.py), as transactions of concurrent threads. *)
(* The account an administrator switches off is the concern of Sessions;   *)
(* here, who is an administrator at all.                                   *)
(***************************************************************************)
EXTENDS Naturals

CONSTANTS
  Addresses,  \* emails of accounts
  MaxUsers,   \* bound: accounts ever created
  Tabs,       \* the threads serving requests
  Absent      \* no account; no open transaction

Users == 1..MaxUsers
Roles == {"admin", "hr", "employee"}
StaffRows == [email : Addresses, role : Roles, active : BOOLEAN]

ASSUME AdministratorBounds ==
  MaxUsers \in Nat \ {0} /\ Addresses # {} /\ Absent \notin StaffRows

VARIABLES
  staff,  \* account -> row or Absent
  tab     \* thread -> its open transaction or Absent

admVars == <<staff, tab>>

Known == {u \in Users : staff[u] # Absent}
Acting == {u \in Known : staff[u].active /\ staff[u].role = "admin"}  \* require_roles

\* create_default_admin of the seed.
AdmInit ==
  /\ \E email \in Addresses :
       staff = [u \in Users |-> IF u = 1 THEN [email |-> email, role |-> "admin", active |-> TRUE]
                                ELSE Absent]
  /\ tab = [t \in Tabs |-> Absent]

\* Mutant: an administrator may do to himself what he may do to others.
OwnAccountAny(actor, u, role, active) == FALSE

\* Guard against an admin locking themselves out of their own account.
OwnAccount(actor, u, role, active) == u = actor /\ (role # "admin" \/ ~ active)

\* POST /users: the email is looked up.
BeginCreateUser(t, actor, email, role) ==
  /\ tab[t] = Absent /\ actor \in Acting
  /\ \A u \in Known : staff[u].email # email
  /\ role # "employee"
  /\ tab' = [tab EXCEPT ![t] = [op |-> "create", actor |-> actor,
                                new |-> [email |-> email, role |-> role, active |-> TRUE]]]
  /\ UNCHANGED staff

\* PATCH /users/{id}: the columns named in the request, the others as read.
BeginUpdateUser(t, actor, u, role, active) ==
  /\ tab[t] = Absent /\ actor \in Acting /\ u \in Known
  /\ ~ OwnAccount(actor, u, role, active)
  /\ tab' = [tab EXCEPT ![t] = [op |-> "update", actor |-> actor, of |-> u, read |-> staff[u],
                                new |-> [staff[u] EXCEPT !.role = role, !.active = active]]]
  /\ UNCHANGED staff

\* Mutant: users.email is not unique.
EmailTakenNever(email) == FALSE

\* users.email is unique.
EmailTaken(email) == \E u \in Known : staff[u].email = email

CommitCreateUser(t) ==
  /\ tab[t] # Absent /\ tab[t].op = "create"
  /\ ~ EmailTaken(tab[t].new.email)
  /\ \E u \in Users \ Known :
       /\ 1..(u - 1) \subseteq Known
       /\ staff' = [staff EXCEPT ![u] = tab[t].new]
  /\ tab' = [tab EXCEPT ![t] = Absent]

CommitUpdateUser(t) ==
  /\ tab[t] # Absent /\ tab[t].op = "update"
  /\ LET row == staff[tab[t].of]
     IN  staff' = [staff EXCEPT ![tab[t].of] =
                     [c \in DOMAIN row |->
                        IF tab[t].new[c] # tab[t].read[c] THEN tab[t].new[c] ELSE row[c]]]
  /\ tab' = [tab EXCEPT ![t] = Absent]

\* A refused constraint, an error or a crash before the commit.
UndoUser(t) ==
  tab[t] # Absent /\ tab' = [tab EXCEPT ![t] = Absent] /\ UNCHANGED staff

AdmNext ==
  \/ \E t \in Tabs, a \in Users, email \in Addresses, role \in Roles :
       BeginCreateUser(t, a, email, role)
  \/ \E t \in Tabs, a, u \in Users, role \in Roles, on \in BOOLEAN :
       BeginUpdateUser(t, a, u, role, on)
  \/ \E t \in Tabs : CommitCreateUser(t)
  \/ \E t \in Tabs : CommitUpdateUser(t)
  \/ \E t \in Tabs : UndoUser(t)

AdmSpec == AdmInit /\ [][AdmNext]_admVars

-----------------------------------------------------------------------------
\* Type invariant; and no two accounts have one email, however creations race.
AdmTypeOK ==
  /\ staff \in [Users -> StaffRows \cup {Absent}]
  /\ \A u, v \in Known : staff[u].email = staff[v].email => u = v

\* No administrator locks himself out ("Guard against an admin locking
\* themselves out", users.py:305), so the last one is only ever taken away by
\* somebody who was an administrator when his request began and, by an update
\* that ran at the same time, is one no longer.
LastAdministratorStays ==
  [][Acting # {} /\ Acting' = {} =>
       \E t \in Tabs : /\ tab[t] # Absent /\ tab'[t] = Absent
                       /\ tab[t].actor \notin Acting]_admVars
=============================================================================
