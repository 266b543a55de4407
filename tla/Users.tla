-------------------------------- MODULE Users --------------------------------
(***************************************************************************)
(* Users and login: internal/routes/users.go and auth.go over the Mongo    *)
(* collection "users", which has no unique index.  createUser looks the    *)
(* email up and inserts with two separate calls; every other handler makes *)
(* one.  Names and phones decide nothing and are left out; a password is   *)
(* what bcrypt accepts for the stored hash.                                *)
(***************************************************************************)
EXTENDS Naturals, FiniteSets

CONSTANTS
  Id,           \* object ids the database can hand out
  Email,
  Password,
  Role,         \* roles a client may send
  Unset,        \* absent user, field not sent
  Req,          \* slots for concurrent requests
  Faults,       \* Mongo calls may fail
  EmailEdits    \* clients send "email" to PUT /api/users/:id

User == [email : Email, password : Password, role : Role \cup {"user"}, isActive : BOOLEAN]
Token == [user_id : Id, email : Email, role : Role \cup {"user"}, given : Password]

ASSUME UsersAssumption ==
  /\ Unset \notin Email \cup Password \cup Role \cup {"user"} \cup User
  /\ Faults \in BOOLEAN
  /\ EmailEdits \in BOOLEAN

VARIABLES
  users,    \* Id -> the stored document, or Unset
  pending,  \* Req -> the user createUser is about to insert, or Unset
  tokens    \* claims of the tokens login signed, with the password it was given

vars == <<users, pending, tokens>>

Init ==
  /\ users = [i \in Id |-> Unset]
  /\ pending = [r \in Req |-> Unset]
  /\ tokens = {}

Stored == {i \in Id : users[i] # Unset}
WithEmail(e) == {i \in Stored : users[i].email = e}

-----------------------------------------------------------------------------
(***************************************************************************)
(* POST /api/users                                                         *)
(***************************************************************************)
DefaultRole(g) == IF g = Unset THEN "user" ELSE g

\* The handler answers 409 only if FindOne succeeds: an error of the call is
\* taken for a free email.
CreateCheck(r, e, p, g) ==
  /\ pending[r] = Unset
  /\ WithEmail(e) = {} \/ Faults
  /\ pending' = [pending EXCEPT ![r] =
       [email |-> e, password |-> p, role |-> DefaultRole(g), isActive |-> TRUE]]
  /\ UNCHANGED <<users, tokens>>

\* Mutant: the id may be taken.
CreateInsertOver(r, i) ==
  /\ pending[r] # Unset
  /\ users' = [users EXCEPT ![i] = pending[r]]
  /\ pending' = [pending EXCEPT ![r] = Unset]
  /\ UNCHANGED tokens

CreateInsert(r, i) ==
  /\ pending[r] # Unset
  /\ users[i] = Unset
  /\ users' = [users EXCEPT ![i] = pending[r]]
  /\ pending' = [pending EXCEPT ![r] = Unset]
  /\ UNCHANGED tokens

CreateError(r) ==
  /\ Faults
  /\ pending[r] # Unset
  /\ pending' = [pending EXCEPT ![r] = Unset]
  /\ UNCHANGED <<users, tokens>>

-----------------------------------------------------------------------------
(***************************************************************************)
(* PUT /api/users/:id: the fields that are sent are set.                   *)
(***************************************************************************)
Sent(new, old) == IF new = Unset THEN old ELSE new

Update(i, e, g, a) ==
  /\ users[i] # Unset
  /\ <<e, g, a>> # <<Unset, Unset, Unset>>
  /\ users' = [users EXCEPT ![i] =
       [users[i] EXCEPT !.email = Sent(e, @), !.role = Sent(g, @), !.isActive = Sent(a, @)]]
  /\ UNCHANGED <<pending, tokens>>

-----------------------------------------------------------------------------
(***************************************************************************)
(* POST /api/auth/login: FindOne by email returns one of the documents     *)
(* that have it; isActive is not looked at.                                *)
(***************************************************************************)
\* Mutant: the password is checked against any user with the email.
LoginAny(e, p, i) ==
  /\ i \in WithEmail(e)
  /\ \E j \in WithEmail(e) : users[j].password = p
  /\ tokens' = tokens \cup {[user_id |-> i, email |-> e, role |-> users[i].role, given |-> p]}
  /\ UNCHANGED <<users, pending>>

\* Mutant: the claims name the default role.
LoginDefaultRole(e, p, i) ==
  /\ i \in WithEmail(e)
  /\ users[i].password = p
  /\ tokens' = tokens \cup {[user_id |-> i, email |-> e, role |-> Unset, given |-> p]}
  /\ UNCHANGED <<users, pending>>

Login(e, p, i) ==
  /\ i \in WithEmail(e)
  /\ users[i].password = p
  /\ tokens' = tokens \cup {[user_id |-> i, email |-> e, role |-> users[i].role, given |-> p]}
  /\ UNCHANGED <<users, pending>>

Next ==
  \/ \E r \in Req : \/ \E e \in Email, p \in Password, g \in Role \cup {Unset} :
                         CreateCheck(r, e, p, g)
                    \/ \E i \in Id : CreateInsert(r, i)
                    \/ CreateError(r)
  \/ \E i \in Id : \/ \E e \in (IF EmailEdits THEN Email ELSE {}) \cup {Unset},
                         g \in Role \cup {Unset}, a \in BOOLEAN \cup {Unset} :
                         Update(i, e, g, a)
                   \/ \E e \in Email, p \in Password : Login(e, p, i)

Spec == Init /\ [][Next]_vars

-----------------------------------------------------------------------------
(***************************************************************************)
(* Properties.                                                             *)
(***************************************************************************)
TypeOK ==
  /\ users \in [Id -> User \cup {Unset}]
  /\ pending \in [Req -> User \cup {Unset}]
  /\ tokens \subseteq Token

\* users.go:52, "check if user already exists": two users never share an email.
\* It takes one request at a time, reads that do not fail and no edited email.
EmailUnique == \A e \in Email : Cardinality(WithEmail(e)) <= 1

\* Even among users that share an email, a token names a user whose password
\* was given.
TokenIsOwners ==
  \A t \in tokens : users[t.user_id] # Unset /\ users[t.user_id].password = t.given

\* A stored user keeps its id and its password: no request replaces one user
\* by another.
UserStays ==
  [][\A i \in Stored : users'[i] # Unset /\ users'[i].password = users[i].password]_vars
=============================================================================
