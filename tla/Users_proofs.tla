---------------------------- MODULE Users_proofs -----------------------------
(***************************************************************************)
(* Proofs about users and login, for any number of users and requests and  *)
(* any emails, passwords and roles, with or without failing calls.         *)
(***************************************************************************)
EXTENDS Users, TLAPS

-----------------------------------------------------------------------------
(***************************************************************************)
(* Types.                                                                  *)
(***************************************************************************)
\* A stored document is a user, never the mark of an absent one: the mark is not
\* a record that a client can have sent.
LEMMA StoredIsUser ==
  ASSUME TypeOK, NEW i \in Stored
  PROVE  users[i] \in User
BY DEF TypeOK, Stored

\* The collection is empty and no request is under way.
LEMMA InitTypeOK == Init => TypeOK
BY DEF Init, TypeOK

\* The inserted document is what createUser has built from the request.
LEMMA CreateTypeOK ==
  ASSUME TypeOK, NEW r \in Req,
         \/ \E e \in Email, p \in Password, g \in Role \cup {Unset} : CreateCheck(r, e, p, g)
         \/ \E i \in Id : CreateInsert(r, i)
         \/ CreateError(r)
  PROVE  TypeOK'
<1>1. ASSUME NEW e \in Email, NEW p \in Password, NEW g \in Role \cup {Unset},
             CreateCheck(r, e, p, g)
      PROVE  TypeOK'
  <2> DEFINE u == [email |-> e, password |-> p, role |-> DefaultRole(g), isActive |-> TRUE]
  <2>1. DefaultRole(g) \in Role \cup {"user"}
    BY DEF DefaultRole
  <2>2. u \in User
    BY <2>1 DEF User
  <2> QED
    BY <1>1, <2>2 DEF CreateCheck, TypeOK
<1>2. ASSUME NEW i \in Id, CreateInsert(r, i) PROVE TypeOK'
  BY <1>2 DEF CreateInsert, TypeOK
<1>3. CASE CreateError(r)
  BY <1>3 DEF CreateError, TypeOK
<1> QED
  BY <1>1, <1>2, <1>3

\* An update keeps every field a user has.
LEMMA UpdateTypeOK ==
  ASSUME TypeOK, NEW i \in Id, NEW e \in Email \cup {Unset},
         NEW g \in Role \cup {Unset}, NEW a \in BOOLEAN \cup {Unset}, Update(i, e, g, a)
  PROVE  /\ TypeOK'
         /\ users'[i] \in User
         /\ users'[i].password = users[i].password
         /\ \A j \in Id \ {i} : users'[j] = users[j]
<1> DEFINE u == [users[i] EXCEPT !.email = Sent(e, @), !.role = Sent(g, @), !.isActive = Sent(a, @)]
<1>1. users[i] \in User
  BY DEF Update, TypeOK
<1>2. /\ Sent(e, users[i].email) \in Email
      /\ Sent(g, users[i].role) \in Role \cup {"user"}
      /\ Sent(a, users[i].isActive) \in BOOLEAN
  BY <1>1 DEF Sent, User
<1>3. u \in User /\ u.password = users[i].password
  BY <1>1, <1>2 DEF User
<1>4. users' = [users EXCEPT ![i] = u] /\ UNCHANGED <<pending, tokens>>
  BY DEF Update
<1> HIDE DEF u
<1> QED
  BY <1>3, <1>4 DEF TypeOK

\* A token's claims are those of the document that was found.
LEMMA LoginTypeOK ==
  ASSUME TypeOK, NEW i \in Id, NEW e \in Email, NEW p \in Password, Login(e, p, i)
  PROVE  TypeOK'
<1>1. i \in Stored
  BY DEF Login, WithEmail
<1>2. users[i] \in User
  BY <1>1, StoredIsUser
<1>3. [user_id |-> i, email |-> e, role |-> users[i].role, given |-> p] \in Token
  BY <1>2 DEF Token, User
<1> QED
  BY <1>3 DEF Login, TypeOK

\* A step of anyone, or none.
LEMMA StepTypeOK == TypeOK /\ [Next]_vars => TypeOK'
<1> SUFFICES ASSUME TypeOK, [Next]_vars PROVE TypeOK'
  OBVIOUS
<1>1. ASSUME NEW i \in Id, NEW e \in (IF EmailEdits THEN Email ELSE {}) \cup {Unset},
             NEW g \in Role \cup {Unset}, NEW a \in BOOLEAN \cup {Unset}, Update(i, e, g, a)
      PROVE  TypeOK'
  BY <1>1, UpdateTypeOK
<1>2. CASE UNCHANGED vars
  BY <1>2 DEF vars, TypeOK
<1> QED
  BY <1>1, <1>2, CreateTypeOK, LoginTypeOK DEF Next

\* Every document and every token has its type.
THEOREM TypeCorrect == Spec => []TypeOK
<1> QED
  BY InitTypeOK, StepTypeOK, PTL DEF Spec

-----------------------------------------------------------------------------
(***************************************************************************)
(* Identity.                                                               *)
(***************************************************************************)
\* What a step does to a stored user: it stays, with its password.
LEMMA StepKeepsUsers ==
  ASSUME TypeOK, [Next]_vars, NEW i \in Stored
  PROVE  users'[i] # Unset /\ users'[i].password = users[i].password
<1>1. i \in Id /\ users[i] # Unset
  BY DEF Stored
<1>2. ASSUME NEW r \in Req, NEW j \in Id, CreateInsert(r, j)
      PROVE  users'[i] = users[i]
  BY <1>1, <1>2 DEF CreateInsert, TypeOK
<1>3. ASSUME NEW j \in Id, NEW e \in Email \cup {Unset}, NEW g \in Role \cup {Unset},
             NEW a \in BOOLEAN \cup {Unset}, Update(j, e, g, a)
      PROVE  users'[i] # Unset /\ users'[i].password = users[i].password
  BY <1>1, <1>3, UpdateTypeOK, UsersAssumption
<1>4. ASSUME UNCHANGED users
      PROVE  users'[i] # Unset /\ users'[i].password = users[i].password
  BY <1>1, <1>4
<1>5. ASSUME NEW j \in Id, NEW e \in (IF EmailEdits THEN Email ELSE {}) \cup {Unset},
             NEW g \in Role \cup {Unset}, NEW a \in BOOLEAN \cup {Unset}, Update(j, e, g, a)
      PROVE  users'[i] # Unset /\ users'[i].password = users[i].password
  BY <1>3, <1>5
<1> QED
  BY <1>1, <1>2, <1>4, <1>5 DEF Next, vars, CreateCheck, CreateError, Login

\* A stored user is never replaced by another: only createUser stores a
\* document, and only under an id nobody has.
THEOREM UsersStay == Spec => UserStays
<1>1. TypeOK /\ [Next]_vars =>
        [\A i \in Stored : users'[i] # Unset /\ users'[i].password = users[i].password]_vars
  BY StepKeepsUsers
<1> QED
  BY <1>1, TypeCorrect, PTL DEF Spec, UserStays

\* A step keeps the tokens their owners', and login adds the token of the user
\* whose hash it compared the password with.
LEMMA StepKeepsTokens == TypeOK /\ TokenIsOwners /\ [Next]_vars => TokenIsOwners'
<1> SUFFICES ASSUME TypeOK, TokenIsOwners, [Next]_vars PROVE TokenIsOwners'
  OBVIOUS
<1>1. \A t \in tokens : t.user_id \in Stored
  BY DEF TokenIsOwners, TypeOK, Token, Stored
<1>2. \A t \in tokens : users'[t.user_id] # Unset /\ users'[t.user_id].password = t.given
  BY <1>1, StepKeepsUsers DEF TokenIsOwners
<1>3. CASE UNCHANGED tokens
  BY <1>2, <1>3 DEF TokenIsOwners
<1>4. ASSUME NEW i \in Id, NEW e \in Email, NEW p \in Password, Login(e, p, i)
      PROVE  TokenIsOwners'
  <2>1. users[i] # Unset /\ users[i].password = p /\ UNCHANGED users
    BY <1>4 DEF Login, WithEmail, Stored
  <2>2. tokens' = tokens \cup
          {[user_id |-> i, email |-> e, role |-> users[i].role, given |-> p]}
    BY <1>4 DEF Login
  <2> QED
    BY <1>2, <2>1, <2>2 DEF TokenIsOwners
<1> QED
  BY <1>3, <1>4 DEF Next, vars, CreateCheck, CreateInsert, CreateError, Update

\* Whatever emails are shared or edited and whatever runs at once, a token names
\* a user whose password was given.
THEOREM TokensAreOwners == Spec => []TokenIsOwners
<1>1. Init => TokenIsOwners
  BY DEF Init, TokenIsOwners
<1> QED
  BY <1>1, StepKeepsTokens, TypeCorrect, PTL DEF Spec
=============================================================================
