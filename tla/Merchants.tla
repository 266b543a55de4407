------------------------------ MODULE Merchants ------------------------------
(***************************************************************************)
(* The merchant endpoints, internal/routes/merchants.go, over the Mongo    *)
(* collection "merchants", and a browser that walks the pages of the list. *)
(* A merchant is its name, which the list is sorted by; the other fields   *)
(* decide nothing here.  Names are numbers, in their order.                *)
(*                                                                         *)
(* ListMerchants makes two calls, Find and CountDocuments, and writes may  *)
(* come between them.  GetMerchant only reads; the read UpdateMerchant     *)
(* makes for its answer and the 400s of missing fields change nothing      *)
(* either: they are left out.                                              *)
(***************************************************************************)
EXTENDS Naturals, Sequences, FiniteSets

CONSTANTS
  Id,            \* object ids
  Name,          \* names, natural numbers
  None,          \* absent document
  Limit,         \* the browser's page size
  DistinctNames, \* no two merchants share a name
  RenamesInWalk  \* merchants are renamed while the browser walks

ASSUME MerchantsAssumption ==
  /\ IsFiniteSet(Id)
  /\ Name \subseteq Nat
  /\ None \notin Nat
  /\ \A S \in SUBSET Id : S # None
  /\ Limit \in 1..100
  /\ DistinctNames \in BOOLEAN
  /\ RenamesInWalk \in BOOLEAN

VARIABLES
  merchants,  \* Id -> name, or None
  found,      \* the page Find returned, while CountDocuments runs, or None
  shown,      \* the pages the browser has been shown
  total,      \* the last page's "total"
  early       \* the merchants stored when the browser began its walk

vars == <<merchants, found, shown, total, early>>

Init ==
  /\ merchants = [i \in Id |-> None]
  /\ found = None
  /\ shown = << >>
  /\ total = 0
  /\ early = {}

Stored == {i \in Id : merchants[i] # None}
Walking == found # None \/ shown # << >>

\* A name the instance allows.
Free(i, n) == DistinctNames => \A j \in Stored \ {i} : merchants[j] # n

\* Mutant: the required fields are not checked (0 is the empty name).
CreateUnchecked(i, n) ==
  /\ merchants[i] = None
  /\ Free(i, n)
  /\ \E m \in {n, 0} : merchants' = [merchants EXCEPT ![i] = m]
  /\ UNCHANGED <<found, shown, total, early>>

Create(i, n) ==
  /\ merchants[i] = None
  /\ Free(i, n)
  /\ merchants' = [merchants EXCEPT ![i] = n]
  /\ UNCHANGED <<found, shown, total, early>>

\* The filter is {"_id": id}.
Update(i, n) ==
  /\ merchants[i] # None
  /\ RenamesInWalk \/ ~Walking
  /\ Free(i, n)
  /\ merchants' = [merchants EXCEPT ![i] = n]
  /\ UNCHANGED <<found, shown, total, early>>

\* Stored documents have the fields of the struct's bson tags; a filter on any
\* other field matches none of them.
DocumentFields == {"_id", "responsible", "name", "phone", "accounts"}
Matching(field, i) == IF field \in DocumentFields THEN Stored \cap {i} ELSE {}

\* DELETE /api/merchants/:id; its filter is {"id": id}.
Delete(i) ==
  /\ merchants' = [j \in Id |-> IF j \in Matching("id", i) THEN None ELSE merchants[j]]
  /\ UNCHANGED <<found, shown, total, early>>

-----------------------------------------------------------------------------
(***************************************************************************)
(* GET /api/merchants?page&limit                                           *)
(***************************************************************************)
\* Mutant: pages counted from zero.
SkipFromZero(page) == page * Limit

Skip(page) == (page - 1) * Limit

\* Mutant: the last, partial page is not counted.
TotalPagesFloor(count) == count \div Limit

TotalPages(count) == (count + Limit - 1) \div Limit

Below(A, B) == \A a \in A, b \in B : merchants[a] <= merchants[b]

\* What sorting by name, skipping and limiting may return: equal names come in
\* any order, chosen anew by every query.
IsPage(S, page) ==
  \E before \in SUBSET (Stored \ S) :
    LET n == Cardinality(Stored)
        rest == Stored \ (S \cup before) IN
    /\ Cardinality(before) = IF Skip(page) < n THEN Skip(page) ELSE n
    /\ Cardinality(S) <= Limit
    /\ Cardinality(S) < Limit => rest = {}
    /\ Below(before, S) /\ Below(S, rest) /\ Below(before, rest)

WalkEnded == shown # << >> /\ Len(shown) >= TotalPages(total)

ListFind ==
  /\ found = None
  /\ ~WalkEnded
  /\ \E S \in SUBSET Stored : IsPage(S, Len(shown) + 1) /\ found' = S
  /\ early' = IF Walking THEN early ELSE Stored
  /\ UNCHANGED <<merchants, shown, total>>

ListCount ==
  /\ found # None
  /\ total' = Cardinality(Stored)
  /\ shown' = Append(shown, found)
  /\ found' = None
  /\ UNCHANGED <<merchants, early>>

Next ==
  \/ \E i \in Id : \/ \E n \in Name : Create(i, n) \/ Update(i, n)
                   \/ Delete(i)
  \/ ListFind \/ ListCount

Spec == Init /\ [][Next]_vars

-----------------------------------------------------------------------------
(***************************************************************************)
(* Properties.                                                             *)
(***************************************************************************)
TypeOK ==
  /\ merchants \in [Id -> Name \cup {None}]
  /\ found \in (SUBSET Id) \cup {None}
  /\ shown \in Seq(SUBSET Id)
  /\ total \in Nat
  /\ early \subseteq Id

Seen == UNION {shown[p] : p \in DOMAIN shown}

\* Walking the pages up to totalPages shows every merchant exactly once, if
\* nothing is written meanwhile and no two names are equal.
PagesPartition ==
  WalkEnded /\ Stored = early =>
    /\ Seen = Stored
    /\ \A p, q \in DOMAIN shown : p # q => shown[p] \cap shown[q] = {}

\* A merchant that was there when the walk began is shown, whatever is created
\* during the walk, between Find and CountDocuments included: creations push
\* merchants to later pages, and the total read after a page counts them.
CreationsHideNothing == WalkEnded => early \subseteq Seen
=============================================================================
