-------------------------- MODULE Merchants_proofs ---------------------------
(***************************************************************************)
(* Proofs about the merchants and the walk through their pages, for any    *)
(* number of merchants and any page size.                                  *)
(***************************************************************************)
EXTENDS Merchants, FiniteSetTheorems, SequenceTheorems, TLAPS

\* The merchants listed before one of them.
Before(i) == {j \in Stored : merchants[j] < merchants[i]}

NamesDiffer == \A i, j \in Stored : i # j => merchants[i] # merchants[j]

\* What the list promises is promised of these instances only.
Calm == DistinctNames /\ ~RenamesInWalk

-----------------------------------------------------------------------------
(***************************************************************************)
(* Numbers.                                                                *)
(***************************************************************************)
\* Pages of the same size, one after the other.
LEMMA NextPage ==
  ASSUME NEW n \in Nat
  PROVE  /\ Limit \in Nat \ {0}
         /\ n * Limit \in Nat
         /\ (n + 1) * Limit = n * Limit + Limit
         /\ Skip(n + 1) = n * Limit
BY MerchantsAssumption DEF Skip

\* Later pages start later.
LEMMA LaterPages ==
  ASSUME NEW m \in Nat, NEW n \in Nat, m <= n
  PROVE  m * Limit <= n * Limit
<1>1. Limit \in Nat
  BY MerchantsAssumption
<1> QED
  BY <1>1, SMTT(30)

\* As many pages as TotalPages says hold as many merchants as were counted.
LEMMA PagesSuffice ==
  ASSUME NEW count \in Nat, NEW n \in Nat, n >= TotalPages(count)
  PROVE  count <= n * Limit
<1> DEFINE q == (count + Limit - 1) \div Limit
<1>1. Limit \in Nat /\ Limit > 0
  BY MerchantsAssumption
<1>2. q \in Nat /\ count + Limit - 1 < (q + 1) * Limit
  BY <1>1, SMTT(30)
<1>3. q <= n
  BY DEF TotalPages
<1> HIDE DEF q
<1>4. count <= q * Limit
  BY <1>1, <1>2, SMTT(30)
<1>5. q * Limit <= n * Limit
  BY <1>2, <1>3, LaterPages
<1>6. q * Limit \in Nat /\ n * Limit \in Nat
  BY <1>1, <1>2
<1> QED
  BY <1>4, <1>5, <1>6

-----------------------------------------------------------------------------
(***************************************************************************)
(* One page.                                                               *)
(***************************************************************************)
\* The collection is finite, and so is any part of it.
LEMMA StoredIsFinite ==
  ASSUME NEW S, S \subseteq Stored
  PROVE  IsFiniteSet(S) /\ Cardinality(S) \in Nat
<1>1. S \in SUBSET Id
  BY DEF Stored
<1> QED
  BY <1>1, MerchantsAssumption, FS_Subset, FS_CardinalityType

\* Merchants' names are numbers, so any two are in an order.
LEMMA NamesAreOrdered ==
  ASSUME TypeOK
  PROVE  \A i \in Stored : merchants[i] \in Nat
BY MerchantsAssumption DEF TypeOK, Stored

\* A page holds the merchants that come after Skip and before Skip + Limit others.
LEMMA PageIsPlaced ==
  ASSUME TypeOK, NamesDiffer, NEW S \in SUBSET Stored, NEW n \in Nat, IsPage(S, n + 1)
  PROVE  /\ \A i \in S : /\ n * Limit <= Cardinality(Before(i))
                         /\ Cardinality(Before(i)) < (n + 1) * Limit
         /\ \A i \in Stored \ S : \/ Cardinality(Before(i)) < n * Limit
                                  \/ (n + 1) * Limit <= Cardinality(Before(i))
<1> DEFINE skip == n * Limit
           size == Cardinality(Stored)
<1>1. /\ Limit \in Nat \ {0}
      /\ skip \in Nat
      /\ (n + 1) * Limit = skip + Limit
      /\ Skip(n + 1) = skip
      /\ size \in Nat
  BY NextPage, StoredIsFinite
<1> DEFINE restOf(before) == Stored \ (S \cup before)
<1>2. PICK before \in SUBSET (Stored \ S) :
        /\ Cardinality(before) = IF skip < size THEN skip ELSE size
        /\ Cardinality(S) <= Limit
        /\ Cardinality(S) < Limit => restOf(before) = {}
        /\ Below(before, S) /\ Below(S, restOf(before)) /\ Below(before, restOf(before))
  BY <1>1, SMT DEF IsPage
<1> DEFINE rest == restOf(before)
<1>3. /\ \A i \in Stored : i \in before \/ i \in S \/ i \in rest
      /\ before \subseteq Stored /\ S \subseteq Stored /\ rest \subseteq Stored
      /\ before \cap S = {} /\ before \cap rest = {} /\ S \cap rest = {}
  OBVIOUS
<1>4. \A i, j \in Stored : i # j => merchants[i] < merchants[j] \/ merchants[j] < merchants[i]
  BY NamesAreOrdered DEF NamesDiffer
<1>5. /\ \A i \in before : Before(i) \subseteq before \ {i}
      /\ \A i \in S : before \subseteq Before(i) /\ Before(i) \subseteq before \cup (S \ {i})
      /\ \A i \in rest : before \cup S \subseteq Before(i)
  <2> HIDE DEF rest
  <2>1. \A i \in Stored : ~(merchants[i] < merchants[i])
    BY NamesAreOrdered
  <2>2. \A i, j \in Stored : merchants[i] <= merchants[j] => ~(merchants[j] < merchants[i])
    BY NamesAreOrdered
  <2>3. \A i \in before : Before(i) \subseteq before \ {i}
    BY <1>2, <1>3, <2>1, <2>2 DEF Before, Below, rest
  <2>4. \A i \in S : before \subseteq Before(i)
    BY <1>2, <1>3, <1>4, <2>2 DEF Before, Below
  <2>5. \A i \in S : Before(i) \subseteq before \cup (S \ {i})
    BY <1>2, <1>3, <2>1, <2>2 DEF Before, Below, rest
  <2>6. \A i \in rest : before \cup S \subseteq Before(i)
    BY <1>2, <1>3, <1>4, <2>2 DEF Before, Below, rest
  <2> QED
    BY <2>3, <2>4, <2>5, <2>6
<1> HIDE DEF rest
<1>6. \A i \in Stored : IsFiniteSet(Before(i)) /\ Cardinality(Before(i)) \in Nat
  BY StoredIsFinite DEF Before
<1>7. /\ IsFiniteSet(before) /\ Cardinality(before) \in Nat
      /\ IsFiniteSet(S) /\ Cardinality(S) \in Nat
      /\ IsFiniteSet(Stored)
  BY <1>3, StoredIsFinite
<1>8. before # Stored => Cardinality(before) = skip
  BY <1>2, <1>3, <1>7, FS_Subset
<1>9. Cardinality(before) <= skip
  BY <1>1, <1>2
<1>10. ASSUME NEW i \in before
       PROVE  Cardinality(Before(i)) < skip
  <2>1. Cardinality(before \ {i}) = Cardinality(before) - 1 /\ IsFiniteSet(before \ {i})
    BY <1>7, <1>10, FS_RemoveElement
  <2>2. Cardinality(Before(i)) <= Cardinality(before \ {i})
    BY <1>5, <1>10, <2>1, FS_Subset
  <2> QED
    BY <1>1, <1>3, <1>6, <1>7, <1>9, <1>10, <2>1, <2>2
<1>11. ASSUME NEW i \in S
       PROVE  skip <= Cardinality(Before(i)) /\ Cardinality(Before(i)) < skip + Limit
  <2>1. Cardinality(before) = skip
    BY <1>3, <1>8, <1>11
  <2>2. skip <= Cardinality(Before(i))
    BY <1>3, <1>5, <1>6, <1>11, <2>1, FS_Subset
  <2>3. Cardinality(S \ {i}) = Cardinality(S) - 1 /\ IsFiniteSet(S \ {i})
    BY <1>7, <1>11, FS_RemoveElement
  <2>4. before \cap (S \ {i}) = {}
    BY <1>3
  <2> DEFINE others == S \ {i}
  <2> HIDE DEF others
  <2>5a. /\ IsFiniteSet(before \cup others)
         /\ Cardinality(before \cup others)
              = Cardinality(before) + Cardinality(others) - Cardinality(before \cap others)
    BY <1>7, <2>3, FS_Union DEF others
  <2>5b. Cardinality(before \cap others) = 0
    BY <2>4, FS_EmptySet DEF others
  <2>5c. Cardinality(others) = Cardinality(S) - 1
    BY <2>3 DEF others
  <2>5. /\ IsFiniteSet(before \cup (S \ {i}))
        /\ Cardinality(before \cup (S \ {i})) = skip + (Cardinality(S) - 1)
    BY <1>1, <1>7, <2>1, <2>5a, <2>5b, <2>5c DEF others
  <2>6. Cardinality(Before(i)) <= skip + (Cardinality(S) - 1)
    BY <1>5, <1>11, <2>5, FS_Subset
  <2> QED
    BY <1>1, <1>2, <1>3, <1>6, <1>7, <1>11, <2>2, <2>6
<1>12. ASSUME NEW i \in rest
       PROVE  skip + Limit <= Cardinality(Before(i))
  <2>1. Cardinality(before) = skip
    BY <1>3, <1>8, <1>12
  <2>2. Cardinality(S) = Limit
    BY <1>1, <1>2, <1>7, <1>12 DEF rest
  <2>3. /\ IsFiniteSet(before \cup S)
        /\ Cardinality(before \cup S) = skip + Limit
    BY <1>1, <1>3, <1>7, <2>1, <2>2, FS_Union, FS_EmptySet
  <2> QED
    BY <1>3, <1>5, <1>6, <1>12, <2>3, FS_Subset
<1> QED
  BY <1>1, <1>3, <1>10, <1>11, <1>12

-----------------------------------------------------------------------------
(***************************************************************************)
(* The inductive invariant.                                                *)
(***************************************************************************)
\* The pages found so far, the one whose count is still missing included.
Pages == IF found = None THEN shown ELSE Append(shown, found)
InPages == UNION {Pages[p] : p \in DOMAIN Pages}

PagesAreStored == early \subseteq Stored /\ InPages \subseteq Stored
FoundBeforeEnd == found # None => ~WalkEnded

\* Merchants not shown yet belong to a later page ...
UnseenAreFar ==
  \A i \in early \ InPages : Len(Pages) * Limit <= Cardinality(Before(i))

\* ... and those shown to their own.
SeenAreInPlace ==
  \A p \in DOMAIN Pages : \A i \in Pages[p] :
    /\ (p - 1) * Limit <= Cardinality(Before(i))
    /\ Cardinality(Before(i)) < p * Limit

IInv ==
  /\ TypeOK
  /\ DistinctNames => NamesDiffer
  /\ PagesAreStored
  /\ FoundBeforeEnd
  /\ Calm => UnseenAreFar
  /\ Calm /\ Stored = early => SeenAreInPlace
  /\ Calm => CreationsHideNothing

-----------------------------------------------------------------------------
(***************************************************************************)
(* What the steps do to the pages and to the order.                        *)
(***************************************************************************)
\* Until the first Find there are no pages.
LEMMA NoPagesYet ==
  ASSUME ~Walking
  PROVE  /\ Pages = << >> /\ DOMAIN Pages = {} /\ Len(Pages) = 0
         /\ InPages = {}
BY DEF Walking, Pages, InPages

\* Find adds its page to the walk.
LEMMA FindAddsPage ==
  ASSUME TypeOK, NEW S \in SUBSET Stored, found = None, found' = S, shown' = shown
  PROVE  /\ Pages = shown /\ Pages' = Append(shown, S)
         /\ Len(shown) \in Nat /\ Len(Pages') = Len(shown) + 1
         /\ DOMAIN shown = 1..Len(shown) /\ DOMAIN Pages' = 1..(Len(shown) + 1)
         /\ \A p \in DOMAIN shown : Pages'[p] = shown[p]
         /\ Pages'[Len(shown) + 1] = S
         /\ InPages' = InPages \cup S
<1>1. S \in SUBSET Id /\ S # None
  BY MerchantsAssumption DEF Stored
<1>2. shown \in Seq(SUBSET Id)
  BY DEF TypeOK
<1>3. Pages = shown /\ Pages' = Append(shown, S)
  BY <1>1 DEF Pages
<1>4. /\ Len(shown) \in Nat /\ Len(Pages') = Len(shown) + 1
      /\ DOMAIN shown = 1..Len(shown) /\ DOMAIN Pages' = 1..(Len(shown) + 1)
      /\ \A p \in DOMAIN shown : Pages'[p] = shown[p]
      /\ Pages'[Len(shown) + 1] = S
  BY <1>1, <1>2, <1>3, LenProperties, AppendProperties
<1>5. DOMAIN Pages' = DOMAIN shown \cup {Len(shown) + 1}
  BY <1>4
<1>6. InPages' = InPages \cup S
  <2>1. \A j : j \in InPages <=> \E p \in DOMAIN shown : j \in shown[p]
    BY <1>3 DEF InPages
  <2>2. \A j : j \in InPages' <=> \E p \in DOMAIN Pages' : j \in Pages'[p]
    BY DEF InPages
  <2>3. \A j : (\E p \in DOMAIN Pages' : j \in Pages'[p])
               <=> (\E p \in DOMAIN shown : j \in Pages'[p]) \/ j \in S
    BY <1>4, <1>5, Zenon
  <2>4. \A j : j \in InPages' <=> j \in InPages \cup S
    BY <1>4, <2>1, <2>2, <2>3
  <2> QED
    BY <2>4
<1> QED
  BY <1>3, <1>4, <1>6

\* The count shows the page found.
LEMMA CountKeepsPages ==
  ASSUME TypeOK, found # None, shown' = Append(shown, found), found' = None
  PROVE  /\ Pages' = Pages /\ InPages' = InPages
         /\ shown' = Pages /\ Len(Pages) \in Nat
         /\ Len(Pages) = Len(shown) + 1
<1>1. shown \in Seq(SUBSET Id) /\ found \in SUBSET Id
  BY DEF TypeOK
<1>2. Pages' = Pages /\ shown' = Pages
  BY DEF Pages
<1>3. InPages' = InPages
  BY <1>2 DEF InPages
<1>4. Len(Pages) = Len(shown) + 1 /\ Len(shown) \in Nat
  BY <1>1, AppendProperties, LenProperties DEF Pages
<1> QED
  BY <1>2, <1>3, <1>4

\* A creation adds a merchant and puts none of the others back in the list.
LEMMA CreationsPush ==
  ASSUME TypeOK, NEW i \in Id, NEW n \in Name, Create(i, n)
  PROVE  /\ Stored' = Stored \cup {i} /\ i \notin Stored
         /\ \A j \in Stored : merchants'[j] = merchants[j]
         /\ merchants'[i] = n
         /\ \A j \in Stored : Cardinality(Before(j)) <= Cardinality(Before(j)')
<1>1. n # None
  BY MerchantsAssumption
<1>2. /\ Stored' = Stored \cup {i} /\ i \notin Stored
      /\ \A j \in Stored : merchants'[j] = merchants[j]
      /\ merchants'[i] = n
  BY <1>1 DEF Create, Stored, TypeOK
<1>3. ASSUME NEW j \in Stored
      PROVE  Cardinality(Before(j)) <= Cardinality(Before(j)')
  <2>1. Before(j) \subseteq Before(j)'
    BY <1>2 DEF Before
  <2>2. Before(j)' \subseteq Id
    BY DEF Before, Stored
  <2> QED
    BY <2>1, <2>2, MerchantsAssumption, FS_Subset
<1> QED
  BY <1>2, <1>3

\* The 404 of every DELETE: its filter matches no document.
LEMMA DeletionsMatchNothing ==
  ASSUME TypeOK, NEW i \in Id, Delete(i)
  PROVE  UNCHANGED vars
<1>1. Matching("id", i) = {}
  BY DEF Matching, DocumentFields
<1>2. merchants' = [j \in Id |-> merchants[j]]
  BY <1>1, Zenon DEF Delete
<1>3. merchants' = merchants
  BY <1>2 DEF TypeOK
<1> QED
  BY <1>3 DEF Delete, vars

\* There are fewer merchants before one than there are.
LEMMA BeforeIsSmaller ==
  ASSUME TypeOK, NEW i \in Stored
  PROVE  /\ Cardinality(Before(i)) \in Nat /\ Cardinality(Stored) \in Nat
         /\ Cardinality(Before(i)) < Cardinality(Stored)
<1>1. Before(i) \subseteq Stored \ {i}
  BY NamesAreOrdered DEF Before
<1>2. IsFiniteSet(Stored) /\ Cardinality(Stored) \in Nat
  BY StoredIsFinite
<1>3. Cardinality(Stored \ {i}) = Cardinality(Stored) - 1 /\ IsFiniteSet(Stored \ {i})
  BY <1>2, FS_RemoveElement
<1>4. Cardinality(Before(i)) <= Cardinality(Stored \ {i}) /\ Cardinality(Before(i)) \in Nat
  BY <1>1, <1>3, FS_Subset, FS_CardinalityType
<1> QED
  BY <1>2, <1>3, <1>4

-----------------------------------------------------------------------------
(***************************************************************************)
(* The invariant.                                                          *)
(***************************************************************************)
\* The initial states satisfy the invariant.
LEMMA InitIInv == Init => IInv
<1> SUFFICES ASSUME Init PROVE IInv
  OBVIOUS
<1>1. ~Walking /\ Stored = {} /\ early = {} /\ shown = << >>
  BY DEF Init, Walking, Stored
<1>2. TypeOK
  BY DEF Init, TypeOK
<1>3. Pages = << >> /\ DOMAIN Pages = {} /\ InPages = {}
  BY <1>1, NoPagesYet
<1> QED
  BY <1>1, <1>2, <1>3
  DEF IInv, NamesDiffer, PagesAreStored, FoundBeforeEnd, UnseenAreFar, SeenAreInPlace,
      CreationsHideNothing, WalkEnded, Init

\* The type invariant.
LEMMA StepTypeOK == TypeOK /\ [Next]_vars => TypeOK'
<1> SUFFICES ASSUME TypeOK, [Next]_vars PROVE TypeOK'
  OBVIOUS
<1>1. CASE \E i \in Id, n \in Name : Create(i, n)
  BY <1>1 DEF Create, TypeOK
<1>2. CASE \E i \in Id, n \in Name : Update(i, n)
  BY <1>2 DEF Update, TypeOK
<1>3. CASE \E i \in Id : Delete(i)
  BY <1>3, DeletionsMatchNothing DEF vars, TypeOK
<1>4. CASE ListFind
  <2>1. Stored \subseteq Id
    BY DEF Stored
  <2> QED
    BY <1>4, <2>1 DEF ListFind, TypeOK
<1>5. CASE ListCount
  <2>1. Cardinality(Stored) \in Nat
    BY StoredIsFinite
  <2>2. found \in SUBSET Id
    BY <1>5 DEF ListCount, TypeOK
  <2> QED
    BY <1>5, <2>1, <2>2, AppendProperties DEF ListCount, TypeOK
<1>6. CASE UNCHANGED vars
  BY <1>6 DEF vars, TypeOK
<1> QED
  BY <1>1, <1>2, <1>3, <1>4, <1>5, <1>6 DEF Next

\* A creation preserves the invariant.
LEMMA CreateKeeps ==
  ASSUME IInv, NEW i \in Id, NEW n \in Name, Create(i, n)
  PROVE  IInv'
<1>1. TypeOK /\ TypeOK'
  BY StepTypeOK DEF IInv, Next
<1>2. /\ Stored' = Stored \cup {i} /\ i \notin Stored
      /\ \A j \in Stored : merchants'[j] = merchants[j]
      /\ merchants'[i] = n
      /\ \A j \in Stored : Cardinality(Before(j)) <= Cardinality(Before(j)')
  BY <1>1, CreationsPush
<1>3. /\ found' = found /\ shown' = shown /\ total' = total /\ early' = early
      /\ Pages' = Pages /\ InPages' = InPages /\ WalkEnded' = WalkEnded /\ Seen' = Seen
  BY DEF Create, Pages, InPages, WalkEnded, TotalPages, Seen
<1>4. DistinctNames => NamesDiffer'
  <2>1. DistinctNames => \A j \in Stored : merchants[j] # n
    BY <1>2 DEF Create, Free
  <2> QED
    BY <1>2, <2>1 DEF IInv, NamesDiffer
<1>5. PagesAreStored' /\ Stored' # early'
  BY <1>2, <1>3 DEF IInv, PagesAreStored
<1>6. FoundBeforeEnd' /\ (Calm => CreationsHideNothing')
  BY <1>3 DEF IInv, FoundBeforeEnd, CreationsHideNothing
<1>7. ASSUME Calm PROVE UnseenAreFar'
  <2> SUFFICES ASSUME NEW j \in early \ InPages
               PROVE  Len(Pages) * Limit <= Cardinality(Before(j)')
    BY <1>3 DEF UnseenAreFar
  <2>1. j \in Stored
    BY DEF IInv, PagesAreStored
  <2>2. Len(Pages) * Limit <= Cardinality(Before(j))
    BY <1>7 DEF IInv, UnseenAreFar
  <2>3. Cardinality(Before(j)) \in Nat
    BY <1>1, <2>1, BeforeIsSmaller
  <2>4. Cardinality(Before(j)') \in Nat
    <3>1. Before(j)' \subseteq Id
      BY DEF Before, Stored
    <3> QED
      BY <3>1, MerchantsAssumption, FS_Subset, FS_CardinalityType
  <2>5. Len(Pages) \in Nat
    BY <1>1, LenProperties, AppendProperties DEF Pages, TypeOK
  <2>6. Len(Pages) * Limit \in Nat
    BY <2>5, NextPage
  <2> QED
    BY <1>2, <2>1, <2>2, <2>3, <2>4, <2>6
<1> QED
  BY <1>1, <1>4, <1>5, <1>6, <1>7 DEF IInv, Calm

\* An update preserves it: it renames nobody during a walk, or nothing is promised.
LEMMA UpdateKeeps ==
  ASSUME IInv, NEW i \in Id, NEW n \in Name, Update(i, n)
  PROVE  IInv'
<1>1. TypeOK /\ TypeOK'
  BY StepTypeOK DEF IInv, Next
<1>2. n # None
  BY MerchantsAssumption
<1>3. /\ Stored' = Stored /\ i \in Stored
      /\ merchants'[i] = n /\ \A j \in Stored : j # i => merchants'[j] = merchants[j]
  BY <1>1, <1>2 DEF Update, Stored, TypeOK
<1>4. /\ found' = found /\ shown' = shown /\ total' = total /\ early' = early
      /\ Pages' = Pages /\ InPages' = InPages /\ WalkEnded' = WalkEnded /\ Seen' = Seen
  BY DEF Update, Pages, InPages, WalkEnded, TotalPages, Seen
<1>5. DistinctNames => NamesDiffer'
  <2>1. DistinctNames => \A j \in Stored \ {i} : merchants[j] # n
    BY DEF Update, Free
  <2> QED
    BY <1>3, <2>1 DEF IInv, NamesDiffer
<1>6. PagesAreStored' /\ FoundBeforeEnd'
  BY <1>3, <1>4 DEF IInv, PagesAreStored, FoundBeforeEnd
<1>7. ASSUME Calm PROVE UnseenAreFar' /\ SeenAreInPlace' /\ CreationsHideNothing'
  <2>1. ~Walking
    BY <1>7 DEF Update, Calm
  <2>2. Len(Pages) = 0 /\ DOMAIN Pages = {} /\ ~WalkEnded
    BY <2>1, NoPagesYet DEF Walking, WalkEnded
  <2>3. \A j \in early : Cardinality(Before(j)') \in Nat
    <3>1. \A j \in early : Before(j)' \subseteq Id
      BY DEF Before, Stored
    <3> QED
      BY <3>1, MerchantsAssumption, FS_Subset, FS_CardinalityType
  <2>4. 0 * Limit = 0
    BY NextPage
  <2> QED
    BY <1>4, <2>2, <2>3, <2>4 DEF UnseenAreFar, SeenAreInPlace, CreationsHideNothing
<1> QED
  BY <1>1, <1>5, <1>6, <1>7 DEF IInv, Calm

\* So does a page found, the walk's first or a later one.
LEMMA FindKeeps == IInv /\ ListFind => IInv'
<1> SUFFICES ASSUME IInv, ListFind PROVE IInv'
  OBVIOUS
<1>1. TypeOK /\ TypeOK'
  BY StepTypeOK DEF IInv, Next
<1>2. PICK S \in SUBSET Stored : IsPage(S, Len(shown) + 1) /\ found' = S
  BY DEF ListFind
<1>3. /\ found = None /\ ~WalkEnded
      /\ merchants' = merchants /\ shown' = shown /\ total' = total
      /\ early' = IF Walking THEN early ELSE Stored
  BY DEF ListFind
<1>4. /\ Stored' = Stored /\ WalkEnded' = WalkEnded
      /\ NamesDiffer' = NamesDiffer
      /\ \A j : Before(j)' = Before(j)
  BY <1>3 DEF Stored, WalkEnded, TotalPages, NamesDiffer, Before
<1> DEFINE n == Len(shown)
<1>5. /\ Pages = shown /\ n \in Nat /\ Len(Pages') = n + 1
      /\ DOMAIN shown = 1..n /\ DOMAIN Pages' = 1..(n + 1)
      /\ \A p \in DOMAIN shown : Pages'[p] = shown[p]
      /\ Pages'[n + 1] = S
      /\ InPages' = InPages \cup S
  BY <1>1, <1>2, <1>3, FindAddsPage
<1>6. PagesAreStored'
  BY <1>3, <1>4, <1>5 DEF IInv, PagesAreStored
<1>7. FoundBeforeEnd' /\ CreationsHideNothing'
  BY <1>3, <1>4 DEF FoundBeforeEnd, CreationsHideNothing
<1>8. ASSUME Calm
      PROVE  UnseenAreFar' /\ (Stored' = early' => SeenAreInPlace')
  <2>1. NamesDiffer
    BY <1>8 DEF IInv, Calm
  <2>2. /\ \A i \in S : /\ n * Limit <= Cardinality(Before(i))
                        /\ Cardinality(Before(i)) < (n + 1) * Limit
        /\ \A i \in Stored \ S : \/ Cardinality(Before(i)) < n * Limit
                                 \/ (n + 1) * Limit <= Cardinality(Before(i))
    BY <1>1, <1>2, <1>5, <2>1, PageIsPlaced
  <2>3. \A i \in Stored : Cardinality(Before(i)) \in Nat
    BY <1>1, BeforeIsSmaller
  <2>4. n * Limit \in Nat /\ 0 * Limit = 0
    BY <1>5, NextPage
  <2>5. CASE Walking
    <3>1. UnseenAreFar'
      <4> SUFFICES ASSUME NEW i \in early, i \notin InPages, i \notin S
                   PROVE  (n + 1) * Limit <= Cardinality(Before(i))
        BY <1>3, <1>4, <1>5, <2>5 DEF UnseenAreFar
      <4>1. n * Limit <= Cardinality(Before(i)) /\ i \in Stored
        BY <1>5, <1>8 DEF IInv, UnseenAreFar, PagesAreStored
      <4> QED
        BY <2>2, <2>3, <2>4, <4>1
    <3>2. ASSUME Stored' = early' PROVE SeenAreInPlace'
      <4>1. SeenAreInPlace
        BY <1>3, <1>4, <1>8, <2>5, <3>2 DEF IInv
      <4> SUFFICES ASSUME NEW p \in 1..(n + 1), NEW i \in Pages'[p]
                   PROVE  /\ (p - 1) * Limit <= Cardinality(Before(i))
                          /\ Cardinality(Before(i)) < p * Limit
        BY <1>4, <1>5, Zenon DEF SeenAreInPlace
      <4>2. CASE p = n + 1
        <5>1. i \in S /\ p - 1 = n
          BY <1>5, <4>2
        <5> QED
          BY <2>2, <4>2, <5>1
      <4>3. CASE p # n + 1
        <5>1. p \in DOMAIN shown
          BY <1>5, <4>3
        <5>2. i \in shown[p]
          BY <1>5, <5>1
        <5> QED
          BY <1>5, <4>1, <5>1, <5>2 DEF SeenAreInPlace
      <4> QED
        BY <4>2, <4>3
    <3> QED
      BY <3>1, <3>2
  <2>6. CASE ~Walking
    <3>1. n = 0 /\ InPages = {} /\ early' = Stored
      BY <1>3, <1>5, <2>6, NoPagesYet
    <3>2. UnseenAreFar'
      <4> SUFFICES ASSUME NEW i \in Stored, i \notin S
                   PROVE  (n + 1) * Limit <= Cardinality(Before(i))
        BY <1>4, <1>5, <3>1 DEF UnseenAreFar
      <4> QED
        BY <2>2, <2>3, <2>4, <3>1
    <3>3. SeenAreInPlace'
      <4> SUFFICES ASSUME NEW p \in 1..(n + 1), NEW i \in Pages'[p]
                   PROVE  /\ (p - 1) * Limit <= Cardinality(Before(i))
                          /\ Cardinality(Before(i)) < p * Limit
        BY <1>4, <1>5, Zenon DEF SeenAreInPlace
      <4>1. p = n + 1 /\ p - 1 = n
        BY <3>1
      <4>2. i \in S
        BY <1>5, <4>1
      <4> QED
        BY <2>2, <4>1, <4>2
    <3> QED
      BY <3>2, <3>3
  <2> QED
    BY <2>5, <2>6
<1> QED
  BY <1>1, <1>4, <1>6, <1>7, <1>8 DEF IInv, Calm

\* And so does the count: a walk that ends has seen whoever was there.
LEMMA CountKeeps == IInv /\ ListCount => IInv'
<1> SUFFICES ASSUME IInv, ListCount PROVE IInv'
  OBVIOUS
<1>1. TypeOK /\ TypeOK'
  BY StepTypeOK DEF IInv, Next
<1>2. /\ found # None /\ found' = None
      /\ total' = Cardinality(Stored) /\ shown' = Append(shown, found)
      /\ merchants' = merchants /\ early' = early
  BY DEF ListCount
<1>3. /\ Pages' = Pages /\ InPages' = InPages
      /\ shown' = Pages /\ Len(Pages) \in Nat
  BY <1>1, <1>2, CountKeepsPages
<1>4. /\ Stored' = Stored /\ NamesDiffer' = NamesDiffer
      /\ \A j : Before(j)' = Before(j)
  BY <1>2 DEF Stored, NamesDiffer, Before
<1>5. PagesAreStored' /\ FoundBeforeEnd'
  BY <1>2, <1>3, <1>4 DEF IInv, PagesAreStored, FoundBeforeEnd
<1>6. /\ UnseenAreFar' <=> UnseenAreFar
      /\ SeenAreInPlace' <=> SeenAreInPlace
  BY <1>2, <1>3, <1>4 DEF UnseenAreFar, SeenAreInPlace
<1>7. ASSUME Calm PROVE CreationsHideNothing'
  <2>1. Seen' = InPages
    BY <1>3 DEF Seen, InPages
  <2> SUFFICES ASSUME WalkEnded', NEW i \in early, i \notin InPages
               PROVE  FALSE
    BY <1>2, <2>1 DEF CreationsHideNothing
  <2>2. i \in Stored /\ Len(Pages) * Limit <= Cardinality(Before(i))
    BY <1>7 DEF IInv, PagesAreStored, UnseenAreFar
  <2>3. /\ Cardinality(Before(i)) \in Nat /\ Cardinality(Stored) \in Nat
        /\ Cardinality(Before(i)) < Cardinality(Stored)
    BY <1>1, <2>2, BeforeIsSmaller
  <2>4. Len(Pages) >= TotalPages(Cardinality(Stored))
    BY <1>2, <1>3 DEF WalkEnded, TotalPages
  <2>5. Cardinality(Stored) <= Len(Pages) * Limit
    BY <1>3, <2>3, <2>4, PagesSuffice
  <2>6. Len(Pages) * Limit \in Nat
    BY <1>3, NextPage
  <2> QED
    BY <2>2, <2>3, <2>5, <2>6
<1> QED
  BY <1>1, <1>2, <1>4, <1>5, <1>6, <1>7 DEF IInv, Calm

\* Every step preserves the invariant.
LEMMA NextIInv == IInv /\ [Next]_vars => IInv'
<1> SUFFICES ASSUME IInv, [Next]_vars PROVE IInv'
  OBVIOUS
<1>1. CASE \E i \in Id, n \in Name : Create(i, n)
  BY <1>1, CreateKeeps
<1>2. CASE \E i \in Id, n \in Name : Update(i, n)
  BY <1>2, UpdateKeeps
<1>3. ASSUME UNCHANGED vars PROVE IInv'
  <2>1. TypeOK'
    BY <1>3, StepTypeOK DEF IInv
  <2>2. /\ Stored' = Stored /\ NamesDiffer' = NamesDiffer /\ early' = early
        /\ Pages' = Pages /\ InPages' = InPages
        /\ WalkEnded' = WalkEnded /\ Seen' = Seen /\ found' = found
    BY <1>3 DEF vars, Stored, NamesDiffer, Pages, InPages, WalkEnded, TotalPages, Seen
  <2>3. \A j : Before(j)' = Before(j)
    BY <1>3 DEF vars, Before, Stored
  <2> QED
    BY <2>1, <2>2, <2>3
    DEF IInv, Calm, PagesAreStored, FoundBeforeEnd, UnseenAreFar, SeenAreInPlace,
        CreationsHideNothing
<1>4. CASE \E i \in Id : Delete(i)
  BY <1>3, <1>4, DeletionsMatchNothing DEF IInv
<1>5. CASE ListFind
  BY <1>5, FindKeeps
<1>6. CASE ListCount
  BY <1>6, CountKeeps
<1> QED
  BY <1>1, <1>2, <1>3, <1>4, <1>5, <1>6 DEF Next

\* The invariant of the walk, whose pages have found what they should.
THEOREM Invariance == Spec => []IInv
BY InitIInv, NextIInv, PTL DEF Spec

-----------------------------------------------------------------------------
(***************************************************************************)
(* The properties.                                                         *)
(***************************************************************************)
\* The endpoints and the browser keep the types of their state.
THEOREM TypeCorrect == Spec => []TypeOK
<1>1. IInv => TypeOK
  BY DEF IInv
<1> QED
  BY <1>1, Invariance, PTL

\* Whatever is created during a walk, between a page's Find and its count too,
\* the walk shows every merchant that was there at its start: for any number of
\* merchants and any page size, if names differ and nobody is renamed.
THEOREM CreationsAreHarmless ==
  Spec => [](DistinctNames /\ ~RenamesInWalk => CreationsHideNothing)
<1>1. IInv => (DistinctNames /\ ~RenamesInWalk => CreationsHideNothing)
  BY DEF IInv, Calm
<1> QED
  BY <1>1, Invariance, PTL

\* A walk during which nothing is written shows every merchant once, for any
\* number of merchants and any page size: the pages as Skip cuts them and the
\* number TotalPages gives fit together.
THEOREM PagesCover ==
  Spec => [](DistinctNames /\ ~RenamesInWalk => PagesPartition)
<1>1. IInv => (DistinctNames /\ ~RenamesInWalk => PagesPartition)
  <2> SUFFICES ASSUME IInv, Calm, WalkEnded, Stored = early
               PROVE  /\ Seen = Stored
                      /\ \A p, q \in DOMAIN shown : p # q => shown[p] \cap shown[q] = {}
    BY DEF PagesPartition, Calm
  <2>1. found = None /\ Pages = shown
    BY DEF IInv, FoundBeforeEnd, Pages
  <2>2. early \subseteq Seen
    BY DEF IInv, CreationsHideNothing
  <2>3. Seen \subseteq Stored
    BY <2>1 DEF IInv, PagesAreStored, InPages, Seen
  <2>4. TypeOK /\ SeenAreInPlace
    BY DEF IInv
  <2>5. DOMAIN shown = 1..Len(shown) /\ Len(shown) \in Nat
    BY <2>4, LenProperties DEF TypeOK
  <2>6. ASSUME NEW p \in DOMAIN shown, NEW q \in DOMAIN shown, p < q,
               NEW i \in shown[p], i \in shown[q]
        PROVE  FALSE
    <3>1. Cardinality(Before(i)) < p * Limit /\ (q - 1) * Limit <= Cardinality(Before(i))
      BY <2>1, <2>4, <2>6 DEF SeenAreInPlace
    <3>2. p \in Nat /\ q - 1 \in Nat /\ p <= q - 1
      BY <2>5, <2>6
    <3>3. p * Limit <= (q - 1) * Limit
      BY <3>2, LaterPages
    <3>4. p * Limit \in Nat /\ (q - 1) * Limit \in Nat
      BY <3>2, NextPage
    <3>5. i \in Stored
      BY <2>3 DEF Seen
    <3>6. Cardinality(Before(i)) \in Nat
      BY <2>4, <3>5, BeforeIsSmaller
    <3> QED
      BY <3>1, <3>3, <3>4, <3>6
  <2>7. ASSUME NEW p \in DOMAIN shown, NEW q \in DOMAIN shown, p # q
        PROVE  shown[p] \cap shown[q] = {}
    <3>1. p < q \/ q < p
      BY <2>5, <2>7
    <3> QED
      BY <2>6, <3>1
  <2> QED
    BY <2>2, <2>3, <2>7
<1> QED
  BY <1>1, Invariance, PTL
=============================================================================
