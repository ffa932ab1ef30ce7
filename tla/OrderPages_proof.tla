------------------------- MODULE OrderPages_proof -------------------------
(***************************************************************************)
(* QueryPendingOrdersByType misses no order that stays and lists none      *)
(* twice, for every page size, every set of ids and any number of orders   *)
(* placed and ended between the pages.                                     *)
(***************************************************************************)
EXTENDS OrderPages, FiniteSetTheorems, WellFoundedInduction, TLAPS

(* TypeOK is not inductive as it stands: pages are counted, so the orders     *)
(* pending must be finitely many.                                             *)
TypeInv == TypeOK /\ IsFiniteSet(pending)

IInv == TypeInv /\ PagesInv

(* A finite set of ids that is not empty has a least one: of the sets of the  *)
(* members up to x, one for each member x, one is minimal.                    *)
LEMMA LeastExists ==
  ASSUME NEW S \in SUBSET Nat, IsFiniteSet(S), S # {}
  PROVE  \E i \in S : \A j \in S : i <= j
<1> DEFINE UpTo(x) == {y \in S : y <= x}
           Sets    == {UpTo(x) : x \in S}
           R       == StrictSubsetOrdering(S)
<1>1. IsWellFoundedOn(R, FiniteSubsetsOf(S))
  BY FS_StrictSubsetOrderingWellFounded
<1>2. Sets \subseteq FiniteSubsetsOf(S) /\ Sets # {}
  <2>1. \A x \in S : UpTo(x) \in SUBSET S
    OBVIOUS
  <2>2. FiniteSubsetsOf(S) = SUBSET S
    BY FS_FiniteSubsetsOfFinite
  <2>3. PICK x \in S : TRUE
    OBVIOUS
  <2>4. UpTo(x) \in Sets
    OBVIOUS
  <2>5. Sets \subseteq SUBSET S
    BY <2>1
  <2> QED BY <2>2, <2>4, <2>5
<1>3. PICK T \in Sets : \A U \in Sets : <<U, T>> \notin R
  <2> HIDE DEF Sets, R
  <2> QED BY <1>1, <1>2, WFMin
<1>4. PICK m \in S : T = UpTo(m)
  BY <1>3
<1>5. \A j \in S : m <= j
  <2> SUFFICES ASSUME NEW j \in S, j < m PROVE FALSE
    OBVIOUS
  <2>1. UpTo(j) \subseteq UpTo(m)
    <3> SUFFICES ASSUME NEW y \in S, y <= j PROVE y <= m
      OBVIOUS
    <3> QED BY y \in Nat, j \in Nat, m \in Nat
  <2>2. m \in UpTo(m) /\ m \notin UpTo(j)
    OBVIOUS
  <2>3. UpTo(j) \in Sets
    OBVIOUS
  <2>4. UpTo(j) \in SUBSET S /\ UpTo(m) \in SUBSET S
    OBVIOUS
  <2>5. <<UpTo(j), UpTo(m)>> \in R
    <3> HIDE DEF UpTo
    <3> QED BY <2>1, <2>2, <2>4 DEF StrictSubsetOrdering
  <2> QED BY <2>3, <2>5, <1>3, <1>4
<1> QED BY <1>5

(* What is kept of a page is finite, and a full lot of it is the whole page,  *)
(* with a last order.                                                         *)
LEMMA KeptOfPage ==
  ASSUME TypeInv, NEW page \in Pages
  PROVE  /\ IsFiniteSet(page) /\ Cardinality(page) \in Nat
         /\ Cardinality(Keep(page)) \in Nat
         /\ MayHaveMore(Keep(page)) =>
              /\ Keep(page) = page
              /\ LastOf(page) \in page
              /\ \A j \in page : LastOf(page) <= j
<1>1. page \subseteq pending /\ Cardinality(page) <= PageSize
  BY DEF Pages, Older
<1>2. IsFiniteSet(page)
  BY <1>1, FS_Subset DEF TypeInv
<1>3. Cardinality(page) \in Nat
  BY <1>2, FS_CardinalityType
<1>4. /\ IsFiniteSet(Keep(page)) /\ Cardinality(Keep(page)) <= Cardinality(page)
      /\ Cardinality(page) = Cardinality(Keep(page)) => page = Keep(page)
  <2>1. Keep(page) \in SUBSET page
    BY DEF Keep
  <2> QED BY <2>1, <1>2, FS_Subset
<1>5. Cardinality(Keep(page)) \in Nat
  BY <1>4, FS_CardinalityType
<1>6. ASSUME MayHaveMore(Keep(page))
      PROVE  /\ Keep(page) = page
             /\ LastOf(page) \in page
             /\ \A j \in page : LastOf(page) <= j
  <2>1. Cardinality(Keep(page)) >= PageSize /\ PageSize \in Nat \ {0}
    BY <1>6, SizeAssumption DEF MayHaveMore
  <2>2. Keep(page) = page
    BY <2>1, <1>1, <1>3, <1>4, <1>5
  <2>3. page # {}
    BY <2>1, <2>2, FS_EmptySet
  <2>4. page \in SUBSET Nat
    BY <1>1, IdAssumption DEF TypeInv, TypeOK
  <2>5. \E i \in page : \A j \in page : i <= j
    BY <2>3, <2>4, <1>2, LeastExists
  <2> QED BY <2>2, <2>5 DEF LastOf
<1> QED BY <1>2, <1>3, <1>5, <1>6

LEMMA InitInv == Init => IInv
<1> SUFFICES ASSUME Init PROVE IInv
  OBVIOUS
<1>1. TypeInv
  <2>1. result \in [Id -> 0 .. 2]
    BY DEF Init
  <2>2. cut \in BOOLEAN /\ failed \in BOOLEAN /\ pc \in {"ask", "done"}
    BY DEF Init
  <2> QED BY <2>1, <2>2 DEF Init, TypeInv, TypeOK
<1>2. PagesInv
  <2>1. \A i \in Id : result[i] = 0
    BY DEF Init
  <2> QED BY <2>1 DEF Init, PagesInv, NoneMissed, NoneTwice
<1> QED BY <1>1, <1>2 DEF IInv

LEMMA TypeStep == TypeInv /\ [Next]_vars => TypeInv'
<1> SUFFICES ASSUME TypeInv, [Next]_vars PROVE TypeInv'
  OBVIOUS
<1> USE IdAssumption DEF TypeInv, TypeOK
<1>1. CASE ReadPage
  <2>1. PICK page \in Pages :
          LET kept == Keep(page) IN
          /\ Push(kept)
          /\ IF MayHaveMore(kept)
             THEN cursor' = LastOf(kept) /\ UNCHANGED pc
             ELSE pc' = "done" /\ UNCHANGED cursor
          /\ cut' = (cut \/ (Cardinality(page) = PageSize /\ kept # page))
    BY <1>1 DEF ReadPage
  <2>2. page \subseteq Id
    BY DEF Pages, Older
  <2>3. cursor' \in Id \cup {Empty} /\ pc' \in {"ask", "done"}
    BY <2>1, <2>2, KeptOfPage
  <2>4. result' \in [Id -> 0 .. 2]
    BY <2>1 DEF Push
  <2>5. cut' \in BOOLEAN
    BY <2>1
  <2> QED BY <1>1, <2>3, <2>4, <2>5 DEF ReadPage
<1>2. CASE Fail
  BY <1>2 DEF Fail, Push
<1>3. ASSUME NEW i \in Id, Place(i) PROVE TypeInv'
  BY <1>3, FS_AddElement DEF Place
<1>4. ASSUME NEW i \in Id, End(i) PROVE TypeInv'
  BY <1>4, FS_RemoveElement DEF End
<1>5. CASE UNCHANGED vars
  BY <1>5 DEF vars
<1> QED BY <1>1, <1>2, <1>3, <1>4, <1>5 DEF Next

(* Pushing orders that were not pushed before, and are pending, leaves each   *)
(* at most once in the result.                                                *)
LEMMA PushOnce ==
  ASSUME TypeInv, PagesInv, pc = "ask", NEW kept \in SUBSET Older, Push(kept)
  PROVE  /\ \A i \in Id : result'[i] = IF i \in kept THEN 1 ELSE result[i]
         /\ \A i \in Id : result'[i] > 0 => i \in used
         /\ NoneTwice'
<1>1. \A i \in kept : i \in Id /\ i \in used /\ result[i] = 0
  BY IdAssumption DEF TypeInv, TypeOK, PagesInv, Older
<1>2. \A i \in Id : result'[i] = IF i \in kept THEN 1 ELSE result[i]
  BY <1>1 DEF Push
<1> QED BY <1>1, <1>2 DEF PagesInv, NoneTwice, TypeInv, TypeOK

LEMMA ReadPageInv == TypeInv /\ PagesInv /\ ReadPage => PagesInv'
<1> SUFFICES ASSUME TypeInv, PagesInv, ReadPage PROVE PagesInv'
  OBVIOUS
<1>1. PICK page \in Pages :
        LET kept == Keep(page) IN
        /\ Push(kept)
        /\ IF MayHaveMore(kept)
           THEN cursor' = LastOf(kept) /\ UNCHANGED pc
           ELSE pc' = "done" /\ UNCHANGED cursor
        /\ cut' = (cut \/ (Cardinality(page) = PageSize /\ kept # page))
  BY DEF ReadPage
<1>2. /\ pc = "ask" /\ ~failed /\ ~cut
      /\ UNCHANGED <<pending, used, stayed, failed>>
  BY DEF ReadPage, PagesInv
<1>3. /\ page \subseteq Older /\ Keep(page) \in SUBSET Older
      /\ \A i \in page : \A j \in Older \ page : j < i
      /\ Cardinality(page) <= PageSize
      /\ Cardinality(page) < PageSize => page = Older
  BY DEF Pages, Keep
<1>4. /\ \A i \in Id : result'[i] = IF i \in Keep(page) THEN 1 ELSE result[i]
      /\ \A i \in Id : result'[i] > 0 => i \in used
      /\ NoneTwice'
  BY <1>1, <1>2, <1>3, PushOnce
(* An order that stays and was not pushed before is on the page or below it. *)
<1>5. \A i \in stayed \cap Registered : result[i] > 0 \/ i \in Older
  BY <1>2, IdAssumption DEF PagesInv, Older, TypeInv, TypeOK
<1>6. CASE MayHaveMore(Keep(page))
  <2>1. /\ Keep(page) = page /\ LastOf(page) \in page
        /\ \A j \in page : LastOf(page) <= j
    BY <1>6, KeptOfPage
  <2>2. cursor' = LastOf(page) /\ pc' = "ask" /\ ~cut'
    BY <1>1, <1>2, <1>6, <2>1
  <2>3. cursor' \in Older /\ cursor' # Empty /\ Older \subseteq Id /\ Id \subseteq Nat
    BY <2>1, <2>2, <1>3, IdAssumption DEF Older, TypeInv, TypeOK
  <2>4. ASSUME NEW i \in Id, i < cursor' PROVE result'[i] = 0
    <3>1. i \notin page
      BY <2>1, <2>2, <2>3, <2>4, <1>3
    <3>2. cursor = Empty \/ i < cursor
      BY <2>3, <2>4, IdAssumption DEF Older, TypeInv, TypeOK
    <3> QED BY <3>1, <3>2, <1>2, <1>4, <2>1 DEF PagesInv
  <2>5. ASSUME NEW i \in stayed \cap Registered PROVE result'[i] > 0 \/ i < cursor'
    <3>1. i \in Id /\ result[i] \in Nat
      BY IdAssumption DEF TypeInv, TypeOK
    <3>2. CASE result[i] > 0
      BY <3>1, <3>2, <1>4
    <3>3. CASE i \in page
      BY <3>1, <3>3, <1>4, <2>1
    <3>4. CASE i \in Older \ page
      BY <3>4, <1>3, <2>1, <2>2
    <3> QED BY <3>2, <3>3, <3>4, <1>5
  <2> QED BY <1>2, <1>4, <2>2, <2>3, <2>4, <2>5 DEF PagesInv, NoneMissed
<1>7. CASE ~MayHaveMore(Keep(page))
  <2>1. pc' = "done"
    BY <1>1, <1>7
  <2>2. ASSUME ~cut' PROVE page = Older
    <3>1. Cardinality(page) # PageSize \/ Keep(page) = page
      BY <2>2, <1>1
    <3>2. Cardinality(page) \in Nat /\ Cardinality(Keep(page)) \in Nat /\ PageSize \in Nat
      BY KeptOfPage, SizeAssumption
    <3>3. Cardinality(Keep(page)) < PageSize
      BY <3>2, <1>7 DEF MayHaveMore
    <3> QED BY <3>1, <3>2, <3>3, <1>3
  <2>3. NoneMissed'
    <3> SUFFICES ASSUME ~cut', NEW i \in stayed \cap Registered PROVE result'[i] > 0
      BY <1>2 DEF NoneMissed
    <3>1. i \in Id /\ result[i] \in Nat
      BY IdAssumption DEF TypeInv, TypeOK
    <3>2. i \in Older => i \in Keep(page)
      BY <2>2 DEF Keep
    <3> QED BY <3>1, <3>2, <1>4, <1>5
  <2> QED BY <1>2, <1>4, <2>1, <2>3 DEF PagesInv
<1> QED BY <1>6, <1>7

LEMMA FailInv == TypeInv /\ PagesInv /\ Fail => PagesInv'
<1> SUFFICES ASSUME TypeInv, PagesInv, Fail PROVE PagesInv'
  OBVIOUS
<1>1. PICK page \in Pages : \E part \in SUBSET page : Push(Keep(part))
  BY DEF Fail
<1>2. PICK part \in SUBSET page : Push(Keep(part))
  BY <1>1
<1>3. Keep(part) \in SUBSET Older
  BY <1>2 DEF Pages, Keep
<1>4. pc = "ask" /\ pc' = "done" /\ failed' /\ used' = used
  BY DEF Fail
<1>5. /\ \A i \in Id : result'[i] > 0 => i \in used
      /\ NoneTwice'
  BY <1>2, <1>3, <1>4, PushOnce
<1> QED BY <1>4, <1>5 DEF PagesInv, NoneMissed

(* An order that ends, or is placed, moves none that stays. *)
LEMMA MarketInv ==
  ASSUME TypeInv, PagesInv, NEW i \in Id, Place(i) \/ End(i)
  PROVE  PagesInv'
<1>1. used \subseteq used' /\ stayed' \subseteq stayed
      /\ UNCHANGED <<cursor, result, pc, cut, failed>>
  BY DEF Place, End
<1> QED BY <1>1 DEF PagesInv, NoneMissed, NoneTwice

(* The inductive invariant of the query, for every page size and set of ids. *)
THEOREM PagesInvariant == Spec => []IInv
<1>1. IInv /\ [Next]_vars => IInv'
  <2> SUFFICES ASSUME TypeInv, PagesInv, [Next]_vars PROVE IInv'
    BY DEF IInv
  <2>1. TypeInv'
    BY TypeStep
  <2>2. PagesInv'
    <3>1. CASE UNCHANGED vars
      BY <3>1 DEF vars, PagesInv, NoneMissed, NoneTwice
    <3> QED BY <3>1, ReadPageInv, FailInv, MarketInv DEF Next
  <2> QED BY <2>1, <2>2 DEF IInv
<1> QED BY <1>1, InitInv, PTL DEF Spec

(* The query is well typed: the cursor is an id the exchange gave, and never  *)
(* a number next to one.                                                      *)
THEOREM TypeCorrect == Spec => []TypeOK
<1>1. IInv => TypeOK
  BY DEF IInv, TypeInv
<1> QED BY <1>1, PagesInvariant, PTL

(* No order that stays pending is missed by a query that does not fail and    *)
(* meets no unregistered instrument on a full page.                           *)
THEOREM NoOrderMissed == Spec => []NoneMissed
<1>1. IInv => NoneMissed
  BY DEF IInv, PagesInv
<1> QED BY <1>1, PagesInvariant, PTL

(* No order is listed twice, whatever fails. *)
THEOREM NoOrderTwice == Spec => []NoneTwice
<1>1. IInv => NoneTwice
  BY DEF IInv, PagesInv
<1> QED BY <1>1, PagesInvariant, PTL
=============================================================================
