----------------------------- MODULE Ledger_proof -----------------------------
(***************************************************************************)
(* Proofs about the accounts of TradingEngine while only reports move them *)
(* (ChannelSpec), for every set of orders, terms and deposits and every    *)
(* number of lost connections.                                             *)
(***************************************************************************)
EXTENDS Ledger, TradingEngine_proof, FiniteSetTheorems, WellFoundedInduction

-----------------------------------------------------------------------------
(* Sums over finite sets. *)

(* A set function that adds f up over the subsets of S. *)
Adds(g, f, S) ==
  /\ g \in [SUBSET S -> Int]
  /\ g[{}] = 0
  /\ \A T \in SUBSET S : \A x \in T : g[T] = f[x] + g[T \ {x}]

(* Of a nonempty set of finite sets, one has no other below it. *)
LEMMA SmallestSet ==
  ASSUME NEW S, IsFiniteSet(S), NEW Sets \in SUBSET SUBSET S, Sets # {}
  PROVE  \E T \in Sets : \A U \in SUBSET S : U \subseteq T /\ U # T => U \notin Sets
<1> DEFINE R == StrictSubsetOrdering(S)
<1>1. IsWellFoundedOn(R, FiniteSubsetsOf(S)) /\ FiniteSubsetsOf(S) = SUBSET S
  BY FS_StrictSubsetOrderingWellFounded, FS_FiniteSubsetsOfFinite
<1>2. PICK T \in Sets : \A U \in Sets : <<U, T>> \notin R
  <2> HIDE DEF R
  <2> QED BY <1>1, WFMin
<1>3. ASSUME NEW U \in SUBSET S, U \subseteq T, U # T, U \in Sets PROVE FALSE
  <2>1. <<U, T>> \in R
    BY <1>3 DEF StrictSubsetOrdering
  <2> QED BY <1>2, <1>3, <2>1
<1> QED BY <1>2, <1>3

(* What can be added up over a set without x can be with it. *)
LEMMA AddsOneMore ==
  ASSUME NEW S, NEW f, NEW x \in S, \A y \in S : f[y] \in Int,
         NEW g, Adds(g, f, S \ {x})
  PROVE  \E e : Adds(e, f, S)
<1> DEFINE e == [T \in SUBSET S |-> IF x \in T THEN f[x] + g[T \ {x}] ELSE g[T]]
<1>1. \A T \in SUBSET S : T \ {x} \in SUBSET (S \ {x}) /\ (x \notin T => T \in SUBSET (S \ {x}))
  OBVIOUS
<1>2. \A T \in SUBSET (S \ {x}) : g[T] \in Int
  BY DEF Adds
<1>3. e \in [SUBSET S -> Int]
  BY <1>1, <1>2
<1>4. e[{}] = 0
  BY DEF Adds
<1>5. ASSUME NEW T \in SUBSET S, NEW y \in T PROVE e[T] = f[y] + e[T \ {y}]
  <2>1. CASE y = x
    <3>1. e[T] = f[x] + g[T \ {x}] /\ e[T \ {x}] = g[T \ {x}]
      BY <1>5, <2>1
    <3> QED BY <2>1, <3>1
  <2>2. CASE y # x /\ x \notin T
    <3>1. e[T] = g[T] /\ e[T \ {y}] = g[T \ {y}] /\ T \in SUBSET (S \ {x})
      BY <1>5, <2>2
    <3> QED BY <1>5, <3>1 DEF Adds
  <2>3. CASE y # x /\ x \in T
    <3> DEFINE U == T \ {x}
    <3>1. e[T] = f[x] + g[U] /\ U \in SUBSET (S \ {x}) /\ y \in U
      BY <1>5, <2>3
    <3>2. e[T \ {y}] = f[x] + g[(T \ {y}) \ {x}] /\ (T \ {y}) \ {x} = U \ {y}
      BY <1>5, <2>3
    <3>3. g[U] = f[y] + g[U \ {y}] /\ g[U] \in Int /\ g[U \ {y}] \in Int
      BY <3>1 DEF Adds
    <3>4. f[y] + g[U \ {y}] \in Int
      BY <3>3
    <3>6. f[x] \in Int /\ f[y] \in Int
      BY <1>5
    <3> HIDE DEF e, U
    <3>5. e[T] = f[x] + (f[y] + g[U \ {y}]) /\ e[T \ {y}] = f[x] + g[U \ {y}]
      BY <3>1, <3>2, <3>3
    <3> QED BY <3>3, <3>5, <3>6
  <2> QED BY <2>1, <2>2, <2>3
<1> HIDE DEF e
<1>6. Adds(e, f, S)
  BY <1>3, <1>4, <1>5 DEF Adds
<1> QED BY <1>6

(* Every function into the integers can be added up over a finite set. *)
LEMMA AddsExists ==
  ASSUME NEW S, IsFiniteSet(S), NEW f, \A y \in S : f[y] \in Int
  PROVE  \E g : Adds(g, f, S)
<1> DEFINE Sets == {T \in SUBSET S : ~ \E g : Adds(g, f, T)}
<1>1. SUFFICES ASSUME Sets # {} PROVE FALSE
  BY <1>1
<1>2. PICK T \in Sets : \A U \in SUBSET S : U \subseteq T /\ U # T => U \notin Sets
  <2>1. Sets \in SUBSET SUBSET S
    OBVIOUS
  <2> HIDE DEF Sets
  <2> QED BY <1>1, <2>1, SmallestSet
<1>3. CASE T = {}
  <2> DEFINE g == [U \in SUBSET {} |-> 0]
  <2>1. Adds(g, f, {})
    BY DEF Adds
  <2> QED BY <1>2, <1>3, <2>1
<1>4. CASE T # {}
  <2>1. PICK x \in T : TRUE
    BY <1>4
  <2>2. T \ {x} \in SUBSET S /\ T \ {x} \notin Sets /\ T \subseteq S
    BY <1>2, <2>1
  <2>3. PICK g : Adds(g, f, T \ {x})
    BY <2>2
  <2>4. \E e : Adds(e, f, T)
    BY <2>1, <2>2, <2>3, AddsOneMore
  <2> QED BY <1>2, <2>4
<1> QED BY <1>3, <1>4

(* The sum over a finite set is what any such set function says it is. *)
LEMMA SumOfAdds ==
  ASSUME NEW S, IsFiniteSet(S), NEW f, NEW g, Adds(g, f, S)
  PROVE  SumFunctionOnSet(f, S) = g[S]
<1> DEFINE Pick(s) == CHOOSE x \in s : TRUE
           Fold(it) == [s \in SUBSET S |->
                          IF s = {} THEN 0 ELSE f[Pick(s)] + it[s \ {Pick(s)}]]
           iter == CHOOSE it : it = Fold(it)
<1>1. SumFunctionOnSet(f, S) = iter[S]
  BY DEF SumFunctionOnSet, FoldFunctionOnSet, MapThenFoldSet
<1>2. \A s \in SUBSET S : s # {} => Pick(s) \in s
  OBVIOUS
<1> HIDE DEF Pick
<1>3. g = Fold(g)
  <2>1. \A s \in SUBSET S : g[s] = IF s = {} THEN 0 ELSE f[Pick(s)] + g[s \ {Pick(s)}]
    BY <1>2 DEF Adds
  <2>2. g = [s \in SUBSET S |-> g[s]]
    BY DEF Adds
  <2> QED BY <2>1, <2>2
<1>4. iter = Fold(iter)
  <2> HIDE DEF Fold
  <2> QED BY <1>3
<1> HIDE DEF iter
<1>5. \A s \in SUBSET S : iter[s] = IF s = {} THEN 0 ELSE f[Pick(s)] + iter[s \ {Pick(s)}]
  BY <1>4
<1> DEFINE Sets == {s \in SUBSET S : iter[s] # g[s]}
<1>6. ASSUME Sets # {} PROVE FALSE
  <2>1. PICK T \in Sets : \A U \in SUBSET S : U \subseteq T /\ U # T => U \notin Sets
    <3>1. Sets \in SUBSET SUBSET S
      OBVIOUS
    <3> HIDE DEF Sets
    <3> QED BY <1>6, <3>1, SmallestSet
  <2>2. T # {}
    BY <1>5, <2>1 DEF Adds
  <2> DEFINE x == Pick(T)
             U == T \ {x}
  <2>3. x \in T /\ U \in SUBSET S /\ U # T /\ U \subseteq T
    BY <1>2, <2>1, <2>2
  <2>4. iter[U] = g[U]
    BY <2>1, <2>3
  <2>5. iter[T] = f[x] + iter[U]
    BY <1>5, <2>1, <2>2
  <2>6. g[T] = f[x] + g[U]
    BY <2>1, <2>3 DEF Adds
  <2> QED BY <2>1, <2>4, <2>5, <2>6
<1>7. iter[S] = g[S]
  BY <1>6
<1> QED BY <1>1, <1>7

(* The empty sum, and a sum with one of its terms taken out. *)
LEMMA SumTerm ==
  ASSUME NEW S, IsFiniteSet(S), NEW f, \A y \in S : f[y] \in Int
  PROVE  /\ SumFunctionOnSet(f, S) \in Int
         /\ S = {} => SumFunctionOnSet(f, S) = 0
         /\ \A x \in S : SumFunctionOnSet(f, S) = f[x] + SumFunctionOnSet(f, S \ {x})
<1>1. PICK g : Adds(g, f, S)
  BY AddsExists
<1>2. SumFunctionOnSet(f, S) = g[S]
  BY <1>1, SumOfAdds
<1>3. ASSUME NEW x \in S PROVE SumFunctionOnSet(f, S \ {x}) = g[S \ {x}]
  <2> DEFINE U == S \ {x}
             k == [T \in SUBSET U |-> g[T]]
  <2>1. SUBSET U \subseteq SUBSET S /\ U \in SUBSET U
    OBVIOUS
  <2>2. IsFiniteSet(U)
    BY FS_Subset
  <2>3. k \in [SUBSET U -> Int] /\ k[{}] = 0
    BY <1>1, <2>1 DEF Adds
  <2>4. ASSUME NEW T \in SUBSET U, NEW y \in T PROVE k[T] = f[y] + k[T \ {y}]
    <3>1. T \ {y} \in SUBSET U /\ T \in SUBSET S
      BY <2>1
    <3>2. g[T] = f[y] + g[T \ {y}]
      BY <1>1, <3>1 DEF Adds
    <3> QED BY <3>1, <3>2
  <2>5. Adds(k, f, U)
    <3> HIDE DEF k, U
    <3> QED BY <2>3, <2>4 DEF Adds
  <2>6. k[U] = g[U]
    BY <2>1
  <2> HIDE DEF k, U
  <2>7. SumFunctionOnSet(f, U) = g[U]
    BY <2>2, <2>5, <2>6, SumOfAdds
  <2> QED BY <2>7 DEF U
<1> QED BY <1>1, <1>2, <1>3 DEF Adds

(* A sum of what is at most as much, term by term, is at most as much. *)
LEMMA SumAtMost ==
  ASSUME NEW S, IsFiniteSet(S), NEW f, NEW g,
         \A y \in S : f[y] \in Int /\ g[y] \in Int /\ f[y] <= g[y]
  PROVE  SumFunctionOnSet(f, S) <= SumFunctionOnSet(g, S)
<1> DEFINE Sets == {T \in SUBSET S : ~ (SumFunctionOnSet(f, T) <= SumFunctionOnSet(g, T))}
<1>1. SUFFICES ASSUME Sets # {} PROVE FALSE
  OBVIOUS
<1>2. PICK T \in Sets : \A U \in SUBSET S : U \subseteq T /\ U # T => U \notin Sets
  <2>1. Sets \in SUBSET SUBSET S
    OBVIOUS
  <2> HIDE DEF Sets
  <2> QED BY <1>1, <2>1, SmallestSet
<1>3. IsFiniteSet(T) /\ \A y \in T : f[y] \in Int /\ g[y] \in Int /\ f[y] <= g[y]
  BY <1>2, FS_Subset
<1>4. T # {}
  BY <1>2, <1>3, SumTerm
<1>5. PICK x \in T : TRUE
  BY <1>4
<1>6. SumFunctionOnSet(f, T \ {x}) <= SumFunctionOnSet(g, T \ {x})
  BY <1>2, <1>5
<1>7. /\ SumFunctionOnSet(f, T) = f[x] + SumFunctionOnSet(f, T \ {x})
      /\ SumFunctionOnSet(g, T) = g[x] + SumFunctionOnSet(g, T \ {x})
  BY <1>3, <1>5, SumTerm
<1>8. SumFunctionOnSet(f, T \ {x}) \in Int /\ SumFunctionOnSet(g, T \ {x}) \in Int
  <2>1. IsFiniteSet(T \ {x})
    BY <1>3, FS_Subset
  <2> QED BY <1>3, <2>1, SumTerm
<1>9. f[x] \in Int /\ g[x] \in Int /\ f[x] <= g[x]
  BY <1>3, <1>5
<1> QED BY <1>2, <1>6, <1>7, <1>8, <1>9

(* A sum one of whose terms changes changes by as much. *)
LEMMA SumChange ==
  ASSUME NEW S, IsFiniteSet(S), NEW f, NEW g, NEW x \in S,
         \A y \in S : f[y] \in Int /\ g[y] \in Int,
         \A y \in S : y # x => f[y] = g[y]
  PROVE  SumFunctionOnSet(g, S) = SumFunctionOnSet(f, S) + (g[x] - f[x])
<1> DEFINE U == S \ {x}
<1>1. IsFiniteSet(U) /\ \A y \in U : f[y] \in Int /\ g[y] \in Int /\ f[y] = g[y]
  BY FS_Subset
<1>2. SumFunctionOnSet(f, U) \in Int /\ SumFunctionOnSet(g, U) \in Int
  <2> HIDE DEF U
  <2> QED BY <1>1, SumTerm
<1>3. SumFunctionOnSet(f, U) = SumFunctionOnSet(g, U)
  <2>1. SumFunctionOnSet(f, U) <= SumFunctionOnSet(g, U)
    <3>1. \A y \in U : f[y] \in Int /\ g[y] \in Int /\ f[y] <= g[y]
      BY <1>1
    <3> HIDE DEF U
    <3> QED BY <1>1, <3>1, SumAtMost
  <2>2. SumFunctionOnSet(g, U) <= SumFunctionOnSet(f, U)
    <3>1. \A y \in U : g[y] \in Int /\ f[y] \in Int /\ g[y] <= f[y]
      BY <1>1
    <3> HIDE DEF U
    <3> QED BY <1>1, <3>1, SumAtMost
  <2> QED BY <1>2, <2>1, <2>2
<1>4. /\ SumFunctionOnSet(f, S) = f[x] + SumFunctionOnSet(f, U)
      /\ SumFunctionOnSet(g, S) = g[x] + SumFunctionOnSet(g, U)
  BY SumTerm
<1>5. f[x] \in Int /\ g[x] \in Int
  OBVIOUS
<1> HIDE DEF U
<1> QED BY <1>2, <1>3, <1>4, <1>5

(* A sum that takes one more term, with the others as they were. *)
LEMMA SumMore ==
  ASSUME NEW S, IsFiniteSet(S), NEW f, NEW g, NEW x, x \notin S,
         \A y \in S \cup {x} : g[y] \in Int,
         \A y \in S : f[y] = g[y]
  PROVE  SumFunctionOnSet(g, S \cup {x}) = SumFunctionOnSet(f, S) + g[x]
<1>1. IsFiniteSet(S \cup {x}) /\ (S \cup {x}) \ {x} = S
  BY FS_AddElement
<1>2. \A y \in S : f[y] \in Int /\ g[y] \in Int /\ f[y] <= g[y] /\ g[y] <= f[y]
  OBVIOUS
<1>3. SumFunctionOnSet(f, S) \in Int /\ SumFunctionOnSet(g, S) \in Int
  BY <1>2, SumTerm
<1>4. SumFunctionOnSet(f, S) = SumFunctionOnSet(g, S)
  <2>1. SumFunctionOnSet(f, S) <= SumFunctionOnSet(g, S)
    BY <1>2, SumAtMost
  <2>2. SumFunctionOnSet(g, S) <= SumFunctionOnSet(f, S)
    BY <1>2, SumAtMost
  <2> QED BY <1>3, <2>1, <2>2
<1>5. SumFunctionOnSet(g, S \cup {x}) = g[x] + SumFunctionOnSet(g, S)
  BY <1>1, SumTerm
<1> QED BY <1>3, <1>4, <1>5

(* Term by term at most as much, but for one that may be more by d. *)
LEMMA SumWithin ==
  ASSUME NEW S, IsFiniteSet(S), NEW f, NEW g, NEW x \in S, NEW d \in Int,
         \A y \in S : f[y] \in Int /\ g[y] \in Int,
         \A y \in S : y # x => g[y] <= f[y],
         g[x] <= f[x] + d
  PROVE  SumFunctionOnSet(g, S) <= SumFunctionOnSet(f, S) + d
<1> DEFINE U == S \ {x}
<1>1. IsFiniteSet(U) /\ \A y \in U : g[y] \in Int /\ f[y] \in Int /\ g[y] <= f[y]
  BY FS_Subset
<1>2. SumFunctionOnSet(g, S) = g[x] + SumFunctionOnSet(g, U)
  BY SumTerm
<1>3. SumFunctionOnSet(f, S) = f[x] + SumFunctionOnSet(f, U)
  BY SumTerm
<1>4. g[x] \in Int /\ f[x] \in Int
  OBVIOUS
<1> HIDE DEF U
<1>5. SumFunctionOnSet(g, U) <= SumFunctionOnSet(f, U)
  BY <1>1, SumAtMost
<1>6. SumFunctionOnSet(g, U) \in Int /\ SumFunctionOnSet(f, U) \in Int
  BY <1>1, SumTerm
<1> QED BY <1>2, <1>3, <1>4, <1>5, <1>6

(* A sum over part of a set is at most the sum over the whole, when no term   *)
(* is negative.                                                               *)
LEMMA SumPart ==
  ASSUME NEW S, IsFiniteSet(S), NEW T \in SUBSET S, NEW f, \A y \in S : f[y] \in Nat
  PROVE  SumFunctionOnSet(f, T) <= SumFunctionOnSet(f, S)
<1> DEFINE Sets == {U \in SUBSET S : T \subseteq U /\ ~ (SumFunctionOnSet(f, T) <= SumFunctionOnSet(f, U))}
<1>1. SUFFICES ASSUME Sets # {} PROVE FALSE
  OBVIOUS
<1>2. PICK U \in Sets : \A V \in SUBSET S : V \subseteq U /\ V # U => V \notin Sets
  <2>1. Sets \in SUBSET SUBSET S
    OBVIOUS
  <2> HIDE DEF Sets
  <2> QED BY <1>1, <2>1, SmallestSet
<1>3. IsFiniteSet(U) /\ IsFiniteSet(T) /\ \A y \in U : f[y] \in Nat /\ f[y] \in Int
  BY <1>2, FS_Subset
<1>4. SumFunctionOnSet(f, T) \in Int
  BY <1>3, SumTerm
<1>5. U # T
  BY <1>2, <1>4
<1>6. PICK x \in U : x \notin T
  BY <1>2, <1>5
<1>7. SumFunctionOnSet(f, T) <= SumFunctionOnSet(f, U \ {x})
  BY <1>2, <1>6
<1>8. SumFunctionOnSet(f, U) = f[x] + SumFunctionOnSet(f, U \ {x})
  BY <1>3, <1>6, SumTerm
<1>9. SumFunctionOnSet(f, U \ {x}) \in Int /\ f[x] \in Nat
  <2>1. IsFiniteSet(U \ {x})
    BY <1>3, FS_Subset
  <2> QED BY <1>3, <1>6, <2>1, SumTerm
<1> QED BY <1>2, <1>4, <1>7, <1>8, <1>9

(* A sum is over the terms that are not zero.                                 *)
LEMMA SumOthersZero ==
  ASSUME NEW S, IsFiniteSet(S), NEW T \in SUBSET S, NEW f, NEW g,
         \A y \in S : g[y] \in Int,
         \A y \in T : f[y] = g[y],
         \A y \in S : y \notin T => g[y] = 0
  PROVE  SumFunctionOnSet(f, T) = SumFunctionOnSet(g, S)
<1>1. IsFiniteSet(T) /\ \A y \in T : f[y] \in Int /\ g[y] \in Int
  BY FS_Subset
<1>2. SumFunctionOnSet(f, T) = SumFunctionOnSet(g, T)
  <2>1. \A y \in T : f[y] <= g[y] /\ g[y] <= f[y]
    BY <1>1
  <2>2. SumFunctionOnSet(f, T) <= SumFunctionOnSet(g, T)
    BY <1>1, <2>1, SumAtMost
  <2>3. SumFunctionOnSet(g, T) <= SumFunctionOnSet(f, T)
    BY <1>1, <2>1, SumAtMost
  <2> QED BY <1>1, <2>2, <2>3, SumTerm
<1> DEFINE Sets == {U \in SUBSET S : T \subseteq U /\ SumFunctionOnSet(g, T) # SumFunctionOnSet(g, U)}
<1>3. SUFFICES ASSUME Sets # {} PROVE FALSE
  BY <1>2
<1>4. PICK U \in Sets : \A V \in SUBSET S : V \subseteq U /\ V # U => V \notin Sets
  <2>1. Sets \in SUBSET SUBSET S
    OBVIOUS
  <2> HIDE DEF Sets
  <2> QED BY <1>3, <2>1, SmallestSet
<1>5. IsFiniteSet(U) /\ \A y \in U : g[y] \in Int
  BY <1>4, FS_Subset
<1>6. PICK x \in U : x \notin T
  BY <1>4
<1>7. SumFunctionOnSet(g, T) = SumFunctionOnSet(g, U \ {x})
  BY <1>4, <1>6
<1>8. SumFunctionOnSet(g, U) = g[x] + SumFunctionOnSet(g, U \ {x}) /\ g[x] = 0
  BY <1>4, <1>5, <1>6, SumTerm
<1>9. SumFunctionOnSet(g, U \ {x}) \in Int
  <2>1. IsFiniteSet(U \ {x})
    BY <1>5, FS_Subset
  <2> QED BY <1>5, <2>1, SumTerm
<1> QED BY <1>4, <1>7, <1>8, <1>9

-----------------------------------------------------------------------------
(* Between two rounds of the reconciler the engine is what it always is.      *)

(* The steps of ChannelSpec are steps of Spec. *)
LEMMA ChannelStep == [ChannelNext]_vars => [Next]_vars
BY DEF Next

-----------------------------------------------------------------------------
(* Reports are applied in the order of the events they report (AppliedInv).   *)

(* What is to be applied are reports the exchange confirms, about orders it   *)
(* has decided on.                                                            *)
LEMMA ToApplyTrue ==
  ASSUME TypeOK, EngineInv
  PROVE  /\ InHand => ~Idle(Listener) /\ h[Listener].report \in Report
         /\ \A r \in ToApply : /\ r \in Report /\ TrueReport(r)
                               /\ exch[r.order].st # "unknown"
<1>1. InHand => ~Idle(Listener)
  BY DEF InHand, Idle
<1>2. InHand => /\ h[Listener].report \in Report
                /\ TrueReport(h[Listener].report)
  BY <1>1, ThreadsTyped, ReportOf DEF TypeOK, EngineInv, Believes, Truthful
<1>3. \A r \in Range(inbox) : r \in Report /\ TrueReport(r)
  BY RangeOfSeq DEF TypeOK, EngineInv, Believes, Truthful
<1>4. \A r \in ToApply : r \in Report /\ TrueReport(r)
  BY <1>2, <1>3 DEF ToApply
<1> QED BY <1>1, <1>2, <1>4, TrueIsKnown

(* What a trade makes of its order, and what is said of it. *)
LEMMA TradeIs ==
  ASSUME TypeOK, NEW o \in Order, NEW n \in 1 .. Terms[o].volume, NEW d \in Offered(o), Trade(o, n, d)
  PROVE  /\ n \in Nat /\ n > 0 /\ d \in Deal /\ d.price \in Nat /\ d.fee \in Int
         /\ Open(o) /\ exch'[o].st = (IF exch'[o].filled = Terms[o].volume THEN "filled" ELSE "open")
         /\ exch'[o].filled = exch[o].filled + n /\ exch'[o].filled \in Nat \ {0}
         /\ exch[o].filled <= exch'[o].filled /\ exch'[o].filled <= Terms[o].volume
         /\ exch'[o].value = exch[o].value + d.price * n /\ exch'[o].value \in Nat
         /\ exch'[o].deals = exch[o].deals \cup {d}
         /\ \A x \in Order : x # o => exch'[x] = exch[x]
         /\ LET r == FillReport(o, IF exch'[o].st = "filled" THEN "FILLED" ELSE "PARTIALLY_FILLED",
                               exch'[o].filled, exch'[o].value \div exch'[o].filled, d.fee)
            IN  r \in Report /\ Notify(Terms[o].market, r)
<1> DEFINE filled == exch[o].filled + n
           value  == exch[o].value + d.price * n
           done   == filled = Terms[o].volume
           status == IF done THEN "FILLED" ELSE "PARTIALLY_FILLED"
           e      == [st |-> IF done THEN "filled" ELSE "open", filled |-> filled, value |-> value,
                      fee |-> exch[o].fee + d.fee, deals |-> exch[o].deals \cup {d}]
<1>1. exch \in [Order -> [st : ExchState, filled : Nat, value : Nat, fee : Int, deals : SUBSET Deal]]
  BY DEF TypeOK
<1>2. n \in Nat /\ n > 0 /\ d \in Deal /\ d.price \in Nat /\ d.fee \in Int
  BY OfferedTyped, TermsSplit
<1>3. exch[o].filled \in Nat /\ exch[o].value \in Nat
  BY <1>1
<1>4. filled \in Nat \ {0} /\ exch[o].filled <= filled
  BY <1>2, <1>3
<1>5. value \in Nat
  BY <1>2, <1>3, ProductNat
<1> HIDE DEF value
<1>6. /\ Open(o) /\ filled <= Terms[o].volume /\ exch' = [exch EXCEPT ![o] = e]
      /\ Notify(Terms[o].market, FillReport(o, status, filled, value \div filled, d.fee))
  BY <1>1 DEF Trade, value
<1>7. exch'[o] = e /\ \A x \in Order : x # o => exch'[x] = exch[x]
  BY <1>1, <1>6
<1>8. FillReport(o, status, filled, value \div filled, d.fee) \in Report
  <2>1. status \in Status
    BY DEF Status, Terminal
  <2>2. value \div filled \in Nat
    <3> HIDE DEF filled
    <3> QED BY <1>4, <1>5, AverageNat
  <2> QED BY <1>2, <1>4, <2>1, <2>2, FillReportTyped
<1> QED BY <1>2, <1>4, <1>5, <1>6, <1>7, <1>8 DEF value

(* The average of fills at one price is that price. *)
LEMMA AverageOfOne ==
  ASSUME NEW p \in Nat, NEW n \in Nat \ {0}
  PROVE  (p * n) \div n = p
OBVIOUS

(* No order is filled beyond its volume, nor before it is accepted; and what  *)
(* is filled at one price is worth that price.                                *)
LEMMA VolumesKept ==
  ASSUME TypeOK, TypeOK', SentOnce, Volumes, [ChannelNext]_vars
  PROVE  Volumes'
<1>1. CASE exch' = exch
  BY <1>1 DEF Volumes, FilledAt
<1>2. ASSUME NEW o \in Order, NEW n \in 1 .. Terms[o].volume, NEW d \in Offered(o), Trade(o, n, d)
      PROVE  Volumes'
  <2>1. /\ exch'[o].st \in {"filled", "open"} /\ exch'[o].filled <= Terms[o].volume
        /\ exch'[o].filled = exch[o].filled + n /\ n \in Nat /\ d.price \in Nat
        /\ exch'[o].value = exch[o].value + d.price * n
        /\ exch'[o].deals = exch[o].deals \cup {d}
        /\ \A x \in Order : x # o => exch'[x] = exch[x]
    BY <1>2, TradeIs
  <2>2. ASSUME NEW p \in Nat, FilledAt(o, p)' PROVE exch'[o].value = p * exch'[o].filled
    <3>1. d.price = p /\ FilledAt(o, p)
      BY <2>1, <2>2 DEF FilledAt
    <3>2. exch[o].value = p * exch[o].filled /\ exch[o].filled \in Nat
      BY <3>1 DEF Volumes, TypeOK
    <3>3. p * exch[o].filled + p * n = p * (exch[o].filled + n)
      BY <2>1, <3>2
    <3> QED BY <2>1, <3>1, <3>2, <3>3
  <2>3. ASSUME NEW x \in Order, x # o
        PROVE  /\ exch'[x].filled <= Terms[x].volume
               /\ exch'[x].st \in {"unknown", "refused"} => exch'[x].filled = 0 /\ exch'[x].deals = {}
               /\ \A p \in Nat : FilledAt(x, p)' => exch'[x].value = p * exch'[x].filled
    BY <2>1, <2>3 DEF Volumes, FilledAt
  <2> QED BY <2>1, <2>2, <2>3 DEF Volumes
<1>3. ASSUME NEW o \in Order, NEW st \in ExchState, exch' = [exch EXCEPT ![o].st = st],
             exch[o].st \in {"unknown", "open"}, st = "open" => exch[o].st = "unknown",
             st # "unknown", st = "refused" => exch[o].st = "unknown"
      PROVE  Volumes'
  <2>1. exch \in [Order -> [st : ExchState, filled : Nat, value : Nat, fee : Int, deals : SUBSET Deal]]
    BY DEF TypeOK
  <2>2. \A x \in Order : /\ exch'[x].filled = exch[x].filled /\ exch'[x].value = exch[x].value
                          /\ exch'[x].deals = exch[x].deals
                          /\ exch'[x].st = IF x = o THEN st ELSE exch[x].st
    BY <1>3, <2>1
  <2> QED BY <1>3, <2>2 DEF Volumes, FilledAt
<1>4. ASSUME NEW o \in Order, Cancel(o) PROVE Volumes'
  <2>1. exch' = [exch EXCEPT ![o].st = "cancelled"] /\ exch[o].st = "open"
    BY <1>4 DEF Cancel, Open
  <2> QED BY <1>3, <2>1 DEF ExchState
<1>5. ASSUME Accept \/ Refuse PROVE Volumes'
  <2>1. wire # <<>> /\ \E st \in {"open", "refused"} : exch' = [exch EXCEPT ![Head(wire)].st = st]
    BY <1>5 DEF Accept, Refuse
  <2>2. Head(wire) \in Order /\ Head(wire) \in Range(wire)
    <3>1. wire \in Seq(Order) /\ wire # <<>>
      BY <2>1 DEF TypeOK
    <3>2. Range(wire) = {Head(wire)} \cup Range(Tail(wire))
      BY <3>1, RangeTail
    <3> QED BY <3>2, RangesTyped
  <2>3. exch[Head(wire)].st = "unknown"
    BY <2>2 DEF SentOnce, InFlight
  <2> QED BY <1>3, <2>1, <2>2, <2>3 DEF ExchState
<1>6. CASE UNCHANGED vars
  BY <1>1, <1>6 DEF vars, exchangeVars
<1>7. ASSUME \/ \E o \in Order : Emit(o)
             \/ Dispatch \/ Send \/ Drop \/ Reconnect \/ Receive \/ ApplyBalance \/ Handle(Listener)
             \/ \E c \in Currency : PushBalance(c)
      PROVE  Volumes'
  <2>1. exch' = exch
    BY <1>7 DEF Emit, Dispatch, Send, Drop, Reconnect, Receive, ApplyBalance, Handle, PushBalance,
                exchangeVars
  <2> QED BY <1>1, <2>1
<1> QED BY <1>2, <1>4, <1>5, <1>6, <1>7 DEF ChannelNext, ExchangeStep, ListenerStep

(* A step that makes no report and ends no application: what is to be applied *)
(* is part of what was, in the same order.                                    *)
LEMMA NothingNew ==
  ASSUME TypeOK, TypeOK', Grows, AppliedInv, UNCHANGED <<applied, tracker>>,
         inbox' = inbox \/ inbox' = <<>>,
         InHand' => InHand /\ h'[Listener].report = h[Listener].report
  PROVE  AppliedInv' /\ ToApply' \subseteq ToApply
<1>1. Range(inbox') \subseteq Range(inbox)
  BY RangeEmpty
<1>2. ToApply' \subseteq ToApply
  BY <1>1 DEF ToApply
<1>3. InOrder'
  <2>1. \A i, j \in DOMAIN inbox' : i < j => Before(inbox'[i], inbox'[j])
    BY DEF AppliedInv, InOrder
  <2>2. InHand' => \A r \in Range(inbox') : Before(h'[Listener].report, r)
    BY <1>1 DEF AppliedInv, InOrder
  <2> QED BY <2>1, <2>2 DEF InOrder, Before
<1>4. ASSUME NEW o \in Order PROVE (Following(o) \/ Ended(o))'
  <2>1. CASE Following(o)
    BY <1>2, <2>1 DEF Following
  <2>2. CASE Ended(o)
    <3>1. applied[o] \in Nat /\ exch[o].filled \in Nat /\ exch'[o].filled \in Nat
      BY DEF TypeOK, HandlerTypeOK
    <3> QED BY <1>2, <2>2, <3>1 DEF Ended, Grows, Closed
  <2> QED BY <2>1, <2>2 DEF AppliedInv
<1> QED BY <1>2, <1>3, <1>4 DEF AppliedInv

(* What the exchange does to an order it has not closed, reported. *)
LEMMA Reported ==
  ASSUME TypeOK, TypeOK', Grows, AppliedInv, UNCHANGED <<applied, tracker, h>>,
         NEW r \in Report, NEW channel, Notify(channel, r),
         ~Closed(r.order), applied[r.order] <= r.filled,
         \A s \in ToApply : Before(s, r)
  PROVE  AppliedInv' /\ ToApply' \subseteq ToApply \cup {r}
<1>1. CASE inbox' = inbox
  BY <1>1, NothingNew DEF InHand
<1>2. CASE inbox' = Append(inbox, r)
  <2>1. inbox \in Seq(Report)
    BY DEF TypeOK
  <2>2. Range(inbox') = Range(inbox) \cup {r}
    BY <1>2, <2>1, RangeAppend
  <2>3. (InHand <=> InHand') /\ ToApply' \subseteq ToApply \cup {r}
    BY <2>2 DEF ToApply, InHand
  <2>4. InOrder'
    <3>1. /\ Len(inbox) \in Nat /\ DOMAIN inbox = 1 .. Len(inbox)
          /\ DOMAIN inbox' = 1 .. Len(inbox) + 1
          /\ \A i \in DOMAIN inbox : inbox'[i] = inbox[i] /\ inbox[i] \in ToApply
          /\ inbox'[Len(inbox) + 1] = r
      BY <1>2, <2>1, AppendProperties, LenProperties DEF ToApply, Range
    <3>2. ASSUME NEW i \in DOMAIN inbox', NEW j \in DOMAIN inbox', i < j
          PROVE  Before(inbox'[i], inbox'[j])
      <4>1. i \in DOMAIN inbox
        BY <3>1, <3>2
      <4>2. CASE j \in DOMAIN inbox
        BY <3>1, <3>2, <4>1, <4>2 DEF AppliedInv, InOrder
      <4>3. CASE j = Len(inbox) + 1
        BY <3>1, <4>1, <4>3
      <4> QED BY <3>1, <3>2, <4>2, <4>3
    <3>3. InHand => h[Listener].report \in ToApply
      BY DEF ToApply
    <3>4. InHand' => \A s \in Range(inbox') : Before(h'[Listener].report, s)
      BY <2>2, <2>3, <3>3 DEF AppliedInv, InOrder
    <3> QED BY <3>2, <3>4 DEF InOrder, Before
  <2>5. ASSUME NEW o \in Order PROVE (Following(o) \/ Ended(o))'
    <3>1. CASE Following(o)
      BY <2>3, <3>1 DEF Following
    <3>2. CASE Ended(o)
      <4>1. r.order # o
        BY <3>2 DEF Ended
      <4>2. applied[o] \in Nat /\ exch[o].filled \in Nat /\ exch'[o].filled \in Nat
        BY DEF TypeOK, HandlerTypeOK
      <4> QED BY <2>3, <3>2, <4>1, <4>2 DEF Ended, Grows, Closed
    <3> QED BY <3>1, <3>2 DEF AppliedInv
  <2> QED BY <2>3, <2>4, <2>5 DEF AppliedInv
<1> QED BY <1>1, <1>2 DEF Notify

(* What has been applied of an order was done by the exchange. *)
LEMMA AppliedIsDone ==
  ASSUME TypeOK, EngineInv, AppliedInv
  PROVE  AppliedOnce
<1> SUFFICES ASSUME NEW o \in Order PROVE applied[o] <= exch[o].filled
  BY DEF AppliedOnce
<1>1. tracker[o] <= exch[o].filled
  BY DEF EngineInv, Believes, TrackerBehind
<1> QED BY <1>1 DEF AppliedInv, Following, Ended

(* The exchange decides on a request: the report is the first of its order. *)
LEMMA DecisionReported ==
  ASSUME TypeOK, TypeOK', EngineInv, AppliedInv, Volumes, UNCHANGED <<applied, tracker, h>>,
         wire # <<>>, NEW st \in ExchState, exch' = [exch EXCEPT ![Head(wire)].st = st],
         NEW r \in Report, r.order = Head(wire), r.filled = 0, NEW channel, Notify(channel, r)
  PROVE  AppliedInv' /\ ToApply' \subseteq ToApply \cup {r}
<1>1. Grows /\ Head(wire) \in Order /\ Head(wire) \in Range(wire)
  BY DecideGrows DEF EngineInv, Believes
<1>2. exch[Head(wire)].st = "unknown"
  BY <1>1 DEF EngineInv, Believes, SentOnce, InFlight
<1>3. \A s \in ToApply : Before(s, r)
  BY <1>2, ToApplyTrue DEF Before
<1>4. applied[r.order] <= r.filled
  <2>1. applied[r.order] <= exch[r.order].filled
    BY <1>1, AppliedIsDone DEF AppliedOnce
  <2> QED BY <1>1, <1>2, <2>1 DEF Volumes
<1> QED BY <1>1, <1>2, <1>3, <1>4, Reported DEF Closed

(* The exchange fills or cancels an open order: the report says as much as    *)
(* any before it, and the others end nothing.                                 *)
LEMMA ChangeReported ==
  ASSUME TypeOK, TypeOK', EngineInv, AppliedInv, UNCHANGED <<applied, tracker, h>>,
         NEW o \in Order, Open(o), exch[o].filled <= exch'[o].filled,
         exch'[o].st \in {"open", "filled", "cancelled"},
         \A x \in Order : x # o => exch'[x] = exch[x],
         NEW r \in Report, r.order = o, r.filled = exch'[o].filled, NEW channel, Notify(channel, r)
  PROVE  AppliedInv' /\ ToApply' \subseteq ToApply \cup {r}
<1>1. Grows
  <2>1. ASSUME NEW x \in Order, x # o
        PROVE  exch'[x] = exch[x] /\ exch[x].filled <= exch'[x].filled
    <3>1. exch[x].filled \in Nat
      BY DEF TypeOK
    <3> QED BY <2>1, <3>1
  <2> QED BY <2>1 DEF Grows, Accepted, Open
<1>2. exch[o].filled \in Nat /\ exch'[o].filled \in Nat /\ applied[o] \in Nat
  BY DEF TypeOK, HandlerTypeOK
<1>3. ASSUME NEW s \in ToApply, s.order = o
      PROVE  s.status \notin Terminal /\ s.filled <= r.filled
  <2>1. s \in Report /\ TrueReport(s)
    BY <1>3, ToApplyTrue
  <2>2. s.filled \in Nat /\ s.filled <= exch[o].filled
    BY <1>3, <2>1 DEF Report, TrueReport
  <2>3. s.status \notin Terminal
    BY <1>3, <2>1 DEF TrueReport, Open, Terminal
  <2> QED BY <1>2, <2>2, <2>3
<1>4. applied[o] <= r.filled
  <2>1. applied[o] <= exch[o].filled
    BY AppliedIsDone DEF AppliedOnce
  <2> QED BY <1>2, <2>1
<1>5. ~Closed(r.order)
  BY DEF Open, Closed
<1> QED BY <1>1, <1>3, <1>4, <1>5, Reported DEF Before

(* The listener takes the next report in hand. *)
LEMMA ReceiveInOrder ==
  ASSUME TypeOK, TypeOK', AppliedInv, Receive
  PROVE  AppliedInv' /\ ToApply' = ToApply
<1> DEFINE r == Head(inbox)
<1>1. /\ Idle(Listener) /\ UNCHANGED <<applied, tracker, exch>>
      /\ inbox # <<>> /\ inbox' = Tail(inbox) /\ inbox \in Seq(Report)
      /\ h'[Listener].report = r /\ h'[Listener].pc \in {"track", "live?"}
  BY ThreadsTyped DEF Receive, Begin, exchangeVars, TypeOK, HandlerTypeOK
<1>2. Range(inbox) = {r} \cup Range(inbox')
  BY <1>1, RangeTail
<1>3. ~InHand /\ InHand'
  BY <1>1 DEF InHand, Idle
<1>4. ToApply' = ToApply
  BY <1>1, <1>2, <1>3 DEF ToApply
<1>5. InOrder'
  <2>1. /\ DOMAIN inbox = 1 .. Len(inbox) /\ Len(inbox) \in Nat /\ Len(inbox) # 0
        /\ DOMAIN inbox' = 1 .. Len(inbox) - 1 /\ r = inbox[1]
        /\ \A i \in DOMAIN inbox' : inbox'[i] = inbox[i + 1] /\ i + 1 \in DOMAIN inbox
    BY <1>1, HeadTailProperties, LenProperties, EmptySeq
  <2>2. ASSUME NEW i \in DOMAIN inbox', NEW j \in DOMAIN inbox', i < j
        PROVE  Before(inbox'[i], inbox'[j])
    <3>1. i + 1 \in DOMAIN inbox /\ j + 1 \in DOMAIN inbox /\ i + 1 < j + 1
      BY <2>1, <2>2
    <3> QED BY <2>1, <3>1 DEF AppliedInv, InOrder
  <2>3. ASSUME NEW s \in Range(inbox') PROVE Before(r, s)
    <3>1. PICK i \in DOMAIN inbox' : s = inbox'[i]
      BY <2>3 DEF Range
    <3>2. 1 \in DOMAIN inbox /\ i + 1 \in DOMAIN inbox /\ 1 < i + 1 /\ s = inbox[i + 1]
      BY <2>1, <3>1
    <3> HIDE DEF r
    <3> QED BY <2>1, <3>2 DEF AppliedInv, InOrder
  <2> QED BY <1>1, <2>2, <2>3 DEF InOrder, Before
<1>6. ASSUME NEW o \in Order PROVE (Following(o) \/ Ended(o))'
  BY <1>1, <1>4 DEF AppliedInv, Following, Ended, Closed
<1> QED BY <1>4, <1>5, <1>6 DEF AppliedInv

(* The report in hand is applied: what it says is now applied, or it was the  *)
(* last about its order.                                                      *)
LEMMA ApplyInOrder ==
  ASSUME TypeOK, TypeOK', EngineInv, AppliedInv, Handle(Listener), Apply(Listener)
  PROVE  AppliedInv' /\ ToApply' \subseteq ToApply
<1>1. InHand /\ ~Idle(Listener)
  BY DEF Apply, At, InHand, Idle
<1>a. PICK r \in Report : r = h[Listener].report
  BY <1>1, ToApplyTrue
<1>b. PICK o \in Order : o = r.order
  BY DEF Report
<1>2. r \in ToApply /\ TrueReport(r)
  BY <1>1, <1>a, ToApplyTrue DEF ToApply
<1>3. /\ UNCHANGED <<inbox, exch>> /\ ~InHand'
      /\ tracker' = TrackFill(r)
      /\ applied' = [applied EXCEPT ![o] =
                        IF r.status \in Filling THEN @ + AtLeast0(Increment(r)) ELSE @]
  <2>1. UNCHANGED <<inbox, exch>>
    BY DEF Handle, exchangeVars, channelVars, accountVars
  <2>2. h'[Listener].pc = "tell"
    BY <1>1, ThreadsTyped, ReportOf DEF Apply, GoTo, TypeOK, HandlerTypeOK
  <2> QED BY <1>a, <1>b, <2>1, <2>2 DEF Apply, InHand
<1>4. ToApply' = Range(inbox) /\ ToApply = Range(inbox) \cup {r}
  BY <1>1, <1>a, <1>3 DEF ToApply
<1>5. InOrder'
  BY <1>3 DEF AppliedInv, InOrder, Before
<1>6. /\ tracker[o] \in Nat /\ applied[o] \in Nat /\ exch[o].filled \in Nat /\ r.filled \in Nat
      /\ tracker \in [Order -> Nat] /\ applied \in [Order -> Nat]
  BY DEF TypeOK, HandlerTypeOK, Report
<1>7. Following(o)
  BY <1>b, <1>2 DEF AppliedInv, Ended
<1>8. \A s \in Range(inbox) : s \in Report /\ (s.order = o => r.status \notin Terminal /\ r.filled <= s.filled)
  BY <1>1, <1>a, <1>b, <1>4, ToApplyTrue DEF AppliedInv, InOrder, Before
<1>9. ASSUME NEW x \in Order, x # o PROVE (Following(x) \/ Ended(x))'
  <2>1. tracker'[x] = tracker[x] /\ applied'[x] = applied[x]
    BY <1>b, <1>3, <1>6, <1>9 DEF TrackFill
  <2> QED BY <1>3, <1>4, <1>9, <2>1 DEF AppliedInv, Following, Ended, Closed
<1>10. r.filled <= exch[o].filled /\ applied[o] = tracker[o] /\ applied[o] <= r.filled
  BY <1>b, <1>2, <1>7 DEF Following, TrueReport
<1>11. (Following(o) \/ Ended(o))'
  <2>1. CASE r.status = "PARTIALLY_FILLED"
    <3>1. tracker'[o] = r.filled /\ applied'[o] = r.filled
      BY <1>b, <1>3, <1>6, <1>10, <2>1 DEF TrackFill, Filling, Increment, AtLeast0
    <3> QED BY <1>3, <1>4, <1>8, <3>1 DEF Following
  <2>2. CASE r.status = "FILLED"
    <3>1. applied'[o] = r.filled
      BY <1>b, <1>3, <1>6, <1>10, <2>2 DEF Filling, Increment, AtLeast0
    <3>2. Closed(o)
      BY <1>b, <1>2, <2>2 DEF TrueReport, Closed
    <3> QED BY <1>3, <1>4, <1>8, <1>10, <2>2, <3>1, <3>2 DEF Ended, Closed, Terminal
  <2>3. CASE r.status = "CANCELLED"
    <3>1. applied'[o] = applied[o]
      BY <1>b, <1>3, <1>6, <2>3 DEF Filling
    <3>2. Closed(o)
      BY <1>b, <1>2, <2>3 DEF TrueReport, Closed
    <3>3. applied[o] <= exch[o].filled
      BY <1>6, <1>10
    <3> QED BY <1>3, <1>4, <1>8, <2>3, <3>1, <3>2, <3>3 DEF Ended, Closed, Terminal
  <2>4. CASE r.status \in {"NEW", "REJECTED"}
    <3>1. tracker'[o] = tracker[o] /\ applied'[o] = applied[o]
      BY <1>b, <1>3, <1>6, <2>4 DEF Filling, TrackFill
    <3> QED BY <1>3, <1>4, <1>7, <3>1 DEF Following
  <2> QED BY <2>1, <2>2, <2>3, <2>4 DEF Report, Status, Terminal
<1> QED BY <1>4, <1>5, <1>9, <1>11 DEF AppliedInv

(* The other steps of HandleOrderUpdate keep the report in hand or drop it. *)
LEMMA HandleInOrder ==
  ASSUME TypeOK, TypeOK', EngineInv, AppliedInv, Handle(Listener)
  PROVE  AppliedInv' /\ ToApply' \subseteq ToApply
<1>1. CASE Apply(Listener)
  BY <1>1, ApplyInOrder
<1>2. CASE ~Apply(Listener)
  <2>1. UNCHANGED <<inbox, exch>>
    BY DEF Handle, exchangeVars, channelVars, accountVars
  <2>2. UNCHANGED <<applied, tracker>>
    BY <1>2 DEF Handle, HandlerStep, CheckLive, CheckCid, RecoverBook, RecoverLive, SkipDuplicate,
                Track, Release, Tell
  <2>3. InHand' => InHand /\ h'[Listener].report = h[Listener].report
    <3>1. \A u \in Thread : ~Idle(u)' => ~Idle(u) /\ h'[u].report = h[u].report
      BY ThreadsTyped, InsideKeeps DEF EngineInv
    <3>2. At(Listener, "tell") => Tell(Listener)
      BY DEF Handle, HandlerStep, CheckLive, CheckCid, RecoverBook, RecoverLive, SkipDuplicate,
             Track, Release, Apply, Tell, At
    <3>3. Tell(Listener) => Idle(Listener)'
      BY ThreadsTyped DEF Tell, Return, Idle, TypeOK, HandlerTypeOK
    <3> QED BY <3>1, <3>2, <3>3, ThreadsTyped DEF InHand, Idle, At
  <2> QED BY <2>1, <2>2, <2>3, SameGrows, NothingNew
<1> QED BY <1>1, <1>2

(* What the exchange did stays done, and what it closed stays as it was. *)
LEMMA OnlyGrows ==
  ASSUME TypeOK, SentOnce, [ChannelNext]_vars
  PROVE  /\ Grows
         /\ \A o \in Order : Closed(o) => exch'[o] = exch[o]
         /\ \A o \in Order : exch[o].deals \subseteq exch'[o].deals
         /\ pushes <= pushes'
<1>0. exch \in [Order -> [st : ExchState, filled : Nat, value : Nat, fee : Int, deals : SUBSET Deal]] /\ pushes \in Int
  BY BoundsAssumption DEF TypeOK
<1>1. ASSUME \/ \E o \in Order : Emit(o)
             \/ Dispatch \/ Send \/ Drop \/ Reconnect \/ Receive \/ ApplyBalance \/ Handle(Listener)
             \/ \E c \in Currency : PushBalance(c)
             \/ UNCHANGED vars
      PROVE  exch' = exch /\ pushes <= pushes'
  <2>1. exch' = exch
    BY <1>1 DEF Emit, Dispatch, Send, Drop, Reconnect, Receive, ApplyBalance, Handle, PushBalance,
                vars, exchangeVars
  <2>2. pushes' = pushes \/ pushes' = pushes + 1
    BY <1>1 DEF Emit, Dispatch, Send, Drop, Reconnect, Receive, ApplyBalance, Handle, PushBalance,
                vars, channelVars, accountVars
  <2> QED BY <1>0, <2>1, <2>2
<1>2. ASSUME Accept \/ Refuse
      PROVE  /\ Grows /\ (\A o \in Order : Closed(o) => exch'[o] = exch[o]) /\ pushes' = pushes
             /\ \A o \in Order : exch[o].deals \subseteq exch'[o].deals
  <2>1. wire # <<>> /\ \E st \in ExchState : exch' = [exch EXCEPT ![Head(wire)].st = st]
    BY <1>2 DEF Accept, Refuse, ExchState
  <2>2. PICK st \in ExchState : exch' = [exch EXCEPT ![Head(wire)].st = st]
    BY <2>1
  <2>3. /\ Grows /\ Head(wire) \in Order /\ Head(wire) \in Range(wire)
        /\ \A x \in Order : x # Head(wire) => exch'[x] = exch[x]
    BY <2>1, <2>2, DecideGrows
  <2>4. exch[Head(wire)].st = "unknown"
    BY <2>3 DEF SentOnce, InFlight
  <2>5. \A o \in Order : exch[o].deals \subseteq exch'[o].deals
    BY <1>0, <2>2
  <2> QED BY <1>2, <2>3, <2>4, <2>5 DEF Closed, Accept, Refuse, accountVars
<1>3. ASSUME NEW o \in Order, Open(o), exch'[o].st \in {"open", "filled", "cancelled"},
             exch[o].filled <= exch'[o].filled, \A x \in Order : x # o => exch'[x] = exch[x]
      PROVE  Grows /\ \A x \in Order : Closed(x) => exch'[x] = exch[x]
  <2>1. ~Closed(o)
    BY <1>3 DEF Open, Closed
  <2>2. \A x \in Order : exch[x].filled \in Nat
    BY <1>0
  <2>3. Accepted(o)' /\ Accepted(o)
    BY <1>3 DEF Open, Accepted
  <2>4. Grows
    BY <1>3, <2>1, <2>2, <2>3 DEF Grows, Accepted, Open
  <2> QED BY <1>3, <2>1, <2>4
<1>4. ASSUME NEW o \in Order, NEW n \in 1 .. Terms[o].volume, NEW d \in Offered(o), Trade(o, n, d)
      PROVE  /\ Grows /\ (\A x \in Order : Closed(x) => exch'[x] = exch[x]) /\ pushes' = pushes
             /\ \A x \in Order : exch[x].deals \subseteq exch'[x].deals
  <2>1. pushes' = pushes
    BY <1>4 DEF Trade, accountVars
  <2>2. /\ Open(o) /\ exch'[o].st \in {"open", "filled", "cancelled"}
        /\ exch[o].filled <= exch'[o].filled
        /\ \A x \in Order : x # o => exch'[x] = exch[x]
        /\ exch'[o].deals = exch[o].deals \cup {d}
    BY <1>4, TradeIs
  <2>3. \A x \in Order : exch[x].deals \subseteq exch'[x].deals
    BY <2>2
  <2> QED BY <1>3, <2>1, <2>2, <2>3
<1>5. ASSUME NEW o \in Order, Cancel(o)
      PROVE  /\ Grows /\ (\A x \in Order : Closed(x) => exch'[x] = exch[x]) /\ pushes' = pushes
             /\ \A x \in Order : exch[x].deals \subseteq exch'[x].deals
  <2>1. Open(o) /\ exch' = [exch EXCEPT ![o].st = "cancelled"] /\ pushes' = pushes
    BY <1>5 DEF Cancel, accountVars
  <2>2. /\ exch'[o].st \in {"open", "filled", "cancelled"} /\ exch[o].filled <= exch'[o].filled
        /\ \A x \in Order : x # o => exch'[x] = exch[x]
    BY <1>0, <2>1
  <2>3. \A x \in Order : exch[x].deals \subseteq exch'[x].deals
    BY <1>0, <2>1
  <2> QED BY <1>3, <2>1, <2>2, <2>3
<1>6. ASSUME exch' = exch
      PROVE  /\ Grows /\ \A x \in Order : Closed(x) => exch'[x] = exch[x]
             /\ \A x \in Order : exch[x].deals \subseteq exch'[x].deals
  BY <1>6, SameGrows
<1> QED BY <1>0, <1>1, <1>2, <1>4, <1>5, <1>6 DEF ChannelNext, ExchangeStep, ListenerStep

(* A cancellation says what the order was filled of at its end, and a report  *)
(* of the channel the order's own mode.                                       *)
LEMMA ExactStays ==
  ASSUME TypeOK, EngineInv, \A o \in Order : Closed(o) => exch'[o] = exch[o],
         \A o \in Order : exch[o].deals \subseteq exch'[o].deals,
         \A r \in ToApply' : r \in ToApply \/ ExactReport(r)'
  PROVE  ReportsExact => ReportsExact'
<1> SUFFICES ASSUME ReportsExact, NEW r \in ToApply' PROVE ExactReport(r)'
  BY DEF ReportsExact
<1>1. CASE r \in ToApply
  <2>1. r \in Report /\ TrueReport(r) /\ ExactReport(r)
    BY <1>1, ToApplyTrue DEF ReportsExact
  <2>2. PricedReport(r) => PricedReport(r)'
    BY <2>1 DEF PricedReport, FilledAt, FeeFree, Report
  <2>3. r.order \in Order /\ (r.status = "CANCELLED" => exch'[r.order] = exch[r.order])
    BY <2>1 DEF TrueReport, Closed, Report
  <2> QED BY <2>1, <2>2, <2>3 DEF ExactReport
<1> QED BY <1>1

(* Every step between two rounds keeps the reports and their application in   *)
(* order.                                                                     *)
LEMMA AppliedStep ==
  ASSUME TypeOK, TypeOK', EngineInv, AppliedInv, Volumes, [ChannelNext]_vars
  PROVE  AppliedInv' /\ (ReportsExact => ReportsExact')
<1>0. \A o \in Order : /\ Closed(o) => exch'[o] = exch[o]
                       /\ exch[o].deals \subseteq exch'[o].deals
  BY OnlyGrows DEF EngineInv, Believes
<1>1. ASSUME \/ \E o \in Order : Emit(o)
             \/ Dispatch \/ Send \/ Drop \/ Reconnect \/ ApplyBalance
             \/ \E c \in Currency : PushBalance(c)
             \/ UNCHANGED vars
      PROVE  AppliedInv' /\ (ReportsExact => ReportsExact')
  <2>1. /\ UNCHANGED <<applied, tracker, exch, h>>
        /\ inbox' = inbox \/ inbox' = <<>>
    BY <1>1 DEF Emit, Dispatch, Send, Drop, Reconnect, ApplyBalance, PushBalance, vars,
                handlerVars, exchangeVars, channelVars, accountVars
  <2>2. AppliedInv' /\ ToApply' \subseteq ToApply
    BY <2>1, SameGrows, NothingNew DEF InHand
  <2> QED BY <1>0, <2>1, <2>2, ExactStays
<1>2. CASE Accept
  <2>1. PICK r \in Report : r = ChannelReport(Head(wire), "NEW", 0)
    <3>1. Head(wire) \in Order
      BY <1>2, QueueTyped DEF Accept, TypeOK
    <3> QED BY <3>1, ChannelReportTyped DEF Status
  <2>2. AppliedInv' /\ ToApply' \subseteq ToApply \cup {r}
    BY <1>2, <2>1, DecisionReported DEF Accept, handlerVars, ChannelReport, FillReport, ExchState
  <2>3. ExactReport(r)'
    BY <2>1 DEF ExactReport, ChannelReport, FillReport, Filling
  <2> QED BY <1>0, <2>2, <2>3, ExactStays
<1>3. CASE Refuse
  <2>0. Head(wire) \in Order
    BY <1>3, QueueTyped DEF Refuse, TypeOK
  <2>1. PICK r \in Report : r = [ChannelReport(Head(wire), "REJECTED", 0) EXCEPT !.id = NoId, !.mode = "CASH"]
    BY <2>0, RefusalTyped
  <2>4. r.order = Head(wire) /\ r.status = "REJECTED" /\ r.filled = 0
    BY <2>0, <2>1, RefusalTyped
  <2>2. AppliedInv' /\ ToApply' \subseteq ToApply \cup {r}
    BY <1>3, <2>1, <2>4, DecisionReported DEF Refuse, handlerVars, ExchState
  <2>3. ExactReport(r)'
    BY <2>4 DEF ExactReport, Filling
  <2> QED BY <1>0, <2>2, <2>3, ExactStays
<1>4. ASSUME NEW o \in Order, NEW n \in 1 .. Terms[o].volume, NEW d \in Offered(o), Trade(o, n, d)
      PROVE  AppliedInv' /\ (ReportsExact => ReportsExact')
  <2> DEFINE status == IF exch'[o].st = "filled" THEN "FILLED" ELSE "PARTIALLY_FILLED"
             avg    == exch'[o].value \div exch'[o].filled
  <2>1. UNCHANGED <<applied, tracker, h>>
    BY <1>4 DEF Trade, handlerVars
  <2>2. /\ Open(o) /\ exch'[o].st \in {"open", "filled"} /\ exch[o].filled <= exch'[o].filled
        /\ exch'[o].filled \in Nat \ {0} /\ exch'[o].deals = exch[o].deals \cup {d}
        /\ \A x \in Order : x # o => exch'[x] = exch[x]
    BY <1>4, TradeIs
  <2>3. /\ FillReport(o, status, exch'[o].filled, avg, d.fee) \in Report
        /\ Notify(Terms[o].market, FillReport(o, status, exch'[o].filled, avg, d.fee))
    BY <1>4, TradeIs
  <2>4. PICK r \in Report : r = FillReport(o, status, exch'[o].filled, avg, d.fee)
    BY <2>3
  <2>5. /\ r.order = o /\ r.filled = exch'[o].filled /\ r.mode = Terms[o].mode
        /\ r.status = status /\ r.avg = avg /\ r.fee = d.fee
    BY <2>4 DEF FillReport
  <2>6. AppliedInv' /\ ToApply' \subseteq ToApply \cup {r}
    <3>1. Notify(Terms[o].market, r)
      BY <2>3, <2>4
    <3> QED BY <2>1, <2>2, <2>5, <3>1, ChangeReported
  <2>7. PricedReport(r)'
    <3>1. ASSUME NEW p \in Nat, FilledAt(o, p)' PROVE r.avg = p
      <4>1. exch'[o].value = p * exch'[o].filled
        BY <3>1, VolumesKept DEF Volumes, EngineInv, Believes
      <4> QED BY <2>2, <2>5, <4>1, AverageOfOne
    <3>2. FeeFree(o)' => r.fee = 0
      BY <2>2, <2>5 DEF FeeFree
    <3> QED BY <2>5, <3>1, <3>2 DEF PricedReport
  <2>8. ExactReport(r)'
    BY <2>5, <2>7 DEF ExactReport
  <2> QED BY <1>0, <2>6, <2>8, ExactStays
<1>5. ASSUME NEW o \in Order, Cancel(o)
      PROVE  AppliedInv' /\ (ReportsExact => ReportsExact')
  <2>1. exch \in [Order -> [st : ExchState, filled : Nat, value : Nat, fee : Int, deals : SUBSET Deal]]
    BY DEF TypeOK
  <2>2. /\ exch' = [exch EXCEPT ![o].st = "cancelled"]
        /\ Open(o) /\ UNCHANGED <<applied, tracker, h>>
        /\ Notify(Terms[o].market, ChannelReport(o, "CANCELLED", exch[o].filled))
    BY <1>5 DEF Cancel, handlerVars
  <2>3. /\ exch'[o].st = "cancelled" /\ exch'[o].filled = exch[o].filled
        /\ exch[o].filled <= exch'[o].filled
        /\ \A x \in Order : x # o => exch'[x] = exch[x]
    BY <2>1, <2>2
  <2>4. PICK r \in Report : r = ChannelReport(o, "CANCELLED", exch[o].filled)
    BY <2>1, ChannelReportTyped DEF Status, Terminal
  <2>5. r.order = o /\ r.filled = exch'[o].filled
    BY <2>3, <2>4 DEF ChannelReport, FillReport
  <2>6. AppliedInv' /\ ToApply' \subseteq ToApply \cup {r}
    BY <2>2, <2>3, <2>4, <2>5, ChangeReported
  <2>7. ExactReport(r)'
    BY <2>4, <2>5 DEF ExactReport, ChannelReport, FillReport, Filling
  <2> QED BY <1>0, <2>6, <2>7, ExactStays
<1>6. ASSUME Receive \/ Handle(Listener)
      PROVE  AppliedInv' /\ (ReportsExact => ReportsExact')
  <2>1. AppliedInv' /\ ToApply' \subseteq ToApply
    BY <1>6, ReceiveInOrder, HandleInOrder
  <2> QED BY <1>0, <2>1, ExactStays
<1> QED BY <1>1, <1>2, <1>3, <1>4, <1>5, <1>6
        DEF ChannelNext, ExchangeStep, ListenerStep

(* At the start nothing is filled and nothing applied. *)
LEMMA InitOrderly == Init => Orderly
<1> SUFFICES ASSUME Init PROVE Orderly
  OBVIOUS
<1>1. Volumes
  <2>1. \A o \in Order : exch[o] = Unsent
    BY DEF Init
  <2> QED BY <2>1, TermsSplit DEF Volumes, Unsent
<1>2. ~InHand
  BY ThreadsTyped DEF Init, HandlerInit, InHand
<1>3. InOrder /\ ToApply = {}
  BY <1>2, RangeEmpty DEF Init, InOrder, ToApply
<1>4. \A o \in Order : Following(o)
  BY <1>3 DEF Init, HandlerInit, Following
<1>5. TypeOK /\ EngineInv
  BY InitTyped, InitBelieves
<1> QED BY <1>1, <1>3, <1>4, <1>5 DEF AppliedInv, ReportsExact, Orderly

(* The order of the reports and what was applied of each, step by step. *)
LEMMA OrderlyStep ==
  ASSUME Orderly, [ChannelNext]_vars
  PROVE  Orderly'
<1>1. TypeOK' /\ EngineInv'
  BY ChannelStep, StepTyped, StepKeeps DEF Orderly
<1> QED BY <1>1, VolumesKept, AppliedStep DEF Orderly, EngineInv, Believes

(* Reports are applied in the order of what they report, each once, and say   *)
(* exactly how an order ended (HandleOrderUpdate on the listener's thread).   *)
THEOREM ReportsInOrder == ChannelSpec => []Orderly
BY InitOrderly, OrderlyStep, PTL DEF ChannelSpec

(* No part of what was filled of an order is applied twice while the reports  *)
(* come by the channel only, whatever connection is lost on the way.          *)
THEOREM AppliedAtMostOnce == ChannelSpec => []AppliedOnce
<1>1. Orderly => AppliedOnce
  BY AppliedIsDone DEF Orderly
<1> QED BY <1>1, ReportsInOrder, PTL

-----------------------------------------------------------------------------
(* What the methods of the position manager add to what may be spent.         *)

(* A report about a market order carries no price, so less is moved. *)
LEMMA ReportAmount ==
  ASSUME NEW Ccy, NEW ord \in SpotTerms(Ccy), NEW n \in Nat
  PROVE  /\ Amount(ord, ReportPrice(ord), n) \in Nat
         /\ Amount(ord, ord.price, n) \in Nat
         /\ Amount(ord, ReportPrice(ord), n) <= Amount(ord, ord.price, n)
         /\ ord.type = "LIMIT" => Amount(ord, ReportPrice(ord), n) = Amount(ord, ord.price, n)
<1>1. ord.price \in Nat /\ ReportPrice(ord) \in Nat
  BY TermsTypes
<1>2. Amount(ord, ReportPrice(ord), n) \in Nat /\ Amount(ord, ord.price, n) \in Nat
  BY <1>1, AmountNat
<1>3. CASE ord.type = "LIMIT"
  BY <1>2, <1>3 DEF ReportPrice
<1>4. CASE ord.type # "LIMIT" /\ ord.side = "BUY"
  <2>1. Amount(ord, ReportPrice(ord), n) = 0
    BY <1>4 DEF ReportPrice, Amount
  <2> QED BY <1>2, <1>4, <2>1
<1>5. CASE ord.type # "LIMIT" /\ ord.side # "BUY"
  BY <1>2, <1>5 DEF Amount
<1> QED BY <1>3, <1>4, <1>5

(* The two columns that count, and the reservation. *)
LEMMA EffectiveMoves ==
  ASSUME NEW Ccy, NEW b \in Book(Ccy), NEW c \in Ccy, NEW d \in Ccy,
         NEW a \in Int, NEW f \in Int, NEW amount \in Nat
  PROVE  /\ Effective(Move(b, c, a, f), d) = Effective(b, d) + (IF d = c THEN a ELSE 0)
         /\ Effective(Unreserve(b, c, amount), d)
              <= Effective(b, d) + (IF d = c THEN amount ELSE 0)
         /\ Effective(b, d) \in Int
BY DEF Effective, Move, Unreserve, Book, AtLeast0

(* Reserving, accepting, rejecting and cancelling an order. *)
LEMMA EffectiveOfOrder ==
  ASSUME NEW Ccy, NEW b \in Book(Ccy), NEW ord \in SpotTerms(Ccy), NEW d \in Ccy,
         NEW mode, NEW filled \in Nat, filled <= ord.volume
  PROVE  LET here   == d = LockedCurrency(ord)
             all    == Amount(ord, ord.price, ord.volume)
             unused == Amount(ord, ord.price, ord.volume - filled)
         IN  /\ Effective(ReserveSpot(b, ord), d) = Effective(b, d) - (IF here THEN all ELSE 0)
             /\ Effective(UpdateSpotOnNew(b, ord, mode), d) <= Effective(b, d)
             /\ Effective(UpdateSpotOnRejected(b, ord, mode), d)
                  <= Effective(b, d) + (IF here /\ Locks(ord, mode) THEN all ELSE 0)
             /\ Effective(UpdateSpotOnCancel(b, ord, mode, filled), d)
                  <= Effective(b, d) + (IF here /\ Locks(ord, mode) THEN unused ELSE 0)
<1> DEFINE c      == LockedCurrency(ord)
           all    == Amount(ord, ord.price, ord.volume)
           said   == Amount(ord, ReportPrice(ord), ord.volume)
           left   == ord.volume - filled
           unused == Amount(ord, ord.price, left)
           back   == Amount(ord, ReportPrice(ord), left)
<1>1. /\ c \in Ccy /\ ord.volume \in Nat /\ left \in Nat
      /\ all \in Nat /\ said \in Nat /\ said <= all
      /\ unused \in Nat /\ back \in Nat /\ back <= unused
  <2>1. c \in Ccy /\ ord.volume \in Nat /\ left \in Nat
    BY TermsTypes
  <2> HIDE DEF left
  <2> QED BY <2>1, ReportAmount
<1>2. Effective(ReserveSpot(b, ord), d) = Effective(b, d) - (IF d = c THEN all ELSE 0)
  <2> HIDE DEF c, all
  <2> QED BY <1>1 DEF Effective, Book, ReserveSpot, c, all
<1>3. Effective(UpdateSpotOnNew(b, ord, mode), d) <= Effective(b, d)
  <2> DEFINE u == Unreserve(b, c, said)
  <2> HIDE DEF c, said
  <2>1. u \in Book(Ccy)
    BY <1>1, UnreserveTyped
  <2>2. Effective(u, d) <= Effective(b, d) + (IF d = c THEN said ELSE 0)
    BY <1>1, EffectiveMoves
  <2> HIDE DEF u
  <2>3. /\ Effective(Move(u, c, -said, said), d) = Effective(u, d) + (IF d = c THEN -said ELSE 0)
        /\ Effective(u, d) \in Int /\ Effective(b, d) \in Int
    BY <1>1, <2>1, EffectiveMoves
  <2>4. Effective(Move(u, c, -said, said), d) <= Effective(b, d)
    BY <1>1, <2>2, <2>3
  <2> QED BY <2>3, <2>4 DEF UpdateSpotOnNew, u, c, said
<1>4. Effective(UpdateSpotOnRejected(b, ord, mode), d)
        <= Effective(b, d) + (IF d = c /\ Locks(ord, mode) THEN all ELSE 0)
  <2> HIDE DEF c, said, all
  <2>1. /\ Effective(Move(b, c, said, -said), d) = Effective(b, d) + (IF d = c THEN said ELSE 0)
        /\ Effective(Unreserve(b, c, said), d) <= Effective(b, d) + (IF d = c THEN said ELSE 0)
        /\ Effective(b, d) \in Int
    BY <1>1, EffectiveMoves
  <2>2. /\ Effective(Move(b, c, said, -said), d) <= Effective(b, d) + (IF d = c THEN all ELSE 0)
        /\ Effective(Unreserve(b, c, said), d) <= Effective(b, d) + (IF d = c THEN all ELSE 0)
    <3>1. Unreserve(b, c, said) \in Book(Ccy)
      BY <1>1, UnreserveTyped
    <3>2. Effective(Unreserve(b, c, said), d) \in Int
      BY <3>1, EffectiveMoves
    <3> QED BY <1>1, <2>1, <3>2
  <2>3. Effective(b, d) <= Effective(b, d)
    BY <2>1
  <2> QED BY <2>1, <2>2, <2>3 DEF UpdateSpotOnRejected, c, said
<1>5. Effective(UpdateSpotOnCancel(b, ord, mode, filled), d)
        <= Effective(b, d) + (IF d = c /\ Locks(ord, mode) THEN unused ELSE 0)
  <2> HIDE DEF c, back, unused
  <2>1. /\ Effective(Move(b, c, back, -back), d) = Effective(b, d) + (IF d = c THEN back ELSE 0)
        /\ Effective(b, d) \in Int
    BY <1>1, EffectiveMoves
  <2>2. /\ Effective(Move(b, c, back, -back), d) <= Effective(b, d) + (IF d = c THEN unused ELSE 0)
        /\ Effective(b, d) <= Effective(b, d) + (IF d = c THEN unused ELSE 0)
        /\ Effective(b, d) <= Effective(b, d)
    BY <1>1, <2>1
  <2> QED BY <2>1, <2>2 DEF UpdateSpotOnCancel, c, back
<1> QED BY <1>2, <1>3, <1>4, <1>5

(* A fill that costs no fee brings what it earns. *)
LEMMA EffectiveOfFill ==
  ASSUME NEW Ccy, NEW b \in Book(Ccy), NEW ord \in SpotTerms(Ccy), NEW d \in Ccy,
         NEW mode, NEW n \in Int, NEW avg \in Nat
  PROVE  Effective(UpdateSpotOnFill(b, ord, mode, n, avg, 0), d)
           = Effective(b, d) + (IF d = EarnedCurrency(ord) THEN Earned(ord, avg, AtLeast0(n)) ELSE 0)
<1>1. /\ Effective(b, d) \in Int /\ LockedCurrency(ord) \in Ccy /\ EarnedCurrency(ord) \in Ccy
  BY EffectiveMoves, TermsTypes
<1>2. CASE n <= 0
  <2>1. UpdateSpotOnFill(b, ord, mode, n, avg, 0) = b /\ AtLeast0(n) = 0
    BY <1>2 DEF UpdateSpotOnFill, AtLeast0
  <2>2. Earned(ord, avg, 0) = 0
    BY DEF Earned
  <2> QED BY <1>1, <2>1, <2>2
<1>3. CASE n > 0
  <2> DEFINE paid == IF Locks(ord, mode) THEN Amount(ord, avg, n) ELSE 0
             left == Move(b, LockedCurrency(ord), 0, -paid)
             got  == Earned(ord, avg, n) + 0
  <2>1. AtLeast0(n) = n /\ n \in Nat
    BY <1>3 DEF AtLeast0
  <2>2. paid \in Int /\ got \in Int /\ got = Earned(ord, avg, n)
    BY <2>1, AmountNat, EarnedNat
  <2> HIDE DEF paid, got
  <2>3. left \in Book(Ccy)
    BY <1>1, <2>2, MoveTyped
  <2>4. Effective(left, d) = Effective(b, d)
    <3>1. Effective(left, d) = Effective(b, d) + (IF d = LockedCurrency(ord) THEN 0 ELSE 0)
      BY <1>1, <2>2, EffectiveMoves
    <3> QED BY <1>1, <3>1
  <2> HIDE DEF left
  <2>5. Effective(Move(left, EarnedCurrency(ord), got, 0), d)
          = Effective(left, d) + (IF d = EarnedCurrency(ord) THEN got ELSE 0)
    BY <1>1, <2>2, <2>3, EffectiveMoves
  <2>6. UpdateSpotOnFill(b, ord, mode, n, avg, 0) = Move(left, EarnedCurrency(ord), got, 0)
    BY <1>3 DEF UpdateSpotOnFill, left, paid, got
  <2> QED BY <2>1, <2>2, <2>4, <2>5, <2>6
<1> QED BY <1>2, <1>3
-----------------------------------------------------------------------------
(* What is due to an order, step by step (Backed).                            *)

(* The amounts an order may bring are natural numbers. *)
LEMMA BackTyped ==
  ASSUME TypeOK, Volumes, NEW o \in Order, Reserves(o)
  PROVE  Asked(o) \in Nat /\ Rest(o) \in Nat /\ Back(o) \in Nat
<1>1. Asked(o) \in Nat /\ Terms[o] \in SpotTerms(Currency)
  BY AskedTyped
<1>2. Rest(o) \in Nat
  <2>1. exch[o].filled \in Nat /\ Terms[o].volume \in Nat /\ exch[o].filled <= Terms[o].volume
    BY TermsSplit DEF TypeOK, Volumes
  <2>2. Terms[o].volume - exch[o].filled \in Nat
    BY <2>1
  <2> QED BY <1>1, <2>2, TermsTypes, AmountNat DEF Rest
<1> QED BY <1>1, <1>2 DEF Back

(* What an order earns is an amount, and earned part by part. *)
LEMMA EarnedTyped ==
  ASSUME NEW o \in Order, IsSpot(o), NEW price \in Nat
  PROVE  /\ EarnedCurrency(Terms[o]) \in Currency
         /\ \A n \in Int : Earned(Terms[o], price, n) \in Int
         /\ \A n \in Nat : Earned(Terms[o], price, n) \in Nat
         /\ \A m, n \in Int : Earned(Terms[o], price, m + n)
                               = Earned(Terms[o], price, m) + Earned(Terms[o], price, n)
         /\ Earned(Terms[o], price, 0) = 0
<1>1. Terms[o] \in SpotTerms(Currency)
  BY TermsSplit
<1>2. EarnedCurrency(Terms[o]) \in Currency
  BY <1>1, TermsTypes
<1>3. /\ \A n \in Int : price * n \in Int
      /\ \A n \in Nat : price * n \in Nat
      /\ \A m, n \in Int : price * (m + n) = price * m + price * n
      /\ price * 0 = 0
  <2>1. \A n \in Nat : price * n \in Nat
    BY ProductNat
  <2> QED BY <2>1
<1> QED BY <1>2, <1>3 DEF Earned

DuesNatural ==
  \A p \in Prices, o \in Order, c \in Currency :
    Returning(o, c) \in Nat /\ Gaining(p, o, c) \in Nat /\ Due(p, o, c) \in Nat

(* Nothing due is less than nothing. *)
LEMMA DueTyped == Orderly => DuesNatural
<1> SUFFICES ASSUME Orderly, NEW p \in Prices, NEW o \in Order, NEW c \in Currency
             PROVE  Returning(o, c) \in Nat /\ Gaining(p, o, c) \in Nat /\ Due(p, o, c) \in Nat
  BY DEF DuesNatural
<1>1. applied[o] \in Nat /\ exch[o].filled \in Nat /\ applied[o] <= exch[o].filled
  BY AppliedIsDone DEF Orderly, TypeOK, HandlerTypeOK, AppliedOnce
<1>2. exch[o].filled - applied[o] \in Nat /\ p[o] \in Nat
  BY <1>1 DEF Prices
<1>3. Gaining(p, o, c) \in Nat
  BY <1>2, EarnedTyped DEF Gaining
<1>4. Returning(o, c) \in Nat
  BY BackTyped DEF Orderly, Returning
<1> QED BY <1>3, <1>4 DEF Due

(* The same of the state a step leads to. *)
LEMMA DueTypedNext == Orderly' => DuesNatural'
BY DueTyped, PTL

(* An order nothing was done about is due no more, when less is under way. *)
LEMMA DueShrinks ==
  ASSUME Orderly, Orderly', NEW p \in Prices, NEW o \in Order, NEW c \in Currency,
         exch'[o] = exch[o], applied'[o] = applied[o],
         InFlight(o)' => InFlight(o), EndToApply(o)' => EndToApply(o)
  PROVE  Due(p, o, c)' <= Due(p, o, c)
<1>1. Returning(o, c)' <= Returning(o, c)
  <2>1. CASE ~(Reserves(o) /\ LockedCurrency(Terms[o]) = c)
    BY <2>1 DEF Returning
  <2>2. CASE Reserves(o) /\ LockedCurrency(Terms[o]) = c
    <3>1. Rest(o)' = Rest(o)
      BY DEF Rest
    <3>2. Back(o) \in Nat /\ Asked(o) \in Nat
      BY <2>2, BackTyped DEF Orderly
    <3>3. InFlight(o) => exch[o].st = "unknown"
      BY DEF Orderly, EngineInv, Believes, SentOnce
    <3>4. Back(o)' = Back(o) \/ Back(o)' = 0
      BY <3>1, <3>3 DEF Back
    <3> QED BY <2>2, <3>2, <3>4 DEF Returning
  <2> QED BY <2>1, <2>2
<1>2. Gaining(p, o, c)' = Gaining(p, o, c)
  BY DEF Gaining
<1> QED BY <1>1, <1>2, DueTyped, DueTypedNext DEF DuesNatural, Due
(* What is due in all: at most as before, but for what changes of one order;  *)
(* and with a new order.                                                      *)
LEMMA DuesAtMost ==
  ASSUME Orderly, Orderly', IsFiniteSet(emitted), emitted' = emitted, NEW p \in Prices, NEW c \in Currency,
         \A y \in emitted : Due(p, y, c)' <= Due(p, y, c)
  PROVE  Dues(p, c) \in Int /\ Dues(p, c)' \in Int /\ Dues(p, c)' <= Dues(p, c)
<1> DEFINE f == [o \in emitted |-> Due(p, o, c)]
           g == [o \in emitted |-> Due(p, o, c)']
<1>1. \A y \in emitted : f[y] \in Int /\ g[y] \in Int /\ g[y] <= f[y]
  <2>1. \A y \in emitted : y \in Order
    BY DEF Orderly, TypeOK
  <2> QED BY <2>1, DueTyped, DueTypedNext DEF DuesNatural
<1>2. Dues(p, c) = SumFunctionOnSet(f, emitted) /\ Dues(p, c)' = SumFunctionOnSet(g, emitted)
  BY DEF Dues
<1> HIDE DEF f, g
<1>3. SumFunctionOnSet(g, emitted) <= SumFunctionOnSet(f, emitted)
  BY <1>1, SumAtMost
<1>4. SumFunctionOnSet(f, emitted) \in Int /\ SumFunctionOnSet(g, emitted) \in Int
  BY <1>1, SumTerm
<1> QED BY <1>2, <1>3, <1>4

(* A step that adds at most d to what one order may bring adds at most d to   *)
(* all.                                                                       *)
LEMMA DuesWithin ==
  ASSUME Orderly, Orderly', IsFiniteSet(emitted), emitted' = emitted, NEW p \in Prices, NEW c \in Currency,
         NEW x \in emitted, NEW d \in Int, Due(p, x, c)' <= Due(p, x, c) + d,
         \A y \in emitted : y # x => Due(p, y, c)' <= Due(p, y, c)
  PROVE  Dues(p, c) \in Int /\ Dues(p, c)' \in Int /\ Dues(p, c)' <= Dues(p, c) + d
<1> DEFINE f == [o \in emitted |-> Due(p, o, c)]
           g == [o \in emitted |-> Due(p, o, c)']
<1>1. /\ \A y \in emitted : f[y] \in Int /\ g[y] \in Int
      /\ \A y \in emitted : y # x => g[y] <= f[y]
      /\ g[x] <= f[x] + d
  <2>1. \A y \in emitted : y \in Order
    BY DEF Orderly, TypeOK
  <2> QED BY <2>1, DueTyped, DueTypedNext DEF DuesNatural
<1>2. Dues(p, c) = SumFunctionOnSet(f, emitted) /\ Dues(p, c)' = SumFunctionOnSet(g, emitted)
  BY DEF Dues
<1> HIDE DEF f, g
<1>3. SumFunctionOnSet(g, emitted) <= SumFunctionOnSet(f, emitted) + d
  BY <1>1, SumWithin
<1>4. SumFunctionOnSet(f, emitted) \in Int /\ SumFunctionOnSet(g, emitted) \in Int
  BY <1>1, SumTerm
<1> QED BY <1>2, <1>3, <1>4

(* A new order adds what it may bring. *)
LEMMA DuesMore ==
  ASSUME Orderly, Orderly', IsFiniteSet(emitted), NEW x \in Order, x \notin emitted,
         emitted' = emitted \cup {x}, NEW p \in Prices, NEW c \in Currency,
         \A y \in emitted : Due(p, y, c)' = Due(p, y, c)
  PROVE  Dues(p, c) \in Int /\ Dues(p, c)' = Dues(p, c) + Due(p, x, c)'
<1> DEFINE f == [o \in emitted |-> Due(p, o, c)]
           g == [o \in emitted \cup {x} |-> Due(p, o, c)']
<1>1. /\ \A y \in emitted \cup {x} : g[y] \in Int
      /\ \A y \in emitted : f[y] = g[y] /\ f[y] \in Int
      /\ g[x] = Due(p, x, c)'
  <2>1. \A y \in emitted \cup {x} : y \in Order
    BY DEF Orderly, TypeOK
  <2> QED BY <2>1, DueTyped, DueTypedNext DEF DuesNatural
<1>2. Dues(p, c) = SumFunctionOnSet(f, emitted) /\ Dues(p, c)' = SumFunctionOnSet(g, emitted \cup {x})
  BY DEF Dues
<1> HIDE DEF f, g
<1>3. SumFunctionOnSet(g, emitted \cup {x}) = SumFunctionOnSet(f, emitted) + g[x]
  <2>1. \A y \in emitted \cup {x} : g[y] \in Int
    BY <1>1
  <2>2. \A y \in emitted : f[y] = g[y]
    BY <1>1
  <2>3. PICK S, F, G : S = emitted /\ F = f /\ G = g
    OBVIOUS
  <2>4. /\ IsFiniteSet(S) /\ x \notin S
        /\ \A y \in S \cup {x} : G[y] \in Int
        /\ \A y \in S : F[y] = G[y]
    BY <2>1, <2>2, <2>3
  <2>5. SumFunctionOnSet(G, S \cup {x}) = SumFunctionOnSet(F, S) + G[x]
    BY <2>4, SumMore, SMTT(60)
  <2> QED BY <2>3, <2>5
<1>4. SumFunctionOnSet(f, emitted) \in Int
  BY <1>1, SumTerm
<1> QED BY <1>1, <1>2, <1>3, <1>4

(* Balances that were not pushed, margin sells that were not refused and      *)
(* orders that were filled as the engine books it were so before too.         *)
LEMMA SteadyBefore ==
  ASSUME Orderly, [ChannelNext]_vars, NEW p \in Prices, Steady(p)'
  PROVE  Steady(p)
<1>1. /\ Grows /\ pushes <= pushes'
      /\ \A o \in Order : exch[o].deals \subseteq exch'[o].deals
  BY OnlyGrows DEF Orderly, EngineInv, Believes
<1>a. SoldAt(p) /\ \A o \in Order : Even(o)
  BY <1>1 DEF Steady, SoldAt, Even, FeeFree, Covering, OnePrice, IsSpot
<1>b. Undisturbed'
  BY DEF Steady
<1>2. pushes \in Nat
  BY BoundsAssumption DEF Orderly, TypeOK
<1>3. pushes = 0
  BY <1>1, <1>2, <1>b DEF Undisturbed
<1>4. Undisturbed
  BY <1>1, <1>3, <1>b DEF Undisturbed, Grows, Reserves, IsSpot
<1> QED BY <1>4, <1>a DEF Steady

(* The amounts that are compared are integers. *)
LEMMA BalancesTyped ==
  ASSUME Orderly, Orderly', NEW c \in Currency
  PROVE  /\ Effective(book, c) \in Int /\ Effective(book', c) \in Int
         /\ wallet[c].available \in Int /\ wallet'[c].available \in Int
<1>1. /\ book \in Book(Currency) /\ wallet \in [Currency -> [available : Int, frozen : Int]]
      /\ book' \in Book(Currency) /\ wallet' \in [Currency -> [available : Int, frozen : Int]]
  BY DEF Orderly, TypeOK, HandlerTypeOK
<1> QED BY <1>1 DEF Effective, Book

(* The balance is kept when what is due and what may be spent grow by no more *)
(* than the exchange makes available.                                         *)
LEMMA BackedStays ==
  ASSUME Orderly, Orderly', IsFiniteSet(emitted), emitted' = emitted, Backed, [ChannelNext]_vars,
         UNCHANGED wallet,
         \A c \in Currency : Effective(book', c) <= Effective(book, c),
         \A p \in Prices, y \in emitted, c \in Currency : Due(p, y, c)' <= Due(p, y, c)
  PROVE  Backed'
<1> SUFFICES ASSUME NEW p \in Prices, Steady(p)', NEW c \in Currency
             PROVE  Effective(book', c) + Dues(p, c)' <= wallet'[c].available
  BY DEF Backed
<1>1. Effective(book, c) + Dues(p, c) <= wallet[c].available
  BY SteadyBefore DEF Backed
<1>2. Dues(p, c) \in Int /\ Dues(p, c)' \in Int /\ Dues(p, c)' <= Dues(p, c)
  BY DuesAtMost
<1>3. Effective(book, c) \in Int /\ Effective(book', c) \in Int /\ wallet[c].available \in Int
  BY BalancesTyped
<1>4. Effective(book', c) <= Effective(book, c) /\ wallet'[c].available = wallet[c].available
  OBVIOUS
<1> QED BY <1>1, <1>2, <1>3, <1>4

(* A step about order x keeps the books backed if what it offers and x may    *)
(* bring does not outgrow what the account shows.                             *)
LEMMA BackedMoves ==
  ASSUME Orderly, Orderly', IsFiniteSet(emitted), emitted' = emitted, Backed, [ChannelNext]_vars,
         NEW x \in emitted,
         \A p \in Prices, y \in emitted, c \in Currency : y # x => Due(p, y, c)' <= Due(p, y, c),
         \A p \in Prices : Steady(p)' => \A c \in Currency :
           Effective(book', c) + Due(p, x, c)' + wallet[c].available
             <= Effective(book, c) + Due(p, x, c) + wallet'[c].available
  PROVE  Backed'
<1> SUFFICES ASSUME NEW p \in Prices, Steady(p)', NEW c \in Currency
             PROVE  Effective(book', c) + Dues(p, c)' <= wallet'[c].available
  BY DEF Backed
<1>1. Effective(book, c) + Dues(p, c) <= wallet[c].available
  BY SteadyBefore DEF Backed
<1>2. Due(p, x, c) \in Int /\ Due(p, x, c)' \in Int
  <2>1. x \in Order
    BY DEF Orderly, TypeOK
  <2> QED BY <2>1, DueTyped, DueTypedNext DEF DuesNatural
<1>3. PICK d \in Int : d = Due(p, x, c)' - Due(p, x, c)
  BY <1>2
<1>4. Due(p, x, c)' <= Due(p, x, c) + d
  BY <1>2, <1>3
<1>5. Dues(p, c) \in Int /\ Dues(p, c)' \in Int /\ Dues(p, c)' <= Dues(p, c) + d
  BY <1>4, DuesWithin
<1>6. /\ Effective(book, c) \in Int /\ Effective(book', c) \in Int
      /\ wallet[c].available \in Int /\ wallet'[c].available \in Int
  BY BalancesTyped
<1>7. Effective(book', c) + Due(p, x, c)' + wallet[c].available
        <= Effective(book, c) + Due(p, x, c) + wallet'[c].available
  OBVIOUS
<1> QED BY <1>1, <1>2, <1>3, <1>5, <1>6, <1>7
(* No order but a new one sets out, and one whose report is new has its end   *)
(* to be applied only if that report tells it.                                *)
LEMMA FlightShrinks ==
  ASSUME TypeOK, NEW y \in Order,
         \/ Dispatch \/ Send
         \/ wire' = <<>> /\ UNCHANGED <<signals, hand>>
         \/ wire # <<>> /\ wire' = Tail(wire) /\ UNCHANGED <<signals, hand>>
         \/ UNCHANGED <<signals, hand, wire>>
  PROVE  InFlight(y)' => InFlight(y)
<1>0. signals \in Seq(Order) /\ wire \in Seq(Order)
  BY DEF TypeOK
<1>1. CASE Dispatch
  <2>1. /\ Range(signals) = {Head(signals)} \cup Range(Tail(signals))
        /\ signals' = Tail(signals) /\ hand' = Head(signals) /\ wire' = wire
    BY <1>0, <1>1, RangeTail DEF Dispatch, channelVars
  <2> QED BY <2>1 DEF InFlight
<1>2. CASE Send
  <2>1. hand \in Order
    BY <1>2 DEF Send, TypeOK
  <2>2. Range(Append(wire, hand)) = Range(wire) \cup {hand}
    BY <1>0, <2>1, RangeAppend
  <2>3. (wire' = Append(wire, hand) \/ wire' = wire) /\ signals' = signals /\ hand' = None
    BY <1>2 DEF Send, strategyVars
  <2> QED BY <2>2, <2>3, NoneAssumption DEF InFlight
<1>3. CASE wire' = <<>> /\ UNCHANGED <<signals, hand>>
  BY <1>3, RangeEmpty DEF InFlight
<1>4. CASE wire # <<>> /\ wire' = Tail(wire) /\ UNCHANGED <<signals, hand>>
  <2>1. Range(wire) = {Head(wire)} \cup Range(Tail(wire))
    BY <1>0, <1>4, RangeTail
  <2> QED BY <1>4, <2>1 DEF InFlight
<1>5. CASE UNCHANGED <<signals, hand, wire>>
  BY <1>5 DEF InFlight
<1> QED BY <1>1, <1>2, <1>3, <1>4, <1>5

(* An order about which no new report is to be applied has no new end to      *)
(* come.                                                                      *)
LEMMA EndsShrink ==
  ASSUME NEW y \in Order, \A r \in ToApply' : r \in ToApply \/ r.order # y
  PROVE  EndToApply(y)' => EndToApply(y)
BY DEF EndToApply

(* Steps in which the exchange does nothing and no report is applied. *)
LEMMA BackedQuiet ==
  ASSUME Orderly, Orderly', IsFiniteSet(emitted), Backed, [ChannelNext]_vars,
         \/ Dispatch \/ Send \/ Drop \/ Reconnect \/ Receive \/ UNCHANGED vars
         \/ Handle(Listener) /\ ~Apply(Listener)
  PROVE  Backed'
<1>1. UNCHANGED <<emitted, exch, wallet>>
  BY DEF Dispatch, Send, Drop, Reconnect, Receive, Handle, vars, strategyVars, exchangeVars
<1>2. applied' = applied
  BY DEF Dispatch, Send, Drop, Reconnect, Receive, Handle, HandlerStep, CheckLive, CheckCid,
         RecoverBook, RecoverLive, SkipDuplicate, Track, Release, Tell, vars, handlerVars
<1>3. \A c \in Currency : Effective(book', c) <= Effective(book, c)
  <2>1. CASE Handle(Listener) /\ RecoverBook(Listener)
    <3> DEFINE r == h[Listener].report
    <3>1. r \in Report
      <4>1. HandlerTypeOK /\ ~Idle(Listener)
        BY <2>1 DEF Orderly, TypeOK, RecoverBook, At, Idle
      <4> QED BY <4>1, ThreadsTyped, ReportOf
    <3>2. r.order \in Order /\ book \in Book(Currency)
      BY <3>1 DEF Report, Orderly, TypeOK, HandlerTypeOK
    <3>3. book' = IF IsSpot(r.order) THEN UpdateSpotOnNew(book, Terms[r.order], r.mode) ELSE book
      BY <2>1 DEF RecoverBook
    <3> HIDE DEF r
    <3>4. CASE IsSpot(r.order)
      <4>1. Terms[r.order] \in SpotTerms(Currency)
        BY <3>2, <3>4, TermsSplit
      <4>2. 0 \in Nat /\ 0 <= Terms[r.order].volume
        BY <4>1, TermsTypes
      <4>3. ASSUME NEW c \in Currency
            PROVE  Effective(UpdateSpotOnNew(book, Terms[r.order], r.mode), c) <= Effective(book, c)
        BY <3>2, <4>1, <4>2, EffectiveOfOrder
      <4> QED BY <3>3, <3>4, <4>3
    <3>5. CASE ~IsSpot(r.order)
      BY <3>3, <3>5, BalancesTyped
    <3> QED BY <3>4, <3>5
  <2>2. CASE ~(Handle(Listener) /\ RecoverBook(Listener))
    <3>1. book' = book
      BY <2>2 DEF Dispatch, Send, Drop, Reconnect, Receive, Handle, HandlerStep, CheckLive, CheckCid,
             RecoverLive, SkipDuplicate, Track, Release, Tell, vars, handlerVars
    <3> QED BY <3>1, BalancesTyped
  <2> QED BY <2>1, <2>2
<1>4. ToApply' \subseteq ToApply
  <2>1. CASE Receive
    BY <2>1, ReceiveInOrder DEF Orderly
  <2>2. CASE Handle(Listener)
    BY <2>2, HandleInOrder DEF Orderly
  <2>3. CASE Dispatch \/ Send \/ Drop \/ Reconnect \/ UNCHANGED vars
    <3>1. /\ UNCHANGED <<applied, tracker, h>>
          /\ inbox' = inbox \/ inbox' = <<>>
      BY <2>3 DEF Dispatch, Send, Drop, Reconnect, vars, handlerVars, channelVars
    <3>2. Grows
      BY <1>1, SameGrows DEF Orderly
    <3> QED BY <3>1, <3>2, NothingNew DEF InHand, Orderly
  <2> QED BY <2>1, <2>2, <2>3
<1>5. \A y \in Order : InFlight(y)' => InFlight(y)
  <2>1. \/ Dispatch \/ Send
        \/ wire' = <<>> /\ UNCHANGED <<signals, hand>>
        \/ UNCHANGED <<signals, hand, wire>>
    BY DEF Drop, Reconnect, Receive, Handle, vars, strategyVars, channelVars
  <2> QED BY <2>1, FlightShrinks DEF Orderly
<1>6. \A y \in Order : EndToApply(y)' => EndToApply(y)
  BY <1>4, EndsShrink
<1>7. ASSUME NEW p \in Prices, NEW y \in emitted, NEW c \in Currency PROVE Due(p, y, c)' <= Due(p, y, c)
  <2>1. y \in Order
    BY DEF Orderly, TypeOK
  <2> QED BY <1>1, <1>2, <1>5, <1>6, <2>1, DueShrinks
<1> QED BY <1>1, <1>3, <1>7, BackedStays
(* EmitBuy and EmitSell reserve what the order may come to cost.              *)
LEMMA BackedEmit ==
  ASSUME Orderly, Orderly', IsFiniteSet(emitted), Backed, NEW x \in Order, Emit(x)
  PROVE  Backed'
<1> SUFFICES ASSUME NEW p \in Prices, Steady(p)', NEW c \in Currency
             PROVE  Effective(book', c) + Dues(p, c)' <= wallet'[c].available
  BY DEF Backed
<1>1. /\ x \notin emitted /\ emitted' = emitted \cup {x}
      /\ book' = (IF Reserves(x) THEN ReserveSpot(book, Terms[x]) ELSE book)
      /\ signals' = Append(signals, x) \/ signals' = signals
      /\ UNCHANGED <<exch, wallet, applied, h, hand, wire, inbox, pushes>>
  BY DEF Emit, exchangeVars, channelVars, accountVars
<1>2. [ChannelNext]_vars
  BY DEF ChannelNext
<1>3. Effective(book, c) + Dues(p, c) <= wallet[c].available
  BY <1>2, SteadyBefore DEF Backed
<1>4. ~InFlight(x) /\ exch[x].st = "unknown"
  BY <1>1 DEF Orderly, EngineInv, Believes, SentOnce
<1>5. ToApply' = ToApply
  BY <1>1 DEF ToApply, InHand
<1>6. ASSUME NEW y \in emitted PROVE Due(p, y, c)' = Due(p, y, c)
  <2>1. y \in Order /\ y # x
    BY <1>1 DEF Orderly, TypeOK
  <2>2. InFlight(y)' <=> InFlight(y)
    <3>1. Range(Append(signals, x)) = Range(signals) \cup {x}
      BY RangeAppend DEF Orderly, TypeOK
    <3> QED BY <1>1, <2>1, <3>1 DEF InFlight
  <2>3. EndToApply(y)' <=> EndToApply(y)
    BY <1>5 DEF EndToApply
  <2>4. Back(y)' = Back(y)
    BY <1>1, <2>2, <2>3 DEF Back, Rest
  <2> QED BY <1>1, <2>4 DEF Due, Returning, Gaining
<1>7. Dues(p, c) \in Int /\ Dues(p, c)' = Dues(p, c) + Due(p, x, c)'
  BY <1>1, <1>6, DuesMore
<1>8. Gaining(p, x, c)' = 0
  <2>1. exch[x].filled = 0 /\ applied[x] <= exch[x].filled /\ applied[x] \in Nat
    BY <1>4, AppliedIsDone DEF Orderly, Volumes, AppliedOnce, TypeOK, HandlerTypeOK
  <2>2. exch'[x].filled - applied'[x] = 0
    BY <1>1, <2>1
  <2>3. p[x] \in Nat
    BY DEF Prices
  <2> QED BY <2>2, <2>3, EarnedTyped DEF Gaining
<1>9. Effective(book', c) + Returning(x, c)' <= Effective(book, c)
  <2>1. CASE Reserves(x)
    <3>1. Asked(x) \in Nat /\ Terms[x] \in SpotTerms(Currency)
      BY <2>1, AskedTyped
    <3>2. Back(x)' = Asked(x) \/ Back(x)' = 0
      BY <1>1, <1>4 DEF Back
    <3>3. Effective(book', c)
            = Effective(book, c) - (IF c = LockedCurrency(Terms[x]) THEN Asked(x) ELSE 0)
      <4>1. 0 \in Nat /\ 0 <= Terms[x].volume /\ book \in Book(Currency)
        <5>1. Terms[x].volume \in Nat
          BY <3>1, TermsTypes
        <5>2. book \in Book(Currency)
          BY DEF Orderly, TypeOK, HandlerTypeOK
        <5> QED BY <5>1, <5>2
      <4> QED BY <1>1, <2>1, <3>1, <4>1, EffectiveOfOrder DEF Asked
    <3>4. Effective(book, c) \in Int
      BY BalancesTyped
    <3> QED BY <2>1, <3>1, <3>2, <3>3, <3>4 DEF Returning
  <2>2. CASE ~Reserves(x)
    <3>1. Returning(x, c)' = 0 /\ book' = book
      BY <1>1, <2>2 DEF Returning
    <3> QED BY <3>1, BalancesTyped
  <2> QED BY <2>1, <2>2
<1>10. Due(p, x, c)' = Returning(x, c)' /\ Returning(x, c)' \in Nat
  <2>1. Returning(x, c)' \in Nat
    BY DueTypedNext DEF DuesNatural
  <2> QED BY <1>8, <2>1 DEF Due
<1> QED BY <1>1, <1>3, <1>7, <1>9, <1>10, BalancesTyped

(* The exchange freezes what a request asked for, or refuses it.              *)
LEMMA BackedDecide ==
  ASSUME Orderly, Orderly', IsFiniteSet(emitted), Backed, [ChannelNext]_vars, Accept \/ Refuse
  PROVE  Backed'
<1>0. PICK x \in Order : x = Head(wire)
  BY QueueTyped DEF Accept, Refuse, Orderly, TypeOK
<1>1. PICK st \in {"open", "refused"} :
        /\ exch' = [exch EXCEPT ![x].st = st]
        /\ st = "open" => Accept
        /\ st = "refused" => Refuse
  BY <1>0 DEF Accept, Refuse
<1>2. wire # <<>> /\ UNCHANGED <<emitted, book, applied, tracker, h, signals, hand>> /\ wire' = Tail(wire)
  BY DEF Accept, Refuse, handlerVars, strategyVars
<1>3. /\ x \in Range(wire)
      /\ exch'[x].st = st /\ exch'[x].filled = exch[x].filled
      /\ \A y \in Order : y # x => exch'[y] = exch[y]
  BY <1>0, <1>1, <1>2, DecideGrows DEF Orderly, EngineInv, Believes, ExchState
<1>4. InFlight(x) /\ x \in emitted
  BY <1>3 DEF InFlight, Orderly, EngineInv, Believes, SentOnce
<1>5. ~InFlight(x)'
  BY <1>1, <1>3 DEF Orderly, EngineInv, Believes, SentOnce
<1>6. ASSUME NEW y \in Order PROVE InFlight(y)' => InFlight(y)
  BY <1>2, FlightShrinks DEF Orderly
<1>7. \A r \in ToApply' : r \in ToApply \/ r.order = x
  <2>1. PICK r \in Report : r.order = x /\ r.filled = 0 /\ \E channel : Notify(channel, r)
    <3>1. CASE st = "open"
      <4>1. Notify(Terms[x].market, ChannelReport(x, "NEW", 0))
        BY <1>0, <1>1, <3>1 DEF Accept
      <4>2. ChannelReport(x, "NEW", 0) \in Report
        BY <1>3, ChannelReportTyped DEF Status
      <4> QED BY <4>1, <4>2 DEF ChannelReport, FillReport
    <3>2. CASE st = "refused"
      <4> DEFINE r == [ChannelReport(x, "REJECTED", 0) EXCEPT !.id = NoId, !.mode = "CASH"]
      <4>1. Notify("login", r)
        BY <1>0, <1>1, <3>2 DEF Refuse
      <4>2. r \in Report /\ r.order = x /\ r.filled = 0
        BY RefusalTyped
      <4> QED BY <4>1, <4>2
    <3> QED BY <3>1, <3>2
  <2>2. PICK channel : Notify(channel, r)
    BY <2>1
  <2>3. st \in ExchState
    BY DEF ExchState
  <2>4. ToApply' \subseteq ToApply \cup {r}
    BY <1>1, <1>2, <2>1, <2>2, <2>3, DecisionReported, <1>0 DEF Orderly
  <2> QED BY <2>1, <2>4
<1>8. ASSUME NEW p \in Prices, NEW y \in emitted, NEW c \in Currency, y # x PROVE Due(p, y, c)' <= Due(p, y, c)
  <2>1. y \in Order
    BY DEF Orderly, TypeOK
  <2>2. EndToApply(y)' => EndToApply(y)
    BY <1>7, <1>8, <2>1, EndsShrink
  <2> QED BY <1>2, <1>3, <1>6, <1>8, <2>1, <2>2, DueShrinks
<1>9. ASSUME NEW p \in Prices, NEW c \in Currency
      PROVE  Effective(book', c) + Due(p, x, c)' + wallet[c].available
               <= Effective(book, c) + Due(p, x, c) + wallet'[c].available
  <2>1. Gaining(p, x, c)' = Gaining(p, x, c) /\ Gaining(p, x, c) \in Nat
    BY <1>2, <1>3, DueTyped DEF Gaining, DuesNatural
  <2>2. Returning(x, c)' + wallet[c].available <= Returning(x, c) + wallet'[c].available
    <3>1. CASE Reserves(x) /\ LockedCurrency(Terms[x]) = c
      <4>1. Returning(x, c) = Asked(x) /\ Asked(x) \in Nat
        <5>1. Asked(x) \in Nat
          BY <3>1, AskedTyped
        <5>2. Back(x) = Asked(x)
          BY <1>4 DEF Back, Orderly, EngineInv, Believes, SentOnce
        <5> QED BY <3>1, <5>1, <5>2 DEF Returning
      <4>2. CASE st = "open"
        <5>1. Returning(x, c)' = 0
          BY <1>3, <1>5, <4>2 DEF Returning, Back
        <5>2. Freeze(c, Asked(x))
          BY <1>0, <1>1, <3>1, <4>2 DEF Accept
        <5>3. wallet'[c].available = wallet[c].available - Asked(x)
          BY <5>2 DEF Freeze, Orderly, TypeOK
        <5> QED BY <4>1, <5>1, <5>3, BalancesTyped
      <4>3. CASE st = "refused"
        <5>1. Returning(x, c)' = Asked(x) \/ Returning(x, c)' = 0
          BY <1>3, <1>5, <4>3 DEF Returning, Back
        <5>2. wallet' = wallet
          BY <1>1, <4>3 DEF Refuse
        <5> QED BY <4>1, <5>1, <5>2, BalancesTyped
      <4> QED BY <4>2, <4>3
    <3>2. CASE ~(Reserves(x) /\ LockedCurrency(Terms[x]) = c)
      <4>1. Returning(x, c)' = 0 /\ Returning(x, c) = 0
        BY <3>2 DEF Returning
      <4>2. wallet'[c].available = wallet[c].available
        <5>1. wallet' = wallet \/ (Reserves(x) /\ Freeze(LockedCurrency(Terms[x]), Asked(x)))
          <6>1. CASE st = "open"
            BY <1>0, <1>1, <6>1 DEF Accept
          <6>2. CASE st = "refused"
            BY <1>0, <1>1, <6>2 DEF Refuse
          <6> QED BY <6>1, <6>2
        <5> QED BY <3>2, <5>1 DEF Freeze, Orderly, TypeOK
      <4> QED BY <4>1, <4>2, BalancesTyped
    <3> QED BY <3>1, <3>2
  <2>3. Returning(x, c) \in Nat /\ Returning(x, c)' \in Nat
    BY <1>3, DueTyped, DueTypedNext DEF DuesNatural
  <2>4. /\ Due(p, x, c)' = Returning(x, c)' + Gaining(p, x, c)'
        /\ Due(p, x, c) = Returning(x, c) + Gaining(p, x, c)
    BY DEF Due
  <2>5. Effective(book', c) = Effective(book, c)
    BY <1>2
  <2> QED BY <2>1, <2>2, <2>3, <2>4, <2>5, BalancesTyped
<1> QED BY <1>2, <1>4, <1>8, <1>9, BackedMoves

(* An order that is not on its way and was neither refused nor cancelled has  *)
(* nothing to come back.                                                      *)
LEMMA NothingBack ==
  ASSUME NEW o \in Order, NEW c, ~InFlight(o), exch[o].st \notin {"refused", "cancelled"}
  PROVE  Returning(o, c) = 0
BY DEF Returning, Back

(* What a fill moves in the account. *)
LEMMA SettleIs ==
  ASSUME Orderly, NEW o \in Order, IsSpot(o), NEW n \in Nat, NEW d \in Deal, Settle(o, n, d),
         NEW c \in Currency
  PROVE  LET free == IF Reserves(o) THEN Amount(Terms[o], Terms[o].price, n) ELSE 0
             cost == IF Reserves(o) THEN Amount(Terms[o], d.price, n) ELSE 0
             got  == Earned(Terms[o], d.price, n) + d.fee
         IN  /\ free \in Nat /\ cost \in Nat /\ got \in Int
             /\ wallet'[c].available =
                  wallet[c].available + (IF c = LockedCurrency(Terms[o]) THEN free - cost ELSE 0)
                                      + (IF c = EarnedCurrency(Terms[o]) THEN got ELSE 0)
             /\ wallet'[c].frozen =
                  wallet[c].frozen + (IF c = LockedCurrency(Terms[o]) THEN -free ELSE 0)
<1> DEFINE free == IF Reserves(o) THEN Amount(Terms[o], Terms[o].price, n) ELSE 0
           cost == IF Reserves(o) THEN Amount(Terms[o], d.price, n) ELSE 0
           got  == Earned(Terms[o], d.price, n) + d.fee
           paid == Credit(wallet, LockedCurrency(Terms[o]), free - cost, -free)
<1>1. /\ Terms[o] \in SpotTerms(Currency) /\ Terms[o].price \in Nat
      /\ LockedCurrency(Terms[o]) \in Currency /\ EarnedCurrency(Terms[o]) \in Currency
      /\ d.price \in Nat /\ d.fee \in Int
      /\ wallet \in [Currency -> [available : Int, frozen : Int]]
  BY TermsSplit, TermsTypes DEF Deal, Orderly, TypeOK
<1>2. free \in Nat /\ cost \in Nat /\ got \in Int
  <2>1. free \in Nat /\ cost \in Nat
    BY <1>1, AmountNat
  <2>2. Earned(Terms[o], d.price, n) \in Nat
    BY <1>1, EarnedNat
  <2> QED BY <1>1, <2>1, <2>2
<1>3. wallet' = Credit(paid, EarnedCurrency(Terms[o]), got, 0)
  BY DEF Settle
<1> HIDE DEF free, cost, got
<1>4. free - cost \in Int /\ -free \in Int /\ 0 \in Int
  BY <1>2
<1>5. /\ paid \in [Currency -> [available : Int, frozen : Int]]
      /\ paid[c].available = wallet[c].available + (IF c = LockedCurrency(Terms[o]) THEN free - cost ELSE 0)
      /\ paid[c].frozen = wallet[c].frozen + (IF c = LockedCurrency(Terms[o]) THEN -free ELSE 0)
  <2>1. \A a, f \in Int :
          LET left == Credit(wallet, LockedCurrency(Terms[o]), a, f)
          IN  /\ left \in [Currency -> [available : Int, frozen : Int]]
              /\ left[c].available = wallet[c].available + (IF c = LockedCurrency(Terms[o]) THEN a ELSE 0)
              /\ left[c].frozen = wallet[c].frozen + (IF c = LockedCurrency(Terms[o]) THEN f ELSE 0)
    BY <1>1 DEF Credit
  <2> QED BY <1>4, <2>1, Zenon
<1>6. paid[c].frozen \in Int
  BY <1>5
<1> HIDE DEF paid
<1>7. /\ wallet'[c].available = paid[c].available + (IF c = EarnedCurrency(Terms[o]) THEN got ELSE 0)
      /\ wallet'[c].frozen = paid[c].frozen + (IF c = EarnedCurrency(Terms[o]) THEN 0 ELSE 0)
  <2>1. \A a, f \in Int :
          LET left == Credit(paid, EarnedCurrency(Terms[o]), a, f)
          IN  /\ left \in [Currency -> [available : Int, frozen : Int]]
              /\ left[c].available = paid[c].available + (IF c = EarnedCurrency(Terms[o]) THEN a ELSE 0)
              /\ left[c].frozen = paid[c].frozen + (IF c = EarnedCurrency(Terms[o]) THEN f ELSE 0)
    BY <1>1, <1>5 DEF Credit
  <2> QED BY <1>2, <1>3, <1>4, <2>1, Zenon
<1>8. wallet'[c].frozen = paid[c].frozen
  BY <1>6, <1>7
<1> QED BY <1>2, <1>5, <1>7, <1>8 DEF free, cost, got

(* What a fill brings the account is due until the engine hears of it; and    *)
(* what a buy is filled for below its price is given back.                    *)
LEMMA SettleBrings ==
  ASSUME Orderly, NEW o \in Order, IsSpot(o), NEW n \in Nat, NEW d \in Deal, Settle(o, n, d),
         d.fee = 0, NEW price \in Nat, NEW c \in Currency,
         Terms[o].side = "BUY" => d.price <= Terms[o].price,
         Terms[o].side = "SELL" => d.price = price
  PROVE  wallet'[c].available >=
           wallet[c].available + (IF c = EarnedCurrency(Terms[o]) THEN Earned(Terms[o], price, n) ELSE 0)
<1> DEFINE free == IF Reserves(o) THEN Amount(Terms[o], Terms[o].price, n) ELSE 0
           cost == IF Reserves(o) THEN Amount(Terms[o], d.price, n) ELSE 0
           got  == Earned(Terms[o], d.price, n) + d.fee
<1>1. /\ free \in Nat /\ cost \in Nat /\ got \in Int
      /\ wallet'[c].available =
           wallet[c].available + (IF c = LockedCurrency(Terms[o]) THEN free - cost ELSE 0)
                               + (IF c = EarnedCurrency(Terms[o]) THEN got ELSE 0)
  BY SettleIs
<1>2. Terms[o].side \in {"BUY", "SELL"} /\ Terms[o].price \in Nat /\ d.price \in Nat
  BY TermsSplit DEF SpotTerms, Deal
<1>3. free - cost >= 0
  <2>1. CASE Terms[o].side = "BUY"
    <3>1. d.price * n <= Terms[o].price * n
      <4>1. PICK k \in Nat : Terms[o].price = d.price + k
        <5>1. Terms[o].price - d.price \in Nat /\ Terms[o].price = d.price + (Terms[o].price - d.price)
          BY <1>2, <2>1
        <5> QED BY <5>1
      <4>2. k * n \in Nat /\ d.price * n \in Nat
        BY <1>2, ProductNat
      <4>3. (d.price + k) * n = d.price * n + k * n
        BY <1>2
      <4> QED BY <4>1, <4>2, <4>3
    <3>2. free = cost \/ (free = Terms[o].price * n /\ cost = d.price * n)
      BY <2>1 DEF Amount
    <3> QED BY <1>1, <3>1, <3>2
  <2>2. CASE Terms[o].side = "SELL"
    <3>1. free = cost
      BY <2>2 DEF Amount
    <3> QED BY <1>1, <3>1
  <2> QED BY <1>2, <2>1, <2>2
<1>4. got = Earned(Terms[o], price, n)
  <2>1. Earned(Terms[o], d.price, n) = Earned(Terms[o], price, n)
    BY <1>2 DEF Earned
  <2>2. Earned(Terms[o], d.price, n) \in Int
    BY <1>2, EarnedNat
  <2> QED BY <2>1, <2>2
<1>5. wallet[c].available \in Int
  BY DEF Orderly, TypeOK
<1> HIDE DEF free, cost, got
<1> QED BY <1>1, <1>3, <1>4, <1>5

(* What is known when the exchange fills or cancels an open order: it alone   *)
(* changes, and its report is new.                                            *)
LEMMA OthersShrink ==
  ASSUME Orderly, Orderly', NEW o \in Order, Open(o),
         UNCHANGED <<emitted, applied, tracker, h, signals, hand, wire>>,
         exch[o].filled <= exch'[o].filled, exch'[o].st \in {"open", "filled", "cancelled"},
         \A x \in Order : x # o => exch'[x] = exch[x],
         NEW r \in Report, r.order = o, r.filled = exch'[o].filled, NEW channel, Notify(channel, r)
  PROVE  /\ \A p \in Prices, y \in emitted, c \in Currency : y # o => Due(p, y, c)' <= Due(p, y, c)
         /\ o \in emitted /\ ~InFlight(o) /\ ~InFlight(o)'
<1>1. ToApply' \subseteq ToApply \cup {r}
  BY ChangeReported DEF Orderly
<1>2. \A y \in Order : InFlight(y)' <=> InFlight(y)
  BY DEF InFlight
<1>3. ASSUME NEW p \in Prices, NEW y \in emitted, NEW c \in Currency, y # o PROVE Due(p, y, c)' <= Due(p, y, c)
  <2>1. y \in Order
    BY DEF Orderly, TypeOK
  <2>2. EndToApply(y)' => EndToApply(y)
    BY <1>1, <1>3, <2>1, EndsShrink
  <2> QED BY <1>2, <1>3, <2>1, <2>2, DueShrinks
<1>4. o \in emitted /\ ~InFlight(o)
  BY DEF Open, Orderly, EngineInv, Believes, SentOnce
<1> QED BY <1>2, <1>3, <1>4

(* A fill at the exchange: what is earned becomes due. *)
LEMMA BackedTrade ==
  ASSUME Orderly, Orderly', IsFiniteSet(emitted), Backed, [ChannelNext]_vars,
         NEW o \in Order, NEW n \in 1 .. Terms[o].volume, NEW d \in Offered(o), Trade(o, n, d)
  PROVE  Backed'
<1>1. /\ n \in Nat /\ d \in Deal /\ d.price \in Nat
      /\ applied[o] \in Nat /\ exch[o].filled \in Nat
      /\ Open(o) /\ exch'[o].st \in {"open", "filled"}
      /\ exch'[o].filled = exch[o].filled + n
      /\ exch[o].filled <= exch'[o].filled /\ exch'[o].filled \in Nat
      /\ exch'[o].deals = exch[o].deals \cup {d}
      /\ \A x \in Order : x # o => exch'[x] = exch[x]
  <2>1. TypeOK
    BY DEF Orderly
  <2>2. applied[o] \in Nat /\ exch[o].filled \in Nat
    BY <2>1 DEF TypeOK, HandlerTypeOK
  <2> QED BY <2>1, <2>2, TradeIs
<1>2. /\ UNCHANGED <<emitted, applied, tracker, h, signals, hand, wire, book>>
      /\ IF IsSpot(o) THEN Settle(o, n, d) ELSE wallet' = wallet
  BY DEF Trade, handlerVars, strategyVars
<1>4. PICK r \in Report : /\ r.order = o /\ r.filled = exch'[o].filled
                          /\ Notify(Terms[o].market, r)
  <2> DEFINE r == FillReport(o, IF exch'[o].st = "filled" THEN "FILLED" ELSE "PARTIALLY_FILLED",
                             exch'[o].filled, exch'[o].value \div exch'[o].filled, d.fee)
  <2>1. r \in Report /\ Notify(Terms[o].market, r)
    BY TradeIs DEF Orderly
  <2>2. r.order = o /\ r.filled = exch'[o].filled
    BY DEF FillReport
  <2> QED BY <2>1, <2>2
<1>5. /\ \A p \in Prices, y \in emitted, c \in Currency : y # o => Due(p, y, c)' <= Due(p, y, c)
      /\ o \in emitted /\ ~InFlight(o) /\ ~InFlight(o)'
  BY <1>1, <1>2, <1>4, OthersShrink
<1>6. ASSUME NEW p \in Prices, Steady(p)', NEW c \in Currency
      PROVE  Effective(book', c) + Due(p, o, c)' + wallet[c].available
               <= Effective(book, c) + Due(p, o, c) + wallet'[c].available
  <2>1. Returning(o, c) = 0
    BY <1>1, <1>5, NothingBack DEF Open
  <2>2. Returning(o, c)' = 0
    BY <1>1, <1>5 DEF Returning, Back
  <2>3. Gaining(p, o, c)' + wallet[c].available <= Gaining(p, o, c) + wallet'[c].available
    <3>1. CASE IsSpot(o)
      <4>0. /\ d.fee = 0 /\ p[o] \in Nat
            /\ Terms[o].side = "BUY" => d.price <= Terms[o].price
            /\ Terms[o].side = "SELL" => d.price = p[o]
        <5>1. d \in exch'[o].deals
          BY <1>1
        <5>2. Even(o)' /\ SoldAt(p)'
          BY <1>6 DEF Steady
        <5> QED BY <3>1, <5>1, <5>2 DEF Even, FeeFree, Covering, SoldAt, IsSpot, Prices
      <4>1. wallet'[c].available >=
              wallet[c].available
                + (IF c = EarnedCurrency(Terms[o]) THEN Earned(Terms[o], p[o], n) ELSE 0)
        <5>1. Settle(o, n, d)
          BY <1>2, <3>1
        <5> QED BY <1>1, <3>1, <4>0, <5>1, SettleBrings
      <4>2. exch[o].filled - applied[o] \in Int /\ n \in Int
        BY <1>1
      <4>3. exch'[o].filled - applied'[o] = (exch[o].filled - applied[o]) + n
        BY <1>1, <1>2
      <4> DEFINE was == exch[o].filled - applied[o]
      <4>4. /\ Earned(Terms[o], p[o], was + n) = Earned(Terms[o], p[o], was) + Earned(Terms[o], p[o], n)
            /\ Earned(Terms[o], p[o], was) \in Int /\ Earned(Terms[o], p[o], n) \in Int
        BY <3>1, <4>0, <4>2, EarnedTyped
      <4> QED BY <3>1, <4>1, <4>3, <4>4, BalancesTyped DEF Gaining
    <3>2. CASE ~IsSpot(o)
      BY <1>2, <3>2, BalancesTyped DEF Gaining
    <3> QED BY <3>1, <3>2
  <2>4. /\ Due(p, o, c)' = Returning(o, c)' + Gaining(p, o, c)'
        /\ Due(p, o, c) = Returning(o, c) + Gaining(p, o, c)
    BY DEF Due
  <2>5. Effective(book', c) = Effective(book, c) /\ Gaining(p, o, c) \in Nat /\ Gaining(p, o, c)' \in Nat
    BY <1>2, DueTyped, DueTypedNext DEF DuesNatural
  <2> QED BY <2>1, <2>2, <2>3, <2>4, <2>5, BalancesTyped
<1> QED BY <1>2, <1>5, <1>6, BackedMoves

(* What a cancellation gives back is due until the engine hears of it.        *)
LEMMA BackedCancel ==
  ASSUME Orderly, Orderly', IsFiniteSet(emitted), Backed, [ChannelNext]_vars,
         NEW o \in Order, Cancel(o)
  PROVE  Backed'
<1>1. exch \in [Order -> [st : ExchState, filled : Nat, value : Nat, fee : Int, deals : SUBSET Deal]]
  BY DEF Orderly, TypeOK
<1>2. /\ Open(o)
      /\ UNCHANGED <<emitted, applied, tracker, h, signals, hand, wire, book>>
      /\ exch' = [exch EXCEPT ![o].st = "cancelled"]
      /\ IF Reserves(o) THEN Freeze(LockedCurrency(Terms[o]), -Rest(o)) ELSE wallet' = wallet
  BY DEF Cancel, handlerVars, strategyVars, Rest
<1>3. /\ exch'[o].filled = exch[o].filled /\ exch'[o].st = "cancelled"
      /\ exch[o].filled <= exch'[o].filled /\ exch'[o].filled \in Nat
      /\ \A x \in Order : x # o => exch'[x] = exch[x]
  BY <1>1, <1>2
<1>4. PICK r \in Report : /\ r.order = o /\ r.filled = exch'[o].filled
                          /\ Notify(Terms[o].market, r)
  <2> DEFINE r == ChannelReport(o, "CANCELLED", exch[o].filled)
  <2>1. Notify(Terms[o].market, r)
    BY DEF Cancel
  <2>2. r \in Report
    BY <1>1, ChannelReportTyped DEF Status, Terminal
  <2>3. r.order = o /\ r.filled = exch'[o].filled
    BY <1>3 DEF ChannelReport, FillReport
  <2> QED BY <2>1, <2>2, <2>3
<1>5. /\ \A p \in Prices, y \in emitted, c \in Currency : y # o => Due(p, y, c)' <= Due(p, y, c)
      /\ o \in emitted /\ ~InFlight(o) /\ ~InFlight(o)'
  BY <1>2, <1>3, <1>4, OthersShrink
<1>6. ASSUME NEW p \in Prices, NEW c \in Currency
      PROVE  Effective(book', c) + Due(p, o, c)' + wallet[c].available
               <= Effective(book, c) + Due(p, o, c) + wallet'[c].available
  <2>1. Returning(o, c) = 0
    BY <1>2, <1>5, NothingBack DEF Open
  <2>2. Returning(o, c)' + wallet[c].available <= wallet'[c].available
    <3>1. CASE Reserves(o)
      <4>1. Rest(o) \in Nat
        BY <3>1, BackTyped DEF Orderly
      <4>2. Rest(o)' = Rest(o)
        BY <1>3 DEF Rest
      <4>3. Back(o)' = Rest(o) \/ Back(o)' = 0
        BY <1>3, <1>5, <4>2 DEF Back
      <4>4. wallet'[c].available =
              wallet[c].available + (IF c = LockedCurrency(Terms[o]) THEN Rest(o) ELSE 0)
        <5>1. wallet \in [Currency -> [available : Int, frozen : Int]]
          BY DEF Orderly, TypeOK
        <5>2. Freeze(LockedCurrency(Terms[o]), -Rest(o))
          BY <1>2, <3>1
        <5>3. LockedCurrency(Terms[o]) \in Currency
          BY <3>1, AskedTyped
        <5> QED BY <4>1, <5>1, <5>2, <5>3 DEF Freeze
      <4> QED BY <3>1, <4>1, <4>3, <4>4, BalancesTyped DEF Returning
    <3>2. CASE ~Reserves(o)
      BY <1>2, <3>2, BalancesTyped DEF Returning
    <3> QED BY <3>1, <3>2
  <2>3. Gaining(p, o, c)' = Gaining(p, o, c)
    BY <1>2, <1>3 DEF Gaining
  <2>4. /\ Due(p, o, c)' = Returning(o, c)' + Gaining(p, o, c)'
        /\ Due(p, o, c) = Returning(o, c) + Gaining(p, o, c)
    BY DEF Due
  <2>5. /\ Effective(book', c) = Effective(book, c)
        /\ Gaining(p, o, c) \in Nat /\ Returning(o, c)' \in Nat
    BY <1>2, DueTyped, DueTypedNext DEF DuesNatural
  <2> QED BY <2>1, <2>2, <2>3, <2>4, <2>5, BalancesTyped
<1> QED BY <1>2, <1>5, <1>6, BackedMoves
(* A report that ends its order is the last about it.                         *)
LEMMA LastOfAll ==
  ASSUME Orderly, Orderly', Handle(Listener), Apply(Listener),
         NEW r, r = h[Listener].report, r.status \in Terminal
  PROVE  ~EndToApply(r.order)'
<1>1. InHand /\ inbox' = inbox
  BY DEF Apply, At, InHand, Handle, channelVars
<1>2. ~InHand'
  BY ThreadsTyped DEF Apply, GoTo, InHand, Orderly, TypeOK, HandlerTypeOK
<1>3. ToApply' = Range(inbox)
  BY <1>1, <1>2 DEF ToApply
<1>4. \A s \in Range(inbox) : s.order # r.order
  BY <1>1 DEF Orderly, AppliedInv, InOrder, Before
<1> QED BY <1>3, <1>4 DEF EndToApply

(* The position manager takes from what is due what it adds to what may be    *)
(* spent.                                                                     *)
LEMMA ApplyTakes ==
  ASSUME Orderly, Orderly', Handle(Listener), Apply(Listener), NEW p \in Prices, Steady(p)',
         NEW r, r = h[Listener].report, IsSpot(r.order), NEW c \in Currency
  PROVE  Effective(book', c) + Due(p, r.order, c)' <= Effective(book, c) + Due(p, r.order, c)
<1> DEFINE o   == r.order
           ord == Terms[r.order]
<1>1. /\ r \in Report /\ r \in ToApply /\ TrueReport(r) /\ ExactReport(r)
  <2>1. InHand
    BY DEF Apply, At, InHand
  <2> QED BY <2>1, ToApplyTrue DEF ToApply, Orderly, ReportsExact
<1>2. /\ o \in Order /\ r.status \in Status /\ r.filled \in Nat
      /\ book \in Book(Currency) /\ ord \in SpotTerms(Currency)
      /\ tracker[o] \in Nat /\ applied[o] \in Nat /\ exch[o].filled \in Nat /\ ord.volume \in Nat
  BY <1>1, TermsSplit DEF Report, Orderly, TypeOK, HandlerTypeOK
<1>3. UNCHANGED <<emitted, exch, signals, hand, wire, pushes>>
  BY DEF Handle, strategyVars, exchangeVars, channelVars, accountVars
<1>4. /\ book' = ApplySpot(r)
      /\ applied' = [applied EXCEPT ![o] = IF r.status \in Filling THEN @ + AtLeast0(Increment(r)) ELSE @]
  BY DEF Apply
<1>5. ~InFlight(o) /\ ~InFlight(o)'
  <2>1. exch[o].st # "unknown"
    BY <1>1, ToApplyTrue DEF Orderly
  <2>2. ~InFlight(o)
    BY <1>2, <2>1 DEF Orderly, EngineInv, Believes, SentOnce
  <2> QED BY <1>3, <2>2 DEF InFlight
<1>6. EndToApply(o)' => EndToApply(o)
  <2>1. ToApply' \subseteq ToApply
    BY ApplyInOrder DEF Orderly
  <2> QED BY <2>1 DEF EndToApply
<1>7. /\ Returning(o, c) \in Nat /\ Returning(o, c)' \in Nat
      /\ Gaining(p, o, c) \in Nat /\ Gaining(p, o, c)' \in Nat
      /\ Due(p, o, c) = Returning(o, c) + Gaining(p, o, c)
      /\ Due(p, o, c)' = Returning(o, c)' + Gaining(p, o, c)'
  <2>1. /\ Returning(o, c) \in Nat /\ Gaining(p, o, c) \in Nat
        /\ Returning(o, c)' \in Nat /\ Gaining(p, o, c)' \in Nat
    BY <1>2, DueTyped, DueTypedNext DEF DuesNatural
  <2> QED BY <2>1 DEF Due
<1>8. Returning(o, c)' <= Returning(o, c)
  <2>1. Returning(o, c)' = Returning(o, c) \/ Returning(o, c)' = 0
    BY <1>3, <1>5, <1>6 DEF Returning, Back, Rest
  <2> QED BY <1>7, <2>1
<1>9. CASE r.status \notin Filling
  <2>1. applied'[o] = applied[o]
    BY <1>2, <1>4, <1>9 DEF Orderly, TypeOK, HandlerTypeOK
  <2>2. Gaining(p, o, c)' = Gaining(p, o, c)
    BY <1>3, <2>1 DEF Gaining
  <2>3. Effective(book', c) + Returning(o, c)' <= Effective(book, c) + Returning(o, c)
    <3>1. CASE r.status = "NEW"
      <4>1. book' = UpdateSpotOnNew(book, ord, r.mode)
        BY <1>4, <3>1 DEF ApplySpot
      <4>2. 0 \in Nat /\ 0 <= ord.volume
        BY <1>2
      <4>3. Effective(book', c) <= Effective(book, c)
        BY <1>2, <4>1, <4>2, EffectiveOfOrder
      <4> QED BY <1>7, <1>8, <4>3, BalancesTyped
    <3>2. CASE r.status = "CANCELLED"
      <4>1. exch[o].st = "cancelled" /\ r.filled = exch[o].filled /\ r.mode = ord.mode
        BY <1>1, <3>2 DEF TrueReport, ExactReport
      <4>2. r.filled <= ord.volume
        BY <1>2, <4>1 DEF Orderly, Volumes
      <4>3. book' = UpdateSpotOnCancel(book, ord, r.mode, r.filled)
        BY <1>4, <3>2 DEF ApplySpot
      <4>4. Effective(book', c)
              <= Effective(book, c) + (IF c = LockedCurrency(ord) /\ Locks(ord, r.mode)
                                       THEN Amount(ord, ord.price, ord.volume - r.filled) ELSE 0)
        BY <1>2, <4>2, <4>3, EffectiveOfOrder
      <4>5. Effective(book', c)
              <= Effective(book, c) + (IF Reserves(o) /\ c = LockedCurrency(ord) THEN Rest(o) ELSE 0)
        BY <4>1, <4>4 DEF Reserves, Rest
      <4>6. EndToApply(o) /\ ~EndToApply(o)'
        <5>1. EndToApply(o)
          BY <1>1, <3>2 DEF EndToApply
        <5>2. ~EndToApply(o)'
          BY <3>2, LastOfAll DEF Terminal
        <5> QED BY <5>1, <5>2
      <4>7. /\ Returning(o, c) = (IF Reserves(o) /\ c = LockedCurrency(ord) THEN Rest(o) ELSE 0)
            /\ Returning(o, c)' = 0
        BY <1>3, <1>5, <4>1, <4>6 DEF Returning, Back
      <4> QED BY <1>7, <4>5, <4>7, BalancesTyped
    <3>3. CASE r.status = "REJECTED"
      <4>1. exch[o].st = "refused"
        BY <1>1, <3>3 DEF TrueReport
      <4>2. Reserves(o)
        BY <1>2, <1>3, <4>1 DEF Steady, Undisturbed
      <4>3. book' = UpdateSpotOnRejected(book, ord, r.mode)
        BY <1>4, <3>3 DEF ApplySpot
      <4>4. 0 \in Nat /\ 0 <= ord.volume
        BY <1>2
      <4>5. Effective(book', c)
              <= Effective(book, c) + (IF c = LockedCurrency(ord) /\ Locks(ord, r.mode)
                                       THEN Amount(ord, ord.price, ord.volume) ELSE 0)
        BY <1>2, <4>3, <4>4, EffectiveOfOrder
      <4>6. Asked(o) \in Nat
        BY <1>2, <4>2, AskedTyped
      <4>7. Effective(book', c)
              <= Effective(book, c) + (IF c = LockedCurrency(ord) THEN Asked(o) ELSE 0)
        BY <4>5, <4>6, BalancesTyped DEF Asked
      <4>8. EndToApply(o) /\ ~EndToApply(o)'
        <5>1. EndToApply(o)
          BY <1>1, <3>3 DEF EndToApply
        <5>2. ~EndToApply(o)'
          BY <3>3, LastOfAll DEF Terminal
        <5> QED BY <5>1, <5>2
      <4>9. /\ Returning(o, c) = (IF c = LockedCurrency(ord) THEN Asked(o) ELSE 0)
            /\ Returning(o, c)' = 0
        BY <1>3, <1>5, <4>1, <4>2, <4>8 DEF Returning, Back
      <4> QED BY <1>7, <4>7, <4>9, BalancesTyped
    <3> QED BY <1>2, <1>9, <3>1, <3>2, <3>3 DEF Status, Terminal, Filling
  <2> QED BY <1>7, <2>2, <2>3, BalancesTyped
<1>10. CASE r.status \in Filling
  <2>0. /\ r.fee = 0 /\ r.avg \in Nat /\ p[o] \in Nat
        /\ \A m \in Nat : Earned(ord, r.avg, m) = Earned(ord, p[o], m)
    <3>1. Steady(p)
      BY <1>3 DEF Steady, Undisturbed, SoldAt, Even, FeeFree, Covering, OnePrice
    <3>2. PricedReport(r) /\ r.avg \in Nat /\ p[o] \in Nat
      BY <1>1, <1>2, <1>10 DEF ExactReport, Report, Prices
    <3>3. r.fee = 0
      BY <1>2, <3>1, <3>2 DEF Steady, Even, PricedReport
    <3>4. ord.side = "SELL" => r.avg = p[o]
      BY <1>2, <3>1, <3>2 DEF Steady, SoldAt, PricedReport, FilledAt
    <3>5. ord.side \in {"BUY", "SELL"}
      BY <1>2 DEF SpotTerms
    <3> QED BY <3>2, <3>3, <3>4, <3>5 DEF Earned
  <2>1. book' = UpdateSpotOnFill(book, ord, r.mode, Increment(r), r.avg, 0)
    BY <1>4, <1>10, <2>0 DEF ApplySpot, Filling
  <2>2. Increment(r) \in Int
    BY <1>2 DEF Increment
  <2>3. PICK m \in Nat : m = AtLeast0(Increment(r))
    BY <2>2 DEF AtLeast0
  <2>4. Effective(book', c)
          = Effective(book, c) + (IF c = EarnedCurrency(ord) THEN Earned(ord, p[o], m) ELSE 0)
    <3>1. Effective(book', c)
            = Effective(book, c) + (IF c = EarnedCurrency(ord) THEN Earned(ord, r.avg, m) ELSE 0)
      BY <1>2, <2>0, <2>1, <2>2, <2>3, EffectiveOfFill
    <3> QED BY <2>0, <3>1
  <2>5. applied'[o] = applied[o] + m
    BY <1>2, <1>4, <1>10, <2>3 DEF Orderly, TypeOK, HandlerTypeOK
  <2>6. Gaining(p, o, c) = Gaining(p, o, c)' + (IF c = EarnedCurrency(ord) THEN Earned(ord, p[o], m) ELSE 0)
    <3>1. CASE c = EarnedCurrency(ord)
      <4> DEFINE now == exch[o].filled - applied'[o]
      <4>1. now \in Int /\ m \in Int /\ exch[o].filled - applied[o] = now + m
        BY <1>2, <2>5
      <4>2. /\ Gaining(p, o, c) = Earned(ord, p[o], exch[o].filled - applied[o])
            /\ Gaining(p, o, c)' = Earned(ord, p[o], now)
        BY <1>3, <3>1 DEF Gaining
      <4> HIDE DEF now
      <4>3. Earned(ord, p[o], now + m) = Earned(ord, p[o], now) + Earned(ord, p[o], m)
        <5>1. \A a, b \in Int : Earned(ord, p[o], a + b) = Earned(ord, p[o], a) + Earned(ord, p[o], b)
          BY <1>2, <2>0, EarnedTyped
        <5> QED BY <4>1, <5>1
      <4> QED BY <3>1, <4>1, <4>2, <4>3
    <3>2. CASE c # EarnedCurrency(ord)
      BY <3>2 DEF Gaining
    <3> QED BY <3>1, <3>2
  <2>7. Earned(ord, p[o], m) \in Int
    <3>1. m \in Int /\ IsSpot(o) /\ o \in Order
      BY <1>2, <2>3
    <3> QED BY <2>0, <3>1, EarnedTyped
  <2> QED BY <1>7, <1>8, <2>4, <2>6, <2>7, BalancesTyped
<1> QED BY <1>2, <1>9, <1>10

(* A report applied: what was due is in the book. *)
LEMMA BackedApply ==
  ASSUME Orderly, Orderly', IsFiniteSet(emitted), Backed, [ChannelNext]_vars,
         Handle(Listener), Apply(Listener)
  PROVE  Backed'
<1>1. UNCHANGED <<emitted, exch, wallet, signals, hand, wire>>
  BY DEF Handle, strategyVars, exchangeVars, channelVars
<1>2. PICK r \in Report : r = h[Listener].report /\ exch[r.order].st # "unknown"
  <2>1. InHand
    BY DEF Apply, At, InHand
  <2> QED BY <2>1, ToApplyTrue DEF ToApply, Orderly
<1>3. r.order \in Order /\ r.order \in emitted
  BY <1>2 DEF Report, Orderly, EngineInv, Believes, SentOnce
<1>4. ToApply' \subseteq ToApply
  BY ApplyInOrder DEF Orderly
<1>5. applied \in [Order -> Nat] /\ \A y \in Order : y # r.order => applied'[y] = applied[y]
  BY <1>2 DEF Apply, Orderly, TypeOK, HandlerTypeOK
<1>6. ASSUME NEW p \in Prices, NEW y \in emitted, NEW c \in Currency, y # r.order PROVE Due(p, y, c)' <= Due(p, y, c)
  <2>1. y \in Order
    BY DEF Orderly, TypeOK
  <2>2. (InFlight(y)' => InFlight(y)) /\ (EndToApply(y)' => EndToApply(y))
    BY <1>1, <1>4 DEF InFlight, EndToApply
  <2> QED BY <1>1, <1>5, <1>6, <2>1, <2>2, DueShrinks
<1>7. ASSUME NEW p \in Prices, Steady(p)', NEW c \in Currency
      PROVE  Effective(book', c) + Due(p, r.order, c)' + wallet[c].available
               <= Effective(book, c) + Due(p, r.order, c) + wallet'[c].available
  <2>1. /\ Due(p, r.order, c) \in Nat /\ Due(p, r.order, c)' \in Nat
        /\ wallet'[c].available = wallet[c].available
    BY <1>1, <1>3, DueTyped, DueTypedNext DEF DuesNatural
  <2>2. Effective(book', c) + Due(p, r.order, c)' <= Effective(book, c) + Due(p, r.order, c)
    <3>1. CASE IsSpot(r.order)
      BY <1>2, <1>7, <3>1, ApplyTakes
    <3>2. CASE ~IsSpot(r.order)
      <4>1. book' = book
        BY <1>2, <3>2 DEF Apply
      <4>2. Due(p, r.order, c) = 0 /\ Due(p, r.order, c)' = 0
        BY <3>2 DEF Due, Returning, Gaining, Reserves
      <4> QED BY <4>1, <4>2, BalancesTyped
    <3> QED BY <3>1, <3>2
  <2> QED BY <2>1, <2>2, BalancesTyped
<1> QED BY <1>1, <1>3, <1>6, <1>7, BackedMoves

-----------------------------------------------------------------------------
(* The balance is kept by every step while no balance is pushed.              *)
LEMMA InitBacked == Init => LedgerInv
<1> SUFFICES ASSUME Init PROVE LedgerInv
  OBVIOUS
<1>1. Orderly
  BY InitOrderly
<1>2. IsFiniteSet(emitted) /\ account = <<>> /\ emitted = {}
  BY FS_EmptySet DEF Init
<1>3. ASSUME NEW p \in Prices, NEW c \in Currency
      PROVE  Effective(book, c) + Dues(p, c) <= wallet[c].available
  <2>1. Effective(book, c) = Deposit[c] /\ wallet[c].available = Deposit[c] /\ Deposit[c] \in Nat
    BY DepositAssumption DEF Init, Effective
  <2>2. Dues(p, c) = 0
    <3> DEFINE f == [o \in emitted |-> Due(p, o, c)]
    <3>1. \A y \in emitted : f[y] \in Int
      BY <1>2
    <3>2. Dues(p, c) = SumFunctionOnSet(f, emitted)
      BY DEF Dues
    <3> HIDE DEF f
    <3> QED BY <1>2, <3>1, <3>2, SumTerm
  <2> QED BY <2>1, <2>2
<1> QED BY <1>1, <1>2, <1>3 DEF LedgerInv, Backed

(* Every step between two rounds of the reconciler. *)
LEMMA LedgerStep ==
  ASSUME LedgerInv, [ChannelNext]_vars
  PROVE  LedgerInv'
<1>0. Orderly /\ Orderly' /\ IsFiniteSet(emitted) /\ Backed
  BY OrderlyStep DEF LedgerInv
<1>1. IsFiniteSet(emitted')
  <2>1. emitted' = emitted \/ \E o \in Order : emitted' = emitted \cup {o}
    BY DEF ChannelNext, ExchangeStep, ListenerStep, Emit, Dispatch, Send, Accept, Refuse, PushBalance,
           Trade, Cancel, Drop, Reconnect, Receive, ApplyBalance, Handle, strategyVars, vars
  <2> QED BY <1>0, <2>1, FS_AddElement
<1>2. pushes' = 0 => account' = <<>> /\ pushes = 0
  <2>1. pushes \in Nat /\ pushes <= pushes'
    BY <1>0, OnlyGrows, BoundsAssumption DEF Orderly, TypeOK, EngineInv, Believes
  <2>2. \/ UNCHANGED <<account, pushes>>
        \/ account' = <<>>
        \/ ApplyBalance
        \/ pushes' = pushes + 1
    BY DEF ChannelNext, ExchangeStep, ListenerStep, Emit, Dispatch, Send, Accept, Refuse, PushBalance,
           Trade, Cancel, Drop, Reconnect, Receive, Handle, vars, channelVars, accountVars
  <2>3. ApplyBalance => account # <<>> /\ pushes' = pushes
    BY DEF ApplyBalance
  <2>4. pushes' \in Nat
    BY <1>0, BoundsAssumption DEF Orderly, TypeOK
  <2> QED BY <2>1, <2>2, <2>3, <2>4 DEF LedgerInv
<1>3. ASSUME NEW o \in Order, Emit(o) PROVE Backed'
  BY <1>0, <1>3, BackedEmit
<1>4. ASSUME \/ Dispatch \/ Send \/ Drop \/ Reconnect \/ Receive \/ UNCHANGED vars
             \/ Handle(Listener) /\ ~Apply(Listener)
      PROVE  Backed'
  BY <1>0, <1>4, BackedQuiet
<1>5. ASSUME Accept \/ Refuse PROVE Backed'
  BY <1>0, <1>5, BackedDecide
<1>6. ASSUME NEW o \in Order, NEW n \in 1 .. Terms[o].volume, NEW d \in Offered(o), Trade(o, n, d)
      PROVE  Backed'
  BY <1>0, <1>6, BackedTrade
<1>7. ASSUME NEW o \in Order, Cancel(o) PROVE Backed'
  BY <1>0, <1>7, BackedCancel
<1>8. ASSUME NEW c \in Currency, PushBalance(c) PROVE Backed'
  <2>1. pushes \in Nat /\ pushes' = pushes + 1
    BY <1>0, <1>8, BoundsAssumption DEF Orderly, TypeOK, PushBalance
  <2> QED BY <2>1 DEF Backed, Steady, Undisturbed
<1>9. ASSUME ApplyBalance PROVE Backed'
  <2>1. account # <<>> /\ pushes' = pushes
    BY <1>9 DEF ApplyBalance
  <2> QED BY <2>1 DEF LedgerInv, Backed, Steady, Undisturbed
<1>10. ASSUME Handle(Listener), Apply(Listener) PROVE Backed'
  BY <1>0, <1>10, BackedApply
<1>11. Backed'
  BY <1>3, <1>4, <1>5, <1>6, <1>7, <1>8, <1>9, <1>10 DEF ChannelNext, ExchangeStep, ListenerStep
<1> QED BY <1>0, <1>1, <1>2, <1>11 DEF LedgerInv

(* Every amount under way is accounted for: what the strategy is told it may  *)
(* spend and all that reports still to come will add to it is covered by what *)
(* the exchange shows available, in every run in which nothing disturbs the   *)
(* balances, no fee is charged, no buy is filled above its price and every    *)
(* sell at one price (Steady); of such a sell the reports carry that price.   *)
THEOREM BooksBacked == ChannelSpec => []LedgerInv
BY InitBacked, LedgerStep, PTL DEF ChannelSpec

(* What the orders under way have locked is part of what is due.              *)
LEMMA LockedIsDue ==
  ASSUME LedgerInv, NEW p \in Prices, NEW c \in Currency
  PROVE  LockedIn(c, {o \in Order : InFlight(o)}) \in Int
         /\ LockedIn(c, {o \in Order : InFlight(o)}) <= Dues(p, c)
<1> DEFINE L == {o \in {x \in Order : InFlight(x)} : Reserves(o) /\ LockedCurrency(Terms[o]) = c}
           f == [o \in L |-> Asked(o)]
           g == [o \in emitted |-> Due(p, o, c)]
<1>1. /\ Orderly /\ IsFiniteSet(emitted) /\ L \in SUBSET emitted
  BY DEF LedgerInv, Orderly, EngineInv, Believes, SentOnce
<1>2. \A y \in emitted : g[y] \in Nat
  <2>1. emitted \subseteq Order
    BY <1>1 DEF Orderly, TypeOK
  <2> QED BY <1>1, <2>1, DueTyped DEF DuesNatural
<1>3. \A y \in L : f[y] \in Int /\ g[y] \in Int /\ f[y] <= g[y]
  <2> SUFFICES ASSUME NEW y \in L PROVE f[y] \in Int /\ g[y] \in Int /\ f[y] <= g[y]
    OBVIOUS
  <2>1. y \in Order /\ InFlight(y) /\ Reserves(y) /\ LockedCurrency(Terms[y]) = c /\ y \in emitted
    BY <1>1
  <2>2. Asked(y) \in Nat
    BY <2>1, AskedTyped
  <2>3. Back(y) = Asked(y)
    BY <1>1, <2>1 DEF Back, Orderly, EngineInv, Believes, SentOnce
  <2>4. Gaining(p, y, c) \in Nat
    BY <1>1, <2>1, DueTyped DEF DuesNatural
  <2>5. Returning(y, c) = Asked(y)
    BY <2>1, <2>3 DEF Returning
  <2> QED BY <2>1, <2>2, <2>4, <2>5 DEF Due
<1>4. LockedIn(c, {o \in Order : InFlight(o)}) = SumFunctionOnSet(f, L)
  BY DEF LockedIn
<1>5. Dues(p, c) = SumFunctionOnSet(g, emitted)
  BY DEF Dues
<1>6. IsFiniteSet(L)
  BY <1>1, FS_Subset
<1> HIDE DEF L, f, g
<1>7. SumFunctionOnSet(f, L) <= SumFunctionOnSet(g, L)
  BY <1>3, <1>6, SumAtMost
<1>8. SumFunctionOnSet(g, L) <= SumFunctionOnSet(g, emitted)
  BY <1>1, <1>2, SumPart
<1>9. /\ SumFunctionOnSet(f, L) \in Int /\ SumFunctionOnSet(g, L) \in Int
      /\ SumFunctionOnSet(g, emitted) \in Int
  BY <1>1, <1>2, <1>3, <1>6, SumTerm
<1> QED BY <1>4, <1>5, <1>7, <1>8, <1>9

(* What the strategy is told it may spend is never more than the exchange     *)
(* will still let it spend, until a balance is pushed or a margin sell is     *)
(* refused (its rejection comes as one of a cash order and gives back what    *)
(* another order has locked, okx.cpp 800), and as long as no fee is charged,  *)
(* no buy is filled above its price and no sell at two prices (each increment *)
(* is booked at the average price of the whole order, position_manager.cpp    *)
(* 137-158).                                                                  *)
THEOREM SpendingSafe == ChannelSpec => []SafeToSpend
<1>1. LedgerInv => SafeToSpend
  <2> SUFFICES ASSUME LedgerInv, Undisturbed, \A o \in Order : Even(o), NEW c \in Currency
               PROVE  Effective(book, c) + LockedIn(c, {o \in Order : InFlight(o)}) <= wallet[c].available
    BY DEF SafeToSpend
  <2>a. PICK p \in Prices : SoldAt(p)
    <3> DEFINE p == [o \in Order |-> IF exch[o].deals = {} THEN 0 ELSE (CHOOSE d \in exch[o].deals : TRUE).price]
    <3>1. ASSUME NEW o \in Order PROVE p[o] \in Nat
      <4>1. exch[o].deals \subseteq Deal
        BY DEF LedgerInv, Orderly, TypeOK
      <4> QED BY <4>1 DEF Deal
    <3>2. p \in Prices
      <4> HIDE DEF p
      <4>1. p \in [Order -> Nat]
        BY <3>1 DEF p
      <4> QED BY <4>1 DEF Prices
    <3>3. ASSUME NEW o \in Order, IsSpot(o), Terms[o].side = "SELL", NEW d \in exch[o].deals
          PROVE  d.price = p[o]
      <4>1. OnePrice(o)
        BY <3>3 DEF Even
      <4> QED BY <3>3, <4>1 DEF OnePrice
    <3> HIDE DEF p
    <3> QED BY <3>2, <3>3 DEF SoldAt
  <2>1. Effective(book, c) + Dues(p, c) <= wallet[c].available
    BY <2>a DEF LedgerInv, Backed, Steady
  <2>2. /\ LockedIn(c, {o \in Order : InFlight(o)}) \in Int
        /\ LockedIn(c, {o \in Order : InFlight(o)}) <= Dues(p, c)
    BY LockedIsDue
  <2>3. Effective(book, c) \in Int /\ wallet[c].available \in Int /\ Dues(p, c) \in Int
    <3>1. book \in Book(Currency) /\ wallet \in [Currency -> [available : Int, frozen : Int]]
      BY DEF LedgerInv, Orderly, TypeOK, HandlerTypeOK
    <3>2. Dues(p, c) \in Int
      <4> DEFINE g == [o \in emitted |-> Due(p, o, c)]
      <4>1. \A y \in emitted : g[y] \in Int
        <5>1. Orderly /\ emitted \subseteq Order
          BY DEF LedgerInv, Orderly, TypeOK
        <5> QED BY <5>1, DueTyped DEF DuesNatural
      <4>2. IsFiniteSet(emitted) /\ Dues(p, c) = SumFunctionOnSet(g, emitted)
        BY DEF LedgerInv, Dues
      <4> HIDE DEF g
      <4> QED BY <4>1, <4>2, SumTerm
    <3> QED BY <3>1, <3>2 DEF Effective, Book
  <2> QED BY <2>1, <2>2, <2>3
<1> QED BY <1>1, BooksBacked, PTL
===============================================================================
