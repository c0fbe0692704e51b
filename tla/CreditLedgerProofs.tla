------------------------- MODULE CreditLedgerProofs --------------------------
(***************************************************************************)
(* What TLAPS shows of CreditLedger for every finite set of runs and       *)
(* platforms, every set of settlers and cancellers, every cost, allocation *)
(* and number of faults.                                                   *)
(*                                                                         *)
(* The first part is about sums over finite sets, which the library        *)
(* defines by recursion: no theorem of the library can be instantiated     *)
(* for them here, so they are derived from the well-foundedness of the     *)
(* subsets of a finite set.                                                *)
(***************************************************************************)
EXTENDS CreditLedger, Sequences, FiniteSetTheorems, TLAPS

-----------------------------------------------------------------------------
(* Sums over finite sets *)

\* A set that is not good has a smallest part that is not.
LEMMA SmallestMissing ==
  ASSUME NEW S, IsFiniteSet(S), NEW Good, S \notin Good
  PROVE  \E T \in SUBSET S : T \notin Good /\ \A U \in SUBSET T : U # T => U \in Good
<1> DEFINE Bad == {T \in SUBSET S : T \notin Good}
<1>1. Bad # {} /\ Bad \subseteq FiniteSubsetsOf(S)
  BY FS_FiniteSubsetsOfFinite
<1>2. \E T \in Bad : \A U \in Bad : <<U, T>> \notin StrictSubsetOrdering(S)
  <2> HIDE DEF Bad
  <2> QED BY <1>1, FS_StrictSubsetOrderingWellFounded, WFMin
<1>3. PICK T \in Bad : \A U \in Bad : <<U, T>> \notin StrictSubsetOrdering(S)
  BY <1>2
<1>4. ASSUME NEW U \in SUBSET T, U # T
      PROVE  U \in Good
  <2>1. U \in SUBSET S /\ T \in SUBSET S
    BY <1>3
  <2>2. <<U, T>> \in StrictSubsetOrdering(S)
    BY <1>4, <2>1 DEF StrictSubsetOrdering
  <2> QED BY <1>3, <2>1, <2>2
<1> QED BY <1>3, <1>4

\* g gives the sum of every part of S, as the recursion in MapThenFoldSet does.
Chosen(s) == CHOOSE x \in s : TRUE
Sums(g, f, S) ==
  g = [s \in SUBSET S |-> IF s = {} THEN 0 ELSE f[Chosen(s)] + g[s \ {Chosen(s)}]]

LEMMA SumsUnique ==
  ASSUME NEW S, IsFiniteSet(S), NEW f, NEW g, NEW h, Sums(g, f, S), Sums(h, f, S)
  PROVE  g = h
<1> DEFINE Same == {s \in SUBSET S : \A u \in SUBSET s : g[u] = h[u]}
<1>1. S \in Same
  <2> SUFFICES ASSUME S \notin Same PROVE FALSE
    OBVIOUS
  <2>1. PICK T \in SUBSET S : T \notin Same /\ \A U \in SUBSET T : U # T => U \in Same
    <3> HIDE DEF Same
    <3> QED BY SmallestMissing
  <2>2. \A U \in SUBSET T : U # T => g[U] = h[U]
    BY <2>1
  <2>3. g[T] = h[T]
    <3>1. CASE T = {}
      BY <3>1 DEF Sums
    <3>2. CASE T # {}
      <4>1. Chosen(T) \in T
        BY <3>2 DEF Chosen
      <4>2. g[T \ {Chosen(T)}] = h[T \ {Chosen(T)}]
        BY <2>2, <4>1
      <4>3. g[T] = f[Chosen(T)] + g[T \ {Chosen(T)}] /\ h[T] = f[Chosen(T)] + h[T \ {Chosen(T)}]
        BY <3>2 DEF Sums
      <4> QED BY <4>2, <4>3
    <3> QED BY <3>1, <3>2
  <2> QED BY <2>1, <2>2, <2>3
<1>2. \A s \in SUBSET S : g[s] = h[s]
  BY <1>1
<1> QED BY <1>2 DEF Sums

LEMMA SumsRestrict ==
  ASSUME NEW S, NEW T \in SUBSET S, NEW f, NEW g, Sums(g, f, S)
  PROVE  Sums([s \in SUBSET T |-> g[s]], f, T)
<1> DEFINE r == [s \in SUBSET T |-> g[s]]
<1>1. ASSUME NEW s \in SUBSET T
      PROVE  r[s] = IF s = {} THEN 0 ELSE f[Chosen(s)] + r[s \ {Chosen(s)}]
  BY DEF Sums
<1> QED BY <1>1 DEF Sums

\* The sum of a set continues the sums of its proper parts, which agree.
LEMMA SumsExist ==
  ASSUME NEW S, IsFiniteSet(S), NEW f
  PROVE  \E g : Sums(g, f, S)
<1> DEFINE Good == {T \in SUBSET S : \E g : Sums(g, f, T)}
<1> SUFFICES ASSUME S \notin Good PROVE FALSE
  OBVIOUS
<1>1. PICK T \in SUBSET S : T \notin Good /\ \A U \in SUBSET T : U # T => U \in Good
  <2> HIDE DEF Good
  <2> QED BY SmallestMissing
<1> DEFINE For(U) == CHOOSE g : Sums(g, f, U)
           below  == [U \in SUBSET T |-> For(U)[U]]
           total  == IF T = {} THEN 0 ELSE f[Chosen(T)] + below[T \ {Chosen(T)}]
           g      == [U \in SUBSET T |-> IF U = T THEN total ELSE below[U]]
<1>2. ASSUME NEW U \in SUBSET T, U # T
      PROVE  Sums(For(U), f, U)
  BY <1>1, <1>2
<1>3. ASSUME NEW U \in SUBSET T, U # T
      PROVE  g[U] = IF U = {} THEN 0 ELSE f[Chosen(U)] + g[U \ {Chosen(U)}]
  <2>1. g[U] = For(U)[U]
    BY <1>3
  <2>2. CASE U = {}
    <3> HIDE DEF For
    <3> QED BY <1>2, <1>3, <2>1, <2>2 DEF Sums
  <2>3. CASE U # {}
    <3> DEFINE V == U \ {Chosen(U)}
    <3>1. Chosen(U) \in U
      BY <2>3 DEF Chosen
    <3>2. V \in SUBSET U /\ V \in SUBSET T /\ V # T
      BY <1>3, <3>1
    <3>3. Sums([s \in SUBSET V |-> For(U)[s]], f, V)
      <4> DEFINE u == For(U)
      <4>1. Sums(u, f, U)
        BY <1>2, <1>3
      <4> HIDE DEF u, V
      <4>2. Sums([s \in SUBSET V |-> u[s]], f, V)
        BY <3>2, <4>1, SumsRestrict
      <4> QED BY <4>2 DEF u
    <3>4. IsFiniteSet(V)
      BY <3>2, FS_Subset
    <3>5. For(V) = [s \in SUBSET V |-> For(U)[s]]
      <4>1. Sums(For(V), f, V)
        BY <1>2, <3>2
      <4> HIDE DEF For, V
      <4> QED BY <4>1, <3>3, <3>4, SumsUnique
    <3>6. g[V] = For(U)[V]
      <4>1. g[V] = For(V)[V]
        BY <3>2
      <4> HIDE DEF For
      <4> QED BY <3>5, <4>1
    <3>7. For(U)[U] = f[Chosen(U)] + For(U)[V]
      <4> HIDE DEF For
      <4> QED BY <1>2, <1>3, <2>3 DEF Sums
    <3> QED BY <2>1, <2>3, <3>6, <3>7
  <2> QED BY <2>2, <2>3
<1>4. g[T] = IF T = {} THEN 0 ELSE f[Chosen(T)] + g[T \ {Chosen(T)}]
  <2>1. CASE T = {}
    BY <2>1
  <2>2. CASE T # {}
    <3>1. Chosen(T) \in T
      BY <2>2 DEF Chosen
    <3> HIDE DEF below
    <3> QED BY <2>2, <3>1
  <2> QED BY <2>1, <2>2
<1>5. \A U \in SUBSET T : g[U] = IF U = {} THEN 0 ELSE f[Chosen(U)] + g[U \ {Chosen(U)}]
  <2> HIDE DEF g
  <2> QED BY <1>3, <1>4
<1>6. Sums(g, f, T)
  <2>1. g = [U \in SUBSET T |-> g[U]]
    OBVIOUS
  <2> HIDE DEF g
  <2> QED BY <1>5, <2>1 DEF Sums
<1> QED BY <1>1, <1>6

LEMMA SumDef ==
  ASSUME NEW f, NEW S
  PROVE  SumFunctionOnSet(f, S) = (CHOOSE g : Sums(g, f, S))[S]
BY DEF SumFunctionOnSet, FoldFunctionOnSet, MapThenFoldSet, Sums, Chosen

LEMMA SumEquation ==
  ASSUME NEW f, NEW S, IsFiniteSet(S)
  PROVE  SumFunctionOnSet(f, S) =
           IF S = {} THEN 0 ELSE f[Chosen(S)] + SumFunctionOnSet(f, S \ {Chosen(S)})
<1> DEFINE g == CHOOSE g : Sums(g, f, S)
           T == S \ {Chosen(S)}
           r == [s \in SUBSET T |-> g[s]]
<1>1. Sums(g, f, S)
  BY SumsExist
<1>2. g[S] = IF S = {} THEN 0 ELSE f[Chosen(S)] + g[T]
  <2> HIDE DEF g
  <2> QED BY <1>1 DEF Sums
<1>3. Sums(r, f, T)
  <2> HIDE DEF g
  <2>1. T \in SUBSET S
    OBVIOUS
  <2> HIDE DEF T
  <2> QED BY <1>1, <2>1, SumsRestrict
<1>4. IsFiniteSet(T)
  BY FS_RemoveElement
<1>5. (CHOOSE h : Sums(h, f, T)) = r
  <2> HIDE DEF r, T
  <2> QED BY <1>3, <1>4, SumsUnique
<1>6. SumFunctionOnSet(f, T) = g[T]
  <2>1. SumFunctionOnSet(f, T) = r[T]
    <3> HIDE DEF r, T
    <3> QED BY <1>5, SumDef
  <2> HIDE DEF g
  <2> QED BY <2>1
<1>7. SumFunctionOnSet(f, S) = g[S]
  BY SumDef
<1> HIDE DEF g, T
<1> QED BY <1>2, <1>6, <1>7 DEF T

LEMMA SumNat ==
  ASSUME NEW S, IsFiniteSet(S), NEW f, \A x \in S : f[x] \in Nat
  PROVE  SumFunctionOnSet(f, S) \in Nat
<1> DEFINE Good == {T \in SUBSET S : SumFunctionOnSet(f, T) \in Nat}
<1> SUFFICES ASSUME S \notin Good PROVE FALSE
  OBVIOUS
<1>1. PICK T \in SUBSET S : T \notin Good /\ \A U \in SUBSET T : U # T => U \in Good
  <2> HIDE DEF Good
  <2> QED BY SmallestMissing
<1>2. SumFunctionOnSet(f, T) =
           IF T = {} THEN 0 ELSE f[Chosen(T)] + SumFunctionOnSet(f, T \ {Chosen(T)})
  BY FS_Subset, SumEquation
<1>3. CASE T # {}
  <2>1. Chosen(T) \in T
    BY <1>3 DEF Chosen
  <2>2. T \ {Chosen(T)} \in Good
    BY <1>1, <2>1
  <2> QED BY <1>1, <1>2, <1>3, <2>1, <2>2
<1> QED BY <1>1, <1>2, <1>3

\* The sum over a set is the sum over the rest and any one element.
LEMMA SumOfRest ==
  ASSUME NEW S, IsFiniteSet(S), NEW f, \A x \in S : f[x] \in Nat, NEW x \in S
  PROVE  SumFunctionOnSet(f, S) = f[x] + SumFunctionOnSet(f, S \ {x})
<1> DEFINE Sum(T) == SumFunctionOnSet(f, T)
           Good == {T \in SUBSET S : \A y \in T : Sum(T) = f[y] + Sum(T \ {y})}
<1> SUFFICES ASSUME S \notin Good PROVE FALSE
  OBVIOUS
<1>1. PICK T \in SUBSET S : T \notin Good /\ \A U \in SUBSET T : U # T => U \in Good
  <2> HIDE DEF Good
  <2> QED BY SmallestMissing
<1>2. PICK y \in T : Sum(T) # f[y] + Sum(T \ {y})
  BY <1>1
<1> DEFINE c == Chosen(T)
<1>3. c \in T
  BY <1>2 DEF Chosen
<1> HIDE DEF c
<1>4. \A U \in SUBSET S : IsFiniteSet(U) /\ Sum(U) \in Nat
  BY FS_Subset, SumNat
<1> HIDE DEF Sum
<1>5. Sum(T) = f[c] + Sum(T \ {c})
  BY <1>3, <1>4, SumEquation DEF Sum, c
<1>6. y # c
  BY <1>2, <1>5
<1>7. Sum(T \ {c}) = f[y] + Sum((T \ {c}) \ {y})
  BY <1>1, <1>2, <1>3, <1>6
<1>8. Sum(T \ {y}) = f[c] + Sum((T \ {y}) \ {c})
  BY <1>1, <1>2, <1>3, <1>6
<1>9. (T \ {c}) \ {y} = (T \ {y}) \ {c}
  OBVIOUS
<1>10. Sum((T \ {c}) \ {y}) \in Nat /\ f[c] \in Nat /\ f[y] \in Nat
  BY <1>2, <1>3, <1>4
<1> HIDE DEF Good
<1> QED BY <1>2, <1>5, <1>7, <1>8, <1>9, <1>10

\* Where a weight is not zero it is no more than another weight.
LEMMA SumWithin ==
  ASSUME NEW S, IsFiniteSet(S), NEW f, NEW g, NEW R,
         \A x \in S : f[x] \in Nat /\ g[x] \in Nat,
         \A x \in S : f[x] <= g[x] /\ (x \in R \/ f[x] = 0)
  PROVE  SumFunctionOnSet(f, S) <= SumFunctionOnSet(g, S \cap R)
<1> DEFINE F(T) == SumFunctionOnSet(f, T)
           G(T) == SumFunctionOnSet(g, T)
           Good == {T \in SUBSET S : F(T) <= G(T \cap R)}
<1> SUFFICES ASSUME S \notin Good PROVE FALSE
  OBVIOUS
<1>1. PICK T \in SUBSET S : T \notin Good /\ \A U \in SUBSET T : U # T => U \in Good
  <2> HIDE DEF Good
  <2> QED BY SmallestMissing
<1>2. \A U \in SUBSET S : IsFiniteSet(U) /\ F(U) \in Nat /\ G(U) \in Nat
  BY FS_Subset, SumNat
<1>3. F({}) = 0 /\ G({}) = 0
  BY FS_EmptySet, SumEquation
<1>4. \A U \in SUBSET S : \A x \in U : F(U) = f[x] + F(U \ {x}) /\ G(U) = g[x] + G(U \ {x})
  BY <1>2, SumOfRest
<1> HIDE DEF F, G
<1>5. PICK x \in T : TRUE
  <2>1. CASE T = {}
    <3>1. T \cap R = {}
      BY <2>1
    <3> QED BY <1>1, <1>3, <2>1, <3>1
  <2> QED BY <2>1
<1> DEFINE U == T \ {x}
<1>6. F(U) <= G(U \cap R)
  BY <1>1, <1>5
<1>7. /\ F(T) = f[x] + F(U) /\ ~ F(T) <= G(T \cap R)
      /\ F(U) \in Nat /\ G(U \cap R) \in Nat /\ f[x] \in Nat /\ g[x] \in Nat
  BY <1>1, <1>2, <1>4, <1>5
<1>8. CASE x \in R
  <2>1. G(T \cap R) = g[x] + G((T \cap R) \ {x}) /\ f[x] <= g[x]
    BY <1>4, <1>5, <1>8
  <2>2. (T \cap R) \ {x} = U \cap R
    OBVIOUS
  <2>3. G(T \cap R) = g[x] + G(U \cap R)
    BY <2>1, <2>2, Zenon
  <2> HIDE DEF U, Good
  <2> QED BY <1>6, <1>7, <2>1, <2>3
<1>9. CASE x \notin R
  <2>1. f[x] = 0
    BY <1>5, <1>9
  <2>2. U \cap R = T \cap R
    BY <1>9
  <2>3. G(U \cap R) = G(T \cap R)
    BY <2>2, Zenon
  <2> HIDE DEF U, Good
  <2> QED BY <1>6, <1>7, <2>1, <2>3
<1> QED BY <1>8, <1>9

\* A sum is the sum of two parts.
LEMMA SumSplit ==
  ASSUME NEW S, IsFiniteSet(S), NEW f, \A x \in S : f[x] \in Nat, NEW R
  PROVE  SumFunctionOnSet(f, S) = SumFunctionOnSet(f, S \cap R) + SumFunctionOnSet(f, S \ R)
<1> DEFINE F(T) == SumFunctionOnSet(f, T)
           Good == {T \in SUBSET S : F(T) = F(T \cap R) + F(T \ R)}
<1> SUFFICES ASSUME S \notin Good PROVE FALSE
  OBVIOUS
<1>1. PICK T \in SUBSET S : T \notin Good /\ \A U \in SUBSET T : U # T => U \in Good
  <2> HIDE DEF Good
  <2> QED BY SmallestMissing
<1>2. \A U \in SUBSET S : IsFiniteSet(U) /\ F(U) \in Nat
  BY FS_Subset, SumNat
<1>3. F({}) = 0
  BY FS_EmptySet, SumEquation
<1>4. \A U \in SUBSET S : \A x \in U : F(U) = f[x] + F(U \ {x})
  BY <1>2, SumOfRest
<1> HIDE DEF F
<1>5. PICK x \in T : TRUE
  <2>1. CASE T = {}
    <3>1. T \cap R = {} /\ T \ R = {}
      BY <2>1
    <3> QED BY <1>1, <1>3, <2>1, <3>1
  <2> QED BY <2>1
<1> DEFINE U == T \ {x}
<1>6. F(U) = F(U \cap R) + F(U \ R)
  BY <1>1, <1>5
<1>7. /\ F(T) = f[x] + F(U) /\ F(T) # F(T \cap R) + F(T \ R)
      /\ F(U) \in Nat /\ F(U \cap R) \in Nat /\ F(U \ R) \in Nat /\ f[x] \in Nat
  BY <1>1, <1>2, <1>4, <1>5
<1>8. CASE x \in R
  <2>1. F(T \cap R) = f[x] + F((T \cap R) \ {x})
    BY <1>4, <1>5, <1>8
  <2>2. (T \cap R) \ {x} = U \cap R /\ U \ R = T \ R
    BY <1>8
  <2>3. F(T \cap R) = f[x] + F(U \cap R) /\ F(U \ R) = F(T \ R)
    BY <2>1, <2>2, Zenon
  <2> HIDE DEF U, Good
  <2> QED BY <1>6, <1>7, <2>3
<1>9. CASE x \notin R
  <2>1. F(T \ R) = f[x] + F((T \ R) \ {x})
    BY <1>4, <1>5, <1>9
  <2>2. (T \ R) \ {x} = U \ R /\ U \cap R = T \cap R
    BY <1>9
  <2>3. F(T \ R) = f[x] + F(U \ R) /\ F(U \cap R) = F(T \cap R)
    BY <2>1, <2>2, Zenon
  <2> HIDE DEF U, Good
  <2> QED BY <1>6, <1>7, <2>3
<1> QED BY <1>8, <1>9

-----------------------------------------------------------------------------
(* Which actions write which variables *)

LEMMA RunWriters ==
  ASSUME [Next]_vars
  PROVE  \/ UNCHANGED runVars
         \/ \E r \in Runs :
              \/ Admit(r) \/ AdmitUnchecked(r) \/ RunBegin(r) \/ RunAbandon(r)
              \/ \E p \in Platforms : ReserveShort(r, p)
              \/ \E s \in {"completed", "failed"} : RunEnd(r, s)
         \/ \E c \in Cancellers : CancelCommit(c)
  BY DEF Next, vars, runVars, CreateRequest, Batch, Settler, Canceller, Create,
         ReadReserved, ReadSettled, ReadRefunded, Refuse, Dispatch, CreateDies, Reserve,
         ReserveLost, Fetch, Settle, SettleLost, UpdateSpent, UpdateSpentLost,
         SettlerCrash, CancelCheck, CancelList, CancelLook, CancelRefund, CancelDone,
         CancelRefundsLost, Leave

LEMMA LedgerWriters ==
  ASSUME [Next]_vars
  PROVE  \/ UNCHANGED txnVars
         \/ \E r \in Runs, p \in Platforms : Reserve(r, p)
         \/ \E s \in Settlers, k \in Keys : Settle(s, k)
         \/ \E c \in Cancellers : CancelRefund(c)
  BY DEF Next, vars, txnVars, CreateRequest, Batch, Settler, Canceller, Create,
         ReadReserved, ReadSettled, ReadRefunded, Refuse, Admit, AdmitUnchecked,
         InsertRun, Dispatch, CreateDies, ReserveShort, ReserveLost, RunBegin, RunEnd,
         RunAbandon, Fetch, SettleLost, UpdateSpent, UpdateSpentLost, SettlerCrash,
         CancelCheck, CancelCommit, CancelList, CancelLook, CancelDone,
         CancelRefundsLost, Leave

LEMMA CreateWriters ==
  ASSUME [Next]_vars
  PROVE  UNCHANGED createVars \/ \E r \in Runs : CreateRequest(r)
  BY DEF Next, vars, createVars, Batch, Settler, Canceller, RunBegin, RunEnd, RunAbandon,
         Fetch, Settle, SettleLost, UpdateSpent, UpdateSpentLost, SettlerCrash,
         CancelCheck, CancelCommit, CancelList, CancelLook, CancelRefund, CancelDone,
         CancelRefundsLost, Leave

LEMMA SettlerWriters ==
  ASSUME [Next]_vars
  PROVE  UNCHANGED <<pending, paying>> \/ \E s \in Settlers : Settler(s)
  BY DEF Next, vars, settleVars, CreateRequest, Batch, Canceller, Create, ReadReserved,
         ReadSettled, ReadRefunded, Refuse, Admit, AdmitUnchecked, InsertRun, Dispatch,
         CreateDies, Reserve, ReserveShort, ReserveLost, RunBegin, RunEnd, RunAbandon,
         CancelCheck, CancelCommit, CancelList, CancelLook, CancelRefund, CancelDone,
         CancelRefundsLost, Leave

LEMMA CancelWriters ==
  ASSUME [Next]_vars
  PROVE  UNCHANGED cancelVars \/ \E c \in Cancellers : Canceller(c)
  BY DEF Next, vars, cancelVars, CreateRequest, Batch, Settler, Create, ReadReserved,
         ReadSettled, ReadRefunded, Refuse, Admit, AdmitUnchecked, InsertRun, Dispatch,
         CreateDies, Reserve, ReserveShort, ReserveLost, RunBegin, RunEnd, RunAbandon,
         Fetch, Settle, SettleLost, UpdateSpent, UpdateSpentLost, SettlerCrash

LEMMA FaultWriters ==
  ASSUME [Next]_vars
  PROVE  UNCHANGED faults \/ Fault
  BY DEF Next, vars, CreateRequest, Batch, Settler, Canceller, Create, ReadReserved,
         ReadSettled, ReadRefunded, Refuse, Admit, AdmitUnchecked, Dispatch, CreateDies,
         Reserve, ReserveShort, ReserveLost, RunBegin, RunEnd, RunAbandon, Fetch, Settle,
         SettleLost, UpdateSpent, UpdateSpentLost, SettlerCrash, CancelCheck,
         CancelCommit, CancelList, CancelLook, CancelRefund, CancelDone,
         CancelRefundsLost

-----------------------------------------------------------------------------
(* Typing, group of variables by group of variables *)

LEMMA StatusTyped ==
  ASSUME TypeOK, [Next]_vars
  PROVE  StatusOK'
<1> USE DEF TypeOK, StatusOK, runVars, Terminal
<1>1. CASE UNCHANGED runVars
  BY <1>1
<1>2. ASSUME NEW r \in Runs, Admit(r) \/ AdmitUnchecked(r)
      PROVE  StatusOK'
  BY <1>2 DEF Admit, AdmitUnchecked, InsertRun
<1>3. ASSUME NEW r \in Runs, RunBegin(r) \/ RunAbandon(r)
      PROVE  StatusOK'
  BY <1>3 DEF RunBegin, RunAbandon
<1>4. ASSUME NEW r \in Runs, NEW p \in Platforms, ReserveShort(r, p)
      PROVE  StatusOK'
  BY <1>4 DEF ReserveShort
<1>5. ASSUME NEW r \in Runs, NEW s \in {"completed", "failed"}, RunEnd(r, s)
      PROVE  StatusOK'
  BY <1>5 DEF RunEnd
<1>6. ASSUME NEW c \in Cancellers, CancelCommit(c)
      PROVE  StatusOK'
  BY <1>6 DEF CancelCommit
<1> QED BY <1>1, <1>2, <1>3, <1>4, <1>5, <1>6, RunWriters

LEMMA LedgerTyped ==
  ASSUME TypeOK, [Next]_vars
  PROVE  LedgerOK'
<1> USE DEF TypeOK, LedgerOK, txnVars
<1>1. CASE UNCHANGED txnVars
  BY <1>1
<1>2. ASSUME NEW r \in Runs, NEW p \in Platforms, Reserve(r, p)
      PROVE  LedgerOK'
  BY <1>2 DEF Reserve, Keys
<1>3. ASSUME NEW s \in Settlers, NEW k \in Keys, Settle(s, k)
      PROVE  LedgerOK'
  BY <1>3 DEF Settle
<1>4. ASSUME NEW c \in Cancellers, CancelRefund(c)
      PROVE  LedgerOK'
  BY <1>4 DEF CancelRefund, CancellersOK
<1> QED BY <1>1, <1>2, <1>3, <1>4, LedgerWriters

LEMMA CreateTyped ==
  ASSUME TypeOK, [Next]_vars
  PROVE  CreateOK'
<1> USE DEF TypeOK, CreateOK, createVars
<1>1. CASE UNCHANGED createVars
  BY <1>1
<1>2. ASSUME NEW r \in Runs, CreateRequest(r)
      PROVE  CreateOK'
  <2>1. CASE Create(r) \/ Dispatch(r)
    BY <2>1 DEF Create, Dispatch
  <2>2. CASE ReadReserved(r) \/ ReadSettled(r) \/ ReadRefunded(r)
    BY <2>2 DEF ReadReserved, ReadSettled, ReadRefunded
  <2>3. CASE Refuse(r) \/ CreateDies(r)
    BY <2>3 DEF Refuse, CreateDies, Forget
  <2>4. CASE Admit(r) \/ AdmitUnchecked(r)
    BY <2>4 DEF Admit, AdmitUnchecked, InsertRun, Forget
  <2>5. ASSUME NEW p \in Platforms, Reserve(r, p) \/ ReserveShort(r, p) \/ ReserveLost(r, p)
        PROVE  CreateOK'
    BY <2>5 DEF Reserve, ReserveShort, ReserveLost, Forget
  <2> QED BY <1>2, <2>1, <2>2, <2>3, <2>4, <2>5 DEF CreateRequest
<1> QED BY <1>1, <1>2, CreateWriters

LEMMA SettlersTyped ==
  ASSUME TypeOK, [Next]_vars
  PROVE  SettlersOK'
<1> USE DEF TypeOK, SettlersOK
<1>1. CASE UNCHANGED <<pending, paying>>
  BY <1>1
<1>2. ASSUME NEW s \in Settlers, Settler(s)
      PROVE  SettlersOK'
  <2>1. CASE Fetch(s)
    BY <2>1 DEF Fetch, Unsettled, LedgerOK
  <2>2. CASE UpdateSpent(s) \/ UpdateSpentLost(s) \/ SettlerCrash(s)
    BY <2>2 DEF UpdateSpent, UpdateSpentLost, SettlerCrash
  <2>3. ASSUME NEW k \in Keys, Settle(s, k) \/ SettleLost(s, k)
        PROVE  SettlersOK'
    BY <2>3 DEF Settle, SettleLost
  <2> QED BY <1>2, <2>1, <2>2, <2>3 DEF Settler
<1> QED BY <1>1, <1>2, SettlerWriters

LEMMA CancellersTyped ==
  ASSUME TypeOK, [Next]_vars
  PROVE  CancellersOK'
<1> USE DEF TypeOK, CancellersOK, cancelVars
<1>1. CASE UNCHANGED cancelVars
  BY <1>1
<1>2. ASSUME NEW c \in Cancellers, Canceller(c)
      PROVE  CancellersOK'
  <2>1. CASE CancelCommit(c)
    BY <2>1 DEF CancelCommit
  <2>2. CASE CancelList(c)
    BY <2>2 DEF CancelList, LedgerOK
  <2>3. CASE CancelRefund(c)
    BY <2>3 DEF CancelRefund
  <2>4. CASE CancelDone(c) \/ CancelRefundsLost(c)
    BY <2>4 DEF CancelDone, CancelRefundsLost, Leave
  <2>5. ASSUME NEW r \in Runs, CancelCheck(c, r)
        PROVE  CancellersOK'
    BY <2>5 DEF CancelCheck
  <2>6. ASSUME NEW k \in Keys, CancelLook(c, k)
        PROVE  CancellersOK'
    BY <2>6 DEF CancelLook
  <2> QED BY <1>2, <2>1, <2>2, <2>3, <2>4, <2>5, <2>6 DEF Canceller
<1> QED BY <1>1, <1>2, CancelWriters

\* Every table and process of the ledger stays well formed, whatever the
\* requests, settlements, cancellations and failures.
THEOREM LedgerTypeCorrect == Spec => []TypeOK
<1>1. Init => TypeOK
  BY DEF Init, TypeOK, StatusOK, LedgerOK, CreateOK, SettlersOK, CancellersOK, Keys
<1>2. TypeOK /\ [Next]_vars => TypeOK'
  <2> SUFFICES ASSUME TypeOK, [Next]_vars
               PROVE  TypeOK'
    OBVIOUS
  <2>1. faults' \in Nat
    BY FaultWriters DEF Fault, TypeOK
  <2> QED BY <2>1, StatusTyped, LedgerTyped, CreateTyped, SettlersTyped, CancellersTyped
          DEF TypeOK
<1> QED BY <1>1, <1>2, PTL DEF Spec

-----------------------------------------------------------------------------
(* Nothing takes a stamp or a reservation back *)

LEMMA StampsStay ==
  ASSUME TypeOK, [Next]_vars, NEW r \in Runs, completedAt[r]
  PROVE  completedAt'[r]
<1> USE DEF TypeOK, StatusOK, runVars
<1>1. ASSUME NEW q \in Runs,
             Admit(q) \/ AdmitUnchecked(q) \/ RunBegin(q) \/ RunAbandon(q)
      PROVE  completedAt' = completedAt
  BY <1>1 DEF Admit, AdmitUnchecked, InsertRun, RunBegin, RunAbandon
<1>2. ASSUME NEW q \in Runs, NEW p \in Platforms, ReserveShort(q, p)
      PROVE  completedAt' = completedAt
  BY <1>2 DEF ReserveShort
<1>3. ASSUME NEW q \in Runs, NEW s \in {"completed", "failed"}, RunEnd(q, s)
      PROVE  completedAt'[r]
  BY <1>3 DEF RunEnd
<1>4. ASSUME NEW c \in Cancellers, CancelCommit(c)
      PROVE  completedAt'[r]
  BY <1>4 DEF CancelCommit
<1> QED BY <1>1, <1>2, <1>3, <1>4, RunWriters

LEMMA ReservationsStay ==
  ASSUME [Next]_vars
  PROVE  reserved \subseteq reserved'
BY LedgerWriters DEF Reserve, Settle, CancelRefund, txnVars

-----------------------------------------------------------------------------
(* Settled once.  Between the fetch and the settlement of a row nobody else *)
(* settles it, because there is one settler.                                *)

Chargeable(k) == k \in reserved /\ completedAt[k[1]]

SettleInv ==
  /\ SettledOnce
  /\ \A s \in Settlers : \A k \in pending[s] : Chargeable(k) /\ settled[k] = 0

LEMMA ChargeableStays ==
  ASSUME TypeOK, [Next]_vars, NEW k \in Keys, Chargeable(k)
  PROVE  Chargeable(k)'
<1>1. k[1] \in Runs
  BY DEF Keys
<1> QED BY <1>1, StampsStay, ReservationsStay DEF Chargeable

LEMMA SettleStep ==
  ASSUME TypeOK, SettleInv, [Next]_vars, \A s, t \in Settlers : s = t
  PROVE  SettleInv'
<1> USE DEF TypeOK, LedgerOK, SettlersOK, SettledOnce, SettleInv
<1>1. \A k \in Keys : Chargeable(k) => Chargeable(k)'
  BY ChargeableStays
<1>2. ASSUME NEW s \in Settlers, NEW k \in Keys, Settle(s, k)
      PROVE  SettleInv'
  <2>1. Chargeable(k) /\ settled[k] = 0
    BY <1>2 DEF Settle
  <2>2. settled' = [settled EXCEPT ![k] = 1]
    BY <1>2, <2>1 DEF Settle
  <2>3. SettledOnce'
    BY <1>1, <2>1, <2>2 DEF Chargeable
  <2>4. ASSUME NEW t \in Settlers, NEW q \in pending'[t]
        PROVE  Chargeable(q)' /\ settled'[q] = 0
    <3>1. t = s /\ q \in pending[s] \ {k}
      BY <1>2, <2>4 DEF Settle
    <3>2. q \in Keys /\ q # k
      BY <3>1
    <3> QED BY <1>1, <2>2, <3>1, <3>2
  <2> QED BY <2>3, <2>4
<1>3. ASSUME settled' = settled,
             \A s \in Settlers : \A k \in pending'[s] : k \in pending[s] \/ k \in Unsettled
      PROVE  SettleInv'
  <2>1. \A s \in Settlers : \A k \in pending'[s] :
           k \in Keys /\ Chargeable(k) /\ settled[k] = 0
    BY <1>3 DEF Unsettled, Chargeable
  <2>2. SettledOnce'
    BY <1>1, <1>3 DEF Chargeable
  <2> QED BY <1>1, <1>3, <2>1, <2>2
<1>4. CASE ~ \E s \in Settlers, k \in Keys : Settle(s, k)
  <2>1. settled' = settled
    BY <1>4, LedgerWriters DEF txnVars, Reserve, CancelRefund
  <2>2. \A s \in Settlers : \A k \in pending'[s] : k \in pending[s] \/ k \in Unsettled
    <3>1. CASE UNCHANGED <<pending, paying>>
      BY <3>1
    <3>2. ASSUME NEW s \in Settlers, Settler(s)
          PROVE  \A t \in Settlers : \A k \in pending'[t] :
                    k \in pending[t] \/ k \in Unsettled
      BY <1>4, <3>2 DEF Settler, Fetch, SettleLost, UpdateSpent, UpdateSpentLost,
                        SettlerCrash
    <3> QED BY <3>1, <3>2, SettlerWriters
  <2> QED BY <1>3, <2>1, <2>2
<1> QED BY <1>2, <1>4

\* A reservation is charged at most once and only after its run ended, for any
\* number of failures, as long as settlement instances do not overlap.
THEOREM SettlementIsOnce ==
  ASSUME \A s, t \in Settlers : s = t
  PROVE  Spec => []SettledOnce
<1>1. Init => SettleInv
  BY DEF Init, SettleInv, SettledOnce, Keys
<1>2. TypeOK /\ SettleInv /\ [Next]_vars => SettleInv'
  BY SettleStep
<1>3. SettleInv => SettledOnce
  BY DEF SettleInv
<1> QED BY <1>1, <1>2, <1>3, LedgerTypeCorrect, PTL DEF Spec

-----------------------------------------------------------------------------
(* Refunds.  Those that have looked for a refund of a reservation and found    *)
(* none are no more than there are requests; once there is one, nobody joins    *)
(* them.  The stamp set by its own commit covers every reservation a request    *)
(* lists.                                                                       *)

AboutTo(k) == {c \in Cancellers : refunding[c] = k}

RefundInv ==
  /\ \A k \in Keys :
       /\ refunded[k] + Cardinality(AboutTo(k)) <= Cardinality(Cancellers)
       /\ refunded[k] > 0 => Chargeable(k)
  /\ \A c \in Cancellers :
       /\ upc[c] \in {"cancelled", "refunding"} => completedAt[urun[c]]
       /\ \A k \in todo[c] : Chargeable(k)
       /\ refunding[c] # NoKey => Chargeable(refunding[c])

LEMMA KeyIsPair == \A k \in Keys : k # NoKey
<1>1. ASSUME NEW r \in Runs, NEW p \in Platforms
      PROVE  <<r, p>> # NoKey
  <2>1. Len(<<r, p>>) = 2 /\ Len(<<>>) = 0
    OBVIOUS
  <2> QED BY <2>1 DEF NoKey
<1> QED BY <1>1 DEF Keys

\* Fewer that are about to refund.
LEMMA FewerRefund ==
  ASSUME RefundInv, TypeOK, NEW k \in Keys, refunded'[k] = refunded[k], AboutTo(k)' \subseteq AboutTo(k)
  PROVE  refunded'[k] + Cardinality(AboutTo(k)') <= Cardinality(Cancellers)
<1>1. IsFiniteSet(AboutTo(k)) /\ IsFiniteSet(AboutTo(k)') /\ IsFiniteSet(Cancellers)
  BY CreditAssumption, FS_Subset DEF AboutTo
<1>2. /\ Cardinality(AboutTo(k)) \in Nat /\ Cardinality(AboutTo(k)') \in Nat /\ Cardinality(Cancellers) \in Nat
      /\ Cardinality(AboutTo(k)') <= Cardinality(AboutTo(k))
  BY <1>1, FS_CardinalityType, FS_Subset
<1>3. refunded[k] \in Nat /\ refunded[k] + Cardinality(AboutTo(k)) <= Cardinality(Cancellers)
  BY DEF RefundInv, TypeOK, LedgerOK
<1> QED BY <1>2, <1>3

LEMMA RefundStep ==
  ASSUME TypeOK, RefundInv, [Next]_vars
  PROVE  RefundInv'
<1> USE DEF TypeOK, LedgerOK, CancellersOK
<1>1. \A k \in Keys : Chargeable(k) => Chargeable(k)'
  BY ChargeableStays
<1>2. \A r \in Runs : completedAt[r] => completedAt'[r]
  BY StampsStay
<1>0. (\A k \in Keys : refunded[k] > 0 => Chargeable(k)) /\ refunded \in [Keys -> Nat]
  BY DEF RefundInv
<1>3. CASE refunded' = refunded /\ UNCHANGED cancelVars
  <2>1. \A k \in Keys : AboutTo(k)' = AboutTo(k)
    BY <1>3 DEF AboutTo, cancelVars
  <2> QED BY <1>0, <1>1, <1>2, <1>3, <2>1, FewerRefund DEF RefundInv, Chargeable, cancelVars
<1>4. ASSUME NEW c \in Cancellers, CancelCheck(c, urun'[c]) \/ CancelDone(c) \/ CancelRefundsLost(c)
      PROVE  RefundInv'
  <2>1. refunded' = refunded /\ upc'[c] \in {"checked", "idle"}
    BY <1>4 DEF CancelCheck, CancelDone, CancelRefundsLost, Leave, txnVars
  <2>2. todo'[c] \subseteq todo[c] /\ refunding'[c] \in {refunding[c], NoKey}
    BY <1>4 DEF CancelCheck, CancelDone, CancelRefundsLost, Leave
  <2>3. \A d \in Cancellers \ {c} : /\ upc'[d] = upc[d] /\ urun'[d] = urun[d] /\ todo'[d] = todo[d]
                                   /\ refunding'[d] = refunding[d]
    BY <1>4 DEF CancelCheck, CancelDone, CancelRefundsLost, Leave
  <2>4. \A k \in Keys : AboutTo(k)' \subseteq AboutTo(k)
    BY <2>2, <2>3 DEF AboutTo, NoKey, Keys
  <2>5. UNCHANGED completedAt
    BY <1>4 DEF CancelCheck, CancelDone, CancelRefundsLost, Leave, runVars
  <2> QED BY <1>0, <1>1, <2>1, <2>2, <2>3, <2>4, <2>5, FewerRefund DEF RefundInv
<1>5. ASSUME NEW c \in Cancellers, CancelCommit(c)
      PROVE  RefundInv'
  <2>1. /\ refunded' = refunded /\ urun' = urun /\ todo' = todo /\ refunding' = refunding
        /\ urun[c] \in Runs
    BY <1>5 DEF CancelCommit, txnVars
  <2>2. completedAt'[urun[c]] /\ \A d \in Cancellers \ {c} : upc'[d] = upc[d]
    BY <1>5, <2>1 DEF CancelCommit, StatusOK
  <2>3. \A k \in Keys : AboutTo(k)' = AboutTo(k)
    BY <2>1 DEF AboutTo
  <2> QED BY <1>0, <1>1, <1>2, <2>1, <2>2, <2>3, FewerRefund DEF RefundInv
<1>6. ASSUME NEW c \in Cancellers, CancelList(c)
      PROVE  RefundInv'
  <2>1. /\ refunded' = refunded /\ urun' = urun /\ refunding' = refunding
        /\ completedAt' = completedAt /\ reserved' = reserved /\ completedAt[urun[c]]
    BY <1>6 DEF CancelList, txnVars, runVars, RefundInv
  <2>2. /\ \A k \in todo'[c] : k \in reserved /\ k[1] = urun[c]
        /\ \A d \in Cancellers \ {c} : todo'[d] = todo[d] /\ upc'[d] = upc[d]
    BY <1>6 DEF CancelList, RowsOf
  <2>3. \A k \in Keys : AboutTo(k)' = AboutTo(k)
    BY <2>1 DEF AboutTo
  <2>4. \A k \in todo'[c] : Chargeable(k)'
    BY <2>1, <2>2 DEF Chargeable
  <2> QED BY <1>0, <1>1, <2>1, <2>2, <2>3, <2>4, FewerRefund DEF RefundInv
<1>7. ASSUME NEW c \in Cancellers, NEW k \in Keys, CancelLook(c, k)
      PROVE  RefundInv'
  <2>1. /\ refunded' = refunded /\ urun' = urun /\ upc' = upc
        /\ completedAt' = completedAt /\ reserved' = reserved
        /\ k \in todo[c]
    BY <1>7 DEF CancelLook, txnVars, runVars
  <2>2. todo'[c] \subseteq todo[c] /\ Chargeable(k)
    BY <1>7, <2>1 DEF CancelLook, RefundInv
  <2>3. refunding'[c] # NoKey => refunding'[c] = k /\ refunded[k] = 0
    BY <1>7 DEF CancelLook
  <2>4. \A d \in Cancellers \ {c} : todo'[d] = todo[d] /\ refunding'[d] = refunding[d]
    BY <1>7 DEF CancelLook
  <2>5. ASSUME NEW q \in Keys PROVE refunded'[q] + Cardinality(AboutTo(q)') <= Cardinality(Cancellers)
    <3>1. CASE refunded[q] = 0
      <4>1. AboutTo(q)' \subseteq Cancellers /\ IsFiniteSet(Cancellers)
        BY CreditAssumption DEF AboutTo
      <4>2. /\ Cardinality(AboutTo(q)') <= Cardinality(Cancellers)
            /\ Cardinality(AboutTo(q)') \in Nat /\ Cardinality(Cancellers) \in Nat
        BY <4>1, FS_Subset, FS_CardinalityType
      <4> QED BY <2>1, <3>1, <4>2
    <3>2. CASE refunded[q] # 0
      <4>1. AboutTo(q)' \subseteq AboutTo(q)
        BY <2>3, <2>4, <3>2 DEF AboutTo, NoKey, Keys
      <4> QED BY <2>1, <4>1, FewerRefund
    <3> QED BY <3>1, <3>2
  <2> QED BY <1>0, <1>1, <2>1, <2>2, <2>3, <2>4, <2>5 DEF RefundInv
<1>8. ASSUME NEW c \in Cancellers, CancelRefund(c)
      PROVE  RefundInv'
  <2>1. PICK k \in Keys : refunding[c] = k /\ Chargeable(k)
    BY <1>8 DEF CancelRefund, RefundInv
  <2>2. /\ refunded' = [refunded EXCEPT ![k] = refunded[k] + 1] /\ refunding' = [refunding EXCEPT ![c] = NoKey]
        /\ upc' = upc /\ urun' = urun /\ todo' = todo
        /\ completedAt' = completedAt /\ reserved' = reserved
    BY <1>8, <2>1 DEF CancelRefund, runVars
  <2>3. /\ refunded'[k] = refunded[k] + 1 /\ \A q \in Keys \ {k} : refunded'[q] = refunded[q]
        /\ refunding'[c] = NoKey /\ \A d \in Cancellers \ {c} : refunding'[d] = refunding[d]
    BY <1>0, <2>2
  <2>4. AboutTo(k)' = AboutTo(k) \ {c} /\ c \in AboutTo(k) /\ \A q \in Keys \ {k} : AboutTo(q)' = AboutTo(q)
    BY KeyIsPair, <2>1, <2>3 DEF AboutTo
  <2>5. refunded'[k] + Cardinality(AboutTo(k)') <= Cardinality(Cancellers)
    <3>1. IsFiniteSet(AboutTo(k)) /\ IsFiniteSet(Cancellers)
      BY CreditAssumption, FS_Subset DEF AboutTo
    <3>2. Cardinality(AboutTo(k) \ {c}) = Cardinality(AboutTo(k)) - 1
      BY <2>4, <3>1, FS_RemoveElement
    <3>3. Cardinality(AboutTo(k)') = Cardinality(AboutTo(k)) - 1
      BY <2>4, <3>2, Zenon
    <3>4. Cardinality(AboutTo(k)) \in Nat /\ Cardinality(Cancellers) \in Nat /\ refunded[k] \in Nat
      BY <1>0, <3>1, FS_CardinalityType
    <3>5. refunded[k] + Cardinality(AboutTo(k)) <= Cardinality(Cancellers)
      BY DEF RefundInv
    <3> QED BY <2>3, <3>3, <3>4, <3>5
  <2>6. \A q \in Keys : refunded'[q] + Cardinality(AboutTo(q)') <= Cardinality(Cancellers)
    BY <2>3, <2>4, <2>5, FewerRefund
  <2> QED BY <1>0, <1>1, <2>1, <2>2, <2>3, <2>6 DEF RefundInv
<1>9. UNCHANGED refunded \/ \E c \in Cancellers : CancelRefund(c)
  BY LedgerWriters DEF Reserve, Settle, txnVars
<1>10. UNCHANGED cancelVars \/ \E c \in Cancellers :
          \/ CancelCheck(c, urun'[c]) \/ CancelDone(c) \/ CancelRefundsLost(c)
          \/ CancelCommit(c) \/ CancelList(c) \/ CancelRefund(c)
          \/ \E k \in Keys : CancelLook(c, k)
  <2>1. ASSUME NEW c \in Cancellers, NEW r \in Runs, CancelCheck(c, r)
        PROVE  CancelCheck(c, urun'[c])
    BY <2>1 DEF CancelCheck
  <2> QED BY <2>1, CancelWriters DEF Canceller
<1> QED BY <1>3, <1>4, <1>5, <1>6, <1>7, <1>8, <1>9, <1>10

\* A reservation is refunded only for a stamped run, and at most once by each of
\* the cancel requests that overlap, for any number of them and of failures.
THEOREM RefundsAreBounded == Spec => []RefundsBounded
<1>1. Init => RefundInv
  <2> SUFFICES ASSUME Init PROVE RefundInv
    OBVIOUS
  <2>1. /\ \A k \in Keys : refunded[k] = 0 /\ k # NoKey
        /\ \A c \in Cancellers : upc[c] = "idle" /\ todo[c] = {} /\ refunding[c] = NoKey
    BY KeyIsPair DEF Init
  <2>2. \A k \in Keys : AboutTo(k) = {}
    BY <2>1 DEF AboutTo
  <2>3. Cardinality({}) = 0 /\ Cardinality(Cancellers) \in Nat
    BY CreditAssumption, FS_EmptySet, FS_CardinalityType
  <2>4. \A k \in Keys : Cardinality(AboutTo(k)) = 0
    BY <2>2, <2>3
  <2> QED BY <2>1, <2>3, <2>4 DEF RefundInv
<1>2. TypeOK /\ RefundInv /\ [Next]_vars => RefundInv'
  BY RefundStep
<1>3. TypeOK /\ RefundInv => RefundsBounded
  <2> SUFFICES ASSUME TypeOK, RefundInv, NEW k \in Keys
               PROVE  /\ refunded[k] <= Cardinality(Cancellers)
                      /\ refunded[k] > 0 => k \in reserved /\ completedAt[k[1]]
    BY DEF RefundsBounded
  <2>1. AboutTo(k) \subseteq Cancellers /\ IsFiniteSet(Cancellers)
    BY CreditAssumption DEF AboutTo
  <2>2. Cardinality(AboutTo(k)) \in Nat /\ Cardinality(Cancellers) \in Nat
    BY <2>1, FS_Subset, FS_CardinalityType
  <2>3. refunded[k] \in Nat /\ refunded[k] + Cardinality(AboutTo(k)) <= Cardinality(Cancellers)
    BY DEF RefundInv, TypeOK, LedgerOK
  <2>4. refunded[k] > 0 => k \in reserved /\ completedAt[k[1]]
    BY DEF RefundInv, Chargeable
  <2> QED BY <2>2, <2>3, <2>4
<1> QED BY <1>1, <1>2, <1>3, LedgerTypeCorrect, PTL DEF Spec

-----------------------------------------------------------------------------
(* The rows as RunStatus promises them.  The insert of a run must not touch *)
(* a run that exists: nobody sees a run before create_collection_run has    *)
(* inserted it.                                                             *)

AbsentInv ==
  /\ \A r \in Runs : pc[r] \in {"new", "check"} => status[r] = "absent"
  /\ \A c \in Cancellers : upc[c] = "checked" => pc[urun[c]] \notin {"new", "check"}

LEMMA RowStep ==
  ASSUME TypeOK, AbsentInv, [Next]_vars, NEW r \in Runs
  PROVE  RunRow(r)!Next \/ UNCHANGED <<StatusOf(r), completedAt[r]>>
<1> USE DEF TypeOK, StatusOK, runVars, StatusOf, AbsentInv, RunRow!Next, RunRow!Begin,
        RunRow!End, RunRow!Abandon, RunRow!Terminal
<1> DEFINE Promised == RunRow(r)!Next \/ UNCHANGED <<StatusOf(r), completedAt[r]>>
<1>1. CASE UNCHANGED runVars
  BY <1>1
<1>2. ASSUME NEW q \in Runs, Admit(q) \/ AdmitUnchecked(q)
      PROVE  Promised
  <2>1. status[q] = "absent"
    BY <1>2 DEF Admit, AdmitUnchecked
  <2> QED BY <1>2, <2>1 DEF Admit, AdmitUnchecked, InsertRun
<1>3. ASSUME NEW q \in Runs, RunBegin(q)
      PROVE  Promised
  BY <1>3 DEF RunBegin
<1>4. ASSUME NEW q \in Runs, RunAbandon(q) \/ \E p \in Platforms : ReserveShort(q, p)
      PROVE  Promised
  BY <1>4 DEF RunAbandon, ReserveShort
<1>5. ASSUME NEW q \in Runs, NEW s \in {"completed", "failed"}, RunEnd(q, s)
      PROVE  Promised
  BY <1>5 DEF RunEnd
<1>6. ASSUME NEW c \in Cancellers, CancelCommit(c)
      PROVE  Promised
  BY <1>6 DEF CancelCommit
<1> QED BY <1>1, <1>2, <1>3, <1>4, <1>5, <1>6, RunWriters

LEMMA AbsentStep ==
  ASSUME TypeOK, AbsentInv, [Next]_vars
  PROVE  AbsentInv'
<1> USE DEF TypeOK, StatusOK, CreateOK, CancellersOK, AbsentInv
<1>1. \A r \in Runs : pc'[r] \in {"new", "check"} => pc[r] \in {"new", "check"}
  <2>1. ASSUME NEW q \in Runs, CreateRequest(q), NEW r \in Runs,
               pc'[r] \in {"new", "check"}
        PROVE  pc[r] \in {"new", "check"}
    BY <2>1 DEF CreateRequest, Create, ReadReserved, ReadSettled, ReadRefunded, Refuse,
                Admit, AdmitUnchecked, InsertRun, Reserve, ReserveShort, ReserveLost,
                Dispatch, CreateDies
  <2> QED BY <2>1, CreateWriters DEF createVars
<1>2. ASSUME NEW r \in Runs, pc'[r] \in {"new", "check"}
      PROVE  status'[r] = "absent"
  <2>1. status[r] = "absent" /\ pc[r] \in {"new", "check"}
    BY <1>1, <1>2
  <2>2. ASSUME NEW q \in Runs, Admit(q) \/ AdmitUnchecked(q)
        PROVE  status'[r] = status[r]
    BY <1>2, <2>2 DEF Admit, AdmitUnchecked, InsertRun
  <2>3. ASSUME NEW q \in Runs,
               \/ RunBegin(q) \/ RunAbandon(q) \/ \E p \in Platforms : ReserveShort(q, p)
               \/ \E s \in {"completed", "failed"} : RunEnd(q, s)
        PROVE  status'[r] = status[r]
    BY <2>1, <2>3 DEF RunBegin, RunAbandon, ReserveShort, RunEnd
  <2>4. ASSUME NEW c \in Cancellers, CancelCommit(c)
        PROVE  status'[r] = status[r]
    BY <2>1, <2>4 DEF CancelCommit
  <2> QED BY <2>1, <2>2, <2>3, <2>4, RunWriters DEF runVars
<1>3. ASSUME NEW c \in Cancellers, upc'[c] = "checked"
      PROVE  pc'[urun'[c]] \notin {"new", "check"}
  <2>1. CASE upc'[c] = upc[c] /\ urun'[c] = urun[c]
    BY <1>1, <1>3, <2>1
  <2>2. ASSUME NEW r \in Runs, CancelCheck(c, r)
        PROVE  pc'[urun'[c]] \notin {"new", "check"}
    BY <1>1, <2>2 DEF CancelCheck
  <2>3. ASSUME NEW d \in Cancellers, Canceller(d),
               ~ \E r \in Runs : CancelCheck(c, r)
        PROVE  upc'[c] = upc[c] /\ urun'[c] = urun[c]
    BY <1>3, <2>3 DEF Canceller, CancelCommit, CancelList, CancelRefund, CancelDone,
                      CancelRefundsLost, CancelCheck, CancelLook, Leave
  <2> QED BY <2>1, <2>2, <2>3, CancelWriters DEF cancelVars
<1> QED BY <1>2, <1>3

\* The create, cancel and credit code changes a collection_runs row only as
\* RunStatus allows; BatchRun does too, so the two agree on what a run is.
THEOREM LedgerKeepsRunStatus == Spec => RunRowsSpec
<1>1. Init => AbsentInv /\ \A r \in Runs : RunRow(r)!Init
  BY DEF Init, AbsentInv, StatusOf, RunRow!Init
<1>2. TypeOK /\ AbsentInv /\ [Next]_vars => AbsentInv'
  BY AbsentStep
<1>3. TypeOK /\ AbsentInv /\ [Next]_vars =>
        [\A r \in Runs : RunRow(r)!Next \/ UNCHANGED <<StatusOf(r), completedAt[r]>>]_runVars
  BY RowStep
<1> QED BY <1>1, <1>2, <1>3, LedgerTypeCorrect, PTL DEF Spec, RunRowsSpec

-----------------------------------------------------------------------------
(* The balance.  What get_balance has read so far is no more than what is    *)
(* left: nobody else reserves while a request is under way, settlements only *)
(* lower the result, and refunds only raise it.                              *)

GivenBack == Total(refunded, Keys)

ReadingInv(r) ==
  /\ seen[r] \in Int
  /\ reading[r] # "reserved" => NeedsBalance(r)
  /\ reading[r] \in {"settled", "refunded"} => seen[r] <= Allocation - Credits(reserved)
  /\ reading[r] = "done" => seen[r] <= Allocation + GivenBack - Credits(reserved)

BudgetInv ==
  /\ DOMAIN seen = Runs
  /\ \A r, q \in InFlight : r = q
  /\ Credits(reserved) <= Allocation + GivenBack
  /\ \A r \in Runs : ReadingInv(r)

LEMMA PricesAreNat == Price \in [Keys -> Nat]
BY CreditAssumption DEF Price, Keys

LEMMA FiniteKeys ==
  ASSUME NEW S \in SUBSET Keys
  PROVE  IsFiniteSet(S)
BY CreditAssumption, FS_Product, FS_Subset DEF Keys

LEMMA CreditsNat ==
  ASSUME NEW S \in SUBSET Keys
  PROVE  Credits(S) \in Nat
<1>1. \A k \in S : Price[k] \in Nat
  BY PricesAreNat
<1> QED BY <1>1, FiniteKeys, SumNat DEF Credits

LEMMA CreditsSplit ==
  ASSUME NEW S \in SUBSET Keys, NEW T \in SUBSET S
  PROVE  Credits(S) = Credits(T) + Credits(S \ T)
<1>1. \A k \in S : Price[k] \in Nat
  BY PricesAreNat
<1>2. Credits(S) = Credits(S \cap T) + Credits(S \ T)
  BY <1>1, FiniteKeys, SumSplit DEF Credits
<1>3. S \cap T = T
  OBVIOUS
<1> QED BY <1>2, <1>3, Zenon

LEMMA CreditsGrow ==
  ASSUME NEW S \in SUBSET Keys, NEW T \in SUBSET S
  PROVE  Credits(T) <= Credits(S)
<1>1. T \in SUBSET Keys /\ S \ T \in SUBSET Keys
  OBVIOUS
<1>2. Credits(T) \in Nat /\ Credits(S \ T) \in Nat
  BY <1>1, CreditsNat
<1> QED BY <1>2, CreditsSplit

LEMMA CreditsOfOneMore ==
  ASSUME NEW S \in SUBSET Keys, NEW k \in Keys
  PROVE  Credits(S \cup {k}) <= Credits(S) + Price[k]
<1>1. Credits(S) \in Nat /\ Price[k] \in Nat
  BY CreditsNat, PricesAreNat
<1>2. CASE k \in S
  <2>1. S \cup {k} = S
    BY <1>2
  <2>2. Credits(S \cup {k}) = Credits(S)
    BY <2>1, Zenon
  <2> QED BY <1>1, <2>2
<1>3. CASE k \notin S
  <2>1. \A q \in S \cup {k} : Price[q] \in Nat
    BY PricesAreNat
  <2>2. IsFiniteSet(S \cup {k})
    BY FiniteKeys
  <2>3. Credits(S \cup {k}) = Price[k] + Credits((S \cup {k}) \ {k})
    BY <2>1, <2>2, SumOfRest DEF Credits
  <2>4. (S \cup {k}) \ {k} = S
    BY <1>3
  <2>5. Credits((S \cup {k}) \ {k}) = Credits(S)
    BY <2>4, Zenon
  <2> QED BY <1>1, <2>3, <2>5
<1> QED BY <1>2, <1>3

LEMMA TotalNat ==
  ASSUME NEW S \in SUBSET Keys, NEW count \in [Keys -> Nat]
  PROVE  Total(count, S) \in Nat
<1> DEFINE amount == [k \in Keys |-> count[k] * Price[k]]
<1>1. \A k \in S : amount[k] \in Nat
  <2>1. ASSUME NEW k \in S
        PROVE  amount[k] \in Nat
    <3>1. count[k] \in Nat /\ Price[k] \in Nat
      BY PricesAreNat
    <3> QED BY <3>1
  <2> QED BY <2>1
<1> HIDE DEF amount
<1>2. SumFunctionOnSet(amount, S) \in Nat
  BY <1>1, FiniteKeys, SumNat
<1> QED BY <1>2 DEF Total, amount

LEMMA TotalGrows ==
  ASSUME NEW count \in [Keys -> Nat], NEW more \in [Keys -> Nat], \A k \in Keys : count[k] <= more[k]
  PROVE  Total(count, Keys) <= Total(more, Keys)
<1> DEFINE now  == [k \in Keys |-> count[k] * Price[k]]
           then == [k \in Keys |-> more[k] * Price[k]]
<1>1. \A k \in Keys : now[k] \in Nat /\ then[k] \in Nat /\ now[k] <= then[k] /\ k \in Keys
  <2>1. ASSUME NEW k \in Keys
        PROVE  now[k] \in Nat /\ then[k] \in Nat /\ now[k] <= then[k]
    <3>1. /\ count[k] \in Nat /\ more[k] \in Nat /\ Price[k] \in Nat
          /\ count[k] <= more[k]
      BY PricesAreNat
    <3>2. \A a, b, c \in Nat : a <= b => a * c \in Nat /\ b * c \in Nat /\ a * c <= b * c
      OBVIOUS
    <3>3. count[k] * Price[k] \in Nat /\ more[k] * Price[k] \in Nat /\ count[k] * Price[k] <= more[k] * Price[k]
      BY <3>1, <3>2
    <3> QED BY <3>3
  <2> QED BY <2>1
<1>2. Keys \cap Keys = Keys
  OBVIOUS
<1> HIDE DEF now, then
<1>3. SumFunctionOnSet(now, Keys) <= SumFunctionOnSet(then, Keys \cap Keys)
  BY <1>1, FiniteKeys, SumWithin
<1>4. SumFunctionOnSet(now, Keys) <= SumFunctionOnSet(then, Keys)
  BY <1>2, <1>3, Zenon
<1> QED BY <1>4 DEF Total, now, then

\* Nobody takes a refund back.
LEMMA HeldOnlyByReserve ==
  ASSUME TypeOK, TypeOK', [Next]_vars, ~ \E r \in Runs, p \in Platforms : Reserve(r, p)
  PROVE  reserved' = reserved /\ GivenBack <= GivenBack'
<1> USE DEF TypeOK, LedgerOK
<1>1. reserved' = reserved /\ \A k \in Keys : refunded[k] <= refunded'[k]
  <2>1. CASE UNCHANGED txnVars
    BY <2>1 DEF txnVars
  <2>2. ASSUME NEW s \in Settlers, NEW k \in Keys, Settle(s, k)
        PROVE  UNCHANGED <<reserved, refunded>>
    BY <2>2 DEF Settle
  <2>3. ASSUME NEW c \in Cancellers, CancelRefund(c)
        PROVE  reserved' = reserved /\ \A k \in Keys : refunded[k] <= refunded'[k]
    <3>1. /\ reserved' = reserved /\ refunding[c] \in Keys
          /\ refunded' = [refunded EXCEPT ![refunding[c]] = @ + 1]
      BY <2>3 DEF CancelRefund, CancellersOK
    <3> QED BY <3>1
  <2> QED BY <2>1, <2>2, <2>3, LedgerWriters
<1>2. Total(refunded, Keys) <= Total(refunded', Keys)
  BY <1>1, TotalGrows
<1> QED BY <1>1, <1>2 DEF GivenBack

LEMMA ReadingsSurvive ==
  ASSUME TypeOK, TypeOK', BudgetInv, reserved' = reserved, GivenBack <= GivenBack'
  PROVE  /\ Credits(reserved') = Credits(reserved) /\ Credits(reserved) \in Nat
         /\ GivenBack \in Nat /\ GivenBack' \in Nat /\ Credits(reserved) <= Allocation + GivenBack'
         /\ \A r \in Runs : seen[r] <= Allocation + GivenBack - Credits(reserved)
                              => seen[r] <= Allocation + GivenBack' - Credits(reserved)
<1>1. Credits(reserved) \in Nat /\ GivenBack \in Nat /\ GivenBack' \in Nat
  <2>1. reserved \in SUBSET Keys /\ refunded \in [Keys -> Nat] /\ refunded' \in [Keys -> Nat]
    BY DEF TypeOK, LedgerOK
  <2> QED BY <2>1, CreditsNat, TotalNat DEF GivenBack
<1>2. Credits(reserved') = Credits(reserved)
  OBVIOUS
<1>3. Allocation \in Nat /\ Credits(reserved) <= Allocation + GivenBack /\ \A r \in Runs : seen[r] \in Int
  BY CreditAssumption DEF BudgetInv, ReadingInv
<1> HIDE DEF Credits
<1> QED BY <1>1, <1>2, <1>3

LEMMA BudgetStep ==
  ASSUME TypeOK, TypeOK', BudgetInv, [Next]_vars, MaxInFlight <= 1
  PROVE  BudgetInv'
<1> USE DEF TypeOK, CreateOK
<1>0. DOMAIN seen' = Runs
  <2>1. ASSUME NEW r \in Runs, CreateRequest(r)
        PROVE  DOMAIN seen' = DOMAIN seen
    BY <2>1 DEF CreateRequest, Create, ReadReserved, ReadSettled, ReadRefunded, Refuse, Admit,
                AdmitUnchecked, InsertRun, Dispatch, CreateDies, Reserve, ReserveShort,
                ReserveLost, Forget
  <2> QED BY <2>1, CreateWriters DEF createVars, BudgetInv
<1>1. CASE UNCHANGED createVars /\ reserved' = reserved /\ GivenBack <= GivenBack'
  <2>1. \A r, q \in InFlight' : r = q
    BY <1>1 DEF createVars, InFlight, BudgetInv
  <2>2. \A r \in Runs : ReadingInv(r)'
    BY <1>1, ReadingsSurvive DEF createVars, BudgetInv, ReadingInv, NeedsBalance
  <2> QED BY <1>0, <1>1, <2>1, <2>2, ReadingsSurvive DEF BudgetInv
<1>2. ASSUME NEW r \in Runs, NEW p \in Platforms, Reserve(r, p)
      PROVE  BudgetInv'
  <2>1. /\ r \in InFlight /\ seen[r] >= Cost[p] /\ reading[r] = "done" /\ refunded' = refunded
        /\ reserved' = reserved \cup {<<r, p>>} /\ pc' = pc
        /\ reading' = [reading EXCEPT ![r] = "reserved"] /\ seen' = [seen EXCEPT ![r] = 0]
    BY <1>2 DEF Reserve, Forget, InFlight
  <2>2. <<r, p>> \in Keys /\ Price[<<r, p>>] = Cost[p] /\ Cost[p] \in Nat
    BY CreditAssumption DEF Keys, Price
  <2>3. reserved \in SUBSET Keys /\ reserved' \in SUBSET Keys /\ GivenBack' = GivenBack
    BY <2>1, <2>2 DEF LedgerOK, GivenBack
  <2>4. /\ Credits(reserved') <= Credits(reserved) + Cost[p] /\ Credits(reserved) \in Nat
        /\ Credits(reserved') \in Nat /\ GivenBack \in Nat
    <3>1. Credits(reserved \cup {<<r, p>>}) <= Credits(reserved) + Price[<<r, p>>]
      BY <2>2, <2>3, CreditsOfOneMore
    <3>2. Credits(reserved') <= Credits(reserved) + Price[<<r, p>>]
      BY <2>1, <3>1, Zenon
    <3>3. Credits(reserved) \in Nat /\ Credits(reserved') \in Nat /\ GivenBack \in Nat
      BY <2>3, CreditsNat, TotalNat DEF LedgerOK, GivenBack
    <3> HIDE DEF Credits
    <3> QED BY <2>2, <3>2, <3>3
  <2>5. seen[r] \in Int /\ seen[r] <= Allocation + GivenBack - Credits(reserved) /\ Allocation \in Nat
    BY <2>1, CreditAssumption DEF BudgetInv, ReadingInv
  <2>6. Credits(reserved') <= Allocation + GivenBack'
    BY <2>1, <2>2, <2>3, <2>4, <2>5
  <2>7. ASSUME NEW q \in Runs
        PROVE  reading'[q] = "reserved" /\ seen'[q] \in Int
    <3>1. CASE q = r
      BY <2>1, <3>1 DEF BudgetInv, ReadingInv
    <3>2. CASE q # r
      <4>1. q \notin InFlight
        BY <2>1, <3>2 DEF BudgetInv, InFlight
      <4> QED BY <2>1, <3>2, <4>1 DEF BudgetInv, ReadingInv, NeedsBalance, InFlight
    <3> QED BY <3>1, <3>2
  <2>8. \A q \in Runs : ReadingInv(q)'
    BY <2>7 DEF ReadingInv
  <2>9. \A q, u \in InFlight' : q = u
    BY <2>1 DEF BudgetInv, InFlight
  <2> QED BY <1>0, <2>6, <2>8, <2>9 DEF BudgetInv
<1>3. ASSUME NEW r \in Runs, CreateRequest(r), ~ \E q \in Runs, p \in Platforms : Reserve(q, p)
      PROVE  BudgetInv'
  <2>1. reserved' = reserved /\ GivenBack <= GivenBack'
    BY <1>3, HeldOnlyByReserve
  <2>2. txnVars' = txnVars
    BY <1>3 DEF CreateRequest, Create, ReadReserved, ReadSettled, ReadRefunded, Refuse, Admit,
                AdmitUnchecked, InsertRun, Dispatch, CreateDies, ReserveShort, ReserveLost
  <2> SUFFICES (\A u, q \in InFlight' : u = q) /\ \A q \in Runs : ReadingInv(q)'
    BY <1>0, <2>1, ReadingsSurvive DEF BudgetInv
  <2>3. Allocation \in Nat /\ \A q \in Runs : seen[q] \in Int
    BY CreditAssumption DEF BudgetInv, ReadingInv
  <2>4. \A u, q \in InFlight : u = q
    BY DEF BudgetInv
  <2>5. ASSUME NEW q \in Runs \ {r}
        PROVE  ReadingInv(q)'
    <3>1. pc'[q] = pc[q] /\ left'[q] = left[q] /\ reading'[q] = reading[q] /\ seen'[q] = seen[q]
      BY <1>3, <2>3 DEF BudgetInv, CreateRequest, Create, ReadReserved, ReadSettled, ReadRefunded,
                  Refuse, Admit, AdmitUnchecked, InsertRun, Dispatch, CreateDies, ReserveShort,
                  ReserveLost, Forget
    <3> QED BY <2>1, <2>3, <3>1, ReadingsSurvive DEF BudgetInv, ReadingInv, NeedsBalance
  <2>6. CASE Create(r)
    <3>1. InFlight = {}
      <4>1. Cardinality(InFlight) < 1 /\ IsFiniteSet(InFlight)
        <5>1. IsFiniteSet(InFlight) /\ Cardinality(InFlight) \in Nat
          BY CreditAssumption, FS_Subset, FS_CardinalityType DEF InFlight
        <5> QED BY <2>6, <5>1, CreditAssumption DEF Create
      <4>2. Cardinality(InFlight) = 0
        BY <4>1, FS_CardinalityType
      <4> QED BY <4>1, <4>2, FS_EmptySet
    <3>2. \A u \in InFlight' : u = r
      BY <2>6, <3>1 DEF Create, InFlight
    <3>3. reading'[r] = "reserved" /\ seen'[r] = seen[r]
      BY <2>6, <3>1 DEF Create, BudgetInv, ReadingInv, NeedsBalance
    <3> QED BY <2>3, <2>5, <3>2, <3>3 DEF ReadingInv
  <2>7. CASE ReadReserved(r)
    <3>1. /\ pc' = pc /\ left' = left /\ reading'[r] = "settled" /\ NeedsBalance(r)
          /\ seen'[r] = Allocation - Credits(reserved)
      BY <2>3, <2>7 DEF ReadReserved, BudgetInv
    <3>2. ReadingInv(r)'
      BY <2>1, <2>3, <3>1, ReadingsSurvive DEF ReadingInv, NeedsBalance
    <3> QED BY <2>4, <2>5, <3>1, <3>2 DEF InFlight
  <2>8. CASE ReadSettled(r)
    <3>1. /\ pc' = pc /\ left' = left /\ reading'[r] = "refunded" /\ NeedsBalance(r)
          /\ reading[r] = "settled" /\ seen'[r] = seen[r] - Total(settled, Keys)
      BY <2>3, <2>8 DEF ReadSettled, BudgetInv
    <3>2. Total(settled, Keys) \in Nat
      BY TotalNat DEF LedgerOK
    <3>3. seen[r] <= Allocation - Credits(reserved)
      BY <3>1 DEF BudgetInv, ReadingInv
    <3>4. ReadingInv(r)'
      BY <2>1, <2>3, <3>1, <3>2, <3>3, ReadingsSurvive DEF ReadingInv, NeedsBalance
    <3> QED BY <2>4, <2>5, <3>1, <3>4 DEF InFlight
  <2>9. CASE ReadRefunded(r)
    <3>1. /\ pc' = pc /\ left' = left /\ reading'[r] = "done" /\ NeedsBalance(r)
          /\ reading[r] = "refunded" /\ seen'[r] = seen[r] + Total(refunded, Keys)
      BY <2>3, <2>9 DEF ReadRefunded, BudgetInv
    <3>2. Total(refunded, Keys) \in Nat
      BY TotalNat DEF LedgerOK
    <3>3. seen[r] <= Allocation - Credits(reserved)
      BY <3>1 DEF BudgetInv, ReadingInv
    <3>4. /\ Credits(reserved) \in Nat /\ Credits(reserved') = Credits(reserved)
          /\ GivenBack = Total(refunded, Keys) /\ GivenBack' \in Nat /\ GivenBack <= GivenBack'
      BY <2>1, ReadingsSurvive DEF GivenBack
    <3>5. seen'[r] \in Int /\ seen'[r] <= Allocation + GivenBack' - Credits(reserved')
      BY <2>3, <3>1, <3>2, <3>3, <3>4
    <3>6. ReadingInv(r)'
      BY <3>1, <3>5 DEF ReadingInv, NeedsBalance
    <3> QED BY <2>4, <2>5, <3>1, <3>6 DEF InFlight
  <2>10. CASE \/ Refuse(r) \/ Admit(r) \/ AdmitUnchecked(r) \/ CreateDies(r)
              \/ \E p \in Platforms : ReserveShort(r, p) \/ ReserveLost(r, p)
    <3>1. reading'[r] = "reserved" /\ seen'[r] = 0 /\ r \in InFlight /\ \A q \in Runs \ {r} : pc'[q] = pc[q]
      BY <2>3, <2>10 DEF Refuse, Admit, AdmitUnchecked, InsertRun, CreateDies, ReserveShort, ReserveLost,
                   Forget, BudgetInv, InFlight
    <3>2. ReadingInv(r)'
      BY <3>1 DEF ReadingInv
    <3>3. InFlight' \subseteq InFlight
      BY <3>1 DEF InFlight
    <3> QED BY <2>4, <2>5, <3>2, <3>3
  <2>11. CASE Dispatch(r)
    <3>1. /\ reading' = reading /\ seen' = seen /\ ~ NeedsBalance(r)
          /\ pc' = [pc EXCEPT ![r] = "sent"]
      BY <2>11 DEF Dispatch, NeedsBalance
    <3>2. ReadingInv(r)'
      BY <2>3, <3>1 DEF ReadingInv, BudgetInv
    <3>3. InFlight' \subseteq InFlight
      BY <3>1 DEF InFlight
    <3> QED BY <2>4, <2>5, <3>2, <3>3
  <2> QED BY <1>3, <2>6, <2>7, <2>8, <2>9, <2>10, <2>11 DEF CreateRequest
<1>4. CASE ~ \E r \in Runs, p \in Platforms : Reserve(r, p)
  BY <1>1, <1>3, <1>4, CreateWriters, HeldOnlyByReserve
<1> QED BY <1>2, <1>4

\* The credits locked by reservations never exceed the allocation and what was
\* refunded, whatever fails and whenever runs end, settle or are cancelled in
\* between, as long as the create requests of the user do not overlap.
THEOREM BudgetHolds ==
  ASSUME MaxInFlight <= 1
  PROVE  Spec => []HeldWithinBudget
<1>1. Init => BudgetInv
  <2> SUFFICES ASSUME Init PROVE BudgetInv
    OBVIOUS
  <2>1. reserved = {} /\ InFlight = {} /\ refunded \in [Keys -> Nat]
    BY DEF Init, InFlight
  <2>2. Credits({}) = 0
    BY FS_EmptySet, SumEquation DEF Credits
  <2>3. Credits(reserved) <= Allocation + GivenBack
    <3>1. Credits(reserved) = 0
      BY <2>1, <2>2, Zenon
    <3>2. GivenBack \in Nat
      BY <2>1, TotalNat DEF GivenBack
    <3> QED BY <3>1, <3>2, CreditAssumption
  <2>4. DOMAIN seen = Runs /\ \A r \in Runs : ReadingInv(r)
    BY DEF Init, ReadingInv
  <2> QED BY <2>1, <2>3, <2>4 DEF BudgetInv
<1>2. TypeOK /\ TypeOK' /\ BudgetInv /\ [Next]_vars => BudgetInv'
  BY BudgetStep
<1>3. BudgetInv => HeldWithinBudget
  BY DEF BudgetInv, HeldWithinBudget, GivenBack
<1> QED BY <1>1, <1>2, <1>3, LedgerTypeCorrect, PTL DEF Spec

-----------------------------------------------------------------------------
(* credits_spent.  A run whose total is behind its settlements is the run of *)
(* a row some settler has inserted and not yet added up.                      *)

BeingPaid(r) == \E s \in Settlers : paying[s] # NoKey /\ paying[s][1] = r

SpentInv ==
  /\ DOMAIN spent = Runs
  /\ faults = 0 => \A r \in Runs : spent[r] = Total(settled, RowsOf(r)) \/ BeingPaid(r)

\* Rows of one run do not enter the total of another.
LEMMA OtherTotalsStay ==
  ASSUME TypeOK, TypeOK', NEW r \in Runs, \A k \in RowsOf(r) : settled'[k] = settled[k]
  PROVE  Total(settled', RowsOf(r)) = Total(settled, RowsOf(r))
<1> DEFINE now  == [k \in Keys |-> settled[k] * Price[k]]
           then == [k \in Keys |-> settled'[k] * Price[k]]
           S == RowsOf(r)
<1>1. S \in SUBSET Keys
  BY DEF RowsOf, Keys
<1>2. \A k \in S : now[k] \in Nat /\ then[k] = now[k]
  <2>1. ASSUME NEW k \in S
        PROVE  now[k] \in Nat /\ then[k] = now[k]
    <3>1. k \in Keys /\ settled[k] \in Nat /\ Price[k] \in Nat /\ settled'[k] = settled[k]
      BY <1>1, PricesAreNat DEF TypeOK, LedgerOK
    <3> QED BY <3>1
  <2> QED BY <2>1
<1>3. S \cap S = S
  OBVIOUS
<1> HIDE DEF now, then, S
<1>4. IsFiniteSet(S)
  BY <1>1, FiniteKeys
<1>5. /\ SumFunctionOnSet(now, S) <= SumFunctionOnSet(then, S \cap S)
      /\ SumFunctionOnSet(then, S) <= SumFunctionOnSet(now, S \cap S)
  <2>1. \A k \in S : /\ now[k] \in Nat /\ then[k] \in Nat /\ now[k] <= then[k]
                     /\ then[k] <= now[k] /\ k \in S
    BY <1>2
  <2> QED BY <1>4, <2>1, SumWithin
<1>6. /\ SumFunctionOnSet(now, S) <= SumFunctionOnSet(then, S)
      /\ SumFunctionOnSet(then, S) <= SumFunctionOnSet(now, S)
  BY <1>3, <1>5, Zenon
<1>7. SumFunctionOnSet(now, S) \in Nat /\ SumFunctionOnSet(then, S) \in Nat
  BY <1>2, <1>4, SumNat
<1>8. SumFunctionOnSet(now, S) = SumFunctionOnSet(then, S)
  BY <1>6, <1>7
<1> QED BY <1>8 DEF Total, now, then, S

LEMMA SpentWriters ==
  ASSUME [Next]_vars
  PROVE  UNCHANGED spent \/ \E s \in Settlers : UpdateSpent(s)
  BY DEF Next, vars, settleVars, CreateRequest, Batch, Settler, Canceller, Create, ReadReserved,
         ReadSettled, ReadRefunded, Refuse, Admit, AdmitUnchecked, InsertRun, Dispatch,
         CreateDies, Reserve, ReserveShort, ReserveLost, RunBegin, RunEnd, RunAbandon,
         Fetch, Settle, SettleLost, UpdateSpentLost, SettlerCrash,
         CancelCheck, CancelCommit, CancelList, CancelLook, CancelRefund, CancelDone,
         CancelRefundsLost, Leave

LEMMA SpentStep ==
  ASSUME TypeOK, TypeOK', SpentInv, [Next]_vars
  PROVE  SpentInv'
<1> USE DEF TypeOK, LedgerOK, SettlersOK
<1>1. DOMAIN spent' = Runs
  BY SpentWriters DEF UpdateSpent, SpentInv
<1> SUFFICES ASSUME faults' = 0, NEW r \in Runs
             PROVE  spent'[r] = Total(settled', RowsOf(r)) \/ BeingPaid(r)'
  BY <1>1 DEF SpentInv, BeingPaid
<1>2. faults = 0 /\ ~ Fault
  BY FaultWriters DEF Fault
<1>3. spent[r] = Total(settled, RowsOf(r)) \/ BeingPaid(r)
  BY <1>2 DEF SpentInv
<1>4. ASSUME NEW s \in Settlers, UpdateSpent(s)
      PROVE  spent'[r] = Total(settled', RowsOf(r)) \/ BeingPaid(r)'
  <2> DEFINE q == paying[s][1]
  <2>1. /\ q \in Runs /\ settled' = settled /\ paying' = [paying EXCEPT ![s] = NoKey]
        /\ spent' = [spent EXCEPT ![q] = Total(settled, RowsOf(q))]
    BY <1>4 DEF UpdateSpent, txnVars, Keys
  <2>2. CASE r = q
    BY <2>1, <2>2 DEF SpentInv
  <2>3. CASE r # q
    <3>1. spent'[r] = spent[r]
      BY <2>1, <2>3 DEF SpentInv
    <3>2. BeingPaid(r) => BeingPaid(r)'
      BY <2>1, <2>3 DEF BeingPaid
    <3> QED BY <1>3, <2>1, <3>1, <3>2
  <2> QED BY <2>2, <2>3
<1>5. ASSUME NEW s \in Settlers, NEW k \in Keys, Settle(s, k)
      PROVE  spent'[r] = Total(settled', RowsOf(r)) \/ BeingPaid(r)'
  <2>1. /\ paying[s] = NoKey /\ paying' = [paying EXCEPT ![s] = k]
        /\ settled' = [settled EXCEPT ![k] = @ + 1] /\ spent' = spent
    BY <1>5 DEF Settle
  <2>2. k # NoKey /\ k[1] \in Runs
    BY DEF Keys, NoKey
  <2>3. CASE k[1] = r
    BY <2>1, <2>2, <2>3 DEF BeingPaid
  <2>4. CASE k[1] # r
    <3>1. \A q \in RowsOf(r) : settled'[q] = settled[q]
      BY <2>1, <2>4 DEF RowsOf, Keys
    <3>2. Total(settled', RowsOf(r)) = Total(settled, RowsOf(r))
      BY <3>1, OtherTotalsStay
    <3>3. BeingPaid(r) => BeingPaid(r)'
      BY <2>1 DEF BeingPaid
    <3> QED BY <1>3, <2>1, <3>2, <3>3
  <2> QED BY <2>3, <2>4
<1>6. CASE /\ ~ \E s \in Settlers : UpdateSpent(s)
           /\ ~ \E s \in Settlers, k \in Keys : Settle(s, k)
  <2>1. spent' = spent /\ settled' = settled
    BY <1>6, SpentWriters, LedgerWriters DEF Reserve, CancelRefund, txnVars
  <2>2. paying' = paying
    BY <1>2, <1>6, SettlerWriters DEF Settler, Fetch, SettleLost, UpdateSpentLost, SettlerCrash
  <2> QED BY <1>3, <2>1, <2>2 DEF BeingPaid
<1> QED BY <1>4, <1>5, <1>6

\* As long as nothing failed, credits_spent of every run is the sum of its
\* settlements whenever no settler is between its two commits, for any number
\* of settlers that overlap.
THEOREM SpentAddsUp == Spec => []SpentIsSettled
<1>1. Init => SpentInv
  <2> SUFFICES ASSUME Init, NEW r \in Runs
               PROVE  DOMAIN spent = Runs /\ spent[r] = Total(settled, RowsOf(r))
    BY DEF SpentInv, Init
  <2> DEFINE amount == [k \in Keys |-> settled[k] * Price[k]]
             none   == {}
  <2>1. RowsOf(r) \in SUBSET Keys
    BY DEF RowsOf, Keys
  <2>2. \A k \in RowsOf(r) : amount[k] = 0
    <3>1. ASSUME NEW k \in RowsOf(r)
          PROVE  amount[k] = 0
      <4>1. k \in Keys /\ settled[k] = 0 /\ Price[k] \in Nat
        BY <2>1, PricesAreNat DEF Init
      <4> QED BY <4>1
    <3> QED BY <3>1
  <2> HIDE DEF amount
  <2>3. SumFunctionOnSet(amount, RowsOf(r)) <= SumFunctionOnSet(amount, RowsOf(r) \cap none)
    BY <2>1, <2>2, FiniteKeys, SumWithin
  <2>4. RowsOf(r) \cap none = {}
    OBVIOUS
  <2>5. SumFunctionOnSet(amount, {}) = 0
    BY FS_EmptySet, SumEquation
  <2>6. SumFunctionOnSet(amount, RowsOf(r) \cap none) = 0
    BY <2>4, <2>5, Zenon
  <2>7. SumFunctionOnSet(amount, RowsOf(r)) \in Nat
    BY <2>1, <2>2, FiniteKeys, SumNat
  <2>8. SumFunctionOnSet(amount, RowsOf(r)) = 0
    BY <2>3, <2>6, <2>7
  <2>9. Total(settled, RowsOf(r)) = 0
    BY <2>8 DEF Total, amount
  <2> QED BY <2>9 DEF Init
<1>2. TypeOK /\ TypeOK' /\ SpentInv /\ [Next]_vars => SpentInv'
  BY SpentStep
<1>3. SpentInv => SpentIsSettled
  BY DEF SpentInv, SpentIsSettled, BeingPaid
<1> QED BY <1>1, <1>2, <1>3, LedgerTypeCorrect, PTL DEF Spec

=============================================================================
