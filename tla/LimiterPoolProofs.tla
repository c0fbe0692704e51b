-------------------------- MODULE LimiterPoolProofs --------------------------
(***************************************************************************)
(* What TLAPS shows of RateLimiter and CredentialPool, the two things that  *)
(* all collection jobs share, for any number of callers, windows, jobs and  *)
(* credentials, every limit, width and quota, without the bounds on time,   *)
(* calls and faults that TLC needs.                                         *)
(***************************************************************************)
EXTENDS RateLimiter, CredentialPool, FiniteSetTheorems, TLAPS

-----------------------------------------------------------------------------
(* The rate limiter: types *)

Steps == {"idle", "stamp", "script", "rollback", "refused", "asleep"}

CallsTypeOK ==
  /\ lpc \in [Callers -> Steps] /\ win \in [Callers -> Windows]
  /\ call \in [Callers -> Nat] /\ stamp \in [Callers -> Nat]
  /\ rolled \in [Callers -> Nat] /\ deadline \in [Callers -> Nat]

LEMMA CallsTyped ==
  ASSUME LimiterTypeOK, [LimiterNext]_limiterVars
  PROVE  CallsTypeOK'
<1> USE LimiterAssumption DEF CallsTypeOK
<1>0. CallsTypeOK /\ clock \in Nat
  BY DEF LimiterTypeOK, Steps
<1>1. ASSUME UNCHANGED callVars PROVE CallsTypeOK'
  BY <1>0, <1>1 DEF callVars
<1>2. ASSUME NEW c \in Callers, LCall(c) PROVE CallsTypeOK'
  <2>1. lpc' \in [Callers -> Steps] BY <1>0, <1>2 DEF LCall, Steps
  <2>2. win' \in [Callers -> Windows] BY <1>0, <1>2 DEF LCall, Windows
  <2>3. call' \in [Callers -> Nat] BY <1>0, <1>2 DEF LCall
  <2>4. deadline' \in [Callers -> Nat] BY <1>0, <1>2 DEF LCall
  <2> QED BY <1>0, <1>2, <2>1, <2>2, <2>3, <2>4 DEF LCall
<1>3. ASSUME NEW c \in Callers, LStamp(c) PROVE CallsTypeOK'
  BY <1>0, <1>3 DEF LStamp, Steps
<1>4. ASSUME NEW c \in Callers, CallOver(c), call' = call PROVE CallsTypeOK'
  BY <1>0, <1>4 DEF CallOver, Steps, Windows
<1>5. ASSUME NEW c \in Callers, LAcquire(c) PROVE CallsTypeOK'
  <2>1. CASE CallOver(c) BY <1>4, <1>5, <2>1 DEF LAcquire
  <2>2. CASE /\ lpc' = [lpc EXCEPT ![c] = "stamp"] /\ win[c] \notin {0, Cascade}
             /\ win' = [win EXCEPT ![c] = @ + 1] /\ UNCHANGED <<stamp, rolled, deadline>>
    <3>1. win[c] \in 0 .. Cascade BY <1>0 DEF Windows
    <3>2. Cascade \in Nat OBVIOUS
    <3>3. win[c] + 1 \in Windows BY <2>2, <3>1, <3>2 DEF Windows
    <3> QED BY <1>0, <1>5, <2>2, <3>3 DEF LAcquire, Steps
  <2> QED BY <1>5, <2>1, <2>2 DEF LAcquire
<1>6. ASSUME NEW c \in Callers, LRefuse(c) PROVE CallsTypeOK'
  BY <1>0, <1>6 DEF LRefuse, Steps
<1>7. ASSUME NEW c \in Callers, LRollback(c) \/ LRollbackLost(c) PROVE CallsTypeOK'
  <2>1. RolledTo(c) \in Steps BY DEF RolledTo, Steps
  <2>2. rolled' = [rolled EXCEPT ![c] = rolled[c] + 1] BY <1>7 DEF LRollback, LRollbackLost
  <2> QED BY <1>0, <1>7, <2>1, <2>2 DEF LRollback, LRollbackLost
<1>8. ASSUME NEW c \in Callers, LLook(c) PROVE CallsTypeOK'
  BY <1>0, <1>8 DEF LLook, Steps, Windows
<1>9. ASSUME NEW c \in Callers, LOpen(c) \/ LTimeout(c) \/ LKilled(c) PROVE CallsTypeOK'
  BY <1>4, <1>9 DEF LOpen, LTimeout, LKilled
<1> QED BY <1>1, <1>2, <1>3, <1>5, <1>6, <1>7, <1>8, <1>9
        DEF LimiterNext, LCaller, LReset, LTick, limiterVars

\* The entries of the windows have a caller, a call and a time.
THEOREM LimiterTyped == LimiterSpec => []LimiterTypeOK
<1> USE LimiterAssumption
<1>1. LimiterInit => LimiterTypeOK
  BY DEF LimiterInit, LimiterTypeOK, Windows
<1>2. ASSUME LimiterTypeOK, [LimiterNext]_limiterVars PROVE LimiterTypeOK'
  <2>1. CallsTypeOK'
    BY <1>2, CallsTyped
  <2>2. CallsTypeOK
    BY <1>2 DEF LimiterTypeOK, CallsTypeOK, Steps
  <2>3. /\ clock \in Nat /\ redisFaults \in Nat /\ resets \in Nat
        /\ log \in [Windows -> SUBSET Entries] /\ granted \in [Windows -> SUBSET Entries]
    BY <1>2 DEF LimiterTypeOK
  <2>4. clock' \in Nat /\ redisFaults' \in Nat /\ resets' \in Nat
    BY <1>2, <2>3 DEF LimiterNext, LCaller, LReset, LTick, limiterVars, callVars, LCall, LStamp,
       LAcquire, LRefuse, LOpen, LRollback, LRollbackLost, LLook, LTimeout, LKilled, RedisFault
  <2>5. ASSUME NEW c \in Callers, LAcquire(c)
        PROVE  log' \in [Windows -> SUBSET Entries] /\ granted' \in [Windows -> SUBSET Entries]
    <3>1. Entry(c) \in Entries
      BY <2>2 DEF CallsTypeOK, Entry, Entries
    <3>2. win[c] \in Windows
      BY <2>2 DEF CallsTypeOK
    <3> QED BY <2>3, <2>5, <3>1, <3>2 DEF LAcquire, Pruned
  <2>6. ASSUME NEW c \in Callers, LRefuse(c) \/ LLook(c) \/ LRollback(c)
        PROVE  log' \in [Windows -> SUBSET Entries] /\ granted' \in [Windows -> SUBSET Entries]
    BY <2>2, <2>3, <2>6 DEF CallsTypeOK, LRefuse, LLook, LRollback, Pruned
  <2>7. ASSUME LReset
        PROVE  log' \in [Windows -> SUBSET Entries] /\ granted' \in [Windows -> SUBSET Entries]
    BY <2>3, <2>7 DEF LReset
  <2>9. ASSUME NEW c \in Callers, LOpen(c)
        PROVE  log' \in [Windows -> SUBSET Entries] /\ granted' \in [Windows -> SUBSET Entries]
    <3>1. [by |-> c, call |-> call[c], at |-> clock] \in Entries
      BY <2>2, <2>3 DEF CallsTypeOK, Entries
    <3> QED BY <2>3, <2>9, <3>1 DEF LOpen
  <2>8. log' \in [Windows -> SUBSET Entries] /\ granted' \in [Windows -> SUBSET Entries]
    BY <1>2, <2>3, <2>5, <2>6, <2>7, <2>9 DEF LimiterNext, LCaller, LTick, limiterVars, callVars,
       LCall, LStamp, LRollbackLost, LTimeout, LKilled
  <2> QED BY <2>1, <2>4, <2>8 DEF CallsTypeOK, LimiterTypeOK, Steps
<1> QED BY <1>1, <1>2, PTL DEF LimiterSpec

-----------------------------------------------------------------------------
(* The rate limiter: how many requests in Width seconds *)

\* The requests w has let through that still count, and those among them the
\* window does not know of, because of a reset or a failure of Redis.
Recent(w) == {e \in granted[w] : e.at > clock - Width[w]}
Unknown(w) == Recent(w) \ log[w]

FewEntries(w) == IsFiniteSet(log[w]) /\ Cardinality(log[w]) <= Limit[w]
FewUnknown(w) ==
  IsFiniteSet(Unknown(w)) /\ Cardinality(Unknown(w)) <= Limit[w] * resets + redisFaults

\* Nobody works with a time that has not come, so what a script removes has
\* expired by the clock as well.
WindowInv ==
  /\ \A w \in Windows : FewEntries(w) /\ FewUnknown(w)
  /\ \A c \in Callers : stamp[c] <= clock

LEMMA StampsArePast ==
  ASSUME LimiterTypeOK, WindowInv, [LimiterNext]_limiterVars
  PROVE  \A c \in Callers : stamp'[c] <= clock'
<1> USE DEF LimiterTypeOK, WindowInv
<1>1. ASSUME NEW c \in Callers, LStamp(c) PROVE \A d \in Callers : stamp'[d] <= clock'
  BY <1>1 DEF LStamp
<1>2. ASSUME NEW c \in Callers, CallOver(c), clock' = clock
      PROVE  \A d \in Callers : stamp'[d] <= clock'
  BY <1>2 DEF CallOver
<1>3. ASSUME NEW c \in Callers, LLook(c) PROVE \A d \in Callers : stamp'[d] <= clock'
  BY <1>3 DEF LLook
<1>4. ASSUME stamp' = stamp, clock' = clock \/ LTick PROVE \A d \in Callers : stamp'[d] <= clock'
  BY <1>4 DEF LTick
<1> QED BY <1>1, <1>2, <1>3, <1>4 DEF LimiterNext, LCaller, LReset, LTick, limiterVars, callVars,
  LCall, LAcquire, LRefuse, LOpen, LRollback, LRollbackLost, LTimeout, LKilled

LEMMA PrunedIsSmaller ==
  ASSUME LimiterTypeOK, WindowInv, NEW w \in Windows, NEW t \in Nat, t <= clock
  PROVE  /\ IsFiniteSet(Pruned(w, t)) /\ Cardinality(Pruned(w, t)) <= Limit[w]
         /\ Recent(w) \ Pruned(w, t) \subseteq Unknown(w)
<1>1. IsFiniteSet(log[w]) /\ Cardinality(log[w]) <= Limit[w]
  BY DEF WindowInv, FewEntries
<1>2. Pruned(w, t) \subseteq log[w]
  BY DEF Pruned
<1>3. IsFiniteSet(Pruned(w, t)) /\ Cardinality(Pruned(w, t)) <= Cardinality(log[w])
  BY <1>1, <1>2, FS_Subset
<1>4. Cardinality(Pruned(w, t)) \in Nat /\ Cardinality(log[w]) \in Nat /\ Limit[w] \in Nat
  BY <1>1, <1>3, FS_CardinalityType, LimiterAssumption
<1>5. ASSUME NEW e \in Recent(w), e \in log[w] PROVE e \in Pruned(w, t)
  <2>1. e \in log[w] /\ e.at > clock - Width[w] BY <1>5 DEF Recent
  <2>2. e.at \in Nat BY <2>1 DEF LimiterTypeOK, Entries
  <2>3. clock \in Nat /\ Width[w] \in Nat BY LimiterAssumption DEF LimiterTypeOK
  <2> QED BY <2>1, <2>2, <2>3 DEF Pruned
<1> QED BY <1>1, <1>3, <1>4, <1>5 DEF Unknown

\* Fewer entries, and fewer unknown requests, are few enough.
LEMMA FewerAreFew ==
  ASSUME LimiterTypeOK, WindowInv, NEW w \in Windows, LimiterTypeOK',
         resets' = resets, redisFaults' >= redisFaults
  PROVE  /\ log'[w] \subseteq log[w] => FewEntries(w)'
         /\ Unknown(w)' \subseteq Unknown(w) => FewUnknown(w)'
<1>1. FewEntries(w) /\ FewUnknown(w)
  BY DEF WindowInv
<1>2. Limit[w] \in Nat /\ resets \in Nat /\ redisFaults \in Nat /\ redisFaults' \in Nat
  BY LimiterAssumption DEF LimiterTypeOK
<1>3. ASSUME log'[w] \subseteq log[w] PROVE FewEntries(w)'
  <2>1. IsFiniteSet(log'[w]) /\ Cardinality(log'[w]) <= Cardinality(log[w])
    BY <1>1, <1>3, FS_Subset DEF FewEntries
  <2>2. Cardinality(log'[w]) \in Nat /\ Cardinality(log[w]) \in Nat
    BY <1>1, <2>1, FS_CardinalityType DEF FewEntries
  <2> QED BY <1>1, <1>2, <2>1, <2>2 DEF FewEntries
<1>4. ASSUME Unknown(w)' \subseteq Unknown(w) PROVE FewUnknown(w)'
  <2> DEFINE bound == Limit[w] * resets
  <2>1. IsFiniteSet(Unknown(w)') /\ Cardinality(Unknown(w)') <= Cardinality(Unknown(w))
    BY <1>1, <1>4, FS_Subset DEF FewUnknown
  <2>2. Cardinality(Unknown(w)') \in Nat /\ Cardinality(Unknown(w)) \in Nat
    BY <1>1, <2>1, FS_CardinalityType DEF FewUnknown
  <2>3. Cardinality(Unknown(w)) <= bound + redisFaults
    BY <1>1 DEF FewUnknown
  <2>4. bound \in Nat
    BY <1>2
  <2>5. (Limit[w] * resets)' = bound
    OBVIOUS
  <2> HIDE DEF bound
  <2>6. Cardinality(Unknown(w)') <= bound + redisFaults'
    BY <1>2, <2>1, <2>2, <2>3, <2>4
  <2> QED BY <2>1, <2>5, <2>6 DEF FewUnknown
<1> QED BY <1>3, <1>4

\* What the steps leave in a window.
LEMMA AcquireKeepsWindow ==
  ASSUME LimiterTypeOK, LimiterTypeOK', WindowInv, NEW c \in Callers, LAcquire(c), NEW w \in Windows
  PROVE  FewEntries(w)' /\ FewUnknown(w)'
<1>0. resets' = resets /\ redisFaults' = redisFaults /\ redisFaults \in Nat /\ clock' = clock
  BY DEF LAcquire, LimiterTypeOK
<1>a. /\ clock \in Nat /\ log \in [Windows -> SUBSET Entries] /\ granted \in [Windows -> SUBSET Entries]
      /\ stamp[c] \in Nat /\ stamp[c] <= clock
  BY DEF LimiterTypeOK, WindowInv
<1>1. CASE w # win[c]
  <2>1. log'[w] = log[w] /\ granted'[w] = granted[w]
    BY <1>a, <1>1 DEF LAcquire
  <2>2. Unknown(w)' = Unknown(w)
    BY <1>0, <2>1 DEF Unknown, Recent
  <2> QED BY <1>0, <2>1, <2>2, FewerAreFew
<1>2. CASE w = win[c]
  <2> DEFINE kept == Pruned(w, stamp[c])
  <2>1. log'[w] = kept \cup {Entry(c)} /\ granted'[w] = granted[w] \cup {Entry(c)}
    BY <1>a, <1>2 DEF LAcquire
  <2>3. IsFiniteSet(kept) /\ Recent(w) \ kept \subseteq Unknown(w)
    BY <1>a, PrunedIsSmaller
  <2>4. Cardinality(kept) < Limit[w]
    BY <1>2 DEF LAcquire, HasRoom
  <2>5. /\ IsFiniteSet(kept \cup {Entry(c)})
        /\ \/ Cardinality(kept \cup {Entry(c)}) = Cardinality(kept)
           \/ Cardinality(kept \cup {Entry(c)}) = Cardinality(kept) + 1
    BY <2>3, FS_AddElement
  <2>6. Cardinality(kept) \in Nat /\ Limit[w] \in Nat
    BY <2>3, FS_CardinalityType, LimiterAssumption
  <2>7. Unknown(w)' \subseteq Unknown(w)
    BY <1>0, <2>1, <2>3 DEF Recent, Unknown
  <2>8. Cardinality(kept \cup {Entry(c)}) <= Limit[w]
    <3> HIDE DEF kept
    <3> QED BY <2>4, <2>5, <2>6
  <2>9. FewEntries(w)'
    BY <2>1, <2>5, <2>8 DEF FewEntries
  <2>10. FewUnknown(w)'
    BY <1>0, <2>7, FewerAreFew
  <2> QED BY <2>9, <2>10
<1> QED BY <1>1, <1>2

LEMMA PruneKeepsWindow ==
  ASSUME LimiterTypeOK, LimiterTypeOK', WindowInv, NEW w \in Windows,
         UNCHANGED <<granted, clock, resets, redisFaults>>,
         NEW t \in Nat, t <= clock, log'[w] = Pruned(w, t) \/ log'[w] = log[w]
  PROVE  FewEntries(w)' /\ FewUnknown(w)'
<1>1. Recent(w)' = Recent(w)
  BY DEF Recent
<1>2. Unknown(w)' \subseteq Unknown(w) /\ log'[w] \subseteq log[w]
  BY <1>1, PrunedIsSmaller DEF Unknown, Pruned
<1>3. redisFaults' >= redisFaults
  BY DEF LimiterTypeOK
<1> QED BY <1>2, <1>3, FewerAreFew

LEMMA ReturnKeepsWindow ==
  ASSUME LimiterTypeOK, LimiterTypeOK', WindowInv, NEW w \in Windows, NEW D,
         UNCHANGED <<clock, resets, redisFaults>>,
         log'[w] = log[w] \ D, granted'[w] = granted[w] \ D
  PROVE  FewEntries(w)' /\ FewUnknown(w)'
<1>1. Unknown(w)' \subseteq Unknown(w) /\ log'[w] \subseteq log[w]
  BY DEF Recent, Unknown
<1>2. redisFaults' >= redisFaults
  BY DEF LimiterTypeOK
<1> QED BY <1>1, <1>2, FewerAreFew

\* A request that goes ahead unseen is one failure.
LEMMA OpenKeepsWindow ==
  ASSUME LimiterTypeOK, LimiterTypeOK', WindowInv, NEW c \in Callers, LOpen(c), NEW w \in Windows
  PROVE  FewEntries(w)' /\ FewUnknown(w)'
<1> DEFINE e == [by |-> c, call |-> call[c], at |-> clock]
           bound == Limit[w] * resets
<1>1. /\ log' = log /\ clock' = clock /\ resets' = resets /\ redisFaults' = redisFaults + 1
      /\ redisFaults \in Nat /\ Limit[w] \in Nat /\ resets \in Nat
  BY LimiterAssumption DEF LOpen, RedisFault, LimiterTypeOK
<1>2. granted'[w] \subseteq granted[w] \cup {e}
  BY DEF LOpen
<1>3. Unknown(w)' \subseteq Unknown(w) \cup {e}
  BY <1>1, <1>2 DEF Recent, Unknown
<1>4. FewUnknown(w)
  BY DEF WindowInv
<1>5. /\ IsFiniteSet(Unknown(w) \cup {e})
      /\ \/ Cardinality(Unknown(w) \cup {e}) = Cardinality(Unknown(w))
         \/ Cardinality(Unknown(w) \cup {e}) = Cardinality(Unknown(w)) + 1
  BY <1>4, FS_AddElement DEF FewUnknown
<1>6. IsFiniteSet(Unknown(w)') /\ Cardinality(Unknown(w)') <= Cardinality(Unknown(w) \cup {e})
  BY <1>3, <1>5, FS_Subset
<1>7. Cardinality(Unknown(w)) \in Nat /\ Cardinality(Unknown(w)') \in Nat
  BY <1>4, <1>6, FS_CardinalityType DEF FewUnknown
<1>8. Cardinality(Unknown(w)) <= bound + redisFaults /\ bound \in Nat
  BY <1>1, <1>4 DEF FewUnknown
<1>9. (Limit[w] * resets)' = bound
  BY <1>1
<1>10. Cardinality(Unknown(w)') <= bound + redisFaults'
  <2> HIDE DEF bound, e
  <2> QED BY <1>1, <1>5, <1>6, <1>7, <1>8
<1>11. FewUnknown(w)'
  BY <1>6, <1>9, <1>10 DEF FewUnknown
<1>12. FewEntries(w)'
  BY <1>1 DEF WindowInv, FewEntries
<1> QED BY <1>11, <1>12

\* A reset forgets at most the Limit requests the window knew of.
LEMMA ResetKeepsWindow ==
  ASSUME LimiterTypeOK, LimiterTypeOK', WindowInv, LReset, NEW w \in Windows
  PROVE  FewEntries(w)' /\ FewUnknown(w)'
<1> DEFINE bound == Limit[w] * resets
<1>1. /\ clock' = clock /\ granted' = granted /\ resets' = resets + 1 /\ redisFaults' = redisFaults
      /\ redisFaults \in Nat /\ Limit[w] \in Nat /\ resets \in Nat
      /\ log'[w] \in {log[w], {}}
  BY LimiterAssumption DEF LReset, LimiterTypeOK
<1>2. FewEntries(w) /\ FewUnknown(w)
  BY DEF WindowInv
<1>3. Unknown(w)' \subseteq Unknown(w) \cup log[w]
  BY <1>1 DEF Recent, Unknown
<1>4. /\ IsFiniteSet(Unknown(w) \cup log[w])
      /\ Cardinality(Unknown(w) \cup log[w])
           = Cardinality(Unknown(w)) + Cardinality(log[w]) - Cardinality(Unknown(w) \cap log[w])
  BY <1>2, FS_Union DEF FewEntries, FewUnknown
<1>5. IsFiniteSet(Unknown(w) \cap log[w])
  BY <1>2, FS_Subset DEF FewEntries
<1>6. IsFiniteSet(Unknown(w)') /\ Cardinality(Unknown(w)') <= Cardinality(Unknown(w) \cup log[w])
  BY <1>3, <1>4, FS_Subset
<1>7. /\ Cardinality(Unknown(w)) \in Nat /\ Cardinality(Unknown(w)') \in Nat
      /\ Cardinality(log[w]) \in Nat /\ Cardinality(Unknown(w) \cap log[w]) \in Nat
  BY <1>2, <1>5, <1>6, FS_CardinalityType DEF FewEntries, FewUnknown
<1>8. Cardinality(Unknown(w)) <= bound + redisFaults /\ bound \in Nat /\ Cardinality(log[w]) <= Limit[w]
  BY <1>1, <1>2 DEF FewEntries, FewUnknown
<1>9. (Limit[w] * resets)' = bound + Limit[w]
  BY <1>1
<1>10. Cardinality(Unknown(w)') <= bound + Limit[w] + redisFaults'
  <2> HIDE DEF bound
  <2> QED BY <1>1, <1>4, <1>6, <1>7, <1>8
<1>11. FewUnknown(w)'
  BY <1>6, <1>9, <1>10 DEF FewUnknown
<1>12. FewEntries(w)'
  <2>1. IsFiniteSet({}) /\ Cardinality({}) = 0
    BY FS_EmptySet
  <2> QED BY <1>1, <1>2, <2>1 DEF FewEntries
<1> QED BY <1>11, <1>12

LEMMA WindowStep ==
  ASSUME LimiterTypeOK, LimiterTypeOK', WindowInv, [LimiterNext]_limiterVars
  PROVE  WindowInv'
<1> SUFFICES ASSUME NEW w \in Windows PROVE FewEntries(w)' /\ FewUnknown(w)'
  BY StampsArePast DEF WindowInv
<1>0. /\ clock \in Nat /\ log \in [Windows -> SUBSET Entries] /\ granted \in [Windows -> SUBSET Entries]
      /\ redisFaults \in Nat
      /\ \A c \in Callers : stamp[c] \in Nat /\ stamp[c] <= clock
  BY DEF LimiterTypeOK, WindowInv
<1>1. ASSUME NEW c \in Callers, LAcquire(c) PROVE FewEntries(w)' /\ FewUnknown(w)'
  BY <1>1, AcquireKeepsWindow
<1>2. ASSUME NEW c \in Callers, LRefuse(c) PROVE FewEntries(w)' /\ FewUnknown(w)'
  <2>1. log'[w] = Pruned(w, stamp[c]) \/ log'[w] = log[w]
    BY <1>0, <1>2 DEF LRefuse
  <2> QED BY <1>0, <1>2, <2>1, PruneKeepsWindow DEF LRefuse
<1>3. ASSUME NEW c \in Callers, LLook(c) PROVE FewEntries(w)' /\ FewUnknown(w)'
  <2>1. log'[w] = Pruned(w, clock) \/ log'[w] = log[w]
    BY <1>3 DEF LLook
  <2>2. clock <= clock
    BY <1>0
  <2> QED BY <1>0, <1>3, <2>1, <2>2, PruneKeepsWindow DEF LLook
<1>4. ASSUME NEW c \in Callers, LRollback(c) PROVE FewEntries(w)' /\ FewUnknown(w)'
  <2>1. PICK D : log'[w] = log[w] \ D /\ granted'[w] = granted[w] \ D
    <3>1. CASE w = rolled[c] + 1
      BY <1>0, <1>4, <3>1 DEF LRollback
    <3>2. CASE w # rolled[c] + 1
      <4>1. log'[w] = log[w] \ {} /\ granted'[w] = granted[w] \ {}
        BY <1>0, <1>4, <3>2 DEF LRollback
      <4> QED BY <4>1
    <3> QED BY <3>1, <3>2
  <2> QED BY <1>4, <2>1, ReturnKeepsWindow DEF LRollback
<1>5. ASSUME NEW c \in Callers, LOpen(c) PROVE FewEntries(w)' /\ FewUnknown(w)'
  BY <1>5, OpenKeepsWindow
<1>6. CASE LReset
  BY <1>6, ResetKeepsWindow
<1>7. ASSUME log' = log, granted' = granted, clock' = clock \/ LTick, resets' = resets,
             redisFaults' \in {redisFaults, redisFaults + 1}
      PROVE  FewEntries(w)' /\ FewUnknown(w)'
  <2>1. Recent(w)' \subseteq Recent(w)
    <3>1. clock' >= clock /\ clock' \in Nat /\ Width[w] \in Nat
      BY <1>0, <1>7, LimiterAssumption DEF LTick
    <3>2. \A e \in granted[w] : e.at \in Nat
      BY <1>0 DEF Entries
    <3> QED BY <1>0, <1>7, <3>1, <3>2 DEF Recent
  <2>2. Unknown(w)' \subseteq Unknown(w) /\ log'[w] \subseteq log[w]
    BY <1>7, <2>1 DEF Unknown
  <2>3. redisFaults' >= redisFaults
    BY <1>0, <1>7
  <2> QED BY <1>7, <2>2, <2>3, FewerAreFew
<1> QED BY <1>1, <1>2, <1>3, <1>4, <1>5, <1>6, <1>7
        DEF LimiterNext, LCaller, LTick, limiterVars, callVars, LCall, LStamp,
            LRollbackLost, LTimeout, LKilled, RedisFault

\* For any limits and widths and any number of workers whose clock values have
\* passed when their scripts run, resets and failures of Redis: of the requests
\* let through, at most Limit are dated within the last Width seconds, as many
\* more for every reset, and one more for every failure.
THEOREM RateIsKept == LimiterSpec => []RateKept
<1>1. LimiterInit => WindowInv
  <2> SUFFICES ASSUME LimiterInit PROVE WindowInv
    OBVIOUS
  <2>1. \A w \in Windows : log[w] = {} /\ Unknown(w) = {}
    BY DEF LimiterInit, Recent, Unknown
  <2>2. IsFiniteSet({}) /\ Cardinality({}) = 0
    BY FS_EmptySet
  <2>3. resets = 0 /\ redisFaults = 0 /\ \A w \in Windows : Limit[w] \in Nat
    BY LimiterAssumption DEF LimiterInit
  <2>4. \A c \in Callers : stamp[c] <= clock
    BY DEF LimiterInit
  <2>5. \A w \in Windows : FewEntries(w)
    BY <2>1, <2>2, <2>3 DEF FewEntries
  <2>6. \A w \in Windows : FewUnknown(w)
    BY <2>1, <2>2, <2>3 DEF FewUnknown
  <2> QED BY <2>4, <2>5, <2>6 DEF WindowInv
<1>2. LimiterTypeOK /\ WindowInv => RateKept
  <2> SUFFICES ASSUME LimiterTypeOK, WindowInv, NEW w \in Windows
               PROVE  Cardinality(Recent(w)) <= Limit[w] * (1 + resets) + redisFaults
    BY DEF RateKept, Recent
  <2> DEFINE bound == Limit[w] * resets
  <2>1. FewEntries(w) /\ FewUnknown(w)
    BY DEF WindowInv
  <2>2. Limit[w] \in Nat /\ resets \in Nat /\ redisFaults \in Nat
    BY LimiterAssumption DEF LimiterTypeOK
  <2>3. /\ IsFiniteSet(Unknown(w) \cup log[w])
        /\ Cardinality(Unknown(w) \cup log[w])
             = Cardinality(Unknown(w)) + Cardinality(log[w]) - Cardinality(Unknown(w) \cap log[w])
    BY <2>1, FS_Union DEF FewEntries, FewUnknown
  <2>4. IsFiniteSet(Unknown(w) \cap log[w])
    BY <2>1, FS_Subset DEF FewEntries
  <2>5. Recent(w) \subseteq Unknown(w) \cup log[w]
    BY DEF Unknown
  <2>6. IsFiniteSet(Recent(w)) /\ Cardinality(Recent(w)) <= Cardinality(Unknown(w) \cup log[w])
    BY <2>3, <2>5, FS_Subset
  <2>7. /\ Cardinality(Unknown(w)) \in Nat /\ Cardinality(log[w]) \in Nat
        /\ Cardinality(Unknown(w) \cap log[w]) \in Nat /\ Cardinality(Recent(w)) \in Nat
    BY <2>1, <2>4, <2>6, FS_CardinalityType DEF FewEntries, FewUnknown
  <2>8. Cardinality(Unknown(w)) <= bound + redisFaults /\ bound \in Nat /\ Cardinality(log[w]) <= Limit[w]
    BY <2>1, <2>2 DEF FewEntries, FewUnknown
  <2>9. Limit[w] * (1 + resets) = bound + Limit[w]
    <3>1. \A m, n \in Nat : m * (1 + n) = m * n + m
      OBVIOUS
    <3> QED BY <2>2, <3>1
  <2> HIDE DEF bound
  <2> QED BY <2>2, <2>3, <2>6, <2>7, <2>8, <2>9
<1>3. LimiterTypeOK /\ LimiterTypeOK' /\ WindowInv /\ [LimiterNext]_limiterVars => WindowInv'
  BY WindowStep
<1> QED BY <1>1, <1>2, <1>3, LimiterTyped, PTL DEF LimiterSpec

-----------------------------------------------------------------------------
(* The rate limiter: a refused request keeps no slot *)

\* Where c's call may hold a slot: in the windows it has taken, and during a
\* rollback in those it has still to give back.
MayHold(c, w) ==
  \/ lpc[c] = "idle"
  \/ lpc[c] \in {"stamp", "script"} /\ 1 <= w /\ w < win[c]
  \/ lpc[c] = "rollback" /\ rolled[c] < w /\ w < win[c]

\* Every uuid is new, so a slot found under a call's uuid is the call's own.
SlotsInv ==
  /\ \A w \in Windows : \A e \in log[w] : e.call <= call[e.by]
  /\ \A c \in Callers : lpc[c] \in {"idle", "stamp", "script", "asleep"} => rolled[c] = 0
  /\ \A c \in Waiters : rolled[c] = 0 /\ win[c] = 0 /\ lpc[c] # "rollback"
  /\ redisFaults = 0 =>
       \A c \in Callers, w \in Windows : \A e \in log[w] :
         e.by = c /\ e.call = call[c] => MayHold(c, w)

\* A step of one caller says nothing about the slots of another.
LEMMA CallsGrow ==
  ASSUME LimiterTypeOK, SlotsInv, [LimiterNext]_limiterVars
  PROVE  \A w \in Windows : \A e \in log'[w] : e.call <= call'[e.by]
<1>0. /\ log \in [Windows -> SUBSET Entries] /\ call \in [Callers -> Nat]
      /\ \A w \in Windows : \A e \in log[w] : e.call <= call[e.by]
      /\ \A e \in Entries : e.by \in Callers /\ e.call \in Nat
  BY DEF LimiterTypeOK, SlotsInv, Entries
<1>1. \A c \in Callers : call[c] <= call'[c] /\ call'[c] \in Nat
  <2>1. ASSUME NEW d \in Callers, call' = call \/ call' = [call EXCEPT ![d] = @ + 1]
        PROVE  \A c \in Callers : call[c] <= call'[c] /\ call'[c] \in Nat
    BY <1>0, <2>1
  <2>2. CASE call' = call
    BY <1>0, <2>2
  <2> QED BY <2>1, <2>2 DEF LimiterNext, LCaller, LReset, LTick, limiterVars, callVars,
    LCall, LStamp, LAcquire, LRefuse, LOpen, LRollback, LRollbackLost, LLook, LTimeout, LKilled
<1>2. \A w \in Windows : \A e \in log'[w] :
        e \in log[w] \/ (call' = call /\ \E c \in Callers : e = Entry(c))
  BY <1>0 DEF LimiterNext, LCaller, LReset, LTick, limiterVars, callVars, Pruned,
    LCall, LStamp, LAcquire, LRefuse, LOpen, LRollback, LRollbackLost, LLook, LTimeout, LKilled
<1>3. \A c \in Callers : Entry(c).call = call[c] /\ Entry(c).by = c
  BY DEF Entry
<1> SUFFICES ASSUME NEW w \in Windows, NEW e \in log'[w] PROVE e.call <= call'[e.by]
  OBVIOUS
<1>4. CASE e \in log[w]
  BY <1>0, <1>1, <1>4
<1>5. CASE call' = call /\ \E c \in Callers : e = Entry(c)
  BY <1>0, <1>3, <1>5
<1> QED BY <1>2, <1>4, <1>5

LEMMA RollbackStarts ==
  ASSUME LimiterTypeOK, SlotsInv, [LimiterNext]_limiterVars
  PROVE  /\ \A c \in Callers : lpc'[c] \in {"idle", "stamp", "script", "asleep"} => rolled'[c] = 0
         /\ \A c \in Waiters : rolled'[c] = 0 /\ win'[c] = 0 /\ lpc'[c] # "rollback"
<1> DEFINE Goal == /\ \A c \in Callers : lpc'[c] \in {"idle", "stamp", "script", "asleep"} => rolled'[c] = 0
                   /\ \A c \in Waiters : rolled'[c] = 0 /\ win'[c] = 0 /\ lpc'[c] # "rollback"
<1>0. /\ lpc \in [Callers -> Steps] /\ win \in [Callers -> Windows] /\ rolled \in [Callers -> Nat]
      /\ \A c \in Callers : lpc[c] \in {"idle", "stamp", "script", "asleep"} => rolled[c] = 0
      /\ \A c \in Waiters : c \in Callers /\ rolled[c] = 0 /\ win[c] = 0 /\ lpc[c] # "rollback"
  BY DEF LimiterTypeOK, SlotsInv, Steps, Callers
<1>1. ASSUME NEW c \in Callers, LCall(c) PROVE Goal
  <2>1. CASE c \in Waiters BY <1>0, <1>1, <2>1 DEF LCall
  <2>2. CASE c \notin Waiters BY <1>0, <1>1, <2>2 DEF LCall
  <2> QED BY <2>1, <2>2
<1>2. ASSUME NEW c \in Callers, LStamp(c) \/ LRefuse(c) PROVE Goal
  <2>1. UNCHANGED <<win, rolled>> BY <1>2 DEF LStamp, LRefuse
  <2>2. rolled[c] = 0 BY <1>0, <1>2 DEF LStamp, LRefuse
  <2>3. \A d \in Callers \ {c} : lpc'[d] = lpc[d] BY <1>0, <1>2 DEF LStamp, LRefuse
  <2>4. c \in Waiters => lpc'[c] # "rollback" BY <1>0, <1>2 DEF LStamp, LRefuse
  <2> QED BY <1>0, <2>1, <2>2, <2>3, <2>4
<1>3. ASSUME NEW c \in Callers, CallOver(c) PROVE Goal
  BY <1>0, <1>3 DEF CallOver
<1>4. ASSUME NEW c \in Callers, LAcquire(c) PROVE Goal
  <2>1. CASE CallOver(c) BY <1>3, <2>1
  <2>2. CASE win[c] \notin {0, Cascade} /\ lpc' = [lpc EXCEPT ![c] = "stamp"]
             /\ win' = [win EXCEPT ![c] = @ + 1] /\ UNCHANGED rolled
    <3>1. rolled[c] = 0 /\ c \notin Waiters BY <1>0, <1>4, <2>2 DEF LAcquire
    <3> QED BY <1>0, <2>2, <3>1
  <2> QED BY <1>4, <2>1, <2>2 DEF LAcquire
<1>5. ASSUME NEW c \in Callers, LRollback(c) \/ LRollbackLost(c) PROVE Goal
  <2>0. c \notin Waiters BY <1>0, <1>5 DEF LRollback, LRollbackLost
  <2>1. RolledTo(c) \in {"refused", "rollback"} BY DEF RolledTo
  <2>2. win' = win BY <1>5 DEF LRollback, LRollbackLost
  <2>3. lpc' = [lpc EXCEPT ![c] = RolledTo(c)] BY <1>5 DEF LRollback, LRollbackLost
  <2>4. \A d \in Callers \ {c} : rolled'[d] = rolled[d]
    BY <1>0, <1>5 DEF LRollback, LRollbackLost
  <2> QED BY <1>0, <2>0, <2>1, <2>2, <2>3, <2>4
<1>6. ASSUME NEW c \in Callers, LLook(c) PROVE Goal
  BY <1>0, <1>6 DEF LLook
<1>7. ASSUME UNCHANGED callVars PROVE Goal
  BY <1>0, <1>7 DEF callVars
<1> QED BY <1>1, <1>2, <1>3, <1>4, <1>5, <1>6, <1>7 DEF LimiterNext, LCaller, LReset, LTick,
  limiterVars, LOpen, LTimeout, LKilled

\* The slots of the caller that takes the step.
LEMMA OwnSlots ==
  ASSUME LimiterTypeOK, SlotsInv, NEW c \in Callers, LCaller(c), redisFaults = 0, redisFaults' = 0,
         NEW w \in Windows, NEW e \in log'[w], e.by = c, e.call = call'[c]
  PROVE  MayHold(c, w)'
<1>0. /\ log \in [Windows -> SUBSET Entries] /\ call \in [Callers -> Nat]
      /\ lpc \in [Callers -> Steps] /\ win \in [Callers -> Windows] /\ rolled \in [Callers -> Nat]
      /\ w \in Nat
      /\ \A f \in log[w] : f.call <= call[f.by]
      /\ \A f \in log[w] : f.by = c /\ f.call = call[c] => MayHold(c, w)
      /\ lpc[c] \in {"idle", "stamp", "script", "asleep"} => rolled[c] = 0
  BY DEF LimiterTypeOK, SlotsInv, Steps, Windows
<1> USE DEF MayHold
<1>1. CASE LCall(c)
  <2>1. e \in log[w] /\ call'[c] = call[c] + 1 BY <1>0, <1>1 DEF LCall
  <2> QED BY <1>0, <2>1
<1>2. CASE LStamp(c)
  <2>1. e \in log[w] /\ call' = call /\ win' = win BY <1>2 DEF LStamp
  <2>2. MayHold(c, w) /\ lpc[c] = "stamp" /\ lpc'[c] = "script" BY <1>0, <1>2, <2>1 DEF LStamp
  <2> QED BY <2>1, <2>2
<1>3. CASE LAcquire(c)
  <2>1. CASE CallOver(c)
    BY <1>0, <2>1 DEF CallOver
  <2>2. CASE /\ win[c] \notin {0, Cascade} /\ lpc' = [lpc EXCEPT ![c] = "stamp"]
             /\ win' = [win EXCEPT ![c] = @ + 1]
    <3>1. win[c] \in Nat /\ win[c] # 0 BY <1>0, <2>2 DEF Windows
    <3>2. lpc'[c] = "stamp" /\ win'[c] = win[c] + 1 BY <1>0, <2>2
    <3>3. CASE w = win[c] BY <3>1, <3>2, <3>3
    <3>4. CASE w # win[c]
      <4>1. e \in log[w] /\ call' = call BY <1>0, <1>3, <3>4 DEF LAcquire
      <4>2. MayHold(c, w) /\ lpc[c] = "script" BY <1>0, <1>3, <4>1 DEF LAcquire
      <4> QED BY <1>0, <3>1, <3>2, <4>2
    <3> QED BY <3>3, <3>4
  <2> QED BY <1>3, <2>1, <2>2 DEF LAcquire
<1>4. CASE LRefuse(c)
  <2>1. e \in log[w] /\ call' = call /\ win' = win /\ rolled' = rolled
    BY <1>0, <1>4 DEF LRefuse, Pruned
  <2>2. lpc[c] = "script" /\ MayHold(c, w) BY <1>0, <1>4, <2>1 DEF LRefuse
  <2>3. 1 <= w /\ w < win[c] /\ rolled[c] = 0 /\ win[c] \in Nat
    BY <1>0, <2>2 DEF Windows
  <2>4. lpc'[c] = "rollback"
    BY <1>0, <1>4, <2>3 DEF LRefuse
  <2> QED BY <1>0, <2>1, <2>3, <2>4
<1>5. CASE LRollback(c)
  <2>1. rolled[c] \in Nat /\ win[c] \in Nat /\ lpc[c] = "rollback" BY <1>0, <1>5 DEF LRollback, Windows
  <2>2. e \in log[w] /\ call' = call /\ win' = win /\ rolled'[c] = rolled[c] + 1
    BY <1>0, <1>5 DEF LRollback
  <2>3. rolled[c] < w /\ w < win[c] BY <1>0, <2>1, <2>2
  <2>4. w # rolled[c] + 1
    <3>1. w = rolled[c] + 1 => e \notin Held(c, w) BY <1>0, <1>5 DEF LRollback
    <3>2. e \in Held(c, w) BY <2>2 DEF Held
    <3> QED BY <3>1, <3>2
  <2>5. RolledTo(c) = "rollback" BY <1>0, <2>1, <2>3, <2>4 DEF RolledTo
  <2>6. lpc'[c] = "rollback" BY <1>0, <1>5, <2>5 DEF LRollback
  <2> QED BY <1>0, <2>1, <2>2, <2>3, <2>4, <2>6
<1>6. CASE LLook(c)
  <2>1. e \in log[w] /\ call' = call BY <1>0, <1>6 DEF LLook, Pruned
  <2>2. MayHold(c, w) /\ lpc[c] = "refused" BY <1>0, <1>6, <2>1 DEF LLook
  <2> QED BY <2>2
<1>7. CASE LTimeout(c)
  BY <1>0, <1>7 DEF LTimeout, CallOver
<1> QED BY <1>1, <1>2, <1>3, <1>4, <1>5, <1>6, <1>7
        DEF LCaller, LOpen, LRollbackLost, LKilled, RedisFault

LEMMA OthersSlots ==
  ASSUME LimiterTypeOK, SlotsInv, NEW d \in Callers, LCaller(d), redisFaults = 0,
         NEW c \in Callers, c # d,
         NEW w \in Windows, NEW e \in log'[w], e.by = c, e.call = call'[c]
  PROVE  MayHold(c, w)'
<1>0. /\ log \in [Windows -> SUBSET Entries] /\ call \in [Callers -> Nat]
      /\ lpc \in [Callers -> Steps] /\ win \in [Callers -> Windows] /\ rolled \in [Callers -> Nat]
      /\ \A f \in log[w] : f.by = c /\ f.call = call[c] => MayHold(c, w)
  BY DEF LimiterTypeOK, SlotsInv, Steps
<1>1. e \in log[w]
  <2>1. Entry(d).by # c BY DEF Entry
  <2> QED BY <1>0, <2>1 DEF LCaller, LCall, LStamp, LAcquire, LRefuse, LOpen, LRollback,
    LRollbackLost, LLook, LTimeout, LKilled, Pruned
<1>2. call'[c] = call[c]
  BY <1>0 DEF LCaller, LCall, LStamp, LAcquire, LRefuse, LOpen, LRollback,
    LRollbackLost, LLook, LTimeout, LKilled
<1>3. lpc'[c] = lpc[c]
  BY <1>0 DEF LCaller, LCall, LStamp, LAcquire, LRefuse, LOpen, LRollback,
    LRollbackLost, LLook, LTimeout, LKilled, CallOver
<1>4. win'[c] = win[c]
  BY <1>0 DEF LCaller, LCall, LStamp, LAcquire, LRefuse, LOpen, LRollback,
    LRollbackLost, LLook, LTimeout, LKilled, CallOver
<1>5. rolled'[c] = rolled[c]
  BY <1>0 DEF LCaller, LCall, LStamp, LAcquire, LRefuse, LOpen, LRollback,
    LRollbackLost, LLook, LTimeout, LKilled, CallOver
<1>6. MayHold(c, w)
  BY <1>0, <1>1, <1>2
<1> QED BY <1>3, <1>4, <1>5, <1>6 DEF MayHold

LEMMA SlotsStep ==
  ASSUME LimiterTypeOK, SlotsInv, [LimiterNext]_limiterVars
  PROVE  SlotsInv'
<1> SUFFICES ASSUME redisFaults' = 0, NEW c \in Callers, NEW w \in Windows, NEW e \in log'[w],
                    e.by = c, e.call = call'[c]
             PROVE  MayHold(c, w)'
  BY CallsGrow, RollbackStarts DEF SlotsInv
<1>1. redisFaults = 0
  BY DEF LimiterTypeOK, LimiterNext, LCaller, LReset, LTick, limiterVars, callVars, LCall, LStamp,
    LAcquire, LRefuse, LOpen, LRollback, LRollbackLost, LLook, LTimeout, LKilled, RedisFault
<1>2. ASSUME NEW d \in Callers, LCaller(d) PROVE MayHold(c, w)'
  BY <1>1, <1>2, OwnSlots, OthersSlots
<1>3. ASSUME UNCHANGED <<log, callVars>> PROVE MayHold(c, w)'
  BY <1>1, <1>3 DEF SlotsInv, MayHold, callVars
<1>4. CASE LReset
  <2>1. e \in log[w] /\ UNCHANGED callVars
    BY <1>4 DEF LReset, LimiterTypeOK
  <2> QED BY <1>1, <2>1 DEF SlotsInv, MayHold, callVars
<1> QED BY <1>2, <1>3, <1>4 DEF LimiterNext, LTick, limiterVars

\* For any cascade of windows: unless Redis fails, a request that was refused,
\* and whose rollback is through, has no slot in any window.
THEOREM RefusedAreGone == LimiterSpec => []RefusedLeaveNoTrace
<1>1. LimiterInit => SlotsInv
  <2> SUFFICES ASSUME LimiterInit PROVE SlotsInv
    OBVIOUS
  <2>1. \A w \in Windows : log[w] = {}
    BY DEF LimiterInit
  <2>2. \A c \in Callers : rolled[c] = 0 /\ win[c] = 0 /\ lpc[c] = "idle"
    BY DEF LimiterInit
  <2> QED BY <2>1, <2>2 DEF SlotsInv, Callers
<1>2. SlotsInv => RefusedLeaveNoTrace
  BY DEF SlotsInv, RefusedLeaveNoTrace, MayHold, Held
<1> QED BY <1>1, <1>2, SlotsStep, LimiterTyped, PTL DEF LimiterSpec

-----------------------------------------------------------------------------
(* The credential pool: one step concerns one job *)

PoolSteps == {"idle", "cooldown", "quota", "count", "expire", "stamp", "using", "cool", "record"}

\* What the proofs need of the types.
PoolShape ==
  /\ poolFaults \in Nat
  /\ used \in [Periods -> [Credentials -> Nat]] /\ counted \in [Periods -> [Credentials -> Nat]]
  /\ period \in [Takers -> Periods] /\ ppc \in [Takers -> PoolSteps]
  /\ DOMAIN cand = Takers /\ DOMAIN burnt = Takers
  /\ DOMAIN expires = Periods
  /\ \A t \in Takers : ppc[t] \in {"idle", "cooldown", "stamp", "using", "cool", "record"} => period[t] = 1

TakerStep(t) == PAcquire(t) \/ PRelease(t) \/ PReport(t) \/ PFaulty(t)

LEMMA TakerMoves ==
  ASSUME PoolShape, NEW t \in Takers, TakerStep(t)
  PROVE  /\ ppc' \in [Takers -> PoolSteps] /\ period' \in [Takers -> Periods]
         /\ DOMAIN cand' = Takers
         /\ \A u \in Takers \ {t} : ppc'[u] = ppc[u] /\ period'[u] = period[u] /\ cand'[u] = cand[u]
         /\ ppc'[t] \in {"idle", "cooldown", "stamp", "using", "cool", "record"} => period'[t] = 1
<1>0. /\ period \in [Takers -> Periods] /\ ppc \in [Takers -> PoolSteps] /\ DOMAIN cand = Takers
      /\ ppc[t] \in {"idle", "cooldown", "stamp", "using", "cool", "record"} => period[t] = 1
      /\ period[t] \in {1, 2}
  BY DEF PoolShape, Periods
<1> DEFINE Moves == /\ ppc' \in [Takers -> PoolSteps] /\ period' \in [Takers -> Periods]
                    /\ DOMAIN cand' = Takers
                    /\ \A u \in Takers \ {t} : ppc'[u] = ppc[u] /\ period'[u] = period[u] /\ cand'[u] = cand[u]
                    /\ ppc'[t] \in {"idle", "cooldown", "stamp", "using", "cool", "record"} => period'[t] = 1
<1>1. ASSUME PList(t) PROVE Moves
  BY <1>0, <1>1 DEF PList, PoolSteps
<1>2. ASSUME PNone(t) PROVE Moves
  BY <1>0, <1>2 DEF PNone, PoolSteps
<1>3. ASSUME Skip(t) PROVE Moves
  BY <1>0, <1>3 DEF Skip, PoolSteps, Periods
<1>4. ASSUME PCooldown(t) PROVE Moves
  BY <1>0, <1>3, <1>4 DEF PCooldown, PoolSteps
<1>5. ASSUME NEW now \in {"quota", "count"}, NEW then \in {"count", "stamp"},
             NextPeriod(t, now, then), UNCHANGED cand
      PROVE  Moves
  <2>1. CASE period[t] = 2
    BY <1>0, <1>5, <2>1 DEF NextPeriod, PoolSteps, Periods
  <2>2. CASE period[t] # 2
    BY <1>0, <1>5, <2>2 DEF NextPeriod, PoolSteps, Periods
  <2> QED BY <2>1, <2>2
<1>6. ASSUME PQuota(t) PROVE Moves
  BY <1>3, <1>5, <1>6 DEF PQuota
<1>7. ASSUME PCount(t) PROVE Moves
  <2>1. CASE ppc' = [ppc EXCEPT ![t] = "expire"] /\ UNCHANGED <<period, cand>>
    BY <1>0, <2>1 DEF PoolSteps
  <2> QED BY <1>5, <1>7, <2>1 DEF PCount
<1>8. ASSUME PExpire(t) PROVE Moves
  BY <1>5, <1>8 DEF PExpire
<1>9. ASSUME PStamp(t) \/ PStampLost(t) PROVE Moves
  BY <1>0, <1>9 DEF PStamp, PStampLost, PoolSteps
<1>10. ASSUME Finish(t) PROVE Moves
  BY <1>0, <1>10 DEF Finish, PoolSteps, Periods
<1>11. ASSUME PRelease(t) \/ PRecord(t) \/ PLost(t) PROVE Moves
  BY <1>10, <1>11 DEF PRelease, PRecord, PLost
<1>12. ASSUME PError(t) \/ PErrorUnread(t) \/ PCool(t) \/ PCoolLost(t) PROVE Moves
  <2>1. UNCHANGED <<cand, period>> BY <1>12 DEF PError, PErrorUnread, PCool, PCoolLost
  <2>2. ppc' = [ppc EXCEPT ![t] = "cool"] \/ ppc' = [ppc EXCEPT ![t] = "record"]
    BY <1>12 DEF PError, PErrorUnread, PCool, PCoolLost
  <2>3. period[t] = 1 BY <1>0, <1>12 DEF PError, PErrorUnread, PCool, PCoolLost
  <2> QED BY <1>0, <2>1, <2>2, <2>3 DEF PoolSteps
<1>13. ASSUME PReadLost(t) PROVE Moves
  <2>1. CASE ppc' = [ppc EXCEPT ![t] = "quota"] /\ UNCHANGED <<period, cand>>
    BY <1>0, <2>1 DEF PoolSteps
  <2> QED BY <1>5, <1>13, <2>1 DEF PReadLost
<1>14. ASSUME PCountLost(t) PROVE Moves
  BY <1>0, <1>14 DEF PCountLost, PoolSteps, Periods
<1> HIDE DEF Moves
<1>15. Moves
  BY <1>1, <1>2, <1>4, <1>6, <1>7, <1>8, <1>9, <1>11, <1>12, <1>13, <1>14
     DEF TakerStep, PAcquire, PReport, PFaulty
<1> QED BY <1>15 DEF Moves

LEMMA CountUp ==
  ASSUME NEW f \in [Credentials -> Nat], NEW r
  PROVE  [f EXCEPT ![r] = @ + 1] \in [Credentials -> Nat]
<1>1. \A c \in Credentials : [f EXCEPT ![r] = @ + 1][c] = IF c = r THEN f[c] + 1 ELSE f[c]
  OBVIOUS
<1>2. \A c \in Credentials : [f EXCEPT ![r] = @ + 1][c] \in Nat
  BY <1>1
<1> QED BY <1>2

LEMMA ShapeStep ==
  ASSUME PoolShape, [PoolNext]_poolVars
  PROVE  PoolShape'
<1>0. /\ poolFaults \in Nat /\ DOMAIN burnt = Takers /\ DOMAIN expires = Periods
      /\ used \in [Periods -> [Credentials -> Nat]] /\ counted \in [Periods -> [Credentials -> Nat]]
  BY DEF PoolShape
<1>1. ASSUME NEW t \in Takers, TakerStep(t)
      PROVE  /\ ppc' \in [Takers -> PoolSteps] /\ period' \in [Takers -> Periods]
             /\ DOMAIN cand' = Takers
             /\ \A u \in Takers :
                  ppc'[u] \in {"idle", "cooldown", "stamp", "using", "cool", "record"} => period'[u] = 1
  BY <1>1, TakerMoves DEF PoolShape
<1>2. ASSUME NEW t \in Takers, TakerStep(t)
      PROVE  poolFaults' \in Nat /\ DOMAIN burnt' = Takers /\ DOMAIN expires' = Periods
  <2>1. poolFaults' \in Nat
    <3>1. PFaulty(t) => PoolFault
      BY DEF PFaulty, PReadLost, PCountLost, PStampLost, PErrorUnread, PCoolLost, PLost
    <3>2. PFaulty(t) \/ poolFaults' = poolFaults
      BY <1>2 DEF TakerStep, PAcquire, PReport, PList, PNone, PCooldown, PQuota,
         PCount, PExpire, PStamp, PRelease, PError, PCool, PRecord
    <3> QED BY <1>0, <3>1, <3>2 DEF PoolFault
  <2>2. DOMAIN burnt' = Takers
    <3>1. PCool(t) \/ burnt' = burnt
      BY <1>2 DEF TakerStep, PAcquire, PReport, PFaulty, PList, PNone, PCooldown, PQuota,
         PReadLost, PCount, PExpire, PCountLost, PStamp, PStampLost, PRelease, PError, PErrorUnread,
         PCoolLost, PRecord, PLost
    <3> QED BY <1>0, <3>1 DEF PCool
  <2>3. DOMAIN expires' = Periods
    <3>1. PExpire(t) \/ expires' = expires
      BY <1>2 DEF TakerStep, PAcquire, PReport, PFaulty, quotaVars, PList, PNone, PCooldown, PQuota,
         PReadLost, PCount, PCountLost, PStamp, PStampLost, PRelease, PError, PErrorUnread, PCool,
         PCoolLost, PRecord, PLost
    <3> QED BY <1>0, <3>1 DEF PExpire
  <2> QED BY <2>1, <2>2, <2>3
<1>3. ASSUME NEW t \in Takers, TakerStep(t) PROVE used' \in [Periods -> [Credentials -> Nat]]
  <2>1. ASSUME PCount(t) PROVE used' \in [Periods -> [Credentials -> Nat]]
    <3>1. used' = [used EXCEPT ![period[t]] = [used[period[t]] EXCEPT ![Row(t)] = @ + 1]]
      BY <2>1 DEF PCount
    <3>2. \A p \in Periods : [used[p] EXCEPT ![Row(t)] = @ + 1] \in [Credentials -> Nat]
      BY <1>0, CountUp
    <3> QED BY <1>0, <3>1, <3>2
  <2>2. PCount(t) \/ used' = used
    BY <1>3 DEF TakerStep, PAcquire, PReport, PFaulty, quotaVars, PList, PNone, PCooldown, PQuota,
       PReadLost, PExpire, PCountLost, PStamp, PStampLost, PRelease, PError, PErrorUnread, PCool,
       PCoolLost, PRecord, PLost
  <2> QED BY <1>0, <2>1, <2>2
<1>4. ASSUME NEW t \in Takers, TakerStep(t) PROVE counted' \in [Periods -> [Credentials -> Nat]]
  <2>1. ASSUME PCount(t) PROVE counted' \in [Periods -> [Credentials -> Nat]]
    <3>1. counted' = [counted EXCEPT ![period[t]] = [counted[period[t]] EXCEPT ![Row(t)] = @ + 1]]
      BY <2>1 DEF PCount
    <3>2. \A p \in Periods : [counted[p] EXCEPT ![Row(t)] = @ + 1] \in [Credentials -> Nat]
      BY <1>0, CountUp
    <3> QED BY <1>0, <3>1, <3>2
  <2>2. ASSUME PCountLost(t) PROVE counted' \in [Periods -> [Credentials -> Nat]]
    <3>1. \A p \in Periods : [counted[p] EXCEPT ![Row(t)] = @ + 1] \in [Credentials -> Nat]
      BY <1>0, CountUp
    <3> QED BY <1>0, <2>2, <3>1 DEF PCountLost
  <2>3. PCount(t) \/ PCountLost(t) \/ counted' = counted
    BY <1>4 DEF TakerStep, PAcquire, PReport, PFaulty, quotaVars, PList, PNone, PCooldown, PQuota,
       PReadLost, PExpire, PStamp, PStampLost, PRelease, PError, PErrorUnread, PCool,
       PCoolLost, PRecord, PLost
  <2> QED BY <1>0, <2>1, <2>2, <2>3
<1>5. ASSUME NEW t \in Takers, TakerStep(t) PROVE PoolShape'
  BY <1>1, <1>2, <1>3, <1>4, <1>5 DEF PoolShape
<1>6. ASSUME NEW last \in Periods, PPeriodEnds(last) PROVE PoolShape'
  BY <1>6 DEF PoolShape, PPeriodEnds, jobVars
<1>7. ASSUME NEW c \in Credentials, PCoolsDown(c) \/ PAdmin(c) PROVE PoolShape'
  BY <1>7 DEF PoolShape, PCoolsDown, PAdmin, jobVars, quotaVars
<1>8. ASSUME UNCHANGED poolVars PROVE PoolShape'
  BY <1>8 DEF PoolShape, poolVars, jobVars, quotaVars
<1> QED BY <1>5, <1>6, <1>7, <1>8 DEF PoolNext, TakerStep

LEMMA PoolShaped == PoolSpec => []PoolShape
<1>1. PoolInit => PoolShape
  BY DEF PoolInit, PoolShape, PoolSteps, Periods
<1> QED BY <1>1, ShapeStep, PTL DEF PoolSpec

-----------------------------------------------------------------------------
(* The credential pool: types *)

\* A job past its look at a cooldown has a row to look at.
PoolTypeInv ==
  /\ PoolTypeOK
  /\ \A t \in Takers : ppc[t] \in PoolSteps \ {"idle", "cooldown"} => cand[t] # <<>>

LEMMA OrderedRows ==
  ASSUME PoolTypeOK, NEW rows \in InOrder(active)
  PROVE  rows \in Seq(Credentials)
<1>1. IsFiniteSet(active) /\ active \subseteq Credentials
  BY PoolAssumption, FS_Subset DEF PoolTypeOK
<1>2. Cardinality(active) \in Nat
  BY <1>1, FS_CardinalityType
<1>3. rows \in [1 .. Cardinality(active) -> Credentials]
  BY <1>1 DEF InOrder
<1> QED BY <1>2, <1>3

\* The rows a job has before it.
LEMMA CandidatesStep ==
  ASSUME PoolTypeInv, PoolShape, NEW t \in Takers, TakerStep(t)
  PROVE  /\ cand' \in [Takers -> Seq(Credentials)]
         /\ \A u \in Takers : ppc'[u] \in PoolSteps \ {"idle", "cooldown"} => cand'[u] # <<>>
<1>0. /\ cand \in [Takers -> Seq(Credentials)] /\ ppc \in [Takers -> PoolSteps]
      /\ \A u \in Takers : ppc[u] \in PoolSteps \ {"idle", "cooldown"} => cand[u] # <<>>
      /\ cand[t] \in Seq(Credentials)
  BY DEF PoolTypeInv, PoolTypeOK, PoolShape
<1>1. \A u \in Takers \ {t} : ppc'[u] = ppc[u] /\ cand'[u] = cand[u]
  BY TakerMoves
<1>2. ppc' \in [Takers -> PoolSteps]
  BY TakerMoves
<1> DEFINE Goal == /\ cand' \in [Takers -> Seq(Credentials)]
                   /\ ppc'[t] \in PoolSteps \ {"idle", "cooldown"} => cand'[t] # <<>>
<1>3. ASSUME NEW rows \in Seq(Credentials), cand' = [cand EXCEPT ![t] = rows],
             ppc'[t] \in {"idle", "cooldown"} \/ rows # <<>>
      PROVE  Goal
  BY <1>0, <1>3
<1>4. ASSUME UNCHANGED cand, cand[t] # <<>> \/ ppc'[t] \in {"idle", "cooldown"} PROVE Goal
  BY <1>0, <1>4
<1> HIDE DEF Goal
<1>5. ASSUME PList(t) PROVE Goal
  <2>1. PICK rows \in InOrder(active) : cand' = [cand EXCEPT ![t] = rows]
    BY <1>5 DEF PList
  <2>2. rows \in Seq(Credentials)
    BY OrderedRows DEF PoolTypeInv
  <2>3. ppc'[t] = "cooldown"
    BY <1>0, <1>5 DEF PList
  <2> QED BY <1>3, <2>1, <2>2, <2>3
<1>6. ASSUME PNone(t) PROVE Goal
  BY <1>0, <1>4, <1>6 DEF PNone
<1>7. ASSUME Skip(t), cand[t] # <<>> PROVE Goal
  <2>1. Tail(cand[t]) \in Seq(Credentials)
    BY <1>0, <1>7
  <2>2. cand' = [cand EXCEPT ![t] = Tail(cand[t])] /\ ppc'[t] = "cooldown"
    BY <1>0, <1>7 DEF Skip
  <2> QED BY <1>3, <2>1, <2>2
<1>8. ASSUME PCooldown(t) PROVE Goal
  BY <1>4, <1>7, <1>8 DEF PCooldown
<1>9. ASSUME ppc[t] \in PoolSteps \ {"idle", "cooldown"}, UNCHANGED cand PROVE Goal
  BY <1>0, <1>4, <1>9
<1>10. ASSUME PQuota(t) PROVE Goal
  <2>1. ppc[t] \in PoolSteps \ {"idle", "cooldown"}
    BY <1>10 DEF PQuota, PoolSteps
  <2> QED BY <1>0, <1>7, <1>9, <1>10, <2>1 DEF PQuota
<1>11. ASSUME PCount(t) \/ PExpire(t) \/ PCountLost(t) \/ PError(t) \/ PErrorUnread(t) \/ PCool(t) \/ PCoolLost(t)
       PROVE  Goal
  <2>1. ppc[t] \in PoolSteps \ {"idle", "cooldown"} /\ UNCHANGED cand
    BY <1>11 DEF PCount, PExpire, PCountLost, PError, PErrorUnread, PCool, PCoolLost, PoolSteps
  <2> QED BY <1>9, <2>1
<1>12. ASSUME PReadLost(t) PROVE Goal
  <2>1. UNCHANGED cand /\ cand[t] # <<>>
    BY <1>0, <1>12 DEF PReadLost, PoolSteps
  <2> QED BY <1>4, <2>1
<1>13. ASSUME PStamp(t) \/ PStampLost(t) PROVE Goal
  <2>1. ppc[t] \in PoolSteps \ {"idle", "cooldown"} /\ cand' = [cand EXCEPT ![t] = <<Row(t)>>]
    BY <1>13 DEF PStamp, PStampLost, PoolSteps
  <2>2. Row(t) \in Credentials
    BY <1>0, <2>1 DEF Row
  <2>3. <<Row(t)>> \in Seq(Credentials) /\ <<Row(t)>> # <<>>
    BY <2>2
  <2> QED BY <1>3, <2>1, <2>3
<1>14. ASSUME Finish(t) PROVE Goal
  <2>1. cand' = [cand EXCEPT ![t] = <<>>] /\ ppc'[t] = "idle"
    BY <1>0, <1>14 DEF Finish
  <2>2. <<>> \in Seq(Credentials) /\ ppc'[t] \in {"idle", "cooldown"}
    BY <2>1
  <2> QED BY <1>3, <2>1, <2>2
<1>15. Goal
  BY <1>5, <1>6, <1>8, <1>10, <1>11, <1>12, <1>13, <1>14
     DEF TakerStep, PAcquire, PReport, PFaulty, PRelease, PRecord, PLost
<1> QED BY <1>0, <1>1, <1>15 DEF Goal

\* What a job does to the rows and to what it knows of them.
LEMMA RowsStep ==
  ASSUME PoolTypeInv, NEW t \in Takers, TakerStep(t)
  PROVE  /\ active' \subseteq Credentials /\ cooling' \subseteq Credentials
         /\ older' \subseteq Credentials \X Credentials
         /\ errors' \in [Credentials -> Nat] /\ expires' \in [Periods -> SUBSET Credentials]
         /\ tally' \in [Takers -> Nat] /\ burnt' \in [Takers -> SUBSET Credentials]
         /\ admin' \in Nat /\ poolFaults' \in 0 .. MaxPoolFaults
<1>0. PoolTypeOK /\ MaxPoolFaults \in Nat
  BY PoolAssumption DEF PoolTypeInv
<1>1. ppc[t] \in PoolSteps \ {"idle", "cooldown"} => Row(t) \in Credentials
  <2>1. cand[t] \in Seq(Credentials)
    BY <1>0 DEF PoolTypeOK
  <2> QED BY <2>1 DEF Row, PoolTypeInv
<1>2. UNCHANGED <<active, admin>>
  BY DEF TakerStep, PAcquire, PReport, PFaulty, PList, PNone, PCooldown, PQuota, PReadLost, PCount, PExpire,
     PCountLost, PStamp, PStampLost, PRelease, PError, PErrorUnread, PCool, PCoolLost, PRecord, PLost
<1>3. cooling' \subseteq Credentials /\ burnt' \in [Takers -> SUBSET Credentials]
  <2>1. PCool(t) \/ UNCHANGED <<cooling, burnt>>
    BY DEF TakerStep, PAcquire, PReport, PFaulty, PList, PNone, PCooldown, PQuota, PReadLost, PCount, PExpire,
       PCountLost, PStamp, PStampLost, PRelease, PError, PErrorUnread, PCoolLost, PRecord, PLost
  <2>2. ASSUME PCool(t) PROVE cooling' \subseteq Credentials /\ burnt' \in [Takers -> SUBSET Credentials]
    <3>1. Row(t) \in Credentials
      BY <1>1, <2>2 DEF PCool, PoolSteps
    <3> QED BY <1>0, <2>2, <3>1 DEF PCool, PoolTypeOK
  <2> QED BY <1>0, <2>1, <2>2 DEF PoolTypeOK
<1>4. older' \subseteq Credentials \X Credentials
  <2>1. PStamp(t) \/ UNCHANGED older
    BY DEF TakerStep, PAcquire, PReport, PFaulty, PList, PNone, PCooldown, PQuota, PReadLost, PCount, PExpire,
       PCountLost, PStampLost, PRelease, PError, PErrorUnread, PCool, PCoolLost, PRecord, PLost
  <2>2. ASSUME PStamp(t) PROVE older' \subseteq Credentials \X Credentials
    <3>1. Row(t) \in Credentials
      BY <1>1, <2>2 DEF PStamp, PoolSteps
    <3> QED BY <1>0, <2>2, <3>1 DEF PStamp, PoolTypeOK
  <2> QED BY <1>0, <2>1, <2>2 DEF PoolTypeOK
<1>5. expires' \in [Periods -> SUBSET Credentials]
  <2>1. PExpire(t) \/ UNCHANGED expires
    BY DEF quotaVars, TakerStep, PAcquire, PReport, PFaulty, PList, PNone, PCooldown, PQuota, PReadLost, PCount,
       PCountLost, PStamp, PStampLost, PRelease, PError, PErrorUnread, PCool, PCoolLost, PRecord, PLost
  <2>2. ASSUME PExpire(t) PROVE expires' \in [Periods -> SUBSET Credentials]
    <3>1. Row(t) \in Credentials
      BY <1>1, <2>2 DEF PExpire, PoolSteps
    <3> QED BY <1>0, <2>2, <3>1 DEF PExpire, PoolTypeOK
  <2> QED BY <1>0, <2>1, <2>2 DEF PoolTypeOK
<1>6. errors' \in [Credentials -> Nat]
  <2>1. PRecord(t) \/ UNCHANGED errors
    BY DEF TakerStep, PAcquire, PReport, PFaulty, PList, PNone, PCooldown, PQuota, PReadLost, PCount, PExpire,
       PCountLost, PStamp, PStampLost, PRelease, PError, PErrorUnread, PCool, PCoolLost, PLost
  <2>2. ASSUME PRecord(t) PROVE errors' \in [Credentials -> Nat]
    <3>1. tally[t] + 1 \in Nat
      BY <1>0 DEF PoolTypeOK
    <3> QED BY <1>0, <2>2, <3>1 DEF PRecord, PoolTypeOK
  <2> QED BY <1>0, <2>1, <2>2 DEF PoolTypeOK
<1>7. tally' \in [Takers -> Nat]
  <2>1. ASSUME PError(t) PROVE tally' \in [Takers -> Nat]
    <3>1. Row(t) \in Credentials
      BY <1>1, <2>1 DEF PError, PoolSteps
    <3>2. errors[Row(t)] \in Nat
      BY <1>0, <3>1 DEF PoolTypeOK
    <3> QED BY <1>0, <2>1, <3>2 DEF PError, PoolTypeOK
  <2>2. ASSUME tally' = [tally EXCEPT ![t] = 0] PROVE tally' \in [Takers -> Nat]
    BY <1>0, <2>2 DEF PoolTypeOK
  <2>3. PError(t) \/ tally' = [tally EXCEPT ![t] = 0] \/ UNCHANGED tally
    BY DEF Finish, TakerStep, PAcquire, PReport, PFaulty, PList, PNone, PCooldown, PQuota, PReadLost, PCount, PExpire,
       PCountLost, PStamp, PStampLost, PRelease, PErrorUnread, PCool, PCoolLost, PRecord, PLost
  <2> QED BY <1>0, <2>1, <2>2, <2>3 DEF PoolTypeOK
<1>8. poolFaults' \in 0 .. MaxPoolFaults
  <2>1. PFaulty(t) => PoolFault
    BY DEF PFaulty, PReadLost, PCountLost, PStampLost, PErrorUnread, PCoolLost, PLost
  <2>2. PFaulty(t) \/ poolFaults' = poolFaults
    BY DEF TakerStep, PAcquire, PReport, PList, PNone, PCooldown, PQuota, PCount, PExpire, PStamp, PRelease,
       PError, PCool, PRecord
  <2> QED BY <1>0, <2>1, <2>2 DEF PoolFault, PoolTypeOK
<1> QED BY <1>0, <1>2, <1>3, <1>4, <1>5, <1>6, <1>7, <1>8 DEF PoolTypeOK

LEMMA PoolTypeStep ==
  ASSUME PoolTypeInv, PoolShape, PoolShape', [PoolNext]_poolVars
  PROVE  PoolTypeInv'
<1>0. /\ PoolTypeOK /\ \A t \in Takers : ppc[t] \in PoolSteps \ {"idle", "cooldown"} => cand[t] # <<>>
      /\ MaxPoolFaults \in Nat
  BY PoolAssumption DEF PoolTypeInv
<1>1. /\ used' \in [Periods -> [Credentials -> Nat]] /\ counted' \in [Periods -> [Credentials -> Nat]]
      /\ period' \in [Takers -> Periods] /\ ppc' \in [Takers -> PoolSteps]
  BY DEF PoolShape
<1>2. ASSUME NEW t \in Takers, TakerStep(t) PROVE PoolTypeInv'
  <2>1. /\ cand' \in [Takers -> Seq(Credentials)]
        /\ \A u \in Takers : ppc'[u] \in PoolSteps \ {"idle", "cooldown"} => cand'[u] # <<>>
    BY <1>2, CandidatesStep
  <2>2. /\ active' \subseteq Credentials /\ cooling' \subseteq Credentials
        /\ older' \subseteq Credentials \X Credentials
        /\ errors' \in [Credentials -> Nat] /\ expires' \in [Periods -> SUBSET Credentials]
        /\ tally' \in [Takers -> Nat] /\ burnt' \in [Takers -> SUBSET Credentials]
        /\ admin' \in Nat /\ poolFaults' \in 0 .. MaxPoolFaults
    BY <1>2, RowsStep
  <2> QED BY <1>1, <2>1, <2>2 DEF PoolTypeInv, PoolTypeOK, PoolSteps
<1>3. ASSUME NEW last \in Periods, PPeriodEnds(last) PROVE PoolTypeInv'
  <2>1. expires' = [p \in Periods |-> IF p \in 1 .. last THEN {} ELSE expires[p]]
    BY <1>3 DEF PPeriodEnds
  <2>2. expires' \in [Periods -> SUBSET Credentials]
    BY <1>0, <2>1 DEF PoolTypeOK
  <2>3. UNCHANGED <<active, older, errors, cooling, ppc, cand, tally, burnt, admin, poolFaults>>
    BY <1>3 DEF PPeriodEnds, jobVars
  <2> QED BY <1>0, <1>1, <2>2, <2>3 DEF PoolTypeInv, PoolTypeOK, PoolSteps
<1>4. ASSUME NEW c \in Credentials, PCoolsDown(c) PROVE PoolTypeInv'
  <2>1. burnt' \in [Takers -> SUBSET Credentials] /\ cooling' \subseteq Credentials
    BY <1>0, <1>4 DEF PCoolsDown, PoolTypeOK
  <2>2. UNCHANGED <<active, older, errors, expires, ppc, cand, tally, admin, poolFaults>>
    BY <1>4 DEF PCoolsDown, jobVars, quotaVars
  <2> QED BY <1>0, <1>1, <2>1, <2>2 DEF PoolTypeInv, PoolTypeOK, PoolSteps
<1>5. ASSUME NEW c \in Credentials, PAdmin(c) PROVE PoolTypeInv'
  <2>1. active' \subseteq Credentials /\ errors' \in [Credentials -> Nat] /\ admin' \in Nat
    <3>1. errors' = [errors EXCEPT ![c] = 0] \/ errors' = errors
      BY <1>5 DEF PAdmin
    <3>2. errors \in [Credentials -> Nat] /\ active \subseteq Credentials /\ admin \in Nat
      BY <1>0 DEF PoolTypeOK
    <3>3. active' \subseteq Credentials /\ admin' = admin + 1
      BY <1>5, <3>2 DEF PAdmin
    <3> QED BY <3>1, <3>2, <3>3
  <2>2. UNCHANGED <<older, cooling, expires, ppc, cand, tally, burnt, poolFaults>>
    BY <1>5 DEF PAdmin, jobVars, quotaVars
  <2> QED BY <1>0, <1>1, <2>1, <2>2 DEF PoolTypeInv, PoolTypeOK, PoolSteps
<1>6. CASE UNCHANGED poolVars
  BY <1>0, <1>6 DEF poolVars, jobVars, quotaVars, PoolTypeInv, PoolTypeOK
<1> QED BY <1>2, <1>3, <1>4, <1>5, <1>6 DEF PoolNext, TakerStep

\* Counters, rows and the jobs' notes of them keep their types; who counts,
\* stamps or reports a row has one.
THEOREM PoolTyped == PoolSpec => []PoolTypeOK
<1>1. PoolInit => PoolTypeInv
  BY PoolAssumption DEF PoolInit, PoolTypeInv, PoolTypeOK, PoolSteps, Periods
<1>2. PoolTypeInv => PoolTypeOK
  BY DEF PoolTypeInv
<1> QED BY <1>1, <1>2, PoolTypeStep, PoolShaped, PTL DEF PoolSpec

\* A step of a job that is not faulty leaves poolFaults alone.
LEMMA FaultsAreCounted ==
  ASSUME PoolShape, [PoolNext]_poolVars
  PROVE  /\ poolFaults \in Nat /\ poolFaults' >= poolFaults
         /\ \A t \in Takers : PFaulty(t) => poolFaults' = poolFaults + 1
<1>1. poolFaults \in Nat
  BY DEF PoolShape
<1>2. ASSUME NEW t \in Takers, PFaulty(t) PROVE poolFaults' = poolFaults + 1
  BY <1>2 DEF PFaulty, PReadLost, PCountLost, PStampLost, PErrorUnread, PCoolLost, PLost, PoolFault
<1>3. (\E t \in Takers : PFaulty(t)) \/ poolFaults' = poolFaults
  BY DEF PoolNext, poolVars, PAcquire, PReport, PList, PNone, PCooldown, PQuota, PCount, PExpire, PStamp,
     PRelease, PError, PCool, PRecord, PPeriodEnds, PCoolsDown, PAdmin
<1> QED BY <1>1, <1>2, <1>3

-----------------------------------------------------------------------------
(* The credential pool: counters expire, reported credentials stay away *)

LEMMA ExpiryStep ==
  ASSUME PoolShape, CountersExpire, [PoolNext]_poolVars
  PROVE  CountersExpire'
<1> DEFINE WillExpire(p, c) == \/ c \in expires[p]
                              \/ \E t \in Takers : ppc[t] = "expire" /\ period[t] = p /\ Row(t) = c
<1> SUFFICES ASSUME poolFaults' = 0, NEW p \in Periods, NEW c \in Credentials, used'[p][c] > 0
             PROVE  WillExpire(p, c)'
  BY DEF CountersExpire
<1>0. /\ used \in [Periods -> [Credentials -> Nat]] /\ period \in [Takers -> Periods]
      /\ ppc \in [Takers -> PoolSteps] /\ DOMAIN cand = Takers /\ DOMAIN expires = Periods
  BY DEF PoolShape
<1>1. poolFaults = 0 /\ \A t \in Takers : ~PFaulty(t)
  BY FaultsAreCounted
<1>2. used[p][c] > 0 => WillExpire(p, c)
  BY <1>1 DEF CountersExpire
<1>3. ASSUME NEW t \in Takers, PCount(t) PROVE WillExpire(p, c)'
  <2>1. /\ expires' = expires /\ cand' = cand /\ ppc[t] = "count"
        /\ \A u \in Takers \ {t} : ppc'[u] = ppc[u] /\ period'[u] = period[u]
    BY <1>0, <1>3 DEF PCount, NextPeriod
  <2>2. CASE used[p][c] > 0
    <3>1. CASE c \in expires[p] BY <2>1, <3>1
    <3>2. CASE \E u \in Takers : ppc[u] = "expire" /\ period[u] = p /\ Row(u) = c
      <4>1. PICK u \in Takers : ppc[u] = "expire" /\ period[u] = p /\ Row(u) = c
        BY <3>2
      <4>2. ppc'[u] = "expire" /\ period'[u] = p /\ Row(u)' = c
        BY <2>1, <4>1 DEF Row
      <4> QED BY <4>2
    <3> QED BY <1>2, <2>2, <3>1, <3>2
  <2>3. CASE ~(used[p][c] > 0)
    <3>1. used[p][c] = 0 /\ used[p][c] # used'[p][c] BY <1>0, <2>3
    <3>2. used' = [used EXCEPT ![period[t]] = [used[period[t]] EXCEPT ![Row(t)] = @ + 1]]
      BY <1>3 DEF PCount
    <3>3. period[t] = p BY <1>0, <3>1, <3>2
    <3>4. Row(t) = c BY <1>0, <3>1, <3>2, <3>3
    <3>5. ppc'[t] = "expire" /\ period'[t] = p BY <1>0, <1>3, <3>1, <3>3, <3>4 DEF PCount
    <3>6. Row(t)' = c BY <2>1, <3>4 DEF Row
    <3> QED BY <3>5, <3>6
  <2> QED BY <2>2, <2>3
<1>4. ASSUME NEW t \in Takers, PExpire(t) PROVE WillExpire(p, c)'
  <2>1. /\ used' = used /\ cand' = cand
        /\ expires' = [expires EXCEPT ![period[t]] = @ \cup {Row(t)}]
        /\ \A u \in Takers \ {t} : ppc'[u] = ppc[u] /\ period'[u] = period[u]
    BY <1>0, <1>4 DEF PExpire, NextPeriod
  <2>2. CASE c \in expires[p] BY <1>0, <2>1, <2>2
  <2>3. CASE period[t] = p /\ Row(t) = c BY <1>0, <2>1, <2>3
  <2>4. ASSUME NEW u \in Takers, u # t, ppc[u] = "expire" /\ period[u] = p /\ Row(u) = c
        PROVE  WillExpire(p, c)'
    <3>1. ppc'[u] = "expire" /\ period'[u] = p /\ Row(u)' = c BY <2>1, <2>4 DEF Row
    <3> QED BY <3>1
  <2> QED BY <1>2, <2>1, <2>2, <2>3, <2>4
<1>5. ASSUME NEW t \in Takers, TakerStep(t), ~PCount(t), ~PExpire(t) PROVE WillExpire(p, c)'
  <2>1. used' = used /\ expires' = expires /\ ppc[t] # "expire"
    BY <1>1, <1>5 DEF TakerStep, PAcquire, PReport, quotaVars, PList, PNone, PCooldown, PQuota, PStamp,
       PRelease, PError, PCool, PRecord
  <2>2. \A u \in Takers \ {t} : ppc'[u] = ppc[u] /\ period'[u] = period[u] /\ cand'[u] = cand[u]
    BY <1>5, TakerMoves
  <2>3. ASSUME NEW u \in Takers, ppc[u] = "expire" /\ period[u] = p /\ Row(u) = c
        PROVE  WillExpire(p, c)'
    <3>1. ppc'[u] = "expire" /\ period'[u] = p /\ Row(u)' = c BY <2>1, <2>2, <2>3 DEF Row
    <3> QED BY <3>1
  <2> QED BY <1>2, <2>1, <2>3
<1>6. ASSUME NEW last \in Periods, PPeriodEnds(last) PROVE WillExpire(p, c)'
  <2>1. used'[p][c] = (IF p \in 1 .. last /\ c \in expires[p] THEN 0 ELSE used[p][c])
    BY <1>6 DEF PPeriodEnds
  <2>2. used[p][c] > 0 /\ (p \notin 1 .. last \/ c \notin expires[p])
    BY <2>1
  <2>3. expires'[p] = (IF p \in 1 .. last THEN {} ELSE expires[p]) /\ UNCHANGED jobVars
    BY <1>6 DEF PPeriodEnds
  <2> QED BY <1>2, <2>2, <2>3 DEF jobVars, Row
<1>7. ASSUME UNCHANGED <<quotaVars, jobVars>> PROVE WillExpire(p, c)'
  BY <1>2, <1>7 DEF quotaVars, jobVars, Row
<1> HIDE DEF WillExpire
<1> QED BY <1>3, <1>4, <1>5, <1>6, <1>7 DEF PoolNext, TakerStep, poolVars, PCoolsDown, PAdmin

\* As long as nothing fails, every counter that is not zero expires or is about
\* to be given its time to live, for any jobs, credentials and quotas.
THEOREM CountersDoExpire == PoolSpec => []CountersExpire
<1>1. PoolInit => CountersExpire
  BY DEF PoolInit, CountersExpire
<1> QED BY <1>1, ExpiryStep, PoolShaped, PTL DEF PoolSpec

\* What a job reported is cooling, and the row it goes for is not among it.
ReportInv ==
  poolFaults = 0 =>
    \A t \in Takers :
      /\ burnt[t] \subseteq cooling
      /\ ppc[t] \in {"quota", "count", "expire", "stamp", "using", "cool"} => Row(t) \notin burnt[t]

LEMMA ReportStep ==
  ASSUME PoolShape, ReportInv, [PoolNext]_poolVars
  PROVE  ReportInv'
<1> DEFINE Away(t) == /\ burnt[t] \subseteq cooling
                      /\ ppc[t] \in {"quota", "count", "expire", "stamp", "using", "cool"} =>
                           Row(t) \notin burnt[t]
<1> SUFFICES ASSUME poolFaults' = 0, NEW t \in Takers PROVE Away(t)'
  BY DEF ReportInv
<1>0. /\ period \in [Takers -> Periods] /\ ppc \in [Takers -> PoolSteps]
      /\ DOMAIN cand = Takers /\ DOMAIN burnt = Takers
  BY DEF PoolShape
<1>1. poolFaults = 0 /\ \A u \in Takers : ~PFaulty(u)
  BY FaultsAreCounted
<1>2. Away(t)
  BY <1>1 DEF ReportInv
<1>3. ASSUME NEW u \in Takers, u # t, TakerStep(u) PROVE Away(t)'
  <2>1. ppc'[t] = ppc[t] /\ cand'[t] = cand[t]
    BY <1>3, TakerMoves
  <2>2. burnt'[t] = burnt[t] /\ cooling \subseteq cooling'
    BY <1>0, <1>1, <1>3 DEF TakerStep, PAcquire, PReport, PList, PNone, PCooldown, PQuota, PCount, PExpire, PStamp,
       PRelease, PError, PCool, PRecord
  <2> QED BY <1>2, <2>1, <2>2 DEF Row
<1>4. ASSUME TakerStep(t), ~PCool(t) PROVE Away(t)'
  <2>1. burnt' = burnt /\ cooling' = cooling
    BY <1>1, <1>4 DEF TakerStep, PAcquire, PReport, PList, PNone, PCooldown, PQuota, PCount, PExpire, PStamp,
       PRelease, PError, PRecord
  <2>2. ASSUME PCooldown(t), Row(t) \notin cooling PROVE Away(t)'
    <3>1. cand' = cand BY <2>2 DEF PCooldown
    <3> QED BY <1>2, <2>1, <2>2, <3>1 DEF Row
  <2>3. ASSUME PStamp(t) PROVE Away(t)'
    <3>1. Row(t)' = Row(t) /\ ppc[t] = "stamp" BY <1>0, <2>3 DEF PStamp, Row
    <3> QED BY <1>2, <2>1, <3>1
  <2>4. ASSUME ppc'[t] \in {"idle", "cooldown", "record"} PROVE Away(t)'
    BY <1>2, <2>1, <2>4
  <2>5. ASSUME ppc[t] \in {"quota", "count", "expire", "using"}, cand' = cand PROVE Away(t)'
    BY <1>2, <2>1, <2>5 DEF Row
  <2>6. ASSUME PQuota(t) PROVE Away(t)'
    BY <1>0, <2>4, <2>5, <2>6 DEF PQuota, Skip
  <2>7. ASSUME PList(t) \/ PNone(t) \/ PRelease(t) \/ PRecord(t) PROVE Away(t)'
    BY <1>0, <2>4, <2>7 DEF PList, PNone, PRelease, PRecord, Finish
  <2>8. ASSUME PCount(t) \/ PExpire(t) \/ PError(t) PROVE Away(t)'
    BY <2>5, <2>8 DEF PCount, PExpire, PError
  <2>9. ASSUME PCooldown(t), Row(t) \in cooling PROVE Away(t)'
    BY <1>0, <2>4, <2>9 DEF PCooldown, Skip
  <2> HIDE DEF Away
  <2> QED BY <1>1, <1>4, <2>2, <2>3, <2>6, <2>7, <2>8, <2>9 DEF TakerStep, PAcquire, PReport
<1>5. ASSUME PCool(t) PROVE Away(t)'
  BY <1>0, <1>2, <1>5 DEF PCool
<1>6. ASSUME NEW c \in Credentials, PCoolsDown(c) PROVE Away(t)'
  <2>1. burnt'[t] = burnt[t] \ {c} /\ cooling' = cooling \ {c} /\ UNCHANGED jobVars
    BY <1>6 DEF PCoolsDown
  <2> QED BY <1>2, <2>1 DEF jobVars, Row
<1>7. ASSUME UNCHANGED <<cooling, burnt, jobVars>> PROVE Away(t)'
  BY <1>2, <1>7 DEF jobVars, Row
<1> HIDE DEF Away
<1> QED BY <1>3, <1>4, <1>5, <1>6, <1>7 DEF PoolNext, TakerStep, poolVars, PPeriodEnds, PAdmin

\* No job is given back a credential while the cooldown it asked for lasts.
THEOREM ReportedStayAway == PoolSpec => []ReportedNotHandedBack
<1>1. PoolInit => ReportInv
  BY DEF PoolInit, ReportInv
<1>2. ReportInv => ReportedNotHandedBack
  BY DEF ReportInv, ReportedNotHandedBack
<1> QED BY <1>1, <1>2, ReportStep, PoolShaped, PTL DEF PoolSpec

-----------------------------------------------------------------------------
(* The credential pool: how far a quota is exceeded *)

\* The jobs that have found room in c's counter p and have still to count.
Committed(p, c) ==
  {t \in Takers :
     /\ Row(t) = c
     /\ \/ ppc[t] = "quota" /\ period[t] > p
        \/ ppc[t] = "count" /\ period[t] <= p
        \/ ppc[t] = "expire" /\ period[t] < p}

\* A counter misses no more acquisitions than calls failed; with those that are
\* committed, a period has fewer than the quota, the jobs and the failures.
QuotaInv ==
  \A p \in Periods, c \in Credentials :
    /\ counted[p][c] <= used[p][c] + poolFaults
    /\ counted[p][c] + Cardinality(Committed(p, c)) < Quota[p][c] + Cardinality(Takers) + poolFaults

LEMMA CommittedFew ==
  ASSUME NEW p \in Periods, NEW c \in Credentials
  PROVE  /\ IsFiniteSet(Committed(p, c)) /\ Cardinality(Committed(p, c)) \in Nat
         /\ Cardinality(Takers) \in Nat
         /\ Cardinality(Committed(p, c)) <= Cardinality(Takers)
         /\ Cardinality(Committed(p, c)') \in Nat
         /\ Cardinality(Committed(p, c)') <= Cardinality(Takers)
<1>1. IsFiniteSet(Takers)
  BY PoolAssumption
<1>2. Committed(p, c) \subseteq Takers /\ Committed(p, c)' \subseteq Takers
  BY DEF Committed
<1> QED BY <1>1, <1>2, FS_Subset, FS_CardinalityType

\* Whether a job is committed is decided by its own steps.
LEMMA CommittedStep ==
  ASSUME PoolShape, NEW t \in Takers, TakerStep(t), NEW p \in Periods, NEW c \in Credentials
  PROVE  Committed(p, c)' \ {t} = Committed(p, c) \ {t}
<1>1. \A u \in Takers \ {t} : ppc'[u] = ppc[u] /\ period'[u] = period[u] /\ cand'[u] = cand[u]
  BY TakerMoves
<1> QED BY <1>1 DEF Committed, Row

\* No job becomes committed, or one that was is so no longer.
LEMMA CommittedCount ==
  ASSUME PoolShape, NEW t \in Takers, TakerStep(t), NEW p \in Periods, NEW c \in Credentials,
         t \in Committed(p, c)' => t \in Committed(p, c)
  PROVE  /\ Cardinality(Committed(p, c)') <= Cardinality(Committed(p, c))
         /\ t \in Committed(p, c) /\ t \notin Committed(p, c)' =>
              Cardinality(Committed(p, c)') = Cardinality(Committed(p, c)) - 1
<1>1. Committed(p, c)' \ {t} = Committed(p, c) \ {t}
  BY CommittedStep
<1>2. Committed(p, c)' \subseteq Committed(p, c)
  BY <1>1
<1>3. IsFiniteSet(Committed(p, c))
  BY CommittedFew
<1>4. Cardinality(Committed(p, c)') <= Cardinality(Committed(p, c))
  BY <1>2, <1>3, FS_Subset
<1>5. ASSUME t \in Committed(p, c), t \notin Committed(p, c)'
      PROVE  Cardinality(Committed(p, c)') = Cardinality(Committed(p, c)) - 1
  <2>1. Committed(p, c)' = Committed(p, c) \ {t}
    BY <1>1, <1>5
  <2>2. Cardinality(Committed(p, c) \ {t}) = Cardinality(Committed(p, c)) - 1
    BY <1>3, <1>5, FS_RemoveElement
  <2> QED BY <2>1, <2>2
<1> QED BY <1>4, <1>5

\* A job becomes committed by reading a counter that has room, or none.
LEMMA BecomesCommitted ==
  ASSUME PoolShape, NEW t \in Takers, TakerStep(t), NEW p \in Periods, NEW c \in Credentials,
         t \in Committed(p, c)', t \notin Committed(p, c)
  PROVE  \/ PQuota(t) /\ period[t] = p /\ Row(t) = c /\ used[p][c] < Quota[p][c]
         \/ PReadLost(t)
<1>0. /\ period \in [Takers -> Periods] /\ ppc \in [Takers -> PoolSteps] /\ DOMAIN cand = Takers
      /\ ppc[t] = "cooldown" => period[t] = 1
      /\ p \in {1, 2} /\ period[t] \in {1, 2}
      /\ used[p][c] \in Nat /\ Quota[p][c] \in Nat
  BY PoolAssumption DEF PoolShape, Periods
<1>1. ppc'[t] \in {"quota", "count", "expire"} /\ Row(t)' = c
  BY DEF Committed
<1>2. ~PList(t) /\ ~PNone(t) /\ ~PStamp(t) /\ ~PStampLost(t) /\ ~Finish(t) /\ ~Skip(t) /\ ~PCountLost(t)
  BY <1>0, <1>1 DEF PList, PNone, PStamp, PStampLost, Finish, Skip, PCountLost
<1>3. ~PError(t) /\ ~PErrorUnread(t) /\ ~PCool(t) /\ ~PCoolLost(t)
  BY <1>0, <1>1 DEF PError, PErrorUnread, PCool, PCoolLost
<1>4. ~PRelease(t) /\ ~PRecord(t) /\ ~PLost(t)
  BY <1>2 DEF PRelease, PRecord, PLost
<1>5. ~PCooldown(t)
  <2> SUFFICES ASSUME PCooldown(t) PROVE FALSE
    OBVIOUS
  <2>1. ppc'[t] = "quota" /\ period'[t] = 1
    BY <1>0, <1>2 DEF PCooldown
  <2> QED BY <1>0, <2>1 DEF Committed
<1>6. ~PCount(t)
  <2> SUFFICES ASSUME PCount(t) PROVE FALSE
    OBVIOUS
  <2>1. ppc[t] = "count" /\ cand' = cand
    BY DEF PCount
  <2>2. CASE ppc' = [ppc EXCEPT ![t] = "expire"] /\ UNCHANGED period
    BY <1>0, <2>1, <2>2 DEF Committed, Row
  <2>3. CASE NextPeriod(t, "count", "stamp")
    BY <1>0, <2>1, <2>3 DEF Committed, Row, NextPeriod
  <2> QED BY <2>2, <2>3 DEF PCount
<1>7. ~PExpire(t)
  BY <1>0 DEF PExpire, NextPeriod, Committed, Row
<1>8. ASSUME PQuota(t) PROVE period[t] = p /\ Row(t) = c /\ used[p][c] < Quota[p][c]
  <2>1. /\ ~(used[period[t]][Row(t)] >= Quota[period[t]][Row(t)]) /\ ppc[t] = "quota"
        /\ NextPeriod(t, "quota", "count") /\ UNCHANGED cand
    BY <1>2, <1>8 DEF PQuota
  <2>2. Row(t) = c
    BY <1>1, <2>1 DEF Row
  <2>3. period[t] = p
    BY <1>0, <2>1, <2>2 DEF NextPeriod, Committed
  <2> QED BY <1>0, <2>1, <2>2, <2>3
<1> QED BY <1>2, <1>3, <1>4, <1>5, <1>6, <1>7, <1>8 DEF TakerStep, PAcquire, PReport, PFaulty

\* What a step of a job adds to a counter and to what it should be.
LEMMA CountedStep ==
  ASSUME PoolShape, NEW t \in Takers, TakerStep(t), NEW p \in Periods, NEW c \in Credentials
  PROVE  /\ used'[p][c] >= used[p][c]
         /\ \/ counted'[p][c] = counted[p][c]
            \/ counted'[p][c] = counted[p][c] + 1 /\ PCountLost(t)
            \/ /\ counted'[p][c] = counted[p][c] + 1 /\ used'[p][c] = used[p][c] + 1
               /\ PCount(t) /\ period[t] = p /\ Row(t) = c
<1>0. /\ used \in [Periods -> [Credentials -> Nat]] /\ counted \in [Periods -> [Credentials -> Nat]]
  BY DEF PoolShape
<1>1. CASE PCount(t)
  <2>1. /\ used' = [used EXCEPT ![period[t]] = [used[period[t]] EXCEPT ![Row(t)] = @ + 1]]
        /\ counted' = [counted EXCEPT ![period[t]] = [counted[period[t]] EXCEPT ![Row(t)] = @ + 1]]
    BY <1>1 DEF PCount
  <2>2. CASE period[t] = p /\ Row(t) = c
    BY <1>0, <1>1, <2>1, <2>2
  <2>3. CASE ~(period[t] = p /\ Row(t) = c)
    <3>1. used'[p][c] = used[p][c] BY <1>0, <2>1, <2>3
    <3>2. counted'[p][c] = counted[p][c] BY <1>0, <2>1, <2>3
    <3> QED BY <1>0, <3>1, <3>2
  <2> QED BY <2>2, <2>3
<1>2. CASE PCountLost(t)
  <2>1. used' = used BY <1>2 DEF PCountLost
  <2>2. counted'[p] = counted[p] \/ counted'[p] = [counted[p] EXCEPT ![Row(t)] = @ + 1]
    BY <1>2 DEF PCountLost
  <2>3. counted'[p][c] = counted[p][c] \/ counted'[p][c] = counted[p][c] + 1
    BY <1>0, <2>2
  <2> QED BY <1>0, <1>2, <2>1, <2>3
<1>3. CASE ~PCount(t) /\ ~PCountLost(t)
  <2>1. used' = used /\ counted' = counted
    BY <1>3 DEF TakerStep, PAcquire, PReport, PFaulty, quotaVars, PList, PNone, PCooldown, PQuota,
       PReadLost, PExpire, PStamp, PStampLost, PRelease, PError, PErrorUnread, PCool, PCoolLost, PRecord, PLost
  <2> QED BY <1>0, <2>1
<1> QED BY <1>1, <1>2, <1>3

LEMMA QuotaStep ==
  ASSUME PoolShape, QuotaInv, [PoolNext]_poolVars
  PROVE  QuotaInv'
<1> SUFFICES ASSUME NEW p \in Periods, NEW c \in Credentials
             PROVE  /\ counted'[p][c] <= used'[p][c] + poolFaults'
                    /\ counted'[p][c] + Cardinality(Committed(p, c)')
                          < Quota[p][c] + Cardinality(Takers) + poolFaults'
  BY DEF QuotaInv
<1> DEFINE now == Cardinality(Committed(p, c))
           later == Cardinality(Committed(p, c)')
           most == Cardinality(Takers)
<1>0. /\ used[p][c] \in Nat /\ counted[p][c] \in Nat /\ used'[p][c] \in Nat /\ counted'[p][c] \in Nat
      /\ Quota[p][c] \in Nat \ {0}
      /\ poolFaults \in Nat /\ poolFaults' \in Nat
      /\ counted[p][c] <= used[p][c] + poolFaults
      /\ counted[p][c] + now < Quota[p][c] + most + poolFaults
  BY ShapeStep, PoolAssumption DEF PoolShape, QuotaInv
<1>1. now \in Nat /\ later \in Nat /\ most \in Nat /\ later <= most
  BY CommittedFew
<1>2. poolFaults' >= poolFaults
  BY FaultsAreCounted
<1>3. ASSUME NEW t \in Takers, TakerStep(t)
      PROVE  /\ counted'[p][c] <= used'[p][c] + poolFaults'
             /\ counted'[p][c] + later < Quota[p][c] + most + poolFaults'
  <2>1. /\ used'[p][c] >= used[p][c]
        /\ \/ counted'[p][c] = counted[p][c]
           \/ counted'[p][c] = counted[p][c] + 1 /\ PCountLost(t)
           \/ /\ counted'[p][c] = counted[p][c] + 1 /\ used'[p][c] = used[p][c] + 1
              /\ PCount(t) /\ period[t] = p /\ Row(t) = c
    BY <1>3, CountedStep
  <2>2. PCountLost(t) \/ PReadLost(t) => poolFaults' = poolFaults + 1
    BY FaultsAreCounted DEF PFaulty
  <2> HIDE DEF now, later, most
  <2>3. counted'[p][c] <= used'[p][c] + poolFaults'
    BY <1>0, <1>2, <2>1, <2>2
  <2>4. CASE t \in Committed(p, c)' /\ t \notin Committed(p, c)
    <3>1. \/ PQuota(t) /\ used[p][c] < Quota[p][c]
          \/ PReadLost(t)
      BY <1>3, <2>4, BecomesCommitted
    <3>2. ~PCount(t) /\ ~PCountLost(t)
      BY <3>1 DEF PQuota, PReadLost, PCount, PCountLost
    <3>3. counted'[p][c] = counted[p][c]
      BY <2>1, <3>2
    <3>4. CASE PQuota(t) /\ used[p][c] < Quota[p][c]
      BY <1>0, <1>1, <1>2, <2>3, <3>3, <3>4
    <3>5. CASE PReadLost(t)
      <4>1. later <= now + 1
        <5>1. Committed(p, c)' \ {t} = Committed(p, c) \ {t}
          BY <1>3, CommittedStep
        <5>2. Committed(p, c)' = Committed(p, c) \cup {t}
          BY <2>4, <5>1
        <5>3. IsFiniteSet(Committed(p, c))
          BY CommittedFew
        <5>4. Cardinality(Committed(p, c) \cup {t}) = now + 1
          BY <2>4, <5>3, FS_AddElement DEF now
        <5>5. later = now + 1
          BY <5>2, <5>4 DEF later
        <5> QED BY <1>1, <5>5
      <4> QED BY <1>0, <1>1, <2>2, <2>3, <3>3, <3>5, <4>1
    <3> QED BY <2>3, <3>1, <3>4, <3>5
  <2>5. CASE t \in Committed(p, c)' => t \in Committed(p, c)
    <3>1. /\ later <= now
          /\ t \in Committed(p, c) /\ t \notin Committed(p, c)' => later = now - 1
      BY <1>3, <2>5, CommittedCount DEF now, later
    <3>2. CASE counted'[p][c] = counted[p][c]
      BY <1>0, <1>1, <1>2, <2>3, <3>1, <3>2
    <3>3. CASE counted'[p][c] = counted[p][c] + 1 /\ PCountLost(t)
      BY <1>0, <1>1, <2>2, <2>3, <3>1, <3>3
    <3>4. CASE counted'[p][c] = counted[p][c] + 1 /\ PCount(t) /\ period[t] = p /\ Row(t) = c
      <4>1. /\ period \in [Takers -> Periods] /\ ppc \in [Takers -> PoolSteps] /\ DOMAIN cand = Takers
            /\ p \in {1, 2}
        BY DEF PoolShape, Periods
      <4>2. ppc[t] = "count" /\ cand' = cand
        BY <3>4 DEF PCount
      <4>3. t \in Committed(p, c)
        BY <3>4, <4>1, <4>2 DEF Committed
      <4>4. t \notin Committed(p, c)'
        <5>1. CASE ppc' = [ppc EXCEPT ![t] = "expire"] /\ UNCHANGED period
          BY <3>4, <4>1, <5>1 DEF Committed
        <5>2. CASE NextPeriod(t, "count", "stamp")
          BY <3>4, <4>1, <5>2 DEF Committed, NextPeriod
        <5> QED BY <3>4, <5>1, <5>2 DEF PCount
      <4>5. later = now - 1
        BY <3>1, <4>3, <4>4
      <4> QED BY <1>0, <1>1, <1>2, <2>3, <3>4, <4>5
    <3> QED BY <2>1, <3>2, <3>3, <3>4
  <2> QED BY <2>4, <2>5
<1>4. ASSUME NEW last \in Periods, PPeriodEnds(last)
      PROVE  /\ counted'[p][c] <= used'[p][c] + poolFaults'
             /\ counted'[p][c] + later < Quota[p][c] + most + poolFaults'
  <2>1. /\ counted'[p][c] = (IF p \in 1 .. last THEN 0 ELSE counted[p][c])
        /\ used'[p][c] = (IF p \in 1 .. last /\ c \in expires[p] THEN 0 ELSE used[p][c])
        /\ UNCHANGED jobVars
    BY <1>4 DEF PPeriodEnds
  <2>2. Committed(p, c)' = Committed(p, c)
    BY <2>1 DEF jobVars, Committed, Row
  <2>3. later = now
    BY <2>2
  <2> HIDE DEF now, later, most
  <2>4. CASE p \in 1 .. last
    <3>1. counted'[p][c] = 0 BY <2>1, <2>4
    <3> QED BY <1>0, <1>1, <3>1
  <2>5. CASE p \notin 1 .. last BY <1>0, <1>1, <1>2, <2>1, <2>3, <2>5
  <2> QED BY <2>4, <2>5
<1>5. ASSUME UNCHANGED <<quotaVars, jobVars>>
      PROVE  /\ counted'[p][c] <= used'[p][c] + poolFaults'
             /\ counted'[p][c] + later < Quota[p][c] + most + poolFaults'
  <2>1. counted' = counted /\ used' = used /\ Committed(p, c)' = Committed(p, c)
    BY <1>5 DEF quotaVars, jobVars, Committed, Row
  <2>2. later = now
    BY <2>1
  <2> HIDE DEF now, later, most
  <2> QED BY <1>0, <1>1, <1>2, <2>1, <2>2
<1> QED BY <1>3, <1>4, <1>5 DEF PoolNext, TakerStep, poolVars, PCoolsDown, PAdmin

\* For any number of jobs, credentials and quotas: a quota is exceeded by fewer
\* requests than there are jobs and failed calls.
THEOREM OvershootIsBounded == PoolSpec => []QuotaOvershootBounded
<1>1. PoolInit => QuotaInv
  <2> SUFFICES ASSUME PoolInit, NEW p \in Periods, NEW c \in Credentials
               PROVE  /\ counted[p][c] <= used[p][c] + poolFaults
                      /\ counted[p][c] + Cardinality(Committed(p, c))
                            < Quota[p][c] + Cardinality(Takers) + poolFaults
    BY DEF QuotaInv
  <2>1. counted[p][c] = 0 /\ used[p][c] = 0 /\ poolFaults = 0
    BY DEF PoolInit
  <2>2. Quota[p][c] \in Nat \ {0}
    BY PoolAssumption
  <2> QED BY <2>1, <2>2, CommittedFew
<1>2. PoolShape /\ QuotaInv => QuotaOvershootBounded
  <2> SUFFICES ASSUME PoolShape, QuotaInv, NEW p \in Periods, NEW c \in Credentials
               PROVE  counted[p][c] < Quota[p][c] + Cardinality(Takers) + poolFaults
    BY DEF QuotaOvershootBounded
  <2>1. counted[p][c] \in Nat /\ Quota[p][c] \in Nat /\ poolFaults \in Nat
    BY PoolAssumption DEF PoolShape
  <2>2. counted[p][c] + Cardinality(Committed(p, c)) < Quota[p][c] + Cardinality(Takers) + poolFaults
    BY DEF QuotaInv
  <2> QED BY <2>1, <2>2, CommittedFew
<1> QED BY <1>1, <1>2, QuotaStep, PoolShaped, PTL DEF PoolSpec

=============================================================================
