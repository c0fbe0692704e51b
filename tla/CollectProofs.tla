----------------------------- MODULE CollectProofs -----------------------------
(***************************************************************************)
(* Proofs about Coverage and Deduplication, and about the composition of what *)
(* the collecting jobs share.                                                *)
(*                                                                         *)
(* A post is settled once its text is stored, its insert has failed or a    *)
(* check has passed over it, and stays so.  All posts of an attempt are      *)
(* settled, and so is what a job has emitted and no longer buffers: what the *)
(* check leaves out is therefore settled, and what a job has searched for is *)
(* before it records its own attempts.                                       *)
(*                                                                         *)
(* Duplicate marks only ever lead to records with a lower identifier, so    *)
(* following them ends at a record that is shown; and what a committed pass *)
(* has hidden is shown again only where a fetched page wrote over the mark.  *)
(***************************************************************************)
EXTENDS MCCollect, LimiterPoolProofs, WellFoundedInduction

-----------------------------------------------------------------------------
(* Ranges *)

LEMMA MinIs ==
  ASSUME NEW S, S \subseteq Nat, S # {}
  PROVE  Min(S) \in S /\ \A x \in S : Min(S) <= x
<1>1. IsWellFoundedOn(OpToRel(<, Nat), Nat)
  BY NatLessThanWellFounded
<1> DEFINE R == OpToRel(<, Nat)
<1>2. \A x, y \in Nat : <<x, y>> \in R <=> x < y
  BY DEF OpToRel
<1>3. PICK x \in S : \A y \in S : ~(<<y, x>> \in R)
  <2> HIDE DEF R
  <2> QED BY <1>1, WFMin DEF R
<1> HIDE DEF R
<1>4. ASSUME NEW y \in S PROVE x <= y
  <2>1. x \in Nat /\ y \in Nat
    OBVIOUS
  <2>2. ~(y < x)
    BY <1>2, <1>3, <2>1, Zenon
  <2> QED BY <2>1, <2>2
<1> QED BY <1>4 DEF Min

LEMMA MaxIs ==
  ASSUME NEW S, S \subseteq Nat, S # {}, NEW b \in Nat, \A x \in S : x <= b
  PROVE  Max(S) \in S /\ \A x \in S : x <= Max(S)
<1> DEFINE D == {b - x : x \in S}
<1>1. D \subseteq Nat /\ D # {}
  <2>1. \A x \in S : x \in Nat /\ b - x \in Nat
    OBVIOUS
  <2>2. PICK x \in S : TRUE
    OBVIOUS
  <2>3. b - x \in D
    BY <2>2
  <2> QED BY <2>1, <2>3
<1>2. Min(D) \in D /\ \A y \in D : Min(D) <= y
  <2> HIDE DEF D
  <2> QED BY <1>1, MinIs
<1>3. PICK m \in S : Min(D) = b - m
  BY <1>2
<1>4. ASSUME NEW x \in S PROVE x <= m
  <2>1. b - x \in D /\ x \in Nat /\ m \in Nat
    OBVIOUS
  <2>2. b - m <= b - x
    BY <1>2, <1>3, <2>1
  <2> QED BY <2>1, <2>2
<1>5. \E y \in S : \A x \in S : x <= y
  BY <1>4
<1>6. \A y \in S, x \in S : x <= y <=> y >= x
  OBVIOUS
<1>7. \E y \in S : \A x \in S : y >= x
  BY <1>5, <1>6
<1>8. Max(S) \in S /\ \A x \in S : Max(S) >= x
  BY <1>7 DEF Max
<1> QED BY <1>6, <1>8

\* Finitely many numbers have a bound.
LEMMA FinitelyManyBounded ==
  ASSUME NEW S, IsFiniteSet(S), NEW f \in [S -> Nat]
  PROVE  \E b \in Nat : \A x \in S : f[x] <= b
<1> DEFINE Bounded(T) == \E b \in Nat : \A x \in T : f[x] <= b
           Bad == {T \in SUBSET S : ~Bounded(T)}
<1> SUFFICES ASSUME Bad # {} PROVE FALSE
  OBVIOUS
<1>1. Bad \subseteq FiniteSubsetsOf(S)
  BY FS_FiniteSubsetsOfFinite
<1>2. PICK T \in Bad : \A U \in Bad : <<U, T>> \notin StrictSubsetOrdering(S)
  <2> HIDE DEF Bad
  <2> QED BY <1>1, FS_StrictSubsetOrderingWellFounded, WFMin
<1>3. PICK x \in T : TRUE
  <2>1. T # {}
    BY <1>2
  <2> QED BY <2>1
<1>4. <<T \ {x}, T>> \in StrictSubsetOrdering(S)
  BY <1>2 DEF StrictSubsetOrdering
<1>5. PICK b \in Nat : \A y \in T \ {x} : f[y] <= b
  BY <1>2, <1>4
<1>6. f[x] \in Nat /\ \A y \in T : f[y] \in Nat
  BY <1>2
<1>7. b + f[x] \in Nat /\ \A y \in T : f[y] <= b + f[x]
  BY <1>5, <1>6
<1>8. Bounded(T)
  BY <1>7
<1> QED BY <1>2, <1>8

LEMMA TimesAreBounded == Times \subseteq Nat /\ \E b \in Nat : \A x \in Times : x <= b
<1>1. Times \subseteq Nat
  BY CoverageAssumption DEF Times
<1>2. PICK b \in Nat : \A p \in Posts : p.at <= b
  <2> DEFINE f == [p \in Posts |-> p.at]
  <2>1. f \in [Posts -> Nat] /\ IsFiniteSet(Posts)
    BY CoverageAssumption
  <2>2. \E b \in Nat : \A p \in Posts : f[p] <= b
    <3> HIDE DEF f
    <3> QED BY <2>1, FinitelyManyBounded
  <2> QED BY <2>2
<1>3. PICK c \in Nat : \A r \in Requests : r[2] <= c
  <2> DEFINE f == [r \in Requests |-> r[2]]
  <2>1. f \in [Requests -> Nat] /\ IsFiniteSet(Requests)
    BY CoverageAssumption
  <2>2. \E c \in Nat : \A r \in Requests : f[r] <= c
    <3> HIDE DEF f
    <3> QED BY <2>1, FinitelyManyBounded
  <2> QED BY <2>2
<1>4. \A p \in Posts : p.at \in Nat /\ p.at <= b + c
  BY <1>2, CoverageAssumption
<1>5. \A r \in Requests : r[1] \in Nat /\ r[2] \in Nat /\ r[1] <= b + c /\ r[2] <= b + c
  BY <1>3, CoverageAssumption
<1>6. b + c \in Nat /\ \A x \in Times : x <= b + c
  BY <1>4, <1>5 DEF Times
<1> QED BY <1>1, <1>6

\* Ranges of known times have a hull of known times, and it is tight.
LEMMA HullIs ==
  ASSUME NEW R \in SUBSET Ranges, R # {}
  PROVE  /\ Hull(R) \in Ranges /\ Hull(R) # <<>>
         /\ \A r \in R : Hull(R)[1] <= r[1] /\ r[2] <= Hull(R)[2]
         /\ (\E r \in R : r[1] = Hull(R)[1]) /\ (\E r \in R : r[2] = Hull(R)[2])
<1> DEFINE F == {r[1] : r \in R}
           L == {r[2] : r \in R}
<1>1. PICK b \in Nat : \A x \in Times : x <= b
  BY TimesAreBounded
<1>2. F \subseteq Times /\ F # {} /\ L \subseteq Times /\ L # {} /\ Times \subseteq Nat
  BY TimesAreBounded DEF Ranges
<1>3. Hull(R) = <<Min(F), Max(L)>>
  BY DEF Hull
<1>4. Min(F) \in F /\ \A x \in F : Min(F) <= x
  <2> HIDE DEF F
  <2>1. F \subseteq Nat
    BY <1>2
  <2> QED BY <1>2, <2>1, MinIs
<1>5. Max(L) \in L /\ \A x \in L : x <= Max(L)
  <2> HIDE DEF L
  <2>1. L \subseteq Nat /\ \A x \in L : x <= b
    BY <1>1, <1>2
  <2> QED BY <1>2, <2>1, MaxIs
<1>6. PICK mn, mx : mn = Min(F) /\ mx = Max(L)
  OBVIOUS
<1>7. /\ mn \in Times /\ mx \in Times
      /\ \A r \in R : mn <= r[1] /\ r[2] <= mx
      /\ (\E r \in R : r[1] = mn) /\ (\E r \in R : r[2] = mx)
  BY <1>2, <1>4, <1>5, <1>6
<1>8. Hull(R) = <<mn, mx>>
  BY <1>3, <1>6
<1> HIDE DEF F, L
<1>9. <<mn, mx>> \in Ranges
  BY <1>7 DEF Ranges
<1> QED BY <1>7, <1>8, <1>9

LEMMA HullTyped ==
  ASSUME NEW R \in SUBSET Ranges
  PROVE  Hull(R) \in Ranges \cup {<<>>}
<1>1. CASE R = {}
  BY <1>1 DEF Hull
<1> QED BY <1>1, HullIs

LEMMA GapsTyped ==
  ASSUME NEW range \in Ranges, NEW c \in Ranges \cup {<<>>}
  PROVE  Gaps(range, c) \subseteq Ranges
<1>1. CASE c = <<>>
  BY <1>1 DEF Gaps
<1>2. CASE c # <<>>
  <2> DEFINE m == Max({range[1], c[2]})
  <2>1. range[1] \in Times /\ range[2] \in Times /\ c[1] \in Times /\ c[2] \in Times /\ Times \subseteq Nat
    BY <1>2, TimesAreBounded DEF Ranges
  <2>2. PICK S, b : S = {range[1], c[2]} /\ b = range[1] + c[2]
    OBVIOUS
  <2>3. S \subseteq Nat /\ S # {} /\ b \in Nat /\ \A x \in S : x <= b
    <3>1. PICK x, y \in Nat : x = range[1] /\ y = c[2]
      BY <2>1
    <3>2. S = {x, y} /\ b = x + y
      BY <2>2, <3>1
    <3> QED BY <3>1, <3>2
  <2>4. Max(S) \in S
    BY <2>3, MaxIs
  <2>5. Max(S) = m
    BY <2>2
  <2>6. Gaps(range, c) = {g \in {<<range[1], c[1]>>, <<m, range[2]>>} : g[1] < g[2]}
    BY <1>2 DEF Gaps
  <2> HIDE DEF m
  <2>7. m \in Times
    BY <2>1, <2>2, <2>4, <2>5
  <2>8. <<range[1], c[1]>> \in Ranges /\ <<m, range[2]>> \in Ranges
    BY <2>1, <2>7 DEF Ranges
  <2> QED BY <2>6, <2>8
<1> QED BY <1>1, <1>2

\* A moment of the request lies in a gap or in what is covered.
LEMMA GapsCover ==
  ASSUME NEW range \in Ranges, NEW c \in Ranges, range[1] <= c[2], NEW x \in Times, In(x, range), ~In(x, c)
  PROVE  \E g \in Gaps(range, c) : In(x, g)
<1>1. /\ range[1] \in Nat /\ range[2] \in Nat /\ c[1] \in Nat /\ c[2] \in Nat /\ x \in Nat
      /\ range[1] <= x /\ x <= range[2] /\ c # <<>>
  <2>1. range[1] \in Times /\ range[2] \in Times /\ c[1] \in Times /\ c[2] \in Times
    BY DEF Ranges
  <2>2. Times \subseteq Nat
    BY TimesAreBounded
  <2>3. range[1] <= x /\ x <= range[2]
    BY DEF In
  <2>4. c # <<>>
    BY DEF Ranges
  <2> QED BY <2>1, <2>2, <2>3, <2>4
<1>2. Max({range[1], c[2]}) = c[2]
  <2>1. PICK S, b : S = {range[1], c[2]} /\ b = c[2]
    OBVIOUS
  <2>2. S \subseteq Nat /\ S # {} /\ b \in Nat /\ \A y \in S : y <= b
    BY <1>1, <2>1
  <2>3. Max(S) \in S /\ \A y \in S : y <= Max(S)
    BY <2>2, MaxIs
  <2>4. Max(S) = b
    BY <1>1, <2>1, <2>2, <2>3
  <2> QED BY <2>1, <2>4
<1>3. Gaps(range, c) = {g \in {<<range[1], c[1]>>, <<c[2], range[2]>>} : g[1] < g[2]}
  BY <1>1, <1>2 DEF Gaps
<1>4. CASE x < c[1]
  <2>1. <<range[1], c[1]>> \in Gaps(range, c) /\ In(x, <<range[1], c[1]>>)
    BY <1>1, <1>3, <1>4 DEF In
  <2> QED BY <2>1
<1>5. CASE c[2] < x
  <2>1. <<c[2], range[2]>> \in Gaps(range, c) /\ In(x, <<c[2], range[2]>>)
    BY <1>1, <1>3, <1>5 DEF In
  <2> QED BY <2>1
<1> QED BY <1>1, <1>4, <1>5 DEF In

-----------------------------------------------------------------------------
(* The jobs: one step concerns one job *)

HarvestSteps == {"idle", "check", "search", "flush", "reindex", "record", "done", "failed"}

HarvestShape ==
  /\ hpc \in [Harvests -> HarvestSteps]
  /\ DOMAIN terms = Harvests /\ DOMAIN asked = Harvests /\ DOMAIN eff = Harvests
  /\ DOMAIN togo = Harvests /\ \A h \in Harvests : togo[h] \subseteq terms[h]
  /\ emitted \in [Harvests -> SUBSET Posts] /\ buffer \in [Harvests -> Seq(Posts)]

HarvestStep(h) == Harvest(h) \/ \E ts \in TermSets, range \in Requests : HBegin(h, ts, range)

LEMMA HarvestShapeStep ==
  ASSUME HarvestShape, [CoverageNext]_coverageVars
  PROVE  HarvestShape'
<1>0. /\ hpc \in [Harvests -> HarvestSteps]
      /\ DOMAIN terms = Harvests /\ DOMAIN asked = Harvests /\ DOMAIN eff = Harvests
      /\ DOMAIN togo = Harvests /\ \A h \in Harvests : togo[h] \subseteq terms[h]
      /\ emitted \in [Harvests -> SUBSET Posts] /\ buffer \in [Harvests -> Seq(Posts)]
  BY DEF HarvestShape
<1>1. ASSUME NEW h \in Harvests, NEW ts, NEW range, HBegin(h, ts, range) PROVE HarvestShape'
  BY <1>0, <1>1 DEF HBegin, HarvestShape, HarvestSteps, tables
<1>2. ASSUME NEW h \in Harvests, NEW t, HCheck(h, t) PROVE HarvestShape'
  BY <1>0, <1>2 DEF HCheck, HarvestShape, HarvestSteps
<1>3. ASSUME NEW h \in Harvests, HChecked(h) PROVE HarvestShape'
  BY <1>0, <1>3 DEF HChecked, HarvestShape, HarvestSteps
<1>4. ASSUME NEW h \in Harvests, NEW t, NEW p \in Posts, HEmit(h, t, p) PROVE HarvestShape'
  BY <1>0, <1>4 DEF HEmit, HarvestShape, HarvestSteps
<1>5. ASSUME NEW h \in Harvests, NEW t, HTermDone(h, t) PROVE HarvestShape'
  BY <1>0, <1>5 DEF HTermDone, HarvestShape, HarvestSteps
<1>6. ASSUME NEW h \in Harvests, HStore(h) \/ HStoreDropped(h) PROVE HarvestShape'
  <2>1. /\ UNCHANGED <<hpc, terms, asked, eff, togo, emitted>> /\ buffer[h] # <<>>
        /\ buffer' = [buffer EXCEPT ![h] = Tail(@)]
    BY <1>6 DEF HStore, HStoreDropped
  <2>2. buffer[h] \in Seq(Posts)
    BY <1>0
  <2>3. Tail(buffer[h]) \in Seq(Posts)
    BY <2>1, <2>2
  <2>4. buffer' \in [Harvests -> Seq(Posts)]
    BY <1>0, <2>1, <2>3
  <2> QED BY <1>0, <2>1, <2>4 DEF HarvestShape
<1>7. ASSUME NEW h \in Harvests, HFlushed(h) \/ HFlushLost(h) PROVE HarvestShape'
  BY <1>0, <1>7 DEF HFlushed, HFlushLost, HarvestShape, HarvestSteps, localVars
<1>8. ASSUME NEW h \in Harvests, HReindex(h) \/ HReindexLost(h) \/ HRecord(h) \/ HRecordLost(h) PROVE HarvestShape'
  BY <1>0, <1>8 DEF HReindex, HReindexLost, AfterLinks, HRecord, HRecordLost, HarvestShape, HarvestSteps, localVars
<1>9. ASSUME NEW h \in Harvests, HRestart(h) PROVE HarvestShape'
  BY <1>0, <1>9 DEF HRestart, HarvestShape, HarvestSteps
<1>10. ASSUME HAge \/ UNCHANGED coverageVars PROVE HarvestShape'
  BY <1>0, <1>10 DEF HAge, HarvestShape, localVars, coverageVars
<1> QED BY <1>1, <1>2, <1>3, <1>4, <1>5, <1>6, <1>7, <1>8, <1>9, <1>10 DEF CoverageNext, Harvest

LEMMA OtherJobsStay ==
  ASSUME HarvestShape, NEW g \in Harvests, HarvestStep(g) \/ HAge, NEW h \in Harvests, h # g \/ HAge
  PROVE  /\ h \in unlinked' <=> h \in unlinked
         /\ hpc'[h] = hpc[h] /\ terms'[h] = terms[h] /\ asked'[h] = asked[h] /\ eff'[h] = eff[h]
         /\ togo'[h] = togo[h] /\ emitted'[h] = emitted[h] /\ buffer'[h] = buffer[h]
<1>0. /\ DOMAIN hpc = Harvests /\ DOMAIN terms = Harvests /\ DOMAIN asked = Harvests /\ DOMAIN eff = Harvests
      /\ DOMAIN togo = Harvests /\ DOMAIN emitted = Harvests /\ DOMAIN buffer = Harvests
  BY DEF HarvestShape
<1> QED BY <1>0 DEF HarvestStep, Harvest, HBegin, HCheck, HChecked, HEmit, HTermDone, HStore, HStoreDropped,
  HFlushed, HFlushLost, HReindex, HReindexLost, AfterLinks, HRecord, HRecordLost, HRestart, HAge, localVars, tables,
  history

-----------------------------------------------------------------------------
(* Coverage: types *)

Attempts == [term : UNION TermSets, from : Times, to : Times, old : BOOLEAN]
Records  == [post : Posts, run : Harvests, tags : SUBSET UNION TermSets]

\* The types, and that a job at work was asked for a request of somebody's.
CoverageTyping ==
  /\ HarvestShape
  /\ terms \in [Harvests -> TermSets \cup {{}}] /\ asked \in [Harvests -> Requests \cup {<<>>}]
  /\ eff \in [Harvests -> Ranges \cup {<<>>}]
  /\ attempts \subseteq Attempts /\ records \subseteq Records /\ links \subseteq Harvests \X Posts
  /\ harvestFaults \in 0 .. MaxHarvestFaults
  /\ dropped \subseteq {p.text : p \in Posts} /\ assumed \subseteq Posts /\ unlinked \subseteq Harvests
  /\ \A h \in Harvests : hpc[h] # "idle" => asked[h] \in Requests

LEMMA CheckTyped ==
  ASSUME CoverageTyping, NEW h \in Harvests, NEW t \in terms[h], HCheck(h, t)
  PROVE  eff' \in [Harvests -> Ranges \cup {<<>>}] /\ attempts' \subseteq Attempts
<1> DEFINE fast == FromAttempts(t, asked[h])
           slow == FromContent(t, asked[h])
           covered == IF fast # <<>> THEN fast ELSE slow
           gaps == Gaps(asked[h], covered)
           before == IF eff[h] = <<>> THEN {} ELSE {eff[h]}
<1>1. /\ attempts \subseteq Attempts /\ records \subseteq Records /\ eff \in [Harvests -> Ranges \cup {<<>>}]
      /\ t \in UNION TermSets /\ asked[h] \in Ranges
  <2>1. hpc[h] = "check" /\ terms[h] \in TermSets \cup {{}}
    BY DEF HCheck, CoverageTyping
  <2>2. asked[h] \in Requests
    BY <2>1 DEF CoverageTyping
  <2>3. asked[h][1] \in Times /\ asked[h][2] \in Times
    BY <2>2 DEF Times
  <2>4. asked[h] = <<asked[h][1], asked[h][2]>>
    BY <2>2, CoverageAssumption
  <2>5. asked[h] \in Ranges
    BY <2>3, <2>4 DEF Ranges
  <2> QED BY <2>1, <2>5 DEF CoverageTyping
<1>2. fast \in Ranges \cup {<<>>}
  <2>1. Attempted(t, asked[h]) \in SUBSET Ranges
    BY <1>1 DEF Attempts, Ranges, Attempted
  <2> QED BY <2>1, HullTyped DEF FromAttempts
<1>3. slow \in Ranges \cup {<<>>}
  <2> DEFINE R == {<<r.post.at, r.post.at>> : r \in {q \in records : t \in q.tags /\ In(q.post.at, asked[h])}}
  <2>1. \A r \in records : r.post.at \in Times
    BY <1>1 DEF Records, Times
  <2>2. R \in SUBSET Ranges
    BY <2>1 DEF Ranges
  <2>3. slow = Hull(R)
    BY DEF FromContent
  <2> HIDE DEF R
  <2> QED BY <2>2, <2>3, HullTyped
<1>4. attempts' = (IF fast = <<>> /\ slow # <<>>
                   THEN attempts \cup {[term |-> t, from |-> slow[1], to |-> slow[2], old |-> FALSE]}
                   ELSE attempts)
      /\ eff' = [eff EXCEPT ![h] = Hull(gaps \cup before)]
  BY DEF HCheck
<1> HIDE DEF fast, slow
<1>5. covered \in Ranges \cup {<<>>}
  BY <1>2, <1>3
<1> HIDE DEF covered
<1>6. gaps \subseteq Ranges
  BY <1>1, <1>5, GapsTyped
<1> HIDE DEF gaps
<1>7. gaps \cup before \in SUBSET Ranges
  BY <1>1, <1>6
<1> HIDE DEF before
<1>8. Hull(gaps \cup before) \in Ranges \cup {<<>>}
  BY <1>7, HullTyped
<1>9. eff' \in [Harvests -> Ranges \cup {<<>>}]
  BY <1>1, <1>4, <1>8
<1>10. slow # <<>> => [term |-> t, from |-> slow[1], to |-> slow[2], old |-> FALSE] \in Attempts
  BY <1>1, <1>3 DEF Attempts, Ranges
<1> QED BY <1>1, <1>4, <1>9, <1>10

LEMMA CoverageTypingStep ==
  ASSUME CoverageTyping, [CoverageNext]_coverageVars
  PROVE  CoverageTyping'
<1>0. /\ HarvestShape /\ DOMAIN hpc = Harvests /\ hpc \in [Harvests -> HarvestSteps]
      /\ terms \in [Harvests -> TermSets \cup {{}}] /\ asked \in [Harvests -> Requests \cup {<<>>}]
      /\ eff \in [Harvests -> Ranges \cup {<<>>}]
      /\ attempts \subseteq Attempts /\ records \subseteq Records /\ links \subseteq Harvests \X Posts
      /\ harvestFaults \in 0 .. MaxHarvestFaults /\ MaxHarvestFaults \in Nat
      /\ dropped \subseteq {p.text : p \in Posts} /\ assumed \subseteq Posts /\ unlinked \subseteq Harvests
      /\ \A h \in Harvests : hpc[h] # "idle" => asked[h] \in Requests
  BY CoverageAssumption DEF CoverageTyping, HarvestShape
<1>1. HarvestShape'
  BY <1>0, HarvestShapeStep
<1>2. HarvestFault => harvestFaults' \in 0 .. MaxHarvestFaults
  BY <1>0 DEF HarvestFault
<1>3. ASSUME NEW h \in Harvests, NEW ts \in TermSets, NEW range \in Requests, HBegin(h, ts, range)
      PROVE  CoverageTyping'
  <2>1. /\ hpc' = [hpc EXCEPT ![h] = "check"] /\ terms' = [terms EXCEPT ![h] = ts]
        /\ asked' = [asked EXCEPT ![h] = range] /\ UNCHANGED <<eff, attempts, records, links, harvestFaults, dropped, assumed, unlinked>>
    BY <1>3 DEF HBegin, tables, history
  <2>2. terms' \in [Harvests -> TermSets \cup {{}}] /\ asked' \in [Harvests -> Requests \cup {<<>>}]
    BY <1>0, <2>1
  <2>3. \A g \in Harvests : hpc'[g] # "idle" => asked'[g] \in Requests
    BY <1>0, <2>1
  <2> QED BY <1>0, <1>1, <2>1, <2>2, <2>3 DEF CoverageTyping
\* The other steps leave what was asked alone, and no job goes back to the start.
<1>4. ASSUME NEW h \in Harvests, Harvest(h) \/ HAge
      PROVE  /\ UNCHANGED <<terms, asked>>
             /\ \A g \in Harvests : hpc'[g] # "idle" => asked'[g] \in Requests
             /\ harvestFaults' \in 0 .. MaxHarvestFaults
             /\ dropped' \subseteq {p.text : p \in Posts} /\ assumed' \subseteq Posts /\ unlinked' \subseteq Harvests
  <2>1. UNCHANGED <<terms, asked>>
    BY <1>4 DEF Harvest, HAge, HCheck, HChecked, HEmit, HTermDone, HStore, HStoreDropped, HFlushed,
       HFlushLost, HReindex, HReindexLost, AfterLinks, HRecord, HRecordLost, HRestart
  <2>2. \A g \in Harvests : hpc'[g] # "idle" => hpc[g] # "idle"
    BY <1>0, <1>4 DEF Harvest, HAge, HCheck, HChecked, HEmit, HTermDone, HStore, HStoreDropped, HFlushed,
       HFlushLost, HReindex, HReindexLost, AfterLinks, HRecord, HRecordLost, HRestart
  <2>3. HarvestFault \/ UNCHANGED harvestFaults
    BY <1>4 DEF Harvest, HAge, HCheck, HChecked, HEmit, HTermDone, HStore, HStoreDropped, HFlushed,
       HFlushLost, HReindex, HReindexLost, AfterLinks, HRecord, HRecordLost, HRestart
  <2>4. \/ UNCHANGED dropped
        \/ dropped' = dropped \cup {Head(buffer[h]).text} /\ buffer[h] # <<>>
    BY <1>4 DEF Harvest, HAge, HCheck, HChecked, HEmit, HTermDone, HStore, HStoreDropped, HFlushed,
       HFlushLost, HReindex, HReindexLost, HRecord, HRecordLost, HRestart, history
  <2>5. UNCHANGED assumed \/ \E t, covered : assumed' = assumed \cup Between(h, t, covered)
    BY <1>4 DEF Harvest, HAge, HCheck, HChecked, HEmit, HTermDone, HStore, HStoreDropped, HFlushed,
       HFlushLost, HReindex, HReindexLost, HRecord, HRecordLost, HRestart, history
  <2>6. unlinked' \subseteq unlinked \cup {h}
    BY <1>4 DEF Harvest, HAge, HCheck, HChecked, HEmit, HTermDone, HStore, HStoreDropped, HFlushed,
       HFlushLost, HReindex, HReindexLost, HRecord, HRecordLost, HRestart, history
  <2>7. buffer[h] # <<>> => Head(buffer[h]) \in Posts
    <3>1. buffer[h] \in Seq(Posts)
      BY <1>0 DEF HarvestShape
    <3> QED BY <3>1
  <2>8. dropped' \subseteq {p.text : p \in Posts}
    BY <1>0, <2>4, <2>7
  <2>9. assumed' \subseteq Posts
    BY <1>0, <2>5 DEF Between
  <2> QED BY <1>0, <1>2, <2>1, <2>2, <2>3, <2>6, <2>8, <2>9
<1>5. ASSUME NEW h \in Harvests, Harvest(h) \/ HAge,
             eff' \in [Harvests -> Ranges \cup {<<>>}], attempts' \subseteq Attempts,
             records' \subseteq Records, links' \subseteq Harvests \X Posts
      PROVE  CoverageTyping'
  BY <1>0, <1>1, <1>4, <1>5 DEF CoverageTyping
<1>6. ASSUME NEW h \in Harvests, NEW t \in terms[h], HCheck(h, t) PROVE CoverageTyping'
  <2>1. eff' \in [Harvests -> Ranges \cup {<<>>}] /\ attempts' \subseteq Attempts
    BY <1>6, CheckTyped
  <2>2. UNCHANGED <<records, links>> /\ Harvest(h)
    BY <1>6 DEF HCheck, Harvest
  <2> QED BY <1>0, <1>5, <2>1, <2>2
<1>7. ASSUME NEW h \in Harvests, HStore(h) PROVE CoverageTyping'
  <2>1. Head(buffer[h]) \in Posts /\ terms[h] \in TermSets \cup {{}}
    <3>1. buffer[h] \in Seq(Posts) /\ buffer[h] # <<>>
      BY <1>0, <1>7 DEF HarvestShape, HStore
    <3> QED BY <1>0, <3>1
  <2>2. PICK p \in Posts : p = Head(buffer[h])
    BY <2>1
  <2>3. [post |-> p, run |-> h, tags |-> p.terms \cap terms[h]] \in Records
    BY <2>1 DEF Records
  <2>4. records' = records \/ records' = records \cup {[post |-> p, run |-> h, tags |-> p.terms \cap terms[h]]}
    BY <1>7, <2>2 DEF HStore
  <2>5. UNCHANGED <<eff, attempts, links>> /\ Harvest(h)
    BY <1>7 DEF HStore, Harvest
  <2> QED BY <1>0, <1>5, <2>3, <2>4, <2>5
<1>8. ASSUME NEW h \in Harvests, HReindex(h) PROVE CoverageTyping'
  <2>1. \A r \in records : r.post \in Posts
    BY <1>0 DEF Records
  <2>2. links' \subseteq Harvests \X Posts
    BY <1>0, <1>8, <2>1 DEF HReindex
  <2>3. UNCHANGED <<eff, attempts, records>> /\ Harvest(h)
    BY <1>8 DEF HReindex, Harvest, localVars
  <2> QED BY <1>0, <1>5, <2>2, <2>3
<1>9. ASSUME NEW h \in Harvests, HRecord(h) PROVE CoverageTyping'
  <2>1. asked[h] \in Requests /\ terms[h] \in TermSets \cup {{}}
    BY <1>0, <1>9 DEF HRecord
  <2>2. asked[h][1] \in Times /\ asked[h][2] \in Times
    BY <2>1 DEF Times
  <2>3. [term : terms[h], from : {asked[h][1]}, to : {asked[h][2]}, old : {FALSE}] \subseteq Attempts
    BY <2>1, <2>2 DEF Attempts
  <2>4. attempts' \subseteq Attempts /\ UNCHANGED <<eff, records, links>> /\ Harvest(h)
    BY <1>0, <1>9, <2>3 DEF HRecord, Harvest, localVars
  <2> QED BY <1>0, <1>5, <2>4
<1>10. ASSUME NEW h \in Harvests, HRestart(h) PROVE CoverageTyping'
  <2>1. eff' \in [Harvests -> Ranges \cup {<<>>}]
    BY <1>0, <1>10 DEF HRestart
  <2>2. UNCHANGED <<attempts, records, links>> /\ Harvest(h)
    BY <1>10 DEF HRestart, Harvest, tables
  <2> QED BY <1>0, <1>5, <2>1, <2>2
<1>11. ASSUME NEW h \in Harvests,
              \/ HChecked(h) \/ HStoreDropped(h) \/ HFlushed(h) \/ HFlushLost(h)
              \/ HReindexLost(h) \/ HRecordLost(h)
              \/ \E t \in terms[h] : HTermDone(h, t) \/ \E p \in Posts : HEmit(h, t, p)
       PROVE  CoverageTyping'
  <2>1. UNCHANGED <<eff, attempts, records, links>> /\ Harvest(h)
    BY <1>11 DEF HChecked, HStoreDropped, HFlushed, HFlushLost, HReindexLost, HRecordLost, HTermDone, HEmit, Harvest, tables, localVars
  <2> QED BY <1>0, <1>5, <2>1
<1>12. CASE HAge
  <2>1. attempts' = {[a EXCEPT !.old = TRUE] : a \in attempts}
    BY <1>12 DEF HAge
  <2>2. attempts' \subseteq Attempts
    <3>1. \A a \in Attempts : [a EXCEPT !.old = TRUE] \in Attempts
      BY DEF Attempts
    <3> QED BY <1>0, <2>1, <3>1
  <2>3. UNCHANGED <<hpc, terms, asked, eff, records, links, harvestFaults, dropped, assumed, unlinked>>
    BY <1>12 DEF HAge, localVars, history
  <2> QED BY <1>0, <1>1, <2>2, <2>3 DEF CoverageTyping
<1>13. CASE UNCHANGED coverageVars
  BY <1>0, <1>1, <1>13 DEF coverageVars, localVars, tables, history, CoverageTyping
<1> QED
  BY <1>3, <1>6, <1>7, <1>8, <1>9, <1>10, <1>11, <1>12, <1>13 DEF CoverageNext, Harvest

LEMMA CoverageIsTyped == CoverageSpec => []CoverageTyping
<1>1. CoverageInit => CoverageTyping
  BY CoverageAssumption DEF CoverageInit, CoverageTyping, HarvestShape, HarvestSteps
<1> QED BY <1>1, CoverageTypingStep, PTL DEF CoverageSpec

\* Attempts, records and links are of known posts, terms and times, and the
\* dates a job narrows its search to are dates of posts and requests.
THEOREM CoverageTyped == CoverageSpec => []CoverageTypeOK
<1>1. CoverageTyping => CoverageTypeOK
  BY DEF CoverageTyping, CoverageTypeOK, HarvestShape, HarvestSteps, Attempts, Records
<1> QED BY <1>1, CoverageIsTyped, PTL

-----------------------------------------------------------------------------
(* Coverage: what is settled *)

Buffered(h, p) == \E i \in 1 .. Len(buffer[h]) : buffer[h][i] = p

Asks(h, t, p) == t \in p.terms /\ In(p.at, asked[h])

\* What an attempt says was collected is settled.
AttemptsSettled ==
  \A a \in attempts : \A p \in Posts :
    a.term \in p.terms /\ In(p.at, <<a.from, a.to>>) => Settled(p)

\* The terms the job has checked: what it will not search for is settled.
CheckedTerms(h) == IF hpc[h] = "check" THEN terms[h] \ togo[h] ELSE terms[h]

Searches(h, p) == eff[h] # <<>> /\ In(p.at, eff[h])

Narrowed(h) ==
  \A t \in CheckedTerms(h) : \A p \in Posts : Asks(h, t, p) => Searches(h, p) \/ Settled(p)

\* What was emitted is on its way; the terms searched return nothing new.
Kept(p) == Known(p) \/ p.text \in dropped

Collecting(h) ==
  /\ eff[h] # <<>>
  /\ \A p \in emitted[h] : Kept(p) \/ Buffered(h, p)
  /\ \A t \in terms[h] \ togo[h] : Unseen(h, t) = {}

Shows(h, r) == r.run = h \/ <<h, r.post>> \in links \/ ~Findable(h, r)

SeesAll(h) ==
  \A p \in Relevant(h) :
    p.text \in dropped \/ p \in assumed \/ \E r \in records : r.post.text = p.text /\ Shows(h, r)

Working == {"check", "search", "flush", "reindex", "record"}

JobInv(h) ==
  /\ hpc[h] \in {"idle", "check"} => emitted[h] = {} /\ buffer[h] = <<>>
  /\ hpc[h] = "idle" => eff[h] = <<>>
  /\ hpc[h] \in Working => Narrowed(h)
  /\ hpc[h] \in {"search", "flush"} => Collecting(h)
  /\ hpc[h] \in {"reindex", "record"} => \A p \in Relevant(h) : Settled(p)
  /\ hpc[h] \in {"record", "done"} /\ h \notin unlinked => SeesAll(h)

CoverageInv == AttemptsSettled /\ \A h \in Harvests : JobInv(h)

\* Nothing that is stored, linked, dropped or passed over goes away.
Grows ==
  records \subseteq records' /\ links \subseteq links' /\ dropped \subseteq dropped' /\ assumed \subseteq assumed'

LEMMA TablesGrow ==
  ASSUME [CoverageNext]_coverageVars
  PROVE  Grows
<1> USE DEF Grows
<1>1. ASSUME NEW h \in Harvests, HStore(h) \/ HStoreDropped(h) \/ HReindex(h) \/ HReindexLost(h)
      PROVE  Grows
  BY <1>1 DEF HStore, HStoreDropped, HReindex, HReindexLost, tables, history
<1>2. ASSUME NEW h \in Harvests, NEW t, HCheck(h, t) \/ HTermDone(h, t) \/ \E p \in Posts : HEmit(h, t, p)
      PROVE  Grows
  BY <1>2 DEF HCheck, HTermDone, HEmit, tables, history
<1>3. ASSUME NEW h \in Harvests, \/ HChecked(h) \/ HFlushed(h) \/ HFlushLost(h)
                                 \/ HRecord(h) \/ HRecordLost(h) \/ HRestart(h)
      PROVE  Grows
  BY <1>3 DEF HChecked, HFlushed, HFlushLost, HRecord, HRecordLost, HRestart, tables, history
<1>4. ASSUME HAge \/ UNCHANGED coverageVars \/ \E h \in Harvests, ts \in TermSets, range \in Requests : HBegin(h, ts, range)
      PROVE  Grows
  BY <1>4 DEF HAge, coverageVars, HBegin, tables, history
<1> QED BY <1>1, <1>2, <1>3, <1>4 DEF CoverageNext, Harvest

\* A job that keeps its shape stays settled while others work.
LEMMA SeesAllStays ==
  ASSUME Grows, NEW h, SeesAll(h), terms'[h] = terms[h], asked'[h] = asked[h]
  PROVE  SeesAll(h)'
<1>1. Relevant(h)' = Relevant(h)
  BY DEF Relevant
<1>2. \A r : Shows(h, r) => Shows(h, r)'
  BY DEF Grows, Shows, Findable
<1> QED BY <1>1, <1>2 DEF Grows, SeesAll

LEMMA NarrowedStays ==
  ASSUME Grows, NEW h, Narrowed(h), terms'[h] = terms[h], asked'[h] = asked[h], eff'[h] = eff[h],
         CheckedTerms(h)' \subseteq CheckedTerms(h)
  PROVE  Narrowed(h)'
<1>1. \A p : Settled(p) => Settled(p)'
  BY DEF Grows, Settled, Known
<1> QED BY <1>1 DEF Narrowed, Asks, Searches

LEMMA JobStays ==
  ASSUME Grows, NEW h, JobInv(h), h \in unlinked' <=> h \in unlinked,
         hpc'[h] = hpc[h], terms'[h] = terms[h], asked'[h] = asked[h], eff'[h] = eff[h],
         togo'[h] = togo[h], emitted'[h] = emitted[h], buffer'[h] = buffer[h]
  PROVE  JobInv(h)'
<1>1. Relevant(h)' = Relevant(h) /\ CheckedTerms(h)' = CheckedTerms(h)
  BY DEF Relevant, CheckedTerms
<1>2. hpc[h] \in {"record", "done"} /\ h \notin unlinked => SeesAll(h)'
  BY SeesAllStays DEF JobInv
<1>3. hpc[h] \in Working => Narrowed(h)'
  BY <1>1, NarrowedStays DEF JobInv
<1>4. hpc[h] \in {"search", "flush"} => Collecting(h)'
  <2>1. \A p : Buffered(h, p)' <=> Buffered(h, p)
    BY DEF Buffered
  <2>2. \A t : Unseen(h, t)' = Unseen(h, t)
    BY DEF Unseen
  <2>3. \A p : Kept(p) => Kept(p)'
    BY DEF Grows, Kept, Known
  <2> QED BY <2>1, <2>2, <2>3 DEF JobInv, Collecting
<1>5. hpc[h] \in {"reindex", "record"} => \A p \in Relevant(h)' : Settled(p)'
  <2>1. \A p : Settled(p) => Settled(p)'
    BY DEF Grows, Settled, Known
  <2> QED BY <1>1, <2>1 DEF JobInv
<1> QED BY <1>2, <1>3, <1>4, <1>5 DEF JobInv

-----------------------------------------------------------------------------
(* The check *)

\* What the check of a term finds, and what it makes of it: a post of the term
\* is in a gap or settled, and what is kept as an attempt is settled.
LEMMA TermChecked ==
  ASSUME CoverageTyping, AttemptsSettled, NEW h \in Harvests, NEW t \in terms[h], HCheck(h, t)
  PROVE  /\ \A p \in Posts : Asks(h, t, p) => (eff'[h] # <<>> /\ In(p.at, eff'[h])) \/ Settled(p)'
         /\ \A p \in Posts : In(p.at, asked[h]) /\ Searches(h, p) => eff'[h] # <<>> /\ In(p.at, eff'[h])
         /\ AttemptsSettled'
<1> DEFINE fast == FromAttempts(t, asked[h])
           slow == FromContent(t, asked[h])
           covered == IF fast # <<>> THEN fast ELSE slow
           gaps == Gaps(asked[h], covered)
           before == IF eff[h] = <<>> THEN {} ELSE {eff[h]}
<1> USE DEF Ranges
<1>1. /\ attempts \subseteq Attempts /\ records \subseteq Records /\ eff \in [Harvests -> Ranges \cup {<<>>}]
      /\ hpc[h] = "check" /\ asked[h] \in Ranges /\ Times \subseteq Nat
      /\ \A p \in Posts : p.at \in Times
  <2>1. hpc[h] = "check"
    BY DEF HCheck
  <2>2. asked[h] \in Requests
    BY <2>1 DEF CoverageTyping
  <2>3. asked[h][1] \in Times /\ asked[h][2] \in Times
    BY <2>2 DEF Times
  <2>4. asked[h] = <<asked[h][1], asked[h][2]>>
    BY <2>2, CoverageAssumption
  <2>5. asked[h] \in Ranges
    BY <2>3, <2>4
  <2> QED BY <2>1, <2>5, TimesAreBounded DEF CoverageTyping, Times
<1>2. Grows
  BY TablesGrow DEF CoverageNext, Harvest
<1>3. /\ attempts' = (IF fast = <<>> /\ slow # <<>>
                      THEN attempts \cup {[term |-> t, from |-> slow[1], to |-> slow[2], old |-> FALSE]}
                      ELSE attempts)
      /\ eff'[h] = Hull(gaps \cup before)
      /\ assumed' = assumed \cup Between(h, t, covered)
  BY <1>1 DEF HCheck
<1>4. /\ Attempted(t, asked[h]) \in SUBSET Ranges
      /\ \A r \in Attempted(t, asked[h]) : asked[h][1] <= r[2]
      /\ \A p \in Posts : t \in p.terms /\ (\E r \in Attempted(t, asked[h]) : In(p.at, r)) => Settled(p)
  <2>1. Attempted(t, asked[h]) \in SUBSET Ranges
    BY <1>1 DEF Attempted, Attempts
  <2>2. ASSUME NEW r \in Attempted(t, asked[h])
        PROVE  asked[h][1] <= r[2]
    <3>1. PICK a \in attempts : r = <<a.from, a.to>> /\ a.to >= asked[h][1]
      BY DEF Attempted
    <3>2. a.to \in Nat /\ asked[h][1] \in Nat
      BY <1>1 DEF Attempts
    <3> QED BY <3>1, <3>2
  <2>3. ASSUME NEW p \in Posts, t \in p.terms, NEW r \in Attempted(t, asked[h]), In(p.at, r)
        PROVE  Settled(p)
    <3>1. PICK a \in attempts : a.term = t /\ r = <<a.from, a.to>>
      BY DEF Attempted
    <3> QED BY <2>3, <3>1 DEF AttemptsSettled
  <2> QED BY <2>1, <2>2, <2>3
<1>5. /\ fast # <<>> => fast \in Ranges /\ asked[h][1] <= fast[2]
      /\ fast = <<>> => Attempted(t, asked[h]) = {}
  <2>1. CASE Attempted(t, asked[h]) = {}
    BY <2>1 DEF FromAttempts, Hull
  <2>2. CASE Attempted(t, asked[h]) # {}
    <3>1. fast \in Ranges /\ fast # <<>> /\ \E r \in Attempted(t, asked[h]) : r[2] = fast[2]
      BY <1>4, <2>2, HullIs DEF FromAttempts
    <3> QED BY <1>4, <3>1
  <2> QED BY <2>1, <2>2
<1>6. slow # <<>> => slow \in Ranges /\ asked[h][1] <= slow[1] /\ asked[h][1] <= slow[2] /\ slow[2] <= asked[h][2]
  <2> DEFINE R == {<<r.post.at, r.post.at>> : r \in {q \in records : t \in q.tags /\ In(q.post.at, asked[h])}}
  <2>1. \A r \in records : r.post.at \in Times
    BY <1>1 DEF Records
  <2>2. R \in SUBSET Ranges /\ \A r \in R : asked[h][1] <= r[1] /\ asked[h][1] <= r[2] /\ r[2] <= asked[h][2]
    BY <2>1 DEF In
  <2>3. slow = Hull(R)
    BY DEF FromContent
  <2> HIDE DEF R
  <2>4. CASE R = {}
    BY <2>3, <2>4 DEF Hull
  <2>5. CASE R # {}
    <3>1. slow \in Ranges /\ (\E r \in R : r[1] = slow[1]) /\ (\E r \in R : r[2] = slow[2])
      BY <2>2, <2>3, <2>5, HullIs
    <3> QED BY <2>2, <3>1
  <2> QED BY <2>4, <2>5
<1>7. \A p \in Posts : Settled(p) => Settled(p)'
  BY <1>2 DEF Grows, Settled, Known
<1>8. \A p \in Between(h, t, covered) : Settled(p)'
  BY <1>3 DEF Settled
<1>9. \A p \in Posts : Known(p) => Settled(p)
  BY DEF Settled
<1> HIDE DEF fast, slow
<1>10. ASSUME NEW p \in Posts, Asks(h, t, p), covered # <<>>, In(p.at, covered)
       PROVE  Settled(p)'
  <2>1. CASE Known(p)
    BY <1>7, <1>9, <2>1
  <2>2. CASE \E r \in Attempted(t, asked[h]) : In(p.at, r)
    <3>1. Settled(p)
      BY <1>4, <1>10, <2>2 DEF Asks
    <3> QED BY <1>7, <3>1
  <2>3. CASE ~Known(p) /\ \A r \in Attempted(t, asked[h]) : ~In(p.at, r)
    <3>1. p \in Between(h, t, covered)
      BY <1>10, <2>3 DEF Between, Asks
    <3> QED BY <1>8, <3>1
  <2> QED BY <2>1, <2>2, <2>3
<1>11. covered # <<>> => covered \in Ranges /\ asked[h][1] <= covered[2]
  BY <1>5, <1>6
<1>12. covered \in Ranges \cup {<<>>}
  BY <1>11
<1>13. fast = <<>> /\ slow # <<>> => covered = slow
  OBVIOUS
<1> HIDE DEF covered
<1>14. gaps \subseteq Ranges
  BY <1>1, <1>12, GapsTyped
<1>15. ASSUME NEW p \in Posts, Asks(h, t, p)
       PROVE  (\E g \in gaps : In(p.at, g)) \/ Settled(p)'
  <2>1. CASE covered = <<>>
    BY <1>15, <2>1 DEF Gaps, Asks
  <2>2. CASE covered # <<>> /\ In(p.at, covered)
    BY <1>10, <1>15, <2>2
  <2>3. CASE covered # <<>> /\ ~In(p.at, covered)
    BY <1>1, <1>11, <1>15, <2>3, GapsCover DEF Asks
  <2> QED BY <2>1, <2>2, <2>3
<1> HIDE DEF gaps
<1>16. \A g \in gaps \cup before : \A x \in Times : In(x, g) => eff'[h] # <<>> /\ In(x, eff'[h])
  <2>1. gaps \cup before \in SUBSET Ranges
    BY <1>1, <1>14
  <2> HIDE DEF before
  <2>2. ASSUME NEW g \in gaps \cup before, NEW x \in Times, In(x, g)
        PROVE  eff'[h] # <<>> /\ In(x, eff'[h])
    <3>1. /\ eff'[h] \in Ranges /\ eff'[h] # <<>> /\ eff'[h][1] <= g[1] /\ g[2] <= eff'[h][2] /\ g \in Ranges
      BY <1>3, <2>1, HullIs
    <3>2. g[1] \in Nat /\ g[2] \in Nat /\ x \in Nat /\ eff'[h][1] \in Nat /\ eff'[h][2] \in Nat
      BY <1>1, <3>1
    <3> QED BY <2>2, <3>1, <3>2 DEF In
  <2> QED BY <2>2
<1>17. ASSUME NEW p \in Posts, Asks(h, t, p)
       PROVE  (eff'[h] # <<>> /\ In(p.at, eff'[h])) \/ Settled(p)'
  BY <1>1, <1>15, <1>16, <1>17
<1>18. ASSUME NEW p \in Posts, Searches(h, p)
       PROVE  eff'[h] # <<>> /\ In(p.at, eff'[h])
  <2>1. eff[h] \in before /\ In(p.at, eff[h]) /\ p.at \in Times
    BY <1>1, <1>18 DEF Searches
  <2> HIDE DEF before
  <2> QED BY <1>16, <2>1
<1>19. AttemptsSettled'
  <2>1. ASSUME NEW a \in attempts, NEW p \in Posts, a.term \in p.terms, In(p.at, <<a.from, a.to>>)
        PROVE  Settled(p)'
    BY <1>7, <2>1 DEF AttemptsSettled
  <2>2. ASSUME fast = <<>>, slow # <<>>, NEW p \in Posts, t \in p.terms, In(p.at, <<slow[1], slow[2]>>)
        PROVE  Settled(p)'
    <3>1. /\ slow[1] \in Nat /\ slow[2] \in Nat /\ p.at \in Nat /\ asked[h][1] \in Nat /\ asked[h][2] \in Nat
          /\ asked[h][1] <= slow[1] /\ slow[2] <= asked[h][2]
      BY <1>1, <1>6, <2>2
    <3>2. In(p.at, asked[h]) /\ In(p.at, slow)
      BY <2>2, <3>1 DEF In
    <3>3. covered # <<>> /\ In(p.at, covered)
      BY <1>13, <2>2, <3>2
    <3> QED BY <1>10, <2>2, <3>2, <3>3 DEF Asks
  <2>3. ASSUME NEW a \in attempts'
        PROVE  a \in attempts \/ (fast = <<>> /\ slow # <<>> /\ a = [term |-> t, from |-> slow[1], to |-> slow[2], old |-> FALSE])
    BY <1>3
  <2> QED BY <2>1, <2>2, <2>3 DEF AttemptsSettled
<1> QED BY <1>17, <1>18, <1>19

-----------------------------------------------------------------------------
(* The steps of a job keep what is said of it *)

LEMMA BeginKeepsJob ==
  ASSUME HarvestShape, NEW h \in Harvests, JobInv(h), NEW ts, NEW range, HBegin(h, ts, range)
  PROVE  JobInv(h)'
<1>1. /\ hpc[h] = "idle" /\ hpc'[h] = "check" /\ terms'[h] = ts /\ togo'[h] = ts
      /\ emitted'[h] = emitted[h] /\ buffer'[h] = buffer[h]
  BY DEF HBegin, HarvestShape
<1>2. CheckedTerms(h)' = {}
  BY <1>1 DEF CheckedTerms
<1> QED BY <1>1, <1>2 DEF JobInv, Narrowed, Working

LEMMA CheckKeepsJob ==
  ASSUME CoverageTyping, AttemptsSettled, Grows, NEW h \in Harvests, JobInv(h), NEW t \in terms[h], HCheck(h, t)
  PROVE  JobInv(h)'
<1>1. /\ hpc[h] = "check" /\ hpc'[h] = "check" /\ terms'[h] = terms[h] /\ asked'[h] = asked[h]
      /\ togo'[h] = togo[h] \ {t} /\ emitted'[h] = emitted[h] /\ buffer'[h] = buffer[h]
  BY DEF HCheck, CoverageTyping, HarvestShape
<1>2. CheckedTerms(h)' = CheckedTerms(h) \cup {t}
  BY <1>1 DEF CheckedTerms
<1>3. \A p : Settled(p) => Settled(p)'
  BY DEF Grows, Settled, Known
<1>4. ASSUME NEW u \in CheckedTerms(h)', NEW p \in Posts, Asks(h, u, p)'
      PROVE  Searches(h, p)' \/ Settled(p)'
  <2>1. Asks(h, u, p) /\ In(p.at, asked[h])
    BY <1>1, <1>4 DEF Asks
  <2>2. CASE u = t
    BY <2>1, <2>2, TermChecked DEF Searches
  <2>3. CASE u \in CheckedTerms(h)
    <3>1. Searches(h, p) \/ Settled(p)
      BY <1>1, <2>1, <2>3 DEF JobInv, Narrowed, Working
    <3> QED BY <1>3, <2>1, <3>1, TermChecked DEF Searches
  <2> QED BY <1>2, <1>4, <2>2, <2>3
<1>5. Narrowed(h)'
  BY <1>4 DEF Narrowed
<1> QED BY <1>1, <1>5 DEF JobInv, Working

LEMMA CheckedKeepsJob ==
  ASSUME HarvestShape, Grows, NEW h \in Harvests, JobInv(h), HChecked(h)
  PROVE  JobInv(h)'
<1>1. /\ hpc[h] = "check" /\ togo[h] = {} /\ terms'[h] = terms[h] /\ asked'[h] = asked[h] /\ eff'[h] = eff[h]
      /\ emitted'[h] = emitted[h] /\ buffer'[h] = buffer[h] /\ emitted[h] = {}
      /\ IF eff[h] = <<>> THEN hpc'[h] = "reindex" ELSE hpc'[h] = "search" /\ togo'[h] = terms[h]
  BY DEF HChecked, HarvestShape, JobInv
<1>2. CheckedTerms(h)' = terms[h] /\ CheckedTerms(h) = terms[h]
  BY <1>1 DEF CheckedTerms
<1>3. Narrowed(h)
  BY <1>1 DEF JobInv, Working
<1>4. Narrowed(h)'
  BY <1>1, <1>2, <1>3, NarrowedStays
<1>5. eff[h] # <<>> => Collecting(h)'
  BY <1>1 DEF Collecting
<1>6. ASSUME eff[h] = <<>>, NEW p \in Relevant(h)'
      PROVE  Settled(p)'
  <2>1. PICK t \in terms[h] : Asks(h, t, p)
    BY <1>1 DEF Relevant, Asks
  <2>2. Settled(p)
    BY <1>2, <1>3, <1>6, <2>1 DEF Narrowed, Searches, Relevant
  <2> QED BY <2>2 DEF Grows, Settled, Known
<1> QED BY <1>1, <1>4, <1>5, <1>6 DEF JobInv, Working

LEMMA EmitKeepsJob ==
  ASSUME HarvestShape, Grows, NEW h \in Harvests, JobInv(h), NEW t, NEW p \in Posts, HEmit(h, t, p)
  PROVE  JobInv(h)'
<1>1. /\ hpc[h] = "search" /\ hpc'[h] \in {"search", "flush"}
      /\ terms'[h] = terms[h] /\ asked'[h] = asked[h] /\ eff'[h] = eff[h] /\ togo'[h] = togo[h]
      /\ emitted'[h] = emitted[h] \cup {p} /\ buffer'[h] = Append(buffer[h], p)
      /\ buffer[h] \in Seq(Posts)
  BY DEF HEmit, HarvestShape
<1>2. Collecting(h) /\ Narrowed(h)
  BY <1>1 DEF JobInv, Working
<1>3. Narrowed(h)'
  BY <1>1, <1>2, NarrowedStays DEF CheckedTerms
<1>4. ASSUME NEW q \in emitted[h]
      PROVE  (Kept(q) \/ Buffered(h, q))'
  <2>1. CASE Kept(q)
    BY <2>1 DEF Grows, Kept, Known
  <2>2. CASE Buffered(h, q)
    BY <1>1, <2>2 DEF Buffered
  <2> QED BY <1>2, <2>1, <2>2 DEF Collecting
<1>5. Buffered(h, p)'
  <2>1. Len(buffer'[h]) = Len(buffer[h]) + 1 /\ buffer'[h][Len(buffer[h]) + 1] = p /\ Len(buffer[h]) \in Nat
    BY <1>1
  <2> QED BY <2>1 DEF Buffered
<1>6. \A u \in terms[h] \ togo[h] : Unseen(h, u)' = {}
  BY <1>1, <1>2 DEF Collecting, Unseen
<1>7. Collecting(h)'
  BY <1>1, <1>2, <1>4, <1>5, <1>6 DEF Collecting
<1> QED BY <1>1, <1>3, <1>7 DEF JobInv, Working

LEMMA TermDoneKeepsJob ==
  ASSUME HarvestShape, Grows, NEW h \in Harvests, JobInv(h), NEW t, HTermDone(h, t)
  PROVE  JobInv(h)'
<1>1. /\ hpc[h] = "search" /\ hpc'[h] = "flush" /\ Unseen(h, t) = {}
      /\ terms'[h] = terms[h] /\ asked'[h] = asked[h] /\ eff'[h] = eff[h] /\ togo'[h] = togo[h] \ {t}
      /\ emitted'[h] = emitted[h] /\ buffer'[h] = buffer[h]
  BY DEF HTermDone, HarvestShape
<1>2. Collecting(h) /\ Narrowed(h)
  BY <1>1 DEF JobInv, Working
<1>3. Narrowed(h)'
  BY <1>1, <1>2, NarrowedStays DEF CheckedTerms
<1>4. \A p \in emitted[h] : (Kept(p) \/ Buffered(h, p))'
  <2>1. \A p : Kept(p) => Kept(p)'
    BY DEF Grows, Kept, Known
  <2> QED BY <1>1, <1>2, <2>1 DEF Collecting, Buffered
<1>5. \A u \in terms[h] \ togo'[h] : Unseen(h, u)' = {}
  BY <1>1, <1>2 DEF Collecting, Unseen
<1>6. Collecting(h)'
  BY <1>1, <1>2, <1>4, <1>5 DEF Collecting
<1> QED BY <1>1, <1>3, <1>6 DEF JobInv, Working

\* The first of the buffer is stored or dropped.
LEMMA StoreKeepsJob ==
  ASSUME HarvestShape, Grows, NEW h \in Harvests, JobInv(h), HStore(h) \/ HStoreDropped(h)
  PROVE  JobInv(h)'
<1>1. /\ hpc[h] = "flush" /\ hpc'[h] = "flush" /\ buffer[h] # <<>> /\ buffer[h] \in Seq(Posts)
      /\ terms'[h] = terms[h] /\ asked'[h] = asked[h] /\ eff'[h] = eff[h] /\ togo'[h] = togo[h]
      /\ emitted'[h] = emitted[h] /\ buffer'[h] = Tail(buffer[h])
  BY DEF HStore, HStoreDropped, HarvestShape
<1>2. Collecting(h) /\ Narrowed(h)
  BY <1>1 DEF JobInv, Working
<1>3. Narrowed(h)'
  BY <1>1, <1>2, NarrowedStays DEF CheckedTerms
<1>0. PICK p : p = Head(buffer[h]) /\ p = buffer[h][1]
  BY <1>1
<1>4. Kept(p)'
  <2>1. CASE HStoreDropped(h)
    BY <1>0, <2>1 DEF HStoreDropped, Kept
  <2>2. CASE HStore(h)
    <3>1. records' = IF \E r \in records : r.post.text = p.text /\ r.post.at = p.at THEN records
                     ELSE records \cup {[post |-> p, run |-> h, tags |-> p.terms \cap terms[h]]}
      BY <1>0, <2>2 DEF HStore
    <3>2. CASE \E r \in records : r.post.text = p.text /\ r.post.at = p.at
      BY <3>1, <3>2 DEF Kept, Known
    <3>3. CASE [post |-> p, run |-> h, tags |-> p.terms \cap terms[h]] \in records'
      BY <3>3 DEF Kept, Known
    <3> QED BY <3>1, <3>2, <3>3
  <2> QED BY <2>1, <2>2
<1>5. ASSUME NEW q \in emitted[h]
      PROVE  (Kept(q) \/ Buffered(h, q))'
  <2>1. CASE Kept(q)
    BY <2>1 DEF Grows, Kept, Known
  <2>2. CASE Buffered(h, q)
    <3>1. PICK i \in 1 .. Len(buffer[h]) : buffer[h][i] = q
      BY <2>2 DEF Buffered
    <3>2. CASE i = 1
      BY <1>0, <1>4, <3>1, <3>2
    <3>3. CASE i # 1
      <4>1. i - 1 \in 1 .. Len(Tail(buffer[h])) /\ Tail(buffer[h])[i - 1] = q
        BY <1>1, <3>1, <3>3
      <4> QED BY <1>1, <4>1 DEF Buffered
    <3> QED BY <3>2, <3>3
  <2> QED BY <1>2, <2>1, <2>2 DEF Collecting
<1>6. \A u \in terms[h] \ togo[h] : Unseen(h, u)' = {}
  BY <1>1, <1>2 DEF Collecting, Unseen
<1>7. Collecting(h)'
  BY <1>1, <1>2, <1>5, <1>6 DEF Collecting
<1> QED BY <1>1, <1>3, <1>7 DEF JobInv, Working

\* After the last flush all that was searched for is settled.
LEMMA FlushKeepsJob ==
  ASSUME HarvestShape, Grows, NEW h \in Harvests, JobInv(h), HFlushed(h) \/ HFlushLost(h)
  PROVE  JobInv(h)'
<1>1. /\ hpc[h] = "flush" /\ terms'[h] = terms[h] /\ asked'[h] = asked[h] /\ eff'[h] = eff[h]
      /\ togo'[h] = togo[h] /\ emitted'[h] = emitted[h] /\ buffer'[h] = buffer[h]
      /\ \/ hpc'[h] = "search" \/ hpc'[h] = "failed"
         \/ hpc'[h] = "reindex" /\ togo[h] = {} /\ buffer[h] = <<>>
  BY DEF HFlushed, HFlushLost, HarvestShape, localVars
<1>2. Collecting(h) /\ Narrowed(h)
  BY <1>1 DEF JobInv, Working
<1>3. hpc'[h] \in Working => Narrowed(h)'
  BY <1>1, <1>2, NarrowedStays DEF CheckedTerms, Working
<1>4. Collecting(h)'
  <2>1. \A p : Kept(p) => Kept(p)'
    BY DEF Grows, Kept, Known
  <2> QED BY <1>1, <1>2, <2>1 DEF Collecting, Buffered, Unseen
<1>5. ASSUME hpc'[h] = "reindex", NEW p \in Relevant(h)'
      PROVE  Settled(p)'
  <2>1. PICK t \in terms[h] : p \in Posts /\ Asks(h, t, p)
    BY <1>1 DEF Relevant, Asks
  <2>2. CASE Settled(p)
    BY <2>2 DEF Grows, Settled, Known
  <2>3. CASE Searches(h, p)
    <3>1. p \notin Unseen(h, t)
      BY <1>1, <1>2, <1>5, <2>1 DEF Collecting
    <3>2. PICK q \in emitted[h] : q.text = p.text
      BY <2>1, <2>3, <3>1 DEF Unseen, Asks, Searches
    <3>3. Kept(q)
      BY <1>1, <1>2, <1>5 DEF Collecting, Buffered
    <3>4. Settled(p)
      BY <3>2, <3>3 DEF Kept, Known, Settled
    <3> QED BY <3>4 DEF Grows, Settled, Known
  <2> QED BY <1>1, <1>2, <2>1, <2>2, <2>3 DEF Narrowed, CheckedTerms
<1> QED BY <1>1, <1>3, <1>4, <1>5 DEF JobInv, Working

\* After the links the run shows what is stored.
LEMMA LinksKeepJob ==
  ASSUME HarvestShape, Grows, NEW h \in Harvests, JobInv(h), HReindex(h) \/ HReindexLost(h)
  PROVE  JobInv(h)'
<1>1. /\ hpc[h] = "reindex" /\ hpc'[h] \in {"record", "done"}
      /\ terms'[h] = terms[h] /\ asked'[h] = asked[h] /\ eff'[h] = eff[h]
      /\ HReindexLost(h) => h \in unlinked'
  BY DEF HReindex, HReindexLost, AfterLinks, HarvestShape, localVars
<1>2. Narrowed(h) /\ \A p \in Relevant(h) : Settled(p)
  BY <1>1 DEF JobInv, Working
<1>3. hpc'[h] \in Working => Narrowed(h)'
  BY <1>1, <1>2, NarrowedStays DEF CheckedTerms, Working
<1>4. Relevant(h)' = Relevant(h)
  BY <1>1 DEF Relevant
<1>5. \A p \in Relevant(h) : Settled(p)'
  <2>1. \A p : Settled(p) => Settled(p)'
    BY DEF Grows, Settled, Known
  <2> QED BY <1>2, <2>1
<1>6. HReindex(h) => SeesAll(h)'
  <2> SUFFICES ASSUME HReindex(h) PROVE SeesAll(h)'
    OBVIOUS
  <2>1. /\ UNCHANGED <<records, dropped, assumed>>
        /\ links' = links \cup {<<h, r.post>> : r \in {q \in records : q.run # h /\ Findable(h, q)}}
    BY DEF HReindex
  <2>2. \A r : Findable(h, r)' <=> Findable(h, r)
    BY <1>1 DEF Findable
  <2>3. \A r \in records : Shows(h, r)'
    BY <2>1, <2>2 DEF Shows
  <2> QED BY <1>2, <1>4, <2>1, <2>3 DEF SeesAll, Settled, Known
<1> QED BY <1>1, <1>3, <1>4, <1>5, <1>6 DEF JobInv, Working

LEMMA EndKeepsJob ==
  ASSUME HarvestShape, Grows, NEW h \in Harvests, JobInv(h), HRecord(h) \/ HRecordLost(h) \/ HRestart(h)
  PROVE  JobInv(h)'
<1>1. CASE HRecord(h) \/ HRecordLost(h)
  <2>1. /\ hpc[h] = "record" /\ hpc'[h] = "done" /\ UNCHANGED unlinked
        /\ terms'[h] = terms[h] /\ asked'[h] = asked[h]
    BY <1>1 DEF HRecord, HRecordLost, HarvestShape, history
  <2>2. h \notin unlinked => SeesAll(h)'
    BY <2>1, SeesAllStays DEF JobInv
  <2> QED BY <2>1, <2>2 DEF JobInv, Working
<1>2. CASE HRestart(h)
  <2>1. hpc'[h] = "check" /\ terms'[h] = terms[h] /\ togo'[h] = terms[h] /\ emitted'[h] = {} /\ buffer'[h] = <<>>
    BY <1>2 DEF HRestart, HarvestShape
  <2>2. CheckedTerms(h)' = {}
    BY <2>1 DEF CheckedTerms
  <2> QED BY <2>1, <2>2 DEF JobInv, Narrowed, Working
<1> QED BY <1>1, <1>2

-----------------------------------------------------------------------------
(* The attempts *)

\* Only a check and the end of a job add attempts; time only ages them.
LEMMA AttemptsStaySettled ==
  ASSUME CoverageTyping, CoverageInv, Grows, [CoverageNext]_coverageVars
  PROVE  AttemptsSettled'
<1>0. \A p : Settled(p) => Settled(p)'
  BY DEF Grows, Settled, Known
<1>1. ASSUME UNCHANGED attempts PROVE AttemptsSettled'
  BY <1>0, <1>1 DEF AttemptsSettled, CoverageInv
<1>2. ASSUME NEW h \in Harvests, NEW t \in terms[h], HCheck(h, t) PROVE AttemptsSettled'
  BY <1>2, TermChecked DEF CoverageInv
<1>3. ASSUME NEW h \in Harvests, HRecord(h) PROVE AttemptsSettled'
  <2>1. hpc[h] = "record" /\ JobInv(h)
    BY <1>3 DEF HRecord, CoverageInv
  <2>2. \A p \in Relevant(h) : Settled(p)
    BY <2>1 DEF JobInv
  <2>3. asked[h] \in Requests
    BY <2>1 DEF CoverageTyping
  <2>4. ASSUME NEW a \in attempts', a \notin attempts, NEW p \in Posts, a.term \in p.terms,
               In(p.at, <<a.from, a.to>>)
        PROVE  Settled(p)
    <3>1. a.term \in terms[h] /\ a.from = asked[h][1] /\ a.to = asked[h][2]
      BY <1>3, <2>4 DEF HRecord
    <3>2. p \in Relevant(h)
      BY <2>4, <3>1 DEF Relevant, In
    <3> QED BY <2>2, <3>2
  <2> QED BY <1>0, <2>4 DEF AttemptsSettled, CoverageInv
<1>4. CASE HAge
  <2>1. attempts' = {[a EXCEPT !.old = TRUE] : a \in attempts} /\ attempts \subseteq Attempts
    BY <1>4 DEF HAge, CoverageTyping
  <2>2. ASSUME NEW b \in attempts'
        PROVE  \E a \in attempts : a.term = b.term /\ a.from = b.from /\ a.to = b.to
    <3>1. PICK a \in attempts : b = [a EXCEPT !.old = TRUE]
      BY <2>1
    <3>2. a \in Attempts
      BY <2>1
    <3> QED BY <3>1, <3>2 DEF Attempts
  <2> QED BY <1>0, <2>2 DEF AttemptsSettled, CoverageInv
<1>5. ASSUME NEW h \in Harvests,
             \/ HChecked(h) \/ HStore(h) \/ HStoreDropped(h) \/ HFlushed(h) \/ HFlushLost(h)
             \/ HReindex(h) \/ HReindexLost(h) \/ HRecordLost(h) \/ HRestart(h)
             \/ (\E t : HTermDone(h, t)) \/ (\E t, p : HEmit(h, t, p)) \/ (\E ts, range : HBegin(h, ts, range))
      PROVE  UNCHANGED attempts
  BY <1>5 DEF HChecked, HStore, HStoreDropped, HFlushed, HFlushLost, HReindex, HReindexLost, HRecordLost, HRestart,
     HTermDone, HEmit, HBegin, tables
<1>6. CASE UNCHANGED coverageVars
  BY <1>1, <1>6 DEF coverageVars, tables
<1> QED
  BY <1>1, <1>2, <1>3, <1>4, <1>5, <1>6 DEF CoverageNext, Harvest

LEMMA CoverageInvStep ==
  ASSUME CoverageTyping, CoverageInv, [CoverageNext]_coverageVars
  PROVE  CoverageInv'
<1>1. Grows /\ HarvestShape /\ AttemptsSettled /\ \A h \in Harvests : JobInv(h)
  BY TablesGrow DEF CoverageTyping, CoverageInv
<1>2. AttemptsSettled'
  BY <1>1, AttemptsStaySettled
<1>3. ASSUME NEW g \in Harvests, HarvestStep(g) PROVE JobInv(g)'
  BY <1>1, <1>3, BeginKeepsJob, CheckKeepsJob, CheckedKeepsJob, EmitKeepsJob, TermDoneKeepsJob, StoreKeepsJob,
     FlushKeepsJob, LinksKeepJob, EndKeepsJob DEF HarvestStep, Harvest
<1>4. ASSUME NEW g \in Harvests, HarvestStep(g), NEW h \in Harvests, h # g PROVE JobInv(h)'
  BY <1>1, <1>4, OtherJobsStay, JobStays
<1>5. ASSUME HAge, NEW h \in Harvests PROVE JobInv(h)'
  BY <1>1, <1>5, OtherJobsStay, JobStays
<1>6. ASSUME UNCHANGED coverageVars, NEW h \in Harvests PROVE JobInv(h)'
  BY <1>1, <1>6, JobStays DEF coverageVars, localVars, history
<1> QED BY <1>2, <1>3, <1>4, <1>5, <1>6 DEF CoverageNext, HarvestStep, CoverageInv

LEMMA CoverageKept == CoverageSpec => []CoverageInv
<1>1. CoverageInit => CoverageInv
  BY DEF CoverageInit, CoverageInv, AttemptsSettled, JobInv, Working
<1> QED BY <1>1, CoverageInvStep, CoverageIsTyped, PTL DEF CoverageSpec

\* Whatever jobs, posts, terms and dates there are, and whatever is lost,
\* retried or dropped: a post that a job does not search for, because attempts
\* or records say that it was collected, has its text in the database, unless
\* its insert failed or it lies between what was collected.
THEOREM CoverageIsStored == CoverageSpec => []CoveredIsStored
<1>1. CoverageInv => CoveredIsStored
  <2> SUFFICES ASSUME CoverageInv, NEW h \in Harvests, hpc[h] \in {"search", "flush", "reindex", "record"},
                      NEW p \in Relevant(h)
               PROVE  Searches(h, p) \/ Settled(p)
    BY DEF CoveredIsStored, Searches
  <2>1. Narrowed(h) /\ CheckedTerms(h) = terms[h]
    BY DEF CoverageInv, JobInv, Working, CheckedTerms
  <2>2. PICK t \in terms[h] : p \in Posts /\ Asks(h, t, p)
    BY DEF Relevant, Asks
  <2> QED BY <2>1, <2>2 DEF Narrowed
<1> QED BY <1>1, CoverageKept, PTL

\* The run of a completed job shows every post of its terms and dates that the
\* database has and the look for old records can find, for all posts, texts,
\* requests and batch sizes, unless that look failed.
THEOREM RunsSeeAll == CoverageSpec => []RunSeesAll
<1>1. CoverageInv => RunSeesAll
  BY DEF CoverageInv, JobInv, RunSeesAll, SeesAll, Shows
<1> QED BY <1>1, CoverageKept, PTL

-----------------------------------------------------------------------------
(* Deduplication *)

\* A set of records has a lowest identifier.
LEMMA LowestExists ==
  ASSUME NEW S \in SUBSET Ids, S # {}
  PROVE  \E i \in S : \A j \in S : i <= j
<1>1. S \subseteq Nat
  BY DedupAssumption
<1> QED BY <1>1, MinIs

LEMMA LowestIs ==
  ASSUME NEW S \in SUBSET Ids, S # {}
  PROVE  Lowest(S) \in S /\ \A j \in S : Lowest(S) <= j
  BY LowestExists DEF Lowest

-----------------------------------------------------------------------------
(* Marks lead down *)

Down(marks) == \A i \in Ids : marks[i] # NoValue => marks[i] \in Ids /\ marks[i] < i

LEMMA MarkedDown ==
  ASSUME NEW groups \in [Ids -> SUBSET Ids], NEW marks \in [Ids -> Ids \cup {NoValue}]
  PROVE  /\ Marked(groups, marks) \in [Ids -> Ids \cup {NoValue}]
         /\ Down(marks) => Down(Marked(groups, marks))
         /\ \A i \in Ids : marks[i] # NoValue => Marked(groups, marks)[i] # NoValue
<1>1. ASSUME NEW i \in Ids, NEW j \in groups[i], j < i
      PROVE  Lowest(groups[i]) \in Ids /\ Lowest(groups[i]) < i
  <2>1. groups[i] \in SUBSET Ids /\ Lowest(groups[i]) \in groups[i] /\ Lowest(groups[i]) <= j
    BY LowestIs
  <2>2. i \in Nat /\ j \in Nat /\ Lowest(groups[i]) \in Ids /\ Lowest(groups[i]) \in Nat
    BY <2>1, DedupAssumption
  <2> HIDE DEF Lowest
  <2> QED BY <2>1, <2>2, <1>1
<1>2. Marked(groups, marks) \in [Ids -> Ids \cup {NoValue}]
  BY <1>1 DEF Marked
<1>3. Down(marks) => Down(Marked(groups, marks))
  BY <1>1, DedupAssumption DEF Marked, Down
<1>4. \A i \in Ids : marks[i] # NoValue => Marked(groups, marks)[i] # NoValue
  BY <1>1, DedupAssumption DEF Marked
<1> QED BY <1>2, <1>3, <1>4

\* The inductive invariant behind OneCopyShown.
MarksGoDown ==
  /\ Down(mark) /\ \A p \in Passes : Down(updates[p])
  /\ \A f \in Readers : fetching[f] # NoValue /\ oldMark[f] # NoValue => oldMark[f] < fetching[f]

\* The inductive invariant behind CopiesStayHidden: a pass that has read the
\* records holds a mark for one of any two copies, ready to commit.
ArriveOnce == \A n, m \in 1 .. Len(arrived) : arrived[n] = arrived[m] => n = m

PassHides ==
  \A p \in Passes : dpc[p] # "idle" =>
    \A n, m \in deleted + 1 .. found[p] :
      n # m /\ SamePage(dedupRun[p], arrived[n], arrived[m]) =>
        updates[p][arrived[n]] # NoValue \/ updates[p][arrived[m]] # NoValue

DedupInv == DedupTypeOK /\ MarksGoDown /\ ArriveOnce /\ PassHides /\ CopiesStayHidden

LEMMA UnmarkedDown == Unmarked \in [Ids -> Ids \cup {NoValue}] /\ Down(Unmarked)
  BY DEF Unmarked, Down

LEMMA StoredIds ==
  ASSUME DedupTypeOK
  PROVE  Stored \in SUBSET Ids
  BY DEF DedupTypeOK, Stored

LEMMA GroupsOfIds ==
  ASSUME DedupTypeOK, NEW run
  PROVE  /\ Pages(run) \in [Ids -> SUBSET Ids]
         /\ CrossArena(Texts(run)) \in [Ids -> SUBSET Ids]
<1>1. Pages(run) \in [Ids -> SUBSET Ids] /\ Texts(run) \in [Ids -> SUBSET Ids]
  BY StoredIds DEF Pages, Texts
<1>2. ASSUME NEW groups \in [Ids -> SUBSET Ids]
      PROVE  CrossArena(groups) \in [Ids -> SUBSET Ids]
  BY DEF CrossArena
<1> QED BY <1>1, <1>2

LEMMA InitInv == DedupInit => DedupInv
<1> SUFFICES ASSUME DedupInit PROVE DedupInv
  OBVIOUS
<1>1. DedupTypeOK
  BY UnmarkedDown DEF DedupInit, DedupTypeOK
<1>2. MarksGoDown
  BY UnmarkedDown DEF DedupInit, MarksGoDown
<1>3. ArriveOnce /\ PassHides /\ CopiesStayHidden
  BY DEF DedupInit, ArriveOnce, PassHides, CopiesStayHidden
<1> QED BY <1>1, <1>2, <1>3 DEF DedupInv

LEMMA PagesStep ==
  ASSUME DedupInv, NEW p \in Passes, NEW run \in RunIds, DPages(p, run)
  PROVE  DedupInv'
<1> DEFINE new == Marked(Pages(run), Unmarked)
<1>1. new \in [Ids -> Ids \cup {NoValue}] /\ Down(new)
  BY GroupsOfIds, MarkedDown, UnmarkedDown DEF DedupInv
<1>2. /\ UNCHANGED <<info, arrived, deleted, mark, cleared, fetching, oldMark, swept>>
      /\ dpc' = [dpc EXCEPT ![p] = "hash"]
      /\ dedupRun' = [dedupRun EXCEPT ![p] = run]
      /\ updates' = [updates EXCEPT ![p] = new]
      /\ found' = [found EXCEPT ![p] = Len(arrived)]
  BY DEF DPages, recordVars, readerVars
<1>3. DedupTypeOK' /\ MarksGoDown'
  <2> HIDE DEF new
  <2>1. DedupTypeOK'
    BY <1>1, <1>2 DEF DedupInv, DedupTypeOK
  <2>2. MarksGoDown'
    BY <1>1, <1>2 DEF DedupInv, DedupTypeOK, MarksGoDown, Down
  <2> QED BY <2>1, <2>2
<1>4. ASSUME NEW n \in deleted + 1 .. Len(arrived), NEW m \in deleted + 1 .. Len(arrived),
             n # m, SamePage(run, arrived[n], arrived[m])
      PROVE  new[arrived[n]] # NoValue \/ new[arrived[m]] # NoValue
  <2> DEFINE i == arrived[n]
             j == arrived[m]
  <2>1. i \in Stored /\ j \in Stored /\ i \in Ids /\ j \in Ids /\ i # j
    <3>1. /\ arrived \in Seq(Ids) /\ deleted \in 0 .. Len(arrived) /\ ArriveOnce
      BY DEF DedupInv, DedupTypeOK
    <3>2. n \in 1 .. Len(arrived) /\ m \in 1 .. Len(arrived)
      BY <1>4, <3>1
    <3>3. i \in Ids /\ j \in Ids /\ i # j
      BY <1>4, <3>1, <3>2 DEF ArriveOnce
    <3>4. i \in Stored /\ j \in Stored
      BY <1>4 DEF Stored
    <3> QED BY <3>3, <3>4
  <2>2. j \in Pages(run)[i] /\ i \in Pages(run)[j]
    BY <2>1, <1>4 DEF Pages, SamePage
  <2>3. j < i \/ i < j
    <3>1. i \in Nat /\ j \in Nat
      BY <2>1, DedupAssumption
    <3> HIDE DEF i, j
    <3> QED BY <3>1, <2>1
  <2>4. ASSUME NEW a \in Ids, NEW b \in Pages(run)[a], b < a
        PROVE  new[a] # NoValue
    <3>1. Pages(run)[a] \in SUBSET Ids
      BY GroupsOfIds DEF DedupInv
    <3>2. Lowest(Pages(run)[a]) \in Ids
      BY <3>1, LowestIs
    <3> QED BY <2>4, <3>2, DedupAssumption DEF Marked
  <2> QED BY <2>1, <2>2, <2>3, <2>4
<1>5. PassHides'
  <2> HIDE DEF new
  <2>1. /\ UNCHANGED <<info, arrived, deleted>>
        /\ found'[p] = Len(arrived) /\ dedupRun'[p] = run /\ updates'[p] = new
        /\ \A q \in Passes \ {p} : dpc'[q] = dpc[q] /\ dedupRun'[q] = dedupRun[q]
                                 /\ updates'[q] = updates[q] /\ found'[q] = found[q]
    BY <1>2 DEF DedupInv, DedupTypeOK
  <2>2. ASSUME NEW q \in Passes, dpc'[q] # "idle", NEW n \in deleted' + 1 .. found'[q],
               NEW m \in deleted' + 1 .. found'[q], n # m,
               SamePage(dedupRun[q], arrived[n], arrived[m])'
        PROVE  updates'[q][arrived'[n]] # NoValue \/ updates'[q][arrived'[m]] # NoValue
    <3>1. CASE q = p
      <4>1. n \in deleted + 1 .. Len(arrived) /\ m \in deleted + 1 .. Len(arrived)
        BY <2>1, <2>2, <3>1
      <4>2. SamePage(run, arrived[n], arrived[m])
        BY <2>1, <2>2, <3>1 DEF SamePage
      <4> QED BY <2>1, <2>2, <3>1, <4>1, <4>2, <1>4
    <3>2. CASE q # p
      <4>1. PassHides /\ SamePage(dedupRun[q], arrived[n], arrived[m])
        BY <2>1, <2>2, <3>2 DEF SamePage, DedupInv
      <4> QED BY <2>1, <2>2, <3>2, <4>1 DEF PassHides
    <3> QED BY <3>1, <3>2
  <2> QED BY <2>2 DEF PassHides
<1>6. ArriveOnce' /\ CopiesStayHidden'
  BY DEF DedupInv, ArriveOnce, CopiesStayHidden, SamePage, KeptFrom, DPages, recordVars
<1> QED BY <1>3, <1>5, <1>6 DEF DedupInv

LEMMA TextsStep ==
  ASSUME DedupInv, NEW p \in Passes, DTexts(p)
  PROVE  DedupInv'
<1> DEFINE new == Marked(CrossArena(Texts(dedupRun[p])), updates[p])
<1>1. /\ new \in [Ids -> Ids \cup {NoValue}]
      /\ Down(new)
      /\ \A i \in Ids : updates[p][i] # NoValue => new[i] # NoValue
  <2>1. updates[p] \in [Ids -> Ids \cup {NoValue}] /\ Down(updates[p])
    BY DEF DedupInv, DedupTypeOK, MarksGoDown
  <2> QED BY <2>1, GroupsOfIds, MarkedDown DEF DedupInv
<1>2. /\ UNCHANGED <<info, arrived, deleted, mark, cleared, fetching, oldMark, swept, dedupRun, found>>
      /\ dpc[p] = "hash" /\ dpc' = [dpc EXCEPT ![p] = "commit"]
      /\ updates' = [updates EXCEPT ![p] = new]
  BY DEF DTexts, recordVars, readerVars
<1>3. DedupTypeOK' /\ MarksGoDown' /\ PassHides'
  <2> HIDE DEF new
  <2>1. DedupTypeOK'
    BY <1>1, <1>2 DEF DedupInv, DedupTypeOK
  <2>2. MarksGoDown'
    BY <1>1, <1>2 DEF DedupInv, DedupTypeOK, MarksGoDown, Down
  <2>3. ASSUME NEW q \in Passes, dpc'[q] # "idle"
        PROVE  /\ dpc[q] # "idle"
               /\ \A i \in Ids : updates[q][i] # NoValue => updates'[q][i] # NoValue
    BY <1>1, <1>2, <2>3 DEF DedupInv, DedupTypeOK
  <2>4. \A q \in Passes : \A n \in deleted + 1 .. found[q] : arrived[n] \in Ids
    BY DEF DedupInv, DedupTypeOK
  <2>5. PassHides'
    BY <1>2, <2>3, <2>4 DEF DedupInv, PassHides, SamePage
  <2> QED BY <2>1, <2>2, <2>5
<1>4. ArriveOnce' /\ CopiesStayHidden'
  BY DEF DedupInv, ArriveOnce, CopiesStayHidden, SamePage, KeptFrom, DTexts, recordVars
<1> QED BY <1>3, <1>4 DEF DedupInv

LEMMA CommitStep ==
  ASSUME DedupInv, NEW p \in Passes, DCommit(p)
  PROVE  DedupInv'
<1>1. /\ UNCHANGED <<info, arrived, deleted>>
      /\ \A i \in Ids : mark'[i] = IF i \in Stored /\ updates[p][i] # NoValue
                                   THEN updates[p][i] ELSE mark[i]
      /\ \A q \in Passes \ {p} : dpc'[q] = dpc[q] /\ dedupRun'[q] = dedupRun[q]
                               /\ updates'[q] = updates[q] /\ found'[q] = found[q]
      /\ dpc'[p] = "idle" /\ updates'[p] = Unmarked
      /\ UNCHANGED <<fetching, oldMark>> /\ cleared' = {i \in cleared : mark'[i] = NoValue}
  BY DEF DedupInv, DedupTypeOK, DCommit, Forget, readerVars, Shown
<1>2. DedupTypeOK'
  <2>1. mark' \in [Ids -> Ids \cup {NoValue}]
    BY DEF DedupInv, DedupTypeOK, DCommit
  <2>2. swept' \in [RunIds -> 0 .. Len(arrived)]
    BY DEF DedupInv, DedupTypeOK, DCommit
  <2>3. updates' \in [Passes -> [Ids -> Ids \cup {NoValue}]]
    BY UnmarkedDown DEF DedupInv, DedupTypeOK, DCommit, Forget
  <2>4. found' \in [Passes -> 0 .. Len(arrived)]
    BY DEF DedupInv, DedupTypeOK, DCommit, Forget
  <2>5. /\ dpc' \in [Passes -> {"idle", "hash", "commit"}]
        /\ dedupRun' \in [Passes -> RunIds \cup {NoValue}]
    BY DEF DedupInv, DedupTypeOK, DCommit, Forget
  <2> QED BY <1>1, <2>1, <2>2, <2>3, <2>4, <2>5 DEF DedupInv, DedupTypeOK
<1>3. MarksGoDown'
  BY <1>1, UnmarkedDown DEF DedupInv, MarksGoDown, Down
<1>4. ArriveOnce' /\ PassHides'
  BY <1>1 DEF DedupInv, ArriveOnce, PassHides, SamePage
<1>5. ASSUME NEW run \in RunIds, NEW n \in deleted + 1 .. swept'[run],
             NEW m \in deleted + 1 .. swept'[run],
             n # m, SamePage(run, arrived[n], arrived[m])
      PROVE  KeptFrom(arrived[n])' \/ KeptFrom(arrived[m])'
  <2>1. n \in 1 .. Len(arrived) /\ m \in 1 .. Len(arrived)
    BY <1>2, <1>1 DEF DedupInv, DedupTypeOK
  <2>2. /\ arrived[n] \in Ids /\ arrived[m] \in Ids
        /\ arrived[n] \in Stored /\ arrived[m] \in Stored
    BY <2>1, <1>5 DEF DedupInv, DedupTypeOK, Stored
  <2>3. \/ n \in deleted + 1 .. swept[run] /\ m \in deleted + 1 .. swept[run]
        \/ /\ run = dedupRun[p]
           /\ n \in deleted + 1 .. found[p] /\ m \in deleted + 1 .. found[p]
    BY <1>5 DEF DedupInv, DedupTypeOK, DCommit
  <2>4. CASE n \in deleted + 1 .. swept[run] /\ m \in deleted + 1 .. swept[run]
    <3>1. KeptFrom(arrived[n]) \/ KeptFrom(arrived[m])
      BY <1>5, <2>4 DEF DedupInv, CopiesStayHidden
    <3> QED BY <3>1, <2>2, <1>1 DEF KeptFrom
  <2>5. CASE /\ run = dedupRun[p]
             /\ n \in deleted + 1 .. found[p] /\ m \in deleted + 1 .. found[p]
    <3>1. updates[p][arrived[n]] # NoValue \/ updates[p][arrived[m]] # NoValue
      BY <1>5, <2>5 DEF DedupInv, PassHides, DCommit
    <3> QED BY <3>1, <2>2, <1>1 DEF KeptFrom
  <2> QED BY <2>3, <2>4, <2>5
<1>6. CopiesStayHidden'
  BY <1>1, <1>5 DEF CopiesStayHidden, SamePage, KeptFrom
<1> QED BY <1>2, <1>3, <1>4, <1>6 DEF DedupInv

LEMMA LostStep ==
  ASSUME DedupInv, NEW p \in Passes, DLost(p)
  PROVE  DedupInv'
<1>1. DedupTypeOK'
  BY UnmarkedDown DEF DedupInv, DedupTypeOK, DLost, Forget, recordVars, readerVars
<1>2. MarksGoDown'
  BY UnmarkedDown DEF DedupInv, DedupTypeOK, MarksGoDown, Down, DLost, Forget, recordVars, readerVars
<1>3. ArriveOnce' /\ CopiesStayHidden'
  BY DEF DedupInv, ArriveOnce, CopiesStayHidden, SamePage, KeptFrom, DLost, recordVars
<1>4. PassHides'
  <2>1. /\ UNCHANGED <<info, arrived, deleted>>
        /\ dpc'[p] = "idle"
        /\ \A q \in Passes \ {p} : dpc'[q] = dpc[q] /\ dedupRun'[q] = dedupRun[q]
                                 /\ updates'[q] = updates[q] /\ found'[q] = found[q]
    BY DEF DedupInv, DedupTypeOK, DLost, Forget, recordVars, readerVars
  <2> QED BY <2>1 DEF DedupInv, PassHides, SamePage
<1> QED BY <1>1, <1>2, <1>3, <1>4 DEF DedupInv

LEMMA ArriveStep ==
  ASSUME DedupInv, NEW i \in Ids, DArrive(i)
  PROVE  DedupInv'
<1>1. /\ arrived' \in Seq(Ids) /\ Len(arrived') = Len(arrived) + 1
      /\ \A n \in 1 .. Len(arrived) : arrived'[n] = arrived[n]
      /\ arrived'[Len(arrived) + 1] = i
      /\ Len(arrived) \in Nat
  BY DEF DedupInv, DedupTypeOK, DArrive
<1>2. DedupTypeOK'
  BY <1>1 DEF DedupInv, DedupTypeOK, DArrive, passVars, readerVars
<1>3. MarksGoDown'
  BY DEF DedupInv, MarksGoDown, Down, DArrive, passVars, readerVars
<1>4. ArriveOnce'
  BY <1>1 DEF DedupInv, ArriveOnce, DArrive
<1>5. PassHides'
  <2>1. \A p \in Passes : found[p] \in 0 .. Len(arrived) /\ deleted \in Nat
    BY DEF DedupInv, DedupTypeOK
  <2>2. UNCHANGED <<info, deleted, dpc, dedupRun, updates, found>>
    BY DEF DArrive, passVars
  <2>3. ASSUME NEW q \in Passes, dpc[q] # "idle", NEW x \in deleted + 1 .. found[q],
               NEW y \in deleted + 1 .. found[q], x # y,
               SamePage(dedupRun[q], arrived'[x], arrived'[y])
        PROVE  updates[q][arrived'[x]] # NoValue \/ updates[q][arrived'[y]] # NoValue
    <3>1. arrived'[x] = arrived[x] /\ arrived'[y] = arrived[y]
      BY <1>1, <2>1
    <3> QED BY <2>3, <3>1 DEF DedupInv, PassHides
  <2> QED BY <2>2, <2>3 DEF PassHides, SamePage
<1>6. CopiesStayHidden'
  <2>1. \A r \in RunIds : swept[r] \in 0 .. Len(arrived) /\ deleted \in Nat
    BY DEF DedupInv, DedupTypeOK
  <2>2. UNCHANGED <<info, deleted, mark, cleared, swept>>
    BY DEF DArrive, passVars
  <2>3. ASSUME NEW run \in RunIds, NEW x \in deleted + 1 .. swept[run],
               NEW y \in deleted + 1 .. swept[run], x # y,
               SamePage(run, arrived'[x], arrived'[y])
        PROVE  KeptFrom(arrived'[x]) \/ KeptFrom(arrived'[y])
    <3>1. arrived'[x] = arrived[x] /\ arrived'[y] = arrived[y]
      BY <1>1, <2>1
    <3> QED BY <2>3, <3>1 DEF DedupInv, CopiesStayHidden
  <2> QED BY <2>2, <2>3 DEF CopiesStayHidden, SamePage, KeptFrom
<1> QED BY <1>2, <1>3, <1>4, <1>5, <1>6 DEF DedupInv

LEMMA RetentionStep ==
  ASSUME DedupInv, NEW n \in 1 .. Len(arrived), DRetention(n)
  PROVE  DedupInv'
<1>1. deleted' \in 0 .. Len(arrived) /\ deleted <= deleted' /\ deleted \in Nat /\ deleted' \in Nat
  BY DEF DedupInv, DedupTypeOK, DRetention
<1>2. DedupTypeOK' /\ MarksGoDown' /\ ArriveOnce'
  BY <1>1 DEF DedupInv, DedupTypeOK, MarksGoDown, Down, ArriveOnce, DRetention, passVars, readerVars
<1>3. \A x \in Nat : \A m \in deleted' + 1 .. x : m \in deleted + 1 .. x
  <2> SUFFICES ASSUME NEW x \in Nat, NEW m \in deleted' + 1 .. x
               PROVE  m \in deleted + 1 .. x
    OBVIOUS
  <2> DEFINE d == deleted
             e == deleted'
  <2>1. d \in Nat /\ e \in Nat /\ d <= e /\ m \in e + 1 .. x
    BY <1>1
  <2> HIDE DEF d, e
  <2>2. m \in d + 1 .. x
    BY <2>1
  <2> QED BY <2>2 DEF d
<1>4. PassHides'
  <2>1. \A p \in Passes : found[p] \in Nat
    BY DEF DedupInv, DedupTypeOK
  <2>2. UNCHANGED <<info, arrived, dpc, dedupRun, updates, found>>
    BY DEF DRetention, passVars
  <2>3. ASSUME NEW q \in Passes, dpc[q] # "idle", NEW x \in deleted' + 1 .. found[q],
               NEW y \in deleted' + 1 .. found[q], x # y,
               SamePage(dedupRun[q], arrived[x], arrived[y])
        PROVE  updates[q][arrived[x]] # NoValue \/ updates[q][arrived[y]] # NoValue
    <3>1. x \in deleted + 1 .. found[q] /\ y \in deleted + 1 .. found[q]
      BY <1>3, <2>1
    <3> QED BY <2>3, <3>1 DEF DedupInv, PassHides
  <2> QED BY <2>2, <2>3 DEF PassHides, SamePage
<1>5. CopiesStayHidden'
  <2>1. \A r \in RunIds : swept[r] \in Nat
    BY DEF DedupInv, DedupTypeOK
  <2>2. UNCHANGED <<info, arrived, mark, cleared, swept>>
    BY DEF DRetention, passVars
  <2>3. ASSUME NEW run \in RunIds, NEW x \in deleted' + 1 .. swept[run],
               NEW y \in deleted' + 1 .. swept[run], x # y,
               SamePage(run, arrived[x], arrived[y])
        PROVE  KeptFrom(arrived[x]) \/ KeptFrom(arrived[y])
    <3>1. x \in deleted + 1 .. swept[run] /\ y \in deleted + 1 .. swept[run]
      BY <1>3, <2>1
    <3> QED BY <2>3, <3>1 DEF DedupInv, CopiesStayHidden
  <2> QED BY <2>2, <2>3 DEF CopiesStayHidden, SamePage, KeptFrom
<1> QED BY <1>2, <1>4, <1>5 DEF DedupInv

\* A reader touches one mark, and brings back one that was there before.
LEMMA ReaderStep ==
  ASSUME DedupInv, NEW f \in Readers, (\E i \in Ids : DFetch(f, i)) \/ DWriteBack(f) \/ DNoPage(f)
  PROVE  DedupInv'
<1>0. /\ UNCHANGED <<info, arrived, deleted, dpc, dedupRun, updates, found, swept>>
      /\ mark \in [Ids -> Ids \cup {NoValue}] /\ cleared \subseteq Ids
      /\ fetching \in [Readers -> Ids \cup {NoValue}] /\ oldMark \in [Readers -> Ids \cup {NoValue}]
  BY DEF DedupInv, DedupTypeOK, DFetch, DWriteBack, DNoPage, recordVars, passVars
<1>1. ArriveOnce' /\ PassHides'
  BY <1>0 DEF DedupInv, ArriveOnce, PassHides, SamePage
<1>2. ASSUME NEW i \in Ids, DFetch(f, i) PROVE DedupInv'
  <2>1. /\ fetching' = [fetching EXCEPT ![f] = i] /\ oldMark' = [oldMark EXCEPT ![f] = mark[i]]
        /\ UNCHANGED <<mark, cleared>>
    BY <1>2 DEF DFetch, recordVars
  <2>2. DedupTypeOK'
    BY <1>0, <2>1 DEF DedupInv, DedupTypeOK
  <2>3. MarksGoDown'
    BY <1>0, <2>1 DEF DedupInv, MarksGoDown, Down
  <2>4. CopiesStayHidden'
    BY <1>0, <2>1 DEF DedupInv, CopiesStayHidden, SamePage, KeptFrom
  <2> QED BY <1>1, <2>2, <2>3, <2>4 DEF DedupInv
<1>3. CASE DNoPage(f)
  <2>1. FetchOver(f) /\ UNCHANGED <<mark, cleared>>
    BY <1>3 DEF DNoPage, recordVars
  <2>2. DedupTypeOK'
    BY <1>0, <2>1 DEF DedupInv, DedupTypeOK, FetchOver
  <2>3. MarksGoDown'
    BY <1>0, <2>1 DEF DedupInv, MarksGoDown, Down, FetchOver
  <2>4. CopiesStayHidden'
    BY <1>0, <2>1 DEF DedupInv, CopiesStayHidden, SamePage, KeptFrom
  <2> QED BY <1>1, <2>2, <2>3, <2>4 DEF DedupInv
<1>4. CASE DWriteBack(f)
  <2> DEFINE i == fetching[f]
  <2>1. /\ FetchOver(f) /\ i \in Ids
        /\ \A j \in Ids : mark'[j] \in {mark[j], IF j = i THEN oldMark[f] ELSE mark[j]}
        /\ mark' \in [Ids -> Ids \cup {NoValue}]
        /\ \A j \in Ids \ {i} : mark'[j] = mark[j]
        /\ cleared' = {j \in cleared \cup {k \in {i} : mark[k] # NoValue} : mark'[j] = NoValue}
    BY <1>0, <1>4 DEF DWriteBack, Shown
  <2>2. DedupTypeOK'
    <3>1. cleared' \subseteq Ids
      BY <1>0, <2>1
    <3> QED BY <1>0, <2>1, <3>1 DEF DedupInv, DedupTypeOK, FetchOver
  <2>3. MarksGoDown'
    <3>1. oldMark[f] # NoValue => oldMark[f] \in Ids /\ oldMark[f] < i
      BY <1>0, <2>1, DedupAssumption DEF DedupInv, MarksGoDown
    <3>2. Down(mark)'
      BY <2>1, <3>1 DEF DedupInv, MarksGoDown, Down
    <3>3. \A g \in Readers : fetching'[g] # NoValue => fetching'[g] = fetching[g] /\ oldMark'[g] = oldMark[g]
      BY <1>0, <2>1 DEF FetchOver
    <3> QED BY <1>0, <3>2, <3>3 DEF DedupInv, MarksGoDown, Down
  <2>4. \A j \in Ids : KeptFrom(j) => KeptFrom(j)'
    BY <2>1 DEF KeptFrom
  <2>5. \A run \in RunIds : \A n \in deleted + 1 .. swept[run] : arrived[n] \in Ids
    BY DEF DedupInv, DedupTypeOK
  <2>6. CopiesStayHidden'
    <3>1. ASSUME NEW run \in RunIds, NEW n \in deleted + 1 .. swept[run],
                 NEW m \in deleted + 1 .. swept[run],
                 n # m, SamePage(run, arrived[n], arrived[m])
          PROVE  KeptFrom(arrived[n])' \/ KeptFrom(arrived[m])'
      <4>1. KeptFrom(arrived[n]) \/ KeptFrom(arrived[m])
        BY <3>1 DEF DedupInv, CopiesStayHidden
      <4>2. arrived[n] \in Ids /\ arrived[m] \in Ids /\ arrived' = arrived
        BY <1>0, <2>5
      <4> HIDE DEF KeptFrom
      <4>3. ASSUME NEW j \in Ids, KeptFrom(j) PROVE mark'[j] # NoValue \/ j \in cleared'
        BY <2>4, <4>3 DEF KeptFrom
      <4> QED BY <4>1, <4>2, <4>3 DEF KeptFrom
    <3> QED BY <1>0, <3>1 DEF CopiesStayHidden, SamePage, KeptFrom
  <2> QED BY <1>1, <2>2, <2>3, <2>6 DEF DedupInv
<1> QED BY <1>2, <1>3, <1>4

LEMMA DedupSteps == DedupInv /\ [DedupNext]_dedupVars => DedupInv'
<1> SUFFICES ASSUME DedupInv, [DedupNext]_dedupVars PROVE DedupInv'
  OBVIOUS
<1>1. CASE UNCHANGED dedupVars
  BY <1>1 DEF DedupInv, DedupTypeOK, MarksGoDown, Down, ArriveOnce, PassHides, CopiesStayHidden,
              SamePage, KeptFrom, dedupVars, recordVars, readerVars, passVars
<1>2. CASE \E p \in Passes : \E run \in RunIds : DPages(p, run)
  BY <1>2, PagesStep
<1>3. CASE \E p \in Passes : DTexts(p) \/ DCommit(p) \/ DLost(p)
  BY <1>3, TextsStep, CommitStep, LostStep
<1>4. CASE \E i \in Ids : DArrive(i)
  BY <1>4, ArriveStep
<1>5. CASE \E n \in 1 .. Len(arrived) : DRetention(n)
  BY <1>5, RetentionStep
<1>6. CASE \E f \in Readers : (\E i \in Ids : DFetch(f, i)) \/ DWriteBack(f) \/ DNoPage(f)
  BY <1>6, ReaderStep
<1> HIDE DEF DedupInv
<1> QED BY <1>1, <1>2, <1>3, <1>4, <1>5, <1>6 DEF DedupNext

LEMMA DedupSafe == DedupSpec => []DedupInv
<1> QED BY InitInv, DedupSteps, PTL DEF DedupSpec

-----------------------------------------------------------------------------
(* Theorems *)

\* Every record, mark and pass is one the code can produce.
THEOREM DedupTypes == DedupSpec => []DedupTypeOK
<1>1. DedupInv => DedupTypeOK
  BY DEF DedupInv
<1> QED BY <1>1, DedupSafe, PTL

\* No overlap of passes and fetched pages hides every copy: of any set of records that the marks
\* do not lead out of, one is shown, however many passes, records and runs.
THEOREM OneIsShown == DedupSpec => []OneCopyShown
<1>1. DedupInv => OneCopyShown
  <2> SUFFICES ASSUME DedupInv, NEW S \in SUBSET Stored, S # {},
                      \A i \in S : mark[i] # NoValue => mark[i] \in S
               PROVE  \E i \in S : mark[i] = NoValue
    BY DEF OneCopyShown
  <2>1. S \in SUBSET Ids
    BY StoredIds DEF DedupInv
  <2>2. PICK i \in S : \A j \in S : i <= j
    BY <2>1, LowestExists
  <2>3. ASSUME mark[i] # NoValue
        PROVE  FALSE
    <3>1. mark[i] \in S /\ mark[i] < i /\ i <= mark[i]
      BY <2>1, <2>2, <2>3 DEF DedupInv, MarksGoDown, Down
    <3>2. i \in Nat /\ mark[i] \in Nat
      BY <2>1, <3>1, DedupAssumption
    <3> QED BY <3>1, <3>2
  <2> QED BY <2>3
<1> QED BY <1>1, DedupSafe, PTL

\* No later pass, and no deletion, shows again what a committed pass has
\* hidden: only a fetched page does that, until the next pass that marks it.
THEOREM HiddenStay == DedupSpec => []CopiesStayHidden
<1>1. DedupInv => CopiesStayHidden
  BY DEF DedupInv
<1> QED BY <1>1, DedupSafe, PTL

-----------------------------------------------------------------------------
(* The composition *)

\* The composition that TLC runs has no behaviours of its own: each component
\* behaves in it as it does alone.
THEOREM SharersAreFree ==
  CollectSpec => LimiterSpec /\ PoolSpec /\ CoverageSpec /\ DedupSpec
<1>1. CollectInit => LimiterInit /\ PoolInit /\ CoverageInit /\ DedupInit
  BY DEF CollectInit
<1>2. [CollectNext]_collectVars =>
        /\ [LimiterNext]_limiterVars /\ [PoolNext]_poolVars
        /\ [CoverageNext]_coverageVars /\ [DedupNext]_dedupVars
  BY DEF CollectNext, collectVars, LimiterStep, PoolStep, CoverageStep, DedupStep
<1> QED BY <1>1, <1>2, PTL DEF CollectSpec, LimiterSpec, PoolSpec, CoverageSpec, DedupSpec

CollectParts == {"limiter", "pool", "coverage", "dedup"}

\* Every entry, counter, row and program counter is one the code can produce,
\* for any number of jobs, credentials, posts and records.
THEOREM CollectTyped == CollectSpec => []CollectTypeOK
<1>1. CollectInit => part \in CollectParts
  BY DEF CollectInit, CollectParts
<1>2. part \in CollectParts /\ [CollectNext]_collectVars => (part \in CollectParts)'
  BY DEF CollectNext, collectVars
<1>3. CollectSpec => [](part \in CollectParts)
  BY <1>1, <1>2, PTL DEF CollectSpec
<1>4. part \in CollectParts /\ LimiterTypeOK /\ PoolTypeOK /\ CoverageTypeOK /\ DedupTypeOK => CollectTypeOK
  BY DEF CollectParts, CollectTypeOK
<1> QED
  BY <1>3, <1>4, SharersAreFree, LimiterTyped, PoolTyped, CoverageTyped, DedupTypes, PTL

================================================================================
