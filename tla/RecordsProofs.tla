----------------------------- MODULE RecordsProofs -----------------------------
(***************************************************************************)
(* Proofs about RecordText, ScrapingJob and Enrichment.                     *)
(*                                                                         *)
(* The collected text is never lost, for any number of requests and jobs: a *)
(* row and a stale copy of it are alike in what matters.  As long as the text*)
(* is the collected one, neither place for an earlier text is taken, so     *)
(* whoever replaces it finds a place to keep it.                            *)
(*                                                                         *)
(* A running job is worked on, for any number of requests to cancel it.     *)
(*                                                                         *)
(* A task over a run covers it: what lies behind its offset is settled, or on*)
(* the page it is writing, because the list it pages through only grows.  The*)
(* list of a nightly task shrinks: what it steps over is outweighed by what *)
(* was enriched in the meantime, whoever did it.                            *)
(***************************************************************************)
EXTENDS RecordText, ScrapingJob, Enrichment, FiniteSetTheorems, TLAPS

\* The inductive invariant, of the row and of every copy.
Keeps(row) ==
  /\ "collected" \in {row.body, row.snippet, row.summary}
  /\ row.body = "collected" => row.snippet = NoText /\ row.summary = NoText

TextInv == TextTypeOK /\ Keeps(Row) /\ \A f \in Fetches : Keeps(copy[f])

LEMMA InitKeeps == TextInit => TextInv
<1> SUFFICES ASSUME TextInit PROVE TextInv
  OBVIOUS
<1>1. Row \in RowTypes
  BY DEF TextInit, Row, RowTypes, Texts
<1>2. Keeps(Row)
  BY DEF TextInit, Row, Keeps
<1> QED BY <1>1, <1>2 DEF TextInit, TextInv, TextTypeOK

LEMMA StepKeeps == TextInv /\ [TextNext]_textVars => TextInv'
<1> SUFFICES ASSUME TextInv, [TextNext]_textVars PROVE TextInv'
  OBVIOUS
<1> USE TextAssumption
<1>1. ASSUME NEW f \in Fetches, FRead(f)
      PROVE  TextInv'
  BY <1>1 DEF FRead, TextInv, TextTypeOK, Row, Keeps
<1>2. ASSUME NEW f \in Fetches, FNothing(f)
      PROVE  TextInv'
  BY <1>2 DEF FNothing, TextInv, TextTypeOK, Row, Keeps
<1>3. ASSUME NEW f \in Fetches, FWrite(f)
      PROVE  TextInv'
  <2>1. copy[f] \in RowTypes /\ Keeps(copy[f])
    BY DEF TextInv, TextTypeOK
  <2>2. Row' \in RowTypes
    BY <1>3, <2>1 DEF FWrite, Row, RowTypes, Texts
  <2>3. Keeps(Row)'
    BY <1>3, <2>1 DEF FWrite, Row, Keeps
  <2> QED BY <1>3, <2>2, <2>3 DEF FWrite, TextInv, TextTypeOK
<1>4. ASSUME NEW s \in Scrapes, Scrape(s)
      PROVE  TextInv'
  <2>1. Row' \in RowTypes
    BY <1>4 DEF Scrape, TextInv, TextTypeOK, Row, RowTypes, Texts
  <2>2. Keeps(Row)'
    BY <1>4 DEF Scrape, TextInv, Row, Keeps
  <2> QED BY <1>4, <2>1, <2>2 DEF Scrape, TextInv, TextTypeOK
<1>5. ASSUME NEW k \in MetaKeys, Add(k)
      PROVE  TextInv'
  <2>1. Row' \in RowTypes
    BY <1>5 DEF Add, TextInv, TextTypeOK, Row, RowTypes
  <2>2. Keeps(Row)'
    BY <1>5 DEF Add, TextInv, Row, Keeps
  <2> QED BY <1>5, <2>1, <2>2 DEF Add, TextInv, TextTypeOK
<1>6. CASE UNCHANGED textVars
  BY <1>6 DEF textVars, TextInv, TextTypeOK, Row
<1> QED BY <1>1, <1>2, <1>3, <1>4, <1>5, <1>6 DEF TextNext

-----------------------------------------------------------------------------
(* What is kept *)

\* Every row, copy and step is one the code can produce.
THEOREM TextTypes == TextSpec => []TextTypeOK
<1>1. TextInv => TextTypeOK
  BY DEF TextInv
<1> QED BY <1>1, InitKeeps, StepKeeps, PTL DEF TextSpec

\* Whatever requests and jobs overlap, the collected text stays in the row.
THEOREM TextIsKept == TextSpec => []CollectedTextKept
<1>1. TextInv => CollectedTextKept
  BY DEF TextInv, Keeps, Row, CollectedTextKept
<1> QED BY <1>1, InitKeeps, StepKeeps, PTL DEF TextSpec

-----------------------------------------------------------------------------
(* The job *)

\* The inductive invariant: an id is stored by the task that has started, and
\* only a stored id is revoked, so that a revoked task cannot start again; a
\* request that has not sent its cancelling task has none.
JobInv ==
  /\ ScrapeTypeOK
  /\ \A x \in Cancels : xpc[x] \in {"idle", "send"} => cpc[x] = "unsent"
  /\ scrapeFaults = 0 =>
       /\ revoked => taskKnown
       /\ taskKnown => spc \notin {"unsent", "queued", "loaded"}
       /\ jobStatus = "running" =>
            \/ spc \in {"scraping", "raised"} /\ ~revoked
            \/ \E x \in Cancels : cpc[x] = "mark"

LEMMA InitJob == ScrapeInit => JobInv
<1> SUFFICES ASSUME ScrapeInit PROVE JobInv
  OBVIOUS
<1>1. xpc \in [Cancels -> {"idle", "send", "commit", "done"}]
  BY DEF ScrapeInit
<1>2. cpc \in [Cancels -> {"unsent", "queued", "mark", "done"}]
  BY DEF ScrapeInit
<1>3. scrapeFaults \in 0 .. MaxScrapeFaults
  BY ScrapeAssumption DEF ScrapeInit
<1>4. ScrapeTypeOK
  BY <1>1, <1>2, <1>3 DEF ScrapeInit, ScrapeTypeOK
<1> QED BY <1>4 DEF ScrapeInit, JobInv

LEMMA TypeStep == ScrapeTypeOK /\ [ScrapeNext]_scrapeVars => ScrapeTypeOK'
<1> SUFFICES ASSUME ScrapeTypeOK, [ScrapeNext]_scrapeVars PROVE ScrapeTypeOK'
  OBVIOUS
<1> USE ScrapeAssumption DEF ScrapeTypeOK, jobCancelVars, JobEnded
<1>1. CASE SCreate \/ SCreateUnsent
  BY <1>1 DEF SCreate, SCreateUnsent, ScrapeFault
<1>2. CASE SLoad \/ SRaise \/ SLoadFails \/ SKilled
  BY <1>2 DEF SLoad, SRaise, SLoadFails, SKilled, ScrapeFault
<1>3. CASE SStart \/ SComplete \/ SFailed \/ SDelete
  BY <1>3 DEF SStart, SComplete, SFailed, SDelete, Update
<1>4. CASE SLost
  <2>1. revoked' \in BOOLEAN
    BY <1>4, Zenon DEF SLost
  <2> QED BY <1>4, <2>1 DEF SLost, ScrapeFault
<1>5. CASE SUpdateLost
  BY <1>5 DEF SUpdateLost, ScrapeFault
<1>6. ASSUME NEW x \in Cancels, XLook(x) \/ XSend(x) \/ XCommit(x)
      PROVE  ScrapeTypeOK'
  BY <1>6 DEF XLook, XSend, XCommit, Update
<1>7. ASSUME NEW x \in Cancels, KMark(x)
      PROVE  ScrapeTypeOK'
  BY <1>7 DEF KMark, Update
<1>8. ASSUME NEW x \in Cancels, KRevoke(x)
      PROVE  ScrapeTypeOK'
  <2>1. revoked' \in BOOLEAN
    BY <1>8, Zenon DEF KRevoke
  <2> QED BY <1>8, <2>1 DEF KRevoke
<1>9. ASSUME NEW x \in Cancels, CancelLost(x)
      PROVE  ScrapeTypeOK'
  BY <1>9 DEF CancelLost, ScrapeFault
<1>10. CASE UNCHANGED scrapeVars
  BY <1>10 DEF scrapeVars
<1> QED BY <1>1, <1>2, <1>3, <1>4, <1>5, <1>6, <1>7, <1>8, <1>9, <1>10
        DEF ScrapeNext, ScrapeTask, CancelTask

\* A fault is counted, so the steps without one are the other ones.
LEMMA Counted == ScrapeTypeOK /\ ScrapeFault => scrapeFaults' # 0
  BY ScrapeAssumption DEF ScrapeTypeOK, ScrapeFault

LEMMA SentOnce ==
  JobInv /\ [ScrapeNext]_scrapeVars =>
    \A x \in Cancels : xpc'[x] \in {"idle", "send"} => cpc'[x] = "unsent"
<1> SUFFICES ASSUME JobInv, [ScrapeNext]_scrapeVars, NEW x \in Cancels,
                    xpc'[x] \in {"idle", "send"}
             PROVE  cpc'[x] = "unsent"
  OBVIOUS
<1> USE DEF JobInv, ScrapeTypeOK
<1>1. ASSUME NEW z \in Cancels, XLook(z) \/ XSend(z) \/ XCommit(z)
      PROVE  cpc'[x] = "unsent"
  BY <1>1 DEF XLook, XSend, XCommit
<1>2. ASSUME NEW z \in Cancels, KRevoke(z) \/ KMark(z)
      PROVE  cpc'[x] = "unsent"
  BY <1>2 DEF KRevoke, KMark
<1>3. ASSUME NEW z \in Cancels, CancelLost(z)
      PROVE  cpc'[x] = "unsent"
  BY <1>3 DEF CancelLost
<1>4. CASE UNCHANGED jobCancelVars
  BY <1>4 DEF jobCancelVars
<1> QED
  BY <1>1, <1>2, <1>3, <1>4
     DEF ScrapeNext, ScrapeTask, CancelTask, SCreate, SCreateUnsent, SLoad, SStart, SComplete,
         SRaise, SLoadFails, SFailed, SKilled, SLost, SUpdateLost, SDelete, jobCancelVars, scrapeVars

LEMMA JobStep == JobInv /\ [ScrapeNext]_scrapeVars => JobInv'
<1> SUFFICES ASSUME JobInv, [ScrapeNext]_scrapeVars, scrapeFaults' = 0
             PROVE  /\ revoked' => taskKnown'
                    /\ taskKnown' => spc' \notin {"unsent", "queued", "loaded"}
                    /\ jobStatus' = "running" =>
                         \/ spc' \in {"scraping", "raised"} /\ ~revoked'
                         \/ \E x \in Cancels : cpc'[x] = "mark"
  BY TypeStep, SentOnce DEF JobInv
<1> USE ScrapeAssumption DEF JobInv, ScrapeTypeOK, jobCancelVars, Update, JobEnded
<1>1. CASE SCreate \/ SLoad \/ SRaise \/ SDelete
  BY <1>1 DEF SCreate, SLoad, SRaise, SDelete
<1>2. CASE SStart
  <2>1. ~taskKnown /\ ~revoked
    BY <1>2 DEF SStart
  <2>2. spc' = "scraping" /\ revoked' = revoked
    BY <1>2 DEF SStart
  <2> QED BY <2>1, <2>2
<1>3. CASE SComplete \/ SFailed \/ SKilled
  BY <1>3 DEF SComplete, SFailed, SKilled
<1>4. CASE \/ SCreateUnsent \/ SLoadFails \/ SLost \/ SUpdateLost
           \/ \E x \in Cancels : CancelLost(x)
  <2>1. ~ScrapeFault
    BY Counted
  <2> QED BY <1>4, <2>1 DEF SCreateUnsent, SLoadFails, SLost, SUpdateLost, CancelLost
<1>5. ASSUME NEW x \in Cancels, XLook(x) \/ XSend(x) \/ XCommit(x)
      PROVE  /\ revoked' => taskKnown'
             /\ taskKnown' => spc' \notin {"unsent", "queued", "loaded"}
             /\ jobStatus' = "running" =>
                  \/ spc' \in {"scraping", "raised"} /\ ~revoked'
                  \/ \E y \in Cancels : cpc'[y] = "mark"
  <2>1. \A y \in Cancels : cpc[y] = "mark" => cpc'[y] = "mark"
    <3>1. CASE XSend(x)
      BY <3>1 DEF XSend
    <3> QED BY <1>5, <3>1 DEF XLook, XCommit
  <2> QED BY <1>5, <2>1 DEF XLook, XSend, XCommit
<1>6. ASSUME NEW x \in Cancels, KRevoke(x)
      PROVE  /\ revoked' => taskKnown'
             /\ taskKnown' => spc' \notin {"unsent", "queued", "loaded"}
             /\ cpc'[x] = "mark"
  BY <1>6 DEF KRevoke
<1>7. ASSUME NEW x \in Cancels, KMark(x)
      PROVE  /\ revoked' => taskKnown'
             /\ taskKnown' => spc' \notin {"unsent", "queued", "loaded"}
             /\ jobStatus' # "running"
  BY <1>7 DEF KMark
<1>8. CASE UNCHANGED scrapeVars
  BY <1>8 DEF scrapeVars
<1> QED
  BY <1>1, <1>2, <1>3, <1>4, <1>5, <1>6, <1>7, <1>8 DEF ScrapeNext, ScrapeTask, CancelTask

-----------------------------------------------------------------------------
(* Theorems *)

\* Every row, message and step is one the code can produce.
THEOREM ScrapeTypes == ScrapeSpec => []ScrapeTypeOK
<1>1. ScrapeInit => ScrapeTypeOK
  BY InitJob DEF JobInv
<1> QED BY <1>1, TypeStep, PTL DEF ScrapeSpec

\* A running job has somebody to end it, however many requests cancel it.
THEOREM RunningJobs == ScrapeSpec => []RunningIsWorkedOn
<1>1. JobInv => RunningIsWorkedOn
  BY DEF JobInv, RunningIsWorkedOn
<1> QED BY <1>1, InitJob, JobStep, PTL DEF ScrapeSpec

-----------------------------------------------------------------------------
(* Pages of a finite set of numbers *)

\* How many come before r, and those with fewer than n before them.
Rank(r, S) == Cardinality({s \in S : s < r})
First(n, S) == {r \in S : Rank(r, S) < n}

\* The records before the first of D are a smallest such set.
LEMMA LeastOf ==
  ASSUME NEW S, S \subseteq Nat, IsFiniteSet(S), NEW D, D \subseteq S, D # {}
  PROVE  \E r \in D : \A s \in D : r <= s
<1> DEFINE Before(r) == {s \in S : s < r}
           All == {Before(r) : r \in D}
<1>1. All # {} /\ All \subseteq FiniteSubsetsOf(S)
  <2>1. FiniteSubsetsOf(S) = SUBSET S
    BY FS_FiniteSubsetsOfFinite
  <2>2. All \subseteq SUBSET S /\ All # {}
    OBVIOUS
  <2> HIDE DEF All
  <2> QED BY <2>1, <2>2
<1>2. \E T \in All : \A U \in All : <<U, T>> \notin StrictSubsetOrdering(S)
  <2> HIDE DEF All
  <2> QED BY <1>1, FS_StrictSubsetOrderingWellFounded, WFMin
<1>3. PICK r \in D : \A q \in D : <<Before(q), Before(r)>> \notin StrictSubsetOrdering(S)
  BY <1>2
<1>4. ASSUME NEW q \in D, q < r
      PROVE  FALSE
  <2>1. q \in Nat /\ r \in Nat /\ q \in S
    OBVIOUS
  <2>2. q \in Before(r) /\ q \notin Before(q)
    BY <1>4, <2>1
  <2>3. ASSUME NEW s \in Before(q) PROVE s \in Before(r)
    <3>1. s \in S /\ s \in Nat /\ s < q BY <2>3
    <3> QED BY <1>4, <2>1, <3>1
  <2>4. Before(q) \in SUBSET S /\ Before(r) \in SUBSET S
    OBVIOUS
  <2> HIDE DEF Before
  <2>5. <<Before(q), Before(r)>> \in StrictSubsetOrdering(S)
    BY <2>2, <2>3, <2>4 DEF StrictSubsetOrdering
  <2> QED BY <1>3, <2>5
<1>5. \A q \in D : q \in Nat /\ r \in Nat
  OBVIOUS
<1> QED BY <1>4, <1>5

LEMMA RankType ==
  ASSUME NEW S, S \subseteq Nat, IsFiniteSet(S), NEW r \in Nat
  PROVE  Rank(r, S) \in Nat /\ IsFiniteSet({s \in S : s < r})
BY FS_Subset, FS_CardinalityType DEF Rank

LEMMA RankGrows ==
  ASSUME NEW S, S \subseteq Nat, IsFiniteSet(S), NEW r \in S, NEW q \in S, r < q
  PROVE  Rank(r, S) < Rank(q, S)
<1> DEFINE A == {s \in S : s < r}
           B == {s \in S : s < q}
<1>0. r \in Nat /\ q \in Nat
  OBVIOUS
<1>1. A \cup {r} \subseteq B /\ r \notin A
  <2>1. ASSUME NEW s \in A PROVE s \in B
    <3>1. s \in Nat /\ s < r /\ s \in S OBVIOUS
    <3> QED BY <1>0, <3>1
  <2>2. r \in B /\ r \notin A
    BY <1>0
  <2> QED BY <2>1, <2>2
<1>2. IsFiniteSet(A) /\ IsFiniteSet(B) /\ Cardinality(A) \in Nat /\ Cardinality(B) \in Nat
  BY RankType, FS_CardinalityType
<1> HIDE DEF A, B
<1>3. Cardinality(A \cup {r}) = Cardinality(A) + 1
  BY <1>1, <1>2, FS_AddElement
<1>4. Cardinality(A \cup {r}) <= Cardinality(B)
  BY <1>1, <1>2, FS_Subset
<1>5. Cardinality(A) < Cardinality(B)
  BY <1>2, <1>3, <1>4
<1> QED BY <1>5 DEF A, B, Rank

LEMMA FirstFew ==
  ASSUME NEW S, S \subseteq Nat, IsFiniteSet(S), NEW n \in Nat
  PROVE  /\ IsFiniteSet(First(n, S)) /\ First(n, S) \subseteq S
         /\ Cardinality(First(n, S)) \in Nat /\ Cardinality(First(n, S)) <= n
         /\ First(n, S) = S \/ Cardinality(First(n, S)) = n
<1> DEFINE F == First(n, S)
<1>1. F \subseteq S
  BY DEF First
<1>2. IsFiniteSet(F)
  BY <1>1, FS_Subset
<1>3. Cardinality(F) \in Nat
  BY <1>2, FS_CardinalityType
<1>4. Cardinality(F) <= n
  <2> DEFINE place == [r \in F |-> Rank(r, S)]
  <2>1. ASSUME NEW r \in F PROVE Rank(r, S) \in 0 .. n - 1
    <3>1. r \in S /\ Rank(r, S) < n BY DEF First
    <3>2. Rank(r, S) \in Nat BY <3>1, RankType
    <3> QED BY <3>1, <3>2
  <2>2. ASSUME NEW r \in F, NEW q \in F, r # q PROVE Rank(r, S) # Rank(q, S)
    <3>1. r \in S /\ q \in S /\ r \in Nat /\ q \in Nat
      BY DEF First
    <3>2. Rank(r, S) \in Nat /\ Rank(q, S) \in Nat
      BY <3>1, RankType
    <3>3. r < q => Rank(r, S) < Rank(q, S) BY <3>1, RankGrows
    <3>4. q < r => Rank(q, S) < Rank(r, S) BY <3>1, RankGrows
    <3> QED BY <2>2, <3>1, <3>2, <3>3, <3>4
  <2> HIDE DEF F
  <2>3. place \in Injection(F, 0 .. n - 1)
    BY <2>1, <2>2 DEF Injection, IsInjective
  <2>4. IsFiniteSet(0 .. n - 1) /\ Cardinality(0 .. n - 1) = n
    BY FS_Interval
  <2> HIDE DEF place
  <2> QED BY <2>3, <2>4, FS_Injection
<1>5. ASSUME F # S PROVE Cardinality(F) = n
  <2>1. S \ F # {} /\ S \ F \subseteq S
    BY <1>1, <1>5
  <2>2. PICK r \in S \ F : \A s \in S \ F : r <= s
    BY <2>1, LeastOf
  <2>3. Rank(r, S) \in Nat /\ Rank(r, S) >= n
    <3>1. Rank(r, S) \in Nat BY <2>2, RankType
    <3>2. ~(Rank(r, S) < n) BY <2>2 DEF First
    <3> QED BY <3>1, <3>2
  <2>4. {s \in S : s < r} \subseteq F
    <3> SUFFICES ASSUME NEW s \in S, s < r, s \notin F PROVE FALSE
      OBVIOUS
    <3>1. r <= s /\ r \in Nat /\ s \in Nat BY <2>2
    <3> QED BY <3>1
  <2>5. Rank(r, S) <= Cardinality(F)
    BY <1>2, <2>4, FS_Subset DEF Rank
  <2> HIDE DEF F
  <2> QED BY <1>3, <1>4, <2>3, <2>5
<1> QED BY <1>1, <1>2, <1>3, <1>4, <1>5

\* A page follows the records before it; it is not longer than PageSize, and
\* only the last one is shorter; and it ends with the records at the latest.
LEMMA PageFollows ==
  ASSUME NEW S, S \subseteq Nat, IsFiniteSet(S), NEW n \in Nat
  PROVE  LET P == PageAt(S, n) IN
         /\ P \subseteq S /\ IsFiniteSet(P) /\ Cardinality(P) \in Nat /\ Cardinality(P) <= PageSize
         /\ \A m \in Nat : m <= n + Cardinality(P) => First(m, S) \subseteq First(n, S) \cup P
         /\ Cardinality(P) < PageSize => S \subseteq First(n, S) \cup P
         /\ P # {} => n + Cardinality(P) <= Cardinality(S)
<1> DEFINE P == PageAt(S, n)
           F == First(n, S)
           G == First(n + PageSize, S)
<1>0. PageSize \in Nat \ {0}
  BY EnrichmentAssumption
<1>1. \A r \in S : Rank(r, S) \in Nat
  BY RankType
<1>2. P = G \ F /\ F \subseteq G
  <2>1. \A r \in S : r \in P <=> Rank(r, S) \in n .. (n + PageSize - 1)
    BY DEF PageAt, Rank
  <2>2. \A r \in S : r \in P <=> Rank(r, S) >= n /\ Rank(r, S) < n + PageSize
    BY <1>0, <1>1, <2>1
  <2>3. P \subseteq S
    BY DEF PageAt
  <2>4. \A r \in S : r \in P <=> r \in G /\ r \notin F
    BY <1>0, <1>1, <2>2 DEF First
  <2>5. \A r \in S : r \in F => r \in G
    BY <1>0, <1>1 DEF First
  <2>6. F \subseteq S /\ G \subseteq S
    BY DEF First
  <2> HIDE DEF P, F, G
  <2> QED BY <2>3, <2>4, <2>5, <2>6
<1>3. /\ IsFiniteSet(F) /\ F \subseteq S /\ Cardinality(F) \in Nat /\ Cardinality(F) <= n
      /\ F = S \/ Cardinality(F) = n
  BY FirstFew
<1>4. /\ IsFiniteSet(G) /\ G \subseteq S /\ Cardinality(G) \in Nat /\ Cardinality(G) <= n + PageSize
      /\ G = S \/ Cardinality(G) = n + PageSize
  <2>1. n + PageSize \in Nat BY <1>0
  <2> QED BY <2>1, FirstFew
<1>5. \A m \in Nat : m <= n + PageSize => First(m, S) \subseteq G
  <2> SUFFICES ASSUME NEW m \in Nat, m <= n + PageSize, NEW r \in First(m, S) PROVE r \in G
    OBVIOUS
  <2>1. r \in S /\ Rank(r, S) < m /\ Rank(r, S) \in Nat
    BY <1>1 DEF First
  <2>2. Rank(r, S) < n + PageSize
    BY <1>0, <2>1
  <2> QED BY <2>1, <2>2 DEF First
<1> HIDE DEF P, F, G
<1>6. P \subseteq S /\ IsFiniteSet(P) /\ Cardinality(P) \in Nat
  BY <1>2, <1>4, FS_Subset, FS_CardinalityType
<1>7. Cardinality(G) = Cardinality(F) + Cardinality(P)
  <2>1. F \cup P = G /\ F \cap P = {}
    BY <1>2
  <2>2. Cardinality(F \cup P) = Cardinality(G) /\ Cardinality(F \cap P) = Cardinality({})
    BY <2>1, Zenon
  <2>3. Cardinality(F \cup P) = Cardinality(F) + Cardinality(P) - Cardinality(F \cap P)
    BY <1>3, <1>6, FS_Union
  <2>4. Cardinality({}) = 0
    BY FS_EmptySet
  <2> QED BY <1>3, <1>6, <2>2, <2>3, <2>4
<1>8. Cardinality(P) <= PageSize
  <2>1. CASE F = S
    <3>1. P = {} BY <1>2, <1>4, <2>1
    <3> QED BY <1>0, <3>1, FS_EmptySet
  <2>2. CASE Cardinality(F) = n
    BY <1>0, <1>4, <1>6, <1>7, <2>2
  <2> QED BY <1>3, <2>1, <2>2
<1>9. ASSUME Cardinality(P) < PageSize PROVE S \subseteq F \cup P
  <2>1. Cardinality(G) # n + PageSize
    BY <1>0, <1>3, <1>6, <1>7, <1>9
  <2> QED BY <1>2, <1>4, <2>1
<1>10. ASSUME NEW m \in Nat, m <= n + Cardinality(P) PROVE First(m, S) \subseteq F \cup P
  <2>1. m <= n + PageSize
    BY <1>0, <1>6, <1>8, <1>10
  <2> QED BY <1>2, <1>5, <2>1
<1>11. ASSUME P # {} PROVE n + Cardinality(P) <= Cardinality(S)
  <2>1. F # S BY <1>2, <1>4, <1>11
  <2>2. Cardinality(F) = n BY <1>3, <2>1
  <2>3. Cardinality(G) <= Cardinality(S) BY <1>4, FS_Subset
  <2> QED BY <1>7, <2>2, <2>3
<1>12. /\ P \subseteq S /\ IsFiniteSet(P) /\ Cardinality(P) \in Nat /\ Cardinality(P) <= PageSize
       /\ \A m \in Nat : m <= n + Cardinality(P) => First(m, S) \subseteq F \cup P
       /\ Cardinality(P) < PageSize => S \subseteq F \cup P
       /\ P # {} => n + Cardinality(P) <= Cardinality(S)
  BY <1>6, <1>8, <1>9, <1>10, <1>11
<1> QED BY <1>12 DEF P, F

\* More records move the others on.
LEMMA FirstOfMore ==
  ASSUME NEW S, S \subseteq Nat, IsFiniteSet(S), NEW T, T \subseteq S, NEW n \in Nat
  PROVE  First(n, S) \cap T \subseteq First(n, T)
<1> SUFFICES ASSUME NEW r \in First(n, S), r \in T PROVE r \in First(n, T)
  OBVIOUS
<1>1. IsFiniteSet({s \in S : s < r}) /\ Rank(r, S) \in Nat /\ Rank(r, S) < n
  BY RankType DEF First
<1>2. {s \in T : s < r} \subseteq {s \in S : s < r}
  OBVIOUS
<1>3. Rank(r, T) <= Rank(r, S)
  BY <1>1, <1>2, FS_Subset DEF Rank
<1>4. IsFiniteSet(T)
  BY FS_Subset
<1>5. Rank(r, T) \in Nat
  BY <1>4, RankType
<1> QED BY <1>1, <1>3, <1>5 DEF First

LEMMA FirstOfNone ==
  ASSUME NEW S, S \subseteq Nat, IsFiniteSet(S)
  PROVE  First(0, S) = {}
<1>1. \A r \in S : Rank(r, S) \in Nat
  BY RankType
<1>2. \A r \in S : ~(Rank(r, S) < 0)
  BY <1>1
<1> QED BY <1>2 DEF First

-----------------------------------------------------------------------------
(* The enrichment tasks: one step concerns one task *)

TaskSteps == {"idle", "next", "fetch", "write", "done"}

\* What the proofs need of the types: above all that there is only so much.
EnrichmentShape ==
  /\ present \subseteq Records /\ IsFiniteSet(present)
  /\ enriched \in [Enrichers -> SUBSET Records] /\ \A e \in Enrichers : IsFiniteSet(enriched[e])
  /\ npc \in [Tasks -> TaskSteps] /\ enrichers \in [Tasks -> SUBSET Enrichers]
  /\ offset \in [Tasks -> Nat] /\ page \in [Tasks -> SUBSET Records]
  /\ \A t \in Tasks : IsFiniteSet(page[t])
  /\ DOMAIN current = Tasks /\ DOMAIN toSee = Tasks /\ DOMAIN had = Nights
  /\ enrichFaults \in Nat

NightStep(n) == NBegin(n) \/ Night(n) \/ NWriteLost(n) \/ NFetchLost(n)
RunStep(t) == RBegin(t) \/ RunTask(t) \/ \E e \in Enrichers : RWriteLost(t, e)
StepOf(t) == (t \in Nights /\ NightStep(t)) \/ (t \in RunTasks /\ RunStep(t)) \/ Again(t)

LEMMA ResultsAdded ==
  ASSUME EnrichmentShape, NEW x, NEW D, D \subseteq Records, IsFiniteSet(D),
         enriched' = [enriched EXCEPT ![x] = @ \cup D]
  PROVE  /\ enriched' \in [Enrichers -> SUBSET Records]
         /\ \A e \in Enrichers : IsFiniteSet(enriched'[e]) /\ enriched[e] \subseteq enriched'[e]
<1>0. enriched \in [Enrichers -> SUBSET Records] /\ \A e \in Enrichers : IsFiniteSet(enriched[e])
  BY DEF EnrichmentShape
<1>1. \A e \in Enrichers : enriched'[e] = IF e = x THEN enriched[e] \cup D ELSE enriched[e]
  BY <1>0
<1>2. \A e \in Enrichers : IsFiniteSet(enriched[e] \cup D)
  BY <1>0, FS_Union
<1>3. ASSUME NEW e \in Enrichers
      PROVE  IsFiniteSet(enriched'[e]) /\ enriched[e] \subseteq enriched'[e] /\ enriched'[e] \subseteq Records
  <2>1. CASE e = x
    <3>1. enriched'[e] = enriched[e] \cup D BY <1>1, <2>1
    <3> QED BY <1>0, <1>2, <3>1
  <2>2. CASE e # x
    <3>1. enriched'[e] = enriched[e] BY <1>1, <2>2
    <3> QED BY <1>0, <3>1
  <2> QED BY <2>1, <2>2
<1>4. DOMAIN enriched' = Enrichers /\ enriched' = [e \in Enrichers |-> enriched'[e]]
  BY <1>0
<1> QED BY <1>3, <1>4

\* Records and results are never taken back.
LEMMA DataGrows ==
  ASSUME EnrichmentShape, [EnrichmentNext]_enrichmentVars
  PROVE  /\ present' \subseteq Records /\ IsFiniteSet(present') /\ present \subseteq present'
         /\ enriched' \in [Enrichers -> SUBSET Records]
         /\ \A e \in Enrichers : IsFiniteSet(enriched'[e]) /\ enriched[e] \subseteq enriched'[e]
         /\ enrichFaults' \in Nat /\ enrichFaults' >= enrichFaults
         /\ (\E t \in Tasks : Again(t)) \/ (\E n \in Nights : NWriteLost(n) \/ NFetchLost(n))
              \/ (\E t \in RunTasks, e \in Enrichers : RWriteLost(t, e)) => enrichFaults' = enrichFaults + 1
<1>0. /\ present \subseteq Records /\ IsFiniteSet(present)
      /\ enriched \in [Enrichers -> SUBSET Records] /\ \A e \in Enrichers : IsFiniteSet(enriched[e])
      /\ page \in [Tasks -> SUBSET Records] /\ \A t \in Tasks : IsFiniteSet(page[t])
      /\ enrichFaults \in Nat
  BY DEF EnrichmentShape
<1>1. /\ present' \subseteq Records /\ IsFiniteSet(present') /\ present \subseteq present'
  <2>1. ASSUME NEW r \in Records, RecordStored(r)
        PROVE  present' \subseteq Records /\ IsFiniteSet(present') /\ present \subseteq present'
    <3>1. present' = present \cup {r} BY <2>1 DEF RecordStored
    <3>2. IsFiniteSet(present \cup {r}) BY <1>0, FS_AddElement
    <3> QED BY <1>0, <3>1, <3>2
  <2>2. (\E r \in Records : RecordStored(r)) \/ present' = present
    BY DEF EnrichmentNext, Night, RunTask, NBegin, NEnricher, NDone, NFetch, NWrite, NWriteLost,
      NFetchLost, RBegin, RFetch, RWrite, RWriteLost, Again, enrichmentVars
  <2> QED BY <1>0, <2>1, <2>2
<1>2. /\ enriched' \in [Enrichers -> SUBSET Records]
      /\ \A e \in Enrichers : IsFiniteSet(enriched'[e]) /\ enriched[e] \subseteq enriched'[e]
  <2>1. ASSUME NEW x, NEW D, NEW t \in Tasks, D \subseteq page[t], enriched' = [enriched EXCEPT ![x] = @ \cup D]
        PROVE  /\ enriched' \in [Enrichers -> SUBSET Records]
               /\ \A e \in Enrichers : IsFiniteSet(enriched'[e]) /\ enriched[e] \subseteq enriched'[e]
    <3>1. D \subseteq Records /\ IsFiniteSet(D) BY <1>0, <2>1, FS_Subset
    <3> QED BY <2>1, <3>1, ResultsAdded
  <2>2. ASSUME NEW n \in Nights, NWrite(n) \/ NWriteLost(n)
        PROVE  \E x, D : D \subseteq page[n] /\ enriched' = [enriched EXCEPT ![x] = @ \cup D]
    <3>1. CASE NWrite(n)
      <4>1. enriched' = [enriched EXCEPT ![current[n]] = @ \cup (page[n] \cap Applicable[current[n]])]
        BY <3>1 DEF NWrite
      <4> QED BY <4>1
    <3>2. CASE NWriteLost(n)
      <4>1. PICK D \in SUBSET (page[n] \cap Applicable[current[n]]) :
              enriched' = [enriched EXCEPT ![current[n]] = @ \cup D]
        BY <3>2 DEF NWriteLost
      <4> QED BY <4>1
    <3> QED BY <2>2, <3>1, <3>2
  <2>3. ASSUME NEW t \in RunTasks, NEW e \in Enrichers, RWrite(t, e)
        PROVE  \E x, D : D \subseteq page[t] /\ enriched' = [enriched EXCEPT ![x] = @ \cup D]
    <3>1. enriched' = [enriched EXCEPT ![e] = @ \cup (page[t] \cap RunApplicable[e])]
      BY <2>3 DEF RWrite
    <3> QED BY <3>1
  <2>4. \/ \E n \in Nights : NWrite(n) \/ NWriteLost(n)
        \/ \E t \in RunTasks, e \in Enrichers : RWrite(t, e)
        \/ enriched' = enriched
    BY DEF EnrichmentNext, Night, RunTask, NBegin, NEnricher, NDone, NFetch, NFetchLost, RBegin,
      RFetch, RWriteLost, Again, RecordStored, enrichmentVars
  <2>5. CASE enriched' = enriched BY <1>0, <2>5
  <2>6. CASE \E n \in Nights : NWrite(n) \/ NWriteLost(n)
    <3>1. \E t \in Tasks : \E x, D : D \subseteq page[t] /\ enriched' = [enriched EXCEPT ![x] = @ \cup D]
      BY <2>2, <2>6 DEF Tasks
    <3> QED BY <2>1, <3>1
  <2>7. CASE \E t \in RunTasks, e \in Enrichers : RWrite(t, e)
    <3>1. \E t \in Tasks : \E x, D : D \subseteq page[t] /\ enriched' = [enriched EXCEPT ![x] = @ \cup D]
      BY <2>3, <2>7 DEF Tasks
    <3> QED BY <2>1, <3>1
  <2> QED BY <2>4, <2>5, <2>6, <2>7
<1>3. enrichFaults' = enrichFaults \/ enrichFaults' = enrichFaults + 1
  BY DEF EnrichmentNext, Night, RunTask, NBegin, NEnricher, NDone, NFetch, NWrite, NWriteLost, NFetchLost,
    RBegin, RFetch, RWrite, RWriteLost, Again, RecordStored, EnrichFault, enrichmentVars
<1>4. (\E t \in Tasks : Again(t)) \/ (\E n \in Nights : NWriteLost(n) \/ NFetchLost(n))
        \/ (\E t \in RunTasks, e \in Enrichers : RWriteLost(t, e)) => enrichFaults' = enrichFaults + 1
  BY DEF Again, NWriteLost, NFetchLost, RWriteLost, EnrichFault
<1> QED BY <1>0, <1>1, <1>2, <1>3, <1>4

LEMMA PagesOfPresent ==
  ASSUME EnrichmentShape, NEW S, S \subseteq present, NEW n \in Nat
  PROVE  /\ S \subseteq Nat /\ IsFiniteSet(S)
         /\ PageAt(S, n) \subseteq Records /\ IsFiniteSet(PageAt(S, n))
<1>1. S \subseteq Nat /\ S \subseteq Records /\ IsFiniteSet(S)
  BY EnrichmentAssumption, FS_Subset DEF EnrichmentShape
<1>2. PageAt(S, n) \subseteq S /\ IsFiniteSet(PageAt(S, n))
  BY <1>1, PageFollows
<1> QED BY <1>1, <1>2

\* A task writes its own variables and no other's.
OtherTasksStay(t) ==
  /\ \A u \in Tasks \ {t} :
       /\ npc'[u] = npc[u] /\ enrichers'[u] = enrichers[u] /\ current'[u] = current[u]
       /\ offset'[u] = offset[u] /\ page'[u] = page[u] /\ toSee'[u] = toSee[u]
  /\ \A n \in Nights \ {t} : had'[n] = had[n]
  /\ DOMAIN current' = Tasks /\ DOMAIN toSee' = Tasks /\ DOMAIN had' = Nights

LEMMA OthersStay ==
  ASSUME EnrichmentShape, NEW t \in Tasks, StepOf(t)
  PROVE  OtherTasksStay(t)
<1>0. /\ DOMAIN npc = Tasks /\ DOMAIN enrichers = Tasks /\ DOMAIN offset = Tasks /\ DOMAIN page = Tasks
      /\ DOMAIN current = Tasks /\ DOMAIN toSee = Tasks /\ DOMAIN had = Nights
  BY DEF EnrichmentShape
<1>1. \A u \in Tasks \ {t} : npc'[u] = npc[u]
  BY <1>0 DEF StepOf, Night, RunTask, NightStep, RunStep, NBegin, NEnricher, NDone,
    NFetch, NWrite, NWriteLost, NFetchLost, RBegin, RFetch, RWrite, RWriteLost, Again, NextPage
<1>2. \A u \in Tasks \ {t} : enrichers'[u] = enrichers[u]
  BY <1>0 DEF StepOf, Night, RunTask, NightStep, RunStep, NBegin, NEnricher, NDone,
    NFetch, NWrite, NWriteLost, NFetchLost, RBegin, RFetch, RWrite, RWriteLost, Again, NextPage
<1>3. DOMAIN current' = Tasks /\ \A u \in Tasks \ {t} : current'[u] = current[u]
  BY <1>0 DEF StepOf, Night, RunTask, NightStep, RunStep, NBegin, NEnricher, NDone,
    NFetch, NWrite, NWriteLost, NFetchLost, RBegin, RFetch, RWrite, RWriteLost, Again, NextPage
<1>4. \A u \in Tasks \ {t} : offset'[u] = offset[u]
  BY <1>0 DEF StepOf, Night, RunTask, NightStep, RunStep, NBegin, NEnricher, NDone,
    NFetch, NWrite, NWriteLost, NFetchLost, RBegin, RFetch, RWrite, RWriteLost, Again, NextPage
<1>5. \A u \in Tasks \ {t} : page'[u] = page[u]
  BY <1>0 DEF StepOf, Night, RunTask, NightStep, RunStep, NBegin, NEnricher, NDone,
    NFetch, NWrite, NWriteLost, NFetchLost, RBegin, RFetch, RWrite, RWriteLost, Again, NextPage
<1>6. DOMAIN toSee' = Tasks /\ \A u \in Tasks \ {t} : toSee'[u] = toSee[u]
  BY <1>0 DEF StepOf, Night, RunTask, NightStep, RunStep, NBegin, NEnricher, NDone,
    NFetch, NWrite, NWriteLost, NFetchLost, RBegin, RFetch, RWrite, RWriteLost, Again, NextPage
<1>7. DOMAIN had' = Nights /\ \A n \in Nights \ {t} : had'[n] = had[n]
  BY <1>0 DEF StepOf, Night, RunTask, NightStep, RunStep, NBegin, NEnricher, NDone,
    NFetch, NWrite, NWriteLost, NFetchLost, RBegin, RFetch, RWrite, RWriteLost, Again, NextPage
<1> QED BY <1>1, <1>2, <1>3, <1>4, <1>5, <1>6, <1>7 DEF OtherTasksStay

LEMMA OwnShape ==
  ASSUME EnrichmentShape, NEW t \in Tasks, StepOf(t)
  PROVE  /\ npc' \in [Tasks -> TaskSteps] /\ enrichers' \in [Tasks -> SUBSET Enrichers]
         /\ offset' \in [Tasks -> Nat] /\ page' \in [Tasks -> SUBSET Records]
         /\ \A u \in Tasks : IsFiniteSet(page'[u])
<1>0. /\ npc \in [Tasks -> TaskSteps] /\ enrichers \in [Tasks -> SUBSET Enrichers]
      /\ offset \in [Tasks -> Nat] /\ page \in [Tasks -> SUBSET Records]
      /\ \A u \in Tasks : IsFiniteSet(page[u]) /\ Cardinality(page[u]) \in Nat
  BY FS_CardinalityType DEF EnrichmentShape
<1>1. npc' \in [Tasks -> TaskSteps]
  BY <1>0 DEF TaskSteps, StepOf, Night, RunTask, NightStep, RunStep, NBegin, NEnricher, NDone,
    NFetch, NWrite, NWriteLost, NFetchLost, RBegin, RFetch, RWrite, RWriteLost, Again, NextPage
<1>2. enrichers' \in [Tasks -> SUBSET Enrichers]
  BY <1>0 DEF StepOf, Night, RunTask, NightStep, RunStep, NBegin, NEnricher, NDone,
    NFetch, NWrite, NWriteLost, NFetchLost, RBegin, RFetch, RWrite, RWriteLost, Again, NextPage
<1>3. offset' \in [Tasks -> Nat]
  BY <1>0 DEF StepOf, Night, RunTask, NightStep, RunStep, NBegin, NEnricher, NDone,
    NFetch, NWrite, NWriteLost, NFetchLost, RBegin, RFetch, RWrite, RWriteLost, Again, NextPage
<1>4. \/ page' = page \/ page' = [page EXCEPT ![t] = {}]
      \/ \E S \in SUBSET present, n \in Nat : page' = [page EXCEPT ![t] = PageAt(S, n)]
  <2>1. \A e : Missing(e) \subseteq present
    BY DEF Missing
  <2>2. OfRun \subseteq present
    BY DEF OfRun
  <2>3. offset[t] \in Nat
    BY <1>0
  <2>4. CASE NFetch(t)
    BY <2>1, <2>3, <2>4 DEF NFetch
  <2>5. CASE RFetch(t)
    BY <2>2, <2>3, <2>5 DEF RFetch
  <2>6. CASE ~NFetch(t) /\ ~RFetch(t)
    BY <2>6 DEF StepOf, Night, RunTask, NightStep, RunStep, NBegin, NEnricher, NDone,
      NWrite, NWriteLost, NFetchLost, RBegin, RWrite, RWriteLost, Again, NextPage
  <2> QED BY <2>4, <2>5, <2>6
<1>5. page' \in [Tasks -> SUBSET Records] /\ \A u \in Tasks : IsFiniteSet(page'[u])
  <2>1. CASE page' = page BY <1>0, <2>1
  <2>2. CASE page' = [page EXCEPT ![t] = {}]
    BY <1>0, <2>2, FS_EmptySet
  <2>3. ASSUME NEW S \in SUBSET present, NEW n \in Nat, page' = [page EXCEPT ![t] = PageAt(S, n)]
        PROVE  page' \in [Tasks -> SUBSET Records] /\ \A u \in Tasks : IsFiniteSet(page'[u])
    <3>1. PageAt(S, n) \subseteq Records /\ IsFiniteSet(PageAt(S, n)) BY PagesOfPresent
    <3> QED BY <1>0, <2>3, <3>1
  <2> QED BY <1>4, <2>1, <2>2, <2>3
<1> QED BY <1>1, <1>2, <1>3, <1>5

LEMMA EnrichmentShapeStep ==
  ASSUME EnrichmentShape, [EnrichmentNext]_enrichmentVars
  PROVE  EnrichmentShape'
<1>1. ASSUME NEW t \in Tasks, StepOf(t) PROVE EnrichmentShape'
  BY <1>1, DataGrows, OthersStay, OwnShape DEF EnrichmentShape, OtherTasksStay
<1>2. ASSUME UNCHANGED taskVars PROVE EnrichmentShape'
  BY <1>2, DataGrows DEF EnrichmentShape, taskVars
<1>3. \/ \E t \in Tasks : StepOf(t)
      \/ UNCHANGED taskVars
  BY DEF EnrichmentNext, RecordStored, enrichmentVars, StepOf, NightStep, RunStep, Tasks
<1> QED BY <1>1, <1>2, <1>3

LEMMA EnrichmentShaped == EnrichmentSpec => []EnrichmentShape
<1>1. EnrichmentInit => EnrichmentShape
  BY FS_EmptySet DEF EnrichmentInit, EnrichmentShape, TaskSteps
<1> QED BY <1>1, EnrichmentShapeStep, PTL DEF EnrichmentSpec

-----------------------------------------------------------------------------
(* The enrichment tasks: types *)

\* An offset only moves on over a page that is there.
PagesFit ==
  /\ offset \in [Tasks -> 0 .. Cardinality(Records)]
  /\ \A t \in Tasks : /\ page[t] \subseteq present /\ Cardinality(page[t]) <= PageSize
                      /\ npc[t] = "write" => offset[t] + Cardinality(page[t]) <= Cardinality(Records)

LEMMA OwnPageFits ==
  ASSUME EnrichmentShape, PagesFit, NEW t \in Tasks, StepOf(t)
  PROVE  /\ offset'[t] \in 0 .. Cardinality(Records)
         /\ page'[t] \subseteq present /\ Cardinality(page'[t]) <= PageSize
         /\ npc'[t] = "write" => offset'[t] + Cardinality(page'[t]) <= Cardinality(Records)
<1> DEFINE Fits(n, P) == P \subseteq present /\ Cardinality(P) <= PageSize
                         /\ (P # {} => n + Cardinality(P) <= Cardinality(Records))
<1>0. /\ DOMAIN npc = Tasks /\ DOMAIN offset = Tasks /\ DOMAIN page = Tasks
      /\ offset[t] \in 0 .. Cardinality(Records) /\ offset[t] \in Nat
      /\ page[t] \subseteq present /\ Cardinality(page[t]) <= PageSize
      /\ npc[t] = "write" => offset[t] + Cardinality(page[t]) <= Cardinality(Records)
      /\ Cardinality(Records) \in Nat /\ Cardinality(page[t]) \in Nat /\ PageSize \in Nat
  <2>1. DOMAIN npc = Tasks /\ DOMAIN offset = Tasks /\ DOMAIN page = Tasks /\ IsFiniteSet(page[t])
    BY DEF EnrichmentShape
  <2>2. /\ offset[t] \in 0 .. Cardinality(Records)
        /\ page[t] \subseteq present /\ Cardinality(page[t]) <= PageSize
        /\ npc[t] = "write" => offset[t] + Cardinality(page[t]) <= Cardinality(Records)
    BY DEF PagesFit
  <2>3. Cardinality(Records) \in Nat /\ Cardinality(page[t]) \in Nat /\ PageSize \in Nat
    BY <2>1, EnrichmentAssumption, FS_CardinalityType
  <2> QED BY <2>1, <2>2, <2>3
<1>1. ASSUME NEW S, S \subseteq present PROVE Fits(offset[t], PageAt(S, offset[t]))
  <2>1. S \subseteq Nat /\ IsFiniteSet(S) /\ S \subseteq Records
    BY <1>1, EnrichmentAssumption, FS_Subset DEF EnrichmentShape
  <2>2. Cardinality(S) <= Cardinality(Records) /\ Cardinality(S) \in Nat
    BY <2>1, EnrichmentAssumption, FS_Subset, FS_CardinalityType
  <2> DEFINE P == PageAt(S, offset[t])
  <2>3. /\ P \subseteq S /\ Cardinality(P) \in Nat /\ Cardinality(P) <= PageSize
        /\ P # {} => offset[t] + Cardinality(P) <= Cardinality(S)
    BY <1>0, <2>1, PageFollows
  <2> HIDE DEF P
  <2>4. Fits(offset[t], P) BY <1>0, <1>1, <2>2, <2>3
  <2> QED BY <2>4 DEF P
<1>2. Cardinality({}) = 0 BY FS_EmptySet
<1> DEFINE Goal == /\ offset'[t] \in 0 .. Cardinality(Records)
                   /\ page'[t] \subseteq present /\ Cardinality(page'[t]) <= PageSize
                   /\ npc'[t] = "write" => offset'[t] + Cardinality(page'[t]) <= Cardinality(Records)
<1>3. ASSUME NEW S, S \subseteq present, page'[t] = PageAt(S, offset[t]), offset' = offset,
             npc'[t] = "write" => page'[t] # {}
      PROVE  Goal
  BY <1>0, <1>1, <1>3
<1>4. ASSUME NFetch(t) PROVE Goal
  <2>1. Missing(current[t]) \subseteq present BY DEF Missing
  <2>2. /\ page'[t] = PageAt(Missing(current[t]), offset[t]) /\ offset' = offset
        /\ npc'[t] = "write" => page'[t] # {}
    BY <1>0, <1>4 DEF NFetch
  <2> QED BY <1>3, <2>1, <2>2
<1>5. ASSUME RFetch(t) PROVE Goal
  <2>1. OfRun \subseteq present BY DEF OfRun
  <2>2. /\ page'[t] = PageAt(OfRun, offset[t]) /\ offset' = offset
        /\ npc'[t] = "write" => page'[t] # {}
    BY <1>0, <1>5 DEF RFetch
  <2> QED BY <1>3, <2>1, <2>2
<1>6. ASSUME NEW last \in {"next", "done"}, NextPage(t, last), npc[t] = "write" PROVE Goal
  <2>1. offset'[t] = offset[t] + Cardinality(page[t]) /\ page'[t] = {}
        /\ npc'[t] \in {"next", "done", "fetch"}
    BY <1>0, <1>6 DEF NextPage
  <2>2. Cardinality(page'[t]) = 0 BY <1>2, <2>1
  <2> QED BY <1>0, <1>6, <2>1, <2>2
<1>7. ASSUME NWrite(t) \/ NWriteLost(t) PROVE Goal
  BY <1>6, <1>7 DEF NWrite, NWriteLost
<1>8. ASSUME NEW e, RWrite(t, e) \/ RWriteLost(t, e) PROVE Goal
  <2>1. CASE NextPage(t, "done") BY <1>6, <1>8, <2>1 DEF RWrite, RWriteLost
  <2>2. CASE UNCHANGED <<npc, offset, page>> BY <1>0, <2>2
  <2> QED BY <1>8, <2>1, <2>2 DEF RWrite, RWriteLost
<1>9. ASSUME NBegin(t) \/ (\E e \in Enrichers : NEnricher(t, e)) \/ NDone(t) \/ NFetchLost(t) \/ RBegin(t) PROVE Goal
  <2>1. page' = page /\ npc'[t] # "write" /\ offset'[t] \in {offset[t], 0}
    BY <1>0, <1>9 DEF NBegin, NEnricher, NDone, NFetchLost, RBegin
  <2> QED BY <1>0, <2>1
<1>10. ASSUME Again(t) PROVE Goal
  <2>1. page'[t] = {} /\ npc'[t] # "write" /\ offset'[t] = 0
    BY <1>0, <1>10 DEF Again
  <2>2. Cardinality(page'[t]) = 0 BY <1>2, <2>1
  <2> QED BY <1>0, <2>1, <2>2
<1> HIDE DEF Goal
<1>11. Goal
  BY <1>4, <1>5, <1>7, <1>8, <1>9, <1>10 DEF StepOf, NightStep, Night, RunStep, RunTask
<1> QED BY <1>11 DEF Goal

LEMMA PagesFitStep ==
  ASSUME EnrichmentShape, EnrichmentShape', PagesFit, [EnrichmentNext]_enrichmentVars
  PROVE  PagesFit'
<1>0. /\ present \subseteq present' /\ offset' \in [Tasks -> Nat]
      /\ \A u \in Tasks : /\ offset[u] \in 0 .. Cardinality(Records)
                          /\ page[u] \subseteq present /\ Cardinality(page[u]) <= PageSize
                          /\ npc[u] = "write" => offset[u] + Cardinality(page[u]) <= Cardinality(Records)
  <2>1. present \subseteq present' BY DataGrows
  <2>2. offset' \in [Tasks -> Nat] BY DEF EnrichmentShape
  <2> QED BY <2>1, <2>2 DEF PagesFit
<1>1. ASSUME NEW t \in Tasks, StepOf(t) PROVE PagesFit'
  <2>1. OtherTasksStay(t) BY <1>1, OthersStay
  <2>2. /\ offset'[t] \in 0 .. Cardinality(Records)
        /\ page'[t] \subseteq present /\ Cardinality(page'[t]) <= PageSize
        /\ npc'[t] = "write" => offset'[t] + Cardinality(page'[t]) <= Cardinality(Records)
    BY <1>1, OwnPageFits
  <2>3. ASSUME NEW u \in Tasks
        PROVE  /\ offset'[u] \in 0 .. Cardinality(Records)
               /\ page'[u] \subseteq present' /\ Cardinality(page'[u]) <= PageSize
               /\ npc'[u] = "write" => offset'[u] + Cardinality(page'[u]) <= Cardinality(Records)
    <3>1. CASE u = t BY <1>0, <2>2, <3>1
    <3>2. CASE u # t
      <4>1. offset'[u] = offset[u] /\ page'[u] = page[u] /\ npc'[u] = npc[u]
        BY <2>1, <3>2 DEF OtherTasksStay
      <4>2. /\ offset[u] \in 0 .. Cardinality(Records)
            /\ page[u] \subseteq present' /\ Cardinality(page[u]) <= PageSize
            /\ npc[u] = "write" => offset[u] + Cardinality(page[u]) <= Cardinality(Records)
        BY <1>0
      <4> QED BY <4>1, <4>2
    <3> QED BY <3>1, <3>2
  <2> QED BY <1>0, <2>3 DEF PagesFit
<1>2. ASSUME UNCHANGED taskVars PROVE PagesFit'
  <2>1. npc' = npc /\ offset' = offset /\ page' = page BY <1>2 DEF taskVars
  <2> QED BY <1>0, <2>1 DEF PagesFit
<1> QED BY <1>1, <1>2 DEF EnrichmentNext, RecordStored, enrichmentVars, StepOf, NightStep, RunStep, Tasks

\* What tasks remember are records, and failures are bounded.
TasksFit ==
  /\ toSee \in [Tasks -> SUBSET Records] /\ had \in [Nights -> SUBSET Records]
  /\ enrichFaults \in 0 .. MaxEnrichFaults
  /\ \A n \in Nights : current[n] \in Enrichers \/ npc[n] \notin {"fetch", "write"}

LEMMA TasksFitStep ==
  ASSUME EnrichmentShape, TasksFit, [EnrichmentNext]_enrichmentVars
  PROVE  TasksFit'
<1>0. /\ toSee \in [Tasks -> SUBSET Records] /\ had \in [Nights -> SUBSET Records]
      /\ present \subseteq Records /\ \A e \in Enrichers : enriched[e] \subseteq Records
      /\ \A e : Missing(e) \subseteq Records /\ OfRun \subseteq Records
  BY DEF TasksFit, EnrichmentShape, Missing, OfRun
<1>1. toSee' \in [Tasks -> SUBSET Records]
  <2>1. \/ toSee' = toSee \/ (\E t \in Tasks : toSee' = [toSee EXCEPT ![t] = {}])
        \/ \E t \in Tasks : \E e : toSee' = [toSee EXCEPT ![t] = Missing(e)]
        \/ \E t \in Tasks : toSee' = [toSee EXCEPT ![t] = OfRun]
    BY DEF EnrichmentNext, Night, RunTask, NBegin, NEnricher, NDone, NFetch, NWrite, NWriteLost, NFetchLost,
      RBegin, RFetch, RWrite, RWriteLost, Again, RecordStored, enrichmentVars, taskVars, Tasks
  <2> QED BY <1>0, <2>1
<1>2. had' \in [Nights -> SUBSET Records]
  <2>1. \/ had' = had \/ (\E n \in Nights : had' = [had EXCEPT ![n] = {}])
        \/ \E n \in Nights, e \in Enrichers : had' = [had EXCEPT ![n] = enriched[e]]
        \/ \E t \in Tasks : had' = [n \in Nights |-> IF n = t THEN {} ELSE had[n]]
    BY DEF EnrichmentNext, Night, RunTask, NBegin, NEnricher, NDone, NFetch, NWrite, NWriteLost, NFetchLost,
      RBegin, RFetch, RWrite, RWriteLost, Again, RecordStored, enrichmentVars, taskVars, Tasks
  <2> QED BY <1>0, <2>1
<1>3. enrichFaults' \in 0 .. MaxEnrichFaults
  BY EnrichmentAssumption
     DEF TasksFit, EnrichmentNext, Night, RunTask, NBegin, NEnricher, NDone, NFetch, NWrite, NWriteLost, NFetchLost,
      RBegin, RFetch, RWrite, RWriteLost, Again, RecordStored, EnrichFault, enrichmentVars
<1>4. \A n \in Nights : current'[n] \in Enrichers \/ npc'[n] \notin {"fetch", "write"}
  <2>0. Nights \cap RunTasks = {} /\ DOMAIN current = Tasks /\ npc \in [Tasks -> TaskSteps]
    BY EnrichmentAssumption DEF EnrichmentShape
  <2>1. ASSUME NEW n \in Nights, StepOf(n)
        PROVE  current'[n] \in Enrichers \/ npc'[n] \notin {"fetch", "write"}
    BY <2>0, <2>1 DEF TasksFit, Tasks, StepOf, NightStep, Night, NBegin, NEnricher, NDone, NFetch, NWrite,
      NWriteLost, NFetchLost, NextPage, Again
  <2>2. ASSUME NEW t \in Tasks, StepOf(t), NEW n \in Nights, n # t
        PROVE  current'[n] = current[n] /\ npc'[n] = npc[n]
    BY <2>2, OthersStay DEF OtherTasksStay, Tasks
  <2>3. (\E t \in Tasks : StepOf(t)) \/ UNCHANGED taskVars
    BY DEF EnrichmentNext, RecordStored, enrichmentVars, StepOf, NightStep, RunStep, Tasks
  <2> QED BY <2>1, <2>2, <2>3 DEF TasksFit, taskVars
<1> QED BY <1>1, <1>2, <1>3, <1>4 DEF TasksFit

\* Every task, page and result is well formed, for any records, enrichers,
\* page size and tasks: no offset passes the number of records.
THEOREM EnrichmentTyped == EnrichmentSpec => []EnrichmentTypeOK
<1>1. EnrichmentInit => PagesFit /\ TasksFit
  <2> SUFFICES ASSUME EnrichmentInit PROVE PagesFit /\ TasksFit
    OBVIOUS
  <2>1. Cardinality({}) = 0 /\ Cardinality(Records) \in Nat /\ PageSize \in Nat /\ MaxEnrichFaults \in Nat
    BY EnrichmentAssumption, FS_EmptySet, FS_CardinalityType
  <2> QED BY <2>1 DEF EnrichmentInit, PagesFit, TasksFit, Tasks
<1>2. EnrichmentShape /\ PagesFit /\ TasksFit => EnrichmentTypeOK
  BY DEF EnrichmentShape, PagesFit, TasksFit, EnrichmentTypeOK, TaskSteps, Tasks
<1>3. EnrichmentSpec => [](PagesFit /\ TasksFit)
  <2>1. EnrichmentShape /\ PagesFit /\ TasksFit /\ [EnrichmentNext]_enrichmentVars => (PagesFit /\ TasksFit)'
    BY EnrichmentShapeStep, PagesFitStep, TasksFitStep
  <2> QED BY <1>1, <2>1, EnrichmentShaped, PTL DEF EnrichmentSpec
<1> QED BY <1>2, <1>3, EnrichmentShaped, PTL

-----------------------------------------------------------------------------
(* A task over a run covers it *)

\* The record has every result a task over its run can derive.
Settled(r) == \A e \in Enrichers : r \in RunApplicable[e] => r \in enriched[e]

\* What lies behind the task's offset is settled, or on the page it writes.
Covering(t) ==
  /\ npc[t] # "idle" => toSee[t] \subseteq OfRun
  /\ npc[t] = "fetch" => \A r \in toSee[t] \cap First(offset[t], OfRun) : Settled(r)
  /\ npc[t] = "write" =>
       /\ \A e \in Enrichers \ enrichers[t] : page[t] \cap RunApplicable[e] \subseteq enriched[e]
       /\ \A r \in toSee[t] \cap First(offset[t] + Cardinality(page[t]), OfRun) :
            r \in page[t] \/ Settled(r)
       /\ Cardinality(page[t]) < PageSize => \A r \in toSee[t] : r \in page[t] \/ Settled(r)
  /\ npc[t] = "done" => \A r \in toSee[t] : Settled(r)

CoverInv == enrichFaults = 0 => \A t \in RunTasks : Covering(t)

\* It stays so while others work.
LEMMA CoveringStays ==
  ASSUME EnrichmentShape, [EnrichmentNext]_enrichmentVars, NEW t \in RunTasks, Covering(t),
         npc'[t] = npc[t], enrichers'[t] = enrichers[t], offset'[t] = offset[t],
         page'[t] = page[t], toSee'[t] = toSee[t]
  PROVE  Covering(t)'
<1>0. t \in Tasks /\ offset[t] \in Nat /\ Cardinality(page[t]) \in Nat
  BY FS_CardinalityType DEF EnrichmentShape, Tasks
<1>1. \A e \in Enrichers : enriched[e] \subseteq enriched'[e]
  BY DataGrows
<1>2. \A r : Settled(r) => Settled(r)'
  BY <1>1 DEF Settled
<1>3. OfRun \subseteq OfRun' /\ OfRun' \subseteq Nat /\ IsFiniteSet(OfRun')
  <2>1. present \subseteq present' /\ IsFiniteSet(present') /\ present' \subseteq Nat
    BY DataGrows, EnrichmentAssumption
  <2>2. OfRun' \subseteq present' /\ OfRun \subseteq OfRun' BY <2>1 DEF OfRun
  <2> QED BY <2>1, <2>2, FS_Subset
<1>4. npc[t] # "idle" => toSee[t] \subseteq OfRun
  BY DEF Covering
<1>5. CASE npc[t] = "fetch"
  <2>1. First(offset[t], OfRun)' = First(offset'[t], OfRun') /\ First(offset[t], OfRun') \cap OfRun \subseteq First(offset[t], OfRun)
    BY <1>0, <1>3, FirstOfMore DEF First, Rank
  <2>2. toSee[t] \cap First(offset[t], OfRun') \subseteq First(offset[t], OfRun)
    BY <1>4, <1>5, <2>1
  <2>3. \A r \in toSee[t] \cap First(offset[t], OfRun') : Settled(r)
    BY <1>5, <2>2 DEF Covering
  <2> QED BY <1>2, <1>3, <1>4, <1>5, <2>1, <2>3 DEF Covering
<1>6. CASE npc[t] = "write"
  <2> DEFINE n == offset[t] + Cardinality(page[t])
  <2>1. n \in Nat BY <1>0
  <2>2. First(n, OfRun)' = First(n, OfRun') BY DEF First, Rank
  <2>3. toSee[t] \cap First(n, OfRun') \subseteq First(n, OfRun)
    <3> HIDE DEF n
    <3>1. First(n, OfRun') \cap OfRun \subseteq First(n, OfRun) BY <1>3, <2>1, FirstOfMore
    <3> QED BY <1>4, <1>6, <3>1
  <2>4. \A r \in toSee[t] \cap First(n, OfRun') : r \in page[t] \/ Settled(r)
    BY <1>6, <2>3 DEF Covering
  <2>5. \A e \in Enrichers \ enrichers[t] : page[t] \cap RunApplicable[e] \subseteq enriched'[e]
    BY <1>1, <1>6 DEF Covering
  <2>6. \A r \in toSee'[t] \cap First(offset'[t] + Cardinality(page'[t]), OfRun') : r \in page'[t] \/ Settled(r)'
    BY <1>2, <2>4
  <2> QED BY <1>2, <1>3, <1>4, <1>6, <2>2, <2>5, <2>6 DEF Covering
<1>7. CASE npc[t] \notin {"fetch", "write"}
  BY <1>2, <1>3, <1>4, <1>7 DEF Covering
<1> QED BY <1>5, <1>6, <1>7

LEMMA RunPages ==
  ASSUME EnrichmentShape
  PROVE  OfRun \subseteq Nat /\ IsFiniteSet(OfRun)
<1>1. OfRun \subseteq present /\ present \subseteq Nat /\ IsFiniteSet(present)
  BY EnrichmentAssumption DEF EnrichmentShape, OfRun
<1> QED BY <1>1, FS_Subset

LEMMA BeginCovers ==
  ASSUME EnrichmentShape, NEW t \in RunTasks, RBegin(t)
  PROVE  Covering(t)'
<1>1. /\ npc'[t] = "fetch" /\ offset'[t] = 0 /\ toSee'[t] = OfRun /\ present' = present
  BY DEF RBegin, EnrichmentShape, Tasks
<1>2. First(0, OfRun) = {} /\ OfRun' = OfRun
  BY <1>1, RunPages, FirstOfNone DEF OfRun
<1>3. First(offset[t], OfRun)' = First(0, OfRun)
  BY <1>1 DEF First, Rank, OfRun
<1> QED BY <1>1, <1>2, <1>3 DEF Covering

LEMMA FetchCovers ==
  ASSUME EnrichmentShape, NEW t \in RunTasks, Covering(t), RFetch(t)
  PROVE  Covering(t)'
<1> DEFINE n == offset[t]
           P == PageAt(OfRun, offset[t])
<1>0. t \in Tasks /\ n \in Nat /\ PageSize \in Nat \ {0}
  BY EnrichmentAssumption DEF EnrichmentShape, Tasks
<1>1. /\ P \subseteq OfRun /\ Cardinality(P) \in Nat
      /\ \A m \in Nat : m <= n + Cardinality(P) => First(m, OfRun) \subseteq First(n, OfRun) \cup P
      /\ Cardinality(P) < PageSize => OfRun \subseteq First(n, OfRun) \cup P
  BY <1>0, RunPages, PageFollows
<1>2. /\ npc[t] = "fetch" /\ page'[t] = P /\ offset' = offset /\ toSee' = toSee
      /\ present' = present /\ enriched' = enriched
      /\ npc'[t] = (IF P = {} THEN "done" ELSE "write")
      /\ enrichers'[t] = (IF P = {} THEN {} ELSE Enrichers)
  BY <1>0 DEF RFetch, EnrichmentShape
<1>3. toSee[t] \subseteq OfRun /\ \A r \in toSee[t] \cap First(n, OfRun) : Settled(r)
  BY <1>2 DEF Covering
<1>4. OfRun' = OfRun /\ \A r : Settled(r) => Settled(r)'
  BY <1>2 DEF OfRun, Settled
<1> HIDE DEF P, n
<1>5. Cardinality(P) < PageSize => \A r \in toSee[t] : r \in P \/ Settled(r)'
  BY <1>1, <1>3, <1>4
<1>6. CASE P = {}
  <2>1. Cardinality(P) < PageSize
    BY <1>0, <1>6, FS_EmptySet
  <2> QED BY <1>2, <1>3, <1>4, <1>5, <1>6, <2>1 DEF Covering
<1>7. CASE P # {}
  <2> DEFINE m == n + Cardinality(P)
  <2>1. m \in Nat /\ m <= n + Cardinality(P)
    BY <1>0, <1>1
  <2> HIDE DEF m
  <2>2. \A r \in toSee[t] \cap First(m, OfRun) : r \in P \/ Settled(r)'
    BY <1>1, <1>3, <1>4, <2>1
  <2>3. npc'[t] = "write" /\ enrichers'[t] = Enrichers
    BY <1>2, <1>7
  <2>4. \A r \in toSee'[t] \cap First(offset'[t] + Cardinality(page'[t]), OfRun') : r \in page'[t] \/ Settled(r)'
    BY <1>2, <1>4, <2>2 DEF m, n
  <2>5. First(offset[t] + Cardinality(page[t]), OfRun)' = First(offset'[t] + Cardinality(page'[t]), OfRun')
    BY DEF First, Rank
  <2> QED BY <1>2, <1>3, <1>4, <1>5, <2>3, <2>4, <2>5 DEF Covering
<1> QED BY <1>6, <1>7

LEMMA WriteCovers ==
  ASSUME EnrichmentShape, NEW t \in RunTasks, Covering(t), NEW e \in Enrichers, RWrite(t, e),
         \A f \in Enrichers : enriched[f] \subseteq enriched'[f]
  PROVE  Covering(t)'
<1> DEFINE P == page[t]
           n == offset[t] + Cardinality(page[t])
<1>0. t \in Tasks /\ n \in Nat /\ PageSize \in Nat \ {0}
  BY EnrichmentAssumption, FS_CardinalityType DEF EnrichmentShape, Tasks
<1>1. /\ npc[t] = "write" /\ toSee' = toSee /\ present' = present
      /\ enriched'[e] = enriched[e] \cup (P \cap RunApplicable[e])
      /\ enrichers'[t] = enrichers[t] \ {e}
  BY <1>0 DEF RWrite, EnrichmentShape
<1>2. OfRun' = OfRun /\ \A r : Settled(r) => Settled(r)'
  BY <1>1 DEF OfRun, Settled
<1>3. /\ toSee[t] \subseteq OfRun
      /\ \A f \in Enrichers \ enrichers[t] : P \cap RunApplicable[f] \subseteq enriched[f]
      /\ \A r \in toSee[t] \cap First(n, OfRun) : r \in P \/ Settled(r)
      /\ Cardinality(P) < PageSize => \A r \in toSee[t] : r \in P \/ Settled(r)
  BY <1>1 DEF Covering
<1>4. \A f \in Enrichers \ enrichers'[t] : P \cap RunApplicable[f] \subseteq enriched'[f]
  BY <1>1, <1>3
<1>5. CASE enrichers'[t] # {}
  <2>1. npc' = npc /\ offset' = offset /\ page' = page
    BY <1>5 DEF RWrite
  <2>2. First(offset[t] + Cardinality(page[t]), OfRun)' = First(offset'[t] + Cardinality(page'[t]), OfRun')
    BY DEF First, Rank
  <2>3. \A r \in toSee'[t] \cap First(offset'[t] + Cardinality(page'[t]), OfRun') : r \in page'[t] \/ Settled(r)'
    BY <1>1, <1>2, <1>3, <2>1
  <2> QED BY <1>1, <1>2, <1>3, <1>4, <2>1, <2>2, <2>3 DEF Covering
<1>6. CASE enrichers'[t] = {}
  <2>1. \A r \in P : Settled(r)'
    BY <1>4, <1>6 DEF Settled
  <2>2. /\ offset'[t] = n
        /\ npc'[t] = (IF Cardinality(P) < PageSize THEN "done" ELSE "fetch")
    BY <1>0, <1>6 DEF RWrite, NextPage, EnrichmentShape
  <2>3. First(offset[t], OfRun)' = First(offset'[t], OfRun')
    BY DEF First, Rank
  <2> HIDE DEF n, P
  <2>4. CASE Cardinality(P) < PageSize
    <3>1. \A r \in toSee[t] : Settled(r)'
      BY <1>2, <1>3, <2>1, <2>4
    <3> QED BY <1>1, <1>2, <1>3, <2>2, <2>4, <3>1 DEF Covering
  <2>5. CASE ~(Cardinality(P) < PageSize)
    <3>1. \A r \in toSee[t] \cap First(n, OfRun) : Settled(r)'
      BY <1>2, <1>3, <2>1
    <3>2. \A r \in toSee'[t] \cap First(offset'[t], OfRun') : Settled(r)'
      BY <1>1, <1>2, <2>2, <3>1
    <3> QED BY <1>1, <1>2, <1>3, <2>2, <2>3, <2>5, <3>2 DEF Covering
  <2> QED BY <2>4, <2>5
<1> QED BY <1>5, <1>6

LEMMA CoverStep ==
  ASSUME EnrichmentShape, CoverInv, [EnrichmentNext]_enrichmentVars
  PROVE  CoverInv'
<1> SUFFICES ASSUME enrichFaults' = 0, NEW t \in RunTasks PROVE Covering(t)'
  BY DEF CoverInv
<1>1. /\ enrichFaults = 0 /\ ~(\E u \in Tasks : Again(u)) /\ ~(\E u \in RunTasks, e \in Enrichers : RWriteLost(u, e))
  BY DataGrows DEF EnrichmentShape
<1>2. Covering(t) /\ t \in Tasks
  BY <1>1 DEF CoverInv, Tasks
<1>3. ASSUME RBegin(t) PROVE Covering(t)'
  BY <1>3, BeginCovers
<1>4. ASSUME RFetch(t) PROVE Covering(t)'
  BY <1>2, <1>4, FetchCovers
<1>5. ASSUME NEW e \in Enrichers, RWrite(t, e) PROVE Covering(t)'
  BY <1>2, <1>5, DataGrows, WriteCovers
<1>6. ASSUME NEW u \in Tasks, u # t, StepOf(u) PROVE Covering(t)'
  <2>1. /\ npc'[t] = npc[t] /\ enrichers'[t] = enrichers[t] /\ offset'[t] = offset[t]
        /\ page'[t] = page[t] /\ toSee'[t] = toSee[t]
    BY <1>2, <1>6, OthersStay DEF OtherTasksStay
  <2> QED BY <1>2, <2>1, CoveringStays
<1>7. ASSUME UNCHANGED taskVars PROVE Covering(t)'
  BY <1>2, <1>7, CoveringStays DEF taskVars
<1>8. t \notin Nights
  BY EnrichmentAssumption
<1>9. ASSUME NEW u \in Tasks, StepOf(u) PROVE Covering(t)'
  <2>1. CASE u = t
    BY <1>1, <1>2, <1>3, <1>4, <1>5, <1>8, <1>9, <2>1 DEF StepOf, RunStep, RunTask
  <2>2. CASE u # t
    BY <1>6, <1>9, <2>2
  <2> QED BY <2>1, <2>2
<1> QED BY <1>7, <1>9 DEF EnrichmentNext, RecordStored, enrichmentVars, StepOf, NightStep, RunStep, Tasks

\* For any records, enrichers, tasks and page size: a task over a run that has
\* ended without an error has derived everything it can for every record the
\* run had when it began, whatever else writes and stores in the meantime.
THEOREM RunsAreEnriched == EnrichmentSpec => []RunIsEnriched
<1>1. EnrichmentInit => CoverInv
  BY DEF EnrichmentInit, CoverInv, Covering, Tasks
<1>2. CoverInv => RunIsEnriched
  BY DEF CoverInv, Covering, RunIsEnriched, Settled
<1> QED BY <1>1, <1>2, CoverStep, EnrichmentShaped, PTL DEF EnrichmentSpec

-----------------------------------------------------------------------------
(* A night steps over few records *)

LEMMA Fewer ==
  ASSUME NEW A, NEW B, IsFiniteSet(B), A \subseteq B
  PROVE  /\ IsFiniteSet(A) /\ Cardinality(A) \in Nat /\ Cardinality(B) \in Nat
         /\ Cardinality(A) <= Cardinality(B)
BY FS_Subset, FS_CardinalityType

LEMMA Parts ==
  ASSUME NEW A, IsFiniteSet(A), NEW B
  PROVE  /\ Cardinality(A) = Cardinality(A \cap B) + Cardinality(A \ B)
         /\ Cardinality(A \cap B) \in Nat /\ Cardinality(A \ B) \in Nat
<1>1. IsFiniteSet(A \cap B) /\ IsFiniteSet(A \ B)
  BY FS_Subset
<1>2. /\ Cardinality((A \cap B) \cup (A \ B))
           = Cardinality(A \cap B) + Cardinality(A \ B) - Cardinality((A \cap B) \cap (A \ B))
  BY <1>1, FS_Union
<1>3. (A \cap B) \cup (A \ B) = A /\ (A \cap B) \cap (A \ B) = {}
  OBVIOUS
<1>4. /\ Cardinality((A \cap B) \cup (A \ B)) = Cardinality(A)
      /\ Cardinality((A \cap B) \cap (A \ B)) = Cardinality({})
  BY <1>3, Zenon
<1>5. Cardinality({}) = 0
  BY FS_EmptySet
<1>6. Cardinality(A \cap B) \in Nat /\ Cardinality(A \ B) \in Nat
  BY <1>1, FS_CardinalityType
<1> QED BY <1>2, <1>4, <1>5, <1>6

\* Taking D away moves up no more elements than are taken from the first n.
LEMMA FirstOfLess ==
  ASSUME NEW S, S \subseteq Nat, IsFiniteSet(S), NEW D, NEW n \in Nat
  PROVE  /\ IsFiniteSet(First(n, S \ D) \ First(n, S))
         /\ Cardinality(First(n, S \ D) \ First(n, S)) <= Cardinality(First(n, S) \cap D)
<1> DEFINE A == First(n, S \ D)
           B == First(n, S)
<1>1. S \ D \subseteq Nat /\ IsFiniteSet(S \ D) /\ S \ D \subseteq S
  BY FS_Subset
<1>2. IsFiniteSet(A) /\ A \subseteq S \ D /\ Cardinality(A) \in Nat /\ Cardinality(A) <= n
  <2> DEFINE U == S \ D
  <2> HIDE DEF U
  <2>1. U \subseteq Nat /\ IsFiniteSet(U) BY <1>1 DEF U
  <2>2. IsFiniteSet(First(n, U)) /\ First(n, U) \subseteq U /\ Cardinality(First(n, U)) \in Nat
        /\ Cardinality(First(n, U)) <= n
    BY <2>1, FirstFew
  <2> QED BY <2>2 DEF U
<1>3. /\ IsFiniteSet(B) /\ B \subseteq S /\ Cardinality(B) \in Nat
      /\ B = S \/ Cardinality(B) = n
  BY FirstFew
<1>4. B \cap (S \ D) \subseteq A
  BY <1>1, FirstOfMore
<1> HIDE DEF A, B
<1>5. IsFiniteSet(A \ B) /\ Cardinality(A \ B) \in Nat
  BY <1>2, Fewer
<1>6. Cardinality(B \cap D) \in Nat /\ IsFiniteSet(B \cap D)
  BY <1>3, Fewer
<1>7. CASE B = S
  <2>1. A \ B = {}
    BY <1>2, <1>7
  <2>2. Cardinality(A \ B) = 0
    BY <2>1, FS_EmptySet
  <2> QED BY <1>5, <1>6, <2>2 DEF A, B
<1>8. CASE Cardinality(B) = n
  <2>1. /\ Cardinality(A) = Cardinality(A \cap B) + Cardinality(A \ B) /\ Cardinality(A \cap B) \in Nat
    BY <1>2, Parts
  <2>2. /\ Cardinality(B) = Cardinality(B \cap D) + Cardinality(B \ D) /\ Cardinality(B \ D) \in Nat
    BY <1>3, Parts
  <2>3. B \ D \subseteq A \cap B /\ IsFiniteSet(A \cap B)
    BY <1>2, <1>3, <1>4, FS_Intersection
  <2>4. Cardinality(B \ D) <= Cardinality(A \cap B)
    BY <2>3, Fewer
  <2>5. Cardinality(A \ B) <= Cardinality(B \cap D)
    BY <1>2, <1>3, <1>5, <1>6, <1>8, <2>1, <2>2, <2>4
  <2> QED BY <1>5, <2>5 DEF A, B
<1> QED BY <1>3, <1>7, <1>8

\* New records hide nothing that was there; new results pull as many forward as
\* they are.
LEMMA DataShift ==
  ASSUME EnrichmentShape, [EnrichmentNext]_enrichmentVars, NEW e \in Enrichers, NEW i \in Nat,
         NEW X, X \subseteq Listed[e] \cap present, NEW H, H \subseteq enriched[e]
  PROVE  /\ Cardinality(First(i, Missing(e)') \cap X) \in Nat
         /\ Cardinality(First(i, Missing(e)) \cap X) \in Nat
         /\ Cardinality(enriched[e] \ H) \in Nat /\ Cardinality(enriched'[e] \ H) \in Nat
         /\ Cardinality(First(i, Missing(e)') \cap X) + Cardinality(enriched[e] \ H)
              <= Cardinality(First(i, Missing(e)) \cap X) + Cardinality(enriched'[e] \ H)
<1> DEFINE M == Missing(e)
           N == Missing(e)'
           D == enriched'[e] \ enriched[e]
<1>0. /\ present \subseteq Nat /\ IsFiniteSet(present) /\ present' \subseteq Nat /\ IsFiniteSet(present')
      /\ present \subseteq present'
      /\ IsFiniteSet(enriched[e]) /\ IsFiniteSet(enriched'[e]) /\ enriched[e] \subseteq enriched'[e]
  BY DataGrows, EnrichmentAssumption DEF EnrichmentShape
<1>1. M \subseteq Nat /\ IsFiniteSet(M) /\ N \subseteq Nat /\ IsFiniteSet(N)
  <2>1. M \subseteq present /\ N \subseteq present' BY DEF Missing
  <2> QED BY <1>0, <2>1, FS_Subset
<1>2. present' = present \/ enriched' = enriched
  BY DEF EnrichmentNext, Night, RunTask, NBegin, NEnricher, NDone, NFetch, NWrite, NWriteLost, NFetchLost,
    RBegin, RFetch, RWrite, RWriteLost, Again, RecordStored, enrichmentVars
<1>3. IsFiniteSet(X)
  BY <1>0, FS_Subset
<1>4. /\ Cardinality(First(i, N) \cap X) \in Nat /\ Cardinality(First(i, M) \cap X) \in Nat
      /\ IsFiniteSet(First(i, N) \cap X) /\ IsFiniteSet(First(i, M) \cap X)
  BY <1>3, Fewer
<1>5. /\ Cardinality(enriched'[e] \ H) = Cardinality(enriched[e] \ H) + Cardinality(D)
      /\ Cardinality(enriched[e] \ H) \in Nat /\ Cardinality(D) \in Nat /\ IsFiniteSet(D)
  <2> DEFINE G == enriched'[e] \ H
  <2>1. IsFiniteSet(G) /\ IsFiniteSet(D) BY <1>0, FS_Subset
  <2>2. Cardinality(G) = Cardinality(G \cap enriched[e]) + Cardinality(G \ enriched[e])
    <3> HIDE DEF G
    <3> QED BY <2>1, Parts
  <2>3. G \cap enriched[e] = enriched[e] \ H /\ G \ enriched[e] = D
    BY <1>0
  <2>4. Cardinality(G \cap enriched[e]) = Cardinality(enriched[e] \ H) /\ Cardinality(G \ enriched[e]) = Cardinality(D)
    BY <2>3, Zenon
  <2>5. Cardinality(enriched[e] \ H) \in Nat /\ Cardinality(D) \in Nat
    BY <1>0, <2>1, Fewer, FS_CardinalityType
  <2> QED BY <2>1, <2>2, <2>4, <2>5
<1>6. CASE enriched' = enriched
  <2>1. M \subseteq N /\ N \cap X \subseteq M
    BY <1>0, <1>6 DEF Missing
  <2>2. First(i, N) \cap M \subseteq First(i, M) /\ First(i, N) \subseteq N
    <3> HIDE DEF M, N
    <3> QED BY <1>1, <2>1, FirstOfMore DEF First
  <2>3. First(i, N) \cap X \subseteq First(i, M) \cap X
    <3> HIDE DEF M, N
    <3> QED BY <2>1, <2>2
  <2>4. Cardinality(First(i, N) \cap X) <= Cardinality(First(i, M) \cap X)
    BY <1>4, <2>3, Fewer
  <2> HIDE DEF M, N, D
  <2>5. Cardinality(First(i, N) \cap X) + Cardinality(enriched[e] \ H)
          <= Cardinality(First(i, M) \cap X) + Cardinality(enriched'[e] \ H)
    BY <1>4, <1>5, <2>4
  <2>6. Cardinality(enriched'[e] \ H) \in Nat BY <1>5
  <2> QED BY <1>4, <1>5, <2>5, <2>6 DEF M, N
<1>7. CASE present' = present
  <2>1. N = M \ D
    BY <1>0, <1>7 DEF Missing
  <2>2. First(i, N) = First(i, M \ D)
    BY <2>1, Zenon
  <2> DEFINE U == First(i, M \ D) \ First(i, M)
  <2>3. IsFiniteSet(U) /\ Cardinality(U) <= Cardinality(First(i, M) \cap D)
    <3> HIDE DEF M, D
    <3> QED BY <1>1, FirstOfLess
  <2>4. Cardinality(First(i, M) \cap D) \in Nat /\ Cardinality(First(i, M) \cap D) <= Cardinality(D)
    BY <1>5, Fewer
  <2>5. First(i, N) \cap X \subseteq (First(i, M) \cap X) \cup U
    <3> HIDE DEF M, N, D
    <3> QED BY <2>2
  <2> HIDE DEF M, N, D, U
  <2>6. /\ IsFiniteSet((First(i, M) \cap X) \cup U)
        /\ Cardinality((First(i, M) \cap X) \cup U)
             = Cardinality(First(i, M) \cap X) + Cardinality(U) - Cardinality((First(i, M) \cap X) \cap U)
    BY <1>4, <2>3, FS_Union
  <2>7. Cardinality((First(i, M) \cap X) \cap U) \in Nat /\ Cardinality(U) \in Nat
    BY <1>4, <2>3, Fewer, FS_CardinalityType
  <2>8. Cardinality(First(i, N) \cap X) <= Cardinality((First(i, M) \cap X) \cup U)
    BY <2>5, <2>6, Fewer
  <2>9. Cardinality((First(i, M) \cap X) \cup U) \in Nat
    BY <2>6, FS_CardinalityType
  <2>10. Cardinality(First(i, N) \cap X) + Cardinality(enriched[e] \ H)
          <= Cardinality(First(i, M) \cap X) + Cardinality(enriched'[e] \ H)
    BY <1>4, <1>5, <2>3, <2>4, <2>6, <2>7, <2>8, <2>9
  <2>11. Cardinality(enriched'[e] \ H) \in Nat BY <1>5
  <2> QED BY <1>4, <1>5, <2>10, <2>11 DEF M, N
<1> QED BY <1>2, <1>6, <1>7

\* What a night was going to page through and can derive a result for; the
\* records that got the result in the meantime; what is on its list before i.
Owed(n) == toSee[n] \cap Applicable[current[n]]
Gained(n) == enriched[current[n]] \ had[n]
Behind(n, i) == First(i, Missing(current[n])) \cap Owed(n)

Paging(n) == npc[n] \in {"fetch", "write"} \/ (npc[n] = "next" /\ current[n] # "none")

NightKnows(n) ==
  /\ npc[n] = "idle" => current[n] = "none"
  /\ Paging(n) => /\ current[n] \in Enrichers
                  /\ toSee[n] \subseteq Listed[current[n]] \cap present
                  /\ had[n] \subseteq enriched[current[n]]

\* Whatever still lacks its result behind the offset, on no page, is outweighed
\* by what the list has lost.
FewPassed(n) ==
  /\ npc[n] = "fetch" => Cardinality(Behind(n, offset[n])) <= Cardinality(Gained(n))
  /\ npc[n] = "write" =>
       /\ Cardinality(Behind(n, offset[n] + Cardinality(page[n])) \ page[n]) <= Cardinality(Gained(n))
       /\ Cardinality(page[n]) < PageSize =>
            Cardinality((Owed(n) \ enriched[current[n]]) \ page[n]) <= Cardinality(Gained(n))
  /\ npc[n] = "next" /\ current[n] # "none" =>
       Cardinality(Owed(n) \ enriched[current[n]]) <= Cardinality(Gained(n))

NightInv ==
  /\ \A n \in Nights : NightKnows(n)
  /\ enrichFaults = 0 => \A n \in Nights : FewPassed(n)

LEMMA KnowingStays ==
  ASSUME EnrichmentShape, [EnrichmentNext]_enrichmentVars, NEW n \in Nights, NightKnows(n),
         npc'[n] = npc[n], current'[n] = current[n], toSee'[n] = toSee[n], had'[n] = had[n]
  PROVE  NightKnows(n)'
<1>1. present \subseteq present' /\ \A e \in Enrichers : enriched[e] \subseteq enriched'[e]
  BY DataGrows
<1> QED BY <1>1 DEF NightKnows, Paging

LEMMA NightKnowsStep ==
  ASSUME EnrichmentShape, [EnrichmentNext]_enrichmentVars, NEW n \in Nights, NightKnows(n), StepOf(n)
  PROVE  NightKnows(n)'
<1>0. /\ n \in Tasks /\ n \notin RunTasks
      /\ npc \in [Tasks -> TaskSteps] /\ DOMAIN current = Tasks /\ DOMAIN toSee = Tasks /\ DOMAIN had = Nights
  BY EnrichmentAssumption DEF EnrichmentShape, Tasks
<1>1. present \subseteq present' /\ \A e \in Enrichers : enriched[e] \subseteq enriched'[e]
  BY DataGrows
<1>2. ASSUME NBegin(n) PROVE NightKnows(n)'
  BY <1>0, <1>2 DEF NBegin, NightKnows, Paging
<1>3. ASSUME NEW e \in Enrichers, NEnricher(n, e) PROVE NightKnows(n)'
  BY <1>0, <1>3 DEF NEnricher, NightKnows, Paging, Missing
<1>4. ASSUME NDone(n) \/ Again(n) PROVE NightKnows(n)'
  BY <1>0, <1>4 DEF NDone, Again, NightKnows, Paging
<1>5. ASSUME NFetch(n) \/ NFetchLost(n) \/ NWrite(n) \/ NWriteLost(n) PROVE NightKnows(n)'
  <2>1. Paging(n) /\ npc'[n] \in {"next", "fetch", "write"}
    BY <1>0, <1>5 DEF Paging, NFetch, NFetchLost, NWrite, NWriteLost, NextPage
  <2>2. current' = current /\ toSee' = toSee /\ had' = had
    BY <1>5 DEF NFetch, NFetchLost, NWrite, NWriteLost
  <2> QED BY <1>1, <2>1, <2>2 DEF NightKnows
<1> QED BY <1>0, <1>2, <1>3, <1>4, <1>5 DEF StepOf, NightStep, Night

\* While others work: the same variables of the night, other data.
LEMMA FewPassedStays ==
  ASSUME EnrichmentShape, [EnrichmentNext]_enrichmentVars, NEW n \in Nights, NightKnows(n), FewPassed(n),
         npc'[n] = npc[n], current'[n] = current[n], toSee'[n] = toSee[n], had'[n] = had[n],
         offset'[n] = offset[n], page'[n] = page[n]
  PROVE  FewPassed(n)'
<1>0. n \in Tasks /\ offset[n] \in Nat /\ Cardinality(page[n]) \in Nat
  BY FS_CardinalityType DEF EnrichmentShape, Tasks
<1>1. CASE ~Paging(n)
  BY <1>1 DEF Paging, FewPassed
<1>2. CASE Paging(n)
  <2>0. PICK e, H, T, P : e = current[n] /\ H = had[n] /\ T = Owed(n) /\ P = page[n]
    OBVIOUS
  <2>1. /\ e \in Enrichers /\ T \subseteq Listed[e] \cap present /\ H \subseteq enriched[e]
    BY <1>2, <2>0 DEF NightKnows, Owed
  <2>2. /\ Owed(n)' = T /\ Gained(n)' = enriched'[e] \ H /\ Gained(n) = enriched[e] \ H
    BY <2>0 DEF Owed, Gained
  <2>3. enriched[e] \subseteq enriched'[e] /\ IsFiniteSet(enriched'[e]) /\ IsFiniteSet(present)
    BY <2>1, DataGrows DEF EnrichmentShape
  <2>4. \A i : Behind(n, i) = First(i, Missing(e)) \cap T
    BY <2>0 DEF Behind
  <2>5. ASSUME NEW i PROVE Behind(n, i)' = First(i, Missing(e)') \cap T
    <3>1. Missing(current[n])' = Missing(e)'
      BY <2>0 DEF Missing
    <3>2. Behind(n, i)' = First(i, Missing(current[n])') \cap Owed(n)'
      BY Zenon DEF Behind, First, Rank
    <3> QED BY <2>2, <3>1, <3>2, Zenon
  <2>6. IsFiniteSet(T)
    BY <2>1, <2>3, FS_Subset
  <2>7. Cardinality(enriched[e] \ H) <= Cardinality(enriched'[e] \ H)
        /\ Cardinality(enriched[e] \ H) \in Nat /\ Cardinality(enriched'[e] \ H) \in Nat
    <3>1. enriched[e] \ H \subseteq enriched'[e] \ H /\ IsFiniteSet(enriched'[e] \ H) BY <2>3, FS_Subset
    <3> QED BY <3>1, Fewer
  <2>8. /\ Cardinality(Gained(n)) = Cardinality(enriched[e] \ H)
        /\ Cardinality(Gained(n)') = Cardinality(enriched'[e] \ H)
    BY <2>2, Zenon
  <2>9. CASE npc[n] = "fetch"
    <3>0. PICK i \in Nat : i = offset[n]
      BY <1>0
    <3>1. /\ Cardinality(First(i, Missing(e)') \cap T) \in Nat /\ Cardinality(First(i, Missing(e)) \cap T) \in Nat
          /\ Cardinality(First(i, Missing(e)') \cap T) + Cardinality(enriched[e] \ H)
              <= Cardinality(First(i, Missing(e)) \cap T) + Cardinality(enriched'[e] \ H)
      BY <2>1, DataShift
    <3>2. Cardinality(Behind(n, i)) <= Cardinality(enriched[e] \ H)
      BY <2>8, <2>9, <3>0 DEF FewPassed
    <3>3. /\ Cardinality(Behind(n, i)) = Cardinality(First(i, Missing(e)) \cap T)
          /\ Cardinality(Behind(n, i)') = Cardinality(First(i, Missing(e)') \cap T)
      BY <2>4, <2>5, Zenon
    <3>4. Cardinality(Behind(n, i)') <= Cardinality(Gained(n)')
      BY <2>7, <2>8, <3>1, <3>2, <3>3
    <3>5. Behind(n, offset[n])' = Behind(n, i)'
      BY <3>0 DEF Behind, First, Rank
    <3> QED BY <2>9, <3>4, <3>5 DEF FewPassed
  <2>10. CASE npc[n] = "write"
    <3>0. PICK i \in Nat : i = offset[n] + Cardinality(page[n])
      BY <1>0
    <3>1. PICK X : X = T \ P
      OBVIOUS
    <3>2. X \subseteq Listed[e] \cap present
      BY <2>1, <3>1
    <3>3. /\ Cardinality(First(i, Missing(e)') \cap X) \in Nat /\ Cardinality(First(i, Missing(e)) \cap X) \in Nat
          /\ Cardinality(First(i, Missing(e)') \cap X) + Cardinality(enriched[e] \ H)
              <= Cardinality(First(i, Missing(e)) \cap X) + Cardinality(enriched'[e] \ H)
      BY <2>1, <3>2, DataShift
    <3>4. /\ Behind(n, i) \ P = First(i, Missing(e)) \cap X
          /\ Behind(n, i)' \ P = First(i, Missing(e)') \cap X
      BY <2>4, <2>5, <3>1
    <3>5. Cardinality(Behind(n, i) \ P) <= Cardinality(enriched[e] \ H)
      BY <2>0, <2>8, <2>10, <3>0 DEF FewPassed
    <3>6. /\ Cardinality(Behind(n, i) \ P) = Cardinality(First(i, Missing(e)) \cap X)
          /\ Cardinality(Behind(n, i)' \ P) = Cardinality(First(i, Missing(e)') \cap X)
      BY <3>4, Zenon
    <3>7. Cardinality(Behind(n, i)' \ P) <= Cardinality(Gained(n)')
      BY <2>7, <2>8, <3>3, <3>5, <3>6
    <3>8. ASSUME Cardinality(P) < PageSize
          PROVE  Cardinality((T \ enriched'[e]) \ P) <= Cardinality(Gained(n)')
      <4>1. Cardinality((T \ enriched[e]) \ P) <= Cardinality(enriched[e] \ H)
        <5>1. Cardinality((Owed(n) \ enriched[current[n]]) \ page[n]) <= Cardinality(Gained(n))
          BY <2>0, <2>10, <3>8 DEF FewPassed
        <5> QED BY <2>0, <2>8, <5>1
      <4>2. (T \ enriched'[e]) \ P \subseteq (T \ enriched[e]) \ P
            /\ IsFiniteSet((T \ enriched[e]) \ P)
        BY <2>3, <2>6, FS_Subset
      <4>3. /\ Cardinality((T \ enriched'[e]) \ P) <= Cardinality((T \ enriched[e]) \ P)
            /\ Cardinality((T \ enriched'[e]) \ P) \in Nat /\ Cardinality((T \ enriched[e]) \ P) \in Nat
        BY <4>2, Fewer
      <4> QED BY <2>7, <2>8, <4>1, <4>3
    <3>9. /\ page'[n] = P /\ current'[n] = e /\ offset'[n] + Cardinality(page'[n]) = i
      BY <2>0, <3>0
    <3>10. Behind(n, offset[n] + Cardinality(page[n]))' = Behind(n, i)'
      BY <3>9 DEF Behind, First, Rank
    <3> QED BY <2>2, <2>10, <3>7, <3>8, <3>9, <3>10 DEF FewPassed
  <2>11. CASE npc[n] = "next" /\ current[n] # "none"
    <3>1. Cardinality(T \ enriched[e]) <= Cardinality(enriched[e] \ H)
      <4>1. Cardinality(Owed(n) \ enriched[current[n]]) <= Cardinality(Gained(n))
        BY <2>11 DEF FewPassed
      <4> QED BY <2>0, <2>8, <4>1
    <3>2. T \ enriched'[e] \subseteq T \ enriched[e] /\ IsFiniteSet(T \ enriched[e])
      BY <2>3, <2>6, FS_Subset
    <3>3. Cardinality(T \ enriched'[e]) <= Cardinality(Gained(n)')
      <4>1. /\ Cardinality(T \ enriched'[e]) <= Cardinality(T \ enriched[e])
            /\ Cardinality(T \ enriched'[e]) \in Nat /\ Cardinality(T \ enriched[e]) \in Nat
        BY <3>2, Fewer
      <4> QED BY <2>7, <2>8, <3>1, <4>1
    <3> QED BY <2>0, <2>2, <2>11, <3>3 DEF FewPassed
  <2> QED BY <1>2, <2>9, <2>10, <2>11 DEF Paging
<1> QED BY <1>1, <1>2

\* The night begins a list: it has passed nothing of it.
LEMMA ListBegins ==
  ASSUME EnrichmentShape, NEW n \in Nights, NEW e \in Enrichers, NEnricher(n, e)
  PROVE  FewPassed(n)'
<1>0. n \in Tasks /\ npc'[n] = "fetch" /\ current'[n] = e /\ offset'[n] = 0 /\ had'[n] = enriched[e]
  BY DEF EnrichmentShape, NEnricher, Tasks
<1>1. IsFiniteSet(Missing(e)') /\ Missing(e)' \subseteq Nat
  <2>1. Missing(e)' \subseteq present /\ present \subseteq Nat /\ IsFiniteSet(present)
    BY EnrichmentAssumption DEF EnrichmentShape, NEnricher, Missing
  <2> QED BY <2>1, FS_Subset
<1>2. First(0, Missing(e)') = {}
  BY <1>1, FirstOfNone
<1>3. Behind(n, offset[n])' = {}
  <2>1. Missing(current[n])' = Missing(e)'
    BY <1>0 DEF Missing
  <2>2. Behind(n, 0)' = First(0, Missing(current[n])') \cap Owed(n)'
    BY Zenon DEF Behind, First, Rank
  <2>3. Behind(n, 0)' = {}
    <3>1. First(0, Missing(current[n])') = {} BY <1>2, <2>1, Zenon
    <3> QED BY <2>2, <3>1
  <2> QED BY <1>0, <2>3 DEF Behind, First, Rank
<1>4. Gained(n)' = {}
  BY <1>0 DEF Gained, NEnricher
<1>5. Cardinality(Behind(n, offset[n])') = 0 /\ Cardinality(Gained(n)') = 0
  BY <1>3, <1>4, FS_EmptySet, Zenon
<1> QED BY <1>0, <1>5 DEF FewPassed

\* It reads the page after those: only what it had passed stays off its pages.
LEMMA PageIsRead ==
  ASSUME EnrichmentShape, NEW n \in Nights, NightKnows(n), FewPassed(n), NFetch(n)
  PROVE  FewPassed(n)'
<1> DEFINE e == current[n]
           M == Missing(e)
           o == offset[n]
           P == PageAt(M, o)
           T == Owed(n)
<1>0. /\ n \in Tasks /\ npc[n] = "fetch" /\ page'[n] = P /\ npc'[n] = IF P = {} THEN "next" ELSE "write"
      /\ o \in Nat
  BY DEF EnrichmentShape, NFetch, Tasks
<1>1. /\ present' = present /\ enriched' = enriched /\ current' = current /\ offset' = offset
      /\ toSee' = toSee /\ had' = had
  BY DEF NFetch
<1>2. e \in Enrichers /\ T \subseteq Listed[e] \cap present
  BY <1>0 DEF NightKnows, Paging, Owed
<1>3. M \subseteq Nat /\ IsFiniteSet(M)
  <2>1. M \subseteq present /\ present \subseteq Nat /\ IsFiniteSet(present)
    BY EnrichmentAssumption DEF EnrichmentShape, Missing
  <2> QED BY <2>1, FS_Subset
<1>4. /\ Cardinality(P) \in Nat /\ o + Cardinality(P) \in Nat
      /\ First(o + Cardinality(P), M) \subseteq First(o, M) \cup P
      /\ Cardinality(P) < PageSize => M \subseteq First(o, M) \cup P
  <2> HIDE DEF M, o
  <2>1. /\ Cardinality(P) \in Nat
        /\ \A m \in Nat : m <= o + Cardinality(P) => First(m, M) \subseteq First(o, M) \cup P
        /\ Cardinality(P) < PageSize => M \subseteq First(o, M) \cup P
    BY <1>0, <1>3, PageFollows
  <2>2. o + Cardinality(P) \in Nat /\ o + Cardinality(P) <= o + Cardinality(P)
    BY <1>0, <2>1
  <2> QED BY <2>1, <2>2
<1>5. T \ enriched[e] \subseteq M
  BY <1>2 DEF Missing
<1>6. Cardinality(First(o, M) \cap T) <= Cardinality(Gained(n))
  BY <1>0 DEF FewPassed, Behind
<1>7. IsFiniteSet(First(o, M) \cap T) /\ Cardinality(Gained(n)) \in Nat
  <2>1. First(o, M) \cap T \subseteq M
    BY DEF First
  <2>2. Gained(n) \subseteq enriched[e] /\ IsFiniteSet(enriched[e])
    BY <1>2 DEF Gained, EnrichmentShape
  <2> QED BY <1>3, <2>1, <2>2, FS_Subset, FS_CardinalityType
<1>8. ASSUME NEW X, X \subseteq First(o, M) \cap T PROVE Cardinality(X) <= Cardinality(Gained(n))
  <2> HIDE DEF M, T, o
  <2>1. Cardinality(X) <= Cardinality(First(o, M) \cap T)
        /\ Cardinality(X) \in Nat /\ Cardinality(First(o, M) \cap T) \in Nat
    BY <1>7, <1>8, Fewer
  <2> QED BY <1>6, <1>7, <2>1
<1>9. Gained(n)' = Gained(n) /\ Owed(n)' = T /\ current'[n] = e /\ offset'[n] = o /\ enriched'[e] = enriched[e]
  BY <1>1 DEF Gained, Owed
<1>10. CASE P # {}
  <2>1. (First(o + Cardinality(P), M) \cap T) \ P \subseteq First(o, M) \cap T
    BY <1>4
  <2>2. Cardinality(P) < PageSize => (T \ enriched[e]) \ P \subseteq First(o, M) \cap T
    BY <1>4, <1>5
  <2>3. Behind(n, offset[n] + Cardinality(page[n]))' = First(o + Cardinality(P), M) \cap T
    BY <1>0, <1>1 DEF Behind, First, Rank, Missing, Owed
  <2>4. Cardinality(Behind(n, offset[n] + Cardinality(page[n]))' \ P) <= Cardinality(Gained(n)')
    <3>1. Cardinality((First(o + Cardinality(P), M) \cap T) \ P) <= Cardinality(Gained(n))
      BY <1>8, <2>1, Zenon
    <3> QED BY <1>9, <2>3, <3>1, Zenon
  <2>5. Cardinality(page'[n]) < PageSize => Cardinality((T \ enriched'[e]) \ P) <= Cardinality(Gained(n)')
    <3>1. Cardinality(P) < PageSize => Cardinality((T \ enriched[e]) \ P) <= Cardinality(Gained(n))
      BY <1>8, <2>2, Zenon
    <3> QED BY <1>0, <1>9, <3>1, Zenon
  <2>6. /\ (Behind(n, offset[n] + Cardinality(page[n])) \ page[n])' = Behind(n, offset[n] + Cardinality(page[n]))' \ P
        /\ ((Owed(n) \ enriched[current[n]]) \ page[n])' = (T \ enriched'[e]) \ P
    BY <1>0, <1>9
  <2> QED BY <1>0, <1>10, <2>4, <2>5, <2>6 DEF FewPassed
<1>11. CASE P = {}
  <2>1. Cardinality(P) = 0 /\ PageSize \in Nat \ {0}
    BY <1>11, FS_EmptySet, EnrichmentAssumption
  <2>2. T \ enriched[e] \subseteq First(o, M) \cap T
    <3> HIDE DEF M, T, P, o, e
    <3>1. M \subseteq First(o, M) \cup P
      BY <1>4, <2>1
    <3> QED BY <1>5, <1>11, <3>1
  <2>3. Cardinality(T \ enriched[e]) <= Cardinality(Gained(n))
    BY <1>8, <2>2, Zenon
  <2>4. Cardinality((Owed(n) \ enriched[current[n]])') <= Cardinality(Gained(n)')
    <3>1. (Owed(n) \ enriched[current[n]])' = T \ enriched[e]
      BY <1>9
    <3> QED BY <1>9, <2>3, <3>1, Zenon
  <2> QED BY <1>0, <1>11, <2>4 DEF FewPassed
<1> QED BY <1>10, <1>11

\* It writes the page: what was on it and is owed leaves the list, and the
\* offset moves over as many records that were behind the page.
LEMMA PageIsWritten ==
  ASSUME EnrichmentShape, NEW n \in Nights, NightKnows(n), FewPassed(n), NWrite(n)
  PROVE  FewPassed(n)'
<1>0. PICK e, H, T, P, i :
        /\ e = current[n] /\ H = had[n] /\ T = Owed(n) /\ P = page[n]
        /\ i = offset[n] + Cardinality(page[n])
  OBVIOUS
<1>1. /\ npc[n] = "write" /\ n \in Tasks /\ n \notin RunTasks /\ i \in Nat
      /\ npc'[n] = (IF Cardinality(P) < PageSize THEN "next" ELSE "fetch")
      /\ offset'[n] = i /\ current'[n] = e /\ toSee' = toSee /\ had' = had /\ present' = present
  BY <1>0, EnrichmentAssumption, FS_CardinalityType DEF EnrichmentShape, NWrite, NextPage, Tasks
<1>2. /\ e \in Enrichers /\ T \subseteq Listed[e] \cap present /\ T \subseteq Applicable[e]
      /\ H \subseteq enriched[e]
  BY <1>0, <1>1 DEF NightKnows, Paging, Owed
<1>3. enriched'[e] = enriched[e] \cup (P \cap Applicable[e])
  BY <1>0, <1>2 DEF NWrite, EnrichmentShape
<1>4. [EnrichmentNext]_enrichmentVars
  BY DEF EnrichmentNext, Night
<1>5. /\ Owed(n)' = T /\ Gained(n)' = enriched'[e] \ H /\ Gained(n) = enriched[e] \ H
  BY <1>0, <1>1 DEF Owed, Gained
<1>6. /\ Cardinality(Gained(n)) = Cardinality(enriched[e] \ H)
      /\ Cardinality(Gained(n)') = Cardinality(enriched'[e] \ H)
  BY <1>5, Zenon
<1>7. /\ IsFiniteSet(T) /\ IsFiniteSet(enriched'[e]) /\ enriched[e] \subseteq enriched'[e]
  BY <1>2, <1>4, DataGrows, FS_Subset DEF EnrichmentShape
<1>8. CASE Cardinality(P) < PageSize
  <2>1. Cardinality((T \ enriched[e]) \ P) <= Cardinality(enriched[e] \ H)
    <3>1. Cardinality((Owed(n) \ enriched[current[n]]) \ page[n]) <= Cardinality(Gained(n))
      BY <1>0, <1>1, <1>8 DEF FewPassed
    <3> QED BY <1>0, <1>6, <3>1
  <2>2. T \ enriched'[e] \subseteq (T \ enriched[e]) \ P
    BY <1>2, <1>3
  <2>3. IsFiniteSet((T \ enriched[e]) \ P) /\ IsFiniteSet(enriched'[e] \ H) /\ enriched[e] \ H \subseteq enriched'[e] \ H
    BY <1>7, FS_Subset
  <2>4. /\ Cardinality(T \ enriched'[e]) <= Cardinality((T \ enriched[e]) \ P)
        /\ Cardinality(T \ enriched'[e]) \in Nat /\ Cardinality((T \ enriched[e]) \ P) \in Nat
    BY <2>2, <2>3, Fewer
  <2>5. /\ Cardinality(enriched[e] \ H) <= Cardinality(enriched'[e] \ H)
        /\ Cardinality(enriched[e] \ H) \in Nat /\ Cardinality(enriched'[e] \ H) \in Nat
    BY <2>3, Fewer
  <2>6. Cardinality(T \ enriched'[e]) <= Cardinality(Gained(n)')
    BY <1>6, <2>1, <2>4, <2>5
  <2>7. (Owed(n) \ enriched[current[n]])' = T \ enriched'[e]
    BY <1>1, <1>5
  <2>8. Cardinality((Owed(n) \ enriched[current[n]])') <= Cardinality(Gained(n)')
    BY <2>6, <2>7, Zenon
  <2> QED BY <1>1, <1>8, <2>8 DEF FewPassed
<1>9. CASE ~(Cardinality(P) < PageSize)
  <2>1. /\ Cardinality(First(i, Missing(e)') \cap (T \ P)) \in Nat /\ Cardinality(First(i, Missing(e)) \cap (T \ P)) \in Nat
        /\ Cardinality(enriched[e] \ H) \in Nat /\ Cardinality(enriched'[e] \ H) \in Nat
        /\ Cardinality(First(i, Missing(e)') \cap (T \ P)) + Cardinality(enriched[e] \ H)
             <= Cardinality(First(i, Missing(e)) \cap (T \ P)) + Cardinality(enriched'[e] \ H)
    <3>1. PICK X : X = T \ P
      OBVIOUS
    <3>2. X \subseteq Listed[e] \cap present
      BY <1>2, <3>1
    <3> QED BY <1>1, <1>2, <1>4, <3>1, <3>2, DataShift
  <2>2. First(i, Missing(e)') \cap T = First(i, Missing(e)') \cap (T \ P)
    <3>1. First(i, Missing(e)') \cap enriched'[e] = {}
      BY DEF First, Missing
    <3>2. T \cap P \subseteq enriched'[e]
      BY <1>2, <1>3
    <3> QED BY <3>1, <3>2
  <2>3. Behind(n, i) \ P = First(i, Missing(e)) \cap (T \ P)
    BY <1>0 DEF Behind
  <2>4. Cardinality(Behind(n, i) \ P) <= Cardinality(enriched[e] \ H)
    BY <1>0, <1>1, <1>6 DEF FewPassed
  <2>5. Cardinality(First(i, Missing(e)) \cap (T \ P)) <= Cardinality(enriched[e] \ H)
    BY <2>3, <2>4, Zenon
  <2>6. Cardinality(First(i, Missing(e)') \cap (T \ P)) <= Cardinality(Gained(n)')
    BY <1>6, <2>1, <2>5
  <2>7. Behind(n, offset[n])' = First(i, Missing(e)') \cap T
    <3>1. Missing(current[n])' = Missing(e)'
      BY <1>1 DEF Missing
    <3>2. Behind(n, i)' = First(i, Missing(current[n])') \cap Owed(n)'
      BY Zenon DEF Behind, First, Rank
    <3>3. Behind(n, offset[n])' = Behind(n, i)'
      BY <1>1 DEF Behind, First, Rank
    <3> QED BY <1>5, <3>1, <3>2, <3>3, Zenon
  <2>8. Cardinality(Behind(n, offset[n])') <= Cardinality(Gained(n)')
    BY <2>2, <2>6, <2>7, Zenon
  <2> QED BY <1>1, <1>9, <2>8 DEF FewPassed
<1> QED BY <1>8, <1>9

LEMMA NightInvStep ==
  ASSUME EnrichmentShape, NightInv, [EnrichmentNext]_enrichmentVars
  PROVE  NightInv'
<1> SUFFICES ASSUME NEW n \in Nights PROVE NightKnows(n)' /\ (enrichFaults' = 0 => FewPassed(n)')
  BY DEF NightInv
<1>1. NightKnows(n) /\ n \in Tasks /\ n \notin RunTasks /\ (enrichFaults = 0 => FewPassed(n))
  BY EnrichmentAssumption DEF NightInv, Tasks
<1>2. ASSUME NEW u \in Tasks, u # n, StepOf(u) PROVE NightKnows(n)' /\ (enrichFaults' = 0 => FewPassed(n)')
  <2>1. /\ npc'[n] = npc[n] /\ current'[n] = current[n] /\ toSee'[n] = toSee[n] /\ had'[n] = had[n]
        /\ offset'[n] = offset[n] /\ page'[n] = page[n]
    BY <1>1, <1>2, OthersStay DEF OtherTasksStay
  <2>2. enrichFaults' = 0 => enrichFaults = 0
    BY DataGrows DEF EnrichmentShape
  <2> QED BY <1>1, <2>1, <2>2, KnowingStays, FewPassedStays
<1>3. ASSUME UNCHANGED taskVars PROVE NightKnows(n)' /\ (enrichFaults' = 0 => FewPassed(n)')
  <2>1. enrichFaults' = 0 => enrichFaults = 0
    BY DataGrows DEF EnrichmentShape
  <2> QED BY <1>1, <1>3, <2>1, KnowingStays, FewPassedStays DEF taskVars
<1>4. ASSUME StepOf(n) PROVE NightKnows(n)' /\ (enrichFaults' = 0 => FewPassed(n)')
  <2>1. NightKnows(n)'
    BY <1>1, <1>4, NightKnowsStep
  <2>2. ASSUME enrichFaults' = 0 PROVE FewPassed(n)'
    <3>1. enrichFaults = 0 /\ ~Again(n) /\ ~NWriteLost(n) /\ ~NFetchLost(n)
      BY <1>1, <2>2, DataGrows DEF EnrichmentShape
    <3>2. ASSUME NBegin(n) PROVE FewPassed(n)'
      BY <1>1, <3>2 DEF NBegin, EnrichmentShape, FewPassed, NightKnows
    <3>3. ASSUME NDone(n) PROVE FewPassed(n)'
      BY <1>1, <3>3 DEF NDone, EnrichmentShape, FewPassed
    <3> QED BY <1>1, <1>4, <3>1, <3>2, <3>3, ListBegins, PageIsRead, PageIsWritten
         DEF StepOf, NightStep, Night
  <2> QED BY <2>1, <2>2
<1> QED BY <1>2, <1>3, <1>4 DEF EnrichmentNext, RecordStored, enrichmentVars, StepOf, NightStep, RunStep, Tasks

\* For any records, enrichers, tasks, overlapping nights and page size: what a
\* night without an error has stepped over of a list, although it was on it and
\* could be derived, is at most as much as was enriched while it paged.
THEOREM NightsStepOverFew == EnrichmentSpec => []NightStepsOverFew
<1>1. EnrichmentInit => NightInv
  BY DEF EnrichmentInit, NightInv, NightKnows, FewPassed, Paging, Tasks
<1>2. NightInv => NightStepsOverFew
  BY DEF NightInv, FewPassed, Owed, Gained, NightStepsOverFew
<1> QED BY <1>1, <1>2, NightInvStep, EnrichmentShaped, PTL DEF EnrichmentSpec

================================================================================
