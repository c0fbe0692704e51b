--------------------------- MODULE RunControlProofs ----------------------------
(***************************************************************************)
(* Proofs about LaunchGuard, EventStream and Comments.                      *)
(*                                                                         *)
(* How many runs of a query design can be open, and how many live runs it   *)
(* can have, for any number of runs, requests and faults: a request that has*)
(* passed a guard and not inserted yet is counted together with the runs the*)
(* guard is about.                                                          *)
(*                                                                         *)
(* A page stops listening only after the end, and what it shows of a task   *)
(* never goes back: both rest on the order of commit, publication, snapshot *)
(* and subscription.                                                        *)
(*                                                                         *)
(* Every completed run has asked for the comments of its posts; and, as long*)
(* as nothing fails and triggers run one at a time, one job is under way at *)
(* a time and a post is paid for at most twice.                             *)
(***************************************************************************)
EXTENDS LaunchGuard, EventStream, Comments, FiniteSetTheorems, SequenceTheorems, TLAPS

-----------------------------------------------------------------------------
(* LaunchGuard *)

\* A run keeps to the statuses of its mode, and whatever is going to be done to
\* it later is something for its mode.
RunsFit ==
  /\ \A r \in LaunchRuns :
       /\ mode[r] = "none"  => state[r] = "none"
       /\ mode[r] = "batch" => state[r] \in {"pending", "running"} \cup Ended
       /\ mode[r] = "live"  => state[r] \in {"pending", "active", "suspended"} \cup Ended
  /\ \A r \in queued : mode[r] = "batch"
  /\ \A r \in due \cup started : mode[r] = "live"

RequestsFit ==
  /\ \A u \in Clickers : ask[u] # NoAsk =>
       /\ mode[ask[u].run] # "none"
       /\ ask[u].verb # "cancel" => mode[ask[u].run] = "live"
  /\ \A l \in Launchers : gpc[l] \in {"guard", "insert"} => goal[l] # "none"

\* The requests past the duplicate-run guard, and those past the look of
\* start_live_tracking, that have still to insert their run.
Inserting == {l \in Launchers : gpc[l] = "insert"}
Starting  == {l \in Launchers : gpc[l] \in {"guard", "insert"} /\ goal[l] \in {"backfill", "tracked"}}

\* The live runs that start requests have inserted.
Tracked == Live \cap started

OpenCount == Cardinality(Open \ reopened) + Cardinality(Inserting) <= Cardinality(Launchers)
LiveCount == Cardinality(Tracked \ reopened) + Cardinality(Starting) <= Cardinality(Launchers)

LaunchInv == LaunchTypeOK /\ RunsFit /\ RequestsFit /\ OpenCount /\ LiveCount

-----------------------------------------------------------------------------
(* Counting *)

LEMMA Finite ==
  ASSUME NEW S, S \subseteq LaunchRuns
  PROVE  IsFiniteSet(S) /\ Cardinality(S) \in Nat
<1>1. IsFiniteSet(LaunchRuns)
  BY FS_Interval, LaunchAssumption DEF LaunchRuns
<1> QED BY <1>1, FS_Subset, FS_CardinalityType

LEMMA FewLaunchers ==
  ASSUME NEW S, S \subseteq Launchers
  PROVE  /\ IsFiniteSet(S) /\ Cardinality(S) \in Nat /\ Cardinality(Launchers) \in Nat
         /\ Cardinality(S) <= Cardinality(Launchers)
  BY FS_Subset, FS_CardinalityType, LaunchAssumption DEF LaunchAssumption

\* Nothing is added to either set, or a request becomes a run.
LEMMA Exchange ==
  ASSUME NEW A, NEW B, NEW C, NEW D, NEW n \in Nat,
         IsFiniteSet(A), IsFiniteSet(B), Cardinality(A) + Cardinality(B) <= n,
         \/ C \subseteq A /\ D \subseteq B
         \/ \E r, l : l \in B /\ C \subseteq A \cup {r} /\ D \subseteq B \ {l}
  PROVE  Cardinality(C) + Cardinality(D) <= n
<1>0. Cardinality(A) \in Nat /\ Cardinality(B) \in Nat
  BY FS_CardinalityType
<1>1. CASE C \subseteq A /\ D \subseteq B
  <2>1. /\ Cardinality(C) <= Cardinality(A) /\ Cardinality(C) \in Nat
        /\ Cardinality(D) <= Cardinality(B) /\ Cardinality(D) \in Nat
    BY <1>1, FS_Subset, FS_CardinalityType
  <2> QED BY <1>0, <2>1
<1>2. ASSUME NEW r, NEW l, l \in B, C \subseteq A \cup {r}, D \subseteq B \ {l}
      PROVE  Cardinality(C) + Cardinality(D) <= n
  <2>1. /\ IsFiniteSet(A \cup {r}) /\ Cardinality(A \cup {r}) <= Cardinality(A) + 1
        /\ Cardinality(A \cup {r}) \in Nat
    <3>1. Cardinality(A \cup {r}) \in {Cardinality(A), Cardinality(A) + 1} /\ IsFiniteSet(A \cup {r})
      BY FS_AddElement
    <3> QED BY <1>0, <3>1
  <2>2. /\ IsFiniteSet(B \ {l}) /\ Cardinality(B \ {l}) = Cardinality(B) - 1
    BY <1>2, FS_RemoveElement
  <2>3. /\ Cardinality(C) <= Cardinality(A \cup {r}) /\ Cardinality(C) \in Nat
        /\ Cardinality(D) <= Cardinality(B \ {l}) /\ Cardinality(D) \in Nat
    BY <1>2, <2>1, <2>2, FS_Subset, FS_CardinalityType
  <2> QED BY <1>0, <2>1, <2>2, <2>3
<1> QED BY <1>1, <1>2

-----------------------------------------------------------------------------
(* Types *)

LEMMA LaunchInvInit == LaunchInit => LaunchInv
<1> SUFFICES ASSUME LaunchInit PROVE LaunchInv
  OBVIOUS
<1>1. LaunchTypeOK /\ RunsFit /\ RequestsFit
  BY LaunchAssumption
  DEF LaunchInit, LaunchTypeOK, RunsFit, RequestsFit, NoAsk, Ended, LaunchAssumption
<1>2. Open = {} /\ Tracked = {} /\ Inserting = {} /\ Starting = {}
  BY DEF LaunchInit, Open, Tracked, Live, Inserting, Starting
<1>3. OpenCount /\ LiveCount
  BY <1>2, FewLaunchers, FS_EmptySet DEF OpenCount, LiveCount
<1> QED BY <1>1, <1>3 DEF LaunchInv

\* A new run fits, whatever it is meant for.
LEMMA InsertFits ==
  ASSUME LaunchTypeOK, RunsFit, RequestsFit, NEW l \in Launchers, NEW r \in LaunchRuns,
         New(l, r), Inserted(l), state' = [state EXCEPT ![r] = "pending"],
         queued' \in {queued, IF goal[l] \in LiveGoals THEN queued ELSE queued \cup {r}},
         UNCHANGED <<gap, ask, dVars, reopened>>, launchFaults' \in 0 .. MaxLaunchFaults
  PROVE  (LaunchTypeOK /\ RunsFit /\ RequestsFit)'
<1> USE DEF LaunchTypeOK, Ended, Goals, LiveGoals, dVars
<1>1. /\ gpc[l] = "insert" /\ goal[l] \in Goals
      /\ mode[r] = "none" /\ mode' = [mode EXCEPT ![r] = IF goal[l] \in LiveGoals THEN "live" ELSE "batch"]
      /\ started' \subseteq LaunchRuns
      /\ started' \subseteq started \cup {r} /\ (goal[l] # "tracked" => started' = started)
  BY DEF New, RequestsFit
<1>2. \E c \in {"idle", "guard"}, g \in {"none", "tracked"} :
        /\ gpc' = [gpc EXCEPT ![l] = c] /\ goal' = [goal EXCEPT ![l] = g]
        /\ c = "guard" => g # "none"
  BY <1>1 DEF Inserted, Respond, Go
<1>3. LaunchTypeOK'
  BY <1>1, <1>2
<1>4. RunsFit'
  BY <1>1 DEF RunsFit
<1>5. \A u \in Clickers : ask[u] # NoAsk => ask[u].run \in LaunchRuns /\ ask[u].run # r
  BY <1>1 DEF RequestsFit, NoAsk
<1>6. (\A u \in Clickers : ask[u] # NoAsk =>
        /\ mode[ask[u].run] # "none"
        /\ ask[u].verb # "cancel" => mode[ask[u].run] = "live")'
  BY <1>1, <1>5 DEF RequestsFit
<1>7. (\A k \in Launchers : gpc[k] \in {"guard", "insert"} => goal[k] # "none")'
  BY <1>1, <1>2 DEF RequestsFit
<1> QED BY <1>3, <1>4, <1>6, <1>7 DEF RequestsFit

LEMMA LaunchTypes ==
  LaunchTypeOK /\ RunsFit /\ RequestsFit /\ [LaunchNext]_launchVars
    => (LaunchTypeOK /\ RunsFit /\ RequestsFit)'
<1> DEFINE Fit == LaunchTypeOK /\ RunsFit /\ RequestsFit
<1> SUFFICES ASSUME Fit, [LaunchNext]_launchVars PROVE Fit'
  OBVIOUS
<1> USE LaunchAssumption DEF LaunchTypeOK, RunsFit, RequestsFit, Ended, gVars, dVars, Go, Respond,
      GiveUp, LaunchFault, SetState, Goals, LiveGoals
<1>1. ASSUME NEW l \in Launchers, GCreate(l) PROVE Fit'
  BY <1>1 DEF GCreate
<1>2. ASSUME NEW l \in Launchers, GStart(l) PROVE Fit'
  BY <1>2 DEF GStart
<1>3. ASSUME NEW l \in Launchers, GGuard(l) PROVE Fit'
  BY <1>3 DEF GGuard
<1>4. ASSUME NEW l \in Launchers, GRefuse(l) PROVE Fit'
  BY <1>4 DEF GRefuse
<1>5. ASSUME NEW l \in Launchers, NEW r \in LaunchRuns, GInsert(l, r) PROVE Fit'
  BY <1>5, InsertFits DEF GInsert
<1>6. ASSUME NEW l \in Launchers, NEW r \in LaunchRuns, GInsertUnsent(l, r) PROVE Fit'
  <2>1. launchFaults' \in 0 .. MaxLaunchFaults /\ queued' = queued
    BY <1>6 DEF GInsertUnsent
  <2>2. /\ New(l, r) /\ Inserted(l) /\ state' = [state EXCEPT ![r] = "pending"]
        /\ UNCHANGED <<gap, ask, dVars, reopened>>
    BY <1>6 DEF GInsertUnsent
  <2> QED BY <2>1, <2>2, InsertFits
<1>7. ASSUME NEW l \in Launchers, NEW r \in LaunchRuns, GInsertShort(l, r) PROVE Fit'
  BY <1>7 DEF GInsertShort, New
<1>9. ASSUME NEW l \in Launchers, GDies(l) PROVE Fit'
  BY <1>9 DEF GDies
<1>10. ASSUME NEW r \in LaunchRuns, BBegin(r) PROVE Fit'
  BY <1>10 DEF BBegin
<1>11. ASSUME NEW r \in LaunchRuns, NEW s \in {"completed", "failed"}, BEnd(r, s) PROVE Fit'
  BY <1>11 DEF BEnd
<1>12. ASSUME NEW u \in Clickers, NEW v \in Verbs, NEW r \in LaunchRuns, UAsk(u, v, r) PROVE Fit'
  BY <1>12 DEF UAsk, Admissible, Verbs, NoAsk
<1>13. ASSUME NEW u \in Clickers, UCommit(u) PROVE Fit'
  BY <1>13 DEF UCommit, After, Verbs, NoAsk
<1>14. CASE DFetch
  BY <1>14 DEF DFetch, Live, LaunchAssumption
<1>15. ASSUME NEW r \in LaunchRuns, DSuspend(r) PROVE Fit'
  BY <1>15 DEF DSuspend, Took
<1>16. ASSUME NEW r \in LaunchRuns, DSend(r) PROVE Fit'
  BY <1>16 DEF DSend, Took
<1>17. CASE DLost
  BY <1>17 DEF DLost, Took
<1>18. CASE UNCHANGED launchVars
  BY <1>18 DEF launchVars
<1> QED
  BY <1>1, <1>2, <1>3, <1>4, <1>5, <1>6, <1>7, <1>9, <1>10, <1>11, <1>12, <1>13, <1>14,
     <1>15, <1>16, <1>17, <1>18
  DEF LaunchNext, Launch, BatchSteps, Daily

-----------------------------------------------------------------------------
(* The two counts *)

\* A status write adds a run to the open ones only if it is reopened.
LEMMA WriteOpen ==
  ASSUME LaunchTypeOK, NEW r \in LaunchRuns, NEW s, SetState(r, s),
         s \in {"pending", "running"} => state[r] \in {"pending", "running"} \cup Ended
  PROVE  (Open \ reopened)' \subseteq Open \ reopened
  BY DEF LaunchTypeOK, SetState, Open, Ended

LEMMA WriteLive ==
  ASSUME LaunchTypeOK, NEW r \in LaunchRuns, NEW s, SetState(r, s), UNCHANGED <<mode, started>>,
         mode[r] = "live" => state[r] \in {"pending", "active", "suspended"} \cup Ended
  PROVE  (Tracked \ reopened)' \subseteq Tracked \ reopened
  BY DEF LaunchTypeOK, SetState, Tracked, Live, Ended

\* What a step may do to the two pairs of sets.
OpenExchanged ==
  \/ (Open \ reopened)' \subseteq Open \ reopened /\ Inserting' \subseteq Inserting
  \/ \E r, l : /\ l \in Inserting /\ (Open \ reopened)' \subseteq (Open \ reopened) \cup {r}
              /\ Inserting' \subseteq Inserting \ {l}
  \/ (Open \ reopened)' = {}

LiveExchanged ==
  \/ (Tracked \ reopened)' \subseteq Tracked \ reopened /\ Starting' \subseteq Starting
  \/ \E r, l : /\ l \in Starting /\ (Tracked \ reopened)' \subseteq (Tracked \ reopened) \cup {r}
              /\ Starting' \subseteq Starting \ {l}
  \/ (Tracked \ reopened)' = {}

LEMMA StepExchanges ==
  ASSUME LaunchTypeOK, RunsFit, RequestsFit, [LaunchNext]_launchVars
  PROVE  OpenExchanged /\ LiveExchanged
<1> DEFINE Exchanged == OpenExchanged /\ LiveExchanged
<1> USE DEF LaunchTypeOK, gVars, dVars, Inserting, Starting, OpenExchanged, LiveExchanged
<1>a. ASSUME UNCHANGED <<mode, started, state, reopened>>
      PROVE  (Open \ reopened)' = Open \ reopened /\ (Tracked \ reopened)' = Tracked \ reopened
  BY <1>a DEF Open, Tracked, Live
<1>1. ASSUME NEW l \in Launchers, GCreate(l) PROVE Exchanged
  BY <1>1, <1>a DEF GCreate, Go
<1>2. ASSUME NEW l \in Launchers, GStart(l) PROVE Exchanged
  BY <1>2, <1>a DEF GStart, Go, Tracked
<1>3. ASSUME NEW l \in Launchers, GGuard(l) PROVE Exchanged
  BY <1>3, <1>a DEF GGuard, Go, GiveUp, Respond
<1>4. ASSUME NEW l \in Launchers, GRefuse(l) PROVE Exchanged
  BY <1>4, <1>a DEF GRefuse, Go, GiveUp, Respond
<1>5. ASSUME NEW l \in Launchers, NEW r \in LaunchRuns, New(l, r), Inserted(l),
             state' = [state EXCEPT ![r] = "pending"], UNCHANGED reopened
      PROVE  Exchanged
  <2>1. (Open \ reopened)' \subseteq (Open \ reopened) \cup {r}
    BY <1>5 DEF Open
  <2>2. goal[l] # "tracked" => (Tracked \ reopened)' \subseteq Tracked \ reopened
    BY <1>5 DEF New, Tracked, Live, RunsFit
  <2>3. (Tracked \ reopened)' \subseteq (Tracked \ reopened) \cup {r}
    BY <1>5 DEF New, Tracked, Live, RunsFit
  <2>4. l \in Inserting /\ goal[l] \in Goals
    BY <1>5 DEF New, RequestsFit
  <2>5. CASE goal[l] \in {"batch", "live"}
    BY <1>5, <2>1, <2>2, <2>4, <2>5 DEF Inserted, Go, Respond
  <2>6. CASE goal[l] = "backfill"
    <3>1. gpc' = [gpc EXCEPT ![l] = "guard"] /\ goal' = [goal EXCEPT ![l] = "tracked"]
      BY <1>5, <2>6 DEF Inserted, Go
    <3>2. Inserting' \subseteq Inserting \ {l} /\ Starting' \subseteq Starting
      BY <2>4, <2>6, <3>1
    <3> QED BY <2>1, <2>2, <2>4, <2>6, <3>2
  <2>7. CASE goal[l] = "tracked"
    <3>1. gpc' = [gpc EXCEPT ![l] = "idle"]
      BY <1>5, <2>7 DEF Inserted, Go, Respond
    <3>2. goal' = [goal EXCEPT ![l] = "none"]
      BY <1>5, <2>7 DEF Inserted, Go, Respond
    <3>3. l \in Starting /\ Inserting' \subseteq Inserting \ {l} /\ Starting' \subseteq Starting \ {l}
      BY <2>4, <2>7, <3>1, <3>2
    <3> QED BY <2>1, <2>3, <2>4, <3>3
  <2> QED BY <2>4, <2>5, <2>6, <2>7 DEF Goals
<1>6. ASSUME NEW l \in Launchers, NEW r \in LaunchRuns, GInsertShort(l, r) PROVE Exchanged
  <2>1. (Open \ reopened)' \subseteq Open \ reopened
    BY <1>6 DEF GInsertShort, Open
  <2>2. (Tracked \ reopened)' \subseteq Tracked \ reopened
    BY <1>6 DEF GInsertShort, New, Tracked, Live
  <2> QED BY <1>6, <2>1, <2>2 DEF GInsertShort, New, GiveUp, Go, Respond
<1>8. ASSUME NEW l \in Launchers, GDies(l) PROVE Exchanged
  BY <1>8, <1>a DEF GDies, Go, Respond
<1>9. ASSUME NEW r \in LaunchRuns, BBegin(r) PROVE Exchanged
  <2>1. mode[r] = "batch" /\ UNCHANGED <<mode, started, gpc, goal>> /\ SetState(r, "running")
    BY <1>9 DEF BBegin, RunsFit
  <2> QED BY <2>1, WriteOpen, WriteLive DEF RunsFit
<1>10. ASSUME NEW r \in LaunchRuns, NEW s \in {"completed", "failed"}, BEnd(r, s) PROVE Exchanged
  <2>1. UNCHANGED <<mode, started, gpc, goal>> /\ SetState(r, s)
    BY <1>10 DEF BEnd
  <2> QED BY <2>1, WriteOpen, WriteLive DEF RunsFit
<1>11. ASSUME NEW u \in Clickers, UCommit(u) PROVE Exchanged
  <2>1. /\ UNCHANGED <<mode, started, gpc, goal>> /\ ask[u].run \in LaunchRuns
        /\ SetState(ask[u].run, After(ask[u].verb)) /\ ask[u].verb \in Verbs
    BY <1>11 DEF UCommit, NoAsk
  <2>2. After(ask[u].verb) \notin {"pending", "running"}
    BY <2>1 DEF After, Verbs
  <2> QED BY <2>1, <2>2, WriteOpen, WriteLive DEF RunsFit
<1>12. ASSUME NEW r \in LaunchRuns, DSuspend(r) PROVE Exchanged
  <2>1. UNCHANGED <<mode, started, gpc, goal>> /\ SetState(r, "suspended")
    BY <1>12 DEF DSuspend
  <2> QED BY <2>1, WriteOpen, WriteLive DEF RunsFit
<1>13. ASSUME UNCHANGED <<mode, started, state, reopened, gpc, goal>> PROVE Exchanged
  BY <1>13, <1>a
<1> QED
  BY <1>1, <1>2, <1>3, <1>4, <1>5, <1>6, <1>8, <1>9, <1>10, <1>11, <1>12, <1>13
  DEF LaunchNext, Launch, GInsert, GInsertUnsent, BatchSteps, Daily, UAsk, DFetch, DSend, DLost,
      launchVars

LEMMA LaunchCounts ==
  LaunchInv /\ [LaunchNext]_launchVars => OpenCount' /\ LiveCount'
<1> SUFFICES ASSUME LaunchInv, [LaunchNext]_launchVars PROVE OpenCount' /\ LiveCount'
  OBVIOUS
<1>1. OpenExchanged /\ LiveExchanged
  BY StepExchanges DEF LaunchInv
<1>2. /\ IsFiniteSet(Open \ reopened) /\ IsFiniteSet(Tracked \ reopened)
      /\ IsFiniteSet(Inserting) /\ IsFiniteSet(Starting) /\ Cardinality(Launchers) \in Nat
  BY Finite, FewLaunchers DEF Open, Tracked, Live, Inserting, Starting
<1>3. Inserting' \subseteq Launchers /\ Starting' \subseteq Launchers
  BY DEF Inserting, Starting
<1>4. /\ Cardinality(Inserting') \in Nat /\ Cardinality(Inserting') <= Cardinality(Launchers)
      /\ Cardinality(Starting') \in Nat /\ Cardinality(Starting') <= Cardinality(Launchers)
  BY <1>3, FewLaunchers
<1>5. OpenCount'
  <2>1. CASE (Open \ reopened)' = {}
    <3>1. Cardinality((Open \ reopened)') = 0
      BY <2>1, FS_EmptySet
    <3> QED BY <1>4, <3>1 DEF OpenCount
  <2>2. CASE (Open \ reopened)' # {}
    <3> DEFINE A == Open \ reopened
               B == Inserting
    <3>1. Cardinality(A) + Cardinality(B) <= Cardinality(Launchers)
      BY DEF OpenCount, LaunchInv
    <3>2. \/ A' \subseteq A /\ B' \subseteq B
          \/ \E r, l : l \in B /\ A' \subseteq A \cup {r} /\ B' \subseteq B \ {l}
      BY <1>1, <2>2 DEF OpenExchanged
    <3>3. IsFiniteSet(A) /\ IsFiniteSet(B) /\ Cardinality(Launchers) \in Nat
      BY <1>2
    <3> HIDE DEF A, B
    <3>4. \A C, D : \/ C \subseteq A /\ D \subseteq B
                    \/ \E r, l : l \in B /\ C \subseteq A \cup {r} /\ D \subseteq B \ {l}
                    => Cardinality(C) + Cardinality(D) <= Cardinality(Launchers)
      BY <3>1, <3>3, Exchange
    <3>5. Cardinality(A') + Cardinality(B') <= Cardinality(Launchers)
      BY <3>2, <3>4
    <3> QED BY <3>5 DEF OpenCount, A, B
  <2> QED BY <2>1, <2>2
<1>6. LiveCount'
  <2>1. CASE (Tracked \ reopened)' = {}
    <3>1. Cardinality((Tracked \ reopened)') = 0
      BY <2>1, FS_EmptySet
    <3> QED BY <1>4, <3>1 DEF LiveCount
  <2>2. CASE (Tracked \ reopened)' # {}
    <3> DEFINE A == Tracked \ reopened
               B == Starting
    <3>1. Cardinality(A) + Cardinality(B) <= Cardinality(Launchers)
      BY DEF LiveCount, LaunchInv
    <3>2. \/ A' \subseteq A /\ B' \subseteq B
          \/ \E r, l : l \in B /\ A' \subseteq A \cup {r} /\ B' \subseteq B \ {l}
      BY <1>1, <2>2 DEF LiveExchanged
    <3>3. IsFiniteSet(A) /\ IsFiniteSet(B) /\ Cardinality(Launchers) \in Nat
      BY <1>2
    <3> HIDE DEF A, B
    <3>4. \A C, D : \/ C \subseteq A /\ D \subseteq B
                    \/ \E r, l : l \in B /\ C \subseteq A \cup {r} /\ D \subseteq B \ {l}
                    => Cardinality(C) + Cardinality(D) <= Cardinality(Launchers)
      BY <3>1, <3>3, Exchange
    <3>5. Cardinality(A') + Cardinality(B') <= Cardinality(Launchers)
      BY <3>2, <3>4
    <3> QED BY <3>5 DEF LiveCount, A, B
  <2> QED BY <2>1, <2>2
<1> QED BY <1>5, <1>6

LEMMA LaunchInvAlways == LaunchSpec => []LaunchInv
<1>1. LaunchInv /\ [LaunchNext]_launchVars => LaunchInv'
  BY LaunchTypes, LaunchCounts DEF LaunchInv
<1> QED BY <1>1, LaunchInvInit, PTL DEF LaunchSpec

-----------------------------------------------------------------------------

\* The rows and the requests of a query design stay well formed.
THEOREM LaunchTypeCorrect == LaunchSpec => []LaunchTypeOK
<1>1. LaunchInv => LaunchTypeOK
  BY DEF LaunchInv
<1> QED BY <1>1, LaunchInvAlways, PTL

\* However many requests race through the guard, suspend, resume, cancel or
\* die half-way, no more runs are open than requests can be in flight.
THEOREM OpenRunsAreBounded == LaunchSpec => []OpenRunsBounded
<1>1. LaunchInv => OpenRunsBounded
  <2> SUFFICES ASSUME LaunchInv PROVE OpenRunsBounded
    OBVIOUS
  <2>1. Cardinality(Open \ reopened) \in Nat /\ Cardinality(Inserting) \in Nat /\ Cardinality(Launchers) \in Nat
    BY Finite, FewLaunchers DEF Open, Inserting
  <2> QED BY <2>1 DEF LaunchInv, OpenCount, OpenRunsBounded
<1> QED BY <1>1, LaunchInvAlways, PTL

\* The same for live runs and the look of start_live_tracking.
THEOREM LiveRunsAreBounded == LaunchSpec => []LiveRunsBounded
<1>1. LaunchInv => LiveRunsBounded
  <2> SUFFICES ASSUME LaunchInv PROVE LiveRunsBounded
    OBVIOUS
  <2>1. Cardinality(Tracked \ reopened) \in Nat /\ Cardinality(Starting) \in Nat /\ Cardinality(Launchers) \in Nat
    BY Finite, FewLaunchers DEF Tracked, Live, Starting
  <2> QED BY <2>1 DEF LaunchInv, LiveCount, LiveRunsBounded, Tracked
<1> QED BY <1>1, LaunchInvAlways, PTL

\* Both together.
THEOREM LaunchesAreBounded == LaunchSpec => []LaunchesBounded
<1>1. OpenRunsBounded /\ LiveRunsBounded => LaunchesBounded
  BY DEF LaunchesBounded
<1> QED BY <1>1, OpenRunsAreBounded, LiveRunsAreBounded, PTL

-----------------------------------------------------------------------------
(* EventStream *)

Messages == {"running", "finished", EndEvent}

\* Who has committed the end, has read it, or has heard of it.
EndIsCommitted ==
  /\ \A e \in Enders : epc[e] \in {"committed", "done"} => runState = "ended"
  /\ \A v \in Viewers :
       /\ loaded[v] = "ended" => runState = "ended"
       /\ vpc[v] = "closed" => runState = "ended"
       /\ \A i \in 1 .. Len(channel[v]) : channel[v][i] = EndEvent => runState = "ended"

\* The messages about the task come in order, none before lo, none after hi.
Sorted(c, lo, hi) ==
  \A i \in 1 .. Len(c) : c[i] # EndEvent =>
    /\ RankOf(lo) <= RankOf(c[i]) /\ RankOf(c[i]) <= RankOf(hi)
    /\ \A j \in i .. Len(c) : c[j] # EndEvent => RankOf(c[i]) <= RankOf(c[j])

\* Only a subscription holds messages.
NobodyElseListens == \A v \in Viewers : vpc[v] # "subscribed" => channel[v] = <<>>

\* While nothing has gone astray, what a page shows, the messages on their way to
\* it, what the jobs are about to publish and the row are in this order.
InOrder ==
  ~astray =>
    /\ \A j \in ArenaJobs : unsaid[j] # "none" => RankOf(unsaid[j]) = RankOf(taskState)
    /\ \A v \in Viewers :
         /\ RankOf(view[v]) <= RankOf(taskState)
         /\ Sorted(channel[v], view[v], taskState)

StreamInv == StreamTypeOK /\ EndIsCommitted /\ NobodyElseListens /\ InOrder

-----------------------------------------------------------------------------
(* Messages in order *)

LEMMA StageType == ASSUME NEW s PROVE RankOf(s) \in 0 .. 3
  BY DEF RankOf

LEMMA SortedAppend ==
  ASSUME NEW c \in Seq(Messages), NEW m \in Messages, NEW lo, NEW hi,
         Sorted(c, lo, hi), m # EndEvent => RankOf(m) = RankOf(hi) /\ RankOf(lo) <= RankOf(hi)
  PROVE  Sorted(Append(c, m), lo, hi)
<1> DEFINE d == Append(c, m)
<1>1. Len(d) = Len(c) + 1 /\ Len(c) \in Nat
  BY AppendProperties
<1>2. \A i \in 1 .. Len(c) : d[i] = c[i]
  BY AppendProperties
<1>3. d[Len(c) + 1] = m
  BY AppendProperties
<1> HIDE DEF d
<1>4. \A i \in 1 .. Len(d) : i \in 1 .. Len(c) \/ i = Len(c) + 1
  BY <1>1
<1>5. \A i \in 1 .. Len(d) : d[i] # EndEvent =>
        RankOf(lo) <= RankOf(d[i]) /\ RankOf(d[i]) <= RankOf(hi)
  BY <1>2, <1>3, <1>4, StageType DEF Sorted
<1>6. ASSUME NEW i \in 1 .. Len(d), NEW j \in i .. Len(d), d[i] # EndEvent, d[j] # EndEvent
      PROVE  RankOf(d[i]) <= RankOf(d[j])
  <2>1. CASE j = Len(c) + 1
    BY <1>3, <1>5, <1>6, <2>1, StageType
  <2>2. CASE j # Len(c) + 1
    <3>1. i \in 1 .. Len(c) /\ j \in i .. Len(c) /\ j \in 1 .. Len(c)
      BY <1>1, <1>6, <2>2
    <3> QED BY <3>1, <1>2, <1>6 DEF Sorted
  <2> QED BY <2>1, <2>2
<1> QED BY <1>5, <1>6 DEF Sorted, d

LEMMA SortedTail ==
  ASSUME NEW c \in Seq(Messages), c # <<>>, NEW lo, NEW hi, Sorted(c, lo, hi)
  PROVE  /\ Head(c) \in Messages /\ Tail(c) \in Seq(Messages)
         /\ Head(c) = EndEvent => Sorted(Tail(c), lo, hi)
         /\ Head(c) # EndEvent =>
              /\ Sorted(Tail(c), Head(c), hi)
              /\ RankOf(lo) <= RankOf(Head(c)) /\ RankOf(Head(c)) <= RankOf(hi)
<1> DEFINE d == Tail(c)
<1>1. Len(c) \in Nat \ {0} /\ Head(c) = c[1] /\ 1 \in 1 .. Len(c)
  OBVIOUS
<1>2. Head(c) \in Messages /\ d \in Seq(Messages) /\ Len(d) = Len(c) - 1
  BY HeadTailProperties
<1>3. \A i \in 1 .. Len(d) : d[i] = c[i + 1]
  BY HeadTailProperties
<1> HIDE DEF d
<1>4. \A i \in 1 .. Len(d) : i + 1 \in 1 .. Len(c) /\ \A j \in i .. Len(d) : j \in 1 .. Len(d) /\ j + 1 \in (i + 1) .. Len(c)
  BY <1>1, <1>2
<1>5. \A i \in 1 .. Len(d) : 1 <= i + 1 /\ i + 1 \in 1 .. Len(c)
  BY <1>1, <1>2
<1>6. Sorted(d, lo, hi)
  BY <1>3, <1>4 DEF Sorted
<1>7. ASSUME Head(c) # EndEvent PROVE Sorted(d, Head(c), hi)
  <2>1. \A i \in 1 .. Len(d) : d[i] # EndEvent => RankOf(Head(c)) <= RankOf(d[i])
    BY <1>1, <1>3, <1>5, <1>7 DEF Sorted
  <2> QED BY <1>6, <2>1 DEF Sorted
<1> QED BY <1>1, <1>2, <1>6, <1>7 DEF Sorted, d

LEMMA SortedWithin ==
  ASSUME NEW c, NEW lo, NEW hi, NEW higher, Sorted(c, lo, hi), RankOf(hi) <= RankOf(higher)
  PROVE  Sorted(c, lo, higher)
  BY StageType DEF Sorted

LEMMA SortedEmpty == ASSUME NEW lo, NEW hi PROVE Sorted(<<>>, lo, hi)
  BY DEF Sorted

-----------------------------------------------------------------------------
(* The invariant *)

LEMMA StreamInvInit == StreamInit => StreamInv
<1> SUFFICES ASSUME StreamInit PROVE StreamInv
  OBVIOUS
<1>1. StreamTypeOK
  <2>1. streamFaults \in 0 .. MaxStreamFaults /\ said \in Nat /\ connects \in [Viewers -> Nat]
    BY StreamAssumption DEF StreamInit
  <2>2. <<>> \in Seq({"running", "finished", EndEvent})
    OBVIOUS
  <2>3. channel \in [Viewers -> Seq({"running", "finished", EndEvent})]
    BY <2>2 DEF StreamInit
  <2> QED BY <2>1, <2>3 DEF StreamInit, StreamTypeOK
<1>2. EndIsCommitted /\ NobodyElseListens
  BY DEF StreamInit, EndIsCommitted, NobodyElseListens
<1>3. InOrder
  BY SortedEmpty DEF StreamInit, InOrder, RankOf
<1> QED BY <1>1, <1>2, <1>3 DEF StreamInv

\* The type of the variables, one step per action.
LEMMA StreamTypes == StreamTypeOK /\ [StreamNext]_streamVars => StreamTypeOK'
<1> SUFFICES ASSUME StreamTypeOK, [StreamNext]_streamVars PROVE StreamTypeOK'
  OBVIOUS
<1> USE StreamAssumption DEF StreamTypeOK, viewVars, jobVars, EndEvent
<1>1. ASSUME NEW j \in ArenaJobs, ArenaJob(j) PROVE StreamTypeOK'
  <2> USE DEF Recall, Goes, SaysAgain, StreamFault
  <2>1. CASE JBegins(j)
    BY <2>1 DEF JBegins, Write
  <2>2. CASE JProgresses(j)
    BY <2>2 DEF JProgresses
  <2>3. CASE JFinishes(j)
    BY <2>3 DEF JFinishes, Write
  <2>4. CASE JAgain(j)
    BY <2>4 DEF JAgain
  <2>5. CASE JUnwritten(j)
    BY <2>5 DEF JUnwritten
  <2>6. CASE JWorkerLost(j)
    BY <2>6 DEF JWorkerLost
  <2>7. CASE JPublish(j)
    BY <2>7 DEF JPublish, Publish
  <2>8. CASE JPublishLost(j)
    BY <2>8 DEF JPublishLost
  <2> QED BY <1>1, <2>1, <2>2, <2>3, <2>4, <2>5, <2>6, <2>7, <2>8 DEF ArenaJob
<1>2. CASE ESweep
  BY <1>2 DEF ESweep, Recall
<1>4. ASSUME NEW e \in Enders, EDecide(e) PROVE StreamTypeOK'
  BY <1>4 DEF EDecide
<1>13. ASSUME NEW e \in Enders, EEnd(e) PROVE StreamTypeOK'
  BY <1>13 DEF EEnd, Recall
<1>5. ASSUME NEW e \in Enders, EAnnounce(e) PROVE StreamTypeOK'
  BY <1>5 DEF EAnnounce, Publish
<1>6. ASSUME NEW e \in Enders, EAnnounceLost(e) PROVE StreamTypeOK'
  BY <1>6 DEF EAnnounceLost, StreamFault
<1>7. ASSUME NEW v \in Viewers, VConnect(v) PROVE StreamTypeOK'
  BY <1>7 DEF VConnect
<1>11. ASSUME NEW v \in Viewers, VSnapshot(v) PROVE StreamTypeOK'
  BY <1>11 DEF VSnapshot
<1>12. ASSUME NEW v \in Viewers, VSubscribe(v) PROVE StreamTypeOK'
  BY <1>12 DEF VSubscribe
<1>8. ASSUME NEW v \in Viewers, VForward(v) PROVE StreamTypeOK'
  <2>1. channel[v] \in Seq(Messages) /\ channel[v] # <<>> /\ vpc[v] = "subscribed"
    BY <1>8 DEF VForward, Messages
  <2>2. Head(channel[v]) \in Messages /\ Tail(channel[v]) \in Seq(Messages)
    BY <2>1, HeadTailProperties
  <2>3. CASE Head(channel[v]) = EndEvent
    <3>1. channel' = [channel EXCEPT ![v] = <<>>] /\ vpc' = [vpc EXCEPT ![v] = "closed"]
      BY <1>8, <2>3 DEF VForward
    <3>2. UNCHANGED <<runState, taskState, step, unsaid, said, astray, epc, loaded, view, connects, streamFaults>>
      BY <1>8, <2>3 DEF VForward
    <3> QED BY <3>1, <3>2
  <2>4. CASE Head(channel[v]) # EndEvent
    <3>1. channel' = [channel EXCEPT ![v] = Tail(@)] /\ view' = [view EXCEPT ![v] = Head(channel[v])]
      BY <1>8, <2>4 DEF VForward
    <3>2. UNCHANGED <<runState, taskState, step, unsaid, said, astray, epc, vpc, loaded, connects, streamFaults>>
      BY <1>8, <2>4 DEF VForward
    <3>3. Head(channel[v]) \in {"running", "finished"}
      BY <2>2, <2>4 DEF Messages
    <3>4. channel' \in [Viewers -> Seq(Messages)]
      BY <2>2, <3>1 DEF Messages
    <3>5. view' \in [Viewers -> {"none", "pending", "running", "finished", "cancelled"}]
      BY <3>1, <3>3
    <3> QED BY <3>2, <3>4, <3>5 DEF Messages
  <2> QED BY <2>3, <2>4
<1>9. ASSUME NEW v \in Viewers, VDrop(v) PROVE StreamTypeOK'
  BY <1>9 DEF VDrop
<1>10. CASE UNCHANGED streamVars
  BY <1>10 DEF streamVars
<1> QED
  BY <1>1, <1>2, <1>4, <1>5, <1>6, <1>7, <1>8, <1>9, <1>10, <1>11, <1>12, <1>13
  DEF StreamNext, Ender, Viewer

LEMMA StreamEnds ==
  StreamTypeOK /\ EndIsCommitted /\ [StreamNext]_streamVars => EndIsCommitted'
<1> SUFFICES ASSUME StreamTypeOK, EndIsCommitted, [StreamNext]_streamVars PROVE EndIsCommitted'
  OBVIOUS
<1> USE DEF StreamTypeOK, EndIsCommitted, viewVars, jobVars, EndEvent
<1>1. ASSUME NEW j \in ArenaJobs, ArenaJob(j) PROVE EndIsCommitted'
  <2>1. UNCHANGED <<runState, epc, loaded, vpc>>
    BY <1>1 DEF ArenaJob, JBegins, JProgresses, JFinishes, JAgain, JUnwritten, JWorkerLost,
                JPublish, JPublishLost
  <2>2. CASE UNCHANGED channel
    BY <2>1, <2>2
  <2>3. CASE JPublish(j)
    <3>1. Publish(unsaid[j]) /\ unsaid[j] \in {"running", "finished"}
      BY <2>3 DEF JPublish
    <3>2. ASSUME NEW v \in Viewers
          PROVE  channel'[v] \in {channel[v], Append(channel[v], unsaid[j])}
      BY <3>1 DEF Publish
    <3>3. ASSUME NEW v \in Viewers, NEW i \in 1 .. Len(channel'[v]), channel'[v][i] = EndEvent
          PROVE  runState = "ended"
      <4>1. channel[v] \in Seq(Messages) /\ unsaid[j] \in Messages
        BY <3>1 DEF Messages
      <4>2. CASE channel'[v] = channel[v]
        BY <3>3, <4>2
      <4>3. CASE channel'[v] = Append(channel[v], unsaid[j])
        <5>1. i \in 1 .. Len(channel[v]) /\ channel[v][i] = EndEvent
          BY <3>1, <3>3, <4>1, <4>3, AppendProperties
        <5> QED BY <5>1
      <4> QED BY <3>2, <4>2, <4>3
    <3>4. (\A e \in Enders : epc[e] \in {"committed", "done"} => runState = "ended")'
      BY <2>1
    <3>5. ASSUME NEW v \in Viewers
          PROVE  (/\ loaded[v] = "ended" => runState = "ended"
                  /\ vpc[v] = "closed" => runState = "ended"
                  /\ \A i \in 1 .. Len(channel[v]) : channel[v][i] = EndEvent => runState = "ended")'
      BY <2>1, <3>3
    <3> QED BY <3>4, <3>5
  <2> QED
    BY <1>1, <2>2, <2>3 DEF ArenaJob, JBegins, JProgresses, JFinishes, JAgain, JUnwritten,
                            JWorkerLost, JPublishLost
<1>2. CASE ESweep
  BY <1>2 DEF ESweep
<1>4. ASSUME NEW e \in Enders, EDecide(e) PROVE EndIsCommitted'
  BY <1>4 DEF EDecide
<1>13. ASSUME NEW e \in Enders, EEnd(e) PROVE EndIsCommitted'
  BY <1>13 DEF EEnd
<1>5. ASSUME NEW e \in Enders, EAnnounce(e) PROVE EndIsCommitted'
  BY <1>5 DEF EAnnounce, Publish
<1>6. ASSUME NEW e \in Enders, EAnnounceLost(e) PROVE EndIsCommitted'
  BY <1>6 DEF EAnnounceLost
<1>7. ASSUME NEW v \in Viewers, VConnect(v) PROVE EndIsCommitted'
  BY <1>7 DEF VConnect
<1>11. ASSUME NEW v \in Viewers, VSnapshot(v) PROVE EndIsCommitted'
  BY <1>11 DEF VSnapshot
<1>12. ASSUME NEW v \in Viewers, VSubscribe(v) PROVE EndIsCommitted'
  BY <1>12 DEF VSubscribe
<1>8. ASSUME NEW v \in Viewers, VForward(v) PROVE EndIsCommitted'
  <2>1. channel[v] \in Seq(Messages) /\ channel[v] # <<>>
    BY <1>8 DEF VForward, Messages
  <2>2. CASE Head(channel[v]) = EndEvent
    <3>1. channel[v][1] = EndEvent /\ 1 \in 1 .. Len(channel[v])
      BY <2>1, <2>2
    <3>2. runState = "ended"
      BY <3>1
    <3> QED BY <1>8, <2>2, <3>2 DEF VForward
  <2>3. CASE Head(channel[v]) # EndEvent
    <3>1. \A i \in 1 .. Len(Tail(channel[v])) :
            i + 1 \in 1 .. Len(channel[v]) /\ Tail(channel[v])[i] = channel[v][i + 1]
      BY <2>1, HeadTailProperties
    <3>2. channel' = [channel EXCEPT ![v] = Tail(@)]
      BY <1>8, <2>3 DEF VForward
    <3>3. UNCHANGED <<runState, epc, loaded, vpc>>
      BY <1>8, <2>3 DEF VForward
    <3> QED BY <3>1, <3>2, <3>3
  <2> QED BY <2>2, <2>3
<1>9. ASSUME NEW v \in Viewers, VDrop(v) PROVE EndIsCommitted'
  BY <1>9 DEF VDrop
<1>10. CASE UNCHANGED streamVars
  BY <1>10 DEF streamVars
<1> QED
  BY <1>1, <1>2, <1>4, <1>5, <1>6, <1>7, <1>8, <1>9, <1>10, <1>11, <1>12, <1>13
  DEF StreamNext, Ender, Viewer

LEMMA StreamListeners ==
  StreamTypeOK /\ NobodyElseListens /\ [StreamNext]_streamVars => NobodyElseListens'
<1> SUFFICES ASSUME StreamTypeOK, NobodyElseListens, [StreamNext]_streamVars PROVE NobodyElseListens'
  OBVIOUS
<1>1. ASSUME NEW j \in ArenaJobs, ArenaJob(j) PROVE NobodyElseListens'
  BY <1>1 DEF StreamTypeOK, NobodyElseListens, viewVars, ArenaJob, JBegins, JProgresses,
              JFinishes, JAgain, JUnwritten, JWorkerLost, JPublish, JPublishLost, Publish
<1>2. CASE ~\E j \in ArenaJobs : ArenaJob(j)
  BY <1>2 DEF StreamTypeOK, NobodyElseListens, StreamNext, streamVars, viewVars, jobVars, ESweep,
              Publish, Ender, EDecide, EEnd, EAnnounce, EAnnounceLost, Viewer, VConnect,
              VSnapshot, VSubscribe, VForward, VDrop
<1> QED BY <1>1, <1>2

LEMMA StreamOrder ==
  StreamTypeOK /\ NobodyElseListens /\ InOrder /\ [StreamNext]_streamVars => InOrder'
<1> SUFFICES ASSUME StreamTypeOK, NobodyElseListens, InOrder, [StreamNext]_streamVars PROVE InOrder'
  OBVIOUS
<1> USE DEF InOrder, viewVars, jobVars
<1>a. channel \in [Viewers -> Seq(Messages)]
  BY DEF StreamTypeOK, Messages
<1>b. ASSUME Recall, UNCHANGED <<view, channel>> PROVE InOrder'
  <2>1. ~astray' => ~astray /\ ~(RankOf(taskState') < RankOf(taskState))
    BY <1>b DEF Recall
  <2>2. ~astray' => RankOf(taskState) <= RankOf(taskState')
    BY <2>1, StageType
  <2>3. ~astray' => \A j \in ArenaJobs : unsaid'[j] # "none" => RankOf(unsaid'[j]) = RankOf(taskState')
    BY <1>b DEF Recall
  <2> QED BY <1>b, <2>1, <2>2, <2>3, StageType, SortedWithin
<1>c. ASSUME NEW m \in Messages, Publish(m), UNCHANGED <<taskState, astray, view>>,
             ~astray /\ m # EndEvent => RankOf(m) = RankOf(taskState),
             \A j \in ArenaJobs : unsaid'[j] \in {"none", unsaid[j]}
      PROVE  InOrder'
  <2>1. ASSUME NEW v \in Viewers PROVE channel'[v] \in {channel[v], Append(channel[v], m)}
    BY <1>a, <1>c DEF Publish
  <2>2. ASSUME NEW v \in Viewers, ~astray PROVE Sorted(channel'[v], view[v], taskState)
    <3>1. Sorted(Append(channel[v], m), view[v], taskState)
      BY <1>a, <1>c, <2>2, SortedAppend
    <3> QED BY <2>1, <2>2, <3>1
  <2> QED BY <1>c, <2>2
<1>1. ASSUME NEW j \in ArenaJobs, ArenaJob(j) PROVE InOrder'
  <2>1. CASE JPublish(j)
    <3>1. /\ unsaid' = [unsaid EXCEPT ![j] = "none"] /\ unsaid[j] # "none"
          /\ Publish(unsaid[j]) /\ UNCHANGED <<taskState, astray, view>>
      BY <2>1 DEF JPublish
    <3>2. unsaid[j] \in Messages
      BY <3>1 DEF StreamTypeOK, Messages
    <3>3. \A i \in ArenaJobs : unsaid'[i] \in {"none", unsaid[i]}
      BY <3>1 DEF StreamTypeOK
    <3> QED BY <1>c, <3>1, <3>2, <3>3
  <2>2. CASE JPublishLost(j)
    <3>1. \A i \in ArenaJobs : unsaid'[i] \in {"none", unsaid[i]}
      BY <2>2 DEF JPublishLost, StreamTypeOK
    <3> QED BY <2>2, <3>1 DEF JPublishLost
  <2>3. CASE ~(JPublish(j) \/ JPublishLost(j))
    <3>1. Recall /\ UNCHANGED <<view, channel>>
      BY <1>1, <2>3 DEF ArenaJob, JBegins, JProgresses, JFinishes, JAgain, JUnwritten,
                        JWorkerLost, Goes
    <3> QED BY <1>b, <3>1
  <2> QED BY <2>1, <2>2, <2>3
<1>2. CASE ESweep
  BY <1>b, <1>2 DEF ESweep
<1>4. ASSUME NEW e \in Enders, EDecide(e) PROVE InOrder'
  BY <1>4 DEF EDecide
<1>5. ASSUME NEW e \in Enders, EEnd(e) PROVE InOrder'
  BY <1>b, <1>5 DEF EEnd
<1>6. ASSUME NEW e \in Enders, EAnnounce(e) PROVE InOrder'
  BY <1>c, <1>6 DEF EAnnounce, Messages
<1>7. ASSUME NEW e \in Enders, EAnnounceLost(e) PROVE InOrder'
  BY <1>7 DEF EAnnounceLost
<1>8. ASSUME NEW v \in Viewers, VConnect(v) PROVE InOrder'
  BY <1>8 DEF VConnect
<1>9. ASSUME NEW v \in Viewers, VSnapshot(v) PROVE InOrder'
  <2>1. view' = [view EXCEPT ![v] = taskState] /\ UNCHANGED <<taskState, unsaid, astray, channel>>
    BY <1>9 DEF VSnapshot
  <2>2. channel[v] = <<>>
    BY <1>9 DEF VSnapshot, NobodyElseListens
  <2>3. view \in [Viewers -> {"none", "pending", "running", "finished", "cancelled"}]
    BY DEF StreamTypeOK
  <2> QED BY <2>1, <2>2, <2>3, SortedEmpty, StageType
<1>10. ASSUME NEW v \in Viewers, VSubscribe(v) PROVE InOrder'
  BY <1>10 DEF VSubscribe
<1>11. ASSUME NEW v \in Viewers, VForward(v) PROVE InOrder'
  <2> SUFFICES ASSUME ~astray PROVE InOrder'
    BY <1>11 DEF VForward
  <2>1. channel[v] \in Seq(Messages) /\ channel[v] # <<>> /\ UNCHANGED <<taskState, unsaid, astray>>
    BY <1>11, <1>a DEF VForward
  <2>2. view \in [Viewers -> {"none", "pending", "running", "finished", "cancelled"}]
    BY DEF StreamTypeOK
  <2>3. CASE Head(channel[v]) = EndEvent
    <3>1. channel' = [channel EXCEPT ![v] = <<>>] /\ view' = view
      BY <1>11, <2>3 DEF VForward
    <3> QED BY <2>1, <3>1, <1>a, SortedEmpty
  <2>4. CASE Head(channel[v]) # EndEvent
    <3>1. channel' = [channel EXCEPT ![v] = Tail(@)] /\ view' = [view EXCEPT ![v] = Head(channel[v])]
      BY <1>11, <2>4 DEF VForward
    <3>2. /\ Sorted(Tail(channel[v]), Head(channel[v]), taskState)
          /\ RankOf(Head(channel[v])) <= RankOf(taskState)
      BY <2>1, <2>4, SortedTail DEF Messages
    <3> QED BY <2>1, <2>2, <3>1, <3>2, <1>a
  <2> QED BY <2>3, <2>4
<1>12. ASSUME NEW v \in Viewers, VDrop(v) PROVE InOrder'
  <2>1. channel' = [channel EXCEPT ![v] = <<>>] /\ UNCHANGED <<taskState, unsaid, astray, view>>
    BY <1>12 DEF VDrop
  <2> QED BY <2>1, <1>a, SortedEmpty
<1>13. CASE UNCHANGED streamVars
  BY <1>13 DEF streamVars
<1> QED
  BY <1>1, <1>2, <1>4, <1>5, <1>6, <1>7, <1>8, <1>9, <1>10, <1>11, <1>12, <1>13
  DEF StreamNext, Ender, Viewer

LEMMA StreamInvAlways == StreamSpec => []StreamInv
<1>1. StreamInv /\ [StreamNext]_streamVars => StreamInv'
  BY StreamTypes, StreamEnds, StreamListeners, StreamOrder DEF StreamInv
<1> QED BY <1>1, StreamInvInit, PTL DEF StreamSpec

-----------------------------------------------------------------------------

\* Every table and every message of the stream is one of those its readers know.
THEOREM StreamTypeCorrect == StreamSpec => []StreamTypeOK
<1>1. StreamInv => StreamTypeOK
  BY DEF StreamInv
<1> QED BY <1>1, StreamInvAlways, PTL

\* However many end the run and however often pages connect again: a page that
\* has been told the run is over was told the truth.
THEOREM PagesCloseAfterTheEnd == StreamSpec => []NoEarlyClose
<1>1. StreamInv => NoEarlyClose
  BY DEF StreamInv, EndIsCommitted, NoEarlyClose
<1> QED BY <1>1, StreamInvAlways, PTL

\* No page goes back before its row does or a publication comes too late:
\* snapshots, messages and reconnections show a task's steps in their order,
\* because a page subscribes after it has read the row and jobs publish after
\* they have written it, however many jobs, viewers and enders there are.
THEOREM PagesNeverGoBack == StreamSpec => ViewsNeverGoBack
<1> DEFINE Forward == ~astray => \A v \in Viewers : RankOf(view[v]) <= RankOf(view'[v])
<1>1. ASSUME StreamInv, StreamNext PROVE Forward
  <2> SUFFICES ASSUME NEW v \in Viewers, ~astray
               PROVE  RankOf(view[v]) <= RankOf(view'[v])
    OBVIOUS
  <2>1. view \in [Viewers -> {"none", "pending", "running", "finished", "cancelled"}]
    BY <1>1 DEF StreamInv, StreamTypeOK
  <2>2. CASE view'[v] = view[v]
    BY <2>2, StageType
  <2>3. ASSUME NEW w \in Viewers, VSnapshot(w) PROVE RankOf(view[v]) <= RankOf(view'[v])
    BY <1>1, <2>1, <2>3, StageType DEF VSnapshot, StreamInv, InOrder
  <2>4. ASSUME NEW w \in Viewers, VForward(w), view'[w] # view[w]
        PROVE  RankOf(view[v]) <= RankOf(view'[v])
    <3>1. channel[w] \in Seq(Messages) /\ channel[w] # <<>>
      BY <1>1, <2>4 DEF VForward, StreamInv, StreamTypeOK, Messages
    <3>2. Head(channel[w]) # EndEvent /\ view' = [view EXCEPT ![w] = Head(channel[w])]
      BY <2>4 DEF VForward
    <3>3. RankOf(view[w]) <= RankOf(Head(channel[w]))
      BY <1>1, <3>1, <3>2, SortedTail DEF StreamInv, InOrder
    <3> QED BY <2>1, <3>2, <3>3, StageType
  <2>5. view' = view \/ \E w \in Viewers : VSnapshot(w) \/ VForward(w)
    BY <1>1 DEF StreamNext, ArenaJob, JBegins, JProgresses, JFinishes, JAgain, JUnwritten,
                JWorkerLost, JPublish, JPublishLost, ESweep, Ender, EDecide, EEnd, EAnnounce,
                EAnnounceLost, Viewer, VConnect, VSubscribe, VDrop, viewVars
  <2>6. ASSUME NEW w \in Viewers, VForward(w), view'[w] = view[w] PROVE view'[v] = view[v]
    BY <2>1, <2>6 DEF VForward
  <2> QED BY <2>2, <2>3, <2>4, <2>5, <2>6
<1>2. StreamInv /\ [StreamNext]_streamVars => [Forward]_streamVars
  BY <1>1
<1> QED BY <1>2, StreamInvAlways, PTL DEF StreamSpec, ViewsNeverGoBack

-----------------------------------------------------------------------------
(* Comments *)

\* A trigger at work and a job that was sent have a run.
RunsNamed ==
  /\ \A t \in Triggers : tpc[t] # "idle" => trun[t] \in CommentRuns
  /\ \A j \in CommentJobs : jpc[j] # "unsent" => jrun[j] \in CommentRuns

\* Whatever goes back to an ask has its run among those that tried, and the last
\* poll of a completed run has asked, or is going to.
AskedFor ==
  /\ \A r \in CommentRuns :
       /\ kpc[r] = "over" /\ r \notin overturned => kstatus[r] # "completed" \/ r \in tried
       /\ kpc[r] \in {"counted", "checked", "ended"} => postTask[r] # "open"
       /\ kpc[r] \in {"checked", "ended"} /\ wants[r] = "not" /\ r \notin overturned
            => kstatus[r] = "failed" \/ r \in tried
       /\ commentRows[r] # {} => r \in tried
       /\ asks[r] > 0 => r \in tried
  /\ \A t \in Triggers : tpc[t] # "idle" => trun[t] \in tried

LEMMA CommentsBegin == CommentInit => CommentTypeOK /\ RunsNamed /\ AskedFor
  BY CommentAssumption
  DEF CommentInit, CommentTypeOK, RunsNamed, AskedFor, CommentAssumption

\* The types, and who has asked, one step per action.
LEMMA CommentSteps ==
  CommentTypeOK /\ RunsNamed /\ AskedFor /\ [CommentNext]_commentVars
    => (CommentTypeOK /\ RunsNamed /\ AskedFor)'
<1> DEFINE Fit == CommentTypeOK /\ RunsNamed /\ AskedFor
<1> SUFFICES ASSUME Fit, [CommentNext]_commentVars PROVE Fit'
  OBVIOUS
<1> USE CommentAssumption
    DEF CommentTypeOK, RunsNamed, AskedFor, RowStates, InProgress, CommentFault, postVars, checkVars,
        triggerVars, cjobVars
<1>1. ASSUME NEW r \in CommentRuns, NEW p \in ParentPosts, PStore(r, p) PROVE Fit'
  BY <1>1 DEF PStore
<1>2. ASSUME NEW r \in CommentRuns, NEW s \in {"completed", "failed"}, PEnd(r, s) PROVE Fit'
  BY <1>2 DEF PEnd
<1>3. ASSUME NEW r \in CommentRuns, KCount(r) \/ KEarly(r) \/ KLost(r) PROVE Fit'
  BY <1>3 DEF KCount, KEarly, KLost
<1>4. ASSUME NEW r \in CommentRuns, NEW s \in {"pending", "running"}, KSweep(r, s) PROVE Fit'
  BY <1>4 DEF KSweep
<1>5. ASSUME NEW r \in CommentRuns, KCheck(r) \/ KCheckLost(r) PROVE Fit'
  BY <1>5 DEF KCheck, KCheckLost, Checked, Ready
<1>6. ASSUME NEW r \in CommentRuns, KEnd(r) PROVE Fit'
  BY <1>6 DEF KEnd
<1>7. ASSUME NEW r \in CommentRuns, KAsk(r) \/ KAskLost(r) \/ KAskNot(r) PROVE Fit'
  BY <1>7 DEF KAsk, KAskLost, KAskNot, ToBeAsked, Polled
<1>8. ASSUME NEW t \in Triggers, NEW r \in CommentRuns, TFetch(t, r) PROVE Fit'
  BY <1>8 DEF TFetch, Wanted
<1>9. ASSUME NEW t \in Triggers, TLook(t) PROVE Fit'
  BY <1>9 DEF TLook, TQuit
<1>10. ASSUME NEW t \in Triggers, TInsert(t) PROVE Fit'
  BY <1>10 DEF TInsert
<1>11. ASSUME NEW t \in Triggers, TRowLost(t) PROVE Fit'
  BY <1>11 DEF TRowLost
<1>12. ASSUME NEW t \in Triggers, NEW j \in CommentJobs, TSend(t, j) PROVE Fit'
  BY <1>12 DEF TSend, TQuit
<1>13. ASSUME NEW t \in Triggers, TLost(t) PROVE Fit'
  BY <1>13 DEF TLost, TQuit
<1>14. ASSUME NEW j \in CommentJobs, JBegin(j) PROVE Fit'
  BY <1>14 DEF JBegin, Reported
<1>15. ASSUME NEW j \in CommentJobs, JCollect(j) PROVE Fit'
  BY <1>15 DEF JCollect
<1>16. ASSUME NEW j \in CommentJobs, JRecord(j) PROVE Fit'
  BY <1>16 DEF JRecord
<1>17. ASSUME NEW j \in CommentJobs, JComplete(j) PROVE Fit'
  BY <1>17 DEF JComplete, Reported
<1>18. ASSUME NEW j \in CommentJobs, JFail(j) PROVE Fit'
  BY <1>18 DEF JFail, Reported
<1>19. ASSUME NEW j \in CommentJobs, JWriteLost(j) PROVE Fit'
  BY <1>19 DEF JWriteLost
<1>20. ASSUME NEW j \in CommentJobs, JInterrupted(j) PROVE Fit'
  BY <1>20 DEF JInterrupted
<1>21. CASE UNCHANGED commentVars
  BY <1>21 DEF commentVars
<1> HIDE DEF CommentTypeOK, RunsNamed, AskedFor, RowStates, InProgress, CommentFault, postVars,
              checkVars, triggerVars, cjobVars, Fit
<1> QED
  BY <1>1, <1>2, <1>3, <1>4, <1>5, <1>6, <1>7, <1>8, <1>9, <1>10, <1>11, <1>12, <1>13, <1>14,
     <1>15, <1>16, <1>17, <1>18, <1>19, <1>20, <1>21
  DEF CommentNext, RunChecker, Trigger, CommentJob, CommentJobFault, InProgress

-----------------------------------------------------------------------------
(* While nothing fails, and triggers run one at a time *)

Alone == \A s, t \in Triggers : s = t
Underway == {j \in CommentJobs : jpc[j] \notin {"unsent", "gone"}}

\* There is one job at most; its run has a row in progress; a trigger that has
\* found no such row, or has inserted one, is alone with it.
OneJob ==
  /\ \A i, j \in Underway : i = j
  /\ \A j \in Underway : commentRows[jrun[j]] \cap InProgress # {}
  /\ \A t \in Triggers :
       /\ tpc[t] = "insert" => ~SomeInFlight
       /\ tpc[t] = "send" => Underway = {} /\ commentRows[trun[t]] \cap InProgress # {}

\* A post can still be paid for by a trigger that holds it, or by a job that has
\* it and has not paid.
BeingAsked(p) == \E t \in Triggers : tpc[t] # "idle" /\ p \in tposts[t]
AskIsDue(p) == \E j \in Underway : jpc[j] \in {"queued", "paying"} /\ p \in jposts[j]
Noted(p) == p \in attempted \/ \E j \in Underway : jpc[j] = "record" /\ p \in jposts[j]

PaidOnceMore ==
  \A p \in ParentPosts :
    /\ paid[p] <= 2
    /\ paid[p] >= 1 => Noted(p)
    /\ paid[p] = 1 /\ AskIsDue(p) => ~BeingAsked(p) /\ p \in attempted
    /\ paid[p] = 2 => ~BeingAsked(p) /\ ~AskIsDue(p) /\ p \in attempted

Undisturbed == commentFaults = 0 => OneJob /\ PaidOnceMore

LEMMA UndisturbedBegin == CommentInit => Undisturbed
  BY DEF CommentInit, Undisturbed, OneJob, PaidOnceMore, Underway, BeingAsked, AskIsDue, Noted

\* What the job rows are told of by one job, while it is the only one.
LEMMA OneJobSteps ==
  ASSUME Alone, CommentTypeOK, RunsNamed, OneJob, CommentNext, commentFaults' = commentFaults
  PROVE  OneJob'
<1> USE DEF CommentTypeOK, RunsNamed, InProgress, SomeInFlight, CommentFault, postVars, checkVars,
        triggerVars, cjobVars, OneJob, Underway
<1>1. ASSUME NEW r \in CommentRuns, NEW p \in ParentPosts, PStore(r, p) PROVE OneJob'
  BY <1>1 DEF PStore
<1>2. ASSUME NEW r \in CommentRuns, NEW s \in {"completed", "failed"}, PEnd(r, s) PROVE OneJob'
  BY <1>2 DEF PEnd
<1>3. ASSUME NEW r \in CommentRuns, KCount(r) \/ KEarly(r) \/ KCheck(r) \/ KEnd(r) PROVE OneJob'
  BY <1>3 DEF KCount, KEarly, KCheck, KEnd
<1>4. ASSUME NEW r \in CommentRuns, KAsk(r) \/ KAskNot(r) PROVE OneJob'
  BY <1>4 DEF KAsk, KAskNot
<1>5. ASSUME NEW t \in Triggers, NEW r \in CommentRuns, TFetch(t, r) PROVE OneJob'
  BY <1>5 DEF TFetch
<1>6. ASSUME NEW t \in Triggers, TLook(t) PROVE OneJob'
  BY <1>6 DEF TLook, TQuit
<1>7. ASSUME NEW t \in Triggers, TInsert(t) PROVE OneJob'
  <2>1. /\ tpc[t] = "insert" /\ tpc' = [tpc EXCEPT ![t] = "send"] /\ UNCHANGED <<trun, jpc, jrun>>
        /\ commentRows' = [commentRows EXCEPT ![trun[t]] = @ \cup {"pending"}]
    BY <1>7 DEF TInsert
  <2>2. Underway = {} /\ Underway' = {}
    BY <2>1
  <2>3. trun[t] \in CommentRuns /\ "pending" \in commentRows'[trun[t]]
    BY <2>1
  <2>4. \A s \in Triggers : s = t /\ tpc'[s] = "send"
    BY <2>1, Alone DEF Alone
  <2> HIDE DEF Underway
  <2> QED BY <2>1, <2>2, <2>3, <2>4
<1>8. ASSUME NEW t \in Triggers, NEW j \in CommentJobs, TSend(t, j) PROVE OneJob'
  <2>1. /\ jpc' = [jpc EXCEPT ![j] = "queued"] /\ jrun' = [jrun EXCEPT ![j] = trun[t]]
        /\ tpc[t] = "send" /\ tpc' = [tpc EXCEPT ![t] = "idle"] /\ commentRows' = commentRows
    BY <1>8 DEF TSend, TQuit
  <2>2. Underway' = {j} /\ Underway = {}
    BY <2>1
  <2>3. commentRows[trun[t]] \cap InProgress # {}
    BY <2>1
  <2>4. \A s \in Triggers : tpc'[s] = "idle"
    BY <2>1, Alone DEF Alone
  <2> QED BY <2>1, <2>2, <2>3, <2>4
<1>9. ASSUME NEW j \in CommentJobs, JBegin(j) PROVE OneJob'
  <2>1. /\ jpc[j] = "queued" /\ jpc' = [jpc EXCEPT ![j] = "paying"]
        /\ commentRows' = Reported(jrun[j], "running") /\ UNCHANGED <<tpc, trun, jrun>>
    BY <1>9 DEF JBegin
  <2>2. j \in Underway /\ Underway' = Underway
    BY <2>1
  <2>3. jrun[j] \in CommentRuns /\ commentRows[jrun[j]] # {}
    BY <2>1, <2>2
  <2>4. commentRows'[jrun[j]] = {"running"}
    BY <2>1, <2>3 DEF Reported
  <2>5. \A i \in Underway : i = j
    BY <2>2
  <2>6. SomeInFlight
    BY <2>2, <2>3
  <2> QED BY <2>1, <2>2, <2>3, <2>4, <2>5, <2>6
<1>10. ASSUME NEW j \in CommentJobs, JCollect(j) PROVE OneJob'
  BY <1>10 DEF JCollect
<1>11. ASSUME NEW j \in CommentJobs, JRecord(j) PROVE OneJob'
  BY <1>11 DEF JRecord
<1>12. ASSUME NEW j \in CommentJobs, JComplete(j) PROVE OneJob'
  BY <1>12 DEF JComplete, Reported
<1>13. ASSUME NEW r \in CommentRuns, KCheckLost(r) PROVE FALSE
  BY <1>13 DEF KCheckLost
<1>14. ASSUME NEW r \in CommentRuns, KAskLost(r) \/ KLost(r) PROVE FALSE
  BY <1>14 DEF KAskLost, KLost
<1>15. ASSUME NEW r \in CommentRuns, NEW s \in {"pending", "running"}, KSweep(r, s) PROVE FALSE
  BY <1>15 DEF KSweep
<1>16. ASSUME NEW t \in Triggers, TRowLost(t) PROVE FALSE
  BY <1>16 DEF TRowLost
<1>17. ASSUME NEW t \in Triggers, TLost(t) PROVE FALSE
  BY <1>17 DEF TLost
<1>18. ASSUME NEW j \in CommentJobs, CommentJobFault(j) PROVE FALSE
  BY <1>18 DEF CommentJobFault, JFail, JWriteLost, JInterrupted
<1> HIDE DEF CommentTypeOK, RunsNamed, InProgress, SomeInFlight, CommentFault, postVars, checkVars,
              triggerVars, cjobVars, OneJob, Underway
<1> QED
  BY <1>1, <1>2, <1>3, <1>4, <1>5, <1>6, <1>7, <1>8, <1>9, <1>10, <1>11, <1>12, <1>13,
     <1>14, <1>15, <1>16, <1>17, <1>18
  DEF CommentNext, RunChecker, Trigger, CommentJob, InProgress

\* What a post has cost, and may still cost.
LEMMA PaidSteps ==
  ASSUME Alone, CommentTypeOK, RunsNamed, OneJob, PaidOnceMore, CommentNext,
         commentFaults' = commentFaults
  PROVE  PaidOnceMore'
<1> USE DEF CommentTypeOK, RunsNamed, CommentFault, postVars, checkVars, triggerVars, cjobVars,
        PaidOnceMore, Underway, BeingAsked, AskIsDue, Noted
<1>1. ASSUME NEW r \in CommentRuns, NEW p \in ParentPosts, PStore(r, p) PROVE PaidOnceMore'
  BY <1>1 DEF PStore
<1>2. ASSUME NEW r \in CommentRuns, NEW s \in {"completed", "failed"}, PEnd(r, s) PROVE PaidOnceMore'
  BY <1>2 DEF PEnd
<1>3. ASSUME NEW r \in CommentRuns, KCount(r) \/ KEarly(r) \/ KCheck(r) \/ KEnd(r) PROVE PaidOnceMore'
  BY <1>3 DEF KCount, KEarly, KCheck, KEnd
<1>4. ASSUME NEW r \in CommentRuns, KAsk(r) \/ KAskNot(r) PROVE PaidOnceMore'
  BY <1>4 DEF KAsk, KAskNot
<1>5. ASSUME NEW t \in Triggers, NEW r \in CommentRuns, TFetch(t, r) PROVE PaidOnceMore'
  <2>1. \A p \in ParentPosts : BeingAsked(p)' => BeingAsked(p) \/ p \notin attempted
    BY <1>5 DEF TFetch, Wanted
  <2>2. UNCHANGED <<attempted, jpc, jposts, paid>>
    BY <1>5 DEF TFetch
  <2>3. \A p \in ParentPosts : (AskIsDue(p)' <=> AskIsDue(p)) /\ (Noted(p)' <=> Noted(p))
    BY <2>2
  <2>4. ASSUME NEW p \in ParentPosts, paid[p] = 1, AskIsDue(p) PROVE ~BeingAsked(p)'
    BY <2>1, <2>4
  <2> HIDE DEF BeingAsked, AskIsDue, Noted
  <2> QED BY <2>1, <2>2, <2>3, <2>4
<1>6. ASSUME NEW t \in Triggers, TLook(t) PROVE PaidOnceMore'
  <2>1. \A p \in ParentPosts : BeingAsked(p)' => BeingAsked(p)
    BY <1>6 DEF TLook, TQuit
  <2>2. UNCHANGED <<attempted, jpc, jposts, paid>>
    BY <1>6 DEF TLook
  <2> QED BY <2>1, <2>2
<1>7. ASSUME NEW t \in Triggers, TInsert(t) PROVE PaidOnceMore'
  BY <1>7 DEF TInsert
<1>8. ASSUME NEW t \in Triggers, NEW j \in CommentJobs, TSend(t, j) PROVE PaidOnceMore'
  <2>1. /\ tpc[t] = "send" /\ UNCHANGED <<attempted, paid>>
        /\ jpc' = [jpc EXCEPT ![j] = "queued"] /\ jposts' = [jposts EXCEPT ![j] = tposts[t]]
        /\ tpc' = [tpc EXCEPT ![t] = "idle"]
    BY <1>8 DEF TSend, TQuit
  <2>2. Underway = {} /\ Underway' = {j}
    BY <2>1 DEF OneJob
  <2>3. \A p \in ParentPosts : ~BeingAsked(p)'
    BY <2>1, Alone DEF Alone
  <2>4. \A p \in ParentPosts : AskIsDue(p)' => BeingAsked(p)
    BY <2>1, <2>2
  <2>5. \A p \in ParentPosts : Noted(p) => p \in attempted
    BY <2>2
  <2>6. \A p \in ParentPosts : paid[p] = 2 => ~BeingAsked(p)
    OBVIOUS
  <2> HIDE DEF BeingAsked, AskIsDue, Underway
  <2> QED BY <2>1, <2>3, <2>4, <2>5, <2>6
<1>9. ASSUME NEW j \in CommentJobs, JBegin(j) PROVE PaidOnceMore'
  <2>1. jpc[j] = "queued" /\ jpc' = [jpc EXCEPT ![j] = "paying"]
        /\ UNCHANGED <<attempted, paid, jposts, tpc, tposts>>
    BY <1>9 DEF JBegin
  <2>2. \A p \in ParentPosts : (AskIsDue(p)' => AskIsDue(p)) /\ (Noted(p) => Noted(p)') /\ (BeingAsked(p)' <=> BeingAsked(p))
    BY <2>1
  <2> HIDE DEF BeingAsked, AskIsDue, Noted
  <2> QED BY <2>1, <2>2
<1>10. ASSUME NEW j \in CommentJobs, JCollect(j) PROVE PaidOnceMore'
  <2>1. /\ jpc[j] = "paying" /\ jpc' = [jpc EXCEPT ![j] = "record"]
        /\ paid' = [p \in ParentPosts |-> IF p \in jposts[j] THEN paid[p] + 1 ELSE paid[p]]
        /\ UNCHANGED <<attempted, jposts, tpc, tposts>>
    BY <1>10 DEF JCollect
  <2>2. \A i \in Underway : i = j
    BY <2>1 DEF OneJob
  <2>3. \A p \in ParentPosts :
          /\ ~AskIsDue(p)' /\ (BeingAsked(p)' <=> BeingAsked(p))
          /\ p \in jposts[j] => AskIsDue(p) /\ Noted(p)'
          /\ Noted(p) => Noted(p)'
    BY <2>1, <2>2
  <2> HIDE DEF BeingAsked, AskIsDue, Noted
  <2>4. attempted' = attempted
    BY <2>1
  <2>5. \A p \in ParentPosts :
          p \in jposts[j] => /\ paid[p] \in {0, 1}
                             /\ paid[p] = 1 => ~BeingAsked(p) /\ p \in attempted
    <3>1. paid \in [ParentPosts -> Nat]
      BY DEF CommentTypeOK
    <3> SUFFICES ASSUME NEW p \in ParentPosts, p \in jposts[j]
                 PROVE  paid[p] \in {0, 1} /\ (paid[p] = 1 => ~BeingAsked(p) /\ p \in attempted)
      OBVIOUS
    <3>2. AskIsDue(p) /\ paid[p] \in Nat
      BY <2>3, <3>1
    <3>3. paid[p] <= 2 /\ paid[p] # 2 /\ (paid[p] = 1 => ~BeingAsked(p) /\ p \in attempted)
      BY <3>2
    <3> QED BY <3>2, <3>3
  <2>6. \A p \in ParentPosts :
          /\ p \in jposts[j] => paid'[p] = paid[p] + 1
          /\ p \notin jposts[j] => paid'[p] = paid[p]
    BY <2>1
  <2>7. \A p \in ParentPosts : paid'[p] <= 2 /\ (paid'[p] = 2 => ~BeingAsked(p)' /\ p \in attempted')
    BY <2>3, <2>4, <2>5, <2>6
  <2>8. \A p \in ParentPosts : paid'[p] >= 1 => Noted(p)'
    BY <2>3, <2>6
  <2> QED BY <2>3, <2>7, <2>8
<1>11. ASSUME NEW j \in CommentJobs, JRecord(j) PROVE PaidOnceMore'
  <2>1. /\ jpc[j] = "record" /\ jpc' = [jpc EXCEPT ![j] = "report"]
        /\ attempted' = attempted \cup jposts[j]
        /\ UNCHANGED <<paid, jposts, tpc, tposts>>
    BY <1>11 DEF JRecord
  <2>2. \A i \in Underway : i = j
    BY <2>1 DEF OneJob
  <2>3. \A p \in ParentPosts : ~AskIsDue(p)' /\ (BeingAsked(p)' <=> BeingAsked(p)) /\ (Noted(p) => Noted(p)')
    BY <2>1, <2>2
  <2> HIDE DEF BeingAsked, AskIsDue, Noted
  <2> QED BY <2>1, <2>3
<1>12. ASSUME NEW j \in CommentJobs, JComplete(j) PROVE PaidOnceMore'
  <2>1. /\ jpc[j] = "report" /\ jpc' = [jpc EXCEPT ![j] = "gone"]
        /\ UNCHANGED <<attempted, paid, jposts, tpc, tposts>>
    BY <1>12 DEF JComplete
  <2>2. \A p \in ParentPosts : (AskIsDue(p)' => AskIsDue(p)) /\ (Noted(p) => Noted(p)') /\ (BeingAsked(p)' <=> BeingAsked(p))
    BY <2>1
  <2> HIDE DEF BeingAsked, AskIsDue, Noted
  <2> QED BY <2>1, <2>2
<1>13. ASSUME NEW r \in CommentRuns, KCheckLost(r) PROVE FALSE
  BY <1>13 DEF KCheckLost
<1>14. ASSUME NEW r \in CommentRuns, KAskLost(r) \/ KLost(r) PROVE FALSE
  BY <1>14 DEF KAskLost, KLost
<1>15. ASSUME NEW r \in CommentRuns, NEW s \in InProgress, KSweep(r, s) PROVE FALSE
  BY <1>15 DEF KSweep
<1>16. ASSUME NEW t \in Triggers, TRowLost(t) PROVE FALSE
  BY <1>16 DEF TRowLost
<1>17. ASSUME NEW t \in Triggers, TLost(t) PROVE FALSE
  BY <1>17 DEF TLost
<1>18. ASSUME NEW j \in CommentJobs, CommentJobFault(j) PROVE FALSE
  BY <1>18 DEF CommentJobFault, JFail, JWriteLost, JInterrupted
<1> HIDE DEF CommentTypeOK, RunsNamed, CommentFault, postVars, checkVars, triggerVars, cjobVars,
              PaidOnceMore, Underway, BeingAsked, AskIsDue, Noted
<1> QED
  BY <1>1, <1>2, <1>3, <1>4, <1>5, <1>6, <1>7, <1>8, <1>9, <1>10, <1>11, <1>12, <1>13,
     <1>14, <1>15, <1>16, <1>17, <1>18
  DEF CommentNext, RunChecker, Trigger, CommentJob, InProgress

\* A step either leaves the number of faults alone or makes it positive.
LEMMA UndisturbedSteps ==
  ASSUME Alone, CommentTypeOK, RunsNamed, Undisturbed, [CommentNext]_commentVars
  PROVE  Undisturbed'
<1>1. CASE UNCHANGED commentVars
  BY <1>1
  DEF commentVars, postVars, checkVars, triggerVars, cjobVars, Undisturbed, OneJob, PaidOnceMore,
      Underway, BeingAsked, AskIsDue, Noted, SomeInFlight
<1>2. ASSUME CommentNext PROVE commentFaults' = commentFaults \/ commentFaults' = commentFaults + 1
  BY <1>2
  DEF CommentNext, RunChecker, Trigger, CommentJob, CommentJobFault, InProgress, PStore, PEnd, KCount, KSweep,
      KEarly, KCheck, KCheckLost, KEnd, KAsk, KAskLost, KAskNot, KLost, TFetch, TLook, TInsert, TRowLost, TSend, TLost, JBegin,
      JCollect, JRecord, JComplete, JFail, JWriteLost, JInterrupted, CommentFault
<1>3. CASE CommentNext
  <2>1. SUFFICES ASSUME commentFaults' = 0 PROVE OneJob' /\ PaidOnceMore'
    BY DEF Undisturbed
  <2>2. commentFaults' = commentFaults /\ OneJob /\ PaidOnceMore
    BY <1>2, <1>3, <2>1 DEF CommentTypeOK, Undisturbed
  <2> QED BY <1>3, <2>2, OneJobSteps, PaidSteps
<1> QED BY <1>1, <1>3

CommentInv == CommentTypeOK /\ RunsNamed /\ AskedFor

LEMMA CommentInvAlways == CommentSpec => []CommentInv
  BY CommentsBegin, CommentSteps, PTL DEF CommentSpec, CommentInv

LEMMA UndisturbedAlways == ASSUME Alone PROVE CommentSpec => []Undisturbed
<1>1. CommentInv /\ Undisturbed /\ [CommentNext]_commentVars => Undisturbed'
  BY UndisturbedSteps DEF CommentInv
<1> QED BY <1>1, UndisturbedBegin, CommentInvAlways, PTL DEF CommentSpec

LEMMA FewAreAlone == Cardinality(Triggers) <= 1 => Alone
<1> SUFFICES ASSUME Cardinality(Triggers) <= 1, NEW s \in Triggers, NEW t \in Triggers, s # t
             PROVE  FALSE
  BY DEF Alone
<1>1. IsFiniteSet(Triggers) /\ Cardinality(Triggers) \in Nat
  BY CommentAssumption, FS_CardinalityType DEF CommentAssumption
<1>2. IsFiniteSet({s}) /\ Cardinality({s}) = 1
  BY FS_Singleton
<1>3. Cardinality({s} \cup {t}) = 2
  BY <1>2, FS_AddElement
<1>4. Cardinality({s} \cup {t}) <= Cardinality(Triggers)
  BY <1>1, FS_Subset
<1> QED BY <1>1, <1>3, <1>4

-----------------------------------------------------------------------------

\* The rows, triggers and jobs of comment collection stay well formed.
THEOREM CommentTypeCorrect == CommentSpec => []CommentTypeOK
<1>1. CommentInv => CommentTypeOK
  BY DEF CommentInv
<1> QED BY <1>1, CommentInvAlways, PTL

\* Whatever fails: a run is not left completed without having asked for the
\* comments of its posts, or a checker that is going to.
THEOREM CompletedRunsHaveAsked == CommentSpec => []CompletedRunsAsk
<1>1. CommentInv => CompletedRunsAsk
  BY DEF CommentInv, AskedFor, CompletedRunsAsk
<1> QED BY <1>1, CommentInvAlways, PTL

\* With one trigger at a time, the look at the rows in flight keeps the jobs of
\* the whole project apart, for any number of runs and messages.
THEOREM JobsAreApart == CommentSpec => []OneCommentJob
<1>1. CASE Cardinality(Triggers) <= 1
  <2>1. Undisturbed => OneCommentJob
    <3> SUFFICES ASSUME Undisturbed, commentFaults = 0 PROVE Cardinality(Underway) <= 1
      BY DEF OneCommentJob, Underway
    <3>1. \A i, j \in Underway : i = j
      BY DEF Undisturbed, OneJob
    <3>2. CASE Underway = {}
      BY <3>2, FS_EmptySet
    <3>3. CASE Underway # {}
      <4>1. PICK j : Underway = {j}
        BY <3>1, <3>3
      <4> QED BY <4>1, FS_Singleton
    <3> QED BY <3>2, <3>3
  <2>2. CommentSpec => []Undisturbed
    BY <1>1, FewAreAlone, UndisturbedAlways
  <2> QED BY <2>1, <2>2, PTL
<1>2. CASE ~(Cardinality(Triggers) <= 1)
  <2>1. OneCommentJob
    BY <1>2 DEF OneCommentJob
  <2> QED BY <2>1, PTL
<1> QED BY <1>1, <1>2

\* ... and no post is submitted a third time.
THEOREM PostsArePaidTwiceAtMost == CommentSpec => []PaidTwiceAtMost
<1>1. CASE Cardinality(Triggers) <= 1
  <2>1. Undisturbed => PaidTwiceAtMost
    BY DEF Undisturbed, PaidOnceMore, PaidTwiceAtMost
  <2>2. CommentSpec => []Undisturbed
    BY <1>1, FewAreAlone, UndisturbedAlways
  <2> QED BY <2>1, <2>2, PTL
<1>2. CASE ~(Cardinality(Triggers) <= 1)
  <2>1. PaidTwiceAtMost
    BY <1>2 DEF PaidTwiceAtMost
  <2> QED BY <2>1, PTL
<1> QED BY <1>1, <1>2

================================================================================
