--------------------------- MODULE BatchRunProofs ----------------------------
(***************************************************************************)
(* Theorems about BatchRun for every set of arenas, every number of        *)
(* retries, polls, cancel requests and failures.                           *)
(***************************************************************************)
EXTENDS BatchRun, TLAPS

\* A redelivered dispatch costs a failure, so its number stays in Copies.
CopiesCost == dcopy <= faults + 1

\* A checker that is about to write or announce a status has one.
VerdictsKnown ==
  \A k \in Copies : cpc[k] \in {"decided", "announce"} => verdict[k] # "none"

TypeInv == TypeOK /\ CopiesCost /\ VerdictsKnown

-----------------------------------------------------------------------------
(* Who writes what: the steps that change the columns of the run, the rows *)
(* of its tasks, and so on.                                                *)

LEMMA RunWriters ==
  ASSUME [Next]_vars
  PROVE  \/ UNCHANGED runVars
         \/ DStart \/ DNothing \/ UCommit \/ UCommitUnrevoked \/ BFail
         \/ GrowOlder \/ GoIdle
         \/ \E j \in Jobs : JInsert(j)
         \/ \E k \in Copies : CFinalise(k)
BY DEF Next, vars, Dispatcher, ArenaJob, Checker, CheckerFault, Cancel,
   Cleanup, Clock, Enqueue, EnqueueLost, DCreateRows, DMark, DMarkLost,
   DToSend, DAnnounceNothing, DError, DSend, DSendLost, DRecordIds,
   DRecordIdsLost, DSchedule, DScheduleLost, DCrash, JStart, JStartUnseen,
   JCheckCancelled, JCheckFailsOpen, JReport, JReportUnseen, JRateLimited,
   JTimeLimit, JAck, JCrash, CPoll, CDecide, CWait, CAnnounce, CError,
   CCrash, UCheck, UAnnounce, BFetch, BAnnounce, BCrash, GoOverdue

LEMMA RowWriters ==
  ASSUME [Next]_vars
  PROVE  \/ UNCHANGED rowVars
         \/ DCreateRows \/ DRecordIds \/ UCommit \/ UCommitUnrevoked
         \/ BFail
         \/ \E a \in Arenas : DMark(a)
         \/ \E j \in Jobs : DSendLost(j) \/ JStart(j)
                            \/ JReport(j, "completed") \/ JReport(j, "failed")
         \/ \E k \in Copies : CPoll(k) \/ CDecide(k) \/ CWait(k)
         \/ \E a \in Arenas : GoOverdue(a)
BY DEF Next, vars, Dispatcher, ArenaJob, Checker, CheckerFault, Cancel,
   Cleanup, Clock, Enqueue, EnqueueLost, DStart, DMarkLost, DToSend,
   DNothing, DAnnounceNothing, DError, DSend, DRecordIdsLost, DSchedule,
   DScheduleLost, DCrash, JStartUnseen, JCheckCancelled, JCheckFailsOpen,
   JInsert, JReportUnseen, JRateLimited, JTimeLimit, JAck, JCrash,
   CFinalise, CAnnounce, CError, CCrash, UCheck, UAnnounce, BFetch,
   BAnnounce, BCrash, GrowOlder, GoIdle

LEMMA DispatcherWriters ==
  ASSUME [Next]_vars
  PROVE  \/ UNCHANGED dVars
         \/ Enqueue \/ EnqueueLost \/ DStart \/ DCreateRows \/ DToSend
         \/ DNothing \/ DAnnounceNothing \/ DError \/ DRecordIds \/ DRecordIdsLost
         \/ DSchedule \/ DScheduleLost \/ DCrash
         \/ \E a \in Arenas : DMark(a) \/ DMarkLost(a)
         \/ \E j \in Jobs : DSend(j) \/ DSendLost(j)
BY DEF Next, vars, Dispatcher, ArenaJob, Checker, CheckerFault, Cancel,
   Cleanup, Clock, JStart, JStartUnseen, JCheckCancelled, JCheckFailsOpen,
   JInsert, JReport, JReportUnseen, JRateLimited, JTimeLimit, JAck, JCrash,
   CPoll, CDecide, CWait, CFinalise, CAnnounce, CError, CCrash, UCheck,
   UCommit, UCommitUnrevoked, UAnnounce, BFetch, BFail, BAnnounce, BCrash,
   GrowOlder, GoIdle, GoOverdue

LEMMA JobWriters ==
  ASSUME [Next]_vars
  PROVE  \/ UNCHANGED jVars
         \/ UCommit
         \/ \E j \in Jobs : DSend(j) \/ JStart(j) \/ JStartUnseen(j)
                            \/ JCheckCancelled(j) \/ JCheckFailsOpen(j)
                            \/ JInsert(j)
                            \/ JReport(j, "completed") \/ JReport(j, "failed")
                            \/ JReportUnseen(j) \/ JRateLimited(j)
                            \/ JTimeLimit(j) \/ JAck(j) \/ JCrash(j)
BY DEF Next, vars, Dispatcher, ArenaJob, Checker, CheckerFault, Cancel,
   Cleanup, Clock, Enqueue, EnqueueLost, DStart, DCreateRows, DMark,
   DMarkLost, DToSend, DNothing, DAnnounceNothing, DError, DSendLost,
   DRecordIds, DRecordIdsLost, DSchedule, DScheduleLost, DCrash, CPoll,
   CDecide, CWait, CFinalise, CAnnounce, CError, CCrash, UCheck,
   UCommitUnrevoked, UAnnounce, BFetch, BFail, BAnnounce, BCrash,
   GrowOlder, GoIdle, GoOverdue

LEMMA CheckerWriters ==
  ASSUME [Next]_vars
  PROVE  \/ UNCHANGED cVars
         \/ DSchedule
         \/ \E k \in Copies : CPoll(k) \/ CDecide(k) \/ CWait(k)
                              \/ CFinalise(k) \/ CAnnounce(k) \/ CError(k)
                              \/ CCrash(k)
BY DEF Next, vars, Dispatcher, ArenaJob, Checker, CheckerFault, Cancel,
   Cleanup, Clock, Enqueue, EnqueueLost, DStart, DCreateRows, DMark,
   DMarkLost, DToSend, DNothing, DAnnounceNothing, DError, DSend,
   DSendLost, DRecordIds, DRecordIdsLost, DScheduleLost, DCrash, JStart,
   JStartUnseen, JCheckCancelled, JCheckFailsOpen, JInsert, JReport,
   JReportUnseen, JRateLimited, JTimeLimit, JAck, JCrash, UCheck, UCommit,
   UCommitUnrevoked, UAnnounce, BFetch, BFail, BAnnounce, BCrash,
   GrowOlder, GoIdle, GoOverdue

LEMMA OtherWriters ==
  ASSUME [Next]_vars
  PROVE  /\ UNCHANGED faults \/ Fault
         /\ UNCHANGED uVars \/ UCheck \/ UCommit \/ UCommitUnrevoked \/ UAnnounce
         /\ UNCHANGED bpc \/ BFetch \/ BFail \/ BAnnounce \/ BCrash
         /\ \/ UNCHANGED announced \/ DAnnounceNothing \/ UAnnounce \/ BAnnounce
            \/ \E k \in Copies : CAnnounce(k)
<1> USE DEF Next, vars, Dispatcher, ArenaJob, Checker, CheckerFault, Cancel,
        Cleanup, Clock
<1>1. UNCHANGED faults \/ Fault
  BY DEF Enqueue, EnqueueLost, DStart, DCreateRows, DMark, DMarkLost,
     DToSend, DNothing, DAnnounceNothing, DError, DSend, DSendLost,
     DRecordIds, DRecordIdsLost, DSchedule, DScheduleLost, DCrash, JStart,
     JStartUnseen, JCheckCancelled, JCheckFailsOpen, JInsert, JReport,
     JReportUnseen, JRateLimited, JTimeLimit, JAck, JCrash, CPoll, CDecide,
     CWait, CFinalise, CAnnounce, CError, CCrash, UCheck, UCommit,
     UCommitUnrevoked, UAnnounce, BFetch, BFail, BAnnounce, BCrash,
     GrowOlder, GoIdle, GoOverdue
<1>2. UNCHANGED uVars \/ UCheck \/ UCommit \/ UCommitUnrevoked \/ UAnnounce
  BY DEF Enqueue, EnqueueLost, DStart, DCreateRows, DMark, DMarkLost,
     DToSend, DNothing, DAnnounceNothing, DError, DSend, DSendLost,
     DRecordIds, DRecordIdsLost, DSchedule, DScheduleLost, DCrash, JStart,
     JStartUnseen, JCheckCancelled, JCheckFailsOpen, JInsert, JReport,
     JReportUnseen, JRateLimited, JTimeLimit, JAck, JCrash, CPoll, CDecide,
     CWait, CFinalise, CAnnounce, CError, CCrash, BFetch, BFail, BAnnounce,
     BCrash, GrowOlder, GoIdle, GoOverdue
<1>3. UNCHANGED bpc \/ BFetch \/ BFail \/ BAnnounce \/ BCrash
  BY DEF Enqueue, EnqueueLost, DStart, DCreateRows, DMark, DMarkLost,
     DToSend, DNothing, DAnnounceNothing, DError, DSend, DSendLost,
     DRecordIds, DRecordIdsLost, DSchedule, DScheduleLost, DCrash, JStart,
     JStartUnseen, JCheckCancelled, JCheckFailsOpen, JInsert, JReport,
     JReportUnseen, JRateLimited, JTimeLimit, JAck, JCrash, CPoll, CDecide,
     CWait, CFinalise, CAnnounce, CError, CCrash, UCheck, UCommit,
     UCommitUnrevoked, UAnnounce, GrowOlder, GoIdle, GoOverdue
<1>4. \/ UNCHANGED announced \/ DAnnounceNothing \/ UAnnounce \/ BAnnounce
      \/ \E k \in Copies : CAnnounce(k)
  BY DEF Enqueue, EnqueueLost, DStart, DCreateRows, DMark, DMarkLost,
     DToSend, DNothing, DError, DSend, DSendLost, DRecordIds, DRecordIdsLost,
     DSchedule, DScheduleLost, DCrash, JStart, JStartUnseen, JCheckCancelled,
     JCheckFailsOpen, JInsert, JReport, JReportUnseen, JRateLimited,
     JTimeLimit, JAck, JCrash, CPoll, CDecide, CWait, CFinalise, CError,
     CCrash, UCheck, UCommit, UCommitUnrevoked, BFetch, BFail, BCrash,
     GrowOlder, GoIdle, GoOverdue
<1> QED BY <1>1, <1>2, <1>3, <1>4

-----------------------------------------------------------------------------
(* Lemmas about the helpers *)

LEMMA JobFields ==
  ASSUME NEW j \in Jobs
  PROVE  /\ j.arena \in Arenas
         /\ j.copy \in Copies
         /\ j.kind \in {"terms", "actors"}
BY DEF Jobs, Arenas

LEMMA RowsTyped ==
  ASSUME RowsOK
  PROVE  /\ \A a \in Arenas, s \in TaskStatus :
              Reported(a, s) \in [Arenas -> SUBSET TaskStatus]
         /\ \A s \in TaskStatus : Closed(s) \in [Arenas -> SUBSET TaskStatus]
         /\ Swept \in [Arenas -> SUBSET TaskStatus]
<1>1. ASSUME NEW a \in Arenas, NEW s \in TaskStatus
      PROVE  Reported(a, s) \in [Arenas -> SUBSET TaskStatus]
  BY <1>1 DEF RowsOK, Reported
<1>2. ASSUME NEW s \in TaskStatus
      PROVE  Closed(s) \in [Arenas -> SUBSET TaskStatus]
  BY <1>2 DEF RowsOK, Closed
<1>3. Swept \in [Arenas -> SUBSET TaskStatus]
  BY DEF RowsOK, Swept, TaskStatus
<1> QED BY <1>1, <1>2, <1>3

\* The job recorded for an arena is one of its jobs, or was recorded before.
LEMMA FirstSentTyped ==
  ASSUME RowsOK, NEW a \in Arenas
  PROVE  FirstSent(a) \in Jobs \cup {NoJob}
<1> DEFINE mine == {j \in Sent : j.arena = a}
<1>1. CASE mine = {}
  BY <1>1 DEF FirstSent, RowsOK
<1>2. CASE mine # {}
  <2>1. \E j \in mine : \A i \in mine : i.kind = "terms" => i = j
    <3>1. CASE \E t \in mine : t.kind = "terms"
      <4>1. PICK t \in mine : t.kind = "terms"
        BY <3>1
      <4>2. \A i \in mine : i.kind = "terms" => i = t
        BY <4>1 DEF Sent, Jobs
      <4> QED BY <4>1, <4>2
    <3>2. CASE ~ \E t \in mine : t.kind = "terms"
      BY <1>2, <3>2
    <3> QED BY <3>1, <3>2
  <2>2. FirstSent(a) \in mine
    BY <1>2, <2>1 DEF FirstSent
  <2> QED BY <2>2 DEF Sent
<1> QED BY <1>1, <1>2

-----------------------------------------------------------------------------
(* Type correctness, one part of the state at a time *)

LEMMA TypeInit == Init => TypeInv
<1> SUFFICES ASSUME Init PROVE TypeInv
  OBVIOUS
<1> USE BatchRunAssumption DEF Init
<1>1. RunOK /\ RowsOK
  BY DEF RunOK, RowsOK
<1>2. DispatcherOK /\ CopiesCost
  BY DEF DispatcherOK, Copies, CopiesCost
<1>3. JobsOK
  BY DEF JobsOK
<1>4. CheckersOK /\ VerdictsKnown
  BY DEF CheckersOK, VerdictsKnown
<1>5. OthersOK
  BY DEF OthersOK
<1> QED BY <1>1, <1>2, <1>3, <1>4, <1>5 DEF TypeInv, TypeOK

LEMMA RunTyped ==
  ASSUME TypeInv, [Next]_vars
  PROVE  RunOK'
<1> USE DEF TypeInv, TypeOK, RunOK, Terminal
<1>1. CASE UNCHANGED runVars
  BY <1>1 DEF runVars
<1>2. CASE DStart
  BY <1>2 DEF DStart
<1>3. CASE DNothing \/ UCommit \/ UCommitUnrevoked \/ BFail
  BY <1>3 DEF DNothing, UCommit, UCommitUnrevoked, BFail
<1>4. CASE GrowOlder \/ GoIdle
  BY <1>4 DEF GrowOlder, GoIdle
<1>5. ASSUME NEW j \in Jobs, JInsert(j)
      PROVE  RunOK'
  BY <1>5 DEF JInsert
<1>6. ASSUME NEW k \in Copies, CFinalise(k)
      PROVE  RunOK'
  BY <1>6 DEF CFinalise, CheckersOK, VerdictsKnown
<1> QED BY <1>1, <1>2, <1>3, <1>4, <1>5, <1>6, RunWriters

LEMMA RowsTypedNext ==
  ASSUME TypeInv, [Next]_vars
  PROVE  RowsOK'
<1> USE DEF TypeInv, TypeOK
<1>1. CASE UNCHANGED rowVars
  BY <1>1 DEF rowVars, RowsOK
<1>2. CASE DCreateRows
  BY <1>2 DEF DCreateRows, RowsOK, TaskStatus
<1>3. CASE DRecordIds
  BY <1>3, FirstSentTyped DEF DRecordIds, RowsOK
<1>4. CASE UCommit \/ UCommitUnrevoked \/ BFail
  BY <1>4, RowsTyped DEF UCommit, UCommitUnrevoked, BFail, RowsOK, TaskStatus
<1>5. ASSUME NEW a \in Arenas, DMark(a)
      PROVE  RowsOK'
  BY <1>5 DEF DMark, RowsOK, TaskStatus, Arenas
<1>6. ASSUME NEW j \in Jobs, DSendLost(j)
      PROVE  RowsOK'
  <2>1. j.arena \in Arenas
    BY JobFields
  <2>2. Closed("failed")[j.arena] \in SUBSET TaskStatus
    BY <2>1, RowsTyped DEF TaskStatus
  <2> QED BY <1>6, <2>1, <2>2 DEF DSendLost, RowsOK
<1>7. ASSUME NEW j \in Jobs,
             JStart(j) \/ JReport(j, "completed") \/ JReport(j, "failed")
      PROVE  RowsOK'
  BY <1>7, RowsTyped, JobFields DEF JStart, JReport, RowsOK, TaskStatus
<1>8. ASSUME NEW k \in Copies, CPoll(k) \/ CDecide(k) \/ CWait(k)
      PROVE  RowsOK'
  BY <1>8, RowsTyped DEF CPoll, CDecide, CWait, RowsOK, TaskStatus
<1>9. ASSUME NEW a \in Arenas, GoOverdue(a)
      PROVE  RowsOK'
  BY <1>9 DEF GoOverdue, RowsOK
<1> QED BY <1>1, <1>2, <1>3, <1>4, <1>5, <1>6, <1>7, <1>8, <1>9, RowWriters

LEMMA DispatcherTyped ==
  ASSUME TypeInv, [Next]_vars
  PROVE  DispatcherOK'
<1> USE BatchRunAssumption DEF TypeInv, TypeOK, DispatcherOK
<1>1. CASE UNCHANGED dVars
  BY <1>1 DEF dVars
<1>2. CASE Enqueue \/ EnqueueLost \/ DStart
  BY <1>2 DEF Enqueue, EnqueueLost, DStart
<1>3. CASE DCreateRows \/ DToSend
  BY <1>3 DEF DCreateRows, DToSend
<1>4. CASE DNothing \/ DAnnounceNothing
  BY <1>4 DEF DNothing, DAnnounceNothing
<1>5. CASE DError
  BY <1>5 DEF DError
<1>6. CASE DRecordIds \/ DRecordIdsLost
  BY <1>6 DEF DRecordIds, DRecordIdsLost
<1>7. CASE DSchedule \/ DScheduleLost
  BY <1>7 DEF DSchedule, DScheduleLost
<1>8. CASE DCrash
  BY <1>8 DEF DCrash, Fault, Copies, CopiesCost, OthersOK
<1>9. ASSUME NEW a \in Arenas, DMark(a) \/ DMarkLost(a)
      PROVE  DispatcherOK'
  BY <1>9 DEF DMark, DMarkLost
<1>10. ASSUME NEW j \in Jobs, DSend(j) \/ DSendLost(j)
       PROVE  DispatcherOK'
  BY <1>10 DEF DSend, DSendLost
<1> QED
  BY <1>1, <1>2, <1>3, <1>4, <1>5, <1>6, <1>7, <1>8, <1>9, <1>10, DispatcherWriters

LEMMA CopiesCostNext ==
  ASSUME TypeInv, [Next]_vars
  PROVE  CopiesCost'
<1> USE DEF TypeInv, TypeOK, DispatcherOK, OthersOK, Copies, CopiesCost
<1>1. faults \in Nat /\ dcopy \in Nat
  BY BatchRunAssumption
<1>2. faults' = faults \/ faults' = faults + 1
  BY OtherWriters DEF Fault
<1>3. dcopy' = dcopy \/ (dcopy' = dcopy + 1 /\ faults' = faults + 1)
  BY DispatcherWriters DEF dVars, Enqueue, EnqueueLost, DStart, DCreateRows, DToSend,
     DNothing, DAnnounceNothing, DError, DRecordIds, DRecordIdsLost, DSchedule,
     DScheduleLost, DCrash, DMark, DMarkLost, DSend, DSendLost, Fault
<1> QED BY <1>1, <1>2, <1>3

LEMMA JobsTyped ==
  ASSUME TypeInv, [Next]_vars
  PROVE  JobsOK'
<1> USE BatchRunAssumption DEF TypeInv, TypeOK, JobsOK
<1>1. CASE UNCHANGED jVars
  BY <1>1 DEF jVars
<1>2. CASE UCommit
  BY <1>2 DEF UCommit
<1>3. ASSUME NEW j \in Jobs,
             \/ DSend(j) \/ JStart(j) \/ JStartUnseen(j) \/ JCheckCancelled(j)
             \/ JCheckFailsOpen(j) \/ JInsert(j)
      PROVE  JobsOK'
  BY <1>3 DEF DSend, JStart, JStartUnseen, JCheckCancelled, JCheckFailsOpen, JInsert
<1>4. ASSUME NEW j \in Jobs,
             \/ JReport(j, "completed") \/ JReport(j, "failed") \/ JReportUnseen(j)
             \/ JRateLimited(j) \/ JTimeLimit(j) \/ JAck(j) \/ JCrash(j)
      PROVE  JobsOK'
  BY <1>4 DEF JReport, JReportUnseen, JRateLimited, JTimeLimit, JAck, JCrash
<1> QED BY <1>1, <1>2, <1>3, <1>4, JobWriters

LEMMA CheckersTyped ==
  ASSUME TypeInv, [Next]_vars
  PROVE  CheckersOK' /\ VerdictsKnown'
<1> USE DEF TypeInv, TypeOK, CheckersOK, VerdictsKnown
<1>1. CASE UNCHANGED cVars
  BY <1>1 DEF cVars
<1>2. CASE DSchedule
  BY <1>2 DEF DSchedule, DispatcherOK
<1>3. ASSUME NEW k \in Copies, CPoll(k) \/ CFinalise(k) \/ CAnnounce(k)
      PROVE  CheckersOK' /\ VerdictsKnown'
  BY <1>3 DEF CPoll, CFinalise, CAnnounce
<1>4. ASSUME NEW k \in Copies, CDecide(k)
      PROVE  CheckersOK' /\ VerdictsKnown'
  BY <1>4 DEF CDecide, VerdictOn
<1>5. ASSUME NEW k \in Copies, CWait(k)
      PROVE  CheckersOK' /\ VerdictsKnown'
  BY <1>5 DEF CWait
<1>6. ASSUME NEW k \in Copies, CError(k) \/ CCrash(k)
      PROVE  CheckersOK' /\ VerdictsKnown'
  BY <1>6 DEF CError, CCrash
<1> QED BY <1>1, <1>2, <1>3, <1>4, <1>5, <1>6, CheckerWriters

LEMMA OthersTyped ==
  ASSUME TypeInv, [Next]_vars
  PROVE  OthersOK'
<1> USE BatchRunAssumption DEF TypeInv, TypeOK, OthersOK
<1>1. (faults \in 0 .. MaxFaults)'
  BY OtherWriters DEF Fault
<1>2. (upc \in {"idle", "checked", "committed"} /\ cancels \in 0 .. MaxCancels)'
  <2>1. CASE UNCHANGED uVars \/ UCommit \/ UCommitUnrevoked \/ UAnnounce
    BY <2>1 DEF UCommit, UCommitUnrevoked, UAnnounce, uVars
  <2>2. CASE UCheck
    BY <2>2 DEF UCheck
  <2> QED BY <2>1, <2>2, OtherWriters
<1>3. (bpc \in {"idle", "fetched", "announce"})'
  BY OtherWriters DEF BFetch, BFail, BAnnounce, BCrash
<1>4. (announced \subseteq {"completed", "failed"})'
  BY OtherWriters DEF DAnnounceNothing, UAnnounce, BAnnounce, CAnnounce,
     CheckersOK, VerdictsKnown
<1> QED BY <1>1, <1>2, <1>3, <1>4

LEMMA TypeStep == TypeInv /\ [Next]_vars => TypeInv'
BY RunTyped, RowsTypedNext, DispatcherTyped, CopiesCostNext, JobsTyped,
   CheckersTyped, OthersTyped DEF TypeInv, TypeOK

LEMMA SpecTyped == Spec => []TypeInv
BY TypeInit, TypeStep, PTL DEF Spec

\* No column, queue or counter of a run leaves its range, however often the
\* dispatch is redelivered, the jobs are retried and the checkers re-scheduled.
THEOREM TypeCorrect == Spec => []TypeOK
<1>1. TypeInv => TypeOK
  BY DEF TypeInv
<1> QED BY <1>1, SpecTyped, PTL

-----------------------------------------------------------------------------
(* The run row implements RunStatus *)

LEMMA RunRowStep ==
  ASSUME TypeInv, [Next]_vars
  PROVE  [RunRow!Next]_<<status, completedAt>>
<1> USE DEF RunRow!Next, RunRow!Begin, RunRow!End, RunRow!Abandon, RunRow!Terminal
<1>1. CASE UNCHANGED runVars
  BY <1>1 DEF runVars
<1>2. CASE DStart
  BY <1>2 DEF DStart
<1>3. CASE DNothing \/ UCommit \/ UCommitUnrevoked
  BY <1>3 DEF DNothing, UCommit, UCommitUnrevoked
<1>4. CASE BFail
  BY <1>4 DEF BFail
<1>5. CASE GrowOlder \/ GoIdle
  BY <1>5 DEF GrowOlder, GoIdle
<1>6. ASSUME NEW j \in Jobs, JInsert(j)
      PROVE  [RunRow!Next]_<<status, completedAt>>
  BY <1>6 DEF JInsert
<1>7. ASSUME NEW k \in Copies, CFinalise(k)
      PROVE  [RunRow!Next]_<<status, completedAt>>
  <2>1. verdict[k] \in {"completed", "failed"}
    BY <1>7 DEF CFinalise, TypeInv, TypeOK, CheckersOK, VerdictsKnown
  <2> QED BY <1>7, <2>1 DEF CFinalise
<1> QED BY <1>1, <1>2, <1>3, <1>4, <1>5, <1>6, <1>7, RunWriters

\* Whatever the dispatcher, the checkers, the user and the cleanup overwrite,
\* the run row implements RunStatus: completed_at is stamped with every
\* completion and cancellation and never cleared.
THEOREM RunRowImplementsRunStatus == Spec => RunRowSpec
<1>1. Init => RunRow!Init
  BY DEF Init, RunRow!Init
<1>2. TypeInv /\ [Next]_vars => [RunRow!Next]_<<status, completedAt>>
  BY RunRowStep
<1> QED BY <1>1, <1>2, SpecTyped, PTL DEF Spec, RunRowSpec, RunRow!Spec

-----------------------------------------------------------------------------
(* Cancelled rows *)

LEMMA CancelledRowStep ==
  ASSUME TypeInv, [Next]_vars, NEW a \in Arenas, row[a] = {"cancelled"}
  PROVE  row[a]' \cap {"running", "completed"} = {}
<1> USE DEF TypeInv, TypeOK, RowsOK
<1>1. CASE UNCHANGED rowVars
  BY <1>1 DEF rowVars
<1>2. CASE DCreateRows \/ DRecordIds
  BY <1>2 DEF DCreateRows, DRecordIds
<1>3. CASE UCommit \/ UCommitUnrevoked \/ BFail
  BY <1>3 DEF UCommit, UCommitUnrevoked, BFail, Closed, TaskTerminal
<1>4. ASSUME NEW b \in Arenas, DMark(b)
      PROVE  row[a]' \cap {"running", "completed"} = {}
  BY <1>4 DEF DMark
<1>5. ASSUME NEW j \in Jobs, DSendLost(j)
      PROVE  row[a]' \cap {"running", "completed"} = {}
  BY <1>5, JobFields DEF DSendLost, Closed, TaskTerminal
<1>6. ASSUME NEW j \in Jobs,
             JStart(j) \/ JReport(j, "completed") \/ JReport(j, "failed")
      PROVE  row[a]' \cap {"running", "completed"} = {}
  BY <1>6, JobFields DEF JStart, JReport, Reported
<1>7. ASSUME NEW k \in Copies, CPoll(k) \/ CDecide(k) \/ CWait(k)
      PROVE  row[a]' \cap {"running", "completed"} = {}
  BY <1>7 DEF CPoll, CDecide, CWait, Closed, Swept, TaskTerminal
<1>8. ASSUME NEW b \in Arenas, GoOverdue(b)
      PROVE  row[a]' \cap {"running", "completed"} = {}
  BY <1>8 DEF GoOverdue
<1> QED BY <1>1, <1>2, <1>3, <1>4, <1>5, <1>6, <1>7, <1>8, RowWriters

\* A job that survives the revocation cannot reopen the row the user cancelled.
THEOREM CancelledRowsAreSafe == Spec => CancelledRowsStayClosed
<1>1. TypeInv /\ [Next]_vars =>
        \A a \in Arenas : row[a] = {"cancelled"} =>
           row[a]' \cap {"running", "completed"} = {}
  BY CancelledRowStep
<1> QED BY <1>1, SpecTyped, PTL DEF Spec, CancelledRowsStayClosed

-----------------------------------------------------------------------------
(* Late batches.  The bound is not inductive by itself: a batch begun before *)
(* the cancellation is not late yet, and a cancel request that has passed    *)
(* its check will make it so.  Each of the two is counted as already spent.  *)

Begun(j) == IF job[j] = "inserting" /\ status = "cancelled" THEN 1 ELSE 0
Coming   == IF upc = "checked" THEN 1 ELSE 0

LateInv == \A j \in Jobs : late[j] + Begun(j) + Coming <= cancels + faults

LEMMA LateStep ==
  ASSUME TypeInv, LateInv, [Next]_vars
  PROVE  LateInv'
<1> SUFFICES ASSUME NEW i \in Jobs
             PROVE  late'[i] + Begun(i)' + Coming' <= cancels' + faults'
  BY DEF LateInv
<1> DEFINE Paid == late'[i] + Begun(i)' + Coming' <= cancels' + faults'
<1>1. /\ late[i] \in Nat /\ cancels \in Nat /\ faults \in Nat
      /\ late[i] + Begun(i) + Coming <= cancels + faults
  BY BatchRunAssumption DEF TypeInv, TypeOK, JobsOK, OthersOK, LateInv
<1>2. JobsOK
  BY DEF TypeInv, TypeOK
<1>3. faults' = faults \/ faults' = faults + 1
  BY OtherWriters DEF Fault
<1> USE <1>1, <1>2 DEF JobsOK, Begun, Coming, runVars, jVars, uVars
<1>4. CASE UNCHANGED <<runVars, jVars, uVars>>
  BY <1>3, <1>4
<1>5. CASE UCheck
  BY <1>5 DEF UCheck
<1>6. CASE UCommit \/ UCommitUnrevoked
  BY <1>6 DEF UCommit, UCommitUnrevoked, Fault
<1>7. CASE UAnnounce \/ BFail \/ DStart \/ DNothing
  BY <1>7 DEF UAnnounce, BFail, DStart, DNothing
<1>8. CASE GrowOlder \/ GoIdle
  BY <1>8 DEF GrowOlder, GoIdle
<1>9. ASSUME NEW k \in Copies, CFinalise(k)
      PROVE  Paid
  <2>1. verdict[k] # "cancelled"
    BY <1>9 DEF CFinalise, TypeInv, TypeOK, CheckersOK
  <2> QED BY <1>9, <2>1 DEF CFinalise
<1>10. ASSUME NEW j \in Jobs, JInsert(j)
       PROVE  Paid
  BY <1>10 DEF JInsert
<1>11. ASSUME NEW j \in Jobs, JCheckCancelled(j) \/ JCheckFailsOpen(j)
       PROVE  Paid
  BY <1>11 DEF JCheckCancelled, JCheckFailsOpen, Fault
<1>12. ASSUME NEW j \in Jobs,
              \/ DSend(j) \/ JStart(j) \/ JStartUnseen(j)
              \/ JReport(j, "completed") \/ JReport(j, "failed") \/ JReportUnseen(j)
       PROVE  Paid
  BY <1>12 DEF DSend, JStart, JStartUnseen, JReport, JReportUnseen, Fault
<1>13. ASSUME NEW j \in Jobs,
              JRateLimited(j) \/ JTimeLimit(j) \/ JAck(j) \/ JCrash(j)
       PROVE  Paid
  BY <1>13 DEF JRateLimited, JTimeLimit, JAck, JCrash, Fault
<1> QED
  BY <1>4, <1>5, <1>6, <1>7, <1>8, <1>9, <1>10, <1>11, <1>12, <1>13,
     RunWriters, JobWriters, OtherWriters

\* A job that misses the revocation of a cancelled run stores at most one more
\* batch per cancel request, plus one per failed check of the cancellation.
THEOREM LateBatches == Spec => []LateBatchesBounded
<1>1. Init => LateInv
  BY BatchRunAssumption DEF Init, LateInv, Begun, Coming
<1>2. TypeInv /\ LateInv /\ [Next]_vars => LateInv'
  BY LateStep
<1>3. TypeInv /\ LateInv => LateBatchesBounded
  <2> SUFFICES ASSUME TypeInv, LateInv, NEW j \in Jobs
               PROVE  late[j] <= cancels + faults
    BY DEF LateBatchesBounded
  <2>1. late[j] \in Nat /\ cancels \in Nat /\ faults \in Nat
    BY BatchRunAssumption DEF TypeInv, TypeOK, JobsOK, OthersOK
  <2> QED BY <2>1 DEF LateInv, Begun, Coming
<1> QED BY <1>1, <1>2, <1>3, SpecTyped, PTL DEF Spec

=============================================================================
