------------------------------ MODULE BatchRun -------------------------------
(***************************************************************************)
(* One batch collection run: the collection_runs row, its collection_tasks *)
(* rows, and everything that writes to them concurrently --                *)
(*                                                                         *)
(*   D  dispatch_batch_collection   (Celery task, retried and redelivered) *)
(*   J  the arena jobs              (collect_by_terms / collect_by_actors) *)
(*   C  check_batch_completion      (a chain of re-scheduled polls)        *)
(*   U  POST /{run_id}/cancel       (the user)                             *)
(*   B  cleanup_stale_runs          (beat)                                 *)
(*                                                                         *)
(* Each step is one database transaction, one message, or one read whose   *)
(* result is used by a later step.  Time is a clock that moves the age of  *)
(* the run through the classes the code compares started_at with.          *)
(* Database errors, broker errors and lost worker processes are faults; at *)
(* most MaxFaults of them happen.                                          *)
(*                                                                         *)
(* The run is one of a project without comments_config, so no *_comments   *)
(* rows join its collection_tasks; the enrichment task enqueued for a      *)
(* completed run never writes to these tables and is left out.             *)
(***************************************************************************)
EXTENDS Naturals, FiniteSets

CONSTANTS
  TermArenas,       \* registered arenas that have search terms in this run
  ActorArenas,      \* registered arenas that have a source list in this run
  IdleArenas,       \* registered arenas with neither: a row but no job
  DispatchRetries,  \* max_retries of dispatch_batch_collection (2 in the code)
  JobRetries,       \* max_retries of an arena task (3 in the code)
  CheckLimit,       \* _CHECK_BATCH_MAX_ATTEMPTS (480 in the code)
  MaxCancels,       \* bound: cancel requests
  MaxFaults         \* bound: injected failures

ASSUME BatchRunAssumption ==
  /\ IdleArenas \cap (TermArenas \cup ActorArenas) = {}
  /\ DispatchRetries \in Nat /\ JobRetries \in Nat /\ CheckLimit \in Nat
  /\ MaxCancels \in Nat /\ MaxFaults \in Nat

Arenas == TermArenas \cup ActorArenas \cup IdleArenas

\* The dispatches of one run: a worker lost half-way redelivers the dispatch
\* message and everything is sent again.
Copies == 1 .. MaxFaults + 1

Jobs == [arena : TermArenas,  kind : {"terms"},  copy : Copies] \cup
        [arena : ActorArenas, kind : {"actors"}, copy : Copies]

NoJob == [arena |-> "none"]

TaskStatus   == {"pending", "running", "completed", "failed", "cancelled"}
TaskTerminal == {"completed", "failed", "cancelled"}
Terminal     == {"completed", "failed", "cancelled"}

\* The classes of (now - started_at): NULL, under 2 minutes, under 24 hours,
\* more.  The 30 minutes of the idle rule are the variable idle.
Ages == <<"fresh", "minutes", "day">>

VARIABLES
  \* collection_runs
  status,       \* CollectionRun.status
  completedAt,  \* CollectionRun.completed_at is not NULL
  age,          \* class of started_at
  stored,       \* some content record belongs to the run
  idle,         \* no record for 30 minutes
  \* collection_tasks
  row,          \* arena -> the statuses of its rows (none before dispatch,
                \*   several only if a retried dispatch created them again)
  celeryId,     \* arena -> the job recorded in celery_task_id
  overdue,      \* arenas whose rows started more than 90 minutes ago
  \* processes
  dpc, dcopy, dretries,          \* dispatcher
  tomark, tosend,                \*   its work left in steps 7 and 8
  job, jretries, late,           \* arena jobs
  cpc, attempt, verdict,         \* completion checkers, one chain per dispatch
  upc, cancels,                  \* cancel requests
  bpc,                           \* beat cleanup
  announced,    \* statuses published as run_complete events
  faults

runVars  == <<status, completedAt, age, stored, idle>>
rowVars  == <<row, celeryId, overdue>>
dVars    == <<dpc, dcopy, dretries, tomark, tosend>>
jVars    == <<job, jretries, late>>
cVars    == <<cpc, attempt, verdict>>
uVars    == <<upc, cancels>>
vars     == <<runVars, rowVars, dVars, jVars, cVars, uVars, bpc, announced, faults>>

-----------------------------------------------------------------------------
(* Helpers *)

\* (faulty: the status guard of the update is forgotten)
ReportedUnguarded(a, s) == [row EXCEPT ![a] = {s : t \in @}]

\* update_collection_task_status: every row of the arena that is not cancelled.
Reported(a, s) ==
  [row EXCEPT ![a] = {IF t = "cancelled" THEN t ELSE s : t \in @}]

\* UPDATE collection_tasks ... WHERE status NOT IN (terminal).
Closed(s) ==
  [a \in Arenas |-> {IF t \in TaskTerminal THEN t ELSE s : t \in row[a]}]

\* The sweep of check_all_tasks_terminal: rows still pending two minutes after
\* the run started, and rows running for more than 90 minutes, are failed.
Swept ==
  [a \in Arenas |->
     {IF \/ t = "pending" /\ age \in {"minutes", "day"}
         \/ t = "running" /\ a \in overdue
      THEN "failed" ELSE t : t \in row[a]}]

AllRows(r)   == UNION {r[a] : a \in Arenas}
AllClosed(r) == AllRows(r) \subseteq TaskTerminal

\* _check_batch_async: failed only if nothing completed and something failed.
VerdictOn(r) ==
  IF "completed" \notin AllRows(r) /\ AllRows(r) \cap {"failed", "cancelled"} # {}
  THEN "failed" ELSE "completed"

Fault == faults < MaxFaults /\ faults' = faults + 1

Executing(j) == job[j] \in {"collecting", "inserting"}

\* The jobs the current dispatch has sent so far.
Sent == {j \in Jobs : j.copy = dcopy /\ job[j] # "unsent"}

-----------------------------------------------------------------------------
\* create_collection_run has committed the row; its dispatch is not yet sent.
Init ==
  /\ status = "pending" /\ completedAt = FALSE /\ age = "none"
  /\ stored = FALSE /\ idle = FALSE
  /\ row = [a \in Arenas |-> {}]
  /\ celeryId = [a \in Arenas |-> NoJob]
  /\ overdue = {}
  /\ dpc = "unsent" /\ dcopy = 1 /\ dretries = 0 /\ tomark = {} /\ tosend = {}
  /\ job = [j \in Jobs |-> "unsent"]
  /\ jretries = [j \in Jobs |-> 0]
  /\ late = [j \in Jobs |-> 0]
  /\ cpc = [k \in Copies |-> "none"]
  /\ attempt = [k \in Copies |-> 1]
  /\ verdict = [k \in Copies |-> "none"]
  /\ upc = "idle" /\ cancels = 0
  /\ bpc = "idle"
  /\ announced = {}
  /\ faults = 0

-----------------------------------------------------------------------------
(* The dispatcher *)

\* dispatch_batch_collection.delay in create_collection_run.
Enqueue ==
  /\ dpc = "unsent"
  /\ dpc' = "queued"
  /\ UNCHANGED <<runVars, rowVars, dcopy, dretries, tomark, tosend, jVars, cVars, uVars,
                 bpc, announced, faults>>

\* The broker refuses the message: logged as non-fatal, the run stays pending.
EnqueueLost ==
  /\ dpc = "unsent" /\ Fault
  /\ dpc' = "lost"
  /\ UNCHANGED <<runVars, rowVars, dcopy, dretries, tomark, tosend, jVars, cVars, uVars,
                 bpc, announced>>

\* Steps 1-3: load the run, then set it running whatever its status is.
DStart ==
  /\ dpc = "queued"
  /\ status' = "running" /\ age' = "fresh" /\ idle' = (idle /\ stored)
  /\ dpc' = "started"
  /\ UNCHANGED <<completedAt, stored, rowVars, dcopy, dretries, tomark, tosend, jVars,
                 cVars, uVars, bpc, announced, faults>>

\* Step 6: create_collection_tasks.  What is left to collect is known only now:
\* terms may have been deactivated, only_collect_new leaves out what was
\* collected before, and terms that cannot be fetched count as none.
DCreateRows ==
  /\ dpc = "started"
  /\ row' = [a \in Arenas |-> row[a] \cup {"pending"}]
  /\ tosend' \in SUBSET {j \in Jobs : j.copy = dcopy}
  /\ tomark' = Arenas \ {j.arena : j \in tosend'}
  /\ dpc' = "marking"
  /\ UNCHANGED <<runVars, celeryId, overdue, dcopy, dretries, jVars, cVars, uVars,
                 bpc, announced, faults>>

\* Step 7: mark_task_failed overwrites every row of an arena without terms and
\* without actors.
DMark(a) ==
  /\ dpc = "marking" /\ a \in tomark
  /\ row' = [row EXCEPT ![a] = {"failed"}]
  /\ tomark' = tomark \ {a}
  /\ UNCHANGED <<runVars, celeryId, overdue, dpc, dcopy, dretries, tosend, jVars,
                 cVars, uVars, bpc, announced, faults>>

\* The update fails; the exception is logged and swallowed.
DMarkLost(a) ==
  /\ dpc = "marking" /\ a \in tomark /\ Fault
  /\ tomark' = tomark \ {a}
  /\ UNCHANGED <<runVars, rowVars, dpc, dcopy, dretries, tosend, jVars, cVars, uVars,
                 bpc, announced>>

\* Step 8, something to dispatch: the asynchronous part returns.
DToSend ==
  /\ dpc = "marking" /\ tomark = {} /\ tosend # {}
  /\ dpc' = "sending"
  /\ UNCHANGED <<runVars, rowVars, dcopy, dretries, tomark, tosend, jVars, cVars, uVars,
                 bpc, announced, faults>>

\* (faulty: completed_at is not stamped)
DNothingUnstamped ==
  /\ dpc = "marking" /\ tomark = {} /\ tosend = {}
  /\ status' = "completed"
  /\ dpc' = "announce"
  /\ UNCHANGED <<completedAt, age, stored, idle, rowVars, dcopy, dretries, tomark, tosend, jVars,
                 cVars, uVars, bpc, announced, faults>>

\* Step 8, nothing to dispatch: the run is completed.
DNothing ==
  /\ dpc = "marking" /\ tomark = {} /\ tosend = {}
  /\ status' = "completed" /\ completedAt' = TRUE
  /\ dpc' = "announce"
  /\ UNCHANGED <<age, stored, idle, rowVars, dcopy, dretries, tomark, tosend, jVars,
                 cVars, uVars, bpc, announced, faults>>

DAnnounceNothing ==
  /\ dpc = "announce"
  /\ announced' = announced \cup {"completed"}
  /\ dpc' = "done"
  /\ UNCHANGED <<runVars, rowVars, dcopy, dretries, tomark, tosend, jVars, cVars, uVars,
                 bpc, faults>>

\* A database error in the asynchronous part: self.retry until the retries
\* are used up, then the dispatch returns and leaves the run as it is.
DError ==
  /\ dpc \in {"queued", "started", "marking"} /\ Fault
  /\ IF dretries < DispatchRetries
     THEN dpc' = "queued" /\ dretries' = dretries + 1
     ELSE dpc' = "done" /\ UNCHANGED dretries
  /\ tomark' = {} /\ tosend' = {}
  /\ UNCHANGED <<runVars, rowVars, dcopy, jVars, cVars, uVars, bpc, announced>>

\* collect_by_terms of an arena is sent before its collect_by_actors.
InOrder(j) == j \in tosend /\ \A i \in tosend :
                 i.arena = j.arena /\ i.kind = "terms" => i = j

DSend(j) ==
  /\ dpc = "sending" /\ InOrder(j)
  /\ job' = [job EXCEPT ![j] = "queued"]
  /\ tosend' = tosend \ {j}
  /\ UNCHANGED <<runVars, rowVars, dpc, dcopy, dretries, tomark, jretries, late, cVars,
                 uVars, bpc, announced, faults>>

\* send_task raises: the row is failed, unless it is the second job of a
\* dual-mode arena, whose failure is only logged.
DSendLost(j) ==
  /\ dpc = "sending" /\ InOrder(j) /\ Fault
  /\ tosend' = tosend \ {j}
  /\ IF j.kind = "actors" /\ j.arena \in TermArenas
     THEN UNCHANGED row
     ELSE row' = [row EXCEPT ![j.arena] = Closed("failed")[j.arena]]
  /\ UNCHANGED <<runVars, celeryId, overdue, dpc, dcopy, dretries, tomark, jVars,
                 cVars, uVars, bpc, announced>>

\* The job id kept on an arena's row: the terms job if there is one.
FirstSent(a) ==
  LET mine == {j \in Sent : j.arena = a}
  IN  IF mine = {} THEN celeryId[a]
      ELSE CHOOSE j \in mine : \A i \in mine : i.kind = "terms" => i = j

DRecordIds ==
  /\ dpc = "sending" /\ tosend = {}
  /\ celeryId' = [a \in Arenas |-> FirstSent(a)]
  /\ dpc' = "scheduling"
  /\ UNCHANGED <<runVars, row, overdue, dcopy, dretries, tomark, tosend, jVars, cVars,
                 uVars, bpc, announced, faults>>

\* The update of the ids fails and is swallowed.
DRecordIdsLost ==
  /\ dpc = "sending" /\ tosend = {} /\ Fault
  /\ dpc' = "scheduling"
  /\ UNCHANGED <<runVars, rowVars, dcopy, dretries, tomark, tosend, jVars, cVars, uVars,
                 bpc, announced>>

\* check_batch_completion.apply_async(countdown=15), only if a send succeeded.
DSchedule ==
  /\ dpc = "scheduling"
  /\ cpc' = IF Sent # {} THEN [cpc EXCEPT ![dcopy] = "scheduled"] ELSE cpc
  /\ dpc' = "done"
  /\ UNCHANGED <<runVars, rowVars, dcopy, dretries, tomark, tosend, jVars, attempt,
                 verdict, uVars, bpc, announced, faults>>

\* apply_async raises: the task fails and no checker exists.
DScheduleLost ==
  /\ dpc = "scheduling" /\ Fault
  /\ dpc' = "done"
  /\ UNCHANGED <<runVars, rowVars, dcopy, dretries, tomark, tosend, jVars, cVars, uVars,
                 bpc, announced>>

\* The worker process is lost; acks_late redelivers the message.
DCrash ==
  /\ dpc \in {"started", "marking", "announce", "sending", "scheduling"} /\ Fault
  /\ dpc' = "queued" /\ dcopy' = dcopy + 1 /\ tomark' = {} /\ tosend' = {}
  /\ UNCHANGED <<runVars, rowVars, dretries, jVars, cVars, uVars, bpc, announced>>

Dispatcher ==
  \/ Enqueue \/ EnqueueLost \/ DStart \/ DCreateRows
  \/ \E a \in Arenas : DMark(a) \/ DMarkLost(a)
  \/ DToSend \/ DNothing \/ DAnnounceNothing \/ DError
  \/ \E j \in Jobs : DSend(j) \/ DSendLost(j)
  \/ DRecordIds \/ DRecordIdsLost \/ DSchedule \/ DScheduleLost \/ DCrash

-----------------------------------------------------------------------------
(* The arena jobs *)

JStart(j) ==
  /\ job[j] = "queued"
  /\ job' = [job EXCEPT ![j] = "collecting"]
  /\ row' = Reported(j.arena, "running")
  /\ UNCHANGED <<runVars, celeryId, overdue, dVars, jretries, late, cVars,
                 uVars, bpc, announced, faults>>

\* _update_task_status is best effort: the write can be lost.
JStartUnseen(j) ==
  /\ job[j] = "queued" /\ Fault
  /\ job' = [job EXCEPT ![j] = "collecting"]
  /\ UNCHANGED <<runVars, rowVars, dVars, jretries, late, cVars, uVars, bpc,
                 announced>>

\* (faulty: the batch is stored without asking whether the run was cancelled)
JCheckNothing(j) ==
  /\ job[j] = "collecting"
  /\ job' = [job EXCEPT ![j] = "inserting"]
  /\ UNCHANGED <<runVars, rowVars, dVars, jretries, late, cVars, uVars, bpc,
                 announced, faults>>

\* A batch is full: persist_collected_records asks whether the run was
\* cancelled, and raises RunCancelledError if so.
JCheckCancelled(j) ==
  /\ job[j] = "collecting"
  /\ job' = [job EXCEPT ![j] = IF status = "cancelled" THEN "gone" ELSE "inserting"]
  /\ UNCHANGED <<runVars, rowVars, dVars, jretries, late, cVars, uVars, bpc,
                 announced, faults>>

\* is_run_cancelled fails open.
JCheckFailsOpen(j) ==
  /\ job[j] = "collecting" /\ Fault
  /\ job' = [job EXCEPT ![j] = "inserting"]
  /\ UNCHANGED <<runVars, rowVars, dVars, jretries, late, cVars, uVars, bpc,
                 announced>>

\* The batch is inserted: new records, or only duplicates.
JInsert(j) ==
  /\ job[j] = "inserting"
  /\ job' = [job EXCEPT ![j] = "collecting"]
  /\ late' = IF status = "cancelled" THEN [late EXCEPT ![j] = @ + 1] ELSE late
  /\ \/ stored' = TRUE /\ idle' = FALSE
     \/ UNCHANGED <<stored, idle>>
  /\ UNCHANGED <<status, completedAt, age, rowVars, dVars, jretries, cVars,
                 uVars, bpc, announced, faults>>

\* The last status write of a job, before its message is acknowledged.
JReport(j, s) ==
  /\ job[j] = "collecting"
  /\ job' = [job EXCEPT ![j] = "reported"]
  /\ row' = Reported(j.arena, s)
  /\ UNCHANGED <<runVars, celeryId, overdue, dVars, jretries, late, cVars,
                 uVars, bpc, announced, faults>>

JReportUnseen(j) ==
  /\ job[j] = "collecting" /\ Fault
  /\ job' = [job EXCEPT ![j] = "reported"]
  /\ UNCHANGED <<runVars, rowVars, dVars, jretries, late, cVars, uVars, bpc,
                 announced>>

\* (faulty: one retry too many)
JRateLimitedOnceMore(j) ==
  /\ job[j] = "collecting"
  /\ IF jretries[j] <= JobRetries
     THEN /\ job' = [job EXCEPT ![j] = "queued"]
          /\ jretries' = [jretries EXCEPT ![j] = @ + 1]
     ELSE /\ job' = [job EXCEPT ![j] = "gone"]
          /\ UNCHANGED jretries
  /\ UNCHANGED <<runVars, rowVars, dVars, late, cVars, uVars, bpc, announced,
                 faults>>

\* ArenaRateLimitError: autoretry, and after the last one the job ends
\* without a status write.
JRateLimited(j) ==
  /\ job[j] = "collecting"
  /\ IF jretries[j] < JobRetries
     THEN /\ job' = [job EXCEPT ![j] = "queued"]
          /\ jretries' = [jretries EXCEPT ![j] = @ + 1]
     ELSE /\ job' = [job EXCEPT ![j] = "gone"]
          /\ UNCHANGED jretries
  /\ UNCHANGED <<runVars, rowVars, dVars, late, cVars, uVars, bpc, announced,
                 faults>>

\* task_time_limit: killed and acknowledged, no status write.
JTimeLimit(j) ==
  /\ Executing(j)
  /\ job' = [job EXCEPT ![j] = "gone"]
  /\ UNCHANGED <<runVars, rowVars, dVars, jretries, late, cVars, uVars, bpc,
                 announced, faults>>

JAck(j) ==
  /\ job[j] = "reported"
  /\ job' = [job EXCEPT ![j] = "gone"]
  /\ UNCHANGED <<runVars, rowVars, dVars, jretries, late, cVars, uVars, bpc,
                 announced, faults>>

\* The worker process is lost before the acknowledgement.
JCrash(j) ==
  /\ job[j] \in {"collecting", "inserting", "reported"} /\ Fault
  /\ job' = [job EXCEPT ![j] = "queued"]
  /\ UNCHANGED <<runVars, rowVars, dVars, jretries, late, cVars, uVars, bpc,
                 announced>>

ArenaJob(j) ==
  \/ JStart(j) \/ JStartUnseen(j) \/ JCheckCancelled(j) \/ JCheckFailsOpen(j)
  \/ JInsert(j) \/ JReport(j, "completed") \/ JReport(j, "failed")
  \/ JReportUnseen(j) \/ JRateLimited(j) \/ JTimeLimit(j) \/ JAck(j) \/ JCrash(j)

-----------------------------------------------------------------------------
(* The completion checker *)

\* check_all_tasks_terminal, first session: a cancelled run closes its rows.
CPoll(k) ==
  /\ cpc[k] = "scheduled"
  /\ row' = IF status = "cancelled" THEN Closed("cancelled") ELSE row
  /\ cpc' = [cpc EXCEPT ![k] = "polled"]
  /\ UNCHANGED <<runVars, celeryId, overdue, dVars, jVars, attempt, verdict,
                 uVars, bpc, announced, faults>>

\* Second session: fail the stuck rows and count.  All closed: a verdict.
CDecide(k) ==
  /\ cpc[k] = "polled"
  /\ row' = Swept
  /\ AllRows(Swept) # {} /\ AllClosed(Swept)
  /\ verdict' = [verdict EXCEPT ![k] = VerdictOn(Swept)]
  /\ cpc' = [cpc EXCEPT ![k] = "decided"]
  /\ UNCHANGED <<runVars, celeryId, overdue, dVars, jVars, attempt, uVars, bpc,
                 announced, faults>>

\* Some row open: poll again in 15 seconds, or give up after CheckLimit polls.
CWait(k) ==
  /\ cpc[k] = "polled"
  /\ row' = Swept
  /\ ~AllClosed(Swept)
  /\ IF attempt[k] < CheckLimit
     THEN /\ cpc' = [cpc EXCEPT ![k] = "scheduled"]
          /\ attempt' = [attempt EXCEPT ![k] = @ + 1]
          /\ UNCHANGED verdict
     ELSE /\ cpc' = [cpc EXCEPT ![k] = "decided"]
          /\ verdict' = [verdict EXCEPT ![k] = "failed"]
          /\ UNCHANGED attempt
  /\ UNCHANGED <<runVars, celeryId, overdue, dVars, jVars, uVars, bpc,
                 announced, faults>>

\* (faulty: completed_at is not stamped)
CFinaliseUnstamped(k) ==
  /\ cpc[k] = "decided"
  /\ status' = verdict[k]
  /\ cpc' = [cpc EXCEPT ![k] = "announce"]
  /\ UNCHANGED <<completedAt, age, stored, idle, rowVars, dVars, jVars, attempt,
                 verdict, uVars, bpc, announced, faults>>

\* set_run_status(verdict, completed_at=True), whatever the status is by now.
CFinalise(k) ==
  /\ cpc[k] = "decided"
  /\ status' = verdict[k] /\ completedAt' = TRUE
  /\ cpc' = [cpc EXCEPT ![k] = "announce"]
  /\ UNCHANGED <<age, stored, idle, rowVars, dVars, jVars, attempt, verdict,
                 uVars, bpc, announced, faults>>

\* publish_run_complete.
CAnnounce(k) ==
  /\ cpc[k] = "announce"
  /\ announced' = announced \cup {verdict[k]}
  /\ cpc' = [cpc EXCEPT ![k] = "none"]
  /\ UNCHANGED <<runVars, rowVars, dVars, jVars, attempt, verdict, uVars, bpc,
                 faults>>

\* A database error in the poll re-schedules it, or ends the chain.
CError(k) ==
  /\ cpc[k] \in {"scheduled", "polled", "decided"} /\ Fault
  /\ IF attempt[k] < CheckLimit
     THEN /\ cpc' = [cpc EXCEPT ![k] = "scheduled"]
          /\ attempt' = [attempt EXCEPT ![k] = @ + 1]
     ELSE cpc' = [cpc EXCEPT ![k] = "none"] /\ UNCHANGED attempt
  /\ UNCHANGED <<runVars, rowVars, dVars, jVars, verdict, uVars, bpc, announced>>

CCrash(k) ==
  /\ cpc[k] \in {"polled", "decided", "announce"} /\ Fault
  /\ cpc' = [cpc EXCEPT ![k] = "scheduled"]
  /\ UNCHANGED <<runVars, rowVars, dVars, jVars, attempt, verdict, uVars, bpc,
                 announced>>

Checker(k) == CPoll(k) \/ CDecide(k) \/ CWait(k) \/ CFinalise(k) \/ CAnnounce(k)
CheckerFault(k) == CError(k) \/ CCrash(k)

-----------------------------------------------------------------------------
(* The cancel endpoint *)

\* _get_run_or_404 and the 409 guard.
UCheck ==
  /\ upc = "idle" /\ cancels < MaxCancels
  /\ status \notin Terminal
  /\ upc' = "checked" /\ cancels' = cancels + 1
  /\ UNCHANGED <<runVars, rowVars, dVars, jVars, cVars, bpc, announced, faults>>

Revocable(j) == job[j] \in {"queued", "collecting", "inserting", "reported"}

\* Commit: the run and its open rows are cancelled, the recorded jobs revoked.
UCommit ==
  /\ upc = "checked"
  /\ status' = "cancelled" /\ completedAt' = TRUE
  /\ row' = Closed("cancelled")
  /\ job' = [j \in Jobs |->
               IF Revocable(j) /\ celeryId[j.arena] = j THEN "gone" ELSE job[j]]
  /\ upc' = "committed"
  /\ UNCHANGED <<age, stored, idle, celeryId, overdue, dVars, jretries, late,
                 cVars, cancels, bpc, announced, faults>>

\* The revocation raises; it is logged and the commit goes on.
UCommitUnrevoked ==
  /\ upc = "checked" /\ Fault
  /\ status' = "cancelled" /\ completedAt' = TRUE
  /\ row' = Closed("cancelled")
  /\ upc' = "committed"
  /\ UNCHANGED <<age, stored, idle, celeryId, overdue, dVars, jVars, cVars,
                 cancels, bpc, announced>>

\* The event says failed.
UAnnounce ==
  /\ upc = "committed"
  /\ announced' = announced \cup {"failed"}
  /\ upc' = "idle"
  /\ UNCHANGED <<runVars, rowVars, dVars, jVars, cVars, cancels, bpc,
                 faults>>

Cancel == UCheck \/ UCommit \/ UCommitUnrevoked \/ UAnnounce

-----------------------------------------------------------------------------
(* Beat: cleanup_stale_runs *)

\* (faulty: only pending runs are looked for)
StalePending ==
  /\ status = "pending" /\ age # "none"
  /\ age = "day" \/ idle

\* fetch_stale_runs: started, not ended, and either older than a day or idle.
Stale ==
  /\ status \in {"pending", "running"} /\ age # "none"
  /\ age = "day" \/ idle

BFetch ==
  /\ bpc = "idle" /\ Stale
  /\ bpc' = "fetched"
  /\ UNCHANGED <<runVars, rowVars, dVars, jVars, cVars, uVars, announced, faults>>

\* (faulty: the run is failed without the run_complete event)
BFailSilently ==
  /\ bpc = "fetched"
  /\ status' = "failed"
  /\ row' = Closed("failed")
  /\ bpc' = "idle"
  /\ UNCHANGED <<completedAt, age, stored, idle, celeryId, overdue, dVars,
                 jVars, cVars, uVars, announced, faults>>

\* mark_runs_failed: by id, without looking at the status again, and without
\* completed_at.
BFail ==
  /\ bpc = "fetched"
  /\ status' = "failed"
  /\ row' = Closed("failed")
  /\ bpc' = "announce"
  /\ UNCHANGED <<completedAt, age, stored, idle, celeryId, overdue, dVars,
                 jVars, cVars, uVars, announced, faults>>

BAnnounce ==
  /\ bpc = "announce"
  /\ announced' = announced \cup {"failed"}
  /\ bpc' = "idle"
  /\ UNCHANGED <<runVars, rowVars, dVars, jVars, cVars, uVars, faults>>

\* The worker is lost; the redelivered task starts over.
BCrash ==
  /\ bpc \in {"fetched", "announce"} /\ Fault
  /\ bpc' = "idle"
  /\ UNCHANGED <<runVars, rowVars, dVars, jVars, cVars, uVars, announced>>

Cleanup == BFetch \/ BFail \/ BAnnounce

-----------------------------------------------------------------------------
(* Time *)

GrowOlder ==
  /\ age \in {"fresh", "minutes"}
  /\ age' = IF age = "fresh" THEN "minutes" ELSE "day"
  /\ UNCHANGED <<status, completedAt, stored, idle, rowVars, dVars, jVars,
                 cVars, uVars, bpc, announced, faults>>

\* 30 minutes without a record: since the last record, or, if there is none,
\* since the start.
GoIdle ==
  /\ ~idle /\ (stored \/ age \in {"minutes", "day"})
  /\ idle' = TRUE
  /\ UNCHANGED <<status, completedAt, age, stored, rowVars, dVars, jVars,
                 cVars, uVars, bpc, announced, faults>>

\* started_at of a task row is written once, so it stays overdue.
GoOverdue(a) ==
  /\ "running" \in row[a] /\ a \notin overdue /\ age \in {"minutes", "day"}
  /\ overdue' = overdue \cup {a}
  /\ UNCHANGED <<runVars, row, celeryId, dVars, jVars, cVars, uVars, bpc,
                 announced, faults>>

Clock == GrowOlder \/ GoIdle \/ \E a \in Arenas : GoOverdue(a)

-----------------------------------------------------------------------------

Next ==
  \/ Dispatcher
  \/ \E j \in Jobs : ArenaJob(j)
  \/ \E k \in Copies : Checker(k) \/ CheckerFault(k)
  \/ Cancel
  \/ Cleanup \/ BCrash
  \/ Clock

Spec == Init /\ [][Next]_vars

-----------------------------------------------------------------------------
(* Fairness: live workers consume their queues, beat fires every day, an    *)
(* accepted HTTP request runs to its end, and time passes.  The arena jobs   *)
(* get none: a job may sit in the queue or collect for as long as it likes.  *)

Fairness ==
  /\ WF_vars(Dispatcher)
  /\ \A k \in Copies : WF_vars(Checker(k))
  /\ WF_vars(UCommit \/ UAnnounce)
  /\ WF_vars(Cleanup)
  /\ WF_vars(GrowOlder)

FairSpec == Spec /\ Fairness

-----------------------------------------------------------------------------
(* Properties *)

RunOK ==
  /\ status \in {"pending", "running"} \cup Terminal
  /\ completedAt \in BOOLEAN /\ stored \in BOOLEAN /\ idle \in BOOLEAN
  /\ age \in {"none", "fresh", "minutes", "day"}

RowsOK ==
  /\ row \in [Arenas -> SUBSET TaskStatus]
  /\ celeryId \in [Arenas -> Jobs \cup {NoJob}]
  /\ overdue \subseteq Arenas

DispatcherOK ==
  /\ dpc \in {"unsent", "lost", "queued", "started", "marking", "announce",
              "sending", "scheduling", "done"}
  /\ dcopy \in Copies /\ dretries \in 0 .. DispatchRetries
  /\ tomark \subseteq Arenas /\ tosend \subseteq Jobs

JobsOK ==
  /\ job \in [Jobs -> {"unsent", "queued", "collecting", "inserting",
                       "reported", "gone"}]
  /\ jretries \in [Jobs -> 0 .. JobRetries]
  /\ late \in [Jobs -> Nat]

CheckersOK ==
  /\ cpc \in [Copies -> {"none", "scheduled", "polled", "decided", "announce"}]
  /\ attempt \in [Copies -> Nat]
  /\ verdict \in [Copies -> {"none", "completed", "failed"}]

OthersOK ==
  /\ upc \in {"idle", "checked", "committed"} /\ cancels \in 0 .. MaxCancels
  /\ bpc \in {"idle", "fetched", "announce"}
  /\ announced \subseteq {"completed", "failed"}
  /\ faults \in 0 .. MaxFaults

\* No writer leaves the range of a column, a queue or a counter; the retry
\* and fault counters stay within their limits.
TypeOK == RunOK /\ RowsOK /\ DispatcherOK /\ JobsOK /\ CheckersOK /\ OthersOK

\* The run row keeps the promise of RunStatus, whoever overwrites whom.
RunRow == INSTANCE RunStatus
RunRowSpec == RunRow!Spec

\* A task row the user cancelled is never brought back by a job that still
\* runs (the guard status != 'cancelled' of every job-side update); only a
\* dispatcher that has not finished marking may still fail it.
CancelledRowsStayClosed ==
  [][\A a \in Arenas : row[a] = {"cancelled"} =>
        row[a]' \cap {"running", "completed"} = {}]_vars

\* A job that misses the revocation stores at most the batch it has already
\* begun: one per cancel request, plus one per database error that makes
\* is_run_cancelled fail open.
LateBatchesBounded == \A j \in Jobs : late[j] <= cancels + faults

\* No run that was ever started stays open: whatever is lost on the way, the
\* checker, the user or the cleanup ends it, and it stays ended.
StartedRunsEnd == <>[](age = "none" \/ status \in Terminal)

\* Every end is published as a run_complete event of its own kind for the SSE
\* clients (a cancellation is published as failed), also when several processes
\* race to end the run: a run that was failed and then completed announces both.
\* A fault may swallow an event: publishing is best effort.
EndsAreAnnounced ==
  /\ (status = "completed") ~> ("completed" \in announced \/ faults > 0)
  /\ (status \in {"failed", "cancelled"}) ~> ("failed" \in announced \/ faults > 0)

-----------------------------------------------------------------------------
(* Statements of the repository that the code does not keep *)

\* The status progression documented on CollectionRun has no edge from a
\* terminal status back to running.
EndedRunsDoNotRestart == [][(status \in Terminal) => status' # "running"]_vars

\* create_collection_run: if the dispatch message cannot be sent, "the
\* stale_run_cleanup task will eventually mark it as failed".
UndispatchedRunsFail == dpc = "lost" ~> status \in Terminal

\* check_batch_completion: "Check whether all arena tasks for a batch run
\* have finished": a decided checker has seen the end of every job whose row
\* reports its own progress.
DecisionsWaitForJobs ==
  \A k \in Copies : cpc[k] = "decided" /\ verdict[k] = "completed" =>
     \A j \in Jobs : ~Executing(j)

=============================================================================
