------------------------------ MODULE ScrapingJob ------------------------------
(***************************************************************************)
(* A scraping job: the row scraping_jobs, the task that scrapes, and the     *)
(* tasks that cancel it.  The scraping task takes the row to "running"        *)
(* whatever it says, and stores its own id there; a cancelling task revokes    *)
(* whatever id it finds.  Pages are RecordText's; here scraping is one step.  *)
(***************************************************************************)
EXTENDS Naturals

CONSTANTS
  Cancels,          \* requests to cancel the job
  MaxScrapeFaults

ASSUME ScrapeAssumption == MaxScrapeFaults \in Nat

VARIABLES
  jobStatus,        \* status, or "none" where there is no row
  taskKnown,        \* celery_task_id is set
  spc,              \* the scraping task -> step
  revoked,          \* the task is revoked: workers end it, or drop its message
  xpc,              \* request -> step
  cpc,              \* request -> step of the cancelling task it sends
  scrapeFaults

scrapeVars == <<jobStatus, taskKnown, spc, revoked, xpc, cpc, scrapeFaults>>

JobEnded == {"completed", "failed", "cancelled"}

ScrapeTypeOK ==
  /\ jobStatus \in {"none", "pending", "running"} \cup JobEnded
  /\ taskKnown \in BOOLEAN /\ revoked \in BOOLEAN
  /\ spc \in {"unsent", "queued", "loaded", "scraping", "raised", "gone"}
  /\ xpc \in [Cancels -> {"idle", "send", "commit", "done"}]
  /\ cpc \in [Cancels -> {"unsent", "queued", "mark", "done"}]
  /\ scrapeFaults \in 0 .. MaxScrapeFaults

ScrapeInit ==
  /\ jobStatus = "none" /\ taskKnown = FALSE /\ spc = "unsent" /\ revoked = FALSE
  /\ xpc = [x \in Cancels |-> "idle"] /\ cpc = [x \in Cancels |-> "unsent"]
  /\ scrapeFaults = 0

jobCancelVars == <<xpc, cpc>>

ScrapeFault == scrapeFaults < MaxScrapeFaults /\ scrapeFaults' = scrapeFaults + 1

\* An UPDATE of the row, which may have been deleted.
Update(to) == jobStatus' = IF jobStatus = "none" THEN "none" ELSE to

-----------------------------------------------------------------------------
(* POST /scraping-jobs/ *)

\* (faulty: the request chooses the task id and stores it with the row)
SCreateWithId ==
  /\ jobStatus = "none" /\ spc = "unsent"
  /\ jobStatus' = "pending" /\ taskKnown' = TRUE
  /\ spc' = "queued"
  /\ UNCHANGED <<revoked, jobCancelVars, scrapeFaults>>

\* The row is committed and the task sent.
SCreate ==
  /\ jobStatus = "none" /\ spc = "unsent"
  /\ jobStatus' = "pending"
  /\ spc' = "queued"
  /\ UNCHANGED <<taskKnown, revoked, jobCancelVars, scrapeFaults>>

\* The broker is not reached: the row stays.
SCreateUnsent ==
  /\ jobStatus = "none" /\ spc = "unsent" /\ ScrapeFault
  /\ jobStatus' = "pending"
  /\ spc' = "gone"
  /\ UNCHANGED <<taskKnown, revoked, jobCancelVars>>

-----------------------------------------------------------------------------
(* scrape_urls_task *)

\* A worker takes the message; without a row there is nothing to do.
SLoad ==
  /\ spc = "queued" /\ ~revoked
  /\ spc' = IF jobStatus = "none" THEN "gone" ELSE "loaded"
  /\ UNCHANGED <<jobStatus, taskKnown, revoked, jobCancelVars, scrapeFaults>>

SStart ==
  /\ spc = "loaded"
  /\ spc' = "scraping"
  /\ Update("running")
  /\ taskKnown' = (taskKnown \/ jobStatus # "none")
  /\ UNCHANGED <<revoked, jobCancelVars, scrapeFaults>>

\* The pages are fetched, and what is wrong with one is counted.
SComplete ==
  /\ spc = "scraping"
  /\ spc' = "gone"
  /\ Update("completed")
  /\ UNCHANGED <<taskKnown, revoked, jobCancelVars, scrapeFaults>>

\* The list of pages cannot be read; the pages of an extracted-URLs job cannot
\* be marked.
SRaise ==
  /\ spc = "scraping"
  /\ spc' = "raised"
  /\ UNCHANGED <<jobStatus, taskKnown, revoked, jobCancelVars, scrapeFaults>>

\* The row cannot be read.
SLoadFails ==
  /\ spc = "queued" /\ ~revoked /\ ScrapeFault
  /\ spc' = "raised"
  /\ UNCHANGED <<jobStatus, taskKnown, revoked, jobCancelVars>>

SFailed ==
  /\ spc = "raised"
  /\ spc' = "gone"
  /\ Update("failed")
  /\ UNCHANGED <<taskKnown, revoked, jobCancelVars, scrapeFaults>>

\* A revoked task: the process is sent SIGTERM, some time after the revocation,
\* and a message is dropped.
SKilled ==
  /\ revoked /\ spc \in {"queued", "loaded", "scraping", "raised"}
  /\ spc' = "gone"
  /\ UNCHANGED <<jobStatus, taskKnown, revoked, jobCancelVars, scrapeFaults>>

\* A lost worker: the message, not yet acknowledged, is delivered again.  The
\* hard time limit: it is not.  Workers keep revocations in memory.
SLost ==
  /\ spc \in {"loaded", "scraping", "raised"} /\ ScrapeFault
  /\ spc' \in {"queued", "gone"}
  /\ revoked' \in {revoked, FALSE}
  /\ UNCHANGED <<jobStatus, taskKnown, jobCancelVars>>

\* _update_job gives up silently, and its caller goes on.
SUpdateLost ==
  /\ spc \in {"loaded", "scraping", "raised"} /\ ScrapeFault
  /\ spc' = IF spc = "loaded" THEN "scraping" ELSE "gone"
  /\ UNCHANGED <<jobStatus, taskKnown, revoked, jobCancelVars>>

-----------------------------------------------------------------------------
(* POST /scraping-jobs/{id}/cancel, cancel_scraping_job_task *)

XLook(x) ==
  /\ xpc[x] = "idle" /\ jobStatus \in {"pending", "running"}
  /\ xpc' = [xpc EXCEPT ![x] = "send"]
  /\ UNCHANGED <<jobStatus, taskKnown, spc, revoked, cpc, scrapeFaults>>

\* The task is sent before the request's own mark is committed.
XSend(x) ==
  /\ xpc[x] = "send"
  /\ xpc' = [xpc EXCEPT ![x] = "commit"]
  /\ cpc' = [cpc EXCEPT ![x] = "queued"]
  /\ UNCHANGED <<jobStatus, taskKnown, spc, revoked, scrapeFaults>>

XCommit(x) ==
  /\ xpc[x] = "commit"
  /\ xpc' = [xpc EXCEPT ![x] = "done"]
  /\ Update("cancelled")
  /\ UNCHANGED <<taskKnown, spc, revoked, cpc, scrapeFaults>>

\* The cancelling task revokes the id it finds.
KRevoke(x) ==
  /\ cpc[x] = "queued"
  /\ cpc' = [cpc EXCEPT ![x] = "mark"]
  /\ revoked' = (revoked \/ (taskKnown /\ jobStatus # "none"))
  /\ UNCHANGED <<jobStatus, taskKnown, spc, xpc, scrapeFaults>>

\* (faulty: the request has marked the row already)
KMarkNothing(x) ==
  /\ cpc[x] = "mark"
  /\ cpc' = [cpc EXCEPT ![x] = "done"]
  /\ UNCHANGED <<jobStatus, taskKnown, spc, revoked, xpc, scrapeFaults>>

KMark(x) ==
  /\ cpc[x] = "mark"
  /\ cpc' = [cpc EXCEPT ![x] = "done"]
  /\ Update("cancelled")
  /\ UNCHANGED <<taskKnown, spc, revoked, xpc, scrapeFaults>>

\* The broker or the database is not reached: no mark by this request or task.
CancelLost(x) ==
  /\ ScrapeFault
  /\ \/ xpc[x] \in {"send", "commit"} /\ xpc' = [xpc EXCEPT ![x] = "done"] /\ cpc' = cpc
     \/ cpc[x] \in {"queued", "mark"} /\ cpc' = [cpc EXCEPT ![x] = "done"] /\ xpc' = xpc
  /\ UNCHANGED <<jobStatus, taskKnown, spc, revoked>>

\* DELETE /scraping-jobs/{id}: an ended job only.
SDelete ==
  /\ jobStatus \in JobEnded
  /\ jobStatus' = "none"
  /\ UNCHANGED <<taskKnown, spc, revoked, jobCancelVars, scrapeFaults>>

-----------------------------------------------------------------------------

ScrapeTask == SLoad \/ SStart \/ SComplete \/ SFailed \/ SKilled
CancelTask(x) == XSend(x) \/ XCommit(x) \/ KRevoke(x) \/ KMark(x)

ScrapeNext ==
  \/ SCreate \/ SCreateUnsent \/ ScrapeTask \/ SRaise \/ SLoadFails \/ SLost
  \/ SUpdateLost \/ SDelete
  \/ \E x \in Cancels : XLook(x) \/ CancelTask(x) \/ CancelLost(x)

ScrapeSpec == ScrapeInit /\ [][ScrapeNext]_scrapeVars

-----------------------------------------------------------------------------
(* Properties *)

\* As long as nothing is lost, a job that is "running" is one that somebody is
\* still going to end: its task, or the cancelling task that has revoked it.
\* (A job that says it is cancelled may well be scraping: it was cancelled
\* before its task had stored its id, and then says "running" again.)
RunningIsWorkedOn ==
  jobStatus = "running" /\ scrapeFaults = 0 =>
    \/ spc \in {"loaded", "scraping", "raised"} /\ ~revoked
    \/ \E x \in Cancels : cpc[x] = "mark"

\* Under the same conditions every job that was created ends, or is deleted.
JobEnds == []<>(jobStatus \notin {"pending", "running"})

=============================================================================
