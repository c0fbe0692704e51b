------------------------------- MODULE Comments --------------------------------
(***************************************************************************)
(* Comment collection for one platform of a project (facebook, instagram): *)
(*                                                                         *)
(*   P  the post jobs of the project's runs                                *)
(*   K  check_batch_completion of each run, which asks for comments         *)
(*   T  trigger_comment_collection, one message per worker at a time        *)
(*   J  the collect_comments jobs, paid for post by post                    *)
(*                                                                         *)
(* Of a run's other arenas it only matters that they may keep it open.      *)
(* The runs are neither cancelled nor found stale, and their checkers are    *)
(* not given up after the last attempt (see BatchRun); the platform is       *)
(* configured with the mode search_terms or source_list_actors.              *)
(* The rows of one (run, arena) are told apart by their status only, since  *)
(* every statement addresses them by run, arena and status.                  *)
(***************************************************************************)
EXTENDS Integers, FiniteSets

CONSTANTS
  CommentRuns,      \* runs of the project
  ParentPosts,      \* posts of the platform with enough comments to ask for
  Triggers,         \* workers that run trigger_comment_collection
  MaxJobs,          \* bound: collect_comments jobs
  MaxAsks,          \* bound: queued trigger messages of a run
  MaxCommentFaults  \* bound: sweeps, rate limits, errors, lost processes

ASSUME CommentAssumption ==
  /\ IsFiniteSet(CommentRuns) /\ IsFiniteSet(ParentPosts) /\ IsFiniteSet(Triggers)
  /\ MaxJobs \in Nat /\ MaxAsks \in Nat /\ MaxCommentFaults \in Nat

CommentJobs == 1 .. MaxJobs
NoRunYet == "no run"

VARIABLES
  kstatus,         \* run -> CollectionRun.status
  postTask,        \* run -> its post task: "open", or how it ended
  commentRows,     \* run -> the statuses of its {platform}_comments rows
  found,           \* posts in content_records
  commented,       \* posts with a comment in content_records
  attempted,       \* posts with a valid post_url attempt
  kpc,             \* run -> step of its checker
  wants,           \* run -> result of the readiness check: "ready" or "not",
                   \*   or "unknown" if it raised
  asks,            \* run -> trigger messages in the queue
  tried,           \* runs that have sent one, or have failed to (history)
  overturned,      \* runs completed after they had failed (history)
  tpc, trun,       \* trigger -> step, run
  tposts,          \* trigger -> the posts it fetched
  jpc, jrun,       \* job -> step, run
  jposts,          \* job -> the posts of its message
  paid,            \* post -> submissions (history)
  commentFaults

postVars == <<postTask, found>>
checkVars == <<kstatus, kpc, wants, tried, overturned>>
triggerVars == <<tpc, trun, tposts>>
cjobVars == <<jpc, jrun, jposts>>
commentVars == <<postVars, checkVars, commentRows, commented, attempted, asks,
                 triggerVars, cjobVars, paid, commentFaults>>

InProgress == {"pending", "running"}
RowStates == InProgress \cup {"completed", "failed"}

CommentTypeOK ==
  /\ kstatus \in [CommentRuns -> {"running", "completed", "failed"}]
  /\ postTask \in [CommentRuns -> {"open", "completed", "failed"}]
  /\ commentRows \in [CommentRuns -> SUBSET RowStates]
  /\ found \subseteq ParentPosts /\ commented \subseteq found /\ attempted \subseteq found
  /\ kpc \in [CommentRuns -> {"waiting", "early", "counted", "checked", "ended", "over"}]
  /\ wants \in [CommentRuns -> {"ready", "not", "unknown"}]
  /\ asks \in [CommentRuns -> Nat]
  /\ tried \subseteq CommentRuns /\ overturned \subseteq CommentRuns
  /\ tpc \in [Triggers -> {"idle", "look", "insert", "send"}]
  /\ trun \in [Triggers -> CommentRuns \cup {NoRunYet}]
  /\ tposts \in [Triggers -> SUBSET found]
  /\ jpc \in [CommentJobs -> {"unsent", "queued", "paying", "record", "report", "gone"}]
  /\ jrun \in [CommentJobs -> CommentRuns \cup {NoRunYet}]
  /\ jposts \in [CommentJobs -> SUBSET found]
  /\ paid \in [ParentPosts -> Nat] /\ commentFaults \in 0 .. MaxCommentFaults

CommentInit ==
  /\ kstatus = [r \in CommentRuns |-> "running"]
  /\ postTask = [r \in CommentRuns |-> "open"]
  /\ commentRows = [r \in CommentRuns |-> {}]
  /\ found = {} /\ commented = {} /\ attempted = {}
  /\ kpc = [r \in CommentRuns |-> "waiting"] /\ wants = [r \in CommentRuns |-> "not"]
  /\ asks = [r \in CommentRuns |-> 0] /\ tried = {} /\ overturned = {}
  /\ tpc = [t \in Triggers |-> "idle"] /\ trun = [t \in Triggers |-> NoRunYet]
  /\ tposts = [t \in Triggers |-> {}]
  /\ jpc = [j \in CommentJobs |-> "unsent"] /\ jrun = [j \in CommentJobs |-> NoRunYet]
  /\ jposts = [j \in CommentJobs |-> {}]
  /\ paid = [p \in ParentPosts |-> 0] /\ commentFaults = 0

CommentFault ==
  commentFaults < MaxCommentFaults /\ commentFaults' = commentFaults + 1

-----------------------------------------------------------------------------
(* The post jobs *)

PStore(r, p) ==
  /\ postTask[r] = "open" /\ p \notin found
  /\ found' = found \cup {p}
  /\ UNCHANGED <<postTask, checkVars, commentRows, commented, attempted, asks,
                 triggerVars, cjobVars, paid, commentFaults>>

PEnd(r, s) ==
  /\ postTask[r] = "open"
  /\ postTask' = [postTask EXCEPT ![r] = s]
  /\ UNCHANGED <<found, checkVars, commentRows, commented, attempted, asks,
                 triggerVars, cjobVars, paid, commentFaults>>

-----------------------------------------------------------------------------
(* The completion checker *)

\* check_all_tasks_terminal counts the open rows, comment rows included, and
\* there is none.
KCount(r) ==
  /\ kpc[r] = "waiting"
  /\ postTask[r] # "open" /\ commentRows[r] \cap InProgress = {}
  /\ kpc' = [kpc EXCEPT ![r] = "counted"]
  /\ UNCHANGED <<postVars, kstatus, wants, tried, overturned, commentRows, commented, attempted,
                 asks, triggerVars, cjobVars, paid, commentFaults>>

\* The sweep before the count fails rows that are pending although the run
\* started two minutes ago, or running for 90 minutes.
KSweep(r, s) ==
  /\ kpc[r] = "waiting" /\ s \in InProgress \cap commentRows[r] /\ CommentFault
  /\ commentRows' = [commentRows EXCEPT ![r] = (@ \ {s}) \cup {"failed"}]
  /\ UNCHANGED <<postVars, checkVars, commented, attempted, asks, triggerVars,
                 cjobVars, paid>>

\* check_comment_ready_platforms: the posts are there, and the run has no
\* comment row yet.  It is skipped for a run that is failed.
Ready(r) == kstatus[r] # "failed" /\ postTask[r] # "open" /\ commentRows[r] = {}

\* A poll that counts open rows (of another arena, or by now closed) asks for
\* the platform if it is ready.  If it is not, or if the check raises, the poll
\* has no effect.
KEarly(r) ==
  /\ kpc[r] = "waiting" /\ Ready(r)
  /\ kpc' = [kpc EXCEPT ![r] = "early"]
  /\ UNCHANGED <<postVars, kstatus, wants, tried, overturned, commentRows, commented, attempted,
                 asks, triggerVars, cjobVars, paid, commentFaults>>

Checked(r, w) == kpc' = [kpc EXCEPT ![r] = "checked"] /\ wants' = [wants EXCEPT ![r] = w]

\* The same check in the poll that is going to end the run.
KCheck(r) ==
  /\ kpc[r] = "counted"
  /\ Checked(r, IF Ready(r) THEN "ready" ELSE "not")
  /\ UNCHANGED <<postVars, kstatus, tried, overturned, commentRows, commented, attempted, asks,
                 triggerVars, cjobVars, paid, commentFaults>>

\* (faulty: a check that raised is not told from one that found nothing)
KCheckLostQuietly(r) ==
  /\ kpc[r] = "counted" /\ CommentFault
  /\ Checked(r, "not")
  /\ UNCHANGED <<postVars, kstatus, tried, overturned, commentRows, commented, attempted, asks,
                 triggerVars, cjobVars, paid>>

\* The check raises, which is remembered.
KCheckLost(r) ==
  /\ kpc[r] = "counted" /\ CommentFault
  /\ Checked(r, "unknown")
  /\ UNCHANGED <<postVars, kstatus, tried, overturned, commentRows, commented, attempted, asks,
                 triggerVars, cjobVars, paid>>

\* set_run_status: the run ends; it is failed only if none of its rows
\* completed.  What it wants has not been asked for yet.
KEnd(r) ==
  /\ kpc[r] = "checked"
  /\ kpc' = [kpc EXCEPT ![r] = "ended"]
  /\ \E s \in {"completed", "failed"} :
       /\ s = "failed" => "completed" \notin commentRows[r] \cup {postTask[r]}
       /\ kstatus' = [kstatus EXCEPT ![r] = s]
       /\ overturned' = IF kstatus[r] = "failed" /\ s = "completed"
                        THEN overturned \cup {r} ELSE overturned
  /\ UNCHANGED <<postVars, wants, tried, commentRows, commented, attempted, asks, triggerVars,
                 cjobVars, paid, commentFaults>>

\* The platform is ready, or the run is completed and nobody knows.
ToBeAsked(r) ==
  \/ kpc[r] = "early"
  \/ kpc[r] = "ended" /\ wants[r] = "ready"
  \/ kpc[r] = "ended" /\ wants[r] = "unknown" /\ kstatus[r] = "completed"

\* The checker is sent again, or was the last one.
Polled(r) ==
  /\ kpc' = [kpc EXCEPT ![r] = IF kpc[r] = "early" THEN "waiting" ELSE "over"]
  /\ wants' = [wants EXCEPT ![r] = "not"]

\* trigger_comment_collection is sent.
KAsk(r) ==
  /\ ToBeAsked(r) /\ asks[r] < MaxAsks
  /\ asks' = [asks EXCEPT ![r] = @ + 1] /\ tried' = tried \cup {r}
  /\ Polled(r)
  /\ UNCHANGED <<postVars, kstatus, overturned, commentRows, commented, attempted, triggerVars,
                 cjobVars, paid, commentFaults>>

\* delay raises: logged.
KAskLost(r) ==
  /\ ToBeAsked(r) /\ CommentFault
  /\ tried' = tried \cup {r}
  /\ Polled(r)
  /\ UNCHANGED <<postVars, kstatus, overturned, commentRows, commented, attempted, asks,
                 triggerVars, cjobVars, paid>>

\* Nothing is asked for.
KAskNot(r) ==
  /\ kpc[r] = "ended" /\ ~ToBeAsked(r)
  /\ Polled(r)
  /\ UNCHANGED <<postVars, kstatus, overturned, tried, commentRows, commented, attempted, asks,
                 triggerVars, cjobVars, paid, commentFaults>>

\* The worker is lost and the message delivered again; or the database raises
\* before the end is committed, and the checker is sent again.
KLost(r) ==
  /\ kpc[r] \in {"early", "counted", "checked", "ended"} /\ CommentFault
  /\ kpc' = [kpc EXCEPT ![r] = "waiting"] /\ wants' = [wants EXCEPT ![r] = "not"]
  /\ UNCHANGED <<postVars, kstatus, tried, overturned, commentRows, commented, attempted, asks,
                 triggerVars, cjobVars, paid>>

-----------------------------------------------------------------------------
(* trigger_comment_collection *)

TQuit(t) ==
  /\ tpc' = [tpc EXCEPT ![t] = "idle"] /\ trun' = [trun EXCEPT ![t] = NoRunYet]
  /\ tposts' = [tposts EXCEPT ![t] = {}]

\* fetch_posts_for_comment_collection: the posts of all runs that have no
\* comments and were not submitted before.
Wanted == found \ (commented \cup attempted)

\* A message is taken and the posts are read; without any it is done with.
TFetch(t, r) ==
  /\ tpc[t] = "idle" /\ asks[r] > 0
  /\ asks' = [asks EXCEPT ![r] = @ - 1]
  /\ IF Wanted = {}
     THEN UNCHANGED triggerVars
     ELSE /\ trun' = [trun EXCEPT ![t] = r] /\ tposts' = [tposts EXCEPT ![t] = Wanted]
          /\ tpc' = [tpc EXCEPT ![t] = "look"]
  /\ UNCHANGED <<postVars, checkVars, commentRows, commented, attempted, cjobVars, paid,
                 commentFaults>>

SomeInFlight == \E r \in CommentRuns : commentRows[r] \cap InProgress # {}

\* (faulty: only the rows of the run itself are looked at)
TLookOwnRun(t) ==
  /\ tpc[t] = "look"
  /\ IF commentRows[trun[t]] \cap InProgress # {}
     THEN TQuit(t)
     ELSE tpc' = [tpc EXCEPT ![t] = "insert"] /\ UNCHANGED <<trun, tposts>>
  /\ UNCHANGED <<postVars, checkVars, commentRows, commented, attempted, asks, cjobVars,
                 paid, commentFaults>>

\* A comment task in flight in any run of the project.
TLook(t) ==
  /\ tpc[t] = "look"
  /\ IF SomeInFlight
     THEN TQuit(t)
     ELSE tpc' = [tpc EXCEPT ![t] = "insert"] /\ UNCHANGED <<trun, tposts>>
  /\ UNCHANGED <<postVars, checkVars, commentRows, commented, attempted, asks, cjobVars,
                 paid, commentFaults>>

TInsert(t) ==
  /\ tpc[t] = "insert"
  /\ commentRows' = [commentRows EXCEPT ![trun[t]] = @ \cup {"pending"}]
  /\ tpc' = [tpc EXCEPT ![t] = "send"]
  /\ UNCHANGED <<postVars, checkVars, commented, attempted, asks, trun, tposts,
                 cjobVars, paid, commentFaults>>

\* Look or insert fail: logged, and the job is sent without a row.
TRowLost(t) ==
  /\ tpc[t] \in {"look", "insert"} /\ CommentFault
  /\ tpc' = [tpc EXCEPT ![t] = "send"]
  /\ UNCHANGED <<postVars, checkVars, commentRows, commented, attempted, asks, trun,
                 tposts, cjobVars, paid>>

\* A fresh message.
TSend(t, j) ==
  /\ tpc[t] = "send" /\ jpc[j] = "unsent" /\ \A i \in CommentJobs : i < j => jpc[i] # "unsent"
  /\ jpc' = [jpc EXCEPT ![j] = "queued"]
  /\ jrun' = [jrun EXCEPT ![j] = trun[t]] /\ jposts' = [jposts EXCEPT ![j] = tposts[t]]
  /\ TQuit(t)
  /\ UNCHANGED <<postVars, checkVars, commentRows, commented, attempted, asks, paid,
                 commentFaults>>

\* The send raises, the worker is lost and the message delivered again, or the
\* posts cannot be fetched.
TLost(t) ==
  /\ CommentFault
  /\ \/ tpc[t] = "send" /\ TQuit(t) /\ UNCHANGED asks
     \/ tpc[t] # "idle" /\ TQuit(t) /\ asks' = [asks EXCEPT ![trun[t]] = @ + 1]
     \/ /\ tpc[t] = "idle" /\ UNCHANGED triggerVars
        /\ \E r \in CommentRuns : asks[r] > 0 /\ asks' = [asks EXCEPT ![r] = @ - 1]
  /\ UNCHANGED <<postVars, checkVars, commentRows, commented, attempted, cjobVars, paid>>

-----------------------------------------------------------------------------
(* collect_comments *)

\* _update_task_status: every row of the run.
Reported(r, s) == [commentRows EXCEPT ![r] = {s : x \in @}]

JBegin(j) ==
  /\ jpc[j] = "queued"
  /\ jpc' = [jpc EXCEPT ![j] = "paying"]
  /\ commentRows' = Reported(jrun[j], "running")
  /\ UNCHANGED <<postVars, checkVars, commented, attempted, asks, triggerVars, jrun, jposts,
                 paid, commentFaults>>

\* (faulty: posts for which no comment comes back are submitted again)
JCollectInsisting(j) ==
  /\ jpc[j] = "paying"
  /\ paid' = [p \in ParentPosts |-> IF p \in jposts[j] THEN paid[p] + 1 ELSE paid[p]]
  /\ \E some \in SUBSET jposts[j] : commented' = commented \cup some
  /\ jpc' = [jpc EXCEPT ![j] = IF jposts[j] \subseteq commented' THEN "record" ELSE "paying"]
  /\ UNCHANGED <<postVars, checkVars, commentRows, attempted, asks, triggerVars, jrun, jposts,
                 commentFaults>>

\* The posts are submitted; some have comments, which are stored.
JCollect(j) ==
  /\ jpc[j] = "paying"
  /\ paid' = [p \in ParentPosts |-> IF p \in jposts[j] THEN paid[p] + 1 ELSE paid[p]]
  /\ \E some \in SUBSET jposts[j] : commented' = commented \cup some
  /\ jpc' = [jpc EXCEPT ![j] = "record"]
  /\ UNCHANGED <<postVars, checkVars, commentRows, attempted, asks, triggerVars, jrun, jposts,
                 commentFaults>>

JRecord(j) ==
  /\ jpc[j] = "record"
  /\ attempted' = attempted \cup jposts[j]
  /\ jpc' = [jpc EXCEPT ![j] = "report"]
  /\ UNCHANGED <<postVars, checkVars, commentRows, commented, asks, triggerVars, jrun, jposts,
                 paid, commentFaults>>

\* (faulty: the status goes to the rows of the post task)
JCompleteElsewhere(j) ==
  /\ jpc[j] = "report"
  /\ jpc' = [jpc EXCEPT ![j] = "gone"]
  /\ UNCHANGED <<postVars, checkVars, commentRows, commented, attempted, asks, triggerVars,
                 jrun, jposts, paid, commentFaults>>

JComplete(j) ==
  /\ jpc[j] = "report"
  /\ jpc' = [jpc EXCEPT ![j] = "gone"]
  /\ commentRows' = Reported(jrun[j], "completed")
  /\ UNCHANGED <<postVars, checkVars, commented, attempted, asks, triggerVars, jrun, jposts,
                 paid, commentFaults>>

\* An error before, during or after the collection.
JFail(j) ==
  /\ jpc[j] \in {"paying", "record", "report"} /\ CommentFault
  /\ jpc' = [jpc EXCEPT ![j] = "gone"]
  /\ commentRows' = Reported(jrun[j], "failed")
  /\ UNCHANGED <<postVars, checkVars, commented, attempted, asks, triggerVars, jrun, jposts, paid>>

\* A write of the status or of the attempts fails: logged.
JWriteLost(j) ==
  /\ CommentFault
  /\ \/ jpc[j] = "queued" /\ jpc' = [jpc EXCEPT ![j] = "paying"]
     \/ jpc[j] = "record" /\ jpc' = [jpc EXCEPT ![j] = "report"]
     \/ jpc[j] = "report" /\ jpc' = [jpc EXCEPT ![j] = "gone"]
  /\ UNCHANGED <<postVars, checkVars, commentRows, commented, attempted, asks, triggerVars,
                 jrun, jposts, paid>>

\* A rate limit: tried again, or, the last time, given up without a status.  A
\* lost worker: the message is delivered again.
JInterrupted(j) ==
  /\ jpc[j] \in {"paying", "record", "report"} /\ CommentFault
  /\ \/ jpc' = [jpc EXCEPT ![j] = "queued"]
     \/ jpc[j] = "paying" /\ jpc' = [jpc EXCEPT ![j] = "gone"]
  /\ UNCHANGED <<postVars, checkVars, commentRows, commented, attempted, asks, triggerVars,
                 jrun, jposts, paid>>

-----------------------------------------------------------------------------

RunChecker(r) ==
  \/ KEarly(r) \/ KCount(r) \/ KCheck(r) \/ KCheckLost(r) \/ KEnd(r)
  \/ KAsk(r) \/ KAskLost(r) \/ KAskNot(r) \/ KLost(r)
  \/ \E s \in InProgress : KSweep(r, s)
Trigger(t) ==
  \/ TLook(t) \/ TInsert(t)
  \/ \E r \in CommentRuns : TFetch(t, r)
  \/ \E j \in CommentJobs : TSend(t, j)
CommentJob(j) == JBegin(j) \/ JCollect(j) \/ JRecord(j) \/ JComplete(j)
CommentJobFault(j) == JFail(j) \/ JWriteLost(j) \/ JInterrupted(j)

CommentNext ==
  \/ \E r \in CommentRuns :
       \/ RunChecker(r)
       \/ \E p \in ParentPosts : PStore(r, p)
       \/ \E s \in {"completed", "failed"} : PEnd(r, s)
  \/ \E t \in Triggers : Trigger(t) \/ TRowLost(t) \/ TLost(t)
  \/ \E j \in CommentJobs : CommentJob(j) \/ CommentJobFault(j)

CommentSpec == CommentInit /\ [][CommentNext]_commentVars

-----------------------------------------------------------------------------
(* Properties *)

\* "prevents concurrent duplicate dispatch": while triggers run one at a time
\* and nothing fails, at most one job of the platform is under way in the
\* whole project.  Two triggers may both look before either inserts; then two
\* jobs report on the same rows, and the first to end hides the other.
OneCommentJob ==
  Cardinality(Triggers) <= 1 /\ commentFaults = 0 =>
    Cardinality({j \in CommentJobs : jpc[j] \notin {"unsent", "gone"}}) <= 1

\* Under the same conditions a post is paid for at most twice: by the job that
\* recorded it as submitted, and by one that the trigger sent for the posts it
\* had read before.  A post without comments is not submitted run after run.
PaidTwiceAtMost ==
  Cardinality(Triggers) <= 1 /\ commentFaults = 0 => \A p \in ParentPosts : paid[p] <= 2

\* A run is completed before its checker asks for the comments of its posts;
\* still, no run is left completed without having asked: while it has not, its
\* checker is under way, and comes back when its worker is lost in between,
\* also if the readiness check raised ("Safety-net").  Excepted is a run that a
\* recount completes after it had failed, because a late job has overwritten
\* its row: the check is skipped for it.
CompletedRunsAsk ==
  \A r \in CommentRuns \ overturned : kstatus[r] = "completed" => r \in tried \/ kpc[r] # "over"

\* As long as nothing fails, comment collection never gets stuck on a row in
\* flight.
CommentRowsClear == []<>(~SomeInFlight)

=============================================================================
