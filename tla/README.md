# Issue Observatory in TLA+

Issue Observatory collects public content from some thirty platforms
("arenas"). A user starts a *collection run*; Celery workers collect it; what
is collected is stored, enriched, freed of duplicates and charged to the
user's credits. The parts of the program that are hard to test are not the
collectors, which are I/O behind a common wrapper, but the bookkeeping around
them: database rows and Redis keys that web requests, worker tasks and periodic
tasks read and write concurrently, mostly without locks. That bookkeeping is
what these modules model.

All paths below are relative to `src/src/issue_observatory/`.

## Inventory

| part | state | operations | what makes it hard | modelled |
|---|---|---|---|---|
| **batch orchestration** `workers/tasks.py`, `workers/_task_helpers.py`, `api/routes/collections.py` | one `collection_runs` row, its `collection_tasks` rows, Celery messages | create, dispatch, collect, check for completion, cancel, clean up | five kinds of process write the same rows; retries, redelivery, revocation, time-based sweeps | partly: `BatchRun`, `RunStatus` |
| **credit ledger** `core/credit_service.py`, `settle_pending_credits` | `credit_transactions` (insert only), `credits_spent` | check, reserve, settle, refund | sums read without locks; two commits per settlement; who releases what | partly: `CreditLedger` |
| **launch guard, live tracking** `create_collection_run`, `api/routes/live_tracking.py`, `trigger_daily_collection` | runs of a query design | start, suspend, resume, daily dispatch | check-then-insert, two runs created by one request | partly: `LaunchGuard` |
| **comment collection** `trigger_comment_collection`, `check_comment_ready_platforms` | `*_comments` task rows | early and final triggers, the jobs | check-then-insert, rows that join a count in progress | partly: `Comments` |
| **credential pool** `core/credential_pool.py` | quota counters, cooldowns in Redis, `error_count` | acquire, release, report_error | check and increment apart, lost updates | partly: `CredentialPool` |
| **rate limiter** `workers/rate_limiter.py` | one sorted set per window | check_and_acquire, acquire, wait_for_slot | atomic per window only, rollback across windows, fails open | `RateLimiter` |
| **event stream** `core/event_bus.py`, SSE route | Redis pub/sub | publish, snapshot, subscribe | snapshot before subscription, fire and forget | `EventStream` |
| **attempts and coverage** `core/coverage_checker.py` | `collection_attempts`, content records | check, narrow, record, expire | what counts as covered after a failure, or between two attempts | `Coverage` |
| **persistence, deduplication** `persist_collected_records`, `core/deduplication.py` | content records, links, duplicate marks | insert, link, mark | overlapping jobs and passes, crash between flushes | partly: `Coverage`, `Deduplication` |
| **retention** `core/retention_service.py` | content records | delete what is old | marks refer to what is deleted | partly: a step of `Deduplication` |
| **enrichment** `enrich_collection_run`, `enrich_all_pending` | `raw_metadata.enrichments` | page, enrich, write | OFFSET through a list that shrinks | partly: `Enrichment` |
| **scraper** `scraper/tasks.py`, `scraper/router.py`, `fetch_content` | `scraping_jobs`, `text_content` | create, run, cancel, delete; replace a text | id stored after the start, stale copies written back | partly: `ScrapingJob`, `RecordText` |
| **entity resolution** `core/entity_resolver.py`, `api/routes/actors.py` | actors, aliases, presences | create, merge, split, delete | read, move and delete in a transaction beside others | partly: `Actors` |
| **actor discovery and sampling** `sampling/` | (adds to the library) | auto-create, quick-add | look, then insert | partly: `Actors` |
| **arena collectors** `arenas/*/tasks.py` | (none of their own) | the common task wrapper | retries, time limits | partly: `J` of `BatchRun`, `Coverage` |
| volume alerting, exports, imports, analysis, accounts, web pages and CRUD, notifications | their own tables, or none | queries, forms, parsing, e-mail | sequential, or without protocol state | no |

How they interact: the create request passes the launch guard, inserts the
run, reserves credits and sends the dispatch message; the dispatcher inserts the task
rows, sends the arena jobs and starts a chain of completion checks; jobs and
checks meet only in the task rows. A job asks the coverage check what is left to
collect, takes a credential from the pool, waits for the rate limiter, and stores what
it gets; it publishes its progress for the event stream. The checker asks for
comments on the way. Whoever ends the run stamps `completed_at` (or forgets
to), and the stamp alone decides whether the settlement task charges the run.
Afterwards, passes over duplicates, enrichment, the scraper and the requests of
readers rewrite the records. Cancellation cuts across all of this.

What makes each part correct: a run that started ends, ends once all its work
has ended, and tells its subscribers; cancelling stops the work and nothing
reopens it; a query design has no more runs than requests launched; credits
held never exceed the allocation, every reservation is released or charged,
once; limits and quotas hold, or are exceeded by a known number; what is not
searched for again is stored; of all copies one stays visible; a text once
collected is kept; a merged actor keeps its accounts. Several of these the code keeps only in part;
the properties then say what is left of them, and the section on unexpected behaviours what is not. The hazards are listed
with their lines in PROJECT.json; each names the properties that watch it.

## Modules

| module | models | actions |
|---|---|---|
| `RunStatus` | abstract: what anyone may rely on about a `collection_runs` row | `Begin`, `End`, `Abandon` |
| `BatchRun` | one batch run and every process that writes its rows; implements `RunStatus` (`RunRowSpec`) | `D*` dispatch, `J*` jobs, `C*` checker, `U*` cancel, `B*` cleanup |
| `CreditLedger` | the ledger of one user over several runs; its runs obey `RunStatus` (`RunRowsSpec`) | `Create*`, `Read*`, `Reserve*`, `Settle`, `UpdateSpent`, `Cancel*`, `Run*` |
| `LaunchGuard` | the runs of one query design | `G*` create and start, `B*` batch, `U*` buttons, `D*` daily task |
| `EventStream` | what a page learns of one run | `J*` jobs of an arena, `E*` whoever ends task or run, `V*` viewers |
| `Comments` | comments for one platform of a project | `P*` posts, `K*` checker, `T*` triggers, `J*` jobs |
| `RateLimiter` | windows, cascade with rollback, waiting | `L*` |
| `CredentialPool` | quotas, cooldowns, errors of a pool | `P*` |
| `Coverage` | check, search, buffer, flush, link, record the attempt | `H*` |
| `Deduplication` | passes over duplicates, new records, retention, fetched pages | `D*` |
| `Enrichment` | the nightly task and the task over a run | `N*`, `R*` |
| `RecordText` | who rewrites a record | `F*` fetch_content, `Scrape`, `Add` |
| `ScrapingJob` | the row of a job, its task, its cancellation | `S*`, `X*` requests, `K*` cancelling tasks |
| `Actors` | library of actors with merge and split | `M*` merges, `Create*`, `AddPresence`, `Absorb`, `Split`, ... |
| `MCBatchRun`, `MCCreditLedger` | values of the constants for TLC | |
| `MCControl`, `MCCollect` | eight, and four, components side by side, and their values | |
| `BatchRunProofs`, `CreditLedgerProofs`, `RunControlProofs`, `LimiterPoolProofs`, `CollectProofs`, `RecordsProofs`, `ActorsProofs`, `ControlProofs` | theorems for every value of the constants | |

A step is one transaction, one message, one Redis call or script, or one read whose result is
used later. Where the code does several things that nobody can observe
separately they are one step. Operators marked `(faulty: ...)` are deliberate
mistakes, listed in PROJECT.json as mutants: with one in place of the definition
after it, TLC finds the named property violated. They are not part of any
specification.

**BatchRun.** The columns of the run that decisions depend on (`status`,
`completedAt`, the age class of `started_at`, whether and how recently content
was stored), for each arena the statuses of its task rows and the
`celery_task_id` recorded there, and a program counter per process. The sweep and
the count of `check_all_tasks_terminal` are one transaction, a batch is inserted at
once, and the message of a revoked job is dropped on redelivery. A dispatch
whose worker is lost is redelivered: a new *copy* of everything it sends.
"Announced" means that the publication was attempted.

**CreditLedger.** Status and stamp of each run; the reservations; settlement and
refund rows per (run, platform); `credits_spent`; the progress of requests and
tasks. `get_balance` is three reads, since each select sees what is committed by
then. Each half of `settle`, and each look and refund of a cancellation, is a step.
The settlement always settles the reserved amount, and a run has one
reservation per platform, so `settle`'s refund of a surplus never happens and
is left out.

**LaunchGuard.** Status and mode of each run of a design, and per request what it is about to insert. A create
request may ask for a batch run or a live one. A run set going again after its end is counted among the
`reopened`; live runs that start requests have inserted are remembered as `started`.

**EventStream.** Status of the run and of one task row, which the jobs for terms and for actors share; what each job
has written, or failed to write, and not yet published; the channel of each subscriber, and what each page shows. A job
writes its status over any but `cancelled`, as often as it begins again, also over a row that is completed or was
swept. `astray` remembers that the row went back, or that a publication was late.

**Comments.** Runs, posts stored, rows in flight, triggers between the look and
the insert, jobs that pay post by post and record their attempts. A poll of the checker counts, checks what is ready,
commits the end of the run and only then asks, in steps of their own between which its worker may be lost.
`overturned` are runs that a recount completed after they had failed.

**RateLimiter.** The sorted set of each window, the time a worker has read, which
may have passed when its script runs, and, to state the property,
every request let through (`granted`): entered and not taken back, also if the set was reset since, or gone ahead
because Redis failed.

**CredentialPool.** Per period and credential the counter in Redis, whether it expires, and the true
number of acquisitions; cooldowns; which row was
last used before which (rows never used come first, in any order); per job the order it read and its place in it.

**Coverage.** Records with the terms they carry, links, attempts, and per job the dates asked
for and narrowed to, its buffer, and what the collector has emitted. A post has a text, and the collector passes over
a second post with a text it has emitted, since a hash of the text is all it compares. History variables name what is
excepted from the properties: texts whose insert failed (`dropped`), posts that a check passed over between two attempts
or records (`assumed`), jobs whose look for old records failed (`unlinked`).

**Deduplication.** Per record what it is, when it arrived, its mark; per pass what it
has read and is about to commit; per request to fetch a page the mark it will write back. `cleared` are the records whose
mark was lost in that way.

**Enrichment.** Which record has which enrichment; per task the enricher, offset and page.

**RecordText.** Where the text of a record and its two saved copies come from, and
the row every request has read. **ScrapingJob.** The row, the id it knows, the tasks.
**Actors.** Actors with aliases and presences; per merge what it has read, moved and locked.

## Runs

Bounds are constants named in the cfg. `CHECK_DEADLOCK FALSE` throughout: when
everything has ended and every request is answered, nothing is left to do.

| run | instance | shows |
|---|---|---|
| `batch_faults` | one term arena, one dispatch retry, 1 cancel, 1 fault | late batches bounded, cancelled rows stay closed, the row implements `RunStatus` |
| `batch_live` | the same with two polls, one mishap (cancel or fault), fair | a run that started ends for good; every end is announced as what it is |
| `control_safety` | the eight components of `MCControl`, with failures | credits held within the allocation and the refunds, of which there is one per overlapping cancel request at most; runs bounded by requests; pages close after the end and go back only when the row does or a publication is late; no completed run left without having asked for comments; nights step over few, runs are enriched, the collected text is kept, running jobs have somebody to end them, merges bring along known accounts |
| `control_fair` | the same components, fair, mostly without failures | settlement, `credits_spent` and the promises of `RunStatus`; one comment job at a time, posts paid for twice at most; runs free their design, live runs are collected, subscribers see the end, comment rows clear, records are enriched, scraping jobs end |
| `collect_safety` | the four components of `MCCollect`, with failures | rates exceeded only by what resets and failures let through, refused calls leave nothing, quotas exceeded by few, counters expire, reported credentials stay away, what is not searched for is stored, runs see all their posts, one copy of everything stays visible, hidden ones come back only with a fetched page |

**Bounds.** *Batch:* one arena and one run are enough because arenas meet only in
two aggregates of the checker (all rows closed, some row completed). Polls count
from 1 as in the code: `CheckLimit = 2` gives every checker a poll before
the one that gives up; in `batch_faults` the first is the last, because its safety
properties do not depend on the number of polls, and are proved for any. One
fault reaches every error path. `OneMishapSpec` of `batch_live` allows one cancel or
one fault.
*Composition:* the components of `MCControl` share no variables, nor do those of
`MCCollect`; a property of one holds of the composition exactly if it holds of the
component (`ComponentsAreFree`, `SharersAreFree`). `part` selects the one that moves; it never changes.
No symmetry is declared.
*Credits:* one run on two platforms, because the sums must differ from single rows: with failures and two cancel requests that
overlap (`control_safety`), where the allocation pays for one platform only: the run gets past the credit check only because the check
itself fails (one of the two faults), and the other platform falls short until something is refunded; fair, with one cancel request and enough credits (`control_fair`). `credit_double` has two runs. *Launches:* one request, one button, two runs: a start request alone makes two. *Stream:* one
page with a reconnection; the two jobs of a row with two announcements, one failure and one ender (`control_safety`), which is what takes
a page back; two enders racing and one job without failures (`control_fair`). *Comments:* one run with failures and three jobs (`control_safety`); two runs and two jobs without failures (`control_fair`), since it is
across runs that jobs are kept apart; one post, one trigger. *Enrichment:* three
records, pages of one, two enrichers, a night beside a task over a run. *Texts:* two requests, two
jobs, two other writers. *Scraping:* two cancel requests, one fault. *Actors:* two actors, two merges, one account,
two presences; a merge may name its canonical actor as a duplicate. *Limiter:* three windows, one of which refuses what the one before granted, two
requesters and a waiter, one failure, one reset, and one tick of the clock, which ends the shorter windows. *Pool:* one credential with daily quota 1 and monthly quota 2, two
jobs. *Coverage:* three posts, two of which have the same text and one two terms; two date ranges, two jobs, buffer of two,
one failure. *Duplicates:* three records of one page and text, the second in another arena; two passes, one fetched page.
Where a run is small, the theorem that states the same property is for any size.

The other runs are **expected violations**: each states what a comment, a
docstring or a message of the program says, and TLC finds the behaviour in which
the code does otherwise. They are the `findings` of PROJECT.json, with
the quoted lines:

| run | what the code says, and what happens |
|---|---|
| `batch_restart` | an ended run has no way back to running: its own late dispatch restarts a cancelled run |
| `batch_undispatched` | the cleanup eventually fails a run whose dispatch was lost: it never looks at runs without `started_at` |
| `batch_sharedrow` | a run is completed when all its jobs have finished: the first of two jobs that share a row completes it |
| `credit_double` | concurrent runs cannot spend the same credits: two overlapping create requests do |
| `credit_charged` | cancelling refunds the reserved credits: the settlement charges the refunded reservation |
| `live_pending` | starting live tracking creates an active run: the status is assigned to a copy and the run stays pending |
| `library_merge` | only presences the canonical actor already has are discarded: another account without an id is taken for it and deleted |

### Behaviours a reader may not expect

Read from the code while modelling it. Those the modules contain:

* *Runs.* The sweep declares a job dead after 90 minutes though it may work for six hours. The cleanup
  overwrites a run that ended between its two transactions. Two requests that pass the launch
  guard together both insert. `POST /collections/` creates live runs too, and its guard sees them only while they are pending: beside an
  active or suspended one any number may follow. The daily gate brings a live run that was cancelled in the
  meantime back as suspended, and suspends users with unlimited credits (balance -1).
* *Credits.* The balance subtracts a settlement and the reservation it settles, so
  it goes negative in ordinary use. A run failed by the cleanup, or by a reservation that fails half-way,
  keeps its credits for ever, although `core/credit_service.py:24` says they are released. A run cancelled
  while its create request still reserves keeps the later reservations. Two overlapping cancels
  refund twice. A settler lost between its commits leaves `credits_spent` behind for good.
* *Stream, comments.* An event published between snapshot and subscription is lost. A page goes back from "failed" or "completed" to
  "running" when a job begins again after a sweep, or when the second job of an arena begins. A run is completed before it asks for
  comments, and may complete while they are still collected; one that a recount completes after it had failed asks for none.
* *Limiter, pool.* A request goes ahead unlimited when Redis fails, and a reset lets as many through again. A failed rollback leaves slots taken. A lost EXPIRE locks a credential once its
  counter is full; two concurrent reports may count one error.
* *Coverage.* The days between two attempts, or two records, count as covered. A record whose insert raises is dropped, and the attempt
  recorded all the same. Of posts with the same text a job collects one; if that was stored for other terms or dates, the look for old
  records does not find it. A look that fails is logged, and the job completes without links.
* *Duplicates.* Retention deletes the copy that was shown; those marked for it stay hidden. A pass groups
  records whose address is empty. A page fetched meanwhile shows a hidden copy again.
* *Records.* `fetch_content` writes back all of `raw_metadata` after awaiting the page, and loses what was added meanwhile.
  Overlapping scrapers may replace a scraped text by nothing. A night steps over records although it promises every one.
* *Scraping.* A job cancelled while pending runs all the same; a deleted one goes on; one whose worker is killed says "running" for ever.
* *Actors.* A merge that names its canonical actor among the duplicates deletes it, with what it had moved; only the route for two actors
  checks that. Two quick-adds of one author leave two presences. The merge of the web page deletes the presences it says are moved.
  An alias that is already there rolls a merge's work back, and the duplicate is deleted all the same.

And those outside the modules: per-run enrichment queries lack the columns `platform`, `url`, `published_at` and the
project, so the engagement scorer never applies there; `_mark_urls_scraped` uses `text` without an import, so
such jobs end as failed; soft time limits are swallowed by the per-URL `except`; `enrich_collection_run`'s
`raise self.retry` is caught by its own `except`; `jsonb_set` in the propagation and coordination tasks does not create missing
intermediate keys; `author_id` is never set, so comment mode `source_list_actors` matches
nothing; an export that fails before its late import of `S3Error` stays "running" in Redis.

## Fairness

* `BatchRun`: live workers take messages from their queues (weak fairness on
  dispatcher and checker), beat starts the cleanup every day, accepted HTTP
  requests run to their end, and time passes. Arena jobs get **no** fairness: a job
  may hang, which is what the sweep and the cleanup are for.
* `CreditLedger` (`CreditFair`): beat starts a settlement every six hours and a
  worker carries it out; a cancel request that was accepted goes on. Runs get
  none: none has to end.
* `LaunchFair`: accepted requests, the dispatch and checker of a batch run (whose end `batch_live` shows),
  and the daily task go on. Nobody has to press a button.
* `StreamFair`: the server goes on reading the channel; whoever began to end the run does. Nobody has to open
  a page, and the job need not report.
* `CommentFair`: workers take trigger and job messages and work them off. Runs need not end.
* `EnrichFair`: beat sends the nightly task, workers run it, and tasks over a run.
* `ScrapeFair`: workers run the scraping task, or end it; cancel requests go on.

The limiter, the pool, coverage, duplicates, texts and actors promise nothing that must
eventually happen, and have none.

## Proofs

Checked by TLAPS for all values of the constants that satisfy the modules'
assumptions (finite sets of processes, records and date ranges where something counts them or takes their
last, natural numbers for limits, nothing else). The bounds on faults, retries,
clocks and calls that TLC needs are arbitrary here.

**BatchRunProofs.** For each group of variables a lemma (`RunWriters`, ...) lists
the actions that can change it; each later proof splits over that short list. `TypeCorrect`
needs two facts beside the types: a redelivered dispatch costs a fault (so its copy
number exists) and a checker about to write has a verdict. `RunRowImplementsRunStatus`: every step maps to a step of
`RunStatus` or a stutter. `CancelledRowsAreSafe`: an action property, from typing. `LateBatches`: the bound is not
inductive, since a batch begun before the cancellation is not late yet; `LateInv` counts in advance the batch in
progress and the cancel request that passed its check.

**CreditLedgerProofs.** Sums over finite sets are defined by recursion in the library,
whose theorems cannot be instantiated here. The first part derives what is needed (`SumEquation`,
`SumSplit`) from the well-foundedness of the subsets of a finite set, without induction.
* `SettlementIsOnce`, assuming one settlement instance at a time: `SettleInv` adds that every row a settler still has to
  settle is chargeable and not settled.
* `RefundsAreBounded`, for any number of overlapping cancel requests: those that have looked and found no refund of a reservation
  are counted with the refunds there are (`RefundInv`); once there is one, nobody joins them.
* `BudgetHolds`, assuming one create request of the user in flight, and nothing else: the code checks a balance read in
  three steps. `BudgetInv` says what each reading is worth while it is incomplete: after the first it is
  at most what the reservations leave, because nobody else reserves, settlements only lower it, and a refund that is read
  has given back what it counts. `credit_double` shows that the assumption is needed. A second refund is
  given back too: the bound is the allocation and whatever was refunded.
* `SpentAddsUp`: a total behind its settlements belongs to a run some settler is between its two commits for (`SpentInv`). For any number of settlers.
* `LedgerKeepsRunStatus`: a run is absent until its own request inserts it, though cancel requests name runs (`AbsentInv`).

**RunControlProofs.** `LaunchesAreBounded`: a request between its guard and its insert is counted with the runs
the guard is about (`OpenCount`, `LiveCount`); a step exchanges one for the other (`Exchange`). Of live runs those of start requests are
bounded, whatever mode the create requests beside them ask for.
`PagesCloseAfterTheEnd`: an end that is anywhere on its way has been committed (`EndIsCommitted`).
`PagesNeverGoBack`: what is shown, what waits in the channel, what is about to be published
and what the row says are in order (`InOrder`), as long as nothing has gone `astray`. `CompletedRunsHaveAsked` (`AskedFor`): a poll that
finds nothing to ask for belongs to a run that has asked before or is failed, and one that is lost comes back. `JobsAreApart` (`OneJob`) and
`PostsArePaidTwiceAtMost` (`PaidOnceMore`), the last two
while one trigger runs at a time and nothing fails.

**LimiterPoolProofs.** `RateIsKept`: a window's set holds at most its limit, and among it everything that still
counts and that neither a reset took out nor a failure kept out, since what a script removes had expired by the clock as well (`WindowInv`);
of the others there are at most its limit for every reset and one for every failure (`FewUnknown`). For any lag between clock and script. `RefusedAreGone`: where a call may hold a slot follows from its step (`SlotsInv`, `MayHold`). `OvershootIsBounded`: the jobs between
check and increment are counted with the increments made (`QuotaInv`, `Committed`). `CountersDoExpire`; `ReportedStayAway`
(`ReportInv`: what a job reported is cooling, and it is not going for that row). `PoolTyped` needs to know that a job past its
look at a cooldown still has a row to go for (`CandidatesStep`).

**CollectProofs.** `CoverageIsStored` and `RunsSeeAll`, for any requests and posts. A post is `Settled` once its text is stored, its insert
has failed, or a check has passed it over between what was collected; nothing unsettles it. `CoverageInv`: all posts of an attempt's term and
dates are settled, and so is what a job has emitted and no longer buffers; so what its check leaves out is settled when it is left out,
and all of it is before the job records attempts of its own. `RunsSeeAll` adds who stored the record: the job itself, or another run
before the job looked for old records. `OneIsShown`: marks lead to lower identifiers (`MarksGoDown`), so they
form no circle. `HiddenStay`: of two copies a pass has seen it hides one, whatever is committed in between (`PassHides`), and only a fetched page
takes the mark back.
`CoverageTyped`: the narrowed dates are a hull, whose ends are times only because finitely many requests have a bound (`TimesAreBounded`).
`SharersAreFree`: each step of the composition is a step of one component, so it has no behaviours of its own and all of these
theorems hold of it; with it the types of everything at once, `CollectTyped`.

**RecordsProofs.** `TextIsKept`: while the text is the collected one, neither place for an earlier text is taken, in the row and in
every stale copy (`Keeps`). `RunningJobs` (`JobInv`). Enrichment is about LIMIT and OFFSET: a page is what has the ranks from the offset
on, and the lemmas say how ranks move when a set grows or shrinks (`RankGrows`, `DataShift`).
`RunsAreEnriched`: records of a run are only added, so what lies behind the offset stays behind
it, and is settled or on the page being written (`CoverInv`). `NightsStepOverFew`: what is still missing behind the offset is outweighed by
what has been enriched since the night began with this enricher (`NightInv`), whoever enriched it.
`EnrichmentTyped`: no offset passes the number of records, because a task moves on by the page it has taken, which lay within the list (`PagesFit`).

**ActorsProofs.** `MergesMove`, for merges that do not delete their canonical actor themselves: presences are told apart by their ids and known accounts are unique (`LibraryInv`); what a merge has
read and dealt with, it has moved (`MergeInv`), whatever others add, remove, split or merge meanwhile.
`MergesHoldApart` (`HeldApart`): two merges in progress have moved no presence in common, and a canonical actor that was
given an alias is deleted by nobody else before its merge ends. From it the types, `ActorsTyped`.

**ControlProofs.** `ComponentsAreFree`: the eight components of `MCControl` run undisturbed by each other, so what is proved of
each holds of the composition; `ControlTyped` is the types of all of them.

The inductive invariants were checked by TLC on small instances before they were proved.

Every invariant and every safety action property that a passing run checks is stated by a theorem. Only model-checked is
liveness, which TLAPS cannot prove under fairness: `StartedRunsEnd`, `EndsAreAnnounced`, `StampedRunsSettle`, `GuardFrees`, `LiveRunsCollect`,
`SubscribersSeeTheEnd`, `CommentRowsClear`, `EverythingEnriched`, `JobEnds`.

## Plan

Done: every module above, with its runs, mutants and proofs. Left, in this order:

1. A copy of a live job redelivered after the broker's visibility timeout, as a
   further fault of `BatchRun`; it makes `LateInv` count copies.
2. `Snowball`: the depth and budget of an expansion.
3. Deletion of runs and designs, in `LaunchGuard`.

## Not modelled

The modules cover the bookkeeping, a small part of the repository's lines. Most of the rest is
what collectors fetch from their platforms and how they parse it, SQL
queries and graph algorithms of the analysis, HTML pages, forms and CRUD routes (one
transaction per request), e-mail, logging and metrics: they keep no protocol state that two
processes decide by. Volume alerting is a threshold over counts; an export is one task, one file and one status key;
imports convert uploaded files; accounts are fastapi-users configuration.

In the parts that are modelled, left out: daily chunking of jobs (`BatchRun`); allocations that expire and users
without limits (`CreditLedger`); the mode `post_urls` and the Bright Data polling (`Comments`); leases and
credentials from the environment (`CredentialPool`); near duplicates by SimHash and
the counter `records_collected` (`Coverage`, `Deduplication`); what an enricher computes and the relational rows it writes
(`Enrichment`); the counters and error list of a scraping job, and fetching and extraction (`ScrapingJob`); memberships in
lists and the search for candidates (`Actors`).
