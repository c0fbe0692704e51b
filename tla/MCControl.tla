------------------------------ MODULE MCControl ------------------------------
(***************************************************************************)
(* The components that launch, watch, charge and follow up runs, those that *)
(* rewrite what runs have stored, and the library of actors, put side by    *)
(* side.  They share no variables, so what one of them does is the same      *)
(* whatever the others do, and a property of one of them holds of their     *)
(* composition exactly if it holds of the component: TLC runs them one at a  *)
(* time, chosen by part, which never changes.                                *)
(***************************************************************************)
EXTENDS CreditLedger, LaunchGuard, EventStream, Comments, Enrichment, RecordText, ScrapingJob,
        Actors, TLC

VARIABLE part

runsVars == <<launchVars, streamVars, commentVars>>
recordsVars == <<enrichmentVars, textVars, scrapeVars>>
besideVars == <<recordsVars, actorVars>>
controlVars == <<part, vars, runsVars, besideVars>>

\* Whether there is a gap matters to the launches only.
ControlInit ==
  /\ part \in {"credit", "launch", "stream", "comments", "enrich", "text", "scrape", "actors"}
  /\ Init /\ LaunchInit /\ StreamInit /\ CommentInit
  /\ EnrichmentInit /\ TextInit /\ ScrapeInit /\ ActorsInit
  /\ part = "launch" \/ ~gap

CreditStep ==
  part = "credit" /\ Next /\ UNCHANGED <<runsVars, besideVars>>
LaunchStep ==
  part = "launch" /\ LaunchNext /\ UNCHANGED <<vars, streamVars, commentVars, besideVars>>
StreamStep ==
  part = "stream" /\ StreamNext /\ UNCHANGED <<vars, launchVars, commentVars, besideVars>>
CommentStep ==
  part = "comments" /\ CommentNext /\ UNCHANGED <<vars, launchVars, streamVars, besideVars>>
EnrichStep ==
  part = "enrich" /\ EnrichmentNext /\ UNCHANGED <<vars, runsVars, textVars, scrapeVars, actorVars>>
TextStep ==
  part = "text" /\ TextNext /\ UNCHANGED <<vars, runsVars, enrichmentVars, scrapeVars, actorVars>>
ScrapeStep ==
  part = "scrape" /\ ScrapeNext /\ UNCHANGED <<vars, runsVars, enrichmentVars, textVars, actorVars>>
ActorsStep ==
  part = "actors" /\ ActorsNext /\ UNCHANGED <<vars, runsVars, recordsVars>>

ControlNext ==
  /\ UNCHANGED part
  /\ \/ CreditStep \/ LaunchStep \/ StreamStep \/ CommentStep
     \/ EnrichStep \/ TextStep \/ ScrapeStep \/ ActorsStep

ControlSpec == ControlInit /\ [][ControlNext]_controlVars

-----------------------------------------------------------------------------
(* Fairness *)

\* A request that was accepted runs to its end; the dispatch and the
\* completion checker of a run do; beat starts the daily task.
LaunchFair ==
  /\ \A l \in Launchers : WF_launchVars(part = "launch" /\ Launch(l))
  /\ \A r \in LaunchRuns : WF_launchVars(part = "launch" /\ BatchSteps(r))
  /\ \A u \in Clickers : WF_launchVars(part = "launch" /\ UCommit(u))
  /\ WF_launchVars(part = "launch" /\ Daily)

\* The server goes on reading the channel; whoever began to end the run does.
StreamFair ==
  /\ \A e \in Enders : WF_streamVars(part = "stream" /\ Ender(e))
  /\ \A v \in Viewers : WF_streamVars(part = "stream" /\ (VSubscribe(v) \/ VForward(v)))

\* Workers take the messages there are and work them off.
CommentFair ==
  /\ \A t \in Triggers : WF_commentVars(part = "comments" /\ Trigger(t))
  /\ \A j \in CommentJobs : WF_commentVars(part = "comments" /\ CommentJob(j))

\* As in CreditLedger.
CreditFair ==
  /\ \A s \in Settlers :
       /\ WF_vars(part = "credit" /\ Fetch(s)) /\ WF_vars(part = "credit" /\ UpdateSpent(s))
       /\ WF_vars(part = "credit" /\ \E k \in Keys : Settle(s, k))
  /\ \A c \in Cancellers :
       /\ WF_vars(part = "credit" /\ CancelList(c)) /\ WF_vars(part = "credit" /\ CancelRefund(c))
       /\ WF_vars(part = "credit" /\ CancelDone(c))
       /\ WF_vars(part = "credit" /\ \E k \in Keys : CancelLook(c, k))

\* Beat sends the nightly task, and workers run it.
EnrichFair ==
  /\ \A n \in Nights : /\ WF_enrichmentVars(part = "enrich" /\ NBegin(n))
                       /\ WF_enrichmentVars(part = "enrich" /\ Night(n))
  /\ \A t \in RunTasks : WF_enrichmentVars(part = "enrich" /\ RunTask(t))

\* Workers run the scraping task, or end it; a request to cancel that was
\* accepted runs to its end, and so does the task it sends.
ScrapeFair ==
  /\ WF_scrapeVars(part = "scrape" /\ ScrapeTask)
  /\ \A x \in Cancels : WF_scrapeVars(part = "scrape" /\ CancelTask(x))

ControlFairSpec ==
  /\ ControlSpec
  /\ CreditFair /\ LaunchFair /\ StreamFair /\ CommentFair /\ EnrichFair /\ ScrapeFair

-----------------------------------------------------------------------------
\* Every row, message and program counter is one the code can produce, and what
\* a process writes is of the kind its readers expect.
ControlTypeOK ==
  CASE part = "credit"   -> TypeOK
    [] part = "launch"   -> LaunchTypeOK
    [] part = "stream"   -> StreamTypeOK
    [] part = "comments" -> CommentTypeOK
    [] part = "enrich"   -> EnrichmentTypeOK
    [] part = "text"     -> TextTypeOK
    [] part = "scrape"   -> ScrapeTypeOK
    [] part = "actors"   -> ActorsTypeOK

-----------------------------------------------------------------------------
(* Values for the constants *)

\* Credits: a run on two platforms of different cost.
OneRun   == {"r1"}
Paid     == {"youtube", "tiktok"}
PaidCost == [p \in Paid |-> IF p = "youtube" THEN 2 ELSE 1]

\* Launches: unlimited credits, or some.
MCBalances == {-1, 3}

\* Enrichers: one that is also applicable to the rows of a run, and one that is
\* not.  The first is looked for everywhere, and is not applicable to record 1.
MCRunRecords   == {2, 3}
TwoEnrichers   == {"language", "engagement"}
MCListed       == [e \in TwoEnrichers |-> IF e = "language" THEN 1 .. 3 ELSE {3}]
MCApplicable   == [e \in TwoEnrichers |-> IF e = "language" THEN {2, 3} ELSE {3}]
MCRunApplies   == [e \in TwoEnrichers |-> IF e = "language" THEN {2, 3} ELSE {}]
ThreeRecords   == 1 .. 3
OneEnricher    == {"language"}
AllListed      == [e \in OneEnricher |-> 1 .. 3]
SomeApplicable == [e \in OneEnricher |-> {2, 3}]

\* Actors: two who are called the same, with accounts of one platform; or one.
MCNames     == {"dr"}
Namesakes   == [a \in 1 .. 2 |-> "dr"]
OneActor    == [a \in 1 .. 1 |-> "dr"]
OneAccount  == {"x1"}
TwoAccounts == {"x1", "x2"}
OnePlatform == [a \in TwoAccounts |-> "x"]

=============================================================================
