------------------------------- MODULE Enrichment -------------------------------
(***************************************************************************)
(* The tasks that derive data from stored records: enrich_collection_run,  *)
(* which pages through the records of a run once it has ended or a user     *)
(* asks, and enrich_all_pending, which every night pages through the         *)
(* records that lack an enrichment.  Both page with LIMIT and OFFSET; for    *)
(* the nightly task the pages it has written drop out of the list it is      *)
(* paging through, while its offset moves on.                                *)
(*                                                                         *)
(* An enrichment is a key of raw_metadata.enrichments, written on its own    *)
(* (see RecordText for what else writes raw_metadata).                        *)
(***************************************************************************)
EXTENDS Integers, FiniteSets

CONSTANTS
  Records,        \* record ids, in their order
  RunRecords,     \* those of the run that is enriched
  Enrichers,
  Listed,         \* enricher -> records the nightly query looks for
  Applicable,     \* enricher -> those of them it is applicable to
  RunApplicable,  \* enricher -> those it is applicable to with the columns
                  \* the query over a run returns: never an engagement score
  Nights,         \* nightly tasks
  RunTasks,       \* tasks over the run
  PageSize,
  MaxEnrichFaults

ASSUME EnrichmentAssumption ==
  /\ Records \subseteq Nat /\ IsFiniteSet(Records) /\ RunRecords \subseteq Records
  /\ \A e \in Enrichers : /\ Applicable[e] \subseteq Listed[e] /\ Listed[e] \subseteq Records
                          /\ RunApplicable[e] \subseteq Applicable[e]
  /\ Nights \cap RunTasks = {} /\ PageSize \in Nat \ {0} /\ MaxEnrichFaults \in Nat

Tasks == Nights \cup RunTasks

VARIABLES
  present,        \* records there are
  enriched,       \* enricher -> records with its result
  npc,            \* task -> step
  enrichers,      \* task -> enrichers still to do (of a run: for this page)
  current,        \* night -> the enricher it is paging for
  offset,         \* task -> offset of its page
  page,           \* task -> records of its page
  toSee,          \* history: task -> records it was going to page through
  had,            \* history: night -> records that had the result by then
  enrichFaults

taskVars == <<npc, enrichers, current, offset, page, toSee, had>>
enrichmentVars == <<present, enriched, taskVars, enrichFaults>>

EnrichmentTypeOK ==
  /\ present \subseteq Records /\ enriched \in [Enrichers -> SUBSET Records]
  /\ npc \in [Tasks -> {"idle", "next", "fetch", "write", "done"}]
  /\ enrichers \in [Tasks -> SUBSET Enrichers]
  /\ \A t \in Tasks : current[t] \in Enrichers \/ npc[t] \notin {"fetch", "write"} \/ t \in RunTasks
  /\ offset \in [Tasks -> 0 .. Cardinality(Records)]
  /\ \A t \in Tasks : Cardinality(page[t]) <= PageSize /\ page[t] \subseteq present
  /\ toSee \in [Tasks -> SUBSET Records] /\ had \in [Nights -> SUBSET Records]
  /\ enrichFaults \in 0 .. MaxEnrichFaults

EnrichmentInit ==
  /\ present = {} /\ enriched = [e \in Enrichers |-> {}]
  /\ npc = [t \in Tasks |-> "idle"]
  /\ enrichers = [t \in Tasks |-> {}] /\ current = [t \in Tasks |-> "none"]
  /\ offset = [t \in Tasks |-> 0] /\ page = [t \in Tasks |-> {}]
  /\ toSee = [t \in Tasks |-> {}] /\ had = [n \in Nights |-> {}]
  /\ enrichFaults = 0

EnrichFault == enrichFaults < MaxEnrichFaults /\ enrichFaults' = enrichFaults + 1

-----------------------------------------------------------------------------
(* Pages *)

\* fetch_unenriched_content_records, fetch_unenriched_for_engagement: the
\* records without the result, in the order of their ids.
Missing(e) == (Listed[e] \cap present) \ enriched[e]

\* fetch_content_records_for_run.
OfRun == RunRecords \cap present

\* LIMIT PageSize OFFSET from.
PageAt(set, from) ==
  {r \in set : Cardinality({s \in set : s < r}) \in from .. (from + PageSize - 1)}

-----------------------------------------------------------------------------
(* enrich_all_pending *)

\* Beat sends the task; lost workers have it sent again.
NBegin(n) ==
  /\ npc[n] = "idle"
  /\ npc' = [npc EXCEPT ![n] = "next"]
  /\ enrichers' = [enrichers EXCEPT ![n] = Enrichers]
  /\ UNCHANGED <<present, enriched, current, offset, page, toSee, had, enrichFaults>>

\* (faulty: the night goes on where the last one ended)
NEnricherOnward(n, e) ==
  /\ npc[n] = "next" /\ e \in enrichers[n]
  /\ npc' = [npc EXCEPT ![n] = "fetch"]
  /\ enrichers' = [enrichers EXCEPT ![n] = @ \ {e}]
  /\ current' = [current EXCEPT ![n] = e]
  /\ toSee' = [toSee EXCEPT ![n] = Missing(e)] /\ had' = [had EXCEPT ![n] = enriched[e]]
  /\ UNCHANGED <<present, enriched, offset, page, enrichFaults>>

\* The next enricher.
NEnricher(n, e) ==
  /\ npc[n] = "next" /\ e \in enrichers[n]
  /\ npc' = [npc EXCEPT ![n] = "fetch"]
  /\ enrichers' = [enrichers EXCEPT ![n] = @ \ {e}]
  /\ current' = [current EXCEPT ![n] = e]
  /\ offset' = [offset EXCEPT ![n] = 0]
  /\ toSee' = [toSee EXCEPT ![n] = Missing(e)] /\ had' = [had EXCEPT ![n] = enriched[e]]
  /\ UNCHANGED <<present, enriched, page, enrichFaults>>

\* The task over the records without an enrichment is done.
NDone(n) ==
  /\ npc[n] = "next" /\ enrichers[n] = {}
  /\ npc' = [npc EXCEPT ![n] = "idle"]
  /\ current' = [current EXCEPT ![n] = "none"]
  /\ toSee' = [toSee EXCEPT ![n] = {}] /\ had' = [had EXCEPT ![n] = {}]
  /\ UNCHANGED <<present, enriched, enrichers, offset, page, enrichFaults>>

NFetch(n) ==
  /\ npc[n] = "fetch"
  /\ page' = [page EXCEPT ![n] = PageAt(Missing(current[n]), offset[n])]
  /\ npc' = [npc EXCEPT ![n] = IF page'[n] = {} THEN "next" ELSE "write"]
  /\ UNCHANGED <<present, enriched, enrichers, current, offset, toSee, had, enrichFaults>>

\* The next page, unless this was the last: one that was not full.
NextPage(t, last) ==
  /\ offset' = [offset EXCEPT ![t] = @ + Cardinality(page[t])]
  /\ page' = [page EXCEPT ![t] = {}]
  /\ npc' = [npc EXCEPT ![t] = IF Cardinality(page[t]) < PageSize THEN last ELSE "fetch"]

\* (faulty: the task goes on after the records of its page, two pages on)
NWriteFar(n) ==
  /\ npc[n] = "write"
  /\ enriched' = [enriched EXCEPT ![current[n]] = @ \cup (page[n] \cap Applicable[current[n]])]
  /\ offset' = [offset EXCEPT ![n] = @ + Cardinality(page[n]) + 1]
  /\ page' = [page EXCEPT ![n] = {}]
  /\ npc' = [npc EXCEPT ![n] = IF Cardinality(page[n]) < PageSize THEN "next" ELSE "fetch"]
  /\ UNCHANGED <<present, enrichers, current, toSee, had, enrichFaults>>

\* write_enrichment_batch: the results of a page, in one transaction.
NWrite(n) ==
  /\ npc[n] = "write"
  /\ enriched' = [enriched EXCEPT ![current[n]] = @ \cup (page[n] \cap Applicable[current[n]])]
  /\ NextPage(n, "next")
  /\ UNCHANGED <<present, enrichers, current, toSee, had, enrichFaults>>

\* A result that cannot be derived, or a batch that cannot be written: counted
\* as errors, and the task goes on.
NWriteLost(n) ==
  /\ npc[n] = "write" /\ EnrichFault
  /\ \E written \in SUBSET (page[n] \cap Applicable[current[n]]) :
       enriched' = [enriched EXCEPT ![current[n]] = @ \cup written]
  /\ NextPage(n, "next")
  /\ UNCHANGED <<present, enrichers, current, toSee, had>>

\* A page that cannot be read: the task goes on with the next enricher.
NFetchLost(n) ==
  /\ npc[n] = "fetch" /\ EnrichFault
  /\ npc' = [npc EXCEPT ![n] = "next"]
  /\ UNCHANGED <<present, enriched, enrichers, current, offset, page, toSee, had>>

-----------------------------------------------------------------------------
(* enrich_collection_run *)

\* Sent by the batch completion checker, or by POST .../enrich.
RBegin(t) ==
  /\ npc[t] \in {"idle", "done"}
  /\ npc' = [npc EXCEPT ![t] = "fetch"]
  /\ offset' = [offset EXCEPT ![t] = 0]
  /\ toSee' = [toSee EXCEPT ![t] = OfRun]
  /\ UNCHANGED <<present, enriched, enrichers, current, page, had, enrichFaults>>

\* (faulty: like the nightly task, it reads those still without a result)
RFetchMissing(t) ==
  /\ npc[t] = "fetch"
  /\ page' = [page EXCEPT ![t] =
       PageAt({r \in OfRun : \E e \in Enrichers : r \in RunApplicable[e] \ enriched[e]}, offset[t])]
  /\ npc' = [npc EXCEPT ![t] = IF page'[t] = {} THEN "done" ELSE "write"]
  /\ enrichers' = [enrichers EXCEPT ![t] = IF page'[t] = {} THEN {} ELSE Enrichers]
  /\ UNCHANGED <<present, enriched, current, offset, toSee, had, enrichFaults>>

RFetch(t) ==
  /\ npc[t] = "fetch"
  /\ page' = [page EXCEPT ![t] = PageAt(OfRun, offset[t])]
  /\ npc' = [npc EXCEPT ![t] = IF page'[t] = {} THEN "done" ELSE "write"]
  /\ enrichers' = [enrichers EXCEPT ![t] = IF page'[t] = {} THEN {} ELSE Enrichers]
  /\ UNCHANGED <<present, enriched, current, offset, toSee, had, enrichFaults>>

\* One transaction for each enricher.
RWrite(t, e) ==
  /\ npc[t] = "write" /\ e \in enrichers[t]
  /\ enriched' = [enriched EXCEPT ![e] = @ \cup (page[t] \cap RunApplicable[e])]
  /\ enrichers' = [enrichers EXCEPT ![t] = @ \ {e}]
  /\ IF enrichers'[t] = {} THEN NextPage(t, "done") ELSE UNCHANGED <<npc, offset, page>>
  /\ UNCHANGED <<present, current, toSee, had, enrichFaults>>

RWriteLost(t, e) ==
  /\ npc[t] = "write" /\ e \in enrichers[t] /\ EnrichFault
  /\ enrichers' = [enrichers EXCEPT ![t] = @ \ {e}]
  /\ IF enrichers'[t] = {} THEN NextPage(t, "done") ELSE UNCHANGED <<npc, offset, page>>
  /\ UNCHANGED <<present, enriched, current, toSee, had>>

-----------------------------------------------------------------------------

\* A worker is lost and the message delivered again; a page of a run that
\* cannot be read, and the task tried again or, after three times, given up.
Again(t) ==
  /\ npc[t] \in {"next", "fetch", "write"} /\ EnrichFault
  /\ npc' = [npc EXCEPT ![t] = "idle"]
  /\ enrichers' = [enrichers EXCEPT ![t] = {}]
  /\ current' = [current EXCEPT ![t] = "none"]
  /\ offset' = [offset EXCEPT ![t] = 0]
  /\ page' = [page EXCEPT ![t] = {}]
  /\ toSee' = [toSee EXCEPT ![t] = {}]
  /\ had' = [n \in Nights |-> IF n = t THEN {} ELSE had[n]]
  /\ UNCHANGED <<present, enriched>>

\* Ids are random: a new record may come before those already paged through.
RecordStored(r) ==
  /\ r \in Records \ present
  /\ present' = present \cup {r}
  /\ UNCHANGED <<enriched, taskVars, enrichFaults>>

-----------------------------------------------------------------------------

Night(n) == NDone(n) \/ NFetch(n) \/ NWrite(n) \/ \E e \in Enrichers : NEnricher(n, e)
RunTask(t) == RFetch(t) \/ \E e \in Enrichers : RWrite(t, e)

EnrichmentNext ==
  \/ \E n \in Nights : NBegin(n) \/ Night(n) \/ NWriteLost(n) \/ NFetchLost(n)
  \/ \E t \in RunTasks : RBegin(t) \/ RunTask(t) \/ \E e \in Enrichers : RWriteLost(t, e)
  \/ \E t \in Tasks : Again(t)
  \/ \E r \in Records : RecordStored(r)

EnrichmentSpec == EnrichmentInit /\ [][EnrichmentNext]_enrichmentVars

-----------------------------------------------------------------------------
(* Properties *)

\* A night steps over no more records than are enriched while it lasts, by
\* itself or by tasks over runs, and wherever new records come in between: the
\* list shrinks under its offset by those alone.  (The task promises to page
\* through every record.)
NightStepsOverFew ==
  \A n \in Nights : npc[n] = "next" /\ current[n] # "none" /\ enrichFaults = 0 =>
    LET e == current[n]
    IN  Cardinality((toSee[n] \cap Applicable[e]) \ enriched[e])
          <= Cardinality(enriched[e] \ had[n])

\* A task over a run covers it: when it has ended without an error, every
\* record the run had when it began has every enrichment applicable to it.
RunIsEnriched ==
  \A t \in RunTasks : npc[t] = "done" /\ enrichFaults = 0 =>
    \A e \in Enrichers : toSee[t] \cap RunApplicable[e] \subseteq enriched[e]

\* As long as beat sends the task and workers run it, every record is enriched
\* in the end, although no single night promises it.
EverythingEnriched ==
  \A r \in Records : \A e \in Enrichers :
    (r \in present \cap Applicable[e]) ~> (r \in enriched[e])

=============================================================================
