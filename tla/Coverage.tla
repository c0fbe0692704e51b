------------------------------- MODULE Coverage --------------------------------
(***************************************************************************)
(* What a run finally shows for its search terms: the collect_by_terms job *)
(* of one arena (bluesky, and the arenas built like it), with the check for *)
(* what was collected before, the collector's buffer, the records, the     *)
(* links to records of other runs, and the attempts kept for the next check.*)
(*                                                                         *)
(* Each job belongs to a run of its own.  Jobs of all projects share the    *)
(* two tables and interleave between any two transactions.  The posts of    *)
(* the platform do not change, a search returns the newest first, and the   *)
(* limit on the number of results is not reached.  A content_hash is that of *)
(* the text alone: whoever goes by it takes two posts with one text for one. *)
(***************************************************************************)
EXTENDS Integers, FiniteSets, Sequences, FiniteSetsExt

CONSTANTS
  Harvests,          \* jobs
  Posts,             \* [at, terms, text]: time, search terms and text of each post
  TermSets,          \* the terms a job may be given
  Requests,          \* <<from, to>>: the dates it may be given
  BatchSize,         \* records that fill the collector's buffer
  MaxHarvestFaults   \* bound: failed inserts, flushes and links, lost workers, rate limits

ASSUME CoverageAssumption ==
  /\ IsFiniteSet(Posts) /\ \A p \in Posts : p.at \in Nat
  /\ IsFiniteSet(Requests) /\ \A r \in Requests : r \in Nat \X Nat /\ r[1] <= r[2]
  /\ BatchSize \in Nat \ {0} /\ MaxHarvestFaults \in Nat

VARIABLES
  hpc,        \* job -> step
  terms,      \* job -> its search terms
  asked,      \* job -> <<from, to>>
  eff,        \* job -> the narrowed dates, <<>> as long as there is no gap
  togo,       \* job -> terms it has still to check, or to search for
  emitted,    \* job -> posts the collector has emitted (seen_hashes: their texts)
  buffer,     \* job -> posts not yet flushed
  attempts,   \* collection_attempts: [term, from, to, old]
  records,    \* content_records: [post, run, tags]
  links,      \* content_record_links: <<run, post>>
  harvestFaults,
  \* history: texts whose insert failed, posts that a check took for collected
  \* because they lie between what was, jobs whose look for old records failed
  dropped, assumed, unlinked

localVars == <<eff, togo, emitted, buffer>>
tables == <<attempts, records, links>>
history == <<dropped, assumed, unlinked>>
coverageVars == <<hpc, terms, asked, localVars, tables, harvestFaults, history>>

Times == {p.at : p \in Posts} \cup UNION {{r[1], r[2]} : r \in Requests}
Ranges == Times \X Times

CoverageTypeOK ==
  /\ hpc \in [Harvests -> {"idle", "check", "search", "flush", "reindex", "record", "done", "failed"}]
  /\ terms \in [Harvests -> TermSets \cup {{}}] /\ asked \in [Harvests -> Requests \cup {<<>>}]
  /\ eff \in [Harvests -> Ranges \cup {<<>>}]
  /\ \A h \in Harvests : togo[h] \subseteq terms[h]
  /\ emitted \in [Harvests -> SUBSET Posts] /\ buffer \in [Harvests -> Seq(Posts)]
  /\ attempts \subseteq [term : UNION TermSets, from : Times, to : Times, old : BOOLEAN]
  /\ records \subseteq [post : Posts, run : Harvests, tags : SUBSET UNION TermSets]
  /\ links \subseteq Harvests \X Posts
  /\ harvestFaults \in 0 .. MaxHarvestFaults
  /\ dropped \subseteq {p.text : p \in Posts} /\ assumed \subseteq Posts /\ unlinked \subseteq Harvests

CoverageInit ==
  /\ hpc = [h \in Harvests |-> "idle"]
  /\ terms = [h \in Harvests |-> {}] /\ asked = [h \in Harvests |-> <<>>]
  /\ eff = [h \in Harvests |-> <<>>] /\ togo = [h \in Harvests |-> {}]
  /\ emitted = [h \in Harvests |-> {}] /\ buffer = [h \in Harvests |-> <<>>]
  /\ attempts = {} /\ records = {} /\ links = {}
  /\ harvestFaults = 0
  /\ dropped = {} /\ assumed = {} /\ unlinked = {}

HarvestFault == harvestFaults < MaxHarvestFaults /\ harvestFaults' = harvestFaults + 1

In(t, range) == range[1] <= t /\ t <= range[2]

\* The posts a run is about.
Relevant(h) == {p \in Posts : p.terms \cap terms[h] # {} /\ In(p.at, asked[h])}

\* The database has the text of a post, if perhaps from another post.
Known(p) == \E r \in records : r.post.text = p.text

-----------------------------------------------------------------------------
(* check_existing_coverage *)

\* MIN and MAX over a table, as one range; <<>> if no row qualifies.
Hull(ranges) ==
  IF ranges = {} THEN <<>> ELSE <<Min({r[1] : r \in ranges}), Max({r[2] : r \in ranges})>>

\* _get_covered_ranges_from_attempts: recent attempts that overlap.
Attempted(t, range) ==
  {<<a.from, a.to>> : a \in {b \in attempts :
     b.term = t /\ ~b.old /\ b.to >= range[1] /\ b.from <= range[2]}}

FromAttempts(t, range) == Hull(Attempted(t, range))

\* _get_covered_ranges_from_content
FromContent(t, range) ==
  Hull({<<r.post.at, r.post.at>> : r \in {q \in records : t \in q.tags /\ In(q.post.at, range)}})

\* compute_uncovered_ranges, for one covered range.
Gaps(range, covered) ==
  IF covered = <<>> THEN {range}
  ELSE {g \in {<<range[1], covered[1]>>, <<Max({range[1], covered[2]}), range[2]>>} : g[1] < g[2]}

\* What lies in the range from the first to the last attempt but in none of
\* them, or between the first and the last record, and is not there.
Between(h, t, covered) ==
  {p \in Posts :
    /\ t \in p.terms /\ In(p.at, asked[h]) /\ ~Known(p)
    /\ covered # <<>> /\ In(p.at, covered)
    /\ \A range \in Attempted(t, asked[h]) : ~In(p.at, range)}

\* get_covered_ranges of one term; content found is kept as an attempt.  The
\* job narrows its dates to the first and the last gap of all its terms.
HCheck(h, t) ==
  LET fast == FromAttempts(t, asked[h])
      slow == FromContent(t, asked[h])
      covered == IF fast # <<>> THEN fast ELSE slow
      gaps == Gaps(asked[h], covered)
  IN  /\ hpc[h] = "check" /\ t \in togo[h]
      /\ attempts' = IF fast = <<>> /\ slow # <<>>
                     THEN attempts \cup {[term |-> t, from |-> slow[1], to |-> slow[2], old |-> FALSE]}
                     ELSE attempts
      /\ eff' = [eff EXCEPT ![h] = Hull(gaps \cup IF @ = <<>> THEN {} ELSE {@})]
      /\ togo' = [togo EXCEPT ![h] = @ \ {t}]
      /\ assumed' = assumed \cup Between(h, t, covered)
      /\ UNCHANGED <<hpc, terms, asked, emitted, buffer, records, links, harvestFaults, dropped, unlinked>>

\* No gap at all: no search.
HChecked(h) ==
  /\ hpc[h] = "check" /\ togo[h] = {}
  /\ IF eff[h] = <<>>
     THEN hpc' = [hpc EXCEPT ![h] = "reindex"] /\ UNCHANGED togo
     ELSE hpc' = [hpc EXCEPT ![h] = "search"] /\ togo' = [togo EXCEPT ![h] = terms[h]]
  /\ UNCHANGED <<terms, asked, eff, emitted, buffer, tables, harvestFaults, history>>

-----------------------------------------------------------------------------
(* The collector *)

\* The run is dispatched with its terms and dates.
HBegin(h, ts, range) ==
  /\ hpc[h] = "idle"
  /\ hpc' = [hpc EXCEPT ![h] = "check"]
  /\ terms' = [terms EXCEPT ![h] = ts] /\ asked' = [asked EXCEPT ![h] = range]
  /\ togo' = [togo EXCEPT ![h] = ts]
  /\ UNCHANGED <<eff, emitted, buffer, tables, harvestFaults, history>>

\* The posts the search for t still returns that are not passed over: one with
\* a text that was emitted before is.  The pages of a term are read before the
\* next term begins.
Unseen(h, t) ==
  {p \in Posts : /\ t \in p.terms /\ In(p.at, eff[h])
                 /\ \A q \in emitted[h] : q.text # p.text}

\* _search_term emits a post; a full buffer is flushed.
HEmit(h, t, p) ==
  LET filled == Append(buffer[h], p) IN
  /\ hpc[h] = "search" /\ t \in togo[h]
  /\ p \in Unseen(h, t) /\ \A q \in Unseen(h, t) : q.at <= p.at
  /\ emitted' = [emitted EXCEPT ![h] = @ \cup {p}]
  /\ buffer' = [buffer EXCEPT ![h] = filled]
  /\ hpc' = [hpc EXCEPT ![h] = IF Len(filled) >= BatchSize THEN "flush" ELSE @]
  /\ UNCHANGED <<terms, asked, eff, togo, tables, harvestFaults, history>>

\* (faulty: the attempt is recorded as soon as the term has been searched)
HTermDoneRecorded(h, t) ==
  /\ hpc[h] = "search" /\ t \in togo[h] /\ Unseen(h, t) = {}
  /\ togo' = [togo EXCEPT ![h] = @ \ {t}]
  /\ hpc' = [hpc EXCEPT ![h] = "flush"]
  /\ attempts' = attempts \cup {[term |-> t, from |-> asked[h][1], to |-> asked[h][2], old |-> FALSE]}
  /\ UNCHANGED <<terms, asked, eff, emitted, buffer, records, links, harvestFaults, history>>

\* The last page: the count of the term is noted, the buffer flushed.
HTermDone(h, t) ==
  /\ hpc[h] = "search" /\ t \in togo[h] /\ Unseen(h, t) = {}
  /\ togo' = [togo EXCEPT ![h] = @ \ {t}]
  /\ hpc' = [hpc EXCEPT ![h] = "flush"]
  /\ UNCHANGED <<terms, asked, eff, emitted, buffer, tables, harvestFaults, history>>

\* persist_collected_records commits one record after the other; a record with
\* the same text and time that exists in whatever run is left as it is.
HStore(h) ==
  LET p == Head(buffer[h]) IN
  /\ hpc[h] = "flush" /\ buffer[h] # <<>>
  /\ records' = IF \E r \in records : r.post.text = p.text /\ r.post.at = p.at THEN records
                ELSE records \cup {[post |-> p, run |-> h, tags |-> p.terms \cap terms[h]]}
  /\ buffer' = [buffer EXCEPT ![h] = Tail(@)]
  /\ UNCHANGED <<hpc, terms, asked, eff, togo, emitted, attempts, links, harvestFaults, history>>

\* An insert that raises is logged and counted as skipped; the flush goes on.
HStoreDropped(h) ==
  /\ hpc[h] = "flush" /\ buffer[h] # <<>> /\ HarvestFault
  /\ dropped' = dropped \cup {Head(buffer[h]).text}
  /\ buffer' = [buffer EXCEPT ![h] = Tail(@)]
  /\ UNCHANGED <<hpc, terms, asked, eff, togo, emitted, tables, assumed, unlinked>>

HFlushed(h) ==
  /\ hpc[h] = "flush" /\ buffer[h] = <<>>
  /\ hpc' = [hpc EXCEPT ![h] = IF togo[h] = {} THEN "reindex" ELSE "search"]
  /\ UNCHANGED <<terms, asked, localVars, tables, harvestFaults, history>>

\* A flush fails: what is left stays in the buffer, for the next flush or for
\* the attempt after the last term.  If that one fails, so does the job.  (In
\* the code so does what the flush has tried before: it is there, or fails again.)
HFlushLost(h) ==
  /\ hpc[h] = "flush" /\ buffer[h] # <<>> /\ HarvestFault
  /\ hpc' = [hpc EXCEPT ![h] = IF togo[h] = {} THEN "failed" ELSE "search"]
  /\ UNCHANGED <<terms, asked, localVars, tables, history>>

-----------------------------------------------------------------------------
(* The end of the job *)

\* What reindex_existing_records finds: by its tags and its time, not by its text.
Findable(h, r) == r.tags \cap terms[h] # {} /\ In(r.post.at, asked[h])

AfterLinks(h) == hpc' = [hpc EXCEPT ![h] = IF eff[h] = <<>> THEN "done" ELSE "record"]

\* (faulty: only a job that had nothing to search for looks for old records)
HReindexCovered(h) ==
  /\ hpc[h] = "reindex"
  /\ links' = IF eff[h] # <<>> THEN links
              ELSE links \cup {<<h, r.post>> : r \in {q \in records : q.run # h /\ Findable(h, q)}}
  /\ unlinked' = unlinked \ {h} /\ AfterLinks(h)
  /\ UNCHANGED <<terms, asked, localVars, attempts, records, harvestFaults, dropped, assumed>>

\* reindex_existing_records links what other runs have stored.
HReindex(h) ==
  /\ hpc[h] = "reindex"
  /\ links' = links \cup {<<h, r.post>> : r \in {q \in records : q.run # h /\ Findable(h, q)}}
  /\ unlinked' = unlinked \ {h} /\ AfterLinks(h)
  /\ UNCHANGED <<terms, asked, localVars, attempts, records, harvestFaults, dropped, assumed>>

\* Any exception of it is logged, and the job goes on.
HReindexLost(h) ==
  /\ hpc[h] = "reindex" /\ HarvestFault
  /\ unlinked' = unlinked \cup {h} /\ AfterLinks(h)
  /\ UNCHANGED <<terms, asked, localVars, tables, dropped, assumed>>

\* record_collection_attempts_batch: all terms, with the dates of the request.
HRecord(h) ==
  /\ hpc[h] = "record"
  /\ attempts' = attempts \cup
       [term : terms[h], from : {asked[h][1]}, to : {asked[h][2]}, old : {FALSE}]
  /\ hpc' = [hpc EXCEPT ![h] = "done"]
  /\ UNCHANGED <<terms, asked, localVars, records, links, harvestFaults, history>>

\* A database error is logged and the attempts are not recorded.
HRecordLost(h) ==
  /\ hpc[h] = "record" /\ HarvestFault
  /\ hpc' = [hpc EXCEPT ![h] = "done"]
  /\ UNCHANGED <<terms, asked, localVars, tables, history>>

\* The worker is lost and the message redelivered, or a rate limit makes
\* Celery retry: the job starts over with an empty collector.
HRestart(h) ==
  /\ hpc[h] \in {"check", "search", "flush", "reindex", "record"} /\ HarvestFault
  /\ hpc' = [hpc EXCEPT ![h] = "check"]
  /\ eff' = [eff EXCEPT ![h] = <<>>] /\ togo' = [togo EXCEPT ![h] = terms[h]]
  /\ emitted' = [emitted EXCEPT ![h] = {}] /\ buffer' = [buffer EXCEPT ![h] = <<>>]
  /\ UNCHANGED <<terms, asked, tables, history>>

\* 90 days go by: no attempt is recent any more.
HAge ==
  /\ \E a \in attempts : ~a.old
  /\ attempts' = {[a EXCEPT !.old = TRUE] : a \in attempts}
  /\ UNCHANGED <<hpc, terms, asked, localVars, records, links, harvestFaults, history>>

-----------------------------------------------------------------------------

Harvest(h) ==
  \/ \E t \in terms[h] : HCheck(h, t) \/ HTermDone(h, t) \/ \E p \in Posts : HEmit(h, t, p)
  \/ HChecked(h) \/ HStore(h) \/ HStoreDropped(h) \/ HFlushed(h) \/ HFlushLost(h)
  \/ HReindex(h) \/ HReindexLost(h) \/ HRecord(h) \/ HRecordLost(h) \/ HRestart(h)

CoverageNext ==
  \/ \E h \in Harvests :
       Harvest(h) \/ \E ts \in TermSets, range \in Requests : HBegin(h, ts, range)
  \/ HAge

CoverageSpec == CoverageInit /\ [][CoverageNext]_coverageVars

-----------------------------------------------------------------------------
(* Properties *)

\* It is nobody's job to get this post any more: its text is there, or its
\* insert failed, or a check passed it over between what was collected.
Settled(p) == Known(p) \/ p.text \in dropped \/ p \in assumed

\* The module coverage_checker: "If empty, the range is fully covered -- skip
\* the API call."  What a job does not search for because it was collected
\* before is in the database: every post of its terms outside the narrowed
\* dates that some job's attempt was recorded for, through failed flushes, lost
\* workers, retries and checks of other jobs at any moment.  It is there by its
\* text; what persist_collected_records dropped is not, although the attempt
\* says so, and neither need be what lies between two attempts, or between two
\* records.
CoveredIsStored ==
  \A h \in Harvests :
    hpc[h] \in {"search", "flush", "reindex", "record"} =>
      \A p \in Relevant(h) : (eff[h] # <<>> /\ In(p.at, eff[h])) \/ Settled(p)

\* The run of a completed job shows every post of its terms and dates that is
\* there: it stored the record, or is linked to one that another run stored,
\* also when several runs collect the same posts at the same time and whatever
\* had to be repeated.  Not so if the look for old records failed, or if the
\* record that kept its own from being inserted was stored for other terms.
RunSeesAll ==
  \A h \in Harvests \ unlinked :
    hpc[h] = "done" =>
      \A p \in Relevant(h) :
        \/ p.text \in dropped \/ p \in assumed
        \/ \E r \in records : /\ r.post.text = p.text
                             /\ (r.run = h \/ <<h, r.post>> \in links \/ ~Findable(h, r))

=============================================================================
