------------------------------- MODULE RecordText -------------------------------
(***************************************************************************)
(* Who rewrites a stored record: fetch_content, which replaces the text of  *)
(* a search result by the page a user asked for; the scraper, which does so  *)
(* for the records of its job; and everything that adds a key of its own to   *)
(* raw_metadata - enrichments, duplicate marks.                               *)
(*                                                                         *)
(* Additions, and the scraper's update, are single statements over the row as *)
(* it is.  fetch_content reads the row, awaits the page, and writes back the  *)
(* whole of raw_metadata as it was when it read it.  Nothing locks the row.   *)
(***************************************************************************)
EXTENDS Naturals

CONSTANTS
  MetaKeys,       \* what others add to raw_metadata
  Fetches,        \* requests for the page
  Scrapes,        \* jobs that scrape it
  NoText

ASSUME TextAssumption == NoText \notin {"collected", "fetched", "scraped"}

VARIABLES
  body,           \* text_content: where it came from
  snippet,        \* raw_metadata.original_snippet
  summary,        \* raw_metadata.original_summary
  added,          \* other keys of raw_metadata
  fpc, copy,      \* request -> step, the row it has read
  scraped         \* jobs that are done

Texts == {"collected", "fetched", "scraped"}
textVars == <<body, snippet, summary, added, fpc, copy, scraped>>

Row == [body |-> body, snippet |-> snippet, summary |-> summary, added |-> added]
RowTypes == [body : Texts \cup {NoText}, snippet : Texts \cup {NoText},
             summary : Texts \cup {NoText}, added : SUBSET MetaKeys]

TextTypeOK ==
  /\ Row \in RowTypes
  /\ fpc \in [Fetches -> {"idle", "waiting", "done"}]
  /\ copy \in [Fetches -> RowTypes]
  /\ scraped \subseteq Scrapes

\* A collected record with a text.
TextInit ==
  /\ body = "collected" /\ snippet = NoText /\ summary = NoText /\ added = {}
  /\ fpc = [f \in Fetches |-> "idle"]
  /\ copy = [f \in Fetches |-> Row]
  /\ scraped = {}

-----------------------------------------------------------------------------

\* The request reads the row, and awaits the page.
FRead(f) ==
  /\ fpc[f] = "idle"
  /\ fpc' = [fpc EXCEPT ![f] = "waiting"]
  /\ copy' = [copy EXCEPT ![f] = Row]
  /\ UNCHANGED <<body, snippet, summary, added, scraped>>

\* No page, or no text in it.
FNothing(f) ==
  /\ fpc[f] = "waiting"
  /\ fpc' = [fpc EXCEPT ![f] = "done"]
  /\ UNCHANGED <<body, snippet, summary, added, copy, scraped>>

\* (faulty: the text that is replaced becomes the snippet every time)
FWriteAlways(f) ==
  /\ fpc[f] = "waiting"
  /\ fpc' = [fpc EXCEPT ![f] = "done"]
  /\ body' = "fetched"
  /\ snippet' = IF copy[f].body # NoText THEN copy[f].body ELSE copy[f].snippet
  /\ summary' = copy[f].summary /\ added' = copy[f].added
  /\ UNCHANGED <<copy, scraped>>

\* The row as it was read, with the text of the page; the text it had becomes
\* the snippet, unless there is one.
FWrite(f) ==
  /\ fpc[f] = "waiting"
  /\ fpc' = [fpc EXCEPT ![f] = "done"]
  /\ body' = "fetched"
  /\ snippet' = IF copy[f].body # NoText /\ copy[f].snippet = NoText
                THEN copy[f].body ELSE copy[f].snippet
  /\ summary' = copy[f].summary /\ added' = copy[f].added
  /\ UNCHANGED <<copy, scraped>>

\* _update_content_record_v2.  There may be no text in the page.
Scrape(s) ==
  /\ s \notin scraped /\ scraped' = scraped \cup {s}
  /\ body' \in {"scraped", NoText}
  /\ summary' = IF summary = NoText THEN body ELSE summary
  /\ UNCHANGED <<snippet, added, fpc, copy>>

\* write_enrichment_batch, the marks of the duplicates: jsonb_set.
Add(k) ==
  /\ added' = added \cup {k}
  /\ UNCHANGED <<body, snippet, summary, fpc, copy, scraped>>

-----------------------------------------------------------------------------

TextNext ==
  \/ \E f \in Fetches : FRead(f) \/ FNothing(f) \/ FWrite(f)
  \/ \E s \in Scrapes : Scrape(s)
  \/ \E k \in MetaKeys : Add(k)

TextSpec == TextInit /\ [][TextNext]_textVars

-----------------------------------------------------------------------------
(* Properties *)

\* "The original text_content (if any) is preserved": whatever requests and
\* jobs overlap, and whatever stale copies are written back, the text that was
\* collected is in one of its three places.
CollectedTextKept == "collected" \in {body, snippet, summary}

=============================================================================
