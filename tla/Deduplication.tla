----------------------------- MODULE Deduplication -----------------------------
(***************************************************************************)
(* deduplicate_run: the pass over the records of one run that marks, in     *)
(* raw_metadata.duplicate_of, every copy but one of a page (same address)   *)
(* and of a text (same hash on another platform or arena).  Every view and  *)
(* analysis leaves the marked records out.                                  *)
(*                                                                         *)
(* Passes over one run may overlap, records of the run may still arrive,    *)
(* and the nightly retention deletes what was collected first.  A pass is   *)
(* one transaction: it reads twice, and its marks appear when it commits.   *)
(* A user may meanwhile fetch the page of a record, which writes back the    *)
(* whole of raw_metadata as it was before the page was awaited, the mark or   *)
(* its absence with it.                                                      *)
(***************************************************************************)
EXTENDS Integers, Sequences

CONSTANTS
  Ids,        \* record identifiers, in their order
  Kinds,      \* [run, url, hash, arena] of a record; url and hash may be NoValue
  NoValue,
  Passes,     \* tasks
  Readers     \* requests to fetch the page of a record

ASSUME DedupAssumption ==
  /\ Ids \subseteq Nat /\ NoValue \notin Ids
  /\ \A k \in Kinds : {"run", "url", "hash", "arena"} \subseteq DOMAIN k

VARIABLES
  info,       \* id -> what the record with this id is
  arrived,    \* ids in the order of collected_at
  deleted,    \* how many of them retention has deleted
  mark,       \* id -> duplicate_of, or NoValue
  fetching,   \* reader -> the record whose page it awaits, or NoValue
  oldMark,    \* reader -> the mark it has read
  cleared,    \* history: records whose mark a reader has overwritten, and that
              \*   have not been marked since
  dpc,        \* pass -> step
  dedupRun,   \* pass -> the run it works on
  updates,    \* pass -> id -> its uncommitted mark, or NoValue
  found,      \* history: pass -> records collected before its first read
  swept       \* history: run -> records collected before that of a committed pass

recordVars == <<info, arrived, deleted, mark, cleared>>
readerVars == <<fetching, oldMark>>
passVars == <<dpc, dedupRun, updates, found, swept>>
dedupVars == <<recordVars, readerVars, passVars>>

RunIds == {k.run : k \in Kinds}

Stored == {arrived[n] : n \in deleted + 1 .. Len(arrived)}
Unmarked == [i \in Ids |-> NoValue]

DedupTypeOK ==
  /\ info \in [Ids -> Kinds]
  /\ arrived \in Seq(Ids) /\ deleted \in 0 .. Len(arrived)
  /\ mark \in [Ids -> Ids \cup {NoValue}]
  /\ fetching \in [Readers -> Ids \cup {NoValue}] /\ oldMark \in [Readers -> Ids \cup {NoValue}]
  /\ cleared \subseteq Ids
  /\ dpc \in [Passes -> {"idle", "hash", "commit"}]
  /\ dedupRun \in [Passes -> RunIds \cup {NoValue}]
  /\ updates \in [Passes -> [Ids -> Ids \cup {NoValue}]]
  /\ found \in [Passes -> 0 .. Len(arrived)]
  /\ swept \in [RunIds -> 0 .. Len(arrived)]

DedupInit ==
  /\ info \in [Ids -> Kinds]
  /\ arrived = <<>> /\ deleted = 0
  /\ mark = Unmarked /\ cleared = {}
  /\ fetching = [f \in Readers |-> NoValue] /\ oldMark = [f \in Readers |-> NoValue]
  /\ dpc = [p \in Passes |-> "idle"]
  /\ dedupRun = [p \in Passes |-> NoValue]
  /\ updates = [p \in Passes |-> Unmarked]
  /\ found = [p \in Passes |-> 0] /\ swept = [r \in RunIds |-> 0]

-----------------------------------------------------------------------------
(* The groups *)

SamePage(run, i, j) ==
  /\ info[i].run = run /\ info[j].run = run
  /\ info[i].url # NoValue /\ info[j].url = info[i].url

SameText(run, i, j) ==
  /\ info[i].run = run /\ info[j].run = run
  /\ info[i].hash # NoValue /\ info[j].hash = info[i].hash

\* id -> the records of its group, itself among them.
Pages(run) == [i \in Ids |-> {j \in Stored : i \in Stored /\ SamePage(run, i, j)}]
Texts(run) == [i \in Ids |-> {j \in Stored : i \in Stored /\ SameText(run, i, j)}]

\* Copies inside one arena are left to the unique constraint.
Arenas(group) == {info[i].arena : i \in group}
CrossArena(groups) == [i \in Ids |-> IF Arenas(groups[i]) \in {{info[i].arena}} THEN {} ELSE groups[i]]

\* The copy that stays.
Lowest(group) == CHOOSE i \in group : \A j \in group : i <= j

\* The marks after every group has been marked: all but the copy that stays.
Marked(groups, marks) ==
  [i \in Ids |-> IF \E j \in groups[i] : j < i THEN Lowest(groups[i]) ELSE marks[i]]

-----------------------------------------------------------------------------
(* The pass *)

\* The first read, and the marks of every group of one address.
DPages(p, run) ==
  /\ dpc[p] = "idle"
  /\ dpc' = [dpc EXCEPT ![p] = "hash"]
  /\ dedupRun' = [dedupRun EXCEPT ![p] = run]
  /\ updates' = [updates EXCEPT ![p] = Marked(Pages(run), Unmarked)]
  /\ found' = [found EXCEPT ![p] = Len(arrived)]
  /\ UNCHANGED <<recordVars, readerVars, swept>>

\* (faulty: of the copies of a text the one collected first stays)
DTextsFirst(p) ==
  LET groups == CrossArena(Texts(dedupRun[p]))
      At(i) == CHOOSE n \in 1 .. Len(arrived) : arrived[n] = i
      First(group) == CHOOSE i \in group : \A j \in group : At(i) <= At(j)
  IN
  /\ dpc[p] = "hash"
  /\ dpc' = [dpc EXCEPT ![p] = "commit"]
  /\ updates' = [updates EXCEPT ![p] =
       [i \in Ids |-> IF groups[i] # {} /\ First(groups[i]) # i THEN First(groups[i]) ELSE @[i]]]
  /\ UNCHANGED <<recordVars, readerVars, dedupRun, found, swept>>

\* The second read; the mark of a text replaces the mark of an address.
DTexts(p) ==
  /\ dpc[p] = "hash"
  /\ dpc' = [dpc EXCEPT ![p] = "commit"]
  /\ updates' = [updates EXCEPT ![p] = Marked(CrossArena(Texts(dedupRun[p])), @)]
  /\ UNCHANGED <<recordVars, readerVars, dedupRun, found, swept>>

\* The transaction is over.
Forget(p) ==
  /\ dpc' = [dpc EXCEPT ![p] = "idle"]
  /\ dedupRun' = [dedupRun EXCEPT ![p] = NoValue]
  /\ updates' = [updates EXCEPT ![p] = Unmarked]
  /\ found' = [found EXCEPT ![p] = 0]

\* Those of the records S that are shown from now on.
Shown(S) == {i \in S : mark'[i] = NoValue}

\* (faulty: the pass rewrites the marks of all records of its run)
DCommitFresh(p) ==
  /\ dpc[p] = "commit"
  /\ mark' = [i \in Ids |-> IF i \in Stored /\ info[i].run = dedupRun[p] THEN updates[p][i] ELSE mark[i]]
  /\ swept' = [swept EXCEPT ![dedupRun[p]] = IF found[p] > @ THEN found[p] ELSE @]
  /\ cleared' = Shown(cleared)
  /\ Forget(p)
  /\ UNCHANGED <<info, arrived, deleted, readerVars>>

\* The commit.  What retention has deleted meanwhile is not updated any more.
DCommit(p) ==
  /\ dpc[p] = "commit"
  /\ mark' = [i \in Ids |-> IF i \in Stored /\ updates[p][i] # NoValue THEN updates[p][i] ELSE mark[i]]
  /\ swept' = [swept EXCEPT ![dedupRun[p]] = IF found[p] > @ THEN found[p] ELSE @]
  /\ cleared' = Shown(cleared)
  /\ Forget(p)
  /\ UNCHANGED <<info, arrived, deleted, readerVars>>

\* A lost worker, a database error, two passes that lock each other's rows.
DLost(p) ==
  /\ dpc[p] \in {"hash", "commit"}
  /\ Forget(p)
  /\ UNCHANGED <<recordVars, readerVars, swept>>

-----------------------------------------------------------------------------
(* The table *)

\* A collecting job stores a record.
DArrive(i) ==
  /\ \A n \in 1 .. Len(arrived) : arrived[n] # i
  /\ arrived' = Append(arrived, i)
  /\ UNCHANGED <<info, deleted, mark, cleared, readerVars, passVars>>

\* enforce_retention: everything collected before a point of time.
DRetention(n) ==
  /\ n \in deleted + 1 .. Len(arrived)
  /\ deleted' = n
  /\ UNCHANGED <<info, arrived, mark, cleared, readerVars, passVars>>

\* fetch_content reads the record, and awaits its page.
DFetch(f, i) ==
  /\ fetching[f] = NoValue /\ i \in Stored
  /\ fetching' = [fetching EXCEPT ![f] = i]
  /\ oldMark' = [oldMark EXCEPT ![f] = mark[i]]
  /\ UNCHANGED <<recordVars, passVars>>

FetchOver(f) ==
  /\ fetching' = [fetching EXCEPT ![f] = NoValue]
  /\ oldMark' = [oldMark EXCEPT ![f] = NoValue]

\* The page is there: the metadata it has read is written back, if the record
\* is still there.
DWriteBack(f) ==
  LET i == fetching[f] IN
  /\ i # NoValue
  /\ mark' = IF i \in Stored THEN [mark EXCEPT ![i] = oldMark[f]] ELSE mark
  /\ cleared' = Shown(cleared \cup {j \in {i} : mark[j] # NoValue})
  /\ FetchOver(f)
  /\ UNCHANGED <<info, arrived, deleted, passVars>>

\* No page, or no text in it.
DNoPage(f) ==
  /\ fetching[f] # NoValue
  /\ FetchOver(f)
  /\ UNCHANGED <<recordVars, passVars>>

-----------------------------------------------------------------------------

DedupNext ==
  \/ \E p \in Passes :
       \/ \E run \in RunIds : DPages(p, run)
       \/ DTexts(p) \/ DCommit(p) \/ DLost(p)
  \/ \E i \in Ids : DArrive(i)
  \/ \E n \in 1 .. Len(arrived) : DRetention(n)
  \/ \E f \in Readers : (\E i \in Ids : DFetch(f, i)) \/ DWriteBack(f) \/ DNoPage(f)

DedupSpec == DedupInit /\ [][DedupNext]_dedupVars

-----------------------------------------------------------------------------
(* Properties *)

\* Whatever records refer to each other as copies, one of them is shown:
\* overlapping passes that have read different records, the two passes over
\* addresses and texts, and fetched pages that bring back an earlier mark,
\* never mark records in a circle.  Copies whose
\* original has been deleted by retention are not covered: their marks lead
\* to nothing, and they stay hidden.
OneCopyShown ==
  \A S \in SUBSET Stored :
    S # {} /\ (\A i \in S : mark[i] # NoValue => mark[i] \in S) =>
      \E i \in S : mark[i] = NoValue

\* A record that is hidden, or was until a fetched page overwrote its mark.
KeptFrom(i) == mark[i] # NoValue \/ i \in cleared

\* What a pass has hidden is shown again only by a user who had asked for its
\* page before: of two records of a run with the same address, both collected
\* before a committed pass began, never are both shown, also when a pass that
\* read less commits after one that read more, and whatever retention deletes,
\* unless the mark of one was overwritten by a page fetched meanwhile, and no
\* pass has marked it since.
CopiesStayHidden ==
  \A run \in RunIds : \A n, m \in deleted + 1 .. swept[run] :
    n # m /\ SamePage(run, arrived[n], arrived[m]) =>
      KeptFrom(arrived[n]) \/ KeptFrom(arrived[m])

=============================================================================
