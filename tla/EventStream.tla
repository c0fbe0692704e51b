----------------------------- MODULE EventStream ------------------------------
(***************************************************************************)
(* What a browser learns of one run: GET /collections/{id}/stream, the     *)
(* Redis channel collection:{id}, and those who publish on it.              *)
(*                                                                         *)
(*   J...     the jobs of one arena (terms and actors share its task row),  *)
(*            which write the row and publish what they wrote; a job begins  *)
(*            again after a rate limit or when its worker is lost            *)
(*   E...     whoever ends the run, and publishes that                       *)
(*   V...     a viewer: the handler loads the run, its generator reads the  *)
(*            task rows, subscribes, and forwards until run_complete          *)
(*                                                                         *)
(* Publishing reaches those who are subscribed at that moment and is lost   *)
(* silently when Redis fails.  Keepalives change nothing and are left out,  *)
(* as are the counters the messages carry.  "finished" stands for completed  *)
(* and failed.                                                               *)
(***************************************************************************)
EXTENDS Integers, FiniteSets, Sequences

CONSTANTS
  Viewers,         \* open pages
  ArenaJobs,       \* the jobs that share the task row
  Enders,          \* completion checker, cancel request, stale-run cleanup
  MaxConnects,     \* bound: connections of a page
  MaxSaid,         \* bound: times a job announces that it is running
  MaxStreamFaults  \* bound: Redis failures, failed writes, lost processes

ASSUME StreamAssumption ==
  /\ IsFiniteSet(Viewers) /\ MaxConnects \in Nat
  /\ MaxSaid \in Nat /\ MaxStreamFaults \in Nat

VARIABLES
  runState,     \* CollectionRun.status: "running", or it has ended
  taskState,    \* CollectionTask.status of the one arena
  step,         \* job -> "queued", "working" or "gone"
  unsaid,       \* job -> the status it is about to publish
  said,         \* announcements that a job is running so far
  astray,       \* the row went back, or a job was about to publish what the
                \*   row is not, or is no more (history)
  epc,          \* ender -> step
  vpc, loaded,  \* viewer -> step, the run's status its handler read
  channel,      \* viewer -> messages its subscription has received
  view,         \* viewer -> the task status on its page
  connects,     \* viewer -> connections so far
  streamFaults

viewVars == <<vpc, loaded, channel, view, connects>>
jobVars == <<taskState, step, unsaid, said, astray>>
streamVars == <<runState, jobVars, epc, viewVars, streamFaults>>

\* How far a task is that shows the status s.
RankOf(s) ==
  CASE s = "none" -> 0 [] s = "pending" -> 1 [] s = "running" -> 2 [] OTHER -> 3
EndEvent == "run_complete"

StreamTypeOK ==
  /\ runState \in {"running", "ended"}
  /\ taskState \in {"pending", "running", "finished", "cancelled"}
  /\ step \in [ArenaJobs -> {"queued", "working", "gone"}]
  /\ unsaid \in [ArenaJobs -> {"none", "running", "finished"}]
  /\ said \in Nat /\ astray \in BOOLEAN
  /\ epc \in [Enders -> {"watching", "deciding", "committed", "done"}]
  /\ vpc \in [Viewers -> {"away", "loaded", "snapshot", "subscribed", "closed"}]
  /\ loaded \in [Viewers -> {"none", "running", "ended"}]
  /\ channel \in [Viewers -> Seq({"running", "finished", EndEvent})]
  /\ view \in [Viewers -> {"none", "pending", "running", "finished", "cancelled"}]
  /\ connects \in [Viewers -> Nat] /\ streamFaults \in 0 .. MaxStreamFaults

StreamInit ==
  /\ runState = "running" /\ taskState = "pending"
  /\ step = [j \in ArenaJobs |-> "queued"] /\ unsaid = [j \in ArenaJobs |-> "none"]
  /\ said = 0 /\ astray = FALSE
  /\ epc = [e \in Enders |-> "watching"]
  /\ vpc = [v \in Viewers |-> "away"] /\ loaded = [v \in Viewers |-> "none"]
  /\ channel = [v \in Viewers |-> <<>>] /\ view = [v \in Viewers |-> "none"]
  /\ connects = [v \in Viewers |-> 0] /\ streamFaults = 0

StreamFault == streamFaults < MaxStreamFaults /\ streamFaults' = streamFaults + 1

\* r.publish: into every subscription there is now.
Publish(m) ==
  channel' = [v \in Viewers |-> IF vpc[v] = "subscribed" THEN Append(channel[v], m) ELSE channel[v]]

-----------------------------------------------------------------------------
(* The jobs *)

\* What the history is told by everything that writes the row, or is going to
\* publish.
Recall ==
  astray' = \/ astray
            \/ RankOf(taskState') < RankOf(taskState)
            \/ \E j \in ArenaJobs : /\ unsaid'[j] # "none"
                                    /\ RankOf(unsaid'[j]) # RankOf(taskState')

\* _update_task_status: whatever the row says, unless it was cancelled.
Write(s) == taskState' = IF taskState = "cancelled" THEN taskState ELSE s

Goes(j, pc, s) ==
  step' = [step EXCEPT ![j] = pc] /\ unsaid' = [unsaid EXCEPT ![j] = s] /\ Recall

SaysAgain == said < MaxSaid /\ said' = said + 1

\* The message is taken, for the first time or again.
JBegins(j) ==
  /\ step[j] = "queued" /\ SaysAgain
  /\ Write("running") /\ Goes(j, "working", "running")
  /\ UNCHANGED <<runState, epc, viewVars, streamFaults>>

\* A progress report in between, which writes no row.
JProgresses(j) ==
  /\ step[j] = "working" /\ unsaid[j] = "none" /\ SaysAgain
  /\ UNCHANGED taskState /\ Goes(j, "working", "running")
  /\ UNCHANGED <<runState, epc, viewVars, streamFaults>>

\* It completes, or fails (at once, if the arena knows no search for terms).
JFinishes(j) ==
  /\ step[j] \in {"queued", "working"} /\ unsaid[j] = "none"
  /\ Write("finished") /\ Goes(j, "gone", "finished")
  /\ UNCHANGED <<runState, said, epc, viewVars, streamFaults>>

\* The write fails, which is logged; the publication follows.
JUnwritten(j) ==
  /\ step[j] \in {"queued", "working"} /\ unsaid[j] = "none" /\ StreamFault
  /\ UNCHANGED taskState
  /\ Goes(j, IF step[j] = "queued" THEN "working" ELSE "gone",
             IF step[j] = "queued" THEN "running" ELSE "finished")
  /\ UNCHANGED <<runState, said, epc, viewVars>>

\* A rate limit: the job is sent again.
JAgain(j) ==
  /\ step[j] = "working" /\ unsaid[j] = "none"
  /\ UNCHANGED taskState /\ Goes(j, "queued", "none")
  /\ UNCHANGED <<runState, said, epc, viewVars, streamFaults>>

\* The worker is lost: the message is delivered again.
JWorkerLost(j) ==
  /\ step[j] = "working" /\ StreamFault
  /\ UNCHANGED taskState /\ Goes(j, "queued", "none")
  /\ UNCHANGED <<runState, said, epc, viewVars>>

\* publish_task_update: whether or not the row was written.
JPublish(j) ==
  /\ unsaid[j] # "none"
  /\ unsaid' = [unsaid EXCEPT ![j] = "none"]
  /\ Publish(unsaid[j])
  /\ UNCHANGED <<runState, taskState, step, said, astray, epc, vpc, loaded, view, connects, streamFaults>>

JPublishLost(j) ==
  /\ unsaid[j] # "none" /\ StreamFault
  /\ unsaid' = [unsaid EXCEPT ![j] = "none"]
  /\ UNCHANGED <<runState, taskState, step, said, astray, epc, viewVars>>

ArenaJob(j) ==
  \/ JBegins(j) \/ JProgresses(j) \/ JFinishes(j) \/ JAgain(j) \/ JPublish(j)
  \/ JUnwritten(j) \/ JWorkerLost(j) \/ JPublishLost(j)

-----------------------------------------------------------------------------
(* Who ends the task and the run *)

\* The completion checker fails a row that is pending or running for too long.
\* Nobody publishes that.
ESweep ==
  /\ taskState \in {"pending", "running"}
  /\ taskState' = "finished"
  /\ UNCHANGED <<runState, step, unsaid, said, epc, viewVars, streamFaults>> /\ Recall

\* (faulty: the event is sent before the commit)
EDecideAnnounced(e) ==
  /\ epc[e] = "watching" /\ runState = "running"
  /\ epc' = [epc EXCEPT ![e] = "deciding"]
  /\ Publish(EndEvent)
  /\ UNCHANGED <<runState, jobVars, vpc, loaded, view, connects, streamFaults>>

\* Whoever ends the run has read that it is open, and commits later.
EDecide(e) ==
  /\ epc[e] = "watching" /\ runState = "running"
  /\ epc' = [epc EXCEPT ![e] = "deciding"]
  /\ UNCHANGED <<runState, jobVars, viewVars, streamFaults>>

\* The cleanup also fails the open task rows, a cancel request cancels them.
EEnd(e) ==
  /\ epc[e] = "deciding"
  /\ runState' = "ended"
  /\ \/ UNCHANGED taskState
     \/ taskState \in {"pending", "running"} /\ taskState' \in {"finished", "cancelled"}
  /\ epc' = [epc EXCEPT ![e] = "committed"]
  /\ UNCHANGED <<step, unsaid, said, viewVars, streamFaults>> /\ Recall

\* (faulty: a run that is ended twice is announced by nobody but the last)
EAnnounceLast(e) ==
  /\ epc[e] = "committed"
  /\ epc' = [epc EXCEPT ![e] = "done"]
  /\ IF \E d \in Enders \ {e} : epc[d] = "watching"
     THEN UNCHANGED channel ELSE Publish(EndEvent)
  /\ UNCHANGED <<runState, jobVars, vpc, loaded, view, connects, streamFaults>>

\* publish_run_complete, after the commit.
EAnnounce(e) ==
  /\ epc[e] = "committed"
  /\ epc' = [epc EXCEPT ![e] = "done"]
  /\ Publish(EndEvent)
  /\ UNCHANGED <<runState, jobVars, vpc, loaded, view, connects, streamFaults>>

\* Redis fails, or the worker is lost between commit and event.
EAnnounceLost(e) ==
  /\ epc[e] = "committed" /\ StreamFault
  /\ epc' = [epc EXCEPT ![e] = "done"]
  /\ UNCHANGED <<runState, jobVars, viewVars>>

Ender(e) == EDecide(e) \/ EEnd(e) \/ EAnnounce(e)

-----------------------------------------------------------------------------
(* The stream *)

\* The page is opened, or the browser connects again.
VConnect(v) ==
  /\ vpc[v] = "away" /\ connects[v] < MaxConnects
  /\ loaded' = [loaded EXCEPT ![v] = runState]
  /\ connects' = [connects EXCEPT ![v] = @ + 1]
  /\ vpc' = [vpc EXCEPT ![v] = "loaded"]
  /\ UNCHANGED <<runState, jobVars, epc, channel, view, streamFaults>>

\* 1. The task rows, read again by the generator.  2. If the status loaded
\* before is terminal: run_complete, which closes the page's connection.
VSnapshot(v) ==
  /\ vpc[v] = "loaded"
  /\ view' = [view EXCEPT ![v] = taskState]
  /\ vpc' = [vpc EXCEPT ![v] = IF loaded[v] = "ended" THEN "closed" ELSE "snapshot"]
  /\ UNCHANGED <<runState, jobVars, epc, loaded, channel, connects, streamFaults>>

\* 3. pubsub.subscribe
VSubscribe(v) ==
  /\ vpc[v] = "snapshot"
  /\ vpc' = [vpc EXCEPT ![v] = "subscribed"]
  /\ UNCHANGED <<runState, jobVars, epc, loaded, channel, view, connects, streamFaults>>

VForward(v) ==
  LET m == Head(channel[v]) IN
  /\ vpc[v] = "subscribed" /\ channel[v] # <<>>
  /\ IF m = EndEvent
     THEN /\ vpc' = [vpc EXCEPT ![v] = "closed"]
          /\ channel' = [channel EXCEPT ![v] = <<>>]
          /\ UNCHANGED view
     ELSE /\ view' = [view EXCEPT ![v] = m]
          /\ channel' = [channel EXCEPT ![v] = Tail(@)]
          /\ UNCHANGED vpc
  /\ UNCHANGED <<runState, jobVars, epc, loaded, connects, streamFaults>>

\* (faulty: the subscription outlives the connection and is used again)
VDropKept(v) ==
  /\ vpc[v] \in {"loaded", "snapshot", "subscribed"}
  /\ vpc' = [vpc EXCEPT ![v] = "away"]
  /\ UNCHANGED <<runState, jobVars, epc, loaded, channel, view, connects, streamFaults>>

\* The connection breaks; what the subscription held is gone.
VDrop(v) ==
  /\ vpc[v] \in {"loaded", "snapshot", "subscribed"}
  /\ vpc' = [vpc EXCEPT ![v] = "away"]
  /\ channel' = [channel EXCEPT ![v] = <<>>]
  /\ UNCHANGED <<runState, jobVars, epc, loaded, view, connects, streamFaults>>

Viewer(v) == VConnect(v) \/ VSnapshot(v) \/ VSubscribe(v) \/ VForward(v)

-----------------------------------------------------------------------------

StreamNext ==
  \/ \E j \in ArenaJobs : ArenaJob(j)
  \/ ESweep
  \/ \E e \in Enders : Ender(e) \/ EAnnounceLost(e)
  \/ \E v \in Viewers : Viewer(v) \/ VDrop(v)

StreamSpec == StreamInit /\ [][StreamNext]_streamVars

-----------------------------------------------------------------------------
(* Properties *)

\* What a page shows of a task never goes back to an earlier step, over
\* snapshots, messages and reconnections in any order, as long as the row does
\* not go back and jobs publish what the row says: it is read before the channel
\* is subscribed to, and it is as it is published until it has been.  The row
\* does go back, and the page with it, when a job begins again, or the second
\* job of the arena begins, after the row was completed, failed or cancelled;
\* and a publication comes too late when a sweep, the end of the run or the
\* other job closes the row between write and publication, or when the write
\* fails.
ViewsNeverGoBack ==
  [][~astray => \A v \in Viewers : RankOf(view[v]) <= RankOf(view'[v])]_streamVars

\* A page is told that the run is over, and stops listening, only after the
\* end is committed: what it fetches then is final.
NoEarlyClose == \A v \in Viewers : vpc[v] = "closed" => runState = "ended"

\* A viewer that had subscribed before the run ended learns of the end, if
\* nothing is lost on the way and its connection holds -- however many end the
\* run at the same time.
SubscribersSeeTheEnd ==
  \A v \in Viewers :
    (vpc[v] = "subscribed" /\ runState = "running") ~> (vpc[v] # "subscribed" \/ streamFaults > 0)

=============================================================================
