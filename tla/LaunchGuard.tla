----------------------------- MODULE LaunchGuard ------------------------------
(***************************************************************************)
(* The runs of one query design, as everything that launches and steers    *)
(* them sees them:                                                         *)
(*                                                                         *)
(*   G  POST /collections/          a batch run, or a live run: the         *)
(*                                  duplicate-run guard and the insert     *)
(*      POST /live-tracking/start   a backfill run, then a live run, both  *)
(*                                  through the same guard, after a look   *)
(*                                  at the live runs there are             *)
(*   B  batch orchestration         (BatchRun, here only begin and end)     *)
(*   U  POST /{id}/suspend, /resume, /cancel                                *)
(*   D  trigger_daily_collection    (beat, midnight)                        *)
(*                                                                         *)
(* A request reads the rows it decides on, and commits later.  The query    *)
(* design has one owner; what the run costs is in CreditLedger, here a      *)
(* launch may be refused for lack of credits.                               *)
(***************************************************************************)
EXTENDS Integers, FiniteSets

CONSTANTS
  MaxRuns,        \* bound: collection_runs rows of the query design
  Launchers,      \* create and start requests in flight at the same time
  Clickers,       \* suspend, resume and cancel requests
  Balances,       \* what get_available_credits may return, -1 is unlimited
  MaxLaunchFaults \* bound: lost messages, lost processes, database errors

ASSUME LaunchAssumption ==
  /\ MaxRuns \in Nat /\ IsFiniteSet(Launchers)
  /\ Balances \subseteq Int /\ MaxLaunchFaults \in Nat

LaunchRuns == 1 .. MaxRuns
Nobody == 0

VARIABLES
  mode,       \* run -> "batch" or "live", "none" before it is inserted
  state,      \* run -> CollectionRun.status
  queued,     \* runs whose dispatch message is in the queue
  gap,        \* the completed batch runs do not reach up to yesterday
  gpc, goal,  \* launcher -> step, the run it is about to insert: one that a
              \*   create request is for ("batch", "live"), or one of those a
              \*   start request is for ("backfill", then "tracked")
  ask,        \* clicker -> the request it has accepted
  due,        \* live runs trigger_daily_collection has fetched
  balance,    \*   and the credits of their owner at that time
  reopened,   \* runs that were set going again after their end (history)
  started,    \* live runs that start requests have inserted (history)
  launchFaults

launchVars == <<mode, state, queued, gap, gpc, goal, ask, due, balance,
                reopened, started, launchFaults>>
gVars == <<gpc, goal>>
dVars == <<due, balance>>

Ended == {"completed", "failed", "cancelled"}
Open  == {r \in LaunchRuns : state[r] \in {"pending", "running"}}
Live  == {r \in LaunchRuns : mode[r] = "live" /\ state[r] \in {"active", "suspended", "pending"}}

\* The goals whose run is a live one.
Goals == {"batch", "live", "backfill", "tracked"}
LiveGoals == {"live", "tracked"}

Verbs == {"suspend", "resume", "cancel"}
NoAsk == [verb |-> "none", run |-> Nobody]

LaunchTypeOK ==
  /\ mode \in [LaunchRuns -> {"none", "batch", "live"}]
  /\ state \in [LaunchRuns -> {"none", "pending", "running", "active", "suspended"} \cup Ended]
  /\ queued \subseteq LaunchRuns /\ gap \in BOOLEAN
  /\ gpc \in [Launchers -> {"idle", "guard", "insert"}]
  /\ goal \in [Launchers -> {"none"} \cup Goals]
  /\ ask \in [Clickers -> [verb : Verbs, run : LaunchRuns] \cup {NoAsk}]
  /\ due \subseteq LaunchRuns /\ balance \in Int
  /\ reopened \subseteq LaunchRuns /\ started \subseteq LaunchRuns
  /\ launchFaults \in 0 .. MaxLaunchFaults

LaunchInit ==
  /\ mode = [r \in LaunchRuns |-> "none"] /\ state = [r \in LaunchRuns |-> "none"]
  /\ queued = {} /\ gap \in BOOLEAN
  /\ gpc = [l \in Launchers |-> "idle"] /\ goal = [l \in Launchers |-> "none"]
  /\ ask = [u \in Clickers |-> NoAsk]
  /\ due = {} /\ balance = 0
  /\ reopened = {} /\ started = {} /\ launchFaults = 0

LaunchFault == launchFaults < MaxLaunchFaults /\ launchFaults' = launchFaults + 1

\* Every status write goes through here: it sets the column by id.
SetState(r, s) ==
  /\ state' = [state EXCEPT ![r] = s]
  /\ reopened' = IF state[r] \in Ended /\ s \notin Ended THEN reopened \cup {r} ELSE reopened

-----------------------------------------------------------------------------
(* Launching *)

Go(l, pc, g) == gpc' = [gpc EXCEPT ![l] = pc] /\ goal' = [goal EXCEPT ![l] = g]

\* The response is sent.
Respond(l) == Go(l, "idle", "none")

\* create_collection_run refuses or fails: the caller sees the error, except
\* that start_live_tracking swallows it for its backfill run.
GiveUp(l) ==
  IF goal[l] = "backfill" THEN Go(l, "guard", "tracked") ELSE Respond(l)

\* The request says which mode the run is to have; live runs are not looked at.
GCreate(l) ==
  /\ gpc[l] = "idle"
  /\ \E g \in {"batch", "live"} : Go(l, "guard", g)
  /\ UNCHANGED <<mode, started, state, queued, gap, ask, dVars, reopened, launchFaults>>

\* (faulty: a suspended live run is not looked at)
GStartSuspended(l) ==
  /\ gpc[l] = "idle" /\ \A r \in Live : state[r] = "suspended"
  /\ Go(l, "guard", IF gap THEN "backfill" ELSE "tracked")
  /\ UNCHANGED <<mode, started, state, queued, gap, ask, dVars, reopened, launchFaults>>

\* start_live_tracking: no live run yet; a gap asks for a backfill run first.
GStart(l) ==
  /\ gpc[l] = "idle" /\ Live = {}
  /\ Go(l, "guard", IF gap THEN "backfill" ELSE "tracked")
  /\ UNCHANGED <<mode, started, state, queued, gap, ask, dVars, reopened, launchFaults>>

\* (faulty: runs that are not dispatched yet do not count)
GGuardRunning(l) ==
  /\ gpc[l] = "guard"
  /\ IF \A r \in Open : state[r] = "pending" THEN Go(l, "insert", goal[l]) ELSE GiveUp(l)
  /\ UNCHANGED <<mode, started, state, queued, gap, ask, dVars, reopened, launchFaults>>

\* The duplicate-run guard: FOR UPDATE locks the open runs it finds, and has
\* nothing to lock when it finds none.
GGuard(l) ==
  /\ gpc[l] = "guard"
  /\ IF Open = {} THEN Go(l, "insert", goal[l]) ELSE GiveUp(l)
  /\ UNCHANGED <<mode, started, state, queued, gap, ask, dVars, reopened, launchFaults>>

\* 402, or a validation error.
GRefuse(l) ==
  /\ gpc[l] = "insert"
  /\ GiveUp(l)
  /\ UNCHANGED <<mode, started, state, queued, gap, ask, dVars, reopened, launchFaults>>

\* After the insert: on to the live run, or to the response.  The status
\* "active" that start_live_tracking assigns at the end goes to the copy of the
\* row it got back, not to the row.
Inserted(l) == IF goal[l] = "backfill" THEN Go(l, "guard", "tracked") ELSE Respond(l)

\* A fresh identifier.
New(l, r) ==
  /\ gpc[l] = "insert"
  /\ mode[r] = "none" /\ \A q \in LaunchRuns : q < r => mode[q] # "none"
  /\ mode' = [mode EXCEPT ![r] = IF goal[l] \in LiveGoals THEN "live" ELSE "batch"]
  /\ started' = IF goal[l] = "tracked" THEN started \cup {r} ELSE started

\* (faulty: the dispatch message is sent for what users create themselves only)
GInsertQuiet(l, r) ==
  /\ New(l, r) /\ Inserted(l)
  /\ state' = [state EXCEPT ![r] = "pending"]
  /\ queued' = IF goal[l] = "batch" THEN queued \cup {r} ELSE queued
  /\ UNCHANGED <<gap, ask, dVars, reopened, launchFaults>>

\* The row is committed; a batch run is dispatched.
GInsert(l, r) ==
  /\ New(l, r) /\ Inserted(l)
  /\ state' = [state EXCEPT ![r] = "pending"]
  /\ queued' = IF goal[l] \in LiveGoals THEN queued ELSE queued \cup {r}
  /\ UNCHANGED <<gap, ask, dVars, reopened, launchFaults>>

\* The dispatch message is lost; logged as non-fatal.
GInsertUnsent(l, r) ==
  /\ New(l, r) /\ goal[l] \notin LiveGoals /\ Inserted(l) /\ LaunchFault
  /\ state' = [state EXCEPT ![r] = "pending"]
  /\ UNCHANGED <<queued, gap, ask, dVars, reopened>>

\* The credits are gone when they are reserved: the run just inserted fails.
GInsertShort(l, r) ==
  /\ New(l, r) /\ GiveUp(l)
  /\ state' = [state EXCEPT ![r] = "failed"]
  /\ UNCHANGED <<queued, gap, ask, dVars, reopened, launchFaults>>

\* The server dies between two commits.
GDies(l) ==
  /\ gpc[l] # "idle" /\ LaunchFault
  /\ Respond(l)
  /\ UNCHANGED <<mode, started, state, queued, gap, ask, dVars, reopened>>

Launch(l) ==
  \/ GGuard(l) \/ GRefuse(l)
  \/ \E r \in LaunchRuns : GInsert(l, r) \/ GInsertShort(l, r)

-----------------------------------------------------------------------------
(* Batch orchestration *)

\* _dispatch_batch_async sets the run running, whatever its status is.
BBegin(r) ==
  /\ r \in queued
  /\ queued' = queued \ {r}
  /\ SetState(r, "running")
  /\ UNCHANGED <<mode, started, gap, gVars, ask, dVars, launchFaults>>

\* The completion checker or the stale-run cleanup.  A completed run reaches
\* up to yesterday: that is what start_live_tracking asks a backfill for.
BEnd(r, s) ==
  /\ state[r] = "running"
  /\ SetState(r, s)
  /\ gap' = (gap /\ s # "completed")
  /\ UNCHANGED <<mode, started, queued, gVars, ask, dVars, launchFaults>>

BatchSteps(r) == BBegin(r) \/ BEnd(r, "completed") \/ BEnd(r, "failed")

-----------------------------------------------------------------------------
(* Suspend, resume, cancel *)

Admissible(v, r) ==
  \/ v = "suspend" /\ mode[r] = "live" /\ state[r] \in {"active", "pending"}
  \/ v = "resume"  /\ mode[r] = "live" /\ state[r] = "suspended"
  \/ v = "cancel"  /\ state[r] \notin Ended \cup {"none"}

After(v) == CASE v = "suspend" -> "suspended" [] v = "resume" -> "active"
              [] v = "cancel" -> "cancelled"

UAsk(u, v, r) ==
  /\ ask[u] = NoAsk /\ Admissible(v, r)
  /\ ask' = [ask EXCEPT ![u] = [verb |-> v, run |-> r]]
  /\ UNCHANGED <<mode, started, state, queued, gap, gVars, dVars, reopened, launchFaults>>

UCommit(u) ==
  /\ ask[u] # NoAsk
  /\ SetState(ask[u].run, After(ask[u].verb))
  /\ ask' = [ask EXCEPT ![u] = NoAsk]
  /\ UNCHANGED <<mode, started, queued, gap, gVars, dVars, launchFaults>>

-----------------------------------------------------------------------------
(* trigger_daily_collection *)

\* (faulty: a run is looked up while it is pending, too early)
DFetchPending ==
  /\ due = {}
  /\ due' = {r \in Live : state[r] = "pending"}
  /\ IF due' = {} THEN UNCHANGED balance ELSE balance' \in Balances
  /\ gap' = TRUE
  /\ UNCHANGED <<mode, started, state, queued, gVars, ask, reopened, launchFaults>>

\* Midnight: the active live runs and the balance of their owner, all read
\* before the first of them is dispatched.  A new yesterday opens a gap.
DFetch ==
  /\ due = {}
  /\ due' = {r \in Live : state[r] = "active"}
  /\ IF due' = {} THEN UNCHANGED balance ELSE balance' \in Balances
  /\ gap' = TRUE
  /\ UNCHANGED <<mode, started, state, queued, gVars, ask, reopened, launchFaults>>

\* The runs rs are dealt with.
Took(rs) ==
  /\ due' = due \ rs
  /\ balance' = IF due \subseteq rs THEN 0 ELSE balance

\* The credit gate: suspend_run by id, whatever the status is by now.
DSuspend(r) ==
  /\ r \in due /\ balance <= 0
  /\ Took({r})
  /\ SetState(r, "suspended")
  /\ UNCHANGED <<mode, started, queued, gap, gVars, ask, launchFaults>>

DSend(r) ==
  /\ r \in due /\ balance > 0
  /\ Took({r})
  /\ UNCHANGED <<mode, started, state, queued, gap, gVars, ask, reopened, launchFaults>>

\* A failed suspension is logged; a send that raises is counted as skipped; a
\* lost worker drops the rest and starts over.
DLost ==
  /\ LaunchFault
  /\ \/ \E r \in due : Took({r})
     \/ due # {} /\ Took(due)
  /\ UNCHANGED <<mode, started, state, queued, gap, gVars, ask, reopened>>

Daily == DFetch \/ \E r \in LaunchRuns : DSuspend(r) \/ DSend(r)

-----------------------------------------------------------------------------

LaunchNext ==
  \/ \E l \in Launchers :
       \/ GCreate(l) \/ GStart(l) \/ Launch(l) \/ GDies(l)
       \/ \E r \in LaunchRuns : GInsertUnsent(l, r)
  \/ \E r \in LaunchRuns : BatchSteps(r)
  \/ \E u \in Clickers : UCommit(u) \/ \E v \in Verbs, r \in LaunchRuns : UAsk(u, v, r)
  \/ Daily \/ DLost

LaunchSpec == LaunchInit /\ [][LaunchNext]_launchVars

-----------------------------------------------------------------------------
(* Properties *)

\* The guard reads and the insert follows later, so two requests may both pass
\* it; still, no more runs of the design are open than requests can be in
\* flight at once -- leaving aside runs the dispatch restarted after their end,
\* which the guard cannot foresee.  This includes the runs of a start request
\* that died half-way and runs nobody ever dispatches.
OpenRunsBounded == Cardinality(Open \ reopened) <= Cardinality(Launchers)

\* The same for the live runs that start requests insert, after their look at
\* active, suspended and pending live runs of whatever origin: suspending,
\* resuming and the daily credit gate never bring a second one to life.  Live
\* runs that are created with POST /collections/ are not counted, and nothing
\* bounds them: the duplicate-run guard looks at pending and running runs
\* only, so beside an active or a suspended live run any number of live runs
\* may be created and then resumed, one after the other.
LiveRunsBounded == Cardinality((Live \cap started) \ reopened) <= Cardinality(Launchers)

\* What both guards come to: neither open runs nor the live runs of start
\* requests outnumber the requests that can be in flight.
LaunchesBounded == OpenRunsBounded /\ LiveRunsBounded

\* Batch runs do not lock their query design for good: as long as nothing
\* fails, there is again and again a moment without an open one, also for the
\* backfill runs that a start request leaves to be dispatched.
GuardFrees == []<>(\A r \in Open : mode[r] = "live")

\* A live run that stays active is collected day after day.
LiveRunsCollect ==
  \A r \in LaunchRuns : <>[](state[r] = "active") => []<><<DSend(r)>>_launchVars

-----------------------------------------------------------------------------
(* A statement of the repository that the code does not keep *)

\* "Creates a live run with status='active'": a live run that a start request
\* has inserted does not stay pending.
LiveRunsStart == \A r \in LaunchRuns : r \in started ~> state[r] # "pending"

=============================================================================
