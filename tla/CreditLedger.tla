---------------------------- MODULE CreditLedger -----------------------------
(***************************************************************************)
(* The credits of one user: the append-only credit_transactions table and  *)
(* the processes that insert into it --                                    *)
(*                                                                         *)
(*   create_collection_run    checks the balance, inserts the run, reserves *)
(*                            credits platform by platform, dispatches     *)
(*   settle_pending_credits   (beat, every 6 hours) settles every           *)
(*                            reservation of a run that has completed_at   *)
(*   cancel_collection_run    refunds the reservations of the run           *)
(*                                                                         *)
(* and the batch machinery, reduced to what RunStatus promises of a        *)
(* collection_runs row.                                                    *)
(*                                                                         *)
(* The user is neither admin nor on own credentials (those are never       *)
(* checked), and the allocations stay valid.  A platform has at most one   *)
(* reservation per run (the loop runs over a dict of platforms), and the   *)
(* settlement task settles the reserved amount, so settle's surplus refund *)
(* is never due: the tables keep row counts, the amount of a row is the    *)
(* Cost of its platform.  Faults are database and broker errors and lost   *)
(* processes; at most MaxFaults of them happen.                            *)
(***************************************************************************)
EXTENDS Integers, FiniteSets, Functions

CONSTANTS
  Runs,         \* the collection runs the user starts
  Platforms,    \* the paid platforms each of them collects from
  Cost,         \* platform -> estimated credits of one run
  Allocation,   \* SUM(credit_allocations.credits_amount)
  Settlers,     \* instances of settle_pending_credits that may overlap
  Cancellers,   \* cancel requests that may overlap
  MaxInFlight,  \* bound: create requests that overlap
  MaxFaults     \* bound: injected failures

ASSUME CreditAssumption ==
  /\ IsFiniteSet(Runs) /\ IsFiniteSet(Platforms) /\ IsFiniteSet(Cancellers)
  /\ Cost \in [Platforms -> Nat \ {0}]
  /\ Allocation \in Nat /\ MaxInFlight \in Nat /\ MaxFaults \in Nat

Keys == Runs \X Platforms     \* (collection_run_id, arena = platform)

NoKey == <<>>
NoRun == "no run"

Terminal == {"completed", "failed", "cancelled"}

VARIABLES
  \* collection_runs
  status, completedAt,  \* run -> status ("absent": not inserted), stamped?
  spent,                \* run -> credits_spent
  \* credit_transactions: the rows of each type
  reserved,             \* set of keys
  settled, refunded,    \* key -> number of rows
  \* create_collection_run, one request per run
  pc, left,             \* run -> step, platforms still to reserve
  reading, seen,        \* run -> progress and result of get_balance
  \* settle_pending_credits
  pending, paying,      \* settler -> rows still to settle, row being settled
  \* cancel_collection_run
  upc, urun,            \* canceller -> step, run
  todo, refunding,      \* canceller -> reservations to look at, to refund
  faults

runVars    == <<status, completedAt>>
txnVars    == <<reserved, settled, refunded>>
createVars == <<pc, left, reading, seen>>
settleVars == <<pending, paying, spent>>
cancelVars == <<upc, urun, todo, refunding>>
vars == <<runVars, txnVars, createVars, settleVars, cancelVars, faults>>

-----------------------------------------------------------------------------
(* The ledger *)

Price           == [k \in Keys |-> Cost[k[2]]]
Credits(S)      == SumFunctionOnSet(Price, S)
Total(count, S) == SumFunctionOnSet([k \in Keys |-> count[k] * Price[k]], S)
RunCost         == SumFunction(Cost)
RowsOf(r)       == {r} \X Platforms

\* (faulty: a settled platform hides the other platforms of its run)
UnsettledByRun ==
  {k \in reserved : completedAt[k[1]] /\ \A p \in Platforms : settled[<<k[1], p>>] = 0}

\* (faulty: reservations that are settled already are fetched again)
UnsettledAgain == {k \in reserved : completedAt[k[1]]}

\* fetch_unsettled_reservations; a refund does not take a reservation out.
Unsettled == {k \in reserved : completedAt[k[1]] /\ settled[k] = 0}

Fault == faults < MaxFaults /\ faults' = faults + 1

-----------------------------------------------------------------------------
Init ==
  /\ status = [r \in Runs |-> "absent"] /\ completedAt = [r \in Runs |-> FALSE]
  /\ spent = [r \in Runs |-> 0]
  /\ reserved = {}
  /\ settled = [k \in Keys |-> 0] /\ refunded = [k \in Keys |-> 0]
  /\ pc = [r \in Runs |-> "new"] /\ left = [r \in Runs |-> {}]
  /\ reading = [r \in Runs |-> "reserved"] /\ seen = [r \in Runs |-> 0]
  /\ pending = [s \in Settlers |-> {}] /\ paying = [s \in Settlers |-> NoKey]
  /\ upc = [c \in Cancellers |-> "idle"] /\ urun = [c \in Cancellers |-> NoRun]
  /\ todo = [c \in Cancellers |-> {}] /\ refunding = [c \in Cancellers |-> NoKey]
  /\ faults = 0

-----------------------------------------------------------------------------
(* create_collection_run *)

InFlight == {r \in Runs : pc[r] \in {"check", "reserve"}}

Create(r) ==
  /\ pc[r] = "new" /\ Cardinality(InFlight) < MaxInFlight
  /\ pc' = [pc EXCEPT ![r] = "check"]
  /\ UNCHANGED <<runVars, txnVars, left, reading, seen, settleVars, cancelVars, faults>>

\* get_balance reads the ledger in three selects, each seeing what is
\* committed by then: reservations, settlements, refunds.
NeedsBalance(r) == pc[r] = "check" \/ (pc[r] = "reserve" /\ left[r] # {})

ReadReserved(r) ==
  /\ NeedsBalance(r) /\ reading[r] = "reserved"
  /\ seen' = [seen EXCEPT ![r] = Allocation - Credits(reserved)]
  /\ reading' = [reading EXCEPT ![r] = "settled"]
  /\ UNCHANGED <<runVars, txnVars, pc, left, settleVars, cancelVars, faults>>

ReadSettled(r) ==
  /\ NeedsBalance(r) /\ reading[r] = "settled"
  /\ seen' = [seen EXCEPT ![r] = @ - Total(settled, Keys)]
  /\ reading' = [reading EXCEPT ![r] = "refunded"]
  /\ UNCHANGED <<runVars, txnVars, pc, left, settleVars, cancelVars, faults>>

ReadRefunded(r) ==
  /\ NeedsBalance(r) /\ reading[r] = "refunded"
  /\ seen' = [seen EXCEPT ![r] = @ + Total(refunded, Keys)]
  /\ reading' = [reading EXCEPT ![r] = "done"]
  /\ UNCHANGED <<runVars, txnVars, pc, left, settleVars, cancelVars, faults>>

Forget(r) ==
  /\ reading' = [reading EXCEPT ![r] = "reserved"]
  /\ seen' = [seen EXCEPT ![r] = 0]

\* HTTP 402 before anything is written.
Refuse(r) ==
  /\ pc[r] = "check" /\ reading[r] = "done" /\ seen[r] < RunCost
  /\ pc' = [pc EXCEPT ![r] = "refused"] /\ Forget(r)
  /\ UNCHANGED <<runVars, txnVars, left, settleVars, cancelVars, faults>>

InsertRun(r) ==
  /\ status' = [status EXCEPT ![r] = "pending"]
  /\ pc' = [pc EXCEPT ![r] = "reserve"]
  /\ left' = [left EXCEPT ![r] = Platforms]
  /\ Forget(r)
  /\ UNCHANGED <<completedAt, txnVars, settleVars, cancelVars>>

Admit(r) ==
  /\ pc[r] = "check" /\ reading[r] = "done" /\ seen[r] >= RunCost
  /\ InsertRun(r)
  /\ UNCHANGED faults

\* "Allow the run to proceed if the credit check itself fails".
AdmitUnchecked(r) == pc[r] = "check" /\ Fault /\ InsertRun(r)

\* (faulty: reserve trusts the check made before the run was inserted)
ReserveUnchecked(r, p) ==
  /\ pc[r] = "reserve" /\ p \in left[r]
  /\ reserved' = reserved \cup {<<r, p>>}
  /\ left' = [left EXCEPT ![r] = @ \ {p}]
  /\ Forget(r)
  /\ UNCHANGED <<runVars, settled, refunded, pc, settleVars, cancelVars, faults>>

\* CreditService.reserve: check once more, insert, commit.
Reserve(r, p) ==
  /\ pc[r] = "reserve" /\ p \in left[r]
  /\ reading[r] = "done" /\ seen[r] >= Cost[p]
  /\ reserved' = reserved \cup {<<r, p>>}
  /\ left' = [left EXCEPT ![r] = @ \ {p}]
  /\ Forget(r)
  /\ UNCHANGED <<runVars, settled, refunded, pc, settleVars, cancelVars, faults>>

\* InsufficientCreditError: the run fails, whatever its status is by now, and
\* the request ends; the reservations already made stay.
ReserveShort(r, p) ==
  /\ pc[r] = "reserve" /\ p \in left[r]
  /\ reading[r] = "done" /\ seen[r] < Cost[p]
  /\ status' = [status EXCEPT ![r] = "failed"]
  /\ pc' = [pc EXCEPT ![r] = "short"] /\ left' = [left EXCEPT ![r] = {}]
  /\ Forget(r)
  /\ UNCHANGED <<completedAt, txnVars, settleVars, cancelVars, faults>>

\* Any other exception of reserve: logged, the platform goes unreserved.
ReserveLost(r, p) ==
  /\ pc[r] = "reserve" /\ p \in left[r] /\ Fault
  /\ left' = [left EXCEPT ![r] = @ \ {p}]
  /\ Forget(r)
  /\ UNCHANGED <<runVars, txnVars, pc, settleVars, cancelVars>>

Dispatch(r) ==
  /\ pc[r] = "reserve" /\ left[r] = {}
  /\ pc' = [pc EXCEPT ![r] = "sent"]
  /\ UNCHANGED <<runVars, txnVars, left, reading, seen, settleVars, cancelVars, faults>>

\* The broker refuses the message, or the API process ends half-way.
CreateDies(r) ==
  /\ pc[r] = "reserve" /\ Fault
  /\ pc' = [pc EXCEPT ![r] = "dead"] /\ left' = [left EXCEPT ![r] = {}]
  /\ Forget(r)
  /\ UNCHANGED <<runVars, txnVars, settleVars, cancelVars>>

-----------------------------------------------------------------------------
(* The batch machinery: dispatch and collection of a run that was sent *)

RunBegin(r) ==
  /\ pc[r] = "sent"
  /\ status' = [status EXCEPT ![r] = "running"]
  /\ UNCHANGED <<completedAt, txnVars, createVars, settleVars, cancelVars, faults>>

RunEnd(r, s) ==
  /\ pc[r] = "sent" /\ status[r] # "pending"
  /\ status' = [status EXCEPT ![r] = s]
  /\ completedAt' = [completedAt EXCEPT ![r] = TRUE]
  /\ UNCHANGED <<txnVars, createVars, settleVars, cancelVars, faults>>

RunAbandon(r) ==
  /\ pc[r] = "sent" /\ status[r] # "pending"
  /\ status' = [status EXCEPT ![r] = "failed"]
  /\ UNCHANGED <<completedAt, txnVars, createVars, settleVars, cancelVars, faults>>

-----------------------------------------------------------------------------
(* settle_pending_credits *)

Fetch(s) ==
  /\ pending[s] = {} /\ paying[s] = NoKey
  /\ pending' = [pending EXCEPT ![s] = Unsettled]
  /\ UNCHANGED <<runVars, txnVars, createVars, paying, spent, cancelVars, faults>>

\* CreditService.settle, up to its first commit.
Settle(s, k) ==
  /\ paying[s] = NoKey /\ k \in pending[s]
  /\ settled' = [settled EXCEPT ![k] = @ + 1]
  /\ pending' = [pending EXCEPT ![s] = @ \ {k}]
  /\ paying' = [paying EXCEPT ![s] = k]
  /\ UNCHANGED <<runVars, reserved, refunded, createVars, spent, cancelVars, faults>>

\* The insert fails; the row is logged and left for the next instance.
SettleLost(s, k) ==
  /\ paying[s] = NoKey /\ k \in pending[s] /\ Fault
  /\ pending' = [pending EXCEPT ![s] = @ \ {k}]
  /\ UNCHANGED <<runVars, txnVars, createVars, paying, spent, cancelVars>>

\* (faulty: the amount of this row replaces the total)
UpdateSpentLastRow(s) ==
  /\ paying[s] # NoKey
  /\ spent' = [spent EXCEPT ![paying[s][1]] = Cost[paying[s][2]]]
  /\ paying' = [paying EXCEPT ![s] = NoKey]
  /\ UNCHANGED <<runVars, txnVars, createVars, pending, cancelVars, faults>>

\* The second commit of settle: credits_spent of the parent run.
UpdateSpent(s) ==
  /\ paying[s] # NoKey
  /\ LET r == paying[s][1] IN spent' = [spent EXCEPT ![r] = Total(settled, RowsOf(r))]
  /\ paying' = [paying EXCEPT ![s] = NoKey]
  /\ UNCHANGED <<runVars, txnVars, createVars, pending, cancelVars, faults>>

UpdateSpentLost(s) ==
  /\ paying[s] # NoKey /\ Fault
  /\ paying' = [paying EXCEPT ![s] = NoKey]
  /\ UNCHANGED <<runVars, txnVars, createVars, pending, spent, cancelVars>>

\* The worker is lost; a later instance starts from a new fetch.
SettlerCrash(s) ==
  /\ Fault
  /\ pending[s] # {} \/ paying[s] # NoKey
  /\ pending' = [pending EXCEPT ![s] = {}] /\ paying' = [paying EXCEPT ![s] = NoKey]
  /\ UNCHANGED <<runVars, txnVars, createVars, spent, cancelVars>>

-----------------------------------------------------------------------------
(* cancel_collection_run *)

CancelCheck(c, r) ==
  /\ upc[c] = "idle"
  /\ status[r] # "absent" /\ status[r] \notin Terminal
  /\ upc' = [upc EXCEPT ![c] = "checked"] /\ urun' = [urun EXCEPT ![c] = r]
  /\ UNCHANGED <<runVars, txnVars, createVars, settleVars, todo, refunding, faults>>

\* (faulty: completed_at is forgotten)
CancelCommitUnstamped(c) ==
  /\ upc[c] = "checked"
  /\ status' = [status EXCEPT ![urun[c]] = "cancelled"]
  /\ upc' = [upc EXCEPT ![c] = "cancelled"]
  /\ UNCHANGED <<completedAt, txnVars, createVars, settleVars, urun, todo, refunding, faults>>

CancelCommit(c) ==
  /\ upc[c] = "checked"
  /\ status' = [status EXCEPT ![urun[c]] = "cancelled"]
  /\ completedAt' = [completedAt EXCEPT ![urun[c]] = TRUE]
  /\ upc' = [upc EXCEPT ![c] = "cancelled"]
  /\ UNCHANGED <<txnVars, createVars, settleVars, urun, todo, refunding, faults>>

CancelList(c) ==
  /\ upc[c] = "cancelled"
  /\ todo' = [todo EXCEPT ![c] = reserved \cap RowsOf(urun[c])]
  /\ upc' = [upc EXCEPT ![c] = "refunding"]
  /\ UNCHANGED <<runVars, txnVars, createVars, settleVars, urun, refunding, faults>>

\* (faulty: an earlier refund is not looked for)
CancelLookSettled(c, k) ==
  /\ upc[c] = "refunding" /\ refunding[c] = NoKey /\ k \in todo[c]
  /\ todo' = [todo EXCEPT ![c] = @ \ {k}]
  /\ refunding' = [refunding EXCEPT ![c] = IF settled[k] = 0 THEN k ELSE NoKey]
  /\ UNCHANGED <<runVars, txnVars, createVars, settleVars, upc, urun, faults>>

\* "Check if already settled/refunded for this arena+platform".
CancelLook(c, k) ==
  /\ upc[c] = "refunding" /\ refunding[c] = NoKey /\ k \in todo[c]
  /\ todo' = [todo EXCEPT ![c] = @ \ {k}]
  /\ refunding' =
       [refunding EXCEPT ![c] = IF settled[k] = 0 /\ refunded[k] = 0 THEN k ELSE NoKey]
  /\ UNCHANGED <<runVars, txnVars, createVars, settleVars, upc, urun, faults>>

CancelRefund(c) ==
  /\ upc[c] = "refunding" /\ refunding[c] # NoKey
  /\ refunded' = [refunded EXCEPT ![refunding[c]] = @ + 1]
  /\ refunding' = [refunding EXCEPT ![c] = NoKey]
  /\ UNCHANGED <<runVars, reserved, settled, createVars, settleVars, upc, urun, todo, faults>>

Leave(c) ==
  /\ upc' = [upc EXCEPT ![c] = "idle"] /\ urun' = [urun EXCEPT ![c] = NoRun]
  /\ todo' = [todo EXCEPT ![c] = {}] /\ refunding' = [refunding EXCEPT ![c] = NoKey]
  /\ UNCHANGED <<runVars, txnVars, createVars, settleVars>>

CancelDone(c) ==
  /\ upc[c] = "refunding" /\ todo[c] = {} /\ refunding[c] = NoKey
  /\ Leave(c) /\ UNCHANGED faults

\* (faulty: the request is forgotten without its step being reset)
CancelRefundsLostMidway(c) ==
  /\ upc[c] \in {"cancelled", "refunding"} /\ Fault
  /\ urun' = [urun EXCEPT ![c] = NoRun]
  /\ UNCHANGED <<runVars, txnVars, createVars, settleVars, upc, todo, refunding>>

\* An exception in the refund part is logged and ends it.
CancelRefundsLost(c) ==
  /\ upc[c] \in {"cancelled", "refunding"} /\ Fault
  /\ Leave(c)

-----------------------------------------------------------------------------
CreateRequest(r) ==
  \/ Create(r) \/ ReadReserved(r) \/ ReadSettled(r) \/ ReadRefunded(r)
  \/ Refuse(r) \/ Admit(r) \/ AdmitUnchecked(r) \/ Dispatch(r) \/ CreateDies(r)
  \/ \E p \in Platforms : Reserve(r, p) \/ ReserveShort(r, p) \/ ReserveLost(r, p)

Batch(r) == RunBegin(r) \/ RunAbandon(r) \/ \E s \in {"completed", "failed"} : RunEnd(r, s)

Settler(s) ==
  \/ Fetch(s) \/ UpdateSpent(s) \/ UpdateSpentLost(s) \/ SettlerCrash(s)
  \/ \E k \in Keys : Settle(s, k) \/ SettleLost(s, k)

Canceller(c) ==
  \/ CancelCommit(c) \/ CancelList(c) \/ CancelRefund(c) \/ CancelDone(c)
  \/ CancelRefundsLost(c)
  \/ \E r \in Runs : CancelCheck(c, r)
  \/ \E k \in Keys : CancelLook(c, k)

Next ==
  \/ \E r \in Runs : CreateRequest(r) \/ Batch(r)
  \/ \E s \in Settlers : Settler(s)
  \/ \E c \in Cancellers : Canceller(c)

Spec == Init /\ [][Next]_vars

\* Beat starts a settlement every six hours and a worker runs it; a request
\* that was accepted runs to its end.
FairSpec ==
  /\ Spec
  /\ \A s \in Settlers :
       /\ WF_vars(Fetch(s)) /\ WF_vars(UpdateSpent(s))
       /\ WF_vars(\E k \in Keys : Settle(s, k))
  /\ \A c \in Cancellers :
       /\ WF_vars(CancelList(c)) /\ WF_vars(CancelRefund(c)) /\ WF_vars(CancelDone(c))
       /\ WF_vars(\E k \in Keys : CancelLook(c, k))

-----------------------------------------------------------------------------
(* What holds *)

StatusOK ==
  /\ status \in [Runs -> {"absent", "pending", "running"} \cup Terminal]
  /\ completedAt \in [Runs -> BOOLEAN]

LedgerOK ==
  /\ reserved \subseteq Keys
  /\ settled \in [Keys -> Nat] /\ refunded \in [Keys -> Nat]

CreateOK ==
  /\ pc \in [Runs -> {"new", "check", "reserve", "refused", "short", "sent", "dead"}]
  /\ left \in [Runs -> SUBSET Platforms]
  /\ reading \in [Runs -> {"reserved", "settled", "refunded", "done"}]

SettlersOK ==
  /\ pending \in [Settlers -> SUBSET Keys]
  /\ paying \in [Settlers -> Keys \cup {NoKey}]

CancellersOK ==
  /\ upc \in [Cancellers -> {"idle", "checked", "cancelled", "refunding"}]
  /\ urun \in [Cancellers -> Runs \cup {NoRun}]
  /\ \A c \in Cancellers : upc[c] # "idle" => urun[c] \in Runs
  /\ todo \in [Cancellers -> SUBSET Keys]
  /\ refunding \in [Cancellers -> Keys \cup {NoKey}]

\* Every table and every process of the ledger stays well formed, and no run
\* is cancelled, settled or refunded before it is in collection_runs.
TypeOK ==
  /\ StatusOK /\ LedgerOK /\ CreateOK /\ SettlersOK /\ CancellersOK
  /\ faults \in Nat

\* The credits locked by reservations never exceed the allocation and what
\* refunds have given back: reserve() checks the balance again before every
\* insert.  It holds while the create requests of the user come one after the
\* other; when two overlap it is what reserve() says of itself ("concurrent
\* runs cannot double-spend the same credits"), and fails.
HeldWithinBudget == Credits(reserved) <= Allocation + Total(refunded, Keys)

\* A reservation is charged at most once, and only if its run has ended: the
\* NOT EXISTS of fetch_unsettled_reservations, over crashes and failed rows,
\* with settlement instances that do not overlap.
SettledOnce ==
  \A k \in Keys :
    /\ settled[k] <= 1
    /\ settled[k] > 0 => k \in reserved /\ completedAt[k[1]]

\* A reservation is refunded only for a run that carries completed_at, and at
\* most once by each of the cancel requests that overlap, however often the run
\* is cancelled, begun again and cancelled: whoever looks for earlier rows ("Check
\* if already settled/refunded for this arena+platform") when one is there does
\* not refund, but several may look before the first row is inserted.
RefundsBounded ==
  \A k \in Keys :
    /\ refunded[k] <= Cardinality(Cancellers)
    /\ refunded[k] > 0 => k \in reserved /\ completedAt[k[1]]

\* Until something fails, credits_spent of every run is the sum of its
\* settlements whenever no settlement is half-way (models/collection.py,
\* CollectionRun).  A settler lost between its two commits leaves it behind.
SpentIsSettled ==
  faults = 0 /\ (\A s \in Settlers : paying[s] = NoKey)
     => \A r \in Runs : spent[r] = Total(settled, RowsOf(r))

\* This module changes a collection_runs row only as RunStatus allows, so that
\* what is shown here of stamped runs holds of the runs BatchRun describes.
StatusOf(r) == IF status[r] = "absent" THEN "pending" ELSE status[r]
RunRow(r) == INSTANCE RunStatus WITH status <- StatusOf(r), completedAt <- completedAt[r]
RunRowsSpec ==
  /\ \A r \in Runs : RunRow(r)!Init
  /\ [][\A r \in Runs : RunRow(r)!Next \/ UNCHANGED <<StatusOf(r), completedAt[r]>>]_runVars

\* Every reservation of a run that ended with completed_at is settled some
\* day, whatever rows an earlier instance of the task failed on.
StampedRunsSettle ==
  \A k \in Keys : (k \in reserved /\ completedAt[k[1]]) ~> (settled[k] > 0)

-----------------------------------------------------------------------------
(* What the code, its comments or its messages say, and the code does not do *)

\* The message of the cancel endpoint: "Any reserved credits have been
\* refunded."  So a refunded reservation is not charged.
RefundedIsNotCharged == \A k \in Keys : refunded[k] = 0 \/ settled[k] = 0

=============================================================================
