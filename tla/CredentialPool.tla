--------------------------- MODULE CredentialPool ----------------------------
(***************************************************************************)
(* The pool of API credentials that collection jobs share: rows in         *)
(* api_credentials, and quota counters and cooldowns in Redis.  acquire()   *)
(* and report_error() are sequences of single reads and writes; other jobs  *)
(* and the administrator act between any two of them.  A Redis error is     *)
(* swallowed by each helper: a read counts as no value, a write is skipped. *)
(*                                                                         *)
(* The lease keys are written and deleted but read by nothing, and the     *)
(* environment variables acquire() falls back to belong to one process;    *)
(* both are left out.  How long a cooldown lasts is not modelled: it may    *)
(* end at any moment.                                                      *)
(***************************************************************************)
EXTENDS Integers, FiniteSets, Sequences

CONSTANTS
  Takers,         \* collection jobs
  Credentials,    \* rows of one platform and tier
  Quota,          \* period -> credential -> requests allowed
  MaxErrors,      \* bound: error_count
  MaxAdmin,       \* bound: actions of the administrator
  MaxPoolFaults   \* bound: Redis and database errors, lost processes

\* The daily and the monthly counter, in the order of the code.
Periods == 1 .. 2

ASSUME PoolAssumption ==
  /\ IsFiniteSet(Takers) /\ IsFiniteSet(Credentials)
  /\ Quota \in [Periods -> [Credentials -> Nat \ {0}]]
  /\ MaxErrors \in Nat /\ MaxAdmin \in Nat /\ MaxPoolFaults \in Nat

VARIABLES
  active,      \* rows with is_active
  older,       \* <<c, d>>: the last_used_at of c is before that of d, or null
  errors,      \* credential -> error_count
  cooling,     \* credentials with a cooldown key
  used,        \* period -> credential -> counter
  expires,     \* period -> credentials whose counter has a time to live
  counted,     \* period -> credential -> acquisitions in this period (history)
  ppc, cand,   \* job -> step, rows it has still to look at
  period,      \* job -> the counter it is at
  tally,        \* job -> error_count it read
  burnt,       \* job -> credentials it reported that are cooling since (history)
  admin, poolFaults

jobVars  == <<ppc, cand, period, tally>>
quotaVars == <<used, expires, counted>>
poolVars == <<active, older, errors, cooling, quotaVars, jobVars, burnt, admin, poolFaults>>

PoolTypeOK ==
  /\ active \subseteq Credentials /\ cooling \subseteq Credentials
  /\ older \subseteq Credentials \X Credentials
  /\ errors \in [Credentials -> Nat]
  /\ used \in [Periods -> [Credentials -> Nat]]
  /\ counted \in [Periods -> [Credentials -> Nat]]
  /\ expires \in [Periods -> SUBSET Credentials]
  /\ ppc \in [Takers -> {"idle", "cooldown", "quota", "count", "expire", "stamp",
                         "using", "cool", "record"}]
  /\ cand \in [Takers -> Seq(Credentials)]
  /\ period \in [Takers -> Periods]
  /\ tally \in [Takers -> Nat]
  /\ burnt \in [Takers -> SUBSET Credentials]
  /\ admin \in Nat /\ poolFaults \in 0 .. MaxPoolFaults

PoolInit ==
  /\ active = Credentials /\ cooling = {}
  /\ older = {}
  /\ errors = [c \in Credentials |-> 0]
  /\ used = [p \in Periods |-> [c \in Credentials |-> 0]]
  /\ counted = used
  /\ expires = [p \in Periods |-> {}]
  /\ ppc = [t \in Takers |-> "idle"] /\ cand = [t \in Takers |-> <<>>]
  /\ period = [t \in Takers |-> 1] /\ tally = [t \in Takers |-> 0]
  /\ burnt = [t \in Takers |-> {}]
  /\ admin = 0 /\ poolFaults = 0

PoolFault == poolFaults < MaxPoolFaults /\ poolFaults' = poolFaults + 1

\* The row a job is looking at, or has acquired.
Row(t) == cand[t][1]

-----------------------------------------------------------------------------
(* acquire *)

\* Rows, least recently used first, and those never used in any order.
InOrder(rows) ==
  {s \in [1 .. Cardinality(rows) -> rows] :
     \A i, j \in DOMAIN s : i < j => s[i] # s[j] /\ <<s[j], s[i]>> \notin older}

\* _query_db_credentials: the active rows.
PList(t) ==
  /\ ppc[t] = "idle"
  /\ \E rows \in InOrder(active) : cand' = [cand EXCEPT ![t] = rows]
  /\ ppc' = [ppc EXCEPT ![t] = "cooldown"]
  /\ UNCHANGED <<active, older, errors, cooling, quotaVars, period, tally, burnt, admin, poolFaults>>

Skip(t) ==
  /\ cand' = [cand EXCEPT ![t] = Tail(@)]
  /\ ppc' = [ppc EXCEPT ![t] = "cooldown"]
  /\ period' = [period EXCEPT ![t] = 1]

\* No row is left.
PNone(t) ==
  /\ ppc[t] = "cooldown" /\ cand[t] = <<>>
  /\ ppc' = [ppc EXCEPT ![t] = "idle"]
  /\ UNCHANGED <<active, older, errors, cooling, quotaVars, cand, period, tally, burnt, admin, poolFaults>>

PCooldown(t) ==
  /\ ppc[t] = "cooldown" /\ cand[t] # <<>>
  /\ IF Row(t) \in cooling
     THEN Skip(t)
     ELSE ppc' = [ppc EXCEPT ![t] = "quota"] /\ UNCHANGED <<cand, period>>
  /\ UNCHANGED <<active, older, errors, cooling, quotaVars, tally, burnt, admin, poolFaults>>

\* To the next counter, or from the last one to the step "then".
NextPeriod(t, now, then) ==
  /\ ppc' = [ppc EXCEPT ![t] = IF period[t] = 2 THEN then ELSE now]
  /\ period' = [period EXCEPT ![t] = IF @ = 2 THEN 1 ELSE 2]

\* (faulty: one request too many)
PQuotaAllowsOneMore(t) ==
  /\ ppc[t] = "quota"
  /\ IF used[period[t]][Row(t)] > Quota[period[t]][Row(t)]
     THEN Skip(t)
     ELSE NextPeriod(t, "quota", "count") /\ UNCHANGED cand
  /\ UNCHANGED <<active, older, errors, cooling, quotaVars, tally, burnt, admin, poolFaults>>

\* _is_quota_exceeded reads one counter after the other.
PQuota(t) ==
  /\ ppc[t] = "quota"
  /\ IF used[period[t]][Row(t)] >= Quota[period[t]][Row(t)]
     THEN Skip(t)
     ELSE NextPeriod(t, "quota", "count") /\ UNCHANGED cand
  /\ UNCHANGED <<active, older, errors, cooling, quotaVars, tally, burnt, admin, poolFaults>>

\* A read fails and counts as no cooldown, or as an unused quota.
PReadLost(t) ==
  /\ PoolFault
  /\ \/ /\ ppc[t] = "cooldown" /\ cand[t] # <<>>
        /\ ppc' = [ppc EXCEPT ![t] = "quota"] /\ UNCHANGED period
     \/ /\ ppc[t] = "quota"
        /\ NextPeriod(t, "quota", "count")
  /\ UNCHANGED <<active, older, errors, cooling, quotaVars, cand, tally, burnt, admin>>

\* (faulty: the time to live is set by the second request)
PCountFromTwo(t) ==
  LET p == period[t] IN
  /\ ppc[t] = "count"
  /\ used' = [used EXCEPT ![p][Row(t)] = @ + 1]
  /\ counted' = [counted EXCEPT ![p][Row(t)] = @ + 1]
  /\ IF used[p][Row(t)] = 1
     THEN ppc' = [ppc EXCEPT ![t] = "expire"] /\ UNCHANGED period
     ELSE NextPeriod(t, "count", "stamp")
  /\ UNCHANGED <<active, older, errors, cooling, expires, cand, tally, burnt, admin, poolFaults>>

\* _increment_quota: INCR, and EXPIRE for the first request of the period.
PCount(t) ==
  LET p == period[t] IN
  /\ ppc[t] = "count"
  /\ used' = [used EXCEPT ![p][Row(t)] = @ + 1]
  /\ counted' = [counted EXCEPT ![p][Row(t)] = @ + 1]
  /\ IF used[p][Row(t)] = 0
     THEN ppc' = [ppc EXCEPT ![t] = "expire"] /\ UNCHANGED period
     ELSE NextPeriod(t, "count", "stamp")
  /\ UNCHANGED <<active, older, errors, cooling, expires, cand, tally, burnt, admin, poolFaults>>

PExpire(t) ==
  /\ ppc[t] = "expire"
  /\ expires' = [expires EXCEPT ![period[t]] = @ \cup {Row(t)}]
  /\ NextPeriod(t, "count", "stamp")
  /\ UNCHANGED <<active, older, errors, cooling, used, counted, cand, tally, burnt, admin, poolFaults>>

\* One exception handler for all four calls: the rest is skipped.
PCountLost(t) ==
  LET missed == {p \in Periods : p > period[t] \/ (p = period[t] /\ ppc[t] = "count")} IN
  /\ ppc[t] \in {"count", "expire"} /\ PoolFault
  /\ counted' = [p \in Periods |-> IF p \in missed
                   THEN [counted[p] EXCEPT ![Row(t)] = @ + 1] ELSE counted[p]]
  /\ ppc' = [ppc EXCEPT ![t] = "stamp"] /\ period' = [period EXCEPT ![t] = 1]
  /\ UNCHANGED <<active, older, errors, cooling, used, expires, cand, tally, burnt, admin>>

\* _update_last_used_at; the credential is returned.
PStamp(t) ==
  /\ ppc[t] = "stamp"
  /\ older' = {x \in older : x[1] # Row(t)} \cup (Credentials \ {Row(t)}) \X {Row(t)}
  /\ cand' = [cand EXCEPT ![t] = <<Row(t)>>]
  /\ ppc' = [ppc EXCEPT ![t] = "using"]
  /\ UNCHANGED <<active, errors, cooling, quotaVars, period, tally, burnt, admin, poolFaults>>

PStampLost(t) ==
  /\ ppc[t] = "stamp" /\ PoolFault
  /\ cand' = [cand EXCEPT ![t] = <<Row(t)>>]
  /\ ppc' = [ppc EXCEPT ![t] = "using"]
  /\ UNCHANGED <<active, older, errors, cooling, quotaVars, period, tally, burnt, admin>>

-----------------------------------------------------------------------------
(* release and report_error *)

Finish(t) ==
  /\ ppc' = [ppc EXCEPT ![t] = "idle"]
  /\ cand' = [cand EXCEPT ![t] = <<>>]
  /\ period' = [period EXCEPT ![t] = 1] /\ tally' = [tally EXCEPT ![t] = 0]

PRelease(t) ==
  /\ ppc[t] = "using"
  /\ Finish(t)
  /\ UNCHANGED <<active, older, errors, cooling, quotaVars, burnt, admin, poolFaults>>

\* The request failed: _get_db_error_count.
PError(t) ==
  /\ ppc[t] = "using" /\ errors[Row(t)] < MaxErrors
  /\ tally' = [tally EXCEPT ![t] = errors[Row(t)]]
  /\ ppc' = [ppc EXCEPT ![t] = "cool"]
  /\ UNCHANGED <<active, older, errors, cooling, quotaVars, cand, period, burnt, admin, poolFaults>>

\* An unreadable count is taken for 0.
PErrorUnread(t) ==
  /\ ppc[t] = "using" /\ PoolFault
  /\ tally' = [tally EXCEPT ![t] = 0]
  /\ ppc' = [ppc EXCEPT ![t] = "cool"]
  /\ UNCHANGED <<active, older, errors, cooling, quotaVars, cand, period, burnt, admin>>

\* (faulty: no cooldown for the first error)
PCoolSecond(t) ==
  /\ ppc[t] = "cool"
  /\ cooling' = IF tally[t] = 0 THEN cooling ELSE cooling \cup {Row(t)}
  /\ burnt' = [burnt EXCEPT ![t] = @ \cup {Row(t)}]
  /\ ppc' = [ppc EXCEPT ![t] = "record"]
  /\ UNCHANGED <<active, older, errors, quotaVars, cand, period, tally, admin, poolFaults>>

\* SETEX of the cooldown, whatever cooldown is running.
PCool(t) ==
  /\ ppc[t] = "cool"
  /\ cooling' = cooling \cup {Row(t)}
  /\ burnt' = [burnt EXCEPT ![t] = @ \cup {Row(t)}]
  /\ ppc' = [ppc EXCEPT ![t] = "record"]
  /\ UNCHANGED <<active, older, errors, quotaVars, cand, period, tally, admin, poolFaults>>

PCoolLost(t) ==
  /\ ppc[t] = "cool" /\ PoolFault
  /\ ppc' = [ppc EXCEPT ![t] = "record"]
  /\ UNCHANGED <<active, older, errors, cooling, quotaVars, cand, period, tally, burnt, admin>>

\* _update_error_fields writes the count read before, plus one.
PRecord(t) ==
  /\ ppc[t] = "record"
  /\ errors' = [errors EXCEPT ![Row(t)] = tally[t] + 1]
  /\ Finish(t)
  /\ UNCHANGED <<active, older, cooling, quotaVars, burnt, admin, poolFaults>>

\* The write fails, or the job is lost at any step.
PLost(t) ==
  /\ ppc[t] # "idle" /\ PoolFault
  /\ Finish(t)
  /\ UNCHANGED <<active, older, errors, cooling, quotaVars, burnt, admin>>

-----------------------------------------------------------------------------
(* Time and the administrator *)

\* Midnight, or the end of the month: the counters with a time to live go.
PPeriodEnds(last) ==
  LET over == 1 .. last IN
  /\ used' = [p \in Periods |-> [c \in Credentials |->
                IF p \in over /\ c \in expires[p] THEN 0 ELSE used[p][c]]]
  /\ counted' = [p \in Periods |-> [c \in Credentials |->
                   IF p \in over THEN 0 ELSE counted[p][c]]]
  /\ expires' = [p \in Periods |-> IF p \in over THEN {} ELSE expires[p]]
  /\ UNCHANGED <<active, older, errors, cooling, jobVars, burnt, admin, poolFaults>>

PCoolsDown(c) ==
  /\ c \in cooling
  /\ cooling' = cooling \ {c}
  /\ burnt' = [t \in Takers |-> burnt[t] \ {c}]
  /\ UNCHANGED <<active, older, errors, quotaVars, jobVars, admin, poolFaults>>

PAdmin(c) ==
  /\ admin < MaxAdmin /\ admin' = admin + 1
  /\ \/ active' = active \cup {c} /\ UNCHANGED errors
     \/ active' = active \ {c} /\ UNCHANGED errors
     \/ errors' = [errors EXCEPT ![c] = 0] /\ UNCHANGED active
  /\ UNCHANGED <<older, cooling, quotaVars, jobVars, burnt, poolFaults>>

-----------------------------------------------------------------------------

PAcquire(t) ==
  PList(t) \/ PNone(t) \/ PCooldown(t) \/ PQuota(t) \/ PCount(t) \/ PExpire(t) \/ PStamp(t)
PReport(t) == PError(t) \/ PCool(t) \/ PRecord(t)
PFaulty(t) ==
  \/ PReadLost(t) \/ PCountLost(t) \/ PStampLost(t) \/ PErrorUnread(t) \/ PCoolLost(t) \/ PLost(t)

PoolNext ==
  \/ \E t \in Takers : PAcquire(t) \/ PRelease(t) \/ PReport(t) \/ PFaulty(t)
  \/ \E last \in Periods : PPeriodEnds(last)
  \/ \E c \in Credentials : PCoolsDown(c) \/ PAdmin(c)

PoolSpec == PoolInit /\ [][PoolNext]_poolVars

-----------------------------------------------------------------------------
(* Properties *)

\* Check and increment are apart, so a quota can be exceeded -- but by no more
\* than the other jobs, each of which has at most one acquisition between
\* the two, and one request per failed Redis call.
QuotaOvershootBounded ==
  \A p \in Periods, c \in Credentials :
    counted[p][c] < Quota[p][c] + Cardinality(Takers) + poolFaults

\* As long as nothing fails, a counter is either going to expire or the job
\* that created it is about to see to that: no credential is locked for good.
CountersExpire ==
  poolFaults = 0 =>
    \A p \in Periods, c \in Credentials :
      used[p][c] > 0 =>
        \/ c \in expires[p]
        \/ \E t \in Takers : ppc[t] = "expire" /\ period[t] = p /\ Row(t) = c

\* A job that reported a credential is not given it back while the cooldown it
\* asked for lasts, whatever the other jobs and the administrator do.
ReportedNotHandedBack ==
  poolFaults = 0 =>
    \A t \in Takers : ppc[t] = "using" => Row(t) \notin burnt[t]

=============================================================================
