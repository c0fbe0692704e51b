----------------------------- MODULE RateLimiter -----------------------------
(***************************************************************************)
(* The sliding-window rate limiter of the workers: one Redis sorted set    *)
(* per window, an atomic script per window, no atomicity across windows.   *)
(*                                                                         *)
(*   check_and_acquire   takes a slot in every window of the cascade        *)
(*                       (minute, hour, day) and rolls back when refused    *)
(*   rate_limited_request  repeats it, looking at the windows in between    *)
(*   wait_for_slot       repeats acquire() on a single window until a       *)
(*                       deadline                                           *)
(*                                                                         *)
(* The clock is read in the worker before the script runs in Redis, so a   *)
(* script may work with a time that has passed: LStamp and the script are  *)
(* steps of their own.  All workers share one clock.  The expiry of a key  *)
(* is not modelled: it is longer than its window and renewed by every      *)
(* entry, so an expired key holds only entries the next script removes.    *)
(***************************************************************************)
EXTENDS Integers, FiniteSets

CONSTANTS
  Requesters,    \* processes in rate_limited_request
  Waiters,       \* processes in wait_for_slot
  Cascade,       \* number of windows check_and_acquire looks at
  Limit, Width,  \* window -> requests allowed, seconds
  Timeout,       \* of wait_for_slot
  MaxCalls,      \* bound: process -> calls
  Horizon,       \* bound: the clock stops here
  MaxRedisFaults, \* bound: Redis errors and lost processes
  MaxResets      \* bound: calls of reset()

\* Window 0 is the one of wait_for_slot, 1 .. Cascade are those of
\* check_and_acquire in the order it takes them.
Windows == 0 .. Cascade
Callers == Requesters \cup Waiters

ASSUME LimiterAssumption ==
  /\ Cascade \in Nat \ {0}
  /\ Limit \in [Windows -> Nat \ {0}] /\ Width \in [Windows -> Nat \ {0}]
  /\ Timeout \in Nat /\ MaxCalls \in [Callers -> Nat]
  /\ Horizon \in Nat /\ MaxRedisFaults \in Nat /\ MaxResets \in Nat
  /\ Requesters \cap Waiters = {}

VARIABLES
  clock,
  log,        \* window -> the sorted set: entries [by, call, at]
  granted,    \* window -> the requests it has let through: those that were
              \*   entered and not taken back, reset or not, and those that
              \*   went ahead because Redis failed (history)
  lpc,        \* caller -> step
  call,       \* caller -> number of the call, its uuid
  win,        \* caller -> window it is at
  stamp,      \* caller -> time it read
  rolled,     \* requester -> windows given back so far
  deadline,   \* waiter -> deadline
  redisFaults,
  resets      \* calls of reset() so far

callVars == <<lpc, call, win, stamp, rolled, deadline>>
limiterVars == <<clock, log, granted, callVars, redisFaults, resets>>

Entries == [by : Callers, call : Nat, at : Nat]

LimiterTypeOK ==
  /\ clock \in Nat /\ redisFaults \in Nat /\ resets \in Nat
  /\ log \in [Windows -> SUBSET Entries] /\ granted \in [Windows -> SUBSET Entries]
  /\ lpc \in [Callers -> {"idle", "stamp", "script", "rollback", "refused", "asleep"}]
  /\ call \in [Callers -> Nat] /\ stamp \in [Callers -> Nat]
  /\ win \in [Callers -> Windows]
  /\ rolled \in [Callers -> Nat] /\ deadline \in [Callers -> Nat]

LimiterInit ==
  /\ clock = 0 /\ redisFaults = 0 /\ resets = 0
  /\ log = [w \in Windows |-> {}] /\ granted = [w \in Windows |-> {}]
  /\ lpc = [c \in Callers |-> "idle"]
  /\ call = [c \in Callers |-> 0] /\ stamp = [c \in Callers |-> 0]
  /\ win = [c \in Callers |-> 0]
  /\ rolled = [c \in Callers |-> 0] /\ deadline = [c \in Callers |-> 0]

-----------------------------------------------------------------------------
(* The scripts *)

\* (faulty: every window is pruned with the width of the first)
PrunedByMinute(w, t) == {e \in log[w] : e.at > t - Width[1]}

\* ZREMRANGEBYSCORE -inf (t - window)
Pruned(w, t) == {e \in log[w] : e.at > t - Width[w]}

HasRoom(c) == Cardinality(Pruned(win[c], stamp[c])) < Limit[win[c]]

\* The entry of c's call in the window it is at.
Entry(c) == [by |-> c, call |-> call[c], at |-> stamp[c]]

\* Slots c's call holds in window w.
Held(c, w) == {e \in log[w] : e.by = c /\ e.call = call[c]}

\* The call is over: the request is made, or given up.
CallOver(c) ==
  /\ lpc' = [lpc EXCEPT ![c] = "idle"]
  /\ win' = [win EXCEPT ![c] = 0] /\ stamp' = [stamp EXCEPT ![c] = 0]
  /\ rolled' = [rolled EXCEPT ![c] = 0] /\ deadline' = [deadline EXCEPT ![c] = 0]

RedisFault == redisFaults < MaxRedisFaults /\ redisFaults' = redisFaults + 1

-----------------------------------------------------------------------------
(* check_and_acquire and acquire *)

\* A call starts with a fresh uuid, at the first window.  wait_for_slot calls
\* again while its deadline has not passed.
LCall(c) ==
  /\ \/ lpc[c] \in {"idle", "asleep"}
     \/ c \in Waiters /\ lpc[c] = "refused" /\ clock < deadline[c]
  /\ call[c] < MaxCalls[c]
  /\ lpc' = [lpc EXCEPT ![c] = "stamp"]
  /\ call' = [call EXCEPT ![c] = @ + 1]
  /\ win' = [win EXCEPT ![c] = IF c \in Waiters THEN 0 ELSE 1]
  /\ deadline' = IF c \in Waiters /\ lpc[c] = "idle"
                 THEN [deadline EXCEPT ![c] = clock + Timeout] ELSE deadline
  /\ UNCHANGED <<clock, log, granted, stamp, rolled, redisFaults, resets>>

\* now = time.time()
LStamp(c) ==
  /\ lpc[c] = "stamp"
  /\ stamp' = [stamp EXCEPT ![c] = clock]
  /\ lpc' = [lpc EXCEPT ![c] = "script"]
  /\ UNCHANGED <<clock, log, granted, call, win, rolled, deadline, redisFaults, resets>>

\* (faulty: the loop runs on after the last window)
LAcquireOnward(c) ==
  /\ lpc[c] = "script" /\ HasRoom(c)
  /\ log' = [log EXCEPT ![win[c]] = Pruned(win[c], stamp[c]) \cup {Entry(c)}]
  /\ granted' = [granted EXCEPT ![win[c]] = @ \cup {Entry(c)}]
  /\ IF win[c] = 0
     THEN CallOver(c)
     ELSE /\ lpc' = [lpc EXCEPT ![c] = "stamp"]
          /\ win' = [win EXCEPT ![c] = @ + 1]
          /\ UNCHANGED <<stamp, rolled, deadline>>
  /\ UNCHANGED <<clock, call, redisFaults, resets>>

\* The script finds room and adds the entry; on to the next window, if any.
LAcquire(c) ==
  /\ lpc[c] = "script" /\ HasRoom(c)
  /\ log' = [log EXCEPT ![win[c]] = Pruned(win[c], stamp[c]) \cup {Entry(c)}]
  /\ granted' = [granted EXCEPT ![win[c]] = @ \cup {Entry(c)}]
  /\ IF win[c] \in {0, Cascade}
     THEN CallOver(c)
     ELSE /\ lpc' = [lpc EXCEPT ![c] = "stamp"]
          /\ win' = [win EXCEPT ![c] = @ + 1]
          /\ UNCHANGED <<stamp, rolled, deadline>>
  /\ UNCHANGED <<clock, call, redisFaults, resets>>

\* The script finds the window full.
LRefuse(c) ==
  /\ lpc[c] = "script" /\ ~HasRoom(c)
  /\ log' = [log EXCEPT ![win[c]] = Pruned(win[c], stamp[c])]
  /\ lpc' = [lpc EXCEPT ![c] = IF win[c] > 1 THEN "rollback" ELSE "refused"]
  /\ UNCHANGED <<clock, granted, call, win, stamp, rolled, deadline, redisFaults, resets>>

\* The windows a call has to pass.
WindowsOf(c) == IF c \in Waiters THEN {0} ELSE 1 .. Cascade

\* Redis fails: the request goes ahead without rate limiting.
LOpen(c) ==
  /\ lpc[c] \in {"stamp", "script"} /\ RedisFault
  /\ granted' = [w \in Windows |->
       IF w \in WindowsOf(c)
       THEN granted[w] \cup {[by |-> c, call |-> call[c], at |-> clock]} ELSE granted[w]]
  /\ CallOver(c)
  /\ UNCHANGED <<clock, log, call, resets>>

\* Where a rollback goes after the window it is at.
RolledTo(c) == IF rolled[c] + 2 = win[c] THEN "refused" ELSE "rollback"

\* (faulty: the last window taken is not given back)
LRollbackShort(c) ==
  /\ lpc[c] = "rollback"
  /\ log' = [log EXCEPT ![rolled[c]] = @ \ Held(c, rolled[c])]
  /\ granted' = [granted EXCEPT ![rolled[c]] = @ \ Held(c, rolled[c])]
  /\ rolled' = [rolled EXCEPT ![c] = @ + 1]
  /\ lpc' = [lpc EXCEPT ![c] = RolledTo(c)]
  /\ UNCHANGED <<clock, call, win, stamp, deadline, redisFaults, resets>>

\* ZREM, one window after the other.
LRollback(c) ==
  LET w == rolled[c] + 1 IN
  /\ lpc[c] = "rollback"
  /\ granted' = [granted EXCEPT ![w] = @ \ Held(c, w)]
  /\ log' = [log EXCEPT ![w] = @ \ Held(c, w)]
  /\ rolled' = [rolled EXCEPT ![c] = w]
  /\ lpc' = [lpc EXCEPT ![c] = RolledTo(c)]
  /\ UNCHANGED <<clock, call, win, stamp, deadline, redisFaults, resets>>

\* A ZREM that fails is logged, the slot stays taken.
LRollbackLost(c) ==
  /\ lpc[c] = "rollback" /\ RedisFault
  /\ rolled' = [rolled EXCEPT ![c] = @ + 1]
  /\ lpc' = [lpc EXCEPT ![c] = RolledTo(c)]
  /\ UNCHANGED <<clock, log, granted, call, win, stamp, deadline, resets>>

-----------------------------------------------------------------------------
(* The loops around them *)

\* get_wait_time counts every window, which removes what has expired.
LLook(c) ==
  /\ c \in Requesters /\ lpc[c] = "refused"
  /\ log' = [w \in Windows |-> IF w = 0 THEN log[w] ELSE Pruned(w, clock)]
  /\ lpc' = [lpc EXCEPT ![c] = "asleep"]
  /\ win' = [win EXCEPT ![c] = 0] /\ stamp' = [stamp EXCEPT ![c] = 0]
  /\ rolled' = [rolled EXCEPT ![c] = 0]
  /\ UNCHANGED <<clock, granted, call, deadline, redisFaults, resets>>

\* wait_for_slot raises RateLimitTimeoutError when its deadline has passed.
LTimeout(c) ==
  /\ c \in Waiters /\ lpc[c] = "refused" /\ clock >= deadline[c]
  /\ CallOver(c)
  /\ UNCHANGED <<clock, log, granted, call, redisFaults, resets>>

\* The worker is killed.
LKilled(c) ==
  /\ lpc[c] # "idle" /\ RedisFault
  /\ CallOver(c)
  /\ UNCHANGED <<clock, log, granted, call, resets>>

\* reset() deletes the windows of the cascade.
LReset ==
  /\ resets < MaxResets /\ resets' = resets + 1
  /\ log' = [w \in Windows |-> IF w = 0 THEN log[w] ELSE {}]
  /\ UNCHANGED <<clock, granted, callVars, redisFaults>>

LTick ==
  /\ clock < Horizon
  /\ clock' = clock + 1
  /\ UNCHANGED <<log, granted, callVars, redisFaults, resets>>

LCaller(c) ==
  \/ LCall(c) \/ LStamp(c) \/ LAcquire(c) \/ LRefuse(c) \/ LOpen(c)
  \/ LRollback(c) \/ LRollbackLost(c) \/ LLook(c) \/ LTimeout(c) \/ LKilled(c)

LimiterNext == (\E c \in Callers : LCaller(c)) \/ LReset \/ LTick

LimiterSpec == LimiterInit /\ [][LimiterNext]_limiterVars

-----------------------------------------------------------------------------
(* Properties *)

\* What is left of the promise of the sliding window: of the requests it let
\* through, dated by the clock value their script ran with (or by the failure
\* of Redis that let them through), at most Limit fall into the last Width
\* seconds, and as many more for every reset, and one more for every failure;
\* although workers run the scripts with clock values that are no longer
\* current and others remove entries in between.
RateKept ==
  \A w \in Windows :
    Cardinality({e \in granted[w] : e.at > clock - Width[w]})
      <= Limit[w] * (1 + resets) + redisFaults

\* check_and_acquire: "If any window is exhausted the method returns False and
\* does not record the request in any window", once the rollback is through
\* and none of its steps has failed.
RefusedLeaveNoTrace ==
  redisFaults = 0 =>
    \A c \in Callers, w \in Windows :
      lpc[c] \in {"refused", "asleep"} => Held(c, w) = {}

=============================================================================
