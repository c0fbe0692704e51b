------------------------------ MODULE MCCollect ------------------------------
(***************************************************************************)
(* What the collecting jobs share, and what becomes of their records, put   *)
(* side by side: the rate limiter, the credentials, the records and         *)
(* attempts of earlier jobs, and the passes over duplicates.  They share no *)
(* variables; TLC runs them one at a time, chosen by part (see MCControl).   *)
(***************************************************************************)
EXTENDS RateLimiter, CredentialPool, Coverage, Deduplication, TLC

VARIABLE part

\* Duplicates: the records of a run, all the same page and text, the second one
\* in another arena.
CopyIn(a)  == [run |-> "r1", url |-> "u", hash |-> "h", arena |-> a]
Copies     == [i \in Ids |-> CopyIn(IF i = 2 THEN "a2" ELSE "a1")]
ThreeIds   == 1 .. 3
CopyKinds  == {CopyIn("a1"), CopyIn("a2")}

collectVars == <<part, limiterVars, poolVars, coverageVars, dedupVars>>

CollectInit ==
  /\ part \in {"limiter", "pool", "coverage", "dedup"}
  /\ LimiterInit /\ PoolInit /\ CoverageInit /\ DedupInit
  /\ info = Copies

LimiterStep ==
  part = "limiter" /\ LimiterNext /\ UNCHANGED <<poolVars, coverageVars, dedupVars>>
PoolStep ==
  part = "pool" /\ PoolNext /\ UNCHANGED <<limiterVars, coverageVars, dedupVars>>
CoverageStep ==
  part = "coverage" /\ CoverageNext /\ UNCHANGED <<limiterVars, poolVars, dedupVars>>
DedupStep ==
  part = "dedup" /\ DedupNext /\ UNCHANGED <<limiterVars, poolVars, coverageVars>>

CollectNext ==
  /\ UNCHANGED part
  /\ LimiterStep \/ PoolStep \/ CoverageStep \/ DedupStep

CollectSpec == CollectInit /\ [][CollectNext]_collectVars

-----------------------------------------------------------------------------
\* Every entry, counter, row and program counter is one the code can produce.
CollectTypeOK ==
  CASE part = "limiter"  -> LimiterTypeOK
    [] part = "pool"     -> PoolTypeOK
    [] part = "coverage" -> CoverageTypeOK
    [] part = "dedup"    -> DedupTypeOK

-----------------------------------------------------------------------------
(* Values for the constants *)

\* Limiter: wait_for_slot on a window of one request a tick; a cascade of two
\* requests a tick and one in two ticks, so that the second window refuses
\* what the first one granted.
MCLimit == 0 :> 1 @@ 1 :> 2 @@ 2 :> 1
MCWidth == 0 :> 1 @@ 1 :> 1 @@ 2 :> 2
MCCalls == [c \in {"q1", "q2", "w1"} |-> IF c = "q1" THEN 2 ELSE 1]

\* Pool: one key with a daily quota of 1 and a monthly quota of 2.
OneKey  == {"k1"}
MCQuota == [p \in 1 .. 2 |-> [c \in OneKey |-> p]]

\* Coverage: a text posted twice with one term, and another post with both terms
\* at the time of the second; the same dates, or from the second day on.
MCPosts   == {[at |-> 1, terms |-> {"a"}, text |-> "x"], [at |-> 2, terms |-> {"a", "b"}, text |-> "y"],
              [at |-> 2, terms |-> {"a"}, text |-> "x"]}
SomeTerms == {{"a"}, {"b"}, {"a", "b"}}
MCDates   == {<<1, 4>>, <<2, 4>>}

=============================================================================
