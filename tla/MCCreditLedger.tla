--------------------------- MODULE MCCreditLedger ----------------------------
(***************************************************************************)
(* Values for the constants of CreditLedger: two platforms of different    *)
(* cost, and an allocation that is enough for one run and part of another. *)
(***************************************************************************)
EXTENDS CreditLedger

OneRun    == {"r1"}
TwoRuns   == {"r1", "r2"}
Paid      == {"youtube", "tiktok"}
PaidCost  == [p \in Paid |-> IF p = "youtube" THEN 2 ELSE 1]
OnePaid   == {"youtube"}
OneCost   == [p \in OnePaid |-> 2]

=============================================================================
