------------------------------- MODULE MCAdapt -------------------------------
(***************************************************************************)
(* Small instances of three components that have no variable in common:    *)
(* the rate control, the powers, the recovery ladder.  One of them runs,   *)
(* the others stay as they are: each is checked in the same run.           *)
(***************************************************************************)
EXTENDS RateControl, LinkBudget, Recovery, TLC

CONSTANT Runs        \* the components that may be the one that runs

VARIABLE running

adaptVars == <<rateVars, budgetVars, recoveryVars, running>>

SnrFloor == (0 :> -10) @@ (1 :> -15) @@ (2 :> -40)

Strong == [snr |-> 2, strong |-> TRUE]
ReadingSet == {Strong, [snr |-> -40, strong |-> FALSE]}

LowestDbm == -2
Deaf == -30
PathSet == {-5, 22}

StuckTicks == (0 :> 1) @@ (1 :> 1) @@ (2 :> 4) @@ (3 :> 1)
ApartTicks == (0 :> 1) @@ (1 :> 1) @@ (2 :> 6) @@ (3 :> 1)
LostTicks == (0 :> 3) @@ (1 :> 3) @@ (2 :> 13) @@ (3 :> 3)

AdaptInit ==
    /\ running \in Runs
    /\ RateInit /\ BudgetInit /\ RecoveryInit
    /\ running # "powers" => /\ ~auto /\ phy = RendezvousMode
                             /\ path = [n \in Ends |-> Max(Paths)]
                             /\ tx = [n \in Ends |-> MaxDbm]
    /\ running # "recovery" => adapts = [b \in Boards |-> TRUE]

AdaptNext ==
    \/ running = "rate" /\ RateNext /\ UNCHANGED <<budgetVars, recoveryVars, running>>
    \/ running = "powers" /\ BudgetNext /\ UNCHANGED <<rateVars, recoveryVars, running>>
    \/ running = "recovery" /\ RecoveryNext /\ UNCHANGED <<rateVars, budgetVars, running>>

(* The fairness of each component, when it is the one. *)
AdaptFairness ==
    /\ WF_rateVars(running = "rate" /\ (LoopTop \/ RateTurn))
    /\ WF_rateVars(running = "rate" /\ RevivedPasses)
    /\ WF_budgetVars(running = "powers" /\ MaybeStatus)
    /\ WF_budgetVars(running = "powers" /\ ~turned /\ \E a, r \in BOOLEAN : Turn(a, r))
    /\ WF_budgetVars(running = "powers" /\ SwitchMode)
    /\ WF_recoveryVars(running = "recovery" /\ (Meet \/ Tick))
    /\ WF_recoveryVars(running = "recovery" /\ Clears)

AdaptSpec == AdaptInit /\ [][AdaptNext]_adaptVars /\ AdaptFairness
-----------------------------------------------------------------------------
(* The inductive invariants of the rate control and of the recovery, and   *)
(* the limits that AutoPowerStep keeps.                                    *)
AdaptTypeOK == RateInv /\ PowerTypeOK /\ RecoveryInv
=============================================================================
