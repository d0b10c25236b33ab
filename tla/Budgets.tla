-------------------------------- MODULE Budgets --------------------------------
(***************************************************************************)
(* The two ledgers of packages/budgets, which have tables of their own and *)
(* share no state: the tokens of a run (TokenBudget) and the costs of      *)
(* scopes (CostLedger).                                                    *)
(***************************************************************************)
EXTENDS TokenBudget

CONSTANTS Scopes, Bookings, Estimates, Limits
VARIABLES costs, bookings, highest

Costs == INSTANCE CostLedger WITH
           Reservations <- Bookings, Amounts <- Estimates,
           account <- costs, reservation <- bookings

(* In both ledgers every balance is the sum of what is behind it and none  *)
(* is negative.  Tokens beyond the ceiling were billed, an extension counts*)
(* once, the shares cover the limit, a bill covers its report; and no cost *)
(* is booked that no limit covered (budgets).                              *)
LedgersAreSound == LedgerIsSound /\ Costs!CostsAreSound
=============================================================================
