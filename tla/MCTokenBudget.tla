--------------------------- MODULE MCTokenBudget ---------------------------
(***************************************************************************)
(* The two ledgers of budgets: tokens, with two agents, three calls, and a *)
(* ceiling that a quarter does not divide (TokenBudget), and costs, with   *)
(* two reservations on one or two accounts (CostLedger).  They have their  *)
(* own tables and share no state; part says which a behaviour is of.       *)
(***************************************************************************)
EXTENDS Budgets, TLC

VARIABLE part

costVars == <<costs, bookings, highest>>

MCInit ==
  /\ part \in {"tokens", "costs"}
  /\ Init /\ Costs!Init
  /\ part # "costs" => \A id \in Bookings : bookings[id].scope = "run:1"

MCNext ==
  \/ part = "tokens" /\ Next /\ UNCHANGED <<costVars, part>>
  \/ part = "costs" /\ Costs!Next /\ UNCHANGED <<vars, part>>

MCSpec == MCInit /\ [][MCNext]_<<vars, costVars, part>>

MCShareLists == {<<>>, <<<<"engineer", 67>>, <<"reviewer", 33>>>>}

Report(input, output, total) ==
  [input |-> input, output |-> output, cached |-> Unknown, reasoning |-> Unknown, total |-> total]

(* Nothing; a plain bill; a bill above every estimate; parts without and   *)
(* with a total; a total below its parts; cached input beyond the input.   *)
MCUsages == {NoUsage, Report(Unknown, Unknown, 1), Report(Unknown, Unknown, 4),
             Report(1, 1, Unknown), Report(1, 1, 1),
             [Report(1, 1, Unknown) EXCEPT !.cached = 2]}

(* What the theorems about the ledgers assume of their callers.            *)
ASSUME BudgetAssumption /\ Costs!AmountsAssumption

Symmetry == Permutations(Calls) \cup Permutations(Approvals)
=============================================================================
