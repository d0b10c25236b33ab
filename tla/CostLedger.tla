------------------------------ MODULE CostLedger ------------------------------
(***************************************************************************)
(* The cost ledger (packages/budgets/src/index.ts): an account in          *)
(* micro-dollars for every scope, and reservations of estimated costs that *)
(* are later reconciled with the actual cost or released.                  *)
(*                                                                         *)
(* Unlike tokens, a cost beyond the estimate is booked only as far as the  *)
(* account can bear it.  The limit may be set anew at any time, also below *)
(* what is spent already.  Every operation is one BEGIN IMMEDIATE          *)
(* transaction; a refused one changes nothing.  A dollar amount is compared*)
(* with a tolerance of a tenth of a micro-dollar and then rounded to whole *)
(* ones, which is a comparison of whole micro-dollars.                     *)
(***************************************************************************)
EXTENDS Integers, FiniteSets, Functions

CONSTANTS
  Scopes,        (* Accounts: "run:<id>".                                  *)
  Reservations,  (* Ids of reservations.                                   *)
  Amounts,       (* Estimates and actual costs.                            *)
  Limits         (* Limits that are set.                                   *)

(* What the callers guarantee; the theorems take it as hypothesis.         *)
AmountsAssumption == Amounts \subseteq Nat /\ Limits \subseteq Nat

VARIABLES
  account,      (* budget_accounts, per scope.                             *)
  reservation,  (* budget_reservations, by id.                             *)
  highest       (* History: the highest limit that a scope has had.        *)

vars == <<account, reservation, highest>>

Account == [known : BOOLEAN, limit : Nat, spent : Nat, reserved : Nat]
Reservation == [state : {"NONE", "ACTIVE", "RECONCILED", "RELEASED"},
                scope : Scopes, amount : Nat]

Remaining(acc) ==
  IF acc.spent + acc.reserved < acc.limit THEN acc.limit - acc.spent - acc.reserved ELSE 0

-----------------------------------------------------------------------------
Init ==
  /\ account = [s \in Scopes |-> [known |-> FALSE, limit |-> 0, spent |-> 0, reserved |-> 0]]
  /\ reservation \in
       [Reservations -> {[state |-> "NONE", scope |-> s, amount |-> 0] : s \in Scopes}]
  /\ highest = [s \in Scopes |-> 0]

SetLimit(s, limit) ==
  /\ account' = [account EXCEPT ![s] = [@ EXCEPT !.known = TRUE, !.limit = limit]]
  /\ highest' = [highest EXCEPT ![s] = IF limit > @ THEN limit ELSE @]
  /\ UNCHANGED reservation

Reserve(id, amount) ==
  LET s == reservation[id].scope
  IN /\ reservation[id].state = "NONE"
     /\ account[s].known
     /\ amount <= Remaining(account[s])
     /\ account' = [account EXCEPT ![s].reserved = @ + amount]
     /\ reservation' = [reservation EXCEPT ![id] = [@ EXCEPT !.state = "ACTIVE", !.amount = amount]]
     /\ UNCHANGED highest

(* The row of a reservation that is there and not settled yet. *)
Settleable(row) == row.state = "ACTIVE"

(* The actual cost exceeds the estimate by no more than what remains.      *)
Affordable(row, actual) == actual <= row.amount + Remaining(account[row.scope])

Reconcile(id, actual) ==
  LET row == reservation[id]
  IN /\ Settleable(row)
     /\ Affordable(row, actual)
     /\ account' = [account EXCEPT ![row.scope].reserved = @ - row.amount,
                                    ![row.scope].spent = @ + actual]
     /\ reservation' = [reservation EXCEPT
          ![id] = [@ EXCEPT !.state = "RECONCILED", !.amount = actual]]
     /\ UNCHANGED highest

Release(id) ==
  LET row == reservation[id]
  IN /\ Settleable(row)
     /\ account' = [account EXCEPT ![row.scope].reserved = @ - row.amount]
     /\ reservation' = [reservation EXCEPT ![id].state = "RELEASED"]
     /\ UNCHANGED highest

Next ==
  \/ \E s \in Scopes, limit \in Limits : SetLimit(s, limit)
  \/ \E id \in Reservations, amount \in Amounts : Reserve(id, amount) \/ Reconcile(id, amount)
  \/ \E id \in Reservations : Release(id)

Spec == Init /\ [][Next]_vars

-----------------------------------------------------------------------------
(* Properties. *)

(* Everything keeps its type: no balance becomes negative, which the tables*)
(* CHECK and would fail the operation for (index.ts 155-169).              *)
TypeOK ==
  /\ account \in [Scopes -> Account]
  /\ reservation \in [Reservations -> Reservation]
  /\ highest \in [Scopes -> Nat]

(* The balances of an account are the sums of its reservations, so that a  *)
(* reservation is settled at most once.                                    *)
BalancesAreSums ==
  \A s \in Scopes :
    LET sum(state) == SumFunctionOnSet([id \in Reservations |-> reservation[id].amount],
          {id \in Reservations : reservation[id].scope = s /\ reservation[id].state = state})
    IN account[s].reserved = sum("ACTIVE") /\ account[s].spent = sum("RECONCILED")

(* No cost is booked that the highest limit so far did not cover, although *)
(* actual costs exceed their estimates and limits are lowered under open   *)
(* reservations (reserve, reconcile).                                      *)
SpendingStaysUnderLimits ==
  \A s \in Scopes : account[s].spent + account[s].reserved <= highest[s]

(* The ledger adds up, and no cost is booked that no limit covered.        *)
CostsAreSound == TypeOK /\ BalancesAreSums /\ SpendingStaysUnderLimits
=============================================================================
