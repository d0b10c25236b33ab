---------------------------- MODULE TokenBudget ----------------------------
(***************************************************************************)
(* The token ledger of one run (packages/budgets/src/index.ts): a limit    *)
(* with approved extensions, the shares of the agents, and a reservation   *)
(* for every model call.                                                   *)
(*                                                                         *)
(* A call reserves an estimate before it is made.  Afterwards it is        *)
(* reconciled with the usage that the provider reports, which may be more  *)
(* than the estimate, may be incomplete, and may come late; only a known   *)
(* bill settles the reservation.                                           *)
(*                                                                         *)
(* Every operation is one BEGIN IMMEDIATE transaction, so the callers,     *)
(* whatever their number, are one sequence of actions; a refused operation *)
(* changes nothing.  The tables CHECK that no balance is negative, which   *)
(* would make an operation fail: TypeOK says that it never happens.        *)
(***************************************************************************)
EXTENDS Integers, Sequences, FiniteSets, Functions

CONSTANTS
  Agents,      (* Software agents, by role.                                *)
  Pool,        (* SOFTWARE_AGENT_EXTENSION_POOL_ID                         *)
  ShareLists,  (* Ways to share a budget: sequences of <<agent, percent>>. *)
  FullLimit,   (* The full ceiling, in tokens.                             *)
  Calls,       (* Reservations that may be made.                           *)
  Amounts,     (* Estimates of a call, and amounts to reassign.            *)
  Usages,      (* What a provider may report about a call.                 *)
  Approvals,   (* Approvals of extensions.                                 *)
  Unknown

Counts == Nat \cup {Unknown}
Usage == [input : Counts, output : Counts, cached : Counts, reasoning : Counts, total : Counts]

(* What the callers guarantee; the theorems take it as hypothesis.         *)
BudgetAssumption ==
  /\ FullLimit \in Nat
  /\ Amounts \subseteq Nat
  /\ ShareLists \subseteq Seq(Agents \X (1 .. 100))
  /\ \A list \in ShareLists : \A i, j \in DOMAIN list : list[i][1] = list[j][1] => i = j
  /\ Usages \subseteq Usage
  /\ Unknown \notin Nat
  /\ IsFiniteSet(Approvals)

VARIABLES
  account,     (* token_budget_accounts                                    *)
  holders,     (* The agents that have a row in ...                        *)
  share,       (* token_budget_agent_allocations                           *)
  reservation, (* token_budget_reservations                                *)
  used,        (* token_budget_extensions                                  *)
  excess       (* History: what was billed beyond the estimates, in all    *)
               (* ("account") and by each holder.                          *)

vars == <<account, holders, share, reservation, used, excess>>

Holders == Agents \cup {Pool}

Account == [configured : BOOLEAN, base : Nat, extension : Nat,
            spent : Nat, reserved : Nat, uncertain : Nat]
Share == [allocated : Nat, spent : Nat, reserved : Nat]

(* usage is history: what the provider reported last.                      *)
Reservation == [state : {"NONE", "ACTIVE", "UNKNOWN", "RECONCILED", "RELEASED"},
                agent : Holders, amount : Nat, billed : Nat, usage : Usage]

Effective(acc) == IF acc.base + acc.extension < FullLimit
                  THEN acc.base + acc.extension ELSE FullLimit
(* Mutated: what is reserved is still handed out. *)
RemainingUnspent(limit, row) == IF limit - row.spent > 0 THEN limit - row.spent ELSE 0
Remaining(limit, row) ==
  IF limit - row.spent - row.reserved > 0 THEN limit - row.spent - row.reserved ELSE 0

Increment == (FullLimit * 25) \div 100
Percent == [economy |-> 25, balanced |-> 50, quality |-> 100]
Excess(billed, amount) == IF billed > amount THEN billed - amount ELSE 0

-----------------------------------------------------------------------------
(* The bill of a call, from a report with unusable counts left out.        *)
Expected(usage) ==
  IF usage.input # Unknown /\ usage.output # Unknown THEN usage.input + usage.output ELSE Unknown

Within(part, whole) == part = Unknown \/ (whole # Unknown /\ part <= whole)

(* Mutated: a total that contradicts its parts is believed. *)
BilledTokensAsTotal(usage) == IF usage.total # Unknown THEN usage.total ELSE Expected(usage)

BilledTokens(usage) ==
  IF usage.total # Unknown
  THEN IF Expected(usage) = Unknown \/ usage.total >= Expected(usage) THEN usage.total ELSE Unknown
  ELSE IF Within(usage.cached, usage.input) /\ Within(usage.reasoning, usage.output)
       THEN Expected(usage) ELSE Unknown

NoUsage == [input |-> Unknown, output |-> Unknown, cached |-> Unknown,
            reasoning |-> Unknown, total |-> Unknown]

-----------------------------------------------------------------------------
Init ==
  /\ account = [configured |-> FALSE, base |-> 0, extension |-> 0,
                spent |-> 0, reserved |-> 0, uncertain |-> 0]
  /\ holders = {}
  /\ share = [h \in Holders |-> [allocated |-> 0, spent |-> 0, reserved |-> 0]]
  /\ reservation = [c \in Calls |-> [state |-> "NONE", agent |-> Pool, amount |-> 0,
                                     billed |-> 0, usage |-> NoUsage]]
  /\ used = {}
  /\ excess = [h \in Holders \cup {"account"} |-> 0]

(* Every agent gets its percentage rounded down, the last one the rest.    *)
Allotments(list, base) ==
  {allotted \in [DOMAIN list -> 0 .. base] :
     /\ \A i \in DOMAIN list : i < Len(list) => allotted[i] = (base * list[i][2]) \div 100
     /\ list # <<>> => SumFunction(allotted) = base}

ConfigureTokenBudget(mode, list) ==
  LET base == (FullLimit * Percent[mode]) \div 100
  IN /\ ~account.configured
     /\ account' = [account EXCEPT !.configured = TRUE, !.base = base]
     /\ \E allotted \in Allotments(list, base) :
          share' = [h \in Holders |->
            IF \E i \in DOMAIN list : list[i][1] = h
            THEN [share[h] EXCEPT !.allocated = allotted[CHOOSE i \in DOMAIN list : list[i][1] = h]]
            ELSE share[h]]
     /\ holders' = {list[i][1] : i \in DOMAIN list}
     /\ UNCHANGED <<reservation, used, excess>>

(* An agent without a share can reserve only when nobody has one.          *)
ReserveTokens(c, agent, amount) ==
  /\ account.configured
  /\ reservation[c].state = "NONE"
  /\ amount <= Remaining(Effective(account), account)
  /\ agent \in holders \/ holders = {}
  /\ agent \in holders => amount <= Remaining(share[agent].allocated, share[agent])
  /\ account' = [account EXCEPT !.reserved = @ + amount]
  /\ share' = [h \in Holders |-> IF h = agent /\ h \in holders
                                 THEN [share[h] EXCEPT !.reserved = @ + amount] ELSE share[h]]
  /\ reservation' = [reservation EXCEPT
       ![c] = [@ EXCEPT !.state = "ACTIVE", !.agent = agent, !.amount = amount]]
  /\ UNCHANGED <<holders, used, excess>>

OpenToBillAny(state) == state # "NONE"  \* Mutated: a settled call can be billed again.
OpenToBill(state) == state \in {"ACTIVE", "UNKNOWN"}

(* Mutated: repeated unknown usage is counted again. *)
BecomesUncertainAgain(c) == reservation[c].amount
BecomesUncertain(c) == IF reservation[c].state = "ACTIVE" THEN reservation[c].amount ELSE 0

ReconcileUnknown(c, usage) ==
  /\ BilledTokens(usage) = Unknown
  /\ account' = [account EXCEPT !.uncertain = @ + BecomesUncertain(c)]
  /\ reservation' = [reservation EXCEPT ![c] = [@ EXCEPT !.state = "UNKNOWN", !.usage = usage]]
  /\ UNCHANGED <<share, excess>>

ReconcileKnown(c, usage) ==
  LET row == reservation[c]
      billed == BilledTokens(usage)
      over == Excess(billed, row.amount)
  IN /\ billed # Unknown
     /\ account' = [account EXCEPT
          !.reserved = @ - row.amount,
          !.uncertain = @ - (IF row.state = "UNKNOWN" THEN row.amount ELSE 0),
          !.spent = @ + billed]
     /\ share' = [h \in Holders |->
          IF h = row.agent /\ h \in holders
          THEN [share[h] EXCEPT !.reserved = @ - row.amount, !.spent = @ + billed] ELSE share[h]]
     /\ reservation' = [reservation EXCEPT
          ![c] = [@ EXCEPT !.state = "RECONCILED", !.billed = billed, !.usage = usage]]
     /\ excess' = [h \in DOMAIN excess |->
          IF h = "account" \/ (h = row.agent /\ h \in holders) THEN excess[h] + over ELSE excess[h]]

ReconcileTokens(c, usage) ==
  /\ OpenToBill(reservation[c].state)
  /\ ReconcileUnknown(c, usage) \/ ReconcileKnown(c, usage)
  /\ UNCHANGED <<holders, used>>

ReleaseTokens(c) ==
  LET row == reservation[c]
  IN /\ row.state = "ACTIVE"
     /\ account' = [account EXCEPT !.reserved = @ - row.amount]
     /\ share' = [h \in Holders |-> IF h = row.agent /\ h \in holders
                                    THEN [share[h] EXCEPT !.reserved = @ - row.amount] ELSE share[h]]
     /\ reservation' = [reservation EXCEPT ![c].state = "RELEASED"]
     /\ UNCHANGED <<holders, used, excess>>

(* Mutated: the giver keeps what it gives. *)
MovedOneWay(from, to, amount) == [share EXCEPT ![to].allocated = @ + amount]
Moved(from, to, amount) ==
  [share EXCEPT ![from].allocated = @ - amount, ![to].allocated = @ + amount]

ReassignAgentTokens(from, to, amount) ==
  /\ from # to /\ amount > 0
  /\ {from, to} \subseteq holders
  /\ amount <= Remaining(share[from].allocated, share[from])
  /\ share' = Moved(from, to, amount)
  /\ UNCHANGED <<account, holders, reservation, used, excess>>

FitsCeilingNow(amount) == Effective(account) <= FullLimit  \* Mutated: the increment is not counted.
FitsCeiling(amount) == Effective(account) + amount <= FullLimit

(* An approval that is valid now, 15 minutes at most, adds a quarter of the*)
(* full ceiling, once.                                                     *)
ExtendTokenBudget(approval) ==
  /\ account.configured
  /\ approval \notin used
  /\ FitsCeiling(Increment)
  /\ used' = used \cup {approval}
  /\ account' = [account EXCEPT !.extension = @ + Increment]
  /\ IF holders = {} THEN UNCHANGED <<holders, share>>
     ELSE /\ holders' = holders \cup {Pool}
          /\ share' = [share EXCEPT ![Pool].allocated = @ + Increment]
  /\ UNCHANGED <<reservation, excess>>

Next ==
  \/ \E mode \in DOMAIN Percent, list \in ShareLists : ConfigureTokenBudget(mode, list)
  \/ \E c \in Calls, agent \in Agents, amount \in Amounts : ReserveTokens(c, agent, amount)
  \/ \E c \in Calls, usage \in Usages : ReconcileTokens(c, usage)
  \/ \E c \in Calls : ReleaseTokens(c)
  \/ \E from, to \in Holders, amount \in Amounts : ReassignAgentTokens(from, to, amount)
  \/ \E approval \in Approvals : ExtendTokenBudget(approval)

Spec == Init /\ [][Next]_vars

-----------------------------------------------------------------------------
(* Properties. *)

(* Everything keeps its type, in particular no balance becomes negative.   *)
TypeOK ==
  /\ account \in Account
  /\ holders \subseteq Holders
  /\ share \in [Holders -> Share]
  /\ reservation \in [Calls -> Reservation]
  /\ used \subseteq Approvals
  /\ excess \in [Holders \cup {"account"} -> Nat]

In(states) == {c \in Calls : reservation[c].state \in states}
By(agent) == {c \in Calls : reservation[c].agent = agent}

(* The balances are the sums of the reservations behind them: a call is    *)
(* reserved until its bill is known, also when its usage is uncertain.     *)
LedgerBalances ==
  LET amount == [c \in Calls |-> reservation[c].amount]
      billed == [c \in Calls |-> reservation[c].billed]
      open == In({"ACTIVE", "UNKNOWN"})
      settled == In({"RECONCILED"})
  IN /\ account.reserved = SumFunctionOnSet(amount, open)
     /\ account.uncertain = SumFunctionOnSet(amount, In({"UNKNOWN"}))
     /\ account.spent = SumFunctionOnSet(billed, settled)
     /\ \A a \in holders \ {Pool} :
          /\ share[a].reserved = SumFunctionOnSet(amount, open \cap By(a))
          /\ share[a].spent = SumFunctionOnSet(billed, settled \cap By(a))

(* The limit is passed only by what providers billed beyond the estimates, *)
(* in all and by each holder of a share.                                   *)
OverspendIsBilled ==
  /\ account.spent + account.reserved <= Effective(account) + excess["account"]
  /\ \A h \in Holders :
       share[h].spent + share[h].reserved <= share[h].allocated + excess[h]

(* Extensions never lift the limit beyond the full ceiling, and each       *)
(* approval counts once.                                                   *)
ExtensionsAreApproved ==
  /\ account.base + account.extension <= FullLimit
  /\ account.extension = Increment * Cardinality(used)

(* The shares cover the limit exactly, after extensions and reassignments. *)
SharesCoverLimit ==
  holders # {} => SumFunctionOnSet([h \in Holders |-> share[h].allocated], holders)
                    = account.base + account.extension

(* A call that was billed or released is settled for good, and uncertain   *)
(* usage ends only in a bill.                                              *)
SettledForGood ==
  [][\A c \in Calls :
       /\ reservation[c].state \in {"RECONCILED", "RELEASED"} => reservation'[c] = reservation[c]
       /\ reservation[c].state = "UNKNOWN" => reservation'[c].state \in {"UNKNOWN", "RECONCILED"}]_vars

(* A bill is never below the input and output that the provider reported.  *)
BillCoversReport ==
  \A c \in In({"RECONCILED"}) :
    LET usage == reservation[c].usage
    IN Expected(usage) # Unknown => reservation[c].billed >= Expected(usage)

(* The ledger adds up: the account's balances are those of its calls, the  *)
(* agents' shares add up to the limit, an extension needs an approval and  *)
(* stays under the full ceiling, and a bill covers what was reported.      *)
LedgerIsSound ==
  /\ TypeOK /\ LedgerBalances /\ SharesCoverLimit
  /\ ExtensionsAreApproved /\ BillCoversReport
=============================================================================
