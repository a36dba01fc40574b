---------------------------- MODULE QuotaBudget ----------------------------
(***************************************************************************)
(* What the YouTube quota layer promises its callers, with nothing of how  *)
(* it does it: a daily budget of Limit units.  A call first sets its cost  *)
(* aside; what is set aside is later either charged or given back.  What   *)
(* was charged today and what is set aside never exceed the budget.        *)
(*                                                                         *)
(* Module Quota, the manager with its Redis counter, its lock and its      *)
(* in-memory dictionary, is shown to implement this for one process.       *)
(***************************************************************************)
EXTENDS Naturals

CONSTANTS
    Requests,   \* the calls that want quota
    Cost,       \* units each of them costs
    Weight(_),  \* the sum of the costs of a set of requests
    Limit       \* the daily budget

VARIABLES
    charged,    \* units charged to the current day
    aside       \* requests whose cost is set aside

budgetVars == <<charged, aside>>

BudgetInit ==
    /\ charged = 0
    /\ aside = {}

SetAside(r) ==
    /\ r \notin aside
    /\ charged + Weight(aside) + Cost[r] <= Limit
    /\ aside' = aside \cup {r}
    /\ UNCHANGED charged

Charge(r) ==
    /\ r \in aside
    /\ aside' = aside \ {r}
    /\ charged' = charged + Cost[r]

(* Given back without a charge: one reservation that was released, or all  *)
(* those of a process that died.                                           *)
GiveBack(S) ==
    /\ S \subseteq aside
    /\ aside' = aside \ S
    /\ UNCHANGED charged

(* Midnight UTC: the charge starts again at nothing, what is set aside     *)
(* stays set aside and will be charged to the new day.                     *)
NewDay ==
    /\ charged' = 0
    /\ UNCHANGED aside

BudgetNext ==
    \/ \E r \in Requests : SetAside(r) \/ Charge(r)
    \/ \E S \in SUBSET Requests : GiveBack(S)
    \/ NewDay

BudgetSpec == BudgetInit /\ [][BudgetNext]_budgetVars
=============================================================================
