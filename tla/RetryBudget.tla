---------------------------- MODULE RetryBudget ----------------------------
(***************************************************************************)
(* The budget of upstream attempts that one client request carries in its  *)
(* context.  Whatever runs under that context (the provider's own retry,   *)
(* the failover to a second account, the repair of a tool call, the        *)
(* migration of a conversation) draws from it before every attempt, with a *)
(* load and a compare-and-swap that may lose to another goroutine.         *)
(***************************************************************************)
EXTENDS Integers

CONSTANTS
  Goroutines,  \* those that share the context
  Attempts,    \* the argument of ContextWithRetryBudget
  Half         \* 2^31: an int32 is in -Half..(Half - 1)

ASSUME AttemptsAssumption == Attempts \in Int /\ Half \in Nat \ {0}

(* Not positive means the default.  The conversion to int32 wraps. *)
Asked == IF Attempts <= 0 THEN 4 ELSE Attempts
Budget == ((Asked + Half) % (2 * Half)) - Half

VARIABLES
  remaining,  \* RetryBudget.remaining
  pc,
  current,    \* what the loop has loaded
  granted     \* history: calls that returned nil

budgetVars == <<remaining, pc, current, granted>>

BudgetInit ==
  /\ remaining = Budget
  /\ pc = [g \in Goroutines |-> "idle"]
  /\ current = [g \in Goroutines |-> 0]
  /\ granted = 0

Goto(g, label) == pc' = [pc EXCEPT ![g] = label]

Call(g) ==
  /\ pc[g] = "idle"
  /\ Goto(g, "load")
  /\ UNCHANGED <<remaining, current, granted>>

(* Mutant of Exhausted: the last attempt is refused. *)
ExhaustedEarly(g) ==
  /\ pc[g] = "load"
  /\ remaining <= 1
  /\ Goto(g, "idle")
  /\ UNCHANGED <<remaining, current, granted>>

Exhausted(g) ==
  /\ pc[g] = "load"
  /\ remaining <= 0
  /\ Goto(g, "idle")
  /\ UNCHANGED <<remaining, current, granted>>

Load(g) ==
  /\ pc[g] = "load"
  /\ remaining > 0
  /\ current' = [current EXCEPT ![g] = remaining]
  /\ Goto(g, "swap")
  /\ UNCHANGED <<remaining, granted>>

(* Mutant of Swap: a plain store of the decremented value. *)
Store(g) ==
  /\ pc[g] = "swap"
  /\ remaining' = current[g] - 1
  /\ granted' = granted + 1
  /\ current' = [current EXCEPT ![g] = 0]
  /\ Goto(g, "idle")

Swap(g) ==
  /\ pc[g] = "swap"
  /\ remaining = current[g]
  /\ remaining' = current[g] - 1
  /\ granted' = granted + 1
  /\ current' = [current EXCEPT ![g] = 0]
  /\ Goto(g, "idle")

Lost(g) ==
  /\ pc[g] = "swap"
  /\ remaining # current[g]
  /\ current' = [current EXCEPT ![g] = 0]
  /\ Goto(g, "load")
  /\ UNCHANGED <<remaining, granted>>

Loop(g) == Exhausted(g) \/ Load(g) \/ Swap(g) \/ Lost(g)

BudgetNext == \E g \in Goroutines : Call(g) \/ Loop(g)

BudgetSpec == BudgetInit /\ [][BudgetNext]_budgetVars

-----------------------------------------------------------------------------
BudgetTypeOK ==
  /\ remaining \in Int
  /\ pc \in [Goroutines -> {"idle", "load", "swap"}]
  /\ current \in [Goroutines -> Int]
  /\ granted \in Nat

(* However many goroutines meet at the last grants, a request makes no     *)
(* more upstream attempts than were asked for (ConsumeRetryBudget).        *)
NeverOverspent == granted <= Asked

(* A call is refused only once every attempt of the budget was granted.  A *)
(* number past int32 is another budget, or none.                           *)
RefusedOnlyWhenSpent ==
  [][\A g \in Goroutines :
       pc[g] = "load" /\ pc'[g] = "idle" => granted >= Budget]_budgetVars
=============================================================================
