------------------------------- MODULE Budget -------------------------------
(***************************************************************************)
(* The token and money budget of a run: GlobalBudgetManager, shared by     *)
(* every TokenTracker of the process. A budget is [tokens, cost]; prices   *)
(* are integers (the code's, scaled), so that 0.00125 : 0.01 : 0.01 per    *)
(* thousand tokens becomes 1 : 8 : 8.                                      *)
(***************************************************************************)
EXTENDS Integers, FiniteSets

CONSTANTS
    MaxTokens,      \* max_total_tokens
    MaxCost,        \* max_total_cost
    InputPrice,     \* of the model in use, per token
    OutputPrice,
    EstimatePrice,  \* the "conservative estimate" of check_budget_limits
    Calls           \* LLM calls that may happen: [est, input, output]

ASSUME BudgetAssumption ==
    /\ MaxTokens \in Nat \ {0}
    /\ MaxCost \in Nat
    /\ InputPrice \in Nat /\ OutputPrice \in Nat /\ EstimatePrice \in Nat
    /\ Calls \subseteq [est : Nat, input : Nat, output : Nat]

\* GlobalBudgetManager.reset, then a new instance.
FreshBudget == [tokens |-> 0, cost |-> 0]

BudgetType == [tokens : Nat, cost : Nat]

\* check_budget_limits: would a prompt of est tokens still fit?
WithinBudget(b, est) ==
    /\ b.tokens + est <= MaxTokens
    /\ b.cost + est * EstimatePrice <= MaxCost

\* log_token_usage, once the response is there.
Charge(b, call) ==
    [tokens |-> b.tokens + call.input + call.output,
     cost   |-> b.cost + call.input * InputPrice + call.output * OutputPrice]
=============================================================================
