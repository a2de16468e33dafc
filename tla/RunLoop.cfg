CONSTANTS
    CycleMod = 32
    Budgets <- SmallBudgets
    Costs <- MCCosts
    MaxCost = 7
    MaxConsumed = 40
SPECIFICATION FairSpec
PROPERTIES BudgetMet RunTerminates
