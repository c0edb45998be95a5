\* the docstring's claim that the plan is a minimal set of transfers
CONSTANTS
  Users   <- MinimalUsers
  Amounts <- MinimalAmounts
SPECIFICATION Spec
INVARIANT PlanIsMinimal
