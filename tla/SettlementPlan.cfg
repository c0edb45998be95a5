\* the settlement loop over every list of four small balances
CONSTANTS
  Users   <- MCUsers
  Amounts <- MCAmounts
SPECIFICATION Spec
INVARIANTS
  TypeOK
  NoCentLost
  LeftoverIsImbalance
  OneSideSettled
  FewerTransfersThanUsers
  PlanIsOverlapPlan
PROPERTIES
  Terminates
  ImplementsTransfers
