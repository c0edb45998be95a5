\* every request of up to five shares, validated and then calculated
CONSTANTS
  MaxShares    = 5
  Amounts      <- MCAmounts
  Values       <- MCValues
  Percentages  <- MCPercentages
  Floats       <- MCFloats
  FloatHundred = 16
  Plus         <- MCPlus
  Decimal      <- MCDecimal
  Hundred      = 48
  DecimalLimit = 50
  Orders       <- MCOrders
  None         = None
SPECIFICATION Spec
INVARIANTS
  TypeOK
  FailsOnlyOffHundred
  EqualSplitIsEven
  AmountsAreKept
  PercentagesAreClose
