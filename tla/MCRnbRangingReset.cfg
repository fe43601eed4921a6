SPECIFICATION Spec
CONSTANTS
  low = low
  high = high
  isr = isr
  Contexts = {low, high, isr}
  Rank <- MCRank
  Handlers = {isr}
  MaxFrequency = 7000
INVARIANTS ResetOnlyDrivenByReset
