SPECIFICATION Spec
CONSTANTS
  h1 = h1
  h2 = h2
  d1 = d1
  d2 = d2
  d3 = d3
  NoKey = NoKey
  Keys = {h1, h2, d1, d2, d3}
  Honest = {h1, h2}
  Reports = {"right", "wrong"}
  Valid = {"right"}
  V = 4
  ValidatorSets <- MCValidatorSets
  MaxEpoch = 4
  MaxVerdicts = 2
  MaxCulprits = 2
  MaxFaults = 1
INVARIANT VerdictsDisjoint
INVARIANT VerdictsTruthful
INVARIANT HonestNeverPunished
INVARIANT OffendersExpelled
