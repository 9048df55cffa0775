CONSTANTS
  HSI_VALUE = 16000
  HSE_VALUE = 25000
  WordMod = 4294967
  Plls <- MCPlls
SPECIFICATION Spec
INVARIANTS
  MatchesClock
  NeverTooLow
