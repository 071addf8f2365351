SPECIFICATION Spec
CONSTANT
  MaxNumber = 99999
INVARIANTS
  AcceptsLuhnNumbers
  MistypedDigitNoticed
  SwappedDigitsNoticed
CHECK_DEADLOCK FALSE
