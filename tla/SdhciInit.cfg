CONSTANTS
  MaxInits = 2
  InitPower = {FALSE, TRUE}
SPECIFICATION Spec
INVARIANT TypeOK
INVARIANT CapsDecoded
PROPERTY InitReturns
