CONSTANTS
  MaxCmds = 3
  LineRetries = 2
  MaxCmdRetry = 2
  MaxTransRetry = 2
  Kinds <- MCKinds
  ErrBits <- MCErrBits
  Classified <- MCClassified
SPECIFICATION Spec
INVARIANT TypeOK
INVARIANT NoDmaFromFreedTable
PROPERTY NoCommandOverlap
PROPERTY SendCommandReturns
PROPERTY RefinesCommandSpec
