CONSTANTS
  MaxDiv = 2046
  BaseClks = {50000000, 200000000}
  Requests = {400000, 50000000, 200000000}
  Clk100MHz = 100000000
SPECIFICATION Spec
INVARIANT RecordedRateIsProgrammed
