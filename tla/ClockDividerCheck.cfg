CONSTANTS
  MaxDiv = 2046
  BaseClks = {50000000, 100000000, 200000000}
  Quotients = {1, 2, 3, 4, 5, 7, 8, 16, 125, 250, 256, 500, 511, 512, 513, 1000, 1024, 2000, 2043, 2044, 2045, 2046, 2047, 2048}
SPECIFICATION Spec
INVARIANT NeverOverclocks
INVARIANT FastestFit
