\* Ring memory on 4096-byte boundaries, as the MMIO binding hands out.
CONSTANTS
  Nums <- MCNums
  NULL = NULL
  Aligns = {2, 4, 16, 4096}
  Addrs = {0, 4096, 8192}
SPECIFICATION MCSpec
INVARIANT VringSizeFormula RingLayoutSound NeedEventMatchesWindow IdentLookupsMatchTables
