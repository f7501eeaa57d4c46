SPECIFICATION MCTableSpec
CONSTANTS
  AddrMod = 300
  MaxBreakpoints = 3
  TypedAddresses = {0, 1, 128, 256, 299}
INVARIANTS
  TableTypeOK
  NoDuplicates
PROPERTY IsList
