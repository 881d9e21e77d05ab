SPECIFICATION PoolSpec
CONSTANTS
  Capacity = 7
  Width = 3
  None = None
INVARIANTS PoolTypeOK PaddingClear
PROPERTY PoolIsSet
