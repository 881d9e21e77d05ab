SPECIFICATION NPSpec
CONSTANTS
  Names = {"a", "b"}
  NUL = NUL
  MaxLen = 7
INVARIANTS NPTypeOK UnreadIntact MatchesReference Settled
