SPECIFICATION Spec
CONSTANTS
  a = a
  b = b
  Comp = {a, b}
  MaxLen = 3
  Group = {1, 2}
  Unlimited = 100
  RecursionLimit = 7
  MaxCalls = 2
  Expr <- Expressions
CHECK_DEADLOCK FALSE
INVARIANTS TypeOK MatchesTheLanguage BackReferencesAgree
