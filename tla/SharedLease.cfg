CONSTANTS
  None = None
  Account = {a, b}
  Request = {r1, r2}
  Operator = {o1}
  MaxGen = 2
  MaxTrouble = 3
SPECIFICATION RelaySpec
INVARIANT RelayInv
PROPERTIES NoStampede NeverSendsDead RequestsAnswered
