SPECIFICATION SlotSpec
CONSTANTS
  a = a
  b = b
  c = c
  Account = {a, b, c}
  None = None
  ApiKey = ApiKey
  Unreadable = Unreadable
  Allow = {}
  MaxGen = 2
  MaxTrouble = 2
PROPERTY WritesTheNewest
