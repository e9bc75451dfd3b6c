SPECIFICATION SwitchSpec
CONSTANTS
  None = None
  Others = Others
  s1 = s1
  a = a
  b = b
  Account = {a, b}
  Session = {s1}
  MaxTrouble = 2
  AtOnce = 2
CHECK_DEADLOCK FALSE
INVARIANT SwitchInv
PROPERTY ComesToRest
