SPECIFICATION SwitchSpec
CONSTANTS
  None = None
  Others = Others
  s1 = s1
  a = a
  Account = {a}
  Session = {s1}
  MaxTrouble = 3
  AtOnce = 1
CHECK_DEADLOCK FALSE
PROPERTY OnlyFailedRedone
