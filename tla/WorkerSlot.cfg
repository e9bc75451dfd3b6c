CONSTANTS
  None = None
  Keeper = keeper
  Account = {a, b}
  Session = {s1}
  Panel = {o1}
  MaxGen = 2
  MaxTrouble = 2
SPECIFICATION FairWorkerSpec
PROPERTIES PinGivenUpRightly PinTakesHold NotBricked
