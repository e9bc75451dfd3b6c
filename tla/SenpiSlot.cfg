CONSTANTS
  None = None
  Account = {a, b}
  MaxGen = 2
  MaxConsecutive = 1
  MaxTrouble = 3
SPECIFICATION FairSlotSpec
INVARIANT ResumesBounded
PROPERTIES CondemnsTheGuilty Recovers
