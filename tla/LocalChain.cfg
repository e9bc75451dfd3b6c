CONSTANTS
  None = None
  Account = {a, b}
  MaxGen = 3
  MaxTrouble = 1
SPECIFICATION ChainSpec
INVARIANTS TipKept NoForeignToken BrandedTruly
