\* Every search over four episodes of two namespaces with a pool of two.
SPECIFICATION Spec
CONSTANTS
  Tokens = {"ab", "c", "Km"}
  Hash <- MCHash
  Dim = 4
  Episodes = {1, 2, 3, 4}
  Wordless = {4}
  Long = {"ab", "Km"}
  Named = {"Km"}
  Pool = 2
  RrfK = 4
  Scale = 20
  Share <- MCShare
  Limits <- MCLimits
  MaxTokens = 2
INVARIANTS TypeOK SeveralChannelsRise BetterComesFirst NothingHidden RaisesOnlyOnWordless
\* A search ends.
CHECK_DEADLOCK FALSE
