SPECIFICATION FairSpec
CONSTANTS
  Session = {s1, s2}
  NoToken = NoToken
  Token = {t1, t2, t3}
  MaxDrops = 1
  MaxDisables = 1
INVARIANTS OnlyLossLeavesTokenUnshown
PROPERTIES ConnectKeepsToken OwnerGetsToken
