SPECIFICATION Spec
CONSTANTS
  Session = {s1,s2}
  NoToken = NoToken
  Token = {t1, t2, t3}
  MaxDrops = 0
  MaxDisables = 0
INVARIANT SetupMintsOnce
