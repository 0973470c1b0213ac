SPECIFICATION FairSpec
CONSTANTS
  Tasks = {t1, t2, t3}
  InitCount = 1
  MaxExtraUps = 1
INVARIANTS
  NoLostWakeup
PROPERTIES
  ImplementsPV
  DownReturns
