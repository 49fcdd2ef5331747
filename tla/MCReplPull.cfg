SPECIFICATION FairSpec
CONSTANTS
  Total = 2
  PageSize = 2
  WantBudget = 1
  Lead = 2
  BufCap = 1
  ServeBudget = 1
  Preview = 1
  Asks = {n1, n2}
  NoAsk = NoAsk
  MaxBuf = 8
  MaxDown = 3
  MaxLoss = 1
  MaxEarly = 1
  MaxCulls = 1
  MaxRestarts = 1
INVARIANTS TypeOK StampMeansOutstanding KarnsRule BytesMeetTheirWait
PROPERTIES Completes ArrivedPageLands
