SPECIFICATION ChatSpec
CONSTANTS
  Caller = {t1, ingest}
  Turn = {t1}
  Visit = {v1}
  Estimate = {1}
  Cap = 2
  Overrun = 1
  MaxHour = 1
  MaxCrashes = 1
  MaxRetries = 1
INVARIANTS TallyAccounts AdmittedFitsCap TurnsAreWhole RowsCountEveryCall OpenerComesFirst
PROPERTIES EveryTurnEnds
