SPECIFICATION Spec
CONSTANTS
  Devices = {d1, d2}
  LastMonth = 1
  MonthLen = 2
  Retention = 0
  MaxReportWindow = 2
  MaxTime = 5
  MaxSeq = 2
  MaxPeriods = 2
  MaxOpen = 1
  MaxRaw = 1
SYMMETRY Symmetry
CHECK_DEADLOCK FALSE
INVARIANTS TypeOK ReportExact ReportAvailable RevocableUnlessCheckpointed InvoiceExact
