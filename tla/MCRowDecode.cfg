SPECIFICATION Spec
CONSTANTS
  Loads <- AllLoads
  Lower <- LowerCase
  NumberOf <- NumberWords
  SafeWords <- Plain
  MaxRow = 46
  MaxField = 42
  MaxColumns = 3
  BatchRows = 2
  BatchBytes = 3
  Null = Null
INVARIANTS ColumnsRecovered RowsAgree RowsAreStored BatchIsValid BatchIsBounded SubstitutionsAreCounted IInv
CHECK_DEADLOCK FALSE
