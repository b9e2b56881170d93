CONSTANTS
  Cases <- AllCases
  ApiKeys = {"k1"}
  Headers <- AllHeaders
  Records <- AllRecords
  RefundEvents <- AllRefunds
  Transfers <- AllTransfers
  Steps = {0, 1, 100}
  MaxMoves = 3
SPECIFICATION Spec
CHECK_DEADLOCK FALSE
INVARIANTS ScenariosAreRecognised RecordsHaveOnePath
PROPERTIES AnswersAreMonotone MovedMoneyIsConserved
