SPECIFICATION TransferSpec
CONSTANTS
  BlockSize = 2
  Models <- MCModels
  strlen <- MCStrlen
  Capacity = 2
  MaxKilled = 1
INVARIANTS
  TransferTypeOK
  NothingRejected
  ConfigArrives
  WeightsInPlace
  PartsMakeTheModel
  RootIsLast
PROPERTY
  TransferEnds
CHECK_DEADLOCK FALSE
