CONSTANTS
  Workers = {w1, w2}
  AssetPoolIds <- MCAssetPoolIds
  KeyOrder <- MCKeyOrder
  MaxIterations = 2

SPECIFICATION Spec

INVARIANT
  TypeOK

PROPERTY
  EveryLoanScanned
  CursorRefined
