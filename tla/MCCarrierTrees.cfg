SPECIFICATION Spec
CONSTANTS
  Initial <- MCInitial
  Asset <- MCAsset
  Lab <- MCLab
  Preserved <- MCPreserved
  BundleName <- MCBundleName
  AllowedName <- MCAllowedName
  MaxInstalls = 3
INVARIANT TypeOK
PROPERTIES
  ScopeRespected
  NothingLost
  RestoreExact
  PlainTreesReturn
  ReadbackSeesLinks
  ReportIsCurrent
CHECK_DEADLOCK FALSE
