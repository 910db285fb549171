SPECIFICATION UpgradeSpec
CONSTANTS
  k1 = k1
  k2 = k2
  acc1 = acc1
  acc2 = acc2
  acc3 = acc3
  NoAccount = NoAccount
  Account = {acc1, acc2, acc3}
  Id = {1, 2, 3}
  Key = {k1, k2}
  Databases <- OldFiles
  MaxOps = 4
INVARIANT
  LimpsForCause
PROPERTY
  UpgradeIsWhole
CHECK_DEADLOCK FALSE
