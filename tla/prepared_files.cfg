SPECIFICATION FilesSpec
CONSTANTS
  FinestBands = 4
  Datasets <- MCDatasets
  Configs <- MCConfigs
  Laws <- MCLaws
  Horizons = {2, 4}
  Partitions = {2}
  NoFile = NoFile
  Damaged = Damaged
  MaxMishaps = 3
  Writer = {w1, w2}
  Value = {v1, v2}
  NoEntry = NoEntry
  MaxVersions = 3
  MaxAccidents = 2
INVARIANTS CurrentMeansPrepared EveryRowAccountedFor NeverTorn ReturnedIsDurable
SYMMETRY MCSymmetry
