SPECIFICATION CampaignSpec
CONSTANTS
  OrderedLaws <- MCLaws
  Log2 = 9
  Configs <- MCConfigs
  TimedLaw = "timed"
  UntimedLaw = "no_path"
  FigureLaws = {"late", "unresolved"}
  ProfileLaw = "late"
  Tau <- MCTau
  ForeignTau <- MCForeignTau
  Passes = 2
INVARIANTS LoadedStudyExpands CellsFindTheirEntry EvidenceGateClosedOnlyFor PublishedUnderFigureContract
  FailureIsPublished
CHECK_DEADLOCK FALSE
