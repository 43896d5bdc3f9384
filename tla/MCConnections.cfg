SPECIFICATION MCSpec
CONSTANTS
  ConfigValue <- MCConfigValue
  Profile <- MCProfile
  ConfigEdit <- MCConfigEdit
  RegistryEdit <- MCRegistryEdit
  MaxSaves = 2
  None = none
  MaxLabelLen = 3
  MaxNameLen = 8
  MaxRecordTtl = 2
  RtcPartition = {p1, p2}
  Candidate <- MCCandidate
  MdnsName = {m1, m2, m3}
  Query <- MCQuery
  Response <- MCResponse
  SystemAnswer <- MCSystemAnswer
  MaxRetries = 1
SYMMETRY Symmetry
CONSTRAINT OneFile
INVARIANTS
  SavedFileLoads
  StrictStaysOnDoh
  DohAddressIsPublic
  StrictHandshakeHolds
  CandidatesHideTheLan
