SPECIFICATION Spec
CONSTANTS
  a = a
  b = b
  good = good
  tampered = tampered
  publisher = publisher
  root = root
  Extension = {a, b}
  Version <- MCVersion
  Garbled = garbled
  Xpi = {good, tampered}
  Key = {publisher, root}
  FormatVersion = 1
  RootKey = root
  Installer = {i1, i2}
  Idle = idle
  CandidateFile <- MCCandidateFile
  ManifestFile <- MCManifestFile
  SeedManifest <- MCSeed
INVARIANTS
  RecallMissedOnlyByRace
PROPERTIES
  NoSilentDisable
