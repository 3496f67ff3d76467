SPECIFICATION Spec
CONSTANTS
  Names = {ann, bob}
  Readers = {report}
  CacheSize = 2
  MaxSaves = 2
INVARIANTS
  IndexNamesWholeFiles
  NamesAreOwn
  NearestIsReported
PROPERTIES
  LibrarySpec
CHECK_DEADLOCK FALSE
