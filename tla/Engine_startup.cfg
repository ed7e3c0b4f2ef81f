SPECIFICATION FairSpec
CONSTANTS
  Protocols <- NoProtocol
  Rules <- OneRule
  Conns = {c1, c2}
  MaxFiles = 3
  MaxOutbox = 1
  CommandLines <- SomeServices
  MayLose <- OneOfEach
INVARIANTS TypeOK RegistriesComplete LogsInOrder LogTellsTruth PanicOnRecord
PROPERTIES ServesAllOrEnds LogfilesAreClosed
CHECK_DEADLOCK FALSE
