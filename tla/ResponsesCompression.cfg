SPECIFICATION Spec
CONSTANTS
  log = log
  table = table
  prose = prose
  note = note
  None = None
  Texts = {log, table, prose, note}
  Bytes <- MCBytes
  Compress <- MCCompress
  CallIds = {"a"}
  MinBytes = 2
  ToolsBefore = 7
  ToolsAfter = 3
  MaxItems = 3
INVARIANTS
  TypeOK
  ResultMatchesPayload
  RetrievalsAreVerbatim
PROPERTY
  ProviderPrefixKept
