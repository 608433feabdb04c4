SPECIFICATION Spec
CONSTANTS
  chat1 = chat1
  stream = stream
  embedding = embedding
  chat2 = chat2
  Requests = {chat1, chat2, stream, embedding}
  Captured = {chat1, chat2, stream}
  Responses = {stream}
  Streaming = {stream}
  Bare = {embedding}
  Keys = {chat1, chat2, stream, embedding}
  KeyOf <- OwnKey
  MaxPending = 2
  None = None
INVARIANTS
  TypeOK
  OneReportEach
  NoCaptureOutlivesItsAnswer
  FallbackAloneHarmless
CHECK_DEADLOCK FALSE
