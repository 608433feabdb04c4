SPECIFICATION Spec
CONSTANTS
  chat1 = chat1
  chat2 = chat2
  stream = stream
  embedding = embedding
  Requests = {chat1, embedding}
  Captured = {chat1}
  Responses = {chat1}
  Streaming = {}
  Bare = {}
  Keys = {chat1, embedding}
  KeyOf <- OwnKey
  MaxPending = 2
  None = None
INVARIANTS
  Correlated
CHECK_DEADLOCK FALSE
