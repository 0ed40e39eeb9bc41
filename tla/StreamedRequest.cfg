SPECIFICATION MCSpec
CONSTANTS
  plain = plain
  first = first
  second = second
  Requests = {plain, first, second}
  Streams = {first, second}
  Creds = {c1, c2}
  Cooling = {c1, c2}
  Retries <- MCRetries
  MaxCreds <- MCMaxCreds
  MaxWait = 2
  Hints = {1}
  Backoff = 2
  Fault = 3
  None = None
  Calls <- MCCalls
  Fronts = {"direct", "responses", "completions", "cli", "images", "collect", "socket"}
  MaxRetries = 1
  MaxChunks = 2
INVARIANTS
  TypeOK
  RetryFindsCredential
  OutcomeCounted
  RelayTypeOK
  OneAnswer
  EndTold
  ToldAsCounted
PROPERTIES
  RequestEnds
  StreamEnds
CHECK_DEADLOCK FALSE
