SPECIFICATION Spec
CONSTANTS
  MAX_UNITS = 3
  OUTPUT_BUFFER_SIZE = 3
  GSM_MAX_BYTES_SEND = 2
  EVENT_QUEUE_SIZE = 4
  COMMAND_LIMIT = 2
  MAX_FAULTS = 2
  MAX_INBOX = 0
  ZeroCounters = FALSE
  SleepWhenNothingToSend = TRUE
  AT_RETRY_LIMIT = 0
  QUERY_ACK_COUNT_LIMIT = 0
  MAX_SMS = 0
  MAX_CALLS = 0
  AppCalls <- MCNoCalls
INVARIANTS TypeOK BufferOrder BatchWithinBuffer NoLoss NoHole
PROPERTIES ImplementsStream
CHECK_DEADLOCK FALSE
