SPECIFICATION Spec
CONSTANTS
  MAX_UNITS = 1
  OUTPUT_BUFFER_SIZE = 1
  GSM_MAX_BYTES_SEND = 1
  EVENT_QUEUE_SIZE = 8
  COMMAND_LIMIT = 2
  MAX_FAULTS = 1
  MAX_INBOX = 2
  ZeroCounters = FALSE
  SleepWhenNothingToSend = FALSE
  AT_RETRY_LIMIT = 0
  QUERY_ACK_COUNT_LIMIT = 0
  MAX_SMS = 0
  MAX_CALLS = 0
  AppCalls <- MCNoCalls
INVARIANTS NoLostWakeup
CHECK_DEADLOCK FALSE
