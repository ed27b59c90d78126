SPECIFICATION Spec
CONSTANTS
  MAX_UNITS = 1
  OUTPUT_BUFFER_SIZE = 1
  GSM_MAX_BYTES_SEND = 1
  EVENT_QUEUE_SIZE = 4
  COMMAND_LIMIT = 2
  MAX_FAULTS = 0
  MAX_INBOX = 0
  ZeroCounters = FALSE
  SleepWhenNothingToSend = TRUE
  AT_RETRY_LIMIT = 0
  QUERY_ACK_COUNT_LIMIT = 0
  MAX_SMS = 0
  MAX_CALLS = 1
  AppCalls <- MCPowerOff
PROPERTIES OffDuringSleep
CHECK_DEADLOCK FALSE
