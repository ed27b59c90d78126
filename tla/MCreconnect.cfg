SPECIFICATION Spec
CONSTANTS
  MAX_UNITS = 1
  OUTPUT_BUFFER_SIZE = 1
  GSM_MAX_BYTES_SEND = 1
  EVENT_QUEUE_SIZE = 6
  COMMAND_LIMIT = 2
  MAX_FAULTS = 1
  MAX_INBOX = 0
  QUERY_ACK_COUNT_LIMIT = 0
INVARIANTS OpensWithAddress
CHECK_DEADLOCK FALSE
