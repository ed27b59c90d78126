SPECIFICATION FairSpec
CONSTANTS
  MAX_UNITS = 3
  OUTPUT_BUFFER_SIZE = 3
  GSM_MAX_BYTES_SEND = 2
  EVENT_QUEUE_SIZE = 6
  COMMAND_LIMIT = 2
  MAX_FAULTS = 1
INVARIANTS TypeOK NothingGivenUp BatchInBuffer NothingOvertakes NoLoss
PROPERTIES ImplementsStream Drains
CHECK_DEADLOCK FALSE
