SPECIFICATION FairSpec
CONSTANTS
  MAX_UNITS = 2
  OUTPUT_BUFFER_SIZE = 2
  GSM_MAX_BYTES_SEND = 2
  EVENT_QUEUE_SIZE = 8
  COMMAND_LIMIT = 2
  MAX_FAULTS = 1
  MAX_INBOX = 1
  QUERY_ACK_COUNT_LIMIT = 0
INVARIANTS TypeOK NothingGivenUp BatchInBuffer NothingOvertakes NoLoss 
PROPERTIES ImplementsStream DrainsOrAbandons
CHECK_DEADLOCK FALSE
