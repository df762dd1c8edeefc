CONSTANTS
  Call <- MCCall
  Queueable <- MCQueueable
  NArgs <- MCNArgs
  HostArgs <- MCHostArgs
  GuestWords <- MCGuestWords
  HostWords <- MCHostWords
  Stores <- MCStores
  ReadWords <- MCReadWords
  FIRST_FIFO = 24
  MAX_FIFO = 32
  MAX_DATA = 7
  AreaWords = 12
  MaxCalls = 5
SPECIFICATION Spec
PROPERTY ReadBackAlwaysOwn
CHECK_DEADLOCK FALSE
