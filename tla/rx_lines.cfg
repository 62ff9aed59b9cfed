\* Three bytes a line, an rbuff of five, two disturbances among six lines.
SPECIFICATION Spec
CONSTANTS
  Channels <- MCChannels
  BodyLen = 3
  MinLen = 1
  RSize = 5
  MaxLines = 6
  MaxEvents = 2
INVARIANTS TypeOK InSync DeliveredInOrder DamageBounded
CHECK_DEADLOCK FALSE
