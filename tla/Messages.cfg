\* Bytes of three bits, two of them a varint's; words of three to eleven bits.
CONSTANTS
  Group = 2
  Bits8 = 3
  Bits16 = 5
  Bits32 = 7
  Bits64 = 11
  FlagBits = 2
  FlagWords = 2
  Types <- Descriptions
  Cases <- Messages
  Inputs <- Fed
  Spare <- Room
SPECIFICATION Spec
INVARIANTS MessagesArrive
CHECK_DEADLOCK FALSE
