SPECIFICATION Spec
CONSTANTS
  ByteMod = 16
  WindowMod = 4
  LengthMod = 4
  SeqnumMod = 4
  LineBytes = 2
  StampBytes = 1
  CrcBytes = 2
  MaxPayload = 2
  Crc <- Crc8
  PayloadBytes = {0, 6}
  Stamps = {3, 12}
INVARIANTS IntactAccepted DamageRejected AcceptedRepacks
CHECK_DEADLOCK FALSE
