SPECIFICATION FairSpec
CONSTANTS
  PacketSize = 5
  HeaderSize = 2
  BufferMax = 50
  rtcm_timeout = 2
  reconnect_attempt_max = 2
  nmea_send_failed_max = 2
  read_zero_bytes_max = 2
  MaxPackets = 2
  MaxBreaks = 2
INVARIANTS IdleIsAccepted GivesUpAtTheLast
PROPERTIES WholeIsPublished BrokenIsReplaced
CHECK_DEADLOCK FALSE
