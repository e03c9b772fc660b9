SPECIFICATION FairSpec
CONSTANTS
  Bootstrap = 2
  Period = 1
  Idle = 3
  Ttls = {3, 7}
  DefaultTtl = 5
  VolumeGb = 15
  RootGbs = {12, 13, 15}
  MaxReboots = 2
  MaxUptime = 12
CHECK_DEADLOCK FALSE
INVARIANTS TypeOK JobsAreSpared NoJobOnShortDisk UnclaimedIsShort LaterBootsAreShort TtlIsKept
PROPERTIES VmEnds
