SPECIFICATION FairSpec
CONSTANTS
  Size = 5
  Byte <- Bytes
  Blank = 255
  Half = 3
  NoRequest = NoRequest
  Pages = 2
  Images = {v1}
  Factory = factory
  NoImage = NoImage
  Slots = {1}
  GoldenPages = 2
  DELUGE_REBOOT_DELAY = 1
INVARIANTS
  BootTypeOK
  RunsIntendedImage
  GestureTakesResets
PROPERTIES
  ImplementsAtomicFlash
  EventuallyRuns
