\* One browser.  Its page may not arrive, a request may be repeated, and the
\* status vector in flash may say running; each fault alone, all, or none.
SPECIFICATION FairSpec
CONSTANTS
  Browsers = {b1}
  Channels = {37, 11}
  Addresses = {"a1"}
  Flash <- StatusVectors
  Faults = {"reload", "lost", "autostart"}
  MaxPowerCycles = 1
INVARIANTS
  RadioFollowsCommands
  TunedAsShown
  StatusIsTrue
PROPERTIES
  RestartsAreAsked
  BootEnds
  CaptureResumes
