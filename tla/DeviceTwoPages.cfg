\* Two browsers: one shows the page of a stopped device, the other starts it.
SPECIFICATION Spec
CONSTANTS
  Browsers = {b1, b2}
  Channels = {37, 38, 11}
  Addresses = {"a1"}
  Flash <- StatusVectors
  Faults = {}
  MaxPowerCycles = 0
INVARIANT TunedAsShown
