SPECIFICATION Spec
CONSTANTS
  MemoryMaps <- MCMemoryMaps
  Reserved <- MCReserved
  Boot <- MCBoot
  PageSize = 2
  MaxPages = 9
  WordBits = 4
  Fanout = 2
  Virts = {2, 8}
  MaxHeld = 9
INVARIANT OutOfMemoryTrue
