SPECIFICATION Spec
CONSTANTS
  MemoryMaps <- MCMemoryMaps
  Reserved <- MCReserved
  Boot <- MCBoot
  PageSize = 2
  MaxPages = 9
  WordBits = 4
  Fanout = 2
  Virts = {0, 2, 3, 8}
  MaxHeld = 2
INVARIANTS CountExact OnlyUsable TablesOwned MapExact
