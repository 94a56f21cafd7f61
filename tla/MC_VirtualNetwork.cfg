CONSTANTS
  Rev <- MCRev
  Size <- MCSize
  UpdateId <- MCUpdateId
  NSlots = 2
  MaxChunks = 2
  MaxFlight = 2
  Address <- MCAddress
  Kind <- MCKind
  Group <- MCGroup
  Assigned <- MCAssigned
  Settings <- MCSettings
  NetifSlots = 3
SPECIFICATION SSpec
INVARIANTS
  TypeOK
  AddressesFollow
  ErasesPresent
  EntryPerAddress
  SubscribesReported
  RestartResumes
PROPERTIES
  AdoptsWhole
  Heals
