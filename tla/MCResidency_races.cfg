\* Two phones at any interleaving; all writes arrive.
SPECIFICATION Spec
CONSTANTS
  u1 = u1  u2 = u2  h1 = h1  h2 = h2  h3 = h3
  dishes = dishes  default = default  Null = Null
  Users <- MCUsers
  Houses <- MCHouses
  Tasks <- MCTasks
  DefaultTask <- default
  BeforeDefault = {}
  Passwords = {"pw"}
  InitialHomes <- MCSomeHouse
  InitialTasks = {}
  InitialStock = 0
  FirstWeek = 1
  LastWeek = 1
  WeeksInYear = 52
  Killable = {}
  Offline = {}
  Diners = {}
  MaxUnsent = 0
INVARIANTS TypeOK AtMostOneHouse ListedAtHome HomeCacheFresh SuccessMeansMoved
PROPERTIES RemovedByItsOwn
SYMMETRY MCSymmetry
