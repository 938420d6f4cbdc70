\* Logging in and out on one phone, with one user's connection and registration lost and newcomers elsewhere.
SPECIFICATION SessionSpec
CONSTANTS
  u1 = u1  u2 = u2  u3 = u3  u4 = u4  h1 = h1
  dishes = dishes  default = default  Null = Null
  Users <- MCUsers
  Houses <- MCHouses
  Tasks <- MCTasks
  DefaultTask <- default
  BeforeDefault = {}
  Passwords = {"pw"}
  InitialHomes <- MCOneHouse
  InitialTasks = {}
  InitialStock = 0
  FirstWeek = 1
  LastWeek = 1
  WeeksInYear = 52
  Killable = {u1}
  Offline = {u1}
  Diners <- MCSharers
  MaxUnsent = 0
  Sharers <- MCSharers
  Newcomers = {u4}
INVARIANTS SessionTypeOK WritesAreOwn HouseIsOwn
PROPERTIES SessionTraps
