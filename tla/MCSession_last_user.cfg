\* A user without a house logs in after one with a house.
SPECIFICATION SessionSpec
CONSTANTS
  u1 = u1  u2 = u2  u3 = u3  u4 = u4  h1 = h1
  dishes = dishes  default = default  Null = Null
  Users <- MCUsers
  Houses <- MCHouses
  Tasks <- MCTasks
  DefaultTask <- default
  BeforeDefault = {}
  Passwords = {"pw"}
  InitialHomes <- MCOneHouse
  InitialTasks = {}
  InitialStock = 0
  FirstWeek = 1
  LastWeek = 1
  WeeksInYear = 52
  Killable = {}
  Offline = {}
  Diners = {}
  MaxUnsent = 0
  Sharers <- MCSharers
  Newcomers = {}
INVARIANTS RoomMatesOnly
