\* Two flatmates move out at the same time.
SPECIFICATION Spec
CONSTANTS
  u1 = u1  u2 = u2  h1 = h1  h2 = h2  h3 = h3
  dishes = dishes  default = default  Null = Null
  Users <- MCUsers
  Houses <- MCThreeHouses
  Tasks <- MCTasks
  DefaultTask <- default
  BeforeDefault = {}
  Passwords = {"pw"}
  InitialHomes <- MCFlatmates
  InitialTasks = {}
  InitialStock = 0
  FirstWeek = 1
  LastWeek = 1
  WeeksInYear = 52
  Killable = {}
  Offline = {}
  Diners = {}
  MaxUnsent = 0
INVARIANTS EmptyHouseGoes
