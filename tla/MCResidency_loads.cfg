\* Two phones that share a house, over the turn of a year.
SPECIFICATION Spec
CONSTANTS
  u1 = u1  u2 = u2  h1 = h1  h2 = h2  h3 = h3
  dishes = dishes  default = default  Null = Null
  Users <- MCUsers
  Houses <- MCOneHouse
  Tasks <- MCTasks
  DefaultTask <- default
  BeforeDefault = {}
  Passwords = {"pw"}
  InitialHomes <- MCNewcomer
  InitialTasks <- MCDishes
  InitialStock = 0
  FirstWeek = 2
  LastWeek = 4
  WeeksInYear = 3
  Killable = {}
  Offline = {}
  Diners = {}
  MaxUnsent = 0
PROPERTIES LoadsEnd
