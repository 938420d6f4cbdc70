\* Two flatmates, and the week turning while the app is open.
SPECIFICATION CleaningSpec
CONSTANTS
  u1 = u1  u2 = u2  h1 = h1
  dishes = dishes  default = default  Null = Null
  Users <- MCUsers
  Houses <- MCHouses
  Tasks <- MCTasks
  DefaultTask <- default
  BeforeDefault = {}
  Passwords = {"pw"}
  InitialHomes <- MCTogether
  InitialTasks <- MCDishes
  InitialStock = 0
  FirstWeek = 1
  LastWeek = 4
  WeeksInYear = 4
  Planners <- MCUsers
  LastSegment = 4
  MaxDraft = 1
  Killable = {}
  Offline = {}
  Diners = {}
  MaxUnsent = 0
PROPERTIES CurrentWeekSelected
