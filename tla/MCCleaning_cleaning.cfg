\* Two phones saving and restarting schedules over the turn of a year of "53" weeks.
SPECIFICATION CleaningSpec
CONSTANTS
  u1 = u1  u2 = u2  h1 = h1
  dishes = dishes  default = default  Null = Null
  Users <- MCUsers
  Houses <- MCHouses
  Tasks <- MCTasks
  DefaultTask <- default
  BeforeDefault = {}
  Passwords = {"pw"}
  InitialHomes <- MCSomeHouse
  InitialTasks <- MCDishes
  InitialStock = 0
  FirstWeek = 2
  LastWeek = 5
  WeeksInYear = 4
  Planners <- MCUsers
  LastSegment = 3
  MaxDraft = 1
  Killable = {}
  Offline = {}
  Diners = {}
  MaxUnsent = 0
INVARIANTS CleaningTypeOK SchedulesSurvive
PROPERTIES TrapCauses ScheduleCoversWeek NewScheduleStarts
SYMMETRY MCSymmetry
