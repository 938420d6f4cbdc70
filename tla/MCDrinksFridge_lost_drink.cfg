\* Two flatmates drink at the same time.
SPECIFICATION DrinksSpec
CONSTANTS
  u1 = u1  u2 = u2  h1 = h1
  dishes = dishes  default = default  Null = Null
  Users <- MCUsers
  Houses <- MCHouses
  Tasks <- MCTasks
  DefaultTask <- default
  BeforeDefault = {}
  Passwords = {"pw"}
  InitialHomes <- MCTogether
  InitialTasks = {}
  InitialStock = 2
  FirstWeek = 1
  LastWeek = 1
  WeeksInYear = 52
  Killable = {}
  Offline = {}
  Diners = {}
  MaxUnsent = 0
  Crate = 2
  MaxBought = 0
  MaxChange = 0
  MaxCount = 2
  MaxDebt = 1
INVARIANTS NoDrinkLost
