\* Two users of the Drinks tab in turns.
SPECIFICATION SerialDrinksSpec
CONSTANTS
  u1 = u1  u2 = u2  h1 = h1
  dishes = dishes  default = default  Null = Null
  Users <- MCUsers
  Houses <- MCHouses
  Tasks <- MCTasks
  DefaultTask <- default
  BeforeDefault = {}
  Passwords = {"pw"}
  InitialHomes <- MCTogetherOrNot
  InitialTasks = {}
  InitialStock = 1
  FirstWeek = 1
  LastWeek = 1
  WeeksInYear = 52
  Killable = {}
  Offline = {}
  Diners = {}
  MaxUnsent = 0
  Crate = 2
  MaxBought = 2
  MaxChange = 2
  MaxCount = 2
  MaxDebt = 1
INVARIANTS DrinksTypeOK BarShowsStock
PROPERTIES FridgeKept OverdrawnByCorrection DrinksTraps
