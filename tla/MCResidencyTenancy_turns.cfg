\* The app used in turns by three users: one phone at a time, until its writes are applied.
SPECIFICATION SerialSpec
CONSTANTS
  u1 = u1  u2 = u2  u3 = u3  h1 = h1  h2 = h2  h3 = h3
  dishes = dishes  default = default  Null = Null
  Users <- MCUsers
  Houses <- MCHouses
  Tasks <- MCTasks
  DefaultTask <- default
  BeforeDefault = {}
  Passwords = {"pw", "pw2"}
  InitialHomes <- MCSomeHouse
  InitialTasks <- MCDishes
  InitialStock = 0
  FirstWeek = 3
  LastWeek = 5
  WeeksInYear = 4
  Killable = {}
  Offline = {}
  Diners = {}
  MaxUnsent = 0
INVARIANTS RecordsAgree NoPartialHouse NeverStuck OwnHouseNotShown LabelIsOwn
PROPERTIES MovesAreAtomic HouseNotReplaced
SYMMETRY MCSymmetry
