SPECIFICATION SessionsSpec
CONSTANTS
  Null = Null
  Users = {ann}
  Slots = {r1, r2}
  Life = 2
  MaxNow = 3
  MaxRows = 4
INVARIANT SessionsDoNotFork
INVARIANT BreachReachesAll
PROPERTY SessionBoardSpec
SYMMETRY SlotSymmetry
