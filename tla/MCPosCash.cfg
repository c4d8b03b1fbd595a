SPECIFICATION FairSpec
CONSTANTS
  ana = ana
  bob = bob
  monday = monday
  r1 = r1
  r2 = r2
  Cashiers = {ana, bob}
  Days = {monday}
  Requests = {r1, r2}
  Amounts = {1}
  Changes = {1}
  MaxSessions = 2
  MaxMovements = 3
  MaxCuts = 1
INVARIANTS BooksBalance LateBookingsAreExcused SecondSessionOnlyByRace
PROPERTIES CloseIsFinal CutCountsDrawer EveryRequestEnds
CHECK_DEADLOCK FALSE
