\* Growing, shrinking and ending in any order.
CONSTANTS
  MaxSpawn = 4
  MaxWorkers = 3
SPECIFICATION FairSpec
INVARIANTS TypeOK KillDiscipline EndAfterDeathOnceSized
PROPERTIES EndIsCalled WorkersReaped
