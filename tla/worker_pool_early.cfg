\* The input ends while the pool is still growing.
CONSTANTS
  MaxSpawn = 2
  MaxWorkers = 2
SPECIFICATION Spec
INVARIANTS EndAfterDeath
