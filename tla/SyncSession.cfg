SPECIFICATION Spec
CONSTANTS
  MaxRetries = 2
  MaxId = 3
INVARIANTS TypeOK OneSession StopIsFinal RouterServesOwner VerdictWhenDone
PROPERTIES OnlyOwnerPublishes VerdictStays StopTakesEffect
