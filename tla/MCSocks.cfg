\* main's start-up and the two server goroutines with four accepted
\* connections and three temporary Accept errors.
CONSTANTS
    MaxAccepts = 4
    MaxRetries = 3
SPECIFICATION Spec
INVARIANT TypeOK
INVARIANT MainExitsLast
CHECK_DEADLOCK FALSE
