SPECIFICATION FairSpec
CONSTANTS
    alarm = alarm
    capture = capture
    employee = employee
    Caller = {alarm, capture}
    User = {employee}
    MaxSessions = 3
    MaxFaults = 1
INVARIANTS SpentStaysSpent StoredUsable RevocationFinal
PROPERTY DeadSessionLeaves
CHECK_DEADLOCK FALSE
