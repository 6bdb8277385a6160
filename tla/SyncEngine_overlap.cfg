SPECIFICATION Spec
CONSTANTS
    live = live
    manual = manual
    later = later
    k1 = k1
    k2 = k2
    m1 = m1
    m2 = m2
    m3 = m3
    boot = boot
    Call = {live}
    Key = {k1, k2}
    NoKey = NoKey
    KeyOf <- MCKeyOf
    Message = {m1, m2, m3}
    MessagesOf <- MCMessagesOf
    ByteSize <- MCByteSize
    Flusher = {alarm, capture}
    MaxItems = 1
    MaxBytes = 3
    MaxAttempts = 3
    FlushLimit = 2
    MaxFaults = 2
    Conflicts = TRUE
    Expiry = TRUE
    Refusals = TRUE
SYMMETRY MCSymmetry
INVARIANTS GivenUpAfterTries
CHECK_DEADLOCK FALSE
