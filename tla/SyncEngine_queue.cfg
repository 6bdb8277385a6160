SPECIFICATION FairSpec
CONSTANTS
    live = live
    manual = manual
    later = later
    k1 = k1
    k2 = k2
    m1 = m1
    m2 = m2
    m3 = m3
    boot = boot
    Call = {live, later}
    Key = {k1, k2}
    NoKey = NoKey
    KeyOf <- MCKeyOf
    Message = {m1, m2, m3}
    MessagesOf <- MCMessagesOf
    ByteSize <- MCByteSize
    Flusher = {alarm}
    MaxItems = 1
    MaxBytes = 3
    MaxAttempts = 2
    FlushLimit = 2
    MaxFaults = 1
    Conflicts = FALSE
    Expiry = FALSE
    Refusals = FALSE
INVARIANTS QueueBounded Durable
PROPERTY Delivered
CHECK_DEADLOCK FALSE
