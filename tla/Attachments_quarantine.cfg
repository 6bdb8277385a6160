SPECIFICATION FairSpec
CONSTANTS
    a1 = a1
    photo = photo
    chart = chart
    script = script
    None = None
    Attachment = {a1}
    Body = {photo, chart, script}
    SizeOf <- MCSizeOf
    Allowed = {photo, chart}
    Tagged = {photo}
    MaxInits = 3
    MaxAttempts = 2
    MaxFaults = 2
INVARIANTS CleanVerified QuarantineHasJob
PROPERTY Settles
CHECK_DEADLOCK FALSE
