SPECIFICATION FairSpec
CONSTANTS
    c1 = c1
    c2 = c2
    m1 = m1
    matter = matter
    Conversation = {c1, c2}
    Message = {m1}
    ConvOf <- MCConvOf
    Hold = {matter}
    ScopeOf <- MCScopeOf
    Kind = "curated_training_jsonl"
    Splits <- MCSplits
    SplitOf <- MCSplitOf
    MaxSweeps = 2
    MaxReviews = 1
    MaxFaults = 1
INVARIANTS HeldKept ManifestMatches
PROPERTIES HoldDecided TwoStages
CHECK_DEADLOCK FALSE
