SPECIFICATION TabFairSpec
CONSTANTS
    ca = ca
    cb = cb
    a1 = a1
    Conv = {ca, cb}
    NoConv = NoConv
    Msg = {a1}
    Home <- MCHome
    MaxText = 2
    Job = {j1, j2}
    Top = 1
    MaxScrolls = 1
    MaxMoves = 2
    MaxFlips = 1
INVARIANTS LiveOwnConversation
PROPERTIES SettledIsEmitted ParkedTabRevives PauseReaches BackfillEnds
CHECK_DEADLOCK FALSE
