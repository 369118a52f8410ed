SPECIFICATION FairSpec
CONSTANTS
    Known <- MCKnown
    Bots <- MCBots
    Channels = {"amz", "other"}
    Words = {"ceo", "ok", "approve"}
    MaxIterations = 2
    StepLimits = {4, 5, 6}
    MaxMentions = 1
    MaxPosts = 2
    MaxSaid = 1
    MaxCalls = 2
    MaxLines = 1
    MaxFaults = 1
INVARIANTS
    StudioKept
    AnswersMatch
PROPERTIES
    CascadeEnds
CHECK_DEADLOCK FALSE
