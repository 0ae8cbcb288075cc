SPECIFICATION JobSpec
CONSTANTS
    Slow <- MCSlow
    Treasury <- MCTreasury
    Volatile <- MCVolatile
    Inverted <- MCInverted
    Neutral <- MCNeutral
    Meetings <- MCMeetings
    RecentBlocks = FALSE
    ArchivesRead = 2
    ShortMove = 1
    LongMoves = {2, 3}
    AtrPeriods = 2
    Modes <- MCModes
    Starts <- MCStarts
    News <- MCNews
    Tracked <- MCTracked
    Changes <- MCChanges
    Outages <- MCOutages
    Views <- MCViews
    Texts <- MCTexts
    Answers <- MCAnswers
    Graphs <- MCGraphs
    Reviews <- MCReviews
    FirstDays <- MCFirstDays
    LastDay = 9
    Sources <- MCSources
    Releases <- MCReleases
    MaxRuns = 2
    MaxNews = 1
INVARIANTS
    JobTypes
    DirectionHasFreshInputs
PROPERTY
    LockFollowsMacro
CHECK_DEADLOCK FALSE
