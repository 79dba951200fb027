SPECIFICATION FairSpec
CONSTANTS
    MaxServers = 2
    Budget = 2
INVARIANTS
    LinkCountExact
    CountFollowsReports
    ApReportNotOpposite
    NtpRoundReported
    NeverBlocked
PROPERTIES
    RoundHasLink
    NtpResumes
    LostLinkUncounted
    SettingsTaken
CHECK_DEADLOCK FALSE
