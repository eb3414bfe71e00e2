SPECIFICATION DialogSpec
CONSTANTS
    availableLanguages <- MCLanguages
    Files <- MCFiles
    Types = {"select", "rank", "text"}
    Labels = {"a"}
    URLs = {"u"}
    MaxChoices = 3
    MaxEdits = 4
INVARIANTS UniformRoundTrip
PROPERTIES SavedRankFits RankDeleteExact
CHECK_DEADLOCK FALSE
