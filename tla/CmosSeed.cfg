CONSTANTS
    Contents = {"a/game", "b/other", "none"}
    StemOf <- MCStemOf
    Models = {"fmtmarty", "fmtownsux"}
    MaxStarts = 3
SPECIFICATION SeedSpec
INVARIANTS OwnCopyIsWhole FileIsFound
PROPERTY NeverOverwritten
